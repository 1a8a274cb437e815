------------------------------- MODULE Exchange -------------------------------
(***************************************************************************)
(* A call of the client as its two ends see it: what the caller gives      *)
(* reaches the server at each attempt, what the server sends reaches the   *)
(* caller, byte by byte, in order, with the end or the error it ends in.   *)
(* There is no logging here; BodyLog has the calls and the logging as      *)
(* src/http.go and src/transport.go make them.                             *)
(***************************************************************************)
EXTENDS Naturals, Sequences

CONSTANTS
    Asks,       \* what a caller may ask
    Answers     \* what the server may answer

\* A stream: [data, end], end is "eof", "error", or "open" while it may go on.
Stream(data, end) == [data |-> data, end |-> end]
Nil == Stream(<<>>, "eof")
Open == Stream(<<>>, "open")

\* A call: [via, body, bodiless, duplex, replay, skip, fails, form, type, length,
\* target]: made by a helper or by the client; the body, whether there is none
\* (http.NoBody is one, an empty one), and whether its source goes on only when the
\* server has seen its beginning; whether it can be sent again; whether it skips
\* governance; where its preparation fails; whether it is a multipart form; what
\* Content-Type and Content-Length say; whether the caller wants the answer decoded.
\* An answer: [retry, body, type, length, decodes]: whether its status is one to
\* retry; an end "open" is a stream of events that goes on.

VARIABLES
    phase,      \* where the call is
    ask,        \* what it was asked
    attempt,    \* the number of the attempt, from 0
    given,      \* what the caller's body has given to this attempt
    received,   \* what the server has received of it
    answer,     \* the answer to this attempt
    served,     \* what has been sent of it
    got,        \* what the caller has received of it
    outcome     \* what the call returned

vars == <<phase, ask, attempt, given, received, answer, served, got, outcome>>

\* An attempt that has no answer yet.
NoAnswer == [retry |-> FALSE, body |-> Nil, type |-> "none", length |-> 0, decodes |-> FALSE]

Init ==
    /\ phase = "idle"
    /\ ask \in Asks
    /\ attempt = 0
    /\ given = Open
    /\ received = Open
    /\ answer = NoAnswer
    /\ served = Open
    /\ got = Open
    /\ outcome = "none"

\* One step of what is read reaches the reader.
CanPass(from, to) ==
    to.end = "open" /\ (Len(to.data) < Len(from.data) \/ from.end # "open")

Passed(from, to) ==
    IF Len(to.data) < Len(from.data)
    THEN [to EXCEPT !.data = Append(@, from.data[Len(@) + 1])]
    ELSE [to EXCEPT !.end = from.end]

\* What a fresh body gives at first.
Offered(a) == IF a.duplex THEN Stream(SubSeq(a.body.data, 1, 1), "open") ELSE a.body

Retries(a) == IF ~a.skip /\ (a.replay \/ a.bodiless) THEN 1 ELSE 0

-----------------------------------------------------------------------------
\* The call cannot be made; nothing is sent.
Refuse ==
    /\ phase = "idle"
    /\ phase' = "done"
    /\ outcome' = "refused"
    /\ UNCHANGED <<ask, attempt, given, received, answer, served, got>>

Prepare(n) ==
    /\ attempt' = n
    /\ given' = Offered(ask)
    /\ received' = Open
    /\ served' = Open
    /\ answer' = NoAnswer
    /\ phase' = "ready"
    /\ UNCHANGED <<ask, got, outcome>>

First == phase = "idle" /\ Prepare(0)

\* An attempt that failed, or was answered with a status to retry; its answer is
\* given up.
Retry ==
    /\ phase = "failed" \/ (phase = "answered" /\ answer.retry)
    /\ attempt < Retries(ask)
    /\ phase' = "waiting"
    /\ UNCHANGED <<ask, attempt, given, received, answer, served, got, outcome>>

Again == phase = "waiting" /\ Prepare(attempt + 1)

Send ==
    /\ phase = "ready"
    /\ phase' = "sent"
    /\ UNCHANGED <<ask, attempt, given, received, answer, served, got, outcome>>

\* The source of a body goes on.
Offer ==
    /\ phase = "sent"
    /\ ask.duplex /\ given.end = "open" /\ received.data # <<>>
    /\ given' = ask.body
    /\ UNCHANGED <<phase, ask, attempt, received, answer, served, got, outcome>>

PassRequest ==
    /\ phase = "sent"
    /\ CanPass(given, received)
    /\ received' = Passed(given, received)
    /\ UNCHANGED <<phase, ask, attempt, given, answer, served, got, outcome>>

Reply ==
    /\ phase = "sent"
    /\ answer' \in Answers
    /\ phase' = "answered"
    /\ UNCHANGED <<ask, attempt, given, received, served, got, outcome>>

Fail ==
    /\ phase = "sent"
    /\ phase' = "failed"
    /\ UNCHANGED <<ask, attempt, given, received, answer, served, got, outcome>>

\* The answer's body goes on, or breaks off.
Serve ==
    /\ phase \in {"answered", "returned"}
    /\ served' \in {Passed(answer.body, served), [served EXCEPT !.end = "error"]}
    /\ served.end = "open"
    /\ UNCHANGED <<phase, ask, attempt, given, received, answer, got, outcome>>

Return ==
    /\ phase = "answered"
    /\ phase' = "returned"
    /\ UNCHANGED <<ask, attempt, given, received, answer, served, got, outcome>>

PassResponse ==
    /\ phase = "returned"
    /\ CanPass(served, got)
    /\ got' = Passed(served, got)
    /\ UNCHANGED <<phase, ask, attempt, given, received, answer, served, outcome>>

\* The error of the last attempt, or of one that could not start; what became of
\* the answer; or a caller of the client closes the body whenever it likes.
Done(o) ==
    /\ phase' = "done"
    /\ outcome' = o
    /\ UNCHANGED <<ask, attempt, given, received, answer, served, got>>

Finish ==
    \/ phase \in {"failed", "waiting"} /\ Done("error")
    \/ phase = "idle" /\ ~ask.skip /\ Done("error")
    \/ phase = "returned" /\ ask.via = "client" /\ Done("closed")
    \/ /\ phase = "returned" /\ ask.via = "helper"
       /\ \/ ~ask.target /\ Done("status")
          \/ ask.target /\ got.end = "error" /\ Done("unreadable")
          \/ /\ ask.target /\ got.end = "eof"
             /\ Done(IF got.data = <<>> \/ answer.decodes THEN "decoded" ELSE "undecodable")

Next ==
    \/ Refuse \/ First \/ Retry \/ Again \/ Send \/ Offer \/ PassRequest \/ Reply \/ Fail
    \/ Serve \/ Return \/ PassResponse \/ Finish

Spec == Init /\ [][Next]_vars
=============================================================================
