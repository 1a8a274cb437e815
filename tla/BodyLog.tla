------------------------------- MODULE BodyLog -------------------------------
(***************************************************************************)
(* A call of a helper or of the shared client (src/http.go), the attempts  *)
(* Transport.RoundTrip makes for it, and the logging of bodies around each *)
(* (roundTripOnce and captureBody, src/transport.go), while others change  *)
(* the level and the limit of that logging.  What is captured for the log  *)
(* is read before the other side gets it.  A skipped call is not logged.   *)
(*                                                                         *)
(* The two ends and what passes between them are those of Exchange, which  *)
(* this module implements: logging is not to be noticed.  Which attempts   *)
(* are retried and when is in RoundTrip; here any that may be, and any     *)
(* retry may fail to start.                                                *)
(***************************************************************************)
EXTENDS Integers, Sequences

CONSTANTS
    Asks, Answers,  \* see Exchange
    Limits,         \* what SetBodyLogLimit may be called with
    MaxSettings,    \* bound: changes of the level or the limit
    DrainLimit      \* retryResponseDrainLimit

Streams == [data : Seq(Nat), end : {"eof", "error", "open"}]

\* A source that waits for the server has something to begin with.
ASSUME BodyLogAssumption ==
    /\ \A a \in Asks : a.body \in Streams /\ a.length \in Int /\ (a.duplex => a.body.data # <<>>)
    /\ \A a \in Answers : a.body \in Streams
    /\ Limits \subseteq Int
    /\ MaxSettings \in Nat
    /\ DrainLimit \in Nat

VARIABLES
    ask, attempt, given, received, answer, served, got, outcome,    \* see Exchange
    pc,         \* where the call is
    limit,      \* bodyLogLimit
    logging,    \* the logger is enabled at bodyLogLevel
    settings,   \* changes of these so far
    loud,       \* bodyLogEnabled of the attempt
    req, resp,  \* how what is left of a body is read, and the limit of its capture
    file,       \* the file of a form is open
    reqOpen,    \* request bodies not closed, by attempt
    respOpen,   \* response bodies not closed, by attempt
    logged      \* what was logged for this attempt: [side, data, cap]

ends == <<ask, given, received, answer, served, got>>
config == <<limit, logging, settings>>
capture == <<loud, req, resp, logged>>
held == <<file, reqOpen, respOpen>>
vars == <<ends, attempt, outcome, pc, config, capture, held>>

\* The phases of Exchange: captures happen before an attempt is sent and before
\* its answer is returned.
Phase ==
    CASE pc \in {"idle", "open", "form", "headers", "attempt"} -> "idle"
      [] pc \in {"ask", "limit request", "capture request"} -> "ready"
      [] pc \in {"response", "limit response", "capture response", "decide"} -> "answered"
      [] pc = "wait" -> "waiting"
      [] OTHER -> pc

Plain == INSTANCE Exchange WITH phase <- Phase

Stream(data, end) == Plain!Stream(data, end)

\* A reader gives what is held, then goes on with the stream from a position, or
\* ends; and it closes the body or not.
Original == [held |-> <<>>, at |-> 0, tail |-> "source", closes |-> TRUE, cap |-> 0]

Init ==
    /\ pc = "idle"
    /\ Plain!Init
    /\ limit \in {l \in Limits : l > 0}
    /\ logging \in BOOLEAN
    /\ settings = 0
    /\ loud = FALSE
    /\ req = Original
    /\ resp = Original
    /\ file = FALSE
    /\ reqOpen = {}
    /\ respOpen = {}
    /\ logged = {}

-----------------------------------------------------------------------------
(* Settings *)

\* Mutant: any limit is taken.
SetBodyLogLimitUnchecked(l) ==
    /\ limit' = l
    /\ UNCHANGED logging

SetBodyLogLimit(l) ==
    /\ l > 0
    /\ limit' = l
    /\ UNCHANGED logging

\* SetBodyLogLevel, or another level of the default logger.
SetBodyLogLevel ==
    /\ logging' = ~logging
    /\ UNCHANGED limit

Configure ==
    /\ settings < MaxSettings
    /\ settings' = settings + 1
    /\ SetBodyLogLevel \/ \E l \in Limits : SetBodyLogLimit(l)
    /\ UNCHANGED <<ends, attempt, outcome, pc, capture, held>>

-----------------------------------------------------------------------------
(* Before the call *)

Goto(step) == pc' = step

Return(o) ==
    /\ outcome' = o
    /\ Goto("done")

\* The body of attempt n, if the call has one.
Bodies(n) == IF ask.bodiless THEN {} ELSE {n}

\* A caller of the client has made its request; a helper's form opens its file,
\* the others have a body in memory.
Begin ==
    /\ pc = "idle"
    /\ \/ ask.via = "client" /\ Goto("attempt") /\ reqOpen' = Bodies(0)
       \/ /\ ask.via = "helper"
          /\ Goto(IF ask.form THEN "open" ELSE "headers")
          /\ UNCHANGED reqOpen
    /\ UNCHANGED <<ends, attempt, outcome, config, capture, file, respOpen>>

OpenFile ==
    /\ pc = "open"
    /\ \/ ask.fails = "open" /\ Return("refused") /\ UNCHANGED file
       \/ ask.fails # "open" /\ Goto("form") /\ file' = TRUE /\ UNCHANGED outcome
    /\ UNCHANGED <<ends, attempt, config, capture, reqOpen, respOpen>>

\* Mutant: only a form that could be written closes its file.
FileClosedIfWritten == IF ask.fails = "form" THEN file ELSE FALSE

\* The file is closed when the form is written, or cannot be.
FileClosed == FALSE

createMultipart ==
    /\ pc = "form"
    /\ file' = FileClosed
    /\ \/ ask.fails = "form" /\ Return("refused")
       \/ ask.fails # "form" /\ Goto("headers") /\ UNCHANGED outcome
    /\ UNCHANGED <<ends, attempt, config, capture, reqOpen, respOpen>>

\* The body is encoded, the request is made and its headers are set.
SetHeaders ==
    /\ pc = "headers"
    /\ \/ ask.fails = "headers" /\ Return("refused") /\ UNCHANGED reqOpen
       \/ /\ ask.fails # "headers"
          /\ Goto("attempt")
          /\ reqOpen' = Bodies(0)
          /\ UNCHANGED outcome
    /\ UNCHANGED <<ends, attempt, config, capture, file, respOpen>>

-----------------------------------------------------------------------------
(* Capturing a body for the log *)

\* Mutant: streams of events are read like any text.
shouldCaptureBodyOfEvents(type, length) == length <= limit /\ type \in {"text", "events"}

shouldCaptureBody(type, length) == length <= limit /\ type = "text"

\* Mutant: a body whose length is unknown is read like any other.
CapturesRequestUnknown ==
    /\ ~ask.bodiless
    /\ \/ ask.form
       \/ ask.type = "none" \/ shouldCaptureBody(ask.type, ask.length)

\* A form is read whatever its length, another body only if its length is known.
CapturesRequest ==
    /\ ~ask.bodiless
    /\ \/ ask.form
       \/ /\ ask.length >= 0
          /\ ask.type = "none" \/ shouldCaptureBody(ask.type, ask.length)

CapturesResponse ==
    /\ loud
    /\ answer.type # "file"
    /\ shouldCaptureBody(answer.type, answer.length)

TakeByte(from, r) == [r EXCEPT !.held = Append(@, from.data[r.at + 1]), !.at = @ + 1]

\* Up to one byte more than the limit is read.
CapturesByte(from, r) == Len(r.held) <= r.cap /\ r.at < Len(from.data)

\* The body is read to its end, or one byte over the limit.
Captured(from, r) == Len(r.held) = r.cap + 1 \/ (r.at = Len(from.data) /\ from.end # "open")

\* Mutant: an error while capturing is taken for the end.
ReplayedErrorLost(from, r) == [r EXCEPT !.tail = IF Len(r.held) > r.cap THEN "source" ELSE "eof"]

\* What replaces the body: what was captured, then the rest, the error or the end.
Replayed(from, r) == [r EXCEPT !.tail = IF Len(r.held) > r.cap THEN "source" ELSE from.end]

\* Mutant: what fits in the limit is logged, whole or not.
WholeOrCut(from, r) == from.end = "eof"

\* The whole body was captured.
Whole(from, r) == Len(r.held) <= r.cap /\ from.end = "eof"

Log(side, from, r) ==
    IF Whole(from, r) /\ logging
    THEN logged \cup {[side |-> side, data |-> r.held, cap |-> r.cap]}
    ELSE logged

-----------------------------------------------------------------------------
(* An attempt *)

\* The first attempt has the caller's body, the next ones get theirs of GetBody.
StartAttempt(n) ==
    /\ attempt' = n
    /\ given' = Plain!Offered(ask)
    /\ received' = Plain!Open
    /\ served' = Plain!Open
    /\ answer' = Plain!NoAnswer
    /\ req' = Original
    /\ resp' = Original
    /\ logged' = {}
    /\ reqOpen' = reqOpen \cup Bodies(n)
    /\ Goto("ask")
    /\ UNCHANGED <<ask, got, outcome, config, loud, file, respOpen>>

First == pc = "attempt" /\ StartAttempt(0)

\* bodyLogsEnabled is asked once for the attempt; a skipped call goes straight to
\* the wrapped RoundTripper.
Ask ==
    /\ pc = "ask"
    /\ loud' = (~ask.skip /\ logging)
    /\ Goto(IF loud' /\ CapturesRequest THEN "limit request" ELSE "sent")
    /\ UNCHANGED <<ends, attempt, outcome, config, req, resp, logged, held>>

\* The limit is read again.
LimitRequest ==
    /\ pc = "limit request"
    /\ req' = [req EXCEPT !.cap = limit]
    /\ Goto("capture request")
    /\ UNCHANGED <<ends, attempt, outcome, config, loud, resp, logged, held>>

CaptureRequest ==
    /\ pc = "capture request"
    /\ \/ /\ CapturesByte(given, req)
          /\ req' = TakeByte(given, req)
          /\ UNCHANGED <<pc, logged>>
       \/ /\ Captured(given, req)
          /\ req' = Replayed(given, req)
          /\ logged' = Log("request", given, req)
          /\ Goto("sent")
    /\ UNCHANGED <<ends, attempt, outcome, config, loud, resp, held>>

\* The next step of a reader, and what whoever reads has then.
CanRead(from, r, to) ==
    /\ to.end = "open"
    /\ \/ r.held # <<>> \/ r.tail # "source"
       \/ r.at < Len(from.data) \/ from.end # "open"

AfterRead(from, r) ==
    CASE r.held # <<>> -> [r EXCEPT !.held = Tail(@)]
      [] r.held = <<>> /\ r.tail = "source" /\ r.at < Len(from.data) -> [r EXCEPT !.at = @ + 1]
      [] OTHER -> r

HasRead(from, r, to) ==
    CASE r.held # <<>> -> [to EXCEPT !.data = Append(@, Head(r.held))]
      [] r.held = <<>> /\ r.tail # "source" -> [to EXCEPT !.end = r.tail]
      [] r.held = <<>> /\ r.tail = "source" /\ r.at < Len(from.data)
           -> [to EXCEPT !.data = Append(@, from.data[r.at + 1])]
      [] OTHER -> [to EXCEPT !.end = from.end]

PassRequest ==
    /\ pc = "sent"
    /\ CanRead(given, req, received)
    /\ req' = AfterRead(given, req)
    /\ received' = HasRead(given, req, received)
    /\ UNCHANGED <<ask, attempt, given, answer, served, got, outcome, pc, config, loud,
                   resp, logged, held>>

Offer ==
    /\ UNCHANGED <<pc, config, capture, held>>
    /\ Plain!Offer

\* Whatever the server has read, the wrapped RoundTripper closes the body.
RequestClosed == IF req.closes THEN reqOpen \ {attempt} ELSE reqOpen

Reply ==
    /\ pc = "sent"
    /\ answer' \in Answers
    /\ reqOpen' = RequestClosed
    /\ respOpen' = respOpen \cup {attempt}
    /\ Goto("response")
    /\ UNCHANGED <<ask, attempt, given, received, served, got, outcome, config, capture, file>>

\* An error, or the time of the attempt is over.
Fail ==
    /\ pc = "sent"
    /\ reqOpen' = RequestClosed
    /\ Goto("failed")
    /\ UNCHANGED <<ends, attempt, outcome, config, capture, file, respOpen>>

\* The body of the answer goes on.
Serve ==
    /\ UNCHANGED <<pc, config, capture, held>>
    /\ Plain!Serve

\* The connection is lost or the time of the attempt is over.
Break == Serve /\ served'.end = "error"

Response ==
    /\ pc = "response"
    /\ Goto(IF CapturesResponse THEN "limit response" ELSE "decide")
    /\ UNCHANGED <<ends, attempt, outcome, config, capture, held>>

LimitResponse ==
    /\ pc = "limit response"
    /\ resp' = [resp EXCEPT !.cap = limit]
    /\ Goto("capture response")
    /\ UNCHANGED <<ends, attempt, outcome, config, loud, req, logged, held>>

CaptureResponse ==
    /\ pc = "capture response"
    /\ \/ /\ CapturesByte(served, resp)
          /\ resp' = TakeByte(served, resp)
          /\ UNCHANGED <<pc, logged>>
       \/ /\ Captured(served, resp)
          /\ resp' = Replayed(served, resp)
          /\ logged' = Log("response", served, resp)
          /\ Goto("decide")
    /\ UNCHANGED <<ends, attempt, outcome, config, loud, req, held>>

-----------------------------------------------------------------------------
(* After the attempt *)

\* discardRetryResponse reads to the end, or more than its limit, and closes.
Drained ==
    \/ resp.tail \notin {"source"} \/ served.end # "open"
    \/ Len(served.data) > DrainLimit

ResponseClosed == IF resp.closes THEN respOpen \ {attempt} ELSE respOpen

\* The attempt is to be retried: its answer is drained and closed.
Retry ==
    /\ attempt < Plain!Retries(ask)
    /\ \/ pc = "failed" /\ UNCHANGED respOpen
       \/ pc = "decide" /\ answer.retry /\ Drained /\ respOpen' = ResponseClosed
    /\ Goto("wait")
    /\ UNCHANGED <<ends, attempt, outcome, config, capture, file, reqOpen>>

Again == pc = "wait" /\ StartAttempt(attempt + 1)

\* The wait is cut short, or GetBody fails.
GiveUp ==
    /\ pc = "wait"
    /\ Return("error")
    /\ UNCHANGED <<ends, attempt, config, capture, held>>

\* No time is left for an attempt. The first one's body, the caller's, is closed;
\* that of a retry has come from GetBody before the time is looked at.
NoTime ==
    /\ \/ pc = "attempt" /\ ~ask.skip /\ reqOpen' = reqOpen \ {attempt}
       \/ pc = "wait" /\ reqOpen' = reqOpen \cup Bodies(attempt + 1)
    /\ Return("error")
    /\ UNCHANGED <<ends, attempt, config, capture, file, respOpen>>

ReturnAnswer ==
    /\ pc = "decide"
    /\ Goto("returned")
    /\ UNCHANGED <<ends, attempt, outcome, config, capture, held>>

ReturnError ==
    /\ pc = "failed"
    /\ Return("error")
    /\ UNCHANGED <<ends, attempt, config, capture, held>>

\* io.ReadAll of RespHandler, or a caller of the client.
PassResponse ==
    /\ pc = "returned"
    /\ ask.via = "helper" => ask.target
    /\ CanRead(served, resp, got)
    /\ resp' = AfterRead(served, resp)
    /\ got' = HasRead(served, resp, got)
    /\ UNCHANGED <<ask, attempt, given, received, answer, served, outcome, pc, config, loud,
                   req, logged, held>>

Close(o) ==
    /\ Return(o)
    /\ respOpen' = ResponseClosed
    /\ UNCHANGED <<ends, attempt, config, capture, file, reqOpen>>

\* Nothing to decode: the answer is discarded. Otherwise the body is closed
\* whether it could be read and decoded or not.
RespHandler ==
    /\ pc = "returned"
    /\ ask.via = "helper"
    /\ \/ ~ask.target /\ Drained /\ Close("status")
       \/ ask.target /\ got.end = "error" /\ Close("unreadable")
       \/ /\ ask.target /\ got.end = "eof"
          /\ Close(IF got.data = <<>> \/ answer.decodes THEN "decoded" ELSE "undecodable")

CloseByCaller ==
    /\ pc = "returned"
    /\ ask.via = "client"
    /\ Close("closed")

-----------------------------------------------------------------------------
\* What the goroutine of the call does by itself.
Run ==
    \/ Begin \/ OpenFile \/ createMultipart \/ SetHeaders
    \/ First \/ Ask \/ LimitRequest \/ CaptureRequest
    \/ Response \/ LimitResponse \/ CaptureResponse
    \/ Retry \/ Again \/ GiveUp \/ NoTime \/ ReturnAnswer \/ ReturnError \/ RespHandler
    \/ (ask.via = "helper" /\ PassResponse)

Next ==
    \/ Configure
    \/ Run \/ PassRequest \/ Offer \/ Reply \/ Fail \/ Serve
    \/ PassResponse \/ CloseByCaller

Spec == Init /\ [][Next]_vars

\* The call runs; an attempt that is not skipped ends in time, and so does its
\* answer. Nothing makes a server answer or go on.
Fairness ==
    /\ WF_vars(Run)
    /\ WF_vars(~ask.skip /\ Fail)
    /\ WF_vars(~ask.skip /\ Break)

FairSpec == Spec /\ Fairness

-----------------------------------------------------------------------------
(* Properties *)

\* Types of the call's state (http.go:151-165, 480-602; transport.go:294-453).
TypeOK ==
    /\ ask \in Asks
    /\ attempt \in 0 .. Plain!Retries(ask)
    /\ {given, received, served, got} \subseteq Streams
    /\ answer \in Answers \cup {Plain!NoAnswer}
    /\ limit \in Nat \ {0}
    /\ {logging, loud, file} \subseteq BOOLEAN
    /\ \A r \in {req, resp} : r.at \in Nat /\ r.tail \in {"source", "eof", "error"}
    /\ reqOpen \cup respOpen \subseteq 0 .. attempt + 1

\* Logging is not noticed at either end: with bodies captured or not, in memory
\* or over the limit, cut short or broken, and however the settings change
\* meanwhile, server and caller see what they would see without it
\* (captureBody, transport.go:414-432; CHANGELOG.md:98; usage.md, section 7.1).
ImplementsExchange == Plain!Spec

\* No more than a byte over the limit is kept for the log, and what is logged is
\* a whole body within the limit its capture began with
\* (transport.go:401-432; usage.md, section 7.1).
LoggedWhole ==
    /\ \A r \in {req, resp} : Len(r.held) <= r.cap + 1
    /\ \A l \in logged :
         /\ Len(l.data) <= l.cap
         /\ Stream(l.data, "eof") = IF l.side = "request" THEN ask.body ELSE answer.body

\* A call that returns has closed its file, the caller's body and every body of
\* each attempt it made, whether attempts were retried, bodies replaced for the log
\* or the answer could not be read or decoded. What stays open is the answer that a
\* caller of the client is to close, and the body that GetBody gave for a retry that
\* had no time left (http.go:480-573; transport.go:149-158, 220-229, 420-472).
Released ==
    /\ pc \in {"returned", "done"} => ~file
    /\ pc = "returned" => reqOpen = {} /\ respOpen = {attempt}
    /\ pc = "done" =>
           /\ respOpen = {}
           /\ reqOpen \subseteq {attempt + 1}
           /\ reqOpen # {} => outcome = "error" /\ attempt < Plain!Retries(ask)

\* What is not to be read ahead is not, whoever switches logging meanwhile: of a
\* body of unknown length that is no form, of a stream of events and of a skipped
\* call a byte leaves its source only when the other side reads it
\* (transport.go:69-78, 313-342, 401-404; usage.md:393).
StreamsUnread ==
    /\ ask.skip \/ (ask.length < 0 /\ ~ask.form) => req.at = Len(received.data)
    /\ ask.skip \/ answer.type = "events" => resp.at = Len(got.data)

\* A body that may be captured is read, without a context, before it is sent: a form
\* of any length, another body if its length is known (transport.go:313, 340-346). A
\* source that waits for the server then waits forever.
ReadsAhead ==
    /\ ask.duplex
    /\ ask.form \/ (ask.length >= 0 /\ ask.type \in {"none", "text"})

\* Where it reads nothing that waits for the server, logging never holds up a call:
\* one that has a timeout returns, whether or not the source of its body or the
\* server goes on; and what a skipped one, which has none, is answered it returns at
\* once (transport.go:69-78, 313-342, 401-404; usage.md, section 7.1).
EveryCallReturns ==
    /\ pc = "idle" /\ ~ask.skip /\ ~ReadsAhead ~> pc \in {"returned", "done"}
    /\ pc = "response" /\ ask.skip ~> pc \in {"returned", "done"}
=============================================================================
