------------------------------ MODULE BodyLogMC ------------------------------
(* Small instances of BodyLog. *)
EXTENDS BodyLog, TLC

Bytes(n, end) == [data |-> [i \in 1 .. n |-> i], end |-> end]

Call(via, body) ==
    [via |-> via, body |-> body, bodiless |-> FALSE, duplex |-> FALSE, replay |-> TRUE, skip |-> FALSE,
     fails |-> "none", form |-> FALSE, type |-> "text", length |-> Len(body.data), target |-> TRUE]

Get == [Call("helper", Bytes(0, "eof")) EXCEPT !.type = "none", !.bodiless = TRUE]
Post(n) == Call("helper", Bytes(n, "eof"))
Form(n) == [Post(n) EXCEPT !.form = TRUE, !.type = "form"]
Do(n, end) == [Call("client", Bytes(n, end)) EXCEPT !.replay = FALSE]

\* A form of unknown length, and a body of known length that waits for the server.
StreamedForm == [Do(2, "eof") EXCEPT !.duplex = TRUE, !.length = -1, !.form = TRUE]
Stalling == [Do(2, "eof") EXCEPT !.duplex = TRUE]

SomeAsks ==
    {Get, [Get EXCEPT !.target = FALSE], Post(2), [Post(2) EXCEPT !.fails = "headers"],
     Form(2), [Form(2) EXCEPT !.fails = "open"], [Form(2) EXCEPT !.fails = "form"],
     [Do(2, "eof") EXCEPT !.skip = TRUE], [Do(0, "eof") EXCEPT !.replay = TRUE],
     Do(3, "eof"), [Do(2, "error") EXCEPT !.type = "none", !.length = 1],
     [Do(3, "error") EXCEPT !.form = TRUE, !.length = -1],
     [Do(2, "eof") EXCEPT !.duplex = TRUE, !.length = -1],
     StreamedForm, Stalling}

Text(n, end, length) ==
    [retry |-> FALSE, body |-> Bytes(n, end), type |-> "text", length |-> length, decodes |-> TRUE]

SomeAnswers ==
    {Text(2, "eof", -1), [Text(3, "eof", 3) EXCEPT !.decodes = FALSE], Text(2, "error", 0),
     [Text(2, "eof", 2) EXCEPT !.retry = TRUE],
     [Text(2, "open", -1) EXCEPT !.type = "events"], Text(1, "open", -1), [Text(1, "eof", 1) EXCEPT !.type = "file"]}

LogLimits == {0, 1, 2}
=============================================================================
