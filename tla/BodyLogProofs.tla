---------------------------- MODULE BodyLogProofs ----------------------------
(***************************************************************************)
(* Logging is not noticed, for bodies of any length, any limits and any    *)
(* number of changes of the settings: each step of BodyLog is a step of    *)
(* Exchange or changes nothing its two ends can see.  And what a call      *)
(* opened is closed when it returns.                                       *)
(***************************************************************************)
EXTENDS BodyLog, SequenceTheorems, TLAPS

Steps ==
    {"idle", "open", "form", "headers", "attempt", "ask", "limit request", "capture request",
     "sent", "failed", "response", "limit response", "capture response", "decide",
     "wait", "returned", "done"}

Readers == [held : Seq(Nat), at : Nat, tail : {"source", "eof", "error"},
            closes : {TRUE}, cap : Nat]

CallTypes ==
    /\ pc \in Steps
    /\ ask \in Asks
    /\ attempt \in 0 .. Plain!Retries(ask)
    /\ answer \in Answers \cup {Plain!NoAnswer}
    /\ limit \in Nat \ {0}
    /\ {logging, loud, file} \subseteq BOOLEAN

StreamTypes ==
    /\ given \in Streams /\ received \in Streams
    /\ served \in Streams /\ got \in Streams
    /\ req \in Readers /\ resp \in Readers

-----------------------------------------------------------------------------
(* Bytes read and bytes held *)

\* Of the stream F, T has been read and H is held: it comes next, up to at.
Holds(F, T, H, at) ==
    /\ at = Len(T) + Len(H)
    /\ at <= Len(F)
    /\ \A i \in 1 .. Len(H) : H[i] = F[Len(T) + i]

\* What is held is read first.
LEMMA HeldNext ==
    ASSUME NEW F \in Seq(Nat), NEW T \in Seq(Nat), NEW H \in Seq(Nat), NEW at \in Nat,
           Holds(F, T, H, at), H # <<>>, NEW x \in Nat
    PROVE  /\ Len(T) < Len(F)
           /\ Head(H) = F[Len(T) + 1]
           /\ Tail(H) \in Seq(Nat)
           /\ Len(Tail(H)) < Len(H)
           /\ Holds(F, Append(T, x), Tail(H), at)
<1>1. Len(F) \in Nat /\ Len(T) \in Nat /\ Len(H) \in Nat \ {0}
  BY LenProperties, EmptySeq
<1>2. /\ Tail(H) \in Seq(Nat) /\ Len(Tail(H)) = Len(H) - 1
      /\ \A i \in 1 .. Len(Tail(H)) : Tail(H)[i] = H[i + 1]
  BY HeadTailProperties
<1>3. Len(Append(T, x)) = Len(T) + 1
  BY AppendProperties
<1>4. Head(H) = H[1]
  OBVIOUS
<1>5. Len(T) < Len(F) /\ Head(H) = F[Len(T) + 1]
  <2>1. Len(T) + Len(H) <= Len(F) /\ 1 \in 1 .. Len(H)
    BY <1>1 DEF Holds
  <2>2. Len(T) < Len(F)
    BY <1>1, <2>1
  <2> QED
    BY <1>4, <2>1, <2>2 DEF Holds
<1>6. ASSUME NEW i \in 1 .. Len(Tail(H))
      PROVE  Tail(H)[i] = F[Len(Append(T, x)) + i]
  <2>1. i + 1 \in 1 .. Len(H) /\ Len(T) + (i + 1) = Len(Append(T, x)) + i
    BY <1>1, <1>2, <1>3
  <2> QED
    BY <1>2, <2>1 DEF Holds
<1> QED
  BY <1>1, <1>2, <1>3, <1>5, <1>6 DEF Holds

\* With nothing held the stream itself is next.
LEMMA NothingHeldNext ==
    ASSUME NEW F \in Seq(Nat), NEW T \in Seq(Nat), NEW at \in Nat,
           Holds(F, T, <<>>, at), NEW x \in Nat
    PROVE  /\ at = Len(T)
           /\ at < Len(F) => Holds(F, Append(T, x), <<>>, at + 1)
<1>1. Len(F) \in Nat /\ Len(T) \in Nat /\ Len(<<>>) = 0
  BY LenProperties, EmptySeq
<1>2. Len(Append(T, x)) = Len(T) + 1
  BY AppendProperties
<1> QED
  BY <1>1, <1>2 DEF Holds

\* A byte taken is held after the others.
LEMMA HeldMore ==
    ASSUME NEW F \in Seq(Nat), NEW T \in Seq(Nat), NEW H \in Seq(Nat), NEW at \in Nat,
           Holds(F, T, H, at), at < Len(F)
    PROVE  /\ Append(H, F[at + 1]) \in Seq(Nat)
           /\ Len(Append(H, F[at + 1])) = Len(H) + 1
           /\ Holds(F, T, Append(H, F[at + 1]), at + 1)
<1>1. Len(F) \in Nat /\ Len(T) \in Nat /\ Len(H) \in Nat
  BY LenProperties
<1>2. F[at + 1] \in Nat
  BY <1>1, ElementOfSeq
<1>3. /\ Append(H, F[at + 1]) \in Seq(Nat)
      /\ Len(Append(H, F[at + 1])) = Len(H) + 1
      /\ \A i \in 1 .. Len(H) : Append(H, F[at + 1])[i] = H[i]
      /\ Append(H, F[at + 1])[Len(H) + 1] = F[at + 1]
  BY <1>2, AppendProperties
<1>4. ASSUME NEW i \in 1 .. Len(H) + 1
      PROVE  Append(H, F[at + 1])[i] = F[Len(T) + i]
  <2>1. i \in 1 .. Len(H) \/ i = Len(H) + 1
    BY <1>1
  <2> QED
    BY <1>1, <1>3, <2>1 DEF Holds
<1> QED
  BY <1>1, <1>3, <1>4 DEF Holds

\* A stream that is held to its end, from its beginning, is what is held.
LEMMA HeldWhole ==
    ASSUME NEW F \in Seq(Nat), NEW H \in Seq(Nat), NEW at \in Nat,
           Holds(F, <<>>, H, at), at = Len(F)
    PROVE  H = F
<1>1. Len(F) \in Nat /\ Len(H) \in Nat /\ Len(<<>>) = 0
  BY LenProperties, EmptySeq
<1>2. Len(H) = Len(F) /\ \A i \in 1 .. Len(H) : H[i] = F[i]
  BY <1>1 DEF Holds
<1> QED
  BY <1>2, SeqEqual

\* More of a stream changes nothing of what was read.
LEMMA HeldGrown ==
    ASSUME NEW F \in Seq(Nat), NEW G \in Seq(Nat), NEW T \in Seq(Nat), NEW H \in Seq(Nat),
           NEW at \in Nat, Holds(F, T, H, at),
           Len(F) <= Len(G), \A i \in 1 .. Len(F) : F[i] = G[i]
    PROVE  Holds(G, T, H, at)
<1>1. Len(F) \in Nat /\ Len(G) \in Nat /\ Len(T) \in Nat /\ Len(H) \in Nat
  BY LenProperties
<1>2. \A t, h, f \in Nat : t + h <= f => \A i \in 1 .. h : t + i \in 1 .. f
  OBVIOUS
<1>3. \A i \in 1 .. Len(H) : Len(T) + i \in 1 .. Len(F)
  BY <1>1, <1>2 DEF Holds
<1>4. \A i \in 1 .. Len(H) : H[i] = G[Len(T) + i]
  BY <1>3 DEF Holds
<1> QED
  BY <1>1, <1>4 DEF Holds

-----------------------------------------------------------------------------
(* A reader and the stream it reads *)

\* What is held comes next, and a reader that will not go on with the stream is
\* at its end and knows what that is.
Follows(from, r, to) ==
    /\ Holds(from.data, to.data, r.held, r.at)
    /\ r.tail # "source" => r.at = Len(from.data) /\ r.tail = from.end

LEMMA StreamFacts ==
    ASSUME NEW s \in Streams
    PROVE  /\ s.data \in Seq(Nat) /\ Len(s.data) \in Nat
           /\ s.end \in {"eof", "error", "open"}
BY LenProperties DEF Streams

LEMMA ReaderFacts ==
    ASSUME NEW r \in Readers
    PROVE  /\ r.held \in Seq(Nat) /\ Len(r.held) \in Nat
           /\ r.at \in Nat /\ r.cap \in Nat
           /\ r.tail \in {"source", "eof", "error"}
           /\ r.closes = TRUE
BY LenProperties DEF Readers

LEMMA StreamData ==
    ASSUME NEW s \in Streams, NEW d \in Seq(Nat)
    PROVE  LET n == [s EXCEPT !.data = d]
           IN  n \in Streams /\ n.data = d /\ n.end = s.end
BY DEF Streams

LEMMA ReaderHeld ==
    ASSUME NEW r \in Readers, NEW h \in Seq(Nat)
    PROVE  LET n == [r EXCEPT !.held = h]
           IN  n \in Readers /\ n.held = h /\ n.at = r.at /\ n.tail = r.tail /\ n.cap = r.cap
BY DEF Readers

LEMMA ReaderAt ==
    ASSUME NEW r \in Readers, NEW a \in Nat
    PROVE  LET n == [r EXCEPT !.at = a]
           IN  n \in Readers /\ n.held = r.held /\ n.at = a /\ n.tail = r.tail /\ n.cap = r.cap
BY DEF Readers

LEMMA ReaderCap ==
    ASSUME NEW r \in Readers, NEW c \in Nat
    PROVE  LET n == [r EXCEPT !.cap = c]
           IN  n \in Readers /\ n.held = r.held /\ n.at = r.at /\ n.tail = r.tail /\ n.cap = c
BY DEF Readers

\* A step of a reader that holds something gives the next of the stream.
LEMMA ReadHeld ==
    ASSUME NEW from \in Streams, NEW to \in Streams, NEW r \in Readers,
           Follows(from, r, to), CanRead(from, r, to), r.held # <<>>
    PROVE  /\ Plain!CanPass(from, to)
           /\ HasRead(from, r, to) = Plain!Passed(from, to)
           /\ HasRead(from, r, to) \in Streams
           /\ AfterRead(from, r) \in Readers
           /\ Follows(from, AfterRead(from, r), HasRead(from, r, to))
           /\ AfterRead(from, r).cap = r.cap
           /\ Len(r.held) <= r.cap + 1 => Len(AfterRead(from, r).held) <= r.cap + 1
<1> DEFINE next == Head(r.held)  rest == Tail(r.held)  longer == Append(to.data, next)
<1>1. /\ from.data \in Seq(Nat) /\ to.data \in Seq(Nat) /\ r.held \in Seq(Nat)
      /\ r.at \in Nat /\ Holds(from.data, to.data, r.held, r.at)
  BY StreamFacts, ReaderFacts DEF Follows
<1>2. next \in Nat /\ longer \in Seq(Nat)
  BY <1>1, HeadTailProperties, AppendProperties
<1>3. /\ Len(to.data) < Len(from.data)
      /\ next = from.data[Len(to.data) + 1]
      /\ rest \in Seq(Nat) /\ Len(rest) < Len(r.held)
      /\ Holds(from.data, longer, rest, r.at)
  BY <1>1, <1>2, HeldNext
<1>4. /\ HasRead(from, r, to) = [to EXCEPT !.data = longer]
      /\ AfterRead(from, r) = [r EXCEPT !.held = rest]
  BY DEF HasRead, AfterRead
<1>5. Plain!CanPass(from, to) /\ Plain!Passed(from, to) = [to EXCEPT !.data = longer]
  BY <1>3 DEF CanRead, Plain!CanPass, Plain!Passed
<1> HIDE DEF next, rest, longer
<1>6. /\ HasRead(from, r, to) \in Streams /\ HasRead(from, r, to).data = longer
      /\ AfterRead(from, r) \in Readers
      /\ AfterRead(from, r).held = rest /\ AfterRead(from, r).at = r.at
      /\ AfterRead(from, r).tail = r.tail /\ AfterRead(from, r).cap = r.cap
  BY <1>2, <1>3, <1>4, StreamData, ReaderHeld
<1>7. Follows(from, AfterRead(from, r), HasRead(from, r, to))
  BY <1>3, <1>6 DEF Follows
<1>8. Len(r.held) <= r.cap + 1 => Len(rest) <= r.cap + 1
  <2>1. Len(rest) \in Nat /\ Len(r.held) \in Nat /\ r.cap \in Nat
    BY <1>1, <1>3, LenProperties, ReaderFacts
  <2> QED
    BY <1>3, <2>1
<1> QED
  BY <1>4, <1>5, <1>6, <1>7, <1>8

\* So does one that goes on with the stream.
LEMMA ReadSource ==
    ASSUME NEW from \in Streams, NEW to \in Streams, NEW r \in Readers,
           Follows(from, r, to), CanRead(from, r, to),
           r.held = <<>>, r.tail = "source", r.at < Len(from.data)
    PROVE  /\ Plain!CanPass(from, to)
           /\ HasRead(from, r, to) = Plain!Passed(from, to)
           /\ HasRead(from, r, to) \in Streams
           /\ AfterRead(from, r) \in Readers
           /\ Follows(from, AfterRead(from, r), HasRead(from, r, to))
           /\ AfterRead(from, r).cap = r.cap
           /\ AfterRead(from, r).held = r.held
<1> DEFINE next == from.data[r.at + 1]  longer == Append(to.data, next)  then == r.at + 1
<1>1. /\ from.data \in Seq(Nat) /\ to.data \in Seq(Nat) /\ Len(from.data) \in Nat
      /\ r.at \in Nat /\ Holds(from.data, to.data, <<>>, r.at)
  BY StreamFacts, ReaderFacts DEF Follows
<1>2. next \in Nat
  BY <1>1, ElementOfSeq
<1>3. longer \in Seq(Nat) /\ then \in Nat
  BY <1>1, <1>2, AppendProperties
<1>4. r.at = Len(to.data) /\ Holds(from.data, longer, <<>>, then)
  BY <1>1, <1>2, NothingHeldNext
<1>5. /\ HasRead(from, r, to) = [to EXCEPT !.data = longer]
      /\ AfterRead(from, r) = [r EXCEPT !.at = then]
  BY DEF HasRead, AfterRead
<1>6. Plain!CanPass(from, to) /\ Plain!Passed(from, to) = [to EXCEPT !.data = longer]
  BY <1>4 DEF CanRead, Plain!CanPass, Plain!Passed
<1> HIDE DEF next, longer, then
<1>7. /\ HasRead(from, r, to) \in Streams /\ HasRead(from, r, to).data = longer
      /\ AfterRead(from, r) \in Readers
      /\ AfterRead(from, r).held = <<>> /\ AfterRead(from, r).at = then
      /\ AfterRead(from, r).tail = "source" /\ AfterRead(from, r).cap = r.cap
  BY <1>3, <1>5, StreamData, ReaderAt
<1>8. Follows(from, AfterRead(from, r), HasRead(from, r, to))
  BY <1>4, <1>7 DEF Follows
<1> QED
  BY <1>5, <1>6, <1>7, <1>8

\* With nothing held and nothing to go on with it gives the end of the stream.
LEMMA ReadEnd ==
    ASSUME NEW from \in Streams, NEW to \in Streams, NEW r \in Readers,
           Follows(from, r, to), CanRead(from, r, to),
           r.held = <<>>, ~(r.tail = "source" /\ r.at < Len(from.data))
    PROVE  /\ Plain!CanPass(from, to)
           /\ HasRead(from, r, to) = Plain!Passed(from, to)
           /\ HasRead(from, r, to) \in Streams
           /\ AfterRead(from, r) = r
           /\ Follows(from, AfterRead(from, r), HasRead(from, r, to))
<1>1. /\ from.data \in Seq(Nat) /\ to.data \in Seq(Nat) /\ Len(from.data) \in Nat
      /\ Len(to.data) \in Nat /\ from.end \in {"eof", "error", "open"}
      /\ r.at \in Nat /\ Holds(from.data, to.data, <<>>, r.at)
      /\ r.tail \in {"source", "eof", "error"}
      /\ r.tail # "source" => r.at = Len(from.data) /\ r.tail = from.end
  BY StreamFacts, ReaderFacts DEF Follows
<1>2. r.at = Len(to.data)
  BY <1>1, NothingHeldNext, 0 \in Nat
<1>3. ~(Len(to.data) < Len(from.data)) /\ from.end # "open"
  BY <1>1, <1>2 DEF CanRead
<1>4. HasRead(from, r, to) = [to EXCEPT !.end = from.end] /\ AfterRead(from, r) = r
  BY <1>1 DEF HasRead, AfterRead
<1>5. /\ Plain!CanPass(from, to)
      /\ Plain!Passed(from, to) = [to EXCEPT !.end = from.end]
  BY <1>3 DEF CanRead, Plain!CanPass, Plain!Passed
<1>6. HasRead(from, r, to) \in Streams /\ HasRead(from, r, to).data = to.data
  BY <1>1, <1>4 DEF Streams
<1>7. Follows(from, AfterRead(from, r), HasRead(from, r, to))
  BY <1>4, <1>6 DEF Follows
<1> QED
  BY <1>4, <1>5, <1>6, <1>7

\* A step of a reader gives the next of the stream, as reading it does.
LEMMA ReadFollows ==
    ASSUME NEW from \in Streams, NEW to \in Streams, NEW r \in Readers,
           Follows(from, r, to), CanRead(from, r, to)
    PROVE  /\ Plain!CanPass(from, to)
           /\ HasRead(from, r, to) = Plain!Passed(from, to)
           /\ HasRead(from, r, to) \in Streams
           /\ AfterRead(from, r) \in Readers
           /\ Follows(from, AfterRead(from, r), HasRead(from, r, to))
           /\ AfterRead(from, r).cap = r.cap
           /\ Len(r.held) <= r.cap + 1 => Len(AfterRead(from, r).held) <= r.cap + 1
BY ReadHeld, ReadSource, ReadEnd

\* A byte taken for the log is the next of the stream, and is held.
LEMMA TakeFollows ==
    ASSUME NEW from \in Streams, NEW to \in Streams, NEW r \in Readers,
           Follows(from, r, to), r.tail = "source", CapturesByte(from, r)
    PROVE  /\ TakeByte(from, r) \in Readers
           /\ TakeByte(from, r).tail = "source"
           /\ TakeByte(from, r).cap = r.cap
           /\ Follows(from, TakeByte(from, r), to)
           /\ Len(TakeByte(from, r).held) <= r.cap + 1
<1> DEFINE more == Append(r.held, from.data[r.at + 1])  then == r.at + 1
<1>1. /\ from.data \in Seq(Nat) /\ to.data \in Seq(Nat) /\ r.held \in Seq(Nat)
      /\ Len(r.held) \in Nat /\ r.at \in Nat /\ r.cap \in Nat
  BY StreamFacts, ReaderFacts
<1>2. Holds(from.data, to.data, r.held, r.at) /\ Len(r.held) <= r.cap /\ r.at < Len(from.data)
  BY DEF Follows, CapturesByte
<1>3. /\ more \in Seq(Nat) /\ Len(more) = Len(r.held) + 1 /\ then \in Nat
      /\ Holds(from.data, to.data, more, then)
  BY <1>1, <1>2, HeldMore
<1>4. TakeByte(from, r) = [r EXCEPT !.held = more, !.at = then]
  BY DEF TakeByte
<1>5. Len(more) <= r.cap + 1
  BY <1>1, <1>2, <1>3
<1> HIDE DEF more, then
<1>6. /\ TakeByte(from, r) \in Readers
      /\ TakeByte(from, r).held = more /\ TakeByte(from, r).at = then
      /\ TakeByte(from, r).tail = r.tail /\ TakeByte(from, r).cap = r.cap
  BY <1>3, <1>4 DEF Readers
<1> QED
  BY <1>3, <1>5, <1>6 DEF Follows

\* What replaces a body captured gives the whole stream again; within the limit
\* the capture is the stream.
LEMMA ReplayFollows ==
    ASSUME NEW from \in Streams, NEW to \in Streams, NEW r \in Readers,
           Follows(from, r, to), r.tail = "source", Captured(from, r)
    PROVE  /\ Replayed(from, r) \in Readers
           /\ Replayed(from, r).held = r.held
           /\ Replayed(from, r).cap = r.cap
           /\ Follows(from, Replayed(from, r), to)
           /\ Whole(from, r) /\ to.data = <<>> => r.held = from.data
<1> DEFINE t == IF Len(r.held) > r.cap THEN "source" ELSE from.end
<1>1. /\ r.held \in Seq(Nat) /\ Len(r.held) \in Nat /\ r.at \in Nat /\ r.cap \in Nat
      /\ from.data \in Seq(Nat) /\ from.end \in {"eof", "error", "open"}
  BY StreamFacts, ReaderFacts
<1>2. Len(r.held) <= r.cap => r.at = Len(from.data) /\ from.end # "open"
  <2>1. Len(r.held) <= r.cap => Len(r.held) # r.cap + 1
    BY <1>1
  <2> QED
    BY <2>1 DEF Captured
<1>3. /\ t \in {"source", "eof", "error"}
      /\ t # "source" => r.at = Len(from.data) /\ t = from.end
  BY <1>1, <1>2
<1>4. Replayed(from, r) = [r EXCEPT !.tail = t]
  BY DEF Replayed
<1> HIDE DEF t
<1>5. /\ Replayed(from, r) \in Readers
      /\ Replayed(from, r).held = r.held /\ Replayed(from, r).at = r.at
      /\ Replayed(from, r).tail = t /\ Replayed(from, r).cap = r.cap
  BY <1>3, <1>4 DEF Readers
<1>6. Follows(from, Replayed(from, r), to)
  BY <1>3, <1>5 DEF Follows
<1>7. ASSUME Whole(from, r), to.data = <<>>
      PROVE  r.held = from.data
  <2>1. r.at = Len(from.data) /\ Holds(from.data, <<>>, r.held, r.at)
    BY <1>2, <1>7 DEF Whole, Follows
  <2> QED
    BY <1>1, <2>1, HeldWhole
<1> QED
  BY <1>5, <1>6, <1>7

\* One stream begins like another.
Begins(s, t) ==
    /\ Len(s.data) <= Len(t.data)
    /\ \A i \in 1 .. Len(s.data) : s.data[i] = t.data[i]

\* A stream that goes on is followed as before.
LEMMA GrownFollows ==
    ASSUME NEW from \in Streams, NEW more \in Streams, NEW to \in Streams, NEW r \in Readers,
           Follows(from, r, to), from.end = "open", Begins(from, more)
    PROVE  Follows(more, r, to)
<1>1. /\ from.data \in Seq(Nat) /\ more.data \in Seq(Nat) /\ to.data \in Seq(Nat)
      /\ r.held \in Seq(Nat) /\ r.at \in Nat /\ r.tail \in {"source", "eof", "error"}
  BY StreamFacts, ReaderFacts
<1>2. Holds(more.data, to.data, r.held, r.at)
  BY <1>1, HeldGrown DEF Follows, Begins
<1> QED
  BY <1>1, <1>2 DEF Follows

-----------------------------------------------------------------------------
(* The invariant *)

Starting == {"idle", "open", "form", "headers", "attempt"}
Sending == {"ask", "limit request", "capture request", "sent"}
Answering == {"response", "limit response", "capture response", "decide", "returned"}

\* The sources: a body is offered whole or begun, an answer is served from its
\* beginning.
Sources ==
    /\ given.end = "open" \/ given = ask.body
    /\ Begins(given, ask.body)
    /\ Begins(served, answer.body)
    /\ served.end = "eof" => served = answer.body

\* What each step of an attempt has not come to yet.
Fresh ==
    /\ pc \in {"ask", "limit request"} => req.held = <<>>
    /\ pc \in Sending \ {"sent"} => req.tail = "source" /\ received.data = <<>>
    /\ pc \in Sending => served = Plain!Open /\ \A l \in logged : l.side = "request"
    /\ pc \in Sending \cup {"response", "limit response"} => resp.held = <<>>
    /\ pc \in Sending \cup (Answering \ {"decide", "returned"}) => resp.tail = "source"
    /\ pc \notin {"returned", "done"} => got.data = <<>>

Followed == Follows(given, req, received) /\ Follows(served, resp, got)

\* What is open belongs to the attempt being made, or is the body of one that could
\* not be.
Owned ==
    /\ file => pc = "form"
    /\ pc \in Starting => attempt = 0
    /\ pc \in Sending \cup {"attempt"} => reqOpen = Bodies(attempt)
    /\ pc \notin Sending \cup {"attempt", "done"} => reqOpen = {}
    /\ pc = "wait" => attempt < Plain!Retries(ask)
    /\ pc = "done" =>
           /\ reqOpen \subseteq {attempt + 1}
           /\ reqOpen # {} => outcome = "error" /\ attempt < Plain!Retries(ask)
    /\ respOpen = IF pc \in Answering THEN {attempt} ELSE {}

Inv == CallTypes /\ StreamTypes /\ Sources /\ Fresh /\ Followed /\ LoggedWhole /\ Owned

-----------------------------------------------------------------------------
(* Streams *)

LEMMA Empty ==
    /\ <<>> \in Seq(Nat) /\ Len(<<>>) = 0
    /\ Plain!Open \in Streams /\ Plain!Open.data = <<>> /\ Plain!Open.end = "open"
    /\ Plain!Nil \in Streams
    /\ Original \in Readers /\ Original.held = <<>> /\ Original.at = 0
    /\ Original.tail = "source" /\ Original.cap = 0
<1>1. <<>> \in Seq(Nat) /\ Len(<<>>) = 0
  BY EmptySeq
<1> QED
  BY <1>1 DEF Plain!Open, Plain!Nil, Plain!Stream, Streams, Original, Readers

\* An empty stream begins like any other, and a stream begins like itself.
LEMMA BeginsFirst ==
    ASSUME NEW s \in Streams, NEW t \in Streams
    PROVE  Begins(s, s) /\ (s.data = <<>> => Begins(s, t))
<1>1. Len(s.data) \in Nat /\ Len(t.data) \in Nat
  BY StreamFacts
<1> QED
  BY <1>1, Empty DEF Begins

\* A fresh reader of a stream, of which nothing was read.
LEMMA FollowsFirst ==
    ASSUME NEW from \in Streams, NEW to \in Streams, to.data = <<>>
    PROVE  Follows(from, Original, to)
<1>1. Len(from.data) \in Nat
  BY StreamFacts
<1> QED
  BY <1>1, Empty DEF Follows, Holds

\* What a body offers at first is its beginning or all of it.
LEMMA OfferedFacts ==
    ASSUME NEW a \in Asks
    PROVE  LET g == Plain!Offered(a)
           IN  /\ a.body \in Streams
               /\ g \in Streams
               /\ g.end = "open" \/ g = a.body
               /\ Begins(g, a.body)
<1>1. a.body \in Streams /\ (a.duplex => a.body.data # <<>>)
  BY BodyLogAssumption
<1>2. a.body.data \in Seq(Nat) /\ Len(a.body.data) \in Nat
  BY <1>1, StreamFacts
<1>3. CASE a.duplex
  <2> DEFINE first == SubSeq(a.body.data, 1, 1)
  <2>1. Len(a.body.data) >= 1
    BY <1>1, <1>2, <1>3, EmptySeq
  <2>2. first \in Seq(Nat) /\ Len(first) = 1 /\ first[1] = a.body.data[1]
    BY <1>2, <2>1
  <2> HIDE DEF first
  <2>3. Plain!Offered(a) = [data |-> first, end |-> "open"]
    BY <1>3 DEF Plain!Offered, Plain!Stream, first
  <2>4. /\ Plain!Offered(a) \in Streams
        /\ Plain!Offered(a).data = first /\ Plain!Offered(a).end = "open"
    BY <2>2, <2>3 DEF Streams
  <2>5. \A i \in 1 .. Len(first) : first[i] = a.body.data[i]
    BY <2>2
  <2> QED
    BY <1>1, <2>1, <2>2, <2>4, <2>5 DEF Begins
<1>4. CASE ~a.duplex
  BY <1>1, <1>4, BeginsFirst DEF Plain!Offered
<1> QED
  BY <1>3, <1>4

LEMMA AnswerFacts ==
    ASSUME NEW a \in Answers \cup {Plain!NoAnswer}
    PROVE  a.body \in Streams
BY BodyLogAssumption, Empty DEF Plain!NoAnswer

\* What is served goes on as the body of the answer does, or breaks off.
LEMMA ServedFacts ==
    ASSUME NEW s \in Streams, NEW t \in Streams, s.end = "open", Begins(s, t),
           NEW n \in {Plain!Passed(t, s), [s EXCEPT !.end = "error"]}
    PROVE  /\ n \in Streams
           /\ Begins(s, n)
           /\ Begins(n, t)
           /\ n.end = "eof" => n = t
<1> DEFINE S == s.data  T == t.data
<1>1. /\ S \in Seq(Nat) /\ T \in Seq(Nat) /\ Len(S) \in Nat /\ Len(T) \in Nat
      /\ t.end \in {"eof", "error", "open"}
      /\ Len(S) <= Len(T) /\ \A i \in 1 .. Len(S) : S[i] = T[i]
  BY StreamFacts DEF Begins
<1>2. CASE n = [s EXCEPT !.end = "error"]
  <2>1. n \in Streams /\ n.data = S /\ n.end = "error"
    BY <1>2 DEF Streams
  <2> QED
    BY <1>1, <2>1 DEF Begins
<1>3. CASE Len(S) < Len(T) /\ n = [s EXCEPT !.data = Append(S, T[Len(S) + 1])]
  <2> DEFINE longer == Append(S, T[Len(S) + 1])
  <2>1. T[Len(S) + 1] \in Nat
    BY <1>1, <1>3, ElementOfSeq
  <2>2. /\ longer \in Seq(Nat) /\ Len(longer) = Len(S) + 1
        /\ \A i \in 1 .. Len(S) : longer[i] = S[i]
        /\ longer[Len(S) + 1] = T[Len(S) + 1]
    BY <1>1, <2>1, AppendProperties
  <2>3. n = [s EXCEPT !.data = longer]
    BY <1>3
  <2> HIDE DEF longer
  <2>4. n \in Streams /\ n.data = longer /\ n.end = "open"
    BY <2>2, <2>3 DEF Streams
  <2>5. \A i \in 1 .. Len(S) + 1 : i \in 1 .. Len(S) \/ i = Len(S) + 1
    BY <1>1
  <2>6. \A i \in 1 .. Len(S) + 1 : longer[i] = T[i]
    BY <1>1, <2>2, <2>5
  <2> QED
    BY <1>1, <1>3, <2>2, <2>4, <2>6 DEF Begins
<1>4. CASE ~(Len(S) < Len(T)) /\ n = [s EXCEPT !.end = t.end]
  <2>1. n \in Streams /\ n.data = S /\ n.end = t.end
    BY <1>1, <1>4 DEF Streams
  <2>2. Len(S) = Len(T)
    BY <1>1, <1>4
  <2>3. S = T
    BY <1>1, <2>2, SeqEqual
  <2>4. n = t
    BY <2>1, <2>3 DEF Streams
  <2> QED
    BY <2>1, <2>3, <2>4, BeginsFirst
<1> QED
  BY <1>2, <1>3, <1>4 DEF Plain!Passed

-----------------------------------------------------------------------------
(* Steps that pass no byte *)

LEMMA Inits == Init => Inv
<1> SUFFICES ASSUME Init PROVE Inv
  OBVIOUS
<1> USE DEF Init, Plain!Init
<1>1. CallTypes
  <2>1. limit \in Nat \ {0}
    BY BodyLogAssumption
  <2>2. attempt \in 0 .. Plain!Retries(ask)
    BY DEF Plain!Retries
  <2> QED
    BY <2>1, <2>2 DEF CallTypes, Steps
<1>2. answer.body \in Streams /\ ask.body \in Streams
  BY AnswerFacts, OfferedFacts
<1>3. StreamTypes
  BY Empty DEF StreamTypes
<1>4. Sources
  BY <1>2, Empty, BeginsFirst DEF Sources
<1>5. Fresh
  BY Empty DEF Fresh, Sending, Answering
<1>6. Followed
  BY Empty, FollowsFirst DEF Followed
<1>7. LoggedWhole
  BY Empty DEF LoggedWhole
<1>8. Owned
  BY DEF Owned, Starting, Sending, Answering
<1> QED
  BY <1>1, <1>3, <1>4, <1>5, <1>6, <1>7, <1>8 DEF Inv

\* The streams, their readers and the log are as they were.
LEMMA StreamsKept ==
    ASSUME Inv, UNCHANGED <<ends, req, resp, logged>>
    PROVE  StreamTypes' /\ Sources' /\ Followed' /\ LoggedWhole'
BY DEF Inv, ends, StreamTypes, Sources, Followed, LoggedWhole

LEMMA ConfigureStep == Inv /\ Configure => Inv'
<1> SUFFICES ASSUME Inv, Configure PROVE Inv'
  OBVIOUS
<1> USE DEF Configure, SetBodyLogLevel, SetBodyLogLimit, ends, config, capture, held
<1>1. StreamTypes' /\ Sources' /\ Followed' /\ LoggedWhole'
  BY StreamsKept
<1>2. CallTypes'
  <2>1. limit' \in Nat \ {0}
    BY BodyLogAssumption DEF Inv, CallTypes
  <2>2. logging' \in BOOLEAN
    BY DEF Inv, CallTypes
  <2> QED
    BY <2>1, <2>2 DEF Inv, CallTypes
<1>3. Fresh' /\ Owned'
  BY DEF Inv, Fresh, Owned, Bodies, Plain!Retries
<1> QED
  BY <1>1, <1>2, <1>3 DEF Inv

\* Until the first attempt, nothing but a form's file and the body is open.
LEMMA PrepareStep == Inv /\ (Begin \/ OpenFile \/ createMultipart \/ SetHeaders) => Inv'
<1> SUFFICES ASSUME Inv, Begin \/ OpenFile \/ createMultipart \/ SetHeaders PROVE Inv'
  OBVIOUS
<1> USE DEF Begin, OpenFile, createMultipart, SetHeaders, Goto, Return, FileClosed,
            ends, config, capture, held
<1>1. StreamTypes' /\ Sources' /\ Followed' /\ LoggedWhole'
  BY StreamsKept
<1>2. CallTypes'
  BY DEF Inv, CallTypes, Steps
<1>3. Fresh'
  BY DEF Inv, Fresh, Sending, Answering
<1>4. (file => pc = "form")'
  BY DEF Inv, Owned
<1>5. /\ pc \in Starting \ {"attempt"} /\ attempt = 0 /\ reqOpen = {} /\ respOpen = {}
      /\ attempt' = attempt /\ ask' = ask /\ respOpen' = respOpen
  BY DEF Inv, Owned, Starting, Sending, Answering
<1>6. \/ pc' = "attempt" /\ reqOpen' = Bodies(0)
      \/ pc' \in (Starting \ {"attempt"}) \cup {"done"} /\ reqOpen' = {}
  BY <1>5 DEF Starting
<1>7. Owned'
  <2>1. CASE pc' = "attempt" /\ reqOpen' = Bodies(0)
    BY <1>4, <1>5, <2>1 DEF Owned, Bodies, Plain!Retries, Starting, Sending, Answering
  <2>2. CASE pc' \in (Starting \ {"attempt"}) \cup {"done"} /\ reqOpen' = {}
    BY <1>4, <1>5, <2>2 DEF Owned, Starting, Sending, Answering
  <2> QED
    BY <1>6, <2>1, <2>2
<1> QED
  BY <1>1, <1>2, <1>3, <1>7 DEF Inv

LEMMA AskStep == Inv /\ Ask => Inv'
<1> SUFFICES ASSUME Inv, Ask PROVE Inv'
  OBVIOUS
<1> USE DEF Ask, Goto, ends, config, held
<1>1. StreamTypes' /\ Sources' /\ Followed' /\ LoggedWhole'
  BY StreamsKept
<1>2. CallTypes' /\ Fresh' /\ Owned'
  BY DEF Inv, CallTypes, Steps, Fresh, Owned, Bodies, Plain!Retries, Starting, Sending, Answering
<1> QED
  BY <1>1, <1>2 DEF Inv

LEMMA FailStep == Inv /\ Fail => Inv'
<1> SUFFICES ASSUME Inv, Fail PROVE Inv'
  OBVIOUS
<1> USE DEF Fail, Goto, RequestClosed, ends, config, capture
<1>1. StreamTypes' /\ Sources' /\ Followed' /\ LoggedWhole'
  BY StreamsKept
<1>2. req.closes
  BY ReaderFacts DEF Inv, StreamTypes
<1>3. CallTypes' /\ Fresh'
  BY DEF Inv, CallTypes, Steps, Fresh, Sending, Answering
<1>4. Owned'
  BY <1>2 DEF Inv, Owned, Bodies, Plain!Retries, Starting, Sending, Answering
<1> QED
  BY <1>1, <1>3, <1>4 DEF Inv

LEMMA AnsweredStep == Inv /\ (Response \/ ReturnAnswer \/ ReturnError \/ GiveUp) => Inv'
<1> SUFFICES ASSUME Inv, Response \/ ReturnAnswer \/ ReturnError \/ GiveUp PROVE Inv'
  OBVIOUS
<1> USE DEF Response, ReturnAnswer, ReturnError, GiveUp, Goto, Return, ends, config, capture, held
<1>1. StreamTypes' /\ Sources' /\ Followed' /\ LoggedWhole'
  BY StreamsKept
<1>2. CallTypes'
  BY DEF Inv, CallTypes, Steps
<1>3. Fresh'
  BY DEF Inv, Fresh, Sending, Answering
<1>4. Owned'
  <2>1. (file => pc = "form")'
    BY DEF Inv, Owned
  <2>2. /\ pc \notin Sending \cup Starting \cup {"done"}
        /\ pc' \notin Sending \cup Starting
    BY DEF Sending, Starting
  <2>3. pc' \in Answering <=> pc \in Answering
    BY DEF Answering
  <2>4. reqOpen' = {} /\ attempt' = attempt /\ respOpen' = respOpen
    BY <2>2 DEF Inv, Owned, Starting
  <2> QED
    BY <2>1, <2>2, <2>3, <2>4 DEF Inv, Owned, Starting
<1> QED
  BY <1>1, <1>2, <1>3, <1>4 DEF Inv

\* The attempt's answer is closed before the wait.
LEMMA RetryStep == Inv /\ Retry => Inv'
<1> SUFFICES ASSUME Inv, Retry PROVE Inv'
  OBVIOUS
<1> USE DEF Retry, Goto, ResponseClosed, ends, config, capture
<1>1. StreamTypes' /\ Sources' /\ Followed' /\ LoggedWhole'
  BY StreamsKept
<1>2. resp.closes
  BY ReaderFacts DEF Inv, StreamTypes
<1>3. CallTypes'
  BY DEF Inv, CallTypes, Steps
<1>4. Fresh'
  BY DEF Inv, Fresh, Sending, Answering
<1>5. respOpen' = {} /\ reqOpen' = {} /\ ~file'
  BY <1>2 DEF Inv, Owned, Sending, Answering
<1>6. Owned'
  BY <1>5 DEF Owned, Starting, Sending, Answering
<1> QED
  BY <1>1, <1>3, <1>4, <1>6 DEF Inv

\* Without time the caller's body is closed; a retry's stays open.
LEMMA NoTimeStep == Inv /\ NoTime => Inv'
<1> SUFFICES ASSUME Inv, NoTime PROVE Inv'
  OBVIOUS
<1> USE DEF NoTime, Return, Goto, ends, config, capture
<1>1. StreamTypes' /\ Sources' /\ Followed' /\ LoggedWhole'
  BY StreamsKept
<1>2. CallTypes' /\ Fresh'
  BY DEF Inv, CallTypes, Steps, Fresh, Sending, Answering
<1>3. respOpen' = {} /\ ~file'
  BY DEF Inv, Owned, Answering
<1>4. CASE pc = "attempt"
  <2>1. reqOpen' = {}
    BY <1>4 DEF Inv, Owned, Bodies, Plain!Retries
  <2> QED
    BY <1>1, <1>2, <1>3, <2>1 DEF Inv, Owned, Starting, Sending, Answering
<1>5. CASE pc = "wait"
  <2>1. reqOpen' = Bodies(attempt + 1) /\ attempt' = attempt /\ ask' = ask /\ outcome' = "error"
    BY <1>5 DEF Inv, Owned, Sending
  <2>2. attempt < Plain!Retries(ask)
    BY <1>5 DEF Inv, Owned
  <2> QED
    BY <1>1, <1>2, <1>3, <2>1, <2>2
       DEF Inv, Owned, Bodies, Plain!Retries, Starting, Sending, Answering
<1> QED
  BY <1>4, <1>5

\* Whatever became of the answer, its body is closed.
LEMMA FinishStep == Inv /\ (RespHandler \/ CloseByCaller) => Inv'
<1> SUFFICES ASSUME Inv, pc = "returned", NEW o, Close(o) PROVE Inv'
  BY DEF RespHandler, CloseByCaller
<1> USE DEF Close, Return, Goto, ResponseClosed, ends, config, capture
<1>1. StreamTypes' /\ Sources' /\ Followed' /\ LoggedWhole'
  BY StreamsKept
<1>2. resp.closes
  BY ReaderFacts DEF Inv, StreamTypes
<1>3. CallTypes' /\ Fresh'
  BY DEF Inv, CallTypes, Steps, Fresh, Sending, Answering
<1>4. Owned'
  BY <1>2 DEF Inv, Owned, Starting, Sending, Answering
<1> QED
  BY <1>1, <1>3, <1>4 DEF Inv

-----------------------------------------------------------------------------
(* Attempts and their answers *)

\* An attempt starts its body and its readers anew.
LEMMA StartStep ==
    ASSUME Inv, NEW n \in 0 .. Plain!Retries(ask), StartAttempt(n),
           (pc = "attempt" /\ n = attempt) \/ pc = "wait"
    PROVE  Inv'
<1> USE DEF StartAttempt, Goto
<1>1. /\ ask \in Asks /\ got \in Streams /\ got.data = <<>> /\ ~file /\ respOpen = {}
      /\ reqOpen \subseteq Bodies(n)
  BY DEF Inv, CallTypes, StreamTypes, Fresh, Owned, Sending, Answering
<1>2. CallTypes'
  BY <1>1 DEF Inv, CallTypes, Steps, config
<1>3. StreamTypes'
  BY <1>1, OfferedFacts, Empty DEF StreamTypes
<1>4. Plain!NoAnswer.body \in Streams
  BY AnswerFacts
<1>5. Sources'
  BY <1>1, <1>4, OfferedFacts, Empty, BeginsFirst DEF Sources
<1>6. Fresh'
  BY <1>1, Empty DEF Fresh, Sending, Answering
<1>7. Followed'
  BY <1>1, OfferedFacts, Empty, FollowsFirst DEF Followed
<1>8. LoggedWhole'
  BY Empty DEF LoggedWhole
<1>9. Owned'
  BY <1>1 DEF Owned, Bodies, Plain!Retries, Starting, Sending, Answering
<1> QED
  BY <1>2, <1>3, <1>5, <1>6, <1>7, <1>8, <1>9 DEF Inv

LEMMA FirstStep == Inv /\ First => Inv'
<1> SUFFICES ASSUME Inv, First PROVE Inv'
  OBVIOUS
<1>1. 0 \in 0 .. Plain!Retries(ask) /\ pc = "attempt" /\ attempt = 0
  BY DEF First, Inv, Owned, Starting, Plain!Retries
<1> QED
  BY <1>1, StartStep DEF First

LEMMA AgainStep == Inv /\ Again => Inv'
<1> SUFFICES ASSUME Inv, Again PROVE Inv'
  OBVIOUS
<1>1. attempt + 1 \in 0 .. Plain!Retries(ask) /\ pc = "wait"
  BY DEF Again, Inv, CallTypes, Owned, Plain!Retries
<1> QED
  BY <1>1, StartStep DEF Again

LEMMA ReplyStep == Inv /\ Reply => Inv'
<1> SUFFICES ASSUME Inv, Reply PROVE Inv'
  OBVIOUS
<1> USE DEF Reply, Goto, RequestClosed, config, capture
<1>1. /\ pc \in Sending /\ served = Plain!Open /\ \A l \in logged : l.side = "request"
      /\ req.closes
  BY ReaderFacts DEF Inv, StreamTypes, Fresh, Sending
<1>2. CallTypes'
  BY DEF Inv, CallTypes, Steps
<1>3. StreamTypes' /\ Followed'
  BY DEF Inv, StreamTypes, Followed
<1>4. answer'.body \in Streams
  BY BodyLogAssumption
<1>5. Sources'
  BY <1>1, <1>4, Empty, BeginsFirst DEF Inv, Sources
<1>6. Fresh'
  BY DEF Inv, Fresh, Sending, Answering
<1>7. LoggedWhole'
  BY <1>1 DEF Inv, LoggedWhole
<1>8. Owned'
  BY <1>1 DEF Inv, Owned, Bodies, Plain!Retries, Starting, Sending, Answering
<1> QED
  BY <1>2, <1>3, <1>5, <1>6, <1>7, <1>8 DEF Inv

\* The source of the body goes on.
LEMMA OfferStep == Inv /\ Offer => Inv'
<1> SUFFICES ASSUME Inv, Offer PROVE Inv'
  OBVIOUS
<1> USE DEF Offer, Plain!Offer, config, capture, held
<1>1. ask.body \in Streams /\ given.end = "open" /\ Begins(given, ask.body)
  BY OfferedFacts DEF Inv, CallTypes, Sources
<1>2. CallTypes'
  BY DEF Inv, CallTypes
<1>3. StreamTypes'
  BY <1>1 DEF Inv, StreamTypes
<1>4. Sources'
  BY <1>1, BeginsFirst DEF Inv, Sources
<1>5. Fresh' /\ LoggedWhole' /\ Owned'
  BY DEF Inv, Fresh, LoggedWhole, Owned, Bodies, Plain!Retries
<1>6. Followed'
  BY <1>1, GrownFollows DEF Inv, StreamTypes, Followed
<1> QED
  BY <1>2, <1>3, <1>4, <1>5, <1>6 DEF Inv

\* The body of the answer goes on.
LEMMA ServeStep == Inv /\ Serve => Inv'
<1> SUFFICES ASSUME Inv, Serve PROVE Inv'
  OBVIOUS
<1> USE DEF Serve, Plain!Serve, config, capture, held
<1>1. answer.body \in Streams /\ served \in Streams /\ Begins(served, answer.body)
  BY AnswerFacts DEF Inv, CallTypes, StreamTypes, Sources
<1>2. /\ served' \in Streams /\ Begins(served, served')
      /\ Begins(served', answer.body)
      /\ served'.end = "eof" => served' = answer.body
  BY <1>1, ServedFacts
<1>3. CallTypes'
  BY DEF Inv, CallTypes
<1>4. StreamTypes'
  BY <1>2 DEF Inv, StreamTypes
<1>5. Sources'
  BY <1>2 DEF Inv, Sources
<1>6. pc \in Answering
  BY DEF Inv, CallTypes, Steps, Phase, Answering
<1>7. Fresh' /\ LoggedWhole' /\ Owned'
  BY <1>6 DEF Inv, Fresh, LoggedWhole, Owned, Bodies, Plain!Retries, Sending, Answering
<1>8. Followed'
  BY <1>2, GrownFollows DEF Inv, StreamTypes, Followed
<1> QED
  BY <1>3, <1>4, <1>5, <1>7, <1>8 DEF Inv

-----------------------------------------------------------------------------
(* Captures *)

LEMMA LimitStep == Inv /\ (LimitRequest \/ LimitResponse) => Inv'
<1> SUFFICES ASSUME Inv, LimitRequest \/ LimitResponse PROVE Inv'
  OBVIOUS
<1>1. req \in Readers /\ resp \in Readers /\ limit \in Nat /\ 0 <= limit + 1
  BY DEF Inv, CallTypes, StreamTypes
<1> USE DEF LimitRequest, LimitResponse, Goto, ends, config, held
<1>2. LET r == [req EXCEPT !.cap = limit]
      IN  r \in Readers /\ r.held = req.held /\ r.at = req.at /\ r.tail = req.tail
          /\ r.cap = limit
  BY <1>1, ReaderCap
<1>3. LET r == [resp EXCEPT !.cap = limit]
      IN  r \in Readers /\ r.held = resp.held /\ r.at = resp.at /\ r.tail = resp.tail
          /\ r.cap = limit
  BY <1>1, ReaderCap
<1>4. CallTypes'
  BY DEF Inv, CallTypes, Steps
<1>5. StreamTypes' /\ Sources'
  BY <1>2, <1>3 DEF Inv, StreamTypes, Sources
<1>6. Fresh'
  BY <1>2, <1>3 DEF Inv, Fresh, Sending, Answering
<1>7. Followed'
  BY <1>2, <1>3 DEF Inv, Followed, Follows
<1>8. LoggedWhole'
  <2>1. Len(<<>>) = 0 /\ 0 <= limit + 1
    BY <1>1, Empty
  <2>2. Len(req'.held) <= req'.cap + 1
    <3>1. CASE LimitRequest
      BY <1>2, <2>1, <3>1 DEF Inv, Fresh
    <3>2. CASE LimitResponse
      BY <3>2 DEF Inv, LoggedWhole, capture
    <3> QED
      BY <3>1, <3>2
  <2>3. Len(resp'.held) <= resp'.cap + 1
    <3>1. CASE LimitRequest
      BY <3>1 DEF Inv, LoggedWhole
    <3>2. CASE LimitResponse
      BY <1>3, <2>1, <3>2 DEF Inv, Fresh
    <3> QED
      BY <3>1, <3>2
  <2> QED
    BY <2>2, <2>3 DEF Inv, LoggedWhole
<1>9. Owned'
  <2>1. (file => pc = "form")'
    BY DEF Inv, Owned
  <2>2. /\ pc' \in Sending <=> pc \in Sending
        /\ {pc, pc'} \cap (Starting \cup {"wait", "done"}) = {}
    BY DEF Starting, Sending
  <2>3. pc' \in Answering <=> pc \in Answering
    BY DEF Answering
  <2> QED
    BY <2>1, <2>2, <2>3 DEF Inv, Owned, Bodies, Plain!Retries, Starting
<1> QED
  BY <1>4, <1>5, <1>6, <1>7, <1>8, <1>9 DEF Inv

\* What a capture logs is the whole stream, within its limit.
LEMMA LoggedBody ==
    ASSUME NEW from \in Streams, NEW to \in Streams, NEW r \in Readers, NEW side,
           Follows(from, r, to), r.tail = "source", Captured(from, r), to.data = <<>>,
           NEW l \in Log(side, from, r), l \notin logged
    PROVE  /\ l.side = side /\ Len(l.data) <= l.cap
           /\ Stream(l.data, "eof") = from /\ from.end = "eof"
<1>1. Whole(from, r) /\ l = [side |-> side, data |-> r.held, cap |-> r.cap]
  BY DEF Log
<1>2. from.end = "eof" /\ Len(r.held) <= r.cap
  BY <1>1 DEF Whole
<1>3. r.held = from.data
  BY <1>1, ReplayFollows
<1>4. Stream(from.data, "eof") = from
  BY <1>2 DEF Streams, Stream, Plain!Stream
<1> QED
  BY <1>1, <1>2, <1>3, <1>4

LEMMA CaptureRequestStep == Inv /\ CaptureRequest => Inv'
<1> SUFFICES ASSUME Inv, CaptureRequest PROVE Inv'
  OBVIOUS
<1> USE DEF CaptureRequest, Goto, ends, config, held
<1>1. /\ given \in Streams /\ received \in Streams /\ req \in Readers
      /\ given.end = "open" \/ given = ask.body
      /\ Follows(given, req, received) /\ req.tail = "source" /\ received.data = <<>>
      /\ \A l \in logged : l.side = "request"
      /\ Len(req.held) <= req.cap + 1
  BY DEF Inv, StreamTypes, Sources, Followed, Fresh, Sending, LoggedWhole
<1>2. /\ req' \in Readers /\ Follows(given, req', received)
      /\ Len(req'.held) <= req'.cap + 1
      /\ pc' = "capture request" => req'.tail = "source"
  <2>1. CASE CapturesByte(given, req) /\ req' = TakeByte(given, req)
    BY <1>1, <2>1, TakeFollows
  <2>2. CASE /\ Captured(given, req) /\ req' = Replayed(given, req)
             /\ pc' # "capture request"
    BY <1>1, <2>2, ReplayFollows
  <2> QED
    BY <2>1, <2>2
<1>3. ASSUME NEW l \in logged', l \notin logged
      PROVE  l.side = "request" /\ Len(l.data) <= l.cap /\ Stream(l.data, "eof") = ask.body
  <2>1. Captured(given, req) /\ l \in Log("request", given, req)
    BY <1>3
  <2>2. /\ l.side = "request" /\ Len(l.data) <= l.cap
        /\ Stream(l.data, "eof") = given /\ given.end = "eof"
    BY <1>1, <1>3, <2>1, LoggedBody
  <2> QED
    BY <1>1, <2>2
<1>4. pc' \in {"capture request", "sent"}
  OBVIOUS
<1>5. CallTypes'
  BY <1>4 DEF Inv, CallTypes, Steps
<1>6. StreamTypes' /\ Sources'
  BY <1>2 DEF Inv, StreamTypes, Sources
<1>7. Fresh'
  BY <1>1, <1>2, <1>3, <1>4 DEF Inv, Fresh, Sending, Answering
<1>8. Followed'
  BY <1>2 DEF Inv, Followed
<1>9. LoggedWhole'
  BY <1>2, <1>3 DEF Inv, LoggedWhole
<1>10. Owned'
  BY <1>4 DEF Inv, Owned, Bodies, Plain!Retries, Starting, Sending, Answering
<1> QED
  BY <1>5, <1>6, <1>7, <1>8, <1>9, <1>10 DEF Inv

LEMMA CaptureResponseStep == Inv /\ CaptureResponse => Inv'
<1> SUFFICES ASSUME Inv, CaptureResponse PROVE Inv'
  OBVIOUS
<1> USE DEF CaptureResponse, Goto, ends, config, held
<1>1. /\ served \in Streams /\ got \in Streams /\ resp \in Readers
      /\ served.end = "eof" => served = answer.body
      /\ Follows(served, resp, got) /\ resp.tail = "source" /\ got.data = <<>>
      /\ Len(resp.held) <= resp.cap + 1
  BY DEF Inv, StreamTypes, Sources, Followed, Fresh, Answering, LoggedWhole
<1>2. /\ resp' \in Readers /\ Follows(served, resp', got)
      /\ Len(resp'.held) <= resp'.cap + 1
      /\ pc' = "capture response" => resp'.tail = "source"
  <2>1. CASE CapturesByte(served, resp) /\ resp' = TakeByte(served, resp)
    BY <1>1, <2>1, TakeFollows
  <2>2. CASE /\ Captured(served, resp) /\ resp' = Replayed(served, resp)
             /\ pc' # "capture response"
    BY <1>1, <2>2, ReplayFollows
  <2> QED
    BY <2>1, <2>2
<1>3. ASSUME NEW l \in logged', l \notin logged
      PROVE  l.side = "response" /\ Len(l.data) <= l.cap /\ Stream(l.data, "eof") = answer.body
  <2>1. Captured(served, resp) /\ l \in Log("response", served, resp)
    BY <1>3
  <2>2. /\ l.side = "response" /\ Len(l.data) <= l.cap
        /\ Stream(l.data, "eof") = served /\ served.end = "eof"
    BY <1>1, <1>3, <2>1, LoggedBody
  <2> QED
    BY <1>1, <2>2
<1>4. pc' \in {"capture response", "decide"}
  OBVIOUS
<1>5. CallTypes'
  BY <1>4 DEF Inv, CallTypes, Steps
<1>6. StreamTypes' /\ Sources'
  BY <1>2 DEF Inv, StreamTypes, Sources
<1>7. Fresh'
  BY <1>1, <1>2, <1>4 DEF Inv, Fresh, Sending, Answering
<1>8. Followed'
  BY <1>2 DEF Inv, Followed
<1>9. LoggedWhole'
  BY <1>2, <1>3 DEF Inv, LoggedWhole
<1>10. Owned'
  BY <1>4 DEF Inv, Owned, Bodies, Plain!Retries, Starting, Sending, Answering
<1> QED
  BY <1>5, <1>6, <1>7, <1>8, <1>9, <1>10 DEF Inv

-----------------------------------------------------------------------------
(* Bytes that pass *)

LEMMA PassRequestStep == Inv /\ PassRequest => Inv'
<1> SUFFICES ASSUME Inv, PassRequest PROVE Inv'
  OBVIOUS
<1> USE DEF PassRequest, config
<1>1. /\ given \in Streams /\ received \in Streams /\ req \in Readers
      /\ Follows(given, req, received) /\ Len(req.held) <= req.cap + 1
  BY DEF Inv, StreamTypes, Followed, LoggedWhole
<1>2. /\ received' \in Streams /\ req' \in Readers /\ Follows(given, req', received')
      /\ Len(req'.held) <= req'.cap + 1
  BY <1>1, ReadFollows
<1>3. CallTypes'
  BY DEF Inv, CallTypes, held
<1>4. StreamTypes' /\ Sources'
  BY <1>2 DEF Inv, StreamTypes, Sources
<1>5. Fresh'
  BY DEF Inv, Fresh, Sending, Answering
<1>6. Followed'
  BY <1>2 DEF Inv, Followed
<1>7. LoggedWhole'
  BY <1>2 DEF Inv, LoggedWhole
<1>8. Owned'
  BY DEF Inv, Owned, Bodies, Plain!Retries, held
<1> QED
  BY <1>3, <1>4, <1>5, <1>6, <1>7, <1>8 DEF Inv

LEMMA PassResponseStep == Inv /\ PassResponse => Inv'
<1> SUFFICES ASSUME Inv, PassResponse PROVE Inv'
  OBVIOUS
<1> USE DEF PassResponse, config
<1>1. /\ served \in Streams /\ got \in Streams /\ resp \in Readers
      /\ Follows(served, resp, got) /\ Len(resp.held) <= resp.cap + 1
  BY DEF Inv, StreamTypes, Followed, LoggedWhole
<1>2. /\ got' \in Streams /\ resp' \in Readers /\ Follows(served, resp', got')
      /\ Len(resp'.held) <= resp'.cap + 1
  BY <1>1, ReadFollows
<1>3. CallTypes'
  BY DEF Inv, CallTypes, held
<1>4. StreamTypes' /\ Sources'
  BY <1>2 DEF Inv, StreamTypes, Sources
<1>5. Fresh'
  BY DEF Inv, Fresh, Sending, Answering
<1>6. Followed'
  BY <1>2 DEF Inv, Followed
<1>7. LoggedWhole'
  BY <1>2 DEF Inv, LoggedWhole
<1>8. Owned'
  BY DEF Inv, Owned, Bodies, Plain!Retries, held
<1> QED
  BY <1>3, <1>4, <1>5, <1>6, <1>7, <1>8 DEF Inv

-----------------------------------------------------------------------------
(* Theorems *)

LEMMA Invariance == Spec => []Inv
<1>1. Inv /\ UNCHANGED vars => Inv'
  <2> SUFFICES ASSUME Inv, UNCHANGED vars PROVE Inv'
    OBVIOUS
  <2>1. StreamTypes' /\ Sources' /\ Followed' /\ LoggedWhole'
    BY StreamsKept DEF vars, ends, capture
  <2> QED
    BY <2>1 DEF Inv, CallTypes, Fresh, Owned, Bodies, Plain!Retries, vars, ends, config, capture, held
<1>2. Inv /\ [Next]_vars => Inv'
  BY <1>1, ConfigureStep, PrepareStep, AskStep, FailStep, AnsweredStep, FinishStep,
     RetryStep, NoTimeStep, FirstStep, AgainStep, ReplyStep, OfferStep, ServeStep, LimitStep,
     CaptureRequestStep, CaptureResponseStep, PassRequestStep, PassResponseStep
     DEF Next, Run
<1> QED
  BY <1>2, Inits, PTL DEF Spec

\* Types of the call's state, whatever is asked and answered and however the
\* settings change (http.go:151-165, 480-602; transport.go:294-453).
THEOREM CallTypeCorrect == Spec => []TypeOK
<1>1. Inv => TypeOK
  <2> SUFFICES ASSUME Inv PROVE TypeOK
    OBVIOUS
  <2>1. \A r \in {req, resp} : r.at \in Nat /\ r.tail \in {"source", "eof", "error"}
    BY ReaderFacts DEF Inv, StreamTypes
  <2>2. attempt \in Nat
    BY DEF Inv, CallTypes, Plain!Retries
  <2>3. reqOpen \cup respOpen \subseteq 0 .. attempt + 1
    BY <2>2 DEF Inv, Owned, Bodies, Plain!Retries
  <2> QED
    BY <2>1, <2>3 DEF Inv, CallTypes, StreamTypes, TypeOK
<1> QED
  BY <1>1, Invariance, PTL

\* No more is kept for the log than a byte over the limit, and what is logged is
\* a whole body, for bodies of any length (transport.go:401-432).
THEOREM LoggedWholeAlways == Spec => []LoggedWhole
<1>1. Inv => LoggedWhole
  BY DEF Inv
<1> QED
  BY <1>1, Invariance, PTL

\* A call that returns has closed its file, the caller's body and every body of each
\* attempt it made, also when it gives up between two attempts; the body GetBody
\* gave for a retry without time is all it may leave open
\* (http.go:480-573; transport.go:149-158, 220-229, 420-472).
THEOREM ReleasedAlways == Spec => []Released
<1>1. Inv => Released
  BY DEF Inv, Owned, Sending, Answering, Released
<1> QED
  BY <1>1, Invariance, PTL

-----------------------------------------------------------------------------
(* What is not read ahead *)

\* The sides that are not captured hold nothing.
Quiet ==
    /\ loud => ~ask.skip
    /\ ask.skip \/ (ask.length < 0 /\ ~ask.form) =>
           pc \notin {"limit request", "capture request"} /\ req.held = <<>>
    /\ ask.skip \/ answer.type = "events" =>
           pc \notin {"limit response", "capture response"} /\ resp.held = <<>>

\* Reading what is not held holds nothing.
LEMMA StillNothingHeld ==
    ASSUME NEW from, NEW r, r.held = <<>>
    PROVE  AfterRead(from, r).held = <<>>
<1>1. CASE r.tail = "source" /\ r.at < Len(from.data)
  <2>1. AfterRead(from, r) = [r EXCEPT !.at = @ + 1]
    BY <1>1 DEF AfterRead
  <2> QED
    BY <2>1
<1>2. CASE ~(r.tail = "source" /\ r.at < Len(from.data))
  <2>1. AfterRead(from, r) = r
    BY <1>2 DEF AfterRead
  <2> QED
    BY <2>1
<1> QED
  BY <1>1, <1>2

LEMMA QuietSame ==
    ASSUME Quiet, UNCHANGED <<ask, answer, capture>>,
           pc' \in {"limit request", "capture request"} => pc' = pc,
           pc' \in {"limit response", "capture response"} => pc' = pc
    PROVE  Quiet'
BY DEF Quiet, capture

\* The two decisions to capture, and the attempts they are about.
LEMMA QuietDecided ==
    ASSUME Inv, Quiet, Ask \/ Response
    PROVE  Quiet'
<1>1. ask.length >= 0 => ~(ask.length < 0)
  BY BodyLogAssumption DEF Inv, CallTypes
<1>2. CASE Ask
  <2>1. /\ UNCHANGED <<ask, answer, req, resp>> /\ (loud' => ~ask.skip)
        /\ pc' \in {"limit request", "sent"}
        /\ pc' = "limit request" => loud' /\ CapturesRequest
    BY <1>2 DEF Ask, Goto, ends
  <2> QED
    BY <1>1, <2>1 DEF Quiet, CapturesRequest
<1>3. CASE Response
  <2>1. /\ UNCHANGED <<ask, answer, req, resp, loud>>
        /\ pc' \in {"limit response", "decide"}
        /\ pc' = "limit response" => CapturesResponse
    BY <1>3 DEF Response, Goto, ends, capture
  <2> QED
    BY <2>1 DEF Quiet, CapturesResponse, shouldCaptureBody
<1> QED
  BY <1>2, <1>3

LEMMA QuietAttempts ==
    ASSUME Inv, Quiet, First \/ Again \/ Reply
    PROVE  Quiet'
<1>1. CASE First \/ Again
  <2>1. /\ ask' = ask /\ loud' = loud /\ pc' = "ask"
        /\ req'.held = <<>> /\ resp'.held = <<>>
    BY <1>1, Empty DEF First, Again, StartAttempt, Goto
  <2> QED
    BY <2>1 DEF Quiet
<1>2. CASE Reply
  <2>1. resp.held = <<>>
    BY <1>2 DEF Reply, Inv, Fresh, Sending
  <2> QED
    BY <1>2, <2>1 DEF Reply, Goto, capture, Quiet
<1> QED
  BY <1>1, <1>2

\* A capture goes on only where there is one.
LEMMA QuietCaptures ==
    ASSUME Quiet, LimitRequest \/ CaptureRequest \/ LimitResponse \/ CaptureResponse
    PROVE  Quiet'
<1>1. CASE LimitRequest \/ CaptureRequest
  <2>1. /\ UNCHANGED <<ask, answer, resp, loud>>
        /\ pc \in {"limit request", "capture request"}
        /\ pc' \in {"capture request", "sent"}
    BY <1>1 DEF LimitRequest, CaptureRequest, Goto, ends
  <2> QED
    BY <2>1 DEF Quiet
<1>2. CASE LimitResponse \/ CaptureResponse
  <2>1. /\ UNCHANGED <<ask, answer, req, loud>>
        /\ pc \in {"limit response", "capture response"}
        /\ pc' \in {"capture response", "decide"}
    BY <1>2 DEF LimitResponse, CaptureResponse, Goto, ends
  <2> QED
    BY <2>1 DEF Quiet
<1> QED
  BY <1>1, <1>2

LEMMA QuietPasses ==
    ASSUME Quiet, PassRequest \/ PassResponse
    PROVE  Quiet'
<1>1. CASE PassRequest
  <2>1. /\ UNCHANGED <<ask, answer, resp, loud, pc>>
        /\ req.held = <<>> => req'.held = <<>>
    BY <1>1, StillNothingHeld DEF PassRequest
  <2> QED
    BY <2>1 DEF Quiet
<1>2. CASE PassResponse
  <2>1. /\ UNCHANGED <<ask, answer, req, loud, pc>>
        /\ resp.held = <<>> => resp'.held = <<>>
    BY <1>2, StillNothingHeld DEF PassResponse
  <2> QED
    BY <2>1 DEF Quiet
<1> QED
  BY <1>1, <1>2

LEMMA QuietOthers ==
    ASSUME Quiet,
           \/ Begin \/ OpenFile \/ createMultipart \/ SetHeaders
           \/ Configure \/ Offer \/ Fail \/ Serve
           \/ Retry \/ GiveUp \/ NoTime \/ ReturnAnswer \/ ReturnError
           \/ RespHandler \/ CloseByCaller
    PROVE  Quiet'
<1>1. CASE Begin \/ OpenFile \/ createMultipart \/ SetHeaders
  BY <1>1, QuietSame DEF Begin, OpenFile, createMultipart, SetHeaders, Return, Goto, ends
<1>2. CASE Configure \/ Offer \/ Fail \/ Serve
  BY <1>2, QuietSame DEF Configure, Offer, Plain!Offer, Fail, Serve, Plain!Serve, Goto, ends
<1>3. CASE Retry \/ GiveUp \/ NoTime \/ ReturnAnswer \/ ReturnError
  BY <1>3, QuietSame DEF Retry, GiveUp, NoTime, ReturnAnswer, ReturnError, Return, Goto, ends
<1>4. CASE RespHandler \/ CloseByCaller
  <2> SUFFICES ASSUME NEW o, Close(o) PROVE Quiet'
    BY <1>4 DEF RespHandler, CloseByCaller
  <2> QED
    BY QuietSame DEF Close, Return, Goto, ends
<1> QED
  BY <1>1, <1>2, <1>3, <1>4

\* Of a body of unknown length that is no form, of a stream of events and of a
\* skipped call nothing is read before the other side asks for it, for bodies of any
\* length and any changes of the settings (transport.go:69-78, 313-342, 401-404).
THEOREM StreamsUnreadAlways == Spec => []StreamsUnread
<1>1. Init => Quiet
  BY Empty DEF Init, Plain!Init, Quiet
<1>2. Inv /\ Quiet /\ [Next]_vars => Quiet'
  <2> SUFFICES ASSUME Inv, Quiet, [Next]_vars PROVE Quiet'
    OBVIOUS
  <2>1. CASE UNCHANGED vars
    BY <2>1, QuietSame DEF vars, ends
  <2> QED
    BY <2>1, QuietDecided, QuietAttempts, QuietCaptures, QuietPasses, QuietOthers
       DEF Next, Run
<1>3. Inv /\ Quiet => StreamsUnread
  <2> SUFFICES ASSUME Inv, Quiet PROVE StreamsUnread
    OBVIOUS
  <2>1. /\ given.data \in Seq(Nat) /\ received.data \in Seq(Nat) /\ req.at \in Nat
        /\ served.data \in Seq(Nat) /\ got.data \in Seq(Nat) /\ resp.at \in Nat
    BY StreamFacts, ReaderFacts DEF Inv, StreamTypes
  <2>2. req.held = <<>> => req.at = Len(received.data)
    BY <2>1, NothingHeldNext, 0 \in Nat DEF Inv, Followed, Follows
  <2>3. resp.held = <<>> => resp.at = Len(got.data)
    BY <2>1, NothingHeldNext, 0 \in Nat DEF Inv, Followed, Follows
  <2> QED
    BY <2>2, <2>3 DEF Quiet, StreamsUnread
<1> QED
  BY <1>1, <1>2, <1>3, Invariance, PTL DEF Spec

-----------------------------------------------------------------------------
(* The two ends *)

LEMMA PhaseOf ==
    ASSUME pc \in Steps
    PROVE  /\ pc \in {"idle", "open", "form", "headers", "attempt"} => Phase = "idle"
           /\ pc \in {"ask", "limit request", "capture request"} => Phase = "ready"
           /\ pc \in {"response", "limit response", "capture response", "decide"}
                => Phase = "answered"
           /\ pc = "wait" => Phase = "waiting"
           /\ pc \in {"sent", "failed", "returned", "done"} => Phase = pc
BY DEF Steps, Phase

LEMMA PhaseNext ==
    ASSUME pc' \in Steps
    PROVE  /\ pc' \in {"idle", "open", "form", "headers", "attempt"} => Phase' = "idle"
           /\ pc' \in {"ask", "limit request", "capture request"} => Phase' = "ready"
           /\ pc' \in {"response", "limit response", "capture response", "decide"}
                => Phase' = "answered"
           /\ pc' = "wait" => Phase' = "waiting"
           /\ pc' \in {"sent", "failed", "returned", "done"} => Phase' = pc'
BY DEF Steps, Phase

LEMMA PreparesPlain ==
    ASSUME Inv, Inv', Begin \/ OpenFile \/ createMultipart \/ SetHeaders
    PROVE  Plain!Refuse \/ UNCHANGED Plain!vars
<1>1. pc \in Steps /\ pc' \in Steps
  BY DEF Inv, CallTypes
<1> USE DEF Begin, OpenFile, createMultipart, SetHeaders, Return, Goto, ends
<1>2. Phase = "idle" /\ UNCHANGED <<ends, attempt>>
  BY <1>1, PhaseOf
<1>3. CASE pc' = "done" /\ outcome' = "refused"
  BY <1>1, <1>2, <1>3, PhaseNext DEF Plain!Refuse
<1>4. CASE pc' \in {"open", "form", "headers", "attempt"} /\ UNCHANGED outcome
  BY <1>1, <1>2, <1>4, PhaseNext DEF Plain!vars
<1> QED
  BY <1>3, <1>4

LEMMA StartsPlain ==
    ASSUME Inv, Inv', First \/ Again
    PROVE  Plain!First \/ Plain!Again
<1>1. pc \in Steps /\ pc' \in Steps
  BY DEF Inv, CallTypes
<1> USE DEF StartAttempt, Goto, Plain!Prepare
<1>2. CASE First
  BY <1>1, <1>2, PhaseOf, PhaseNext DEF First, Plain!First
<1>3. CASE Again
  BY <1>1, <1>3, PhaseOf, PhaseNext DEF Again, Plain!Again
<1> QED
  BY <1>2, <1>3

LEMMA RetriesPlain ==
    ASSUME Inv, Inv', Retry
    PROVE  Plain!Retry
<1>1. pc \in Steps /\ pc' \in Steps
  BY DEF Inv, CallTypes
<1> QED
  BY <1>1, PhaseOf, PhaseNext DEF Retry, Goto, ends, Plain!Retry

LEMMA SendsPlain ==
    ASSUME Inv, Inv', Ask \/ LimitRequest \/ CaptureRequest
    PROVE  Plain!Send \/ UNCHANGED Plain!vars
<1>1. pc \in Steps /\ pc' \in Steps
  BY DEF Inv, CallTypes
<1> USE DEF Ask, LimitRequest, CaptureRequest, Goto, ends
<1>2. Phase = "ready" /\ UNCHANGED <<ends, attempt, outcome>>
  BY <1>1, PhaseOf
<1>3. CASE pc' = "sent"
  BY <1>1, <1>2, <1>3, PhaseNext DEF Plain!Send
<1>4. CASE pc' \in {"limit request", "capture request"}
  BY <1>1, <1>2, <1>4, PhaseNext DEF Plain!vars
<1> QED
  BY <1>3, <1>4

LEMMA AnswersPlain ==
    ASSUME Inv, Inv', Response \/ LimitResponse \/ CaptureResponse \/ ReturnAnswer
    PROVE  Plain!Return \/ UNCHANGED Plain!vars
<1>1. pc \in Steps /\ pc' \in Steps
  BY DEF Inv, CallTypes
<1> USE DEF Response, LimitResponse, CaptureResponse, ReturnAnswer, Goto, ends
<1>2. Phase = "answered" /\ UNCHANGED <<ends, attempt, outcome>>
  BY <1>1, PhaseOf
<1>3. CASE pc' = "returned"
  BY <1>1, <1>2, <1>3, PhaseNext DEF Plain!Return
<1>4. CASE pc' \in {"limit response", "capture response", "decide"}
  BY <1>1, <1>2, <1>4, PhaseNext DEF Plain!vars
<1> QED
  BY <1>3, <1>4

LEMMA PassesPlain ==
    ASSUME Inv, Inv', PassRequest \/ PassResponse
    PROVE  Plain!PassRequest \/ Plain!PassResponse
<1>1. /\ pc \in Steps /\ pc' \in Steps
      /\ given \in Streams /\ received \in Streams /\ req \in Readers
      /\ served \in Streams /\ got \in Streams /\ resp \in Readers
      /\ Follows(given, req, received) /\ Follows(served, resp, got)
  BY DEF Inv, CallTypes, StreamTypes, Followed
<1>2. CASE PassRequest
  <2>1. Plain!CanPass(given, received) /\ received' = Plain!Passed(given, received)
    BY <1>1, <1>2, ReadFollows DEF PassRequest
  <2>2. Phase = "sent" /\ Phase' = "sent"
    BY <1>1, <1>2, PhaseOf, PhaseNext DEF PassRequest
  <2> QED
    BY <1>2, <2>1, <2>2 DEF PassRequest, Plain!PassRequest
<1>3. CASE PassResponse
  <2>1. Plain!CanPass(served, got) /\ got' = Plain!Passed(served, got)
    BY <1>1, <1>3, ReadFollows DEF PassResponse
  <2>2. Phase = "returned" /\ Phase' = "returned"
    BY <1>1, <1>3, PhaseOf, PhaseNext DEF PassResponse
  <2> QED
    BY <1>3, <2>1, <2>2 DEF PassResponse, Plain!PassResponse
<1> QED
  BY <1>2, <1>3

LEMMA FinishesPlain ==
    ASSUME Inv, Inv', ReturnError \/ GiveUp \/ NoTime \/ RespHandler \/ CloseByCaller
    PROVE  Plain!Finish
<1>1. pc \in Steps /\ pc' \in Steps
  BY DEF Inv, CallTypes
<1> USE DEF Close, Return, Goto, ends, Plain!Done, Plain!Finish
<1>2. CASE ReturnError \/ GiveUp \/ NoTime
  BY <1>1, <1>2, PhaseOf, PhaseNext DEF ReturnError, GiveUp, NoTime
<1>3. CASE RespHandler
  BY <1>1, <1>3, PhaseOf, PhaseNext DEF RespHandler
<1>4. CASE CloseByCaller
  BY <1>1, <1>4, PhaseOf, PhaseNext DEF CloseByCaller
<1> QED
  BY <1>2, <1>3, <1>4

LEMMA EndsPlain ==
    ASSUME Inv, Inv', Configure \/ Offer \/ Reply \/ Fail \/ Serve
    PROVE  Plain!Offer \/ Plain!Reply \/ Plain!Fail \/ Plain!Serve \/ UNCHANGED Plain!vars
<1>1. pc \in Steps /\ pc' \in Steps
  BY DEF Inv, CallTypes
<1>2. CASE Configure
  BY <1>2 DEF Configure, ends, Phase, Plain!vars
<1>3. CASE Offer \/ Serve
  BY <1>3 DEF Offer, Serve
<1>4. CASE Reply
  BY <1>1, <1>4, PhaseOf, PhaseNext DEF Reply, Goto, Plain!Reply
<1>5. CASE Fail
  BY <1>1, <1>5, PhaseOf, PhaseNext DEF Fail, Goto, ends, Plain!Fail
<1> QED
  BY <1>2, <1>3, <1>4, <1>5

\* Logging is not noticed at either end, for bodies of any length, any limits and
\* any changes of the settings: every call is one that could be made without it
\* (captureBody, transport.go:414-432; CHANGELOG.md:98; usage.md, section 7.1).
THEOREM LoggingUnnoticed == Spec => ImplementsExchange
<1>1. Init => Plain!Init
  BY DEF Init
<1>2. Inv /\ Inv' /\ [Next]_vars => [Plain!Next]_(Plain!vars)
  <2>1. UNCHANGED vars => UNCHANGED Plain!vars
    BY DEF vars, ends, Phase, Plain!vars
  <2> QED
    BY <2>1, PreparesPlain, StartsPlain, RetriesPlain, SendsPlain, AnswersPlain, PassesPlain,
       FinishesPlain, EndsPlain
       DEF Next, Run, Plain!Next
<1> QED
  BY <1>1, <1>2, Invariance, PTL DEF Spec, ImplementsExchange, Plain!Spec
=============================================================================
