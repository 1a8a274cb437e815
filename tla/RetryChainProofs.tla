--------------------------- MODULE RetryChainProofs ---------------------------
(***************************************************************************)
(* What a request of a chain forbids or limits holds for every request     *)
(* that is made for its sake, for any number of nodes and of retries, any  *)
(* clocks and any configuration of the nodes.                              *)
(***************************************************************************)
EXTENDS RetryChain, RetryPolicyProofs, SequenceTheorems, FiniteSetTheorems

Attempts == 0 .. MostRetries

-----------------------------------------------------------------------------
(* Calls as sequences *)

LEMMA CallsAreSequences ==
    \A c : c \in Calls <=> c \in Seq(Attempts) /\ Len(c) <= Hops
<1> SUFFICES ASSUME NEW c PROVE c \in Calls <=> c \in Seq(Attempts) /\ Len(c) <= Hops
  OBVIOUS
<1>1. Hops \in Nat
  BY ChainAssumption
<1>2. ASSUME c \in Calls PROVE c \in Seq(Attempts) /\ Len(c) <= Hops
  <2>1. PICK n \in 0 .. Hops : c \in [1 .. n -> Attempts]
    BY <1>2 DEF Calls, Attempts
  <2>2. n \in Nat /\ n <= Hops
    BY <1>1, <2>1
  <2>3. c \in Seq(Attempts)
    BY <2>1, <2>2, SeqDef
  <2>4. Len(c) = n
    BY <2>1, <2>2, <2>3, LenProperties
  <2> QED
    BY <2>2, <2>3, <2>4
<1>3. ASSUME c \in Seq(Attempts), Len(c) <= Hops PROVE c \in Calls
  <2>1. Len(c) \in Nat /\ c \in [1 .. Len(c) -> Attempts]
    BY <1>3, LenProperties
  <2>2. Len(c) \in 0 .. Hops
    BY <1>1, <1>3, <2>1
  <2> QED
    BY <2>1, <2>2 DEF Calls, Attempts
<1> QED
  BY <1>2, <1>3

\* What the requests above a call are.
LEMMA AboveFacts ==
    ASSUME NEW c \in Calls, NEW e \in Above(c)
    PROVE  /\ e \in Handled
           /\ Len(e) \in Nat
           /\ Len(e) < Len(c)
<1>1. c \in Seq(Attempts) /\ Len(c) \in Nat /\ Len(c) <= Hops /\ Hops \in Nat
  BY CallsAreSequences, LenProperties, ChainAssumption
<1>2. PICK n \in 0 .. Len(c) - 1 : e = SubSeq(c, 1, n)
  BY DEF Above
<1>3. \A i \in 1 .. n : c[i] \in Attempts
  BY <1>1, <1>2, ElementOfSeq
<1>4. e \in Seq(Attempts) /\ Len(e) = n
  BY <1>1, <1>2, <1>3, SubSeqProperties
<1>5. e \in Calls
  <2>1. n \in Int /\ 0 <= n /\ n < Len(c)
    BY <1>1, <1>2
  <2>2. Len(e) <= Hops
    BY <1>1, <1>4, <2>1
  <2> QED
    BY <1>4, <2>2, CallsAreSequences
<1> QED
  BY <1>1, <1>2, <1>4, <1>5 DEF Handled, AtLast

\* The request of an attempt is a call below the one that makes it, and below
\* no other than those above that.
LEMMA RequestFacts ==
    ASSUME NEW c \in Handled, NEW k \in Attempts
    PROVE  /\ Append(c, k) \in Calls
           /\ Append(c, k) # Root
           /\ Caller(Append(c, k)) = c
           /\ Len(c) \in Nat
           /\ Len(Append(c, k)) = Len(c) + 1
           /\ \A i \in 1 .. Len(c) : Append(c, k)[i] = c[i]
           /\ Append(c, k)[Len(c) + 1] = k
           /\ Above(Append(c, k)) = Above(c) \cup {c}
<1>1. c \in Seq(Attempts) /\ Len(c) \in Nat /\ Len(c) <= Hops /\ Hops \in Nat
  BY CallsAreSequences, LenProperties, ChainAssumption DEF Handled
<1>2. Len(c) < Hops
  BY <1>1 DEF Handled, AtLast
<1> DEFINE d == Append(c, k)
<1>3. /\ d \in Seq(Attempts)
      /\ d # << >>
      /\ Len(d) = Len(c) + 1
      /\ \A i \in 1 .. Len(c) : d[i] = c[i]
      /\ d[Len(c) + 1] = k
  BY <1>1, AppendProperties
<1>4. d \in Calls
  <2>1. Len(d) <= Hops
    BY <1>1, <1>2, <1>3
  <2> QED
    BY <1>3, <2>1, CallsAreSequences
<1>5. ASSUME NEW n \in 0 .. Len(c) PROVE SubSeq(d, 1, n) = SubSeq(c, 1, n)
  <2>1. \A i \in 1 .. n : c[i] \in Attempts /\ d[i] = c[i]
    BY <1>1, <1>3, ElementOfSeq
  <2>2. /\ SubSeq(c, 1, n) \in Seq(Attempts)
        /\ Len(SubSeq(c, 1, n)) = n
        /\ \A i \in 1 .. n : SubSeq(c, 1, n)[i] = c[i]
    BY <1>1, <2>1, SubSeqProperties
  <2>3. /\ SubSeq(d, 1, n) \in Seq(Attempts)
        /\ Len(SubSeq(d, 1, n)) = n
        /\ \A i \in 1 .. n : SubSeq(d, 1, n)[i] = d[i]
    BY <1>1, <2>1, SubSeqProperties
  <2> HIDE DEF d
  <2> QED
    BY <2>1, <2>2, <2>3, SeqEqual
<1>6. SubSeq(c, 1, Len(c)) = c
  BY <1>1, SubSeqFull
<1>7. Above(d) = Above(c) \cup {c}
  <2>1. Above(d) = {SubSeq(d, 1, n) : n \in 0 .. Len(c)}
    BY <1>1, <1>3 DEF Above
  <2>2. Above(d) = {SubSeq(c, 1, n) : n \in 0 .. Len(c)}
    BY <1>5, <2>1
  <2>3. 0 .. Len(c) = (0 .. Len(c) - 1) \cup {Len(c)}
    BY <1>1
  <2> QED
    BY <1>6, <2>2, <2>3 DEF Above
<1>8. Caller(d) = c
  <2>1. Len(d) - 1 = Len(c) /\ Len(c) \in 0 .. Len(c)
    BY <1>1, <1>3
  <2> QED
    BY <1>5, <1>6, <2>1 DEF Caller
<1> QED
  BY <1>1, <1>3, <1>4, <1>7, <1>8 DEF Root

-----------------------------------------------------------------------------
(* The inductive invariant *)

ChainTypes ==
    /\ chain \in {s.nodes : s \in Starts}
    /\ now \in Int
    /\ pc \in [Calls -> Steps]
    /\ asked \in [Calls -> [noMore : BOOLEAN, deadline : Int]]
    /\ due \in [Calls -> Int]
    /\ attempt \in [Calls -> Attempts]

\* The last server makes no calls.
AtNode == \A c \in Calls : pc[c] \in {"ready", "inflight", "wait"} => c \in Handled

Begun(c) == pc[c] \notin {"unsent", "wire"}

\* A call makes at most as many retries as its limit allows.
Limited ==
    \A c \in Handled :
        /\ ~Begun(c) => attempt[c] = 0
        /\ attempt[c] <= Limit(c)
        /\ pc[c] = "wait" => attempt[c] < Limit(c)

\* The requests of a call are numbered in the order it makes them, and the one
\* in hand is not yet sent while the call is "ready".
Numbered ==
    \A c \in Handled : \A k \in Attempts :
        WasSent(Append(c, k)) =>
            /\ Begun(c)
            /\ k <= attempt[c]
            /\ pc[c] = "ready" => k < attempt[c]

\* Nothing is sent but for the sake of a request that was sent.
Rooted == \A d \in Calls : WasSent(d) => \A c \in Above(d) : WasSent(c)

\* A call takes no more time than its request grants.
Dues == \A c \in Handled : Begun(c) => due[c] <= asked[c].deadline

Ordered == ChainTypes /\ AtNode /\ Limited /\ Numbered /\ Rooted /\ Dues

-----------------------------------------------------------------------------
(* What a step does to a call *)

Idle == chain' = chain /\ pc' = pc /\ asked' = asked /\ due' = due /\ attempt' = attempt

Dispatched(c) ==
    /\ pc[c] = "ready"
    /\ ~Expired(c)
    /\ pc' = [pc EXCEPT ![c] = "inflight", ![Sent(c)] = "wire"]
    /\ asked' = [asked EXCEPT ![Sent(c)] =
           [noMore |-> NextNoMoreRetry(c), deadline |-> formatRequestDeadline(due[c])]]
    /\ UNCHANGED <<chain, due, attempt>>

Accepted(c) ==
    /\ pc[c] = "wire"
    /\ pc' = [pc EXCEPT ![c] = "ready"]
    /\ due' = [due EXCEPT ![c] = OverallDeadline(c)]
    /\ UNCHANGED <<chain, asked, attempt>>

Retried(c) ==
    /\ Begun(c)
    /\ attempt[c] < Limit(c)
    /\ pc' = [pc EXCEPT ![c] = "ready"]
    /\ attempt' = [attempt EXCEPT ![c] = @ + 1]
    /\ UNCHANGED <<chain, asked, due>>

Moved(c, step) ==
    /\ WasSent(c)
    /\ step # "done" => c \in Handled
    /\ c \in Handled => Begun(c)
    /\ step = "wait" => attempt[c] < Limit(c)
    /\ pc' = [pc EXCEPT ![c] = step]
    /\ UNCHANGED <<chain, asked, due, attempt>>

\* A step sends one request, accepts one, starts a retry, or does nothing that
\* matters here.
Effect ==
    /\ now' \in Int
    /\ \/ Idle
       \/ \E c \in Handled : Dispatched(c) \/ Accepted(c) \/ Retried(c)
       \/ \E c \in Calls : \E step \in {"inflight", "wait", "done"} : Moved(c, step)

LEMMA EffectOfStep ==
    ASSUME ChainTypes, AtNode, Limited, Next
    PROVE  Effect
<1>1. now \in Int /\ MaxTime \in Int
  <2>1. MaxTime \in 0 .. Never
    BY ChainAssumption
  <2> QED
    BY <2>1 DEF ChainTypes
<1>2. CASE Tick
  BY <1>1, <1>2 DEF Tick, Least, Idle, Effect
<1>3. ASSUME NEW c \in Calls, Accept(c) PROVE Accepted(c) /\ c \in Handled /\ now' = now
  BY <1>3 DEF Accept, Accepted, Goto, Handled
<1>4. ASSUME NEW c \in Calls, NoTime(c) PROVE Moved(c, "done") /\ now' = now
  BY <1>4 DEF NoTime, End, Goto, Moved, WasSent, Begun
<1>5. ASSUME NEW c \in Calls, pc[c] \in {"ready", "inflight", "wait"} PROVE c \in Handled
  BY <1>5 DEF AtNode
<1>6. ASSUME NEW c \in Calls, Send(c)
      PROVE  ((Dispatched(c) /\ c \in Handled) \/ Moved(c, "inflight")) /\ now' = now
  <2>1. ContextErrors(c) = {} => ~Expired(c)
    BY DEF ContextErrors
  <2> QED
    BY <1>5, <1>6, <2>1 DEF Send, Dispatched, Goto, Moved, WasSent, Begun
<1>7. ASSUME NEW c \in Calls, WaitOver(c) PROVE Retried(c) /\ c \in Handled /\ now' = now
  BY <1>5, <1>7 DEF WaitOver, Goto, Retried, Begun, Limited
<1>8. ASSUME NEW c \in Calls, WaitCut(c) PROVE Moved(c, "done") /\ now' = now
  BY <1>8 DEF WaitCut, End, Goto, Moved, WasSent, Begun
<1>9. ASSUME NEW c \in Calls, Reply(c)
      PROVE  /\ now' = now
             /\ \/ Retried(c) /\ c \in Handled
                \/ Moved(c, "wait")
                \/ Moved(c, "done")
  <2>1. c \in Handled /\ pc[c] = "inflight"
    BY <1>5, <1>9 DEF Reply
  <2>2. PICK o \in Outcomes(c) : \E d \in retryDelay(policy(c), attempt[c], o) :
            IF MayRetry(c, o, d) THEN Retry(c, d) ELSE Finish(c, o)
    BY <1>9 DEF Reply
  <2>3. PICK d \in retryDelay(policy(c), attempt[c], o) :
            IF MayRetry(c, o, d) THEN Retry(c, d) ELSE Finish(c, o)
    BY <2>2
  <2>4. chain' = chain /\ now' = now /\ asked' = asked /\ due' = due
    BY <1>9 DEF Reply
  <2>5. CASE MayRetry(c, o, d)
    <3>1. attempt[c] < Limit(c) /\ Retry(c, d)
      BY <2>3, <2>5 DEF MayRetry
    <3> QED
      BY <2>1, <2>4, <3>1 DEF Retry, Goto, Retried, Moved, WasSent, Begun
  <2>6. CASE ~MayRetry(c, o, d)
    <3>1. Finish(c, o)
      BY <2>3, <2>6
    <3> QED
      BY <2>1, <2>4, <3>1 DEF Finish, End, Goto, Moved, WasSent, Begun
  <2> QED
    BY <2>5, <2>6
<1>10. ASSUME NEW c \in Calls, Serve(c) PROVE Moved(c, "done") /\ now' = now
  BY <1>10 DEF Serve, End, Goto, Moved, WasSent, Handled
<1>11. ASSUME NEW c \in Calls, Disconnect(c)
       PROVE Idle /\ now' = now
  BY <1>11 DEF Disconnect, Idle
<1>12. ASSUME NEW c \in Calls, Accept(c) \/ Run(c) \/ Reply(c) \/ Serve(c) \/ Disconnect(c)
       PROVE  Effect
  <2>2. CASE Accept(c) \/ WaitOver(c)
    BY <1>1, <1>3, <1>7, <2>2 DEF Effect
  <2>3. CASE NoTime(c) \/ WaitCut(c) \/ Serve(c)
    BY <1>1, <1>4, <1>8, <1>10, <2>3 DEF Effect
  <2>4. CASE Send(c)
    BY <1>1, <1>6, <2>4 DEF Effect
  <2>5. CASE Reply(c)
    BY <1>1, <1>9, <2>5 DEF Effect
  <2>6. CASE Disconnect(c)
    BY <1>1, <1>11, <2>6 DEF Effect
  <2> QED
    BY <1>12, <2>2, <2>3, <2>4, <2>5, <2>6 DEF Run
<1> QED
  BY <1>2, <1>12 DEF Next

-----------------------------------------------------------------------------
(* What a node makes of the constraints *)

\* The configuration of a call's node is one the assumption describes.
LEMMA NodeFacts ==
    ASSUME ChainTypes, NEW c \in Handled
    PROVE  /\ Node(c) \in Nodes
           /\ policy(c).retries \in Attempts
           /\ policy(c).elapsed \in Nat
           /\ chain[Node(c)].context \/ chain[Node(c)].header
<1>1. Node(c) \in Nodes
  <2>1. Len(c) \in Nat /\ Len(c) <= Hops /\ Len(c) # Hops /\ Hops \in Nat
    BY CallsAreSequences, LenProperties, ChainAssumption DEF Handled, AtLast
  <2> QED
    BY <2>1 DEF Node, Nodes
<1>2. PICK s \in Starts : chain = s.nodes
  BY DEF ChainTypes
<1> QED
  BY <1>1, <1>2, ChainAssumption DEF policy, Attempts

\* A call has a limit, and none but zero under the constraint.
LEMMA LimitFacts ==
    ASSUME ChainTypes, NEW c \in Handled
    PROVE  /\ Limit(c) \in Attempts
           /\ asked[c].noMore => noMoreRetry(c) /\ Limit(c) = 0
<1>1. MostRetries \in Nat
  BY ChainAssumption
<1> QED
  BY <1>1, NodeFacts DEF Limit, noMoreRetry, Attempts

LimitsInRange == \A c \in Handled : Limit(c) \in Attempts

LEMMA InRange == ChainTypes => LimitsInRange
BY LimitFacts DEF LimitsInRange

\* The deadline of a call is not later than that of its request.
LEMMA DeadlineFacts ==
    ASSUME ChainTypes, NEW c \in Handled
    PROVE  /\ OverallDeadline(c) \in Int
           /\ OverallDeadline(c) <= asked[c].deadline
<1>1. Never \in Int
  BY SMT DEF Never
<1>2. c \in Calls
  BY DEF Handled
<1>3. asked[c].deadline \in Int
  BY <1>2 DEF ChainTypes
<1>4. Clock(c) \in Int
  BY NodeFacts, ChainAssumption DEF ChainTypes, Clock
<1>5. policy(c).elapsed \in Int
  BY NodeFacts
<1> DEFINE elapsed == IF skip(c) THEN 0 ELSE policy(c).elapsed
<1>6. elapsed \in Int
  BY <1>5
<1> HIDE DEF elapsed
<1>7. (IF elapsed > 0 THEN Clock(c) + elapsed ELSE Never) \in Int
  BY <1>1, <1>4, <1>6
<1>8. OverallDeadline(c) =
          Least(asked[c].deadline, IF elapsed > 0 THEN Clock(c) + elapsed ELSE Never)
  BY DEF OverallDeadline, elapsed
<1> QED
  BY <1>3, <1>7, <1>8 DEF Least

\* What the header says is not later than what it was made from.
LEMMA HeaderFacts ==
    ASSUME NEW d \in Int
    PROVE  formatRequestDeadline(d) \in Int /\ formatRequestDeadline(d) <= d
<1>1. Milli \in Nat \ {0}
  BY ChainAssumption
<1>2. (d \div Milli) * Milli \in Int /\ (d \div Milli) * Milli <= d
  BY <1>1
<1> QED
  BY <1>2 DEF formatRequestDeadline

\* The request of an attempt was not sent before, and nothing else changes on
\* the wire.
LEMMA DispatchFacts ==
    ASSUME ChainTypes, Limited, Numbered, NEW c \in Handled, Dispatched(c)
    PROVE  /\ attempt[c] \in Attempts
           /\ Sent(c) \in Calls
           /\ Sent(c) # c
           /\ Caller(Sent(c)) = c
           /\ Above(Sent(c)) = Above(c) \cup {c}
           /\ ~WasSent(Sent(c))
           /\ \A e \in Calls : WasSent(e)' <=> WasSent(e) \/ e = Sent(c)
           /\ \A e \in Calls : e # Sent(c) => asked'[e] = asked[e]
           /\ asked'[Sent(c)].noMore = NextNoMoreRetry(c)
           /\ asked'[Sent(c)].deadline = formatRequestDeadline(due[c])
<1>1. c \in Calls /\ attempt[c] \in Attempts
  BY DEF Handled, ChainTypes
<1>2. /\ Sent(c) \in Calls
      /\ Sent(c) # c
      /\ Caller(Sent(c)) = c
      /\ Above(Sent(c)) = Above(c) \cup {c}
  BY <1>1, RequestFacts DEF Sent
<1>3. ~WasSent(Sent(c))
  <2>1. attempt[c] \in Int
    BY <1>1, ChainAssumption DEF Attempts
  <2> QED
    BY <1>1, <2>1 DEF Dispatched, Numbered, Sent
<1>4. \A e \in Calls : WasSent(e)' <=> WasSent(e) \/ e = Sent(c)
  BY <1>1, <1>2 DEF Dispatched, WasSent, ChainTypes
<1>5. asked'[Sent(c)] = [noMore |-> NextNoMoreRetry(c),
                        deadline |-> formatRequestDeadline(due[c])]
  BY <1>2 DEF Dispatched, ChainTypes
<1>6. \A e \in Calls : e # Sent(c) => asked'[e] = asked[e]
  BY <1>2 DEF Dispatched, ChainTypes
<1> QED
  BY <1>1, <1>2, <1>3, <1>4, <1>5, <1>6

-----------------------------------------------------------------------------
(* The invariant is inductive *)

LEMMA InitOrdered == Init => Ordered
<1> SUFFICES ASSUME Init PROVE Ordered
  OBVIOUS
<1>1. Never \in Int
  BY SMT DEF Never
<1>2. 0 \in Attempts
  BY ChainAssumption DEF Attempts
<1>3. PICK s \in Starts :
          /\ chain = s.nodes
          /\ asked = [c \in Calls |-> IF c = Root THEN s.entering ELSE Free]
  BY DEF Init
<1>4. Free \in [noMore : BOOLEAN, deadline : Int]
  BY <1>1 DEF Free
<1>5. asked \in [Calls -> [noMore : BOOLEAN, deadline : Int]]
  BY <1>3, <1>4, ChainAssumption
<1>6. /\ pc \in [Calls -> Steps]
      /\ due \in [Calls -> Int]
      /\ attempt \in [Calls -> Attempts]
      /\ now \in Int
  BY <1>1, <1>2 DEF Init, Steps
<1>7. ChainTypes
  BY <1>3, <1>5, <1>6 DEF ChainTypes
<1>8. \A c \in Calls : ~Begun(c) /\ attempt[c] = 0 /\ (WasSent(c) <=> c = Root)
  BY DEF Init, Begun, WasSent
<1>9. AtNode
  BY <1>8 DEF AtNode, Begun
<1>10. Limited
  <2> SUFFICES ASSUME NEW c \in Handled
               PROVE  attempt[c] = 0 /\ attempt[c] <= Limit(c) /\ pc[c] # "wait"
    BY DEF Limited
  <2>1. Limit(c) \in Nat
    BY <1>7, LimitFacts, ChainAssumption DEF Attempts
  <2> QED
    BY <1>8, <2>1 DEF Handled, Begun
<1>11. Numbered
  BY <1>8, RequestFacts DEF Numbered
<1>12. Rooted
  <2>1. Len(Root) = 0
    BY DEF Root
  <2>2. \A c \in Above(Root) : FALSE
    BY <2>1 DEF Above
  <2> QED
    BY <1>8, <2>2 DEF Rooted
<1>13. Dues
  BY <1>8 DEF Dues, Handled
<1> QED
  BY <1>7, <1>9, <1>10, <1>11, <1>12, <1>13 DEF Ordered

LEMMA StepTypes ==
    ASSUME Ordered, Effect
    PROVE  ChainTypes' /\ AtNode'
<1>1. CASE Idle
  BY <1>1 DEF Ordered, ChainTypes, AtNode, Effect, Idle
<1>2. ASSUME NEW c \in Handled, Dispatched(c) PROVE ChainTypes' /\ AtNode'
  <2>1. NextNoMoreRetry(c) \in BOOLEAN
    BY DEF NextNoMoreRetry
  <2>2. c \in Calls /\ due[c] \in Int
    BY DEF Ordered, ChainTypes, Handled
  <2>3. [noMore |-> NextNoMoreRetry(c), deadline |-> formatRequestDeadline(due[c])]
            \in [noMore : BOOLEAN, deadline : Int]
    BY <2>1, <2>2, HeaderFacts
  <2>4. asked' \in [Calls -> [noMore : BOOLEAN, deadline : Int]]
    BY <1>2, <2>3 DEF Dispatched, Ordered, ChainTypes
  <2>5. pc' \in [Calls -> Steps]
    BY <1>2 DEF Dispatched, Ordered, ChainTypes, Steps
  <2>6. AtNode'
    BY <1>2, <2>2 DEF Dispatched, Ordered, ChainTypes, AtNode
  <2> QED
    BY <1>2, <2>4, <2>5, <2>6 DEF Dispatched, Ordered, ChainTypes, Effect
<1>3. ASSUME NEW c \in Handled, Accepted(c) PROVE ChainTypes' /\ AtNode'
  <2>1. OverallDeadline(c) \in Int
    BY DeadlineFacts DEF Ordered
  <2> QED
    BY <1>3, <2>1 DEF Accepted, Ordered, ChainTypes, AtNode, Effect, Steps
<1>4. ASSUME NEW c \in Handled, Retried(c) PROVE ChainTypes' /\ AtNode'
  <2>1. c \in Calls /\ attempt[c] \in Attempts /\ Limit(c) \in Attempts
    BY LimitFacts DEF Ordered, ChainTypes, Handled
  <2>2. attempt[c] + 1 \in Attempts
    BY <1>4, <2>1, ChainAssumption DEF Retried, Attempts
  <2> QED
    BY <1>4, <2>1, <2>2 DEF Retried, Ordered, ChainTypes, AtNode, Effect, Steps
<1>5. ASSUME NEW c \in Calls, NEW step \in {"inflight", "wait", "done"}, Moved(c, step)
      PROVE  ChainTypes' /\ AtNode'
  BY <1>5 DEF Moved, Ordered, ChainTypes, AtNode, Effect, Steps
<1> QED
  BY <1>1, <1>2, <1>3, <1>4, <1>5 DEF Effect

\* The limit of a call depends on what its request asks and its node's policy.
LEMMA LimitKept ==
    ASSUME NEW c, chain' = chain, asked'[c] = asked[c]
    PROVE  Limit(c)' = Limit(c)
BY DEF Limit, noMoreRetry, skip, policy

LEMMA StepLimited ==
    ASSUME Ordered, Effect
    PROVE  Limited'
<1> SUFFICES ASSUME NEW e \in Handled
             PROVE  /\ (~Begun(e))' => attempt'[e] = 0
                    /\ attempt'[e] <= Limit(e)'
                    /\ pc'[e] = "wait" => attempt'[e] < Limit(e)'
  BY DEF Limited
<1>1. e \in Calls /\ ChainTypes /\ ChainTypes' /\ Limited
  BY StepTypes DEF Ordered, Handled
<1>2. attempt[e] \in Nat /\ attempt'[e] \in Nat /\ Limit(e) \in Nat /\ Limit(e)' \in Nat
  <2>1. LimitsInRange /\ LimitsInRange'
    BY <1>1, InRange, PTL
  <2> QED
    BY <1>1, <2>1, ChainAssumption DEF LimitsInRange, ChainTypes, Attempts
<1>3. CASE Idle
  BY <1>1, <1>3, LimitKept DEF Idle, Limited, Begun
<1>4. ASSUME NEW c \in Handled, Dispatched(c)
      PROVE  /\ (~Begun(e))' => attempt'[e] = 0
             /\ attempt'[e] <= Limit(e)'
             /\ pc'[e] = "wait" => attempt'[e] < Limit(e)'
  <2>1. attempt'[e] = attempt[e] /\ chain' = chain
    BY <1>4 DEF Dispatched
  <2>2. CASE e = Sent(c)
    <3>1. attempt[e] = 0 /\ pc'[e] = "wire"
      BY <1>1, <1>4, <2>2, DispatchFacts
         DEF Ordered, Limited, Begun, WasSent, Dispatched, ChainTypes
    <3> QED
      BY <1>2, <2>1, <3>1
  <2>3. CASE e # Sent(c)
    <3>1. Limit(e)' = Limit(e)
      BY <1>1, <1>4, <2>1, <2>3, DispatchFacts, LimitKept DEF Ordered
    <3>2. (~Begun(e))' => ~Begun(e)
      BY <1>1, <1>4, <2>3 DEF Dispatched, Begun, ChainTypes
    <3>3. pc'[e] = "wait" => pc[e] = "wait"
      BY <1>1, <1>4, <2>3 DEF Dispatched, ChainTypes
    <3> QED
      BY <1>1, <2>1, <3>1, <3>2, <3>3 DEF Limited
  <2> QED
    BY <2>2, <2>3
<1>5. ASSUME NEW c \in Handled, Accepted(c)
      PROVE  /\ (~Begun(e))' => attempt'[e] = 0
             /\ attempt'[e] <= Limit(e)'
             /\ pc'[e] = "wait" => attempt'[e] < Limit(e)'
  <2>1. Limit(e)' = Limit(e)
    BY <1>5, LimitKept DEF Accepted
  <2> QED
    BY <1>1, <1>5, <2>1 DEF Accepted, Begun, ChainTypes, Limited
<1>6. ASSUME NEW c \in Handled, Retried(c)
      PROVE  /\ (~Begun(e))' => attempt'[e] = 0
             /\ attempt'[e] <= Limit(e)'
             /\ pc'[e] = "wait" => attempt'[e] < Limit(e)'
  <2>1. Limit(e)' = Limit(e)
    BY <1>6, LimitKept DEF Retried
  <2> QED
    BY <1>1, <1>2, <1>6, <2>1 DEF Retried, Begun, ChainTypes, Limited
<1>7. ASSUME NEW c \in Calls, NEW step \in {"inflight", "wait", "done"}, Moved(c, step)
      PROVE  /\ (~Begun(e))' => attempt'[e] = 0
             /\ attempt'[e] <= Limit(e)'
             /\ pc'[e] = "wait" => attempt'[e] < Limit(e)'
  <2>1. Limit(e)' = Limit(e)
    BY <1>7, LimitKept DEF Moved
  <2> QED
    BY <1>1, <1>2, <1>7, <2>1 DEF Moved, Begun, ChainTypes, Limited
<1> QED
  BY <1>3, <1>4, <1>5, <1>6, <1>7 DEF Effect

LEMMA StepNumbered ==
    ASSUME Ordered, Effect
    PROVE  Numbered'
<1> SUFFICES ASSUME NEW e \in Handled, NEW k \in Attempts, WasSent(Append(e, k))'
             PROVE  /\ Begun(e)'
                    /\ k <= attempt'[e]
                    /\ pc'[e] = "ready" => k < attempt'[e]
  BY DEF Numbered
<1> DEFINE Holds == /\ Begun(e)'
                    /\ k <= attempt'[e]
                    /\ pc'[e] = "ready" => k < attempt'[e]
<1>1. /\ ChainTypes /\ Limited /\ Numbered
      /\ e \in Calls
      /\ Append(e, k) \in Calls
      /\ Append(e, k) # e
  <2>1. Append(e, k) \in Calls /\ Len(e) \in Nat /\ Len(Append(e, k)) = Len(e) + 1
    BY RequestFacts
  <2> QED
    BY <2>1 DEF Ordered, Handled
<1>2. k \in Nat /\ attempt[e] \in Nat
  BY <1>1, ChainAssumption DEF ChainTypes, Attempts
<1>3. CASE Idle
  BY <1>1, <1>3 DEF Idle, Numbered, Begun, WasSent
<1>4. ASSUME NEW c \in Handled, Dispatched(c) PROVE Holds
  <2>1. attempt'[e] = attempt[e]
    BY <1>4 DEF Dispatched
  <2>2. c \in Calls /\ attempt[c] \in Attempts
    BY <1>1 DEF ChainTypes, Handled
  <2>3. CASE Append(e, k) = Sent(c)
    <3>1. e = c /\ k = attempt[c]
      BY <1>1, <2>2, <2>3, CallsAreSequences, AppendInjective DEF Sent
    <3>2. pc'[c] = "inflight"
      BY <1>1, <1>4, <2>2, DispatchFacts DEF Dispatched, ChainTypes
    <3> QED
      BY <1>2, <2>1, <3>1, <3>2 DEF Begun
  <2>4. CASE Append(e, k) # Sent(c)
    <3>1. WasSent(Append(e, k))
      BY <1>1, <1>4, <2>4, DispatchFacts
    <3>2. Begun(e) /\ k <= attempt[e] /\ (pc[e] = "ready" => k < attempt[e])
      BY <1>1, <3>1 DEF Numbered
    <3>3. e # Sent(c)
      BY <1>1, <1>4, <3>2, DispatchFacts DEF Begun, WasSent
    <3>4. pc'[e] = IF e = c THEN "inflight" ELSE pc[e]
      BY <1>1, <1>4, <3>3, DispatchFacts DEF Dispatched, ChainTypes
    <3> QED
      BY <2>1, <3>2, <3>4 DEF Begun
  <2> QED
    BY <2>3, <2>4
<1>5. ASSUME NEW c \in Handled, Accepted(c) PROVE Holds
  <2>1. WasSent(Append(e, k))
    BY <1>1, <1>5 DEF Accepted, WasSent, ChainTypes
  <2>2. Begun(e) /\ k <= attempt[e] /\ (pc[e] = "ready" => k < attempt[e])
    BY <1>1, <2>1 DEF Numbered
  <2> QED
    BY <1>1, <1>5, <2>2 DEF Accepted, Begun, ChainTypes
<1>6. ASSUME NEW c \in Handled, Retried(c) PROVE Holds
  <2>1. WasSent(Append(e, k))
    BY <1>1, <1>6 DEF Retried, Begun, WasSent, ChainTypes
  <2>2. Begun(e) /\ k <= attempt[e] /\ (pc[e] = "ready" => k < attempt[e])
    BY <1>1, <2>1 DEF Numbered
  <2> QED
    BY <1>1, <1>2, <1>6, <2>2 DEF Retried, Begun, ChainTypes
<1>7. ASSUME NEW c \in Calls, NEW step \in {"inflight", "wait", "done"}, Moved(c, step)
      PROVE  Holds
  <2>1. WasSent(Append(e, k))
    BY <1>1, <1>7 DEF Moved, WasSent, ChainTypes
  <2>2. Begun(e) /\ k <= attempt[e] /\ (pc[e] = "ready" => k < attempt[e])
    BY <1>1, <2>1 DEF Numbered
  <2> QED
    BY <1>1, <1>7, <2>2 DEF Moved, Begun, ChainTypes
<1> QED
  BY <1>3, <1>4, <1>5, <1>6, <1>7 DEF Effect

\* What was sent stays sent.
LEMMA WireKept ==
    ASSUME Ordered, Effect, NEW e \in Calls, WasSent(e)
    PROVE  WasSent(e)'
<1>1. ChainTypes
  BY DEF Ordered
<1>2. CASE Idle
  BY <1>2 DEF Idle, WasSent
<1>3. ASSUME NEW c \in Handled, Dispatched(c) PROVE WasSent(e)'
  BY <1>3, DispatchFacts DEF Ordered
<1>4. ASSUME NEW c \in Handled, Accepted(c) \/ Retried(c) PROVE WasSent(e)'
  BY <1>1, <1>4 DEF Accepted, Retried, WasSent, ChainTypes
<1>5. ASSUME NEW c \in Calls, NEW step \in {"inflight", "wait", "done"}, Moved(c, step)
      PROVE  WasSent(e)'
  BY <1>1, <1>5 DEF Moved, WasSent, ChainTypes
<1> QED
  BY <1>2, <1>3, <1>4, <1>5 DEF Effect

\* A step that dispatches nothing leaves what was sent and what it asks.
LEMMA QuietStep ==
    ASSUME Ordered, Effect, ~\E c \in Handled : Dispatched(c)
    PROVE  /\ asked' = asked
           /\ \A e \in Calls : WasSent(e)' <=> WasSent(e)
<1>1. ChainTypes
  BY DEF Ordered
<1>2. CASE Idle
  BY <1>2 DEF Idle, WasSent
<1>3. ASSUME NEW c \in Handled, Accepted(c) \/ Retried(c)
      PROVE  asked' = asked /\ \A e \in Calls : WasSent(e)' <=> WasSent(e)
  BY <1>1, <1>3 DEF Accepted, Retried, Begun, WasSent, ChainTypes
<1>4. ASSUME NEW c \in Calls, NEW step \in {"inflight", "wait", "done"}, Moved(c, step)
      PROVE  asked' = asked /\ \A e \in Calls : WasSent(e)' <=> WasSent(e)
  BY <1>1, <1>4 DEF Moved, WasSent, ChainTypes
<1> QED
  BY <1>2, <1>3, <1>4 DEF Effect

LEMMA StepRooted ==
    ASSUME Ordered, Effect
    PROVE  Rooted'
<1> SUFFICES ASSUME NEW d \in Calls, WasSent(d)', NEW e \in Above(d)
             PROVE  WasSent(e)'
  BY DEF Rooted
<1>1. e \in Calls
  BY AboveFacts DEF Handled
<1>2. CASE WasSent(d)
  BY <1>1, <1>2, WireKept DEF Ordered, Rooted
<1>3. CASE ~WasSent(d)
  <2>1. PICK c \in Handled : Dispatched(c)
    BY <1>3, QuietStep
  <2>2. d = Sent(c) /\ e \in Above(c) \cup {c}
    BY <1>3, <2>1, DispatchFacts DEF Ordered
  <2>3. c \in Calls /\ WasSent(c)
    BY <2>1 DEF Dispatched, WasSent, Handled
  <2>4. WasSent(e)
    BY <2>2, <2>3 DEF Ordered, Rooted
  <2> QED
    BY <1>1, <2>4, WireKept
<1> QED
  BY <1>2, <1>3

LEMMA StepDues ==
    ASSUME Ordered, Effect
    PROVE  Dues'
<1> SUFFICES ASSUME NEW e \in Handled, Begun(e)'
             PROVE  due'[e] <= asked'[e].deadline
  BY DEF Dues
<1>1. e \in Calls /\ ChainTypes /\ Dues
  BY DEF Ordered, Handled
<1>2. CASE Idle
  BY <1>1, <1>2 DEF Idle, Begun, Dues
<1>3. ASSUME NEW c \in Handled, Dispatched(c) PROVE due'[e] <= asked'[e].deadline
  <2>1. due' = due /\ c \in Calls
    BY <1>3 DEF Dispatched, Handled
  <2>2. e # Sent(c)
    BY <1>1, <1>3, DispatchFacts DEF Dispatched, Begun, Ordered, ChainTypes
  <2>3. Begun(e)
    BY <1>1, <1>3, <2>1, <2>2 DEF Dispatched, Begun, ChainTypes
  <2>4. asked'[e] = asked[e]
    BY <1>1, <1>3, <2>2, DispatchFacts DEF Ordered
  <2> QED
    BY <1>1, <2>1, <2>3, <2>4 DEF Dues
<1>4. ASSUME NEW c \in Handled, Accepted(c) PROVE due'[e] <= asked'[e].deadline
  <2>1. OverallDeadline(c) <= asked[c].deadline
    BY <1>1, DeadlineFacts
  <2> QED
    BY <1>1, <1>4, <2>1 DEF Accepted, Begun, Dues, ChainTypes
<1>5. ASSUME NEW c \in Handled, Retried(c) PROVE due'[e] <= asked'[e].deadline
  BY <1>1, <1>5 DEF Retried, Begun, Dues, ChainTypes
<1>6. ASSUME NEW c \in Calls, NEW step \in {"inflight", "wait", "done"}, Moved(c, step)
      PROVE  due'[e] <= asked'[e].deadline
  BY <1>1, <1>6 DEF Moved, Begun, Dues, ChainTypes
<1> QED
  BY <1>2, <1>3, <1>4, <1>5, <1>6 DEF Effect

-----------------------------------------------------------------------------
(* The theorems *)

LEMMA StepOrdered == Ordered /\ [Next]_vars => Ordered' /\ Effect
<1> SUFFICES ASSUME Ordered, [Next]_vars PROVE Ordered' /\ Effect
  OBVIOUS
<1>1. Effect
  <2>1. CASE Next
    BY <2>1, EffectOfStep DEF Ordered
  <2>2. CASE UNCHANGED vars
    BY <2>2 DEF vars, Ordered, ChainTypes, Effect, Idle
  <2> QED
    BY <2>1, <2>2
<1> QED
  BY <1>1, StepTypes, StepLimited, StepNumbered, StepRooted, StepDues DEF Ordered

\* In every state a call keeps to its limit and its deadline, its requests are
\* numbered, and each is sent for the sake of one that was sent
\* (transport.go:57-245, retry_governance.go:25-41).
THEOREM OrderedAlways == Spec => []Ordered
BY InitOrdered, StepOrdered, PTL DEF Spec

LEMMA InitConstraint == Init => ConstraintInherited
<1> SUFFICES ASSUME Init, NEW d \in Calls, WasSent(d), NEW c \in Above(d) PROVE FALSE
  BY DEF ConstraintInherited
<1>1. d = Root
  BY DEF Init, WasSent
<1>2. Len(Root) = 0
  BY DEF Root
<1> QED
  BY <1>1, <1>2 DEF Above

LEMMA StepConstraint ==
    ASSUME Ordered, Effect, ConstraintInherited
    PROVE  ConstraintInherited'
<1> SUFFICES ASSUME NEW d \in Calls, WasSent(d)', NEW c \in Above(d), asked'[c].noMore
             PROVE  /\ asked'[d].noMore
                    /\ \A i \in Len(c) + 1 .. Len(d) : d[i] = 0
  BY DEF ConstraintInherited
<1>1. c \in Calls
  BY AboveFacts DEF Handled
<1>2. CASE ~\E p \in Handled : Dispatched(p)
  BY <1>2, QuietStep DEF ConstraintInherited
<1>3. ASSUME NEW p \in Handled, Dispatched(p)
      PROVE  /\ asked'[d].noMore
             /\ \A i \in Len(c) + 1 .. Len(d) : d[i] = 0
  <2>1. p \in Calls /\ WasSent(p)
    BY <1>3 DEF Dispatched, WasSent, Handled
  <2>2. CASE d # Sent(p)
    <3>1. WasSent(d) /\ asked'[d] = asked[d]
      BY <1>3, <2>2, DispatchFacts DEF Ordered
    <3>2. WasSent(c)
      BY <3>1 DEF Ordered, Rooted
    <3>3. asked'[c] = asked[c]
      BY <1>1, <1>3, <3>2, DispatchFacts DEF Ordered
    <3> QED
      BY <3>1, <3>3 DEF ConstraintInherited
  <2>3. CASE d = Sent(p)
    <3>1. c \in Above(p) \cup {p}
      BY <1>3, <2>3, DispatchFacts DEF Ordered
    <3>2. WasSent(c)
      BY <2>1, <3>1 DEF Ordered, Rooted
    <3>3. asked[c].noMore
      BY <1>1, <1>3, <3>2, DispatchFacts DEF Ordered
    <3>4. asked[p].noMore /\ \A i \in Len(c) + 1 .. Len(p) : p[i] = 0
      <4>1. CASE c \in Above(p)
        BY <2>1, <3>3, <4>1 DEF ConstraintInherited
      <4>2. CASE c = p
        <5>1. Len(p) \in Nat
          BY RequestFacts, ChainAssumption DEF Attempts
        <5> QED
          BY <3>3, <4>2, <5>1
      <4> QED
        BY <3>1, <4>1, <4>2
    <3>5. noMoreRetry(p) /\ attempt[p] = 0
      <4>1. noMoreRetry(p) /\ Limit(p) = 0
        BY <3>4, LimitFacts DEF Ordered
      <4>2. attempt[p] \in Nat
        BY <2>1, ChainAssumption DEF Ordered, ChainTypes, Attempts
      <4> QED
        BY <4>1, <4>2 DEF Ordered, Limited
    <3>6. asked'[d].noMore
      <4>1. NextNoMoreRetry(p)
        BY <3>5 DEF NextNoMoreRetry
      <4>2. asked'[d].noMore = NextNoMoreRetry(p)
        BY <1>3, <2>3, DispatchFacts DEF Ordered
      <4> QED
        BY <4>1, <4>2
    <3>7. /\ Len(p) \in Nat /\ Len(d) = Len(p) + 1
          /\ \A i \in 1 .. Len(p) : d[i] = p[i]
          /\ d[Len(p) + 1] = 0
      <4>1. 0 \in Attempts
        BY ChainAssumption DEF Attempts
      <4> QED
        BY <2>3, <3>5, <4>1, RequestFacts DEF Sent
    <3>8. Len(c) \in Nat
      BY AboveFacts
    <3> QED
      BY <3>4, <3>6, <3>7, <3>8
  <2> QED
    BY <2>2, <2>3
<1> QED
  BY <1>2, <1>3

\* A request that forbids retries is not retried at its node nor below it, in
\* chains of any length (retry_governance.go:26-28, transport.go:130, 260).
THEOREM ConstraintInheritedAlways == Spec => []ConstraintInherited
<1>1. Ordered /\ ConstraintInherited /\ [Next]_vars => ConstraintInherited'
  BY StepOrdered, StepConstraint
<1> QED
  BY <1>1, OrderedAlways, InitConstraint, PTL DEF Spec

LEMMA InitNarrows == Init => DeadlineNarrows
<1> SUFFICES ASSUME Init, NEW d \in Calls, WasSent(d), NEW c \in Above(d) PROVE FALSE
  BY DEF DeadlineNarrows
<1>1. d = Root
  BY DEF Init, WasSent
<1>2. Len(Root) = 0
  BY DEF Root
<1> QED
  BY <1>1, <1>2 DEF Above

\* A call that makes a request is bound by every deadline above the request.
LEMMA Bound ==
    ASSUME Ordered, DeadlineNarrows, NEW p \in Handled, Dispatched(p),
           NEW c \in Above(Sent(p))
    PROVE  due[p] \in Int /\ asked[c].deadline \in Int /\ due[p] <= asked[c].deadline
<1>1. p \in Calls /\ WasSent(p) /\ due[p] \in Int /\ asked[p].deadline \in Int
  BY DEF Dispatched, WasSent, Handled, Ordered, ChainTypes
<1>2. c \in Above(p) \cup {p}
  BY DispatchFacts DEF Ordered
<1>3. c \in Calls
  BY <1>1, <1>2, AboveFacts DEF Handled
<1>4. asked[c].deadline \in Int
  BY <1>3 DEF Ordered, ChainTypes
<1>5. due[p] <= asked[p].deadline
  BY DEF Ordered, Dues, Dispatched, Begun
<1>6. asked[p].deadline <= asked[c].deadline
  BY <1>1, <1>2, <1>4 DEF DeadlineNarrows
<1> QED
  BY <1>1, <1>4, <1>5, <1>6

LEMMA StepNarrows ==
    ASSUME Ordered, Effect, DeadlineNarrows
    PROVE  DeadlineNarrows'
<1> SUFFICES ASSUME NEW d \in Calls, WasSent(d)', NEW c \in Above(d)
             PROVE  asked'[d].deadline <= asked'[c].deadline
  BY DEF DeadlineNarrows
<1>1. c \in Calls
  BY AboveFacts DEF Handled
<1>2. CASE ~\E p \in Handled : Dispatched(p)
  BY <1>2, QuietStep DEF DeadlineNarrows
<1>3. ASSUME NEW p \in Handled, Dispatched(p)
      PROVE  asked'[d].deadline <= asked'[c].deadline
  <2>1. p \in Calls /\ WasSent(p)
    BY <1>3 DEF Dispatched, WasSent, Handled
  <2>2. CASE d # Sent(p)
    <3>1. WasSent(d) /\ asked'[d] = asked[d]
      BY <1>3, <2>2, DispatchFacts DEF Ordered
    <3>2. WasSent(c)
      BY <3>1 DEF Ordered, Rooted
    <3>3. asked'[c] = asked[c]
      BY <1>1, <1>3, <3>2, DispatchFacts DEF Ordered
    <3> QED
      BY <3>1, <3>3 DEF DeadlineNarrows
  <2>3. CASE d = Sent(p)
    <3>1. due[p] \in Int /\ asked[c].deadline \in Int /\ due[p] <= asked[c].deadline
      BY <1>3, <2>3, Bound
    <3>2. WasSent(c)
      BY <1>3, <2>1, <2>3, DispatchFacts DEF Ordered, Rooted
    <3>3. asked'[c] = asked[c]
      BY <1>1, <1>3, <3>2, DispatchFacts DEF Ordered
    <3>4. asked'[d].deadline = formatRequestDeadline(due[p])
      BY <1>3, <2>3, DispatchFacts DEF Ordered
    <3>5. formatRequestDeadline(due[p]) \in Int /\ formatRequestDeadline(due[p]) <= due[p]
      BY <3>1, HeaderFacts
    <3> QED
      BY <3>1, <3>3, <3>4, <3>5
  <2> QED
    BY <2>2, <2>3
<1> QED
  BY <1>2, <1>3

\* No hop extends or drops the deadline of a request above it, whatever the
\* clocks say (retry_governance.go:30-40, transport.go:122-129, 250-264).
THEOREM DeadlineNarrowsAlways == Spec => []DeadlineNarrows
<1>1. Ordered /\ DeadlineNarrows /\ [Next]_vars => DeadlineNarrows'
  BY StepOrdered, StepNarrows
<1> QED
  BY <1>1, OrderedAlways, InitNarrows, PTL DEF Spec

LEMMA StepNotLate ==
    ASSUME Ordered, Effect, DeadlineNarrows,
           NEW d \in Calls, ~WasSent(d), WasSent(d)', NEW c \in Above(d)
    PROVE  Clock(Caller(d)) < asked[c].deadline
<1>1. PICK p \in Handled : Dispatched(p)
  BY QuietStep
<1>2. d = Sent(p) /\ Caller(d) = p
  BY <1>1, DispatchFacts DEF Ordered
<1>3. due[p] \in Int /\ asked[c].deadline \in Int /\ due[p] <= asked[c].deadline
  BY <1>1, <1>2, Bound
<1>4. Clock(p) \in Int
  BY NodeFacts, ChainAssumption DEF Ordered, ChainTypes, Clock
<1>5. Clock(p) < due[p]
  BY <1>1, <1>3, <1>4 DEF Dispatched, Expired
<1> QED
  BY <1>2, <1>3, <1>4, <1>5

\* A node whose clock has passed the deadline of a request above it sends
\* nothing more for it (transport.go:467-476, retry_governance.go:37-40).
THEOREM NothingSentLateAlways == Spec => NothingSentLate
<1>1. Ordered /\ DeadlineNarrows /\ [Next]_vars =>
          \A d \in Calls : ~WasSent(d) /\ WasSent(d)' =>
              \A c \in Above(d) : Clock(Caller(d)) < asked[c].deadline
  BY StepOrdered, StepNotLate
<1> QED
  BY <1>1, OrderedAlways, DeadlineNarrowsAlways, PTL DEF Spec, NothingSentLate

-----------------------------------------------------------------------------
(* How many requests the last server gets *)

\* What the nodes from the last but m on allow, m counted from the last server.
LEMMA WorstDef ==
    ASSUME ChainTypes
    PROVE  /\ Worst[Hops + 1] = 1
           /\ \A n \in Nodes :
                  Worst[n] = IF chain[n].skip THEN Worst[n + 1]
                             ELSE chain[n].policy.retries * Worst[n + 1] + 1
           /\ \A n \in 1 .. Hops + 1 : Worst[n] \in Nat \ {0}
<1>1. Hops \in Nat \ {0}
  BY ChainAssumption
<1> DEFINE At(n, w) == IF chain[n].skip THEN w ELSE chain[n].policy.retries * w + 1
           IsWorst(v) == v = [n \in 1 .. Hops + 1 |-> IF n = Hops + 1 THEN 1 ELSE At(n, v[n + 1])]
           g == [m \in Nat |-> [w \in Nat \ {0} |-> IF m < Hops THEN At(Hops - m, w) ELSE 1]]
<1>2. ASSUME NEW n \in Nodes, NEW w \in Nat \ {0} PROVE At(n, w) \in Nat \ {0}
  <2>1. chain[n].policy.retries \in Nat
    BY ChainAssumption DEF ChainTypes
  <2>2. \A a \in Nat : a * w + 1 \in Nat \ {0}
    OBVIOUS
  <2> QED
    BY <2>1, <2>2
<1>3. 1 \in Nat \ {0} /\ g \in StepsOn(Nat \ {0})
  <2>1. \A m \in Nat : m < Hops => Hops - m \in Nodes
    BY <1>1 DEF Nodes
  <2> HIDE DEF At
  <2> QED
    BY <1>2, <2>1 DEF StepsOn
<1>4. PICK f \in [Nat -> Nat \ {0}] : Follows(f, 1, g)
  <2> HIDE DEF g
  <2> QED
    BY <1>3, Recursion
<1> DEFINE v == [n \in 1 .. Hops + 1 |-> f[Hops + 1 - n]]
<1>5. IsWorst(v)
  <2>1. f[0] = 1 /\ \A m \in Nat : f[m + 1] = g[m][f[m]]
    BY <1>4 DEF Follows
  <2>2. ASSUME NEW n \in 1 .. Hops + 1
        PROVE  v[n] = IF n = Hops + 1 THEN 1 ELSE At(n, v[n + 1])
    <3>1. CASE n = Hops + 1
      BY <1>1, <2>1, <3>1
    <3>2. CASE n # Hops + 1
      <4>1. /\ Hops - n \in Nat /\ Hops - n < Hops /\ Hops - (Hops - n) = n
            /\ (Hops - n) + 1 = Hops + 1 - n /\ n + 1 \in 1 .. Hops + 1
            /\ Hops + 1 - (n + 1) = Hops - n
        BY <1>1, <3>2
      <4>2. f[Hops - n] \in Nat \ {0}
        BY <4>1
      <4> HIDE DEF At
      <4>3. g[Hops - n][f[Hops - n]] = At(n, f[Hops - n])
        BY <4>1, <4>2
      <4>4. v[n] = At(n, f[Hops - n])
        BY <2>1, <4>1, <4>3
      <4>5. v[n + 1] = f[Hops - n]
        BY <4>1
      <4> QED
        BY <3>2, <4>4, <4>5
    <3> QED
      BY <3>1, <3>2
  <2> QED
    BY <2>2
<1>6. Worst = CHOOSE w : IsWorst(w)
  BY DEF Worst
<1>7. IsWorst(Worst)
  <2> HIDE DEF IsWorst
  <2> QED
    BY <1>5, <1>6
<1>8. /\ Worst[Hops + 1] = 1
      /\ \A n \in Nodes : Worst[n] = At(n, Worst[n + 1])
  <2>1. Hops + 1 \in 1 .. Hops + 1 /\ \A n \in Nodes : n \in 1 .. Hops + 1 /\ n # Hops + 1
    BY <1>1 DEF Nodes
  <2> HIDE DEF At
  <2> QED
    BY <1>7, <2>1
<1>9. \A n \in 1 .. Hops + 1 : Worst[n] \in Nat \ {0}
  <2> DEFINE S == {m \in Nat : m <= Hops => Worst[Hops + 1 - m] \in Nat \ {0}}
  <2>1. 0 \in S
    BY <1>1, <1>8
  <2>2. ASSUME NEW m \in Nat, m \in S PROVE m + 1 \in S
    <3> SUFFICES ASSUME m + 1 <= Hops PROVE Worst[Hops + 1 - (m + 1)] \in Nat \ {0}
      OBVIOUS
    <3>1. Hops - m \in Nodes /\ Hops + 1 - (m + 1) = Hops - m /\ (Hops - m) + 1 = Hops + 1 - m
      BY <1>1 DEF Nodes
    <3>2. Worst[(Hops - m) + 1] \in Nat \ {0}
      BY <1>1, <2>2, <3>1
    <3> HIDE DEF At
    <3> QED
      BY <1>2, <1>8, <3>1, <3>2
  <2> HIDE DEF S
  <2>3. \A m \in Nat : m \in S
    BY <2>1, <2>2, SetInduction
  <2> SUFFICES ASSUME NEW n \in 1 .. Hops + 1 PROVE Worst[n] \in Nat \ {0}
    OBVIOUS
  <2>4. Hops + 1 - n \in Nat /\ Hops + 1 - n <= Hops /\ Hops + 1 - (Hops + 1 - n) = n
    BY <1>1
  <2> QED
    BY <2>3, <2>4 DEF S
<1> QED
  BY <1>8, <1>9

\* A request below a call is, or is below, one of the requests of the call.
LEMMA BelowFacts ==
    ASSUME NEW d \in Calls, NEW c \in Above(d)
    PROVE  \E k \in Attempts : Append(c, k) \in Above(d) \cup {d}
<1>1. d \in Seq(Attempts) /\ Len(d) \in Nat /\ Len(d) <= Hops /\ Hops \in Nat
  BY CallsAreSequences, LenProperties, ChainAssumption
<1>2. PICK n \in 0 .. Len(d) - 1 : c = SubSeq(d, 1, n)
  BY DEF Above
<1>3. /\ n \in Nat /\ n + 1 \in 1 .. Len(d)
      /\ \A i \in 1 .. n + 1 : i \in 1 .. Len(d)
  BY <1>1
<1>4. \A i \in 1 .. Len(d) : d[i] \in Attempts
  BY <1>1, ElementOfSeq
<1>5. /\ c \in Seq(Attempts)
      /\ Len(c) = n
      /\ \A i \in 1 .. n : c[i] = d[i]
  <2>1. \A i \in 1 .. n : d[i] \in Attempts
    BY <1>3, <1>4
  <2> QED
    BY <1>1, <1>2, <1>3, <2>1, SubSeqProperties
<1>6. /\ SubSeq(d, 1, n + 1) \in Seq(Attempts)
      /\ Len(SubSeq(d, 1, n + 1)) = n + 1
      /\ \A i \in 1 .. n + 1 : SubSeq(d, 1, n + 1)[i] = d[i]
  <2>1. \A i \in 1 .. n + 1 : d[i] \in Attempts
    BY <1>3, <1>4
  <2> QED
    BY <1>1, <1>3, <2>1, SubSeqProperties
<1> DEFINE k == d[n + 1]
<1>7. k \in Attempts
  BY <1>3, <1>4
<1>8. /\ Append(c, k) \in Seq(Attempts)
      /\ Len(Append(c, k)) = n + 1
      /\ \A i \in 1 .. n : Append(c, k)[i] = c[i]
      /\ Append(c, k)[n + 1] = k
  BY <1>5, <1>7, AppendProperties
<1>9. Append(c, k) = SubSeq(d, 1, n + 1)
  <2>1. \A i \in 1 .. n + 1 : Append(c, k)[i] = SubSeq(d, 1, n + 1)[i]
    <3> SUFFICES ASSUME NEW i \in 1 .. n + 1
                 PROVE  Append(c, k)[i] = SubSeq(d, 1, n + 1)[i]
      OBVIOUS
    <3>1. i \in 1 .. n \/ i = n + 1
      BY <1>3
    <3> QED
      BY <1>5, <1>6, <1>8, <3>1
  <2> QED
    BY <1>6, <1>8, <2>1, SeqEqual
<1>10. SubSeq(d, 1, n + 1) \in Above(d) \cup {d}
  <2>1. CASE n + 1 = Len(d)
    BY <1>1, <2>1, SubSeqFull
  <2>2. CASE n + 1 # Len(d)
    <3>1. n + 1 \in 0 .. Len(d) - 1
      BY <1>1, <1>3, <2>2
    <3> QED
      BY <3>1 DEF Above
  <2> QED
    BY <2>1, <2>2
<1> QED
  BY <1>7, <1>9, <1>10

\* So many sets of at most w elements have together at most this many.
LEMMA UnionBound ==
    ASSUME NEW F, NEW w \in Nat,
           \A k \in Nat : IsFiniteSet(F[k]) /\ Cardinality(F[k]) <= w
    PROVE  \A n \in Nat : LET U == UNION {F[k] : k \in 0 .. n - 1}
                          IN  IsFiniteSet(U) /\ Cardinality(U) <= n * w
<1> DEFINE U(n) == UNION {F[k] : k \in 0 .. n - 1}
           S == {n \in Nat : IsFiniteSet(U(n)) /\ Cardinality(U(n)) <= n * w}
<1>1. 0 \in S
  <2>1. U(0) = {} /\ 0 * w = 0
    OBVIOUS
  <2> HIDE DEF U
  <2>2. IsFiniteSet(U(0)) /\ Cardinality(U(0)) <= 0 * w
    BY <2>1, FS_EmptySet
  <2> QED
    BY <2>2
<1>2. ASSUME NEW n \in Nat, n \in S PROVE n + 1 \in S
  <2>1. U(n + 1) = U(n) \cup F[n]
    <3>1. 0 .. (n + 1) - 1 = (0 .. n - 1) \cup {n}
      OBVIOUS
    <3> QED
      BY <3>1
  <2>2. (n + 1) * w = n * w + w /\ n * w \in Nat
    OBVIOUS
  <2> DEFINE V == U(n)
  <2>3. IsFiniteSet(V) /\ Cardinality(V) <= n * w /\ U(n + 1) = V \cup F[n]
    BY <1>2, <2>1
  <2> HIDE DEF V, U
  <2>4. IsFiniteSet(F[n]) /\ Cardinality(F[n]) <= w
    OBVIOUS
  <2>5. /\ Cardinality(V) \in Nat /\ Cardinality(F[n]) \in Nat
        /\ IsFiniteSet(V \cup F[n])
        /\ Cardinality(V \cup F[n]) = Cardinality(V) + Cardinality(F[n]) - Cardinality(V \cap F[n])
        /\ Cardinality(V \cap F[n]) \in Nat
    BY <2>3, <2>4, FS_Union, FS_Intersection, FS_CardinalityType
  <2>6. Cardinality(V \cup F[n]) <= n * w + w
    <3> DEFINE x == n * w
               a == Cardinality(V)
               b == Cardinality(F[n])
               i == Cardinality(V \cap F[n])
    <3>1. x \in Nat /\ a \in Nat /\ b \in Nat /\ i \in Nat /\ a <= x /\ b <= w
      BY <2>2, <2>3, <2>4, <2>5
    <3>2. Cardinality(V \cup F[n]) = a + b - i
      BY <2>5
    <3> HIDE DEF x, a, b, i
    <3>3. Cardinality(V \cup F[n]) <= x + w
      BY <3>1, <3>2
    <3> QED
      BY <3>3 DEF x
  <2>7. IsFiniteSet(U(n + 1)) /\ Cardinality(U(n + 1)) <= (n + 1) * w
    BY <2>2, <2>3, <2>5, <2>6
  <2> QED
    BY <2>7
<1> HIDE DEF S
<1>3. \A n \in Nat : n \in S
  BY <1>1, <1>2, SetInduction
<1> QED
  BY <1>3 DEF S

\* The request of a call's last attempt forbids retries.
LastForbids ==
    \A c \in Handled : \A k \in Attempts :
        WasSent(Append(c, k)) /\ ~skip(c) /\ k = Limit(c) => asked[Append(c, k)].noMore

LEMMA InitLastForbids == Init => LastForbids
<1> SUFFICES ASSUME Init, NEW c \in Handled, NEW k \in Attempts PROVE ~WasSent(Append(c, k))
  BY DEF LastForbids
<1>1. Append(c, k) \in Calls /\ Append(c, k) # Root
  BY RequestFacts
<1> QED
  BY <1>1 DEF Init, WasSent

LEMMA StepLastForbids ==
    ASSUME Ordered, Effect, LastForbids
    PROVE  LastForbids'
<1> SUFFICES ASSUME NEW c \in Handled, NEW k \in Attempts,
                    WasSent(Append(c, k))', (~skip(c))', k = Limit(c)'
             PROVE  asked'[Append(c, k)].noMore
  BY DEF LastForbids
<1> DEFINE d == Append(c, k)
<1>1. c \in Calls /\ d \in Calls /\ c \in Above(d) /\ Caller(d) = c /\ d[Len(c) + 1] = k
  BY RequestFacts DEF Handled
<1> HIDE DEF d
<1>2. chain' = chain
  BY DEF Effect, Idle, Dispatched, Accepted, Retried, Moved
<1>3. ~skip(c)
  BY <1>2 DEF skip
<1>4. ASSUME WasSent(d), asked'[d] = asked[d], asked'[c] = asked[c]
      PROVE  asked'[d].noMore
  <2>1. k = Limit(c)
    BY <1>2, <1>4, LimitKept
  <2> QED
    BY <1>3, <1>4, <2>1 DEF LastForbids, d
<1>5. CASE ~\E p \in Handled : Dispatched(p)
  <2>1. asked' = asked /\ WasSent(d)
    BY <1>1, <1>5, QuietStep DEF d
  <2> QED
    BY <1>4, <2>1 DEF d
<1>6. ASSUME NEW p \in Handled, Dispatched(p) PROVE asked'[d].noMore
  <2>1. CASE d # Sent(p)
    <3>1. WasSent(d) /\ asked'[d] = asked[d]
      BY <1>1, <1>6, <2>1, DispatchFacts DEF Ordered, d
    <3>2. WasSent(c)
      BY <1>1, <3>1 DEF Ordered, Rooted
    <3>3. asked'[c] = asked[c]
      BY <1>1, <1>6, <3>2, DispatchFacts DEF Ordered
    <3> QED
      BY <1>4, <3>1, <3>3
  <2>2. CASE d = Sent(p)
    <3>1. p = c /\ attempt[c] \in Attempts /\ asked'[c] = asked[c]
      BY <1>1, <1>6, <2>2, DispatchFacts DEF Ordered
    <3>2. k = attempt[c]
      BY <1>1, <2>2, <3>1, RequestFacts DEF Sent
    <3>3. NextNoMoreRetry(c)
      BY <1>2, <1>3, <3>1, <3>2, LimitKept DEF NextNoMoreRetry
    <3> QED
      BY <1>6, <2>2, <3>1, <3>3, DispatchFacts DEF Ordered
  <2> QED
    BY <2>1, <2>2
<1> QED
  BY <1>5, <1>6 DEF d

-----------------------------------------------------------------------------

\* What a call may add to the load.
Share(c) == IF asked[c].noMore THEN 1 ELSE Worst[Node(c)]

\* Beyond its own node a request has the load of the requests made for it.
LEMMA LoadBelow ==
    ASSUME NEW c \in Handled
    PROVE  Load(c) \subseteq UNION {Load(Append(c, k)) : k \in Attempts}
<1> SUFFICES ASSUME NEW d \in Load(c)
             PROVE  \E k \in Attempts : d \in Load(Append(c, k))
  OBVIOUS
<1>1. d \in Calls /\ WasSent(d) /\ AtLast(d) /\ c \in Above(d) \cup {d}
  BY DEF Load
<1>2. d # c
  BY <1>1 DEF Handled
<1>3. PICK k \in Attempts : Append(c, k) \in Above(d) \cup {d}
  BY <1>1, <1>2, BelowFacts
<1> QED
  BY <1>1, <1>3 DEF Load

\* A request that was not sent has no load.
LEMMA LoadUnsent ==
    ASSUME Rooted, NEW c \in Calls, ~WasSent(c)
    PROVE  Load(c) = {}
BY DEF Load, Rooted

\* The requests a call has made, under its limit and at it.
LEMMA RequestsSent ==
    ASSUME Ordered, NEW c \in Handled, NEW k \in Attempts, WasSent(Append(c, k))
    PROVE  k <= Limit(c)
<1>1. Begun(c) /\ k <= attempt[c] /\ attempt[c] <= Limit(c)
  BY DEF Ordered, Numbered, Limited
<1>2. k \in Int /\ attempt[c] \in Int /\ Limit(c) \in Int
  BY LimitFacts, ChainAssumption DEF Ordered, ChainTypes, Attempts, Handled
<1> QED
  BY <1>1, <1>2

Bounded(c) == IsFiniteSet(Load(c)) /\ Cardinality(Load(c)) <= Share(c)

LEMMA ShareType ==
    ASSUME ChainTypes, NEW c \in Calls
    PROVE  /\ Share(c) \in Nat \ {0}
           /\ Worst[Node(c)] \in Nat \ {0}
           /\ Node(c) \in 1 .. Hops + 1
<1>1. Len(c) \in Nat /\ Len(c) <= Hops /\ Hops \in Nat
  BY CallsAreSequences, LenProperties, ChainAssumption
<1>2. Node(c) \in 1 .. Hops + 1
  BY <1>1 DEF Node
<1> QED
  BY <1>2, WorstDef DEF Share

\* The load of a call whose requests are within their shares is within its own.
LEMMA LoadOfCall ==
    ASSUME Ordered, ConstraintInherited, LastForbids, NEW c \in Handled, WasSent(c),
           \A k \in Attempts : WasSent(Append(c, k)) => Bounded(Append(c, k))
    PROVE  Bounded(c)
<1>1. c \in Calls /\ ChainTypes /\ Rooted /\ Limit(c) \in Attempts /\ MostRetries \in Nat
  BY LimitFacts, ChainAssumption DEF Ordered, Handled
<1>2. ASSUME NEW k \in Attempts
      PROVE  /\ Append(c, k) \in Calls /\ c \in Above(Append(c, k))
             /\ Node(Append(c, k)) = Node(c) + 1
  BY RequestFacts DEF Node
<1>3. Node(c) \in Nodes
  BY <1>1, NodeFacts
<1> DEFINE w == Worst[Node(c) + 1]
<1>4. w \in Nat \ {0} /\ Node(c) + 1 \in Int
  <2>1. Node(c) + 1 \in 1 .. Hops + 1
    BY <1>3, ChainAssumption DEF Nodes
  <2> QED
    BY <1>1, <2>1, WorstDef
<1> DEFINE L == Limit(c)
           only(k) == Load(Append(c, k))
<1>5. ASSUME NEW k \in Attempts, WasSent(Append(c, k))
      PROVE  k <= L
  BY <1>5, RequestsSent
<1>6. ASSUME NEW k \in Attempts
      PROVE  IsFiniteSet(only(k)) /\ Cardinality(only(k)) <= w
  <2>1. CASE ~WasSent(Append(c, k))
    <3>1. only(k) = {}
      BY <1>1, <1>2, <2>1, LoadUnsent
    <3> QED
      BY <1>4, <3>1, FS_EmptySet
  <2>2. CASE WasSent(Append(c, k))
    <3>1. Bounded(Append(c, k))
      BY <2>2
    <3>2. Share(Append(c, k)) <= w /\ Share(Append(c, k)) \in Nat
      <4>1. Share(Append(c, k)) = 1 \/ Share(Append(c, k)) = w
        BY <1>2 DEF Share
      <4> QED
        BY <1>4, <4>1
    <3>3. Cardinality(only(k)) \in Nat
      BY <3>1, FS_CardinalityType DEF Bounded
    <3> QED
      BY <1>4, <3>1, <3>2, <3>3 DEF Bounded
  <2> QED
    BY <2>1, <2>2
<1>7. CASE asked[c].noMore \/ skip(c)
  <2>1. L = 0
    BY <1>1, <1>7, LimitFacts DEF Limit
  <2>2. 0 \in Attempts
    BY <1>1 DEF Attempts
  <2>3. ASSUME NEW k \in Attempts, k # 0 PROVE only(k) = {}
    <3>1. ~WasSent(Append(c, k))
      BY <1>1, <1>5, <2>1, <2>3 DEF Attempts
    <3> QED
      BY <1>1, <1>2, <3>1, LoadUnsent
  <2>4. Load(c) \subseteq only(0)
    BY <2>3, LoadBelow
  <2>5. IsFiniteSet(Load(c)) /\ Cardinality(Load(c)) <= Cardinality(only(0))
    <3> HIDE DEF only
    <3> QED
      BY <1>6, <2>2, <2>4, FS_Subset
  <2>6. Cardinality(only(0)) <= Share(c)
    <3>1. CASE ~WasSent(Append(c, 0))
      <4>1. only(0) = {}
        BY <1>1, <1>2, <2>2, <3>1, LoadUnsent
      <4> QED
        BY <1>1, <4>1, FS_EmptySet, ShareType
    <3>2. CASE WasSent(Append(c, 0)) /\ asked[c].noMore
      <4>1. asked[Append(c, 0)].noMore
        BY <1>2, <2>2, <3>2 DEF ConstraintInherited
      <4> QED
        BY <2>2, <3>2, <4>1 DEF Bounded, Share
    <3>3. CASE ~asked[c].noMore
      <4>1. Share(c) = w
        BY <1>1, <1>3, <1>7, <3>3, WorstDef DEF Share, skip
      <4> QED
        BY <1>6, <2>2, <4>1
    <3> QED
      BY <3>1, <3>2, <3>3
  <2>7. Cardinality(Load(c)) \in Nat /\ Cardinality(only(0)) \in Nat /\ Share(c) \in Nat
    BY <1>1, <1>6, <2>2, <2>5, FS_CardinalityType, ShareType
  <2> HIDE DEF only
  <2> QED
    BY <2>5, <2>6, <2>7 DEF Bounded
<1>8. CASE ~asked[c].noMore /\ ~skip(c)
  <2>1. L = policy(c).retries
    BY <1>8 DEF Limit, noMoreRetry
  <2>2. Share(c) = L * w + 1
    BY <1>1, <1>3, <1>8, <2>1, WorstDef DEF Share, skip, policy
  <2> DEFINE F == [k \in Nat |-> IF k < L THEN only(k) ELSE {}]
             U == UNION {F[k] : k \in 0 .. L - 1}
  <2>3. L \in Nat /\ \A k \in Nat : k <= L => k \in Attempts
    BY <1>1 DEF Attempts
  <2>4. IsFiniteSet(U) /\ Cardinality(U) <= L * w
    <3>1. \A k \in Nat : IsFiniteSet(F[k]) /\ Cardinality(F[k]) <= w
      <4>1. ASSUME NEW k \in Nat PROVE IsFiniteSet(F[k]) /\ Cardinality(F[k]) <= w
        <5>1. CASE k < L
          BY <1>6, <2>3, <5>1
        <5>2. CASE ~(k < L)
          BY <1>4, <5>2, FS_EmptySet
        <5> QED
          BY <5>1, <5>2
      <4> QED
        BY <4>1
    <3> HIDE DEF F, L, w
    <3> QED
      BY <1>4, <2>3, <3>1, UnionBound
  <2>5. IsFiniteSet(only(L)) /\ Cardinality(only(L)) <= 1
    <3>1. L \in Attempts
      BY <1>1
    <3>2. CASE ~WasSent(Append(c, L))
      <4>1. only(L) = {}
        BY <1>1, <1>2, <3>1, <3>2, LoadUnsent
      <4> QED
        BY <4>1, FS_EmptySet
    <3>3. CASE WasSent(Append(c, L))
      <4>1. asked[Append(c, L)].noMore
        BY <1>8, <3>1, <3>3 DEF LastForbids
      <4> QED
        BY <3>1, <3>3, <4>1 DEF Bounded, Share
    <3> QED
      BY <3>2, <3>3
  <2>6. Load(c) \subseteq U \cup only(L)
    <3> SUFFICES ASSUME NEW d \in Load(c) PROVE d \in U \cup only(L)
      OBVIOUS
    <3>1. PICK k \in Attempts : d \in only(k)
      BY LoadBelow
    <3>2. WasSent(Append(c, k))
      BY <1>1, <1>2, <3>1, LoadUnsent
    <3>3. k <= L /\ k \in Nat
      BY <1>1, <1>5, <3>2 DEF Attempts
    <3>4. CASE k = L
      BY <3>1, <3>4
    <3>5. CASE k # L
      <4>1. k \in 0 .. L - 1 /\ F[k] = only(k)
        BY <2>3, <3>3, <3>5
      <4> QED
        BY <3>1, <4>1
    <3> QED
      BY <3>4, <3>5
  <2> DEFINE V == only(L)
  <2>7. IsFiniteSet(U \cup V) /\ Cardinality(U \cup V) <= L * w + 1
    <3> DEFINE x == L * w
    <3>1. x \in Nat
      BY <1>4, <2>3
    <3>2. IsFiniteSet(U) /\ Cardinality(U) <= x /\ IsFiniteSet(V) /\ Cardinality(V) <= 1
      BY <2>4, <2>5
    <3> HIDE DEF U, V, x
    <3>3. /\ Cardinality(U) \in Nat /\ Cardinality(V) \in Nat /\ Cardinality(U \cap V) \in Nat
          /\ IsFiniteSet(U \cup V)
          /\ Cardinality(U \cup V) = Cardinality(U) + Cardinality(V) - Cardinality(U \cap V)
      BY <3>2, FS_Union, FS_Intersection, FS_CardinalityType
    <3>4. Cardinality(U \cup V) <= x + 1
      BY <3>1, <3>2, <3>3
    <3> QED
      BY <3>3, <3>4 DEF x
  <2> DEFINE x == L * w + 1
  <2>8. x \in Nat /\ Share(c) = x /\ Cardinality(U \cup V) <= x
    BY <1>4, <2>2, <2>3, <2>7
  <2> HIDE DEF U, V, x
  <2>9. IsFiniteSet(Load(c)) /\ Cardinality(Load(c)) <= Cardinality(U \cup V)
    BY <2>6, <2>7, FS_Subset DEF V
  <2>10. Cardinality(Load(c)) \in Nat /\ Cardinality(U \cup V) \in Nat
    BY <2>7, <2>9, FS_CardinalityType
  <2> QED
    BY <2>8, <2>9, <2>10 DEF Bounded
<1> QED
  BY <1>7, <1>8

\* Every request that was sent keeps the load within its share.
LEMMA LoadBounded ==
    ASSUME Ordered, ConstraintInherited, LastForbids
    PROVE  AmplificationBounded
<1> DEFINE S == {m \in Nat : \A c \in Calls : WasSent(c) /\ Hops - Len(c) = m => Bounded(c)}
<1>0. \A c \in Calls : Len(c) \in Nat /\ Len(c) <= Hops /\ Hops \in Nat
  BY CallsAreSequences, LenProperties, ChainAssumption
<1>1. 0 \in S
  <2> SUFFICES ASSUME NEW c \in Calls, WasSent(c), Hops - Len(c) = 0 PROVE Bounded(c)
    OBVIOUS
  <2>1. Len(c) = Hops
    BY <1>0
  <2>2. Load(c) \subseteq {c}
    <3> SUFFICES ASSUME NEW d \in Load(c), c # d PROVE FALSE
      OBVIOUS
    <3>1. d \in Calls /\ c \in Above(d)
      BY DEF Load
    <3> QED
      BY <1>0, <2>1, <3>1, AboveFacts
  <2>3. IsFiniteSet(Load(c)) /\ Cardinality(Load(c)) <= 1
    <3>1. IsFiniteSet({c}) /\ Cardinality({c}) = 1
      BY FS_Singleton
    <3>2. IsFiniteSet(Load(c)) /\ Cardinality(Load(c)) <= Cardinality({c})
      BY <2>2, <3>1, FS_Subset
    <3> QED
      BY <3>1, <3>2
  <2>4. Share(c) \in Nat \ {0} /\ Cardinality(Load(c)) \in Nat
    BY <2>3, ShareType, FS_CardinalityType DEF Ordered
  <2> QED
    BY <2>3, <2>4 DEF Bounded
<1>2. ASSUME NEW m \in Nat, m \in S PROVE m + 1 \in S
  <2> SUFFICES ASSUME NEW c \in Calls, WasSent(c), Hops - Len(c) = m + 1 PROVE Bounded(c)
    OBVIOUS
  <2>1. c \in Handled
    BY <1>0 DEF Handled, AtLast
  <2>2. ASSUME NEW k \in Attempts, WasSent(Append(c, k)) PROVE Bounded(Append(c, k))
    <3>1. Append(c, k) \in Calls /\ Len(Append(c, k)) = Len(c) + 1
      BY <2>1, RequestFacts
    <3>2. Hops - Len(Append(c, k)) = m
      BY <1>0, <3>1
    <3> QED
      BY <1>2, <2>2, <3>1, <3>2
  <2> QED
    BY <2>1, <2>2, LoadOfCall
<1> HIDE DEF S
<1>3. \A m \in Nat : m \in S
  BY <1>1, <1>2, SetInduction
<1> SUFFICES ASSUME NEW c \in Calls, WasSent(c) PROVE Bounded(c)
  BY DEF AmplificationBounded, Bounded, Share
<1>4. Hops - Len(c) \in Nat
  BY <1>0
<1> QED
  BY <1>3, <1>4 DEF S

\* In a chain of any length, whatever runs out of time, is abandoned or arrives
\* late, the last server gets at most what the policies of the nodes that are not
\* under the constraint allow, and one request for each call that is
\* (transport.go:130-148, 490).
THEOREM AmplificationBoundedAlways == Spec => []AmplificationBounded
<1>1. Ordered /\ LastForbids /\ [Next]_vars => LastForbids'
  BY StepOrdered, StepLastForbids
<1> QED
  BY <1>1, InitLastForbids, OrderedAlways, ConstraintInheritedAlways, LoadBounded, PTL DEF Spec

-----------------------------------------------------------------------------
(* Budgets, waits and outcomes *)

\* What a call or a request may end in.
Endings ==
    {Error(e) : e \in Failures \cup {"none", "canceled", "deadline"}}
        \cup Answers \cup {Response(502, {})}

LEMMA EndingFacts == \A o \in Endings : o.retryAfter \subseteq Int
<1>1. \A e : Error(e).retryAfter = {}
  BY DEF Error
<1>2. Response(502, {}).retryAfter = {}
  BY DEF Response
<1>3. \A o \in Answers : o.retryAfter \subseteq Int
  BY ChainAssumption
<1> QED
  BY <1>1, <1>2, <1>3 DEF Endings

SpendTypes ==
    /\ now \in 0 .. MaxTime
    /\ balance \in [Nodes -> Nat]
    /\ \A n \in Nodes : balance[n] <= chain[n].budget.capacity
    /\ outcome \in [Calls -> Endings]
    /\ waitLeft \in [Calls -> Nat]
    /\ gone \subseteq Calls

LEMMA BudgetFacts ==
    ASSUME ChainTypes
    PROVE  /\ \A n \in Nodes : /\ chain[n].budget.capacity \in Nat
                               /\ chain[n].budget.cost \in Nat
                               /\ chain[n].budget.increment \in Nat
                               /\ Durations(chain[n].policy)
           /\ MaxTime \in Nat
<1>1. MaxTime \in Nat
  <2>1. MaxTime \in 0 .. Never
    BY ChainAssumption
  <2>2. Never \in Int
    BY SMT DEF Never
  <2> QED
    BY <2>1, <2>2
<1>2. PICK s \in Starts : chain = s.nodes
  BY DEF ChainTypes
<1>3. \A n \in Nodes : chain[n].budget \in [capacity : Nat, cost : Nat, increment : Nat]
  BY <1>2, ChainAssumption
<1>4. \A n \in Nodes : chain[n].policy.initial \in Int /\ chain[n].policy.maxBackoff \in Int
  BY <1>2, ChainAssumption
<1> QED
  BY <1>1, <1>3, <1>4 DEF Durations

\* What comes back does not overfill the budget.
LEMMA CreditFacts ==
    ASSUME ChainTypes, SpendTypes, NEW c \in Handled, NEW amount \in Nat
    PROVE  LET b == Credited(c, amount)
           IN  /\ b \in [Nodes -> Nat]
               /\ \A n \in Nodes : b[n] <= chain[n].budget.capacity
               /\ \A n \in Nodes : n # Node(c) => b[n] = balance[n]
               /\ b[Node(c)] <= balance[Node(c)] + amount
<1> DEFINE m == Node(c)
           x == Least(balance[m] + amount, budget(c).capacity)
<1>1. m \in Nodes /\ balance[m] \in Nat /\ budget(c).capacity \in Nat
  BY NodeFacts, BudgetFacts DEF SpendTypes, budget
<1>2. x \in Nat /\ x <= budget(c).capacity /\ x <= balance[m] + amount
  BY <1>1 DEF Least
<1>3. Credited(c, amount) = [balance EXCEPT ![m] = x]
  BY <1>1 DEF Credited, SpendTypes
<1> HIDE DEF x
<1> QED
  BY <1>1, <1>2, <1>3 DEF SpendTypes, budget

\* A retry that the budget allows leaves no debt.
LEMMA ChargeFacts ==
    ASSUME ChainTypes, SpendTypes, NEW c \in Handled, budget(c).cost <= balance[Node(c)]
    PROVE  LET b == Charged(c)
           IN  /\ b \in [Nodes -> Nat]
               /\ \A n \in Nodes : b[n] <= chain[n].budget.capacity
               /\ \A n \in Nodes : n # Node(c) => b[n] = balance[n]
               /\ b[Node(c)] = balance[Node(c)] - budget(c).cost
<1> DEFINE m == Node(c)
           x == balance[m] - budget(c).cost
<1>1. m \in Nodes /\ balance[m] \in Nat /\ budget(c).cost \in Nat
      /\ balance[m] <= chain[m].budget.capacity /\ chain[m].budget.capacity \in Nat
  BY NodeFacts, BudgetFacts DEF SpendTypes, budget
<1>2. x \in Nat /\ x <= chain[m].budget.capacity
  BY <1>1
<1>3. Charged(c) = [balance EXCEPT ![m] = x]
  BY <1>1 DEF Charged, SpendTypes
<1> HIDE DEF x
<1> QED
  BY <1>1, <1>2, <1>3 DEF SpendTypes, x

\* How an attempt may end.
LEMMA OutcomeFacts ==
    ASSUME ChainTypes, SpendTypes, NEW c \in Handled
    PROVE  /\ Outcomes(c) \subseteq Endings
           /\ \A e \in ContextErrors(c) : Error(e) \in Endings
           /\ Error("deadline") \in Endings
<1>1. Sent(c) \in Calls
  BY RequestFacts DEF ChainTypes, Handled, Sent
<1>2. Answer(Sent(c)) \in Endings
  BY <1>1 DEF Answer, SpendTypes, Endings
<1>3. \A e \in ContextErrors(c) : Error(e) \in Endings
  BY DEF ContextErrors, Endings
<1>4. \A e \in TimedFailures(c) : Error(e) \in Endings
  BY DEF TimedFailures, Endings
<1>5. Error("deadline") \in Endings
  BY DEF Endings
<1> QED
  BY <1>2, <1>3, <1>4, <1>5 DEF Outcomes

LEMMA InitSpend == Init => SpendTypes
<1> SUFFICES ASSUME Init PROVE SpendTypes
  OBVIOUS
<1>1. ChainTypes
  BY InitOrdered DEF Ordered
<1>2. Nothing \in Endings
  BY DEF Nothing, Endings
<1>3. 0 \in 0 .. MaxTime
  BY <1>1, BudgetFacts
<1>4. \A n \in Nodes : chain[n].budget.capacity \in Nat
  BY <1>1, BudgetFacts
<1>5. balance \in [Nodes -> Nat] /\ \A n \in Nodes : balance[n] <= chain[n].budget.capacity
  BY <1>4 DEF Init
<1>6. outcome \in [Calls -> Endings] /\ waitLeft \in [Calls -> Nat] /\ gone \subseteq Calls
  BY <1>2 DEF Init
<1> QED
  BY <1>3, <1>5, <1>6 DEF Init, SpendTypes

\* A wait that a retry starts is a time.
LEMMA WaitFacts ==
    ASSUME ChainTypes, SpendTypes, NEW c \in Handled, NEW o \in Outcomes(c),
           NEW d \in retryDelay(policy(c), attempt[c], o), d > 0
    PROVE  d \in Nat
<1>1. o.retryAfter \subseteq Int
  BY OutcomeFacts, EndingFacts
<1>2. Durations(policy(c)) /\ attempt[c] \in Nat
  BY NodeFacts, BudgetFacts, ChainAssumption DEF ChainTypes, policy, Handled, Attempts
<1>3. d \in Int
  BY <1>1, <1>2, DelayType
<1> QED
  BY <1>3

LEMMA StepSpend == Ordered /\ SpendTypes /\ [Next]_vars => SpendTypes'
<1> SUFFICES ASSUME Ordered, SpendTypes, [Next]_vars PROVE SpendTypes'
  OBVIOUS
<1>1. ChainTypes /\ AtNode
  BY DEF Ordered
<1>2. chain' = chain
  BY DEF Next, Tick, Accept, Run, NoTime, Send, WaitOver, WaitCut, Reply, Serve, Disconnect, vars
<1>3. CASE UNCHANGED vars
  BY <1>3 DEF vars, SpendTypes
<1>4. CASE Tick
  <2>1. now' \in 0 .. MaxTime
    BY <1>1, <1>4, BudgetFacts DEF Tick, Least, SpendTypes
  <2>2. waitLeft' \in [Calls -> Nat]
    BY <1>4 DEF Tick, SpendTypes
  <2> QED
    BY <1>4, <2>1, <2>2 DEF Tick, SpendTypes
<1>5. ASSUME NEW c \in Calls, Accept(c) \/ Send(c) \/ WaitOver(c) \/ Disconnect(c)
      PROVE  SpendTypes'
  BY <1>5 DEF Accept, Send, WaitOver, Disconnect, SpendTypes
<1>6. ASSUME NEW c \in Calls, pc[c] \in {"ready", "inflight", "wait"}
      PROVE  c \in Handled /\ budget(c).cost \in Nat /\ budget(c).increment \in Nat
  BY <1>1, <1>6, NodeFacts, BudgetFacts DEF AtNode, budget
<1>7. ASSUME NEW c \in Calls, NoTime(c) PROVE SpendTypes'
  <2>1. c \in Handled /\ budget(c).cost \in Nat
    BY <1>6, <1>7 DEF NoTime
  <2>2. balance' = balance \/ balance' = Credited(c, budget(c).cost)
    BY <1>7 DEF NoTime
  <2>3. balance' \in [Nodes -> Nat] /\ \A n \in Nodes : balance'[n] <= chain[n].budget.capacity
    BY <1>1, <2>1, <2>2, CreditFacts DEF SpendTypes
  <2>4. outcome' \in [Calls -> Endings]
    BY <1>1, <1>7, <2>1, OutcomeFacts DEF NoTime, End, SpendTypes
  <2> QED
    BY <1>2, <1>7, <2>3, <2>4 DEF NoTime, SpendTypes
<1>8. ASSUME NEW c \in Calls, WaitCut(c) PROVE SpendTypes'
  <2>1. c \in Handled /\ budget(c).cost \in Nat
    BY <1>6, <1>8 DEF WaitCut
  <2>2. balance' \in [Nodes -> Nat] /\ \A n \in Nodes : balance'[n] <= chain[n].budget.capacity
    BY <1>1, <1>8, <2>1, CreditFacts DEF WaitCut
  <2>3. outcome' \in [Calls -> Endings]
    BY <1>1, <1>8, <2>1, OutcomeFacts DEF WaitCut, End, SpendTypes
  <2>4. waitLeft' \in [Calls -> Nat]
    BY <1>8 DEF WaitCut, SpendTypes
  <2> QED
    BY <1>2, <1>8, <2>2, <2>3, <2>4 DEF WaitCut, SpendTypes
<1>9. ASSUME NEW c \in Calls, Serve(c) PROVE SpendTypes'
  <2>1. outcome' \in [Calls -> Endings]
    BY <1>9 DEF Serve, End, SpendTypes, Endings
  <2> QED
    BY <1>9, <2>1 DEF Serve, SpendTypes
<1>10. ASSUME NEW c \in Calls, Reply(c) PROVE SpendTypes'
  <2>1. c \in Handled /\ budget(c).cost \in Nat /\ budget(c).increment \in Nat
    BY <1>6, <1>10 DEF Reply
  <2>2. PICK o \in Outcomes(c) : \E d \in retryDelay(policy(c), attempt[c], o) :
            IF MayRetry(c, o, d) THEN Retry(c, d) ELSE Finish(c, o)
    BY <1>10 DEF Reply
  <2>3. PICK d \in retryDelay(policy(c), attempt[c], o) :
            IF MayRetry(c, o, d) THEN Retry(c, d) ELSE Finish(c, o)
    BY <2>2
  <2>4. UNCHANGED <<chain, now, gone>>
    BY <1>10 DEF Reply
  <2>5. CASE MayRetry(c, o, d)
    <3>1. Retry(c, d) /\ budget(c).cost <= balance[Node(c)]
      BY <2>3, <2>5 DEF MayRetry
    <3>2. balance' \in [Nodes -> Nat] /\ \A n \in Nodes : balance'[n] <= chain[n].budget.capacity
      BY <1>1, <2>1, <3>1, ChargeFacts DEF Retry
    <3>3. waitLeft' \in [Calls -> Nat]
      BY <1>1, <2>1, <3>1, WaitFacts DEF Retry, SpendTypes
    <3> QED
      BY <2>4, <3>1, <3>2, <3>3 DEF Retry, SpendTypes
  <2>6. CASE ~MayRetry(c, o, d)
    <3>1. Finish(c, o)
      BY <2>3, <2>6
    <3>2. balance' = balance \/ balance' = Credited(c, budget(c).increment)
      BY <3>1 DEF Finish
    <3>3. balance' \in [Nodes -> Nat] /\ \A n \in Nodes : balance'[n] <= chain[n].budget.capacity
      BY <1>1, <2>1, <3>2, CreditFacts DEF SpendTypes
    <3>4. outcome' \in [Calls -> Endings]
      BY <1>1, <2>1, <3>1, OutcomeFacts DEF Finish, End, SpendTypes
    <3> QED
      BY <2>4, <3>1, <3>3, <3>4 DEF Finish, SpendTypes
  <2> QED
    BY <2>5, <2>6
<1> QED
  BY <1>3, <1>4, <1>5, <1>7, <1>8, <1>9, <1>10 DEF Next, Run

\* Type correctness: no call makes more attempts than its policy's retries
\* allow, no wait is negative, no budget owes or overflows
\* (transport.go:57-245, retry_governance.go:25-41).
THEOREM ChainTypeCorrect == Spec => []TypeOK
<1>1. Ordered /\ SpendTypes => TypeOK
  <2> SUFFICES ASSUME Ordered, SpendTypes PROVE TypeOK
    OBVIOUS
  <2>1. \A n \in Nodes : balance[n] \in 0 .. chain[n].budget.capacity
    BY BudgetFacts DEF SpendTypes, Ordered
  <2> QED
    BY <2>1 DEF TypeOK, SpendTypes, Ordered, ChainTypes, Attempts
<1> QED
  BY <1>1, InitSpend, StepSpend, OrderedAlways, PTL DEF Spec

-----------------------------------------------------------------------------
(* What each node pays for *)

\* A call is the request of some attempt of its caller.
LEMMA LastFacts ==
    ASSUME NEW d \in Calls, Len(d) # 0
    PROVE  /\ Len(d) \in Nodes
           /\ Caller(d) \in Handled
           /\ d[Len(d)] \in Attempts
           /\ Append(Caller(d), d[Len(d)]) = d
           /\ Node(Caller(d)) = Len(d)
<1>1. Len(d) \in Nat /\ Len(d) <= Hops /\ Hops \in Nat
  BY CallsAreSequences, LenProperties, ChainAssumption
<1>2. Caller(d) \in Above(d)
  <2>1. Len(d) - 1 \in 0 .. Len(d) - 1
    BY <1>1
  <2> QED
    BY <2>1 DEF Caller, Above
<1>3. PICK k \in Attempts : Append(Caller(d), k) \in Above(d) \cup {d}
  BY <1>2, BelowFacts
<1>4. Caller(d) \in Handled /\ Len(Caller(d)) \in Nat
  BY <1>2, AboveFacts
<1>5. Len(Caller(d)) = Len(d) - 1
  <2> DEFINE n == Len(d) - 1
  <2>1. d \in Seq(Attempts) /\ n \in Nat /\ \A i \in 1 .. n : i \in 1 .. Len(d)
    BY <1>1, CallsAreSequences
  <2>2. \A i \in 1 .. n : d[i] \in Attempts
    BY <2>1, ElementOfSeq
  <2> HIDE DEF n
  <2>3. Len(SubSeq(d, 1, n)) = n
    BY <2>1, <2>2, SubSeqProperties
  <2> QED
    BY <2>3 DEF Caller, n
<1>6. Len(Append(Caller(d), k)) = Len(d)
  BY <1>1, <1>3, <1>4, <1>5, RequestFacts
<1>7. Append(Caller(d), k) = d
  <2> DEFINE a == Append(Caller(d), k)
  <2>1. a \in Above(d) \cup {d} /\ Len(a) = Len(d)
    BY <1>3, <1>6
  <2> HIDE DEF a
  <2>2. a \in Above(d) => Len(a) < Len(d)
    BY AboveFacts
  <2>3. a = d
    BY <1>1, <2>1, <2>2
  <2> QED
    BY <2>3 DEF a
<1>8. d[Len(d)] = k
  <2>1. Append(Caller(d), k)[Len(Caller(d)) + 1] = k /\ Len(Caller(d)) + 1 = Len(d)
    BY <1>1, <1>3, <1>4, <1>5, RequestFacts
  <2> QED
    BY <1>7, <2>1
<1> QED
  BY <1>1, <1>3, <1>4, <1>5, <1>7, <1>8 DEF Nodes, Node

LEMMA CallsFinite == IsFiniteSet(Calls)
<1> DEFINE P(n) == {d \in Calls : Len(d) <= n}
           S == {n \in Nat : IsFiniteSet(P(n))}
<1>1. \A d \in Calls : Len(d) \in Nat /\ Len(d) <= Hops
  BY CallsAreSequences, LenProperties, ChainAssumption
<1>2. IsFiniteSet(Attempts)
  BY FS_Interval, ChainAssumption DEF Attempts
<1>3. 0 \in S
  <2>1. P(0) \subseteq {Root}
    <3> SUFFICES ASSUME NEW d \in Calls, Len(d) <= 0 PROVE d = Root
      OBVIOUS
    <3>1. d \in Seq(Attempts) /\ Len(d) = 0
      BY <1>1, CallsAreSequences
    <3> QED
      BY <3>1, EmptySeq DEF Root
  <2>2. IsFiniteSet({Root})
    BY FS_Singleton
  <2> HIDE DEF P
  <2>3. IsFiniteSet(P(0))
    BY <2>1, <2>2, FS_Subset
  <2> QED
    BY <2>3
<1>4. ASSUME NEW n \in Nat, n \in S PROVE n + 1 \in S
  <2> DEFINE A == P(n) \X Attempts
             T == {Append(x[1], x[2]) : x \in A}
             f == [x \in A |-> Append(x[1], x[2])]
             V == P(n)
  <2>1. IsFiniteSet(V)
    BY <1>4
  <2>2. IsFiniteSet(A)
    <3> HIDE DEF V
    <3>1. IsFiniteSet(V \X Attempts)
      BY <1>2, <2>1, FS_Product
    <3> QED
      BY <3>1 DEF V
  <2>3. f \in Surjection(A, T)
    <3> HIDE DEF A
    <3> QED
      BY DEF Surjection
  <2>4. IsFiniteSet(T)
    <3> HIDE DEF A, T, f
    <3> QED
      BY <2>2, <2>3, FS_Surjection
  <2>5. P(n + 1) \subseteq V \cup T
    <3> SUFFICES ASSUME NEW d \in Calls, Len(d) <= n + 1, ~(Len(d) <= n) PROVE d \in T
      OBVIOUS
    <3>1. Len(d) # 0 /\ Len(d) = n + 1
      BY <1>1
    <3>2. Caller(d) \in Calls /\ Len(Caller(d)) <= n
      <4>1. Len(Caller(d)) + 1 = n + 1 /\ Caller(d) \in Calls
        BY <3>1, LastFacts DEF Node, Handled
      <4> QED
        BY <1>1, <4>1
    <3>3. <<Caller(d), d[Len(d)]>> \in A
      BY <3>1, <3>2, LastFacts
    <3> HIDE DEF A
    <3> QED
      BY <3>1, <3>3, LastFacts
  <2>6. IsFiniteSet(V \cup T)
    <3> HIDE DEF V, T
    <3> QED
      BY <2>1, <2>4, FS_Union
  <2>7. IsFiniteSet(P(n + 1))
    <3> HIDE DEF P, V, T
    <3> QED
      BY <2>5, <2>6, FS_Subset
  <2> QED
    BY <2>7
<1> HIDE DEF S
<1>5. \A n \in Nat : n \in S
  BY <1>3, <1>4, SetInduction
<1>6. P(Hops) = Calls
  BY <1>1
<1> QED
  BY <1>5, <1>6, ChainAssumption DEF S

\* The retry a call has paid for and not yet sent.
Pending(c, k) ==
    \/ pc[c] = "ready" /\ k = attempt[c]
    \/ pc[c] = "wait" /\ k = attempt[c] + 1

Owes(d) == WasSent(d) \/ Pending(Caller(d), d[Len(d)])

\* The retries of node n, and the calls of it that succeeded.
Owed(n) == {d \in Calls : Len(d) = n /\ d[n] > 0 /\ Owes(d)}
Successes(n) == {c \in Calls : Node(c) = n /\ pc[c] = "done" /\ IsSuccess(outcome[c])}

\* What a node holds and what its retries cost is within what it was given and
\* what its successes earned.
Balanced ==
    \A n \in Nodes :
        balance[n] + chain[n].budget.cost * Cardinality(Owed(n))
            <= chain[n].budget.capacity + chain[n].budget.increment * Cardinality(Successes(n))

LEMMA LedgerFinite ==
    ASSUME NEW n
    PROVE  /\ IsFiniteSet(Owed(n)) /\ Cardinality(Owed(n)) \in Nat
           /\ IsFiniteSet(Successes(n)) /\ Cardinality(Successes(n)) \in Nat
<1>1. Owed(n) \subseteq Calls /\ Successes(n) \subseteq Calls
  BY DEF Owed, Successes
<1>2. IsFiniteSet(Owed(n)) /\ IsFiniteSet(Successes(n))
  BY <1>1, CallsFinite, FS_Subset
<1> QED
  BY <1>2, FS_CardinalityType

\* What a step may do to the books of a node.
Unpaid(n) ==
    /\ Owed(n)' \subseteq Owed(n)
    /\ Successes(n) \subseteq Successes(n)'
    /\ balance'[n] <= balance[n]
Refunds(n) ==
    /\ \E d \in Owed(n) : Owed(n)' \subseteq Owed(n) \ {d}
    /\ Successes(n) \subseteq Successes(n)'
    /\ balance'[n] <= balance[n] + chain[n].budget.cost
Charges(n) ==
    /\ \E d : Owed(n)' \subseteq Owed(n) \cup {d}
    /\ Successes(n) \subseteq Successes(n)'
    /\ balance'[n] = balance[n] - chain[n].budget.cost
Earns(n) ==
    /\ Owed(n)' \subseteq Owed(n)
    /\ \E c : c \notin Successes(n) /\ Successes(n) \cup {c} \subseteq Successes(n)'
    /\ balance'[n] <= balance[n] + chain[n].budget.increment

Booked(n) == Unpaid(n) \/ Refunds(n) \/ Charges(n) \/ Earns(n)

\* A step of a call makes nothing owed but the retry it then has in hand.
LEMMA OwesAfter ==
    ASSUME ChainTypes, NEW c \in Calls, WasSent(c), NEW step \in Steps \ {"unsent"},
           pc' = [pc EXCEPT ![c] = step],
           \A e \in Calls \ {c} : attempt'[e] = attempt[e],
           NEW d \in Calls, Len(d) \in Nodes, Owes(d)'
    PROVE  \/ Owes(d) /\ (Caller(d) = c => WasSent(d))
           \/ /\ Caller(d) = c
              /\ \/ step = "ready" /\ d[Len(d)] = attempt'[c]
                 \/ step = "wait" /\ d[Len(d)] = attempt'[c] + 1
<1>1. Caller(d) \in Calls
  <2>1. Len(d) # 0
    BY DEF Nodes
  <2> QED
    BY <2>1, LastFacts DEF Handled
<1>2. WasSent(d)' <=> WasSent(d)
  BY DEF WasSent, ChainTypes
<1>3. CASE Caller(d) = c
  BY <1>1, <1>2, <1>3 DEF Owes, Pending, ChainTypes
<1>4. CASE Caller(d) # c
  <2>1. pc'[Caller(d)] = pc[Caller(d)] /\ attempt'[Caller(d)] = attempt[Caller(d)]
    BY <1>1, <1>4 DEF ChainTypes
  <2> QED
    BY <1>2, <1>4, <2>1 DEF Owes, Pending
<1> QED
  BY <1>3, <1>4

\* When nothing becomes owed but x, and what succeeded stays so.
LEMMA OwedAfter ==
    ASSUME NEW n \in Nodes, NEW x,
           \A d \in Calls : Len(d) = n /\ d[n] > 0 /\ Owes(d)' => Owes(d) \/ d = x
    PROVE  Owed(n)' \subseteq Owed(n) \cup {x}
BY DEF Owed

LEMMA SuccessesAfter ==
    ASSUME \A c \in Calls : pc[c] = "done" => pc'[c] = "done" /\ outcome'[c] = outcome[c]
    PROVE  \A n : Successes(n) \subseteq Successes(n)'
BY DEF Successes, Node

\* A step of a call that ends it, in `o', changes no other outcome.
LEMMA SuccessesAtEnd ==
    ASSUME ChainTypes, SpendTypes, NEW c \in Calls, pc[c] # "done", NEW step,
           pc' = [pc EXCEPT ![c] = step],
           outcome' = outcome \/ \E o : outcome' = [outcome EXCEPT ![c] = o]
    PROVE  \A n : Successes(n) \subseteq Successes(n)'
<1>1. \A e \in Calls : pc[e] = "done" => pc'[e] = "done" /\ outcome'[e] = outcome[e]
  BY DEF ChainTypes, SpendTypes
<1> QED
  BY <1>1, SuccessesAfter

\* A call that moves without a retry in hand adds nothing to what is owed.
LEMMA OwedQuietly ==
    ASSUME ChainTypes, NEW c \in Calls, WasSent(c), NEW step \in Steps \ {"unsent"},
           pc' = [pc EXCEPT ![c] = step],
           \A e \in Calls \ {c} : attempt'[e] = attempt[e],
           \/ step \in {"inflight", "done", "wire"}
           \/ step = "ready" /\ attempt'[c] = 0
           \/ step = "ready" /\ Pending(c, attempt'[c])
    PROVE  \A n \in Nodes : Owed(n)' \subseteq Owed(n)
<1> SUFFICES ASSUME NEW n \in Nodes, NEW d \in Calls, Len(d) = n, d[n] > 0, Owes(d)'
             PROVE  Owes(d)
  BY DEF Owed
<1>1. \/ Owes(d)
      \/ /\ Caller(d) = c
         /\ \/ step = "ready" /\ d[Len(d)] = attempt'[c]
            \/ step = "wait" /\ d[Len(d)] = attempt'[c] + 1
  BY OwesAfter
<1>2. CASE step = "ready" /\ attempt'[c] = 0
  BY <1>1, <1>2
<1>3. CASE step = "ready" /\ Pending(c, attempt'[c])
  BY <1>1, <1>3 DEF Owes
<1>4. CASE step \in {"inflight", "done", "wire"}
  BY <1>1, <1>4
<1> QED
  BY <1>2, <1>3, <1>4

\* A call that ends with a retry in hand owes it no longer.
LEMMA OwedReturned ==
    ASSUME Ordered, NEW c \in Handled, NEW k \in Attempts, Pending(c, k), k > 0,
           pc' = [pc EXCEPT ![c] = "done"], attempt' = attempt
    PROVE  /\ Append(c, k) \in Owed(Node(c))
           /\ Owed(Node(c))' \subseteq Owed(Node(c)) \ {Append(c, k)}
           /\ \A n \in Nodes : Owed(n)' \subseteq Owed(n)
<1> DEFINE d == Append(c, k)
<1>1. c \in Calls /\ ChainTypes /\ WasSent(c)
  BY DEF Ordered, Handled, Pending, WasSent
<1>2. d \in Calls /\ Caller(d) = c /\ Len(d) = Node(c) /\ d[Len(d)] = k /\ Node(c) \in Nodes
  BY <1>1, RequestFacts, NodeFacts DEF Node
<1>3. ~WasSent(d)
  <2>1. k \in Int /\ attempt[c] \in Int
    BY <1>1, ChainAssumption DEF Attempts, ChainTypes
  <2> QED
    BY <2>1 DEF Ordered, Numbered, Pending
<1>4. d \in Owed(Node(c))
  <2>1. d[Node(c)] > 0 /\ Owes(d)
    BY <1>2 DEF Owes
  <2> HIDE DEF d
  <2> QED
    BY <1>2, <2>1 DEF Owed
<1>5. ~Owes(d)'
  <2>1. WasSent(d)' <=> WasSent(d)
    BY <1>1, <1>2 DEF WasSent, ChainTypes
  <2>2. pc'[c] = "done"
    BY <1>1 DEF ChainTypes
  <2> HIDE DEF d
  <2> QED
    BY <1>2, <1>3, <2>1, <2>2 DEF Owes, Pending
<1>6. \A n \in Nodes : Owed(n)' \subseteq Owed(n)
  BY <1>1, OwedQuietly DEF Steps
<1>7. d \notin Owed(Node(c))'
  BY <1>5 DEF Owed
<1> QED
  BY <1>2, <1>4, <1>6, <1>7

\* A call that starts a retry owes that one more.
LEMMA OwedMore ==
    ASSUME ChainTypes, NEW c \in Handled, WasSent(c), attempt[c] + 1 \in Attempts,
           \/ /\ pc' = [pc EXCEPT ![c] = "wait"]
              /\ attempt' = attempt
           \/ /\ pc' = [pc EXCEPT ![c] = "ready"]
              /\ attempt' = [attempt EXCEPT ![c] = @ + 1]
    PROVE  /\ Owed(Node(c))' \subseteq Owed(Node(c)) \cup {Append(c, attempt[c] + 1)}
           /\ \A n \in Nodes : n # Node(c) => Owed(n)' \subseteq Owed(n)
<1>1. c \in Calls /\ Node(c) \in Nodes
  BY NodeFacts DEF Handled
<1>2. ASSUME NEW d \in Calls, Len(d) \in Nodes, Owes(d)'
      PROVE  Owes(d) \/ (d = Append(c, attempt[c] + 1) /\ Len(d) = Node(c))
  <2>1. \A e \in Calls \ {c} : attempt'[e] = attempt[e]
    BY DEF ChainTypes
  <2>2. \/ Owes(d)
        \/ Caller(d) = c /\ d[Len(d)] = attempt[c] + 1
    <3>1. CASE pc' = [pc EXCEPT ![c] = "wait"] /\ attempt' = attempt
      BY <1>1, <1>2, <2>1, <3>1, OwesAfter DEF Steps
    <3>2. CASE /\ pc' = [pc EXCEPT ![c] = "ready"]
               /\ attempt' = [attempt EXCEPT ![c] = @ + 1]
      <4>1. attempt'[c] = attempt[c] + 1
        BY <1>1, <3>2 DEF ChainTypes
      <4>2. "ready" \in Steps \ {"unsent"} /\ "ready" # "wait"
        BY DEF Steps
      <4>3. pc' = [pc EXCEPT ![c] = "ready"]
        BY <3>2
      <4>4. Owes(d) \/ (Caller(d) = c /\ d[Len(d)] = attempt'[c])
        BY <1>1, <1>2, <2>1, <4>2, <4>3, OwesAfter
      <4> QED
        BY <4>1, <4>4
    <3> QED
      BY <3>1, <3>2
  <2>3. Len(d) # 0
    BY <1>2 DEF Nodes
  <2> QED
    BY <2>2, <2>3, LastFacts
<1>3. ASSUME NEW n \in Nodes, NEW d \in Calls, Len(d) = n, Owes(d)'
      PROVE  Owes(d) \/ (d = Append(c, attempt[c] + 1) /\ n = Node(c))
  BY <1>2, <1>3
<1> QED
  BY <1>1, <1>3 DEF Owed

LEMMA StepBooked ==
    ASSUME Ordered, SpendTypes, Next, NEW n \in Nodes
    PROVE  Booked(n)
<1>1. ChainTypes /\ AtNode /\ Limited
  BY DEF Ordered
<1>2. balance[n] \in Nat /\ chain[n].budget.cost \in Nat /\ chain[n].budget.increment \in Nat
  BY <1>1, BudgetFacts DEF SpendTypes
<1>3. ASSUME NEW c \in Calls, pc[c] \in {"ready", "inflight", "wait"}
      PROVE  /\ c \in Handled /\ Node(c) \in Nodes /\ WasSent(c)
             /\ attempt[c] \in Nat /\ attempt[c] \in Attempts
             /\ budget(c) = chain[Node(c)].budget
             /\ budget(c).cost \in Nat /\ budget(c).increment \in Nat
  <2>1. c \in Handled /\ attempt[c] \in Attempts
    BY <1>1, <1>3 DEF AtNode, ChainTypes
  <2> QED
    BY <1>1, <1>3, <2>1, NodeFacts, BudgetFacts, ChainAssumption DEF budget, WasSent, Attempts
\* A step of call c that ends it with retry k in hand.
<1>4. ASSUME NEW c \in Handled, c \in Calls, NEW k \in Attempts, Pending(c, k), k > 0,
             pc' = [pc EXCEPT ![c] = "done"], attempt' = attempt,
             NEW o, outcome' = [outcome EXCEPT ![c] = o],
             balance' = Credited(c, budget(c).cost)
      PROVE  Booked(n)
  <2>1. Successes(n) \subseteq Successes(n)'
    BY <1>1, <1>4, SuccessesAtEnd DEF Pending
  <2>2. budget(c).cost \in Nat /\ budget(c) = chain[Node(c)].budget
    BY <1>3, <1>4 DEF Pending
  <2>3. CASE n = Node(c)
    <3>1. balance'[n] <= balance[n] + chain[n].budget.cost
      BY <1>1, <1>4, <2>2, <2>3, CreditFacts
    <3>2. \E d \in Owed(n) : Owed(n)' \subseteq Owed(n) \ {d}
      BY <1>4, <2>3, OwedReturned
    <3> QED
      BY <2>1, <3>1, <3>2 DEF Booked, Refunds
  <2>4. CASE n # Node(c)
    <3>1. balance'[n] <= balance[n]
      BY <1>1, <1>2, <1>4, <2>2, <2>4, CreditFacts
    <3> QED
      BY <1>4, <2>1, <3>1, OwedReturned DEF Booked, Unpaid
  <2> QED
    BY <2>3, <2>4
\* A step of call c that leaves budgets and what is owed alone.
<1>5. ASSUME NEW c \in Calls, WasSent(c), NEW step \in {"ready", "inflight", "done"},
             pc' = [pc EXCEPT ![c] = step],
             \A e \in Calls \ {c} : attempt'[e] = attempt[e],
             step = "ready" => attempt'[c] = 0 \/ Pending(c, attempt'[c]),
             pc[c] # "done", outcome' = outcome \/ \E o : outcome' = [outcome EXCEPT ![c] = o],
             balance' = balance
      PROVE  Booked(n)
  <2>1. Successes(n) \subseteq Successes(n)'
    BY <1>1, <1>5, SuccessesAtEnd
  <2>2. Owed(n)' \subseteq Owed(n)
    BY <1>1, <1>5, OwedQuietly DEF Steps
  <2> QED
    BY <1>2, <1>5, <2>1, <2>2 DEF Booked, Unpaid
<1>6. ASSUME pc' = pc, attempt' = attempt, balance' = balance, outcome' = outcome
      PROVE  Booked(n)
  <2>1. Owed(n)' = Owed(n) /\ Successes(n)' = Successes(n)
    BY <1>6 DEF Owed, Owes, WasSent, Pending, Successes, Node
  <2> QED
    BY <1>2, <1>6, <2>1 DEF Booked, Unpaid
<1>7. CASE Tick
  BY <1>6, <1>7 DEF Tick
<1>8. ASSUME NEW c \in Calls, Disconnect(c) PROVE Booked(n)
  BY <1>6, <1>8 DEF Disconnect
<1>9. ASSUME NEW c \in Calls, Accept(c) PROVE Booked(n)
  <2>1. attempt[c] = 0 /\ WasSent(c)
    BY <1>1, <1>9 DEF Accept, Limited, Begun, Handled, WasSent
  <2> QED
    BY <1>5, <1>9, <2>1 DEF Accept, Goto
<1>10. ASSUME NEW c \in Calls, NoTime(c) PROVE Booked(n)
  <2>1. /\ pc[c] = "ready" /\ c \in Handled /\ WasSent(c) /\ attempt' = attempt
        /\ attempt[c] \in Nat /\ attempt[c] \in Attempts
        /\ pc' = [pc EXCEPT ![c] = "done"]
        /\ outcome' = [outcome EXCEPT ![c] = Error("deadline")]
    BY <1>3, <1>10 DEF NoTime, End, Goto
  <2>2. CASE attempt[c] > 0
    BY <1>4, <1>10, <2>1, <2>2 DEF NoTime, Pending
  <2>3. CASE ~(attempt[c] > 0)
    BY <1>5, <1>10, <2>1, <2>3 DEF NoTime
  <2> QED
    BY <2>2, <2>3
<1>11. ASSUME NEW c \in Calls, Send(c) PROVE Booked(n)
  <2>1. pc[c] = "ready" /\ c \in Handled /\ WasSent(c) /\ attempt[c] \in Attempts
    BY <1>3, <1>11 DEF Send
  <2>2. balance' = balance /\ outcome' = outcome /\ attempt' = attempt
    BY <1>11 DEF Send
  <2>3. CASE pc' = [pc EXCEPT ![c] = "inflight"]
    BY <1>5, <2>1, <2>2, <2>3
  <2>4. CASE pc' = [pc EXCEPT ![c] = "inflight", ![Sent(c)] = "wire"]
    <3>1. Sent(c) \in Calls /\ Caller(Sent(c)) = c /\ Sent(c) # c /\ ~WasSent(Sent(c))
      <4>1. attempt[c] \in Int
        BY <1>3, <2>1
      <4> QED
        BY <2>1, <4>1, RequestFacts DEF Sent, Ordered, Numbered
    <3>2. Sent(c)[Len(Sent(c))] = attempt[c]
      BY <2>1, RequestFacts DEF Sent
    <3>3. ASSUME NEW d \in Calls, Len(d) = n, Owes(d)' PROVE Owes(d)
      <4>1. Len(d) # 0
        BY <3>3 DEF Nodes
      <4>2. Caller(d) \in Calls
        BY <4>1, LastFacts DEF Handled
      <4>3. CASE d = Sent(c)
        BY <2>1, <3>1, <3>2, <4>3 DEF Owes, Pending
      <4>4. CASE d # Sent(c)
        <5>1. WasSent(d)' <=> WasSent(d)
          BY <1>1, <2>1, <2>4, <4>4 DEF WasSent, ChainTypes
        <5>2. Pending(Caller(d), d[Len(d)])' => Pending(Caller(d), d[Len(d)])
          BY <1>1, <2>2, <2>4, <4>2 DEF Pending, ChainTypes
        <5> QED
          BY <3>3, <5>1, <5>2 DEF Owes
      <4> QED
        BY <4>3, <4>4
    <3>4. Owed(n)' \subseteq Owed(n)
      BY <3>3 DEF Owed
    <3>5. Successes(n) \subseteq Successes(n)'
      <4>1. \A e \in Calls : pc[e] = "done" => pc'[e] = "done" /\ outcome'[e] = outcome[e]
        BY <1>1, <2>1, <2>2, <2>4, <3>1 DEF ChainTypes, WasSent
      <4> QED
        BY <4>1, SuccessesAfter
    <3> QED
      BY <1>2, <2>2, <3>4, <3>5 DEF Booked, Unpaid
  <2> QED
    BY <1>11, <2>3, <2>4 DEF Send, Goto
<1>12. ASSUME NEW c \in Calls, WaitOver(c) PROVE Booked(n)
  <2>1. /\ pc[c] = "wait" /\ WasSent(c)
        /\ pc' = [pc EXCEPT ![c] = "ready"]
        /\ attempt'[c] = attempt[c] + 1
        /\ \A e \in Calls \ {c} : attempt'[e] = attempt[e]
        /\ balance' = balance /\ outcome' = outcome
    BY <1>1, <1>3, <1>12 DEF WaitOver, Goto, ChainTypes
  <2>2. Pending(c, attempt'[c])
    BY <2>1 DEF Pending
  <2> QED
    BY <1>5, <2>1, <2>2
<1>13. ASSUME NEW c \in Calls, WaitCut(c) PROVE Booked(n)
  <2>1. /\ pc[c] = "wait" /\ c \in Handled /\ WasSent(c) /\ attempt' = attempt
        /\ attempt[c] \in Nat
        /\ pc' = [pc EXCEPT ![c] = "done"]
    BY <1>3, <1>13 DEF WaitCut, End, Goto
  <2>2. PICK e \in ContextErrors(c) : outcome' = [outcome EXCEPT ![c] = Error(e)]
    BY <1>13 DEF WaitCut, End
  <2>3. attempt[c] + 1 \in Attempts /\ attempt[c] + 1 > 0
    BY <1>1, <2>1, LimitFacts, ChainAssumption DEF Limited, Attempts
  <2>4. Pending(c, attempt[c] + 1)
    BY <2>1 DEF Pending
  <2>5. balance' = Credited(c, budget(c).cost)
    BY <1>13 DEF WaitCut
  <2> QED
    BY <1>4, <2>1, <2>2, <2>3, <2>4, <2>5
<1>14. ASSUME NEW c \in Calls, Serve(c) PROVE Booked(n)
  <2>1. WasSent(c) /\ pc[c] # "done"
    BY <1>14 DEF Serve, WasSent
  <2> QED
    BY <1>5, <1>14, <2>1 DEF Serve, End, Goto
<1>15. ASSUME NEW c \in Calls, Reply(c) PROVE Booked(n)
  <2>1. /\ pc[c] = "inflight" /\ c \in Handled /\ WasSent(c) /\ Node(c) \in Nodes
        /\ attempt[c] \in Nat /\ budget(c) = chain[Node(c)].budget
        /\ budget(c).cost \in Nat /\ budget(c).increment \in Nat
    BY <1>3, <1>15 DEF Reply
  <2>2. PICK o \in Outcomes(c) : \E d \in retryDelay(policy(c), attempt[c], o) :
            IF MayRetry(c, o, d) THEN Retry(c, d) ELSE Finish(c, o)
    BY <1>15 DEF Reply
  <2>3. PICK d \in retryDelay(policy(c), attempt[c], o) :
            IF MayRetry(c, o, d) THEN Retry(c, d) ELSE Finish(c, o)
    BY <2>2
  <2>4. CASE MayRetry(c, o, d)
    <3>1. Retry(c, d) /\ attempt[c] < Limit(c) /\ budget(c).cost <= balance[Node(c)]
      BY <2>3, <2>4 DEF MayRetry
    <3>2. attempt[c] + 1 \in Attempts
      BY <1>1, <2>1, <3>1, LimitFacts, ChainAssumption DEF Attempts
    <3>3. balance' = Charged(c) /\ outcome' = outcome
      BY <3>1 DEF Retry
    <3>4. \/ /\ pc' = [pc EXCEPT ![c] = "wait"]
             /\ attempt' = attempt
          \/ /\ pc' = [pc EXCEPT ![c] = "ready"]
             /\ attempt' = [attempt EXCEPT ![c] = @ + 1]
      BY <3>1 DEF Retry, Goto
    <3>5. Successes(n) \subseteq Successes(n)'
      BY <1>1, <1>15, <2>1, <3>3, <3>4, SuccessesAtEnd
    <3>6. CASE n = Node(c)
      <4>1. balance'[n] = balance[n] - chain[n].budget.cost
        BY <1>1, <2>1, <3>1, <3>3, <3>6, ChargeFacts
      <4>2. Owed(n)' \subseteq Owed(n) \cup {Append(c, attempt[c] + 1)}
        BY <1>1, <2>1, <3>2, <3>4, <3>6, OwedMore
      <4> QED
        BY <3>5, <4>1, <4>2 DEF Booked, Charges
    <3>7. CASE n # Node(c)
      <4>1. balance'[n] = balance[n]
        BY <1>1, <2>1, <3>1, <3>3, <3>7, ChargeFacts
      <4>2. Owed(n)' \subseteq Owed(n)
        BY <1>1, <2>1, <3>2, <3>4, <3>7, OwedMore
      <4> QED
        BY <1>2, <3>5, <4>1, <4>2 DEF Booked, Unpaid
    <3> QED
      BY <3>6, <3>7
  <2>5. CASE ~MayRetry(c, o, d)
    <3>1. Finish(c, o)
      BY <2>3, <2>5
    <3>2. /\ pc' = [pc EXCEPT ![c] = "done"]
          /\ outcome' = [outcome EXCEPT ![c] = o]
          /\ attempt' = attempt
          /\ balance' = IF IsSuccess(o) /\ ~skip(c)
                        THEN Credited(c, budget(c).increment) ELSE balance
      BY <3>1 DEF Finish, End, Goto
    <3>3. CASE balance' = balance
      BY <1>5, <1>15, <2>1, <3>2, <3>3
    <3>4. CASE IsSuccess(o) /\ balance' = Credited(c, budget(c).increment)
      <4>1. Successes(n) \subseteq Successes(n)'
        BY <1>1, <1>15, <2>1, <3>2, SuccessesAtEnd
      <4>2. Owed(n)' \subseteq Owed(n)
        BY <1>1, <1>15, <2>1, <3>2, OwedQuietly DEF Steps
      <4>3. CASE n = Node(c)
        <5>1. balance'[n] <= balance[n] + chain[n].budget.increment
          BY <1>1, <2>1, <3>4, <4>3, CreditFacts
        <5>2. c \notin Successes(n)
          BY <2>1 DEF Successes
        <5>3. c \in Successes(n)'
          <6>1. pc'[c] = "done" /\ outcome'[c] = o
            BY <1>1, <1>15, <3>2 DEF ChainTypes, SpendTypes
          <6> QED
            BY <1>15, <3>4, <4>3, <6>1 DEF Successes, Node
        <5> QED
          BY <4>1, <4>2, <5>1, <5>2, <5>3 DEF Booked, Earns
      <4>4. CASE n # Node(c)
        <5>1. balance'[n] <= balance[n]
          BY <1>1, <1>2, <2>1, <3>4, <4>4, CreditFacts
        <5> QED
          BY <4>1, <4>2, <5>1 DEF Booked, Unpaid
      <4> QED
        BY <4>3, <4>4
    <3> QED
      BY <3>2, <3>3, <3>4
  <2> QED
    BY <2>4, <2>5
<1> QED
  BY <1>7, <1>8, <1>9, <1>10, <1>11, <1>12, <1>13, <1>14, <1>15 DEF Next, Run

\* What the books of a node may do to its numbers: what it holds (b), owes (o) and
\* was given by successes (s), before and after.
LEMMA Bookkeeping ==
    ASSUME NEW b \in Nat, NEW o \in Nat, NEW s \in Nat,
           NEW b1 \in Nat, NEW o1 \in Nat, NEW s1 \in Nat,
           NEW w \in Nat, NEW i \in Nat, NEW cap \in Nat,
           b + w * o <= cap + i * s,
           \/ o1 <= o /\ s <= s1 /\ b1 <= b
           \/ o1 + 1 <= o /\ s <= s1 /\ b1 <= b + w
           \/ o1 <= o + 1 /\ s <= s1 /\ b1 = b - w
           \/ o1 <= o /\ s + 1 <= s1 /\ b1 <= b + i
    PROVE  b1 + w * o1 <= cap + i * s1
<1>1. ASSUME NEW x \in Nat, NEW y \in Nat, NEW z \in Nat, x <= y PROVE z * x <= z * y
  <2>1. y - x \in Nat /\ y = x + (y - x)
    BY <1>1
  <2>2. z * (x + (y - x)) = z * x + z * (y - x)
    BY <2>1
  <2>3. z * (y - x) \in Nat /\ z * x \in Nat
    BY <2>1
  <2> DEFINE p == z * x
             q == z * (y - x)
  <2>4. z * y = p + q
    BY <2>1, <2>2
  <2> HIDE DEF p, q
  <2>5. p <= p + q
    BY <2>3 DEF p, q
  <2> QED
    BY <2>4, <2>5 DEF p
<1> DEFINE wo == w * o
           wo1 == w * o1
           is == i * s
           is1 == i * s1
<1>2. wo \in Nat /\ wo1 \in Nat /\ is \in Nat /\ is1 \in Nat
  OBVIOUS
<1>3. \A x \in Nat : w * (x + 1) = w * x + w
  OBVIOUS
<1>4. \A x \in Nat : i * (x + 1) = i * x + i
  OBVIOUS
<1>5. s <= s1
  OBVIOUS
<1>6. is <= is1
  BY <1>1, <1>5
<1>7. b + wo <= cap + is
  OBVIOUS
<1>8. CASE o1 <= o /\ s <= s1 /\ b1 <= b
  <2>1. wo1 <= wo /\ b1 <= b
    BY <1>1, <1>8
  <2> HIDE DEF wo, wo1, is, is1
  <2>2. b1 + wo1 <= cap + is1
    BY <1>2, <1>6, <1>7, <2>1
  <2> QED
    BY <2>2 DEF wo1, is1
<1>9. CASE o1 + 1 <= o /\ s <= s1 /\ b1 <= b + w
  <2>1. w * (o1 + 1) <= wo
    BY <1>1, <1>9
  <2>2. wo1 + w <= wo
    BY <1>3, <2>1
  <2>3. b1 <= b + w
    BY <1>9
  <2> HIDE DEF wo, wo1, is, is1
  <2>4. b1 + wo1 <= cap + is1
    BY <1>2, <1>6, <1>7, <2>2, <2>3
  <2> QED
    BY <2>4 DEF wo1, is1
<1>10. CASE o1 <= o + 1 /\ s <= s1 /\ b1 = b - w
  <2>1. wo1 <= w * (o + 1)
    BY <1>1, <1>10
  <2>2. wo1 <= wo + w
    BY <1>3, <2>1
  <2>3. b1 = b - w
    BY <1>10
  <2> HIDE DEF wo, wo1, is, is1
  <2>4. b1 + wo1 <= cap + is1
    BY <1>2, <1>6, <1>7, <2>2, <2>3
  <2> QED
    BY <2>4 DEF wo1, is1
<1>11. CASE o1 <= o /\ s + 1 <= s1 /\ b1 <= b + i
  <2>1. wo1 <= wo
    BY <1>1, <1>11
  <2>2. i * (s + 1) <= is1
    BY <1>1, <1>11
  <2>3. is + i <= is1
    BY <1>4, <2>2
  <2>4. b1 <= b + i
    BY <1>11
  <2> HIDE DEF wo, wo1, is, is1
  <2>5. b1 + wo1 <= cap + is1
    BY <1>2, <1>7, <2>1, <2>3, <2>4
  <2> QED
    BY <2>5 DEF wo1, is1
<1> QED
  BY <1>8, <1>9, <1>10, <1>11

LEMMA StepBalanced == Ordered /\ SpendTypes /\ Balanced /\ [Next]_vars => Balanced'
<1> SUFFICES ASSUME Ordered, SpendTypes, Balanced, [Next]_vars, NEW n \in Nodes
             PROVE  balance'[n] + chain'[n].budget.cost * Cardinality(Owed(n)')
                        <= chain'[n].budget.capacity
                           + chain'[n].budget.increment * Cardinality(Successes(n)')
  BY DEF Balanced
<1>1. CASE UNCHANGED vars
  <2>1. Owed(n)' = Owed(n) /\ Successes(n)' = Successes(n) /\ chain' = chain /\ balance' = balance
    BY <1>1 DEF vars, Owed, Owes, WasSent, Pending, Successes, Node
  <2> QED
    BY <2>1 DEF Balanced
<1>2. CASE Next
  <2>1. SpendTypes' /\ chain' = chain
    <3>1. chain' = chain
      BY <1>2 DEF Next, Run, Tick, Accept, NoTime, Send, WaitOver, WaitCut, Reply, Serve, Disconnect
    <3> QED
      BY <1>2, <3>1, StepSpend
  <2> DEFINE b == balance[n]
             b1 == balance'[n]
             O == Owed(n)
             O1 == Owed(n)'
             T == Successes(n)
             T1 == Successes(n)'
             o == Cardinality(O)
             o1 == Cardinality(O1)
             s == Cardinality(T)
             s1 == Cardinality(T1)
             w == chain[n].budget.cost
             i == chain[n].budget.increment
             cap == chain[n].budget.capacity
  <2>2. b \in Nat /\ b1 \in Nat
    BY <2>1 DEF SpendTypes
  <2>3. w \in Nat /\ i \in Nat /\ cap \in Nat
    BY BudgetFacts DEF Ordered
  <2>4. IsFiniteSet(O) /\ IsFiniteSet(T) /\ o \in Nat /\ s \in Nat
    BY LedgerFinite
  <2>5. IsFiniteSet(O1) /\ IsFiniteSet(T1) /\ o1 \in Nat /\ s1 \in Nat
    <3>1. O1 \subseteq Calls /\ T1 \subseteq Calls
      BY DEF Owed, Successes
    <3> HIDE DEF O1, T1
    <3>2. IsFiniteSet(O1) /\ IsFiniteSet(T1)
      BY <3>1, CallsFinite, FS_Subset
    <3> QED
      BY <3>2, FS_CardinalityType
  <2>6. b + w * o <= cap + i * s
    BY DEF Balanced
  <2>7. \/ O1 \subseteq O /\ T \subseteq T1 /\ b1 <= b
        \/ (\E d \in O : O1 \subseteq O \ {d}) /\ T \subseteq T1 /\ b1 <= b + w
        \/ (\E d : O1 \subseteq O \cup {d}) /\ T \subseteq T1 /\ b1 = b - w
        \/ O1 \subseteq O /\ (\E c : c \notin T /\ T \cup {c} \subseteq T1) /\ b1 <= b + i
    BY <1>2, StepBooked DEF Booked, Unpaid, Refunds, Charges, Earns
  <2> HIDE DEF b, b1, O, O1, T, T1, w, i, cap
  <2>8. O1 \subseteq O => o1 <= o
    BY <2>4, FS_Subset
  <2>9. T \subseteq T1 => s <= s1
    BY <2>5, FS_Subset
  <2>10. ASSUME NEW d \in O, O1 \subseteq O \ {d} PROVE o1 + 1 <= o
    <3> DEFINE R == O \ {d}
    <3>1. IsFiniteSet(R) /\ Cardinality(R) = o - 1
      BY <2>4, FS_RemoveElement
    <3>2. O1 \subseteq R
      BY <2>10
    <3> HIDE DEF R
    <3>3. o1 <= Cardinality(R)
      BY <3>1, <3>2, FS_Subset
    <3> QED
      BY <2>4, <2>5, <3>1, <3>3
  <2>11. ASSUME NEW d, O1 \subseteq O \cup {d} PROVE o1 <= o + 1
    <3> DEFINE R == O \cup {d}
    <3>1. IsFiniteSet(R) /\ Cardinality(R) <= o + 1
      <4>1. IsFiniteSet(R) /\ Cardinality(R) = IF d \in O THEN o ELSE o + 1
        BY <2>4, FS_AddElement
      <4> QED
        BY <2>4, <4>1
    <3>2. O1 \subseteq R
      BY <2>11
    <3> HIDE DEF R
    <3>3. o1 <= Cardinality(R) /\ Cardinality(R) \in Nat
      BY <3>1, <3>2, FS_Subset, FS_CardinalityType
    <3> QED
      BY <2>4, <2>5, <3>1, <3>3
  <2>12. ASSUME NEW c, c \notin T, T \cup {c} \subseteq T1 PROVE s + 1 <= s1
    <3> DEFINE R == T \cup {c}
    <3>1. IsFiniteSet(R) /\ Cardinality(R) = s + 1
      BY <2>4, <2>12, FS_AddElement
    <3>2. R \subseteq T1
      BY <2>12
    <3> HIDE DEF R
    <3>3. Cardinality(R) <= s1
      BY <2>5, <3>2, FS_Subset
    <3> QED
      BY <3>1, <3>3
  <2>13. \/ o1 <= o /\ s <= s1 /\ b1 <= b
         \/ o1 + 1 <= o /\ s <= s1 /\ b1 <= b + w
         \/ o1 <= o + 1 /\ s <= s1 /\ b1 = b - w
         \/ o1 <= o /\ s + 1 <= s1 /\ b1 <= b + i
    <3> HIDE DEF o, o1, s, s1
    <3> QED
      BY <2>7, <2>8, <2>9, <2>10, <2>11, <2>12
  <2> HIDE DEF o, o1, s, s1
  <2>14. b1 + w * o1 <= cap + i * s1
    BY <2>2, <2>3, <2>4, <2>5, <2>6, <2>13, Bookkeeping
  <2> QED
    BY <2>1, <2>14 DEF b1, w, o1, O1, cap, i, s1, T1
<1> QED
  BY <1>1, <1>2

LEMMA InitBalanced == Init => Balanced
<1> SUFFICES ASSUME Init, NEW n \in Nodes
             PROVE  balance[n] + chain[n].budget.cost * Cardinality(Owed(n))
                        <= chain[n].budget.capacity
                           + chain[n].budget.increment * Cardinality(Successes(n))
  BY DEF Balanced
<1>1. ChainTypes /\ chain[n].budget.capacity \in Nat /\ chain[n].budget.cost \in Nat
      /\ chain[n].budget.increment \in Nat
  BY InitOrdered, BudgetFacts DEF Ordered
<1>2. Len(Root) = 0 /\ n # 0
  BY EmptySeq DEF Root, Nodes
<1>3. \A c \in Calls : pc[c] \in {"wire", "unsent"} /\ (WasSent(c) => c = Root)
  BY DEF Init, WasSent
<1>4. ASSUME NEW d \in Owed(n) PROVE FALSE
  <2>1. d \in Calls /\ Len(d) = n /\ Owes(d)
    BY DEF Owed
  <2>2. ~WasSent(d) /\ Caller(d) \in Calls
    BY <1>2, <1>3, <2>1, LastFacts DEF Handled
  <2> QED
    BY <1>3, <2>1, <2>2 DEF Owes, Pending
<1>5. Owed(n) = {}
  BY <1>4
<1>6. Cardinality(Owed(n)) = 0 /\ Cardinality(Successes(n)) \in Nat
  BY <1>5, FS_EmptySet, LedgerFinite
<1>7. balance[n] = chain[n].budget.capacity
  BY DEF Init
<1> DEFINE x == chain[n].budget.increment * Cardinality(Successes(n))
<1>8. x \in Nat
  BY <1>1, <1>6
<1> HIDE DEF x
<1>9. balance[n] + chain[n].budget.cost * Cardinality(Owed(n)) <= chain[n].budget.capacity + x
  <2>1. chain[n].budget.cost * 0 = 0
    BY <1>1
  <2> QED
    BY <1>1, <1>6, <1>7, <1>8, <2>1
<1> QED
  BY <1>9 DEF x

\* So often w goes into x.
LEMMA Division ==
    ASSUME NEW x \in Nat, NEW w \in Nat \ {0}, NEW o \in Nat, w * o <= x
    PROVE  x \div w \in Nat /\ o <= x \div w
<1> DEFINE q == x \div w
<1>1. q \in Nat
  OBVIOUS
<1>2. x < w * q + w
  OBVIOUS
<1>3. o <= q
  <2> HIDE DEF q
  <2> SUFFICES ASSUME q + 1 <= o PROVE FALSE
    BY <1>1
  <2>1. o - (q + 1) \in Nat /\ o = (q + 1) + (o - (q + 1))
    BY <1>1
  <2> DEFINE k == o - (q + 1)
  <2>2. k \in Nat /\ o = (q + 1) + k
    BY <2>1
  <2> HIDE DEF k
  <2>3. w * ((q + 1) + k) = w * q + w + w * k /\ w * k \in Nat /\ w * q \in Nat
    BY <1>1, <2>2
  <2> QED
    BY <1>2, <2>2, <2>3
<1> QED
  BY <1>1, <1>3

-----------------------------------------------------------------------------
(* How many requests the budgets pay for *)

PayingNodes == \A n \in Nodes : chain[n].budget.cost > 0

\* The most retries that node n can pay for with what it was given and earned.
Affordable(n) ==
    (chain[n].budget.capacity + chain[n].budget.increment * Cardinality(Successes(n)))
        \div chain[n].budget.cost

\* The sums of what the first nodes can afford.
Tallies(r) ==
    /\ r[0] = 0
    /\ \A n \in Nodes : r[n] = r[n - 1] + Affordable(n)
    /\ \A n \in 0 .. Hops : r[n] \in Nat
    /\ Paid = 1 + r[Hops]

LEMMA OwedAffordable ==
    ASSUME Ordered, SpendTypes, Balanced, PayingNodes, NEW n \in Nodes
    PROVE  Affordable(n) \in Nat /\ Cardinality(Owed(n)) <= Affordable(n)
<1> DEFINE w == chain[n].budget.cost
           o == Cardinality(Owed(n))
           s == Cardinality(Successes(n))
           i == chain[n].budget.increment
           cap == chain[n].budget.capacity
<1>1. w \in Nat \ {0} /\ i \in Nat /\ cap \in Nat /\ balance[n] \in Nat
  BY BudgetFacts DEF Ordered, SpendTypes, PayingNodes
<1>2. o \in Nat /\ s \in Nat
  BY LedgerFinite
<1>3. balance[n] + w * o <= cap + i * s
  BY DEF Balanced
<1>4. Affordable(n) = (cap + i * s) \div w
  BY DEF Affordable
<1> HIDE DEF w, o, s, i, cap
<1> DEFINE x == cap + i * s
<1>5. x \in Nat /\ w * o \in Nat
  BY <1>1, <1>2
<1>6. w * o <= x
  <2> DEFINE y == w * o
  <2>1. y \in Nat /\ balance[n] + y <= x
    BY <1>3, <1>5
  <2> HIDE DEF x, y
  <2>2. y <= x
    BY <1>1, <1>5, <2>1
  <2> QED
    BY <2>2 DEF y
<1>7. x \div w \in Nat /\ o <= x \div w
  <2> HIDE DEF x
  <2> QED
    BY <1>1, <1>2, <1>5, <1>6, Division
<1> QED
  BY <1>4, <1>7 DEF o

LEMMA PaidDef ==
    ASSUME Ordered, \A n \in Nodes : Affordable(n) \in Nat
    PROVE  \E r : Tallies(r)
<1>1. Hops \in Nat \ {0}
  BY ChainAssumption
<1> DEFINE IsTally(r) == r = [n \in 0 .. Hops |-> IF n = 0 THEN 0 ELSE r[n - 1] + Affordable(n)]
           g == [m \in Nat |-> [x \in Nat |-> IF m < Hops THEN x + Affordable(m + 1) ELSE x]]
<1>2. 0 \in Nat /\ g \in StepsOn(Nat)
  <2>1. \A m \in Nat : m < Hops => m + 1 \in Nodes
    BY <1>1 DEF Nodes
  <2> HIDE DEF Affordable
  <2> QED
    BY <2>1 DEF StepsOn
<1>3. PICK f \in [Nat -> Nat] : Follows(f, 0, g)
  <2> HIDE DEF g
  <2> QED
    BY <1>2, Recursion
<1> DEFINE r == [n \in 0 .. Hops |-> f[n]]
<1>4. f[0] = 0 /\ \A n \in Nodes : f[n] = f[n - 1] + Affordable(n)
  <2>1. f[0] = 0 /\ \A m \in Nat : f[m + 1] = g[m][f[m]]
    BY <1>3 DEF Follows
  <2> SUFFICES ASSUME NEW n \in Nodes PROVE f[n] = f[n - 1] + Affordable(n)
    BY <2>1
  <2>2. n - 1 \in Nat /\ n - 1 < Hops /\ (n - 1) + 1 = n
    BY <1>1 DEF Nodes
  <2>3. f[n - 1] \in Nat
    BY <2>2
  <2> DEFINE m == n - 1
  <2>4. m \in Nat /\ m < Hops /\ m + 1 = n /\ f[m] \in Nat
    BY <2>2, <2>3
  <2> HIDE DEF m
  <2>5. g[m][f[m]] = f[m] + Affordable(m + 1)
    BY <2>4
  <2>6. f[m + 1] = f[m] + Affordable(m + 1)
    BY <2>1, <2>4, <2>5
  <2> QED
    BY <2>4, <2>6 DEF m
<1>5. IsTally(r)
  <2> SUFFICES ASSUME NEW n \in 0 .. Hops
               PROVE  r[n] = IF n = 0 THEN 0 ELSE r[n - 1] + Affordable(n)
    OBVIOUS
  <2>1. n # 0 => n \in Nodes /\ n - 1 \in 0 .. Hops
    BY <1>1 DEF Nodes
  <2> HIDE DEF Affordable
  <2> QED
    BY <1>4, <2>1
<1> DEFINE p == CHOOSE q : IsTally(q)
<1>6. Paid = 1 + p[Hops]
  BY DEF Paid, Affordable, Successes
<1>7. IsTally(p)
  <2> HIDE DEF IsTally, r
  <2> QED
    BY <1>5
<1> HIDE DEF p
<1>8. p[0] = 0 /\ \A n \in Nodes : p[n] = p[n - 1] + Affordable(n)
  <2>1. 0 \in 0 .. Hops /\ \A n \in Nodes : n \in 0 .. Hops /\ n # 0
    BY <1>1 DEF Nodes
  <2> HIDE DEF Affordable
  <2> QED
    BY <1>7, <2>1
<1>9. \A n \in 0 .. Hops : p[n] \in Nat
  <2> DEFINE S == {m \in Nat : m <= Hops => p[m] \in Nat}
  <2>1. 0 \in S
    BY <1>8
  <2>2. ASSUME NEW m \in Nat, m \in S PROVE m + 1 \in S
    <3> SUFFICES ASSUME m + 1 <= Hops PROVE p[m + 1] \in Nat
      OBVIOUS
    <3>1. m + 1 \in Nodes /\ (m + 1) - 1 = m /\ m <= Hops
      BY <1>1 DEF Nodes
    <3>2. p[m] \in Nat
      BY <2>2, <3>1
    <3>3. p[m + 1] = p[m] + Affordable(m + 1) /\ Affordable(m + 1) \in Nat
      BY <1>8, <3>1
    <3> QED
      BY <3>2, <3>3
  <2> HIDE DEF S
  <2>3. \A m \in Nat : m \in S
    BY <2>1, <2>2, SetInduction
  <2> QED
    BY <1>1, <2>3 DEF S
<1>10. Tallies(p)
  BY <1>6, <1>8, <1>9 DEF Tallies
<1> QED
  BY <1>10

\* The calls of one length that were made.
Level(n) == {d \in Calls : WasSent(d) /\ Len(d) = n}

\* A request is the first of its call, as many as there are calls above, or a
\* retry that its node has paid for.
LEMMA LevelGrows ==
    ASSUME Ordered, NEW n \in Nat, n + 1 \in Nodes
    PROVE  Cardinality(Level(n + 1)) <= Cardinality(Level(n)) + Cardinality(Owed(n + 1))
<1> DEFINE V == Level(n)
           O == Owed(n + 1)
           T == {Append(c, 0) : c \in V}
           f == [c \in V |-> Append(c, 0)]
<1>1. IsFiniteSet(V) /\ IsFiniteSet(O)
  <2>1. V \subseteq Calls
    BY DEF Level
  <2> HIDE DEF V
  <2> QED
    BY <2>1, CallsFinite, FS_Subset, LedgerFinite
<1>2. f \in Surjection(V, T)
  <2> HIDE DEF V
  <2> QED
    BY DEF Surjection
<1>3. IsFiniteSet(T) /\ Cardinality(T) <= Cardinality(V)
  <2> HIDE DEF V, T, f
  <2> QED
    BY <1>1, <1>2, FS_Surjection
<1>4. Level(n + 1) \subseteq T \cup O
  <2> SUFFICES ASSUME NEW d \in Calls, WasSent(d), Len(d) = n + 1, d \notin O PROVE d \in T
    BY DEF Level
  <2>1. /\ Len(d) # 0 /\ Caller(d) \in Handled /\ d[Len(d)] \in Attempts
        /\ Append(Caller(d), d[Len(d)]) = d /\ Node(Caller(d)) = Len(d)
    BY LastFacts
  <2>2. d[n + 1] \in Nat /\ ~(d[n + 1] > 0)
    BY <2>1, ChainAssumption DEF Owed, Owes, Attempts
  <2>3. d[Len(d)] = 0
    BY <2>2
  <2>4. Caller(d) \in Above(d)
    <3>1. Above(d) = Above(Caller(d)) \cup {Caller(d)}
      BY <2>1, RequestFacts
    <3> QED
      BY <3>1
  <2>5. WasSent(Caller(d)) /\ Caller(d) \in Calls
    BY <2>1, <2>4 DEF Ordered, Rooted, Handled
  <2>6. Len(Caller(d)) = n
    <3>1. Len(Caller(d)) + 1 = n + 1 /\ Len(Caller(d)) \in Nat
      BY <2>1, <2>5, CallsAreSequences, LenProperties DEF Node
    <3> QED
      BY <3>1
  <2>7. Caller(d) \in V
    BY <2>5, <2>6 DEF Level
  <2> HIDE DEF V
  <2> QED
    BY <2>1, <2>3, <2>7
<1>5. IsFiniteSet(T \cup O) /\ Cardinality(T \cup O) <= Cardinality(T) + Cardinality(O)
  <2> HIDE DEF T, O
  <2>1. /\ IsFiniteSet(T \cup O) /\ Cardinality(T \cap O) \in Nat
        /\ Cardinality(T) \in Nat /\ Cardinality(O) \in Nat
        /\ Cardinality(T \cup O) = Cardinality(T) + Cardinality(O) - Cardinality(T \cap O)
    BY <1>1, <1>3, FS_Union, FS_Intersection, FS_CardinalityType
  <2> QED
    BY <2>1
<1>6. Cardinality(Level(n + 1)) <= Cardinality(T \cup O)
  <2> HIDE DEF T, O
  <2> QED
    BY <1>4, <1>5, FS_Subset
<1>7. /\ Cardinality(V) \in Nat /\ Cardinality(T) \in Nat /\ Cardinality(O) \in Nat
      /\ Cardinality(T \cup O) \in Nat /\ Cardinality(Level(n + 1)) \in Nat
  <2>1. IsFiniteSet(Level(n + 1))
    <3>1. Level(n + 1) \subseteq Calls
      BY DEF Level
    <3> QED
      BY <3>1, CallsFinite, FS_Subset
  <2> HIDE DEF V, T, O
  <2> QED
    BY <1>1, <1>3, <1>5, <2>1, FS_CardinalityType
<1> DEFINE l == Cardinality(Level(n + 1))
           u == Cardinality(T \cup O)
           t == Cardinality(T)
           v == Cardinality(V)
           o == Cardinality(O)
<1>8. /\ l <= u /\ u <= t + o /\ t <= v
      /\ l \in Nat /\ u \in Nat /\ t \in Nat /\ v \in Nat /\ o \in Nat
  BY <1>3, <1>5, <1>6, <1>7
<1> HIDE DEF l, u, t, v, o
<1>9. l <= v + o
  BY <1>8
<1> QED
  BY <1>9 DEF l, v, o

LEMMA BudgetsBound == Ordered /\ SpendTypes /\ Balanced => BudgetBoundsLoad
<1> SUFFICES ASSUME Ordered, SpendTypes, Balanced, PayingNodes
             PROVE  Cardinality(Load(Root)) <= Paid
  BY DEF BudgetBoundsLoad, PayingNodes
<1>1. Hops \in Nat \ {0}
  BY ChainAssumption
<1>2. PICK r : Tallies(r)
  BY OwedAffordable, PaidDef
<1> DEFINE size(n) == Cardinality(Level(n))
           S == {n \in Nat : n <= Hops => size(n) <= 1 + r[n]}
<1>3. \A n \in Nat : IsFiniteSet(Level(n)) /\ size(n) \in Nat
  <2> SUFFICES ASSUME NEW n \in Nat PROVE IsFiniteSet(Level(n)) /\ Cardinality(Level(n)) \in Nat
    OBVIOUS
  <2>1. Level(n) \subseteq Calls
    BY DEF Level
  <2> QED
    BY <2>1, CallsFinite, FS_Subset, FS_CardinalityType
<1>4. 0 \in S
  <2>1. Level(0) \subseteq {Root}
    <3> SUFFICES ASSUME NEW d \in Calls, Len(d) = 0 PROVE d = Root
      BY DEF Level
    <3> QED
      BY CallsAreSequences, EmptySeq DEF Root
  <2>2. IsFiniteSet({Root}) /\ Cardinality({Root}) = 1
    BY FS_Singleton
  <2>3. size(0) <= 1
    BY <2>1, <2>2, FS_Subset
  <2>4. r[0] = 0
    BY <1>2 DEF Tallies
  <2> HIDE DEF size
  <2> QED
    BY <2>3, <2>4
<1>5. ASSUME NEW n \in Nat, n \in S PROVE n + 1 \in S
  <2> SUFFICES ASSUME n + 1 <= Hops PROVE size(n + 1) <= 1 + r[n + 1]
    OBVIOUS
  <2>1. n + 1 \in Nodes /\ n <= Hops /\ (n + 1) - 1 = n /\ n \in 0 .. Hops
    BY <1>1 DEF Nodes
  <2> DEFINE o == Cardinality(Owed(n + 1))
             a == Affordable(n + 1)
  <2>2. size(n + 1) <= size(n) + o
    BY <2>1, LevelGrows
  <2>3. o <= a /\ a \in Nat /\ o \in Nat
    BY <2>1, OwedAffordable, LedgerFinite
  <2>4. r[n + 1] = r[n] + a /\ r[n] \in Nat
    BY <1>2, <2>1 DEF Tallies
  <2>5. size(n) <= 1 + r[n] /\ size(n) \in Nat /\ size(n + 1) \in Nat
    BY <1>3, <1>5, <2>1
  <2> HIDE DEF size, o, a
  <2> QED
    BY <2>2, <2>3, <2>4, <2>5
<1> HIDE DEF S
<1>6. \A n \in Nat : n \in S
  BY <1>4, <1>5, SetInduction
<1>7. size(Hops) <= Paid
  BY <1>1, <1>2, <1>6 DEF S, Tallies
<1>8. Load(Root) \subseteq Level(Hops)
  BY DEF Load, Level, AtLast
<1>9. IsFiniteSet(Level(Hops)) /\ size(Hops) \in Nat
  BY <1>1, <1>3
<1>10. Cardinality(Load(Root)) <= size(Hops) /\ Cardinality(Load(Root)) \in Nat
  <2>1. IsFiniteSet(Load(Root)) /\ Cardinality(Load(Root)) <= size(Hops)
    BY <1>8, <1>9, FS_Subset
  <2> QED
    BY <2>1, FS_CardinalityType
<1>11. Paid \in Nat
  BY <1>1, <1>2 DEF Tallies
<1> HIDE DEF size
<1> QED
  BY <1>7, <1>9, <1>10, <1>11

\* In a chain of any length in which every node pays for its retries, the last
\* server gets no more requests than the budgets hold and earn, however many
\* attempts the policies allow and in whatever order calls are abandoned, time
\* out and are answered (transport.go:183-196).
THEOREM BudgetBoundsLoadAlways == Spec => []BudgetBoundsLoad
<1> QED
  BY InitSpend, StepSpend, InitBalanced, StepBalanced, BudgetsBound, OrderedAlways, PTL DEF Spec
=============================================================================
