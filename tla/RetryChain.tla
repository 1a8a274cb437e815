----------------------------- MODULE RetryChain -----------------------------
(***************************************************************************)
(* A chain of services.  Node 1 serves a request by calling node 2, and so *)
(* on to a last server.  Every node but the last imports the retry         *)
(* constraints of its request (GovernanceMiddleware,                       *)
(* src/retry_governance.go) or copies the headers to its own call, and     *)
(* calls through a Transport, which writes them for the next hop           *)
(* (src/transport.go).                                                     *)
(*                                                                         *)
(* An attempt may run out of time at any moment: per-attempt timeouts are  *)
(* shorter than the unit of the clock.  The request it sent stays on the   *)
(* wire or in the hands of its server, beside the retry that follows.      *)
(* A call decides in the step in which its attempt ends, and its budget is *)
(* a balance per node: RoundTrip and RetryBudget have the steps between.   *)
(***************************************************************************)
EXTENDS RetryPolicy, Sequences, FiniteSets

CONSTANTS
    Hops,           \* the number of nodes that call another
    MostRetries,    \* bound: the largest MaxRetries
    Starts,         \* [nodes, entering]: what the nodes are configured to, and
                    \* the constraints the first request carries
    Skew,           \* how far each node's clock is ahead
    Milli,          \* units of time in a millisecond
    MaxTime,        \* bound: no deadline lies beyond it
    Failures,       \* how an attempt may end without an answer
    Answers         \* what the last server may answer

Nodes == 1 .. Hops

\* A node: [policy, budget, skip, context, header], the last two whether its
\* handler uses the imported context, and whether it copies the headers.
ASSUME ChainAssumption ==
    /\ Hops \in Nat \ {0}
    /\ MostRetries \in Nat
    /\ Milli \in Nat \ {0}
    /\ MaxTime \in 0 .. Never
    /\ Skew \in [Nodes -> Int]
    /\ \A o \in Answers : o.retryAfter \subseteq Int
    /\ \A s \in Starts :
           /\ s.entering \in [noMore : BOOLEAN, deadline : Int]
           /\ \A n \in Nodes :
                  /\ s.nodes[n].policy.retries \in 0 .. MostRetries
                  /\ s.nodes[n].policy.elapsed \in Nat
                  /\ s.nodes[n].policy.initial \in Int /\ s.nodes[n].policy.maxBackoff \in Int
                  /\ s.nodes[n].budget \in [capacity : Nat, cost : Nat, increment : Nat]
                  /\ s.nodes[n].context \/ s.nodes[n].header

\* A call is the numbers of the attempts that lead to it, one for each hop. The
\* calls of length Hops are the requests the last server gets.
Calls == UNION {[1 .. n -> 0 .. MostRetries] : n \in 0 .. Hops}
Root == <<>>
Node(c) == Len(c) + 1
AtLast(c) == Len(c) = Hops
Handled == {c \in Calls : ~AtLast(c)}
Caller(c) == SubSeq(c, 1, Len(c) - 1)
Above(c) == {SubSeq(c, 1, n) : n \in 0 .. Len(c) - 1}

VARIABLES
    chain,      \* the configuration of the nodes
    now,        \* the time
    balance,    \* the retry budget of each node
    pc,         \* where a call is
    asked,      \* the constraints its request carries: [noMore, deadline]
    due,        \* its overall deadline
    attempt,    \* the number of the attempt, from 0
    outcome,    \* finalResp and finalErr, once it is done
    waitLeft,   \* until the backoff timer fires
    gone        \* calls whose server has seen that its client is gone

vars == <<chain, now, balance, pc, asked, due, attempt, outcome, waitLeft, gone>>

policy(c) == chain[Node(c)].policy
budget(c) == chain[Node(c)].budget
skip(c) == chain[Node(c)].skip
Clock(c) == now + Skew[Node(c)]

Free == [noMore |-> FALSE, deadline |-> Never]

Init ==
    /\ \E s \in Starts :
           /\ chain = s.nodes
           /\ asked = [c \in Calls |-> IF c = Root THEN s.entering ELSE Free]
    /\ now = 0
    /\ balance = [n \in Nodes |-> chain[n].budget.capacity]
    /\ pc = [c \in Calls |-> IF c = Root THEN "wire" ELSE "unsent"]
    /\ due = [c \in Calls |-> Never]
    /\ attempt = [c \in Calls |-> 0]
    /\ outcome = [c \in Calls |-> Nothing]
    /\ waitLeft = [c \in Calls |-> 0]
    /\ gone = {}

Goto(c, step) == pc' = [pc EXCEPT ![c] = step]

\* The request of the attempt in hand.
Sent(c) == Append(c, attempt[c])

-----------------------------------------------------------------------------
(* Constraints *)

\* Mutant: the constraint is read from the call's own header only.
noMoreRetryOfHeader(c) == chain[Node(c)].header /\ asked[c].noMore

\* NoMoreRetryFromContext or the header, whichever the handler passes on.
noMoreRetry(c) == (chain[Node(c)].context \/ chain[Node(c)].header) /\ asked[c].noMore

Limit(c) == IF noMoreRetry(c) \/ skip(c) THEN 0 ELSE policy(c).retries

\* Mutant: a policy with a maximum replaces the deadline of the chain.
OverallDeadlineOfPolicy(c) ==
    IF ~skip(c) /\ policy(c).elapsed > 0
    THEN Clock(c) + policy(c).elapsed
    ELSE asked[c].deadline

\* The deadline that came as header or context, or the policy's if earlier; a
\* skipped call has no policy.
OverallDeadline(c) ==
    LET elapsed == IF skip(c) THEN 0 ELSE policy(c).elapsed
    IN  Least(asked[c].deadline, IF elapsed > 0 THEN Clock(c) + elapsed ELSE Never)

\* Mutant: rounded up.
formatRequestDeadlineUp(d) == IF d = Never THEN Never ELSE ((d + Milli - 1) \div Milli) * Milli

\* The header counts whole milliseconds; without a deadline there is none.
formatRequestDeadline(d) == IF d = Never THEN Never ELSE (d \div Milli) * Milli

\* Mutant: the last attempt is not announced.
NextNoMoreRetryInherited(c) == noMoreRetry(c)

\* X-No-More-Retry of the next hop: on the last attempt and under the
\* constraint; a skipped call only passes the constraint on.
NextNoMoreRetry(c) == noMoreRetry(c) \/ (~skip(c) /\ attempt[c] = Limit(c))

\* The context of a call is over.
Expired(c) == due[c] <= Clock(c)
ContextErrors(c) ==
    {e \in {"canceled", "deadline"} : IF e = "canceled" THEN c \in gone ELSE Expired(c)}

-----------------------------------------------------------------------------
(* A call at its node *)

\* The request arrives and the handler makes its call.
Accept(c) ==
    /\ pc[c] = "wire"
    /\ ~AtLast(c)
    /\ due' = [due EXCEPT ![c] = OverallDeadline(c)]
    /\ Goto(c, "ready")
    /\ UNCHANGED <<chain, now, balance, asked, attempt, outcome, waitLeft, gone>>

\* Mutant: a refund or a success may overfill the budget.
CreditedUncapped(c, amount) == [balance EXCEPT ![Node(c)] = @ + amount]

\* The budget gives back the cost of a retry that does not start, or an
\* increment for a success.
Credited(c, amount) ==
    [balance EXCEPT ![Node(c)] = Least(@ + amount, budget(c).capacity)]

End(c, o) ==
    /\ outcome' = [outcome EXCEPT ![c] = o]
    /\ Goto(c, "done")

\* No time is left for an attempt.
NoTime(c) ==
    /\ pc[c] = "ready"
    /\ ~skip(c) /\ Expired(c)
    /\ balance' = IF attempt[c] > 0 THEN Credited(c, budget(c).cost) ELSE balance
    /\ End(c, Error("deadline"))
    /\ UNCHANGED <<chain, now, asked, due, attempt, waitLeft, gone>>

\* The attempt goes out with its headers. The wrapped RoundTripper sends
\* nothing under a context that is over.
Send(c) ==
    /\ pc[c] = "ready"
    /\ skip(c) \/ ~Expired(c)
    /\ IF ContextErrors(c) = {}
       THEN /\ pc' = [pc EXCEPT ![c] = "inflight", ![Sent(c)] = "wire"]
            /\ asked' = [asked EXCEPT ![Sent(c)] =
                   [noMore |-> NextNoMoreRetry(c), deadline |-> formatRequestDeadline(due[c])]]
       ELSE Goto(c, "inflight") /\ UNCHANGED asked
    /\ UNCHANGED <<chain, now, balance, due, attempt, outcome, waitLeft, gone>>

\* The handler passes on the status it got, and 502 for an error.
Answer(c) == IF HasResponse(outcome[c]) THEN outcome[c] ELSE Response(502, {})

\* Mutant: no attempt has a timeout.
TimedFailuresNone(c) == Failures \ {"deadline"}

\* An attempt with a timeout; a skipped call has none.
TimedFailures(c) == IF skip(c) THEN Failures \ {"deadline"} ELSE Failures

\* How the attempt in flight may end.
Outcomes(c) ==
    {Error(e) : e \in ContextErrors(c)}
        \cup (IF pc[Sent(c)] = "unsent" THEN {} ELSE {Error(e) : e \in TimedFailures(c)})
        \cup (IF pc[Sent(c)] = "done" THEN {Answer(Sent(c))} ELSE {})

\* Mutant: a retry is not deducted.
ChargedNothing(c) == balance

\* What a retry leaves of the budget.
Charged(c) == [balance EXCEPT ![Node(c)] = @ - budget(c).cost]

\* The call is over. A response below 400 is a success.
Finish(c, o) ==
    /\ balance' = IF IsSuccess(o) /\ ~skip(c) THEN Credited(c, budget(c).increment) ELSE balance
    /\ End(c, o)
    /\ UNCHANGED <<attempt, waitLeft>>

\* A retry is wanted, a number of attempts and time for it are left, and the
\* budget allows it; a budget that is off has no cost.
MayRetry(c, o, d) ==
    /\ attempt[c] < Limit(c)
    /\ Clock(c) <= due[c]
    /\ RetryableOutcome(policy(c), o)
    /\ d > 0 => Clock(c) + d <= due[c]
    /\ budget(c).cost <= balance[Node(c)]

Retry(c, d) ==
    /\ balance' = Charged(c)
    /\ IF d > 0
       THEN /\ waitLeft' = [waitLeft EXCEPT ![c] = d]
            /\ Goto(c, "wait")
            /\ UNCHANGED attempt
       ELSE /\ attempt' = [attempt EXCEPT ![c] = @ + 1]
            /\ Goto(c, "ready")
            /\ UNCHANGED waitLeft
    /\ UNCHANGED outcome

\* The attempt ends and the call is retried or over.
Reply(c) ==
    /\ pc[c] = "inflight"
    /\ \E o \in Outcomes(c) : \E d \in retryDelay(policy(c), attempt[c], o) :
           IF MayRetry(c, o, d) THEN Retry(c, d) ELSE Finish(c, o)
    /\ UNCHANGED <<chain, now, asked, due, gone>>

WaitOver(c) ==
    /\ pc[c] = "wait"
    /\ waitLeft[c] = 0
    /\ attempt' = [attempt EXCEPT ![c] = @ + 1]
    /\ Goto(c, "ready")
    /\ UNCHANGED <<chain, now, balance, asked, due, outcome, waitLeft, gone>>

\* The context is over first, or as well.
WaitCut(c) ==
    /\ pc[c] = "wait"
    /\ \E e \in ContextErrors(c) : End(c, Error(e))
    /\ balance' = Credited(c, budget(c).cost)
    /\ waitLeft' = [waitLeft EXCEPT ![c] = 0]
    /\ UNCHANGED <<chain, now, asked, due, attempt, gone>>

-----------------------------------------------------------------------------
(* The world around the nodes *)

\* The last server answers, in its own time or never.
Serve(c) ==
    /\ pc[c] = "wire"
    /\ AtLast(c)
    /\ \E o \in Answers : End(c, o)
    /\ UNCHANGED <<chain, now, balance, asked, due, attempt, waitLeft, gone>>

\* A server sees that the attempt that sent its request is over; the client of
\* the first one may go at any time.
Abandoned(c) == c # Root => pc[Caller(c)] # "inflight" \/ Sent(Caller(c)) # c

Disconnect(c) ==
    /\ pc[c] \in {"ready", "inflight", "wait"}
    /\ Abandoned(c)
    /\ c \notin gone
    /\ gone' = gone \cup {c}
    /\ UNCHANGED <<chain, now, balance, pc, asked, due, attempt, outcome, waitLeft>>

\* Somebody reads the clock again: a call with a deadline is not over.
Watched == \E c \in Calls : pc[c] \notin {"unsent", "done"} /\ Least(asked[c].deadline, due[c]) < Never

Tick ==
    /\ now' = IF Watched THEN Least(now + 1, MaxTime) ELSE now
    /\ waitLeft' = [c \in Calls |-> IF waitLeft[c] > 0 THEN waitLeft[c] - 1 ELSE 0]
    /\ <<now, waitLeft>>' # <<now, waitLeft>>
    /\ UNCHANGED <<chain, balance, pc, asked, due, attempt, outcome, gone>>

-----------------------------------------------------------------------------
\* What the goroutine of a call does by itself.
Run(c) == NoTime(c) \/ Send(c) \/ WaitOver(c) \/ WaitCut(c)

Next ==
    \/ Tick
    \/ \E c \in Calls : Accept(c) \/ Run(c) \/ Reply(c) \/ Serve(c) \/ Disconnect(c)

Spec == Init /\ [][Next]_vars

\* Time passes, goroutines run, and a timer that ends an attempt fires. Nothing makes a
\* request arrive, a server answer or a connection be seen to break.
Fairness ==
    /\ WF_vars(Tick)
    /\ \A c \in Handled : WF_vars(Run(c)) /\ WF_vars(Reply(c))

FairSpec == Spec /\ Fairness

-----------------------------------------------------------------------------
(* Properties *)

Steps == {"unsent", "wire", "ready", "inflight", "wait", "done"}

\* Types of the chain's state; no balance leaves its bounds
\* (retry_governance.go:25-41, transport.go:57-245).
TypeOK ==
    /\ chain \in {s.nodes : s \in Starts}
    /\ now \in 0 .. MaxTime
    /\ \A n \in Nodes : balance[n] \in 0 .. chain[n].budget.capacity
    /\ pc \in [Calls -> Steps]
    /\ asked \in [Calls -> [noMore : BOOLEAN, deadline : Int]]
    /\ due \in [Calls -> Int]
    /\ attempt \in [Calls -> 0 .. MostRetries]
    /\ waitLeft \in [Calls -> Nat]
    /\ gone \subseteq Calls

WasSent(c) == pc[c] # "unsent"

\* The requests the last server gets for the sake of c.
Load(c) == {d \in Calls : WasSent(d) /\ AtLast(d) /\ c \in Above(d) \cup {d}}

\* How many the policies of the nodes from n on allow: every attempt but the
\* last may be multiplied again, the last forbids it.
Worst ==
    LET worst[n \in 1 .. Hops + 1] ==
            IF n = Hops + 1 THEN 1
            ELSE IF chain[n].skip THEN worst[n + 1]
            ELSE chain[n].policy.retries * worst[n + 1] + 1
    IN  worst

\* Retries of the nodes do not multiply freely along the chain: the last
\* attempt of each call, and every call under the constraint, reaches the last
\* server once, whatever runs out of time, is abandoned or arrives late
\* (transport.go:130-148, 490; retry-semantics.md section 7.1).
AmplificationBounded ==
    \A c \in Calls : WasSent(c) =>
        Cardinality(Load(c)) <= IF asked[c].noMore THEN 1 ELSE Worst[Node(c)]

\* The requests the last server may get when every node pays for its retries.
Paid ==
    LET successes(n) == {c \in Calls : /\ Node(c) = n /\ pc[c] = "done"
                                       /\ IsSuccess(outcome[c])}
        retries[n \in 0 .. Hops] ==
            IF n = 0 THEN 0
            ELSE LET b == chain[n].budget
                 IN  retries[n - 1] + (b.capacity + b.increment * Cardinality(successes(n))) \div b.cost
    IN  1 + retries[Hops]

\* With a budget at every node the load is bounded by what the budgets hold and
\* earn, however large MaxRetries is: the abandoned calls and the retries that
\* replace them draw on the same balances (transport.go:183-196; the bound of
\* retry_budget_chain_test.go:14-24, which tries one order of events).
BudgetBoundsLoad ==
    (\A n \in Nodes : chain[n].budget.cost > 0) => Cardinality(Load(Root)) <= Paid

\* A request that forbids retries is neither retried at its node nor anywhere
\* below it, through skipped calls and through handlers that copy headers: the
\* constraint reaches every request made for its sake
\* (retry_governance.go:26-28, transport.go:130, 260; retry-semantics.md 7.1).
ConstraintInherited ==
    \A d \in Calls : WasSent(d) =>
        \A c \in Above(d) : asked[c].noMore =>
            /\ asked[d].noMore
            /\ \A i \in Len(c) + 1 .. Len(d) : d[i] = 0

\* A hop may shorten the deadline of the chain and never extends or drops it,
\* whatever the clocks say (retry_governance.go:30-40, transport.go:122-129,
\* 250-264, 491-493; retry-semantics.md section 7.2).
DeadlineNarrows ==
    \A d \in Calls : WasSent(d) =>
        \A c \in Above(d) : asked[d].deadline <= asked[c].deadline

\* Once a node's clock has passed the deadline of any request above it, it puts
\* nothing more on the wire for that request: no retry, no delayed call of an
\* abandoned handler (transport.go:467-476, retry_governance.go:37-40).
NothingSentLate ==
    [][\A d \in Calls : ~WasSent(d) /\ WasSent(d)' =>
          \A c \in Above(d) : Clock(Caller(d)) < asked[c].deadline]_vars

\* Every handler that starts ends, also one whose client is gone and whatever
\* the nodes below do: the chain leaves no work behind. The exception is a
\* skipped call without a deadline, which has no timeout either
\* (transport.go:247-256, 467-482, 540-552).
EveryCallEnds ==
    \A c \in Handled :
        pc[c] = "ready" /\ (skip(c) => due[c] < Never) ~> pc[c] = "done"
=============================================================================
