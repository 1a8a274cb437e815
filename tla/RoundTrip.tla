------------------------------ MODULE RoundTrip ------------------------------
(***************************************************************************)
(* Transport.RoundTrip (src/transport.go): the attempts of concurrent      *)
(* calls, the backoff between them, the deadline of a call, cancellation   *)
(* by its caller, the bodies and contexts it must release, and the retry   *)
(* budget the calls share.  The budget is TokenBucket, atomic; that        *)
(* retry_budget.go implements it is shown in RetryBudgetProofs.            *)
(*                                                                         *)
(* Time is what is left of each timer: a Tick takes one unit from every    *)
(* running one, 0 is its expiry and -1 any time after it.  A Tick may come *)
(* between any two steps, so no step is fast.                              *)
(***************************************************************************)
EXTENDS BudgetParameters, RetryPolicy, Sequences

CONSTANTS
    Generations,    \* what a resolved configuration may be
    Calls,          \* what a caller may ask
    Replies         \* what the wrapped RoundTripper may answer by itself

\* A generation: the policy, whether a provider resolved it (which normalizes
\* it), and the parameters of the budget.
\* A call: [skip, noMore, body, replayable : BOOLEAN, header, context : Int],
\* the last two what is left until its X-Request-Deadline and its context's.
ASSUME RoundTripAssumption ==
    /\ Generations \subseteq
           [provider : BOOLEAN, budget : Configs,
            policy : [retries : Int, timeout : Int, elapsed : Int, initial : Int,
                      maxBackoff : Int, statuses : SUBSET SUBSET Int, on429 : BOOLEAN]]
    /\ \A g \in Generations : g.policy.timeout <= Never /\ g.policy.maxBackoff <= Never
    /\ DefaultTimeout <= Never /\ DefaultMaxBackoff <= Never
    /\ Calls \subseteq [skip : BOOLEAN, noMore : BOOLEAN, body : BOOLEAN,
                        replayable : BOOLEAN, header : Int, context : Int]
    /\ \A c \in Calls : c.header \in -1 .. Never /\ c.context \in -1 .. Never
    /\ \A o \in Replies : o.retryAfter \subseteq 0 .. Never

VARIABLES
    entries, balance, reservation, stage, suppressed,   \* see TokenBucket
    opened, spent, earned,
    generation,     \* the configuration installed
    pc,             \* where a call is in RoundTrip
    call,           \* what it was asked
    plan,           \* the generation it resolved: policy and budgetConfig
    limit,          \* maxRetries
    attempt,        \* the number of the attempt, from 0
    last,           \* lastResp and lastErr
    final,          \* finalResp and finalErr
    left,           \* until the overall deadline
    attemptLeft,    \* until the deadline of the attempt in flight
    delay,          \* the backoff chosen before the next retry
    waitLeft,       \* until the backoff timer fires
    canceled,       \* calls whose caller cancelled the context
    reqBody,        \* request bodies not closed, by attempt
    respBody,       \* response bodies not closed, by attempt
    attemptCtx,     \* attempt contexts not cancelled
    overallCtx,     \* calls whose own context, if any, is not cancelled
    sent,           \* the attempts handed to the wrapped RoundTripper
    totalAttempts,  \* the attempts RoundTrip counts
    retryEvents,    \* ObserveRetry calls
    result          \* the events of ObserveRequestResult

budgetVars == <<entries, balance, reservation, stage, suppressed, opened, spent, earned>>
timers == <<left, attemptLeft, waitLeft>>
held == <<reqBody, respBody, attemptCtx, overallCtx>>
seenOutside == <<sent, totalAttempts, retryEvents, result>>
fixed == <<generation, call, plan, limit>>
vars == <<budgetVars, fixed, pc, attempt, last, final, delay, timers, canceled, held, seenOutside>>

Budget == INSTANCE TokenBucket

policy(r) == plan[r].policy
budgetConfig(r) == plan[r].budget
HasOverallDeadline(r) == left[r] < Never

\* Before a call begins its fields hold these values.
NoCall == [skip |-> FALSE, noMore |-> FALSE, body |-> FALSE, replayable |-> TRUE,
           header |-> Never, context |-> Never]

Init ==
    /\ Budget!Init
    /\ generation \in Generations
    /\ pc = [r \in Requests |-> "idle"]
    /\ call = [r \in Requests |-> NoCall]
    /\ plan = [r \in Requests |-> generation]
    /\ limit = [r \in Requests |-> 0]
    /\ attempt = [r \in Requests |-> 0]
    /\ last = [r \in Requests |-> Nothing]
    /\ final = [r \in Requests |-> Nothing]
    /\ left = [r \in Requests |-> Never]
    /\ attemptLeft = [r \in Requests |-> Never]
    /\ delay = [r \in Requests |-> 0]
    /\ waitLeft = [r \in Requests |-> Never]
    /\ canceled = {}
    /\ reqBody = [r \in Requests |-> {}]
    /\ respBody = [r \in Requests |-> {}]
    /\ attemptCtx = [r \in Requests |-> {}]
    /\ overallCtx = {}
    /\ sent = [r \in Requests |-> <<>>]
    /\ totalAttempts = [r \in Requests |-> 0]
    /\ retryEvents = [r \in Requests |-> 0]
    /\ result = [r \in Requests |-> <<>>]

Goto(r, label) == pc' = [pc EXCEPT ![r] = label]
Set(f, r, v) == [f EXCEPT ![r] = v]

\* The errors a context that is over reports; both when both are true.
ContextErrors(r, remaining) ==
    {e \in {"canceled", "deadline"} :
        IF e = "canceled" THEN r \in canceled ELSE remaining <= 0}

-----------------------------------------------------------------------------
(* The world around a call *)

Reconfigure ==
    /\ generation' \in Generations \ {generation}
    /\ UNCHANGED <<budgetVars, call, plan, limit, pc, attempt, last, final, delay, timers,
                   canceled, held, seenOutside>>

\* The caller gives up; a skipped call only passes this on.
Cancel(r) ==
    /\ pc[r] \notin {"returned", "closed"}
    /\ r \notin canceled
    /\ canceled' = canceled \cup {r}
    /\ UNCHANGED <<budgetVars, fixed, pc, attempt, last, final, delay, timers, held, seenOutside>>

Ticked(d) == IF d = Never \/ d = -1 THEN d ELSE d - 1

Tick ==
    /\ left' = [r \in Requests |-> Ticked(left[r])]
    /\ attemptLeft' = [r \in Requests |-> Ticked(attemptLeft[r])]
    /\ waitLeft' = [r \in Requests |-> Ticked(waitLeft[r])]
    /\ timers' # timers
    /\ UNCHANGED <<budgetVars, fixed, pc, attempt, last, final, delay, canceled, held, seenOutside>>

-----------------------------------------------------------------------------
(* Before the loop *)

\* Mutant: the body is not looked at.
RetryLimitAnyBody(c, p) == IF c.noMore THEN 0 ELSE p.retries

\* maxRetries: none under a retry constraint of the chain, none for a body that
\* cannot be sent again.
RetryLimit(c, p) ==
    IF c.noMore \/ (p.retries > 0 /\ c.body /\ ~c.replayable) THEN 0 ELSE p.retries

\* The configuration is resolved once; only a provider's policy is normalized.
Resolved(g) ==
    IF g.provider THEN [g EXCEPT !.policy = normalizeRetryPolicy(@)] ELSE g

Begin(r) ==
    /\ pc[r] = "idle"
    /\ \E c \in Calls :
         /\ ~c.skip
         /\ call' = Set(call, r, c)
         /\ plan' = Set(plan, r, Resolved(generation))
         /\ limit' = Set(limit, r, RetryLimit(c, policy(r)'))
         /\ left' = Set(left, r, resolveOverallDeadline(c.header, c.context, policy(r)'))
         /\ overallCtx' = IF HasOverallDeadline(r)' THEN overallCtx \cup {r} ELSE overallCtx
         /\ reqBody' = Set(reqBody, r, IF c.body THEN {0} ELSE {})
    /\ Goto(r, IF limit'[r] >= 0 THEN "prepare" ELSE "finish")
    /\ UNCHANGED <<budgetVars, generation, attempt, last, final, delay, attemptLeft, waitLeft,
                   canceled, respBody, attemptCtx, seenOutside>>

\* A skipped call makes one attempt: no policy, no budget, no result event, but
\* the constraints of the chain are passed on.
BeginSkipped(r) ==
    /\ pc[r] = "idle"
    /\ \E c \in Calls :
         /\ c.skip
         /\ call' = Set(call, r, c)
         /\ left' = Set(left, r, Least(c.header, c.context))
         /\ reqBody' = Set(reqBody, r, IF c.body THEN {0} ELSE {})
         /\ sent' = Set(sent, r, <<[noMore |-> c.noMore, reason |-> "none",
                                    outcome |-> Nothing]>>)
    /\ overallCtx' = overallCtx \cup {r}
    /\ attemptLeft' = Set(attemptLeft, r, left'[r])
    /\ Goto(r, "skipped")
    /\ UNCHANGED <<budgetVars, generation, plan, limit, attempt, last, final, delay, waitLeft,
                   canceled, respBody, attemptCtx, totalAttempts, retryEvents, result>>

-----------------------------------------------------------------------------
(* An attempt *)

\* Mutant: the reservation is committed when it is made.
CommitPending(r) ==
    IF stage[r] = "granted" THEN Budget!Commit(r) ELSE UNCHANGED budgetVars

\* Mutant: the reservation is forgotten.
ForgetPending(r) == UNCHANGED budgetVars

\* A reservation whose retry cannot start goes back.
RefundPending(r) ==
    IF stage[r] = "granted" THEN Budget!Refund(r) ELSE UNCHANGED budgetVars

\* GetBody hands out the body of a retry.
NeedsBody(r) == attempt[r] > 0 /\ call[r].body

\* Mutant: the error is not kept.
PrepareFailsSilently(r, err) ==
    /\ RefundPending(r)
    /\ Goto(r, "finish")
    /\ UNCHANGED <<fixed, attempt, last, final, delay, timers, canceled, respBody,
                   attemptCtx, overallCtx, seenOutside>>

\* Mutant: the attempt is counted before it is prepared.
PrepareFailsCounted(r, err) ==
    /\ final' = Set(final, r, Error(err))
    /\ totalAttempts' = Set(totalAttempts, r, attempt[r] + 1)
    /\ RefundPending(r)
    /\ Goto(r, "finish")
    /\ UNCHANGED <<fixed, attempt, last, delay, timers, canceled, respBody, attemptCtx,
                   overallCtx, sent, retryEvents, result>>

PrepareFails(r, err) ==
    /\ final' = Set(final, r, Error(err))
    /\ RefundPending(r)
    /\ Goto(r, "finish")
    /\ UNCHANGED <<fixed, attempt, last, delay, timers, canceled, respBody, attemptCtx,
                   overallCtx, seenOutside>>

\* GetBody fails.
NoBody(r) ==
    /\ pc[r] = "prepare"
    /\ NeedsBody(r)
    /\ PrepareFails(r, "body")
    /\ UNCHANGED reqBody

\* Mutant: nobody closes the caller's body.
BodiesUntouched(r) == reqBody[r]

\* No time is left: the body of a first attempt is closed, the one GetBody has
\* just handed out for a retry is dropped.
BodiesWithoutTime(r) ==
    IF attempt[r] = 0 THEN {}
    ELSE IF NeedsBody(r) THEN reqBody[r] \cup {attempt[r]} ELSE reqBody[r]

NoTime(r) ==
    /\ pc[r] = "prepare"
    /\ HasOverallDeadline(r) /\ left[r] <= 0
    /\ PrepareFails(r, "deadline")
    /\ reqBody' = Set(reqBody, r, BodiesWithoutTime(r))

\* Mutant: no timeout by default.
AttemptTimeUnbounded(r) ==
    LET t == IF /\ HasOverallDeadline(r)
                /\ policy(r).timeout <= 0 \/ left[r] < policy(r).timeout
             THEN left[r] ELSE policy(r).timeout
    IN  IF t <= 0 THEN Never ELSE t

\* The attempt's time: the policy's, or less when less is left of the call.
AttemptTime(r) ==
    LET t == IF /\ HasOverallDeadline(r)
                /\ policy(r).timeout <= 0 \/ left[r] < policy(r).timeout
             THEN left[r] ELSE policy(r).timeout
    IN  IF t <= 0 THEN DefaultTimeout ELSE t

\* The attempt is counted, its reservation committed, and it goes out with its
\* headers.
Send(r) ==
    /\ pc[r] = "prepare"
    /\ left[r] > 0
    /\ attemptLeft' = Set(attemptLeft, r, AttemptTime(r))
    /\ attemptCtx' = [attemptCtx EXCEPT ![r] = @ \cup {attempt[r]}]
    /\ reqBody' = [reqBody EXCEPT ![r] = IF NeedsBody(r) THEN @ \cup {attempt[r]} ELSE @]
    /\ sent' = [sent EXCEPT ![r] = Append(@,
           [noMore  |-> attempt[r] = limit[r] \/ call[r].noMore,
            reason  |-> IF attempt[r] > 0 THEN retryReason(last[r]) ELSE "none",
            outcome |-> Nothing])]
    /\ totalAttempts' = Set(totalAttempts, r, attempt[r] + 1)
    /\ IF stage[r] = "granted" THEN Budget!Commit(r) ELSE UNCHANGED budgetVars
    /\ Goto(r, "inflight")
    /\ UNCHANGED <<fixed, attempt, last, final, delay, left, waitLeft, canceled, respBody,
                   overallCtx, retryEvents, result>>

AttemptOver(r) == r \in canceled \/ attemptLeft[r] <= 0

\* What the wrapped RoundTripper returns: an answer at any time, the context's
\* error once that is over. It has closed the request's body.
Outcomes(r) == Replies \cup {Error(e) : e \in ContextErrors(r, attemptLeft[r])}

\* A response keeps its body, and with it its context, until it is closed; an
\* error ends the context at once.
Reply(r) ==
    /\ pc[r] = "inflight"
    /\ \E o \in Outcomes(r) :
         /\ final' = Set(final, r, o)
         /\ sent' = [sent EXCEPT ![r][attempt[r] + 1].outcome = o]
         /\ respBody' = [respBody EXCEPT ![r] = IF HasResponse(o) THEN @ \cup {attempt[r]} ELSE @]
         /\ attemptCtx' = [attemptCtx EXCEPT ![r] = IF HasResponse(o) THEN @ ELSE @ \ {attempt[r]}]
    /\ reqBody' = [reqBody EXCEPT ![r] = @ \ {attempt[r]}]
    /\ attemptLeft' = Set(attemptLeft, r, Never)
    /\ Goto(r, "decide")
    /\ UNCHANGED <<budgetVars, fixed, attempt, last, delay, left, waitLeft, canceled,
                   overallCtx, totalAttempts, retryEvents, result>>

SkippedReply(r) ==
    /\ pc[r] = "skipped"
    /\ \E o \in Outcomes(r) :
         /\ final' = Set(final, r, o)
         /\ sent' = [sent EXCEPT ![r][1].outcome = o]
         /\ respBody' = Set(respBody, r, IF HasResponse(o) THEN {0} ELSE {})
         /\ overallCtx' = IF HasResponse(o) THEN overallCtx ELSE overallCtx \ {r}
    /\ reqBody' = Set(reqBody, r, {})
    /\ attemptLeft' = Set(attemptLeft, r, Never)
    /\ left' = Set(left, r, Never)
    /\ Goto(r, "returned")
    /\ UNCHANGED <<budgetVars, fixed, attempt, last, delay, waitLeft, canceled, attemptCtx,
                   totalAttempts, retryEvents, result>>

-----------------------------------------------------------------------------
(* Between attempts *)

shouldRetry(r) ==
    /\ attempt[r] < limit[r]
    /\ left[r] >= 0
    /\ ~call[r].noMore
    /\ RetryableOutcome(policy(r), final[r])

\* The retry is wanted, and its wait ends within the deadline; a retry without
\* a wait is not compared with it.
Decide(r) ==
    /\ pc[r] = "decide"
    /\ \/ /\ ~shouldRetry(r)
          /\ Goto(r, "finish")
          /\ UNCHANGED delay
       \/ /\ shouldRetry(r)
          /\ \E d \in retryDelay(policy(r), attempt[r], final[r]) :
               IF HasOverallDeadline(r) /\ d > 0 /\ d > left[r]
               THEN Goto(r, "finish") /\ UNCHANGED delay
               ELSE Goto(r, "reserve") /\ delay' = Set(delay, r, d)
    /\ UNCHANGED <<budgetVars, fixed, attempt, last, final, timers, canceled, held,
                   seenOutside>>

\* The budget is asked; refused, the call keeps the outcome it has.
Reserve(r) ==
    /\ pc[r] = "reserve"
    /\ LET c == budgetConfig(r)
       IN  \/ Budget!Open(r, c) \/ Budget!Trim(r, c) \/ Budget!Bypass(r, c)
           \/ Budget!Grant(r, c) \/ Budget!Deny(r, c)
    /\ Goto(r, CASE stage'[r] = "open"    -> "reserve"
                 [] stage'[r] = "granted" -> "discard"
                 [] stage'[r] = "final"   -> "finish")
    /\ UNCHANGED <<fixed, attempt, last, final, delay, timers, canceled, held, seenOutside>>

\* The observer hears of the retry, the response is drained and closed, and the
\* wait starts; a retry without a wait starts whatever the context says.
Discard(r) ==
    /\ pc[r] = "discard"
    /\ retryEvents' = [retryEvents EXCEPT ![r] = @ + 1]
    /\ respBody' = [respBody EXCEPT ![r] = @ \ {attempt[r]}]
    /\ attemptCtx' = [attemptCtx EXCEPT ![r] = @ \ {attempt[r]}]
    /\ last' = Set(last, r, final[r])
    /\ final' = [final EXCEPT ![r] = IF HasResponse(@) THEN Nothing ELSE @]
    /\ IF delay[r] > 0
       THEN /\ waitLeft' = Set(waitLeft, r, delay[r])
            /\ Goto(r, "wait")
            /\ UNCHANGED attempt
       ELSE /\ attempt' = [attempt EXCEPT ![r] = @ + 1]
            /\ Goto(r, "prepare")
            /\ UNCHANGED waitLeft
    /\ UNCHANGED <<budgetVars, fixed, delay, left, attemptLeft, canceled, reqBody,
                   overallCtx, sent, totalAttempts, result>>

\* Mutant: the attempt is not counted.
WaitOverUncounted(r) ==
    /\ pc[r] = "wait"
    /\ waitLeft[r] <= 0
    /\ waitLeft' = Set(waitLeft, r, Never)
    /\ Goto(r, "prepare")
    /\ UNCHANGED <<budgetVars, fixed, attempt, last, final, delay, left, attemptLeft,
                   canceled, held, seenOutside>>

\* The backoff timer has fired.
WaitOver(r) ==
    /\ pc[r] = "wait"
    /\ waitLeft[r] <= 0
    /\ waitLeft' = Set(waitLeft, r, Never)
    /\ attempt' = [attempt EXCEPT ![r] = @ + 1]
    /\ Goto(r, "prepare")
    /\ UNCHANGED <<budgetVars, fixed, last, final, delay, left, attemptLeft, canceled,
                   held, seenOutside>>

\* The context is over first, or as well: the reservation goes back.
WaitCut(r) ==
    /\ pc[r] = "wait"
    /\ \E e \in ContextErrors(r, left[r]) : final' = Set(final, r, Error(e))
    /\ RefundPending(r)
    /\ waitLeft' = Set(waitLeft, r, Never)
    /\ Goto(r, "finish")
    /\ UNCHANGED <<fixed, attempt, last, delay, left, attemptLeft, canceled, held,
                   seenOutside>>

-----------------------------------------------------------------------------
(* After the loop *)

\* A response below 400 is a success and is recorded, once.
Finish(r) ==
    /\ pc[r] = "finish"
    /\ IF IsSuccess(final[r])
       THEN /\ IF stage[r] = "open" THEN Budget!Stop(r) ELSE UNCHANGED budgetVars
            /\ Goto(r, "success")
       ELSE /\ IF stage[r] \in {"open", "final"} THEN Budget!Close(r) ELSE UNCHANGED budgetVars
            /\ Goto(r, "report")
    /\ UNCHANGED <<fixed, attempt, last, final, delay, timers, canceled, held, seenOutside>>

RecordSuccess(r) ==
    /\ pc[r] = "success"
    /\ Budget!Credit(r, budgetConfig(r))
    /\ Goto(r, "report")
    /\ UNCHANGED <<fixed, attempt, last, final, delay, timers, canceled, held, seenOutside>>

\* RequestResultEvent.
Event(r) ==
    [attempts |-> totalAttempts[r], outcome |-> final[r], suppressed |-> r \in suppressed]

\* Mutants: the call's context never ends, or ends with the call.
OverallKept(r) == overallCtx
OverallEnded(r) == overallCtx \ {r}

\* A response takes the call's context with it; without one it ends.
OverallAfter(r) == IF HasResponse(final[r]) THEN overallCtx ELSE overallCtx \ {r}

\* The result is observed and returned. No timer matters to the call any more.
Return(r) ==
    /\ pc[r] = "report"
    /\ result' = [result EXCEPT ![r] = Append(@, Event(r))]
    /\ overallCtx' = OverallAfter(r)
    /\ left' = Set(left, r, Never)
    /\ Goto(r, "returned")
    /\ UNCHANGED <<budgetVars, fixed, attempt, last, final, delay, attemptLeft, waitLeft,
                   canceled, reqBody, respBody, attemptCtx, sent, totalAttempts, retryEvents>>

\* The caller reads the body of its response to the end and closes it: the
\* contexts wrapped around it end.
CallerCloses(r) ==
    /\ pc[r] = "returned"
    /\ HasResponse(final[r])
    /\ respBody' = [respBody EXCEPT ![r] = @ \ {attempt[r]}]
    /\ attemptCtx' = [attemptCtx EXCEPT ![r] = @ \ {attempt[r]}]
    /\ overallCtx' = overallCtx \ {r}
    /\ Goto(r, "closed")
    /\ UNCHANGED <<budgetVars, fixed, attempt, last, final, delay, timers, canceled,
                   reqBody, seenOutside>>

-----------------------------------------------------------------------------

\* What the goroutine of a call does by itself.
Run(r) ==
    \/ NoBody(r) \/ NoTime(r) \/ Send(r) \/ Decide(r) \/ Reserve(r) \/ Discard(r)
    \/ WaitOver(r) \/ WaitCut(r) \/ Finish(r) \/ RecordSuccess(r) \/ Return(r)

\* Every call has returned, and every response is closed.
Terminated ==
    /\ \A r \in Requests : \/ pc[r] = "closed"
                           \/ pc[r] = "returned" /\ ~HasResponse(final[r])
    /\ UNCHANGED vars

Next ==
    \/ Reconfigure \/ Tick \/ Terminated
    \/ \E r \in Requests :
         \/ Begin(r) \/ BeginSkipped(r) \/ Run(r) \/ Reply(r) \/ SkippedReply(r)
         \/ Cancel(r) \/ CallerCloses(r)

Spec == Init /\ [][Next]_vars

\* Time passes; a goroutine that can run does; the wrapped RoundTripper returns
\* once the context of its attempt is over, as http.Transport does. Nothing
\* makes it answer before that, or a caller cancel.
Fairness ==
    /\ WF_vars(Tick)
    /\ \A r \in Requests : WF_vars(Run(r)) /\ WF_vars(AttemptOver(r) /\ Reply(r))

FairSpec == Spec /\ Fairness

-----------------------------------------------------------------------------
(* Properties *)

Labels ==
    {"idle", "prepare", "inflight", "decide", "reserve", "discard", "wait", "finish",
     "success", "report", "skipped", "returned", "closed"}

\* Types of a call's state (transport.go:57-245).
TypeOK ==
    /\ Budget!TypeOK
    /\ generation \in Generations
    /\ pc \in [Requests -> Labels]
    /\ call \in [Requests -> Calls \cup {NoCall}]
    /\ limit \in [Requests -> Int]
    /\ attempt \in [Requests -> Nat]
    /\ totalAttempts \in [Requests -> Nat]
    /\ \A r \in Requests :
           /\ left[r] \in -1 .. Never
           /\ attemptLeft[r] \in -1 .. Never
           /\ waitLeft[r] \in -1 .. Never
           /\ reqBody[r] \cup respBody[r] \cup attemptCtx[r] \subseteq 0 .. attempt[r]
           /\ Len(sent[r]) <= attempt[r] + 1
           /\ Len(result[r]) <= 1
    /\ canceled \cup overallCtx \subseteq Requests

HasOverallCtx(r) ==
    \/ call[r].skip
    \/ resolveOverallDeadline(call[r].header, call[r].context, policy(r)) < Never
Governed(r) == pc[r] # "idle" /\ ~call[r].skip
Returned(r) == pc[r] \in {"returned", "closed"}

\* What a call adds to the load of the chain is bounded. It makes one attempt
\* and MaxRetries retries at most, and a single attempt when the chain forbids
\* retries or its body cannot be sent again (retry-semantics.md sections 3, 7.1).
\* Downstream is told never to retry on the last attempt and on every attempt
\* under the chain's constraint; and an attempt sent with X-No-More-Retry is
\* indeed the last (transport.go:130-148, 270-279, 490).
AmplificationBounded ==
    \A r \in Requests : LET n == Len(sent[r]) IN Governed(r) =>
        /\ n <= policy(r).retries + 1
        /\ call[r].noMore \/ (call[r].body /\ ~call[r].replayable) => n <= 1
        /\ n > policy(r).retries => sent[r][n].noMore
        /\ \A i \in 1 .. n :
               /\ call[r].noMore => sent[r][i].noMore
               /\ sent[r][i].noMore => i = n
               /\ i > 1 => /\ RetryableOutcome(policy(r), sent[r][i - 1].outcome)
                           /\ sent[r][i].reason = retryReason(sent[r][i - 1].outcome)

\* A caller gets a response it can read: its body is open and none of the
\* contexts it is read under has been cancelled by the package; and an error
\* comes with nothing to close (transport.go:163-167, 235-243).
ReturnedUsable ==
    \A r \in Requests : pc[r] = "returned" =>
        IF HasResponse(final[r])
        THEN /\ respBody[r] = {attempt[r]}
             /\ ~call[r].skip => attemptCtx[r] = {attempt[r]}
             /\ HasOverallCtx(r) => r \in overallCtx
        ELSE respBody[r] = {}

\* Nothing outlives its use: at most the response of the attempt at hand is
\* open, at most one attempt's context; and when a call is over all of them are
\* closed, and its reservation is settled (transport.go:149-167, 220-229,
\* 447-453, 627-652).
NothingHeld ==
    \A r \in Requests :
        /\ respBody[r] \subseteq {attempt[r]}
        /\ attemptCtx[r] \subseteq {attempt[r]}
        /\ pc[r] = "closed" \/ (pc[r] = "returned" /\ ~HasResponse(final[r])) =>
               /\ respBody[r] = {} /\ attemptCtx[r] = {}
               /\ r \notin overallCtx
               /\ reservation[r] = NoReservation

\* Every request body a call was given, or took from GetBody, is closed when it
\* returns (CHANGELOG.md:89).
RequestBodiesClosed ==
    \A r \in Requests : Returned(r) => reqBody[r] = {}

\* The request body of the caller, the one no later GetBody replaces, is closed
\* when the call returns, also when no attempt was made (transport.go:152-154).
CallersBodyClosed ==
    \A r \in Requests : Returned(r) => 0 \notin reqBody[r]

\* An attempt in flight is given no more time than its call has left; that the
\* attempt's context also derives from the call's would bound it a second time
\* (transport.go:467-482).
AttemptWithinDeadline ==
    \A r \in Requests : pc[r] = "inflight" => attemptLeft[r] <= left[r]

\* The caller gets the last outcome there was. A call whose scheduled retries
\* all went out returns what its last attempt returned: a retry refused by the
\* budget, the deadline or the policy costs the caller nothing. Only a retry
\* that was scheduled and could not start leaves an error of its own.
\* (transport.go:149-158, 171-196, 224-229).
OutcomeKept ==
    \A r \in Requests : Governed(r) /\ Returned(r) /\ sent[r] # <<>> =>
        IF retryEvents[r] = Len(sent[r]) - 1
        THEN final[r] = sent[r][Len(sent[r])].outcome
        ELSE /\ retryEvents[r] = Len(sent[r])
             /\ final[r].err \in {"canceled", "deadline", "body"}

\* The result event tells what happened: the attempts on the wire, the outcome
\* the caller gets, and that the budget refused a retry, which it is asked for
\* only when the policy wants one and attempts are left. A call that ends on an
\* outcome its policy retries, with attempts left, was refused by the budget or
\* had a deadline (transport.go:171-196, 234, 561-591).
EventTrue ==
    \A r \in Requests : Governed(r) /\ Returned(r) =>
        /\ Len(result[r]) = 1
        /\ result[r][1].attempts = Len(sent[r])
        /\ result[r][1].outcome = final[r]
        /\ result[r][1].suppressed =>
               /\ Len(sent[r]) <= limit[r]
               /\ RetryableOutcome(policy(r), final[r])
               /\ Enabled(budgetConfig(r))
        /\ /\ sent[r] # <<>> /\ Len(sent[r]) <= limit[r]
           /\ retryEvents[r] = Len(sent[r]) - 1
           /\ RetryableOutcome(policy(r), final[r])
           => result[r][1].suppressed \/ HasOverallCtx(r)

\* The units of key k that the retries on the wire have cost.
PaidUnits(k) ==
    UNION {{r} \X (1 .. budgetConfig(r).cost * (Len(sent[r]) - 1)) :
           r \in {q \in Requests : KeyOf[q] = k /\ Governed(q)}}

\* Every retry on the wire has been paid for exactly once and a first attempt
\* never is; a retry that did not start has been paid back or is still held
\* (transport.go:150-161, 183, 225; retry-semantics.md section 6).
EveryRetryPaid ==
    \A k \in Keys : spent[k] = Cardinality(PaidUnits(k))

\* A call never ends with neither a response nor an error (transport.go:235-244).
EveryCallAnswered ==
    \A r \in Requests : Returned(r) => final[r] # Nothing

\* A call that has begun returns, whatever the downstream does: every attempt
\* and every wait has an end (transport.go:467-482, 540-552).
EveryCallReturns ==
    \A r \in Requests : pc[r] = "prepare" ~> Returned(r)
=============================================================================
