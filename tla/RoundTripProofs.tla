---------------------------- MODULE RoundTripProofs ----------------------------
(***************************************************************************)
(* What a call holds, and for how long; what it puts on the wire, returns  *)
(* and reports; and what it spends, for any number of calls, any           *)
(* configurations and any answers.                                         *)
(***************************************************************************)
EXTENDS RoundTrip, RetryPolicyProofs, SequenceTheorems, FiniteSetTheorems

Policies == [retries : Int, timeout : Int, elapsed : Int, initial : Int,
             maxBackoff : Int, statuses : SUBSET SUBSET Int, on429 : BOOLEAN]
Plans == [provider : BOOLEAN, budget : Configs, policy : Policies]
CallOf == [skip : BOOLEAN, noMore : BOOLEAN, body : BOOLEAN, replayable : BOOLEAN,
           header : Int, context : Int]
Outcome == Replies \cup {Nothing} \cup {Error(e) : e \in {"canceled", "deadline", "body"}}

BudgetTypes ==
    /\ stage \in [Requests -> {"open", "granted", "final", "closed"}]
    /\ reservation \in [Requests -> Reservation]
    /\ \A r \in Requests : stage[r] # "granted" => reservation[r] = NoReservation

CallTypes ==
    /\ generation \in Plans
    /\ pc \in [Requests -> Labels]
    /\ call \in [Requests -> CallOf]
    /\ plan \in [Requests -> Plans]
    /\ limit \in [Requests -> Int]
    /\ attempt \in [Requests -> Nat]
    /\ last \in [Requests -> Outcome]
    /\ final \in [Requests -> Outcome]

HeldTypes ==
    /\ reqBody \in [Requests -> SUBSET Nat]
    /\ respBody \in [Requests -> SUBSET Nat]
    /\ attemptCtx \in [Requests -> SUBSET Nat]
    /\ overallCtx \subseteq Requests

TimerTypes ==
    /\ left \in [Requests -> Int]
    /\ attemptLeft \in [Requests -> Int]

Typed == BudgetTypes /\ CallTypes /\ HeldTypes /\ TimerTypes

-----------------------------------------------------------------------------
(* The budget *)

\* An operation of the budget for one request leaves the others alone.
BudgetStep(r) ==
    /\ BudgetTypes'
    /\ \A q \in Requests \ {r} : stage'[q] = stage[q] /\ reservation'[q] = reservation[q]
    /\ suppressed' \subseteq suppressed \cup {r}
    /\ suppressed \subseteq suppressed'

LEMMA NoReservationFacts ==
    NoReservation \in Reservation /\ Budget!NoReservation = NoReservation
BY DEF NoReservation, Budget!NoReservation, Reservation

LEMMA KeptBudget ==
    ASSUME BudgetTypes, NEW r \in Requests, UNCHANGED budgetVars
    PROVE  BudgetStep(r) /\ stage'[r] = stage[r]
BY DEF BudgetTypes, BudgetStep, budgetVars

LEMMA SettleEffect ==
    ASSUME BudgetTypes, NEW r \in Requests,
           \/ IF stage[r] = "granted" THEN Budget!Commit(r) ELSE UNCHANGED budgetVars
           \/ RefundPending(r)
    PROVE  BudgetStep(r) /\ stage'[r] # "granted"
<1>1. CASE Budget!Commit(r)
  BY <1>1, NoReservationFacts DEF Budget!Commit, BudgetTypes, BudgetStep
<1>2. CASE Budget!Refund(r)
  BY <1>2, NoReservationFacts DEF Budget!Refund, BudgetTypes, BudgetStep
<1>3. CASE stage[r] # "granted" /\ UNCHANGED budgetVars
  BY <1>3, KeptBudget
<1> QED
  BY <1>1, <1>2, <1>3 DEF RefundPending

LEMMA EndEffect ==
    ASSUME BudgetTypes, NEW r \in Requests, NEW c \in Configs, stage[r] # "granted",
           Budget!Stop(r) \/ Budget!Close(r) \/ Budget!Credit(r, c) \/ UNCHANGED budgetVars
    PROVE  BudgetStep(r) /\ stage'[r] # "granted"
<1>1. CASE Budget!Stop(r)
  BY <1>1 DEF Budget!Stop, Budget!data, BudgetTypes, BudgetStep
<1>2. CASE Budget!Close(r)
  BY <1>2 DEF Budget!Close, Budget!data, BudgetTypes, BudgetStep
<1>3. CASE Budget!Credit(r, c)
  BY <1>3 DEF Budget!Credit, BudgetTypes, BudgetStep
<1>4. CASE UNCHANGED budgetVars
  BY <1>4, KeptBudget
<1> QED
  BY <1>1, <1>2, <1>3, <1>4

LEMMA ReserveEffect ==
    ASSUME BudgetTypes, NEW r \in Requests, NEW c \in Configs,
           \/ Budget!Open(r, c) \/ Budget!Trim(r, c) \/ Budget!Bypass(r, c)
           \/ Budget!Grant(r, c) \/ Budget!Deny(r, c)
    PROVE  BudgetStep(r) /\ stage'[r] \in {"open", "granted", "final"}
<1>1. CASE Budget!Open(r, c)
  BY <1>1 DEF Budget!Open, BudgetTypes, BudgetStep
<1>2. CASE Budget!Trim(r, c)
  BY <1>2 DEF Budget!Trim, BudgetTypes, BudgetStep
<1>3. CASE Budget!Bypass(r, c)
  BY <1>3 DEF Budget!Bypass, Budget!data, BudgetTypes, BudgetStep
<1>4. CASE Budget!Grant(r, c)
  <2>1. [cost |-> c.cost, capacity |-> c.capacity] \in Reservation
    BY ConfigsAssumption DEF BudgetConfig, Reservation
  <2> QED
    BY <1>4, <2>1 DEF Budget!Grant, BudgetTypes, BudgetStep
<1>5. CASE Budget!Deny(r, c)
  BY <1>5 DEF Budget!Deny, Budget!data, BudgetTypes, BudgetStep
<1> QED
  BY <1>1, <1>2, <1>3, <1>4, <1>5

-----------------------------------------------------------------------------
(* Types *)

LEMMA ResolvedType == ASSUME NEW g \in Plans PROVE Resolved(g) \in Plans
<1> DEFINE p == g.policy
<1>1. p \in Policies
  BY DEF Plans
<1>3. /\ OrDefault(p.timeout, DefaultTimeout) \in Int
      /\ OrDefault(p.initial, DefaultInitial) \in Int
      /\ OrDefault(p.maxBackoff, DefaultMaxBackoff) \in Int
      /\ (IF p.retries < 0 THEN 0 ELSE p.retries) \in Int
  <2>1. /\ p.timeout \in Int /\ p.initial \in Int /\ p.maxBackoff \in Int /\ p.retries \in Int
    BY <1>1 DEF Policies
  <2>2. DefaultTimeout \in Int /\ DefaultInitial \in Int /\ DefaultMaxBackoff \in Int
    BY DefaultsAssumption
  <2> HIDE DEF p
  <2> QED
    BY <2>1, <2>2 DEF OrDefault
<1>4. (IF p.statuses = {} THEN {defaultRetryStatusSet} ELSE p.statuses) \in SUBSET SUBSET Int
  BY <1>1 DEF Policies, defaultRetryStatusSet
<1>5. normalizeRetryPolicy(p) \in Policies
  BY <1>1, <1>3, <1>4 DEF normalizeRetryPolicy, Policies
<1> QED
  BY <1>5 DEF Resolved, Plans

LEMMA NeverType == Never \in Int
BY SMT DEF Never

LEMMA RetryLimitType ==
    ASSUME NEW c \in CallOf, NEW p \in Policies
    PROVE  RetryLimit(c, p) \in Int
BY DEF RetryLimit, CallOf, Policies

LEMMA ConfigType == ASSUME Typed, NEW r \in Requests PROVE budgetConfig(r) \in Configs
BY DEF budgetConfig, Typed, CallTypes, Plans

LEMMA AttemptTimeType == ASSUME Typed, NEW r \in Requests PROVE AttemptTime(r) \in Int
<1>1. left[r] \in Int /\ policy(r).timeout \in Int /\ DefaultTimeout \in Int
  BY DefaultsAssumption DEF Typed, CallTypes, TimerTypes, Plans, Policies, policy
<1> QED
  BY <1>1 DEF AttemptTime

LEMMA OutcomeTypes ==
    /\ Nothing \in Outcome
    /\ Error("canceled") \in Outcome
    /\ Error("deadline") \in Outcome
    /\ Error("body") \in Outcome
    /\ \A r : Outcomes(r) \subseteq Outcome
BY DEF Outcome, Outcomes, ContextErrors

\* What is the same of a call when another one steps; its timers apart.
Same(q) ==
    /\ pc'[q] = pc[q] /\ call'[q] = call[q] /\ plan'[q] = plan[q] /\ limit'[q] = limit[q]
    /\ attempt'[q] = attempt[q] /\ last'[q] = last[q] /\ final'[q] = final[q]
    /\ reqBody'[q] = reqBody[q] /\ respBody'[q] = respBody[q]
    /\ attemptCtx'[q] = attemptCtx[q]
    /\ q \in overallCtx' <=> q \in overallCtx
    /\ sent'[q] = sent[q] /\ totalAttempts'[q] = totalAttempts[q]
    /\ retryEvents'[q] = retryEvents[q] /\ result'[q] = result[q]
    /\ stage'[q] = stage[q] /\ reservation'[q] = reservation[q]
    /\ q \in suppressed' <=> q \in suppressed

Others(r) == \A q \in Requests \ {r} : Same(q)

CallStep(r) == Begin(r) \/ BeginSkipped(r) \/ Run(r) \/ Reply(r) \/ SkippedReply(r)
                   \/ Cancel(r) \/ CallerCloses(r)

\* A step of r changes r alone and keeps the types.
Local(r) == BudgetTypes' /\ CallTypes' /\ HeldTypes' /\ TimerTypes' /\ Others(r)

LEMMA BeginLocal ==
    ASSUME Typed, NEW r \in Requests, Begin(r)
    PROVE  Local(r)
<1>1. PICK c \in Calls :
          /\ call' = Set(call, r, c)
          /\ plan' = Set(plan, r, Resolved(generation))
          /\ limit' = Set(limit, r, RetryLimit(c, policy(r)'))
          /\ overallCtx' = IF HasOverallDeadline(r)' THEN overallCtx \cup {r} ELSE overallCtx
          /\ reqBody' = Set(reqBody, r, IF c.body THEN {0} ELSE {})
  BY DEF Begin
<1>2. c \in CallOf /\ Resolved(generation) \in Plans
  BY ResolvedType, RoundTripAssumption DEF Typed, CallTypes, CallOf
<1>3. RetryLimit(c, policy(r)') \in Int
  <2>1. policy(r)' = Resolved(generation).policy
    BY <1>1 DEF Set, policy, Typed, CallTypes
  <2> QED
    BY <1>2, <2>1, RetryLimitType DEF Plans
<1>4. BudgetStep(r)
  BY KeptBudget DEF Begin, Typed
<1>5. /\ pc' \in [Requests -> Labels]
      /\ \A q \in Requests \ {r} : pc'[q] = pc[q]
  BY DEF Begin, Goto, Labels, Typed, CallTypes
<1>6. CallTypes'
  BY <1>1, <1>2, <1>3, <1>5 DEF Begin, Set, Typed, CallTypes
<1>7. HeldTypes'
  BY <1>1 DEF Begin, Set, Typed, HeldTypes
<1>8. Others(r)
  BY <1>1, <1>4, <1>5
     DEF Begin, Set, Typed, CallTypes, HeldTypes, BudgetStep, Others, Same, seenOutside,
         budgetVars
<1>9. TimerTypes'
  <2>1. left' = Set(left, r, resolveOverallDeadline(call'[r].header, call'[r].context, policy(r)'))
    BY <1>1 DEF Begin, Set, Typed, CallTypes
  <2>2. call'[r] \in CallOf /\ policy(r)' \in Policies
    BY <1>6 DEF CallTypes, policy, Plans
  <2>3. \A asks \in CallOf, p \in Policies :
            resolveOverallDeadline(asks.header, asks.context, p) \in Int
    BY NeverType DEF resolveOverallDeadline, Least, CallOf, Policies
  <2> QED
    BY <2>1, <2>2, <2>3 DEF Begin, Set, Typed, TimerTypes
<1> QED
  BY <1>4, <1>6, <1>7, <1>8, <1>9 DEF Local, BudgetStep

LEMMA BeginSkippedLocal ==
    ASSUME Typed, NEW r \in Requests, BeginSkipped(r)
    PROVE  Local(r)
<1>1. BudgetStep(r)
  BY KeptBudget DEF BeginSkipped, Typed
<1>2. CallTypes'
  BY RoundTripAssumption DEF BeginSkipped, Goto, Set, Typed, CallTypes, CallOf, Labels, fixed
<1>3. HeldTypes'
  BY DEF BeginSkipped, Set, Typed, CallTypes, HeldTypes, held
<1>4. Others(r)
  BY <1>1 DEF BeginSkipped, Goto, Set, Typed, CallTypes, HeldTypes, BudgetStep, Others, Same,
              fixed, held, seenOutside
<1>5. TimerTypes'
  <2>1. PICK c \in CallOf : left' = Set(left, r, Least(c.header, c.context))
    BY RoundTripAssumption DEF BeginSkipped, CallOf
  <2>2. Least(c.header, c.context) \in Int
    BY DEF Least, CallOf
  <2> QED
    BY <2>1, <2>2 DEF BeginSkipped, Set, Typed, TimerTypes
<1> QED
  BY <1>1, <1>2, <1>3, <1>4, <1>5 DEF Local, BudgetStep

LEMMA NoBodyLocal ==
    ASSUME Typed, NEW r \in Requests, NoBody(r)
    PROVE  Local(r)
<1>1. BudgetStep(r)
  BY SettleEffect DEF NoBody, PrepareFails, Typed
<1>2. CallTypes'
  BY OutcomeTypes DEF NoBody, Goto, Set, Typed, CallTypes, Labels, fixed, PrepareFails
<1>3. HeldTypes'
  BY DEF NoBody, Set, Typed, CallTypes, HeldTypes, held, PrepareFails
<1>4. Others(r)
  BY <1>1 DEF NoBody, Goto, Set, Typed, CallTypes, HeldTypes, BudgetStep, Others, Same,
              fixed, held, seenOutside, PrepareFails
<1>5. TimerTypes'
  BY DEF NoBody, Set, Typed, TimerTypes, timers, PrepareFails
<1> QED
  BY <1>1, <1>2, <1>3, <1>4, <1>5 DEF Local, BudgetStep

LEMMA NoTimeLocal ==
    ASSUME Typed, NEW r \in Requests, NoTime(r)
    PROVE  Local(r)
<1>1. BudgetStep(r)
  BY SettleEffect DEF NoTime, PrepareFails, Typed
<1>2. CallTypes'
  BY OutcomeTypes DEF NoTime, Goto, Set, Typed, CallTypes, Labels, fixed, PrepareFails
<1>3. HeldTypes'
  BY DEF NoTime, Set, Typed, CallTypes, HeldTypes, held, PrepareFails, BodiesWithoutTime
<1>4. Others(r)
  BY <1>1 DEF NoTime, Goto, Set, Typed, CallTypes, HeldTypes, BudgetStep, Others, Same,
              fixed, held, seenOutside, PrepareFails
<1>5. TimerTypes'
  BY DEF NoTime, Set, Typed, TimerTypes, timers, PrepareFails
<1> QED
  BY <1>1, <1>2, <1>3, <1>4, <1>5 DEF Local, BudgetStep

LEMMA SendLocal ==
    ASSUME Typed, NEW r \in Requests, Send(r)
    PROVE  Local(r)
<1>1. BudgetStep(r)
  BY SettleEffect DEF Send, Typed
<1>2. CallTypes'
  BY OutcomeTypes DEF Send, Goto, Set, Typed, CallTypes, Labels, fixed
<1>3. HeldTypes'
  BY DEF Send, Set, Typed, CallTypes, HeldTypes, held
<1>4. Others(r)
  BY <1>1 DEF Send, Goto, Set, Typed, CallTypes, HeldTypes, BudgetStep, Others, Same,
              fixed, held, seenOutside
<1>5. TimerTypes'
  BY AttemptTimeType DEF Send, Set, Typed, TimerTypes, timers
<1> QED
  BY <1>1, <1>2, <1>3, <1>4, <1>5 DEF Local, BudgetStep

LEMMA ReplyLocal ==
    ASSUME Typed, NEW r \in Requests, Reply(r)
    PROVE  Local(r)
<1>1. BudgetStep(r)
  BY KeptBudget DEF Reply, Typed
<1>2. CallTypes'
  BY OutcomeTypes DEF Reply, Goto, Set, Typed, CallTypes, Labels, fixed
<1>3. HeldTypes'
  BY DEF Reply, Set, Typed, CallTypes, HeldTypes, held
<1>4. Others(r)
  BY <1>1 DEF Reply, Goto, Set, Typed, CallTypes, HeldTypes, BudgetStep, Others, Same,
              fixed, held, seenOutside
<1>5. TimerTypes'
  BY NeverType DEF Reply, Set, Typed, TimerTypes, timers
<1> QED
  BY <1>1, <1>2, <1>3, <1>4, <1>5 DEF Local, BudgetStep

LEMMA SkippedReplyLocal ==
    ASSUME Typed, NEW r \in Requests, SkippedReply(r)
    PROVE  Local(r)
<1>1. BudgetStep(r)
  BY KeptBudget DEF SkippedReply, Typed
<1>2. CallTypes'
  BY OutcomeTypes DEF SkippedReply, Goto, Set, Typed, CallTypes, Labels, fixed
<1>3. HeldTypes'
  BY DEF SkippedReply, Set, Typed, CallTypes, HeldTypes, held
<1>4. Others(r)
  BY <1>1 DEF SkippedReply, Goto, Set, Typed, CallTypes, HeldTypes, BudgetStep, Others, Same,
              fixed, held, seenOutside
<1>5. TimerTypes'
  BY NeverType DEF SkippedReply, Set, Typed, TimerTypes, timers
<1> QED
  BY <1>1, <1>2, <1>3, <1>4, <1>5 DEF Local, BudgetStep

LEMMA DecideLocal ==
    ASSUME Typed, NEW r \in Requests, Decide(r)
    PROVE  Local(r)
<1>1. BudgetStep(r)
  BY KeptBudget DEF Decide, Typed
<1>2. CallTypes'
  BY OutcomeTypes DEF Decide, Goto, Set, Typed, CallTypes, Labels, fixed
<1>3. HeldTypes'
  BY DEF Decide, Set, Typed, CallTypes, HeldTypes, held
<1>4. Others(r)
  BY <1>1 DEF Decide, Goto, Set, Typed, CallTypes, HeldTypes, BudgetStep, Others, Same,
              fixed, held, seenOutside
<1>5. TimerTypes'
  BY DEF Decide, Set, Typed, TimerTypes, timers
<1> QED
  BY <1>1, <1>2, <1>3, <1>4, <1>5 DEF Local, BudgetStep

LEMMA ReserveLocal ==
    ASSUME Typed, NEW r \in Requests, Reserve(r)
    PROVE  Local(r)
<1>1. BudgetStep(r)
  BY ConfigType, ReserveEffect DEF Reserve, Typed
<1>2. CallTypes'
  <2>1. stage'[r] \in {"open", "granted", "final"}
    BY ConfigType, ReserveEffect DEF Reserve, Typed
  <2> QED
    BY <2>1 DEF Reserve, Goto, Set, Typed, CallTypes, Labels, fixed
<1>3. HeldTypes'
  BY DEF Reserve, Set, Typed, CallTypes, HeldTypes, held
<1>4. Others(r)
  BY <1>1 DEF Reserve, Goto, Set, Typed, CallTypes, HeldTypes, BudgetStep, Others, Same,
              fixed, held, seenOutside
<1>5. TimerTypes'
  BY DEF Reserve, Set, Typed, TimerTypes, timers
<1> QED
  BY <1>1, <1>2, <1>3, <1>4, <1>5 DEF Local, BudgetStep

LEMMA DiscardLocal ==
    ASSUME Typed, NEW r \in Requests, Discard(r)
    PROVE  Local(r)
<1>1. BudgetStep(r)
  BY KeptBudget DEF Discard, Typed
<1>2. CallTypes'
  BY OutcomeTypes DEF Discard, Goto, Set, Typed, CallTypes, Labels, fixed
<1>3. HeldTypes'
  BY DEF Discard, Set, Typed, CallTypes, HeldTypes, held
<1>4. Others(r)
  BY <1>1 DEF Discard, Goto, Set, Typed, CallTypes, HeldTypes, BudgetStep, Others, Same,
              fixed, held, seenOutside
<1>5. TimerTypes'
  BY DEF Discard, Set, Typed, TimerTypes, timers
<1> QED
  BY <1>1, <1>2, <1>3, <1>4, <1>5 DEF Local, BudgetStep

LEMMA WaitOverLocal ==
    ASSUME Typed, NEW r \in Requests, WaitOver(r)
    PROVE  Local(r)
<1>1. BudgetStep(r)
  BY KeptBudget DEF WaitOver, Typed
<1>2. CallTypes'
  BY OutcomeTypes DEF WaitOver, Goto, Set, Typed, CallTypes, Labels, fixed
<1>3. HeldTypes'
  BY DEF WaitOver, Set, Typed, CallTypes, HeldTypes, held
<1>4. Others(r)
  BY <1>1 DEF WaitOver, Goto, Set, Typed, CallTypes, HeldTypes, BudgetStep, Others, Same,
              fixed, held, seenOutside
<1>5. TimerTypes'
  BY DEF WaitOver, Set, Typed, TimerTypes, timers
<1> QED
  BY <1>1, <1>2, <1>3, <1>4, <1>5 DEF Local, BudgetStep

LEMMA WaitCutLocal ==
    ASSUME Typed, NEW r \in Requests, WaitCut(r)
    PROVE  Local(r)
<1>1. BudgetStep(r)
  BY SettleEffect DEF WaitCut, Typed
<1>2. CallTypes'
  BY OutcomeTypes DEF WaitCut, ContextErrors, Goto, Set, Typed, CallTypes, Labels, fixed
<1>3. HeldTypes'
  BY DEF WaitCut, Set, Typed, CallTypes, HeldTypes, held
<1>4. Others(r)
  BY <1>1 DEF WaitCut, Goto, Set, Typed, CallTypes, HeldTypes, BudgetStep, Others, Same,
              fixed, held, seenOutside
<1>5. TimerTypes'
  BY DEF WaitCut, Set, Typed, TimerTypes, timers
<1> QED
  BY <1>1, <1>2, <1>3, <1>4, <1>5 DEF Local, BudgetStep

LEMMA FinishLocal ==
    ASSUME Typed, NEW r \in Requests, Finish(r)
    PROVE  Local(r)
<1>1. BudgetStep(r)
  BY ConfigType, KeptBudget, EndEffect DEF Finish, Typed
<1>2. CallTypes'
  BY OutcomeTypes DEF Finish, Goto, Set, Typed, CallTypes, Labels, fixed
<1>3. HeldTypes'
  BY DEF Finish, Set, Typed, CallTypes, HeldTypes, held
<1>4. Others(r)
  BY <1>1 DEF Finish, Goto, Set, Typed, CallTypes, HeldTypes, BudgetStep, Others, Same,
              fixed, held, seenOutside
<1>5. TimerTypes'
  BY DEF Finish, Set, Typed, TimerTypes, timers
<1> QED
  BY <1>1, <1>2, <1>3, <1>4, <1>5 DEF Local, BudgetStep

LEMMA RecordSuccessLocal ==
    ASSUME Typed, NEW r \in Requests, RecordSuccess(r)
    PROVE  Local(r)
<1>1. BudgetStep(r)
  <2>1. stage[r] # "granted"
    BY DEF RecordSuccess, Budget!Credit
  <2> QED
    BY <2>1, ConfigType, EndEffect DEF RecordSuccess, Typed
<1>2. CallTypes'
  BY OutcomeTypes DEF RecordSuccess, Goto, Set, Typed, CallTypes, Labels, fixed
<1>3. HeldTypes'
  BY DEF RecordSuccess, Set, Typed, CallTypes, HeldTypes, held
<1>4. Others(r)
  BY <1>1 DEF RecordSuccess, Goto, Set, Typed, CallTypes, HeldTypes, BudgetStep, Others, Same,
              fixed, held, seenOutside
<1>5. TimerTypes'
  BY DEF RecordSuccess, Set, Typed, TimerTypes, timers
<1> QED
  BY <1>1, <1>2, <1>3, <1>4, <1>5 DEF Local, BudgetStep

LEMMA ReturnLocal ==
    ASSUME Typed, NEW r \in Requests, Return(r)
    PROVE  Local(r)
<1>1. BudgetStep(r)
  BY KeptBudget DEF Return, Typed
<1>2. CallTypes'
  BY OutcomeTypes DEF Return, Goto, Set, Typed, CallTypes, Labels, fixed
<1>3. HeldTypes'
  BY DEF Return, Set, Typed, CallTypes, HeldTypes, held, OverallAfter
<1>4. Others(r)
  BY <1>1 DEF Return, Goto, Set, Typed, CallTypes, HeldTypes, BudgetStep, Others, Same,
              fixed, held, seenOutside, OverallAfter
<1>5. TimerTypes'
  BY NeverType DEF Return, Set, Typed, TimerTypes, timers
<1> QED
  BY <1>1, <1>2, <1>3, <1>4, <1>5 DEF Local, BudgetStep

LEMMA CallerClosesLocal ==
    ASSUME Typed, NEW r \in Requests, CallerCloses(r)
    PROVE  Local(r)
<1>1. BudgetStep(r)
  BY KeptBudget DEF CallerCloses, Typed
<1>2. CallTypes'
  BY OutcomeTypes DEF CallerCloses, Goto, Set, Typed, CallTypes, Labels, fixed
<1>3. HeldTypes'
  BY DEF CallerCloses, Set, Typed, CallTypes, HeldTypes, held
<1>4. Others(r)
  BY <1>1 DEF CallerCloses, Goto, Set, Typed, CallTypes, HeldTypes, BudgetStep, Others, Same,
              fixed, held, seenOutside
<1>5. TimerTypes'
  BY DEF CallerCloses, Set, Typed, TimerTypes, timers
<1> QED
  BY <1>1, <1>2, <1>3, <1>4, <1>5 DEF Local, BudgetStep

LEMMA CancelLocal ==
    ASSUME Typed, NEW r \in Requests, Cancel(r)
    PROVE  Local(r)
<1>1. BudgetStep(r)
  BY KeptBudget DEF Cancel, Typed
<1>2. CallTypes'
  BY OutcomeTypes DEF Cancel, Goto, Set, Typed, CallTypes, Labels, fixed
<1>3. HeldTypes'
  BY DEF Cancel, Set, Typed, CallTypes, HeldTypes, held
<1>4. Others(r)
  BY <1>1 DEF Cancel, Goto, Set, Typed, CallTypes, HeldTypes, BudgetStep, Others, Same,
              fixed, held, seenOutside
<1>5. TimerTypes'
  BY DEF Cancel, Set, Typed, TimerTypes, timers
<1> QED
  BY <1>1, <1>2, <1>3, <1>4, <1>5 DEF Local, BudgetStep

\* A step of a call changes that call alone.
LEMMA CallStepLocal ==
    ASSUME Typed, NEW r \in Requests, CallStep(r)
    PROVE  Typed' /\ Others(r)
<1> SUFFICES Local(r)
  BY DEF Local, Typed
<1>1. CASE Begin(r) \/ BeginSkipped(r) \/ Reply(r) \/ SkippedReply(r) \/ Cancel(r) \/ CallerCloses(r)
  BY <1>1, BeginLocal, BeginSkippedLocal, ReplyLocal, SkippedReplyLocal, CancelLocal,
     CallerClosesLocal
<1>2. CASE Run(r)
  BY <1>2, NoBodyLocal, NoTimeLocal, SendLocal, DecideLocal, ReserveLocal, DiscardLocal,
     WaitOverLocal, WaitCutLocal, FinishLocal, RecordSuccessLocal, ReturnLocal DEF Run
<1> QED
  BY <1>1, <1>2 DEF CallStep

Quiet == \A q \in Requests : Same(q)

\* A step changes one call, or none.
LEMMA StepLocal ==
    ASSUME Typed, [Next]_vars
    PROVE  /\ Typed'
           /\ Quiet \/ \E r \in Requests : CallStep(r) /\ Others(r)
<1>1. CASE Reconfigure
  <2>1. BudgetTypes'
    BY <1>1 DEF Reconfigure, Typed, BudgetTypes, budgetVars
  <2>2. generation' \in Plans
    BY <1>1, RoundTripAssumption DEF Reconfigure, Plans, Policies
  <2>3. CallTypes' /\ HeldTypes'
    BY <1>1, <2>2 DEF Reconfigure, Typed, CallTypes, HeldTypes, held
  <2>4. Quiet
    BY <1>1 DEF Reconfigure, Quiet, Same, budgetVars, held, seenOutside
  <2>5. TimerTypes'
    BY <1>1 DEF Reconfigure, Typed, TimerTypes, timers
  <2> QED
    BY <2>1, <2>3, <2>4, <2>5 DEF Typed
<1>2. CASE Tick
  <2>1. BudgetTypes'
    BY <1>2 DEF Tick, Typed, BudgetTypes, budgetVars
  <2>2. CallTypes' /\ HeldTypes'
    BY <1>2 DEF Tick, Typed, CallTypes, HeldTypes, held, fixed
  <2>3. Quiet
    BY <1>2 DEF Tick, Quiet, Same, budgetVars, held, seenOutside, fixed
  <2>4. TimerTypes'
    BY <1>2, NeverType DEF Tick, Typed, TimerTypes, Ticked
  <2> QED
    BY <2>1, <2>2, <2>3, <2>4 DEF Typed
<1>3. CASE UNCHANGED vars
  <2>1. BudgetTypes'
    BY <1>3 DEF vars, Typed, BudgetTypes, budgetVars
  <2>2. CallTypes' /\ HeldTypes'
    BY <1>3 DEF vars, Typed, CallTypes, HeldTypes, held, fixed
  <2>3. Quiet
    BY <1>3 DEF vars, Quiet, Same, budgetVars, held, seenOutside, fixed
  <2>4. TimerTypes'
    BY <1>3 DEF vars, Typed, TimerTypes, timers
  <2> QED
    BY <2>1, <2>2, <2>3, <2>4 DEF Typed
<1> QED
  BY <1>1, <1>2, <1>3, CallStepLocal DEF Next, Terminated, CallStep

-----------------------------------------------------------------------------
(* What a call holds *)

\* What the response of the attempt in hand keeps open.
Kept(r) == IF HasResponse(final[r]) THEN {attempt[r]} ELSE {}

\* Nothing is open before an attempt and while a call waits for the next; an
\* attempt in flight has its context; then its response keeps both.
Attempts(r) ==
    /\ pc[r] \in {"idle", "prepare", "inflight", "wait", "skipped", "closed"} => respBody[r] = {}
    /\ pc[r] \in {"idle", "prepare", "wait", "skipped", "closed"} => attemptCtx[r] = {}
    /\ pc[r] = "inflight" => attemptCtx[r] = {attempt[r]}
    /\ pc[r] \in {"decide", "reserve", "discard", "finish", "success", "report"} =>
           respBody[r] = Kept(r) /\ attemptCtx[r] = Kept(r)
    /\ pc[r] = "returned" =>
           /\ respBody[r] = Kept(r)
           /\ attemptCtx[r] = IF call[r].skip THEN {} ELSE Kept(r)

\* A call whose time is limited has a context until it is over.
OwnContext(r) ==
    /\ pc[r] \notin {"idle", "returned", "closed"} /\ HasOverallCtx(r) => r \in overallCtx
    /\ pc[r] = "returned" =>
           IF HasResponse(final[r]) THEN HasOverallCtx(r) => r \in overallCtx
                                    ELSE r \notin overallCtx
    /\ pc[r] = "closed" => r \notin overallCtx

\* Where a call stands agrees with where it stands with the budget.
Standing(r) ==
    /\ pc[r] \in {"idle", "skipped"} => attempt[r] = 0 /\ final[r] = Nothing
    /\ pc[r] = "skipped" => call[r].skip
    /\ pc[r] \notin {"idle", "skipped", "returned", "closed"} => ~call[r].skip
    /\ stage[r] = "granted" => pc[r] \in {"discard", "wait", "prepare"}

HeldWell == \A r \in Requests : Attempts(r) /\ OwnContext(r) /\ Standing(r)

LEMMA SameHeld ==
    ASSUME NEW q, Same(q)
    PROVE  /\ Attempts(q)' <=> Attempts(q)
           /\ OwnContext(q)' <=> OwnContext(q)
           /\ Standing(q)' <=> Standing(q)
BY DEF Same, Attempts, OwnContext, Standing, Kept, HasOverallCtx, policy

LEMMA BeginHeld ==
    ASSUME Typed, HeldWell, NEW r \in Requests, Begin(r)
    PROVE  Attempts(r)' /\ OwnContext(r)' /\ Standing(r)'
<1>1. Attempts(r)'
  BY DEF Begin, Goto, Set, Typed, CallTypes, HeldTypes, HeldWell, Attempts, Standing, Kept,
         fixed, held, PrepareFails, HasResponse, Nothing, Error
<1>2. OwnContext(r)'
  <2>1. HasOverallCtx(r)' <=> HasOverallDeadline(r)'
    BY DEF Begin, Set, Typed, CallTypes, TimerTypes, HasOverallCtx, HasOverallDeadline, policy
  <2>2. pc'[r] \in {"prepare", "finish"}
    BY DEF Begin, Goto, Typed, CallTypes
  <2> QED
    BY <2>1, <2>2 DEF Begin, OwnContext
<1>3. Standing(r)'
  BY KeptBudget, SettleEffect
     DEF Begin, Goto, Set, Typed, CallTypes, HeldWell, Standing, fixed, PrepareFails
<1> QED
  BY <1>1, <1>2, <1>3

LEMMA BeginSkippedHeld ==
    ASSUME Typed, HeldWell, NEW r \in Requests, BeginSkipped(r)
    PROVE  Attempts(r)' /\ OwnContext(r)' /\ Standing(r)'
<1>1. Attempts(r)'
  BY DEF BeginSkipped, Goto, Set, Typed, CallTypes, HeldTypes, HeldWell, Attempts, Standing,
         Kept, fixed, held, PrepareFails, HasResponse, Nothing, Error
<1>2. OwnContext(r)'
  BY DEF BeginSkipped, Goto, Set, Typed, CallTypes, HeldTypes, HeldWell, OwnContext,
         HasOverallCtx, policy, fixed, held, PrepareFails, HasResponse, Nothing, Error,
         OverallAfter
<1>3. Standing(r)'
  BY KeptBudget, SettleEffect
     DEF BeginSkipped, Goto, Set, Typed, CallTypes, HeldWell, Standing, fixed, PrepareFails
<1> QED
  BY <1>1, <1>2, <1>3

LEMMA NoBodyHeld ==
    ASSUME Typed, HeldWell, NEW r \in Requests, NoBody(r)
    PROVE  Attempts(r)' /\ OwnContext(r)' /\ Standing(r)'
<1>1. Attempts(r)'
  BY DEF NoBody, Goto, Set, Typed, CallTypes, HeldTypes, HeldWell, Attempts, Standing, Kept,
         fixed, held, PrepareFails, HasResponse, Nothing, Error
<1>2. OwnContext(r)'
  BY DEF NoBody, Goto, Set, Typed, CallTypes, HeldTypes, HeldWell, OwnContext, HasOverallCtx,
         policy, fixed, held, PrepareFails, HasResponse, Nothing, Error, OverallAfter
<1>3. Standing(r)'
  BY KeptBudget, SettleEffect
     DEF NoBody, Goto, Set, Typed, CallTypes, HeldWell, Standing, fixed, PrepareFails
<1> QED
  BY <1>1, <1>2, <1>3

LEMMA NoTimeHeld ==
    ASSUME Typed, HeldWell, NEW r \in Requests, NoTime(r)
    PROVE  Attempts(r)' /\ OwnContext(r)' /\ Standing(r)'
<1>1. Attempts(r)'
  BY DEF NoTime, Goto, Set, Typed, CallTypes, HeldTypes, HeldWell, Attempts, Standing, Kept,
         fixed, held, PrepareFails, HasResponse, Nothing, Error
<1>2. OwnContext(r)'
  BY DEF NoTime, Goto, Set, Typed, CallTypes, HeldTypes, HeldWell, OwnContext, HasOverallCtx,
         policy, fixed, held, PrepareFails, HasResponse, Nothing, Error, OverallAfter
<1>3. Standing(r)'
  BY KeptBudget, SettleEffect
     DEF NoTime, Goto, Set, Typed, CallTypes, HeldWell, Standing, fixed, PrepareFails
<1> QED
  BY <1>1, <1>2, <1>3

LEMMA SendHeld ==
    ASSUME Typed, HeldWell, NEW r \in Requests, Send(r)
    PROVE  Attempts(r)' /\ OwnContext(r)' /\ Standing(r)'
<1>1. Attempts(r)'
  BY DEF Send, Goto, Set, Typed, CallTypes, HeldTypes, HeldWell, Attempts, Standing, Kept,
         fixed, held, PrepareFails, HasResponse, Nothing, Error
<1>2. OwnContext(r)'
  BY DEF Send, Goto, Set, Typed, CallTypes, HeldTypes, HeldWell, OwnContext, HasOverallCtx,
         policy, fixed, held, PrepareFails, HasResponse, Nothing, Error, OverallAfter
<1>3. Standing(r)'
  BY KeptBudget, SettleEffect
     DEF Send, Goto, Set, Typed, CallTypes, HeldWell, Standing, fixed, PrepareFails
<1> QED
  BY <1>1, <1>2, <1>3

LEMMA ReplyHeld ==
    ASSUME Typed, HeldWell, NEW r \in Requests, Reply(r)
    PROVE  Attempts(r)' /\ OwnContext(r)' /\ Standing(r)'
<1>1. Attempts(r)'
  BY DEF Reply, Goto, Set, Typed, CallTypes, HeldTypes, HeldWell, Attempts, Standing, Kept,
         fixed, held, PrepareFails, HasResponse, Nothing, Error
<1>2. OwnContext(r)'
  BY DEF Reply, Goto, Set, Typed, CallTypes, HeldTypes, HeldWell, OwnContext, HasOverallCtx,
         policy, fixed, held, PrepareFails, HasResponse, Nothing, Error, OverallAfter
<1>3. Standing(r)'
  BY KeptBudget, SettleEffect
     DEF Reply, Goto, Set, Typed, CallTypes, HeldWell, Standing, fixed, PrepareFails
<1> QED
  BY <1>1, <1>2, <1>3

LEMMA SkippedReplyHeld ==
    ASSUME Typed, HeldWell, NEW r \in Requests, SkippedReply(r)
    PROVE  Attempts(r)' /\ OwnContext(r)' /\ Standing(r)'
<1>1. Attempts(r)'
  BY DEF SkippedReply, Goto, Set, Typed, CallTypes, HeldTypes, HeldWell, Attempts, Standing,
         Kept, fixed, held, PrepareFails, HasResponse, Nothing, Error
<1>2. OwnContext(r)'
  BY DEF SkippedReply, Goto, Set, Typed, CallTypes, HeldTypes, HeldWell, OwnContext,
         HasOverallCtx, policy, fixed, held, PrepareFails, HasResponse, Nothing, Error,
         OverallAfter
<1>3. Standing(r)'
  BY KeptBudget, SettleEffect
     DEF SkippedReply, Goto, Set, Typed, CallTypes, HeldWell, Standing, fixed, PrepareFails
<1> QED
  BY <1>1, <1>2, <1>3

LEMMA DecideHeld ==
    ASSUME Typed, HeldWell, NEW r \in Requests, Decide(r)
    PROVE  Attempts(r)' /\ OwnContext(r)' /\ Standing(r)'
<1>1. Attempts(r)'
  BY DEF Decide, Goto, Set, Typed, CallTypes, HeldTypes, HeldWell, Attempts, Standing, Kept,
         fixed, held, PrepareFails, HasResponse, Nothing, Error
<1>2. OwnContext(r)'
  BY DEF Decide, Goto, Set, Typed, CallTypes, HeldTypes, HeldWell, OwnContext, HasOverallCtx,
         policy, fixed, held, PrepareFails, HasResponse, Nothing, Error, OverallAfter
<1>3. Standing(r)'
  BY KeptBudget, SettleEffect
     DEF Decide, Goto, Set, Typed, CallTypes, HeldWell, Standing, fixed, PrepareFails
<1> QED
  BY <1>1, <1>2, <1>3

LEMMA ReserveHeld ==
    ASSUME Typed, HeldWell, NEW r \in Requests, Reserve(r)
    PROVE  Attempts(r)' /\ OwnContext(r)' /\ Standing(r)'
<1>1. stage'[r] \in {"open", "granted", "final"}
  BY ConfigType, ReserveEffect DEF Reserve, Typed
<1>2. /\ pc[r] = "reserve"
      /\ pc'[r] \in {"reserve", "discard", "finish"}
      /\ stage'[r] = "granted" => pc'[r] = "discard"
  BY <1>1 DEF Reserve, Goto, Typed, CallTypes
<1>3. Attempts(r)'
  BY <1>2 DEF Reserve, HeldWell, Attempts, Kept, fixed, held
<1>4. OwnContext(r)'
  BY <1>2 DEF Reserve, HeldWell, OwnContext, HasOverallCtx, policy, fixed, held
<1>5. Standing(r)'
  BY <1>2 DEF Reserve, HeldWell, Standing, fixed
<1> QED
  BY <1>3, <1>4, <1>5

LEMMA DiscardHeld ==
    ASSUME Typed, HeldWell, NEW r \in Requests, Discard(r)
    PROVE  Attempts(r)' /\ OwnContext(r)' /\ Standing(r)'
<1>1. Attempts(r)'
  BY DEF Discard, Goto, Set, Typed, CallTypes, HeldTypes, HeldWell, Attempts, Standing, Kept,
         fixed, held, PrepareFails, HasResponse, Nothing, Error
<1>2. OwnContext(r)'
  BY DEF Discard, Goto, Set, Typed, CallTypes, HeldTypes, HeldWell, OwnContext,
         HasOverallCtx, policy, fixed, held, PrepareFails, HasResponse, Nothing, Error,
         OverallAfter
<1>3. Standing(r)'
  BY KeptBudget, SettleEffect
     DEF Discard, Goto, Set, Typed, CallTypes, HeldWell, Standing, fixed, PrepareFails
<1> QED
  BY <1>1, <1>2, <1>3

LEMMA WaitOverHeld ==
    ASSUME Typed, HeldWell, NEW r \in Requests, WaitOver(r)
    PROVE  Attempts(r)' /\ OwnContext(r)' /\ Standing(r)'
<1>1. Attempts(r)'
  BY DEF WaitOver, Goto, Set, Typed, CallTypes, HeldTypes, HeldWell, Attempts, Standing,
         Kept, fixed, held, PrepareFails, HasResponse, Nothing, Error
<1>2. OwnContext(r)'
  BY DEF WaitOver, Goto, Set, Typed, CallTypes, HeldTypes, HeldWell, OwnContext,
         HasOverallCtx, policy, fixed, held, PrepareFails, HasResponse, Nothing, Error,
         OverallAfter
<1>3. Standing(r)'
  BY KeptBudget, SettleEffect
     DEF WaitOver, Goto, Set, Typed, CallTypes, HeldWell, Standing, fixed, PrepareFails
<1> QED
  BY <1>1, <1>2, <1>3

LEMMA WaitCutHeld ==
    ASSUME Typed, HeldWell, NEW r \in Requests, WaitCut(r)
    PROVE  Attempts(r)' /\ OwnContext(r)' /\ Standing(r)'
<1>1. Attempts(r)'
  BY DEF WaitCut, Goto, Set, Typed, CallTypes, HeldTypes, HeldWell, Attempts, Standing, Kept,
         fixed, held, PrepareFails, HasResponse, Nothing, Error
<1>2. OwnContext(r)'
  BY DEF WaitCut, Goto, Set, Typed, CallTypes, HeldTypes, HeldWell, OwnContext,
         HasOverallCtx, policy, fixed, held, PrepareFails, HasResponse, Nothing, Error,
         OverallAfter
<1>3. Standing(r)'
  BY KeptBudget, SettleEffect
     DEF WaitCut, Goto, Set, Typed, CallTypes, HeldWell, Standing, fixed, PrepareFails
<1> QED
  BY <1>1, <1>2, <1>3

LEMMA FinishHeld ==
    ASSUME Typed, HeldWell, NEW r \in Requests, Finish(r)
    PROVE  Attempts(r)' /\ OwnContext(r)' /\ Standing(r)'
<1>1. Attempts(r)'
  BY DEF Finish, Goto, Set, Typed, CallTypes, HeldTypes, HeldWell, Attempts, Standing, Kept,
         fixed, held, PrepareFails, HasResponse, Nothing, Error
<1>2. OwnContext(r)'
  BY DEF Finish, Goto, Set, Typed, CallTypes, HeldTypes, HeldWell, OwnContext, HasOverallCtx,
         policy, fixed, held, PrepareFails, HasResponse, Nothing, Error, OverallAfter
<1>3. Standing(r)'
  BY ConfigType, KeptBudget, EndEffect
     DEF Finish, Goto, Set, Typed, CallTypes, HeldWell, Standing, fixed, PrepareFails
<1> QED
  BY <1>1, <1>2, <1>3

LEMMA RecordSuccessHeld ==
    ASSUME Typed, HeldWell, NEW r \in Requests, RecordSuccess(r)
    PROVE  Attempts(r)' /\ OwnContext(r)' /\ Standing(r)'
<1>1. Attempts(r)'
  BY DEF RecordSuccess, Goto, Set, Typed, CallTypes, HeldTypes, HeldWell, Attempts, Standing,
         Kept, fixed, held, PrepareFails, HasResponse, Nothing, Error
<1>2. OwnContext(r)'
  BY DEF RecordSuccess, Goto, Set, Typed, CallTypes, HeldTypes, HeldWell, OwnContext,
         HasOverallCtx, policy, fixed, held, PrepareFails, HasResponse, Nothing, Error,
         OverallAfter
<1>3. Standing(r)'
  <2>1. stage[r] # "granted"
    BY DEF RecordSuccess, Budget!Credit
  <2>2. stage'[r] # "granted"
    BY <2>1, ConfigType, EndEffect DEF RecordSuccess, Typed
  <2> QED
    BY <2>2 DEF RecordSuccess, Goto, Typed, CallTypes, HeldWell, Standing, fixed
<1> QED
  BY <1>1, <1>2, <1>3

LEMMA ReturnHeld ==
    ASSUME Typed, HeldWell, NEW r \in Requests, Return(r)
    PROVE  Attempts(r)' /\ OwnContext(r)' /\ Standing(r)'
<1>1. Attempts(r)'
  BY DEF Return, Goto, Set, Typed, CallTypes, HeldTypes, HeldWell, Attempts, Standing, Kept,
         fixed, held, PrepareFails, HasResponse, Nothing, Error
<1>2. OwnContext(r)'
  BY DEF Return, Goto, Set, Typed, CallTypes, HeldTypes, HeldWell, OwnContext, HasOverallCtx,
         policy, fixed, held, PrepareFails, HasResponse, Nothing, Error, OverallAfter
<1>3. Standing(r)'
  BY KeptBudget, SettleEffect
     DEF Return, Goto, Set, Typed, CallTypes, HeldWell, Standing, fixed, PrepareFails
<1> QED
  BY <1>1, <1>2, <1>3

LEMMA CallerClosesHeld ==
    ASSUME Typed, HeldWell, NEW r \in Requests, CallerCloses(r)
    PROVE  Attempts(r)' /\ OwnContext(r)' /\ Standing(r)'
<1>1. Attempts(r)'
  BY DEF CallerCloses, Goto, Set, Typed, CallTypes, HeldTypes, HeldWell, Attempts, Standing,
         Kept, fixed, held, PrepareFails, HasResponse, Nothing, Error
<1>2. OwnContext(r)'
  BY DEF CallerCloses, Goto, Set, Typed, CallTypes, HeldTypes, HeldWell, OwnContext,
         HasOverallCtx, policy, fixed, held, PrepareFails, HasResponse, Nothing, Error,
         OverallAfter
<1>3. Standing(r)'
  BY KeptBudget, SettleEffect
     DEF CallerCloses, Goto, Set, Typed, CallTypes, HeldWell, Standing, fixed, PrepareFails
<1> QED
  BY <1>1, <1>2, <1>3

LEMMA CancelHeld ==
    ASSUME Typed, HeldWell, NEW r \in Requests, Cancel(r)
    PROVE  Attempts(r)' /\ OwnContext(r)' /\ Standing(r)'
<1>1. Attempts(r)'
  BY DEF Cancel, Goto, Set, Typed, CallTypes, HeldTypes, HeldWell, Attempts, Standing, Kept,
         fixed, held, PrepareFails, HasResponse, Nothing, Error
<1>2. OwnContext(r)'
  BY DEF Cancel, Goto, Set, Typed, CallTypes, HeldTypes, HeldWell, OwnContext, HasOverallCtx,
         policy, fixed, held, PrepareFails, HasResponse, Nothing, Error, OverallAfter
<1>3. Standing(r)'
  BY KeptBudget, SettleEffect
     DEF Cancel, Goto, Set, Typed, CallTypes, HeldWell, Standing, fixed, PrepareFails
<1> QED
  BY <1>1, <1>2, <1>3

\* What a call holds is right before and after every step.
LEMMA StepHeld == Typed /\ HeldWell /\ [Next]_vars => Typed' /\ HeldWell'
<1> SUFFICES ASSUME Typed, HeldWell, [Next]_vars PROVE Typed' /\ HeldWell'
  OBVIOUS
<1>1. CASE Quiet
  BY <1>1, StepLocal, SameHeld DEF Quiet, HeldWell
<1>2. ASSUME NEW r \in Requests, CallStep(r), Others(r) PROVE HeldWell'
  <2>1. Attempts(r)' /\ OwnContext(r)' /\ Standing(r)'
    <3>1. CASE Begin(r) \/ BeginSkipped(r) \/ Reply(r) \/ SkippedReply(r) \/ Cancel(r)
                   \/ CallerCloses(r)
      BY <3>1, BeginHeld, BeginSkippedHeld, ReplyHeld, SkippedReplyHeld, CancelHeld,
         CallerClosesHeld
    <3>2. CASE Run(r)
      BY <3>2, NoBodyHeld, NoTimeHeld, SendHeld, DecideHeld, ReserveHeld, DiscardHeld,
         WaitOverHeld, WaitCutHeld, FinishHeld, RecordSuccessHeld, ReturnHeld DEF Run
    <3> QED
      BY <1>2, <3>1, <3>2 DEF CallStep
  <2>2. ASSUME NEW q \in Requests, q # r PROVE Attempts(q)' /\ OwnContext(q)' /\ Standing(q)'
    BY <1>2, <2>2, SameHeld DEF Others, HeldWell
  <2> QED
    BY <2>1, <2>2 DEF HeldWell
<1> QED
  BY <1>1, <1>2, StepLocal

LEMMA InitHeld == Init => Typed /\ HeldWell
<1> SUFFICES ASSUME Init PROVE Typed /\ HeldWell
  OBVIOUS
<1>1. BudgetTypes
  BY NoReservationFacts DEF Init, Budget!Init, BudgetTypes
<1>2. generation \in Plans
  BY RoundTripAssumption DEF Init, Plans, Policies
<1>3. NoCall \in CallOf
  BY NeverType DEF NoCall, CallOf
<1>4. CallTypes
  BY <1>2, <1>3, OutcomeTypes DEF Init, CallTypes, Labels
<1>5. HeldTypes /\ TimerTypes
  BY NeverType DEF Init, HeldTypes, TimerTypes
<1>6. HeldWell
  BY DEF Init, Budget!Init, HeldWell, Attempts, OwnContext, Standing, NoCall
<1> QED
  BY <1>1, <1>4, <1>5, <1>6 DEF Typed

\* In every state what a call holds fits where it stands, and so does the
\* budget's view of it (transport.go:57-245, 447-453, 627-652).
THEOREM HeldWellAlways == Spec => [](Typed /\ HeldWell)
BY InitHeld, StepHeld, PTL DEF Spec

\* Nothing outlives its use, and a call that is over holds nothing, for any
\* number of calls and any answers (transport.go:149-167, 220-229, 447-453).
THEOREM NothingHeldAlways == Spec => []NothingHeld
<1>1. Typed /\ HeldWell => NothingHeld
  <2> SUFFICES ASSUME Typed, HeldWell, NEW r \in Requests
               PROVE  /\ respBody[r] \subseteq {attempt[r]}
                      /\ attemptCtx[r] \subseteq {attempt[r]}
                      /\ pc[r] = "closed" \/ (pc[r] = "returned" /\ ~HasResponse(final[r])) =>
                             /\ respBody[r] = {} /\ attemptCtx[r] = {}
                             /\ r \notin overallCtx
                             /\ reservation[r] = NoReservation
    BY DEF NothingHeld
  <2>1. pc[r] \in Labels /\ (stage[r] # "granted" => reservation[r] = NoReservation)
    BY DEF Typed, CallTypes, BudgetTypes
  <2> QED
    BY <2>1 DEF HeldWell, Attempts, OwnContext, Standing, Kept, Labels
<1> QED
  BY <1>1, HeldWellAlways, PTL

\* A caller gets a response it can read, and an error with nothing to close
\* (transport.go:163-167, 235-243).
THEOREM ReturnedUsableAlways == Spec => []ReturnedUsable
<1>1. Typed /\ HeldWell => ReturnedUsable
  BY DEF ReturnedUsable, HeldWell, Attempts, OwnContext, Kept
<1> QED
  BY <1>1, HeldWellAlways, PTL

-----------------------------------------------------------------------------
(* Time *)

\* The time of an attempt is not more than what is left of the call.
LEMMA AttemptTimeFacts ==
    ASSUME Typed, NEW r \in Requests, left[r] > 0,
           policy(r).timeout <= Never
    PROVE  AttemptTime(r) <= left[r]
<1>1. left[r] \in Int /\ policy(r).timeout \in Int /\ DefaultTimeout \in Int
  BY DefaultsAssumption DEF Typed, CallTypes, TimerTypes, Plans, Policies, policy
<1> QED
  BY <1>1, NeverType, RoundTripAssumption DEF AttemptTime, HasOverallDeadline

\* The timeout of an installed or resolved policy, and an attempt in flight.
TimeoutsBounded ==
    /\ generation.policy.timeout <= Never
    /\ \A r \in Requests : policy(r).timeout <= Never

LEMMA ResolvedTimeout ==
    ASSUME NEW g \in Plans, g.policy.timeout <= Never
    PROVE  Resolved(g).policy.timeout <= Never
<1> DEFINE p == g.policy
<1>1. p \in Policies
  BY DEF Plans
<1>2. normalizeRetryPolicy(p).timeout = OrDefault(p.timeout, DefaultTimeout)
  BY <1>1 DEF normalizeRetryPolicy, Policies
<1>3. OrDefault(p.timeout, DefaultTimeout) <= Never
  BY RoundTripAssumption DEF OrDefault
<1> QED
  BY <1>2, <1>3 DEF Resolved, Plans

LEMMA StepTimeouts ==
    ASSUME Typed, TimeoutsBounded, [Next]_vars
    PROVE  TimeoutsBounded'
<1>1. CASE Reconfigure
  BY <1>1, RoundTripAssumption DEF Reconfigure, TimeoutsBounded, policy
<1>2. ASSUME NEW r \in Requests, Begin(r) PROVE TimeoutsBounded'
  <2>1. plan' = Set(plan, r, Resolved(generation)) /\ generation' = generation
    BY <1>2 DEF Begin
  <2>2. Resolved(generation).policy.timeout <= Never
    BY ResolvedTimeout DEF Typed, CallTypes, TimeoutsBounded
  <2> QED
    BY <2>1, <2>2 DEF Set, Typed, CallTypes, TimeoutsBounded, policy
<1>3. ASSUME plan' = plan, generation' = generation PROVE TimeoutsBounded'
  BY <1>3 DEF TimeoutsBounded, policy
<1>4. ASSUME NEW r \in Requests, CallStep(r), ~Begin(r)
      PROVE  plan' = plan /\ generation' = generation
  BY <1>4 DEF CallStep, BeginSkipped, Run, Reply, SkippedReply, Cancel, CallerCloses, NoBody,
              NoTime, PrepareFails, Send, Decide, Reserve, Discard, WaitOver, WaitCut, Finish,
              RecordSuccess, Return, fixed
<1>5. CASE Tick \/ UNCHANGED vars
  BY <1>3, <1>5 DEF Tick, vars, fixed
<1> QED
  BY <1>1, <1>2, <1>3, <1>4, <1>5 DEF Next, Terminated, CallStep

\* Both timers run at the same pace.
LEMMA TickedMonotone ==
    ASSUME NEW a \in Int, NEW b \in Int, a <= b
    PROVE  Ticked(a) <= Ticked(b)
BY NeverType DEF Ticked

LEMMA StepWithin ==
    ASSUME Typed, TimeoutsBounded, AttemptWithinDeadline, [Next]_vars
    PROVE  AttemptWithinDeadline'
<1> SUFFICES ASSUME NEW q \in Requests, pc'[q] = "inflight"
             PROVE  attemptLeft'[q] <= left'[q]
  BY DEF AttemptWithinDeadline
<1>1. left[q] \in Int /\ attemptLeft[q] \in Int
  BY DEF Typed, TimerTypes
<1>2. CASE Tick
  BY <1>1, <1>2, TickedMonotone DEF Tick, AttemptWithinDeadline
<1>3. ASSUME NEW r \in Requests, Send(r) PROVE attemptLeft'[q] <= left'[q]
  <2>1. AttemptTime(r) <= left[r]
    BY <1>3, AttemptTimeFacts DEF Send, TimeoutsBounded
  <2> QED
    BY <1>3, <2>1 DEF Send, Goto, Set, Typed, CallTypes, TimerTypes, AttemptWithinDeadline
<1>4. ASSUME NEW r \in Requests, Begin(r) \/ BeginSkipped(r) \/ Reply(r) \/ SkippedReply(r) \/ Return(r)
      PROVE  attemptLeft'[q] <= left'[q]
  BY <1>4 DEF Begin, BeginSkipped, Reply, SkippedReply, Return, Goto, Set, Typed, CallTypes,
              TimerTypes, AttemptWithinDeadline
<1>5. ASSUME left' = left, attemptLeft' = attemptLeft, pc[q] = "inflight"
      PROVE  attemptLeft'[q] <= left'[q]
  BY <1>5 DEF AttemptWithinDeadline
<1>6. ASSUME NEW r \in Requests,
             \/ NoBody(r) \/ NoTime(r) \/ Decide(r) \/ Discard(r) \/ WaitOver(r)
             \/ WaitCut(r) \/ Finish(r) \/ RecordSuccess(r) \/ CallerCloses(r) \/ Cancel(r)
      PROVE  left' = left /\ attemptLeft' = attemptLeft /\ pc[q] = "inflight"
  BY <1>6 DEF NoBody, NoTime, PrepareFails, Decide, Discard, WaitOver, WaitCut, Finish,
              RecordSuccess, CallerCloses, Cancel, Goto, Typed, CallTypes, timers
<1>7. ASSUME NEW r \in Requests, Reserve(r)
      PROVE  left' = left /\ attemptLeft' = attemptLeft /\ pc[q] = "inflight"
  <2>1. stage'[r] \in {"open", "granted", "final"}
    BY <1>7, ConfigType, ReserveEffect DEF Reserve, Typed
  <2> QED
    BY <1>7, <2>1 DEF Reserve, Goto, Typed, CallTypes, timers
<1>8. CASE Reconfigure \/ UNCHANGED vars
  BY <1>5, <1>8 DEF Reconfigure, vars, timers
<1> QED
  BY <1>2, <1>3, <1>4, <1>5, <1>6, <1>7, <1>8 DEF Next, Terminated, Run

\* An attempt never has more time than its call, whatever the policy, the
\* deadlines that came with the call and the defaults (transport.go:467-482).
THEOREM AttemptWithinDeadlineAlways == Spec => []AttemptWithinDeadline
<1>1. Init => TimeoutsBounded /\ AttemptWithinDeadline
  BY RoundTripAssumption DEF Init, TimeoutsBounded, AttemptWithinDeadline, policy
<1>2. Typed /\ TimeoutsBounded /\ AttemptWithinDeadline /\ [Next]_vars =>
          TimeoutsBounded' /\ AttemptWithinDeadline'
  BY StepTimeouts, StepWithin
<1> QED
  BY <1>1, <1>2, HeldWellAlways, PTL DEF Spec

-----------------------------------------------------------------------------
(* What a call put on the wire, what it returned and what it reported *)

Reasons == {"none"} \cup {retryReason(o) : o \in Outcome}
Attempt == [noMore : BOOLEAN, reason : Reasons, outcome : Outcome]
ResultEvent == [attempts : Nat, outcome : Outcome, suppressed : BOOLEAN]

SeenTypes ==
    /\ sent \in [Requests -> Seq(Attempt)]
    /\ totalAttempts \in [Requests -> Nat]
    /\ retryEvents \in [Requests -> Nat]
    /\ result \in [Requests -> Seq(ResultEvent)]

Made(r) == Len(sent[r])

\* The limit is what the request and its policy gave when the call began.
Limiting(r) ==
    pc[r] \notin {"idle", "skipped"} /\ ~call[r].skip =>
        limit[r] = RetryLimit(call[r], policy(r))

\* The attempts made, counted and announced so far, and why the next is made.
Progress(r) ==
    /\ pc[r] = "idle" => sent[r] = <<>> /\ retryEvents[r] = 0
    /\ pc[r] = "skipped" => Made(r) = 1
    /\ pc[r] \notin {"returned", "closed"} => result[r] = <<>>
    /\ pc[r] = "prepare" =>
           Made(r) = attempt[r] /\ retryEvents[r] = attempt[r] /\ attempt[r] <= limit[r]
    /\ pc[r] \in {"inflight", "decide", "reserve", "discard", "wait"} =>
           Made(r) = attempt[r] + 1 /\ attempt[r] <= limit[r]
    /\ pc[r] \in {"inflight", "decide", "reserve", "discard"} => retryEvents[r] = attempt[r]
    /\ pc[r] = "wait" => retryEvents[r] = attempt[r] + 1
    /\ pc[r] \in {"decide", "reserve", "discard"} => final[r] = sent[r][Made(r)].outcome
    /\ pc[r] \in {"reserve", "discard", "wait"} => attempt[r] < limit[r]
    /\ pc[r] \in {"reserve", "discard"} => RetryableOutcome(policy(r), final[r])
    /\ pc[r] = "wait" \/ (pc[r] = "prepare" /\ attempt[r] > 0) =>
           /\ last[r] = sent[r][Made(r)].outcome
           /\ RetryableOutcome(policy(r), last[r])

\* Every attempt on record says whether it is the last and what it is made for.
Records(r) ==
    pc[r] # "idle" /\ ~call[r].skip =>
        \A i \in 1 .. Made(r) :
            /\ sent[r][i].noMore <=> (i - 1 = limit[r] \/ call[r].noMore)
            /\ i > 1 => /\ RetryableOutcome(policy(r), sent[r][i - 1].outcome)
                        /\ sent[r][i].reason = retryReason(sent[r][i - 1].outcome)

Over(r) ==
    \/ pc[r] \in {"finish", "success", "report"}
    \/ pc[r] \in {"returned", "closed"} /\ ~call[r].skip

\* A call that is over keeps the outcome of its last attempt, or the error of
\* the retry that did not start.
Ended(r) ==
    Over(r) =>
        \/ Made(r) = 0
        \/ /\ Made(r) > 0 /\ Made(r) <= limit[r] + 1
           /\ \/ retryEvents[r] = Made(r) - 1 /\ final[r] = sent[r][Made(r)].outcome
              \/ retryEvents[r] = Made(r) /\ final[r].err \in {"canceled", "deadline", "body"}

\* The budget refuses only what the policy wanted, and nothing else but a
\* deadline keeps back a wanted retry.
Refused(r) ==
    /\ r \in suppressed =>
           /\ Over(r)
           /\ Made(r) <= limit[r]
           /\ RetryableOutcome(policy(r), final[r])
           /\ Enabled(budgetConfig(r))
    /\ Over(r) /\ Made(r) > 0 /\ Made(r) <= limit[r] /\ retryEvents[r] = Made(r) - 1
           /\ RetryableOutcome(policy(r), final[r])
           => r \in suppressed \/ HasOverallCtx(r)

\* The one event of a call tells what the call still holds true.
Reported(r) ==
    pc[r] \in {"returned", "closed"} /\ ~call[r].skip =>
        Len(result[r]) = 1 /\ result[r][1] = Event(r)

\* An attempt is counted when it goes out and at no other time.
Tallied(r) ==
    pc[r] = "idle" \/ ~call[r].skip => totalAttempts[r] = Made(r)

RecordOf(r) ==
    /\ Limiting(r) /\ Progress(r) /\ Records(r) /\ Tallied(r)
    /\ Ended(r) /\ Refused(r) /\ Reported(r)
Recorded == SeenTypes /\ \A r \in Requests : RecordOf(r)

\* Only a call with a deadline of its own has a timer that runs.
UndatedCall(r) ==
    pc[r] \notin {"idle", "skipped", "returned", "closed"} /\ ~HasOverallCtx(r) =>
        left[r] = Never
Undated == \A r \in Requests : UndatedCall(r)

-----------------------------------------------------------------------------
(* Attempts as sequences *)

LEMMA AppendFacts ==
    ASSUME NEW S, NEW s \in Seq(S), NEW x \in S
    PROVE  /\ Append(s, x) \in Seq(S)
           /\ Len(s) \in Nat
           /\ Len(Append(s, x)) = Len(s) + 1
           /\ \A i \in 1 .. Len(s) : Append(s, x)[i] = s[i]
           /\ Append(s, x)[Len(s) + 1] = x
BY AppendProperties, LenProperties

\* The answer is put into the record of the last attempt.
LEMMA AnswerFacts ==
    ASSUME NEW s \in Seq(Attempt), NEW m \in 1 .. Len(s), NEW o \in Outcome
    PROVE  LET t == [s EXCEPT ![m].outcome = o]
           IN  /\ t \in Seq(Attempt)
               /\ Len(t) = Len(s)
               /\ \A i \in 1 .. Len(s) : i # m => t[i] = s[i]
               /\ t[m].outcome = o
               /\ t[m].noMore = s[m].noMore
               /\ t[m].reason = s[m].reason
<1> DEFINE x == [s[m] EXCEPT !.outcome = o]
           t == [s EXCEPT ![m] = x]
<1>1. s[m] \in Attempt
  BY ElementOfSeq
<1>2. x \in Attempt /\ x.outcome = o /\ x.noMore = s[m].noMore /\ x.reason = s[m].reason
  BY <1>1 DEF Attempt
<1> HIDE DEF x
<1>3. /\ t \in Seq(Attempt)
      /\ Len(t) = Len(s)
      /\ \A i \in 1 .. Len(s) : t[i] = IF i = m THEN x ELSE s[i]
  BY <1>2, ExceptSeq
<1>4. t = [s EXCEPT ![m].outcome = o]
  BY DEF x
<1> QED
  BY <1>2, <1>3, <1>4

LEMMA SameRecorded ==
    ASSUME NEW q, Same(q)
    PROVE  RecordOf(q)' <=> RecordOf(q)
<1>1. (Limiting(q)' <=> Limiting(q)) /\ (Progress(q)' <=> Progress(q))
  BY DEF Same, Limiting, Progress, Made, policy
<1>2. (Records(q)' <=> Records(q)) /\ (Ended(q)' <=> Ended(q))
  BY DEF Same, Records, Ended, Over, Made, policy
<1>3. Refused(q)' <=> Refused(q)
  BY DEF Same, Refused, Over, Made, policy, budgetConfig, HasOverallCtx
<1>4. Reported(q)' <=> Reported(q)
  BY DEF Same, Reported, Event
<1> QED
  BY <1>1, <1>2, <1>3, <1>4 DEF RecordOf, Same, Tallied, Made

-----------------------------------------------------------------------------
(* Steps *)

\* What was asked stays as it is, and so does what went out.
Asked(r) == call'[r] = call[r] /\ plan'[r] = plan[r] /\ limit'[r] = limit[r]
Silent(r) ==
    /\ sent'[r] = sent[r] /\ totalAttempts'[r] = totalAttempts[r]
    /\ retryEvents'[r] = retryEvents[r] /\ result'[r] = result[r]

LEMMA AskedFacts ==
    ASSUME NEW r, Asked(r)
    PROVE  /\ policy(r)' = policy(r)
           /\ budgetConfig(r)' = budgetConfig(r)
           /\ HasOverallCtx(r)' <=> HasOverallCtx(r)
BY DEF Asked, policy, budgetConfig, HasOverallCtx

\* The count is right as long as nothing goes out and nothing is counted.
LEMMA TallyKept ==
    ASSUME NEW r, Tallied(r), Asked(r), sent'[r] = sent[r], pc'[r] # "idle",
           totalAttempts'[r] = totalAttempts[r]
    PROVE  Tallied(r)'
BY DEF Tallied, Asked, Made

\* What is known of a call before its step.
LEMMA Before ==
    ASSUME Typed, HeldWell, Recorded, NEW r \in Requests
    PROVE  /\ pc[r] \in Labels /\ attempt[r] \in Nat /\ limit[r] \in Int
           /\ final[r] \in Outcome /\ last[r] \in Outcome
           /\ call[r] \in CallOf
           /\ sent[r] \in Seq(Attempt) /\ Made(r) \in Nat
           /\ retryEvents[r] \in Nat /\ result[r] \in Seq(ResultEvent)
           /\ Standing(r) /\ Limiting(r) /\ Progress(r) /\ Records(r) /\ Tallied(r)
           /\ Ended(r) /\ Refused(r) /\ Reported(r)
BY LenProperties DEF Typed, CallTypes, HeldWell, Recorded, RecordOf, SeenTypes, Made

\* Only a request for a retry can be refused.
LEMMA SuppressedKept ==
    ASSUME NEW r \in Requests, NEW c \in Configs,
           \/ UNCHANGED budgetVars \/ RefundPending(r)
           \/ Budget!Commit(r) \/ Budget!Stop(r) \/ Budget!Close(r) \/ Budget!Credit(r, c)
    PROVE  suppressed' = suppressed
BY DEF budgetVars, RefundPending, Budget!Refund, Budget!Commit, Budget!Stop, Budget!Close,
       Budget!Credit

LEMMA BeginRecorded ==
    ASSUME Typed, HeldWell, Recorded, NEW r \in Requests, Begin(r)
    PROVE  SeenTypes' /\ RecordOf(r)'
<1>1. SeenTypes'
  BY DEF Begin, Recorded, SeenTypes, seenOutside
<1>2. /\ pc[r] = "idle" /\ ~call'[r].skip
      /\ pc'[r] = IF limit'[r] >= 0 THEN "prepare" ELSE "finish"
      /\ limit'[r] = RetryLimit(call'[r], policy(r)')
      /\ attempt'[r] = attempt[r] /\ Silent(r) /\ suppressed' = suppressed
  BY DEF Begin, Goto, Set, Typed, CallTypes, Silent, seenOutside, budgetVars
<1>3. /\ attempt[r] = 0 /\ sent[r] = <<>> /\ retryEvents[r] = 0 /\ result[r] = <<>>
      /\ totalAttempts[r] = 0
      /\ r \notin suppressed
  BY <1>2, Before, EmptySeq DEF Standing, Progress, Refused, Over, Tallied, Made
<1>4. Made(r)' = 0 /\ limit'[r] \in Int
  BY <1>2, <1>3, EmptySeq, BeginLocal DEF Made, Silent, Local, CallTypes
<1>5. Limiting(r)' /\ Progress(r)'
  BY <1>2, <1>3, <1>4 DEF Limiting, Progress, Silent
<1>6. Records(r)' /\ Ended(r)' /\ Refused(r)' /\ Reported(r)'
  BY <1>2, <1>3, <1>4 DEF Records, Ended, Refused, Reported
<1>7. Tallied(r)'
  BY <1>2, <1>3, <1>4 DEF Tallied, Silent
<1> QED
  BY <1>1, <1>5, <1>6, <1>7 DEF RecordOf

\* A call that skips governance has no record.
LEMMA SkippedRecord ==
    ASSUME NEW r, pc'[r] \in {"skipped", "returned"}, call'[r].skip, r \notin suppressed',
           pc'[r] = "skipped" => Made(r)' = 1 /\ result'[r] = <<>>
    PROVE  RecordOf(r)'
BY DEF RecordOf, Limiting, Progress, Records, Tallied, Ended, Over, Refused, Reported

LEMMA BeginSkippedRecorded ==
    ASSUME Typed, HeldWell, Recorded, NEW r \in Requests, BeginSkipped(r)
    PROVE  SeenTypes' /\ RecordOf(r)'
<1>1. PICK c \in Calls :
          /\ c.skip /\ call' = Set(call, r, c)
          /\ sent' = Set(sent, r, <<[noMore |-> c.noMore, reason |-> "none",
                                     outcome |-> Nothing]>>)
  BY DEF BeginSkipped
<1> DEFINE first == [noMore |-> c.noMore, reason |-> "none", outcome |-> Nothing]
<1>2. first \in Attempt
  BY OutcomeTypes, RoundTripAssumption DEF Attempt, Reasons
<1> HIDE DEF first
<1>3. <<first>> \in Seq(Attempt) /\ Len(<<first>>) = 1
  BY <1>2
<1>4. sent' = [sent EXCEPT ![r] = <<first>>]
  BY <1>1 DEF Set, first
<1>5. SeenTypes'
  BY <1>3, <1>4 DEF BeginSkipped, Recorded, SeenTypes
<1>6. /\ pc[r] = "idle" /\ pc'[r] = "skipped" /\ call'[r].skip
      /\ result'[r] = result[r] /\ suppressed' = suppressed
  BY <1>1 DEF BeginSkipped, Goto, Set, Typed, CallTypes, budgetVars
<1>7. Made(r)' = 1
  BY <1>3, <1>4 DEF Made, Recorded, SeenTypes
<1>8. result[r] = <<>> /\ r \notin suppressed
  BY <1>6, Before DEF Progress, Refused, Over
<1> QED
  BY <1>5, <1>6, <1>7, <1>8, SkippedRecord

LEMMA SkippedReplyRecorded ==
    ASSUME Typed, HeldWell, Recorded, NEW r \in Requests, SkippedReply(r)
    PROVE  SeenTypes' /\ RecordOf(r)'
<1>1. PICK o \in Outcome : sent' = [sent EXCEPT ![r][1].outcome = o]
  BY OutcomeTypes DEF SkippedReply
<1>2. pc[r] = "skipped" /\ pc'[r] = "returned" /\ call'[r].skip /\ r \notin suppressed'
  BY Before DEF SkippedReply, Goto, Typed, CallTypes, Standing, Refused, Over, fixed, budgetVars
<1>3. sent[r] \in Seq(Attempt) /\ 1 \in 1 .. Len(sent[r])
  <2>1. sent[r] \in Seq(Attempt) /\ Len(sent[r]) = 1
    BY <1>2, Before DEF Progress, Made
  <2> QED
    BY <2>1
<1>4. [sent[r] EXCEPT ![1].outcome = o] \in Seq(Attempt)
  BY <1>3, AnswerFacts
<1>5. SeenTypes'
  BY <1>1, <1>4 DEF SkippedReply, Recorded, SeenTypes
<1> QED
  BY <1>2, <1>5, SkippedRecord

\* A retry that was announced and cannot start leaves its error.
LEMMA StoppedRecord ==
    ASSUME Typed, HeldWell, Recorded, NEW r \in Requests,
           pc[r] \in {"prepare", "wait"}, pc'[r] = "finish",
           Asked(r), Silent(r), suppressed' = suppressed,
           final'[r].err \in {"canceled", "deadline", "body"}
    PROVE  RecordOf(r)'
<1>1. Made(r)' = Made(r) /\ policy(r)' = policy(r)
  BY AskedFacts DEF Silent, Made
<1>2. Limiting(r)'
  BY <1>1, Before DEF Limiting, Asked, Standing
<1>3. Progress(r)'
  BY Before DEF Progress, Silent
<1>4. Records(r)'
  BY <1>1, Before DEF Records, Asked, Silent
<1>5. Made(r) \in Nat /\ Made(r) = retryEvents[r] /\ Made(r) <= limit[r] /\ limit[r] \in Int
  BY Before DEF Progress
<1>6. Ended(r)'
  BY <1>1, <1>5 DEF Ended, Asked, Silent
<1>7. Refused(r)'
  <2>1. r \notin suppressed
    BY Before DEF Refused, Over
  <2>2. retryEvents'[r] = Made(r)
    BY <1>5 DEF Silent
  <2> QED
    BY <1>1, <1>5, <2>1, <2>2 DEF Refused
<1>8. Reported(r)'
  BY DEF Reported
<1>9. Tallied(r)'
  BY Before, TallyKept DEF Silent
<1> QED
  BY <1>2, <1>3, <1>4, <1>6, <1>7, <1>8, <1>9 DEF RecordOf

LEMMA PrepareFailsRecorded ==
    ASSUME Typed, HeldWell, Recorded, NEW r \in Requests, NoBody(r) \/ NoTime(r)
    PROVE  SeenTypes' /\ RecordOf(r)'
<1>1. PICK err \in {"body", "deadline"} : pc[r] = "prepare" /\ PrepareFails(r, err)
  BY DEF NoBody, NoTime
<1>2. suppressed' = suppressed
  BY <1>1, ConfigType, SuppressedKept DEF PrepareFails
<1>3. SeenTypes'
  BY <1>1 DEF PrepareFails, Recorded, SeenTypes, seenOutside
<1>4. /\ pc'[r] = "finish" /\ Asked(r) /\ Silent(r)
      /\ final'[r].err \in {"canceled", "deadline", "body"}
  BY <1>1 DEF PrepareFails, Goto, Set, Error, Typed, CallTypes, Asked, Silent, fixed, seenOutside
<1> QED
  BY <1>1, <1>2, <1>3, <1>4, StoppedRecord

LEMMA WaitCutRecorded ==
    ASSUME Typed, HeldWell, Recorded, NEW r \in Requests, WaitCut(r)
    PROVE  SeenTypes' /\ RecordOf(r)'
<1>1. suppressed' = suppressed
  BY ConfigType, SuppressedKept DEF WaitCut
<1>2. SeenTypes'
  BY DEF WaitCut, Recorded, SeenTypes, seenOutside
<1>3. pc[r] = "wait" /\ pc'[r] = "finish" /\ Asked(r) /\ Silent(r)
  BY DEF WaitCut, Goto, Typed, CallTypes, Asked, Silent, fixed, seenOutside
<1>4. final'[r].err \in {"canceled", "deadline", "body"}
  BY DEF WaitCut, ContextErrors, Set, Error, Typed, CallTypes
<1> QED
  BY <1>1, <1>2, <1>3, <1>4, StoppedRecord

\* An attempt goes out.
LEMMA SendRecorded ==
    ASSUME Typed, HeldWell, Recorded, NEW r \in Requests, Send(r)
    PROVE  SeenTypes' /\ RecordOf(r)'
<1> DEFINE n == attempt[r]
           x == [noMore  |-> n = limit[r] \/ call[r].noMore,
                 reason  |-> IF n > 0 THEN retryReason(last[r]) ELSE "none",
                 outcome |-> Nothing]
<1>1. /\ pc[r] = "prepare" /\ pc'[r] = "inflight" /\ Asked(r)
      /\ attempt'[r] = n /\ retryEvents'[r] = retryEvents[r] /\ result'[r] = result[r]
      /\ sent' = [sent EXCEPT ![r] = Append(sent[r], x)]
      /\ totalAttempts' = [totalAttempts EXCEPT ![r] = n + 1]
  BY DEF Send, Set, Goto, Typed, CallTypes, Asked, fixed
<1>2. suppressed' = suppressed
  BY ConfigType, SuppressedKept DEF Send
<1>3. /\ n \in Nat /\ limit[r] \in Int /\ Made(r) = n /\ retryEvents[r] = n /\ n <= limit[r]
      /\ sent[r] \in Seq(Attempt) /\ ~call[r].skip
      /\ n > 0 => last[r] = sent[r][n].outcome /\ RetryableOutcome(policy(r), last[r])
      /\ Limiting(r) /\ Records(r) /\ r \notin suppressed /\ result[r] = <<>>
  BY <1>1, Before DEF Progress, Standing, Refused, Over
<1>4. x \in Attempt
  <2>1. call[r].noMore \in BOOLEAN /\ last[r] \in Outcome
    BY Before DEF CallOf
  <2>2. x.reason \in Reasons /\ x.noMore \in BOOLEAN
    BY <2>1 DEF Reasons
  <2> QED
    BY <2>2, OutcomeTypes DEF Attempt
<1>5. /\ x.noMore <=> (n = limit[r] \/ call[r].noMore)
      /\ n > 0 => x.reason = retryReason(last[r])
  OBVIOUS
<1> HIDE DEF x
<1>6. /\ Append(sent[r], x) \in Seq(Attempt)
      /\ Len(Append(sent[r], x)) = n + 1
      /\ \A i \in 1 .. n : Append(sent[r], x)[i] = sent[r][i]
      /\ Append(sent[r], x)[n + 1] = x
  BY <1>3, <1>4, AppendFacts DEF Made
<1>7. SeenTypes'
  BY <1>1, <1>3, <1>6 DEF Send, Recorded, SeenTypes
<1>8. sent'[r] = Append(sent[r], x)
  BY <1>1 DEF Recorded, SeenTypes
<1>9. Made(r)' = n + 1 /\ policy(r)' = policy(r)
  BY <1>1, <1>6, <1>8, AskedFacts DEF Made
<1>10. Limiting(r)' /\ Progress(r)'
  BY <1>1, <1>3, <1>9 DEF Limiting, Progress, Asked
<1>11. Records(r)'
  <2>1. SUFFICES ASSUME NEW i \in 1 .. n + 1
                 PROVE  /\ sent'[r][i].noMore <=> (i - 1 = limit[r] \/ call[r].noMore)
                        /\ i > 1 => /\ RetryableOutcome(policy(r), sent'[r][i - 1].outcome)
                                    /\ sent'[r][i].reason = retryReason(sent'[r][i - 1].outcome)
    BY <1>1, <1>9 DEF Records, Asked
  <2>2. CASE i \in 1 .. n
    <3>1. sent'[r][i] = sent[r][i] /\ (i > 1 => sent'[r][i - 1] = sent[r][i - 1])
      BY <1>3, <1>6, <1>8, <2>2
    <3> QED
      BY <1>1, <1>3, <2>2, <3>1 DEF Records
  <2>3. CASE i = n + 1
    <3>1. sent'[r][i] = x /\ (i > 1 => sent'[r][i - 1] = sent[r][n] /\ n > 0)
      BY <1>3, <1>6, <1>8, <2>3
    <3>2. i - 1 = n /\ (i > 1 <=> n > 0)
      BY <1>3, <2>3
    <3> QED
      BY <1>3, <1>5, <3>1, <3>2
  <2> QED
    BY <1>3, <2>2, <2>3
<1>12. Ended(r)' /\ Refused(r)' /\ Reported(r)'
  BY <1>1, <1>2, <1>3 DEF Ended, Refused, Reported, Over
<1>13. Tallied(r)'
  BY <1>1, <1>9 DEF Tallied, Recorded, SeenTypes
<1> QED
  BY <1>7, <1>10, <1>11, <1>12, <1>13 DEF RecordOf

\* The answer is that of the attempt in flight.
LEMMA ReplyRecorded ==
    ASSUME Typed, HeldWell, Recorded, NEW r \in Requests, Reply(r)
    PROVE  SeenTypes' /\ RecordOf(r)'
<1> DEFINE m == attempt[r] + 1
<1>1. PICK o \in Outcome : /\ final' = Set(final, r, o)
                           /\ sent' = [sent EXCEPT ![r][m].outcome = o]
  BY OutcomeTypes DEF Reply
<1>2. /\ pc[r] = "inflight" /\ pc'[r] = "decide" /\ Asked(r)
      /\ attempt'[r] = attempt[r] /\ final'[r] = o
      /\ retryEvents'[r] = retryEvents[r] /\ result'[r] = result[r] /\ suppressed' = suppressed
      /\ totalAttempts'[r] = totalAttempts[r]
  BY <1>1 DEF Reply, Goto, Set, Typed, CallTypes, Asked, fixed, budgetVars
<1>3. /\ attempt[r] \in Nat /\ Made(r) = m /\ retryEvents[r] = attempt[r]
      /\ attempt[r] <= limit[r] /\ sent[r] \in Seq(Attempt) /\ ~call[r].skip
      /\ Limiting(r) /\ Records(r) /\ r \notin suppressed /\ result[r] = <<>>
  BY <1>2, Before DEF Progress, Standing, Refused, Over
<1>4. m \in 1 .. Len(sent[r]) /\ Len(sent[r]) = m
  BY <1>3 DEF Made
<1> DEFINE t == [sent[r] EXCEPT ![m].outcome = o]
<1>5. /\ t \in Seq(Attempt) /\ Len(t) = m
      /\ \A i \in 1 .. m : i # m => t[i] = sent[r][i]
      /\ t[m].outcome = o /\ t[m].noMore = sent[r][m].noMore /\ t[m].reason = sent[r][m].reason
  BY <1>3, <1>4, AnswerFacts
<1>6. sent' = [sent EXCEPT ![r] = t] /\ sent'[r] = t
  BY <1>1 DEF Recorded, SeenTypes
<1> HIDE DEF t
<1>7. SeenTypes'
  BY <1>5, <1>6 DEF Reply, Recorded, SeenTypes
<1>8. Made(r)' = m /\ policy(r)' = policy(r)
  BY <1>2, <1>5, <1>6, AskedFacts DEF Made
<1>9. Limiting(r)' /\ Progress(r)'
  BY <1>2, <1>3, <1>5, <1>6, <1>8 DEF Limiting, Progress, Asked
<1>10. Records(r)'
  <2>1. SUFFICES ASSUME NEW i \in 1 .. m
                 PROVE  /\ t[i].noMore <=> (i - 1 = limit[r] \/ call[r].noMore)
                        /\ i > 1 => /\ RetryableOutcome(policy(r), t[i - 1].outcome)
                                    /\ t[i].reason = retryReason(t[i - 1].outcome)
    BY <1>2, <1>6, <1>8 DEF Records, Asked
  <2>2. t[i].noMore = sent[r][i].noMore /\ t[i].reason = sent[r][i].reason
    BY <1>5
  <2>3. i > 1 => t[i - 1] = sent[r][i - 1]
    BY <1>3, <1>5
  <2> QED
    BY <1>2, <1>3, <2>2, <2>3 DEF Records
<1>11. Ended(r)' /\ Refused(r)' /\ Reported(r)'
  BY <1>2, <1>3 DEF Ended, Refused, Reported, Over
<1>12. Tallied(r)'
  BY <1>2, <1>3, <1>8, Before DEF Tallied
<1> QED
  BY <1>7, <1>9, <1>10, <1>11, <1>12 DEF RecordOf

\* What the budget answers: ask again, go on, or a refusal on record.
LEMMA RefusalEffect ==
    ASSUME Typed, NEW r \in Requests, Reserve(r)
    PROVE  \/ pc'[r] = "finish" /\ r \in suppressed' /\ Enabled(budgetConfig(r))
           \/ pc'[r] \in {"reserve", "discard"} /\ suppressed' = suppressed
<1> DEFINE c == budgetConfig(r)
<1>1. /\ pc'[r] = CASE stage'[r] = "open"    -> "reserve"
                    [] stage'[r] = "granted" -> "discard"
                    [] stage'[r] = "final"   -> "finish"
  BY DEF Reserve, Goto, Typed, CallTypes
<1>2. Enabled(c) <=> Budget!Enabled(c)
  BY DEF Enabled, Budget!Enabled, Disabled, Budget!Disabled
<1>3. CASE Budget!Open(r, c)
  BY <1>1, <1>3 DEF Budget!Open
<1>4. CASE Budget!Trim(r, c)
  BY <1>1, <1>2, <1>4 DEF Budget!Trim, Typed, BudgetTypes
<1>5. CASE Budget!Bypass(r, c)
  BY <1>1, <1>5 DEF Budget!Bypass, Typed, BudgetTypes
<1>6. CASE Budget!Grant(r, c)
  BY <1>1, <1>6 DEF Budget!Grant, Typed, BudgetTypes
<1>7. CASE Budget!Deny(r, c)
  BY <1>1, <1>2, <1>7 DEF Budget!Deny, Typed, BudgetTypes
<1> QED
  BY <1>3, <1>4, <1>5, <1>6, <1>7 DEF Reserve

\* A call whose record stays as it is, with the outcome it has, when it goes on
\* to a step that has the same of it to keep.
LEMMA RecordKept ==
    ASSUME Typed, HeldWell, Recorded, NEW r \in Requests,
           pc[r] \notin {"idle", "skipped"}, pc'[r] \notin {"idle", "skipped"},
           Asked(r), Silent(r), attempt'[r] = attempt[r], last'[r] = last[r],
           final'[r] = final[r]
    PROVE  /\ Made(r)' = Made(r) /\ policy(r)' = policy(r) /\ Limiting(r)' /\ Records(r)'
           /\ Tallied(r)'
           /\ budgetConfig(r)' = budgetConfig(r) /\ (HasOverallCtx(r)' <=> HasOverallCtx(r))
<1>1. /\ Made(r)' = Made(r) /\ policy(r)' = policy(r) /\ budgetConfig(r)' = budgetConfig(r)
      /\ HasOverallCtx(r)' <=> HasOverallCtx(r)
  BY AskedFacts DEF Silent, Made
<1>2. Limiting(r)' /\ Records(r)'
  BY <1>1, Before DEF Limiting, Records, Asked, Silent
<1> QED
  BY <1>1, <1>2, Before, TallyKept DEF Silent

\* A retry is wanted, or the call is over for a reason: its attempts, its
\* outcome, its caller or its deadline.
LEMMA DecideRecorded ==
    ASSUME Typed, HeldWell, Recorded, Undated, NEW r \in Requests, Decide(r)
    PROVE  SeenTypes' /\ RecordOf(r)'
<1>1. SeenTypes'
  BY DEF Decide, Recorded, SeenTypes, seenOutside
<1>2. /\ pc[r] = "decide" /\ pc'[r] \in {"finish", "reserve"} /\ Asked(r) /\ Silent(r)
      /\ attempt'[r] = attempt[r] /\ last'[r] = last[r] /\ final'[r] = final[r]
      /\ suppressed' = suppressed
  BY DEF Decide, Goto, Typed, CallTypes, Asked, Silent, fixed, seenOutside, budgetVars
<1>3. /\ attempt[r] \in Nat /\ limit[r] \in Int /\ Made(r) = attempt[r] + 1
      /\ retryEvents[r] = attempt[r] /\ attempt[r] <= limit[r] /\ ~call[r].skip
      /\ final[r] = sent[r][Made(r)].outcome
      /\ Limiting(r) /\ Records(r) /\ r \notin suppressed /\ result[r] = <<>>
  BY <1>2, Before DEF Progress, Standing, Refused, Over
<1>4. /\ Made(r)' = Made(r) /\ policy(r)' = policy(r) /\ Limiting(r)' /\ Records(r)'
      /\ Tallied(r)'
      /\ HasOverallCtx(r)' <=> HasOverallCtx(r)
  BY <1>2, RecordKept
<1>5. pc'[r] = "reserve" => shouldRetry(r)
  BY DEF Decide, Goto, Typed, CallTypes
<1>6. Progress(r)'
  BY <1>2, <1>3, <1>4, <1>5 DEF Progress, Asked, Silent, shouldRetry
<1>7. Ended(r)'
  BY <1>2, <1>3, <1>4 DEF Ended, Asked, Silent
<1>8. ASSUME pc'[r] = "finish", attempt[r] < limit[r], RetryableOutcome(policy(r), final[r])
      PROVE  HasOverallCtx(r)
  <2>1. CASE left[r] < Never
    BY <1>2, <2>1, NeverType DEF Undated, UndatedCall
  <2>2. CASE ~(left[r] < Never)
    <3>1. left[r] \in Int /\ 0 <= Never
      BY SMT DEF Typed, TimerTypes, Never
    <3>2. left[r] >= 0 /\ ~HasOverallDeadline(r)
      BY <2>2, <3>1, NeverType DEF HasOverallDeadline
    <3>3. call[r].noMore
      BY <1>2, <1>8, <3>2 DEF Decide, Goto, Typed, CallTypes, shouldRetry
    <3>4. limit[r] = 0
      BY <1>2, <1>3, <3>3 DEF Limiting, RetryLimit
    <3> QED
      BY <1>3, <1>8, <3>4
  <2> QED
    BY <2>1, <2>2
<1>9. Refused(r)'
  BY <1>2, <1>3, <1>4, <1>8 DEF Refused, Over, Asked, Silent
<1>10. Reported(r)'
  BY <1>2 DEF Reported
<1> QED
  BY <1>1, <1>4, <1>6, <1>7, <1>9, <1>10 DEF RecordOf

LEMMA ReserveRecorded ==
    ASSUME Typed, HeldWell, Recorded, NEW r \in Requests, Reserve(r)
    PROVE  SeenTypes' /\ RecordOf(r)'
<1>1. SeenTypes'
  BY DEF Reserve, Recorded, SeenTypes, seenOutside
<1>2. /\ pc[r] = "reserve" /\ Asked(r) /\ Silent(r)
      /\ attempt'[r] = attempt[r] /\ last'[r] = last[r] /\ final'[r] = final[r]
  BY DEF Reserve, Asked, Silent, fixed, seenOutside
<1>3. /\ attempt[r] \in Nat /\ limit[r] \in Int /\ Made(r) = attempt[r] + 1
      /\ retryEvents[r] = attempt[r] /\ attempt[r] < limit[r] /\ ~call[r].skip
      /\ final[r] = sent[r][Made(r)].outcome /\ RetryableOutcome(policy(r), final[r])
      /\ r \notin suppressed /\ result[r] = <<>>
  BY <1>2, Before DEF Progress, Standing, Refused, Over
<1>4. \/ pc'[r] = "finish" /\ r \in suppressed' /\ Enabled(budgetConfig(r))
      \/ pc'[r] \in {"reserve", "discard"} /\ suppressed' = suppressed
  BY RefusalEffect
<1>5. /\ Made(r)' = Made(r) /\ policy(r)' = policy(r) /\ Limiting(r)' /\ Records(r)'
      /\ Tallied(r)'
      /\ budgetConfig(r)' = budgetConfig(r)
  BY <1>2, <1>4, RecordKept
<1>6. Progress(r)'
  BY <1>2, <1>3, <1>4, <1>5 DEF Progress, Asked, Silent
<1>7. Ended(r)' /\ Refused(r)' /\ Reported(r)'
  BY <1>2, <1>3, <1>4, <1>5 DEF Ended, Refused, Reported, Over, Asked, Silent
<1> QED
  BY <1>1, <1>5, <1>6, <1>7 DEF RecordOf

\* A retry is announced once, and made for what the attempt before it got.
LEMMA DiscardRecorded ==
    ASSUME Typed, HeldWell, Recorded, NEW r \in Requests, Discard(r)
    PROVE  SeenTypes' /\ RecordOf(r)'
<1>1. /\ pc[r] = "discard" /\ Asked(r) /\ last'[r] = final[r]
      /\ sent'[r] = sent[r] /\ result'[r] = result[r] /\ suppressed' = suppressed
      /\ retryEvents'[r] = retryEvents[r] + 1 /\ totalAttempts'[r] = totalAttempts[r]
      /\ \/ pc'[r] = "wait" /\ attempt'[r] = attempt[r]
         \/ pc'[r] = "prepare" /\ attempt'[r] = attempt[r] + 1
  BY DEF Discard, Goto, Set, Typed, CallTypes, Recorded, SeenTypes, Asked, fixed, budgetVars
<1>2. SeenTypes'
  BY DEF Discard, Recorded, SeenTypes
<1>3. /\ attempt[r] \in Nat /\ limit[r] \in Int /\ Made(r) = attempt[r] + 1
      /\ retryEvents[r] = attempt[r] /\ attempt[r] < limit[r] /\ ~call[r].skip
      /\ final[r] = sent[r][Made(r)].outcome /\ RetryableOutcome(policy(r), final[r])
      /\ Limiting(r) /\ Records(r) /\ r \notin suppressed /\ result[r] = <<>>
  BY <1>1, Before DEF Progress, Standing, Refused, Over
<1>4. Made(r)' = Made(r) /\ policy(r)' = policy(r)
  BY <1>1, AskedFacts DEF Made
<1>5. Limiting(r)' /\ Records(r)'
  BY <1>1, <1>3, <1>4 DEF Limiting, Records, Asked
<1>6. Progress(r)'
  BY <1>1, <1>3, <1>4 DEF Progress, Asked
<1>7. Ended(r)' /\ Refused(r)' /\ Reported(r)'
  BY <1>1, <1>3 DEF Ended, Refused, Reported, Over
<1>8. Tallied(r)'
  BY <1>1, Before, TallyKept
<1> QED
  BY <1>2, <1>5, <1>6, <1>7, <1>8 DEF RecordOf

LEMMA WaitOverRecorded ==
    ASSUME Typed, HeldWell, Recorded, NEW r \in Requests, WaitOver(r)
    PROVE  SeenTypes' /\ RecordOf(r)'
<1>1. /\ pc[r] = "wait" /\ pc'[r] = "prepare" /\ Asked(r) /\ Silent(r)
      /\ last'[r] = last[r] /\ suppressed' = suppressed /\ attempt'[r] = attempt[r] + 1
  BY DEF WaitOver, Goto, Typed, CallTypes, Asked, Silent, fixed, seenOutside, budgetVars
<1>2. SeenTypes'
  BY DEF WaitOver, Recorded, SeenTypes, seenOutside
<1>3. /\ attempt[r] \in Nat /\ limit[r] \in Int /\ Made(r) = attempt[r] + 1
      /\ retryEvents[r] = attempt[r] + 1 /\ attempt[r] < limit[r] /\ ~call[r].skip
      /\ last[r] = sent[r][Made(r)].outcome /\ RetryableOutcome(policy(r), last[r])
      /\ Limiting(r) /\ Records(r) /\ r \notin suppressed /\ result[r] = <<>>
  BY <1>1, Before DEF Progress, Standing, Refused, Over
<1>4. Made(r)' = Made(r) /\ policy(r)' = policy(r)
  BY <1>1, AskedFacts DEF Made, Silent
<1>5. Limiting(r)' /\ Records(r)'
  BY <1>1, <1>3, <1>4 DEF Limiting, Records, Asked, Silent
<1>6. Progress(r)'
  BY <1>1, <1>3, <1>4 DEF Progress, Asked, Silent
<1>7. Ended(r)' /\ Refused(r)' /\ Reported(r)'
  BY <1>1, <1>3 DEF Ended, Refused, Reported, Over
<1>8. Tallied(r)'
  BY <1>1, Before, TallyKept DEF Silent
<1> QED
  BY <1>2, <1>5, <1>6, <1>7, <1>8 DEF RecordOf

\* A call that is over stays as it is.
LEMMA OverRecorded ==
    ASSUME Typed, HeldWell, Recorded, NEW r \in Requests, Finish(r) \/ RecordSuccess(r)
    PROVE  SeenTypes' /\ RecordOf(r)'
<1>1. SeenTypes'
  BY DEF Finish, RecordSuccess, Recorded, SeenTypes, seenOutside
<1>2. suppressed' = suppressed
  BY ConfigType, SuppressedKept DEF Finish, RecordSuccess
<1>3. /\ pc[r] \in {"finish", "success"} /\ pc'[r] \in {"success", "report"}
      /\ Asked(r) /\ Silent(r)
      /\ attempt'[r] = attempt[r] /\ last'[r] = last[r] /\ final'[r] = final[r]
  BY DEF Finish, RecordSuccess, Goto, Typed, CallTypes, Asked, Silent, fixed, seenOutside
<1>4. /\ Made(r)' = Made(r) /\ policy(r)' = policy(r) /\ Limiting(r)' /\ Records(r)'
      /\ Tallied(r)'
      /\ budgetConfig(r)' = budgetConfig(r) /\ (HasOverallCtx(r)' <=> HasOverallCtx(r))
  BY <1>3, RecordKept
<1>5. Progress(r)'
  BY <1>3, Before DEF Progress, Silent
<1>6. Ended(r)' /\ Refused(r)' /\ Reported(r)'
  BY <1>2, <1>3, <1>4, Before DEF Ended, Refused, Reported, Over, Asked, Silent
<1> QED
  BY <1>1, <1>4, <1>5, <1>6 DEF RecordOf

\* The call reports once what it keeps.
LEMMA ReturnRecorded ==
    ASSUME Typed, HeldWell, Recorded, NEW r \in Requests, Return(r)
    PROVE  SeenTypes' /\ RecordOf(r)'
<1>1. /\ pc[r] = "report" /\ pc'[r] = "returned" /\ Asked(r)
      /\ sent' = sent /\ totalAttempts' = totalAttempts
      /\ retryEvents' = retryEvents /\ suppressed' = suppressed
      /\ attempt'[r] = attempt[r] /\ last'[r] = last[r] /\ final' = final
      /\ result' = [result EXCEPT ![r] = Append(result[r], Event(r))]
  BY DEF Return, Goto, Typed, CallTypes, Asked, fixed, budgetVars
<1>2. /\ final[r] \in Outcome /\ Made(r) \in Nat /\ result[r] = <<>> /\ ~call[r].skip
      /\ Limiting(r) /\ Records(r) /\ Ended(r) /\ Refused(r)
  BY <1>1, Before DEF Progress, Standing
<1>3. Event(r) \in ResultEvent
  BY <1>2 DEF Event, ResultEvent, Recorded, SeenTypes
<1>4. Event(r)' = Event(r)
  BY <1>1 DEF Event
<1> HIDE DEF Event
<1>5. /\ Append(result[r], Event(r)) \in Seq(ResultEvent)
      /\ Len(Append(result[r], Event(r))) = 1
      /\ Append(result[r], Event(r))[1] = Event(r)
  BY <1>2, <1>3
<1>6. SeenTypes'
  BY <1>1, <1>5 DEF Recorded, SeenTypes
<1>7. result'[r] = Append(result[r], Event(r))
  BY <1>1 DEF Recorded, SeenTypes
<1>8. /\ Made(r)' = Made(r) /\ policy(r)' = policy(r) /\ budgetConfig(r)' = budgetConfig(r)
      /\ HasOverallCtx(r)' <=> HasOverallCtx(r)
  BY <1>1, AskedFacts DEF Made
<1>9. Limiting(r)' /\ Records(r)' /\ Progress(r)'
  BY <1>1, <1>2, <1>8 DEF Limiting, Records, Progress, Asked
<1>10. Ended(r)' /\ Refused(r)'
  BY <1>1, <1>2, <1>8 DEF Ended, Refused, Over, Asked
<1>11. Reported(r)'
  BY <1>4, <1>5, <1>7 DEF Reported
<1>12. Tallied(r)'
  BY <1>1, Before, TallyKept
<1> QED
  BY <1>6, <1>9, <1>10, <1>11, <1>12 DEF RecordOf

LEMMA CallerClosesRecorded ==
    ASSUME Typed, HeldWell, Recorded, NEW r \in Requests, CallerCloses(r)
    PROVE  SeenTypes' /\ RecordOf(r)'
<1>1. SeenTypes'
  BY DEF CallerCloses, Recorded, SeenTypes, seenOutside
<1>2. /\ pc[r] = "returned" /\ pc'[r] = "closed" /\ Asked(r) /\ Silent(r)
      /\ attempt'[r] = attempt[r] /\ last'[r] = last[r] /\ final'[r] = final[r]
      /\ suppressed' = suppressed
  BY DEF CallerCloses, Goto, Typed, CallTypes, Asked, Silent, fixed, seenOutside, budgetVars
<1>3. /\ Made(r)' = Made(r) /\ policy(r)' = policy(r) /\ Limiting(r)' /\ Records(r)'
      /\ Tallied(r)'
      /\ budgetConfig(r)' = budgetConfig(r) /\ (HasOverallCtx(r)' <=> HasOverallCtx(r))
  BY <1>2, RecordKept
<1>4. Progress(r)'
  BY <1>2 DEF Progress
<1>5. Event(r)' = Event(r)
  BY <1>2 DEF Event, Silent
<1>6. Ended(r)' /\ Refused(r)' /\ Reported(r)'
  BY <1>2, <1>3, <1>5, Before DEF Ended, Refused, Reported, Over, Asked, Silent
<1> QED
  BY <1>1, <1>3, <1>4, <1>6 DEF RecordOf

LEMMA CancelRecorded ==
    ASSUME Typed, HeldWell, Recorded, NEW r \in Requests, Cancel(r)
    PROVE  SeenTypes' /\ RecordOf(r)'
<1>1. SeenTypes'
  BY DEF Cancel, Recorded, SeenTypes, seenOutside
<1>2. Same(r)
  BY DEF Cancel, Same, fixed, held, seenOutside, budgetVars
<1> QED
  BY <1>1, <1>2, SameRecorded DEF Recorded

-----------------------------------------------------------------------------
(* Timers of calls without a deadline *)

LEMMA DeadlineBounded ==
    ASSUME NEW c \in Calls, NEW p \in Policies
    PROVE  LET d == resolveOverallDeadline(c.header, c.context, p)
           IN  d \in Int /\ (~(d < Never) => d = Never)
<1>1. c.header \in Int /\ c.context \in Int /\ c.header <= Never /\ c.context <= Never
  BY RoundTripAssumption
<1>2. p.elapsed \in Int
  BY DEF Policies
<1> QED
  BY <1>1, <1>2, NeverType DEF resolveOverallDeadline, Least

LEMMA StepUndated ==
    ASSUME Typed, Undated, [Next]_vars
    PROVE  Undated'
<1> SUFFICES ASSUME NEW q \in Requests PROVE UndatedCall(q)'
  BY DEF Undated
<1>1. UndatedCall(q)
  BY DEF Undated
<1>2. ASSUME Same(q), left'[q] = left[q] PROVE UndatedCall(q)'
  BY <1>1, <1>2 DEF UndatedCall, Same, HasOverallCtx, policy
<1>3. CASE Tick
  <2>1. Ticked(Never) = Never
    BY DEF Ticked
  <2>2. left'[q] = Ticked(left[q]) /\ pc'[q] = pc[q] /\ (HasOverallCtx(q)' <=> HasOverallCtx(q))
    BY <1>3, AskedFacts DEF Tick, Asked, fixed
  <2> QED
    BY <1>1, <2>1, <2>2 DEF UndatedCall
<1>4. CASE Reconfigure \/ UNCHANGED vars
  BY <1>2, <1>4 DEF Reconfigure, vars, Same, budgetVars, fixed, timers, held, seenOutside
<1>5. ASSUME NEW r \in Requests, CallStep(r) PROVE UndatedCall(q)'
  <2>1. Others(r)
    BY <1>5, CallStepLocal
  <2>2. CASE Begin(r) /\ q = r
    <3>1. PICK c \in Calls :
              /\ call'[r] = c /\ ~c.skip
              /\ left'[r] = resolveOverallDeadline(c.header, c.context, policy(r)')
      BY <2>2 DEF Begin, Set, Typed, CallTypes, TimerTypes
    <3>2. policy(r)' \in Policies
      BY <2>2, BeginLocal DEF Local, CallTypes, policy, Plans
    <3> QED
      BY <2>2, <3>1, <3>2, DeadlineBounded DEF UndatedCall, HasOverallCtx
  <2>3. CASE (BeginSkipped(r) \/ SkippedReply(r) \/ Return(r)) /\ q = r
    BY <2>3 DEF BeginSkipped, SkippedReply, Return, Goto, Typed, CallTypes, UndatedCall
  <2>4. CASE left'[q] = left[q] /\ q # r
    BY <1>2, <2>1, <2>4 DEF Others
  <2>5. q # r => left'[q] = left[q]
    BY <1>5 DEF CallStep, Run, Begin, BeginSkipped, NoBody, NoTime, PrepareFails, Send, Reply,
                SkippedReply, Decide, Reserve, Discard, WaitOver, WaitCut, Finish,
                RecordSuccess, Return, Cancel, CallerCloses, Set, timers, Typed, TimerTypes
  <2>6. ASSUME q = r, ~Begin(r), ~BeginSkipped(r), ~SkippedReply(r), ~Return(r)
        PROVE  UndatedCall(q)'
    <3>1. left' = left /\ call' = call /\ plan' = plan
      BY <1>5, <2>6
         DEF CallStep, Run, NoBody, NoTime, PrepareFails, Send, Reply, Decide, Reserve, Discard,
             WaitOver, WaitCut, Finish, RecordSuccess, Cancel, CallerCloses, fixed, timers
    <3>2. \/ pc[r] \notin {"idle", "skipped", "returned", "closed"}
          \/ pc'[r] = pc[r] \/ pc'[r] = "closed"
      BY <1>5, <2>6
         DEF CallStep, Run, NoBody, NoTime, PrepareFails, Send, Reply, Decide, Reserve, Discard,
             WaitOver, WaitCut, Finish, RecordSuccess, Cancel, CallerCloses, Goto, Typed, CallTypes
    <3>3. HasOverallCtx(q)' <=> HasOverallCtx(q)
      BY <3>1 DEF HasOverallCtx, policy
    <3> QED
      BY <1>1, <2>6, <3>1, <3>2, <3>3 DEF UndatedCall
  <2> QED
    BY <1>5, <2>2, <2>3, <2>4, <2>5, <2>6
<1> QED
  BY <1>3, <1>4, <1>5 DEF Next, Terminated, CallStep

-----------------------------------------------------------------------------
(* Theorems *)

LEMMA CallRecorded ==
    ASSUME Typed, HeldWell, Recorded, Undated, NEW r \in Requests, CallStep(r)
    PROVE  SeenTypes' /\ RecordOf(r)'
<1>1. CASE Begin(r) \/ BeginSkipped(r) \/ Reply(r) \/ SkippedReply(r) \/ Cancel(r)
              \/ CallerCloses(r)
  BY <1>1, BeginRecorded, BeginSkippedRecorded, ReplyRecorded, SkippedReplyRecorded,
     CancelRecorded, CallerClosesRecorded
<1>2. CASE Run(r)
  BY <1>2, PrepareFailsRecorded, SendRecorded, DecideRecorded, ReserveRecorded,
     DiscardRecorded, WaitOverRecorded, WaitCutRecorded, OverRecorded, ReturnRecorded
     DEF Run
<1> QED
  BY <1>1, <1>2 DEF CallStep

LEMMA StepRecorded ==
    Typed /\ HeldWell /\ Recorded /\ Undated /\ [Next]_vars => Recorded' /\ Undated'
<1> SUFFICES ASSUME Typed, HeldWell, Recorded, Undated, [Next]_vars
             PROVE  Recorded' /\ Undated'
  OBVIOUS
<1>1. Undated'
  BY StepUndated
<1>2. CASE Reconfigure \/ Tick \/ UNCHANGED vars
  <2>1. SeenTypes'
    BY <1>2 DEF Reconfigure, Tick, vars, Recorded, SeenTypes, seenOutside
  <2>2. \A q \in Requests : Same(q)
    BY <1>2 DEF Reconfigure, Tick, vars, Same, budgetVars, fixed, held, seenOutside
  <2>3. \A q \in Requests : RecordOf(q)'
    BY <2>2, SameRecorded DEF Recorded
  <2> QED
    BY <1>1, <2>1, <2>3 DEF Recorded
<1>3. ASSUME NEW r \in Requests, CallStep(r) PROVE Recorded'
  <2>1. SeenTypes' /\ RecordOf(r)'
    BY <1>3, CallRecorded
  <2>2. ASSUME NEW q \in Requests, q # r PROVE RecordOf(q)'
    BY <1>3, <2>2, CallStepLocal, SameRecorded DEF Others, Recorded
  <2> QED
    BY <2>1, <2>2 DEF Recorded
<1> QED
  BY <1>1, <1>2, <1>3 DEF Next, Terminated, CallStep

LEMMA InitRecorded == Init => Recorded /\ Undated
<1> SUFFICES ASSUME Init PROVE Recorded /\ Undated
  OBVIOUS
<1>1. <<>> \in Seq(Attempt) /\ <<>> \in Seq(ResultEvent)
  BY EmptySeq
<1>2. SeenTypes
  BY <1>1 DEF Init, SeenTypes
<1>3. ASSUME NEW r \in Requests PROVE RecordOf(r)
  <2>1. Tallied(r)
    BY EmptySeq DEF Init, Tallied, Made
  <2> QED
    BY <2>1 DEF Init, Budget!Init, RecordOf, Limiting, Progress, Records, Ended, Refused,
                Reported, Over
<1> QED
  BY <1>2, <1>3 DEF Init, Recorded, Undated, UndatedCall

LEMMA RecordedAlways == Spec => [](Typed /\ HeldWell /\ Recorded)
<1>1. Init => Typed /\ HeldWell /\ Recorded /\ Undated
  BY InitHeld, InitRecorded
<1>2. Typed /\ HeldWell /\ Recorded /\ Undated /\ [Next]_vars =>
          Typed' /\ HeldWell' /\ Recorded' /\ Undated'
  BY StepHeld, StepRecorded
<1> QED
  BY <1>1, <1>2, PTL DEF Spec

\* A caller gets the outcome of the last attempt there was, or the error of the
\* retry that was announced and could not start, for any number of calls, any
\* policies and any answers (transport.go:149-158, 171-196, 224-229).
THEOREM OutcomeKeptAlways == Spec => []OutcomeKept
<1>1. Typed /\ HeldWell /\ Recorded => OutcomeKept
  <2> SUFFICES ASSUME Typed, HeldWell, Recorded, NEW r \in Requests,
                      Governed(r), Returned(r), sent[r] # <<>>
               PROVE  IF retryEvents[r] = Made(r) - 1
                      THEN final[r] = sent[r][Made(r)].outcome
                      ELSE /\ retryEvents[r] = Made(r)
                           /\ final[r].err \in {"canceled", "deadline", "body"}
    BY DEF OutcomeKept, Made
  <2>1. Made(r) # 0
    BY Before, EmptySeq DEF Made
  <2> QED
    BY <2>1, Before DEF Governed, Returned, Ended, Over
<1> QED
  BY <1>1, RecordedAlways, PTL

\* The one event of a call tells what happened to it (transport.go:171-196, 234,
\* 561-591).
THEOREM EventTrueAlways == Spec => []EventTrue
<1>1. Typed /\ HeldWell /\ Recorded => EventTrue
  <2> SUFFICES ASSUME Typed, HeldWell, Recorded, NEW r \in Requests, Governed(r), Returned(r)
               PROVE  /\ Len(result[r]) = 1
                      /\ result[r][1].attempts = Made(r)
                      /\ result[r][1].outcome = final[r]
                      /\ result[r][1].suppressed =>
                             /\ Made(r) <= limit[r]
                             /\ RetryableOutcome(policy(r), final[r])
                             /\ Enabled(budgetConfig(r))
                      /\ /\ sent[r] # <<>> /\ Made(r) <= limit[r]
                         /\ retryEvents[r] = Made(r) - 1
                         /\ RetryableOutcome(policy(r), final[r])
                         => result[r][1].suppressed \/ HasOverallCtx(r)
    BY DEF EventTrue, Made
  <2>1. Len(result[r]) = 1 /\ result[r][1] = Event(r) /\ Over(r)
    BY Before DEF Governed, Returned, Reported, Over
  <2>2. sent[r] # <<>> => Made(r) > 0
    BY Before, EmptySeq DEF Made
  <2>3. /\ result[r][1].attempts = Made(r) /\ result[r][1].outcome = final[r]
        /\ result[r][1].suppressed = (r \in suppressed)
    <3>1. totalAttempts[r] = Made(r)
      BY Before DEF Governed, Tallied
    <3>2. /\ Event(r).attempts = Made(r) /\ Event(r).outcome = final[r]
          /\ Event(r).suppressed = (r \in suppressed)
      BY <3>1 DEF Event
    <3> QED
      BY <2>1, <3>2
  <2>4. Refused(r)
    BY Before
  <2> QED
    BY <2>1, <2>2, <2>3, <2>4 DEF Refused
<1> QED
  BY <1>1, RecordedAlways, PTL

-----------------------------------------------------------------------------
(* Under policies that make sense *)

\* An application's own policy, used without a provider, has no negative
\* MaxRetries; a provider's is normalized.
RetriesSound == \A g \in Generations : g.provider \/ g.policy.retries >= 0

\* So have the policies installed and resolved.
Sound ==
    /\ generation \in Generations
    /\ \A r \in Requests :
           pc[r] \notin {"idle", "skipped"} /\ ~call[r].skip => policy(r).retries >= 0

LEMMA ResolvedSound ==
    ASSUME RetriesSound, NEW g \in Generations
    PROVE  Resolved(g).policy.retries >= 0
<1> DEFINE p == g.policy
<1>1. g \in Plans /\ p \in Policies
  BY RoundTripAssumption DEF Plans, Policies
<1>2. normalizeRetryPolicy(p).retries = IF p.retries < 0 THEN 0 ELSE p.retries
  BY <1>1 DEF normalizeRetryPolicy, Policies
<1>3. p.retries \in Int /\ (g.provider \/ p.retries >= 0)
  BY <1>1 DEF Policies, RetriesSound
<1>4. g.provider => Resolved(g).policy = normalizeRetryPolicy(p)
  BY <1>1 DEF Resolved, Plans
<1>5. ~g.provider => Resolved(g).policy = p
  BY DEF Resolved
<1> QED
  BY <1>2, <1>3, <1>4, <1>5

LEMMA StepSound ==
    ASSUME RetriesSound, Typed, HeldWell, Sound, [Next]_vars
    PROVE  Sound'
<1>1. generation' \in Generations
  BY DEF Sound, Next, Terminated, vars, Reconfigure, Tick, Begin, BeginSkipped, Run, NoBody,
         NoTime, PrepareFails, Send, Reply, SkippedReply, Decide, Reserve, Discard, WaitOver,
         WaitCut, Finish, RecordSuccess, Return, Cancel, CallerCloses, fixed
<1>2. ASSUME NEW q \in Requests, Same(q), pc'[q] \notin {"idle", "skipped"}, ~call'[q].skip
      PROVE  policy(q)'.retries >= 0
  BY <1>2 DEF Sound, Same, policy
<1>3. ASSUME NEW r \in Requests, CallStep(r), pc'[r] \notin {"idle", "skipped"}, ~call'[r].skip
      PROVE  policy(r)'.retries >= 0
  <2>1. CASE Begin(r)
    BY <2>1, ResolvedSound DEF Begin, Set, policy, Sound, Typed, CallTypes
  <2>2. CASE BeginSkipped(r)
    BY <1>3, <2>2 DEF BeginSkipped, Goto, Typed, CallTypes
  <2>3. CASE ~Begin(r) /\ ~BeginSkipped(r)
    <3>1. call' = call /\ plan' = plan /\ pc[r] # "idle"
      BY <1>3, <2>3
         DEF CallStep, Run, NoBody, NoTime, PrepareFails, Send, Reply, SkippedReply, Decide,
             Reserve, Discard, WaitOver, WaitCut, Finish, RecordSuccess, Return, Cancel,
             CallerCloses, fixed
    <3>2. pc[r] # "skipped"
      BY <1>3, <3>1 DEF HeldWell, Standing
    <3> QED
      BY <1>3, <3>1, <3>2 DEF Sound, policy
  <2> QED
    BY <2>1, <2>2, <2>3
<1>4. ASSUME NEW q \in Requests, pc'[q] \notin {"idle", "skipped"}, ~call'[q].skip
      PROVE  policy(q)'.retries >= 0
  <2>1. CASE Quiet
    BY <1>2, <1>4, <2>1 DEF Quiet
  <2>2. ASSUME NEW r \in Requests, CallStep(r), Others(r) PROVE policy(q)'.retries >= 0
    BY <1>2, <1>3, <1>4, <2>2 DEF Others
  <2> QED
    BY <2>1, <2>2, StepLocal
<1> QED
  BY <1>1, <1>4 DEF Sound

LEMMA SoundAlways ==
    ASSUME RetriesSound
    PROVE  Spec => [](Typed /\ HeldWell /\ Recorded /\ Sound)
<1>1. Init => Sound
  BY DEF Init, Sound
<1>2. Typed /\ HeldWell /\ Sound /\ [Next]_vars => Sound'
  BY StepSound
<1> QED
  BY <1>1, <1>2, RecordedAlways, PTL DEF Spec

\* A call makes no more attempts than its policy, its body and the chain allow,
\* each after one that may be retried, and says of the last that it is, for any
\* number of calls and any policies but an application's own whose MaxRetries is
\* negative (transport.go:130-148, 270-279, 490).
THEOREM AmplificationBoundedAlways ==
    ASSUME RetriesSound
    PROVE  Spec => []AmplificationBounded
<1>1. Typed /\ HeldWell /\ Recorded /\ Sound => AmplificationBounded
  <2> SUFFICES ASSUME Typed, HeldWell, Recorded, Sound, NEW r \in Requests, Governed(r)
               PROVE  /\ Made(r) <= policy(r).retries + 1
                      /\ call[r].noMore \/ (call[r].body /\ ~call[r].replayable) =>
                             Made(r) <= 1
                      /\ Made(r) > policy(r).retries => sent[r][Made(r)].noMore
                      /\ \A i \in 1 .. Made(r) :
                           /\ call[r].noMore => sent[r][i].noMore
                           /\ sent[r][i].noMore => i = Made(r)
                           /\ i > 1 =>
                                /\ RetryableOutcome(policy(r), sent[r][i - 1].outcome)
                                /\ sent[r][i].reason = retryReason(sent[r][i - 1].outcome)
    BY DEF AmplificationBounded, Made
  <2> DEFINE most == policy(r).retries  n == Made(r)
  <2>1. ~call[r].skip /\ pc[r] # "idle" /\ pc[r] # "skipped"
    BY Before DEF Governed, Standing
  <2>2. most \in Int /\ most >= 0 /\ n \in Nat
    BY <2>1, Before DEF Sound, Typed, CallTypes, policy, Plans, Policies
  <2>3. /\ limit[r] = IF call[r].noMore \/ (most > 0 /\ call[r].body /\ ~call[r].replayable)
                      THEN 0 ELSE most
    BY <2>1, Before DEF Limiting, RetryLimit
  <2>4. n <= limit[r] + 1
    <3>1. CASE pc[r] = "prepare"
      BY <2>2, <3>1, Before DEF Progress
    <3>2. CASE pc[r] \in {"inflight", "decide", "reserve", "discard", "wait"}
      BY <3>2, Before DEF Progress
    <3>3. CASE Over(r)
      BY <2>2, <2>3, <3>3, Before DEF Ended
    <3> QED
      BY <2>1, <3>1, <3>2, <3>3, Before DEF Labels, Over
  <2>5. \A i \in 1 .. n :
          /\ sent[r][i].noMore <=> (i - 1 = limit[r] \/ call[r].noMore)
          /\ i > 1 => /\ RetryableOutcome(policy(r), sent[r][i - 1].outcome)
                      /\ sent[r][i].reason = retryReason(sent[r][i - 1].outcome)
    BY <2>1, Before DEF Records
  <2> HIDE DEF most, n
  <2>6. n <= most + 1 /\ (call[r].noMore \/ (call[r].body /\ ~call[r].replayable) => n <= 1)
    BY <2>2, <2>3, <2>4
  <2>7. n > most => n \in 1 .. n /\ n - 1 = limit[r]
    BY <2>2, <2>3, <2>4
  <2>8. \A i \in 1 .. n : (i - 1 = limit[r] \/ call[r].noMore) => i = n
    BY <2>2, <2>3, <2>4, <2>6
  <2> QED
    BY <2>5, <2>6, <2>7, <2>8 DEF most, n
<1> QED
  BY <1>1, SoundAlways, PTL

\* The caller's body is open until its attempt has been answered, and no later.
CallersBody(r) ==
    0 \in reqBody[r] => attempt[r] = 0 /\ pc[r] \in {"prepare", "inflight", "skipped"}

\* From its first answer a call has an outcome, except while a retry is under way.
Answered(r) ==
    pc[r] \in {"decide", "reserve", "discard", "finish", "success", "report", "returned",
              "closed"} => final[r] # Nothing

BodiesClosing == \A r \in Requests : CallersBody(r)
Answering == \A r \in Requests : Answered(r)

\* A response and an error are something.
LEMMA SomethingFacts ==
    /\ \A o : HasResponse(o) => o # Nothing
    /\ \A e \in {"canceled", "deadline", "body"} : Error(e) # Nothing
<1>1. Nothing.status = 0 /\ Nothing.err = "none"
  BY DEF Nothing, Error
<1>2. \A e \in {"canceled", "deadline", "body"} : Error(e).err = e
  BY DEF Error
<1> QED
  BY <1>1, <1>2 DEF HasResponse

LEMMA CallersBodyStep ==
    ASSUME Typed, HeldWell, Sound', BodiesClosing, NEW r \in Requests, CallStep(r)
    PROVE  CallersBody(r)'
<1>1. /\ pc[r] \in Labels /\ attempt[r] \in Nat /\ Standing(r) /\ CallersBody(r)
  BY DEF Typed, CallTypes, HeldWell, BodiesClosing
<1>2. CASE Begin(r)
  <2>1. /\ pc[r] = "idle" /\ attempt'[r] = attempt[r] /\ ~call'[r].skip
        /\ limit'[r] = RetryLimit(call'[r], policy(r)')
        /\ pc'[r] = IF limit'[r] >= 0 THEN "prepare" ELSE "finish"
    BY <1>2 DEF Begin, Goto, Set, Typed, CallTypes
  <2>2. policy(r)'.retries >= 0
    BY <2>1 DEF Sound
  <2>3. limit'[r] >= 0
    BY <2>1, <2>2 DEF RetryLimit
  <2> QED
    BY <1>1, <2>1, <2>3 DEF Standing, CallersBody
<1>3. CASE BeginSkipped(r)
  BY <1>1, <1>3 DEF BeginSkipped, Goto, Set, Typed, CallTypes, Standing, CallersBody
<1>4. CASE NoBody(r)
  BY <1>1, <1>4 DEF NoBody, NeedsBody, PrepareFails, Goto, Typed, CallTypes, CallersBody
<1>5. CASE NoTime(r)
  <2>1. reqBody'[r] = BodiesWithoutTime(r) /\ pc[r] = "prepare"
    BY <1>5 DEF NoTime, Set, Typed, HeldTypes
  <2>2. 0 \notin BodiesWithoutTime(r)
    BY <1>1, <2>1 DEF BodiesWithoutTime, CallersBody
  <2> QED
    BY <2>1, <2>2 DEF CallersBody
<1>6. CASE Send(r)
  <2>1. /\ pc[r] = "prepare" /\ pc'[r] = "inflight" /\ attempt'[r] = attempt[r]
        /\ reqBody'[r] = IF NeedsBody(r) THEN reqBody[r] \cup {attempt[r]} ELSE reqBody[r]
    BY <1>6 DEF Send, Goto, Typed, CallTypes, HeldTypes
  <2> QED
    BY <1>1, <2>1 DEF NeedsBody, CallersBody
<1>7. CASE Reply(r)
  <2>1. pc[r] = "inflight" /\ reqBody'[r] = reqBody[r] \ {attempt[r]}
    BY <1>7 DEF Reply, Typed, HeldTypes
  <2> QED
    BY <1>1, <2>1 DEF CallersBody
<1>8. CASE SkippedReply(r)
  BY <1>8 DEF SkippedReply, Set, Typed, HeldTypes, CallersBody
<1>9. CASE Cancel(r)
  BY <1>1, <1>9 DEF Cancel, held, CallersBody
<1>10. CASE \/ Decide(r) \/ Reserve(r) \/ Discard(r) \/ WaitOver(r) \/ WaitCut(r)
            \/ Finish(r) \/ RecordSuccess(r) \/ Return(r) \/ CallerCloses(r)
  <2>1. reqBody' = reqBody /\ pc[r] \notin {"prepare", "inflight", "skipped"}
    BY <1>10 DEF Decide, Reserve, Discard, WaitOver, WaitCut, Finish, RecordSuccess, Return,
                 CallerCloses, held
  <2> QED
    BY <1>1, <2>1 DEF CallersBody
<1> QED
  BY <1>2, <1>3, <1>4, <1>5, <1>6, <1>7, <1>8, <1>9, <1>10 DEF CallStep, Run

LEMMA AnsweredStep ==
    ASSUME Nothing \notin Replies,
           Typed, HeldWell, Sound', Answering, NEW r \in Requests, CallStep(r)
    PROVE  Answered(r)'
<1>1. pc[r] \in Labels /\ Answered(r)
  BY DEF Typed, CallTypes, Answering
<1>2. CASE Begin(r)
  <2>1. /\ ~call'[r].skip
        /\ limit'[r] = RetryLimit(call'[r], policy(r)')
        /\ pc'[r] = IF limit'[r] >= 0 THEN "prepare" ELSE "finish"
    BY <1>2 DEF Begin, Goto, Set, Typed, CallTypes
  <2>2. policy(r)'.retries >= 0
    BY <2>1 DEF Sound
  <2>3. limit'[r] >= 0
    BY <2>1, <2>2 DEF RetryLimit
  <2> QED
    BY <2>1, <2>3 DEF Answered
<1>3. CASE BeginSkipped(r) \/ Send(r) \/ Discard(r) \/ WaitOver(r)
  <2>1. pc'[r] \in {"skipped", "inflight", "wait", "prepare"}
    BY <1>3 DEF BeginSkipped, Send, Discard, WaitOver, Goto, Typed, CallTypes
  <2> QED
    BY <2>1 DEF Answered
<1>4. CASE NoBody(r) \/ NoTime(r) \/ WaitCut(r)
  <2>1. \E e \in {"canceled", "deadline", "body"} : final'[r] = Error(e)
    BY <1>4 DEF NoBody, NoTime, WaitCut, PrepareFails, ContextErrors, Set, Typed, CallTypes
  <2> QED
    BY <2>1, SomethingFacts DEF Answered
<1>5. CASE Reply(r) \/ SkippedReply(r)
  <2>1. final'[r] \in Outcomes(r)
    BY <1>5 DEF Reply, SkippedReply, Set, Typed, CallTypes
  <2>2. Nothing \notin Outcomes(r)
    BY SomethingFacts DEF Outcomes, ContextErrors
  <2> QED
    BY <2>1, <2>2 DEF Answered
<1>6. CASE Cancel(r)
  BY <1>1, <1>6 DEF Cancel, Answered
<1>7. CASE \/ Decide(r) \/ Reserve(r) \/ Finish(r) \/ RecordSuccess(r) \/ Return(r)
           \/ CallerCloses(r)
  <2>1. /\ final' = final
        /\ pc[r] \in {"decide", "reserve", "finish", "success", "report", "returned"}
    BY <1>7 DEF Decide, Reserve, Finish, RecordSuccess, Return, CallerCloses
  <2> QED
    BY <1>1, <2>1 DEF Answered
<1> QED
  BY <1>2, <1>3, <1>4, <1>5, <1>6, <1>7 DEF CallStep, Run

\* The body of the caller is closed when the call returns, also when no attempt
\* was made, for any number of calls and any policies but an application's own
\* whose MaxRetries is negative (transport.go:152-154).
THEOREM CallersBodyClosedAlways ==
    ASSUME RetriesSound
    PROVE  Spec => []CallersBodyClosed
<1>1. Init => BodiesClosing
  BY DEF Init, BodiesClosing, CallersBody
<1>2. Typed /\ HeldWell /\ Sound' /\ BodiesClosing /\ [Next]_vars => BodiesClosing'
  <2> SUFFICES ASSUME Typed, HeldWell, Sound', BodiesClosing, [Next]_vars
               PROVE  BodiesClosing'
    OBVIOUS
  <2>1. ASSUME NEW q \in Requests, Same(q) PROVE CallersBody(q)'
    BY <2>1 DEF Same, BodiesClosing, CallersBody
  <2>2. CASE Quiet
    BY <2>1, <2>2 DEF Quiet, BodiesClosing
  <2>3. ASSUME NEW r \in Requests, CallStep(r), Others(r) PROVE BodiesClosing'
    BY <2>1, <2>3, CallersBodyStep DEF Others, BodiesClosing
  <2> QED
    BY <2>2, <2>3, StepLocal
<1>3. BodiesClosing => CallersBodyClosed
  BY DEF BodiesClosing, CallersBody, CallersBodyClosed, Returned
<1> QED
  BY <1>1, <1>2, <1>3, SoundAlways, PTL DEF Spec

\* A call never ends with neither a response nor an error, provided the wrapped
\* RoundTripper keeps its contract and never answers with neither, for any number
\* of calls and any policies but an application's own whose MaxRetries is
\* negative (transport.go:235-244).
THEOREM EveryCallAnsweredAlways ==
    ASSUME RetriesSound, Nothing \notin Replies
    PROVE  Spec => []EveryCallAnswered
<1>1. Init => Answering
  BY DEF Init, Answering, Answered
<1>2. Typed /\ HeldWell /\ Sound' /\ Answering /\ [Next]_vars => Answering'
  <2> SUFFICES ASSUME Typed, HeldWell, Sound', Answering, [Next]_vars
               PROVE  Answering'
    OBVIOUS
  <2>1. ASSUME NEW q \in Requests, Same(q) PROVE Answered(q)'
    BY <2>1 DEF Same, Answering, Answered
  <2>2. CASE Quiet
    BY <2>1, <2>2 DEF Quiet, Answering
  <2>3. ASSUME NEW r \in Requests, CallStep(r), Others(r) PROVE Answering'
    BY <2>1, <2>3, AnsweredStep DEF Others, Answering
  <2> QED
    BY <2>2, <2>3, StepLocal
<1>3. Answering => EveryCallAnswered
  BY DEF Answering, Answered, EveryCallAnswered, Returned
<1> QED
  BY <1>1, <1>2, <1>3, SoundAlways, PTL DEF Spec

-----------------------------------------------------------------------------
(* The budget the calls share.  Budget and Atomic instantiate the same      *)
(* definitions twice; the theorems of TokenBucketProofs are about the       *)
(* second.                                                                  *)

Atomic == INSTANCE TokenBucketProofs

LEMMA SameParameters ==
    /\ Budget!NoReservation = Atomic!NoReservation
    /\ \A c \in Configs : Budget!Enabled(c) <=> Atomic!Enabled(c)
    /\ \A b, x, y : Budget!Replenished(b, x, y) = Atomic!Replenished(b, x, y)
BY DEF Budget!NoReservation, Atomic!NoReservation, Budget!Enabled, Atomic!Enabled,
       Budget!Disabled, Atomic!Disabled, Budget!Replenished, Atomic!Replenished

LEMMA SameCardinality ==
    ASSUME NEW S PROVE Budget!Cardinality(S) = Atomic!Cardinality(S)
BY DEF Budget!Cardinality, Atomic!Cardinality

LEMMA SameBudgetNext == Budget!Next => Atomic!Next
<1> SUFFICES ASSUME Budget!Next PROVE Atomic!Next
  OBVIOUS
<1>1. ASSUME NEW r \in Requests,
             Budget!Commit(r) \/ Budget!Refund(r) \/ Budget!Stop(r) \/ Budget!Close(r)
      PROVE  Atomic!Commit(r) \/ Atomic!Refund(r) \/ Atomic!Stop(r) \/ Atomic!Close(r)
  BY <1>1, SameParameters
     DEF Budget!Commit, Atomic!Commit, Budget!Refund, Atomic!Refund, Budget!Stop,
         Atomic!Stop, Budget!Close, Atomic!Close, Budget!data, Atomic!data
<1>2. ASSUME NEW r \in Requests, NEW c \in Configs,
             Budget!Open(r, c) \/ Budget!Trim(r, c) \/ Budget!Bypass(r, c)
      PROVE  Atomic!Open(r, c) \/ Atomic!Trim(r, c) \/ Atomic!Bypass(r, c)
  BY <1>2, SameParameters
     DEF Budget!Open, Atomic!Open, Budget!Trim, Atomic!Trim, Budget!Bypass,
         Atomic!Bypass, Budget!data, Atomic!data
<1>3. ASSUME NEW r \in Requests, NEW c \in Configs,
             Budget!Grant(r, c) \/ Budget!Deny(r, c) \/ Budget!Credit(r, c)
      PROVE  Atomic!Grant(r, c) \/ Atomic!Deny(r, c) \/ Atomic!Credit(r, c)
  BY <1>3, SameParameters
     DEF Budget!Grant, Atomic!Grant, Budget!Deny, Atomic!Deny, Budget!Credit,
         Atomic!Credit, Budget!data, Atomic!data
<1> QED
  BY <1>1, <1>2, <1>3 DEF Budget!Next, Atomic!Next

\* What a step of a call does to the budget is one operation of it, or none.
LEMMA CallBudgetStep ==
    ASSUME Typed, NEW r \in Requests, CallStep(r)
    PROVE  Budget!Next \/ UNCHANGED Budget!vars
<1>1. budgetConfig(r) \in Configs
  BY ConfigType
<1>2. CASE \/ Begin(r) \/ BeginSkipped(r) \/ Reply(r) \/ SkippedReply(r) \/ Cancel(r)
           \/ CallerCloses(r) \/ Decide(r) \/ Discard(r) \/ WaitOver(r) \/ Return(r)
  BY <1>2 DEF Begin, BeginSkipped, Reply, SkippedReply, Cancel, CallerCloses, Decide, Discard,
              WaitOver, Return, budgetVars, Budget!vars, Budget!data
<1>3. CASE NoBody(r) \/ NoTime(r) \/ WaitCut(r)
  BY <1>3 DEF NoBody, NoTime, WaitCut, PrepareFails, RefundPending, budgetVars, Budget!vars,
              Budget!data, Budget!Next
<1>4. CASE Send(r)
  BY <1>4 DEF Send, budgetVars, Budget!vars, Budget!data, Budget!Next
<1>5. CASE Reserve(r)
  BY <1>1, <1>5 DEF Reserve, Budget!Next
<1>6. CASE Finish(r) \/ RecordSuccess(r)
  BY <1>1, <1>6 DEF Finish, RecordSuccess, budgetVars, Budget!vars, Budget!data, Budget!Next
<1> QED
  BY <1>2, <1>3, <1>4, <1>5, <1>6 DEF CallStep, Run

\* The calls use the budget only as TokenBucket allows, whatever happens to
\* them: a retry is asked for, then sent or given back, and a success is recorded
\* once (transport.go:150-161, 183-231).
THEOREM CallsKeepToTheBucket == Spec => Budget!Spec
<1>1. Init => Budget!Init
  BY DEF Init
<1>2. Typed /\ [Next]_vars => [Budget!Next]_(Budget!vars)
  <2> SUFFICES ASSUME Typed, [Next]_vars PROVE Budget!Next \/ UNCHANGED Budget!vars
    OBVIOUS
  <2>1. CASE Reconfigure \/ Tick \/ UNCHANGED vars
    BY <2>1 DEF Reconfigure, Tick, vars, budgetVars, Budget!vars, Budget!data
  <2> QED
    BY <2>1, CallBudgetStep DEF Next, Terminated, CallStep
<1> QED
  BY <1>1, <1>2, HeldWellAlways, PTL DEF Spec, Budget!Spec

\* So the theorems about the bucket hold of the calls.
LEMMA AtomicSpec == Spec => Atomic!Spec
<1>1. Budget!Init => Atomic!Init
  BY SameParameters DEF Budget!Init, Atomic!Init
<1>2. [Budget!Next]_(Budget!vars) => [Atomic!Next]_(Atomic!vars)
  BY SameBudgetNext DEF Budget!vars, Atomic!vars, Budget!data, Atomic!data
<1> QED
  BY <1>1, <1>2, CallsKeepToTheBucket, PTL DEF Budget!Spec, Atomic!Spec

LEMMA AtomicParameters ==
    /\ Atomic!IsFiniteSet(Requests)
    /\ Configs \subseteq Atomic!BudgetConfig
    /\ \A c \in Configs :
           Atomic!Enabled(c) => c.capacity > 0 /\ c.cost > 0 /\ c.increment > 0
<1>1. Atomic!IsFiniteSet(Requests)
  BY RequestsAssumption DEF IsFiniteSet, Atomic!IsFiniteSet
<1>2. Configs \subseteq Atomic!BudgetConfig
  BY ConfigsAssumption DEF Atomic!BudgetConfig, BudgetConfig
<1>3. \A c \in Configs :
          Atomic!Enabled(c) => c.capacity > 0 /\ c.cost > 0 /\ c.increment > 0
  BY ConfigsAssumption DEF Atomic!Enabled, Enabled, Atomic!Disabled, Disabled
<1> QED
  BY <1>1, <1>2, <1>3

\* The retries of all calls together stay within the capacity each entry opened
\* with plus the successes recorded, however the calls, their cancellations and
\* the configuration changes interleave (transport.go:150-161, 183-231).
THEOREM CallsSpendBounded == Spec => []Budget!SpendBounded
<1>1. Atomic!Spec => []Atomic!SpendBounded
  BY ONLY AtomicParameters, KeysAssumption, Atomic!BucketSpendBounded, Zenon
<1>2. Budget!SpendBounded <=> Atomic!SpendBounded
  <2>1. \A k \in Keys : Budget!HeldUnits(k) = Atomic!HeldUnits(k)
    BY DEF Budget!HeldUnits, Atomic!HeldUnits, Budget!Units, Atomic!Units
  <2> QED
    BY <2>1, SameCardinality DEF Budget!SpendBounded, Atomic!SpendBounded
<1> QED
  BY <1>1, <1>2, AtomicSpec, PTL

-----------------------------------------------------------------------------
(* What the retries have cost *)

\* The units that the retries of r on the wire cost.
Debt(r) == IF Governed(r) /\ Made(r) > 0 THEN budgetConfig(r).cost * (Made(r) - 1) ELSE 0
Bill == [r \in Requests |-> [cost |-> Debt(r), capacity |-> 0]]

\* A retry that is to be made holds its reservation until it is sent, and
\* nothing else holds one.
Pledged(r) ==
    IF pc[r] \in {"discard", "wait"} \/ (pc[r] = "prepare" /\ attempt[r] > 0)
    THEN stage[r] = "granted" /\ reservation[r].cost = budgetConfig(r).cost
    ELSE stage[r] # "granted"

Settled ==
    /\ \A r \in Requests : Pledged(r)
    /\ \A k \in Keys : IsFiniteSet(Units(Bill, k)) /\ spent[k] = Cardinality(Units(Bill, k))
    /\ spent \in [Keys -> Nat] /\ Bill \in [Requests -> Reservation]

LEMMA ConfigCost == ASSUME Typed, NEW r \in Requests PROVE budgetConfig(r).cost \in Nat
BY ConfigType, ConfigsAssumption DEF BudgetConfig

\* A bill that changes for one request changes by that much, on its key.
LEMMA UnitsChanged ==
    ASSUME NEW old \in [Requests -> Reservation], NEW new \in [Requests -> Reservation],
           NEW r \in Requests, NEW k,
           \A q \in Requests \ {r} : new[q] = old[q],
           IsFiniteSet(Units(old, k))
    PROVE  /\ IsFiniteSet(Units(new, k))
           /\ Cardinality(Units(old, k)) \in Nat
           /\ Cardinality(Units(new, k)) = Cardinality(Units(old, k)) +
                  (IF KeyOf[r] = k THEN new[r].cost - old[r].cost ELSE 0)
<1> DEFINE mid == [old EXCEPT ![r] = NoReservation]
<1>1. \A f : Atomic!Units(f, k) = Units(f, k)
  BY DEF Atomic!Units, Units
<1>2. /\ \A S : Atomic!Cardinality(S) = Cardinality(S)
      /\ \A S : Atomic!IsFiniteSet(S) <=> IsFiniteSet(S)
  BY DEF Atomic!Cardinality, Cardinality, Atomic!IsFiniteSet, IsFiniteSet
<1>3. Atomic!Reservation = Reservation
  BY DEF Atomic!Reservation, Reservation
<1>4. /\ mid \in [Requests -> Reservation] /\ mid[r].cost = 0
      /\ \A q \in Requests \ {r} : mid[q] = old[q] /\ new[q] = mid[q]
  BY NoReservationFacts DEF NoReservation
<1>5. new[r].cost \in Nat /\ old[r].cost \in Nat
  BY DEF Reservation
<1> HIDE DEF mid
<1>6. /\ IsFiniteSet(Units(mid, k))
      /\ Cardinality(Units(old, k)) =
             Cardinality(Units(mid, k)) + (IF KeyOf[r] = k THEN old[r].cost ELSE 0)
  BY <1>1, <1>2, <1>3, <1>4, AtomicParameters, KeysAssumption, Atomic!UnitsRemoved
<1>7. /\ IsFiniteSet(Units(new, k))
      /\ Cardinality(Units(new, k)) =
             Cardinality(Units(mid, k)) + (IF KeyOf[r] = k THEN new[r].cost ELSE 0)
  BY <1>1, <1>2, <1>3, <1>4, <1>6, AtomicParameters, KeysAssumption, Atomic!UnitsAdded
<1>8. Cardinality(Units(mid, k)) \in Nat
  BY <1>6, FS_CardinalityType
<1> QED
  BY <1>5, <1>6, <1>7, <1>8

\* What the budget answers to a request for a retry.
LEMMA ReserveAnswer ==
    ASSUME Typed, NEW r \in Requests, stage[r] # "granted", Reserve(r)
    PROVE  stage'[r] = "granted" => reservation'[r].cost = budgetConfig(r).cost
<1> DEFINE c == budgetConfig(r)
<1>1. c \in Configs
  BY ConfigType
<1>2. CASE Budget!Grant(r, c)
  BY <1>2 DEF Budget!Grant, Typed, BudgetTypes
<1>3. CASE Budget!Bypass(r, c)
  <2>1. c.cost = 0
    BY <1>3 DEF Budget!Bypass, Budget!Enabled, Budget!Disabled
  <2>2. reservation'[r] = NoReservation
    BY <1>3 DEF Budget!Bypass, Budget!data, Typed, BudgetTypes
  <2> QED
    BY <2>1, <2>2 DEF NoReservation
<1>4. CASE Budget!Open(r, c) \/ Budget!Trim(r, c) \/ Budget!Deny(r, c)
  <2>1. stage'[r] # "granted"
    BY <1>4 DEF Budget!Open, Budget!Trim, Budget!Deny, Typed, BudgetTypes
  <2> QED
    BY <2>1
<1> QED
  BY <1>2, <1>3, <1>4 DEF Reserve

LEMMA PledgedStep ==
    ASSUME Typed, HeldWell, NEW r \in Requests, Pledged(r), CallStep(r)
    PROVE  Pledged(r)'
<1>1. pc[r] \in Labels /\ attempt[r] \in Nat /\ Standing(r)
  BY DEF Typed, CallTypes, HeldWell
<1>2. ~Begin(r) => budgetConfig(r)' = budgetConfig(r)
  BY DEF CallStep, Run, BeginSkipped, NoBody, NoTime, PrepareFails, Send, Reply, SkippedReply,
         Decide, Reserve, Discard, WaitOver, WaitCut, Finish, RecordSuccess, Return, Cancel,
         CallerCloses, fixed, budgetConfig
<1>3. CASE Begin(r) \/ BeginSkipped(r) \/ Reply(r) \/ SkippedReply(r) \/ Decide(r)
           \/ Return(r) \/ CallerCloses(r)
  <2>1. /\ stage' = stage /\ attempt' = attempt
        /\ pc[r] \in {"idle", "inflight", "skipped", "decide", "report", "returned"}
        /\ pc'[r] = "prepare" => pc[r] = "idle"
        /\ pc'[r] \notin {"discard", "wait"}
    BY <1>3 DEF Begin, BeginSkipped, Reply, SkippedReply, Decide, Return, CallerCloses, Goto,
                budgetVars, Typed, CallTypes
  <2> QED
    BY <1>1, <2>1 DEF Pledged, Standing
<1>4. CASE Cancel(r)
  BY <1>2, <1>4 DEF Cancel, Pledged, budgetVars, budgetConfig, fixed
<1>5. CASE NoBody(r) \/ NoTime(r) \/ Send(r) \/ WaitCut(r)
  <2>1. stage'[r] # "granted"
    BY <1>5, SettleEffect DEF NoBody, NoTime, PrepareFails, Send, WaitCut, Typed
  <2>2. pc'[r] \in {"finish", "inflight"}
    BY <1>5 DEF NoBody, NoTime, PrepareFails, Send, WaitCut, Goto, Typed, CallTypes
  <2> QED
    BY <2>1, <2>2 DEF Pledged
<1>6. CASE Reserve(r)
  <2>1. /\ pc[r] = "reserve"
        /\ pc'[r] = CASE stage'[r] = "open"    -> "reserve"
                      [] stage'[r] = "granted" -> "discard"
                      [] stage'[r] = "final"   -> "finish"
    BY <1>6 DEF Reserve, Goto, Typed, CallTypes
  <2>2. stage'[r] \in {"open", "granted", "final"}
    BY <1>6, ConfigType, ReserveEffect DEF Reserve, Typed
  <2>3. stage'[r] = "granted" => reservation'[r].cost = budgetConfig(r).cost
    BY <1>6, <2>1, ReserveAnswer DEF Pledged
  <2>4. ~Begin(r)
    BY <2>1 DEF Begin
  <2> QED
    BY <1>2, <2>1, <2>2, <2>3, <2>4 DEF Pledged
<1>7. CASE Discard(r) \/ WaitOver(r)
  <2>1. /\ pc[r] \in {"discard", "wait"} /\ UNCHANGED <<stage, reservation, plan>>
        /\ pc'[r] = "wait" \/ (pc'[r] = "prepare" /\ attempt'[r] = attempt[r] + 1)
    BY <1>7 DEF Discard, WaitOver, Goto, budgetVars, fixed, Typed, CallTypes
  <2> QED
    BY <1>1, <2>1 DEF Pledged, budgetConfig
<1>8. CASE Finish(r) \/ RecordSuccess(r)
  <2>1. pc[r] \in {"finish", "success"} /\ pc'[r] \in {"success", "report"}
    BY <1>8 DEF Finish, RecordSuccess, Goto, Typed, CallTypes
  <2>2. stage[r] # "granted"
    BY <2>1 DEF Pledged
  <2>3. stage'[r] # "granted"
    BY <1>8, <2>2, ConfigType, EndEffect DEF Finish, RecordSuccess, Typed
  <2> QED
    BY <2>1, <2>3 DEF Pledged
<1> QED
  BY <1>3, <1>4, <1>5, <1>6, <1>7, <1>8 DEF CallStep, Run

\* Only an attempt that is sent changes the bill.
LEMMA BillKept ==
    ASSUME Typed, HeldWell, Recorded, Typed', Recorded', NEW r \in Requests,
           CallStep(r), ~Send(r)
    PROVE  Debt(r)' = Debt(r) /\ spent' = spent
<1>1. spent' = spent
  BY DEF CallStep, Run, Begin, BeginSkipped, Reply, SkippedReply, Cancel, CallerCloses, NoBody,
         NoTime, PrepareFails, RefundPending, Decide, Reserve, Discard, WaitOver, WaitCut,
         Finish, RecordSuccess, Return, budgetVars, Budget!Refund, Budget!Open, Budget!Trim,
         Budget!Bypass, Budget!Grant, Budget!Deny, Budget!Stop, Budget!Close, Budget!Credit,
         Budget!data
<1>2. CASE Begin(r)
  <2>1. pc[r] = "idle" /\ sent'[r] = sent[r]
    BY <1>2 DEF Begin, seenOutside
  <2>2. sent[r] = <<>>
    BY <2>1, Before DEF Progress
  <2>3. Made(r)' = 0
    BY <2>1, <2>2, EmptySeq DEF Made
  <2> QED
    BY <1>1, <2>1, <2>3 DEF Debt, Governed
<1>3. CASE BeginSkipped(r) \/ SkippedReply(r)
  <2>1. ~Governed(r)
    BY <1>3, Before DEF BeginSkipped, SkippedReply, Governed, Standing
  <2>2. call'[r].skip
    BY <1>3, Before DEF BeginSkipped, SkippedReply, Set, Typed, CallTypes, fixed, Standing
  <2> QED
    BY <1>1, <2>1, <2>2 DEF Debt, Governed
<1>4. CASE Reply(r)
  <2>1. /\ pc[r] = "inflight" /\ pc'[r] = "decide" /\ attempt'[r] = attempt[r]
        /\ call'[r] = call[r] /\ plan'[r] = plan[r]
    BY <1>4 DEF Reply, Goto, Typed, CallTypes, fixed
  <2>2. Made(r) = attempt[r] + 1
    BY <2>1, Before DEF Progress
  <2>3. Made(r)' = attempt'[r] + 1
    BY <2>1 DEF Recorded, RecordOf, Progress
  <2>4. Made(r)' = Made(r)
    BY <2>1, <2>2, <2>3
  <2> QED
    BY <1>1, <2>1, <2>4 DEF Debt, Governed, budgetConfig
<1>5. CASE Cancel(r) \/ CallerCloses(r) \/ Run(r)
  <2>1. call' = call /\ plan' = plan /\ sent' = sent
    BY <1>5 DEF Run, Cancel, CallerCloses, NoBody, NoTime, PrepareFails, Decide, Reserve,
                Discard, WaitOver, WaitCut, Finish, RecordSuccess, Return, fixed, seenOutside
  <2>2. pc'[r] = "idle" <=> pc[r] = "idle"
    <3>1. Reserve(r) => stage'[r] \in {"open", "granted", "final"}
      BY ConfigType, ReserveEffect DEF Reserve, Typed
    <3> QED
      BY <1>5, <3>1
         DEF Run, Cancel, CallerCloses, NoBody, NoTime, PrepareFails, Decide, Reserve, Discard,
             WaitOver, WaitCut, Finish, RecordSuccess, Return, Goto, Typed, CallTypes
  <2> QED
    BY <1>1, <2>1, <2>2 DEF Debt, Governed, Made, budgetConfig
<1> QED
  BY <1>2, <1>3, <1>4, <1>5 DEF CallStep

\* The first attempt is free, each other one costs what it holds.
LEMMA BillSent ==
    ASSUME Typed, HeldWell, Recorded, Recorded', NEW r \in Requests, Pledged(r), Send(r),
           spent \in [Keys -> Nat]
    PROVE  /\ Debt(r) \in Nat /\ Debt(r)' \in Nat /\ Debt(r)' - Debt(r) \in Nat
           /\ spent' = [spent EXCEPT ![KeyOf[r]] = @ + (Debt(r)' - Debt(r))]
<1> DEFINE cost == budgetConfig(r).cost  n == attempt[r]
<1>1. /\ pc[r] = "prepare" /\ pc'[r] = "inflight" /\ attempt'[r] = attempt[r]
      /\ call'[r] = call[r] /\ plan'[r] = plan[r]
  BY DEF Send, Goto, Typed, CallTypes, fixed
<1>2. Made(r) = n /\ n \in Nat /\ ~call[r].skip
  BY <1>1, Before DEF Progress, Standing
<1>3. Made(r)' = n + 1
  BY <1>1 DEF Recorded, RecordOf, Progress
<1>4. cost \in Nat /\ budgetConfig(r).cost' = cost
  BY <1>1, ConfigCost DEF budgetConfig
<1>5. Governed(r) /\ Governed(r)'
  BY <1>1, <1>2 DEF Governed
<1>6. Debt(r) = IF n > 0 THEN cost * (n - 1) ELSE 0
  BY <1>2, <1>5 DEF Debt
<1>7. Debt(r)' = cost * n
  <2>1. Debt(r)' = IF Made(r)' > 0 THEN cost * (Made(r)' - 1) ELSE 0
    BY <1>4, <1>5 DEF Debt
  <2> HIDE DEF cost, n
  <2>2. n + 1 > 0 /\ (n + 1) - 1 = n
    BY <1>2
  <2> QED
    BY <1>3, <2>1, <2>2
<1>8. KeyOf[r] \in Keys
  BY KeysAssumption
<1>9. CASE n = 0
  <2>1. stage[r] # "granted"
    BY <1>1, <1>9 DEF Pledged
  <2>2. spent' = spent
    BY <2>1 DEF Send, budgetVars
  <2> HIDE DEF cost
  <2>3. Debt(r) = 0 /\ Debt(r)' = 0
    BY <1>4, <1>6, <1>7, <1>9
  <2> QED
    BY <1>8, <2>2, <2>3
<1>10. CASE n > 0
  <2>1. stage[r] = "granted" /\ reservation[r].cost = cost
    BY <1>1, <1>10 DEF Pledged
  <2>2. spent' = [spent EXCEPT ![KeyOf[r]] = @ + cost]
    BY <2>1 DEF Send, Budget!Commit
  <2> HIDE DEF cost, n
  <2>3. Debt(r) = cost * (n - 1) /\ Debt(r)' = cost * n
    BY <1>6, <1>7, <1>10
  <2>4. cost * n = cost * (n - 1) + cost /\ cost * (n - 1) \in Nat /\ cost * n \in Nat
    BY <1>2, <1>4, <1>10
  <2>5. Debt(r) \in Nat /\ Debt(r)' \in Nat /\ Debt(r)' - Debt(r) = cost
    BY <1>4, <2>3, <2>4
  <2> QED
    BY <1>4, <2>2, <2>5
<1> QED
  BY <1>2, <1>9, <1>10

LEMMA SettledStep ==
    Typed /\ HeldWell /\ Recorded /\ Typed' /\ HeldWell' /\ Recorded' /\ Settled /\ [Next]_vars
        => Settled'
<1> SUFFICES ASSUME Typed, HeldWell, Recorded, Typed', HeldWell', Recorded', Settled, [Next]_vars
             PROVE  Settled'
  OBVIOUS
<1>1. ASSUME NEW q \in Requests, Same(q) PROVE Pledged(q)' /\ Debt(q)' = Debt(q)
  BY <1>1 DEF Same, Settled, Pledged, Debt, Governed, Made, budgetConfig
<1>2. CASE Reconfigure \/ Tick \/ UNCHANGED vars
  <2>1. spent' = spent
    BY <1>2 DEF Reconfigure, Tick, vars, budgetVars
  <2>2. \A q \in Requests : Same(q)
    BY <1>2 DEF Reconfigure, Tick, vars, Same, budgetVars, fixed, held, seenOutside
  <2>3. Bill' = Bill
    BY <1>1, <2>2 DEF Bill
  <2>4. \A k \in Keys : Units(Bill, k)' = Units(Bill, k)
    BY <2>3 DEF Units
  <2> QED
    BY <1>1, <2>1, <2>2, <2>3, <2>4 DEF Settled
<1>3. ASSUME NEW r \in Requests, CallStep(r) PROVE Settled'
  <2>1. Others(r)
    BY <1>3, CallStepLocal
  <2>2. \A q \in Requests : Pledged(q)'
    BY <1>1, <1>3, <2>1, PledgedStep DEF Others, Settled
  <2>3. \A q \in Requests \ {r} : Debt(q)' = Debt(q)
    BY <1>1, <2>1 DEF Others
  <2>4. CASE ~Send(r)
    <3>1. Debt(r)' = Debt(r) /\ spent' = spent
      BY <1>3, <2>4, BillKept
    <3>2. Bill' = Bill
      BY <2>3, <3>1 DEF Bill
    <3>3. \A k \in Keys : Units(Bill, k)' = Units(Bill, k)
      BY <3>2 DEF Units
    <3> QED
      BY <2>2, <3>1, <3>2, <3>3 DEF Settled
  <2>5. CASE Send(r)
    <3>1. /\ Debt(r) \in Nat /\ Debt(r)' \in Nat /\ Debt(r)' - Debt(r) \in Nat
          /\ spent' = [spent EXCEPT ![KeyOf[r]] = @ + (Debt(r)' - Debt(r))]
      BY <2>5, BillSent DEF Settled
    <3>2. Bill \in [Requests -> Reservation] /\ Bill' \in [Requests -> Reservation]
      <4>1. Bill \in [Requests -> Reservation]
        BY DEF Settled
      <4>2. \A q \in Requests : Debt(q) \in Nat
        BY <4>1 DEF Bill, Reservation
      <4>3. \A q \in Requests : Debt(q)' \in Nat
        BY <2>3, <3>1, <4>2
      <4> QED
        BY <4>1, <4>3 DEF Bill, Reservation
    <3>3. /\ Bill[r].cost = Debt(r) /\ Bill'[r].cost = Debt(r)'
          /\ \A q \in Requests \ {r} : Bill'[q] = Bill[q]
      BY <2>3 DEF Bill
    <3>4. spent \in [Keys -> Nat] /\ KeyOf[r] \in Keys
      BY KeysAssumption DEF Settled
    <3>5. ASSUME NEW k \in Keys
          PROVE  IsFiniteSet(Units(Bill, k))' /\ spent'[k] = Cardinality(Units(Bill, k))'
      <4> DEFINE n == Cardinality(Units(Bill, k))
      <4>1. IsFiniteSet(Units(Bill, k)) /\ spent[k] = n
        BY DEF Settled
      <4>2. /\ IsFiniteSet(Units(Bill', k))
            /\ Cardinality(Units(Bill', k)) =
                   n + (IF KeyOf[r] = k THEN Debt(r)' - Debt(r) ELSE 0)
            /\ n \in Nat
        BY <3>2, <3>3, <4>1, UnitsChanged
      <4>3. Units(Bill, k)' = Units(Bill', k)
        BY DEF Units
      <4>4. spent'[k] = spent[k] + (IF KeyOf[r] = k THEN Debt(r)' - Debt(r) ELSE 0)
        BY <3>1, <3>4, <4>1, <4>2
      <4> QED
        BY <4>1, <4>2, <4>3, <4>4
    <3>6. spent' \in [Keys -> Nat]
      BY <3>1, <3>4
    <3> QED
      BY <2>2, <3>2, <3>5, <3>6 DEF Settled
  <2> QED
    BY <2>4, <2>5
<1> QED
  BY <1>2, <1>3 DEF Next, Terminated, CallStep

LEMMA InitSettled == Init => Settled
<1> SUFFICES ASSUME Init PROVE Settled
  OBVIOUS
<1>1. \A r \in Requests : Pledged(r)
  BY DEF Init, Budget!Init, Pledged
<1>2. \A r \in Requests : Debt(r) = 0
  BY DEF Init, Debt, Governed
<1>3. ASSUME NEW k PROVE Units(Bill, k) = {}
  <2>1. \A r \in Requests : 1 .. Bill[r].cost = {}
    BY <1>2 DEF Bill
  <2> QED
    BY <2>1 DEF Units
<1>4. IsFiniteSet({}) /\ Cardinality({}) = 0
  BY FS_EmptySet
<1>5. Bill \in [Requests -> Reservation]
  BY <1>2 DEF Bill, Reservation
<1> QED
  BY <1>1, <1>3, <1>4, <1>5 DEF Init, Budget!Init, Settled

\* Every retry on the wire has been paid for exactly once, a first attempt never
\* is, and a retry that did not start has been paid back or is still held, for any
\* number of calls on any budgets (transport.go:150-161, 183, 225;
\* retry-semantics.md section 6).
THEOREM EveryRetryPaidAlways == Spec => []EveryRetryPaid
<1>1. Typed /\ HeldWell /\ Recorded /\ Settled => EveryRetryPaid
  <2> SUFFICES ASSUME Typed, HeldWell, Recorded, Settled, NEW k \in Keys
               PROVE  spent[k] = Cardinality(PaidUnits(k))
    BY DEF EveryRetryPaid
  <2> DEFINE U(q) == {q} \X (1 .. budgetConfig(q).cost * (Made(q) - 1))
  <2>1. ASSUME NEW q \in Requests
        PROVE  1 .. Bill[q].cost =
                   IF Governed(q) THEN 1 .. budgetConfig(q).cost * (Made(q) - 1) ELSE {}
    <3> DEFINE cost == budgetConfig(q).cost  n == Made(q)
    <3>1. cost \in Nat /\ n \in Nat
      BY ConfigCost, Before
    <3>2. Bill[q].cost = IF Governed(q) /\ n > 0 THEN cost * (n - 1) ELSE 0
      BY DEF Bill, Debt
    <3> HIDE DEF cost, n
    <3>3. 1 .. 0 = {}
      OBVIOUS
    <3>4. n = 0 => 1 .. cost * (n - 1) = {}
      BY <3>1
    <3>5. 1 .. Bill[q].cost = IF Governed(q) THEN 1 .. cost * (n - 1) ELSE {}
      BY <3>1, <3>2, <3>3, <3>4
    <3> QED
      BY <3>5 DEF cost, n
  <2>2. PaidUnits(k) = Units(Bill, k)
    <3>1. PaidUnits(k) = UNION {U(q) : q \in {p \in Requests : KeyOf[p] = k /\ Governed(p)}}
      BY DEF PaidUnits, Made
    <3> QED
      BY <2>1, <3>1 DEF Units
  <2> QED
    BY <2>2 DEF Settled
<1>2. Spec => []Settled
  BY InitSettled, SettledStep, RecordedAlways, PTL DEF Spec
<1> QED
  BY <1>1, <1>2, RecordedAlways, PTL

-----------------------------------------------------------------------------
(* Types *)

Time == -1 .. Never

\* A call under way has the parts the caller and the configuration gave it.
Chosen ==
    /\ generation \in Generations
    /\ call \in [Requests -> Calls \cup {NoCall}]
    /\ canceled \subseteq Requests

\* The maximum of a backoff, installed or resolved, is a time.
BackoffsBounded ==
    /\ generation.policy.maxBackoff <= Never
    /\ \A r \in Requests : policy(r).maxBackoff <= Never

\* Every timer shows a time, and so does the wait that is chosen.
Timed ==
    /\ left \in [Requests -> Time]
    /\ attemptLeft \in [Requests -> Time]
    /\ waitLeft \in [Requests -> Time]
    /\ delay \in [Requests -> Int]
    /\ \A r \in Requests : delay[r] <= Never

\* Nothing is held of an attempt, or handed out, that is not counted.
Counted(r) ==
    /\ reqBody[r] \subseteq 0 .. attempt[r]
    /\ Made(r) <= attempt[r] + 1
    /\ Len(result[r]) <= 1

\* Without what is of one call alone.
World == Chosen /\ TimeoutsBounded /\ BackoffsBounded

LEMMA ResolvedBackoff ==
    ASSUME NEW g \in Plans, g.policy.maxBackoff <= Never
    PROVE  Resolved(g).policy.maxBackoff <= Never
<1> DEFINE p == g.policy
<1>1. p \in Policies
  BY DEF Plans
<1>2. normalizeRetryPolicy(p).maxBackoff = OrDefault(p.maxBackoff, DefaultMaxBackoff)
  BY <1>1 DEF normalizeRetryPolicy, Policies
<1>3. OrDefault(p.maxBackoff, DefaultMaxBackoff) <= Never
  BY RoundTripAssumption DEF OrDefault
<1> QED
  BY <1>2, <1>3 DEF Resolved, Plans

LEMMA StepWorld ==
    ASSUME Typed, World, [Next]_vars
    PROVE  World'
<1>1. TimeoutsBounded'
  BY StepTimeouts DEF World
<1>2. CASE Reconfigure
  <2>1. generation' \in Generations /\ plan' = plan /\ call' = call /\ canceled' = canceled
    BY <1>2 DEF Reconfigure
  <2>2. BackoffsBounded'
    BY <2>1, RoundTripAssumption DEF World, BackoffsBounded, policy
  <2> QED
    BY <1>1, <2>1, <2>2 DEF World, Chosen
<1>3. ASSUME NEW r \in Requests, Begin(r) PROVE World'
  <2>1. /\ plan' = Set(plan, r, Resolved(generation)) /\ generation' = generation
        /\ canceled' = canceled
        /\ \E c \in Calls : call' = Set(call, r, c)
    BY <1>3 DEF Begin
  <2>2. Resolved(generation).policy.maxBackoff <= Never
    BY ResolvedBackoff DEF Typed, CallTypes, World, BackoffsBounded
  <2>3. BackoffsBounded'
    BY <2>1, <2>2 DEF Set, Typed, CallTypes, World, BackoffsBounded, policy
  <2> QED
    BY <1>1, <2>1, <2>3 DEF World, Chosen, Set
<1>4. ASSUME plan' = plan, generation' = generation,
             \/ call' = call
             \/ \E q \in Requests : \E c \in Calls : call' = Set(call, q, c),
             canceled' \subseteq Requests
      PROVE  World'
  BY <1>1, <1>4 DEF World, Chosen, BackoffsBounded, policy, Set
<1>5. ASSUME NEW r \in Requests, CallStep(r), ~Begin(r) PROVE World'
  <2>1. CASE BeginSkipped(r)
    BY <1>4, <2>1 DEF BeginSkipped, World, Chosen
  <2>2. CASE Cancel(r)
    BY <1>4, <2>2 DEF Cancel, World, Chosen, fixed
  <2>3. CASE ~BeginSkipped(r) /\ ~Cancel(r)
    <3>1. plan' = plan /\ generation' = generation /\ call' = call /\ canceled' = canceled
      BY <1>5, <2>3
         DEF CallStep, Run, Reply, SkippedReply, CallerCloses, NoBody, NoTime, PrepareFails,
             Send, Decide, Reserve, Discard, WaitOver, WaitCut, Finish, RecordSuccess, Return,
             fixed
    <3> QED
      BY <1>4, <3>1 DEF World, Chosen
  <2> QED
    BY <2>1, <2>2, <2>3
<1>6. CASE Tick \/ UNCHANGED vars
  <2>1. plan' = plan /\ generation' = generation /\ call' = call /\ canceled' = canceled
    BY <1>6 DEF Tick, vars, fixed
  <2> QED
    BY <1>4, <2>1 DEF World, Chosen
<1> QED
  BY <1>2, <1>3, <1>5, <1>6 DEF Next, Terminated, CallStep

LEMMA NeverPositive == Never \in Int /\ Never > 0
  BY SMT DEF Never

LEMMA TimeFacts ==
    /\ Never \in Time
    /\ \A d \in Time : d \in Int /\ Ticked(d) \in Time
    /\ \A d \in Int : d > 0 /\ d <= Never => d \in Time
    /\ \A a, b \in Time : Least(a, b) \in Time
  BY NeverPositive DEF Time, Ticked, Least

LEMMA SkippedTimes == \A c \in Calls : Least(c.header, c.context) \in Time
<1>1. \A c \in Calls : c.header \in Time /\ c.context \in Time
  BY RoundTripAssumption DEF Time
<1> QED
  BY <1>1, TimeFacts

LEMMA CallTimes ==
    ASSUME NEW c \in Calls, NEW p \in Policies
    PROVE  resolveOverallDeadline(c.header, c.context, p) \in Time
<1> DEFINE l == Least(c.header, c.context)
           e == IF p.elapsed > 0 THEN p.elapsed ELSE Never
<1>1. resolveOverallDeadline(c.header, c.context, p) = Least(l, e)
  BY DEF resolveOverallDeadline
<1>2. l \in Int /\ -1 <= l /\ l <= Never
  BY SkippedTimes DEF Time
<1>3. e \in Int /\ e > 0
  BY NeverPositive DEF Policies
<1> HIDE DEF l, e
<1>4. Least(l, e) \in -1 .. Never
  BY <1>2, <1>3, NeverType DEF Least
<1> QED
  BY <1>1, <1>4 DEF Time

LEMMA AttemptTimes ==
    ASSUME Typed, World, left \in [Requests -> Time], NEW r \in Requests, left[r] > 0
    PROVE  AttemptTime(r) \in Time
<1>1. /\ left[r] \in Int /\ left[r] <= Never
      /\ policy(r).timeout \in Int /\ policy(r).timeout <= Never
  BY DEF Typed, CallTypes, Plans, Policies, policy, World, TimeoutsBounded, Time
<1>2. DefaultTimeout \in Int /\ DefaultTimeout > 0 /\ DefaultTimeout <= Never
  BY DefaultsAssumption, RoundTripAssumption
<1>3. AttemptTime(r) \in Int /\ AttemptTime(r) > 0 /\ AttemptTime(r) <= Never
  BY <1>1, <1>2, NeverType DEF AttemptTime
<1> QED
  BY <1>3, TimeFacts

\* No wait is longer than any time, whatever the policy and the answer.
LEMMA WaitTimes ==
    ASSUME Typed, World, NEW r \in Requests
    PROVE  \A d \in retryDelay(policy(r), attempt[r], final[r]) : d \in Int /\ d <= Never
<1> DEFINE p == policy(r)
           n == attempt[r]
           o == final[r]
           b == Base(p)[n]
<1>1. /\ Durations(p) /\ p.maxBackoff \in Int /\ p.maxBackoff <= Never /\ n \in Nat
      /\ o \in Outcome
  BY DEF Typed, CallTypes, Plans, Policies, policy, World, BackoffsBounded, Durations
<1>2. b \in Int
  BY <1>1, BaseDef
<1>3. o.retryAfter \subseteq 0 .. Never
  BY <1>1, RoundTripAssumption DEF Outcome, Nothing, Error
<1> HIDE DEF p, n, o
<1>4. ASSUME NEW j \in 0 .. b - 1
      PROVE  Least(b + j, p.maxBackoff) \in Int /\ Least(b + j, p.maxBackoff) <= Never
  <2> HIDE DEF b
  <2> QED
    BY <1>1, <1>2, NeverType DEF Least
<1>5. retryDelay(p, n, o) =
          IF o.retryAfter # {} THEN o.retryAfter
          ELSE IF b <= 0 THEN {0}
          ELSE IF b >= p.maxBackoff THEN {p.maxBackoff}
          ELSE {Least(b + j, p.maxBackoff) : j \in 0 .. b - 1}
  BY DEF retryDelay
<1>6. \A d \in 0 .. Never : d \in Int /\ d <= Never
  BY NeverType
<1>7. 0 \in 0 .. Never
  BY NeverPositive
<1> HIDE DEF b
<1>8. \A d \in retryDelay(p, n, o) : d \in Int /\ d <= Never
  BY <1>1, <1>3, <1>4, <1>5, <1>6, <1>7
<1> QED
  BY <1>8 DEF p, n, o

LEMMA StepTimed ==
    ASSUME Typed, World, Timed, [Next]_vars
    PROVE  Timed'
<1>1. /\ left \in [Requests -> Time] /\ attemptLeft \in [Requests -> Time]
      /\ waitLeft \in [Requests -> Time] /\ delay \in [Requests -> Int]
      /\ \A r \in Requests : delay[r] <= Never
  BY DEF Timed
<1>2. CASE Tick
  <2>1. \A d \in Time : Ticked(d) \in Time
    BY TimeFacts
  <2> QED
    BY <1>1, <1>2, <2>1 DEF Tick, Timed
<1>3. ASSUME NEW r \in Requests, Begin(r) PROVE Timed'
  <2>1. PICK c \in Calls :
            left' = Set(left, r, resolveOverallDeadline(c.header, c.context, policy(r)'))
    BY <1>3 DEF Begin
  <2>2. policy(r)' \in Policies
    BY <1>3, BeginLocal DEF Local, CallTypes, policy, Plans
  <2>3. resolveOverallDeadline(c.header, c.context, policy(r)') \in Time
    BY <2>2, CallTimes
  <2>4. attemptLeft' = attemptLeft /\ waitLeft' = waitLeft /\ delay' = delay
    BY <1>3 DEF Begin
  <2> QED
    BY <1>1, <2>1, <2>3, <2>4 DEF Set, Timed
<1>4. ASSUME NEW r \in Requests, BeginSkipped(r) PROVE Timed'
  <2>1. PICK c \in Calls : left' = Set(left, r, Least(c.header, c.context))
    BY <1>4 DEF BeginSkipped
  <2>2. Least(c.header, c.context) \in Time
    BY SkippedTimes
  <2>3. /\ attemptLeft' = Set(attemptLeft, r, left'[r])
        /\ waitLeft' = waitLeft /\ delay' = delay
    BY <1>4 DEF BeginSkipped
  <2> QED
    BY <1>1, <2>1, <2>2, <2>3 DEF Set, Timed
<1>5. ASSUME NEW r \in Requests, Send(r) PROVE Timed'
  <2>1. AttemptTime(r) \in Time
    BY <1>1, <1>5, AttemptTimes DEF Send
  <2> QED
    BY <1>1, <1>5, <2>1 DEF Send, Set, Timed
<1>6. ASSUME NEW r \in Requests, Reply(r) \/ SkippedReply(r) \/ Return(r) PROVE Timed'
  <2>1. /\ left' = left \/ left' = Set(left, r, Never)
        /\ attemptLeft' = attemptLeft \/ attemptLeft' = Set(attemptLeft, r, Never)
        /\ waitLeft' = waitLeft /\ delay' = delay
    BY <1>6 DEF Reply, SkippedReply, Return
  <2> QED
    BY <1>1, <2>1, TimeFacts DEF Set, Timed
<1>7. ASSUME NEW r \in Requests, Decide(r) PROVE Timed'
  <2>1. /\ left' = left /\ attemptLeft' = attemptLeft /\ waitLeft' = waitLeft
        /\ \/ delay' = delay
           \/ \E d \in retryDelay(policy(r), attempt[r], final[r]) : delay' = Set(delay, r, d)
    BY <1>7 DEF Decide, timers
  <2>2. \A d \in retryDelay(policy(r), attempt[r], final[r]) : d \in Int /\ d <= Never
    BY WaitTimes
  <2> QED
    BY <1>1, <2>1, <2>2 DEF Set, Timed
<1>8. ASSUME NEW r \in Requests, Discard(r) PROVE Timed'
  <2>1. /\ left' = left /\ attemptLeft' = attemptLeft /\ delay' = delay
        /\ waitLeft' = waitLeft \/ (delay[r] > 0 /\ waitLeft' = Set(waitLeft, r, delay[r]))
    BY <1>8 DEF Discard
  <2>2. delay[r] > 0 => delay[r] \in Time
    BY <1>1, TimeFacts
  <2> QED
    BY <1>1, <2>1, <2>2 DEF Set, Timed
<1>9. ASSUME NEW r \in Requests, WaitOver(r) \/ WaitCut(r) PROVE Timed'
  <2>1. /\ left' = left /\ attemptLeft' = attemptLeft /\ delay' = delay
        /\ waitLeft' = Set(waitLeft, r, Never)
    BY <1>9 DEF WaitOver, WaitCut
  <2> QED
    BY <1>1, <2>1, TimeFacts DEF Set, Timed
<1>10. ASSUME left' = left, attemptLeft' = attemptLeft, waitLeft' = waitLeft, delay' = delay
       PROVE  Timed'
  BY <1>10 DEF Timed
<1>11. ASSUME NEW r \in Requests,
              \/ NoBody(r) \/ NoTime(r) \/ Reserve(r) \/ Finish(r) \/ RecordSuccess(r)
              \/ CallerCloses(r) \/ Cancel(r)
       PROVE  Timed'
  <2>1. left' = left /\ attemptLeft' = attemptLeft /\ waitLeft' = waitLeft /\ delay' = delay
    BY <1>11 DEF NoBody, NoTime, PrepareFails, Reserve, Finish, RecordSuccess, CallerCloses,
                 Cancel, timers
  <2> QED
    BY <1>10, <2>1
<1>12. CASE Reconfigure \/ UNCHANGED vars
  BY <1>10, <1>12 DEF Reconfigure, vars, timers
<1> QED
  BY <1>2, <1>3, <1>4, <1>5, <1>6, <1>7, <1>8, <1>9, <1>11, <1>12 DEF Next, Terminated, Run

LEMMA CountedStep ==
    ASSUME Typed, HeldWell, Recorded, NEW r \in Requests, Counted(r), CallStep(r)
    PROVE  Counted(r)'
<1>1. /\ pc[r] \in Labels /\ attempt[r] \in Nat /\ Made(r) \in Nat
      /\ sent[r] \in Seq(Attempt) /\ result[r] \in Seq(ResultEvent)
      /\ Standing(r) /\ Progress(r)
  BY Before
<1>2. /\ reqBody[r] \in SUBSET Nat /\ reqBody[r] \subseteq 0 .. attempt[r]
      /\ Made(r) <= attempt[r] + 1 /\ Len(result[r]) <= 1
  BY DEF Counted, Typed, HeldTypes
<1>3. CASE Begin(r) \/ BeginSkipped(r)
  <2>1. /\ attempt'[r] = attempt[r] /\ attempt[r] = 0 /\ reqBody'[r] \subseteq {0}
        /\ result'[r] = result[r]
        /\ sent'[r] = sent[r] \/ Len(sent'[r]) = 1
    BY <1>1, <1>3
       DEF Begin, BeginSkipped, Set, Typed, CallTypes, HeldTypes, Standing, seenOutside,
           Recorded, SeenTypes
  <2>2. Len(sent'[r]) <= 1
    <3>1. Len(sent[r]) <= 1
      BY <1>2, <2>1 DEF Made
    <3>2. CASE sent'[r] = sent[r]
      BY <3>1, <3>2
    <3>3. CASE Len(sent'[r]) = 1
      BY <3>3
    <3> QED
      BY <2>1, <3>2, <3>3
  <2>3. reqBody'[r] \subseteq 0 .. attempt'[r]
    BY <2>1
  <2> QED
    BY <1>2, <2>1, <2>2, <2>3 DEF Counted, Made
<1>4. CASE NoBody(r) \/ NoTime(r)
  <2>1. /\ attempt'[r] = attempt[r] /\ sent'[r] = sent[r] /\ result'[r] = result[r]
        /\ reqBody'[r] \subseteq reqBody[r] \cup {attempt[r]}
    BY <1>4
       DEF NoBody, NoTime, PrepareFails, BodiesWithoutTime, Set, Typed, HeldTypes, seenOutside
  <2> QED
    BY <1>1, <1>2, <2>1 DEF Counted, Made
<1>5. CASE Send(r)
  <2>1. /\ attempt'[r] = attempt[r] /\ result'[r] = result[r]
        /\ \E s : sent'[r] = Append(sent[r], s)
        /\ reqBody'[r] \subseteq reqBody[r] \cup {attempt[r]}
    BY <1>5 DEF Send, Typed, HeldTypes, Recorded, SeenTypes
  <2>2. Made(r) = attempt[r]
    BY <1>1, <1>5 DEF Send, Progress
  <2>3. Len(sent'[r]) = Made(r) + 1
    BY <1>1, <2>1 DEF Made
  <2> QED
    BY <1>1, <1>2, <2>1, <2>2, <2>3 DEF Counted, Made
<1>6. CASE Reply(r) \/ SkippedReply(r)
  <2>1. /\ attempt'[r] = attempt[r] /\ result'[r] = result[r]
        /\ reqBody'[r] \subseteq reqBody[r]
    BY <1>6 DEF Reply, SkippedReply, Set, Typed, HeldTypes
  <2>2. PICK m \in 1 .. Len(sent[r]), o \in Outcome :
            sent'[r] = [sent[r] EXCEPT ![m].outcome = o]
    <3>1. CASE Reply(r)
      <4>1. attempt[r] + 1 \in 1 .. Len(sent[r])
        BY <1>1, <3>1 DEF Reply, Progress, Made
      <4> QED
        BY <3>1, <4>1, OutcomeTypes DEF Reply, Recorded, SeenTypes
    <3>2. CASE SkippedReply(r)
      <4>1. 1 \in 1 .. Len(sent[r])
        <5>1. Len(sent[r]) = 1
          BY <1>1, <3>2 DEF SkippedReply, Progress, Made
        <5> QED
          BY <5>1
      <4> QED
        BY <3>2, <4>1, OutcomeTypes DEF SkippedReply, Recorded, SeenTypes
    <3> QED
      BY <1>6, <3>1, <3>2
  <2>3. Len(sent'[r]) = Len(sent[r])
    BY <1>1, <2>2, AnswerFacts
  <2> QED
    BY <1>1, <1>2, <2>1, <2>3 DEF Counted, Made
<1>7. CASE Discard(r) \/ WaitOver(r)
  <2>1. /\ attempt'[r] \in {attempt[r], attempt[r] + 1}
        /\ sent'[r] = sent[r] /\ result'[r] = result[r] /\ reqBody'[r] = reqBody[r]
    BY <1>7 DEF Discard, WaitOver, Typed, CallTypes, held, seenOutside
  <2> QED
    BY <1>1, <1>2, <2>1 DEF Counted, Made
<1>8. CASE Return(r)
  <2>1. /\ attempt'[r] = attempt[r] /\ sent'[r] = sent[r] /\ reqBody'[r] = reqBody[r]
        /\ \E e : result'[r] = Append(result[r], e)
        /\ pc[r] = "report"
    BY <1>8 DEF Return, Recorded, SeenTypes
  <2>2. result[r] = <<>>
    BY <1>1, <2>1 DEF Progress
  <2>3. Len(result'[r]) = 1
    BY <2>1, <2>2
  <2> QED
    BY <1>1, <1>2, <2>1, <2>3 DEF Counted, Made
<1>9. CASE \/ Decide(r) \/ Reserve(r) \/ WaitCut(r) \/ Finish(r) \/ RecordSuccess(r)
           \/ CallerCloses(r) \/ Cancel(r)
  <2>1. /\ attempt'[r] = attempt[r] /\ sent'[r] = sent[r] /\ result'[r] = result[r]
        /\ reqBody'[r] = reqBody[r]
    BY <1>9 DEF Decide, Reserve, WaitCut, Finish, RecordSuccess, CallerCloses, Cancel, held,
                seenOutside
  <2> QED
    BY <1>1, <1>2, <2>1 DEF Counted, Made
<1> QED
  BY <1>3, <1>4, <1>5, <1>6, <1>7, <1>8, <1>9 DEF CallStep, Run

Fitting == World /\ Timed /\ \A r \in Requests : Counted(r)

LEMMA InitFitting == Init => Fitting
<1> SUFFICES ASSUME Init PROVE Fitting
  OBVIOUS
<1>1. generation \in Generations /\ plan = [r \in Requests |-> generation]
  BY DEF Init
<1>2. World
  BY <1>1, RoundTripAssumption
     DEF Init, World, Chosen, TimeoutsBounded, BackoffsBounded, policy
<1>3. 0 <= Never /\ 0 \in Int
  BY NeverPositive
<1>4. Timed
  BY <1>3, TimeFacts DEF Init, Timed
<1>5. \A r \in Requests : Counted(r)
  BY DEF Init, Counted, Made
<1> QED
  BY <1>2, <1>4, <1>5 DEF Fitting

LEMMA StepFitting ==
    Typed /\ HeldWell /\ Recorded /\ Fitting /\ [Next]_vars => Fitting'
<1> SUFFICES ASSUME Typed, HeldWell, Recorded, Fitting, [Next]_vars
             PROVE  Fitting'
  OBVIOUS
<1>1. World' /\ Timed'
  BY StepWorld, StepTimed DEF Fitting
<1>2. ASSUME NEW q \in Requests, Same(q) PROVE Counted(q)'
  BY <1>2 DEF Same, Fitting, Counted, Made
<1>3. CASE Quiet
  BY <1>1, <1>2, <1>3 DEF Quiet, Fitting
<1>4. ASSUME NEW r \in Requests, CallStep(r), Others(r) PROVE Fitting'
  <2>1. Counted(r)'
    BY <1>4, CountedStep DEF Fitting
  <2>2. \A q \in Requests : Counted(q)'
    BY <1>2, <1>4, <2>1 DEF Others
  <2> QED
    BY <1>1, <2>2 DEF Fitting
<1> QED
  BY <1>3, <1>4, StepLocal

\* The state of every call is of its type: in particular no timer of a call shows
\* a time it was not given, whatever the policies, and nothing is open of an
\* attempt that has not begun (transport.go:57-245).
THEOREM RoundTripTypeCorrect == Spec => []TypeOK
<1>1. Atomic!Spec => []Atomic!TypeOK
  BY ONLY AtomicParameters, KeysAssumption, Atomic!BucketTypeCorrect, Zenon
<1>2. Atomic!TypeOK => Budget!TypeOK
  BY SameParameters
     DEF Atomic!TypeOK, Budget!TypeOK, Atomic!Reservation, Budget!Reservation,
         Atomic!Stages, Budget!Stages
<1>3. Typed /\ HeldWell /\ Recorded /\ Fitting /\ Budget!TypeOK => TypeOK
  <2> SUFFICES ASSUME Typed, HeldWell, Recorded, Fitting, Budget!TypeOK PROVE TypeOK
    OBVIOUS
  <2>1. ASSUME NEW r \in Requests
        PROVE  respBody[r] \subseteq {attempt[r]} /\ attemptCtx[r] \subseteq {attempt[r]}
    BY DEF Typed, CallTypes, Labels, HeldWell, Attempts, Kept
  <2>2. ASSUME NEW r \in Requests
        PROVE  reqBody[r] \cup respBody[r] \cup attemptCtx[r] \subseteq 0 .. attempt[r]
    <3>1. attempt[r] \in 0 .. attempt[r]
      BY DEF Typed, CallTypes
    <3> QED
      BY <2>1, <3>1 DEF Fitting, Counted
  <2>3. ASSUME NEW r \in Requests
        PROVE  Len(sent[r]) <= attempt[r] + 1 /\ Len(result[r]) <= 1
    BY DEF Fitting, Counted, Made
  <2>4. ASSUME NEW r \in Requests
        PROVE  left[r] \in -1 .. Never /\ attemptLeft[r] \in -1 .. Never /\ waitLeft[r] \in -1 .. Never
    BY DEF Fitting, Timed, Time
  <2> QED
    BY <2>2, <2>3, <2>4 DEF TypeOK, Typed, CallTypes, HeldTypes, Fitting, World, Chosen,
                            Recorded, SeenTypes
<1> QED
  BY <1>1, <1>2, <1>3, AtomicSpec, RecordedAlways, InitFitting, StepFitting, PTL DEF Spec
=============================================================================
