--------------------------- MODULE RetryBudgetProofs ---------------------------
(***************************************************************************)
(* RetryBudget: its invariants, that the lock-free code implements the     *)
(* atomic TokenBucket, and what its operations leave of a balance, for     *)
(* every set of requests, keys and parameters.                             *)
(***************************************************************************)
EXTENDS RetryBudget, TLAPS

LEMMA ConfigFacts ==
    ASSUME NEW c \in Configs
    PROVE  /\ c.capacity \in Nat /\ c.cost \in Nat /\ c.increment \in Nat
           /\ Enabled(c) => c.capacity > 0 /\ c.cost > 0 /\ c.increment > 0
  BY ConfigsAssumption DEF BudgetConfig

LEMMA KeyFacts == ASSUME NEW r \in Requests PROVE key(r) \in Keys
  BY KeysAssumption DEF key

LEMMA ReplenishedType ==
    ASSUME NEW b \in Nat, NEW amount \in Nat, NEW capacity \in Nat
    PROVE  Replenished(b, amount, capacity) \in Nat
  BY DEF Replenished

\* The amount and limit of a call are numbers.
LEMMA CallFacts ==
    ASSUME TypeOK, NEW r \in Requests
    PROVE  Amount(r) \in Nat /\ Limit(r) \in Nat
<1>1. cfg[r] \in Configs /\ reservation[r] \in Reservation
  BY DEF TypeOK
<1> QED BY <1>1, ConfigFacts DEF Amount, Limit, Reservation

-----------------------------------------------------------------------------
(* The inductive invariant *)

IInv == TypeOK /\ LabelFacts

LEMMA InitIInv == Init => IInv
  BY MaxRetriesAssumption DEF Init, IInv, TypeOK, LabelFacts, LabelFactsOf, Labels, Reservation, NoReservation

\* Completing a call settles the reservation or counts the success.
LEMMA AddedType ==
    ASSUME TypeOK, NEW r \in Requests, Added(r)
    PROVE  /\ pc' \in [Requests -> Labels]
           /\ reservation' \in [Requests -> Reservation]
           /\ earned' \in [Keys -> Nat]
<1>1. NoReservation \in Reservation /\ key(r) \in Keys
  BY KeyFacts DEF Reservation, NoReservation
<1>2. cfg[r].increment \in Nat /\ earned \in [Keys -> Nat]
  BY ConfigFacts DEF TypeOK
<1>3. earned[key(r)] + cfg[r].increment \in Nat
  BY <1>1, <1>2
<1>4. pc' \in [Requests -> Labels]
  BY DEF Added, Goto, TypeOK, Labels
<1>5. reservation \in [Requests -> Reservation]
  BY DEF TypeOK
<1>6. CASE pc[r] \in {"refund load", "refund cas"}
  BY <1>1, <1>2, <1>4, <1>5, <1>6 DEF Added
<1>7. CASE pc[r] \notin {"refund load", "refund cas"}
  BY <1>1, <1>2, <1>3, <1>4, <1>5, <1>7 DEF Added
<1> QED BY <1>6, <1>7

LEMMA StepTypeOK ==
    ASSUME IInv, NEW r \in Requests, Step(r)
    PROVE  TypeOK'
<1>a. TypeOK
  BY DEF IInv
<1>1. CASE Begin(r)
  BY <1>a, <1>1 DEF TypeOK, Labels, Begin, Goto
<1>2. CASE WantRetry(r)
  BY <1>a, <1>2 DEF TypeOK, Labels, WantRetry, Goto
<1>3. CASE StartRetry(r)
  <2>1. retries[r] < MaxRetries
    BY <1>3 DEF StartRetry, IInv, LabelFacts, LabelFactsOf
  <2>2. retries[r] \in 0 .. MaxRetries
    BY <1>a DEF TypeOK
  <2>3. retries[r] + 1 \in 0 .. MaxRetries
    BY <2>1, <2>2, MaxRetriesAssumption
  <2>4. NoReservation \in Reservation /\ key(r) \in Keys
    BY KeyFacts DEF Reservation, NoReservation
  <2>5. spent[key(r)] \in Nat /\ reservation[r].cost \in Nat
    BY <1>a, <2>4 DEF TypeOK, Reservation
  <2>6. spent[key(r)] + reservation[r].cost \in Nat
    BY <2>5
  <2>7. /\ spent' \in [Keys -> Nat]
        /\ reservation' \in [Requests -> Reservation]
    BY <1>a, <1>3, <2>4, <2>6 DEF TypeOK, StartRetry
  <2>8. /\ retries' \in [Requests -> 0 .. MaxRetries]
        /\ pc' \in [Requests -> Labels]
    BY <1>a, <1>3, <2>3 DEF TypeOK, Labels, StartRetry, Goto
  <2>9. UNCHANGED <<entries, balance, suppressed, opened, earned, config, cfg, seen>>
    BY <1>3 DEF StartRetry
  <2> QED BY <1>a, <2>7, <2>8, <2>9 DEF TypeOK
<1>4. CASE AbandonRetry(r)
  BY <1>a, <1>4 DEF TypeOK, Labels, AbandonRetry, Goto
<1>5. CASE Finish(r)
  BY <1>a, <1>5 DEF TypeOK, Labels, Finish, Goto
<1>6. CASE ReserveLookup(r)
  BY <1>a, <1>6 DEF TypeOK, Labels, ReserveLookup, Goto
<1>7. CASE EntryStore(r)
  BY <1>a, <1>7, KeyFacts, ConfigFacts DEF TypeOK, Labels, EntryStore, Goto
<1>8. CASE ReserveLoad(r)
  BY <1>a, <1>8, KeyFacts DEF TypeOK, Labels, ReserveLoad, Goto, Decide
<1>9. CASE ReserveClamp(r)
  BY <1>a, <1>9, KeyFacts, ConfigFacts DEF TypeOK, Labels, ReserveClamp, Goto, Decide
<1>10. CASE ReserveDeduct(r)
  <2>1. cfg[r].cost \in Nat /\ cfg[r].capacity \in Nat
    BY <1>a, ConfigFacts DEF TypeOK
  <2>2. cfg[r].cost <= seen[r]
    BY <1>10 DEF ReserveDeduct, IInv, LabelFacts, LabelFactsOf
  <2>3. seen[r] \in Nat
    BY <1>a DEF TypeOK
  <2>4. seen[r] - cfg[r].cost \in Nat
    BY <2>1, <2>2, <2>3
  <2>5. [cost |-> cfg[r].cost, capacity |-> cfg[r].capacity] \in Reservation
    BY <2>1 DEF Reservation
  <2>6. /\ balance' \in [Keys -> Nat]
        /\ reservation' \in [Requests -> Reservation]
    BY <1>a, <1>10, <2>4, <2>5, KeyFacts DEF TypeOK, ReserveDeduct
  <2>7. pc' \in [Requests -> Labels]
    BY <1>a, <1>10 DEF TypeOK, Labels, ReserveDeduct, Goto
  <2>8. UNCHANGED <<entries, suppressed, opened, spent, earned, config, cfg, seen, retries>>
    BY <1>10 DEF ReserveDeduct
  <2> QED BY <1>a, <2>6, <2>7, <2>8 DEF TypeOK
<1>11. CASE SuccessLookup(r)
  BY <1>a, <1>11 DEF TypeOK, Labels, SuccessLookup, Goto
<1>12. CASE AddLoad(r)
  <2>1. key(r) \in Keys
    BY KeyFacts
  <2>2. seen' \in [Requests -> Nat]
    BY <1>a, <1>12, <2>1 DEF AddLoad, TypeOK
  <2>3. /\ pc' \in [Requests -> Labels]
        /\ reservation' \in [Requests -> Reservation]
        /\ earned' \in [Keys -> Nat]
    <3>1. CASE Added(r)
      BY <1>a, <3>1, AddedType
    <3>2. CASE ~Added(r)
      BY <1>a, <1>12, <3>2 DEF AddLoad, Goto, TypeOK, Labels
    <3> QED BY <3>1, <3>2
  <2>4. UNCHANGED <<entries, balance, suppressed, opened, spent, config, cfg, retries>>
    BY <1>12 DEF AddLoad
  <2> QED BY <1>a, <2>2, <2>3, <2>4 DEF TypeOK
<1>13. CASE AddStore(r)
  <2>1. key(r) \in Keys
    BY KeyFacts
  <2>2. Amount(r) \in Nat /\ Limit(r) \in Nat /\ seen[r] \in Nat
    BY <1>a, CallFacts DEF TypeOK
  <2>3. Replenished(seen[r], Amount(r), Limit(r)) \in Nat
    BY <2>2, ReplenishedType
  <2>4. balance' \in [Keys -> Nat]
    BY <1>a, <1>13, <2>1, <2>3 DEF AddStore, TypeOK
  <2>5. /\ pc' \in [Requests -> Labels]
        /\ reservation' \in [Requests -> Reservation]
        /\ earned' \in [Keys -> Nat]
    <3>1. CASE Added(r)
      BY <1>a, <3>1, AddedType
    <3>2. CASE ~Added(r)
      BY <1>a, <1>13, <3>2 DEF AddStore, Goto, TypeOK, Labels
    <3> QED BY <3>1, <3>2
  <2>6. UNCHANGED <<entries, suppressed, opened, spent, config, cfg, seen, retries>>
    BY <1>13 DEF AddStore
  <2> QED BY <1>a, <2>4, <2>5, <2>6 DEF TypeOK
<1> QED BY <1>1, <1>2, <1>3, <1>4, <1>5, <1>6, <1>7, <1>8, <1>9, <1>10, <1>11, <1>12, <1>13 DEF Step

\* A step of one request leaves the others where they are, and entries stay.
LEMMA StepFrame ==
    ASSUME TypeOK, NEW r \in Requests, Step(r), NEW q \in Requests, q # r
    PROVE  /\ pc'[q] = pc[q] /\ reservation'[q] = reservation[q]
           /\ cfg'[q] = cfg[q] /\ seen'[q] = seen[q] /\ retries'[q] = retries[q]
           /\ entries \subseteq entries'
<1> USE DEF TypeOK
<1>1. CASE Begin(r)
  BY <1>1 DEF Begin, Goto
<1>2. CASE WantRetry(r)
  BY <1>2 DEF WantRetry, Goto
<1>3. CASE StartRetry(r)
  BY <1>3 DEF StartRetry, Goto
<1>4. CASE AbandonRetry(r)
  BY <1>4 DEF AbandonRetry, Goto
<1>5. CASE Finish(r)
  BY <1>5 DEF Finish, Goto
<1>6. CASE ReserveLookup(r)
  BY <1>6 DEF ReserveLookup, Goto
<1>7. CASE EntryStore(r)
  BY <1>7 DEF EntryStore, Goto
<1>8. CASE ReserveLoad(r)
  BY <1>8 DEF ReserveLoad, Goto, Decide
<1>9. CASE ReserveClamp(r)
  BY <1>9 DEF ReserveClamp, Goto, Decide
<1>10. CASE ReserveDeduct(r)
  BY <1>10 DEF ReserveDeduct, Goto
<1>11. CASE SuccessLookup(r)
  BY <1>11 DEF SuccessLookup, Goto
<1>12. CASE AddLoad(r)
  BY <1>12 DEF AddLoad, Goto, Added
<1>13. CASE AddStore(r)
  BY <1>13 DEF AddStore, Goto, Added
<1> QED BY <1>1, <1>2, <1>3, <1>4, <1>5, <1>6, <1>7, <1>8, <1>9, <1>10, <1>11, <1>12, <1>13 DEF Step

LEMMA StepLabelFacts ==
    ASSUME IInv, NEW r \in Requests, Step(r)
    PROVE  LabelFacts'
<1> SUFFICES ASSUME NEW q \in Requests
             PROVE  LabelFactsOf(q)'
  BY DEF LabelFacts
<1>a. TypeOK /\ LabelFactsOf(q) /\ LabelFactsOf(r)
  BY DEF IInv, LabelFacts
<1>b. CASE q # r
  BY <1>a, <1>b, StepFrame DEF LabelFactsOf, key, Enabled
<1>c. CASE q = r
  <2> SUFFICES LabelFactsOf(r)'
    BY <1>c
  <2>a. cfg[r] \in Configs
    BY <1>a DEF TypeOK
  <2>b. /\ pc \in [Requests -> Labels] /\ reservation \in [Requests -> Reservation]
        /\ seen \in [Requests -> Nat] /\ cfg \in [Requests -> Configs]
        /\ retries \in [Requests -> 0 .. MaxRetries]
        /\ balance \in [Keys -> Nat]
    BY <1>a DEF TypeOK
  <2>c. /\ cfg[r].capacity \in Nat /\ cfg[r].cost \in Nat
        /\ Enabled(cfg[r]) => cfg[r].cost > 0
    BY <2>a, ConfigFacts
  <2>d. key(r) \in Keys
    BY KeyFacts
  <2>1. CASE Begin(r)
    BY <1>a, <2>b, <2>c, <2>d, <2>1 DEF Begin, Goto, LabelFactsOf, key, Enabled
  <2>2. CASE WantRetry(r)
    BY <1>a, <2>b, <2>c, <2>d, <2>2 DEF WantRetry, Goto, LabelFactsOf, key, Enabled
  <2>3. CASE StartRetry(r)
    BY <1>a, <2>b, <2>c, <2>d, <2>3 DEF StartRetry, Goto, LabelFactsOf, key, Enabled, NoReservation
  <2>4. CASE AbandonRetry(r)
    BY <1>a, <2>b, <2>c, <2>d, <2>4 DEF AbandonRetry, Goto, LabelFactsOf, key, Enabled
  <2>5. CASE Finish(r)
    BY <1>a, <2>b, <2>c, <2>d, <2>5 DEF Finish, Goto, LabelFactsOf, key, Enabled
  <2>6. CASE ReserveLookup(r)
    BY <1>a, <2>b, <2>c, <2>d, <2>6 DEF ReserveLookup, Goto, LabelFactsOf, key, Enabled
  <2>7. CASE EntryStore(r)
    BY <1>a, <2>b, <2>c, <2>d, <2>7 DEF EntryStore, Goto, LabelFactsOf, key, Enabled
  <2>8. CASE ReserveLoad(r)
    <3>1. /\ pc[r] = "reserve load"
          /\ seen'[r] = balance[key(r)]
          /\ UNCHANGED <<entries, reservation, cfg, retries>>
      BY <2>b, <2>8 DEF ReserveLoad
    <3>2. Enabled(cfg[r]) /\ key(r) \in entries /\ retries[r] < MaxRetries
          /\ reservation[r] = NoReservation
      BY <1>a, <3>1 DEF LabelFactsOf
    <3>3. \/ pc'[r] = "clamp" /\ balance[key(r)] > cfg[r].capacity
          \/ pc'[r] = "suppressed"
          \/ /\ pc'[r] = "reserve cas"
             /\ ~(balance[key(r)] > cfg[r].capacity)
             /\ ~(balance[key(r)] < cfg[r].cost)
      BY <2>b, <2>8 DEF ReserveLoad, Decide, Goto
    <3>4. balance[key(r)] \in Nat
      BY <2>b, <2>d
    <3>5. /\ ~(balance[key(r)] > cfg[r].capacity) => balance[key(r)] <= cfg[r].capacity
          /\ ~(balance[key(r)] < cfg[r].cost) => cfg[r].cost <= balance[key(r)]
      BY <3>4, <2>c
    <3> QED BY <3>1, <3>2, <3>3, <3>5 DEF LabelFactsOf, key, Enabled
  <2>9. CASE ReserveClamp(r)
    <3>1. /\ pc[r] = "clamp"
          /\ UNCHANGED <<entries, reservation, cfg, retries>>
      BY <2>9 DEF ReserveClamp
    <3>2. Enabled(cfg[r]) /\ key(r) \in entries /\ retries[r] < MaxRetries
          /\ reservation[r] = NoReservation
      BY <1>a, <3>1 DEF LabelFactsOf
    <3>3. \/ pc'[r] = "reserve load"
          \/ pc'[r] = "suppressed"
          \/ /\ pc'[r] = "reserve cas"
             /\ seen'[r] = cfg[r].capacity
             /\ ~(cfg[r].capacity < cfg[r].cost)
      BY <2>b, <2>9 DEF ReserveClamp, Decide, Goto
    <3>4. /\ cfg[r].capacity <= cfg[r].capacity
          /\ ~(cfg[r].capacity < cfg[r].cost) => cfg[r].cost <= cfg[r].capacity
      BY <2>c
    <3> QED BY <3>1, <3>2, <3>3, <3>4 DEF LabelFactsOf, key, Enabled
  <2>10. CASE ReserveDeduct(r)
    <3>1. /\ pc[r] = "reserve cas"
          /\ UNCHANGED <<entries, cfg, seen, retries>>
      BY <2>10 DEF ReserveDeduct
    <3>2. Enabled(cfg[r]) /\ key(r) \in entries /\ retries[r] < MaxRetries
          /\ reservation[r] = NoReservation
      BY <1>a, <3>1 DEF LabelFactsOf
    <3>3. \/ pc'[r] = "reserve load" /\ reservation'[r] = NoReservation
          \/ pc'[r] = "backoff" /\ reservation'[r].cost = cfg[r].cost
      <4>1. CASE balance[key(r)] = seen[r]
        <5>1. /\ reservation' = [reservation EXCEPT
                   ![r] = [cost |-> cfg[r].cost, capacity |-> cfg[r].capacity]]
              /\ pc' = [pc EXCEPT ![r] = "backoff"]
          BY <2>10, <4>1 DEF ReserveDeduct, Goto
        <5>2. reservation'[r] = [cost |-> cfg[r].cost, capacity |-> cfg[r].capacity]
          BY <2>b, <5>1
        <5>3. pc'[r] = "backoff"
          BY <2>b, <5>1
        <5> QED BY <5>2, <5>3
      <4>2. CASE balance[key(r)] # seen[r]
        BY <2>b, <3>2, <2>10, <4>2 DEF ReserveDeduct, Goto
      <4> QED BY <4>1, <4>2
    <3>4. reservation'[r].cost = cfg[r].cost => reservation'[r] # NoReservation
      BY <2>c, <3>2 DEF NoReservation
    <3> QED BY <3>1, <3>2, <3>3, <3>4, <2>c DEF LabelFactsOf, key, Enabled
  <2>11. CASE SuccessLookup(r)
    BY <1>a, <2>b, <2>c, <2>d, <2>11 DEF SuccessLookup, Goto, LabelFactsOf, key, Enabled
  <2>12. CASE AddLoad(r)
    BY <1>a, <2>b, <2>c, <2>d, <2>12 DEF AddLoad, Goto, LabelFactsOf, key, Enabled, Added, NoReservation
  <2>13. CASE AddStore(r)
    BY <1>a, <2>b, <2>c, <2>d, <2>13 DEF AddStore, Goto, LabelFactsOf, key, Enabled, Added, NoReservation
  <2> QED BY <2>1, <2>2, <2>3, <2>4, <2>5, <2>6, <2>7, <2>8, <2>9, <2>10, <2>11, <2>12, <2>13 DEF Step
<1> QED BY <1>b, <1>c

LEMMA OtherIInv ==
    ASSUME IInv, Reconfigure \/ UNCHANGED vars
    PROVE  IInv'
<1>1. TypeOK'
  BY DEF IInv, Reconfigure, vars, TypeOK
<1>2. ASSUME NEW q \in Requests
      PROVE  LabelFactsOf(q)'
  <2>1. LabelFactsOf(q)
    BY DEF IInv, LabelFacts
  <2> QED BY <2>1 DEF Reconfigure, vars, LabelFactsOf, key, Enabled
<1> QED BY <1>1, <1>2 DEF IInv, LabelFacts

LEMMA NextIInv == IInv /\ [Next]_vars => IInv'
  BY StepTypeOK, StepLabelFacts, OtherIInv DEF Next, IInv, Terminated

\* The types hold in every state: no balance is ever negative.
THEOREM BudgetTypeCorrect == Spec => []TypeOK
  BY InitIInv, NextIInv, PTL DEF Spec, IInv

\* What each label promises holds in every state, whatever the interleaving.
THEOREM BudgetLabelFacts == Spec => []LabelFacts
  BY InitIInv, NextIInv, PTL DEF Spec, IInv

-----------------------------------------------------------------------------
(* The atomic bucket implemented: each step of RetryBudget is one action of
   TokenBucket or changes nothing it can see. *)

Atomic == INSTANCE TokenBucketProofs WITH stage <- stageBar

\* One step of the atomic bucket, or none.
AbstractStep == Bucket!Next \/ UNCHANGED Bucket!vars

\* The two modules share the definitions of BudgetParameters.
LEMMA Shared ==
    /\ Bucket!NoReservation = NoReservation
    /\ \A c \in Configs : Bucket!Enabled(c) <=> Enabled(c)
    /\ \A b, x, y : Bucket!Replenished(b, x, y) = Replenished(b, x, y)
  BY DEF Bucket!NoReservation, NoReservation, Bucket!Enabled, Enabled,
         Bucket!Disabled, Disabled, Bucket!Replenished, Replenished

-----------------------------------------------------------------------------
(* How a move between labels moves the stage *)

LEMMA StageMoves ==
    ASSUME pc \in [Requests -> Labels], NEW r \in Requests, NEW l \in Labels, Goto(r, l)
    PROVE  stageBar' = [stageBar EXCEPT ![r] = StageOf(l)]
<1>1. \A q \in Requests : StageOf(pc'[q]) = IF q = r THEN StageOf(l) ELSE StageOf(pc[q])
  BY DEF Goto
<1> QED BY <1>1 DEF stageBar

\* The stage of every label.
LEMMA StageFacts ==
    /\ \A l \in {"idle", "attempt", "reserve", "store", "reserve load",
                 "clamp", "reserve cas"} : StageOf(l) = "open" /\ l \in Labels
    /\ \A l \in {"backoff", "refund load", "refund cas"} :
           StageOf(l) = "granted" /\ l \in Labels
    /\ \A l \in {"suppressed", "success", "credit load", "credit cas"} :
           StageOf(l) = "final" /\ l \in Labels
    /\ StageOf("done") = "closed" /\ "done" \in Labels
  BY DEF StageOf, Labels

LEMMA StageAt == ASSUME NEW r \in Requests PROVE stageBar[r] = StageOf(pc[r])
  BY DEF stageBar

-----------------------------------------------------------------------------
(* Steps that touch no data of the bucket *)

\* A move within one stage.
LEMMA Unseen ==
    ASSUME pc \in [Requests -> Labels], NEW r \in Requests, NEW l \in Labels, Goto(r, l),
           StageOf(l) = StageOf(pc[r]),
           UNCHANGED <<entries, balance, reservation, suppressed, opened, spent, earned>>
    PROVE  AbstractStep
<1>1. stageBar' = [stageBar EXCEPT ![r] = stageBar[r]]
  BY StageMoves, StageAt
<1>2. stageBar' = stageBar
  BY <1>1 DEF stageBar
<1> QED BY <1>2 DEF AbstractStep, Bucket!vars, Bucket!data

\* The request ends.
LEMMA Closes ==
    ASSUME pc \in [Requests -> Labels], NEW r \in Requests, Goto(r, "done"),
           StageOf(pc[r]) \in {"open", "final"},
           UNCHANGED <<entries, balance, reservation, suppressed, opened, spent, earned>>
    PROVE  AbstractStep
<1>1. stageBar' = [stageBar EXCEPT ![r] = StageOf("done")]
  BY StageMoves, StageFacts
<1>2. stageBar' = [stageBar EXCEPT ![r] = "closed"]
  BY <1>1, StageFacts
<1>3. stageBar[r] \in {"open", "final"}
  BY StageAt
<1>4. Bucket!Close(r)
  BY <1>2, <1>3 DEF Bucket!Close, Bucket!data
<1> QED BY <1>4 DEF AbstractStep, Bucket!Next

-----------------------------------------------------------------------------
(* Adding to a balance *)

\* At the limit, adding changes nothing: AddLoad may skip the store.
LEMMA ReplenishedFull ==
    ASSUME NEW b \in Nat, NEW amount \in Nat
    PROVE  Replenished(b, amount, b) = b
  BY DEF Replenished

\* The call takes effect, at its load or at its compare-and-swap.
LEMMA AddedRefines ==
    ASSUME IInv, NEW r \in Requests,
           pc[r] \in {"refund load", "refund cas", "credit load", "credit cas"},
           balance' = [balance EXCEPT
               ![key(r)] = Replenished(balance[key(r)], Amount(r), Limit(r))],
           Added(r),
           UNCHANGED <<entries, suppressed, opened, spent>>
    PROVE  AbstractStep
<1>a. pc \in [Requests -> Labels] /\ cfg[r] \in Configs
  BY DEF IInv, TypeOK
<1>b. LabelFactsOf(r)
  BY DEF IInv, LabelFacts
<1>1. stageBar' = [stageBar EXCEPT ![r] = "closed"]
  <2>1. Goto(r, "done")
    BY DEF Added
  <2>2. stageBar' = [stageBar EXCEPT ![r] = StageOf("done")]
    BY <1>a, <2>1, StageMoves, StageFacts
  <2> QED BY <2>2, StageFacts
<1>2. CASE pc[r] \in {"refund load", "refund cas"}
  <2>1. stageBar[r] = "granted" /\ reservation[r] # NoReservation
    BY <1>2, <1>b, StageAt, StageFacts DEF LabelFactsOf
  <2>2. /\ reservation' = [reservation EXCEPT ![r] = NoReservation]
        /\ UNCHANGED earned
    BY <1>2 DEF Added
  <2>3. Amount(r) = reservation[r].cost /\ Limit(r) = reservation[r].capacity
    BY <1>2 DEF Amount, Limit
  <2>4. Bucket!Refund(r)
    BY <1>1, <2>1, <2>2, <2>3, Shared DEF Bucket!Refund, key
  <2> QED BY <2>4 DEF AbstractStep, Bucket!Next
<1>3. CASE pc[r] \in {"credit load", "credit cas"}
  <2>1. stageBar[r] = "final"
    BY <1>3, StageAt, StageFacts
  <2>2. Enabled(cfg[r]) /\ key(r) \in entries
    BY <1>3, <1>b DEF LabelFactsOf
  <2>3. /\ earned' = [earned EXCEPT ![key(r)] = @ + cfg[r].increment]
        /\ UNCHANGED reservation
    BY <1>3 DEF Added
  <2>4. Amount(r) = cfg[r].increment /\ Limit(r) = cfg[r].capacity
    BY <1>3 DEF Amount, Limit
  <2>5. Bucket!Credit(r, cfg[r])
    BY <1>1, <2>1, <2>2, <2>3, <2>4, <1>a, Shared DEF Bucket!Credit, key
  <2> QED BY <2>5, <1>a DEF AbstractStep, Bucket!Next
<1> QED BY <1>2, <1>3

-----------------------------------------------------------------------------
(* Every step *)

LEMMA StepRefines ==
    ASSUME IInv, NEW r \in Requests, Step(r)
    PROVE  AbstractStep
<1>a. /\ pc \in [Requests -> Labels] /\ cfg[r] \in Configs
      /\ reservation \in [Requests -> Reservation] /\ seen[r] \in Nat
      /\ balance \in [Keys -> Nat] /\ balance[key(r)] \in Nat
  BY KeyFacts DEF IInv, TypeOK
<1>b. LabelFactsOf(r)
  BY DEF IInv, LabelFacts
<1>c. cfg[r].capacity \in Nat /\ cfg[r].cost \in Nat /\ cfg[r].increment \in Nat
  BY <1>a, ConfigFacts
<1>1. CASE Begin(r)
  BY <1>a, <1>1, Unseen, StageFacts DEF Begin
<1>2. CASE WantRetry(r)
  BY <1>a, <1>2, Unseen, StageFacts DEF WantRetry
<1>3. CASE StartRetry(r)
  <2>1. stageBar' = [stageBar EXCEPT ![r] = StageOf("attempt")]
    BY <1>a, <1>3, StageMoves, StageFacts DEF StartRetry
  <2>2. stageBar' = [stageBar EXCEPT ![r] = "open"]
    BY <2>1, StageFacts
  <2>3. stageBar[r] = "granted"
    BY <1>3, StageAt, StageFacts DEF StartRetry
  <2>4. Bucket!Commit(r)
    BY <1>3, <2>2, <2>3, <1>a, Shared DEF StartRetry, Bucket!Commit, key
  <2> QED BY <2>4 DEF AbstractStep, Bucket!Next
<1>4. CASE AbandonRetry(r)
  <2>1. CASE reservation[r] = NoReservation
    <3>1. stageBar' = [stageBar EXCEPT ![r] = StageOf("done")]
      BY <1>a, <1>4, <2>1, StageMoves, StageFacts DEF AbandonRetry
    <3>2. stageBar' = [stageBar EXCEPT ![r] = "closed"]
      BY <3>1, StageFacts
    <3>3. stageBar[r] = "granted"
      BY <1>4, StageAt, StageFacts DEF AbandonRetry
    <3>4. reservation' = [reservation EXCEPT ![r] = NoReservation]
      BY <1>4, <2>1, <1>a DEF AbandonRetry
    <3>5. Bucket!Refund(r)
      BY <1>4, <2>1, <3>2, <3>3, <3>4, <1>a, Shared DEF AbandonRetry, Bucket!Refund
    <3> QED BY <3>5 DEF AbstractStep, Bucket!Next
  <2>2. CASE reservation[r] # NoReservation
    BY <1>a, <1>4, <2>2, Unseen, StageFacts DEF AbandonRetry
  <2> QED BY <2>1, <2>2
<1>5. CASE Finish(r)
  <2>1. UNCHANGED <<entries, balance, reservation, suppressed, opened, spent, earned>>
    BY <1>5 DEF Finish
  <2>2. CASE Goto(r, "done")
    BY <1>a, <1>5, <2>1, <2>2, Closes, StageFacts DEF Finish
  <2>3. CASE Goto(r, "success") /\ pc[r] = "suppressed"
    BY <1>a, <2>1, <2>3, Unseen, StageFacts
  <2>4. CASE Goto(r, "success") /\ pc[r] = "attempt"
    <3>1. stageBar' = [stageBar EXCEPT ![r] = StageOf("success")]
      BY <1>a, <2>4, StageMoves, StageFacts
    <3>2. stageBar' = [stageBar EXCEPT ![r] = "final"]
      BY <3>1, StageFacts
    <3>3. stageBar[r] = "open"
      BY <2>4, StageAt, StageFacts
    <3>4. Bucket!Stop(r)
      BY <2>1, <3>2, <3>3 DEF Bucket!Stop, Bucket!data
    <3> QED BY <3>4 DEF AbstractStep, Bucket!Next
  <2> QED BY <1>5, <2>2, <2>3, <2>4 DEF Finish
<1>6. CASE ReserveLookup(r)
  <2>1. UNCHANGED <<entries, balance, reservation, suppressed, opened, spent, earned>>
    BY <1>6 DEF ReserveLookup
  <2>2. CASE Goto(r, "backoff") /\ ~Enabled(cfg[r])
    <3>1. stageBar' = [stageBar EXCEPT ![r] = StageOf("backoff")]
      BY <1>a, <2>2, StageMoves, StageFacts
    <3>2. stageBar' = [stageBar EXCEPT ![r] = "granted"]
      BY <3>1, StageFacts
    <3>3. stageBar[r] = "open"
      BY <1>6, StageAt, StageFacts DEF ReserveLookup
    <3>4. Bucket!Bypass(r, cfg[r])
      BY <2>1, <2>2, <3>2, <3>3, <1>a, Shared DEF Bucket!Bypass, Bucket!data
    <3> QED BY <3>4, <1>a DEF AbstractStep, Bucket!Next
  <2>3. CASE Goto(r, "reserve load")
    BY <1>a, <1>6, <2>1, <2>3, Unseen, StageFacts DEF ReserveLookup
  <2>4. CASE Goto(r, "store")
    BY <1>a, <1>6, <2>1, <2>4, Unseen, StageFacts DEF ReserveLookup
  <2> QED BY <1>6, <2>2, <2>3, <2>4 DEF ReserveLookup
<1>7. CASE EntryStore(r)
  <2>1. CASE key(r) \in entries
    BY <1>a, <1>7, <2>1, Unseen, StageFacts DEF EntryStore
  <2>2. CASE key(r) \notin entries
    <3>1. stageBar' = [stageBar EXCEPT ![r] = StageOf("reserve load")]
      BY <1>a, <1>7, StageMoves, StageFacts DEF EntryStore
    <3>2. stageBar[r] = "open"
      BY <1>7, StageAt, StageFacts DEF EntryStore
    <3>3. stageBar' = stageBar
      BY <3>1, <3>2, StageFacts DEF stageBar
    <3>4. Enabled(cfg[r])
      BY <1>7, <1>b DEF EntryStore, LabelFactsOf
    <3>5. Bucket!Open(r, cfg[r])
      BY <1>7, <2>2, <3>2, <3>3, <3>4, <1>a, Shared DEF EntryStore, Bucket!Open, key
    <3> QED BY <3>5, <1>a DEF AbstractStep, Bucket!Next
  <2> QED BY <2>1, <2>2
<1>8. CASE ReserveLoad(r)
  <2>1. /\ UNCHANGED <<entries, balance, reservation, opened, spent, earned>>
        /\ pc[r] = "reserve load"
    BY <1>8 DEF ReserveLoad
  <2>2. \/ UNCHANGED suppressed /\ Goto(r, "clamp")
        \/ UNCHANGED suppressed /\ Goto(r, "reserve cas")
        \/ /\ balance[key(r)] < cfg[r].cost
           /\ suppressed' = suppressed \cup {r}
           /\ Goto(r, "suppressed")
    BY <1>8 DEF ReserveLoad, Decide
  <2>3. CASE UNCHANGED suppressed /\ Goto(r, "clamp")
    BY <1>a, <2>1, <2>3, Unseen, StageFacts
  <2>4. CASE UNCHANGED suppressed /\ Goto(r, "reserve cas")
    BY <1>a, <2>1, <2>4, Unseen, StageFacts
  <2>5. CASE /\ balance[key(r)] < cfg[r].cost
             /\ suppressed' = suppressed \cup {r}
             /\ Goto(r, "suppressed")
    <3>1. stageBar' = [stageBar EXCEPT ![r] = StageOf("suppressed")]
      BY <1>a, <2>5, StageMoves, StageFacts
    <3>2. stageBar' = [stageBar EXCEPT ![r] = "final"]
      BY <3>1, StageFacts
    <3>3. stageBar[r] = "open" /\ Enabled(cfg[r]) /\ key(r) \in entries
      BY <2>1, <1>b, StageAt, StageFacts DEF LabelFactsOf
    <3>4. Bucket!Deny(r, cfg[r])
      BY <1>a, <2>1, <2>5, <3>2, <3>3, Shared DEF Bucket!Deny, Bucket!data, key
    <3> QED BY <3>4, <1>a DEF AbstractStep, Bucket!Next
  <2> QED BY <2>2, <2>3, <2>4, <2>5
<1>9. CASE ReserveClamp(r)
  <2>1. /\ UNCHANGED <<entries, reservation, opened, spent, earned>>
        /\ pc[r] = "clamp"
    BY <1>9 DEF ReserveClamp
  <2>2. /\ stageBar[r] = "open" /\ Enabled(cfg[r]) /\ key(r) \in entries
        /\ seen[r] > cfg[r].capacity
    BY <2>1, <1>b, StageAt, StageFacts DEF LabelFactsOf
  <2>3. CASE balance[key(r)] # seen[r]
    BY <1>a, <1>9, <2>1, <2>3, Unseen, StageFacts DEF ReserveClamp
  <2>4. CASE balance[key(r)] = seen[r]
    <3>1. balance' = [balance EXCEPT ![key(r)] = cfg[r].capacity]
      BY <1>9, <2>4 DEF ReserveClamp
    <3>2. \/ UNCHANGED suppressed /\ Goto(r, "reserve cas")
          \/ /\ cfg[r].capacity < cfg[r].cost
             /\ suppressed' = suppressed \cup {r}
             /\ Goto(r, "suppressed")
      BY <1>9, <2>4 DEF ReserveClamp, Decide
    <3>3. \/ UNCHANGED <<stageBar, suppressed>>
          \/ /\ cfg[r].capacity < cfg[r].cost
             /\ stageBar' = [stageBar EXCEPT ![r] = "final"]
             /\ suppressed' = suppressed \cup {r}
      <4>1. CASE UNCHANGED suppressed /\ Goto(r, "reserve cas")
        <5>1. stageBar' = [stageBar EXCEPT ![r] = StageOf("reserve cas")]
          BY <1>a, <4>1, StageMoves, StageFacts
        <5>2. stageBar' = [stageBar EXCEPT ![r] = stageBar[r]]
          BY <5>1, <2>2, StageFacts
        <5>3. stageBar' = stageBar
          BY <5>2 DEF stageBar
        <5> QED BY <4>1, <5>3
      <4>2. CASE /\ cfg[r].capacity < cfg[r].cost
                 /\ suppressed' = suppressed \cup {r}
                 /\ Goto(r, "suppressed")
        <5>1. stageBar' = [stageBar EXCEPT ![r] = StageOf("suppressed")]
          BY <1>a, <4>2, StageMoves, StageFacts
        <5>2. stageBar' = [stageBar EXCEPT ![r] = "final"]
          BY <5>1, StageFacts
        <5> QED BY <4>2, <5>2
      <4> QED BY <3>2, <4>1, <4>2
    <3>4. Bucket!Trim(r, cfg[r])
      BY <1>a, <2>1, <2>2, <2>4, <3>1, <3>3, Shared DEF Bucket!Trim, key
    <3> QED BY <3>4, <1>a DEF AbstractStep, Bucket!Next
  <2> QED BY <2>3, <2>4
<1>10. CASE ReserveDeduct(r)
  <2>1. /\ UNCHANGED <<entries, suppressed, opened, spent, earned>>
        /\ pc[r] = "reserve cas"
    BY <1>10 DEF ReserveDeduct
  <2>2. CASE balance[key(r)] # seen[r]
    BY <1>a, <1>10, <2>1, <2>2, Unseen, StageFacts DEF ReserveDeduct
  <2>3. CASE balance[key(r)] = seen[r]
    <3>1. /\ balance' = [balance EXCEPT ![key(r)] = @ - cfg[r].cost]
          /\ reservation' = [reservation EXCEPT
                 ![r] = [cost |-> cfg[r].cost, capacity |-> cfg[r].capacity]]
          /\ Goto(r, "backoff")
      BY <1>10, <2>3 DEF ReserveDeduct
    <3>2. stageBar' = [stageBar EXCEPT ![r] = StageOf("backoff")]
      BY <1>a, <3>1, StageMoves, StageFacts
    <3>3. stageBar' = [stageBar EXCEPT ![r] = "granted"]
      BY <3>2, StageFacts
    <3>4. /\ stageBar[r] = "open" /\ Enabled(cfg[r]) /\ key(r) \in entries
          /\ cfg[r].cost <= seen[r] /\ seen[r] <= cfg[r].capacity
      BY <2>1, <1>b, StageAt, StageFacts DEF LabelFactsOf
    <3>5. balance[key(r)] \in cfg[r].cost .. cfg[r].capacity
      BY <1>a, <1>c, <2>3, <3>4
    <3>6. Bucket!Grant(r, cfg[r])
      BY <1>a, <2>1, <3>1, <3>3, <3>4, <3>5, Shared DEF Bucket!Grant, key
    <3> QED BY <3>6, <1>a DEF AbstractStep, Bucket!Next
  <2> QED BY <2>2, <2>3
<1>11. CASE SuccessLookup(r)
  <2>1. UNCHANGED <<entries, balance, reservation, suppressed, opened, spent, earned>>
    BY <1>11 DEF SuccessLookup
  <2>2. CASE Goto(r, "done")
    BY <1>a, <1>11, <2>1, <2>2, Closes, StageFacts DEF SuccessLookup
  <2>3. CASE Goto(r, "credit load")
    BY <1>a, <1>11, <2>1, <2>3, Unseen, StageFacts DEF SuccessLookup
  <2> QED BY <1>11, <2>2, <2>3 DEF SuccessLookup
<1>12. CASE AddLoad(r)
  <2>1. /\ UNCHANGED <<entries, balance, suppressed, opened, spent>>
        /\ pc[r] \in {"refund load", "credit load"}
    BY <1>12 DEF AddLoad
  <2>2. CASE balance[key(r)] = Limit(r)
    <3>1. Added(r)
      BY <1>12, <2>2 DEF AddLoad
    <3>2. Amount(r) \in Nat
      BY CallFacts DEF IInv
    <3>3. Replenished(balance[key(r)], Amount(r), Limit(r)) = balance[key(r)]
      BY <1>a, <2>2, <3>2, ReplenishedFull
    <3>4. balance' = [balance EXCEPT
              ![key(r)] = Replenished(balance[key(r)], Amount(r), Limit(r))]
      BY <1>a, <2>1, <3>3
    <3> QED BY <2>1, <3>1, <3>4, AddedRefines
  <2>3. CASE balance[key(r)] # Limit(r)
    <3>1. CASE pc[r] = "refund load"
      BY <1>a, <1>12, <2>1, <2>3, <3>1, Unseen, StageFacts DEF AddLoad
    <3>2. CASE pc[r] = "credit load"
      BY <1>a, <1>12, <2>1, <2>3, <3>2, Unseen, StageFacts DEF AddLoad
    <3> QED BY <2>1, <3>1, <3>2
  <2> QED BY <2>2, <2>3
<1>13. CASE AddStore(r)
  <2>1. /\ UNCHANGED <<entries, suppressed, opened, spent>>
        /\ pc[r] \in {"refund cas", "credit cas"}
    BY <1>13 DEF AddStore
  <2>2. CASE balance[key(r)] = seen[r]
    BY <1>13, <2>1, <2>2, AddedRefines DEF AddStore
  <2>3. CASE balance[key(r)] # seen[r]
    <3>1. CASE pc[r] = "refund cas"
      BY <1>a, <1>13, <2>1, <2>3, <3>1, Unseen, StageFacts DEF AddStore
    <3>2. CASE pc[r] = "credit cas"
      BY <1>a, <1>13, <2>1, <2>3, <3>2, Unseen, StageFacts DEF AddStore
    <3> QED BY <2>1, <3>1, <3>2
  <2> QED BY <2>2, <2>3
<1> QED BY <1>1, <1>2, <1>3, <1>4, <1>5, <1>6, <1>7, <1>8, <1>9, <1>10, <1>11, <1>12, <1>13 DEF Step

LEMMA OtherRefines ==
    ASSUME Reconfigure \/ UNCHANGED vars
    PROVE  AbstractStep
  BY DEF Reconfigure, vars, AbstractStep, Bucket!vars, Bucket!data, stageBar

LEMMA InitRefines == Init => Bucket!Init
  BY DEF Init, Bucket!Init, Bucket!NoReservation, NoReservation, stageBar, StageOf

\* The compare-and-swap code is atomic to its callers: every behaviour of
\* RetryBudget is one of TokenBucket (retry_budget.go:78-163).
THEOREM BudgetImplementsBucket == Spec => ImplementsTokenBucket
<1>1. IInv /\ [Next]_vars => [Bucket!Next]_(Bucket!vars)
  BY StepRefines, OtherRefines DEF Next, Terminated, AbstractStep
<1>2. Spec => []IInv
  BY InitIInv, NextIInv, PTL DEF Spec
<1> QED BY <1>1, <1>2, InitRefines, PTL DEF Spec, Bucket!Spec, ImplementsTokenBucket

-----------------------------------------------------------------------------
(* Bucket and Atomic instantiate the same definitions twice; the theorems  *)
(* of TokenBucketProofs are about the second.                              *)

LEMMA SameParameters ==
    /\ Bucket!NoReservation = Atomic!NoReservation
    /\ \A c \in Configs : Bucket!Enabled(c) <=> Atomic!Enabled(c)
    /\ \A b, x, y : Bucket!Replenished(b, x, y) = Atomic!Replenished(b, x, y)
  BY DEF Bucket!NoReservation, Atomic!NoReservation, Bucket!Enabled, Atomic!Enabled,
         Bucket!Disabled, Atomic!Disabled, Bucket!Replenished, Atomic!Replenished

LEMMA SameCardinality ==
    ASSUME NEW S PROVE Bucket!Cardinality(S) = Atomic!Cardinality(S)
  BY DEF Bucket!Cardinality, Atomic!Cardinality

LEMMA SameSpendBounded == Bucket!SpendBounded <=> Atomic!SpendBounded
<1>1. \A k \in Keys : Bucket!HeldUnits(k) = Atomic!HeldUnits(k)
  BY DEF Bucket!HeldUnits, Atomic!HeldUnits, Bucket!Units, Atomic!Units
<1> QED BY <1>1, SameCardinality DEF Bucket!SpendBounded, Atomic!SpendBounded

LEMMA SameNext == Bucket!Next => Atomic!Next
<1> SUFFICES ASSUME Bucket!Next PROVE Atomic!Next
  OBVIOUS
<1>1. ASSUME NEW r \in Requests,
             Bucket!Commit(r) \/ Bucket!Refund(r) \/ Bucket!Stop(r) \/ Bucket!Close(r)
      PROVE  Atomic!Commit(r) \/ Atomic!Refund(r) \/ Atomic!Stop(r) \/ Atomic!Close(r)
  BY <1>1, SameParameters
     DEF Bucket!Commit, Atomic!Commit, Bucket!Refund, Atomic!Refund, Bucket!Stop,
         Atomic!Stop, Bucket!Close, Atomic!Close, Bucket!data, Atomic!data
<1>2. ASSUME NEW r \in Requests, NEW c \in Configs,
             Bucket!Open(r, c) \/ Bucket!Trim(r, c) \/ Bucket!Bypass(r, c)
      PROVE  Atomic!Open(r, c) \/ Atomic!Trim(r, c) \/ Atomic!Bypass(r, c)
  BY <1>2, SameParameters
     DEF Bucket!Open, Atomic!Open, Bucket!Trim, Atomic!Trim, Bucket!Bypass,
         Atomic!Bypass, Bucket!data, Atomic!data
<1>3. ASSUME NEW r \in Requests, NEW c \in Configs,
             Bucket!Grant(r, c) \/ Bucket!Deny(r, c) \/ Bucket!Credit(r, c)
      PROVE  Atomic!Grant(r, c) \/ Atomic!Deny(r, c) \/ Atomic!Credit(r, c)
  BY <1>3, SameParameters
     DEF Bucket!Grant, Atomic!Grant, Bucket!Deny, Atomic!Deny, Bucket!Credit,
         Atomic!Credit, Bucket!data, Atomic!data
<1> QED BY <1>1, <1>2, <1>3 DEF Bucket!Next, Atomic!Next

-----------------------------------------------------------------------------

\* The retries of all requests together stay within the capacity each entry
\* opened with plus the successes recorded, whatever compare-and-swaps race
\* and however the parameters change (retry_budget.go:84-153).
THEOREM BudgetSpendBounded == Spec => []SpendBounded
<1>1. Bucket!Init <=> Atomic!Init
  BY SameParameters DEF Bucket!Init, Atomic!Init
<1>2. [Bucket!Next]_(Bucket!vars) => [Atomic!Next]_(Atomic!vars)
  BY SameNext DEF Bucket!vars, Atomic!vars, Bucket!data, Atomic!data
<1>3. Atomic!Spec => []Atomic!SpendBounded
  <2>1. Atomic!IsFiniteSet(Requests)
    BY RequestsAssumption DEF IsFiniteSet, Atomic!IsFiniteSet
  <2>2. Configs \subseteq Atomic!BudgetConfig
    BY ConfigsAssumption DEF Atomic!BudgetConfig, BudgetConfig
  <2>3. \A c \in Configs :
            Atomic!Enabled(c) => c.capacity > 0 /\ c.cost > 0 /\ c.increment > 0
    BY ConfigsAssumption DEF Atomic!Enabled, Enabled, Atomic!Disabled, Disabled
  <2> QED BY ONLY <2>1, <2>2, <2>3, KeysAssumption, Atomic!BucketSpendBounded, Zenon
<1> QED BY <1>1, <1>2, <1>3, SameSpendBounded, BudgetImplementsBucket, PTL
      DEF ImplementsTokenBucket, SpendBounded, Bucket!Spec, Atomic!Spec

-----------------------------------------------------------------------------
(* What an operation leaves of a balance *)

LEMMA ReplenishedBounds ==
    ASSUME NEW b \in Nat, NEW amount \in Nat, NEW capacity \in Nat
    PROVE  /\ Replenished(b, amount, capacity) <= capacity
           /\ b <= capacity => Replenished(b, amount, capacity) >= b
  BY DEF Replenished

\* A request that moves makes a step of its own.
LEMMA Mover ==
    ASSUME TypeOK, [Next]_vars, NEW r \in Requests, pc'[r] # pc[r]
    PROVE  Step(r)
<1>1. ~Reconfigure /\ ~UNCHANGED vars
  BY DEF Reconfigure, vars
<1>2. PICK q \in Requests : Step(q)
  BY <1>1 DEF Next, Terminated
<1>3. q = r
  BY <1>2, StepFrame
<1> QED
  BY <1>2, <1>3

\* An addition that takes effect leaves the balance that was there, when that is
\* the limit, or its sum with the amount, cut to the limit.
LEMMA AddedBalance ==
    ASSUME TypeOK, NEW r \in Requests, Step(r), pc'[r] = "done",
           pc[r] \in {"refund load", "refund cas", "credit load", "credit cas"}
    PROVE  \/ balance'[key(r)] = balance[key(r)] /\ balance[key(r)] = Limit(r)
           \/ balance'[key(r)] = Replenished(balance[key(r)], Amount(r), Limit(r))
<1>1. balance \in [Keys -> Nat] /\ key(r) \in Keys /\ pc \in [Requests -> Labels]
  BY KeyFacts DEF TypeOK
<1>2. AddLoad(r) \/ AddStore(r)
  BY DEF Step, Begin, WantRetry, StartRetry, AbandonRetry, Finish, ReserveLookup, EntryStore,
         ReserveLoad, ReserveClamp, ReserveDeduct, SuccessLookup
<1>3. CASE AddLoad(r)
  <2>1. CASE balance[key(r)] = Limit(r)
    BY <1>3, <2>1 DEF AddLoad
  <2>2. CASE balance[key(r)] # Limit(r)
    BY <1>1, <1>3, <2>2 DEF AddLoad, Goto
  <2> QED
    BY <2>1, <2>2
<1>4. CASE AddStore(r)
  <2>1. CASE balance[key(r)] = seen[r]
    BY <1>1, <1>4, <2>1 DEF AddStore
  <2>2. CASE balance[key(r)] # seen[r]
    BY <1>1, <1>4, <2>2 DEF AddStore, Goto
  <2> QED
    BY <2>1, <2>2
<1> QED
  BY <1>2, <1>3, <1>4

LEMMA EffectTrims ==
    ASSUME IInv, NEW r \in Requests, Step(r), EffectAt(r)
    PROVE  balance'[key(r)] <= Limit(r)
<1>1. /\ balance \in [Keys -> Nat] /\ key(r) \in Keys /\ pc \in [Requests -> Labels]
      /\ cfg[r] \in Configs /\ seen[r] \in Nat
      /\ TypeOK /\ LabelFactsOf(r)
  BY KeyFacts DEF IInv, TypeOK, LabelFacts
<1>2. cfg[r].capacity \in Nat /\ cfg[r].cost \in Nat
  BY <1>1, ConfigFacts
<1>3. CASE pc[r] \in {"refund load", "refund cas", "credit load", "credit cas"}
  <2>1. balance[key(r)] \in Nat /\ Amount(r) \in Nat /\ Limit(r) \in Nat
    BY <1>1, CallFacts
  <2>2. pc'[r] = "done"
    BY <1>3 DEF EffectAt
  <2>3. \/ balance'[key(r)] = balance[key(r)] /\ balance[key(r)] = Limit(r)
        \/ balance'[key(r)] = Replenished(balance[key(r)], Amount(r), Limit(r))
    BY <1>1, <1>3, <2>2, AddedBalance
  <2>4. Replenished(balance[key(r)], Amount(r), Limit(r)) <= Limit(r)
    BY <2>1, ReplenishedBounds
  <2> QED
    BY <2>1, <2>3, <2>4
<1>4. CASE pc[r] \in {"reserve load", "clamp", "reserve cas"}
  <2>1. pc'[r] \in {"backoff", "suppressed"} /\ Limit(r) = cfg[r].capacity
    BY <1>4 DEF EffectAt, Limit
  <2>2. ReserveLoad(r) \/ ReserveClamp(r) \/ ReserveDeduct(r)
    BY <1>4 DEF Step, Begin, WantRetry, StartRetry, AbandonRetry, Finish, ReserveLookup,
                EntryStore, SuccessLookup, AddLoad, AddStore
  <2>3. CASE ReserveLoad(r)
    <3>1. balance' = balance /\ ~(balance[key(r)] > cfg[r].capacity)
      BY <1>1, <2>1, <2>3 DEF ReserveLoad, Goto
    <3> QED
      BY <1>1, <1>2, <2>1, <3>1
  <2>4. CASE ReserveClamp(r)
    <3>1. balance' = [balance EXCEPT ![key(r)] = cfg[r].capacity]
      BY <1>1, <2>1, <2>4 DEF ReserveClamp, Goto
    <3>2. balance'[key(r)] = cfg[r].capacity
      BY <1>1, <3>1
    <3> QED
      BY <1>2, <2>1, <3>2
  <2>5. CASE ReserveDeduct(r)
    <3>1. pc[r] = "reserve cas" /\ balance'[key(r)] = seen[r] - cfg[r].cost
      BY <1>1, <2>1, <2>5 DEF ReserveDeduct, Goto
    <3>2. seen[r] <= cfg[r].capacity
      BY <1>1, <3>1 DEF LabelFactsOf
    <3>3. seen[r] - cfg[r].cost <= cfg[r].capacity
      BY <1>1, <1>2, <3>2
    <3> QED
      BY <2>1, <3>1, <3>3
  <2> QED
    BY <2>2, <2>3, <2>4, <2>5
<1> QED
  BY <1>3, <1>4 DEF EffectAt

\* Every operation that takes effect leaves the balance within the capacity it
\* runs under, whoever changed the balance or the configuration since it was read
\* (retry_budget.go:84-103, 136-153).
THEOREM OperationsTrimAlways == Spec => OperationsTrim
<1>1. IInv /\ [Next]_vars =>
          [\A r \in Requests : EffectAt(r) => balance'[key(r)] <= Limit(r)]_vars
  <2> SUFFICES ASSUME IInv, [Next]_vars, NEW r \in Requests, EffectAt(r)
               PROVE  balance'[key(r)] <= Limit(r)
    OBVIOUS
  <2>1. pc'[r] # pc[r]
    BY DEF EffectAt
  <2>2. Step(r)
    BY <2>1, Mover DEF IInv
  <2> QED
    BY <2>2, EffectTrims
<1> QED
  BY <1>1, InitIInv, NextIInv, PTL DEF Spec, OperationsTrim

-----------------------------------------------------------------------------
(* One capacity *)

\* The enabled parameters differ in cost and increment at most.
OneCapacity ==
    \A c, d \in Configs : Enabled(c) /\ Enabled(d) => c.capacity = d.capacity

\* A reservation carries the capacity of parameters that were installed once.
Lent(r) ==
    reservation[r] # NoReservation =>
        \E c \in Configs : Enabled(c) /\ reservation[r].capacity = c.capacity

AllLent == \A r \in Requests : Lent(r)

LEMMA LentStep ==
    ASSUME IInv, NEW q \in Requests, Lent(q), [Next]_vars
    PROVE  Lent(q)'
<1>1. TypeOK /\ LabelFactsOf(q) /\ reservation \in [Requests -> Reservation]
  BY DEF IInv, TypeOK, LabelFacts
<1>2. ASSUME reservation'[q] = reservation[q] \/ reservation'[q] = NoReservation
      PROVE  Lent(q)'
  BY <1>2 DEF Lent
<1>3. CASE ReserveDeduct(q)
  <2>1. cfg[q] \in Configs /\ Enabled(cfg[q])
    BY <1>1, <1>3 DEF ReserveDeduct, TypeOK, LabelFactsOf
  <2>2. \/ reservation'[q] = reservation[q]
        \/ reservation'[q] = [cost |-> cfg[q].cost, capacity |-> cfg[q].capacity]
    BY <1>1, <1>3 DEF ReserveDeduct
  <2>3. ASSUME reservation'[q] = [cost |-> cfg[q].cost, capacity |-> cfg[q].capacity]
        PROVE  Lent(q)'
    <3>1. reservation'[q].capacity = cfg[q].capacity
      BY <2>3
    <3> QED
      BY <2>1, <3>1 DEF Lent
  <2> QED
    BY <1>2, <2>2, <2>3
<1>4. CASE Step(q) /\ ~ReserveDeduct(q)
  <2>1. reservation'[q] = reservation[q] \/ reservation'[q] = NoReservation
    BY <1>1, <1>4
       DEF Step, Begin, WantRetry, StartRetry, AbandonRetry, Finish, ReserveLookup, EntryStore,
           ReserveLoad, ReserveClamp, SuccessLookup, AddLoad, AddStore, Added
  <2> QED
    BY <1>2, <2>1
<1>5. ASSUME NEW r \in Requests, Step(r), r # q PROVE Lent(q)'
  BY <1>1, <1>2, <1>5, StepFrame
<1>6. CASE Reconfigure \/ UNCHANGED vars
  BY <1>2, <1>6 DEF Reconfigure, vars
<1> QED
  BY <1>3, <1>4, <1>5, <1>6 DEF Next, Terminated

\* A refund or a success never lowers a balance that is within the capacity, as
\* the documents promise, provided no reload changes the capacity: only a call
\* that still carries another one can break the promise
\* (retry_budget.go:115, 139-141).
THEOREM GivingNeverTakesAlways ==
    ASSUME OneCapacity
    PROVE  Spec => GivingNeverTakes
<1>1. Init => AllLent
  BY DEF Init, AllLent, Lent
<1>2. IInv /\ AllLent /\ [Next]_vars => AllLent'
  BY LentStep DEF AllLent
<1>3. ASSUME IInv, NEW r \in Requests, Lent(r), [Next]_vars,
             pc[r] \in {"refund load", "refund cas", "credit load", "credit cas"},
             pc'[r] # pc[r], Enabled(config), balance[key(r)] <= config.capacity
      PROVE  balance'[key(r)] >= balance[key(r)]
  <2>1. /\ TypeOK /\ LabelFactsOf(r) /\ cfg[r] \in Configs /\ config \in Configs
        /\ balance \in [Keys -> Nat] /\ key(r) \in Keys
    BY <1>3, KeyFacts DEF IInv, TypeOK, LabelFacts
  <2>2. Step(r)
    BY <1>3, <2>1, Mover
  <2>3. balance[key(r)] \in Nat /\ Amount(r) \in Nat /\ Limit(r) \in Nat
    BY <2>1, CallFacts
  <2>4. Limit(r) = config.capacity
    <3>1. CASE pc[r] \in {"refund load", "refund cas"}
      <4>1. reservation[r] # NoReservation
        BY <2>1, <3>1 DEF LabelFactsOf
      <4> QED
        BY <1>3, <2>1, <3>1, <4>1 DEF Lent, OneCapacity, Limit
    <3>2. CASE pc[r] \in {"credit load", "credit cas"}
      <4>1. Enabled(cfg[r])
        BY <2>1, <3>2 DEF LabelFactsOf
      <4> QED
        BY <1>3, <2>1, <3>2, <4>1 DEF OneCapacity, Limit
    <3> QED
      BY <1>3, <3>1, <3>2
  <2>5. Step(r) /\ pc'[r] # "done" => balance' = balance
    BY <1>3, <2>1
       DEF Step, Begin, WantRetry, StartRetry, AbandonRetry, Finish, ReserveLookup, EntryStore,
           ReserveLoad, ReserveClamp, ReserveDeduct, SuccessLookup, AddLoad, AddStore, Added,
           Goto, TypeOK
  <2>6. CASE pc'[r] = "done"
    BY <1>3, <2>1, <2>2, <2>3, <2>4, <2>6, AddedBalance, ReplenishedBounds
  <2>7. CASE pc'[r] # "done"
    BY <2>2, <2>3, <2>5, <2>7
  <2> QED
    BY <2>6, <2>7
<1>4. IInv /\ AllLent /\ [Next]_vars =>
          [\A r \in Requests :
              /\ pc[r] \in {"refund load", "refund cas", "credit load", "credit cas"}
              /\ pc'[r] # pc[r]
              /\ Enabled(config) /\ balance[key(r)] <= config.capacity
              => balance'[key(r)] >= balance[key(r)]]_vars
  BY <1>3 DEF AllLent
<1> QED
  BY <1>1, <1>2, <1>4, InitIInv, NextIInv, PTL DEF Spec, GivingNeverTakes
=============================================================================
