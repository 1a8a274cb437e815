----------------------------- MODULE RetryBudget -----------------------------
(***************************************************************************)
(* The retry budget of one Transport at the grain of its atomic accesses   *)
(* (src/retry_budget.go): Load and LoadOrStore of the sync.Map, Load and   *)
(* CompareAndSwap of each balance.  A request calls the budget in the      *)
(* order RoundTrip does (src/transport.go): reserve before each retry,     *)
(* commit when the retry starts or refund when it cannot, recordSuccess at *)
(* most once at the end.  Every request runs under the parameters of the   *)
(* configuration generation that was installed when it began.              *)
(*                                                                         *)
(* A compare-and-swap compares values, so a balance that went away from    *)
(* the loaded value and came back lets it succeed, here as in the code.    *)
(***************************************************************************)
EXTENDS BudgetParameters

CONSTANTS MaxRetries      \* retries a request makes at most: policy.MaxRetries

ASSUME MaxRetriesAssumption == MaxRetries \in Nat

VARIABLES
    entries,        \* keys of retryBudget.entries
    balance,        \* the atomic balance of each key; 0 without an entry
    reservation,    \* *retryBudgetReservation, or NoReservation for nil
    suppressed,     \* requests with RetrySuppressedReason = budget_exhausted
    opened, spent, earned,      \* history, see TokenBucket
    config,         \* the budget parameters now installed
    pc,             \* the next atomic access of each request
    cfg,            \* the parameters a request captured: budgetConfig
    seen,           \* the balance a request loaded last
    retries         \* retries a request has put on the wire

vars == <<entries, balance, reservation, suppressed, opened, spent, earned,
          config, pc, cfg, seen, retries>>

key(r) == KeyOf[r]

Init ==
    /\ entries = {}
    /\ balance = [k \in Keys |-> 0]
    /\ reservation = [r \in Requests |-> NoReservation]
    /\ suppressed = {}
    /\ opened = [k \in Keys |-> 0]
    /\ spent = [k \in Keys |-> 0]
    /\ earned = [k \in Keys |-> 0]
    /\ config \in Configs
    /\ pc = [r \in Requests |-> "idle"]
    /\ cfg = [r \in Requests |-> config]
    /\ seen = [r \in Requests |-> 0]
    /\ retries = [r \in Requests |-> 0]

Goto(r, label) == pc' = [pc EXCEPT ![r] = label]

-----------------------------------------------------------------------------
(* The request around the budget *)

\* A configuration update installs other parameters; balances are untouched.
Reconfigure ==
    /\ config' \in Configs \ {config}
    /\ UNCHANGED <<entries, balance, reservation, suppressed, opened, spent,
                   earned, pc, cfg, seen, retries>>

\* RoundTrip resolves the parameters once and starts its first attempt.
Begin(r) ==
    /\ pc[r] = "idle"
    /\ cfg' = [cfg EXCEPT ![r] = config]
    /\ Goto(r, "attempt")
    /\ UNCHANGED <<entries, balance, reservation, suppressed, opened, spent,
                   earned, config, seen, retries>>

\* shouldRetry holds and the delay fits the deadline: the budget is asked.
WantRetry(r) ==
    /\ pc[r] = "attempt"
    /\ retries[r] < MaxRetries
    /\ Goto(r, "reserve")
    /\ UNCHANGED <<entries, balance, reservation, suppressed, opened, spent,
                   earned, config, cfg, seen, retries>>

\* Mutant: the reservation is committed and not forgotten.
StartRetryKeeps(r) ==
    /\ pc[r] = "backoff"
    /\ spent' = [spent EXCEPT ![key(r)] = @ + reservation[r].cost]
    /\ retries' = [retries EXCEPT ![r] = @ + 1]
    /\ Goto(r, "attempt")
    /\ UNCHANGED <<entries, balance, reservation, suppressed, opened, earned, config, cfg, seen>>

\* The retry starts: commit.
StartRetry(r) ==
    /\ pc[r] = "backoff"
    /\ spent' = [spent EXCEPT ![key(r)] = @ + reservation[r].cost]
    /\ reservation' = [reservation EXCEPT ![r] = NoReservation]
    /\ retries' = [retries EXCEPT ![r] = @ + 1]
    /\ Goto(r, "attempt")
    /\ UNCHANGED <<entries, balance, suppressed, opened, earned, config, cfg, seen>>

\* The wait is cancelled or the attempt cannot be prepared: refund, which does
\* nothing with a nil reservation and otherwise finds the entry it came from.
AbandonRetry(r) ==
    /\ pc[r] = "backoff"
    /\ Goto(r, IF reservation[r] = NoReservation THEN "done" ELSE "refund load")
    /\ UNCHANGED <<entries, balance, reservation, suppressed, opened, spent,
                   earned, config, cfg, seen, retries>>

\* No further retry: the last response decides whether success is recorded. A
\* suppressed retry can still count as success, when its status is below 400.
\* recordSuccess does nothing with a disabled budget.
Finish(r) ==
    /\ pc[r] \in {"attempt", "suppressed"}
    /\ \E success \in BOOLEAN :
           Goto(r, IF success /\ Enabled(cfg[r]) THEN "success" ELSE "done")
    /\ UNCHANGED <<entries, balance, reservation, suppressed, opened, spent,
                   earned, config, cfg, seen, retries>>

-----------------------------------------------------------------------------
(* reserve *)

\* reserve returns at once when disabled; else entry() looks the key up.
ReserveLookup(r) ==
    /\ pc[r] = "reserve"
    /\ Goto(r, IF ~Enabled(cfg[r]) THEN "backoff"
               ELSE IF key(r) \in entries THEN "reserve load"
               ELSE "store")
    /\ UNCHANGED <<entries, balance, reservation, suppressed, opened, spent,
                   earned, config, cfg, seen, retries>>

\* Mutant: Store, where the last candidate wins.
EntryStoreLast(r) ==
    /\ pc[r] = "store"
    /\ entries' = entries \cup {key(r)}
    /\ balance' = [balance EXCEPT ![key(r)] = cfg[r].capacity]
    /\ opened' = [opened EXCEPT ![key(r)] = cfg[r].capacity]
    /\ Goto(r, "reserve load")
    /\ UNCHANGED <<reservation, suppressed, spent, earned, config, cfg, seen, retries>>

\* LoadOrStore: the first candidate stored wins.
EntryStore(r) ==
    /\ pc[r] = "store"
    /\ IF key(r) \in entries
       THEN UNCHANGED <<entries, balance, opened>>
       ELSE /\ entries' = entries \cup {key(r)}
            /\ balance' = [balance EXCEPT ![key(r)] = cfg[r].capacity]
            /\ opened' = [opened EXCEPT ![key(r)] = cfg[r].capacity]
    /\ Goto(r, "reserve load")
    /\ UNCHANGED <<reservation, suppressed, spent, earned, config, cfg, seen, retries>>

\* Mutant: the balance is not compared with the cost.
DecideAlways(r, b) ==
    /\ Goto(r, "reserve cas")
    /\ UNCHANGED suppressed

\* The test of a balance that is not above the capacity.
Decide(r, b) ==
    IF b < cfg[r].cost
    THEN /\ suppressed' = suppressed \cup {r}
         /\ Goto(r, "suppressed")
    ELSE /\ Goto(r, "reserve cas")
         /\ UNCHANGED suppressed

ReserveLoad(r) ==
    /\ pc[r] = "reserve load"
    /\ seen' = [seen EXCEPT ![r] = balance[key(r)]]
    /\ IF balance[key(r)] > cfg[r].capacity
       THEN Goto(r, "clamp") /\ UNCHANGED suppressed
       ELSE Decide(r, balance[key(r)])
    /\ UNCHANGED <<entries, balance, reservation, opened, spent, earned,
                   config, cfg, retries>>

\* A balance above the capacity is cut down to it before the test.
ReserveClamp(r) ==
    /\ pc[r] = "clamp"
    /\ IF balance[key(r)] = seen[r]
       THEN /\ balance' = [balance EXCEPT ![key(r)] = cfg[r].capacity]
            /\ seen' = [seen EXCEPT ![r] = cfg[r].capacity]
            /\ Decide(r, cfg[r].capacity)
       ELSE /\ Goto(r, "reserve load")
            /\ UNCHANGED <<balance, seen, suppressed>>
    /\ UNCHANGED <<entries, reservation, opened, spent, earned, config, cfg, retries>>

\* Mutant: a plain store instead of the compare-and-swap.
ReserveDeductBlind(r) ==
    /\ pc[r] = "reserve cas"
    /\ balance' = [balance EXCEPT ![key(r)] = seen[r] - cfg[r].cost]
    /\ reservation' = [reservation EXCEPT
           ![r] = [cost |-> cfg[r].cost, capacity |-> cfg[r].capacity]]
    /\ Goto(r, "backoff")
    /\ UNCHANGED <<entries, suppressed, opened, spent, earned, config, cfg, seen, retries>>

ReserveDeduct(r) ==
    /\ pc[r] = "reserve cas"
    /\ IF balance[key(r)] = seen[r]
       THEN /\ balance' = [balance EXCEPT ![key(r)] = seen[r] - cfg[r].cost]
            /\ reservation' = [reservation EXCEPT
                   ![r] = [cost |-> cfg[r].cost, capacity |-> cfg[r].capacity]]
            /\ Goto(r, "backoff")
       ELSE /\ Goto(r, "reserve load")
            /\ UNCHANGED <<balance, reservation>>
    /\ UNCHANGED <<entries, suppressed, opened, spent, earned, config, cfg, seen, retries>>

-----------------------------------------------------------------------------
(* addRetryBudgetBalance, called by refund and by recordSuccess *)

\* What a call adds, and the capacity it adds up to: a refund uses those of the
\* reservation, a success those of the request.
Amount(r) == IF pc[r] \in {"refund load", "refund cas"}
             THEN reservation[r].cost ELSE cfg[r].increment
Limit(r) == IF pc[r] \in {"refund load", "refund cas"}
            THEN reservation[r].capacity ELSE cfg[r].capacity

\* The call has taken effect: the reservation is settled, or the success counted.
Added(r) ==
    /\ Goto(r, "done")
    /\ IF pc[r] \in {"refund load", "refund cas"}
       THEN /\ reservation' = [reservation EXCEPT ![r] = NoReservation]
            /\ UNCHANGED earned
       ELSE /\ earned' = [earned EXCEPT ![key(r)] = @ + cfg[r].increment]
            /\ UNCHANGED reservation

\* recordSuccess never creates an entry.
SuccessLookup(r) ==
    /\ pc[r] = "success"
    /\ Goto(r, IF key(r) \in entries THEN "credit load" ELSE "done")
    /\ UNCHANGED <<entries, balance, reservation, suppressed, opened, spent,
                   earned, config, cfg, seen, retries>>

\* Mutant: a balance above the limit is left there.
AddLoadContent(r) ==
    /\ pc[r] \in {"refund load", "credit load"}
    /\ seen' = [seen EXCEPT ![r] = balance[key(r)]]
    /\ IF balance[key(r)] >= Limit(r)
       THEN Added(r)
       ELSE /\ Goto(r, IF pc[r] = "refund load" THEN "refund cas" ELSE "credit cas")
            /\ UNCHANGED <<reservation, earned>>
    /\ UNCHANGED <<entries, balance, suppressed, opened, spent, config, cfg, retries>>

\* A balance at the limit needs no store.
AddLoad(r) ==
    /\ pc[r] \in {"refund load", "credit load"}
    /\ seen' = [seen EXCEPT ![r] = balance[key(r)]]
    /\ IF balance[key(r)] = Limit(r)
       THEN Added(r)
       ELSE /\ Goto(r, IF pc[r] = "refund load" THEN "refund cas" ELSE "credit cas")
            /\ UNCHANGED <<reservation, earned>>
    /\ UNCHANGED <<entries, balance, suppressed, opened, spent, config, cfg, retries>>

\* Mutant: a failed compare-and-swap is tried again with the old value.
AddStoreStale(r) ==
    /\ pc[r] \in {"refund cas", "credit cas"}
    /\ IF balance[key(r)] = seen[r]
       THEN /\ balance' = [balance EXCEPT ![key(r)] = Replenished(seen[r], Amount(r), Limit(r))]
            /\ Added(r)
       ELSE UNCHANGED <<balance, reservation, earned, pc>>
    /\ UNCHANGED <<entries, suppressed, opened, spent, config, cfg, seen, retries>>

AddStore(r) ==
    /\ pc[r] \in {"refund cas", "credit cas"}
    /\ IF balance[key(r)] = seen[r]
       THEN /\ balance' = [balance EXCEPT ![key(r)] = Replenished(seen[r], Amount(r), Limit(r))]
            /\ Added(r)
       ELSE /\ Goto(r, IF pc[r] = "refund cas" THEN "refund load" ELSE "credit load")
            /\ UNCHANGED <<balance, reservation, earned>>
    /\ UNCHANGED <<entries, suppressed, opened, spent, config, cfg, seen, retries>>

-----------------------------------------------------------------------------

Step(r) ==
    \/ Begin(r) \/ WantRetry(r) \/ StartRetry(r) \/ AbandonRetry(r) \/ Finish(r)
    \/ ReserveLookup(r) \/ EntryStore(r)
    \/ ReserveLoad(r) \/ ReserveClamp(r) \/ ReserveDeduct(r)
    \/ SuccessLookup(r) \/ AddLoad(r) \/ AddStore(r)

\* Every request is done: nothing happens any more.
Terminated ==
    /\ \A r \in Requests : pc[r] = "done"
    /\ UNCHANGED vars

Next == Reconfigure \/ (\E r \in Requests : Step(r)) \/ Terminated

Spec == Init /\ [][Next]_vars

\* The Go scheduler runs every goroutine that can run, and a request that has
\* begun is driven by its goroutine.
Fairness == \A r \in Requests : WF_vars(Step(r))

FairSpec == Spec /\ Fairness

-----------------------------------------------------------------------------
(* Properties *)

\* The atomic bucket this code implements: a request's stage follows from where
\* its goroutine is.
StageOf(label) ==
    IF label \in {"backoff", "refund load", "refund cas"} THEN "granted"
    ELSE IF label \in {"suppressed", "success", "credit load", "credit cas"} THEN "final"
    ELSE IF label = "done" THEN "closed"
    ELSE "open"

stageBar == [r \in Requests |-> StageOf(pc[r])]

Bucket == INSTANCE TokenBucket WITH stage <- stageBar

Labels ==
    {"idle", "attempt", "reserve", "store", "reserve load", "clamp", "reserve cas",
     "backoff", "refund load", "refund cas", "suppressed", "success",
     "credit load", "credit cas", "done"}

\* Types of the budget's state; no balance is ever negative, and no request
\* makes more than MaxRetries retries (retry_budget.go:78-163).
TypeOK ==
    /\ entries \subseteq Keys
    /\ balance \in [Keys -> Nat]
    /\ reservation \in [Requests -> Reservation]
    /\ suppressed \subseteq Requests
    /\ opened \in [Keys -> Nat]
    /\ spent \in [Keys -> Nat]
    /\ earned \in [Keys -> Nat]
    /\ config \in Configs
    /\ pc \in [Requests -> Labels]
    /\ cfg \in [Requests -> Configs]
    /\ seen \in [Requests -> Nat]
    /\ retries \in [Requests -> 0 .. MaxRetries]

\* What a request may rely on at each label, whatever the others did meanwhile:
\* it holds a reservation only until the commit or refund; a key once looked up
\* keeps its entry; the balance it goes on with covers the cost and is within
\* its capacity (retry_budget.go:78-130).
LabelFactsOf(r) ==
    /\ pc[r] \notin {"backoff", "refund load", "refund cas"}
           => reservation[r] = NoReservation
    /\ pc[r] \in {"refund load", "refund cas"} => reservation[r] # NoReservation
    /\ reservation[r] # NoReservation => key(r) \in entries
    /\ pc[r] \in {"store", "reserve load", "clamp", "reserve cas",
                  "success", "credit load", "credit cas"} => Enabled(cfg[r])
    /\ pc[r] \in {"reserve load", "clamp", "reserve cas", "credit load", "credit cas"}
           => key(r) \in entries
    /\ pc[r] = "clamp" => seen[r] > cfg[r].capacity
    /\ pc[r] = "reserve cas" => cfg[r].cost <= seen[r] /\ seen[r] <= cfg[r].capacity
    /\ pc[r] \in {"reserve", "store", "reserve load", "clamp", "reserve cas", "backoff"}
           => retries[r] < MaxRetries
    /\ pc[r] = "backoff" /\ reservation[r] = NoReservation => ~Enabled(cfg[r])

LabelFacts == \A r \in Requests : LabelFactsOf(r)

\* Retries cannot outrun the budget: on every key the balance left, the units
\* reserved and the units spent on retries never exceed the capacity the entry
\* was created with plus the increments of recorded successes, through every
\* race of reserve, refund and recordSuccess and every change of parameters
\* (retry_budget.go:84-103, 136-153; config-reference.md section 4).
SpendBounded == Bucket!SpendBounded

\* A reservation, refund or success takes effect.
EffectAt(r) ==
    \/ pc[r] \in {"reserve load", "clamp", "reserve cas"}
           /\ pc'[r] \in {"backoff", "suppressed"}
    \/ pc[r] \in {"refund load", "refund cas", "credit load", "credit cas"}
           /\ pc'[r] = "done"

\* An operation under parameters c leaves the balance at or below c's capacity
\* when it takes effect: lowering the capacity cuts the balance down at the
\* next operation on the downstream (config-reference.md:326).
OperationsTrim ==
    [][\A r \in Requests : EffectAt(r) => balance'[key(r)] <= Limit(r)]_vars

\* Giving back never takes away: a refunded reservation and a recorded success
\* leave a balance that is within the capacity now installed no lower than they
\* found it.  retry-semantics.md:95 promises that a reservation whose retry does
\* not start is returned, and config-reference.md:325-326 that only a lowered
\* capacity cuts a balance down.  It holds while every request runs under one
\* capacity; a call that still carries a smaller, replaced capacity breaks it
\* (retry_budget.go:115, 139-141).
GivingNeverTakes ==
    [][\A r \in Requests :
          /\ pc[r] \in {"refund load", "refund cas", "credit load", "credit cas"}
          /\ pc'[r] # pc[r]
          /\ Enabled(config) /\ balance[key(r)] <= config.capacity
          => balance'[key(r)] >= balance[key(r)]]_vars

\* No caller is stuck in the budget: however the compare-and-swaps of others
\* interfere, each request that begins ends.
EveryRequestEnds == \A r \in Requests : pc[r] = "attempt" ~> pc[r] = "done"

\* The lock-free code implements atomic operations: each takes effect in one
\* step, at its successful compare-and-swap or at the load that decides it.
ImplementsTokenBucket == Bucket!Spec
=============================================================================
