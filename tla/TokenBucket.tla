----------------------------- MODULE TokenBucket -----------------------------
(***************************************************************************)
(* What the local retry budget of a Transport promises, with every         *)
(* operation atomic: reserve one retry, commit or refund the reservation,  *)
(* record one success.  There is one balance per normalized downstream     *)
(* name (a key).  Each operation is made under the budget parameters its   *)
(* request captured when it began, so two requests may use the same key    *)
(* under different parameters.                                             *)
(*                                                                         *)
(* RetryBudget.tla is the lock-free code; it is shown to implement this    *)
(* module.  RoundTrip.tla uses these actions where the retry loop calls    *)
(* the budget.                                                             *)
(***************************************************************************)
EXTENDS BudgetParameters

VARIABLES
    entries,        \* keys that have a balance
    balance,        \* balance of each key; 0 while it has no entry
    reservation,    \* the reservation a request holds; NoReservation if none
    stage,          \* where a request stands with the budget
    suppressed,     \* requests whose retry was refused for lack of balance
    opened,         \* history: the balance each entry was created with
    spent,          \* history: balance that paid for retries put on the wire
    earned          \* history: increments of the successes recorded

data == <<entries, balance, opened, spent, earned>>
vars == <<data, reservation, stage, suppressed>>

Init ==
    /\ entries = {}
    /\ balance = [k \in Keys |-> 0]
    /\ reservation = [r \in Requests |-> NoReservation]
    /\ stage = [r \in Requests |-> "open"]
    /\ suppressed = {}
    /\ opened = [k \in Keys |-> 0]
    /\ spent = [k \in Keys |-> 0]
    /\ earned = [k \in Keys |-> 0]

\* The first operation on a key creates its entry, full.
Open(r, c) ==
    /\ stage[r] = "open"
    /\ Enabled(c)
    /\ KeyOf[r] \notin entries
    /\ entries' = entries \cup {KeyOf[r]}
    /\ balance' = [balance EXCEPT ![KeyOf[r]] = c.capacity]
    /\ opened' = [opened EXCEPT ![KeyOf[r]] = c.capacity]
    /\ UNCHANGED <<spent, earned, reservation, stage, suppressed>>

\* A reservation under a smaller capacity cuts the balance down to it first.
Trim(r, c) ==
    /\ stage[r] = "open"
    /\ Enabled(c)
    /\ KeyOf[r] \in entries
    /\ balance[KeyOf[r]] > c.capacity
    /\ balance' = [balance EXCEPT ![KeyOf[r]] = c.capacity]
    /\ UNCHANGED <<entries, opened, spent, earned, reservation>>
    /\ \/ UNCHANGED <<stage, suppressed>>
       \/ /\ c.capacity < c.cost
          /\ stage' = [stage EXCEPT ![r] = "final"]
          /\ suppressed' = suppressed \cup {r}

\* A disabled budget grants every retry and touches nothing.
Bypass(r, c) ==
    /\ stage[r] = "open"
    /\ ~Enabled(c)
    /\ stage' = [stage EXCEPT ![r] = "granted"]
    /\ UNCHANGED <<data, reservation, suppressed>>

\* A retry is granted out of a balance that covers it.
Grant(r, c) ==
    /\ stage[r] = "open"
    /\ Enabled(c)
    /\ KeyOf[r] \in entries
    /\ balance[KeyOf[r]] \in c.cost .. c.capacity
    /\ balance' = [balance EXCEPT ![KeyOf[r]] = @ - c.cost]
    /\ reservation' =
           [reservation EXCEPT ![r] = [cost |-> c.cost, capacity |-> c.capacity]]
    /\ stage' = [stage EXCEPT ![r] = "granted"]
    /\ UNCHANGED <<entries, opened, spent, earned, suppressed>>

\* A retry is refused only when the balance does not cover it.
Deny(r, c) ==
    /\ stage[r] = "open"
    /\ Enabled(c)
    /\ KeyOf[r] \in entries
    /\ balance[KeyOf[r]] < c.cost
    /\ stage' = [stage EXCEPT ![r] = "final"]
    /\ suppressed' = suppressed \cup {r}
    /\ UNCHANGED <<data, reservation>>

\* The retry goes on the wire: its cost is spent for good.
Commit(r) ==
    /\ stage[r] = "granted"
    /\ spent' = [spent EXCEPT ![KeyOf[r]] = @ + reservation[r].cost]
    /\ reservation' = [reservation EXCEPT ![r] = NoReservation]
    /\ stage' = [stage EXCEPT ![r] = "open"]
    /\ UNCHANGED <<entries, balance, opened, earned, suppressed>>

\* The retry never starts: its cost goes back, up to the capacity the
\* reservation was made under.
Refund(r) ==
    /\ stage[r] = "granted"
    /\ IF reservation[r] = NoReservation
       THEN UNCHANGED balance
       ELSE balance' = [balance EXCEPT ![KeyOf[r]] =
                Replenished(@, reservation[r].cost, reservation[r].capacity)]
    /\ reservation' = [reservation EXCEPT ![r] = NoReservation]
    /\ stage' = [stage EXCEPT ![r] = "closed"]
    /\ UNCHANGED <<entries, opened, spent, earned, suppressed>>

\* The request wants no more retries.
Stop(r) ==
    /\ stage[r] = "open"
    /\ stage' = [stage EXCEPT ![r] = "final"]
    /\ UNCHANGED <<data, reservation, suppressed>>

\* The request ends in success: one increment, if the key has an entry.
Credit(r, c) ==
    /\ stage[r] = "final"
    /\ stage' = [stage EXCEPT ![r] = "closed"]
    /\ IF Enabled(c) /\ KeyOf[r] \in entries
       THEN /\ balance' = [balance EXCEPT ![KeyOf[r]] =
                   Replenished(@, c.increment, c.capacity)]
            /\ earned' = [earned EXCEPT ![KeyOf[r]] = @ + c.increment]
       ELSE UNCHANGED <<balance, earned>>
    /\ UNCHANGED <<entries, opened, spent, reservation, suppressed>>

\* The request ends, and no success is recorded.
Close(r) ==
    /\ stage[r] \in {"open", "final"}
    /\ stage' = [stage EXCEPT ![r] = "closed"]
    /\ UNCHANGED <<data, reservation, suppressed>>

Next ==
    \E r \in Requests :
        \/ Commit(r) \/ Refund(r) \/ Stop(r) \/ Close(r)
        \/ \E c \in Configs :
               \/ Open(r, c) \/ Trim(r, c) \/ Bypass(r, c)
               \/ Grant(r, c) \/ Deny(r, c) \/ Credit(r, c)

Spec == Init /\ [][Next]_vars

-----------------------------------------------------------------------------

Stages == {"open", "granted", "final", "closed"}

\* Types; a balance is never negative, and a request holds a reservation only
\* between the grant of a retry and its commit or refund (retry_budget.go).
TypeOK ==
    /\ entries \subseteq Keys
    /\ balance \in [Keys -> Nat]
    /\ reservation \in [Requests -> Reservation]
    /\ stage \in [Requests -> Stages]
    /\ suppressed \subseteq Requests
    /\ opened \in [Keys -> Nat]
    /\ spent \in [Keys -> Nat]
    /\ earned \in [Keys -> Nat]
    /\ \A r \in Requests :
           stage[r] # "granted" => reservation[r] = NoReservation
    /\ \A r \in Requests :
           reservation[r] # NoReservation => KeyOf[r] \in entries
    /\ \A k \in Keys \ entries : balance[k] = 0

\* The units reserved on key k and not yet settled.
HeldUnits(k) == Units(reservation, k)

\* No balance from nowhere: what is left, what is reserved and what retries
\* have cost never exceeds what the entry was created with plus the increments
\* of the successes recorded, whatever the interleaving of requests and however
\* the parameters change between them.  So the retries of a burst are bounded
\* by the capacity, as docs/config-reference.md section 4 computes.
SpendBounded ==
    \A k \in Keys :
        balance[k] + Cardinality(HeldUnits(k)) + spent[k] <= opened[k] + earned[k]
=============================================================================
