-------------------------- MODULE BudgetParameters --------------------------
(***************************************************************************)
(* What the modules about the local retry budget share: the requests and   *)
(* keys, the parameters a configuration generation carries, reservations   *)
(* and the arithmetic on balances (src/retry_budget.go).                   *)
(***************************************************************************)
EXTENDS Integers, FiniteSets

CONSTANTS
    Requests,   \* logical requests, one RoundTrip call each
    Keys,       \* normalized downstream names
    KeyOf,      \* the key of each request
    Configs     \* the budget parameters a configuration generation may carry

\* retryBudgetConfig. toConfig makes a disabled budget the zero record and
\* accepts an enabled one only with three positive integers, so its field
\* Enabled is false exactly for the zero record.
BudgetConfig == [capacity : Nat, cost : Nat, increment : Nat]
Disabled == [capacity |-> 0, cost |-> 0, increment |-> 0]
Enabled(c) == c # Disabled

ASSUME RequestsAssumption == IsFiniteSet(Requests)
ASSUME KeysAssumption == KeyOf \in [Requests -> Keys]
ASSUME ConfigsAssumption ==
    /\ Configs \subseteq BudgetConfig
    /\ \A c \in Configs :
           Enabled(c) => c.capacity > 0 /\ c.cost > 0 /\ c.increment > 0

\* retryBudgetReservation; a nil one, which a disabled budget grants, costs
\* nothing.
Reservation == [cost : Nat, capacity : Nat]
NoReservation == [cost |-> 0, capacity |-> 0]

\* The balance after adding amount to b up to capacity: the capacity when the
\* sum would reach it or b is not below it, computed without overflow.
Replenished(b, amount, capacity) ==
    IF amount < capacity - b THEN b + amount ELSE capacity

\* The units that the reservations res hold on key k, one element per unit.
Units(res, k) ==
    UNION {{r} \X (1 .. res[r].cost) : r \in {q \in Requests : KeyOf[q] = k}}
=============================================================================
