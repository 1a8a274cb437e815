---------------------------- MODULE RetryBudgetMC ----------------------------
(* Small instances of RetryBudget. *)
EXTENDS RetryBudget, TLC

CONSTANTS r1, r2, r3, orders, stock

On(capacity, cost, increment) ==
    [capacity |-> capacity, cost |-> cost, increment |-> increment]

\* Two requests share a downstream and one has its own.
TwoKeys == [r \in Requests |-> IF r = r3 THEN stock ELSE orders]
\* All requests share a downstream.
OneKey == [r \in Requests |-> orders]

\* A capacity for one retry at a time, one that allows no retry at all (which
\* toConfig accepts), and the budget switched off.
Changing == {On(3, 2, 2), On(1, 2, 1), Disabled}
\* The capacity grows and shrinks.
Resized == {On(1, 1, 1), On(3, 1, 2)}
=============================================================================
