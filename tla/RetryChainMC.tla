---------------------------- MODULE RetryChainMC ----------------------------
(* Small instances of RetryChain. *)
EXTENDS RetryChain, TLC

Policy(retries, elapsed, initial) ==
    [retries |-> retries, timeout |-> 1, elapsed |-> elapsed, initial |-> initial,
     maxBackoff |-> 1, statuses |-> {defaultRetryStatusSet}, on429 |-> FALSE]

Off == [capacity |-> 0, cost |-> 0, increment |-> 0]
One == [capacity |-> 1, cost |-> 1, increment |-> 1]
Short == [capacity |-> 1, cost |-> 2, increment |-> 1]

Hop(p, b) == [policy |-> p, budget |-> b, skip |-> FALSE, context |-> TRUE, header |-> FALSE]
Proxy(n) == [n EXCEPT !.context = FALSE, !.header = TRUE]
Skipping(n) == [n EXCEPT !.skip = TRUE]

Once == Hop(Policy(1, 0, 1), Off)
Eager == Hop(Policy(1, 0, 0), Off)
Paying == Hop(Policy(2, 0, 0), One)
Limited == Hop(Policy(1, 2, 0), Off)

NoMore == [noMore |-> TRUE, deadline |-> Never]
Until3 == [noMore |-> FALSE, deadline |-> 3]

\* Retries at every hop, a hop that skips governance on either side, a proxy
\* that copies headers, and budgets that are too small for the retries.
TwoHops ==
    {[nodes |-> <<Once, Once>>, entering |-> Free],
     [nodes |-> <<Once, Proxy(Once)>>, entering |-> NoMore],
     [nodes |-> <<Once, Skipping(Proxy(Once))>>, entering |-> Free],
     [nodes |-> <<Limited, Proxy(Once)>>, entering |-> Until3],
     [nodes |-> <<Skipping(Once), Limited>>, entering |-> Until3],
     [nodes |-> <<Paying, Paying>>, entering |-> Free]}

\* The second node's clock is behind.
Behind == <<0, -1>>
TimesOut == {"deadline"}
Statuses == {Response(200, {}), Response(503, {})}
=============================================================================
