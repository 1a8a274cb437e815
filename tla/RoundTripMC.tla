----------------------------- MODULE RoundTripMC -----------------------------
(* Small instances of RoundTrip. *)
EXTENDS RoundTrip, TLC

CONSTANTS r1, r2, orders

OneKey == [r \in Requests |-> orders]

On(capacity, cost, increment) ==
    [capacity |-> capacity, cost |-> cost, increment |-> increment]

Policy(retries, timeout, elapsed, initial, maxBackoff) ==
    [retries |-> retries, timeout |-> timeout, elapsed |-> elapsed, initial |-> initial,
     maxBackoff |-> maxBackoff, statuses |-> {{202, 429, 503}}, on429 |-> FALSE]

Managed(p, budget) == [provider |-> TRUE, policy |-> p, budget |-> budget]

Bare(p) == [provider |-> FALSE, policy |-> p, budget |-> Disabled]

Plain == NoCall
WithBody == [NoCall EXCEPT !.body = TRUE]
Stream == [NoCall EXCEPT !.body = TRUE, !.replayable = FALSE]
Constrained == [NoCall EXCEPT !.noMore = TRUE]
Skipped == [NoCall EXCEPT !.skip = TRUE, !.body = TRUE]
Until(c, header, context) == [c EXCEPT !.header = header, !.context = context]

Ok == Response(200, {})
Accepted == Response(202, {})
Busy == Response(503, {})
BusyNow == Response(503, {0})
BusyLong == Response(503, {3})
TooMany == Response(429, {})
Missing == Response(404, {})
Reset == Error("connection")
BadCertificate == Error("certificate")

-----------------------------------------------------------------------------
\* One call and everything that can happen to it.
\* A managed policy with two retries, with a deadline and no chance to retry
\* (the capacity is below the cost), with a budget, and an application's policy
\* without a provider, all zero.
SingleConfigs == {Disabled, On(1, 2, 1), On(2, 1, 1)}
SingleGenerations ==
    {Managed(Policy(2, 2, 0, 1, 2), Disabled), Managed(Policy(1, 1, 3, 1, 1), On(1, 2, 1)),
     Managed(Policy(1, 1, 0, 1, 1), On(2, 1, 1)), Bare(Policy(1, 0, 0, 0, 0))}
SingleCalls == {Plain, WithBody, Stream, Constrained, Skipped,
                Until(WithBody, 2, Never), Until(WithBody, Never, 3), Until(Skipped, 1, 2),
                Until(WithBody, -1, Never)}
SingleReplies == {Ok, Accepted, Busy, BusyNow, BusyLong, TooMany, Missing, Reset,
                  BadCertificate}

-----------------------------------------------------------------------------
\* Two calls share the budget of a downstream while the configuration changes:
\* one retry at a time, two, or no budget.
SharedConfigs == {On(2, 2, 1), On(1, 1, 1), Disabled}
SharedGenerations == {Managed(Policy(1, 1, 0, 1, 1), c) : c \in SharedConfigs}
SharedCalls == {Plain}
SharedReplies == {Ok, Busy}

-----------------------------------------------------------------------------
\* A body for a retry is taken just when the time runs out.
LeakGenerations == {Managed(Policy(1, 1, 3, 1, 1), Disabled)}
LeakCalls == {WithBody}

\* A policy of the application, used without a provider: MaxRetries is -1.
BareGenerations == {Bare(Policy(n, 1, 0, 1, 1)) : n \in {-1, 1}}
NoBudget == {Disabled}
=============================================================================
