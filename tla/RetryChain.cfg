\* Two hops of every kind, and a last server that may not answer.
SPECIFICATION FairSpec
CONSTANTS
    Hops = 2
    MostRetries = 2
    Starts <- TwoHops
    Skew <- Behind
    Milli = 2
    MaxTime = 3
    Failures <- TimesOut
    Answers <- Statuses
    DefaultTimeout = 2
    DefaultInitial = 1
    DefaultMaxBackoff = 2
INVARIANTS TypeOK AmplificationBounded BudgetBoundsLoad ConstraintInherited DeadlineNarrows
PROPERTIES NothingSentLate EveryCallEnds
\* The chain is quiet when every call has ended.
CHECK_DEADLOCK FALSE
