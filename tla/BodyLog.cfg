\* One call while the log's settings change.
SPECIFICATION FairSpec
CONSTANTS
    Asks <- SomeAsks
    Answers <- SomeAnswers
    Limits <- LogLimits
    MaxSettings = 2
    DrainLimit = 1
INVARIANTS TypeOK LoggedWhole Released 
PROPERTIES ImplementsExchange EveryCallReturns
\* A call ends; a body may never go on.
CHECK_DEADLOCK FALSE
