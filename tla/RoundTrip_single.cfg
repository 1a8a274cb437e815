\* One call: every input, every answer, cancellation and expiry at any point.
SPECIFICATION FairSpec
CONSTANTS
    r1 = r1
    r2 = r2
    orders = orders
    Requests = {r1}
    Keys = {orders}
    KeyOf <- OneKey
    Configs <- SingleConfigs
    Generations <- SingleGenerations
    Calls <- SingleCalls
    Replies <- SingleReplies
    DefaultTimeout = 2
    DefaultInitial = 1
    DefaultMaxBackoff = 2
INVARIANTS TypeOK AmplificationBounded ReturnedUsable NothingHeld CallersBodyClosed
    OutcomeKept EventTrue EveryCallAnswered
PROPERTIES EveryCallReturns
