\* Two calls on one budget; the configuration changes at any time.
SPECIFICATION Spec
CONSTANTS
    r1 = r1
    r2 = r2
    orders = orders
    Requests = {r1, r2}
    Keys = {orders}
    KeyOf <- OneKey
    Configs <- SharedConfigs
    Generations <- SharedGenerations
    Calls <- SharedCalls
    Replies <- SharedReplies
    DefaultTimeout = 2
    DefaultInitial = 1
    DefaultMaxBackoff = 2
INVARIANTS NothingHeld EveryRetryPaid
