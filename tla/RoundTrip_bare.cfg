\* The policy of an application without a provider.
SPECIFICATION Spec
CONSTANTS
    r1 = r1
    r2 = r2
    orders = orders
    Requests = {r1}
    Keys = {orders}
    KeyOf <- OneKey
    Configs <- NoBudget
    Generations <- BareGenerations
    Calls <- SharedCalls
    Replies <- SharedReplies
    DefaultTimeout = 2
    DefaultInitial = 1
    DefaultMaxBackoff = 2
INVARIANTS EveryCallAnswered
