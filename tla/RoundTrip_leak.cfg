\* The body of a retry that has no time left.
SPECIFICATION Spec
CONSTANTS
    r1 = r1
    r2 = r2
    orders = orders
    Requests = {r1}
    Keys = {orders}
    KeyOf <- OneKey
    Configs <- NoBudget
    Generations <- LeakGenerations
    Calls <- LeakCalls
    Replies <- SharedReplies
    DefaultTimeout = 2
    DefaultInitial = 1
    DefaultMaxBackoff = 2
INVARIANTS RequestBodiesClosed
