\* Three requests on two downstreams; the parameters change while they are in flight.
SPECIFICATION FairSpec
CONSTANTS
    r1 = r1
    r2 = r2
    r3 = r3
    orders = orders
    stock = stock
    Requests = {r1, r2, r3}
    Keys = {orders, stock}
    KeyOf <- TwoKeys
    Configs <- Changing
    MaxRetries = 1
INVARIANTS TypeOK LabelFacts SpendBounded
PROPERTIES OperationsTrim ImplementsTokenBucket EveryRequestEnds
