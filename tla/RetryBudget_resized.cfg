\* The capacity grows while a reservation made under the smaller one is held.
SPECIFICATION Spec
CONSTANTS
    r1 = r1
    r2 = r2
    r3 = r3
    orders = orders
    stock = stock
    Requests = {r1, r2}
    Keys = {orders}
    KeyOf <- OneKey
    Configs <- Resized
    MaxRetries = 1
PROPERTIES GivingNeverTakes
