SPECIFICATION Spec
CONSTANTS
    a = a
    b = b
    u1 = u1
    u2 = u2
    u3 = u3
    t1 = t1
    t2 = t2
    Assets = {a, b}
    Utxos = {u1, u2}
    Outgoing = {t1}
    Blind = {b1}
    Witness = {w1}
    Issuance = issuance
    Nowhere = nowhere
    Holding <- MCHolding
    Orders <- MCOrders
    Gifts = {1}
    Requests = {0}
    MaxAllocs = 3
    MaxTopUps = 0
    MaxStrays = 1
    MaxFaults = 1
INVARIANTS
    TypeOK
    SpendableIsUsable
CHECK_DEADLOCK FALSE
