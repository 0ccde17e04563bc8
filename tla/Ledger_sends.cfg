SPECIFICATION Spec
CONSTANTS
    a = a
    b = b
    u1 = u1
    u2 = u2
    u3 = u3
    t1 = t1
    t2 = t2
    Assets = {a, b}
    Utxos = {u1, u2, u3}
    Outgoing = {t1, t2}
    Blind = {b1}
    Witness = {}
    Issuance = issuance
    Nowhere = nowhere
    Holding <- MCHolding
    Orders <- MCOrdersTwo
    Gifts = {1}
    Requests = {0}
    MaxAllocs = 2
    MaxTopUps = 1
    MaxStrays = 1
    MaxFaults = 1
SYMMETRY MCSymmetry
INVARIANTS
    ReservationIsExclusive
    SeatIsKept
    BalanceIsConserved
    FutureIsSound

    
CHECK_DEADLOCK FALSE
