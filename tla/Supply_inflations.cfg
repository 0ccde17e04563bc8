SPECIFICATION Spec
CONSTANTS
    w1 = w1
    w2 = w2
    w3 = w3
    Wallets = {w1, w2, w3}
    None = None
    MaxAmount = 3
    MaxPsbts = 3
    MaxMoves = 2
    MaxPending = 1
    MaxBurned = 1
SYMMETRY Symmetry
INVARIANTS
    TypeOK
    KnownIsReal
    
CHECK_DEADLOCK FALSE
