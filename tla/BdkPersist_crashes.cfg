SPECIFICATION Spec
CONSTANTS
    t1 = t1
    t2 = t2
    Txs = {t1, t2}
    Gone = gone
    Old <- MCOld
    MaxReveal = 2
    MaxSyncs = 2
INVARIANTS
    TypeOK
    NothingIsLost
    SavedIsRecovered
    AddressIsFresh
SYMMETRY MCSymmetry
