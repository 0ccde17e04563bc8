SPECIFICATION Spec
CONSTANTS
    Deposits <- MCDeposits
    Receipts <- MCReceipts
    MaxTxs = 3
    Faults = {"crash", "error", "rollback", "skip"}
    MaxKinds = 1
INVARIANTS
    TypeOK
    PendingIsSafe
    ColoredIsKept
    UnspentIsUnspent
    BroadcastIsRecorded
CHECK_DEADLOCK FALSE
