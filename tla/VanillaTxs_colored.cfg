SPECIFICATION Spec
CONSTANTS
    Deposits <- MCDeposits
    Receipts <- MCReceipts
    MaxTxs = 2
    Faults = {"rollback"}
    MaxKinds = 1
INVARIANTS
    SendIsVanilla
CHECK_DEADLOCK FALSE
