CONSTANTS
    c1 = c1
    c2 = c2
    w1 = w1
    Cosigners <- TwoCosigners
    WatchOnly <- Watcher
    Threshold <- TwoSignatures
    KindsAt <- EveryKind
    SyncsFirst = TRUE
    Restores = TRUE
    CrashPoints = {"start", "sent", "marked"}
    MaxOps = 2
    MaxFailures = 1
SPECIFICATION Spec
INVARIANTS
    TypeOK
    ProcessedInOrder
    SameRows
    
CHECK_DEADLOCK FALSE
