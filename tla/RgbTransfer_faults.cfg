SPECIFICATION Spec
CONSTANTS
    s = s
    r1 = r1
    r2 = r2
    Sender = s
    Recipients = {r1, r2}
    OutOfBand = {}
    MinConf = 1
    DeadlineGroups <- MCDeadlineOfThree
    MaxSendEnds = 2
    MaxFaults = 2
SYMMETRY MCProxySymmetry
INVARIANTS
    TypeOK
    BroadcastNeedsAcks
    CreditedHistoryIsSafe
    SettledIsBuried
    AcceptedIsCredited
PROPERTIES
    ReceiverStatusFlow
    ImplementsOutcome
CHECK_DEADLOCK FALSE
