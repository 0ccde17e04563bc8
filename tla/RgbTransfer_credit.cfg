SPECIFICATION Spec
CONSTANTS
    s = s
    r1 = r1
    r2 = r2
    Sender = s
    Recipients = {r1}
    OutOfBand = {}
    MinConf = 1
    DeadlineGroups <- MCDeadlineOfTwo
    MaxSendEnds = 1
    MaxFaults = 1
INVARIANTS
    CreditedOnce

CHECK_DEADLOCK FALSE
