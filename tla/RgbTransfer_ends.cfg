SPECIFICATION FairSpec
CONSTANTS
    s = s
    r1 = r1
    r2 = r2
    Sender = s
    Recipients = {r1, r2}
    OutOfBand = {r2}
    MinConf = 1
    DeadlineGroups <- MCDeadlineOfThree
    MaxSendEnds = 1
    MaxFaults = 1
INVARIANTS
    CreditedOnceWithoutFaults
    FailedIsOffChainWithoutFaults
PROPERTIES
    NoLateCompletion
    OutgoingIsResolved
    PublishedIsReceived
CHECK_DEADLOCK FALSE
