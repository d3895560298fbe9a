SPECIFICATION FairSpec
CONSTANTS
    N = 2
    MaxValue = 1
    MaxPid = 1
    MaxSession = 1
    MaxGen = 1
INVARIANTS
    TypeOK
    BaselineNeverLost
    PausedScanIsOneInstant
PROPERTIES
    ImplementsSession
    OperationEnds
CHECK_DEADLOCK FALSE
