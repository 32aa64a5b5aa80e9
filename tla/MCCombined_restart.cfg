SPECIFICATION CombinedFairSpec

CONSTANTS
    PIDs = {p1, p2, p3}
    PSize = 2
    CpCount = 2
    MaxVersion = 1
    MaxFaults = 0
    XorChunks = 1
    DataChunks = 1
    ParityChunks = 1
    MaxRuns = 2
    MaxLost = 6
    StartVersion = 1
    Cleanup = FALSE
    p1 = p1
    p2 = p2
    p3 = p3

INVARIANTS
    TypeOK
    RecoveryDelivers
    LossesThatRecover
    RecoveryKillable

PROPERTIES
    RecoveryEnds
