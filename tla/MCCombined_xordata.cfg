SPECIFICATION CombinedSpec

CONSTANTS
    PIDs = {p1, p2, p3}
    PSize = 2
    CpCount = 2
    MaxVersion = 1
    MaxFaults = 1
    XorChunks = 1
    DataChunks = 1
    ParityChunks = 1
    MaxRuns = 2
    MaxLost = 2
    StartVersion = 1
    Cleanup = FALSE
    p1 = p1
    p2 = p2
    p3 = p3

SYMMETRY PIDSymmetry

INVARIANTS
    RecoveryDelivers
