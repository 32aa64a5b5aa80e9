SPECIFICATION CheckpointSpec

CONSTANTS
    PIDs = {p1, p2, p3}
    PSize = 2
    CpCount = 2
    MaxVersion = 2
    MaxFaults = 1
    XorChunks = 1
    DataChunks = 1
    ParityChunks = 1
    p1 = p1
    p2 = p2
    p3 = p3

SYMMETRY PIDSymmetry

INVARIANTS
    PartnersShareVersion
