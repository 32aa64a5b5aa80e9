SPECIFICATION CheckpointSpec

CONSTANTS
    PIDs = {p1, p2, p3}
    PSize = 2
    CpCount = 2
    MaxVersion = 3
    MaxFaults = 1
    XorChunks = 4
    DataChunks = 3
    ParityChunks = 2
    p1 = p1
    p2 = p2
    p3 = p3

SYMMETRY PIDSymmetry

CHECK_DEADLOCK FALSE

INVARIANTS
    DriftBounded
    MetadataTruthful
