SPECIFICATION CheckpointFairSpec

CONSTANTS
    PIDs = {p1, p2, p3}
    PSize = 2
    CpCount = 2
    MaxVersion = 4
    MaxFaults = 0
    XorChunks = 1
    DataChunks = 1
    ParityChunks = 1
    p1 = p1
    p2 = p2
    p3 = p3

INVARIANTS
    TypeOK
    DriftBounded
    PreviousKept
    LossTolerated
    WindowRecoverable
    RecoverablesFit
    HashKeysDistinct

PROPERTIES
    CallsReturn
    PaceKept
