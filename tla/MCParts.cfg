SPECIFICATION PartsSpec
CONSTANTS
    BaseSize = 2
    MaxChunkElements = 4
    XGroupSizes = {3, 4}
    DataSizes = {1, 2, 3, 4, 5, 6, 7, 8, 9, 10, 11, 12, 13, 15, 16, 17}
    PartnerGroupSizes = {1, 2, 3}
    Shapes <- MCShapes
    ParitySizes = {2, 8, 10}
    GroupSizes <- MCGroupSizes
    Placements <- MCPlacements
    CommunityIds = {1, 2, 3}
    CpHistory = 2
    MaxInterval = 2
    MaxRounds = 1
    MaxCalls = 3
INVARIANTS
    ParityFits DataRebuilt ParityRebuilt
    DataRestored ParityRestored ShortReads
    FullGrid ShortCommunities OneRankPerNode
    NewestCommonAgreed DriftTolerated
    CleanCalls StructPresent FaultsAsModelled ForeignCloses
CHECK_DEADLOCK FALSE
