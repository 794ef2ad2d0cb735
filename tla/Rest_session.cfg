SPECIFICATION Session
CONSTANTS
    N = 4
    Matching = {1, 3, 4}
    MinLimit = 2
    MaxLimit = 3
    Offsets <- MCOffsets
    Limits <- MCLimits
    Paths <- MCPaths
    MaxBodyBytes = 2
    ChunkSizes = {1, 2}
    MaxBytes = 4
    MaxOffset = 5
    PolicyMaxLimit = 4
    DefaultLimit = 2
    AskedOffsets <- MCAskedOffsets
    AskedLimits <- MCAskedLimits
CHECK_DEADLOCK FALSE
INVARIANTS
    SessionTypeOK
    PageIsTrue
    RaceSettled
    ToldTruth
    LinksAdjoin
    AllSeen
PROPERTIES
    Answered
    WalkEnds
