SPECIFICATION Spec
CONSTANTS
    Last = 5
    PageSize = 5
    MaxItems = 2
    MoveChunk = 2
    BatchLimit = 4
    MaxAttempts = 2
    Dropped = {2}
    Taken = {3}
    MaxFaults = 3
INVARIANTS
    FinishedHandledAll
    SparedStay
PROPERTIES
    LostOnlyByThrow
    RootInOrder
    EventuallyHandled
CHECK_DEADLOCK FALSE
