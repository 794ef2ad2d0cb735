SPECIFICATION Spec
CONSTANTS
    Last = 4
    PageSize = 3
    MaxItems = 2
    Dropped = {2}
    Taken = {3}
    MaxFaults = 3
INVARIANTS
    NoItemLost
    OccupiedKept
    EnvelopeTellsAll
PROPERTIES
    RootLast
    EventuallyComplete
CHECK_DEADLOCK FALSE
