SPECIFICATION Spec
CONSTANTS
    Keys = {"a", "b", "c"}
    Wanted <- MCWanted
    Limit = 2
    MaxAttempts = 3
    KeysProjected = TRUE
    MaxChanges = 2
CHECK_DEADLOCK FALSE
INVARIANTS
    PositionsAreTrue
PROPERTY Settles
