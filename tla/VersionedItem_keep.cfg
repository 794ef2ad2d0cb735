SPECIFICATION Spec
CONSTANTS
    Clients = {c1, c2}
    Keys = {k1}
    Calls = {"post", "put", "patch", "patchIf", "edit"}
    MaxCalls = 5
SYMMETRY Symmetry
CHECK_DEADLOCK FALSE
INVARIANT HeldVersionIsStored
PROPERTY AtomicSpec
