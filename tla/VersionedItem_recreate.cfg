SPECIFICATION Spec
CONSTANTS
    Clients = {c1, c2}
    Keys = {k1, k2}
    Calls = {"post", "put", "force", "patch", "patchIf", "delete", "deleteIf", "move", "moveForce"}
    MaxCalls = 3
SYMMETRY Symmetry
CHECK_DEADLOCK FALSE
INVARIANTS
    NoLostUpdate
    VersionsRise
