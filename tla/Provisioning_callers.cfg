SPECIFICATION Spec
CONSTANTS
    Callers = {"a", "b"}
    Gsi = {"g1", "g2", "g3"}
    Fixed = {"base", "lsi"}
    Base = "base"
    Shapes = {1, 2}
    Declared <- MCDeclared
    Absent = 0
    Create = "create"
    MaxFaults = 1
INVARIANTS
    DescriptorIsBacked
    ReturnedIsProvisioned
    VerdictIsSound
PROPERTIES
    EventuallyProvisioned
