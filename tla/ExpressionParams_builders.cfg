SPECIFICATION Spec
CONSTANTS
    Attrs <- MCAttrs
    Values = {"x"}
    Paths <- MCPaths
    Pk = "pk"
    Version = "meta"
    CreatedAt = "meta"
    MaxCalls = 3
CHECK_DEADLOCK FALSE
INVARIANTS
    Meant
    Accepted
