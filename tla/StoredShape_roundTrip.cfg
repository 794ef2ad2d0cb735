SPECIFICATION Spec
CONSTANTS
    KeyFields <- MCKeyFields
    Plain = {"name", "note"}
    Searchable = {"name"}
    MirrorOf <- MCMirrorOf
    Sk = "-sk"
    TypeField = "-kind"
    ValuesOf <- MCValuesOf
    Lower <- MCLower
    Projections <- MCProjections
    PatchDeletes = {"note"}
    Stripped <- MCStripped
    None = None
CHECK_DEADLOCK FALSE
INVARIANTS
    KeyMatches
    RoundTrips
PROPERTIES
    EditIsExact
