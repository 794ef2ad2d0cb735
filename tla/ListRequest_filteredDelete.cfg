SPECIFICATION ListSpec
CONSTANTS
    PartitionKey = "pk"
    SortKey = "sk"
    CreatedAt = "at"
    Mirror <- MCMirror
    DescriptorKey = 3
    Indices <- MCIndices
    Filterable <- MCFilterable
    Values = {1, 2, 3}
    Absent = 0
    Table <- MCTable
    Requests <- MCFilteredMass
INVARIANTS
    WritesWanted
