SPECIFICATION Spec
CONSTANTS
    Int32Max = 4
    Int64Max = 8
    Exact <- MCExact
    TypeNames = {"int", "string"}
    Values <- MCUncastable
    MaxChunkSizes = {2}
    CarefulCallers = TRUE
    Builds = {TRUE}
    MaxColumns = 2
    MaxChunks = 2
    MaxChunkRows = 2
INVARIANT
    Rectangular
CHECK_DEADLOCK FALSE
