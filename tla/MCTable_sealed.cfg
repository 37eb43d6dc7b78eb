SPECIFICATION Spec
CONSTANTS
    Int32Max = 4
    Int64Max = 8
    Exact <- MCExact
    TypeNames = {"int", "string"}
    Values <- MCCastable
    MaxChunkSizes = {2}
    CarefulCallers = TRUE
    Builds = {TRUE}
    MaxColumns = 2
    MaxChunks = 2
    MaxChunkRows = 2
INVARIANT
    RowsCanBeInserted
CHECK_DEADLOCK FALSE
