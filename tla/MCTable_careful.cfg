SPECIFICATION Spec
CONSTANTS
    Int32Max = 4
    Int64Max = 8
    Exact <- MCExact
    TypeNames = {"int", "string"}
    Values <- MCCastable
    MaxChunkSizes = {0, 1, 2}
    CarefulCallers = TRUE
    Builds = {TRUE, FALSE}
    MaxColumns = 2
    MaxChunks = 2
    MaxChunkRows = 2
INVARIANTS
    Rectangular
    KeepsRunning
PROPERTY
    ImplementsRowStore
CHECK_DEADLOCK FALSE
