SPECIFICATION Spec
CONSTANTS
    Int32Max = 4
    Int64Max = 8
    Exact <- MCExact
    TypeNames = {"int", "string", "decimal"}
    Values <- MCUncastable
    MaxChunkSizes = {0, 1, 2}
    CarefulCallers = FALSE
    Builds = {TRUE, FALSE}
    MaxColumns = 2
    MaxChunks = 2
    MaxChunkRows = 2
INVARIANTS
    TypeOK
    ChunksFilledInOrder
    ColumnsAreTyped
    SegmentsLineUp
    LengthsDescend
    CheckedBuildsStayDefined
    CompressedOnTheLeft
PROPERTIES
    OnlyStoringChangesRows
CHECK_DEADLOCK FALSE
