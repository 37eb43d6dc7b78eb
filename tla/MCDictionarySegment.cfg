SPECIFICATION Spec
CONSTANTS
    Int32Max = 10
    Int64Max = 12
    Exact <- MCExact
    Values <- MCValues
    Searches <- MCSearches
    UInt8Max = 2
    UInt16Max = 4
    UInt32Max = 7
    MaxLength = 4
INVARIANTS
    TypeOK
    DecodesToItsValues
    InvalidIdIsFree
    BoundsSplitTheRows
CHECK_DEADLOCK FALSE
