SPECIFICATION Spec
CONSTANTS
    Int32Max = 10
    Int64Max = 12
    Exact <- MCExact
    Values <- MCWithNaN
    Searches <- MCSearches
    UInt8Max = 2
    UInt16Max = 4
    UInt32Max = 7
    MaxLength = 2
CHECK_DEADLOCK FALSE
INVARIANT DecodesToItsValues
