SPECIFICATION FairSpec
CONSTANTS
    t1 = t1
    t2 = t2
    t3 = t3
    Threads <- MCThreads
    NumChunks = 2
    Columns = 2
    Shared = {2}
    ThreadLimit = 2
    MaxCalls = 2
INVARIANTS
    TypeOK
    SlotsHoldWholeChunks
    SwapsAreExclusive
    CoordinatedChunksAreSafe
PROPERTIES
    CallsEnd
    ImplementsCompressionService
    ReadersLoseChunksToTheirCompression
CHECK_DEADLOCK FALSE
