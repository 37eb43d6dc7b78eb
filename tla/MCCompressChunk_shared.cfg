SPECIFICATION Spec
CONSTANTS
    t1 = t1
    t2 = t2
    t3 = t3
    Threads <- MCTwoThreads
    NumChunks = 1
    Columns = 1
    Shared = {1}
    ThreadLimit = 2
    MaxCalls = 2
INVARIANT ChunksAreNotAccessedConcurrently
CHECK_DEADLOCK FALSE
