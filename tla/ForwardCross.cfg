SPECIFICATION Spec
CONSTANTS
    NumConns = 2
    Files = {page}
    Pictures = {}
    Workers = {w1, w2}
    COMPRESS = FALSE
    OPTIMIZED = FALSE
    FdLimits = {4}
    MaxChunks = 1
    MaxCalls = 1
    MaxFaults = 0
CHECK_DEADLOCK FALSE
INVARIANTS
    OwnAnswer
