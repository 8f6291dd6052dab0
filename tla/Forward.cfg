SPECIFICATION FairSpec
CONSTANTS
    NumConns = 2
    Files = {page, photo}
    Pictures = {photo}
    Workers = {w1}
    COMPRESS = TRUE
    OPTIMIZED = TRUE
    FdLimits = {2, 3}
    MaxChunks = 2
    MaxCalls = 2
    MaxFaults = 1
CHECK_DEADLOCK FALSE
INVARIANTS
    TypeOK
    OwnAnswer
    DescriptorsHeld
    OneAnswer
    TotalIsWhatWasSent
PROPERTIES
    ClientEnds
