SPECIFICATION FairSpec
CONSTANTS
    ThreadCounts = {1, 2}
    NUMSEGMENTS = 2
    MaxStarts = 2
    MaxDeletes = 1
    MaxFaults = 1
CHECK_DEADLOCK FALSE
INVARIANTS
    TypeOK
    
    NothingLeft
    InBounds
PROPERTIES
    ProxySpares
    Answered
