SPECIFICATION RpcSpec
CONSTANTS
    Callers = {c1, c2}
    Images = {i1, i2}
    MaxCalls = 3
    MaxFaults = 0
CHECK_DEADLOCK FALSE
INVARIANTS
    OwnImage
