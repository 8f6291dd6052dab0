SPECIFICATION Spec
CONSTANTS
    Proxies = {p1, p2}
    Workers = {w1, w2}
    NoThread = nothread
    NoCall = nocall
    NumNodes = 1
    ReqLens = {1, 2}
    RespLens = {1}
    MaxTx = 1
    MaxGot = 2
    CrossWake = TRUE
    MaxFaults = 1
    Spurious = TRUE
CHECK_DEADLOCK FALSE
SYMMETRY SharedSymmetry
INVARIANTS
    NodeMutex
