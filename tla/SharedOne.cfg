SPECIFICATION FairSpec
CONSTANTS
    Proxies = {p1}
    Workers = {w1, w2}
    NoThread = nothread
    NoCall = nocall
    NumNodes = 2
    ReqLens = {1}
    RespLens = {1, 2, 3}
    MaxTx = 3
    MaxGot = 3
    CrossWake = TRUE
    MaxFaults = 1
    Spurious = FALSE
CHECK_DEADLOCK FALSE
INVARIANTS
    TypeOK
    RequestIntact
    ResponseIntact
    OneWorkerPerNode
    RightSide
PROPERTIES
    RpcSpec
    TxCompletes
