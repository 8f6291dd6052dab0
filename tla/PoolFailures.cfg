SPECIFICATION Spec
CONSTANTS
    Workers = {w1, w2}
    Main = main
    NoThread = nothread
    Clients = {c1, c2}
    NoSock = nosock
    NoNode = nonode
    NonBlocking = TRUE
    MaxPosts = 1
    EarlyHandler = TRUE
    SigTargets = {main, w1, w2}
    MaxSignals = 1
    Failures = TRUE
SYMMETRY PoolSymmetry
CHECK_DEADLOCK FALSE
INVARIANTS
    IndInv
    HeadStable
