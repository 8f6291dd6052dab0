SPECIFICATION Spec
CONSTANTS
    Workers = {w1, w2, w3}
    Main = main
    NoThread = nothread
    Clients = {c1, c2}
    NoSock = nosock
    NoNode = nonode
    NonBlocking = FALSE
    MaxPosts = 0
    EarlyHandler = FALSE
    SigTargets = {main, w1, w2, w3}
    MaxSignals = 2
    Failures = FALSE
SYMMETRY PoolSymmetry
CHECK_DEADLOCK FALSE
INVARIANTS
    TypeOK
    NoLostWakeup
    ExclusiveCustody
    NoSocketForgotten
    QuiescentCleanup
    TokensSuffice
PROPERTIES
    QueueSpec
