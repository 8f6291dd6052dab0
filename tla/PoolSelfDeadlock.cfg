SPECIFICATION Spec
CONSTANTS
    Workers = {w1, w2}
    Main = main
    NoThread = nothread
    Clients = {c1}
    NoSock = nosock
    NoNode = nonode
    NonBlocking = FALSE
    MaxPosts = 0
    EarlyHandler = FALSE
    SigTargets = {main, w1, w2}
    MaxSignals = 1
    Failures = FALSE
CHECK_DEADLOCK FALSE
INVARIANTS
    HandlerNeverSelfDeadlocks
