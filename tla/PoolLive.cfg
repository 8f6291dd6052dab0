SPECIFICATION FairSpec
CONSTANTS
    Workers = {w1, w2}
    Main = main
    NoThread = nothread
    Clients = {c1, c2}
    NoSock = nosock
    NoNode = nonode
    NonBlocking = FALSE
    MaxPosts = 0
    EarlyHandler = FALSE
    SigTargets = {main}
    MaxSignals = 1
    Failures = FALSE
CHECK_DEADLOCK FALSE
PROPERTIES
    ShutdownCompletes
    Served
