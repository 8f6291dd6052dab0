SPECIFICATION MCSpec
CONSTANTS
    Addrs = {a1, a2, a3, a4}
    NULL = null
    Workers = {w1, w2}
    Conns = {c1, c2}
    NoConn = noconn
    MaxAdds = 6
SYMMETRY ListSymmetry
CHECK_DEADLOCK FALSE
INVARIANTS
    WellLinked
    HeldApart
    NoLeak
PROPERTIES
    QueueSpec
