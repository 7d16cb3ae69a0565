SPECIFICATION MCSpec
CONSTANTS
    Threads = {t1, t2, t3}
    Limits <- AllLimits
    MaxClock = 2
    Conns = {c1, c2, c3}
    NoConn = NoConn
    First = c1
    Throws = TRUE
    t1 = t1
    t2 = t2
    t3 = t3
    u1 = u1
    u2 = u2
    u3 = u3
    p1 = p1
    p2 = p2
    MaxIds = 2
SYMMETRY Symmetry
CHECK_DEADLOCK FALSE
INVARIANTS TickBounded ConnectionsSound IdsUnique
