\* Clients that use any id they ever got at any time, and sends that throw.
CONSTANTS
    t1 = t1
    t2 = t2
    Threads = {t1, t2}
    CELL_SIZE = 3
    POOL_MAX_NODES_LIMIT = 0
    Owned = FALSE
    Forced = FALSE
    SendThrows = TRUE
    MaxCalls = 6
SPECIFICATION Spec
SYMMETRY ThreadSymmetry

INVARIANTS
    TypeOK
    PoolPartition
    RefCountExact
    HeldIsUsed
