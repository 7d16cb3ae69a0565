\* Two concurrent EndTrace calls on one root.
CONSTANTS
    t1 = t1
    t2 = t2
    Threads = {t1, t2}
    CELL_SIZE = 2
    POOL_MAX_NODES_LIMIT = 0
    Owned = FALSE
    Forced = FALSE
    SendThrows = FALSE
    MaxCalls = 6
SPECIFICATION Spec
INVARIANT FreesOwnTrace
