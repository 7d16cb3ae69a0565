\* Clients that own their traces; a pool that grows from 1 node to its most, 3.
CONSTANTS
    t1 = t1
    t2 = t2
    Threads = {t1, t2}
    CELL_SIZE = 1
    POOL_MAX_NODES_LIMIT = 2
    Owned = TRUE
    Forced = FALSE
    SendThrows = FALSE
    MaxCalls = 6
SPECIFICATION FairSpec
INVARIANTS
    TreeSound
    SpanIsWholeTrace
    NoNodesLeak
    FreesOwnTrace
PROPERTY CallsReturn
