SPECIFICATION Spec
CONSTANTS
    CELL_SIZE = 3
    POOL_MAX_NODES_LIMIT = 1
    UserParent = "D"
    Exceptions = {"e1", "e2"}
    PhpBudgets = "hooks"
    MaxDepth = 2
    ClueKeys = {"event", ":seq"}
    Threads = {"t1", "t2"}
    MaxPyCalls = 5
    MaxPyClues = 1
    Langs = {"php"}
INVARIANT
    InterceptorFound
CHECK_DEADLOCK FALSE
