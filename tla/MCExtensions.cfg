SPECIFICATION Spec
CONSTANTS
    CELL_SIZE = 3
    POOL_MAX_NODES_LIMIT = 1
    UserParent = "C"
    Exceptions = {"e1", "e2"}
    PhpBudgets = "all"
    MaxDepth = 2
    ClueKeys = {"event", ":seq"}
    Threads = {"t1", "t2"}
    MaxPyCalls = 5
    MaxPyClues = 1
    Langs = {"php", "py"}
INVARIANTS
    HooksSound
    
    LeakNeedsCause
    ReadsSound
    SpanSound
    CurrentIsOwn
PROPERTIES
    ShutdownEnds
CHECK_DEADLOCK FALSE
