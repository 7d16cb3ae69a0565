SPECIFICATION FairSpec
CONSTANTS
    PARTS = 3
    Modes = {"sync", "once", "drop"}
    MAX_RETRY_ITEMS = 3
    ManyFiles = TRUE
    RECONNECT_TIME = 2
    BUFFER = 9
    WIRE = 4
    MaxSpans = 6
INVARIANTS FlagsFollow PeerInSync
PROPERTY Flushes
