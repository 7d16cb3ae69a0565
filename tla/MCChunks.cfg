\* Allocations of 4, 8 and 16 bytes, of which any may fail; a limit of 14, and 5
\* bytes kept when idle.
CONSTANTS
    HEADER = 1
    THRESHOLD = 4
    RESIDENT = 5
    MAX = 14
    WORD = 128
    Powers = {1, 2, 4, 8, 16, 32, 64}
    FRAME = 2
    BodySizes = {0, 1, 4, 9}
    Colours = 5
    MallocFails = TRUE
SPECIFICATION Spec
INVARIANTS
    ChunksSound
    CapacitySound
PROPERTIES
    IsByteQueue
