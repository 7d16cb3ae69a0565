SPECIFICATION Spec
CONSTANTS
    IN_MSG_BUF_SIZE = 5
    HEADER = 2
    MessageLengths = {0, 1, 3, 4}
    MaxFrames = 3
    RecvBufSize = 7
    CLIENT_HEADER_SIZE = 2
    PacketLengths = {0, 1, 3, 6, 8}
    MaxPackets = 3
CHECK_DEADLOCK FALSE
INVARIANTS HandledInOrder
