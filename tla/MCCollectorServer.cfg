SPECIFICATION FairSpec
CONSTANTS
    Conns = {c1, c2}
    Apps = {a}
    AgentChannelSize = 1
    AgentRetireTime = 0
    MaxAgents = 2
    MaxClock = 1
    MaxConnections = 2
    NoConn = NoConn
CHECK_DEADLOCK FALSE
INVARIANTS NoOrphan ShutdownSound
PROPERTIES MainReturns SendEnds
