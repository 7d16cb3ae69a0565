SPECIFICATION MCSpec
CONSTANTS
    ApiKeys = {api}
    SqlKeys = {sql}
    Streams = {s1, s2}
    AgentChannelSize = 1
    MaxFaults = 2
    Subscriptions = {a1, a2}
    SpanStreamParallelismSize = 2
INVARIANTS StaleIsNoticed
PROPERTIES StaleEnds IsBackgroundTask TasksRecover
CHECK_DEADLOCK FALSE
