---------------------------- MODULE AgentRouter ----------------------------
(***************************************************************************)
(* The router of the collector-agent, agent/AgentRouter.go, and what it    *)
(* uses of an agent (agent/GrpcAgent.go, agent/RequestCounter.go).         *)
(*                                                                         *)
(* Goroutines: the handlers of the clients, which dispatch packets; two    *)
(* tasks of each agent, the consumer of its span channel and "background", *)
(* which stands for the others of its tasksGroup; and the main goroutine,  *)
(* which retires agents (Clean) and stops them all at the end (Stop).      *)
(* Agents are named by their PingId.                                       *)
(***************************************************************************)
EXTENDS Integers, FiniteSets

CONSTANTS
    Conns,             \* connections of clients, each with its handler
    Apps,              \* application ids
    AgentChannelSize,
    AgentRetireTime,   \* in seconds
    MaxAgents,         \* bound: agents that are created
    MaxClock           \* bound: seconds

ASSUME AgentsAssumption == MaxAgents \in Nat /\ Apps # {}
ASSUME ChannelAssumption == AgentChannelSize \in Nat \ {0}
ASSUME TimeAssumption == AgentRetireTime \in Nat /\ MaxClock \in Nat

Agents == 1 .. MaxAgents
NoAgent == 0
Tasks == {"consumer", "background"}

VARIABLES
    AgentMap, PingId,
    app,        \* app[n]: AgentId of agent n
    cancelled,  \* the agents whose context is cancelled
    tasks,      \* tasks[n]: what runs of n's tasksGroup
    queue,      \* queue[n]: the number of spans in tSpanBufCh
    CTime,      \* CTime[n]: of n's RequestCounter
    at,         \* at[c]: where the handler of c is
    appid,      \* appid[c]: of the span it dispatches
    agent,      \* agent[c]: the agent it has found for it
    main,       \* where the main goroutine is
    ctime,      \* of Clean
    stops,      \* the agents it has taken out of the map and has still to stop
    stopping,   \* the agent in whose Stop it waits
    clock       \* time.Now().Unix()

agents == <<AgentMap, PingId, app, cancelled, tasks, queue, CTime>>
handlers == <<at, appid, agent>>
mains == <<main, ctime, stops, stopping>>
routerVars == <<agents, handlers, mains, clock>>

\* The values of fields that are not yet in use.
AnyApp == CHOOSE a \in Apps : TRUE

RouterInit ==
    /\ AgentMap = [a \in Apps |-> NoAgent] /\ PingId = 1
    /\ app = [n \in Agents |-> AnyApp]
    /\ cancelled = {}
    /\ tasks = [n \in Agents |-> {}]
    /\ queue = [n \in Agents |-> 0]
    /\ CTime = [n \in Agents |-> 0]
    /\ at = [c \in Conns |-> "none"]
    /\ appid = [c \in Conns |-> AnyApp]
    /\ agent = [c \in Conns |-> NoAgent]
    /\ main = "run" /\ ctime = 0 /\ stops = {} /\ stopping = NoAgent
    /\ clock = 0

Tick ==
    /\ clock < MaxClock
    /\ clock' = clock + 1
    /\ UNCHANGED <<agents, handlers, mains>>
-----------------------------------------------------------------------------
(* DispatchPacket, in the handler of c.                                    *)

Found(c, n) ==
    /\ agent' = [agent EXCEPT ![c] = n]
    /\ at' = [at EXCEPT ![c] = "send"]

\* Under the read lock.
Lookup(c) ==
    /\ at[c] = "lookup"
    /\ LET n == AgentMap[appid[c]] IN
       \/ n # NoAgent /\ Found(c, n)
       \/ n = NoAgent /\ at' = [at EXCEPT ![c] = "create"] /\ UNCHANGED agent
    /\ UNCHANGED <<agents, appid, mains, clock>>

\* CreateGrpcAgent and StartServe.
CreateGrpcAgent(a) ==
    /\ PingId \in Agents
    /\ app' = [app EXCEPT ![PingId] = a]
    /\ tasks' = [tasks EXCEPT ![PingId] = Tasks]
    /\ CTime' = [CTime EXCEPT ![PingId] = clock]
    /\ PingId' = PingId + 1
    /\ AgentMap' = [AgentMap EXCEPT ![a] = PingId]
    /\ UNCHANGED <<cancelled, queue>>

\* Mutant of Create: the map is not looked at again.
CreateAlways(c) ==
    /\ at[c] = "create"
    /\ CreateGrpcAgent(appid[c])
    /\ Found(c, PingId)
    /\ UNCHANGED <<appid, mains, clock>>

\* Under the write lock, where the map is looked at again.
Create(c) ==
    /\ at[c] = "create"
    /\ LET n == AgentMap[appid[c]] IN
       \/ n # NoAgent /\ Found(c, n) /\ UNCHANGED agents
       \/ n = NoAgent /\ CreateGrpcAgent(appid[c]) /\ Found(c, PingId)
    /\ UNCHANGED <<appid, mains, clock>>

\* Mutant of SendSpan: the channel has no capacity.
SendSpanUnbounded(c) ==
    LET n == agent[c] IN
    /\ at[c] = "send"
    /\ queue' = [queue EXCEPT ![n] = @ + 1]
    /\ at' = [at EXCEPT ![c] = "parse"]
    /\ agent' = [agent EXCEPT ![c] = NoAgent] /\ appid' = [appid EXCEPT ![c] = AnyApp]
    /\ UNCHANGED <<AgentMap, PingId, app, cancelled, tasks, CTime, mains, clock>>

\* The channel is never closed: a handler waits while it is full.
SendSpan(c) ==
    LET n == agent[c] IN
    /\ at[c] = "send"
    /\ queue[n] < AgentChannelSize
    /\ queue' = [queue EXCEPT ![n] = @ + 1]
    /\ at' = [at EXCEPT ![c] = "parse"]
    /\ agent' = [agent EXCEPT ![c] = NoAgent] /\ appid' = [appid EXCEPT ![c] = AnyApp]
    /\ UNCHANGED <<AgentMap, PingId, app, cancelled, tasks, CTime, mains, clock>>
-----------------------------------------------------------------------------
(* The tasks of agent n.                                                   *)

\* Mutant of HandleTSpanFromBuf: a panic in a filter ends the consumer.
HandlePanics(n) ==
    /\ "consumer" \in tasks[n]
    /\ queue[n] > 0
    /\ queue' = [queue EXCEPT ![n] = @ - 1]
    /\ CTime' \in {CTime, [CTime EXCEPT ![n] = clock]}
    /\ tasks' \in {tasks, [tasks EXCEPT ![n] = @ \ {"consumer"}]}
    /\ UNCHANGED <<AgentMap, PingId, app, cancelled, handlers, mains, clock>>

\* The filters see a span; RequestCounter notes the time, unless the span is one
\* of an asynchronous call.
HandleTSpanFromBuf(n) ==
    /\ "consumer" \in tasks[n]
    /\ queue[n] > 0
    /\ queue' = [queue EXCEPT ![n] = @ - 1]
    /\ CTime' \in {CTime, [CTime EXCEPT ![n] = clock]}
    /\ UNCHANGED <<AgentMap, PingId, app, cancelled, tasks, handlers, mains, clock>>

\* Mutant of TaskExits: the consumer looks at its context between two spans only.
TaskExitsAwake(n, k) ==
    /\ n \in cancelled
    /\ k \in tasks[n]
    /\ k = "consumer" => queue[n] > 0
    /\ tasks' = [tasks EXCEPT ![n] = @ \ {k}]
    /\ UNCHANGED <<AgentMap, PingId, app, cancelled, queue, CTime, handlers, mains, clock>>

\* ctx.Done().
TaskExits(n, k) ==
    /\ n \in cancelled
    /\ k \in tasks[n]
    /\ tasks' = [tasks EXCEPT ![n] = @ \ {k}]
    /\ UNCHANGED <<AgentMap, PingId, app, cancelled, queue, CTime, handlers, mains, clock>>
-----------------------------------------------------------------------------
(* Clean and Stop, in the main goroutine.                                  *)

Clean ==
    /\ main = "run"
    /\ main' = "collect"
    /\ ctime' = clock
    /\ UNCHANGED <<agents, handlers, stops, stopping, clock>>

Mapped == {n \in Agents : \E a \in Apps : AgentMap[a] = n}
Expired == {n \in Mapped : CTime[n] + AgentRetireTime < ctime}

TakeOut(S) ==
    /\ AgentMap' = [a \in Apps |-> IF AgentMap[a] \in S THEN NoAgent ELSE AgentMap[a]]
    /\ stops' = S
    /\ ctime' = 0
    /\ UNCHANGED <<PingId, app, cancelled, tasks, queue, CTime, handlers, stopping, clock>>

\* Under the write lock.
Collect ==
    /\ main = "collect"
    /\ TakeOut(Expired)
    /\ main' = "stop"

Stop ==
    /\ main = "router"
    /\ TakeOut(Mapped)
    /\ main' = "stop all"

Stopping == main \in {"stop", "stop all"}

\* GrpcAgent.Stop: cancel_ctx, the Stop of the filters, which is empty, and Wait.
Cancel(n) ==
    /\ Stopping
    /\ stopping = NoAgent
    /\ n \in stops
    /\ cancelled' = cancelled \cup {n}
    /\ stops' = stops \ {n}
    /\ stopping' = n
    /\ UNCHANGED <<AgentMap, PingId, app, tasks, queue, CTime, handlers, main, ctime, clock>>

Stopped ==
    /\ Stopping
    /\ stopping # NoAgent
    /\ tasks[stopping] = {}
    /\ stopping' = NoAgent
    /\ UNCHANGED <<agents, handlers, main, ctime, stops, clock>>

StopEnds ==
    /\ Stopping
    /\ stops = {} /\ stopping = NoAgent
    /\ main' = IF main = "stop" THEN "run" ELSE "exit"
    /\ UNCHANGED <<agents, handlers, ctime, stops, stopping, clock>>
-----------------------------------------------------------------------------
Dispatch(c) == Lookup(c) \/ Create(c) \/ SendSpan(c)
Task(n) == HandleTSpanFromBuf(n) \/ \E k \in Tasks : TaskExits(n, k)
Cleaning == Clean \/ Collect
StoppingStep == Stop \/ (\E n \in Agents : Cancel(n)) \/ Stopped \/ StopEnds

RouterNext ==
    \/ Tick
    \/ \E c \in Conns : Dispatch(c)
    \/ \E n \in Agents : Task(n)
    \/ Cleaning \/ StoppingStep
-----------------------------------------------------------------------------
(* Properties of the router.                                               *)

RouterTypeOK ==
    /\ AgentMap \in [Apps -> Agents \cup {NoAgent}] /\ PingId \in 1 .. MaxAgents + 1
    /\ app \in [Agents -> Apps]
    /\ cancelled \subseteq Agents
    /\ tasks \in [Agents -> SUBSET Tasks]
    /\ queue \in [Agents -> 0 .. AgentChannelSize]
    /\ CTime \in [Agents -> Nat]
    /\ at \in [Conns -> {"none", "read", "parse", "lookup", "create", "send"}]
    /\ appid \in [Conns -> Apps]
    /\ agent \in [Conns -> Agents \cup {NoAgent}]
    /\ main \in {"run", "collect", "stop", "flag", "close", "sweep", "wait", "router",
                 "stop all", "exit"}
    /\ ctime \in Nat /\ clock \in Nat
    /\ stops \subseteq Agents /\ stopping \in Agents \cup {NoAgent}

\* An agent that was created and not cancelled is the one in the map for its
\* application, or will be stopped: none is ever forgotten with its goroutines,
\* and no application has two, although handlers look for agents and create them
\* while the main goroutine takes them out (DispatchPacket, Clean, Stop).
NoOrphan ==
    \A n \in Agents :
        n < PingId /\ n \notin cancelled => AgentMap[app[n]] = n \/ n \in stops
=============================================================================
