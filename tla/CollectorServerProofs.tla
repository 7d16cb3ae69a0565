------------------------ MODULE CollectorServerProofs -----------------------
(***************************************************************************)
(* No agent is forgotten with its goroutines and a shutdown that was in    *)
(* time leaves nothing running, for any number of connections,             *)
(* applications and agents.                                                *)
(***************************************************************************)
EXTENDS CollectorServer, FiniteSetTheorems, TLAPS

(* What Clean or Stop have taken out of the map is stopped before anything *)
(* else is.                                                                *)
StopsFirst == stops # {} => Stopping

(* The accept loop holds a connection from Accept to the go statement.     *)
HoldsConn == accept \in {"check", "admit", "spawn"} => held \in Conns

-----------------------------------------------------------------------------
\* The steps of the handlers and of the agents' tasks keep the types.
LEMMA DispatchType ==
    ASSUME RouterTypeOK, NEW c \in Conns, Dispatch(c)
    PROVE  RouterTypeOK'
<1> USE DEF RouterTypeOK, agents, handlers, mains
<1>1. CASE Lookup(c)
  BY <1>1 DEF Lookup, Found
<1>2. CASE Create(c)
  <2>1. CASE AgentMap[appid[c]] # NoAgent
    <3>1. Found(c, AgentMap[appid[c]]) /\ AgentMap[appid[c]] \in Agents \cup {NoAgent}
      BY <1>2, <2>1 DEF Create
    <3>2. at' \in [Conns -> {"none", "read", "parse", "lookup", "create", "send"}]
      BY <3>1 DEF Found
    <3>3. agent' \in [Conns -> Agents \cup {NoAgent}]
      BY <3>1 DEF Found
    <3> QED BY <1>2, <2>1, <3>2, <3>3 DEF Create
  <2>2. CASE CreateGrpcAgent(appid[c]) /\ Found(c, PingId)
    <3>1. AgentMap' \in [Apps -> Agents \cup {NoAgent}] /\ app' \in [Agents -> Apps]
      BY <2>2 DEF CreateGrpcAgent
    <3>6. PingId' \in 1 .. MaxAgents + 1
      <4> HIDE DEF RouterTypeOK
      <4>1. PingId' = PingId + 1 /\ PingId \in 1 .. MaxAgents
        BY <2>2 DEF CreateGrpcAgent, Agents
      <4> QED BY <4>1, AgentsAssumption
    <3>2. tasks' \in [Agents -> SUBSET Tasks] /\ CTime' \in [Agents -> Nat]
      BY <2>2 DEF CreateGrpcAgent
    <3>3. at' \in [Conns -> {"none", "read", "parse", "lookup", "create", "send"}]
      BY <2>2 DEF Found
    <3>4. agent' \in [Conns -> Agents \cup {NoAgent}]
      BY <2>2 DEF Found, CreateGrpcAgent
    <3>5. UNCHANGED <<cancelled, queue, appid, mains, clock>>
      BY <1>2, <2>2 DEF Create, CreateGrpcAgent
    <3> QED BY <3>1, <3>2, <3>3, <3>4, <3>5, <3>6
  <2> QED BY <1>2, <2>1, <2>2 DEF Create
<1>3. CASE SendSpan(c)
  <2>1. queue' \in [Agents -> 0 .. AgentChannelSize]
    <3>1. CASE agent[c] \in Agents
      <4>1. queue[agent[c]] + 1 \in 0 .. AgentChannelSize
        <5>1. queue[agent[c]] \in 0 .. AgentChannelSize
          BY <3>1
        <5>2. queue[agent[c]] < AgentChannelSize
          BY <1>3 DEF SendSpan
        <5> HIDE DEF RouterTypeOK
        <5> QED BY <5>1, <5>2, ChannelAssumption
      <4> QED BY <1>3, <4>1 DEF SendSpan
    <3>2. CASE agent[c] \notin Agents
      <4> DEFINE Q == 0 .. AgentChannelSize
      <4>1. queue \in [Agents -> Q]
        OBVIOUS
      <4>2. queue' = [queue EXCEPT ![agent[c]] = queue[agent[c]] + 1]
        BY <1>3 DEF SendSpan
      <4> HIDE DEF Q, RouterTypeOK
      <4>3. queue' \in [Agents -> Q]
        BY <3>2, <4>1, <4>2
      <4> QED BY <4>3 DEF Q
    <3> QED BY <3>1, <3>2
  <2>2. appid' \in [Conns -> Apps]
    BY <1>3, AgentsAssumption DEF SendSpan, AnyApp
  <2>3. agent' \in [Conns -> Agents \cup {NoAgent}]
    BY <1>3 DEF SendSpan
  <2>4. at' \in [Conns -> {"none", "read", "parse", "lookup", "create", "send"}]
    BY <1>3 DEF SendSpan
  <2> QED BY <1>3, <2>1, <2>2, <2>3, <2>4 DEF SendSpan
<1> QED BY <1>1, <1>2, <1>3 DEF Dispatch

\* So do the steps of an agent's own tasks.
LEMMA TaskType ==
    ASSUME RouterTypeOK, NEW n \in Agents, Task(n)
    PROVE  RouterTypeOK'
<1> USE DEF RouterTypeOK, agents, handlers, mains
<1>1. CASE HandleTSpanFromBuf(n)
  <2>1. queue' \in [Agents -> 0 .. AgentChannelSize]
    <3>1. queue[n] - 1 \in 0 .. AgentChannelSize
      <4>1. queue[n] \in 0 .. AgentChannelSize
        OBVIOUS
      <4>2. queue[n] > 0
        BY <1>1 DEF HandleTSpanFromBuf
      <4> HIDE DEF RouterTypeOK
      <4> QED BY <4>1, <4>2, ChannelAssumption
    <3> QED BY <1>1, <3>1 DEF HandleTSpanFromBuf
  <2>2. CTime' \in [Agents -> Nat]
    BY <1>1 DEF HandleTSpanFromBuf
  <2> QED BY <1>1, <2>1, <2>2 DEF HandleTSpanFromBuf
<1>2. ASSUME NEW k \in Tasks, TaskExits(n, k)
      PROVE  RouterTypeOK'
  BY <1>2 DEF TaskExits
<1> QED BY <1>1, <1>2 DEF Task

\* So do those of the main goroutine in the router.
LEMMA RouterMainType ==
    ASSUME RouterTypeOK, Cleaning \/ StoppingStep \/ Tick
    PROVE  RouterTypeOK'
<1> USE DEF RouterTypeOK, agents, handlers, mains
<1>1. CASE Clean
  BY <1>1 DEF Clean
<1>5. CASE Tick
  <2>1. clock' \in Nat
    <3>1. clock \in Nat /\ clock' = clock + 1
      BY <1>5 DEF Tick
    <3> HIDE DEF RouterTypeOK
    <3> QED BY <3>1
  <2> QED BY <1>5, <2>1 DEF Tick
<1>2. ASSUME NEW S \in SUBSET Agents, TakeOut(S), main' \in {"stop", "stop all"}
      PROVE  RouterTypeOK'
  <2>1. AgentMap' \in [Apps -> Agents \cup {NoAgent}]
    BY <1>2 DEF TakeOut
  <2> QED BY <1>2, <2>1 DEF TakeOut
<1>3. CASE Collect \/ Stop
  BY <1>2, <1>3 DEF Collect, Stop, Expired, Mapped
<1>4. CASE (\E n \in Agents : Cancel(n)) \/ Stopped \/ StopEnds
  BY <1>4 DEF Cancel, Stopped, StopEnds
<1> QED BY <1>1, <1>3, <1>4, <1>5 DEF Cleaning, StoppingStep

\* The types of the whole server.
LEMMA TypeStep ==
    ASSUME TypeOK, HoldsConn, Next
    PROVE  TypeOK'
<1> USE DEF TypeOK, acceptor
<1>1. CASE RouterNext /\ UNCHANGED serverVars
  <2>1. RouterTypeOK'
    BY <1>1, DispatchType, TaskType, RouterMainType DEF RouterNext
  <2> QED BY <1>1, <2>1 DEF serverVars
<1>2. CASE AcceptLoop
  <2> USE DEF routerVars, agents, handlers, mains
  <2>1. CASE Spawn
    <3>1. RouterTypeOK'
      BY <2>1 DEF Spawn, RouterTypeOK
    <3> QED BY <2>1, <3>1 DEF Spawn
  <2>2. CASE UNCHANGED routerVars
    <3>1. RouterTypeOK'
      BY <2>2 DEF RouterTypeOK
    <3>2. CASE Listen \/ SetListener \/ AcceptFails \/ \E c \in Conns : Accept(c)
      BY <3>1, <3>2 DEF Listen, SetListener, AcceptFails, Accept
    <3>3. CASE Check
      BY <3>1, <3>3 DEF Check, Reject
    <3>4. CASE Admit
      <4>1. held \in Conns
        BY <3>4 DEF Admit, HoldsConn
      <4> QED BY <3>1, <3>4, <4>1 DEF Admit, Reject
    <3> QED BY <1>2, <2>1, <3>2, <3>3, <3>4 DEF AcceptLoop
  <2> QED BY <1>2, <2>1, <2>2 DEF AcceptLoop, Listen, SetListener, AcceptFails, Accept, Check, Admit
<1>3. ASSUME NEW c \in Conns, ClientConnects(c) \/ Handle(c)
      PROVE  TypeOK'
  <2> USE DEF routerVars, agents, handlers, mains
  <2>1. RouterTypeOK'
    BY <1>3 DEF ClientConnects, Handle, ReadFails, Read, ParseMore, ParsePacket, ParseFails,
                HandlerEnds, RouterTypeOK
  <2>2. UNCHANGED <<acceptor, shuttingDown, timedOut>>
    BY <1>3 DEF ClientConnects, Handle, ReadFails, Read, ParseMore, ParsePacket, ParseFails,
                HandlerEnds
  <2>3. net' \in [Conns -> {"out", "backlog", "open", "closed"}] /\ conns' \subseteq Conns
    BY <1>3 DEF ClientConnects, Handle, ReadFails, Read, ParseMore, ParsePacket, ParseFails,
                HandlerEnds
  <2> QED BY <2>1, <2>2, <2>3
<1>4. CASE Signal \/ Shutdown
  <2> USE DEF agents, handlers, mains
  <2>1. RouterTypeOK'
    <3>1. /\ UNCHANGED <<agents, handlers, ctime, stops, stopping, clock>>
          /\ main' \in {"flag", "close", "sweep", "wait", "router"}
      BY <1>4 DEF Signal, Shutdown, SetShuttingDown, CloseListener, CloseConns, WaitDone,
                  WaitTimeout
    <3> QED BY <3>1 DEF RouterTypeOK
  <2>2. CASE CloseListener \/ CloseConns
    BY <2>1, <2>2 DEF CloseListener, CloseConns
  <2>3. CASE Signal \/ SetShuttingDown \/ WaitDone \/ WaitTimeout
    BY <2>1, <2>3 DEF Signal, SetShuttingDown, WaitDone, WaitTimeout
  <2> QED BY <1>4, <2>2, <2>3 DEF Shutdown
<1> QED BY <1>1, <1>2, <1>3, <1>4 DEF Next

-----------------------------------------------------------------------------
(* No agent is forgotten.                                                  *)

\* Agents are numbered from 1.
LEMMA Numbers ==
    ASSUME TypeOK
    PROVE  PingId \in Nat /\ \A n \in Agents : n \in Nat /\ n # NoAgent
<1>1. PingId \in 1 .. MaxAgents + 1
  BY DEF TypeOK, RouterTypeOK
<1> QED BY <1>1, AgentsAssumption DEF Agents, NoAgent

\* main and stops as the server outside the router leaves them.
LEMMA ServerFrame ==
    ASSUME Next, ~(RouterNext /\ UNCHANGED serverVars)
    PROVE  UNCHANGED <<agents, ctime, stops, stopping>> /\ (main' = main \/ (~Stopping /\ ~Stopping'))
<1> USE DEF routerVars, mains
<1>1. CASE AcceptLoop
  BY <1>1 DEF AcceptLoop, Listen, SetListener, Accept, AcceptFails, Check, Admit, Spawn
<1>2. CASE \E c \in Conns : ClientConnects(c) \/ Handle(c)
  BY <1>2 DEF ClientConnects, Handle, ReadFails, Read, ParseMore, ParsePacket, ParseFails,
              HandlerEnds
<1>3. CASE Signal \/ Shutdown
  BY <1>3 DEF Signal, Shutdown, SetShuttingDown, CloseListener, CloseConns, WaitDone,
              WaitTimeout, Stopping
<1> QED BY <1>1, <1>2, <1>3 DEF Next

\* The steps of the router outside of which nothing changes that NoOrphan speaks of.
LEMMA RouterFrame ==
    ASSUME RouterNext,
           PingId' = PingId, PingId \in Nat,
           ~Collect, ~Stop, ~\E n \in Agents : Cancel(n)
    PROVE  /\ UNCHANGED <<AgentMap, PingId, app, cancelled, stops>>
           /\ \/ main' = main
              \/ main = "run" /\ main' = "collect"
              \/ Stopping /\ stops = {}
<1> USE DEF agents, mains
<1>1. CASE Tick \/ Clean
  BY <1>1 DEF Tick, Clean
<1>2. ASSUME NEW c \in Conns, Dispatch(c)
      PROVE  UNCHANGED <<AgentMap, PingId, app, cancelled, stops, main>>
  <2>1. ~CreateGrpcAgent(appid[c])
    BY DEF CreateGrpcAgent
  <2> QED BY <1>2, <2>1 DEF Dispatch, Lookup, Create, SendSpan
<1>3. CASE \E n \in Agents : Task(n)
  BY <1>3 DEF Task, HandleTSpanFromBuf, TaskExits
<1>4. CASE Stopped \/ StopEnds
  BY <1>4 DEF Stopped, StopEnds
<1> QED BY <1>1, <1>2, <1>3, <1>4 DEF RouterNext, Cleaning, StoppingStep

\* A new agent has a number of its own, and the map had none for its application.
LEMMA CreateOrphan ==
    ASSUME TypeOK, NoOrphan, StopsFirst, NEW a \in Apps, AgentMap[a] = NoAgent,
           CreateGrpcAgent(a), UNCHANGED <<main, stops>>
    PROVE  NoOrphan' /\ StopsFirst'
<1>1. StopsFirst'
  BY DEF StopsFirst, Stopping
<1>2. ASSUME NEW n \in Agents, n < PingId', n \notin cancelled'
      PROVE  AgentMap'[app'[n]] = n \/ n \in stops'
  <2>1. PingId \in Nat /\ n \in Nat /\ PingId' = PingId + 1 /\ n # NoAgent
    BY Numbers DEF CreateGrpcAgent
  <2>2. CASE n = PingId
    BY <2>2 DEF CreateGrpcAgent, TypeOK, RouterTypeOK
  <2>3. CASE n # PingId
    <3>1. n < PingId
      BY <1>2, <2>1, <2>3
    <3>2. app'[n] = app[n] /\ app[n] \in Apps
      BY <2>3 DEF CreateGrpcAgent, TypeOK, RouterTypeOK
    <3>3. AgentMap[app[n]] = n \/ n \in stops
      BY <1>2, <3>1 DEF NoOrphan, CreateGrpcAgent
    <3>4. AgentMap[app[n]] = n => app[n] # a
      BY <2>1
    <3> QED BY <3>2, <3>3, <3>4 DEF CreateGrpcAgent, TypeOK, RouterTypeOK
  <2> QED BY <2>2, <2>3
<1> QED BY <1>1, <1>2 DEF NoOrphan

\* What is taken out of the map is stopped.
LEMMA TakeOutOrphan ==
    ASSUME TypeOK, NoOrphan, StopsFirst, ~Stopping, NEW S \in SUBSET Agents, TakeOut(S), Stopping'
    PROVE  NoOrphan' /\ StopsFirst'
<1>1. StopsFirst' /\ stops = {}
  BY DEF StopsFirst
<1>2. ASSUME NEW n \in Agents, n < PingId', n \notin cancelled'
      PROVE  AgentMap'[app'[n]] = n \/ n \in stops'
  <2>1. AgentMap[app[n]] = n /\ app[n] \in Apps /\ app' = app
    BY <1>1, <1>2 DEF NoOrphan, TakeOut, TypeOK, RouterTypeOK
  <2> QED BY <2>1 DEF TakeOut
<1> QED BY <1>1, <1>2 DEF NoOrphan

\* Agents are created by a handler that has looked at the map again.
LEMMA CreatedBy ==
    ASSUME TypeOK, RouterNext, PingId' # PingId
    PROVE  \E d \in Conns : Create(d) /\ AgentMap[appid[d]] = NoAgent /\ CreateGrpcAgent(appid[d])
<1> USE DEF agents, mains
<1>1. ~(Tick \/ Cleaning \/ StoppingStep \/ \E n \in Agents : Task(n))
  BY DEF Tick, Cleaning, Clean, Collect, TakeOut, StoppingStep, Stop, Cancel, Stopped, StopEnds,
         Task, HandleTSpanFromBuf, TaskExits
<1>2. PICK d \in Conns : Dispatch(d)
  BY <1>1 DEF RouterNext
<1> QED BY <1>2 DEF Dispatch, Lookup, Create, SendSpan

\* NoOrphan is inductive together with StopsFirst.
LEMMA OrphanStep ==
    ASSUME TypeOK, NoOrphan, StopsFirst, Next
    PROVE  NoOrphan' /\ StopsFirst'
<1>1. CASE ~(RouterNext /\ UNCHANGED serverVars)
  BY <1>1, ServerFrame DEF NoOrphan, StopsFirst, Stopping, agents
<1>2. CASE RouterNext /\ PingId' # PingId
  <2>1. PICK d \in Conns : Create(d) /\ AgentMap[appid[d]] = NoAgent /\ CreateGrpcAgent(appid[d])
    BY <1>2, CreatedBy
  <2> QED BY <2>1, CreateOrphan DEF Create, mains, TypeOK, RouterTypeOK
<1>3. CASE Collect \/ Stop
  <2>1. \E S \in SUBSET Agents : TakeOut(S)
    BY <1>3 DEF Collect, Stop, Expired, Mapped
  <2>2. ~Stopping /\ Stopping'
    BY <1>3 DEF Collect, Stop, Stopping
  <2> QED BY <2>1, <2>2, TakeOutOrphan
<1>4. CASE \E n \in Agents : Cancel(n)
  BY <1>4 DEF Cancel, NoOrphan, StopsFirst, Stopping
<1>5. CASE RouterNext /\ PingId' = PingId /\ ~Collect /\ ~Stop /\ ~\E n \in Agents : Cancel(n)
  <2>1. /\ UNCHANGED <<AgentMap, PingId, app, cancelled, stops>>
        /\ main' = main \/ (main = "run" /\ main' = "collect") \/ (Stopping /\ stops = {})
    BY <1>5, RouterFrame, Numbers
  <2> QED BY <2>1 DEF NoOrphan, StopsFirst, Stopping
<1> QED BY <1>1, <1>2, <1>3, <1>4, <1>5

-----------------------------------------------------------------------------
(* A shutdown misses at most one connection.                               *)

Open == {c \in Conns : c \in conns /\ net[c] = "open"}
After == {"wait", "router", "stop all", "exit"}

(* s.conns holds the connections that have or will get a handler, and not  *)
(* the one that the accept loop is still to check.                         *)
Tracked ==
    /\ \A c \in Conns : c \in conns => net[c] \in {"open", "closed"}
    /\ \A c \in Conns : at[c] # "none" => c \in conns
    /\ accept \in {"check", "admit"} => net[held] = "open" /\ held \notin conns
    /\ accept = "spawn" => held \in conns /\ at[held] = "none"

(* After the sweep, the connection that may be missed is one that was past *)
(* the check when the flag was set.                                        *)
Missed ==
    /\ main \in {"close", "sweep"} \cup After => shuttingDown
    /\ main \in After => \A c, d \in Open : c = d
    /\ main \in After /\ accept = "admit" => Open = {}

\* The router starts no handler and ends none, and goes on to exit from "router".
LEMMA RouterKeeps ==
    ASSUME TypeOK, RouterNext
    PROVE  /\ \A c \in Conns : (at[c] = "none") <=> (at'[c] = "none")
           /\ main' \in After \ {"wait"} => main \in After \ {"wait"} \/ main' = main
           /\ main' \in {"close", "sweep", "wait"} => main' = main
<1> USE DEF handlers, mains, After
<1>1. CASE Tick \/ Clean \/ Collect \/ \E n \in Agents : Task(n)
  BY <1>1 DEF Tick, Clean, Collect, TakeOut, Task, HandleTSpanFromBuf, TaskExits
<1>2. CASE StoppingStep
  BY <1>2 DEF StoppingStep, Stop, TakeOut, Cancel, Stopped, StopEnds, Stopping
<1>3. ASSUME NEW c \in Conns, Dispatch(c)
      PROVE  main' = main /\ \A d \in Conns : (at[d] = "none") <=> (at'[d] = "none")
  BY <1>3 DEF Dispatch, Lookup, Create, SendSpan, Found, TypeOK, RouterTypeOK
<1> QED BY <1>1, <1>2, <1>3 DEF RouterNext, Cleaning

\* No step of the server or the router loses track of a connection.
LEMMA TrackedStep ==
    ASSUME TypeOK, HoldsConn, Tracked, Next
    PROVE  HoldsConn' /\ Tracked'
<1> USE DEF HoldsConn, Tracked, acceptor
<1>1. CASE RouterNext /\ UNCHANGED serverVars
  BY <1>1, RouterKeeps DEF serverVars
<1>2. CASE AcceptLoop
  <2> USE DEF routerVars, handlers
  <2>1. CASE Listen \/ SetListener \/ AcceptFails
    BY <2>1 DEF Listen, SetListener, AcceptFails
  <2>2. ASSUME NEW c \in Conns, Accept(c)
        PROVE  HoldsConn' /\ Tracked'
    BY <2>2 DEF Accept, TypeOK
  <2>3. CASE Check
    BY <2>3 DEF Check, Reject, TypeOK
  <2>4. CASE Admit
    BY <2>4 DEF Admit, Reject, TypeOK
  <2>5. CASE Spawn
    BY <2>5 DEF Spawn, TypeOK, RouterTypeOK
  <2> QED BY <1>2, <2>1, <2>2, <2>3, <2>4, <2>5 DEF AcceptLoop
<1>3. ASSUME NEW c \in Conns, ClientConnects(c)
      PROVE  HoldsConn' /\ Tracked'
  BY <1>3 DEF ClientConnects, TypeOK, routerVars, handlers
<1>4. ASSUME NEW c \in Conns, Handle(c)
      PROVE  HoldsConn' /\ Tracked'
  <2> USE DEF TypeOK, RouterTypeOK
  <2>1. CASE ReadFails(c) \/ ParseFails(c)
    <3>1. /\ at[c] # "none" /\ c \in conns /\ at'[c] = "none" /\ conns' = conns \ {c}
          /\ UNCHANGED <<accept, held>>
          /\ \A d \in Conns \ {c} : at'[d] = at[d] /\ net'[d] = net[d]
      BY <2>1 DEF ReadFails, ParseFails, HandlerEnds
    <3>2. accept \in {"check", "admit", "spawn"} => held \in Conns \ {c}
      BY <3>1
    <3> HIDE DEF TypeOK, RouterTypeOK
    <3> QED BY <3>1, <3>2
  <2>2. CASE Read(c) \/ ParseMore(c) \/ ParsePacket(c)
    <3>1. /\ at[c] # "none" /\ at'[c] # "none" /\ UNCHANGED <<accept, held, net, conns>>
          /\ \A d \in Conns \ {c} : at'[d] = at[d]
      BY <2>2 DEF Read, ParseMore, ParsePacket
    <3> HIDE DEF TypeOK, RouterTypeOK
    <3> QED BY <3>1
  <2> QED BY <1>4, <2>1, <2>2 DEF Handle
<1>5. CASE Signal \/ Shutdown
  <2> USE DEF handlers
  <2>1. CASE CloseListener
    BY <2>1 DEF CloseListener, TypeOK
  <2>2. CASE CloseConns
    BY <2>2 DEF CloseConns, TypeOK
  <2>3. CASE Signal \/ SetShuttingDown \/ WaitDone \/ WaitTimeout
    BY <2>3 DEF Signal, SetShuttingDown, WaitDone, WaitTimeout
  <2> QED BY <1>5, <2>1, <2>2, <2>3 DEF Shutdown
<1> QED BY <1>1, <1>2, <1>3, <1>4, <1>5 DEF Next

\* After the sweep of s.conns no second connection is missed.
LEMMA MissedStep ==
    ASSUME TypeOK, HoldsConn, Tracked, Missed, Next
    PROVE  Missed'
<1> USE DEF Missed, Open, After, acceptor
<1>1. CASE RouterNext /\ UNCHANGED serverVars
  BY <1>1, RouterKeeps DEF serverVars
<1>2. CASE AcceptLoop
  <2> USE DEF routerVars, mains
  <2>1. CASE Listen \/ SetListener \/ AcceptFails
    BY <2>1 DEF Listen, SetListener, AcceptFails
  <2>2. ASSUME NEW c \in Conns, Accept(c)
        PROVE  Missed'
    BY <2>2 DEF Accept, TypeOK, Tracked
  <2>3. CASE Check
    BY <2>3 DEF Check, Reject, TypeOK
  <2>4. CASE Admit
    BY <2>4 DEF Admit, Reject, TypeOK
  <2>5. CASE Spawn
    BY <2>5 DEF Spawn
  <2> QED BY <1>2, <2>1, <2>2, <2>3, <2>4, <2>5 DEF AcceptLoop
<1>3. ASSUME NEW c \in Conns, ClientConnects(c) \/ Handle(c)
      PROVE  Missed'
  <2>1. Open' \subseteq Open /\ UNCHANGED <<main, accept, shuttingDown>>
    BY <1>3 DEF ClientConnects, Handle, ReadFails, Read, ParseMore, ParsePacket, ParseFails,
                HandlerEnds, TypeOK, routerVars, mains
  <2> QED BY <2>1
<1>4. CASE Signal \/ Shutdown
  <2>1. CASE Signal \/ SetShuttingDown
    BY <2>1 DEF Signal, SetShuttingDown
  <2>2. CASE CloseListener
    BY <2>2 DEF CloseListener
  <2>3. CASE CloseConns
    <3>1. Open' = {}
      BY <2>3 DEF CloseConns, TypeOK
    <3> QED BY <2>3, <3>1 DEF CloseConns
  <2>4. CASE WaitDone \/ WaitTimeout
    BY <2>4 DEF WaitDone, WaitTimeout
  <2> QED BY <1>4, <2>1, <2>2, <2>3, <2>4 DEF Shutdown
<1> QED BY <1>1, <1>2, <1>3, <1>4 DEF Next

-----------------------------------------------------------------------------
(* A shutdown in time leaves nothing running.                              *)

(* Agents run from their creation on; those that were cancelled have       *)
(* ended, up to the one that is waited for.                                *)
Retired ==
    /\ \A n \in Agents : tasks[n] # {} \/ n \in cancelled \/ n \in stops => n < PingId
    /\ \A a \in Apps : AgentMap[a] # NoAgent => AgentMap[a] < PingId
    /\ \A n \in cancelled : tasks[n] # {} => n = stopping

(* Handlers and the accept loop have ended before the agents are stopped,  *)
(* so that no agent is created any more.                                   *)
Draining ==
    /\ main \in {"router", "stop all", "exit"} /\ ~timedOut => Running = {} /\ accept = "done"
    /\ main \in {"stop all", "exit"} /\ ~timedOut => \A a \in Apps : AgentMap[a] = NoAgent
    /\ main = "exit" => stops = {} /\ stopping = NoAgent

\* A new agent is not cancelled, and has not been taken out of the map.
LEMMA CreateRetired ==
    ASSUME TypeOK, Retired, NEW a \in Apps, CreateGrpcAgent(a), UNCHANGED <<stops, stopping>>
    PROVE  Retired'
<1>1. /\ PingId \in Nat /\ PingId' = PingId + 1 /\ PingId \in Agents
      /\ \A n \in Agents : n \in Nat /\ n # NoAgent
  BY Numbers DEF CreateGrpcAgent
<1>2. \A n \in Agents \ {PingId} : tasks'[n] = tasks[n]
  BY DEF CreateGrpcAgent, TypeOK, RouterTypeOK
<1>3. \A b \in Apps : AgentMap'[b] = AgentMap[b] \/ AgentMap'[b] = PingId
  BY DEF CreateGrpcAgent, TypeOK, RouterTypeOK
<1>4. \A n \in Agents : n < PingId => n < PingId'
  BY <1>1
<1>5. PingId < PingId' /\ ~(PingId < PingId)
  BY <1>1
<1>6. ASSUME NEW n \in Agents, tasks'[n] # {} \/ n \in cancelled' \/ n \in stops'
      PROVE  n < PingId'
  BY <1>2, <1>4, <1>5, <1>6 DEF Retired, CreateGrpcAgent
<1>7. ASSUME NEW b \in Apps, AgentMap'[b] # NoAgent
      PROVE  AgentMap'[b] < PingId'
  <2>1. AgentMap[b] \in Agents \cup {NoAgent}
    BY DEF TypeOK, RouterTypeOK
  <2> QED BY <1>3, <1>4, <1>5, <1>7, <2>1 DEF Retired
<1>8. ASSUME NEW n \in cancelled', tasks'[n] # {}
      PROVE  n = stopping'
  <2>1. n \in cancelled /\ n \in Agents
    BY <1>8 DEF CreateGrpcAgent, TypeOK, RouterTypeOK
  <2>2. n # PingId
    BY <1>5, <2>1 DEF Retired
  <2> QED BY <1>2, <1>8, <2>1, <2>2 DEF Retired
<1> QED BY <1>6, <1>7, <1>8 DEF Retired

\* No step leaves a task of an agent that was cancelled and waited for.
LEMMA RetiredStep ==
    ASSUME TypeOK, Retired, Next
    PROVE  Retired'
<1>1. CASE ~(RouterNext /\ UNCHANGED serverVars)
  BY <1>1, ServerFrame DEF Retired, agents
<1>2. CASE RouterNext /\ PingId' # PingId
  <2>1. PICK d \in Conns : Create(d) /\ AgentMap[appid[d]] = NoAgent /\ CreateGrpcAgent(appid[d])
    BY <1>2, CreatedBy
  <2> QED BY <2>1, CreateRetired DEF Create, mains, TypeOK, RouterTypeOK
<1>3. ASSUME NEW S \in SUBSET Mapped, TakeOut(S)
      PROVE  Retired'
  <2>1. \A n \in S : n < PingId
    BY Numbers DEF Mapped, Retired
  <2>2. \A a \in Apps : AgentMap'[a] \in {AgentMap[a], NoAgent}
    BY <1>3 DEF TakeOut
  <2> QED BY <1>3, <2>1, <2>2 DEF TakeOut, Retired
<1>4. CASE Collect \/ Stop
  BY <1>3, <1>4 DEF Collect, Stop, Expired
<1>5. ASSUME NEW n \in Agents, Cancel(n)
      PROVE  Retired'
  BY <1>5, Numbers DEF Cancel, Retired, TypeOK, RouterTypeOK
<1>6. CASE Stopped
  BY <1>6 DEF Stopped, Retired, agents
<1>7. ASSUME NEW n \in Agents, Task(n)
      PROVE  Retired'
  <2>1. UNCHANGED <<AgentMap, PingId, cancelled, stops, stopping>>
    BY <1>7 DEF Task, HandleTSpanFromBuf, TaskExits, mains
  <2>2. \A m \in Agents : tasks'[m] \subseteq tasks[m]
    BY <1>7 DEF Task, HandleTSpanFromBuf, TaskExits, TypeOK, RouterTypeOK
  <2>3. cancelled \subseteq Agents
    BY DEF TypeOK, RouterTypeOK
  <2> QED BY <2>1, <2>2, <2>3 DEF Retired
<1>8. CASE Tick \/ Clean \/ StopEnds
  BY <1>8 DEF Tick, Clean, StopEnds, Retired, agents, mains
<1>9. ASSUME NEW c \in Conns, Dispatch(c), PingId' = PingId
      PROVE  Retired'
  <2>1. ~CreateGrpcAgent(appid[c])
    BY <1>9, Numbers DEF CreateGrpcAgent
  <2>2. UNCHANGED <<AgentMap, PingId, cancelled, tasks, stops, stopping>>
    BY <1>9, <2>1 DEF Dispatch, Lookup, Create, SendSpan, agents, mains
  <2> QED BY <2>2 DEF Retired
<1> QED BY <1>1, <1>2, <1>4, <1>5, <1>6, <1>7, <1>8, <1>9
           DEF RouterNext, Cleaning, StoppingStep

\* Nobody is left who could create an agent, or start a handler.
LEMMA DrainingStep ==
    ASSUME TypeOK, Draining, Next
    PROVE  Draining'
<1> USE DEF Draining, Running, acceptor
<1>1. main # "exit"
  BY DEF Next
<1>2. CASE RouterNext /\ UNCHANGED serverVars
  <2>1. (Running = {})' <=> (Running = {})
    BY <1>2, RouterKeeps
  <2>2. UNCHANGED <<accept, timedOut>>
    BY <1>2 DEF serverVars
  <2> HIDE DEF Running
  <2>3. CASE Tick \/ Clean \/ Collect \/ \E n \in Agents : Task(n)
    BY <1>1, <2>1, <2>2, <2>3 DEF Tick, Clean, Collect, TakeOut, Task, HandleTSpanFromBuf,
                                  TaskExits, agents, mains
  <2>4. CASE Stop
    <3>1. \A a \in Apps : AgentMap'[a] = NoAgent
      BY <2>4 DEF Stop, TakeOut, Mapped, TypeOK, RouterTypeOK
    <3> QED BY <1>1, <2>1, <2>2, <2>4, <3>1 DEF Stop
  <2>5. CASE (\E n \in Agents : Cancel(n)) \/ Stopped \/ StopEnds
    BY <1>1, <2>1, <2>2, <2>5 DEF Cancel, Stopped, StopEnds, Stopping, agents
  <2>6. ASSUME NEW c \in Conns, Dispatch(c)
        PROVE  Draining'
    <3>1. c \in Running /\ main' = main
      BY <2>6 DEF Dispatch, Lookup, Create, SendSpan, Running, mains
    <3> QED BY <1>1, <2>2, <3>1
  <2> QED BY <1>2, <2>3, <2>4, <2>5, <2>6 DEF RouterNext, Cleaning, StoppingStep
<1>3. CASE AcceptLoop
  <2>1. accept # "done" /\ UNCHANGED <<main, timedOut>>
    BY <1>3 DEF AcceptLoop, Listen, SetListener, Accept, AcceptFails, Check, Admit, Spawn,
                routerVars, mains
  <2> QED BY <1>1, <2>1
<1>4. ASSUME NEW c \in Conns, ClientConnects(c)
      PROVE  Draining'
  BY <1>1, <1>4 DEF ClientConnects, routerVars, agents, handlers, mains
<1>5. ASSUME NEW c \in Conns, Handle(c)
      PROVE  Draining'
  <2>1. c \in Running /\ UNCHANGED <<main, timedOut>>
    BY <1>5 DEF Handle, ReadFails, Read, ParseMore, ParsePacket, ParseFails, HandlerEnds, mains
  <2> QED BY <1>1, <2>1
<1>6. CASE Signal \/ Shutdown
  BY <1>6 DEF Signal, Shutdown, SetShuttingDown, CloseListener, CloseConns, WaitDone,
              WaitTimeout, handlers
<1> QED BY <1>2, <1>3, <1>4, <1>5, <1>6 DEF Next

-----------------------------------------------------------------------------
ServerInv ==
    /\ TypeOK /\ NoOrphan /\ StopsFirst
    /\ HoldsConn /\ Tracked /\ Missed
    /\ Retired /\ Draining

\* The inductive invariant of the daemon.
LEMMA ServerInvAlways == Spec => []ServerInv
<1>1. Init => ServerInv
  <2> SUFFICES ASSUME Init
               PROVE  ServerInv
    OBVIOUS
  <2> USE DEF Init, RouterInit
  <2>1. AnyApp \in Apps
    BY AgentsAssumption DEF AnyApp
  <2>2. RouterTypeOK
    BY <2>1, AgentsAssumption, ChannelAssumption DEF RouterTypeOK, NoAgent
  <2>3. TypeOK
    BY <2>2 DEF TypeOK
  <2>4. NoOrphan /\ Retired
    BY Numbers, <2>3 DEF NoOrphan, Retired, Agents
  <2>5. StopsFirst /\ HoldsConn /\ Tracked /\ Missed /\ Draining
    BY DEF StopsFirst, HoldsConn, Tracked, Missed, Draining, After
  <2> QED BY <2>3, <2>4, <2>5 DEF ServerInv
<1>2. ServerInv /\ [Next]_vars => ServerInv'
  <2> SUFFICES ASSUME ServerInv, [Next]_vars
               PROVE  ServerInv'
    OBVIOUS
  <2>1. CASE Next
    BY <2>1, TypeStep, OrphanStep, TrackedStep, MissedStep, RetiredStep, DrainingStep
       DEF ServerInv
  <2>2. CASE UNCHANGED vars
    <3> USE <2>2 DEF vars, routerVars, agents, handlers, mains, acceptor
    <3>1. TypeOK' = TypeOK
      BY DEF TypeOK, RouterTypeOK
    <3>2. NoOrphan' = NoOrphan /\ StopsFirst' = StopsFirst /\ HoldsConn' = HoldsConn
      BY DEF NoOrphan, StopsFirst, Stopping, HoldsConn
    <3>3. Tracked' = Tracked /\ Missed' = Missed
      BY DEF Tracked, Missed, Open
    <3>4. Retired' = Retired /\ Draining' = Draining
      BY DEF Retired, Draining, Running
    <3> QED BY <3>1, <3>2, <3>3, <3>4 DEF ServerInv
  <2> QED BY <2>1, <2>2
<1> QED BY <1>1, <1>2, PTL DEF Spec

\* An agent that was created and not cancelled is in the map for its application or
\* about to be stopped (DispatchPacket, Clean, Stop).
THEOREM NoOrphanAlways == Spec => []NoOrphan
<1>1. ServerInv => NoOrphan
  BY DEF ServerInv
<1> QED BY <1>1, ServerInvAlways, PTL

\* A shutdown leaves at most one connection open, and one that did not time out
\* leaves no handler, no accept loop and no task of an agent running (shutdown,
\* AgentRouter.Stop, GrpcAgent.Stop).
THEOREM ShutdownSoundAlways == Spec => []ShutdownSound
<1>1. ServerInv => ShutdownSound
  <2> SUFFICES ASSUME ServerInv
               PROVE  ShutdownSound
    OBVIOUS
  <2>1. MissedAtMostOne
    <3> SUFFICES ASSUME main \in After
                 PROVE  Cardinality(Open) <= 1
      BY DEF MissedAtMostOne, Open, After
    <3>1. \A c, d \in Open : c = d
      BY DEF ServerInv, Missed
    <3>2. CASE Open = {}
      BY <3>2, FS_EmptySet
    <3>3. CASE Open # {}
      <4>1. PICK c \in Open : Open = {c}
        BY <3>1, <3>3
      <4> QED BY <4>1, FS_Singleton
    <3> QED BY <3>2, <3>3
  <2>2. Drained
    <3> SUFFICES ASSUME main = "exit", ~timedOut, NEW n \in Agents, tasks[n] # {}
                 PROVE  FALSE
      BY DEF Drained, ServerInv, Draining
    <3>1. n < PingId /\ n # NoAgent /\ stops = {} /\ stopping = NoAgent
      BY Numbers DEF ServerInv, Retired, Draining
    <3>2. n \notin cancelled
      BY <3>1 DEF ServerInv, Retired
    <3>3. AgentMap[app[n]] = n /\ app[n] \in Apps
      BY <3>1, <3>2 DEF ServerInv, NoOrphan, TypeOK, RouterTypeOK
    <3> QED BY <3>1, <3>3 DEF ServerInv, Draining
  <2> QED BY <2>1, <2>2 DEF ShutdownSound, ServerInv
<1> QED BY <1>1, ServerInvAlways, PTL
=============================================================================
