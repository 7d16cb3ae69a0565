-------------------------- MODULE CollectorServer --------------------------
(***************************************************************************)
(* The TCP server of the collector-agent, server/Server.go, around the     *)
(* router: the accept loop (startListen), a handler for each connection    *)
(* (handleClient; how it cuts packets out of the stream is module          *)
(* ClientReader), and the main goroutine (Run, shutdown).                  *)
(***************************************************************************)
EXTENDS AgentRouter

CONSTANTS
    MaxConnections,
    NoConn            \* the accept loop holds no connection

ASSUME ConnsAssumption == MaxConnections \in Nat \ {0} /\ NoConn \notin Conns

VARIABLES
    socket,        \* the listening socket: "none", "open" or "closed"
    listener,      \* s.listener is set
    accept,        \* where the accept loop is
    held,          \* the connection it has accepted
    net,           \* net[c]: "out", "backlog", "open", "closed" by the server
    conns,         \* s.conns
    shuttingDown,
    timedOut       \* shutdown did not wait for the handlers

acceptor == <<socket, listener, accept, held>>
vars == <<routerVars, acceptor, net, conns, shuttingDown, timedOut>>

Init ==
    /\ RouterInit
    /\ socket = "none" /\ listener = FALSE /\ accept = "listen" /\ held = NoConn
    /\ net = [c \in Conns |-> "out"]
    /\ conns = {} /\ shuttingDown = FALSE /\ timedOut = FALSE

Running == {c \in Conns : at[c] # "none"}
-----------------------------------------------------------------------------
(* startListen.                                                            *)

Listen ==
    /\ accept = "listen"
    /\ socket' = "open"
    /\ accept' = "store"
    /\ UNCHANGED <<routerVars, listener, held, net, conns, shuttingDown, timedOut>>

SetListener ==
    /\ accept = "store"
    /\ listener' = TRUE
    /\ accept' = "accept"
    /\ UNCHANGED <<routerVars, socket, held, net, conns, shuttingDown, timedOut>>

Accept(c) ==
    /\ accept = "accept"
    /\ socket = "open" /\ net[c] = "backlog"
    /\ net' = [net EXCEPT ![c] = "open"]
    /\ held' = c
    /\ accept' = "check"
    /\ UNCHANGED <<routerVars, socket, listener, conns, shuttingDown, timedOut>>

\* Whatever the error, the loop ends.
AcceptFails ==
    /\ accept = "accept"
    /\ accept' = "done"
    /\ UNCHANGED <<routerVars, socket, listener, held, net, conns, shuttingDown, timedOut>>

\* conn.Close() of a connection that is not served.
Reject ==
    /\ net' = [net EXCEPT ![held] = "out"]
    /\ held' = NoConn
    /\ accept' = "accept"

\* Mutant of Check: connections are admitted during the shutdown.
CheckNothing ==
    /\ accept = "check"
    /\ accept' = "admit" /\ UNCHANGED <<held, net>>
    /\ UNCHANGED <<routerVars, socket, listener, conns, shuttingDown, timedOut>>

Check ==
    /\ accept = "check"
    /\ \/ shuttingDown /\ Reject
       \/ ~shuttingDown /\ accept' = "admit" /\ UNCHANGED <<held, net>>
    /\ UNCHANGED <<routerVars, socket, listener, conns, shuttingDown, timedOut>>

\* The slots of connSem are those of the handlers.
Admit ==
    /\ accept = "admit"
    /\ \/ /\ Cardinality(Running) < MaxConnections
          /\ conns' = conns \cup {held}
          /\ accept' = "spawn"
          /\ UNCHANGED <<held, net>>
       \/ /\ Cardinality(Running) >= MaxConnections
          /\ Reject
          /\ UNCHANGED conns
    /\ UNCHANGED <<routerVars, socket, listener, shuttingDown, timedOut>>

Spawn ==
    /\ accept = "spawn"
    /\ at' = [at EXCEPT ![held] = "read"]
    /\ held' = NoConn
    /\ accept' = "accept"
    /\ UNCHANGED <<agents, appid, agent, mains, clock, socket, listener, net, conns,
                   shuttingDown, timedOut>>
-----------------------------------------------------------------------------
(* A client, and handleClient in its handler.                              *)

ClientConnects(c) ==
    /\ socket = "open"
    /\ net[c] = "out" /\ held # c /\ at[c] = "none"
    /\ net' = [net EXCEPT ![c] = "backlog"]
    /\ UNCHANGED <<routerVars, acceptor, conns, shuttingDown, timedOut>>

\* con.Close, untrackConn, the slot of connSem, wg.Done.
HandlerEnds(c) ==
    /\ at' = [at EXCEPT ![c] = "none"]
    /\ net' = [net EXCEPT ![c] = "out"]
    /\ conns' = conns \ {c}
    /\ UNCHANGED <<agents, appid, agent, mains, clock, acceptor, shuttingDown, timedOut>>

\* The client closes the connection, or shutdown has.
ReadFails(c) ==
    /\ at[c] = "read"
    /\ HandlerEnds(c)

Read(c) ==
    /\ at[c] = "read"
    /\ net[c] = "open"
    /\ at' = [at EXCEPT ![c] = "parse"]
    /\ UNCHANGED <<agents, appid, agent, mains, clock, acceptor, net, conns, shuttingDown,
                   timedOut>>

\* No packet is complete.
ParseMore(c) ==
    /\ at[c] = "parse"
    /\ at' = [at EXCEPT ![c] = "read"]
    /\ UNCHANGED <<agents, appid, agent, mains, clock, acceptor, net, conns, shuttingDown,
                   timedOut>>

ParsePacket(c) ==
    /\ at[c] = "parse"
    /\ at' = [at EXCEPT ![c] = "lookup"]
    /\ \E a \in Apps : appid' = [appid EXCEPT ![c] = a]
    /\ UNCHANGED <<agents, agent, mains, clock, acceptor, net, conns, shuttingDown, timedOut>>

\* A packet that is too long, or that the router refuses.
ParseFails(c) ==
    /\ at[c] = "parse"
    /\ HandlerEnds(c)
-----------------------------------------------------------------------------
(* Run and shutdown.                                                       *)

Signal ==
    /\ main = "run"
    /\ main' = "flag"
    /\ UNCHANGED <<agents, handlers, ctime, stops, stopping, clock, acceptor, net, conns,
                   shuttingDown, timedOut>>

SetShuttingDown ==
    /\ main = "flag"
    /\ shuttingDown' = TRUE
    /\ main' = "close"
    /\ UNCHANGED <<agents, handlers, ctime, stops, stopping, clock, acceptor, net, conns,
                   timedOut>>

\* The listener is closed if it is set; clients in its backlog are reset.
CloseListener ==
    /\ main = "close"
    /\ \/ /\ listener
          /\ socket' = "closed"
          /\ net' = [c \in Conns |-> IF net[c] = "backlog" THEN "out" ELSE net[c]]
       \/ ~listener /\ UNCHANGED <<socket, net>>
    /\ main' = "sweep"
    /\ UNCHANGED <<agents, handlers, ctime, stops, stopping, clock, listener, accept, held,
                   conns, shuttingDown, timedOut>>

CloseConns ==
    /\ main = "sweep"
    /\ net' = [c \in Conns |-> IF c \in conns THEN "closed" ELSE net[c]]
    /\ main' = "wait"
    /\ UNCHANGED <<agents, handlers, ctime, stops, stopping, clock, acceptor, conns,
                   shuttingDown, timedOut>>

\* Mutant of WaitDone: the accept loop is not in the wait group.
WaitHandlersDone ==
    /\ main = "wait"
    /\ Running = {}
    /\ main' = "router"
    /\ UNCHANGED <<agents, handlers, ctime, stops, stopping, clock, acceptor, net, conns,
                   shuttingDown, timedOut>>

\* s.wg counts the accept loop and the handlers.
WaitDone ==
    /\ main = "wait"
    /\ Running = {} /\ accept = "done"
    /\ main' = "router"
    /\ UNCHANGED <<agents, handlers, ctime, stops, stopping, clock, acceptor, net, conns,
                   shuttingDown, timedOut>>

\* After SpanTimeWait.
WaitTimeout ==
    /\ main = "wait"
    /\ main' = "router"
    /\ timedOut' = TRUE
    /\ UNCHANGED <<agents, handlers, ctime, stops, stopping, clock, acceptor, net, conns,
                   shuttingDown>>
-----------------------------------------------------------------------------
serverVars == <<acceptor, net, conns, shuttingDown, timedOut>>

AcceptLoop ==
    Listen \/ SetListener \/ (\E c \in Conns : Accept(c)) \/ AcceptFails \/ Check \/ Admit \/ Spawn
Handle(c) == ReadFails(c) \/ Read(c) \/ ParseMore(c) \/ ParsePacket(c) \/ ParseFails(c)
Shutdown == SetShuttingDown \/ CloseListener \/ CloseConns \/ WaitDone \/ WaitTimeout

\* The process ends with the main goroutine.
Next ==
    /\ main # "exit"
    /\ \/ RouterNext /\ UNCHANGED serverVars
       \/ AcceptLoop
       \/ \E c \in Conns : ClientConnects(c) \/ Handle(c)
       \/ Signal \/ Shutdown

Spec == Init /\ [][Next]_vars

\* The Go scheduler runs every goroutine that can run.  Nothing is asked of the
\* clients, of the timer of Clean or of signals.
Fairness ==
    /\ WF_vars(Shutdown)
    /\ WF_vars((Collect \/ StoppingStep) /\ UNCHANGED serverVars)
    /\ \A n \in Agents : WF_vars(HandleTSpanFromBuf(n) /\ UNCHANGED serverVars)
    /\ WF_vars((\E n \in Agents, k \in Tasks : TaskExits(n, k)) /\ UNCHANGED serverVars)
    /\ \A c \in Conns : SF_vars(SendSpan(c) /\ UNCHANGED serverVars)

FairSpec == Spec /\ Fairness
-----------------------------------------------------------------------------
(* Properties.                                                             *)

TypeOK ==
    /\ RouterTypeOK
    /\ socket \in {"none", "open", "closed"} /\ listener \in BOOLEAN
    /\ accept \in {"listen", "store", "accept", "check", "admit", "spawn", "done"}
    /\ held \in Conns \cup {NoConn}
    /\ net \in [Conns -> {"out", "backlog", "open", "closed"}]
    /\ conns \subseteq Conns
    /\ shuttingDown \in BOOLEAN /\ timedOut \in BOOLEAN

\* "2. Close all in-flight client connections so blocked reads return": a
\* connection that was accepted before the flag was set and is tracked after the
\* sweep is missed; but there is at most one, also when the signal came before the
\* listener was set and the accept loop goes on.
MissedAtMostOne ==
    main \in {"wait", "router", "stop all", "exit"} =>
        Cardinality({c \in Conns : c \in conns /\ net[c] = "open"}) <= 1

\* "all client connections drained": when shutdown did not time out, the server
\* exits with no handler, no accept loop and no task of any agent that was ever
\* created still running (shutdown, AgentRouter.Stop, GrpcAgent.Stop).
Drained ==
    main = "exit" /\ ~timedOut =>
        /\ Running = {} /\ accept = "done"
        /\ \A n \in Agents : tasks[n] = {}

\* A shutdown leaves at most one connection open, and nothing running if it was in
\* time; and no channel of an agent ever holds more than its capacity.
ShutdownSound == TypeOK /\ MissedAtMostOne /\ Drained

\* Clean comes to an end, although handlers that found an agent before it was
\* taken out of the map go on sending to it, and signals are served again; after a
\* signal the server exits, whatever clients, handlers and agents do.
MainReturns ==
    /\ (main \in {"collect", "stop"}) ~> (main = "run")
    /\ (main = "flag") ~> (main = "exit")

\* A handler that waits for room in the channel of an agent does not wait for
\* ever, unless the agent is retired meanwhile.
SendEnds ==
    \A c \in Conns :
        (at[c] = "send") ~> (at[c] # "send" \/ agent[c] \in cancelled \/ main = "exit")
=============================================================================
