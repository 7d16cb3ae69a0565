------------------------- MODULE SpanConnectionPool -------------------------
(***************************************************************************)
(* The pool of connections, common/src/ConnectionPool/                     *)
(* SpanConnectionPool.h, and its one user, Agent::TrySendSpan of           *)
(* common.cpp.  get and free take the pool's mutex; between them the       *)
(* connection belongs to the thread, and its send buffer keeps the spans   *)
(* that the network did not take (module TransLayer is what happens then). *)
(* The pool is a std::stack.                                               *)
(***************************************************************************)
EXTENDS Integers, Sequences, FiniteSets

CONSTANTS
    Threads,
    Conns,       \* names for connections
    NoConn,      \* a thread that has none
    First,       \* the connection made by the constructor
    Throws       \* a message handler may throw out of the poll

VARIABLES
    pool,      \* _pool, top last
    held,      \* held[t]: the TransLayerPtr of t's TrySendSpan
    waiting    \* the connections with spans in their send buffer

vars == <<pool, held, waiting>>

Init ==
    /\ pool = <<First>>
    /\ held = [t \in Threads |-> NoConn]
    /\ waiting = {}

Live == {pool[i] : i \in DOMAIN pool} \cup ({held[t] : t \in Threads} \ {NoConn})

\* createConnection: a connection under a name that no live one has.
CreateConnection(t) == held' = [held EXCEPT ![t] = CHOOSE c \in Conns \ Live : TRUE]

Get(t) ==
    /\ held[t] = NoConn
    /\ \/ pool = <<>> /\ CreateConnection(t) /\ UNCHANGED pool
       \/ /\ pool # <<>>
          /\ held' = [held EXCEPT ![t] = pool[Len(pool)]]
          /\ pool' = SubSeq(pool, 1, Len(pool) - 1)
    /\ UNCHANGED waiting

\* Mutant of Free: a pointer that was moved from is pushed.
FreeUnheld(t) ==
    /\ pool' = Append(pool, held[t])
    /\ held' = [held EXCEPT ![t] = NoConn]

\* The connection goes back on top of the stack.
Free(t) ==
    /\ held[t] # NoConn
    /\ pool' = Append(pool, held[t])
    /\ held' = [held EXCEPT ![t] = NoConn]

\* The span and those that waited are sent (or given up with the connection).
SendAll(t) ==
    /\ Free(t)
    /\ waiting' = waiting \ {held[t]}

\* The network is not ready: the span waits in the connection.
SendLater(t) ==
    /\ Free(t)
    /\ waiting' = waiting \cup {held[t]}

\* An exception: ~TransLayer closes the connection, which is not given back.
SendThrows(t) ==
    /\ Throws
    /\ held[t] # NoConn
    /\ held' = [held EXCEPT ![t] = NoConn]
    /\ waiting' = waiting \ {held[t]}
    /\ UNCHANGED pool

Send(t) == SendAll(t) \/ SendLater(t) \/ SendThrows(t)

Next == \E t \in Threads : Get(t) \/ Send(t)

Spec == Init /\ [][Next]_vars
-----------------------------------------------------------------------------
(* Properties.                                                             *)

TypeOK ==
    /\ pool \in Seq(Conns)
    /\ held \in [Threads -> Conns \cup {NoConn}]
    /\ waiting \subseteq Conns

\* A connection is in the pool once, or with one thread: two threads never write
\* to the same send buffer, and no connection is closed under a thread.
OneOwner ==
    /\ \A i, j \in 1 .. Len(pool) : pool[i] = pool[j] => i = j
    /\ \A t \in Threads, i \in 1 .. Len(pool) : held[t] # pool[i]
    /\ \A t, u \in Threads : held[t] = held[u] /\ held[t] # NoConn => t = u

\* Connections are made on demand only: there are never more than threads that
\* were sending at the same time (at least the one of the constructor).
NotMoreThanThreads ==
    Len(pool) + Cardinality({t \in Threads : held[t] # NoConn}) <= Cardinality(Threads)

\* Who has to send a waiting span: a connection with spans in its buffer is never
\* lost, it is in the pool or with a thread.
WaitingIsLive == waiting \subseteq Live
=============================================================================
