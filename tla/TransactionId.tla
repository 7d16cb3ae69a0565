--------------------------- MODULE TransactionId ---------------------------
(***************************************************************************)
(* Where transaction ids come from.  A transaction id is made of a start   *)
(* time and a counter of the traced process (gen_tid of                    *)
(* plugins/PY/pinpointPy/pinpoint.py; common/src/Cache/State.{h,cpp}).     *)
(* The start time is given to the process by the collector-agent in the    *)
(* hello message of a connection (genHello of                              *)
(* collector-agent/server/Server.go; HandleHelloMsg of common.cpp), so     *)
(* that the processes of a host get different ones.                        *)
(*                                                                         *)
(* Every thread has a connection of its own, and the collector-agent a     *)
(* goroutine for it.  Threads of one process share its ProcessState.       *)
(***************************************************************************)
EXTENDS Integers, Sequences

CONSTANTS
    Threads, Procs,
    Owner,       \* the process of a thread
    MaxClock,    \* bound: milliseconds
    MaxIds       \* bound: MaxIds[p] ids of process p

VARIABLES
    clock,      \* UnixMilli of the host
    lastTime,   \* Server.lastTime
    gen,        \* gen[t]: where the goroutine of t's connection is in genHello
    raced,      \* ghost: lastTime was stored while another goroutine had read the clock
    now,        \* now[t]: its now_in_ms, and then the StartTime of the hello
    starttime,  \* starttime_ of a process
    ready,      \* ready_
    uuid,       \* uuid_
    pc,         \* what thread t does next
    read,       \* read[t]: the start time t has read
    issued      \* issued[p]: the transaction ids of process p, in order

vars == <<clock, lastTime, gen, raced, now, starttime, ready, uuid, pc, read, issued>>
server == <<lastTime, gen, raced, now>>
state == <<starttime, ready, uuid>>

\* A start time: that of a hello message, or the time at which the process began.
Times == [ms : Nat, hello : BOOLEAN]
NoTime == [ms |-> 0, hello |-> FALSE]

Init ==
    /\ clock = 1 /\ lastTime = 0 /\ raced = FALSE
    /\ gen = [t \in Threads |-> "none"]
    /\ now = [t \in Threads |-> NoTime]
    /\ starttime = [p \in Procs |-> [ms |-> clock, hello |-> FALSE]] /\ ready = [p \in Procs |-> FALSE]
    /\ uuid = [p \in Procs |-> 0]
    /\ pc = [t \in Threads |-> "idle"]
    /\ read = [t \in Threads |-> NoTime]
    /\ issued = [p \in Procs |-> <<>>]

Tick ==
    /\ clock < MaxClock
    /\ clock' = clock + 1
    /\ UNCHANGED <<server, state, pc, read, issued>>
-----------------------------------------------------------------------------
(* genHello, in the goroutine of t's connection.                           *)

\* t connects, for the first time or again, and handleClient begins; or genHello
\* tries again.  The clock is read.
GenTime(t) ==
    /\ \/ pc[t] = "idle" /\ gen[t] \in {"none", "sent"}
       \/ gen[t] = "again"
    /\ now' = [now EXCEPT ![t] = [ms |-> clock, hello |-> TRUE]]
    /\ gen' = [gen EXCEPT ![t] = "load"]
    /\ UNCHANGED <<clock, lastTime, raced, state, pc, read, issued>>

\* Mutant of GenLoad: the last time is not looked at.
GenLoadIgnored(t) ==
    /\ gen[t] = "load"
    /\ gen' = [gen EXCEPT ![t] = "store"]
    /\ UNCHANGED <<clock, lastTime, raced, now, state, pc, read, issued>>

\* The same millisecond as the last hello: again, after a sleep.
GenLoad(t) ==
    /\ gen[t] = "load"
    /\ gen' = [gen EXCEPT ![t] = IF now[t].ms = lastTime THEN "again" ELSE "store"]
    /\ UNCHANGED <<clock, lastTime, raced, now, state, pc, read, issued>>

GenStore(t) ==
    /\ gen[t] = "store"
    /\ lastTime' = now[t].ms
    /\ gen' = [gen EXCEPT ![t] = "sent"]
    /\ raced' = (raced \/ \E u \in Threads \ {t} : gen[u] \in {"load", "store"})
    /\ UNCHANGED <<clock, now, state, pc, read, issued>>
-----------------------------------------------------------------------------
(* HandleHelloMsg and SetStartTime, in thread t.                           *)

NotReady(p) == ~ready[p]

\* The hello message arrives; a process that is ready ignores it.
HandleHelloMsg(t) ==
    /\ pc[t] = "idle"
    /\ gen[t] = "sent"
    /\ NotReady(Owner[t])
    /\ pc' = [pc EXCEPT ![t] = "set"]
    /\ UNCHANGED <<clock, server, state, read, issued>>

\* SetStartTime looks again, and writes the time.
SetStartTime(t) ==
    /\ pc[t] = "set"
    /\ \/ /\ NotReady(Owner[t])
          /\ starttime' = [starttime EXCEPT ![Owner[t]] = now[t]]
          /\ pc' = [pc EXCEPT ![t] = "mark"]
       \/ /\ ~NotReady(Owner[t])
          /\ pc' = [pc EXCEPT ![t] = "idle"]
          /\ UNCHANGED starttime
    /\ UNCHANGED <<clock, server, ready, uuid, read, issued>>

SetReady(t) ==
    /\ pc[t] = "mark"
    /\ ready' = [ready EXCEPT ![Owner[t]] = TRUE]
    /\ pc' = [pc EXCEPT ![t] = "idle"]
    /\ UNCHANGED <<clock, server, starttime, uuid, read, issued>>
-----------------------------------------------------------------------------
(* gen_tid: the start time, then the counter.                              *)

GetStartTime(t) ==
    /\ pc[t] = "idle"
    /\ read' = [read EXCEPT ![t] = starttime[Owner[t]]]
    /\ pc' = [pc EXCEPT ![t] = "id"]
    /\ UNCHANGED <<clock, server, state, issued>>

Issue(t) ==
    /\ pc[t] = "id"
    /\ Len(issued[Owner[t]]) < MaxIds[Owner[t]]
    /\ issued' = [issued EXCEPT ![Owner[t]] = Append(@, [id |-> uuid[Owner[t]], time |-> read[t]])]
    /\ pc' = [pc EXCEPT ![t] = "idle"] /\ read' = [read EXCEPT ![t] = NoTime]
    /\ UNCHANGED <<clock, server, starttime, ready>>

\* Mutant of GetUniqueId: the counter stands still.
GetUniqueIdSame(t) == Issue(t) /\ UNCHANGED uuid

\* uuid_++ is atomic.
GetUniqueId(t) == Issue(t) /\ uuid' = [uuid EXCEPT ![Owner[t]] = @ + 1]
-----------------------------------------------------------------------------
Step(t) ==
    \/ GenTime(t) \/ GenLoad(t) \/ GenStore(t)
    \/ HandleHelloMsg(t) \/ SetStartTime(t) \/ SetReady(t)
    \/ GetStartTime(t) \/ GetUniqueId(t)

Next == Tick \/ \E t \in Threads : Step(t)

Spec == Init /\ [][Next]_vars
-----------------------------------------------------------------------------
(* Properties.                                                             *)

TypeOK ==
    /\ clock \in Nat /\ lastTime \in Nat /\ raced \in BOOLEAN
    /\ gen \in [Threads -> {"none", "again", "load", "store", "sent"}]
    /\ now \in [Threads -> Times]
    /\ starttime \in [Procs -> Times] /\ ready \in [Procs -> BOOLEAN]
    /\ uuid \in [Procs -> Nat]
    /\ pc \in [Threads -> {"idle", "set", "mark", "id"}]
    /\ read \in [Threads -> Times]
    /\ issued \in [Procs -> Seq([id : Nat, time : Times])]

\* "force sleep 1ms,avoiding conflict": no two hello messages carry the same start
\* time, unless a goroutine of genHello has stored its time while another one was
\* between reading the clock and storing (then two may be equal, even of hello
\* messages that are made one after the other: a late store sets lastTime back).
HelloTimesDistinct ==
    \A t, u \in Threads :
        gen[t] = "sent" /\ gen[u] = "sent" /\ now[t] = now[u] => t = u \/ raced

\* Once the collector-agent has answered, the transaction ids of all the threads
\* and processes of the host are different, although the start time of a process
\* may be replaced while its threads make ids; after a race in genHello, still
\* those of one process are.
TransactionIdsUnique ==
    \A p, q \in Procs : \A i \in DOMAIN issued[p], j \in DOMAIN issued[q] :
        issued[p][i].time.hello /\ issued[p][i] = issued[q][j]
        => (p = q /\ i = j) \/ (raced /\ p # q)

\* "force sleep 1ms,avoiding conflict": without a race in genHello all the start
\* times given out differ, and so do all the transaction ids made from them; with
\* one, still those of one process (genHello, HandleHelloMsg, gen_tid).
IdsUnique == TypeOK /\ HelloTimesDistinct /\ TransactionIdsUnique
=============================================================================
