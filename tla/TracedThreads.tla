--------------------------- MODULE TracedThreads ---------------------------
(***************************************************************************)
(* Threads of one process that trace their requests: a request is admitted *)
(* by CheckTraceLimit (TraceLimit), as the request plugins do at its       *)
(* start, and a sampled one sends its span through a connection of the     *)
(* pool (SpanConnectionPool) at its end.  A request that is not sampled    *)
(* has a blocked trace, which EndTrace does not send.                      *)
(***************************************************************************)
EXTENDS Integers, Sequences, FiniteSets

CONSTANTS Threads, Limits, MaxClock, Conns, NoConn, First, Throws

ASSUME ThreadsAssumption == IsFiniteSet(Threads) /\ Threads # {}
ASSUME LimitAssumption == Limits \subseteq Nat \cup {-1}
ASSUME ConnsAssumption == First \in Conns /\ NoConn \notin Conns
ASSUME NamesAssumption == IsFiniteSet(Conns) /\ Cardinality(Conns) >= Cardinality(Threads)
ASSUME ThrowsAssumption == Throws \in BOOLEAN

VARIABLES
    limit, clock, timestamp, tick, pc, now, verdict,  \* of TraceLimit
    pool, held, waiting,                              \* of SpanConnectionPool
    serving                                           \* the threads with a sampled request

L == INSTANCE TraceLimit
C == INSTANCE SpanConnectionPool

limitVars == <<limit, clock, timestamp, tick, pc, now, verdict>>
poolVars == <<pool, held, waiting>>
vars == <<limitVars, poolVars, serving>>

Init ==
    /\ L!Init
    /\ C!Init
    /\ serving = {}

Clock == L!Tick /\ UNCHANGED <<poolVars, serving>>

\* The start of a request.
CheckTraceLimit(t) ==
    /\ t \notin serving
    /\ L!Step(t)
    /\ serving' = IF pc'[t] = "idle" /\ verdict'[t] = "sampled"
                  THEN serving \cup {t} ELSE serving
    /\ UNCHANGED poolVars

\* The end of a sampled request.
Get(t) ==
    /\ t \in serving
    /\ C!Get(t)
    /\ UNCHANGED <<limitVars, serving>>

TrySendSpan(t) ==
    /\ t \in serving
    /\ C!Send(t)
    /\ serving' = serving \ {t}
    /\ UNCHANGED limitVars

Next ==
    \/ Clock
    \/ \E t \in Threads : CheckTraceLimit(t) \/ Get(t) \/ TrySendSpan(t)

Spec == Init /\ [][Next]_vars
-----------------------------------------------------------------------------
(* Properties.                                                             *)

ServingType == serving \subseteq Threads

\* However the threads interleave in CheckTraceLimit, the tick of a second
\* passes the limit by fewer than the number of threads.
TickBounded == L!TypeOK /\ ServingType /\ L!TickBounded

\* A connection is in the pool once, or with one thread: two threads never write
\* to the same send buffer; there are never more connections than threads, although
\* some are lost and made again; and none with spans in its send buffer is left
\* behind (SpanConnectionPool::get and free, TrySendSpan).
ConnectionsSound == C!TypeOK /\ C!OneOwner /\ C!NotMoreThanThreads /\ C!WaitingIsLive
=============================================================================
