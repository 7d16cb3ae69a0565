-------------------------- MODULE MCProcessThreads --------------------------
(***************************************************************************)
(* The state that the threads of a process share: the trace limit and the  *)
(* connection pool (TracedThreads), and the start time and counter of      *)
(* transaction ids (TransactionId).  No code reads both, so a behaviour    *)
(* follows one of them; the transaction ids need two processes.            *)
(***************************************************************************)
EXTENDS TracedThreads, TLC

CONSTANTS t1, t2, t3,                 \* threads that trace
          u1, u2, u3, p1, p2, MaxIds  \* threads that make ids, their processes

VARIABLES
    part,                                                   \* what this behaviour follows
    ms, lastTime, gen, raced, hello, starttime, ready, uuid, at, read, issued

\* Where ids are followed, the third thread belongs to another process.
IdThreads == {u1, u2, u3}
IdProcs == {p1, p2}
IdOwner == [u \in IdThreads |-> IF u = u3 THEN p2 ELSE p1]
IdBound == [p \in IdProcs |-> IF p = p2 THEN 1 ELSE MaxIds]

ASSUME BoundsAssumption == MaxClock \in Nat \ {0} /\ MaxIds \in Nat

Ids == INSTANCE TransactionId
    WITH Threads <- IdThreads, Procs <- IdProcs, Owner <- IdOwner, MaxIds <- IdBound,
         clock <- ms, now <- hello, pc <- at

idVars == <<ms, lastTime, gen, raced, hello, starttime, ready, uuid, at, read, issued>>
mcVars == <<part, vars, idVars>>

MCInit ==
    /\ part \in {"threads", "ids"}
    /\ Init
    /\ part = "ids" => limit = -1
    /\ Ids!Init

MCNext ==
    \/ part = "threads" /\ Next /\ UNCHANGED <<part, idVars>>
    \/ part = "ids" /\ Ids!Next /\ UNCHANGED <<part, vars>>

MCSpec == MCInit /\ [][MCNext]_mcVars

AllLimits == {-1, 0, 1}
Symmetry == Permutations({t1, t2, t3}) \cup Permutations({u1, u2})
-----------------------------------------------------------------------------
(* Properties.                                                             *)

\* "force sleep 1ms,avoiding conflict": without a race in genHello all the start
\* times given out differ, and so do all the transaction ids made from them; with
\* one, still those of one process (genHello, HandleHelloMsg, gen_tid).
IdsUnique == Ids!IdsUnique
=============================================================================
