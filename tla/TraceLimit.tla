----------------------------- MODULE TraceLimit -----------------------------
(***************************************************************************)
(* ProcessState::CheckTraceLimit of common/src/Cache/State.cpp: at most    *)
(* trace_limit traces are sampled in a second.  timestamp_ is a plain      *)
(* field and tick_ an atomic; a call reads and writes them one by one,     *)
(* without a lock, so that calls of several threads interleave.            *)
(***************************************************************************)
EXTENDS Integers, FiniteSets

CONSTANTS
    Threads,
    Limits,        \* values of trace_limit: -1 for no limit, 0 for no trace
    MaxClock       \* bound: seconds

VARIABLES
    limit,      \* trace_limit_, a const field
    clock,      \* std::time
    timestamp,  \* timestamp_
    tick,       \* tick_
    pc,
    now,        \* now[t]: the second in which t's call read the clock
    verdict     \* what t's last call returned

vars == <<limit, clock, timestamp, tick, pc, now, verdict>>

Init ==
    /\ limit \in Limits
    /\ clock = 1 /\ timestamp = 0 /\ tick = 0
    /\ pc = [t \in Threads |-> "idle"]
    /\ now = [t \in Threads |-> 0]
    /\ verdict = [t \in Threads |-> "limited"]

Tick ==
    /\ clock < MaxClock
    /\ clock' = clock + 1
    /\ UNCHANGED <<limit, timestamp, tick, pc, now, verdict>>

\* The call returns: false for a trace that is sampled, true for one that is not.
Return(t, v) ==
    /\ pc' = [pc EXCEPT ![t] = "idle"]
    /\ verdict' = [verdict EXCEPT ![t] = v]

Goto(t, l) ==
    /\ pc' = [pc EXCEPT ![t] = l]
    /\ UNCHANGED verdict

\* The limits -1 and 0 decide at once; else the clock is read.
Begin(t) ==
    /\ pc[t] = "idle"
    /\ now' = [now EXCEPT ![t] = clock]
    /\ \/ limit = -1 /\ Return(t, "sampled")
       \/ limit = 0 /\ Return(t, "limited")
       \/ limit > 0 /\ Goto(t, "compare")
    /\ UNCHANGED <<limit, clock, timestamp, tick>>

\* timestamp_ is read.
Compare(t) ==
    /\ pc[t] = "compare"
    /\ Goto(t, IF timestamp # now[t] THEN "stamp" ELSE "test")
    /\ UNCHANGED <<limit, clock, timestamp, tick, now>>

\* A new second: timestamp_, then tick_.
Stamp(t) ==
    /\ pc[t] = "stamp"
    /\ timestamp' = now[t]
    /\ Goto(t, "zero")
    /\ UNCHANGED <<limit, clock, tick, now>>

Zero(t) ==
    /\ pc[t] = "zero"
    /\ tick' = 0
    /\ Goto(t, "count")
    /\ UNCHANGED <<limit, clock, timestamp, now>>

\* Mutant of Test: one too many.
TestLate(t) ==
    /\ pc[t] = "test"
    /\ \/ tick > limit /\ Return(t, "limited")
       \/ tick <= limit /\ Goto(t, "count")
    /\ UNCHANGED <<limit, clock, timestamp, tick, now>>

\* The same second: tick_ is tested.
Test(t) ==
    /\ pc[t] = "test"
    /\ \/ tick >= limit /\ Return(t, "limited")
       \/ tick < limit /\ Goto(t, "count")
    /\ UNCHANGED <<limit, clock, timestamp, tick, now>>

\* tick_++
Count(t) ==
    /\ pc[t] = "count"
    /\ tick' = tick + 1
    /\ Return(t, "sampled")
    /\ UNCHANGED <<limit, clock, timestamp, now>>

Step(t) == Begin(t) \/ Compare(t) \/ Stamp(t) \/ Zero(t) \/ Test(t) \/ Count(t)

Next == Tick \/ \E t \in Threads : Step(t)

Spec == Init /\ [][Next]_vars
-----------------------------------------------------------------------------
(* Properties.                                                             *)

TypeOK ==
    /\ limit \in Limits
    /\ clock \in Nat /\ timestamp \in Nat /\ tick \in Nat
    /\ pc \in [Threads -> {"idle", "compare", "stamp", "zero", "test", "count"}]
    /\ now \in [Threads -> Nat]
    /\ verdict \in [Threads -> {"sampled", "limited"}]

\* Threads that saw tick_ below the limit may all count: tick_ passes the limit,
\* but by fewer than the number of threads.  With one thread it never does, and
\* a second has no more sampled traces than the limit.
TickBounded == limit > 0 => tick < limit + Cardinality(Threads)
=============================================================================
