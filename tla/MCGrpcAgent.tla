----------------------------- MODULE MCGrpcAgent ----------------------------
(***************************************************************************)
(* Three parts of an agent of the collector-agent, which share nothing but *)
(* its context, one at a time: `part` says which.                          *)
(***************************************************************************)
EXTENDS Integers, FiniteSets

CONSTANTS ApiKeys, SqlKeys, Streams, AgentChannelSize, MaxFaults,
          Subscriptions, SpanStreamParallelismSize

ASSUME KeysAssumption == ApiKeys \cap SqlKeys = {} /\ SqlKeys \cap Nat = {}
ASSUME StreamsAssumption == IsFiniteSet(Streams) /\ Streams # {}
ASSUME BoundsAssumption ==
    /\ AgentChannelSize \in Nat \ {0} /\ MaxFaults \in Nat
    /\ SpanStreamParallelismSize \in Nat \ {0}

VARIABLES
    part,
    unique_id_count, idMap, pendingMeta, pc, todo, key, buffer, resp, stream,
    known, faults, missed,
    stopped, task, taskPc, cut, statTask, statPc, statCut, sendCancelled, statCh

spanVars == <<unique_id_count, idMap, pendingMeta, pc, todo, key, buffer, resp, stream,
              known, faults, missed>>
onlineVars == <<task, taskPc, cut>>
statVars == <<statTask, statPc, statCut, sendCancelled, statCh>>
vars == <<part, stopped, spanVars, onlineVars, statVars>>

Spans == INSTANCE SpanSender
Online == INSTANCE AgentOnline WITH pc <- taskPc
Stat == INSTANCE StatUpload WITH task <- statTask, pc <- statPc, cut <- statCut

\* A part that does not run has no step.
SpansRest ==
    /\ unique_id_count = 1 /\ idMap = [k \in Spans!Keys |-> Spans!NoId] /\ pendingMeta = {}
    /\ pc = "rest" /\ todo = {} /\ key = Spans!AnyKey /\ buffer = 0 /\ resp = 0
    /\ stream = [s \in Streams |-> "down"] /\ known = {} /\ faults = MaxFaults /\ missed = FALSE
OnlineRests == task = "rest" /\ taskPc = [g \in Online!Goroutines |-> "none"] /\ cut = {}
StatRests ==
    /\ statTask = "rest" /\ statPc = [g \in Stat!Goroutines |-> "none"]
    /\ statCut = FALSE /\ sendCancelled = FALSE /\ statCh = 0

Init ==
    \/ part = "spans" /\ Spans!Init /\ stopped = FALSE /\ OnlineRests /\ StatRests
    \/ part = "online" /\ SpansRest /\ Online!Init /\ StatRests
    \/ part = "stat" /\ SpansRest /\ OnlineRests /\ Stat!Init

Next ==
    \/ part = "spans" /\ Spans!Next /\ UNCHANGED <<part, stopped, onlineVars, statVars>>
    \/ part = "online" /\ Online!Next /\ UNCHANGED <<part, spanVars, statVars>>
    \/ part = "stat" /\ Stat!Next /\ UNCHANGED <<part, spanVars, onlineVars>>

MCSpec == Init /\ [][Next]_vars /\ Spans!Fairness /\ Online!Fairness /\ Stat!Fairness
-----------------------------------------------------------------------------
(* Properties.                                                             *)

\* As long as the sender uses ids that the collector does not know, a sign of the
\* restart is on its way (SpanSender: Interceptor, sendSpan).
StaleIsNoticed == part = "spans" => Spans!StaleIsNoticed

\* And in the end it does not use them any more (cleanAllMetaData).
StaleEnds == Spans!StaleEnds

\* What Stop waits for: the tasks and all their goroutines run until the agent is
\* stopped, and end then, whatever they were waiting for (tasksGroup.Wait).
\* AgentRouter takes this for granted.
Background ==
    INSTANCE BackgroundTask WITH
        cancelled <- stopped,
        running <- CASE part = "online" -> Online!Running
                     [] part = "stat" -> Stat!Running
                     [] OTHER -> TRUE
IsBackgroundTask == Background!Spec

\* An agent that has lost its streams dials again (handleRegisterAgent), and
\* its statistics neither stop at a full channel nor at a broken stream (sendStat).
TasksRecover ==
    /\ Online!ComesOnline
    /\ Stat!StatFlows
=============================================================================
