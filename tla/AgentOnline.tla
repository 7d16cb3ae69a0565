---------------------------- MODULE AgentOnline -----------------------------
(***************************************************************************)
(* The task keepAgentOnline of an agent of the collector-agent             *)
(* (agent/GrpcAgent.go): it registers the agent with the Pinpoint          *)
(* collector, pings it and serves its commands.  For every connection it   *)
(* starts goroutines, waits for all of them, and connects again.           *)
(*                                                                         *)
(* An operation on a gRPC stream can fail at any time.  It has to when the *)
(* stream has nothing left to give but the error of a broken transport     *)
(* (`cut`), or when its context is done, which is derived from the agent's *)
(* context.                                                                *)
(***************************************************************************)

CONSTANT Subscriptions   \* bound: goroutines that stream active thread counts

Goroutines == {"ping", "command"} \cup Subscriptions

VARIABLES
    stopped,     \* agent.ctx is cancelled
    task,        \* where keepAgentOnline is
    pc,          \* where its goroutines are, "none" if they do not run
    cut          \* goroutines whose stream is broken

vars == <<stopped, task, pc, cut>>

Init ==
    /\ stopped = FALSE
    /\ task = "register"
    /\ pc = [g \in Goroutines |-> "none"]
    /\ cut = {}

At(g, place) == pc[g] = place
Task(from, to) == task = from /\ task' = to /\ UNCHANGED <<stopped, pc, cut>>
Moves(g, from, to) == At(g, from) /\ pc' = [pc EXCEPT ![g] = to] /\ UNCHANGED <<stopped, task, cut>>

\* The goroutine returns, and its stream is closed.
Returns(g) == pc' = [pc EXCEPT ![g] = "none"] /\ cut' = cut \ {g} /\ UNCHANGED <<stopped, task>>

\* WaitEventsWithTime in a goroutine that returns when the context is cancelled.
Pause(g, again) ==
    \/ ~stopped /\ Moves(g, "pause", again)
    \/ stopped /\ At(g, "pause") /\ Returns(g)

\* Mutant of MustFail: the stream of a subscription has a context of its own.
MustFailOwnContext(g) == g \in cut \/ (stopped /\ g \notin Subscriptions)

\* A stream that is cut, or whose context is cancelled, fails.
MustFail(g) == g \in cut \/ stopped
-----------------------------------------------------------------------------
(* keepAgentOnline and handleRegisterAgent.                                *)

\* Dialling blocks until there is a connection, and gives up when time is over.
Registered ==
    /\ task = "register" /\ ~stopped
    /\ task' = "wait"
    /\ pc' = [pc EXCEPT !["command"] = "start", !["ping"] = "start"]
    /\ UNCHANGED <<stopped, cut>>

RegisterFails == Task("register", "retry")

\* cmd_wg.Wait(), conn.Close().
RegisterEnds == At("ping", "none") /\ At("command", "none") /\ Task("wait", "retry")

Retry == ~stopped /\ Task("retry", "register")
TaskDone == stopped /\ Task("retry", "done")

KeepAgentOnline == Registered \/ RegisterFails \/ RegisterEnds \/ Retry \/ TaskDone
-----------------------------------------------------------------------------
(* keepPing.                                                               *)

\* RequestAgentInfo and PingSession, the first with a timeout.
PingSession == Moves("ping", "start", "send")

\* Send and Recv.
Ping == ~MustFail("ping") /\ Moves("ping", "send", "pause")

PingFails == pc["ping"] \in {"start", "send"} /\ Returns("ping")

KeepPing == PingSession \/ Ping \/ PingFails \/ Pause("ping", "send")
-----------------------------------------------------------------------------
(* handleCommand.                                                          *)

\* HandleCommand and the handshake.
Handshake == Moves("command", "start", "recv")

\* Commands that are only logged are left out.
Receives == At("command", "recv") /\ ~MustFail("command")

ActiveThreadCount(s) == Receives /\ Moves(s, "none", "send")
ActiveThreadLightDump == Receives /\ Moves("command", "recv", "dump")

\* With an answer or with an error, which is logged.
DumpEnds == Moves("command", "dump", "recv")

CommandFails == Moves("command", "start", "wait") \/ Moves("command", "recv", "wait")

\* cmd_tasks.Wait().
CommandEnds ==
    /\ At("command", "wait")
    /\ \A s \in Subscriptions : At(s, "none")
    /\ Returns("command")

HandleCommand ==
    \/ Handshake \/ ActiveThreadLightDump \/ DumpEnds \/ CommandFails \/ CommandEnds
    \/ \E s \in Subscriptions : ActiveThreadCount(s)

\* collectorActiveThreadCount.
CountSent(s) == ~MustFail(s) /\ Moves(s, "send", "pause")
CountFails(s) == At(s, "send") /\ Returns(s)
CollectorActiveThreadCount(s) == CountSent(s) \/ CountFails(s) \/ Pause(s, "send")
-----------------------------------------------------------------------------
Stop ==
    /\ ~stopped
    /\ stopped' = TRUE
    /\ UNCHANGED <<task, pc, cut>>

\* The transport breaks, and with it all streams that are open on it.
Break ==
    /\ cut' = {g \in Goroutines : pc[g] \notin {"none", "start"}}
    /\ UNCHANGED <<stopped, task, pc>>

Next ==
    \/ KeepAgentOnline \/ KeepPing \/ HandleCommand
    \/ \E s \in Subscriptions : CollectorActiveThreadCount(s)
    \/ Stop \/ Break

Spec == Init /\ [][Next]_vars

\* The goroutines run; dialling and pauses end, and so do operations that fail.  An
\* answer of the collector may be waited for as long as the stream lives.
Fairness ==
    /\ WF_vars(KeepAgentOnline)
    /\ WF_vars(At("ping", "start") /\ KeepPing)
    /\ WF_vars(Pause("ping", "send") \/ (MustFail("ping") /\ PingFails))
    /\ WF_vars(At("command", "start") /\ HandleCommand)
    /\ WF_vars((MustFail("command") /\ (DumpEnds \/ CommandFails)) \/ CommandEnds)
    /\ \A s \in Subscriptions : WF_vars(Pause(s, "send") \/ (MustFail(s) /\ CountFails(s)))
-----------------------------------------------------------------------------
(* Properties.                                                             *)

(* The task or one of its goroutines has not ended.                        *)
Running == task # "done" \/ \E g \in Goroutines : ~At(g, "none")

(* The agent has registered, and some goroutine has a stream that works or *)
(* is about to open one.                                                   *)
Online == task = "wait" /\ \E g \in Goroutines \ cut : pc[g] \notin {"none", "wait"}

(* An agent that has lost all its streams dials again, although            *)
(* handleRegisterAgent waits for all of its goroutines first.              *)
ComesOnline == (task = "wait" /\ ~Online) ~> (task = "register" \/ stopped)
=============================================================================
