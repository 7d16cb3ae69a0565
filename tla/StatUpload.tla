----------------------------- MODULE StatUpload -----------------------------
(***************************************************************************)
(* The task uploadStatInfo of an agent of the collector-agent              *)
(* (agent/GrpcAgent.go).  For every connection, two producers put messages *)
(* into a channel, from which one sender sends them on a gRPC stream; when *)
(* the sender ends, the producers have to.                                 *)
(***************************************************************************)
EXTENDS Naturals

CONSTANT SpanStreamParallelismSize   \* the size of statCh

Producers == {"request", "url"}
Goroutines == Producers \cup {"sender"}

VARIABLES
    stopped,        \* agent.ctx is cancelled
    task,           \* where uploadStatInfo is
    pc,             \* where its goroutines are, "none" if they do not run
    cut,            \* the stream is broken
    sendCancelled,  \* sendCancel has been called
    statCh          \* the number of messages in statCh

vars == <<stopped, task, pc, cut, sendCancelled, statCh>>
stream == <<cut, sendCancelled>>

Init ==
    /\ stopped = FALSE
    /\ task = "connect"
    /\ pc = [g \in Goroutines |-> "none"]
    /\ cut = FALSE /\ sendCancelled = FALSE /\ statCh = 0

At(g, place) == pc[g] = place
Goes(g, place) == pc' = [pc EXCEPT ![g] = place]
Moves(g, from, to) == At(g, from) /\ Goes(g, to) /\ UNCHANGED <<stopped, task, stream, statCh>>
Task(from, to) == task = from /\ task' = to /\ UNCHANGED <<stopped, pc, stream, statCh>>

\* The context of the sender and the producers, a child of the agent's.
SendCtxDone == sendCancelled \/ stopped
-----------------------------------------------------------------------------
(* uploadStatInfo and sendStat.                                            *)

\* Dialling and SendAgentStat.
Connected ==
    /\ task = "connect" /\ ~stopped
    /\ task' = "wait"
    /\ pc' = [g \in Goroutines |-> IF g = "sender" THEN "select" ELSE "collect"]
    /\ cut' = FALSE /\ sendCancelled' = FALSE /\ statCh' = 0
    /\ UNCHANGED stopped

ConnectFails == Task("connect", "retry")

\* wg.Wait().
SendStatEnds == (\A g \in Goroutines : At(g, "none")) /\ Task("wait", "retry")

Retry == ~stopped /\ Task("retry", "connect")
TaskDone == stopped /\ Task("retry", "done")

UploadStatInfo == Connected \/ ConnectFails \/ SendStatEnds \/ Retry \/ TaskDone
-----------------------------------------------------------------------------
(* The goroutine in sendStat.                                              *)

TakeMessage ==
    /\ At("sender", "select") /\ statCh > 0
    /\ Goes("sender", "send") /\ statCh' = statCh - 1
    /\ UNCHANGED <<stopped, task, stream>>

Sent == ~cut /\ ~stopped /\ Moves("sender", "send", "select")

\* Mutant of SenderReturns: the producers are not told.
SenderReturnsSilently == Goes("sender", "none") /\ UNCHANGED <<stopped, task, stream, statCh>>

\* With the deferred sendCancel().
SenderReturns ==
    /\ Goes("sender", "none") /\ sendCancelled' = TRUE
    /\ UNCHANGED <<stopped, task, cut, statCh>>

SendFails == At("sender", "send") /\ SenderReturns
SenderDone == At("sender", "select") /\ SendCtxDone /\ SenderReturns

Sender == TakeMessage \/ Sent \/ SendFails \/ SenderDone
-----------------------------------------------------------------------------
(* handleRequestStat and handleUrlReportStat.                              *)

Collect(p) == Moves(p, "collect", "put")

PutMessage(p) ==
    /\ At(p, "put") /\ statCh < SpanStreamParallelismSize
    /\ Goes(p, "pause") /\ statCh' = statCh + 1
    /\ UNCHANGED <<stopped, task, stream>>

\* The request producer waits no time, and then may not look at the context.
Again(p) == (SendCtxDone => p = "request") /\ Moves(p, "pause", "collect")

ProducerDone(p) == SendCtxDone /\ (Moves(p, "put", "none") \/ Moves(p, "pause", "none"))

HandleStat(p) == Collect(p) \/ PutMessage(p) \/ Again(p) \/ ProducerDone(p)
-----------------------------------------------------------------------------
Stop ==
    /\ ~stopped
    /\ stopped' = TRUE
    /\ UNCHANGED <<task, pc, stream, statCh>>

\* The transport breaks.
Break ==
    /\ task = "wait"
    /\ cut' = TRUE
    /\ UNCHANGED <<stopped, task, pc, sendCancelled, statCh>>

Next ==
    \/ UploadStatInfo \/ Sender
    \/ \E p \in Producers : HandleStat(p)
    \/ Stop \/ Break

Spec == Init /\ [][Next]_vars

\* The goroutines run; dialling, pauses and Send end.
Fairness ==
    /\ WF_vars(UploadStatInfo)
    /\ WF_vars(Sender)
    /\ \A p \in Producers : WF_vars(HandleStat(p))
-----------------------------------------------------------------------------
(* Properties.                                                             *)

(* The task or one of its goroutines has not ended.                        *)
Running == task # "done" \/ \E g \in Goroutines : ~At(g, "none")

(* A producer does not wait for ever at the full channel of a sender that  *)
(* has gone (sendStat: "so producers never block forever on a full         *)
(* channel"), and a stream that is broken is given up and dialled again.   *)
StatFlows ==
    /\ \A p \in Producers : (At(p, "put") /\ At("sender", "none")) ~> ~At(p, "put")
    /\ cut ~> (task = "connect" \/ stopped)
=============================================================================
