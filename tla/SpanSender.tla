----------------------------- MODULE SpanSender -----------------------------
(***************************************************************************)
(* How an agent of the collector-agent sends spans, agent/SpanSender.go.   *)
(* Names (of apis, strings, statements) are not in a span: they get an id, *)
(* and the Pinpoint collector is told name and id before the span is sent. *)
(*                                                                         *)
(* The consumer goroutine of the agent runs Interceptor for each span; a   *)
(* number of sendTask goroutines take messages out of a channel and send   *)
(* them on a gRPC stream each.  The collector may be restarted, and then   *)
(* knows no names; a stream that fails is the sender's only sign of that,  *)
(* and makes it forget all ids (cleanAllMetaData).                         *)
(***************************************************************************)
EXTENDS Integers, FiniteSets

CONSTANTS
    ApiKeys,           \* keys whose id is a number (getMetaApiId)
    SqlKeys,           \* keys whose id is a hash of the name (getSqlUidMetaApiId)
    Streams,           \* the sendTask goroutines, SpanStreamParallelismSize of them
    AgentChannelSize,  \* of spanMessageBufferCh
    MaxFaults          \* bound: restarts of the collector and failures of streams

Keys == ApiKeys \cup SqlKeys

\* Ids: the numbers of unique_id_count, and hashes, for which the key itself stands;
\* NoId for a key that is not in the map.
NoId == 0
Hash(k) == k
Ids == Nat \cup SqlKeys

VARIABLES
    unique_id_count,
    idMap, pendingMeta,
    pc, todo, key,  \* Interceptor: where it is, keys of the span to resolve, one of them
    buffer,         \* the number of messages in spanMessageBufferCh
    resp,           \* the number of messages in sendStreamRespCh
    stream,         \* stream[s]: "down", "up", "broken" and not yet noticed
    known,          \* what the collector knows: <<key, id>>
    faults,
    missed          \* ghost: a restart that no stream was there to see

meta == <<unique_id_count, idMap, pendingMeta>>
call == <<pc, todo, key>>
channels == <<buffer, resp>>
collector == <<known, faults, missed>>
vars == <<meta, call, channels, stream, collector>>

\* The value of a variable that is not in use.
AnyKey == CHOOSE k \in Keys : TRUE

Init ==
    /\ unique_id_count = 1
    /\ idMap = [k \in Keys |-> NoId] /\ pendingMeta = {}
    /\ pc = "idle" /\ todo = {} /\ key = AnyKey
    /\ buffer = 0 /\ resp = 0
    /\ stream = [s \in Streams |-> "down"]
    /\ known = {} /\ faults = 0 /\ missed = FALSE
-----------------------------------------------------------------------------
(* Interceptor: makeSpanOrSpanChunk resolves the keys of the span.         *)

Interceptor(S) ==
    /\ pc = "idle"
    /\ pc' = "resolve" /\ todo' = S
    /\ UNCHANGED <<key, meta, channels, stream, collector>>

\* The id is there and confirmed.
Cached(k) == idMap[k] # NoId /\ k \notin pendingMeta

UseCached(k) ==
    /\ pc = "resolve" /\ k \in todo
    /\ Cached(k)
    /\ todo' = todo \ {k}
    /\ UNCHANGED <<pc, key, meta, channels, stream, collector>>

\* A new number (atomic.AddInt32), or the hash of the name.
NewId(k) ==
    \/ /\ k \in ApiKeys
       /\ unique_id_count' = unique_id_count + 1
       /\ idMap' = [idMap EXCEPT ![k] = unique_id_count']
    \/ /\ k \in SqlKeys
       /\ idMap' = [idMap EXCEPT ![k] = Hash(k)]
       /\ UNCHANGED unique_id_count

\* A key without an id gets one; one that is pending is tried again.
GetMetaApiId(k) ==
    /\ pc = "resolve" /\ k \in todo
    /\ ~Cached(k)
    /\ \/ idMap[k] = NoId /\ NewId(k) /\ pendingMeta' = pendingMeta \cup {k}
       \/ idMap[k] # NoId /\ UNCHANGED meta
    /\ pc' = "register" /\ key' = k
    /\ UNCHANGED <<todo, channels, stream, collector>>
-----------------------------------------------------------------------------
(* SenderGrpcMetaData.                                                     *)

Resolved ==
    /\ pc' = "resolve" /\ todo' = todo \ {key} /\ key' = AnyKey

\* The request reaches the collector.
Register ==
    /\ pc = "register"
    /\ known' = known \cup {<<key, idMap[key]>>}
    /\ pc' = "reply"
    /\ UNCHANGED <<todo, key, meta, channels, stream, faults, missed>>

\* Mutant of RegisterFails: the key is confirmed all the same.
RegisterFailsConfirmed ==
    /\ pc \in {"register", "reply"}
    /\ Resolved
    /\ pendingMeta' = pendingMeta \ {key}
    /\ UNCHANGED <<unique_id_count, idMap, channels, stream, collector>>

\* There is no connection, or no answer in time: the key stays pending, and the id
\* is used.
RegisterFails ==
    /\ pc \in {"register", "reply"}
    /\ Resolved
    /\ UNCHANGED <<meta, channels, stream, collector>>

MarkConfirmed ==
    /\ pc = "reply"
    /\ Resolved
    /\ pendingMeta' = pendingMeta \ {key}
    /\ UNCHANGED <<unique_id_count, idMap, channels, stream, collector>>
-----------------------------------------------------------------------------
(* The select at the end of Interceptor, which never waits.                *)

Offering == pc = "resolve" /\ todo = {}
Done == pc' = "idle" /\ UNCHANGED <<todo, key>>

Buffered ==
    /\ Offering
    /\ buffer < AgentChannelSize
    /\ buffer' = buffer + 1
    /\ Done
    /\ UNCHANGED <<meta, resp, stream, collector>>

\* Mutant of CleanAllMetaData: confirmed keys are kept.
CleanPending ==
    /\ idMap' = [k \in Keys |-> IF k \in pendingMeta THEN NoId ELSE idMap[k]]
    /\ pendingMeta' = {}

CleanAllMetaData ==
    /\ idMap' = [k \in Keys |-> NoId]
    /\ pendingMeta' = {}

\* A stream has failed: the ids are forgotten, and this span with them.
Answered ==
    /\ Offering
    /\ resp > 0
    /\ resp' = resp - 1
    /\ CleanAllMetaData
    /\ Done
    /\ UNCHANGED <<unique_id_count, buffer, stream, collector>>

Dropped ==
    /\ Offering
    /\ buffer = AgentChannelSize /\ resp = 0
    /\ Done
    /\ UNCHANGED <<meta, channels, stream, collector>>
-----------------------------------------------------------------------------
(* sendTask s, which calls sendSpan again and again.                       *)

Connect(s) ==
    /\ stream[s] = "down"
    /\ stream' = [stream EXCEPT ![s] = "up"]
    /\ UNCHANGED <<meta, call, channels, collector>>

\* stream.Send; a stream that is broken may take some messages before it fails.
Send(s) ==
    /\ stream[s] \in {"up", "broken"}
    /\ buffer > 0
    /\ buffer' = buffer - 1
    /\ UNCHANGED <<meta, call, resp, stream, collector>>

\* Mutant of Room: as if the channel were never full.
RoomAlways == TRUE

Room == resp < Cardinality(Streams)

\* The message is lost, and a 500 is left in sendStreamRespCh if it has room.
SendFails(s) ==
    /\ stream[s] = "broken"
    /\ buffer > 0
    /\ buffer' = buffer - 1
    /\ resp' = IF Room THEN resp + 1 ELSE resp
    /\ stream' = [stream EXCEPT ![s] = "down"]
    /\ UNCHANGED <<meta, call, collector>>
-----------------------------------------------------------------------------
(* The collector and the network.                                          *)

\* One stream fails.
Break(s) ==
    /\ faults < MaxFaults
    /\ faults' = faults + 1
    /\ stream[s] = "up"
    /\ stream' = [stream EXCEPT ![s] = "broken"]
    /\ UNCHANGED <<meta, call, channels, known, missed>>

\* All streams break.  A restart is missed when there is no stream, and no 500 of
\* an earlier one still to be read.
Restart ==
    /\ faults < MaxFaults
    /\ faults' = faults + 1
    /\ known' = {}
    /\ missed' = (missed \/ (resp = 0 /\ \A s \in Streams : stream[s] = "down"))
    /\ stream' = [s \in Streams |-> IF stream[s] = "up" THEN "broken" ELSE stream[s]]
    /\ UNCHANGED <<meta, call, channels>>
-----------------------------------------------------------------------------
Resolve(k) == UseCached(k) \/ GetMetaApiId(k)
SenderGrpcMetaData == Register \/ RegisterFails \/ MarkConfirmed
Offer == Buffered \/ Answered \/ Dropped

Next ==
    \/ \E S \in SUBSET Keys : Interceptor(S)
    \/ \E k \in Keys : Resolve(k)
    \/ SenderGrpcMetaData
    \/ Offer
    \/ \E s \in Streams : Connect(s) \/ Send(s) \/ SendFails(s) \/ Break(s)
    \/ Restart

Spec == Init /\ [][Next]_vars

\* Spans go on coming, and the goroutines run.  The runtime's select chooses at
\* random among the cases that are ready, so that it does not pass over the 500s
\* for ever; a broken stream gets a message some time (receivers of a channel
\* queue up) and gRPC notices that it is broken.
Fairness ==
    /\ WF_vars(\E S \in SUBSET Keys : Interceptor(S))
    /\ WF_vars(\E k \in Keys : Resolve(k))
    /\ WF_vars(SenderGrpcMetaData)
    /\ WF_vars(Offer)
    /\ SF_vars(Buffered)
    /\ SF_vars(Answered)
    /\ \A s \in Streams : SF_vars(SendFails(s))

FairSpec == Spec /\ Fairness
-----------------------------------------------------------------------------
(* Properties.                                                             *)

TypeOK ==
    /\ unique_id_count \in Nat
    /\ idMap \in [Keys -> Ids] /\ pendingMeta \subseteq Keys
    /\ pc \in {"idle", "resolve", "register", "reply"} /\ todo \subseteq Keys /\ key \in Keys
    /\ buffer \in 0 .. AgentChannelSize /\ resp \in 0 .. Cardinality(Streams)
    /\ stream \in [Streams -> {"down", "up", "broken"}]
    /\ known \subseteq Keys \X Ids /\ faults \in Nat /\ missed \in BOOLEAN

\* Keys whose id is used without telling the collector, although it does not know
\* it any more.
Stale == {k \in Keys : Cached(k) /\ <<k, idMap[k]>> \notin known}

\* As long as there are such keys, a broken stream or a 500 in the channel will
\* make the sender forget them, unless a restart went by unseen while all streams
\* were down.
StaleIsNoticed ==
    TypeOK /\ (Stale # {} => missed \/ resp > 0 \/ \E s \in Streams : stream[s] = "broken")

\* And it does: after a restart the ids are registered again, some time.
StaleEnds == (Stale # {}) ~> (Stale = {} \/ missed)
=============================================================================
