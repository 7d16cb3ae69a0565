-------------------------- MODULE SpanSenderProofs --------------------------
(***************************************************************************)
(* An id that the collector does not know any more is forgotten, unless    *)
(* nothing could tell: for any keys, streams, channel sizes and faults.    *)
(***************************************************************************)
EXTENDS SpanSender, FiniteSetTheorems, TLAPS

(* What a span sender needs: a stream, a channel, and something to name.   *)
Sizes ==
    /\ IsFiniteSet(Streams) /\ Streams # {}
    /\ AgentChannelSize \in Nat
    /\ Keys # {}

(* A sign of a restart is there, or never will be.                         *)
Noticed == missed \/ resp > 0 \/ \E s \in Streams : stream[s] = "broken"

Known(k) == <<k, idMap[k]>> \in known

(* The strengthening: also the key whose answer is under way is known,     *)
(* since it will be confirmed without another look.                        *)
Fresh == \A k \in Keys : Cached(k) \/ (pc = "reply" /\ k = key) => Known(k) \/ Noticed

-----------------------------------------------------------------------------
\* The number of the streams is positive.
LEMMA StreamsCount ==
    ASSUME Sizes
    PROVE  Cardinality(Streams) \in Nat /\ Cardinality(Streams) > 0
<1>1. Cardinality(Streams) \in Nat
  BY FS_CardinalityType DEF Sizes
<1>2. Cardinality(Streams) # 0
  BY FS_EmptySet DEF Sizes
<1> QED BY <1>1, <1>2

\* The types are kept by Interceptor and SenderGrpcMetaData,
LEMMA CallType ==
    ASSUME Sizes, TypeOK,
           \/ \E S \in SUBSET Keys : Interceptor(S)
           \/ \E k \in Keys : Resolve(k)
           \/ SenderGrpcMetaData
    PROVE  TypeOK'
<1> USE DEF TypeOK, meta, channels, collector
<1>1. AnyKey \in Keys
  BY DEF Sizes, AnyKey
<1>2. CASE \E S \in SUBSET Keys : Interceptor(S)
  BY <1>2 DEF Interceptor
<1>3. ASSUME NEW k \in Keys, UseCached(k)
      PROVE  TypeOK'
  BY <1>3 DEF UseCached
<1>4. ASSUME NEW k \in Keys, GetMetaApiId(k)
      PROVE  TypeOK'
  <2>1. CASE UNCHANGED meta
    BY <1>4, <2>1 DEF GetMetaApiId
  <2>2. CASE NewId(k) /\ pendingMeta' = pendingMeta \cup {k}
    <3>1. unique_id_count' \in Nat
      BY <2>2 DEF NewId
    <3>2. idMap' \in [Keys -> Ids]
      BY <2>2 DEF NewId, Ids, Hash
    <3> QED BY <1>4, <2>2, <3>1, <3>2 DEF GetMetaApiId
  <2> QED BY <1>4, <2>1, <2>2 DEF GetMetaApiId
<1>5. CASE Register
  BY <1>5 DEF Register
<1>6. CASE RegisterFails \/ MarkConfirmed
  BY <1>1, <1>6 DEF RegisterFails, MarkConfirmed, Resolved
<1> QED BY <1>2, <1>3, <1>4, <1>5, <1>6 DEF Resolve, SenderGrpcMetaData

\* and by the channels, the streams and the collector.
LEMMA StreamType ==
    ASSUME Sizes, TypeOK,
           \/ Offer \/ Restart
           \/ \E s \in Streams : Connect(s) \/ Send(s) \/ SendFails(s) \/ Break(s)
    PROVE  TypeOK'
<1> USE DEF TypeOK, meta, call, channels, collector
<1>1. CASE Buffered
  <2>1. buffer' \in 0 .. AgentChannelSize
    BY <1>1 DEF Buffered, Sizes
  <2> QED BY <1>1, <2>1 DEF Buffered, Done
<1>2. CASE Answered
  <2>1. resp' \in 0 .. Cardinality(Streams)
    BY <1>2, StreamsCount DEF Answered
  <2>2. idMap' \in [Keys -> Ids]
    BY <1>2 DEF Answered, CleanAllMetaData, Ids, NoId
  <2> QED BY <1>2, <2>1, <2>2 DEF Answered, CleanAllMetaData, Done
<1>3. CASE Dropped
  BY <1>3 DEF Dropped, Done
<1>4. ASSUME NEW s \in Streams, Connect(s)
      PROVE  TypeOK'
  BY <1>4 DEF Connect
<1>5. ASSUME NEW s \in Streams, Send(s) \/ SendFails(s)
      PROVE  TypeOK'
  <2>1. buffer' \in 0 .. AgentChannelSize
    BY <1>5 DEF Send, SendFails, Sizes
  <2>2. resp' \in 0 .. Cardinality(Streams)
    BY <1>5, StreamsCount DEF Send, SendFails, Room
  <2>3. stream' \in [Streams -> {"down", "up", "broken"}]
    BY <1>5 DEF Send, SendFails
  <2> QED BY <1>5, <2>1, <2>2, <2>3 DEF Send, SendFails
<1>6. ASSUME NEW s \in Streams, Break(s)
      PROVE  TypeOK'
  <2>1. faults' \in Nat
    BY <1>6 DEF Break
  <2> QED BY <1>6, <2>1 DEF Break
<1>7. CASE Restart
  <2>1. faults' \in Nat
    BY <1>7 DEF Restart
  <2>2. stream' \in [Streams -> {"down", "up", "broken"}]
    BY <1>7 DEF Restart
  <2> QED BY <1>7, <2>1, <2>2 DEF Restart
<1> QED BY <1>1, <1>2, <1>3, <1>4, <1>5, <1>6, <1>7 DEF Offer

-----------------------------------------------------------------------------
\* What the span's goroutine does keeps the strengthening.
LEMMA CallFresh ==
    ASSUME Sizes, TypeOK, Fresh,
           \/ \E S \in SUBSET Keys : Interceptor(S)
           \/ \E k \in Keys : Resolve(k)
           \/ SenderGrpcMetaData
    PROVE  Fresh'
<1> USE DEF Fresh, Cached, Known, Noticed, meta, channels, collector
<1>1. CASE \E S \in SUBSET Keys : Interceptor(S)
  BY <1>1 DEF Interceptor
<1>2. ASSUME NEW k \in Keys, UseCached(k)
      PROVE  Fresh'
  BY <1>2 DEF UseCached
<1>3. ASSUME NEW k \in Keys, GetMetaApiId(k)
      PROVE  Fresh'
  <2>1. \A j \in Keys : Cached(j)' => Cached(j) /\ idMap'[j] = idMap[j]
    BY <1>3 DEF GetMetaApiId, NewId, TypeOK
  <2> QED BY <1>3, <2>1 DEF GetMetaApiId
<1>4. CASE Register
  BY <1>4 DEF Register
<1>5. CASE RegisterFails
  BY <1>5 DEF RegisterFails, Resolved
<1>6. CASE MarkConfirmed
  BY <1>6 DEF MarkConfirmed, Resolved
<1> QED BY <1>1, <1>2, <1>3, <1>4, <1>5, <1>6 DEF Resolve, SenderGrpcMetaData

\* A sign is used up only by forgetting all ids, and a restart leaves one.
LEMMA StreamFresh ==
    ASSUME Sizes, TypeOK, Fresh,
           \/ Offer \/ Restart
           \/ \E s \in Streams : Connect(s) \/ Send(s) \/ SendFails(s) \/ Break(s)
    PROVE  Fresh'
<1> USE DEF Cached, Known, meta, call, channels, collector
<1>1. CASE Answered
  <2>1. \A k \in Keys : ~Cached(k)'
    BY <1>1 DEF Answered, CleanAllMetaData
  <2>2. pc' # "reply"
    BY <1>1 DEF Answered, Done
  <2> QED BY <2>1, <2>2 DEF Fresh
<1>2. CASE Restart
  <2>1. Noticed'
    <3>1. CASE resp = 0 /\ \A s \in Streams : stream[s] = "down"
      BY <1>2, <3>1 DEF Restart, Noticed
    <3>2. CASE resp # 0
      BY <1>2, <3>2, StreamsCount DEF Restart, Noticed, TypeOK
    <3>3. ASSUME NEW s \in Streams, stream[s] # "down"
          PROVE  Noticed'
      BY <1>2, <3>3 DEF Restart, Noticed, TypeOK
    <3> QED BY <3>1, <3>2, <3>3
  <2> QED BY <2>1 DEF Fresh
<1>3. ASSUME UNCHANGED <<meta, known>>, pc' = pc \/ pc' # "reply", key' = key, Noticed => Noticed'
      PROVE  Fresh'
  BY <1>3 DEF Fresh
<1>4. CASE Buffered \/ Dropped
  BY <1>3, <1>4 DEF Buffered, Dropped, Done, Noticed
<1>5. ASSUME NEW s \in Streams, Connect(s) \/ Send(s) \/ Break(s)
      PROVE  Fresh'
  <2>1. Noticed => Noticed'
    BY <1>5 DEF Connect, Send, Break, Noticed, TypeOK
  <2> QED BY <1>3, <1>5, <2>1 DEF Connect, Send, Break
<1>6. ASSUME NEW s \in Streams, SendFails(s)
      PROVE  Fresh'
  <2>1. resp' > 0
    BY <1>6, StreamsCount DEF SendFails, Room, TypeOK
  <2>2. Noticed'
    BY <2>1 DEF Noticed
  <2> QED BY <1>3, <1>6, <2>2 DEF SendFails
<1> QED BY <1>1, <1>2, <1>4, <1>5, <1>6 DEF Offer

\* As long as ids are used that the collector has forgotten, a broken stream or a
\* 500 in the channel is there to make the sender forget them, unless a restart went
\* by while all streams were down (Interceptor, sendSpan, cleanAllMetaData).
THEOREM StaleIsNoticedAlways ==
    ASSUME Sizes
    PROVE  Spec => []StaleIsNoticed
<1>1. Init => TypeOK /\ Fresh
  <2> SUFFICES ASSUME Init
               PROVE  TypeOK /\ Fresh
    OBVIOUS
  <2>1. AnyKey \in Keys
    BY DEF Sizes, AnyKey
  <2>2. TypeOK
    <3>1. idMap \in [Keys -> Ids]
      BY DEF Init, Ids, NoId
    <3>2. buffer \in 0 .. AgentChannelSize /\ resp \in 0 .. Cardinality(Streams)
      BY StreamsCount DEF Sizes, Init
    <3> QED BY <2>1, <3>1, <3>2 DEF Init, TypeOK
  <2> QED BY <2>2 DEF Init, Fresh, Cached
<1>2. TypeOK /\ Fresh /\ [Next]_vars => TypeOK' /\ Fresh'
  <2> SUFFICES ASSUME TypeOK, Fresh, [Next]_vars
               PROVE  TypeOK' /\ Fresh'
    OBVIOUS
  <2>1. CASE Next
    BY <2>1, CallType, StreamType, CallFresh, StreamFresh DEF Next
  <2>2. CASE UNCHANGED vars
    <3> USE <2>2 DEF vars, meta, call, channels, collector
    <3>1. TypeOK' = TypeOK
      BY DEF TypeOK
    <3>2. Fresh' = Fresh
      BY DEF Fresh, Cached, Known, Noticed
    <3> QED BY <3>1, <3>2
  <2> QED BY <2>1, <2>2
<1>3. TypeOK /\ Fresh => StaleIsNoticed
  BY DEF Fresh, StaleIsNoticed, Stale, Known, Noticed
<1> QED BY <1>1, <1>2, <1>3, PTL DEF Spec
=============================================================================
