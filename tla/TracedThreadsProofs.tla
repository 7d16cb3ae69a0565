------------------------ MODULE TracedThreadsProofs -------------------------
(***************************************************************************)
(* Proofs about TracedThreads for any number of threads and any limit.     *)
(***************************************************************************)
EXTENDS TracedThreads, FiniteSetTheorems, SequenceTheorems, TLAPS

-----------------------------------------------------------------------------
(* The trace limit.  A thread that has passed the test of tick_, or zeroed *)
(* it, is still to count: such threads are part of the bound.              *)

Counting == {t \in Threads : pc[t] = "count"}

LimitInv ==
    /\ L!TypeOK /\ ServingType
    /\ limit > 0 => tick + Cardinality(Counting) < limit + Cardinality(Threads)

\* The threads that are to count are finitely many, at most all.
LEMMA CountingFinite ==
    ASSUME NEW S \in SUBSET Threads
    PROVE  /\ IsFiniteSet(S) /\ Cardinality(S) \in Nat /\ Cardinality(Threads) \in Nat
           /\ Cardinality(S) <= Cardinality(Threads)
BY ThreadsAssumption, FS_Subset, FS_CardinalityType

\* What a step of CheckTraceLimit does to the threads that are to count.
LEMMA CountingStep ==
    ASSUME LimitInv, NEW t \in Threads, L!Step(t)
    PROVE  LimitInv!2'
<1> USE DEF LimitInv
<1>0. SUFFICES ASSUME (limit > 0)'
      PROVE  (tick + Cardinality(Counting) < limit + Cardinality(Threads))'
  OBVIOUS
<1>1. /\ Cardinality(Counting) \in Nat /\ Cardinality(Threads) \in Nat
      /\ Cardinality(Counting)' \in Nat /\ Cardinality(Counting)' <= Cardinality(Threads)
      /\ IsFiniteSet(Counting)
  BY CountingFinite DEF Counting
<1>2. limit' = limit /\ limit \in Int /\ tick \in Nat /\ limit > 0
      /\ tick + Cardinality(Counting) < limit + Cardinality(Threads)
  BY <1>0, LimitAssumption DEF L!TypeOK, L!Step, L!Begin, L!Compare, L!Stamp, L!Zero, L!Test, L!Count
<1>3. CASE L!Begin(t) \/ L!Compare(t) \/ L!Stamp(t)
  <2>1. Counting' = Counting /\ tick' = tick
    BY <1>3 DEF Counting, L!TypeOK, L!Begin, L!Compare, L!Stamp, L!Goto, L!Return
  <2> QED BY <2>1, <1>2
<1>4. CASE L!Zero(t)
  BY <1>1, <1>2, <1>4 DEF L!Zero
<1>5. CASE L!Test(t)
  <2>1. CASE tick >= limit /\ L!Return(t, "limited")
    <3>1. Counting' = Counting /\ tick' = tick
      BY <1>5, <2>1 DEF Counting, L!TypeOK, L!Test, L!Return
    <3> QED BY <3>1, <1>2
  <2>2. CASE tick < limit
    BY <1>1, <1>2, <1>5, <2>2 DEF L!Test
  <2> QED BY <1>5, <2>1, <2>2 DEF L!Test
<1>6. CASE L!Count(t)
  <2>1. t \in Counting /\ Counting' = Counting \ {t} /\ tick' = tick + 1
    BY <1>6 DEF Counting, L!TypeOK, L!Count, L!Return
  <2>2. Cardinality(Counting)' = Cardinality(Counting) - 1
    BY <2>1, <1>1, FS_RemoveElement
  <2> QED BY <2>1, <2>2, <1>1, <1>2
<1> QED BY <1>3, <1>4, <1>5, <1>6 DEF L!Step

\* LimitInv is inductive.
LEMMA LimitInductive == ASSUME LimitInv, [Next]_vars PROVE LimitInv'
<1>1. CASE UNCHANGED vars
  BY <1>1 DEF LimitInv, L!TypeOK, ServingType, Counting, vars, limitVars
<1>2. CASE Clock
  BY <1>2 DEF LimitInv, L!TypeOK, ServingType, Counting, Clock, L!Tick
<1>3. ASSUME NEW t \in Threads, CheckTraceLimit(t)
      PROVE  LimitInv'
  <2>1. L!TypeOK'
    <3>1. L!Step(t) /\ L!TypeOK
      BY <1>3 DEF CheckTraceLimit, LimitInv
    <3>2. CASE L!Begin(t)
      BY <3>1, <3>2 DEF L!TypeOK, L!Begin, L!Return, L!Goto
    <3>3. CASE L!Compare(t) \/ L!Stamp(t)
      BY <3>1, <3>3 DEF L!TypeOK, L!Compare, L!Stamp, L!Goto
    <3>4. CASE L!Zero(t) \/ L!Test(t) \/ L!Count(t)
      BY <3>1, <3>4 DEF L!TypeOK, L!Zero, L!Test, L!Count, L!Return, L!Goto
    <3> QED BY <3>1, <3>2, <3>3, <3>4 DEF L!Step
  <2>2. ServingType'
    BY <1>3 DEF CheckTraceLimit, ServingType, LimitInv
  <2>3. LimitInv!2'
    BY <1>3, CountingStep DEF CheckTraceLimit
  <2> QED BY <2>1, <2>2, <2>3 DEF LimitInv
<1>4. ASSUME NEW t \in Threads, Get(t) \/ TrySendSpan(t)
      PROVE  LimitInv'
  BY <1>4 DEF LimitInv, L!TypeOK, ServingType, Counting, Get, TrySendSpan, limitVars
<1> QED BY <1>1, <1>2, <1>3, <1>4 DEF Next

\* However the threads interleave in CheckTraceLimit, the tick of a second passes
\* the limit by fewer than the number of threads.
THEOREM TickBoundedAlways == Spec => []TickBounded
<1>1. Init => LimitInv
  <2> SUFFICES ASSUME Init PROVE LimitInv
    OBVIOUS
  <2>1. Counting = {}
    BY DEF Init, L!Init, Counting
  <2>2. Cardinality(Counting) = 0 /\ Cardinality(Threads) \in Nat
    BY <2>1, FS_EmptySet, CountingFinite
  <2> QED BY <2>2, LimitAssumption DEF Init, L!Init, LimitInv, L!TypeOK, ServingType
<1>2. LimitInv => TickBounded
  <2> SUFFICES ASSUME LimitInv PROVE TickBounded
    OBVIOUS
  <2>1. Cardinality(Counting) \in Nat /\ Cardinality(Threads) \in Nat
    BY CountingFinite DEF Counting
  <2>2. L!Cardinality(Threads) = Cardinality(Threads)
    BY DEF L!Cardinality, Cardinality
  <2> QED BY <2>1, <2>2, LimitAssumption DEF LimitInv, TickBounded, L!TickBounded, L!TypeOK
<1> QED BY <1>1, <1>2, LimitInductive, PTL DEF Spec
-----------------------------------------------------------------------------
(* The connections.  ConnectionsSound is inductive by itself.              *)

Holders == {t \in Threads : held[t] # NoConn}

\* The operators of the instance are those of the library, and a connection is live
\* when it is in the pool or with a thread.
LEMMA PoolOperators ==
    ASSUME C!TypeOK
    PROVE  /\ Len(pool) \in Nat /\ DOMAIN pool = 1 .. Len(pool)
           /\ C!Cardinality(Threads) = Cardinality(Threads)
           /\ C!Cardinality(Holders) = Cardinality(Holders)
           /\ \A c : c \in C!Live <=> \/ \E i \in 1 .. Len(pool) : pool[i] = c
                                      \/ c # NoConn /\ \E t \in Threads : held[t] = c
<1>1. Len(pool) \in Nat /\ DOMAIN pool = 1 .. Len(pool)
  BY DEF C!TypeOK
<1>2. /\ C!Cardinality(Threads) = Cardinality(Threads)
      /\ C!Cardinality(Holders) = Cardinality(Holders)
  BY DEF C!Cardinality, Cardinality
<1> QED BY <1>1, <1>2 DEF C!Live

\* A thread that has no connection finds a name for a new one.
LEMMA FreshName ==
    ASSUME ConnectionsSound, pool = <<>>, NEW t \in Threads, held[t] = NoConn
    PROVE  \E c \in Conns : c \notin C!Live
<1>1. C!TypeOK
  BY DEF ConnectionsSound
<1> DEFINE Image == {held[u] : u \in Holders}
<1>2. IsFiniteSet(Holders) /\ Cardinality(Holders) < Cardinality(Threads)
  <2>1. Holders \in SUBSET Threads /\ Holders # Threads
    BY DEF Holders
  <2> QED BY <2>1, ThreadsAssumption, FS_Subset, FS_CardinalityType
<1>3. IsFiniteSet(Image) /\ Cardinality(Image) <= Cardinality(Holders)
  <2> DEFINE f == [u \in Holders |-> held[u]]
  <2>1. f \in Surjection(Holders, Image)
    BY DEF Surjection
  <2> QED BY <2>1, <1>2, FS_Surjection
<1>4. Image # Conns
  <2>1. Cardinality(Image) \in Nat /\ Cardinality(Holders) \in Nat /\ Cardinality(Threads) \in Nat
        /\ Cardinality(Conns) \in Nat
    BY <1>2, <1>3, NamesAssumption, ThreadsAssumption, FS_CardinalityType
  <2>2. Cardinality(Image) < Cardinality(Conns)
    BY <2>1, <1>2, <1>3, NamesAssumption
  <2> HIDE DEF Image
  <2> QED BY <2>1, <2>2
<1>5. Image \subseteq Conns
  BY <1>1 DEF Holders, C!TypeOK
<1>6. PICK c \in Conns : c \notin Image
  BY <1>4, <1>5
<1>7. c \notin C!Live
  BY <1>1, <1>6, PoolOperators, ConnsAssumption DEF Holders
<1> QED BY <1>7

\* A new connection is made.
LEMMA CreateSound ==
    ASSUME ConnectionsSound, NEW t \in Threads, held[t] = NoConn, pool = <<>>,
           C!CreateConnection(t), UNCHANGED <<pool, waiting>>
    PROVE  ConnectionsSound'
<1>1. PICK c \in Conns : c \notin C!Live /\ held' = [held EXCEPT ![t] = c]
  BY FreshName DEF C!CreateConnection
<1>2. C!TypeOK /\ C!OneOwner /\ C!NotMoreThanThreads /\ C!WaitingIsLive
  BY DEF ConnectionsSound
<1>3. C!TypeOK'
  BY <1>1, <1>2 DEF C!TypeOK
<1>4. C!OneOwner'
  BY <1>1, <1>2, PoolOperators, ConnsAssumption DEF C!OneOwner, C!TypeOK
<1>5. C!NotMoreThanThreads'
  <2>1. Holders' \in SUBSET Threads
    BY DEF Holders
  <2>2. Cardinality(Holders') <= Cardinality(Threads) /\ Cardinality(Holders') \in Nat
    BY <2>1, CountingFinite
  <2>3. C!Cardinality(Holders') = Cardinality(Holders') /\ C!Cardinality(Threads) = Cardinality(Threads)
    BY DEF C!Cardinality, Cardinality
  <2>4. Len(pool') = 0
    OBVIOUS
  <2> QED BY <2>2, <2>3, <2>4, CountingFinite DEF C!NotMoreThanThreads, Holders
<1>6. C!WaitingIsLive'
  <2>1. ASSUME NEW w \in waiting PROVE w \in C!Live'
    <3>1. PICK u \in Threads : held[u] = w /\ w # NoConn
      BY <1>2, PoolOperators DEF C!WaitingIsLive
    <3>2. held'[u] = w
      BY <3>1, <1>1, <1>2 DEF C!TypeOK
    <3> QED BY <3>1, <3>2 DEF C!Live
  <2> QED BY <2>1 DEF C!WaitingIsLive
<1> QED BY <1>3, <1>4, <1>5, <1>6 DEF ConnectionsSound

\* The number of threads that hold a connection, when one more or one less does.
LEMMA HoldersChange ==
    ASSUME C!TypeOK, NEW t \in Threads, NEW c \in Conns \cup {NoConn},
           held' = [held EXCEPT ![t] = c]
    PROVE  /\ Cardinality(Holders) \in Nat /\ Cardinality(Holders)' \in Nat
           /\ held[t] = NoConn /\ c # NoConn => Cardinality(Holders)' = Cardinality(Holders) + 1
           /\ held[t] # NoConn /\ c = NoConn => Cardinality(Holders)' = Cardinality(Holders) - 1
           /\ Cardinality(Threads) \in Nat
<1>1. IsFiniteSet(Holders) /\ Cardinality(Holders) \in Nat /\ Cardinality(Threads) \in Nat
  BY CountingFinite DEF Holders
<1>2. Cardinality(Holders)' \in Nat
  BY CountingFinite DEF Holders
<1>3. held[t] = NoConn /\ c # NoConn => Holders' = Holders \cup {t} /\ t \notin Holders
  BY DEF Holders, C!TypeOK
<1>4. held[t] # NoConn /\ c = NoConn => Holders' = Holders \ {t} /\ t \in Holders
  BY DEF Holders, C!TypeOK
<1> QED BY <1>1, <1>2, <1>3, <1>4, FS_AddElement, FS_RemoveElement

\* A connection is taken from the top of the stack.
LEMMA TakeSound ==
    ASSUME ConnectionsSound, NEW t \in Threads, held[t] = NoConn, pool # <<>>,
           held' = [held EXCEPT ![t] = pool[Len(pool)]], pool' = SubSeq(pool, 1, Len(pool) - 1), UNCHANGED waiting
    PROVE  ConnectionsSound'
<1>1. C!TypeOK /\ C!OneOwner /\ C!NotMoreThanThreads /\ C!WaitingIsLive
  BY DEF ConnectionsSound
<1> DEFINE n == Len(pool)
<1>2. n \in Nat /\ n > 0 /\ pool \in Seq(Conns) /\ pool[n] \in Conns /\ pool[n] # NoConn
  BY <1>1, ConnsAssumption, EmptySeq, ElementOfSeq DEF C!TypeOK
<1>3. /\ held' = [held EXCEPT ![t] = pool[n]]
      /\ pool' = SubSeq(pool, 1, n - 1)
  OBVIOUS
<1>4. /\ pool' \in Seq(Conns) /\ Len(pool') = n - 1
      /\ \A i \in 1 .. n - 1 : pool'[i] = pool[i]
  <2>1. \A i \in 1 .. n - 1 : pool[i] \in Conns
    BY <1>2, ElementOfSeq
  <2>2. 1 \in Int /\ n - 1 \in Int /\ n - 1 - 1 + 1 = n - 1
    BY <1>2
  <2> DEFINE q == SubSeq(pool, 1, n - 1)
  <2>3. /\ q \in Seq(Conns)
        /\ Len(q) = IF 1 <= n - 1 THEN n - 1 - 1 + 1 ELSE 0
        /\ \A i \in 1 .. n - 1 - 1 + 1 : q[i] = pool[1 + i - 1]
    BY <2>1, <2>2, SubSeqProperties
  <2>4. pool' = q
    BY <1>3
  <2> HIDE DEF q, n
  <2>5. Len(q) = n - 1
    BY <2>3, <1>2
  <2>6. \A i \in 1 .. n - 1 : q[i] = pool[i]
    BY <2>3, <1>2
  <2> QED BY <2>3, <2>4, <2>5, <2>6
<1>5. C!TypeOK'
  BY <1>1, <1>2, <1>3, <1>4 DEF C!TypeOK
<1>6. C!OneOwner'
  BY <1>1, <1>2, <1>3, <1>4 DEF C!OneOwner, C!TypeOK
<1>7. C!NotMoreThanThreads'
  <2>1. /\ Cardinality(Holders) \in Nat /\ Cardinality(Holders') \in Nat
        /\ Cardinality(Holders') = Cardinality(Holders) + 1 /\ Cardinality(Threads) \in Nat
    BY <1>1, <1>2, <1>3, <1>4, HoldersChange
  <2>2. /\ C!Cardinality(Threads) = Cardinality(Threads)
        /\ C!Cardinality(Holders') = Cardinality(Holders')
        /\ C!Cardinality(Holders) = Cardinality(Holders)
    BY DEF C!Cardinality, Cardinality
  <2>3. Len(pool) + Cardinality(Holders) <= Cardinality(Threads)
    BY <1>1, <2>2 DEF C!NotMoreThanThreads, Holders
  <2>4. Len(pool') + Cardinality(Holders') <= Cardinality(Threads)
    BY <2>1, <2>3, <1>1, <1>2, <1>3, <1>4
  <2> QED BY <2>2, <2>4 DEF C!NotMoreThanThreads, Holders
<1>8. C!WaitingIsLive'
  <2>1. ASSUME NEW w \in waiting PROVE w \in C!Live'
    <3>1. \/ \E i \in 1 .. n : pool[i] = w
          \/ w # NoConn /\ \E u \in Threads : held[u] = w
      BY <1>1, PoolOperators DEF C!WaitingIsLive
    <3>2. \/ \E i \in 1 .. n - 1 : pool'[i] = w
          \/ w # NoConn /\ \E u \in Threads : held'[u] = w
      BY <3>1, <1>1, <1>2, <1>3, <1>4 DEF C!TypeOK
    <3> QED BY <3>2, <1>4, LenProperties DEF C!Live
  <2> QED BY <2>1 DEF C!WaitingIsLive
<1> QED BY <1>5, <1>6, <1>7, <1>8 DEF ConnectionsSound

\* A thread gives its connection back, and its spans wait in it or do not.
LEMMA FreeSound ==
    ASSUME ConnectionsSound, NEW t \in Threads, C!Free(t),
           waiting' \subseteq waiting \cup {held[t]}
    PROVE  ConnectionsSound'
<1>1. C!TypeOK /\ C!OneOwner /\ C!NotMoreThanThreads /\ C!WaitingIsLive
  BY DEF ConnectionsSound
<1> DEFINE n == Len(pool)
<1>2. n \in Nat /\ held[t] \in Conns /\ held[t] # NoConn
  BY <1>1 DEF C!TypeOK, C!Free
<1>3. /\ held' = [held EXCEPT ![t] = NoConn]
      /\ pool' \in Seq(Conns) /\ Len(pool') = n + 1 /\ pool'[n + 1] = held[t]
      /\ \A i \in 1 .. n : pool'[i] = pool[i]
  BY <1>1, <1>2, AppendProperties DEF C!TypeOK, C!Free
<1>4. C!TypeOK'
  BY <1>1, <1>2, <1>3 DEF C!TypeOK
<1>5. C!OneOwner'
  BY <1>1, <1>2, <1>3, ConnsAssumption DEF C!OneOwner, C!TypeOK
<1>6. C!NotMoreThanThreads'
  <2>1. /\ Cardinality(Holders) \in Nat /\ Cardinality(Holders') \in Nat
        /\ Cardinality(Holders') = Cardinality(Holders) - 1 /\ Cardinality(Threads) \in Nat
    BY <1>1, <1>2, <1>3, HoldersChange
  <2>2. /\ C!Cardinality(Threads) = Cardinality(Threads)
        /\ C!Cardinality(Holders') = Cardinality(Holders')
        /\ C!Cardinality(Holders) = Cardinality(Holders)
    BY DEF C!Cardinality, Cardinality
  <2>3. Len(pool) + Cardinality(Holders) <= Cardinality(Threads)
    BY <1>1, <2>2 DEF C!NotMoreThanThreads, Holders
  <2>4. Len(pool') + Cardinality(Holders') <= Cardinality(Threads)
    BY <2>1, <2>3, <1>1, <1>2, <1>3
  <2> QED BY <2>2, <2>4 DEF C!NotMoreThanThreads, Holders
<1>7. C!WaitingIsLive'
  <2>1. ASSUME NEW w \in waiting' PROVE w \in C!Live'
    <3>1. \/ w = held[t]
          \/ \E i \in 1 .. n : pool[i] = w
          \/ w # NoConn /\ \E u \in Threads : held[u] = w
      BY <1>1, PoolOperators DEF C!WaitingIsLive
    <3>2. \/ \E i \in 1 .. n + 1 : pool'[i] = w
          \/ w # NoConn /\ \E u \in Threads : held'[u] = w
      BY <3>1, <1>1, <1>2, <1>3 DEF C!TypeOK
    <3> QED BY <3>2, <1>2, <1>3, LenProperties DEF C!Live
  <2> QED BY <2>1 DEF C!WaitingIsLive
<1> QED BY <1>4, <1>5, <1>6, <1>7 DEF ConnectionsSound

\* A connection is closed by an exception.
LEMMA ThrowSound ==
    ASSUME ConnectionsSound, NEW t \in Threads, C!SendThrows(t)
    PROVE  ConnectionsSound'
<1>1. C!TypeOK /\ C!OneOwner /\ C!NotMoreThanThreads /\ C!WaitingIsLive
  BY DEF ConnectionsSound
<1>2. /\ held[t] # NoConn /\ held' = [held EXCEPT ![t] = NoConn]
      /\ pool' = pool /\ waiting' = waiting \ {held[t]} /\ Len(pool) \in Nat
  BY <1>1 DEF C!SendThrows, C!TypeOK
<1>3. C!TypeOK'
  BY <1>1, <1>2 DEF C!TypeOK
<1>4. C!OneOwner'
  BY <1>1, <1>2, ConnsAssumption DEF C!OneOwner, C!TypeOK
<1>5. C!NotMoreThanThreads'
  <2>1. /\ Cardinality(Holders) \in Nat /\ Cardinality(Holders') \in Nat
        /\ Cardinality(Holders') = Cardinality(Holders) - 1 /\ Cardinality(Threads) \in Nat
    BY <1>1, <1>2, HoldersChange
  <2>2. /\ C!Cardinality(Threads) = Cardinality(Threads)
        /\ C!Cardinality(Holders') = Cardinality(Holders')
        /\ C!Cardinality(Holders) = Cardinality(Holders)
    BY DEF C!Cardinality, Cardinality
  <2>3. Len(pool) + Cardinality(Holders) <= Cardinality(Threads)
    BY <1>1, <2>2 DEF C!NotMoreThanThreads, Holders
  <2>4. Len(pool') + Cardinality(Holders') <= Cardinality(Threads)
    BY <2>1, <2>3, <1>1, <1>2
  <2> QED BY <2>2, <2>4 DEF C!NotMoreThanThreads, Holders
<1>6. C!WaitingIsLive'
  <2>1. ASSUME NEW w \in waiting' PROVE w \in C!Live'
    <3>1. \/ \E i \in 1 .. Len(pool) : pool[i] = w
          \/ w # NoConn /\ \E u \in Threads : held'[u] = w
      BY <1>1, <1>2, PoolOperators DEF C!WaitingIsLive, C!TypeOK
    <3> QED BY <3>1, <1>1, <1>2, LenProperties DEF C!Live, C!TypeOK
  <2> QED BY <2>1 DEF C!WaitingIsLive
<1> QED BY <1>3, <1>4, <1>5, <1>6 DEF ConnectionsSound

\* Two threads never share a connection, connections are never more than threads,
\* and one with waiting spans is never lost, for any number of threads.
THEOREM ConnectionsSoundAlways == Spec => []ConnectionsSound
<1>1. Init => ConnectionsSound
  <2> SUFFICES ASSUME Init PROVE ConnectionsSound
    OBVIOUS
  <2>1. pool = <<First>> /\ held = [t \in Threads |-> NoConn] /\ waiting = {}
    BY DEF Init, C!Init
  <2>2. Holders = {}
    BY <2>1 DEF Holders
  <2>3. Cardinality(Holders) = 0 /\ Cardinality(Threads) \in Nat /\ Cardinality(Threads) # 0
    BY <2>2, FS_EmptySet, CountingFinite, ThreadsAssumption
  <2>4. C!Cardinality(Holders) = Cardinality(Holders) /\ C!Cardinality(Threads) = Cardinality(Threads)
    BY DEF C!Cardinality, Cardinality
  <2>5. C!TypeOK /\ C!OneOwner /\ C!WaitingIsLive
    BY <2>1, ConnsAssumption DEF C!TypeOK, C!OneOwner, C!WaitingIsLive
  <2>6. C!NotMoreThanThreads
    BY <2>1, <2>3, <2>4 DEF C!NotMoreThanThreads, Holders
  <2> QED BY <2>5, <2>6 DEF ConnectionsSound
<1>2. ConnectionsSound /\ [Next]_vars => ConnectionsSound'
  <2> SUFFICES ASSUME ConnectionsSound, [Next]_vars PROVE ConnectionsSound'
    OBVIOUS
  <2>1. CASE UNCHANGED poolVars
    BY <2>1 DEF poolVars, ConnectionsSound, C!TypeOK, C!OneOwner, C!NotMoreThanThreads,
                C!WaitingIsLive, C!Live
  <2>2. ASSUME NEW t \in Threads, C!Get(t) PROVE ConnectionsSound'
    BY <2>2, CreateSound, TakeSound DEF C!Get
  <2>3. ASSUME NEW t \in Threads, C!Send(t) PROVE ConnectionsSound'
    BY <2>3, FreeSound, ThrowSound DEF C!Send, C!SendAll, C!SendLater
  <2> QED BY <2>1, <2>2, <2>3 DEF Next, Clock, CheckTraceLimit, Get, TrySendSpan, vars
<1> QED BY <1>1, <1>2, PTL DEF Spec
=============================================================================
