------------------------ MODULE TransactionIdProofs -------------------------
(***************************************************************************)
(* Transaction ids are unique, for any number of processes, threads and    *)
(* ids.  A goroutine of genHello that stores its time while no other is    *)
(* between the clock and its store leaves all the times given out at or    *)
(* below lastTime; the next one is above it.                               *)
(***************************************************************************)
EXTENDS TransactionId, TLAPS

Busy(t) == gen[t] \in {"load", "store"}

(* The start time x has been given to process p.                           *)
Has(p, x) ==
    \/ x = starttime[p]
    \/ \E t \in Threads : Owner[t] = p /\ (x = read[t] \/ (gen[t] = "sent" /\ x = now[t]))
    \/ \E i \in DOMAIN issued[p] : x = issued[p][i].time

HelloTimes == {x \in Times : x.hello}

(* Threads that use a hello message have got it; no time is ahead.         *)
Shape ==
    /\ lastTime <= clock
    /\ \A t \in Threads :
          /\ pc[t] \in {"set", "mark"} => gen[t] = "sent"
          /\ gen[t] \in {"load", "store", "sent"} => now[t].hello
          /\ Busy(t) => now[t].ms <= clock

(* The counter of a process is above all of its ids, and they differ.      *)
Counted ==
    \A p \in Procs : \A i \in DOMAIN issued[p] :
        /\ issued[p][i].id < uuid[p]
        /\ \A j \in DOMAIN issued[p] : issued[p][i].id = issued[p][j].id => i = j

(* What holds as long as no two goroutines have raced.                     *)
Ahead ==
    \A t \in Threads : /\ Busy(t) => lastTime <= now[t].ms
                       /\ gen[t] = "store" => lastTime < now[t].ms
Behind == \A p \in Procs, x \in HelloTimes : Has(p, x) => x.ms <= lastTime
Apart == \A p, q \in Procs, x \in HelloTimes : Has(p, x) /\ Has(q, x) => p = q

IdInv ==
    /\ TypeOK /\ Shape /\ Counted
    /\ ~raced => Ahead /\ Behind /\ Apart /\ HelloTimesDistinct

-----------------------------------------------------------------------------
\* An element of a sequence, and the empty sequence.
LEMMA SeqElement ==
    ASSUME NEW S, NEW s \in Seq(S), NEW i \in DOMAIN s
    PROVE  s[i] \in S
OBVIOUS

\* The empty sequence is one of any set.
LEMMA EmptySequence ==
    ASSUME NEW S
    PROVE  <<>> \in Seq(S)
OBVIOUS

\* The types are kept by every step.
LEMMA TypeStep ==
    ASSUME Owner \in [Threads -> Procs], TypeOK, Next
    PROVE  TypeOK'
<1> USE DEF TypeOK, Times, NoTime, server, state
<1>1. CASE Tick
  BY <1>1 DEF Tick
<1>2. ASSUME NEW t \in Threads, GenTime(t) \/ GenLoad(t) \/ GenStore(t)
      PROVE  TypeOK'
  <2>1. CASE GenTime(t)
    BY <2>1 DEF GenTime
  <2>2. CASE GenLoad(t)
    BY <2>2 DEF GenLoad
  <2>3. CASE GenStore(t)
    BY <2>3 DEF GenStore
  <2> QED BY <1>2, <2>1, <2>2, <2>3
<1>3. ASSUME NEW t \in Threads, HandleHelloMsg(t) \/ SetStartTime(t) \/ SetReady(t)
      PROVE  TypeOK'
  <2>1. CASE HandleHelloMsg(t)
    BY <2>1 DEF HandleHelloMsg
  <2>2. CASE SetStartTime(t)
    <3>1. starttime' \in [Procs -> Times]
      <4> HIDE DEF Times
      <4>1. Owner[t] \in Procs /\ now[t] \in Times
        OBVIOUS
      <4> QED BY <2>2, <4>1 DEF SetStartTime
    <3>2. pc' \in [Threads -> {"idle", "set", "mark", "id"}]
      BY <2>2 DEF SetStartTime
    <3> QED BY <2>2, <3>1, <3>2 DEF SetStartTime
  <2>3. CASE SetReady(t)
    BY <2>3 DEF SetReady
  <2> QED BY <1>3, <2>1, <2>2, <2>3
<1>4. ASSUME NEW t \in Threads, GetStartTime(t)
      PROVE  TypeOK'
  BY <1>4 DEF GetStartTime
<1>5. ASSUME NEW t \in Threads, GetUniqueId(t)
      PROVE  TypeOK'
  <2> DEFINE p == Owner[t]
             x == [id |-> uuid[p], time |-> read[t]]
  <2>1. p \in Procs /\ x \in [id : Nat, time : Times]
    OBVIOUS
  <2>2. issued' = [issued EXCEPT ![p] = Append(issued[p], x)]
    BY <1>5 DEF GetUniqueId, Issue
  <2>3. Append(issued[p], x) \in Seq([id : Nat, time : Times])
    BY <2>1
  <2> HIDE DEF x
  <2>4. issued' \in [Procs -> Seq([id : Nat, time : Times])]
    BY <2>1, <2>2, <2>3
  <2> QED BY <1>5, <2>4 DEF GetUniqueId, Issue
<1> QED BY <1>1, <1>2, <1>3, <1>4, <1>5 DEF Next, Step

\* So is the order of the times with the clock.
LEMMA ShapeStep ==
    ASSUME Owner \in [Threads -> Procs], TypeOK, Shape, Next
    PROVE  Shape'
<1> USE DEF TypeOK, Shape, Busy, Times, NoTime, server, state
<1>1. CASE Tick
  BY <1>1 DEF Tick
<1>2. ASSUME NEW t \in Threads, GenTime(t) \/ GenLoad(t) \/ GenStore(t)
      PROVE  Shape'
  <2>1. CASE GenTime(t)
    BY <2>1 DEF GenTime
  <2>2. CASE GenLoad(t)
    BY <2>2 DEF GenLoad
  <2>3. CASE GenStore(t)
    BY <2>3 DEF GenStore
  <2> QED BY <1>2, <2>1, <2>2, <2>3
<1>3. ASSUME NEW t \in Threads, HandleHelloMsg(t) \/ SetStartTime(t) \/ SetReady(t)
      PROVE  Shape'
  BY <1>3 DEF HandleHelloMsg, SetStartTime, SetReady
<1>4. ASSUME NEW t \in Threads, GetStartTime(t) \/ GetUniqueId(t)
      PROVE  Shape'
  BY <1>4 DEF GetStartTime, GetUniqueId, Issue
<1> QED BY <1>1, <1>2, <1>3, <1>4 DEF Next, Step

\* uuid_++ and the id are one step.
LEMMA CountedStep ==
    ASSUME Owner \in [Threads -> Procs], TypeOK, Counted, Next
    PROVE  Counted'
<1>1. CASE UNCHANGED <<issued, uuid>>
  BY <1>1 DEF Counted
<1>2. ASSUME NEW t \in Threads, GetUniqueId(t)
      PROVE  Counted'
  <2> DEFINE p == Owner[t]
             x == [id |-> uuid[p], time |-> read[t]]
             n == Len(issued[p])
  <2>1. p \in Procs /\ n \in Nat /\ uuid[p] \in Nat /\ DOMAIN issued[p] = 1 .. n
    BY DEF TypeOK
  <2>2. /\ issued'[p] = Append(issued[p], x) /\ uuid'[p] = uuid[p] + 1
        /\ \A q \in Procs \ {p} : issued'[q] = issued[q] /\ uuid'[q] = uuid[q]
    BY <1>2, <2>1 DEF GetUniqueId, Issue, TypeOK
  <2>3. /\ DOMAIN issued'[p] = 1 .. n + 1 /\ issued'[p][n + 1].id = uuid[p]
        /\ \A i \in 1 .. n : issued'[p][i] = issued[p][i]
    BY <2>1, <2>2 DEF TypeOK
  <2>4. \A i \in 1 .. n : issued[p][i].id < uuid[p] /\ issued[p][i].id \in Nat
    <3>1. issued[p] \in Seq([id : Nat, time : Times])
      BY <2>1 DEF TypeOK
    <3>2. \A i \in DOMAIN issued[p] : issued[p][i] \in [id : Nat, time : Times]
      BY <3>1, SeqElement
    <3>3. \A i \in DOMAIN issued[p] : issued[p][i].id \in Nat
      BY <3>2
    <3> HIDE DEF n
    <3> QED BY <2>1, <3>3 DEF Counted
  <2>5. ASSUME NEW i \in DOMAIN issued'[p]
        PROVE  /\ issued'[p][i].id < uuid'[p]
               /\ \A j \in DOMAIN issued'[p] : issued'[p][i].id = issued'[p][j].id => i = j
    <3> HIDE DEF p, n
    <3>1. i \in 1 .. n \/ i = n + 1
      BY <2>1, <2>3, <2>5
    <3>2. issued'[p][i].id < uuid'[p]
      BY <3>1, <2>1, <2>2, <2>3, <2>4
    <3>3. ASSUME NEW j \in DOMAIN issued'[p], issued'[p][i].id = issued'[p][j].id
          PROVE  i = j
      <4>1. j \in 1 .. n \/ j = n + 1
        BY <2>1, <2>3, <3>3
      <4>2. CASE i \in 1 .. n /\ j \in 1 .. n
        BY <4>2, <2>1, <2>3, <3>3 DEF Counted
      <4>3. CASE i = n + 1 \/ j = n + 1
        BY <4>1, <4>3, <3>1, <2>1, <2>3, <2>4, <3>3
      <4> QED BY <4>1, <4>2, <4>3, <3>1
    <3> QED BY <3>2, <3>3
  <2> HIDE DEF p, n, x
  <2> QED BY <2>2, <2>5 DEF Counted
<1>3. Next => UNCHANGED <<issued, uuid>> \/ \E t \in Threads : GetUniqueId(t)
  BY DEF Next, Step, Tick, GenTime, GenLoad, GenStore, HandleHelloMsg, SetStartTime, SetReady,
         GetStartTime, state
<1> QED BY <1>1, <1>2, <1>3

\* A process has a new hello time only from a store of genHello.
LEMMA HasStep ==
    ASSUME Owner \in [Threads -> Procs], TypeOK, Shape, Next,
           NEW p \in Procs, NEW x \in HelloTimes, Has(p, x)', ~Has(p, x)
    PROVE  \E t \in Threads : GenStore(t) /\ Owner[t] = p /\ x = now[t]
<1>1. CASE Tick
  BY <1>1 DEF Tick, Has, server, state
<1>2. ASSUME NEW t \in Threads, GenTime(t) \/ GenLoad(t)
      PROVE  FALSE
  BY <1>2 DEF GenTime, GenLoad, Has, TypeOK, state
<1>3. ASSUME NEW t \in Threads, GenStore(t)
      PROVE  Owner[t] = p /\ x = now[t]
  BY <1>3 DEF GenStore, Has, TypeOK, state
<1>4. ASSUME NEW t \in Threads, HandleHelloMsg(t) \/ SetReady(t)
      PROVE  FALSE
  BY <1>4 DEF HandleHelloMsg, SetReady, Has, server, state
<1>5. ASSUME NEW t \in Threads, SetStartTime(t)
      PROVE  FALSE
  BY <1>5 DEF SetStartTime, Has, Shape, TypeOK, server
<1>6. ASSUME NEW t \in Threads, GetStartTime(t)
      PROVE  FALSE
  BY <1>6 DEF GetStartTime, Has, TypeOK, server, state
<1>7. ASSUME NEW t \in Threads, GetUniqueId(t)
      PROVE  FALSE
  <2> DEFINE y == [id |-> uuid[Owner[t]], time |-> read[t]]
             n == Len(issued[Owner[t]])
  <2>1. /\ Owner[t] \in Procs /\ n \in Nat /\ DOMAIN issued[Owner[t]] = 1 .. n
        /\ issued'[Owner[t]] = Append(issued[Owner[t]], y)
        /\ \A q \in Procs \ {Owner[t]} : issued'[q] = issued[q]
    BY <1>7 DEF GetUniqueId, Issue, TypeOK
  <2>2. /\ DOMAIN issued'[Owner[t]] = 1 .. n + 1 /\ issued'[Owner[t]][n + 1].time = read[t]
        /\ \A i \in 1 .. n : issued'[Owner[t]][i] = issued[Owner[t]][i]
    BY <2>1 DEF TypeOK
  <2> HIDE DEF n
  <2>3. ASSUME NEW i \in DOMAIN issued'[p], x = issued'[p][i].time
        PROVE  FALSE
    <3>1. CASE p # Owner[t]
      BY <3>1, <2>1, <2>3 DEF Has
    <3>2. CASE p = Owner[t] /\ i \in 1 .. n
      BY <3>2, <2>1, <2>2, <2>3 DEF Has
    <3>3. CASE p = Owner[t] /\ i = n + 1
      BY <3>3, <2>2, <2>3 DEF Has
    <3>4. p = Owner[t] => i \in 1 .. n \/ i = n + 1
      BY <2>1, <2>2, <2>3
    <3> QED BY <3>1, <3>2, <3>3, <3>4
  <2>4. /\ starttime' = starttime /\ gen' = gen /\ now' = now
        /\ read' = [read EXCEPT ![t] = NoTime] /\ x # NoTime
    BY <1>7 DEF GetUniqueId, Issue, server, HelloTimes, NoTime
  <2> QED BY <2>3, <2>4 DEF Has, TypeOK
<1> QED BY <1>1, <1>2, <1>3, <1>4, <1>5, <1>6, <1>7 DEF Next, Step

\* Without a race, a time that is stored is above all the times given out before.
LEMMA StoreFresh ==
    ASSUME Owner \in [Threads -> Procs], TypeOK, Shape, Ahead, Behind,
           NEW t \in Threads, GenStore(t), ~raced'
    PROVE  /\ now[t] \in HelloTimes /\ lastTime < now[t].ms /\ lastTime' = now[t].ms
           /\ \A p \in Procs : ~Has(p, now[t])
           /\ \A u \in Threads \ {t} : ~Busy(u)
<1>1. now[t] \in HelloTimes /\ lastTime < now[t].ms /\ lastTime' = now[t].ms
  BY DEF GenStore, TypeOK, Shape, Ahead, HelloTimes
<1>2. ASSUME NEW p \in Procs, Has(p, now[t])
      PROVE  FALSE
  <2>1. now[t].ms <= lastTime
    BY <1>1, <1>2 DEF Behind
  <2>2. now[t].ms \in Nat /\ lastTime \in Nat
    BY DEF TypeOK, Times
  <2> QED BY <1>1, <2>1, <2>2
<1>3. \A u \in Threads \ {t} : ~Busy(u)
  BY DEF GenStore, Busy
<1> QED BY <1>1, <1>2, <1>3

\* lastTime stays below the times that are about to be stored.
LEMMA AheadStep ==
    ASSUME Owner \in [Threads -> Procs], TypeOK, Shape, Ahead, Behind, Next, ~raced'
    PROVE  Ahead'
<1> USE DEF Ahead, Busy, TypeOK, Times
<1>1. CASE UNCHANGED server
  BY <1>1 DEF server
<1>2. ASSUME NEW t \in Threads, GenTime(t)
      PROVE  Ahead'
  BY <1>2 DEF GenTime, Shape
<1>3. ASSUME NEW t \in Threads, GenLoad(t)
      PROVE  Ahead'
  BY <1>3 DEF GenLoad
<1>4. ASSUME NEW t \in Threads, GenStore(t)
      PROVE  Ahead'
  <2>1. \A u \in Threads : ~Busy(u)'
    BY <1>4, StoreFresh DEF GenStore
  <2> QED BY <2>1
<1>5. Next => \/ UNCHANGED server
              \/ \E t \in Threads : GenTime(t) \/ GenLoad(t) \/ GenStore(t)
  BY DEF Next, Step, Tick, HandleHelloMsg, SetStartTime, SetReady, GetStartTime, GetUniqueId, Issue
<1> QED BY <1>1, <1>2, <1>3, <1>4, <1>5

\* A step is the store of one goroutine.
LEMMA OneStore ==
    ASSUME TypeOK, NEW t \in Threads, NEW u \in Threads, GenStore(t), GenStore(u)
    PROVE  t = u
BY DEF GenStore, TypeOK

\* A time given out is not above lastTime, and is given to one process.
LEMMA GivenStep ==
    ASSUME Owner \in [Threads -> Procs], TypeOK, Shape, Ahead, Behind, Apart, Next, ~raced'
    PROVE  Behind' /\ Apart'
<1>1. lastTime' = lastTime \/ \E t \in Threads : GenStore(t)
  BY DEF Next, Step, Tick, GenTime, GenLoad, HandleHelloMsg, SetStartTime, SetReady,
         GetStartTime, GetUniqueId, Issue, server
<1>2. lastTime \in Nat /\ \A x \in HelloTimes : x.ms \in Nat
  BY DEF TypeOK, HelloTimes, Times
<1>3. CASE \E t \in Threads : GenStore(t)
  <2>1. PICK t \in Threads : GenStore(t)
    BY <1>3
  <2>2. /\ now[t] \in HelloTimes /\ lastTime < now[t].ms /\ lastTime' = now[t].ms
        /\ \A p \in Procs : ~Has(p, now[t])
    BY <2>1, StoreFresh
  <2>3. ASSUME NEW p \in Procs, NEW x \in HelloTimes, Has(p, x)'
        PROVE  Has(p, x) \/ (p = Owner[t] /\ x = now[t])
    BY <2>1, <2>3, HasStep, OneStore
  <2>4. Behind'
    BY <1>2, <2>2, <2>3 DEF Behind
  <2>5. Apart'
    BY <2>2, <2>3 DEF Apart
  <2> QED BY <2>4, <2>5
<1>4. CASE lastTime' = lastTime /\ ~\E t \in Threads : GenStore(t)
  <2>1. ASSUME NEW p \in Procs, NEW x \in HelloTimes, Has(p, x)'
        PROVE  Has(p, x)
    BY <1>4, <2>1, HasStep
  <2> QED BY <1>4, <2>1 DEF Behind, Apart
<1> QED BY <1>1, <1>3, <1>4

\* Hello messages that have been sent carry different times.
LEMMA DistinctStep ==
    ASSUME Owner \in [Threads -> Procs], TypeOK, Shape, Ahead, Behind, HelloTimesDistinct,
           Next, ~raced, ~raced'
    PROVE  HelloTimesDistinct'
<1> USE DEF HelloTimesDistinct, TypeOK
<1>1. CASE UNCHANGED server
  BY <1>1 DEF server
<1>2. ASSUME NEW t \in Threads, GenTime(t) \/ GenLoad(t)
      PROVE  HelloTimesDistinct'
  <2>1. /\ gen'[t] # "sent"
        /\ \A u \in Threads \ {t} : gen'[u] = gen[u] /\ now'[u] = now[u]
    BY <1>2 DEF GenTime, GenLoad
  <2>2. ASSUME NEW u \in Threads, NEW v \in Threads,
               gen'[u] = "sent", gen'[v] = "sent", now'[u] = now'[v]
        PROVE  u = v
    <3>1. u # t /\ v # t
      BY <2>1, <2>2
    <3> QED BY <2>1, <2>2, <3>1
  <2> QED BY <2>2
<1>3. ASSUME NEW t \in Threads, GenStore(t)
      PROVE  HelloTimesDistinct'
  <2>1. ASSUME NEW u \in Threads \ {t}, gen[u] = "sent"
        PROVE  now[u] # now[t]
    BY <1>3, <2>1, StoreFresh DEF Has
  <2>2. /\ now' = now /\ \A u \in Threads \ {t} : gen'[u] = gen[u]
    BY <1>3 DEF GenStore
  <2>3. ASSUME NEW u \in Threads, NEW v \in Threads,
               gen'[u] = "sent", gen'[v] = "sent", now[u] = now[v]
        PROVE  u = v
    <3>1. CASE u # t /\ v # t
      BY <2>2, <2>3, <3>1
    <3>2. CASE u = t \/ v = t
      BY <2>1, <2>2, <2>3, <3>2
    <3> QED BY <3>1, <3>2
  <2> QED BY <2>2, <2>3
<1>4. Next => \/ UNCHANGED server
              \/ \E t \in Threads : GenTime(t) \/ GenLoad(t) \/ GenStore(t)
  BY DEF Next, Step, Tick, HandleHelloMsg, SetStartTime, SetReady, GetStartTime, GetUniqueId, Issue
<1> QED BY <1>1, <1>2, <1>3, <1>4

-----------------------------------------------------------------------------
\* The invariant holds when the processes begin.
LEMMA IdInit ==
    ASSUME Owner \in [Threads -> Procs], Init
    PROVE  IdInv
<1> USE DEF Init, Times, NoTime
<1>1. TypeOK
  <2>1. issued \in [Procs -> Seq([id : Nat, time : Times])]
    BY EmptySequence
  <2> QED BY <2>1 DEF TypeOK
<1>2. Shape /\ Counted
  BY DEF Shape, Counted, Busy
<1>3. \A p \in Procs, x \in HelloTimes : ~Has(p, x)
  BY DEF Has, HelloTimes
<1>4. Ahead /\ Behind /\ Apart /\ HelloTimesDistinct
  BY <1>3 DEF Ahead, Behind, Apart, HelloTimesDistinct, Busy
<1> QED BY <1>1, <1>2, <1>4 DEF IdInv

\* It says that ids are unique.
LEMMA IdInvUnique ==
    ASSUME IdInv
    PROVE  IdsUnique
<1>1. TypeOK /\ HelloTimesDistinct
  BY DEF IdInv, HelloTimesDistinct
<1>2. ASSUME NEW p \in Procs, NEW q \in Procs,
             NEW i \in DOMAIN issued[p], NEW j \in DOMAIN issued[q],
             issued[p][i].time.hello, issued[p][i] = issued[q][j]
      PROVE  (p = q /\ i = j) \/ (raced /\ p # q)
  <2>1. p = q => i = j
    BY <1>2 DEF IdInv, Counted
  <2>2. issued[p][i].time \in HelloTimes
    <3>1. issued[p] \in Seq([id : Nat, time : Times])
      BY DEF IdInv, TypeOK
    <3>2. issued[p][i] \in [id : Nat, time : Times]
      BY <3>1, SeqElement
    <3> QED BY <1>2, <3>2 DEF HelloTimes
  <2>3. Has(p, issued[p][i].time) /\ Has(q, issued[p][i].time)
    BY <1>2 DEF Has
  <2>4. ~raced => p = q
    BY <2>2, <2>3 DEF IdInv, Apart
  <2> QED BY <2>1, <2>4
<1> QED BY <1>1, <1>2 DEF IdsUnique, TransactionIdsUnique

\* The transaction ids of one process always differ; so do those of all the processes
\* of a host and the start times of their hello messages, until two goroutines of
\* genHello have raced (GetUniqueId, HandleHelloMsg, genHello).
THEOREM IdsUniqueAlways ==
    ASSUME Owner \in [Threads -> Procs]
    PROVE  Spec => []IdsUnique
<1>1. Init => IdInv
  BY IdInit
<1>2. IdInv /\ [Next]_vars => IdInv'
  <2> SUFFICES ASSUME IdInv, [Next]_vars
               PROVE  IdInv'
    OBVIOUS
  <2>1. CASE Next
    <3>1. TypeOK' /\ Shape' /\ Counted'
      BY <2>1, TypeStep, ShapeStep, CountedStep DEF IdInv
    <3>2. raced => raced'
      BY <2>1 DEF Next, Step, Tick, GenTime, GenLoad, GenStore, HandleHelloMsg, SetStartTime,
                  SetReady, GetStartTime, GetUniqueId, Issue, server
    <3>3. ~raced' => Ahead' /\ Behind' /\ Apart' /\ HelloTimesDistinct'
      BY <2>1, <3>2, AheadStep, GivenStep, DistinctStep DEF IdInv
    <3> QED BY <3>1, <3>3 DEF IdInv
  <2>2. CASE UNCHANGED vars
    <3>1. TypeOK' = TypeOK
      BY <2>2 DEF vars, TypeOK
    <3>2. Shape' = Shape /\ Counted' = Counted
      BY <2>2 DEF vars, Shape, Counted, Busy
    <3>3. Ahead' = Ahead /\ HelloTimesDistinct' = HelloTimesDistinct
      BY <2>2 DEF vars, Ahead, Busy, HelloTimesDistinct
    <3>4. Behind' = Behind
      BY <2>2 DEF vars, Behind, Has
    <3>5. Apart' = Apart
      BY <2>2 DEF vars, Apart, Has
    <3>6. raced' = raced
      BY <2>2 DEF vars
    <3> QED BY <3>1, <3>2, <3>3, <3>4, <3>5, <3>6 DEF IdInv
  <2> QED BY <2>1, <2>2
<1>3. IdInv => IdsUnique
  BY IdInvUnique
<1> QED BY <1>1, <1>2, <1>3, PTL DEF Spec
=============================================================================
