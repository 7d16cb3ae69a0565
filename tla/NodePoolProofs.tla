--------------------------- MODULE NodePoolProofs ---------------------------
(***************************************************************************)
(* Proofs about NodePool for every number of threads, every cell size and  *)
(* limit, any clients (Owned or not), forced returns or not.               *)
(*                                                                         *)
(* PoolInv, about the pool alone, is inductive by itself.  TypeInv adds to *)
(* TypeOK what the locals of a thread satisfy at each pc and which of its  *)
(* wrapper slots are empty there.  RefInv needs both: a node that is taken *)
(* has no holder (PoolInv), and a slot that is filled was empty (TypeInv). *)
(***************************************************************************)
EXTENDS NodePool, FiniteSetTheorems, SequenceTheorems, TLAPS

\* The pool's own state.
PoolInv ==
    /\ maxId \in CELL_SIZE .. POOL_MAX_NODES_LIMIT + CELL_SIZE
    /\ free \in Seq(Ids)
    /\ used \in [Ids -> BOOLEAN]
    /\ PoolPartition

\* What the locals and the slots of thread u satisfy at each pc.
ThreadOK(u) ==
    /\ pc[u] \in {"upgrade", "bind", "link", "finish"} => job[u].new \in Ids
    /\ pc[u] \in {"refroot", "getnode", "bind", "link", "finish", "end", "walk"}
          => job[u].id \in Ids
    /\ pc[u] \in {"getnode", "bind", "link", "finish", "drop", "write"}
          => job[u].cur \in Ids
    /\ pc[u] \in {"refroot"} => job[u].op \in {"start", "status", "context"}
    /\ pc[u] \in {"idle", "upgrade", "parent", "free"} => hold[<<u, "node">>] = 0
    /\ pc[u] \in {"idle", "upgrade", "parent", "free", "refroot", "end"}
          => hold[<<u, "root">>] = 0

(* The five shapes of a step, seen from the pool and the counts.           *)

ShapeTake == (\E new \in 1 .. maxId + CELL_SIZE : GetNode(new)) /\ UNCHANGED hold
ShapeRefer ==
    /\ \E t \in Threads, s \in Slots, id \in Ids :
          ReferNode(t, s, id) /\ (ThreadOK(t) => hold[<<t, s>>] = 0)
    /\ UNCHANGED poolVars
ShapeRecycle ==
    /\ \E id \in Ids : used[id] /\ (refs[id] = 0 \/ Forced) /\ RecycleNode(id)
    /\ UNCHANGED <<refs, hold>>
ShapeRelease == (\E t \in Threads, s \in Slots : Unrefer(t, s)) /\ UNCHANGED poolVars
ShapeNone == UNCHANGED <<maxId, free, used, refs, hold>>

\* Every step of the specification has one of the five shapes.
LEMMA StepShape ==
    ASSUME [Next]_vars
    PROVE  ShapeTake \/ ShapeRefer \/ ShapeRecycle \/ ShapeRelease \/ ShapeNone
<1>1. CASE UNCHANGED vars
  BY <1>1 DEF vars, ShapeNone
<1>2. CASE Gone
  BY <1>2 DEF Gone, vars, ShapeNone
<1>3. ASSUME NEW t \in Threads, Step(t)
      PROVE  ShapeTake \/ ShapeRefer \/ ShapeRecycle \/ ShapeRelease \/ ShapeNone
  <2>1. CASE StartRoot(t)
    BY <2>1 DEF StartRoot, ShapeTake
  <2>2. ASSUME NEW op \in Ops, NEW id \in known, Call(t, op, id)
        PROVE  ShapeRefer
    BY <2>2 DEF Call, MayCall, ReferNode, Alive, Slots, ShapeRefer, ThreadOK
  <2>3. CASE Rejected(t)
    BY <2>3 DEF Rejected, vars, ShapeNone
  <2>4. CASE Upgrade(t)
    BY <2>4 DEF Upgrade, poolVars, ShapeNone
  <2>5. CASE ReferRoot(t)
    BY <2>5 DEF ReferRoot, ReferNode, Alive, Slots, poolVars, ShapeRefer, ShapeNone,
                ThreadOK
  <2>6. CASE GetChild(t)
    BY <2>6 DEF GetChild, poolVars, ShapeTake, ShapeNone
  <2>7. CASE NullExtra(t)
    BY <2>7 DEF NullExtra, poolVars, ShapeNone
  <2>8. CASE Bind(t)
    BY <2>8 DEF Bind, poolVars, ShapeNone
  <2>9. CASE LinkLast(t)
    BY <2>9 DEF LinkLast, poolVars, ShapeNone
  <2>10. CASE FinishAppend(t)
    BY <2>10 DEF FinishAppend, poolVars, ShapeNone
  <2>11. CASE WriteRoot(t)
    BY <2>11 DEF WriteRoot, poolVars, ShapeNone
  <2>12. CASE EndTrace(t)
    BY <2>12 DEF EndTrace, ReferNode, Alive, Slots, poolVars, ShapeRefer, ShapeNone,
                ThreadOK
  <2>13. CASE Walk(t)
    BY <2>13 DEF Walk, poolVars, ShapeNone
  <2>14. CASE Send(t)
    BY <2>14 DEF Send, poolVars, ShapeNone
  <2>15. CASE Release(t)
    BY <2>15 DEF Release, Slots, poolVars, ShapeRelease
  <2>16. CASE Left(t)
    BY <2>16 DEF Left, poolVars, ShapeNone
  <2>17. CASE EndParent(t)
    BY <2>17 DEF EndParent, ReferNode, Alive, Slots, poolVars, ShapeRefer, ShapeNone,
                ThreadOK
  <2>18. CASE ReturnNode(t)
    BY <2>18 DEF ReturnNode, Alive, poolVars, ShapeRecycle, ShapeNone
  <2>19. CASE DropNode(t)
    BY <2>19 DEF DropNode, Slots, poolVars, ShapeRelease
  <2> QED
    BY <1>3, <2>1, <2>2, <2>3, <2>4, <2>5, <2>6, <2>7, <2>8, <2>9, <2>10, <2>11,
       <2>12, <2>13, <2>14, <2>15, <2>16, <2>17, <2>18, <2>19 DEF Step, Inside
<1> QED
  BY <1>1, <1>2, <1>3 DEF Next
-----------------------------------------------------------------------------
\* A non-empty sequence without its last element.
LEMMA FrontProperties ==
    ASSUME NEW S, NEW s \in Seq(S), s # <<>>
    PROVE  /\ Len(s) \in Nat /\ Len(s) > 0 /\ s[Len(s)] \in S
           /\ SubSeq(s, 1, Len(s) - 1) \in Seq(S)
           /\ Len(SubSeq(s, 1, Len(s) - 1)) = Len(s) - 1
           /\ \A i \in 1 .. Len(s) - 1 : SubSeq(s, 1, Len(s) - 1)[i] = s[i]
<1>1. Len(s) \in Nat /\ Len(s) > 0 /\ s[Len(s)] \in S
  BY EmptySeq, LenProperties, ElementOfSeq
<1>2. \A i \in 1 .. Len(s) - 1 : s[i] \in S
  BY <1>1, ElementOfSeq
<1> DEFINE k == Len(s) - 1
<1>3. 1 \in Int /\ k \in Int /\ k >= 0 /\ k - 1 + 1 = k
  BY <1>1
<1>4. \A i \in 1 .. k : s[i] \in S
  BY <1>2
<1> HIDE DEF k
<1>5. /\ SubSeq(s, 1, k) \in Seq(S)
      /\ Len(SubSeq(s, 1, k)) = IF 1 <= k THEN k - 1 + 1 ELSE 0
      /\ \A i \in 1 .. k - 1 + 1 : SubSeq(s, 1, k)[i] = s[1 + i - 1]
  BY <1>3, <1>4, SubSeqProperties
<1>6. Len(SubSeq(s, 1, k)) = k
  BY <1>3, <1>5
<1>7. ASSUME NEW i \in 1 .. k
      PROVE  SubSeq(s, 1, k)[i] = s[i]
  <2>1. i \in 1 .. k - 1 + 1 /\ 1 + i - 1 = i
    BY <1>3
  <2> QED
    BY <1>5, <2>1, Zenon
<1> QED
  BY <1>1, <1>5, <1>6, <1>7 DEF k

\* Taking the top of the free stack moves one id from one side to the other.
LEMMA TakePartition ==
    ASSUME NEW m \in Nat, NEW fr \in Seq(1 .. m), fr # <<>>,
           NEW us \in [1 .. m -> BOOLEAN], Partition(m, fr, us)
    PROVE  /\ fr[Len(fr)] \in 1 .. m
           /\ ~us[fr[Len(fr)]]
           /\ SubSeq(fr, 1, Len(fr) - 1) \in Seq(1 .. m)
           /\ Partition(m, SubSeq(fr, 1, Len(fr) - 1),
                        [us EXCEPT ![fr[Len(fr)]] = TRUE])
<1> DEFINE n == Len(fr)
           fr2 == SubSeq(fr, 1, n - 1)
           us2 == [us EXCEPT ![fr[n]] = TRUE]
<1>1. n \in Nat /\ n > 0 /\ fr[n] \in 1 .. m
  BY EmptySeq, LenProperties, ElementOfSeq
<1>2. ~us[fr[n]]
  BY <1>1 DEF Partition
<1>3. fr2 \in Seq(1 .. m) /\ Len(fr2) = n - 1 /\ \A i \in 1 .. n - 1 : fr2[i] = fr[i]
  BY FrontProperties
<1>4. \A i, j \in 1 .. Len(fr2) : fr2[i] = fr2[j] => i = j
  <2>1. \A i, j \in 1 .. n : fr[i] = fr[j] => i = j
    BY DEF Partition
  <2> HIDE DEF fr2, n
  <2> QED
    BY <1>1, <1>3, <2>1
<1>5. ASSUME NEW i \in 1 .. m
      PROVE  us2[i] <=> \A k \in 1 .. Len(fr2) : fr2[k] # i
  <2>1. CASE i = fr[n]
    <3>1. us2[i] = TRUE
      BY <2>1, <1>1
    <3>2. \A k \in 1 .. n - 1 : fr[k] # fr[n]
      BY <1>1 DEF Partition
    <3> QED
      BY <3>1, <3>2, <2>1, <1>3
  <2>2. CASE i # fr[n]
    <3>1. us2[i] = us[i]
      BY <2>2, <1>1
    <3>2. (\A k \in 1 .. n : fr[k] # i) <=> (\A k \in 1 .. n - 1 : fr[k] # i)
      BY <2>2, <1>1
    <3>3. us[i] <=> \A k \in 1 .. n : fr[k] # i
      BY DEF Partition
    <3> QED
      BY <3>1, <3>2, <3>3, <1>3
  <2> QED
    BY <2>1, <2>2
<1> QED
  BY <1>1, <1>2, <1>3, <1>4, <1>5 DEF Partition

\* A fresh cell on the stack of an empty pool: what expandOnce leaves behind.
LEMMA GrowPartition ==
    ASSUME PoolInv, free = <<>>
    PROVE  LET fr == [k \in 1 .. CELL_SIZE |-> maxId + k]
               m == maxId + CELL_SIZE
           IN  /\ m \in Nat
               /\ fr \in Seq(1 .. m) /\ fr # <<>>
               /\ Grow(used, FALSE) \in [1 .. m -> BOOLEAN]
               /\ Partition(m, fr, Grow(used, FALSE))
<1> DEFINE fr == [k \in 1 .. CELL_SIZE |-> maxId + k]
           m == maxId + CELL_SIZE
           us == Grow(used, FALSE)
<1>1. maxId \in Nat /\ CELL_SIZE \in Nat \ {0} /\ m \in Nat
  BY CellAssumption, LimitAssumption DEF PoolInv
<1>2. fr \in [1 .. CELL_SIZE -> 1 .. m]
  BY <1>1
<1>3. fr \in Seq(1 .. m) /\ Len(fr) = CELL_SIZE /\ fr # <<>>
  BY <1>1, <1>2
<1>4. us \in [1 .. m -> BOOLEAN]
  BY <1>1 DEF Grow, PoolInv, Ids
<1>5. \A i, j \in 1 .. Len(fr) : fr[i] = fr[j] => i = j
  BY <1>1, <1>3
<1>6. ASSUME NEW i \in 1 .. m
      PROVE  us[i] <=> \A k \in 1 .. Len(fr) : fr[k] # i
  <2>1. CASE i \in Ids
    <3>1. us[i] = used[i]
      BY <2>1 DEF Grow
    <3>2. \A k \in 1 .. Len(free) : free[k] # i
      BY DEF PoolInv
    <3>3. used[i]
      BY <3>2, <2>1 DEF PoolInv, PoolPartition, Partition, Ids
    <3>4. \A k \in 1 .. CELL_SIZE : maxId + k # i
      BY <1>1, <2>1 DEF Ids
    <3> QED
      BY <3>1, <3>3, <3>4, <1>3
  <2>2. CASE i \notin Ids
    <3>1. us[i] = FALSE
      BY <2>2 DEF Grow
    <3>2. i - maxId \in 1 .. CELL_SIZE /\ fr[i - maxId] = i
      BY <1>1, <2>2 DEF Ids
    <3> QED
      BY <3>1, <3>2, <1>3
  <2> QED
    BY <2>1, <2>2
<1> HIDE DEF fr, us
<1>7. Partition(m, fr, us)
  BY <1>5, <1>6 DEF Partition
<1> QED
  BY <1>1, <1>3, <1>4, <1>7 DEF fr, us

\* What GetNode does to the pool: the node was not in use, and PoolInv stays.
LEMMA TakePool ==
    ASSUME PoolInv, NEW new, GetNode(new)
    PROVE  PoolInv' /\ new \in Ids' /\ (new \in Ids => ~used[new])
<1>0. maxId \in Nat /\ CELL_SIZE \in Nat \ {0} /\ POOL_MAX_NODES_LIMIT \in Nat
  BY CellAssumption, LimitAssumption DEF PoolInv
<1>1. CASE /\ free # <<>>
           /\ Take(free, used, node, refs, new)
           /\ UNCHANGED maxId
  <2>1. /\ free \in Seq(1 .. maxId) /\ used \in [1 .. maxId -> BOOLEAN]
        /\ Partition(maxId, free, used)
    BY DEF PoolInv, Ids, PoolPartition
  <2>2. /\ new \in 1 .. maxId /\ ~used[new]
        /\ free' \in Seq(1 .. maxId)
        /\ Partition(maxId, free', used')
    BY <1>0, <1>1, <2>1, TakePartition DEF Take
  <2>3. used' \in [1 .. maxId -> BOOLEAN]
    BY <1>1, <2>1 DEF Take
  <2> QED
    BY <1>1, <2>2, <2>3 DEF PoolInv, Ids, PoolPartition
<1>2. CASE /\ free = <<>>
           /\ ~(maxId > POOL_MAX_NODES_LIMIT)
           /\ Take([k \in 1 .. CELL_SIZE |-> maxId + k],
                   Grow(used, FALSE), Grow(node, TraceNode), Grow(refs, 0), new)
           /\ maxId' = maxId + CELL_SIZE
  <2> DEFINE fr == [k \in 1 .. CELL_SIZE |-> maxId + k]
             m == maxId + CELL_SIZE
             us == Grow(used, FALSE)
  <2>1. /\ m \in Nat /\ fr \in Seq(1 .. m) /\ fr # <<>>
        /\ us \in [1 .. m -> BOOLEAN] /\ Partition(m, fr, us)
    BY <1>2, GrowPartition
  <2>2. /\ new = fr[Len(fr)]
        /\ free' = SubSeq(fr, 1, Len(fr) - 1)
        /\ used' = [us EXCEPT ![new] = TRUE]
    BY <1>2 DEF Take
  <2>3. new \notin Ids
    <3>1. Len(fr) = CELL_SIZE
      BY <1>0
    <3> QED
      BY <3>1, <2>2, <1>0 DEF Ids
  <2> HIDE DEF fr, us, m
  <2>4. /\ new \in 1 .. m
        /\ free' \in Seq(1 .. m)
        /\ Partition(m, free', used')
    BY <2>1, <2>2, TakePartition
  <2>5. used' \in [1 .. m -> BOOLEAN]
    BY <2>1, <2>2
  <2>6. maxId' = m /\ m \in CELL_SIZE .. POOL_MAX_NODES_LIMIT + CELL_SIZE
    BY <1>0, <1>2 DEF m
  <2> QED
    BY <2>3, <2>4, <2>5, <2>6 DEF PoolInv, Ids, PoolPartition
<1> QED
  BY <1>1, <1>2 DEF GetNode

\* What returnNode does to the pool.
LEMMA RecyclePool ==
    ASSUME PoolInv, NEW id \in Ids, used[id], RecycleNode(id)
    PROVE  PoolInv'
<1>1. /\ free' = Append(free, id) /\ used' = [used EXCEPT ![id] = FALSE]
      /\ maxId' = maxId /\ Ids' = Ids /\ maxId \in Nat
  BY CellAssumption, LimitAssumption DEF RecycleNode, PoolInv, Ids
<1>2. /\ free \in Seq(Ids) /\ Len(free) \in Nat
      /\ free' \in Seq(Ids) /\ Len(free') = Len(free) + 1
      /\ \A k \in 1 .. Len(free) : free'[k] = free[k]
      /\ free'[Len(free) + 1] = id
  BY <1>1, AppendProperties, LenProperties DEF PoolInv
<1>3. used' \in [Ids -> BOOLEAN]
  BY <1>1 DEF PoolInv
<1>4. \A k \in 1 .. Len(free) : free[k] # id
  BY DEF PoolInv, PoolPartition, Partition, Ids
<1>5. \A i, j \in 1 .. Len(free') : free'[i] = free'[j] => i = j
  BY <1>2, <1>4 DEF PoolInv, PoolPartition, Partition
<1>6. ASSUME NEW i \in Ids
      PROVE  used'[i] <=> \A k \in 1 .. Len(free') : free'[k] # i
  <2>1. CASE i = id
    BY <1>1, <1>2, <2>1 DEF PoolInv
  <2>2. CASE i # id
    <3>1. used'[i] = used[i]
      BY <1>1, <2>2 DEF PoolInv
    <3>2. used[i] <=> \A k \in 1 .. Len(free) : free[k] # i
      BY DEF PoolInv, PoolPartition, Partition, Ids
    <3>3. (\A k \in 1 .. Len(free') : free'[k] # i)
             <=> (\A k \in 1 .. Len(free) : free[k] # i)
      BY <1>2, <2>2
    <3> QED
      BY <3>1, <3>2, <3>3
  <2> QED
    BY <2>1, <2>2
<1> QED
  BY <1>1, <1>2, <1>3, <1>5, <1>6 DEF PoolInv, PoolPartition, Partition, Ids

\* PoolInv is inductive on its own.
LEMMA PoolInvStep ==
    ASSUME PoolInv, [Next]_vars
    PROVE  PoolInv'
<1>1. CASE ShapeTake
  BY <1>1, TakePool DEF ShapeTake
<1>2. CASE ShapeRecycle
  BY <1>2, RecyclePool DEF ShapeRecycle
<1>3. CASE UNCHANGED poolVars
  BY <1>3 DEF poolVars, PoolInv, PoolPartition, Partition, Ids
<1> QED
  BY <1>1, <1>2, <1>3, StepShape DEF ShapeRefer, ShapeRelease, ShapeNone, poolVars

\* The first cell is all free.
LEMMA PoolInvInit ==
    ASSUME Init
    PROVE  PoolInv
<1>1. /\ maxId = CELL_SIZE /\ CELL_SIZE \in Nat \ {0} /\ POOL_MAX_NODES_LIMIT \in Nat
      /\ free = [i \in 1 .. CELL_SIZE |-> i]
      /\ used = [i \in 1 .. CELL_SIZE |-> FALSE]
  BY CellAssumption, LimitAssumption DEF Init
<1>2. free \in Seq(Ids) /\ Len(free) = CELL_SIZE
  BY <1>1 DEF Ids
<1>3. used \in [Ids -> BOOLEAN]
  BY <1>1 DEF Ids
<1>4. PoolPartition
  <2>1. \A i, j \in 1 .. Len(free) : free[i] = free[j] => i = j
    BY <1>1, <1>2
  <2>2. ASSUME NEW i \in 1 .. maxId
        PROVE  ~used[i] /\ free[i] = i /\ i \in 1 .. Len(free)
    BY <1>1, <1>2
  <2> QED
    BY <2>1, <2>2 DEF PoolPartition, Partition
<1> QED
  BY <1>1, <1>2, <1>3, <1>4 DEF PoolInv

\* The free stack and the flags partition the ids in every state of every
\* behaviour, whatever ids the clients pass and whether or not returns are
\* forced: no node is ever handed to two callers at once.
THEOREM PoolPartitionAlways == Spec => []PoolPartition
<1>1. Init => PoolInv
  BY PoolInvInit
<1>2. PoolInv /\ [Next]_vars => PoolInv'
  BY PoolInvStep
<1>3. PoolInv => PoolPartition
  BY DEF PoolInv
<1> QED
  BY <1>1, <1>2, <1>3, PTL DEF Spec
-----------------------------------------------------------------------------
TypeInv == TypeOK /\ \A u \in Threads : ThreadOK(u)

\* The part of TypeOK that PoolInv leaves open.
RestOK ==
    /\ node \in [Ids -> NodeType]
    /\ refs \in [Ids -> Int]
    /\ hold \in [Threads \X Slots -> Ids \cup {0}]
    /\ pc \in [Threads -> PCs]
    /\ job \in [Threads -> JobType]
    /\ known \subseteq Ids
    /\ traces \in Nat
    /\ calls \in 0 .. MaxCalls

\* Only t moved: the other threads are as they were.
LEMMA GotoOthers ==
    ASSUME TypeInv, Ids \subseteq Ids', NEW t \in Threads,
           NEW p \in PCs, NEW j \in JobType, Goto(t, p, j),
           \A h \in (Threads \ {t}) \X Slots : hold'[h] = hold[h]
    PROVE  /\ pc' \in [Threads -> PCs] /\ job' \in [Threads -> JobType]
           /\ pc'[t] = p /\ job'[t] = j
           /\ \A u \in Threads \ {t} : ThreadOK(u)'
<1>1. pc \in [Threads -> PCs] /\ job \in [Threads -> JobType]
  BY DEF TypeInv, TypeOK
<1>2. /\ pc' \in [Threads -> PCs] /\ job' \in [Threads -> JobType]
      /\ pc'[t] = p /\ job'[t] = j
      /\ \A u \in Threads \ {t} : pc'[u] = pc[u] /\ job'[u] = job[u]
  BY <1>1 DEF Goto
<1>3. ASSUME NEW u \in Threads \ {t}
      PROVE  ThreadOK(u)'
  <2>1. hold'[<<u, "node">>] = hold[<<u, "node">>] /\ hold'[<<u, "root">>] = hold[<<u, "root">>]
    BY DEF Slots
  <2> QED
    BY <2>1, <1>2 DEF TypeInv, ThreadOK
<1> QED
  BY <1>2, <1>3

\* The shapes of hold' for a step of t.
LEMMA ReferHold ==
    ASSUME TypeInv, NEW t \in Threads, NEW s \in Slots, NEW id, ReferNode(t, s, id)
    PROVE  /\ id \in Ids /\ used[id]
           /\ hold' \in [Threads \X Slots -> Ids \cup {0}]
           /\ refs' \in [Ids -> Int]
           /\ hold'[<<t, s>>] = id
           /\ \A h \in (Threads \X Slots) \ {<<t, s>>} : hold'[h] = hold[h]
           /\ \A h \in (Threads \ {t}) \X Slots : hold'[h] = hold[h]
<1>1. hold \in [Threads \X Slots -> Ids \cup {0}] /\ refs \in [Ids -> Int]
  BY DEF TypeInv, TypeOK
<1>2. id \in Ids /\ used[id]
  BY DEF ReferNode, Alive
<1>3. <<t, s>> \in Threads \X Slots
  OBVIOUS
<1>4. \A h \in (Threads \ {t}) \X Slots : h \in (Threads \X Slots) \ {<<t, s>>}
  OBVIOUS
<1> QED
  BY <1>1, <1>2, <1>3, <1>4 DEF ReferNode

\* A wrapper that goes away held a node, and leaves counts of the right type.
LEMMA UnreferHold ==
    ASSUME TypeInv, NEW t \in Threads, NEW s \in Slots, Unrefer(t, s)
    PROVE  /\ hold[<<t, s>>] \in Ids
           /\ hold' \in [Threads \X Slots -> Ids \cup {0}]
           /\ refs' \in [Ids -> Int]
           /\ hold'[<<t, s>>] = 0
           /\ \A h \in (Threads \X Slots) \ {<<t, s>>} : hold'[h] = hold[h]
           /\ \A h \in (Threads \ {t}) \X Slots : hold'[h] = hold[h]
<1>1. hold \in [Threads \X Slots -> Ids \cup {0}] /\ refs \in [Ids -> Int]
  BY DEF TypeInv, TypeOK
<1>2. <<t, s>> \in Threads \X Slots
  OBVIOUS
<1>3. hold[<<t, s>>] \in Ids
  BY <1>1, <1>2 DEF Unrefer
<1>4. \A h \in (Threads \ {t}) \X Slots : h \in (Threads \X Slots) \ {<<t, s>>}
  OBVIOUS
<1> QED
  BY <1>1, <1>2, <1>3, <1>4 DEF Unrefer

\* The nodes that are built from nothing have the type of a node.
LEMMA NodeTypes ==
    TraceNode \in NodeType /\ \A n \in NodeType : Reset(n) \in NodeType
<1>1. <<>> \in Seq(Int)
  OBVIOUS
<1>2. TraceNode \in NodeType
  BY <1>1 DEF TraceNode, NodeType, NodeRefs, E_INVALID_NODE
<1>3. ASSUME NEW n \in NodeType
      PROVE  Reset(n) \in NodeType
  <2>1. n.depth \in Int /\ n.seq \in Int
    BY DEF NodeType
  <2>2. \A r \in NodeType, a, b \in Int : [r EXCEPT !.depth = a, !.seq = b] \in NodeType
    BY DEF NodeType
  <2> QED
    BY <1>2, <2>1, <2>2 DEF Reset
<1> QED
  BY <1>2, <1>3

\* A taken node keeps the types, and is one of the ids.
LEMMA TakeType ==
    ASSUME PoolInv, TypeInv, NEW new, GetNode(new)
    PROVE  /\ new \in Ids' /\ Ids \subseteq Ids'
           /\ node' \in [Ids' -> NodeType]
           /\ refs' \in [Ids' -> Int]
<1>0. maxId \in Nat /\ CELL_SIZE \in Nat \ {0}
  BY CellAssumption, LimitAssumption DEF PoolInv
<1>1. new \in Ids'
  BY TakePool
<1>2. node \in [Ids -> NodeType] /\ refs \in [Ids -> Int]
  BY DEF TypeInv, TypeOK
<1>3. TraceNode \in NodeType /\ \A n \in NodeType : Reset(n) \in NodeType
  BY NodeTypes
<1>4. CASE free # <<>> /\ Take(free, used, node, refs, new) /\ UNCHANGED maxId
  <2>1. Ids' = Ids
    BY <1>4 DEF Ids
  <2>2. node' = [node EXCEPT ![new] = Reset(@)] /\ refs' = [refs EXCEPT ![new] = 0]
    BY <1>4 DEF Take
  <2>3. Reset(node[new]) \in NodeType
    BY <1>1, <1>2, <1>3, <2>1
  <2> QED
    BY <1>1, <1>2, <2>1, <2>2, <2>3
<1>5. CASE /\ Take([k \in 1 .. CELL_SIZE |-> maxId + k],
                   Grow(used, FALSE), Grow(node, TraceNode), Grow(refs, 0), new)
           /\ maxId' = maxId + CELL_SIZE
  <2> DEFINE nd == Grow(node, TraceNode)
             rf == Grow(refs, 0)
  <2>1. Ids' = 1 .. maxId + CELL_SIZE /\ Ids \subseteq Ids'
    BY <1>0, <1>5 DEF Ids
  <2>2. nd \in [Ids' -> NodeType]
    BY <1>2, <1>3, <2>1 DEF Grow
  <2>3. rf \in [Ids' -> Int]
    BY <1>2, <2>1 DEF Grow
  <2>4. node' = [nd EXCEPT ![new] = Reset(@)] /\ refs' = [rf EXCEPT ![new] = 0]
    BY <1>5 DEF Take
  <2> HIDE DEF nd, rf
  <2>5. Reset(nd[new]) \in NodeType
    BY <1>1, <1>3, <2>2
  <2> QED
    BY <1>1, <2>1, <2>2, <2>3, <2>4, <2>5
<1> QED
  BY <1>4, <1>5 DEF GetNode

\* The updates of a node keep its type.
LEMMA UpgradeType ==
    ASSUME NEW n \in NodeType, NEW id \in Int, NEW tr \in Int
    PROVE  UpgradeToRootNode(n, id, tr) \in NodeType
BY DEF UpgradeToRootNode, NodeType, NodeRefs, E_INVALID_NODE

\* A node stays a node when a child is appended to it.
LEMMA AppendedType ==
    ASSUME NEW n \in NodeType, NEW new \in Int
    PROVE  Appended(n, new) \in NodeType
<1>1. ASSUME NEW a \in Int, NEW b \in Int, NEW c \in Int
      PROVE  [n EXCEPT !.last = a, !.sequence = b, !.next = c] \in NodeType
  BY DEF NodeType, NodeRefs
<1>2. n.sequence + 1 \in Int /\ (IF n.next = E_INVALID_NODE THEN new ELSE n.next) \in Int
  BY DEF NodeType, NodeRefs
<1> QED
  BY <1>1, <1>2 DEF Appended

\* A node stays a node when it is bound to its parent and root.
LEMMA BoundType ==
    ASSUME NEW n \in NodeType, NEW p \in Int, node[p].depth \in Int,
           NEW r \in Int, NEW tr \in Int
    PROVE  [BindParentTrace(n, p) EXCEPT !.root = r, !.trace = tr] \in NodeType
<1>1. ASSUME NEW a \in Int, NEW b \in Int
      PROVE  [n EXCEPT !.parent = a, !.depth = b] \in NodeType
  BY DEF NodeType, NodeRefs
<1>2. node[p].depth + 1 \in Int
  OBVIOUS
<1>3. BindParentTrace(n, p) \in NodeType
  BY <1>1, <1>2 DEF BindParentTrace
<1>4. \A m \in NodeType : [m EXCEPT !.root = r, !.trace = tr] \in NodeType
  BY DEF NodeType, NodeRefs
<1> QED
  BY <1>3, <1>4

\* A node stays a node when one of its fields is assigned.
LEMMA FieldTypes ==
    ASSUME NEW n \in NodeType
    PROVE  /\ [n EXCEPT !.ended = TRUE] \in NodeType
           /\ \A i \in Int : [n EXCEPT !.next = i] \in NodeType
           /\ \A i \in Int : [n EXCEPT !.seq = i] \in NodeType
           /\ \A i \in Int : [n EXCEPT !.ctx = i] \in NodeType
           /\ \A x \in {"PASS", "BLOCK"} : [n EXCEPT !.status = x] \in NodeType
           /\ \A i \in Int : [n EXCEPT !.events = Append(@, i)] \in NodeType
<1>1. \A i \in Int : Append(n.events, i) \in Seq(Int)
  BY AppendProperties DEF NodeType
<1> QED
  BY <1>1 DEF NodeType, NodeRefs

\* A step of t that moves its pc and locals, and at most its own slots.
LEMMA TypeGoto ==
    ASSUME TypeInv, NEW t \in Threads, NEW p \in PCs, NEW j \in JobType, Goto(t, p, j),
           UNCHANGED poolVars, UNCHANGED <<traces, calls>>, known' \subseteq Ids,
           node' \in [Ids -> NodeType], refs' \in [Ids -> Int],
           hold' \in [Threads \X Slots -> Ids \cup {0}],
           \A h \in (Threads \ {t}) \X Slots : hold'[h] = hold[h],
           Ids' = Ids /\ pc'[t] = p /\ job'[t] = j => ThreadOK(t)'
    PROVE  RestOK' /\ \A u \in Threads : ThreadOK(u)'
<1>1. Ids' = Ids /\ Ids \subseteq Ids'
  BY DEF poolVars, Ids
<1>2. /\ pc' \in [Threads -> PCs] /\ job' \in [Threads -> JobType]
      /\ pc'[t] = p /\ job'[t] = j
      /\ \A u \in Threads \ {t} : ThreadOK(u)'
  BY <1>1, GotoOthers
<1>3. traces' \in Nat /\ calls' \in 0 .. MaxCalls
  BY DEF TypeInv, TypeOK
<1> QED
  BY <1>1, <1>2, <1>3 DEF RestOK

\* The same without any change of the slots and the counts.
LEMMA TypeGotoQuiet ==
    ASSUME TypeInv, NEW t \in Threads, NEW p \in PCs, NEW j \in JobType, Goto(t, p, j),
           UNCHANGED poolVars, UNCHANGED <<traces, calls>>, known' \subseteq Ids,
           node' \in [Ids -> NodeType], UNCHANGED <<refs, hold>>,
           Ids' = Ids /\ pc'[t] = p /\ job'[t] = j => ThreadOK(t)'
    PROVE  RestOK' /\ \A u \in Threads : ThreadOK(u)'
<1>1. refs' \in [Ids -> Int] /\ hold' \in [Threads \X Slots -> Ids \cup {0}]
  BY DEF TypeInv, TypeOK
<1> QED
  BY <1>1, TypeGoto

\* Leaving a call needs nothing of the locals.
LEMMA TypeLeave ==
    ASSUME TypeInv, NEW t \in Threads, NEW j \in JobType,
           NEW then \in {"idle", "parent", "free"}, Leave(t, j, then),
           UNCHANGED poolVars, UNCHANGED <<traces, calls>>, known' \subseteq Ids,
           node' \in [Ids -> NodeType], UNCHANGED <<refs, hold>>
    PROVE  RestOK' /\ \A u \in Threads : ThreadOK(u)'
<1> DEFINE j2 == [j EXCEPT !.then = then]
<1>1. j2 \in JobType /\ "unwind" \in PCs /\ Goto(t, "unwind", j2)
  BY DEF JobType, PCs, Leave
<1> HIDE DEF j2
<1>2. pc'[t] = "unwind" => ThreadOK(t)'
  BY DEF ThreadOK
<1> QED
  BY <1>1, <1>2, TypeGotoQuiet

\* Every step of a thread keeps the types and the facts about its locals.
LEMMA TypeThread ==
    ASSUME PoolInv, PoolInv', TypeInv, NEW t \in Threads, Step(t)
    PROVE  RestOK' /\ \A u \in Threads : ThreadOK(u)'
<1> DEFINE Goal == RestOK' /\ \A u \in Threads : ThreadOK(u)'
<1>a. /\ node \in [Ids -> NodeType] /\ refs \in [Ids -> Int]
      /\ hold \in [Threads \X Slots -> Ids \cup {0}]
      /\ pc \in [Threads -> PCs] /\ job \in [Threads -> JobType]
      /\ known \subseteq Ids /\ traces \in Nat /\ calls \in 0 .. MaxCalls
      /\ maxId \in Nat /\ CELL_SIZE \in Nat \ {0} /\ MaxCalls \in Nat
      /\ job[t] \in JobType
  BY CellAssumption, LimitAssumption, CallsAssumption DEF TypeInv, TypeOK, PoolInv
<1>b. ThreadOK(t)
  BY DEF TypeInv
<1>c. NoJob \in JobType
  BY DEF NoJob, JobType, NodeRefs, E_INVALID_NODE
<1>d. \A i \in Ids : node[i] \in NodeType
  BY <1>a
<1>e. UNCHANGED poolVars => Ids' = Ids /\ Ids \subseteq Ids'
  BY DEF poolVars, Ids
<1>1. CASE StartRoot(t)
  <2>1. PICK new \in 1 .. maxId + CELL_SIZE :
           /\ GetNode(new)
           /\ Goto(t, "upgrade", [NoJob EXCEPT !.op = "root", !.new = new,
                                               !.trace = traces + 1])
    BY <1>1 DEF StartRoot
  <2> DEFINE j == [NoJob EXCEPT !.op = "root", !.new = new, !.trace = traces + 1]
  <2>2. /\ new \in Ids' /\ Ids \subseteq Ids'
        /\ node' \in [Ids' -> NodeType] /\ refs' \in [Ids' -> Int]
    BY <2>1, TakeType
  <2>3. new \in Int /\ traces + 1 \in Int
    BY <1>a
  <2>4. j \in JobType /\ j.new = new
    BY <1>c, <2>3 DEF JobType, NoJob
  <2>5. hold' = hold /\ known' = known /\ traces' = traces + 1 /\ calls' \in 0 .. MaxCalls
    BY <1>1, <1>a DEF StartRoot
  <2>6. Goto(t, "upgrade", j) /\ "upgrade" \in PCs
    BY <2>1 DEF PCs
  <2> HIDE DEF j
  <2>7. /\ pc' \in [Threads -> PCs] /\ job' \in [Threads -> JobType]
        /\ pc'[t] = "upgrade" /\ job'[t] = j
        /\ \A u \in Threads \ {t} : ThreadOK(u)'
    BY <2>2, <2>4, <2>5, <2>6, GotoOthers
  <2>8. pc[t] = "idle"
    BY <1>1 DEF StartRoot
  <2>9. ThreadOK(t)'
    BY <2>2, <2>4, <2>5, <2>7, <2>8, <1>b DEF ThreadOK
  <2>10. hold' \in [Threads \X Slots -> Ids' \cup {0}] /\ known' \subseteq Ids'
    BY <2>2, <2>5, <1>a
  <2> QED
    BY <1>a, <2>2, <2>5, <2>7, <2>9, <2>10 DEF RestOK
<1>2. ASSUME NEW op \in Ops, NEW id \in known, Call(t, op, id)
      PROVE  Goal
  <2> DEFINE j == [NoJob EXCEPT !.op = op, !.id = id, !.trace = node[id].trace]
  <2>1. /\ ReferNode(t, "node", id) /\ Goto(t, Entry(op), j) /\ UNCHANGED <<poolVars, node, traces>>
        /\ known' = KnownAfter(op, id) /\ calls' \in 0 .. MaxCalls /\ pc[t] = "idle"
    BY <1>2, <1>a DEF Call, MayCall
  <2>2. id \in Ids /\ id \in Int /\ node[id].trace \in Int
    BY <1>a, <1>d DEF Ids, NodeType
  <2>3. j \in JobType /\ j.id = id /\ j.op = op
    BY <1>c, <2>2 DEF JobType, NoJob
  <2>4. Entry(op) \in PCs /\ Entry(op) \in {"refroot", "end"}
        /\ (Entry(op) = "refroot" => op \in {"start", "status", "context"})
    BY DEF Entry, PCs, Ops
  <2>5. Ids' = Ids /\ Ids \subseteq Ids'
    BY <2>1, <1>e
  <2>6. "node" \in Slots /\ "root" \in Slots /\ "node" # "root"
    BY DEF Slots
  <2>7. /\ hold' \in [Threads \X Slots -> Ids \cup {0}] /\ refs' \in [Ids -> Int]
        /\ \A h \in (Threads \X Slots) \ {<<t, "node">>} : hold'[h] = hold[h]
        /\ \A h \in (Threads \ {t}) \X Slots : hold'[h] = hold[h]
    BY <2>1, <2>6, ReferHold
  <2> HIDE DEF j
  <2>8. /\ pc' \in [Threads -> PCs] /\ job' \in [Threads -> JobType]
        /\ pc'[t] = Entry(op) /\ job'[t] = j
        /\ \A u \in Threads \ {t} : ThreadOK(u)'
    BY <2>1, <2>3, <2>4, <2>5, <2>7, GotoOthers
  <2>9. hold'[<<t, "root">>] = 0
    BY <2>1, <2>6, <2>7, <1>b DEF ThreadOK
  <2>10. ThreadOK(t)'
    BY <2>2, <2>3, <2>4, <2>5, <2>8, <2>9 DEF ThreadOK
  <2>11. known' \subseteq Ids
    BY <2>1, <1>a DEF KnownAfter
  <2> QED
    BY <1>a, <2>1, <2>5, <2>7, <2>8, <2>10, <2>11 DEF RestOK
<1>3. CASE Rejected(t)
  <2>1. UNCHANGED vars
    BY <1>3 DEF Rejected
  <2>2. \A u \in Threads : ThreadOK(u)'
    BY <2>1 DEF TypeInv, ThreadOK, vars, Ids
  <2> QED
    BY <1>a, <2>1, <2>2 DEF RestOK, vars, Ids
<1>4. CASE Upgrade(t)
  <2>1. pc[t] = "upgrade" /\ job[t].new \in Ids
    BY <1>4, <1>b DEF Upgrade, ThreadOK
  <2>2. node[job[t].new] \in NodeType /\ job[t].new \in Int /\ job[t].trace \in Int
    BY <2>1, <1>a, <1>d DEF JobType
  <2>4. UpgradeToRootNode(node[job[t].new], job[t].new, job[t].trace) \in NodeType
    BY <2>2, UpgradeType
  <2>5. node' \in [Ids -> NodeType] /\ known' \subseteq Ids
    BY <1>4, <1>a, <2>1, <2>4 DEF Upgrade
  <2>6. "idle" \in PCs /\ Goto(t, "idle", NoJob) /\ UNCHANGED <<poolVars, refs, hold, traces, calls>>
    BY <1>4 DEF Upgrade, PCs
  <2>7. pc'[t] = "idle" => ThreadOK(t)'
    BY <2>1, <2>6, <1>b DEF ThreadOK
  <2> QED
    BY <1>c, <2>5, <2>6, <2>7, TypeGotoQuiet
<1>5. CASE ReferRoot(t)
  <2> DEFINE r == node[job[t].id].root
             j == [job[t] EXCEPT !.cur = r]
  <2>1. /\ pc[t] = "refroot" /\ job[t].id \in Ids
        /\ job[t].op \in {"start", "status", "context"}
        /\ UNCHANGED <<poolVars, node, known, traces, calls>>
    BY <1>5, <1>b DEF ReferRoot, ThreadOK
  <2>2. r \in Int
    BY <2>1, <1>d DEF NodeType, NodeRefs
  <2>3. j \in JobType /\ j.cur = r /\ j.id = job[t].id
    BY <2>2, <1>a DEF JobType, NodeRefs
  <2>4. CASE ReferNode(t, "root", r) /\ Goto(t, AfterRoot(job[t].op), j)
    <3>1. /\ r \in Ids /\ refs' \in [Ids -> Int]
          /\ hold' \in [Threads \X Slots -> Ids \cup {0}]
          /\ \A h \in (Threads \ {t}) \X Slots : hold'[h] = hold[h]
      <4>1. "root" \in Slots
        BY DEF Slots
      <4> QED
        BY <2>4, <4>1, ReferHold
    <3>2. AfterRoot(job[t].op) \in PCs /\ AfterRoot(job[t].op) \in {"getnode", "write", "drop"}
      BY <2>1 DEF AfterRoot, PCs
    <3> HIDE DEF r, j
    <3>3. Ids' = Ids /\ pc'[t] = AfterRoot(job[t].op) /\ job'[t] = j => ThreadOK(t)'
      BY <2>1, <2>3, <3>1, <3>2 DEF ThreadOK
    <3> QED
      BY <1>a, <2>1, <2>3, <2>4, <3>1, <3>2, <3>3, TypeGoto
  <2>5. CASE Leave(t, job[t], "idle") /\ UNCHANGED <<hold, refs>>
    BY <2>5, <2>1, <1>a, TypeLeave
  <2> QED
    BY <1>5, <2>4, <2>5 DEF ReferRoot
<1>6. CASE GetChild(t)
  <2>0. pc[t] = "getnode" /\ job[t].id \in Ids /\ job[t].cur \in Ids
    BY <1>6, <1>b DEF GetChild, ThreadOK
  <2>1. ASSUME NEW new, GetNode(new), Goto(t, "bind", [job[t] EXCEPT !.new = new]),
               UNCHANGED <<hold, known, traces, calls>>
        PROVE  Goal
    <3> DEFINE j == [job[t] EXCEPT !.new = new]
    <3>1. /\ new \in Ids' /\ Ids \subseteq Ids'
          /\ node' \in [Ids' -> NodeType] /\ refs' \in [Ids' -> Int]
      BY <2>1, TakeType
    <3>2. new \in Int /\ "bind" \in PCs
      BY <3>1 DEF Ids, PCs
    <3>3. j \in JobType /\ j.new = new /\ j.id = job[t].id /\ j.cur = job[t].cur
      BY <1>a, <3>2 DEF JobType
    <3>4. Goto(t, "bind", j)
      BY <2>1
    <3> HIDE DEF j
    <3>5. /\ pc' \in [Threads -> PCs] /\ job' \in [Threads -> JobType]
          /\ pc'[t] = "bind" /\ job'[t] = j
          /\ \A u \in Threads \ {t} : ThreadOK(u)'
      BY <2>1, <3>1, <3>2, <3>3, <3>4, GotoOthers
    <3>6. ThreadOK(t)'
      BY <2>0, <3>1, <3>3, <3>5 DEF ThreadOK
    <3>7. hold' \in [Threads \X Slots -> Ids' \cup {0}] /\ known' \subseteq Ids'
      BY <2>1, <3>1, <1>a
    <3> QED
      BY <1>a, <2>1, <3>1, <3>5, <3>6, <3>7 DEF RestOK
  <2>2. CASE Leave(t, job[t], "idle") /\ UNCHANGED <<poolVars, node, refs, hold, known, traces, calls>>
    BY <2>2, <1>a, TypeLeave
  <2> QED
    BY <1>6, <2>1, <2>2 DEF GetChild
<1>7. CASE NullExtra(t)
  <2>1. "crash" \in PCs /\ (pc'[t] = "crash" => ThreadOK(t)')
    BY DEF PCs, ThreadOK
  <2> QED
    BY <1>7, <1>a, <2>1, TypeGotoQuiet DEF NullExtra
<1>8. CASE Bind(t)
  <2>0. /\ pc[t] = "bind" /\ UNCHANGED <<poolVars, refs, hold, known, traces, calls>>
        /\ Goto(t, "link", job[t])
    BY <1>8 DEF Bind
  <2>1. /\ pc[t] = "bind" /\ job[t].id \in Ids /\ job[t].cur \in Ids /\ job[t].new \in Ids
        /\ UNCHANGED <<poolVars, refs, hold, known, traces, calls>>
        /\ Goto(t, "link", job[t]) /\ "link" \in PCs
    <3>1. job[t].id \in Ids /\ job[t].cur \in Ids /\ job[t].new \in Ids
      BY <2>0, <1>b DEF ThreadOK
    <3>2. "link" \in PCs
      BY DEF PCs
    <3> QED
      BY <2>0, <3>1, <3>2
  <2>2. /\ node[job[t].new] \in NodeType /\ job[t].id \in Int /\ job[t].cur \in Int
        /\ node[job[t].id].depth \in Int /\ node[job[t].cur].trace \in Int
    <3>1. /\ node[job[t].new] \in NodeType /\ node[job[t].id] \in NodeType
          /\ node[job[t].cur] \in NodeType
      BY <2>1, <1>d
    <3>2. job[t].id \in Int /\ job[t].cur \in Int
      BY <2>1 DEF Ids
    <3>3. node[job[t].id].depth \in Int
      BY <3>1 DEF NodeType
    <3>4. node[job[t].cur].trace \in Int
      BY <3>1 DEF NodeType
    <3> QED
      BY <3>1, <3>2, <3>3, <3>4
  <2>3. [BindParentTrace(node[job[t].new], job[t].id) EXCEPT
            !.root = job[t].cur, !.trace = node[job[t].cur].trace] \in NodeType
    BY <2>2, BoundType
  <2>4. node' \in [Ids -> NodeType]
    BY <1>8, <1>a, <2>3 DEF Bind
  <2>5. Ids' = Ids /\ pc'[t] = "link" /\ job'[t] = job[t] => ThreadOK(t)'
    BY <2>1 DEF ThreadOK
  <2> QED
    BY <1>a, <2>1, <2>4, <2>5, TypeGotoQuiet
<1>9. CASE LinkLast(t)
  <2> DEFINE last == node[job[t].cur].last
  <2>1. /\ pc[t] = "link" /\ job[t].id \in Ids /\ job[t].cur \in Ids /\ job[t].new \in Ids
        /\ UNCHANGED <<poolVars, refs, hold, known, traces, calls>>
        /\ "finish" \in PCs
    BY <1>9, <1>b DEF LinkLast, ThreadOK, PCs
  <2>2. Ids' = Ids /\ pc'[t] = "finish" /\ job'[t] = job[t] => ThreadOK(t)'
    BY <2>1 DEF ThreadOK
  <2>3. CASE Goto(t, "finish", job[t]) /\ UNCHANGED node
    BY <1>a, <2>1, <2>2, <2>3, TypeGotoQuiet
  <2>4. CASE /\ Alive(last) /\ Goto(t, "finish", job[t])
             /\ node' = [node EXCEPT ![last].next = job[t].new]
    <3>1. last \in Ids /\ job[t].new \in Int
      BY <2>1, <2>4 DEF Alive, Ids
    <3>2. [node[last] EXCEPT !.next = job[t].new] \in NodeType
      BY <3>1, <1>d, FieldTypes
    <3> HIDE DEF last
    <3>3. node' \in [Ids -> NodeType]
      BY <2>4, <3>1, <3>2, <1>a
    <3> QED
      BY <1>a, <2>1, <2>2, <2>4, <3>3, TypeGotoQuiet
  <2>5. CASE Leave(t, job[t], "idle") /\ UNCHANGED node
    BY <1>a, <2>1, <2>5, TypeLeave
  <2> QED
    BY <1>9, <2>3, <2>4, <2>5 DEF LinkLast
<1>10. CASE FinishAppend(t)
  <2> DEFINE r == job[t].cur
             new == job[t].new
  <2>1. /\ pc[t] = "finish" /\ r \in Ids /\ new \in Ids
        /\ UNCHANGED <<poolVars, refs, hold, traces, calls>>
        /\ Leave(t, job[t], "idle") /\ known' \subseteq known \cup {new}
        /\ node' = [node EXCEPT ![r] = Appended(@, new), ![new].seq = node[r].sequence]
    BY <1>10, <1>b DEF FinishAppend, ThreadOK
  <2>2. new \in Int /\ node[r] \in NodeType /\ node[r].sequence \in Int
    BY <2>1, <1>d DEF NodeType, Ids
  <2>3. Appended(node[r], new) \in NodeType
    BY <2>2, AppendedType
  <2> DEFINE nd == [node EXCEPT ![r] = Appended(@, new)]
  <2>4. nd \in [Ids -> NodeType]
    BY <1>a, <2>1, <2>3
  <2>5. node' = [nd EXCEPT ![new] = [nd[new] EXCEPT !.seq = node[r].sequence]]
    BY <2>1
  <2> HIDE DEF nd
  <2>6. [nd[new] EXCEPT !.seq = node[r].sequence] \in NodeType
    BY <2>1, <2>2, <2>4, FieldTypes
  <2>7. node' \in [Ids -> NodeType] /\ known' \subseteq Ids
    BY <1>a, <2>1, <2>4, <2>5, <2>6
  <2> QED
    BY <1>a, <2>1, <2>7, TypeLeave
<1>11. CASE WriteRoot(t)
  <2> DEFINE r == job[t].cur
  <2>1. /\ r \in Ids /\ UNCHANGED <<poolVars, refs, hold, known, traces, calls>>
        /\ Leave(t, job[t], "idle")
    BY <1>11, <1>b DEF WriteRoot, ThreadOK
  <2>2. job[t].trace \in Int
    BY <1>a DEF JobType
  <2>3. \A x \in {"PASS", "BLOCK"} : [node[r] EXCEPT !.status = x] \in NodeType
    BY <2>1, <1>d, FieldTypes
  <2>4. [node[r] EXCEPT !.ctx = job[t].trace] \in NodeType
    BY <2>1, <2>2, <1>d, FieldTypes
  <2>5. node' \in [Ids -> NodeType]
    BY <1>11, <1>a, <2>1, <2>3, <2>4 DEF WriteRoot
  <2> QED
    BY <1>a, <2>1, <2>5, TypeLeave
<1>12. CASE EndTrace(t)
  <2> DEFINE id == job[t].id
             marked == [node EXCEPT ![id].ended = TRUE]
  <2>1. pc[t] = "end" /\ id \in Ids /\ UNCHANGED <<poolVars, known, traces, calls>>
    BY <1>12, <1>b DEF EndTrace, ThreadOK
  <2>2. marked \in [Ids -> NodeType]
    <3>1. [node[id] EXCEPT !.ended = TRUE] \in NodeType
      BY <2>1, <1>d, FieldTypes
    <3> QED
      BY <1>a, <2>1, <3>1
  <2>3. id \in Int /\ node[id].parent \in Int /\ node[id].next \in Int
    <3>1. id \in Int /\ node[id] \in NodeType
      BY <2>1, <1>d DEF Ids
    <3> QED
      BY <3>1 DEF NodeType, NodeRefs
  <2>4. \A c \in Int : [job[t] EXCEPT !.cur = c] \in JobType
    BY <1>a DEF JobType, NodeRefs
  <2>5. /\ [job[t] EXCEPT !.cur = node[id].parent] \in JobType
        /\ [job[t] EXCEPT !.cur = node[id].next] \in JobType
        /\ [job[t] EXCEPT !.cur = id] \in JobType
    BY <2>3, <2>4
  <2>6. CASE /\ node' = marked /\ UNCHANGED <<hold, refs>>
             /\ Leave(t, [job[t] EXCEPT !.cur = node[id].parent],
                      IF job[t].op = "forceEnd" THEN "parent" ELSE "idle")
    <3> HIDE DEF marked, id
    <3>1. (IF job[t].op = "forceEnd" THEN "parent" ELSE "idle") \in {"idle", "parent", "free"}
      OBVIOUS
    <3> QED
      BY <1>a, <2>1, <2>2, <2>5, <2>6, <3>1, TypeLeave
  <2>7. CASE /\ UNCHANGED <<node, hold, refs>>
             /\ Leave(t, [job[t] EXCEPT !.cur = id], "free")
    BY <1>a, <2>1, <2>5, <2>7, TypeLeave
  <2>8. CASE /\ node' = marked /\ ReferNode(t, "root", id)
             /\ Goto(t, "walk", [job[t] EXCEPT !.cur = node[id].next])
    <3> DEFINE j == [job[t] EXCEPT !.cur = node[id].next]
    <3>1. "root" \in Slots /\ "walk" \in PCs
      BY DEF Slots, PCs
    <3>2. /\ refs' \in [Ids -> Int] /\ hold' \in [Threads \X Slots -> Ids \cup {0}]
          /\ \A h \in (Threads \ {t}) \X Slots : hold'[h] = hold[h]
      BY <2>8, <3>1, ReferHold
    <3>3. j.id = id /\ j \in JobType
      BY <1>a, <2>5 DEF JobType
    <3> HIDE DEF j, marked
    <3>4. Ids' = Ids /\ pc'[t] = "walk" /\ job'[t] = j => ThreadOK(t)'
      BY <2>1, <3>3 DEF ThreadOK
    <3>5. Goto(t, "walk", j)
      BY <2>8 DEF j
    <3> QED
      BY <1>a, <2>1, <2>2, <2>8, <3>1, <3>2, <3>3, <3>4, <3>5, TypeGoto
  <2>9. CASE node' = marked /\ Leave(t, job[t], "idle") /\ UNCHANGED <<hold, refs>>
    BY <1>a, <2>1, <2>2, <2>9, TypeLeave
  <2> QED
    BY <1>12, <2>6, <2>7, <2>8, <2>9 DEF EndTrace
<1>13. CASE Walk(t)
  <2> DEFINE id == job[t].id
             cur == job[t].cur
  <2>1. pc[t] = "walk" /\ id \in Ids /\ UNCHANGED <<poolVars, refs, hold, known, traces, calls>>
    BY <1>13, <1>b DEF Walk, ThreadOK
  <2>2. CASE /\ Alive(cur)
             /\ node' = [node EXCEPT ![cur].ended = TRUE, ![id].events = Append(@, cur)]
             /\ Goto(t, "walk", [job[t] EXCEPT !.cur = node[cur].next])
    <3> DEFINE nd == [node EXCEPT ![cur].ended = TRUE]
               j == [job[t] EXCEPT !.cur = node[cur].next]
    <3>1. cur \in Ids /\ cur \in Int /\ node[cur].next \in Int
      BY <2>2, <1>d DEF Alive, Ids, NodeType, NodeRefs
    <3>2. [node[cur] EXCEPT !.ended = TRUE] \in NodeType
      BY <3>1, <1>d, FieldTypes
    <3>3. nd \in [Ids -> NodeType]
      BY <3>1, <3>2, <1>a
    <3>4. node' = [nd EXCEPT ![id] = [nd[id] EXCEPT !.events = Append(@, cur)]]
      BY <2>2
    <3>5. j \in JobType /\ j.id = id /\ "walk" \in PCs
      BY <3>1, <1>a DEF JobType, NodeRefs, PCs
    <3> HIDE DEF nd, j
    <3>6. [nd[id] EXCEPT !.events = Append(@, cur)] \in NodeType
      BY <2>1, <3>1, <3>3, FieldTypes
    <3>7. node' \in [Ids -> NodeType]
      BY <3>3, <3>4, <3>6
    <3>8. Goto(t, "walk", j) /\ (Ids' = Ids /\ pc'[t] = "walk" /\ job'[t] = j => ThreadOK(t)')
      BY <2>1, <2>2, <3>5 DEF ThreadOK, j
    <3> QED
      BY <1>a, <2>1, <3>5, <3>7, <3>8, TypeGotoQuiet
  <2>3. CASE Leave(t, job[t], "idle") /\ UNCHANGED node
    BY <1>a, <2>1, <2>3, TypeLeave
  <2> QED
    BY <1>13, <2>2, <2>3 DEF Walk
<1>14. CASE Send(t)
  <2>1. UNCHANGED <<poolVars, node, refs, hold, known, traces, calls>>
    BY <1>14 DEF Send
  <2>2. [job[t] EXCEPT !.cur = job[t].id] \in JobType
    BY <1>a DEF JobType, NodeRefs
  <2>3. CASE Leave(t, [job[t] EXCEPT !.cur = job[t].id], "free")
    BY <1>a, <2>1, <2>2, <2>3, TypeLeave
  <2>4. CASE Leave(t, job[t], "idle")
    BY <1>a, <2>1, <2>4, TypeLeave
  <2> QED
    BY <1>14, <2>3, <2>4 DEF Send
<1>15. CASE Release(t)
  <2> DEFINE s == IF hold[<<t, "root">>] # 0 THEN "root" ELSE "node"
  <2>1. /\ pc[t] = "unwind" /\ Unrefer(t, s) /\ s \in Slots
        /\ UNCHANGED <<poolVars, node, pc, job, known, traces, calls>>
    BY <1>15 DEF Release, Slots
  <2>2. /\ refs' \in [Ids -> Int] /\ hold' \in [Threads \X Slots -> Ids \cup {0}]
        /\ \A h \in (Threads \ {t}) \X Slots : hold'[h] = hold[h]
    BY <2>1, UnreferHold
  <2>3. Goto(t, "unwind", job[t]) /\ "unwind" \in PCs
    BY <2>1, <1>a DEF Goto, PCs
  <2>4. pc'[t] = "unwind" => ThreadOK(t)'
    BY DEF ThreadOK
  <2> QED
    BY <1>a, <2>1, <2>2, <2>3, <2>4, TypeGoto
<1>16. CASE DropNode(t)
  <2>1. /\ pc[t] = "drop" /\ Unrefer(t, "node") /\ "node" \in Slots /\ job[t].cur \in Ids
        /\ UNCHANGED <<poolVars, node, known, traces, calls>>
        /\ Goto(t, "write", job[t]) /\ "write" \in PCs
    BY <1>16, <1>b DEF DropNode, Slots, PCs, ThreadOK
  <2>2. /\ refs' \in [Ids -> Int] /\ hold' \in [Threads \X Slots -> Ids \cup {0}]
        /\ \A h \in (Threads \ {t}) \X Slots : hold'[h] = hold[h]
    BY <2>1, UnreferHold
  <2>3. Ids' = Ids /\ pc'[t] = "write" /\ job'[t] = job[t] => ThreadOK(t)'
    BY <2>1 DEF ThreadOK
  <2> QED
    BY <1>a, <2>1, <2>2, <2>3, TypeGoto
<1>17. CASE Left(t)
  <2> DEFINE j == IF job[t].then = "idle" THEN NoJob ELSE job[t]
             p == job[t].then
  <2>1. /\ UNCHANGED <<poolVars, node, refs, hold, known, traces, calls>>
        /\ hold[<<t, "node">>] = 0 /\ hold[<<t, "root">>] = 0 /\ Goto(t, p, j)
    BY <1>17 DEF Left, Slots
  <2>2. p \in {"idle", "parent", "free"} /\ p \in PCs /\ j \in JobType
    BY <1>a, <1>c DEF JobType, PCs
  <2>3. Ids' = Ids /\ pc'[t] = p /\ job'[t] = j => ThreadOK(t)'
    BY <2>1, <2>2 DEF ThreadOK
  <2> HIDE DEF j, p
  <2> QED
    BY <1>a, <2>1, <2>2, <2>3, TypeGotoQuiet
<1>18. CASE EndParent(t)
  <2> DEFINE p == job[t].cur
             j == [job[t] EXCEPT !.id = p]
  <2>1. /\ pc[t] = "parent" /\ hold[<<t, "node">>] = 0 /\ hold[<<t, "root">>] = 0
        /\ UNCHANGED <<poolVars, node, known, traces, calls>>
    BY <1>18, <1>b DEF EndParent, ThreadOK
  <2>2. CASE ReferNode(t, "node", p) /\ Goto(t, "end", j)
    <3>1. "node" \in Slots /\ "root" \in Slots /\ "node" # "root" /\ "end" \in PCs
      BY DEF Slots, PCs
    <3>2. /\ p \in Ids /\ refs' \in [Ids -> Int]
          /\ hold' \in [Threads \X Slots -> Ids \cup {0}]
          /\ \A h \in (Threads \X Slots) \ {<<t, "node">>} : hold'[h] = hold[h]
          /\ \A h \in (Threads \ {t}) \X Slots : hold'[h] = hold[h]
      BY <2>2, <3>1, ReferHold
    <3>3. j \in JobType /\ j.id = p
      BY <1>a DEF JobType, NodeRefs
    <3>4. hold'[<<t, "root">>] = 0
      BY <2>1, <3>1, <3>2
    <3> HIDE DEF j
    <3>5. Ids' = Ids /\ pc'[t] = "end" /\ job'[t] = j => ThreadOK(t)'
      BY <3>2, <3>3, <3>4 DEF ThreadOK
    <3> QED
      BY <1>a, <2>1, <2>2, <3>1, <3>2, <3>3, <3>5, TypeGoto
  <2>3. CASE Goto(t, "idle", NoJob) /\ UNCHANGED <<hold, refs>>
    <3>1. "idle" \in PCs /\ (pc'[t] = "idle" => ThreadOK(t)')
      BY <2>1, <2>3 DEF ThreadOK, PCs
    <3> QED
      BY <1>a, <1>c, <2>1, <2>3, <3>1, TypeGotoQuiet
  <2> QED
    BY <1>18, <2>2, <2>3 DEF EndParent
<1>19. CASE ReturnNode(t)
  <2> DEFINE cur == job[t].cur
             next == node[cur].next
             j == [job[t] EXCEPT !.cur = next]
  <2>1. /\ pc[t] = "free" /\ hold[<<t, "node">>] = 0 /\ hold[<<t, "root">>] = 0
        /\ UNCHANGED <<node, refs, hold, known, traces, calls>>
    BY <1>19, <1>b DEF ReturnNode, ThreadOK
  <2>2. Ids' = Ids /\ Ids \subseteq Ids'
    BY <1>19 DEF ReturnNode, RecycleNode, poolVars, Ids
  <2>3. ASSUME NEW p \in {"idle", "free"}, NEW k \in JobType, Goto(t, p, k)
        PROVE  Goal
    <3>1. p \in PCs
      BY DEF PCs
    <3>2. /\ pc' \in [Threads -> PCs] /\ job' \in [Threads -> JobType]
          /\ pc'[t] = p /\ job'[t] = k
          /\ \A u \in Threads \ {t} : ThreadOK(u)'
      BY <2>1, <2>2, <2>3, <3>1, GotoOthers
    <3>3. ThreadOK(t)'
      BY <2>1, <3>2 DEF ThreadOK
    <3> QED
      BY <1>a, <2>1, <2>2, <3>2, <3>3 DEF RestOK
  <2>4. CASE Goto(t, "idle", NoJob)
    BY <1>c, <2>3, <2>4
  <2>5. CASE Alive(cur) /\ Goto(t, "free", j)
    <3>1. next \in Int
      BY <2>5, <1>d DEF Alive, NodeType, NodeRefs
    <3>2. j \in JobType
      BY <3>1, <1>a DEF JobType, NodeRefs
    <3> HIDE DEF j
    <3> QED
      BY <2>3, <2>5, <3>2
  <2> QED
    BY <1>19, <2>4, <2>5 DEF ReturnNode
<1> QED
  BY <1>1, <1>2, <1>3, <1>4, <1>5, <1>6, <1>7, <1>8, <1>9, <1>10, <1>11, <1>12,
     <1>13, <1>14, <1>15, <1>16, <1>17, <1>18, <1>19 DEF Step, Inside

\* Every step keeps the types.
LEMMA TypeInvStep ==
    ASSUME PoolInv, TypeInv, [Next]_vars
    PROVE  TypeInv'
<1>1. PoolInv'
  BY PoolInvStep
<1>2. CASE UNCHANGED vars
  BY <1>2 DEF vars, TypeInv, TypeOK, ThreadOK, Ids
<1>3. ASSUME NEW t \in Threads, Step(t)
      PROVE  TypeInv'
  <2>1. RestOK' /\ \A u \in Threads : ThreadOK(u)'
    BY <1>1, <1>3, TypeThread
  <2>2. TypeOK'
    BY <1>1, <2>1 DEF PoolInv, RestOK, TypeOK
  <2> QED
    BY <2>1, <2>2 DEF TypeInv
<1> QED
  BY <1>2, <1>3 DEF Next, Gone

\* The types hold at first.
LEMMA TypeInvInit ==
    ASSUME Init
    PROVE  TypeInv
<1>1. PoolInv
  BY PoolInvInit
<1>2. Ids = 1 .. CELL_SIZE
  BY DEF Init, Ids
<1>3. node \in [Ids -> NodeType]
  BY <1>2, NodeTypes DEF Init
<1>4. refs \in [Ids -> Int] /\ hold \in [Threads \X Slots -> Ids \cup {0}]
  BY <1>2 DEF Init
<1>5. NoJob \in JobType /\ "idle" \in PCs
  BY DEF NoJob, JobType, NodeRefs, E_INVALID_NODE, PCs
<1>6. pc \in [Threads -> PCs] /\ job \in [Threads -> JobType]
  BY <1>5 DEF Init
<1>7. traces \in Nat /\ calls \in 0 .. MaxCalls /\ known \subseteq Ids
  BY CallsAssumption DEF Init
<1>8. ASSUME NEW u \in Threads
      PROVE  ThreadOK(u)
  BY DEF Init, ThreadOK, Slots
<1> QED
  BY <1>1, <1>3, <1>4, <1>6, <1>7, <1>8 DEF TypeInv, TypeOK, PoolInv

\* The types hold in every state; with them, the pool never passes its limit
\* by more than one cell, although expandOnce adds a whole cell at a time.
THEOREM TypeOKAlways == Spec => []TypeOK
<1>1. Init => PoolInv /\ TypeInv
  BY PoolInvInit, TypeInvInit
<1>2. PoolInv /\ TypeInv /\ [Next]_vars => PoolInv' /\ TypeInv'
  BY PoolInvStep, TypeInvStep
<1>3. TypeInv => TypeOK
  BY DEF TypeInv
<1> QED
  BY <1>1, <1>2, <1>3, PTL DEF Spec
-----------------------------------------------------------------------------
(* The reference counts.                                                   *)

RefInv == RefCountExact /\ HeldIsUsed

\* Finitely many wrappers hold a node.
LEMMA HoldersFinite ==
    ASSUME NEW i
    PROVE  IsFiniteSet(Holders(i)) /\ Cardinality(Holders(i)) \in Nat
<1>1. IsFiniteSet(Slots)
  <2>1. IsFiniteSet({} \cup {"node"})
    BY FS_EmptySet, FS_AddElement
  <2>2. IsFiniteSet(({} \cup {"node"}) \cup {"root"})
    BY <2>1, FS_AddElement
  <2>3. ({} \cup {"node"}) \cup {"root"} = Slots
    BY DEF Slots
  <2> QED
    BY <2>2, <2>3
<1>2. IsFiniteSet(Threads \X Slots)
  BY <1>1, ThreadsAssumption, FS_Product
<1>3. Holders(i) \subseteq Threads \X Slots
  BY DEF Holders
<1> QED
  BY <1>2, <1>3, FS_Subset, FS_CardinalityType

\* What GetNode does to the counts and the flags.
LEMMA TakeEffect ==
    ASSUME PoolInv, TypeInv, NEW new, GetNode(new)
    PROVE  /\ Ids \subseteq Ids' /\ new \in Ids'
           /\ refs'[new] = 0 /\ used'[new] = TRUE
           /\ \A i \in Ids' \ {new} : i \in Ids => refs'[i] = refs[i] /\ used'[i] = used[i]
           /\ \A i \in Ids' \ Ids : refs'[i] = 0
<1>0. maxId \in Nat /\ CELL_SIZE \in Nat \ {0}
  BY CellAssumption, LimitAssumption DEF PoolInv
<1>1. new \in Ids' /\ Ids \subseteq Ids'
  BY TakePool, TakeType
<1>2. used \in [Ids -> BOOLEAN] /\ refs \in [Ids -> Int]
  BY DEF TypeInv, TypeOK
<1>3. CASE Take(free, used, node, refs, new) /\ UNCHANGED maxId
  <2>1. Ids' = Ids
    BY <1>3 DEF Ids
  <2> QED
    BY <1>1, <1>2, <1>3, <2>1 DEF Take
<1>4. CASE /\ Take([k \in 1 .. CELL_SIZE |-> maxId + k],
                   Grow(used, FALSE), Grow(node, TraceNode), Grow(refs, 0), new)
           /\ maxId' = maxId + CELL_SIZE
  <2> DEFINE us == Grow(used, FALSE)
             rf == Grow(refs, 0)
  <2>1. Ids' = 1 .. maxId + CELL_SIZE
    BY <1>4 DEF Ids
  <2>2. /\ us \in [Ids' -> BOOLEAN] /\ rf \in [Ids' -> Int]
        /\ \A i \in Ids : us[i] = used[i] /\ rf[i] = refs[i]
        /\ \A i \in Ids' \ Ids : rf[i] = 0
    <3>1. us \in [Ids' -> BOOLEAN] /\ \A i \in Ids : us[i] = used[i]
      BY <1>1, <1>2, <2>1 DEF Grow
    <3>2. rf \in [Ids' -> Int]
      BY <1>1, <1>2, <2>1 DEF Grow
    <3>3. \A i \in Ids' : rf[i] = IF i \in Ids THEN refs[i] ELSE 0
      BY <2>1 DEF Grow
    <3> HIDE DEF us, rf
    <3> QED
      BY <1>1, <3>1, <3>2, <3>3
  <2>3. used' = [us EXCEPT ![new] = TRUE] /\ refs' = [rf EXCEPT ![new] = 0]
    BY <1>4 DEF Take
  <2> HIDE DEF us, rf
  <2> QED
    BY <1>1, <2>2, <2>3
<1> QED
  BY <1>3, <1>4 DEF GetNode

\* GetNode gives a node that nobody holds.
LEMMA RefTake ==
    ASSUME PoolInv, TypeInv, RefInv, ~Forced, ShapeTake
    PROVE  RefInv'
<1>1. PICK new : GetNode(new)
  BY DEF ShapeTake
<1>2. new \in Ids => ~used[new]
  BY <1>1, TakePool
<1>3. /\ Ids \subseteq Ids' /\ new \in Ids'
      /\ refs'[new] = 0 /\ used'[new] = TRUE
      /\ \A i \in Ids' \ {new} : i \in Ids => refs'[i] = refs[i] /\ used'[i] = used[i]
      /\ \A i \in Ids' \ Ids : refs'[i] = 0
  BY <1>1, TakeEffect
<1>4. hold' = hold /\ hold \in [Threads \X Slots -> Ids \cup {0}]
  BY DEF ShapeTake, TypeInv, TypeOK
<1>5. \A i : Holders(i)' = Holders(i)
  BY <1>4 DEF Holders
<1>6. \A h \in Threads \X Slots : hold[h] # 0 => hold[h] \in Ids /\ used[hold[h]]
  BY DEF RefInv, HeldIsUsed, Alive
<1>7. 0 \notin Ids' /\ Cardinality({}) = 0
  BY FS_EmptySet DEF Ids
<1>8. ASSUME NEW i \in Ids'
      PROVE  refs'[i] = Cardinality(Holders(i)')
  <2>1. CASE i \in Ids /\ i # new
    BY <1>3, <1>5, <2>1 DEF RefInv, RefCountExact
  <2>2. CASE i \notin Ids \/ i = new
    <3>1. Holders(i) = {}
      BY <1>2, <1>4, <1>6, <1>7, <2>2 DEF Holders
    <3> QED
      BY <1>3, <1>5, <1>7, <2>2, <3>1
  <2> QED
    BY <2>1, <2>2
<1>9. \A h \in Threads \X Slots : hold'[h] # 0 => hold'[h] \in Ids' /\ used'[hold'[h]]
  BY <1>2, <1>3, <1>4, <1>6
<1>10. RefCountExact'
  BY <1>8 DEF RefCountExact
<1>11. HeldIsUsed'
  BY <1>9 DEF HeldIsUsed, Alive
<1> QED
  BY <1>10, <1>11 DEF RefInv

\* A new wrapper adds one to the count of its node.
LEMMA RefRefer ==
    ASSUME TypeInv, RefInv, ~Forced, ShapeRefer
    PROVE  RefInv'
<1>1. PICK t \in Threads, s \in Slots, id \in Ids :
         ReferNode(t, s, id) /\ (ThreadOK(t) => hold[<<t, s>>] = 0)
  BY DEF ShapeRefer
<1> DEFINE w == <<t, s>>
<1>2. hold[w] = 0 /\ w \in Threads \X Slots
  BY <1>1 DEF TypeInv
<1>3. /\ used[id] /\ hold'[w] = id
      /\ \A h \in (Threads \X Slots) \ {w} : hold'[h] = hold[h]
  BY <1>1, ReferHold
<1>4. Ids' = Ids /\ used' = used /\ 0 \notin Ids
  BY DEF ShapeRefer, poolVars, Ids
<1>5. refs \in [Ids -> Int] /\ refs' = [refs EXCEPT ![id] = @ + 1]
  BY <1>1 DEF TypeInv, TypeOK, ReferNode
<1> HIDE DEF w
<1>6. ASSUME NEW i \in Ids
      PROVE  refs'[i] = Cardinality(Holders(i)')
  <2>1. CASE i = id
    <3>1. Holders(i)' = Holders(i) \cup {w} /\ w \notin Holders(i)
      BY <1>2, <1>3, <1>4, <2>1 DEF Holders
    <3>2. Cardinality(Holders(i) \cup {w}) = Cardinality(Holders(i)) + 1
      BY <3>1, HoldersFinite, FS_AddElement
    <3> QED
      BY <1>5, <2>1, <3>1, <3>2 DEF RefInv, RefCountExact
  <2>2. CASE i # id
    <3>1. Holders(i)' = Holders(i)
      BY <1>2, <1>3, <1>4, <2>2 DEF Holders
    <3> QED
      BY <1>5, <2>2, <3>1 DEF RefInv, RefCountExact
  <2> QED
    BY <2>1, <2>2
<1>7. \A h \in Threads \X Slots : hold'[h] # 0 => hold'[h] \in Ids' /\ used'[hold'[h]]
  BY <1>3, <1>4 DEF RefInv, HeldIsUsed, Alive
<1>8. RefCountExact'
  BY <1>4, <1>6 DEF RefCountExact
<1>9. HeldIsUsed'
  BY <1>7 DEF HeldIsUsed, Alive
<1> QED
  BY <1>8, <1>9 DEF RefInv

\* A wrapper that goes away takes one from the count of its node.
LEMMA RefRelease ==
    ASSUME TypeInv, RefInv, ~Forced, ShapeRelease
    PROVE  RefInv'
<1>1. PICK t \in Threads, s \in Slots : Unrefer(t, s)
  BY DEF ShapeRelease
<1> DEFINE w == <<t, s>>
           id == hold[w]
<1>2. /\ w \in Threads \X Slots /\ id \in Ids /\ hold'[w] = 0
      /\ \A h \in (Threads \X Slots) \ {w} : hold'[h] = hold[h]
  BY <1>1, UnreferHold
<1>3. Ids' = Ids /\ used' = used /\ 0 \notin Ids
  BY DEF ShapeRelease, poolVars, Ids
<1>4. refs \in [Ids -> Int] /\ refs' = [refs EXCEPT ![id] = @ - 1]
  BY <1>1 DEF TypeInv, TypeOK, Unrefer
<1> HIDE DEF w
<1>5. ASSUME NEW i \in Ids
      PROVE  refs'[i] = Cardinality(Holders(i)')
  <2>1. CASE i = id
    <3>1. Holders(i)' = Holders(i) \ {w} /\ w \in Holders(i)
      BY <1>2, <1>3, <2>1 DEF Holders
    <3>2. Cardinality(Holders(i) \ {w}) = Cardinality(Holders(i)) - 1
      BY <3>1, HoldersFinite, FS_RemoveElement
    <3> QED
      BY <1>4, <2>1, <3>1, <3>2 DEF RefInv, RefCountExact
  <2>2. CASE i # id
    <3>1. Holders(i)' = Holders(i)
      BY <1>2, <1>3, <2>2 DEF Holders
    <3> QED
      BY <1>2, <1>4, <2>2, <3>1 DEF RefInv, RefCountExact
  <2> QED
    BY <2>1, <2>2
<1>6. \A h \in Threads \X Slots : hold'[h] # 0 => hold'[h] \in Ids' /\ used'[hold'[h]]
  BY <1>2, <1>3 DEF RefInv, HeldIsUsed, Alive
<1>7. RefCountExact'
  BY <1>3, <1>5 DEF RefCountExact
<1>8. HeldIsUsed'
  BY <1>6 DEF HeldIsUsed, Alive
<1> QED
  BY <1>7, <1>8 DEF RefInv

\* A node is given back with count 0, when nobody holds it.
LEMMA RefRecycle ==
    ASSUME TypeInv, RefInv, ~Forced, ShapeRecycle
    PROVE  RefInv'
<1>1. PICK id \in Ids : refs[id] = 0 /\ RecycleNode(id)
  BY DEF ShapeRecycle
<1>2. /\ Ids' = Ids /\ used \in [Ids -> BOOLEAN] /\ used' = [used EXCEPT ![id] = FALSE]
      /\ refs' = refs /\ hold' = hold
  BY <1>1 DEF RecycleNode, ShapeRecycle, Ids, TypeInv, TypeOK
<1>3. Holders(id) = {}
  <2>1. Cardinality(Holders(id)) = 0
    BY <1>1 DEF RefInv, RefCountExact
  <2> QED
    BY <2>1, HoldersFinite, FS_EmptySet
<1>4. \A h \in Threads \X Slots : hold'[h] # 0 => hold'[h] \in Ids' /\ used'[hold'[h]]
  BY <1>2, <1>3 DEF RefInv, HeldIsUsed, Alive, Holders
<1>5. \A i : Holders(i)' = Holders(i)
  BY <1>2 DEF Holders
<1>6. RefCountExact'
  BY <1>2, <1>5 DEF RefInv, RefCountExact
<1>7. HeldIsUsed'
  BY <1>4 DEF HeldIsUsed, Alive
<1> QED
  BY <1>6, <1>7 DEF RefInv

\* Forced returns void both properties, so that only the rest is argued.
LEMMA RefInvStep ==
    ASSUME PoolInv, TypeInv, RefInv, [Next]_vars
    PROVE  RefInv'
<1>1. CASE Forced
  BY <1>1 DEF RefInv, RefCountExact, HeldIsUsed
<1>2. CASE ~Forced /\ ShapeNone
  BY <1>2 DEF ShapeNone, RefInv, RefCountExact, HeldIsUsed, Holders, Alive, Ids
<1> QED
  BY <1>1, <1>2, StepShape, RefTake, RefRefer, RefRelease, RefRecycle

\* At first nothing is held, and every count is 0.
LEMMA RefInvInit ==
    ASSUME Init
    PROVE  RefInv
<1>1. \A i \in Ids : refs[i] = 0 /\ Holders(i) = {}
  BY DEF Init, Ids, Holders
<1>2. RefCountExact
  BY <1>1, FS_EmptySet DEF RefCountExact
<1>3. HeldIsUsed
  BY DEF Init, HeldIsUsed
<1> QED
  BY <1>2, <1>3 DEF RefInv

\* Without forced returns reference_count_ is the number of live wrappers, for
\* any number of threads and any use of the library, exceptions included.
THEOREM RefCountExactAlways == Spec => []RefCountExact
<1>1. Init => PoolInv /\ TypeInv /\ RefInv
  BY PoolInvInit, TypeInvInit, RefInvInit
<1>2. PoolInv /\ TypeInv /\ RefInv /\ [Next]_vars => PoolInv' /\ TypeInv' /\ RefInv'
  BY PoolInvStep, TypeInvStep, RefInvStep
<1>3. RefInv => RefCountExact
  BY DEF RefInv
<1> QED
  BY <1>1, <1>2, <1>3, PTL DEF Spec

\* Without forced returns no node is recycled while a thread holds a wrapper of
\* it: no use after free, whatever ids the clients pass and however they race.
THEOREM HeldIsUsedAlways == Spec => []HeldIsUsed
<1>1. Init => PoolInv /\ TypeInv /\ RefInv
  BY PoolInvInit, TypeInvInit, RefInvInit
<1>2. PoolInv /\ TypeInv /\ RefInv /\ [Next]_vars => PoolInv' /\ TypeInv' /\ RefInv'
  BY PoolInvStep, TypeInvStep, RefInvStep
<1>3. RefInv => HeldIsUsed
  BY DEF RefInv
<1> QED
  BY <1>1, <1>2, <1>3, PTL DEF Spec
=============================================================================
