------------------------------ MODULE NodePool ------------------------------
(***************************************************************************)
(* The trace-node pool of the agent core and the Agent calls that use it:  *)
(*   common/src/NodePool/PoolManager.{h,cpp}, TraceNode.{h,cpp} and the    *)
(*   StartTrace / EndTrace / ChangeTraceStatus / AddTraceContext methods   *)
(*   of common/src/common.cpp.                                             *)
(*                                                                         *)
(* A trace is a tree of nodes kept in a pool and named by integer ids.     *)
(* Its root holds the tree together: children are linked in a list that    *)
(* starts at the root's next_ and ends at the root's `last`.  With         *)
(* PINPOINT_MT the pool is shared by all threads: every pool operation     *)
(* takes the pool's mutex, linking a child takes the root's mutex, and a   *)
(* WrapperTraceNodePtr on a thread's stack counts one reference on its     *)
(* node, which keeps ReturnNode from recycling it.  Without PINPOINT_MT    *)
(* the pool is thread_local, which is this module with a single thread.    *)
(*                                                                         *)
(* One step of a thread is one critical section (or one release of a       *)
(* wrapper), so calls of several threads interleave between them.          *)
(***************************************************************************)
EXTENDS Integers, Sequences, FiniteSets, Functions

CONSTANTS
    Threads,               \* the threads that call the library
    CELL_SIZE,             \* nodes added by one expandOnce (128 in the code)
    POOL_MAX_NODES_LIMIT,  \* no expansion beyond this (128 * 100)
    Owned,                 \* clients end a root once, alone, and forget its ids
    Forced,                \* ReturnNode may run out of its 1000 retries
    SendThrows,            \* sending a span may throw (new, JSON, raw handler)
    MaxCalls               \* bound: calls that get past their first step

ASSUME CellAssumption == CELL_SIZE \in Nat \ {0}
ASSUME LimitAssumption == POOL_MAX_NODES_LIMIT \in Nat
ASSUME ThreadsAssumption == IsFiniteSet(Threads)
ASSUME FlagsAssumption == {Owned, Forced, SendThrows} \subseteq BOOLEAN
ASSUME CallsAssumption == MaxCalls \in Nat

VARIABLES
    maxId,    \* nodes allocated so far; ids are 1..maxId
    free,     \* _freeNodeList: a stack, top last
    used,     \* usedNodeSet_
    node,     \* the TraceNodes' contents
    refs,     \* reference_count_ of every node
    hold,     \* hold[<<t, s>>]: the node of the live wrapper in slot s of t, or 0
    pc,       \* what t does next
    job,      \* the locals of t's current call
    known,    \* the ids the clients may pass to the library
    traces,   \* root traces started so far
    calls     \* calls made so far

poolVars == <<maxId, free, used>>
vars == <<maxId, free, used, node, refs, hold, pc, job, known, traces, calls>>

E_INVALID_NODE == -1
Ids == 1 .. maxId

\* A call has at most two wrappers alive: of the node it was given, and of that
\* node's root (in EndTrace: of the root again, by SendSpanTrace).
Slots == {"node", "root"}

\* A node that was never handed out.  status "null" stands for a null
\* root_node_extra_ptr_; last and sequence are fields of that extra part.
\* trace is a ghost: the root trace whose tree the node was linked into.
TraceNode ==
    [root |-> E_INVALID_NODE, parent |-> E_INVALID_NODE, next |-> E_INVALID_NODE,
     depth |-> 1, seq |-> -1, ended |-> FALSE, events |-> <<>>, ctx |-> 0,
     status |-> "null", last |-> E_INVALID_NODE, sequence |-> 0, trace |-> 0]

\* Mutant of Reset: the context map of the earlier life stays.
ResetKeepsContext(n) == [TraceNode EXCEPT !.depth = n.depth, !.seq = n.seq, !.ctx = n.ctx]

\* TraceNode::Reset: depth_ and sequence_ survive from the node's earlier life.
Reset(n) == [TraceNode EXCEPT !.depth = n.depth, !.seq = n.seq]

\* UpgradeToRootNode and StartTrace.
UpgradeToRootNode(n, id, tr) ==
    [root |-> id, parent |-> id, next |-> E_INVALID_NODE, depth |-> 0, seq |-> 0,
     ended |-> n.ended, events |-> n.events, ctx |-> n.ctx, status |-> "PASS",
     last |-> E_INVALID_NODE, sequence |-> 0, trace |-> tr]

IsRootNode(id) == node[id].root = id
HasExtra(id) == node[id].status # "null"

\* indexInUsedVec: what getUsedNode and returnNode test first.
Alive(id) == id \in Ids /\ used[id]

NoJob == [op |-> "none", id |-> 0, trace |-> 0, new |-> 0,
          cur |-> E_INVALID_NODE, then |-> "idle"]

Init ==
    /\ maxId = CELL_SIZE
    /\ free = [i \in 1 .. CELL_SIZE |-> i]
    /\ used = [i \in 1 .. CELL_SIZE |-> FALSE]
    /\ node = [i \in 1 .. CELL_SIZE |-> TraceNode]
    /\ refs = [i \in 1 .. CELL_SIZE |-> 0]
    /\ hold = [h \in Threads \X Slots |-> 0]
    /\ pc = [t \in Threads |-> "idle"]
    /\ job = [t \in Threads |-> NoJob]
    /\ known = {}
    /\ traces = 0
    /\ calls = 0
-----------------------------------------------------------------------------
(* Pool operations, each under the pool's mutex.                           *)

\* getReadyNode's pop: the top of the free stack becomes used, and Reset.
Take(fr, us, nd, rf, new) ==
    /\ new = fr[Len(fr)]
    /\ free' = SubSeq(fr, 1, Len(fr) - 1)
    /\ used' = [us EXCEPT ![new] = TRUE]
    /\ node' = [nd EXCEPT ![new] = Reset(@)]
    /\ refs' = [rf EXCEPT ![new] = 0]

\* f, defined on Ids, after expandOnce: the new cell holds v.
Grow(f, v) == [i \in 1 .. maxId + CELL_SIZE |-> IF i \in Ids THEN f[i] ELSE v]

\* Mutant of GetNode: no limit on the pool.
GetNodeUnlimited(new) ==
    \/ /\ free # <<>>
       /\ Take(free, used, node, refs, new)
       /\ UNCHANGED maxId
    \/ /\ free = <<>>
       /\ maxId < 10 * (CELL_SIZE + POOL_MAX_NODES_LIMIT)
       /\ Take([k \in 1 .. CELL_SIZE |-> maxId + k],
               Grow(used, FALSE), Grow(node, TraceNode), Grow(refs, 0), new)
       /\ maxId' = maxId + CELL_SIZE

\* GetNode when it succeeds: expandOnce first when the free stack is empty.
GetNode(new) ==
    \/ /\ free # <<>>
       /\ Take(free, used, node, refs, new)
       /\ UNCHANGED maxId
    \/ /\ free = <<>>
       /\ ~(maxId > POOL_MAX_NODES_LIMIT)
       /\ Take([k \in 1 .. CELL_SIZE |-> maxId + k],
               Grow(used, FALSE), Grow(node, TraceNode), Grow(refs, 0), new)
       /\ maxId' = maxId + CELL_SIZE

\* GetNode throws: "node poll size limitation reached".
GetNodeFails == free = <<>> /\ maxId > POOL_MAX_NODES_LIMIT

\* ReferNode: a wrapper of a node that is alive.
ReferNode(t, s, id) ==
    /\ Alive(id)
    /\ hold' = [hold EXCEPT ![<<t, s>>] = id]
    /\ refs' = [refs EXCEPT ![id] = @ + 1]

\* returnNode on a used node it may recycle.
RecycleNode(id) ==
    /\ used' = [used EXCEPT ![id] = FALSE]
    /\ free' = Append(free, id)
    /\ UNCHANGED maxId
-----------------------------------------------------------------------------
(* What the clients are trusted with.                                      *)

\* Another thread is inside a call on trace tr.
Busy(t, tr) == \E u \in Threads \ {t} : pc[u] # "idle" /\ job[u].trace = tr

\* The ids of trace tr, as the clients know them.
IdsOf(tr) == {i \in known : node[i].trace = tr}

\* A call on id may be made now.  An owning client ends a root only when no
\* other call on that trace is in progress.
MayCall(t, op, id) ==
    /\ pc[t] = "idle"
    /\ id \in known
    /\ Owned /\ op = "end" /\ IsRootNode(id) => ~Busy(t, node[id].trace)
    /\ Owned /\ op = "forceEnd" => ~Busy(t, node[id].trace)

\* The ids left to the clients once the call is made: an owning client never
\* uses the ids of a trace it has asked to end.
KnownAfter(op, id) ==
    IF Owned /\ (op = "forceEnd" \/ (op = "end" /\ IsRootNode(id)))
    THEN known \ IdsOf(node[id].trace)
    ELSE known

\* t continues at pc p with its locals set to j.
Goto(t, p, j) == pc' = [pc EXCEPT ![t] = p] /\ job' = [job EXCEPT ![t] = j]

\* Leave the call: release the wrappers, then continue at `then`.
Leave(t, j, then) == Goto(t, "unwind", [j EXCEPT !.then = then])
-----------------------------------------------------------------------------
(* StartTrace(0): a new root.                                              *)

StartRoot(t) ==
    /\ pc[t] = "idle"
    /\ calls < MaxCalls
    /\ calls' = calls + 1
    /\ traces' = traces + 1
    /\ \E new \in 1 .. maxId + CELL_SIZE :
          /\ GetNode(new)
          /\ Goto(t, "upgrade", [NoJob EXCEPT !.op = "root", !.new = new,
                                              !.trace = traces + 1])
    /\ UNCHANGED <<hold, known>>

\* The new node is filled outside the pool's mutex.
Upgrade(t) ==
    LET new == job[t].new IN
    /\ pc[t] = "upgrade"
    /\ node' = [node EXCEPT ![new] = UpgradeToRootNode(@, new, job[t].trace)]
    /\ known' = known \cup {new}
    /\ Goto(t, "idle", NoJob)
    /\ UNCHANGED <<poolVars, refs, hold, traces, calls>>

\* A call that throws before it changes anything: an id <= -1, an id that is
\* not alive, or StartTrace(0) at the pool's limit.  The caller gets -1.
Rejected(t) ==
    /\ pc[t] = "idle"
    /\ UNCHANGED vars
-----------------------------------------------------------------------------
(* Calls on an existing node: ReferNode(id) comes first in all of them.    *)

\* The pc after that first ReferNode.
Entry(op) == IF op \in {"end", "forceEnd"} THEN "end" ELSE "refroot"

Call(t, op, id) ==
    /\ calls < MaxCalls
    /\ calls' = calls + 1
    /\ MayCall(t, op, id)
    /\ ReferNode(t, "node", id)
    /\ known' = KnownAfter(op, id)
    /\ Goto(t, Entry(op), [NoJob EXCEPT !.op = op, !.id = id,
                                        !.trace = node[id].trace])
    /\ UNCHANGED <<poolVars, node, traces>>

\* What follows ReferNode(node->root_id_).
AfterRoot(op) == CASE op = "start" -> "getnode"
                   [] op = "status" -> "write"
                   [] op = "context" -> "drop"

\* Mutant of ReferRoot: the exception path forgets the reference on the parent.
ReferRootLeaks(t) ==
    LET r == node[job[t].id].root IN
    /\ pc[t] = "refroot"
    /\ \/ /\ ReferNode(t, "root", r)
          /\ Goto(t, AfterRoot(job[t].op),
                  [job[t] EXCEPT !.cur = r])
       \/ /\ ~Alive(r)
          /\ Goto(t, "idle", NoJob)
          /\ hold' = [hold EXCEPT ![<<t, "node">>] = 0]
          /\ UNCHANGED refs
    /\ UNCHANGED <<poolVars, node, known, traces, calls>>

\* ReferNode(node->root_id_): the second step of StartTrace(parent), of
\* ChangeTraceStatus and of every call that works on the root.
ReferRoot(t) ==
    LET r == node[job[t].id].root IN
    /\ pc[t] = "refroot"
    /\ \/ /\ ReferNode(t, "root", r)
          /\ Goto(t, AfterRoot(job[t].op),
                  [job[t] EXCEPT !.cur = r])
       \/ /\ ~Alive(r)
          /\ Leave(t, job[t], "idle")
          /\ UNCHANGED <<hold, refs>>
    /\ UNCHANGED <<poolVars, node, known, traces, calls>>

\* StartTrace(parent): take a node, or throw at the limit.
GetChild(t) ==
    /\ pc[t] = "getnode"
    /\ \/ \E new \in 1 .. maxId + CELL_SIZE :
             /\ GetNode(new)
             /\ Goto(t, "bind", [job[t] EXCEPT !.new = new])
       \/ /\ GetNodeFails
          /\ Leave(t, job[t], "idle")
          /\ UNCHANGED <<poolVars, node, refs>>
    /\ UNCHANGED <<hold, known, traces, calls>>

\* Mutant of RootLocked: AppendToRootTrace takes no lock.
NeverLocked(r) == FALSE

\* A thread is between the lock_guard and the end of AppendToRootTrace(r).
RootLocked(r) == \E u \in Threads : pc[u] \in {"link", "finish"} /\ job[u].cur = r

\* A root without its extra part has neither lock nor status: t dereferences
\* root_node_extra_ptr_, which is null, and the process is gone.
NullExtra(t) ==
    /\ \/ pc[t] \in {"bind", "link", "finish"}
       \/ pc[t] = "write" /\ job[t].op = "status"
    /\ ~HasExtra(job[t].cur)
    /\ Goto(t, "crash", job[t])
    /\ UNCHANGED <<poolVars, node, refs, hold, known, traces, calls>>

\* TraceNode::BindParentTrace.
BindParentTrace(n, p) == [n EXCEPT !.parent = p, !.depth = node[p].depth + 1]

\* BindParentTrace, then AppendToRootTrace up to the read of `last`.
Bind(t) ==
    LET p == job[t].id
        r == job[t].cur
    IN
    /\ pc[t] = "bind"
    /\ HasExtra(r)
    /\ ~RootLocked(r)
    /\ node' = [node EXCEPT ![job[t].new] =
                    [BindParentTrace(@, p) EXCEPT !.root = r, !.trace = node[r].trace]]
    /\ Goto(t, "link", job[t])
    /\ UNCHANGED <<poolVars, refs, hold, known, traces, calls>>

\* The last node of the list, when there is one, is referred to (which throws
\* when it is gone), linked to the new one, and released.
LinkLast(t) ==
    LET last == node[job[t].cur].last IN
    /\ pc[t] = "link"
    /\ HasExtra(job[t].cur)
    /\ \/ /\ last = E_INVALID_NODE
          /\ Goto(t, "finish", job[t])
          /\ UNCHANGED node
       \/ /\ Alive(last)
          /\ node' = [node EXCEPT ![last].next = job[t].new]
          /\ Goto(t, "finish", job[t])
       \/ /\ last # E_INVALID_NODE
          /\ ~Alive(last)
          /\ Leave(t, job[t], "idle")
          /\ UNCHANGED node
    /\ UNCHANGED <<poolVars, refs, hold, known, traces, calls>>

\* SetLastNode, CreateNewSequence, and next_ of a root without children.
Appended(r, new) ==
    [r EXCEPT !.last = new, !.sequence = @ + 1,
              !.next = IF @ = E_INVALID_NODE THEN new ELSE @]

\* The rest of AppendToRootTrace and of StartTrace.  The caller gets the id,
\* unless an ill-formed option makes setNodeUserOption throw: the node is
\* linked by then, and goes away with its tree.
FinishAppend(t) ==
    LET r == job[t].cur
        new == job[t].new
    IN
    /\ pc[t] = "finish"
    /\ HasExtra(r)
    /\ node' = [node EXCEPT ![r] = Appended(@, new), ![new].seq = node[r].sequence]
    /\ \E optionsOk \in BOOLEAN :
          known' = IF optionsOk THEN known \cup {new} ELSE known
    /\ Leave(t, job[t], "idle")
    /\ UNCHANGED <<poolVars, refs, hold, traces, calls>>

\* The write of a call that works on the root: ChangeTraceStatus writes the
\* extra part, AddTraceContext (and the annotations) the node itself.
WriteRoot(t) ==
    LET r == job[t].cur IN
    /\ pc[t] = "write"
    /\ \/ /\ job[t].op = "status"
          /\ HasExtra(r)
          /\ \E s \in {"PASS", "BLOCK"} : node' = [node EXCEPT ![r].status = s]
       \/ /\ job[t].op = "context"
          /\ node' = [node EXCEPT ![r].ctx = job[t].trace]
    /\ Leave(t, job[t], "idle")
    /\ UNCHANGED <<poolVars, refs, hold, known, traces, calls>>
-----------------------------------------------------------------------------
(* EndTrace(id).                                                           *)

\* Mutant of EndTrace: a blocked trace returns early and frees nothing.
EndTraceKeepsBlocked(t) ==
    LET id == job[t].id IN
    /\ pc[t] = "end"
    /\ \/ /\ ~IsRootNode(id)
          /\ node' = [node EXCEPT ![id].ended = TRUE]
          /\ Leave(t, [job[t] EXCEPT !.cur = node[id].parent],
                   IF job[t].op = "forceEnd" THEN "parent" ELSE "idle")
          /\ UNCHANGED <<hold, refs>>
       \/ /\ IsRootNode(id)
          /\ node[id].status = "BLOCK"
          /\ Leave(t, job[t], "idle")
          /\ UNCHANGED <<node, hold, refs>>
       \/ /\ IsRootNode(id)
          /\ node[id].status = "PASS"
          /\ node' = [node EXCEPT ![id].ended = TRUE]
          /\ ReferNode(t, "root", id)
          /\ Goto(t, "walk", [job[t] EXCEPT !.cur = node[id].next])
    /\ UNCHANGED <<poolVars, known, traces, calls>>

\* A child, or a root whose status is not PASS, only ends (a blocked root is
\* not even marked).  A root with status PASS goes on to SendSpanTrace, which
\* refers to the root again.
EndTrace(t) ==
    LET id == job[t].id IN
    /\ pc[t] = "end"
    /\ \/ /\ ~IsRootNode(id)
          /\ node' = [node EXCEPT ![id].ended = TRUE]
          /\ Leave(t, [job[t] EXCEPT !.cur = node[id].parent],
                   IF job[t].op = "forceEnd" THEN "parent" ELSE "idle")
          /\ UNCHANGED <<hold, refs>>
       \/ /\ IsRootNode(id)
          /\ node[id].status = "BLOCK"
          /\ Leave(t, [job[t] EXCEPT !.cur = id], "free")
          /\ UNCHANGED <<node, hold, refs>>
       \/ /\ IsRootNode(id)
          /\ node[id].status = "PASS"
          /\ node' = [node EXCEPT ![id].ended = TRUE]
          /\ ReferNode(t, "root", id)
          /\ Goto(t, "walk", [job[t] EXCEPT !.cur = node[id].next])
       \/ /\ IsRootNode(id)
          /\ node[id].status = "PASS"
          /\ ~Alive(id)
          /\ node' = [node EXCEPT ![id].ended = TRUE]
          /\ Leave(t, job[t], "idle")
          /\ UNCHANGED <<hold, refs>>
    /\ UNCHANGED <<poolVars, known, traces, calls>>

\* Mutant of Walk: a node its caller has not ended is taken as it is.
WalkKeepsOpen(t) ==
    LET id == job[t].id
        cur == job[t].cur
    IN
    /\ pc[t] = "walk"
    /\ cur # E_INVALID_NODE
    /\ \/ /\ Alive(cur)
          /\ node' = [node EXCEPT ![id].events = Append(@, cur)]
          /\ Goto(t, "walk", [job[t] EXCEPT !.cur = node[cur].next])
       \/ /\ ~Alive(cur)
          /\ Leave(t, job[t], "idle")
          /\ UNCHANGED node
    /\ UNCHANGED <<poolVars, refs, hold, known, traces, calls>>

\* One turn of EncodeTraceToJsonSpan's loop, which takes no root lock: the
\* node is ended if its caller has not, and becomes an event of the root.
Walk(t) ==
    LET id == job[t].id
        cur == job[t].cur
    IN
    /\ pc[t] = "walk"
    /\ cur # E_INVALID_NODE
    /\ \/ /\ Alive(cur)
          /\ node' = [node EXCEPT ![cur].ended = TRUE, ![id].events = Append(@, cur)]
          /\ Goto(t, "walk", [job[t] EXCEPT !.cur = node[cur].next])
       \/ /\ ~Alive(cur)
          /\ Leave(t, job[t], "idle")
          /\ UNCHANGED node
    /\ UNCHANGED <<poolVars, refs, hold, known, traces, calls>>

\* TrySendSpan and the raw span handler; an exception skips FreeNodeTree.
Send(t) ==
    /\ pc[t] = "walk"
    /\ job[t].cur = E_INVALID_NODE
    /\ \/ Leave(t, [job[t] EXCEPT !.cur = job[t].id], "free")
       \/ SendThrows /\ Leave(t, job[t], "idle")
    /\ UNCHANGED <<poolVars, node, refs, hold, known, traces, calls>>
-----------------------------------------------------------------------------
(* Leaving a call, normally or by an exception.                            *)

\* Mutant of Unrefer: the destructor does not call decReference.
UnreferKeepsCount(t, s) ==
    /\ hold[<<t, s>>] # 0
    /\ hold' = [hold EXCEPT ![<<t, s>>] = 0]
    /\ UNCHANGED refs

\* ~WrapperTraceNodePtr of slot s.
Unrefer(t, s) ==
    /\ hold[<<t, s>>] # 0
    /\ hold' = [hold EXCEPT ![<<t, s>>] = 0]
    /\ refs' = [refs EXCEPT ![hold[<<t, s>>]] = @ - 1]

\* The wrappers of a scope go in reverse order.
Release(t) ==
    /\ pc[t] = "unwind"
    /\ Unrefer(t, IF hold[<<t, "root">>] # 0 THEN "root" ELSE "node")
    /\ UNCHANGED <<poolVars, node, pc, job, known, traces, calls>>

\* GetWrapperTraceNode returns the root's wrapper and drops the node's.
DropNode(t) ==
    /\ pc[t] = "drop"
    /\ Unrefer(t, "node")
    /\ Goto(t, "write", job[t])
    /\ UNCHANGED <<poolVars, node, known, traces, calls>>

\* All wrappers are gone: the call returns, or EndTrace goes on.
Left(t) ==
    /\ pc[t] = "unwind"
    /\ \A s \in Slots : hold[<<t, s>>] = 0
    /\ Goto(t, job[t].then, IF job[t].then = "idle" THEN NoJob ELSE job[t])
    /\ UNCHANGED <<poolVars, node, refs, hold, known, traces, calls>>

\* pinpoint_force_end_trace: EndTrace again, on the parent of the child that
\* was ended; it throws if the parent is not alive (-1 included).
EndParent(t) ==
    LET p == job[t].cur IN
    /\ pc[t] = "parent"
    /\ \/ /\ ReferNode(t, "node", p)
          /\ Goto(t, "end", [job[t] EXCEPT !.id = p])
       \/ /\ ~Alive(p)
          /\ Goto(t, "idle", NoJob)
          /\ UNCHANGED <<hold, refs>>
    /\ UNCHANGED <<poolVars, node, known, traces, calls>>

\* Mutants of ReturnNode: a referenced node is recycled; a node that is already
\* in the free list is returned again; the loop goes on until the root is gone.
ReturnReferenced(t) ==
    LET cur == job[t].cur
        next == node[cur].next
    IN
    /\ pc[t] = "free"
    /\ \/ /\ ~Alive(cur)
          /\ Goto(t, "idle", NoJob)
          /\ UNCHANGED poolVars
       \/ /\ Alive(cur)
          /\ RecycleNode(cur)
          /\ IF next = E_INVALID_NODE THEN Goto(t, "idle", NoJob)
             ELSE Goto(t, "free", [job[t] EXCEPT !.cur = next])
    /\ UNCHANGED <<node, refs, hold, known, traces, calls>>
ReturnTwice(t) ==
    LET cur == job[t].cur
        next == node[cur].next
    IN
    /\ pc[t] = "free"
    /\ refs[cur] = 0 \/ Forced
    /\ RecycleNode(cur)
    /\ IF next = E_INVALID_NODE THEN Goto(t, "idle", NoJob)
       ELSE Goto(t, "free", [job[t] EXCEPT !.cur = next])
    /\ UNCHANGED <<node, refs, hold, known, traces, calls>>
ReturnStartsOver(t) ==
    LET cur == job[t].cur
        next == node[cur].next
    IN
    /\ pc[t] = "free"
    /\ \/ /\ ~Alive(cur)
          /\ Goto(t, "idle", NoJob)
          /\ UNCHANGED poolVars
       \/ /\ Alive(cur)
          /\ refs[cur] = 0 \/ Forced
          /\ RecycleNode(cur)
          /\ Goto(t, "free", [job[t] EXCEPT !.cur = IF next = E_INVALID_NODE
                                                    THEN job[t].id ELSE next])
    /\ UNCHANGED <<node, refs, hold, known, traces, calls>>

\* FreeNodeTree: one ReturnNode.  A node that is gone ends the loop, a node in
\* use is retried (t waits here), and after 1000 retries it is forced.
ReturnNode(t) ==
    LET cur == job[t].cur
        next == node[cur].next
    IN
    /\ pc[t] = "free"
    /\ \/ /\ ~Alive(cur)
          /\ Goto(t, "idle", NoJob)
          /\ UNCHANGED poolVars
       \/ /\ Alive(cur)
          /\ refs[cur] = 0 \/ Forced
          /\ RecycleNode(cur)
          /\ IF next = E_INVALID_NODE THEN Goto(t, "idle", NoJob)
             ELSE Goto(t, "free", [job[t] EXCEPT !.cur = next])
    /\ UNCHANGED <<node, refs, hold, known, traces, calls>>
-----------------------------------------------------------------------------
Ops == {"start", "status", "context", "end", "forceEnd"}

Crashed == \E t \in Threads : pc[t] = "crash"

\* The steps a thread takes inside a call.
Inside(t) ==
    \/ Upgrade(t) \/ ReferRoot(t) \/ GetChild(t) \/ NullExtra(t) \/ Bind(t)
    \/ LinkLast(t) \/ FinishAppend(t) \/ WriteRoot(t)
    \/ EndTrace(t) \/ Walk(t) \/ Send(t)
    \/ Release(t) \/ DropNode(t) \/ Left(t) \/ EndParent(t) \/ ReturnNode(t)

Step(t) ==
    \/ StartRoot(t)
    \/ \E op \in Ops, id \in known : Call(t, op, id)
    \/ Rejected(t)
    \/ Inside(t)

\* A thread that dereferenced null takes no further step, and the process is
\* about to go: nothing is expected of it any more.
Gone == Crashed /\ UNCHANGED vars

Next == (\E t \in Threads : Step(t)) \/ Gone

\* Every thread that is inside a call is scheduled again.
Fairness == \A t \in Threads : WF_vars(Inside(t))

Spec == Init /\ [][Next]_vars
FairSpec == Spec /\ Fairness
-----------------------------------------------------------------------------
(* Properties.                                                             *)

NodeRefs == Int
PCs == {"idle", "upgrade", "refroot", "getnode", "bind", "link", "finish",
        "drop", "write", "end", "walk", "unwind", "parent", "free", "crash"}
NodeType ==
    [root : NodeRefs, parent : NodeRefs, next : NodeRefs, depth : Int, seq : Int,
     ended : BOOLEAN, events : Seq(Int), ctx : Int,
     status : {"null", "PASS", "BLOCK"}, last : NodeRefs, sequence : Int,
     trace : Int]
JobType ==
    [op : Ops \cup {"none", "root"}, id : Int, trace : Int, new : Int,
     cur : NodeRefs, then : {"idle", "parent", "free"}]

\* Types, and the size of the pool: expandOnce runs while maxId is not above
\* the limit, so that the pool may pass the limit by at most one cell.
TypeOK ==
    /\ maxId \in CELL_SIZE .. POOL_MAX_NODES_LIMIT + CELL_SIZE
    /\ free \in Seq(Ids)
    /\ used \in [Ids -> BOOLEAN]
    /\ node \in [Ids -> NodeType]
    /\ refs \in [Ids -> Int]
    /\ hold \in [Threads \X Slots -> Ids \cup {0}]
    /\ pc \in [Threads -> PCs]
    /\ job \in [Threads -> JobType]
    /\ known \subseteq Ids
    /\ traces \in Nat
    /\ calls \in 0 .. MaxCalls

\* The stack fr and the flags us split the ids 1..m between them.
Partition(m, fr, us) ==
    /\ \A i, j \in 1 .. Len(fr) : fr[i] = fr[j] => i = j
    /\ \A i \in 1 .. m : us[i] <=> \A k \in 1 .. Len(fr) : fr[k] # i

\* Whatever the clients do, with stale ids, double ends, forced returns and
\* exceptions, no id is twice in the free stack and an id is there exactly when
\* its node is not in use: GetNode never gives one node to two callers, and
\* no node is lost to both (getReadyNode, returnNode, expandOnce).
PoolPartition == Partition(maxId, free, used)

\* The wrappers that refer to node i.
Holders(i) == {h \in Threads \X Slots : hold[h] = i}

\* Unless a return is forced, reference_count_ counts the live wrappers: every
\* path out of a call, the exceptions included, gives back what it took.
RefCountExact == ~Forced => \A i \in Ids : refs[i] = Cardinality(Holders(i))

\* Unless a return is forced, a wrapper never outlives its node: no thread
\* reads or writes a node that was recycled under it, whatever ids it is given.
HeldIsUsed == ~Forced => \A h \in Threads \X Slots : hold[h] # 0 => Alive(hold[h])

\* For clients that own their traces: an id they may use is alive, its root and
\* its parent are alive and in the same trace, the root has its extra part, and
\* the depth grows by one from parent to child (StartTrace, BindParentTrace).
TreeConsistent ==
    \A n \in known :
        /\ used[n]
        /\ Alive(node[n].root) /\ HasExtra(node[n].root)
        /\ node[node[n].root].trace = node[n].trace
        /\ Alive(node[n].parent)
        /\ node[node[n].parent].trace = node[n].trace
        /\ n # node[n].root => node[n].depth = node[node[n].parent].depth + 1

\* The nodes linked below the root r.
Members(r) == {n \in Ids \ {r} : used[n] /\ node[n].root = r
                                         /\ node[n].trace = node[r].trace}

\* A child is being linked below r.
Appending(r) == \E u \in Threads : pc[u] \in {"link", "finish"} /\ job[u].cur = r

\* Whenever no thread is inside AppendToRootTrace(r), the list that starts at
\* the root's next_ runs through all the nodes of the trace in the order of
\* their sequence numbers 0, 1, 2, ..., and ends at `last`, although its
\* nodes were appended by several threads.
ListSound ==
    \A r \in known : IsRootNode(r) /\ ~Appending(r) =>
        LET M == Members(r) IN
        /\ Cardinality(M) = node[r].sequence
        /\ {node[n].seq : n \in M} = 0 .. node[r].sequence - 1
        /\ M = {} => node[r].next = E_INVALID_NODE /\ node[r].last = E_INVALID_NODE
        /\ M # {} => node[r].next \in M /\ node[node[r].next].seq = 0
        /\ \A n \in M :
              IF n = node[r].last THEN node[n].next = E_INVALID_NODE
              ELSE node[n].next \in M /\ node[node[n].next].seq = node[n].seq + 1

\* A context value of a root was written in this life of the node: what one
\* trace stored is never seen by the next trace that gets the same node.
ContextIsOwn == \A r \in known : IsRootNode(r) => node[r].ctx \in {0, node[r].trace}

\* The span that is sent holds every node of its trace once, in sequence order
\* and ended, and nothing of another trace: no node, and no context value of an
\* earlier trace of the same node (EncodeTraceToJsonSpan, TraceNode::Reset).
SpanIsWholeTrace == ContextIsOwn /\
    \A t \in Threads : pc[t] = "walk" /\ job[t].cur = E_INVALID_NODE =>
        LET r == node[job[t].id] IN
        /\ Len(r.events) = r.sequence
        /\ \A k \in 1 .. Len(r.events) :
              LET n == node[r.events[k]] IN
              n.seq = k - 1 /\ n.ended /\ n.trace = r.trace

\* When no call is in progress every node in use belongs to a trace whose root
\* the clients still have: nothing leaks (NoNodesLeak), also not the nodes whose
\* StartTrace failed.
NoNodesLeak ==
    (\A t \in Threads : pc[t] = "idle") =>
        \A n \in Ids : used[n] =>
            \E r \in known : IsRootNode(r) /\ node[r].trace = node[n].trace

\* EndTrace recycles nodes of the trace it was called on and no other.
FreesOwnTrace ==
    \A t \in Threads : pc[t] = "free" /\ Alive(job[t].cur) =>
        node[job[t].cur].trace = job[t].trace

\* The trees and lists of owning clients are sound, and no thread ever dereferences
\* the null extra part of a node that is not a root.
TreeSound == TreeConsistent /\ ListSound /\ ~Crashed

\* Every call returns: EndTrace does not wait for ever for references on its
\* nodes, and the lists it walks and frees end.
CallsReturn == \A t \in Threads : pc[t] # "idle" ~> pc[t] = "idle" \/ Crashed
=============================================================================
