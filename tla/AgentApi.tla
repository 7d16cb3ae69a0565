------------------------------ MODULE AgentApi ------------------------------
(***************************************************************************)
(* The C API of the agent (common/include/pinpoint/common.h, common.cpp)   *)
(* as its callers see it when no two calls overlap: the PHP extension has  *)
(* one thread and a thread_local pool, the Python extension makes every    *)
(* call with the interpreter lock held.  NodePool opens the same calls up  *)
(* into their critical sections for callers without that lock.             *)
(*                                                                         *)
(* A call is an operator from the store (the agent with its pool and its   *)
(* nodes) to a record: s is the store after it, ret what it returns, ok is *)
(* FALSE when the Agent method threw, span is the span handed to           *)
(* TrySendSpan or NoSpan.  A node's annotations are the JSON object the    *)
(* span is written from (JsonValue).                                       *)
(***************************************************************************)
EXTENDS JsonValue, SequencesExt

CONSTANTS
    CELL_SIZE,             \* nodes added by one expandOnce
    POOL_MAX_NODES_LIMIT   \* no expansion beyond this

E_INVALID_NODE == -1
E_ROOT_NODE == 0
E_TRACE_PASS == 2
E_TRACE_BLOCK == 4
NodeIds == 1 .. CELL_SIZE * (POOL_MAX_NODES_LIMIT \div CELL_SIZE + 1)

NoSpan == nullValue
ClockValue == intValue(0)   \* a time; no property looks at it
Returns(s, ret) == [s |-> s, ret |-> ret, ok |-> TRUE, span |-> NoSpan]
Throws(s) == [s |-> s, ret |-> E_INVALID_NODE, ok |-> FALSE, span |-> NoSpan]
-----------------------------------------------------------------------------
(* TraceNode *)

NoExtra == [last |-> E_INVALID_NODE, status |-> E_TRACE_PASS, sequence |-> -1]
RootTraceNodeExtra == [last |-> E_INVALID_NODE, status |-> E_TRACE_PASS, sequence |-> 0]

TraceNode ==
    [root |-> E_INVALID_NODE, parent |-> E_INVALID_NODE, next |-> E_INVALID_NODE,
     depth |-> 1, seq |-> -1, ended |-> FALSE, exp |-> FALSE, extra |-> NoExtra,
     value |-> nullValue, ctx |-> EmptyMap]

Reset(n) ==
    [TraceNode EXCEPT !.depth = n.depth, !.seq = n.seq, !.value = clear(n.value).v]

AddAnnotation(n, key, v) == [n EXCEPT !.value = assign(@, key, v).v]

UpgradeToRootNode(n, id) ==
    AddAnnotation([n EXCEPT !.extra = RootTraceNodeExtra, !.root = id, !.parent = id,
                            !.next = E_INVALID_NODE, !.depth = 0, !.seq = 0],
                  ":FT", ClockValue)

(* EndTrace: the times, the exception mark, and the place of a span event. *)
Set(v, key, x) == assign(v, key, x).v
Timed(v) == Set(Set(v, ":E", ClockValue), ":S", ClockValue)
Marked(n, v) == IF n.exp THEN Set(v, "EA", intValue(1)) ELSE v
Placed(n, v) ==
    IF n.extra # NoExtra THEN v
    ELSE Set(Set(v, ":seq", intValue(n.seq)), ":depth", intValue(n.depth))
EndNode(n) == [n EXCEPT !.ended = TRUE, !.value = Placed(n, Marked(n, Timed(@)))]
-----------------------------------------------------------------------------
(* PoolManager *)

expandOnce(s) ==
    [s EXCEPT !.free = @ \o [i \in 1 .. CELL_SIZE |-> s.maxId + i], !.maxId = @ + CELL_SIZE]

NoAgent == [agent |-> FALSE, maxId |-> 0, free |-> <<>>, used |-> {},
            node |-> [id \in NodeIds |-> TraceNode]]

(* indexInUsedVec: what ReferNode needs in order not to throw.             *)
Alive(s, id) == id \in 1 .. s.maxId /\ id \in s.used

Take(s, id) ==
    Returns([s EXCEPT !.free = Front(@), !.used = @ \cup {id}, !.node[id] = Reset(@)], id)

getReadyNode(s) ==
    CASE s.free # <<>> -> Take(s, Last(s.free))
      [] s.free = <<>> /\ s.maxId > POOL_MAX_NODES_LIMIT -> Throws(s)
      [] OTHER -> Take(expandOnce(s), s.maxId + CELL_SIZE)

(* The root's list: last is its end before id is added, or id itself.      *)
Linked(s, root, id, last) ==
    [s EXCEPT !.node[last].next = IF last = id THEN @ ELSE id,
              !.node[root].extra = [@ EXCEPT !.last = id, !.sequence = @ + 1],
              !.node[id].seq = s.node[root].extra.sequence,
              !.node[root].next = IF @ = E_INVALID_NODE THEN id ELSE @]

AppendToRootTrace(s, root, id, last) ==
    CASE last = E_INVALID_NODE -> Returns(Linked(s, root, id, id), id)
      [] last # E_INVALID_NODE /\ Alive(s, last) -> Returns(Linked(s, root, id, last), id)
      [] OTHER -> Throws(s)

(* The nodes on the list that begins with id.                              *)
ListFrom(s, id) ==
    LET list[left \in 0 .. Cardinality(NodeIds), i \in NodeIds \cup {E_INVALID_NODE}] ==
            IF left = 0 \/ i = E_INVALID_NODE THEN <<>>
            ELSE <<i>> \o list[left - 1, s.node[i].next]
    IN  list[Cardinality(NodeIds), id]

(* ReturnNode along the list: no call overlaps, so no node is referenced.  *)
ReturnNodes(s, list) == [s EXCEPT !.used = @ \ ToSet(list), !.free = @ \o list]
FreeNodeTree(s, root) == ReturnNodes(s, ListFrom(s, root))

(* value_["event"].append throws when a clue has made "event" a string;    *)
(* what was appended before stays.                                         *)
Event(r, root, id, n, added) ==
    [r EXCEPT !.ok = added.ok, !.s.node[id] = n, !.s.node[root].value = added.v]
AddEvent(r, root, id, n) ==
    Event(r, root, id, n, appendMember(r.s.node[root].value, "event", n.value))
EndedNode(n) == IF n.ended THEN n ELSE EndNode(n)

Encoded(r, root) ==
    IF r.ok THEN [r EXCEPT !.span = r.s.node[root].value] ELSE Throws(r.s)

EncodeTraceToJsonSpan(s, root) ==
    LET Visit(r, id) == IF ~r.ok THEN r
                        ELSE IF ~Alive(r.s, id) THEN Throws(r.s)
                        ELSE AddEvent(r, root, id, EndedNode(r.s.node[id]))
    IN  Encoded(FoldLeft(Visit, Returns(s, root), ListFrom(s, s.node[root].next)), root)
-----------------------------------------------------------------------------
(* The methods of Agent *)

StartRoot(new) ==
    IF new.ok THEN [new EXCEPT !.s.node[new.ret] = UpgradeToRootNode(@, new.ret)] ELSE new

\* Mutant of BindParentTrace: the depth stays what it was.
BindParentTraceOnly(n, parent, p) == [n EXCEPT !.parent = parent, !.root = p.root]

(* With the root that AppendToRootTrace sets.                              *)
BindParentTrace(n, parent, p) ==
    [n EXCEPT !.parent = parent, !.depth = p.depth + 1, !.root = p.root]

StartChild(new, parent, p) ==
    IF new.ok
    THEN AppendToRootTrace([new.s EXCEPT !.node[new.ret] = BindParentTrace(@, parent, p)], p.root,
                           new.ret, new.s.node[p.root].extra.last)
    ELSE new

StartTrace(s, parent) ==
    CASE parent <= E_INVALID_NODE -> Throws(s)
      [] parent = E_ROOT_NODE -> StartRoot(getReadyNode(s))
      [] OTHER -> IF ~Alive(s, parent) \/ ~Alive(s, s.node[parent].root) THEN Throws(s)
                  ELSE StartChild(getReadyNode(s), parent, s.node[parent])

Sent(r, id) ==
    IF r.ok THEN [r EXCEPT !.s = FreeNodeTree(@, id), !.ret = E_ROOT_NODE] ELSE r

\* Mutant of EndRoot: a trace that is not sent keeps its nodes.
EndRootKeepsBlocked(s, id) ==
    IF s.node[id].extra.status # E_TRACE_PASS THEN Returns(s, E_ROOT_NODE)
    ELSE Sent(EncodeTraceToJsonSpan([s EXCEPT !.node[id] = EndNode(@)], id), id)

(* The root ends the trace: its span is sent unless the status forbids it, *)
(* then every node is freed.  Nothing is freed when encoding throws.       *)
EndRoot(s, id) ==
    IF s.node[id].extra.status # E_TRACE_PASS THEN Returns(FreeNodeTree(s, id), E_ROOT_NODE)
    ELSE Sent(EncodeTraceToJsonSpan([s EXCEPT !.node[id] = EndNode(@)], id), id)

(* A child is ended and stays in the tree.                                 *)
EndTrace(s, id) ==
    CASE ~Alive(s, id) -> Throws(s)
      [] Alive(s, id) /\ s.node[id].root = id -> EndRoot(s, id)
      [] OTHER -> Returns([s EXCEPT !.node[id] = EndNode(@)], s.node[id].parent)

(* GetWrapperTraceNode: the node an operation at loc works on, or 0.       *)
GetWrapperTraceNode(s, id, loc) ==
    CASE ~Alive(s, id) -> 0
      [] Alive(s, id) /\ loc = "root" -> IF Alive(s, s.node[id].root) THEN s.node[id].root ELSE 0
      [] OTHER -> id

ChangeTraceStatus(s, id, status) ==
    LET root == GetWrapperTraceNode(s, id, "root")
    IN  IF root = 0 THEN Throws(s)
        ELSE Returns([s EXCEPT !.node[root].extra.status = status], s.node[root].extra.status)

(* Of the keys that begin with a colon, the ones the agent itself writes.  *)
InternalKeys == {":FT", ":E", ":S", ":seq", ":depth"}

\* Mutant of NotInternalKey: every key is accepted.
AnyKey(key) == TRUE

NotInternalKey(key) == key \notin InternalKeys

AnnotateTrace_V1(s, id, key, v, loc) ==
    LET at == GetWrapperTraceNode(s, id, loc)
    IN  IF ~NotInternalKey(key) \/ at = 0 THEN Throws(s)
        ELSE Returns([s EXCEPT !.node[at] = AddAnnotation(@, key, v)], 0)

AnnotateTrace_V2(s, id, key, v, loc) ==
    LET at == GetWrapperTraceNode(s, id, loc)
        added == appendMember(s.node[at].value, "anno", v)
    IN  IF ~NotInternalKey(key) \/ at = 0 THEN Throws(s)
        ELSE [Returns([s EXCEPT !.node[at].value = added.v], 0) EXCEPT !.ok = added.ok]

AnnotateErrorTrace(s, id, msg) == AnnotateTrace_V1(s, id, "ERR", msg, "root")
SetAsyncContext(s, id, async) == AnnotateTrace_V1(s, id, "asy", async, "root")

AnnotateExceptionTrace(s, id, msg) ==
    LET root == GetWrapperTraceNode(s, id, "root")
        noted == AddAnnotation([s.node[id] EXCEPT !.exp = TRUE], "EXP_V2", msg)
    IN  IF ~Alive(s, id) THEN Throws(s)
        ELSE IF root = 0 THEN Throws([s EXCEPT !.node[id].exp = TRUE])
        ELSE Returns([[s EXCEPT !.node[id] = noted] EXCEPT !.node[root].exp = TRUE], 0)

(* A context value is modelled by its length, the buffer by its size.      *)
AddTraceContext(s, id, key, v) ==
    LET root == GetWrapperTraceNode(s, id, "root")
    IN  IF root = 0 THEN Throws(s) ELSE Returns([s EXCEPT !.node[root].ctx = With(@, key, v)], 0)

GetTraceContext(s, id, key, buf_size) ==
    LET root == GetWrapperTraceNode(s, id, "root")
    IN  IF root = 0 \/ key \notin DOMAIN s.node[root].ctx THEN Throws(s)
        ELSE IF buf_size > s.node[root].ctx[key] THEN Returns(s, s.node[root].ctx[key])
        ELSE Returns(s, -1)
-----------------------------------------------------------------------------
(* The C functions: without an agent, and when the method throws, they     *)
(* return `failed`.                                                        *)
Api(s, r, failed) ==
    IF ~s.agent THEN Returns(s, failed) ELSE [r EXCEPT !.ret = IF r.ok THEN @ ELSE failed]

pinpoint_set_agent(s) ==
    IF s.agent THEN Returns(s, FALSE)
    ELSE Returns([expandOnce(NoAgent) EXCEPT !.agent = TRUE], TRUE)

pinpoint_start_trace(s, parent) == Api(s, StartTrace(s, parent), E_INVALID_NODE)
pinpoint_end_trace(s, id) == Api(s, EndTrace(s, id), E_INVALID_NODE)

(* EndTrace from id upwards; no path is longer than the pool is large.     *)
pinpoint_force_end_trace(s, id) ==
    LET Turn(r, turn) ==
            IF ~r.ok \/ r.ret = E_ROOT_NODE \/ (turn > 1 /\ r.ret = E_INVALID_NODE) THEN r
            ELSE EndTrace(r.s, r.ret)
        ended == FoldLeft(Turn, Returns(s, id), [turn \in 1 .. Cardinality(NodeIds) |-> turn])
    IN  Api(s, [ended EXCEPT !.ret = E_ROOT_NODE], E_INVALID_NODE)

pinpoint_add_exception(s, id, msg) == Api(s, AnnotateExceptionTrace(s, id, msg), 0)
pinpoint_add_clues(s, id, key, v, loc) == Api(s, AnnotateTrace_V2(s, id, key, v, loc), 0)
pinpoint_add_clue(s, id, key, v, loc) == Api(s, AnnotateTrace_V1(s, id, key, v, loc), 0)
pinpoint_set_context_key(s, id, key, v) == Api(s, AddTraceContext(s, id, key, v), 0)
pinpoint_get_context_key(s, id, key, buf_size) ==
    Api(s, GetTraceContext(s, id, key, buf_size), 0)
change_trace_status(s, id, status) == Api(s, ChangeTraceStatus(s, id, status), 0)
catch_error(s, id, msg) == Api(s, AnnotateErrorTrace(s, id, msg), 0)
pinpoint_set_async_ctx(s, id, async) == Api(s, SetAsyncContext(s, id, async), 0)

pinpoint_trace_is_root(s, id) ==
    IF s.agent /\ Alive(s, id) THEN IF s.node[id].root = id THEN 1 ELSE 0 ELSE -1
pinpoint_get_depth(s, id) == IF s.agent /\ Alive(s, id) THEN s.node[id].depth ELSE -1
pinpoint_get_sequence_id(s, id) == IF s.agent /\ Alive(s, id) THEN s.node[id].seq ELSE -1
-----------------------------------------------------------------------------
(* The events of id's trace that come before it.                           *)
Earlier(s, id) ==
    Cardinality({i \in s.used : /\ s.node[i].root # i /\ s.node[i].root = s.node[id].root
                               /\ s.node[i].seq < s.node[id].seq})

(* A span the collector can rebuild the call tree from: the root and every *)
(* event have been ended, events are numbered from 0 in the order of the   *)
(* list, and an event below depth 1 comes after one of the depth above it. *)
(* "event" is no list only in a trace without children.                    *)
Member(v, key) == find(v, key, nullValue).ret

SpanWellFormed(span) ==
    LET events == Member(span, "event")
        Nth(i) == map_(events)[i]
        depth(i) == Member(Nth(i), ":depth")[2]
    IN  /\ isMember(span, ":E").ret
        /\ type(events) = "array" => \A i \in DOMAIN map_(events) :
              /\ isMember(Nth(i), ":E").ret
              /\ Member(Nth(i), ":seq") = intValue(i)
              /\ depth(i) = 1 \/ \E j \in 0 .. i - 1 : depth(j) = depth(i) - 1
=============================================================================
