---------------------------- MODULE PyExtension -----------------------------
(***************************************************************************)
(* The Python extension (src/PY/_pinpoint_py.cpp).  Its threads share one  *)
(* pool (PINPOINT_MT) and each has a current node of its own; every call   *)
(* is made with the interpreter lock held, so calls do not overlap.  Ids   *)
(* are shared: a node of a trace that has ended is soon a node of another. *)
(*                                                                         *)
(* The extension trusts its callers in two things, which the guards named  *)
(* Trusted state: the root of a thread's own trace, the one its current    *)
(* node is in, is ended through the current node and not by its id, and a  *)
(* thread flushes only traces that it opened.                              *)
(***************************************************************************)
EXTENDS AgentApi

CONSTANTS
    Threads,
    PyClueKeys,    \* keys of clues
    MaxPyCalls,    \* bound: calls that start or end traces
    MaxPyClues     \* bound: calls that annotate

VARIABLES
    store,         \* the agent (AgentApi)
    curOf,         \* per_thread_current_id of every thread
    opener,        \* history: who opened the trace of a root, and how
    calls,         \* calls made so far
    clues,
    sent           \* history: the span the last call sent, or NoSpan

vars == <<store, curOf, opener, calls, clues, sent>>

Init ==
    /\ store = NoAgent
    /\ curOf = [t \in Threads |-> E_ROOT_NODE]
    /\ opener = [id \in NodeIds |-> <<"nobody", "none">>]
    /\ calls = 0
    /\ clues = 0
    /\ sent = NoSpan

Id(t, id) == IF id = -1 THEN curOf[t] ELSE id
IdArguments == {-1, 0} \cup NodeIds
OpenerOf(id) == opener[store.node[id].root]

(* What a call does besides its effect on the current node.                *)
Called(r) ==
    /\ calls < MaxPyCalls
    /\ calls' = calls + 1
    /\ store' = r.s
    /\ sent' = r.span
    /\ UNCHANGED clues

Annotated(r) ==
    /\ clues < MaxPyClues
    /\ clues' = clues + 1
    /\ store' = r.s
    /\ sent' = NoSpan
    /\ UNCHANGED <<curOf, opener, calls>>

set_agent ==
    /\ store' = pinpoint_set_agent(store).s
    /\ UNCHANGED <<curOf, opener, calls, clues, sent>>

Opened(t, how, parent, r) ==
    opener' = IF parent = E_ROOT_NODE /\ r.ret # E_INVALID_NODE
              THEN [opener EXCEPT ![r.ret] = <<t, how>>] ELSE opener

StartedLocal(t, r) ==
    /\ Called(r)
    /\ curOf' = [curOf EXCEPT ![t] = r.ret]
    /\ Opened(t, "local", curOf[t], r)

start_thread_local_trace(t) == StartedLocal(t, pinpoint_start_trace(store, curOf[t]))

StartedBy(t, id, r) == Called(r) /\ Opened(t, "explicit", id, r) /\ UNCHANGED curOf

start_trace(t, id) ==
    IF id = -1 THEN start_thread_local_trace(t)
    ELSE StartedBy(t, id, pinpoint_start_trace(store, id))

EndedLocal(t, r) ==
    Called(r) /\ curOf' = [curOf EXCEPT ![t] = r.ret] /\ UNCHANGED opener

end_thread_local_trace(t) == EndedLocal(t, pinpoint_end_trace(store, curOf[t]))

TrustedEnd(id) == Alive(store, id) /\ store.node[id].root = id => OpenerOf(id)[2] = "explicit"

end_trace(t, id) ==
    IF id = -1 THEN end_thread_local_trace(t)
    ELSE TrustedEnd(id) /\ Called(pinpoint_end_trace(store, id)) /\ UNCHANGED <<curOf, opener>>

TrustedFlush(t, id) == Alive(store, id) => OpenerOf(id)[1] = t

\* Mutant of Settled: a flush by an explicit id leaves the current node alone.
SettledByCurrent(t, id, s) ==
    IF id = -1 /\ curOf[t] # E_ROOT_NODE /\ pinpoint_trace_is_root(s, curOf[t]) = -1
    THEN E_ROOT_NODE ELSE curOf[t]

(* "Explicit IDs may also close the tree containing the thread-local node." *)
Settled(t, id, s) ==
    IF curOf[t] # E_ROOT_NODE /\ pinpoint_trace_is_root(s, curOf[t]) = -1
    THEN E_ROOT_NODE ELSE curOf[t]

Flushed(t, id, r) ==
    /\ Called(r)
    /\ curOf' = IF r.ret # E_ROOT_NODE THEN curOf
                ELSE [curOf EXCEPT ![t] = Settled(t, id, r.s)]
    /\ UNCHANGED opener

force_flush_span(t, id) ==
    TrustedFlush(t, Id(t, id)) /\ Flushed(t, id, pinpoint_force_end_trace(store, Id(t, id)))

drop_trace(t, id) == Annotated(change_trace_status(store, Id(t, id), E_TRACE_BLOCK))
context_key(t, id) == Annotated(pinpoint_set_context_key(store, Id(t, id), "k", 1))
add_clue(t, key, id, loc) ==
    Annotated(pinpoint_add_clue(store, Id(t, id), key, stringValue("v"), loc))
add_clues(t, key, id, loc) ==
    Annotated(pinpoint_add_clues(store, Id(t, id), key, stringValue("v"), loc))
mark_an_error(t, id) == Annotated(catch_error(store, Id(t, id), stringValue("msg")))
add_exception(t, id) == Annotated(pinpoint_add_exception(store, Id(t, id), stringValue("exp")))

(* There is no default here: -1 is passed on.                              *)
set_async_ctx(id) == Annotated(pinpoint_set_async_ctx(store, id, intValue(1)))

Next ==
    \/ set_agent
    \/ \E id \in IdArguments : set_async_ctx(id)
    \/ \E t \in Threads, id \in IdArguments :
          \/ start_trace(t, id) \/ end_trace(t, id) \/ force_flush_span(t, id)
          \/ drop_trace(t, id) \/ context_key(t, id)
          \/ mark_an_error(t, id) \/ add_exception(t, id)
          \/ \E key \in PyClueKeys, loc \in {"current", "root"} :
                add_clue(t, key, id, loc) \/ add_clues(t, key, id, loc)
-----------------------------------------------------------------------------
(* Properties *)

(* What the reading functions return.                                      *)
get_key(t, key, id) ==
    LET len == pinpoint_get_context_key(store, Id(t, id), key, 1024).ret
    IN  IF len > 0 THEN len ELSE FALSE
get_sequence_id(t, id) == pinpoint_get_sequence_id(store, Id(t, id))

(* Whichever thread asks, the sequence number of a node is that of its     *)
(* place in its present trace, and all nodes of a trace read the same      *)
(* context.                                                                *)
ReadsSound ==
    \A t \in Threads, id \in store.used :
        /\ get_sequence_id(t, id) = Earlier(store, id)
        /\ get_key(t, "k", id) = get_key(t, "k", store.node[id].root)

(* What the plugins ask before they trace.                                 *)
trace_has_root(t) == pinpoint_trace_is_root(store, Id(t, -1)) # -1
is_root_trace(t) == pinpoint_trace_is_root(store, Id(t, -1)) = 1

(* The current node of a thread is one of the thread's own open trace, or  *)
(* none, or -1 after a failed call: never a node that was freed and now    *)
(* belongs to a trace of somebody else.  A flush by an explicit id can     *)
(* close the tree the current node is in; ids are reused at once.  So      *)
(* trace_has_root and is_root_trace answer for the thread's own trace.     *)
CurrentIsOwn ==
    \A t \in Threads :
        /\ curOf[t] > E_ROOT_NODE => Alive(store, curOf[t]) /\ OpenerOf(curOf[t]) = <<t, "local">>
        /\ trace_has_root(t) <=> curOf[t] > E_ROOT_NODE
        /\ is_root_trace(t) <=> \E id \in store.used : id = curOf[t] /\ opener[id] = <<t, "local">>
                                                      /\ store.node[id].root = id
=============================================================================
