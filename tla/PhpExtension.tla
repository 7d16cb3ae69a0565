---------------------------- MODULE PhpExtension ----------------------------
(***************************************************************************)
(* The PHP extension (pinpoint_php.cpp): requests of one PHP process, the  *)
(* tracing functions it gives to PHP code, and the interceptors that       *)
(* _pinpoint_join_cut puts on internal functions and methods.              *)
(*                                                                         *)
(* The engine's part is kept to what the extension relies on: a script may *)
(* run any function of the extension at any point where PHP code can run,  *)
(* throw, catch, exit or die of a fatal error; a hooked call is a frame on *)
(* `stack` whose callbacks and original are such points, so hooked calls   *)
(* nest.                                                                   *)
(*                                                                         *)
(* Internal functions are f, method m of class C, and D's own copy of it   *)
(* (D inherits m from C, both are internal).  A script may declare a class *)
(* U that inherits m: its copy is made then, handler included, and is gone *)
(* after the request.  All three copies of m have C as their scope.        *)
(***************************************************************************)
EXTENDS AgentApi

CONSTANTS
    UserParent,      \* the internal class U extends: "C" or "D"
    Exceptions,      \* what PHP code throws
    BeforeReturns,   \* what `before` callbacks return
    ClueKeys,        \* keys of clues
    Budgets,         \* bounds: how much of everything a behaviour may do
    MaxDepth         \* bound: hooked calls nested in each other

VARIABLES
    phase,           \* "idle" between requests, "script", "shutdown" in RSHUTDOWN
    store,           \* the agent (AgentApi)
    cur,             \* per_thread_current_id
    parent,          \* _parent_id, the local variable of RSHUTDOWN
    turn,            \* history: flips with every turn of RSHUTDOWN's loop
    handler,         \* internal_function.handler of every zend_function
    interceptors,    \* PPG(interceptors): name -> [origin_func, origin]
    stack,           \* hooked calls, innermost last
    exc,             \* EG(exception)
    left,            \* what is left of the budget
    cause,           \* history: why nodes may outlive the request
    sent             \* history: the span the last call sent, or NoSpan

vars == <<phase, store, cur, parent, turn, handler, interceptors, stack, exc, left, cause, sent>>
traceVars == <<store, cur, cause, sent>>
hookVars == <<handler, interceptors, stack, exc>>

Internal == {"f", "C.m", "D.m"}
Functions_ == Internal \cup {"U.m"}
Entry == "pinpoint_interceptor_handler_entry"
OwnHandler(func) == IF func = "f" THEN "zif_f" ELSE "zim_m"

NoExc == [class |-> "none", id |-> "none", previous |-> <<>>]
ExitExc == [class |-> "unwind_exit", id |-> "none", previous |-> <<>>]
Throwable(id) == [class |-> "Throwable", id |-> id, previous |-> <<>>]

Init ==
    /\ phase = "idle"
    /\ store = pinpoint_set_agent(NoAgent).s
    /\ cur = E_ROOT_NODE
    /\ parent = E_ROOT_NODE
    /\ turn = 0
    /\ handler = [func \in Internal |-> OwnHandler(func)]
    /\ interceptors = <<>>
    /\ stack = <<>>
    /\ exc = NoExc
    /\ left \in Budgets
    /\ cause = {}
    /\ sent = NoSpan

(* PHP code is running: no exception is pending, and the innermost hooked  *)
(* call is in a callback or in its original.                               *)
PhpCode ==
    /\ phase = "script"
    /\ exc = NoExc
    /\ stack # <<>> => Last(stack).stage # "return"

Spend(what) == left[what] > 0 /\ left' = [left EXCEPT ![what] = @ - 1]
-----------------------------------------------------------------------------
(* The tracing functions.  An id of -1, the default, stands for the        *)
(* current node, and only then do start and end move it.                   *)
Id(id) == IF id = -1 THEN cur ELSE id
IdArguments == {-1, 0} \cup NodeIds

Traced(r) ==
    /\ store' = r.s
    /\ sent' = r.span
    /\ UNCHANGED <<phase, parent, turn, hookVars>>

Annotated(r) == PhpCode /\ Spend("clues") /\ Traced(r) /\ UNCHANGED <<cur, cause>>

Started(id, r) ==
    /\ Traced(r)
    /\ cur' = IF id = -1 THEN r.ret ELSE cur
    /\ cause' = cause
         \cup (IF id = -1 /\ r.ret = E_INVALID_NODE /\ Alive(store, cur) THEN {"lost"} ELSE {})
         \cup (IF id = E_ROOT_NODE /\ r.ret # E_INVALID_NODE THEN {"explicit root"} ELSE {})

start_trace(id) ==
    PhpCode /\ Spend("calls") /\ Started(id, pinpoint_start_trace(store, Id(id)))

Ended(id, r) ==
    /\ Traced(r)
    /\ cur' = IF id = -1 THEN r.ret ELSE cur
    /\ cause' = cause \cup (IF Alive(store, Id(id)) /\ ~r.ok THEN {"not encoded"} ELSE {})

end_trace(id) ==
    PhpCode /\ Spend("calls") /\ Ended(id, pinpoint_end_trace(store, Id(id)))

drop_trace(id) == Annotated(change_trace_status(store, Id(id), E_TRACE_BLOCK))

(* Only strings can be set; anything else is a warning.                    *)
set_context(key, v, id) == Annotated(pinpoint_set_context_key(store, Id(id), key, v))

add_clue(key, id, loc) == Annotated(pinpoint_add_clue(store, Id(id), key, stringValue("v"), loc))
add_clues(key, id, loc) == Annotated(pinpoint_add_clues(store, Id(id), key, stringValue("v"), loc))
mark_as_error(id) == Annotated(catch_error(store, Id(id), stringValue("msg")))
set_async_ctx(id) == Annotated(pinpoint_set_async_ctx(store, Id(id), intValue(1)))

(* What the reading functions return.                                      *)
get_trace_depth(id) == pinpoint_get_depth(store, Id(id))
get_sequence_id(id) == pinpoint_get_sequence_id(store, Id(id))
get_context(key, id) ==
    LET len == pinpoint_get_context_key(store, Id(id), key, 1024).ret
    IN  IF len > 0 THEN len ELSE FALSE

(* apm_error_cb, for errors the script wants reported.                     *)
ErrorNoted == catch_error(store, cur, stringValue("error")).s
-----------------------------------------------------------------------------
(* Interceptors *)

(* The engine copies a parent's method, handler included, into a class     *)
(* that is declared.                                                       *)
DeclareClass ==
    /\ PhpCode
    /\ "U.m" \notin DOMAIN handler
    /\ Spend("joins")
    /\ handler' = handler @@ ("U.m" :> handler[UserParent \o ".m"])
    /\ UNCHANGED <<phase, parent, turn, traceVars, interceptors, stack, exc>>

(* The name of a call: the scope of the function that runs and its name.   *)
get_pp_style_function_name(func) == IF func = "f" THEN "f" ELSE "c::m"

(* The name an interceptor is registered under: the class it was asked for. *)
merge_pp_style_name(func) ==
    CASE func = "f" -> "f" [] func = "C.m" -> "c::m" [] func = "D.m" -> "d::m" [] OTHER -> "u::m"

None == [origin_func |-> "none", origin |-> "none"]

\* Mutant of find_interceptor: only an interceptor of the same function is found.
find_own_interceptor(func) ==
    LET own == {i \in Range(interceptors) : i.origin_func = func}
    IN  IF own # {} THEN CHOOSE i \in own : TRUE ELSE None

find_interceptor(func) ==
    LET name == get_pp_style_function_name(func)
        named == IF name \in DOMAIN interceptors THEN interceptors[name] ELSE None
        own == {i \in Range(interceptors) : i.origin_func = func}
    IN  IF named.origin_func # func /\ own # {} THEN CHOOSE i \in own : TRUE ELSE named

make_interceptor(func) == [origin_func |-> func, origin |-> handler[func]]

(* zend_hash_add_ptr fails on a name that is there; freeing the new        *)
(* interceptor then puts the handler back to what it is.                   *)
add_interceptor(func) ==
    LET name == merge_pp_style_name(func)
    IN  IF handler[func] = Entry \/ name \in DOMAIN interceptors
        THEN UNCHANGED <<handler, interceptors>>
        ELSE /\ interceptors' = interceptors @@ (name :> make_interceptor(func))
             /\ handler' = [handler EXCEPT ![func] = Entry]

(* A function that does not exist is ignored, user code and wrong          *)
(* parameters are refused with a warning, which apm_error_cb sees.         *)
join_cut(func) ==
    /\ PhpCode
    /\ Spend("joins")
    /\ IF func \in DOMAIN handler
       THEN add_interceptor(func) /\ UNCHANGED store
       ELSE /\ func \in {"user code", "bad parameters"}
            /\ store' = ErrorNoted
            /\ UNCHANGED <<handler, interceptors>>
    /\ UNCHANGED <<phase, parent, turn, cur, cause, sent, stack, exc>>

(* The function of an interceptor gets back the handler that was saved.    *)
free_interceptor(i, handlers) == [handlers EXCEPT ![i.origin_func] = i.origin]

(* free_interceptor on every entry of the hash.                            *)
zend_interceptor_hash_dtor == FoldSet(free_interceptor, handler, Range(interceptors))
-----------------------------------------------------------------------------
(* A hooked call.  An argument is its type and where it comes from.        *)

CallArguments == << <<"int", "caller">>, <<"string", "caller">> >>
NotAnArray == << <<"not", "array">> >>

(* zend_array_index takes slots, the unset ones included; zend_array_count *)
(* does not count those.                                                   *)
zend_array_count(array) == Cardinality({i \in DOMAIN array : array[i][1] # "undef"})

replace_ex_caller_parameters(args, ret) ==
    IF \/ ret = NotAnArray
       \/ zend_array_count(ret) < Len(args)
       \/ \E i \in DOMAIN args : ret[i][1] # args[i][1]
    THEN args
    ELSE SubSeq(ret, 1, Len(args))

Frame(func, i) ==
    [func |-> func, origin |-> i.origin, stage |-> "before", args |-> CallArguments,
     before |-> NoExc, ran |-> "none", after |-> NoExc, told |-> <<>>, note |-> NoExc]

Top == Last(stack)
GoOn(frame) == stack' = Front(stack) \o <<frame>>
KeepRest == UNCHANGED <<phase, parent, turn, traceVars, handler, interceptors, left>>

(* pinpoint_interceptor_handler_entry up to the call of `before`.  Without *)
(* an interceptor the call returns at once.                                *)
HookedCall(func) ==
    LET i == find_interceptor(func)
    IN  /\ PhpCode
        /\ func \in DOMAIN handler /\ handler[func] = Entry
        /\ Len(stack) < MaxDepth
        /\ Spend("hooked")
        /\ stack' = IF i = None THEN stack ELSE Append(stack, Frame(func, i))
        /\ UNCHANGED <<phase, parent, turn, traceVars, handler, interceptors, exc>>

(* call_interceptor_before: the callback returned ret, NotAnArray if it    *)
(* could not be called.                                                    *)
BeforeReturned(ret) ==
    /\ PhpCode /\ stack # <<>> /\ Top.stage = "before"
    /\ GoOn([Top EXCEPT !.args = replace_ex_caller_parameters(@, ret),
                        !.stage = "origin", !.ran = Top.origin])
    /\ UNCHANGED exc /\ KeepRest

(* The callback runs next.  One that cannot be called is a Warning, and    *)
(* the call goes on.                                                       *)
call_callback_function(frame, callback) ==
    [frame EXCEPT !.stage = callback, !.told = Append(@, callback)]

(* call_interceptor_end *)
OriginReturned ==
    /\ PhpCode /\ stack # <<>> /\ Top.stage = "origin"
    /\ GoOn(call_callback_function(Top, "end"))
    /\ UNCHANGED exc /\ KeepRest

(* call_interceptor_exception up to its callback: the exception is kept    *)
(* aside; an exit is not notified.                                         *)
call_interceptor_exception(frame) ==
    IF exc.class = "Throwable"
    THEN /\ exc' = NoExc
         /\ GoOn(call_callback_function(frame, "exception"))
    ELSE /\ UNCHANGED exc
         /\ GoOn([frame EXCEPT !.stage = "return"])

(* EG(exception) is set after `before` or after the original.              *)
Threw ==
    /\ exc # NoExc /\ stack # <<>>
    /\ \/ Top.stage = "before" /\ call_interceptor_exception([Top EXCEPT !.before = exc])
       \/ Top.stage = "origin" /\ call_interceptor_exception([Top EXCEPT !.after = exc])
    /\ KeepRest

EndFinished ==
    /\ stack # <<>> /\ Top.stage = "end"
    /\ GoOn([Top EXCEPT !.stage = "return", !.note = exc])
    /\ UNCHANGED exc /\ KeepRest

Kept(frame) == IF frame.before # NoExc THEN frame.before ELSE frame.after

(* The engine appends to the chain of previous exceptions, unless the two  *)
(* chains have an exception in common.                                     *)
zend_exception_set_previous(e, add) ==
    LET chain(x) == <<x.id>> \o x.previous
    IN  IF ToSet(chain(e)) \cap ToSet(chain(add)) # {} THEN e
        ELSE [e EXCEPT !.previous = @ \o chain(add)]


(* call_interceptor_exception after its callback.                          *)
ExceptionFinished ==
    /\ stack # <<>> /\ Top.stage = "exception"
    /\ exc' = CASE exc = NoExc -> Kept(Top)
                [] exc.class = "Throwable" -> zend_exception_set_previous(Kept(Top), exc)
                [] OTHER -> exc
    /\ GoOn([Top EXCEPT !.stage = "return", !.note = exc])
    /\ KeepRest

Return ==
    /\ stack # <<>> /\ Top.stage = "return"
    /\ stack' = Front(stack)
    /\ UNCHANGED exc /\ KeepRest
-----------------------------------------------------------------------------
(* The script *)

Throw_(e) ==
    /\ PhpCode
    /\ Spend("throws")
    /\ exc' = e
    /\ UNCHANGED <<phase, parent, turn, traceVars, handler, interceptors, stack>>

(* An exit cannot be caught.                                               *)
Catch ==
    /\ phase = "script"
    /\ exc.class = "Throwable"
    /\ stack # <<>> => Top.stage # "return"
    /\ exc' = NoExc
    /\ UNCHANGED <<stack, traceVars, handler, interceptors, phase, parent, turn, left>>

(* A reported error that is not fatal.                                     *)
Warning == Annotated(catch_error(store, cur, stringValue("error")))

(* The engine enters RSHUTDOWN.                                            *)
Shutdown(s) ==
    /\ phase' = "shutdown"
    /\ store' = s
    /\ parent' = cur
    /\ stack' = <<>>
    /\ exc' = NoExc
    /\ UNCHANGED <<cur, turn, cause, sent, handler, interceptors, left>>

(* A fatal error: apm_error_cb, then a bailout that skips every frame.     *)
Fatal == PhpCode /\ stack # <<>> /\ \E s \in {store, ErrorNoted} : Shutdown(s)

(* The end of the script, an exit, or an exception nobody caught, which is *)
(* a fatal error.                                                          *)
ScriptEnds ==
    /\ phase = "script"
    /\ stack = <<>>
    /\ Shutdown(IF exc.class = "Throwable" THEN ErrorNoted ELSE store)

RINIT ==
    /\ phase = "idle"
    /\ Spend("requests")
    /\ phase' = "script"
    /\ interceptors' = <<>>
    /\ UNCHANGED <<parent, turn, traceVars, handler, stack, exc>>

\* Mutant of InLoop: the loop ends at the root only.
InLoopUntilRoot == parent # E_ROOT_NODE

(* while (_parent_id > E_ROOT_NODE) *)
InLoop == parent > E_ROOT_NODE

(* One turn of RSHUTDOWN's loop: the current node and its ancestors end.   *)
RSHUTDOWN ==
    /\ phase = "shutdown"
    /\ InLoop
    /\ \E r \in {pinpoint_end_trace(store, parent)} :
          /\ store' = r.s
          /\ sent' = r.span
          /\ parent' = r.ret
          /\ cause' = cause \cup (IF Alive(store, parent) /\ ~r.ok THEN {"not encoded"} ELSE {})
    /\ turn' = 1 - turn
    /\ UNCHANGED <<phase, cur, hookVars, left>>

(* The rest of RSHUTDOWN; then the engine drops the classes of the script. *)
RSHUTDOWNEnds ==
    /\ phase = "shutdown"
    /\ ~InLoop
    /\ phase' = "idle"
    /\ cur' = E_ROOT_NODE
    /\ parent' = E_ROOT_NODE
    /\ turn' = 0
    /\ handler' = [func \in Internal |-> zend_interceptor_hash_dtor[func]]
    /\ interceptors' = <<>>
    /\ cause' = IF store.used = {} THEN {} ELSE cause
    /\ UNCHANGED <<store, sent, stack, exc, left>>

PhpFunctions ==
    \/ \E id \in IdArguments :
          \/ start_trace(id) \/ end_trace(id) \/ drop_trace(id)
          \/ mark_as_error(id) \/ set_async_ctx(id) \/ set_context("k", 1, id)
          \/ \E key \in ClueKeys, loc \in {"current", "root"} :
                add_clue(key, id, loc) \/ add_clues(key, id, loc)
    \/ \E func \in Functions_ \cup {"user code", "bad parameters"} : join_cut(func)

Calls ==
    \/ \E func \in Functions_ : HookedCall(func)
    \/ \E ret \in BeforeReturns : BeforeReturned(ret)
    \/ OriginReturned \/ Threw \/ EndFinished \/ ExceptionFinished \/ Return

Script ==
    \/ \E e \in {Throwable(x) : x \in Exceptions} \cup {ExitExc} : Throw_(e)
    \/ Catch \/ Warning \/ Fatal \/ ScriptEnds \/ DeclareClass

Next == PhpFunctions \/ Calls \/ Script \/ RINIT \/ RSHUTDOWN \/ RSHUTDOWNEnds

(* Weak fairness of RSHUTDOWN and RSHUTDOWNEnds, written out: the engine   *)
(* runs the function to its end.  One of the two is enabled throughout the *)
(* shutdown and they are its only steps.                                   *)
Fairness == []<>(phase # "shutdown") \/ []<><<phase = "shutdown">>_vars
-----------------------------------------------------------------------------
(* Properties *)

(* Every call that reaches the extension's handler finds an interceptor:   *)
(* the branch "MUST be a bug" of pinpoint_interceptor_handler_entry, which *)
(* returns without running the original, is never taken.                   *)
InterceptorFound ==
    \A func \in DOMAIN handler : handler[func] = Entry => find_interceptor(func) # None

(* Whatever is hooked, declared or refused in whatever order, the handler  *)
(* an interceptor saved is the function's own and never the extension's,   *)
(* the interceptor a call finds leads to the handler of the called         *)
(* function, a function of the engine has the extension's handler exactly  *)
(* while an interceptor will restore it, and between requests every        *)
(* function has its own handler again, although a script may have died in  *)
(* the middle of hooked calls.                                             *)
HooksSound ==
    /\ InterceptorFound
    /\ \A i \in Range(interceptors) : i.origin = OwnHandler(i.origin_func)
    /\ \A func \in DOMAIN handler :
          /\ handler[func] \in {Entry, OwnHandler(func)}
          /\ handler[func] = Entry => find_interceptor(func).origin = OwnHandler(func)
          /\ func \in Internal =>
               (handler[func] = Entry <=> \E i \in Range(interceptors) : i.origin_func = func)
    /\ phase = "idle" => \A func \in DOMAIN handler : handler[func] = OwnHandler(func)

(* What a hooked call does, however its callbacks end and whatever hooked  *)
(* calls they make themselves: the original runs exactly when `before` did *)
(* not throw or exit, with its arguments either untouched or all replaced  *)
(* by ones of the same types; `end` is told of a normal return,            *)
(* `exception` of a Throwable, nobody of an exit; and the caller sees the  *)
(* original exception, with the callback's chained to it, unless the       *)
(* callback exits.                                                         *)
Outcome(frame) == IF frame.ran = "none" THEN frame.before ELSE frame.after


(* A request leaves no node in the pool: RSHUTDOWN ends the current node   *)
(* and its ancestors, whatever the script left open, dropped or threw away *)
(* in a fatal error.  The exceptions are named: the script opened a trace  *)
(* by an explicit id, a start at the pool's limit replaced the id of an    *)
(* open node by -1, or a clue named "event" kept a span from being built.  *)
LeakNeedsCause == (phase = "idle" /\ store.used # {}) => cause # {}

(* The shutdown loop ends although end_trace may fail in every turn.       *)
ShutdownEnds == phase = "shutdown" ~> phase = "idle"

(* Depth and sequence number, which Reset leaves as they were in a node's  *)
(* earlier life, are those of the node's place in its present trace, and   *)
(* all nodes of a trace read the same context.                             *)
Ancestors(id) ==
    LET up[n \in 0 .. Cardinality(NodeIds), i \in NodeIds] ==
            IF n = 0 \/ store.node[i].root = i THEN {} ELSE {i} \cup up[n - 1, store.node[i].parent]
    IN  up[Cardinality(NodeIds), id]

ReadsSound ==
    \A id \in store.used :
        /\ get_trace_depth(id) = Cardinality(Ancestors(id))
        /\ get_sequence_id(id) = Earlier(store, id)
        /\ get_context("k", id) = get_context("k", store.node[id].root)
=============================================================================
