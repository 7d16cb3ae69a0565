---------------------------- MODULE MCExtensions ----------------------------
(***************************************************************************)
(* The two language extensions on the same agent core, one at a time:      *)
(* `lang` says which.                                                      *)
(***************************************************************************)
EXTENDS AgentApi

CONSTANTS UserParent, Exceptions, PhpBudgets, MaxDepth, ClueKeys,
          Threads, MaxPyCalls, MaxPyClues, Langs

VARIABLES lang, store, sent,
          phase, cur, parent, turn, handler, interceptors, stack, exc, left, cause,
          curOf, opener, calls, clues

phpVars == <<phase, cur, parent, turn, handler, interceptors, stack, exc, left, cause>>
pyVars == <<curOf, opener, calls, clues>>
vars == <<lang, store, sent, phpVars, pyVars>>

\* Nothing, an array for both arguments, one with a type that is wrong, one
\* that is too short, and one with an unset slot in front.
BeforeReturns ==
    LET i == <<"int", "callback">>
        s == <<"string", "callback">>
    IN  { << <<"not", "array">> >>, <<i, s>>, <<i, i>>, <<i>>, << <<"undef", "callback">>, i, s>> }

\* Behaviours about hooks, and behaviours about traces.
Budget(requests, calls_, clues_, joins, hooked, throws) ==
    [requests |-> requests, calls |-> calls_, clues |-> clues_, joins |-> joins,
     hooked |-> hooked, throws |-> throws]
Hooks == Budget(1, 1, 0, 3, 2, 2)
Traces == Budget(2, 4, 1, 0, 0, 1)
Budgets == CASE PhpBudgets = "hooks" -> {Hooks} [] PhpBudgets = "traces" -> {Traces} [] OTHER -> {Hooks, Traces}

Php == INSTANCE PhpExtension
Py == INSTANCE PyExtension WITH PyClueKeys <- ClueKeys

PhpRests ==
    /\ phase = "idle" /\ cur = 0 /\ parent = 0 /\ turn = 0 /\ handler = <<>> /\ interceptors = <<>>
    /\ stack = <<>> /\ exc = <<>> /\ left = <<>> /\ cause = {}

Init ==
    /\ lang \in Langs
    /\ \/ lang = "php" /\ Php!Init /\ curOf = <<>> /\ opener = <<>> /\ calls = 0 /\ clues = 0
       \/ lang = "py" /\ Py!Init /\ PhpRests

Next ==
    \/ lang = "php" /\ Php!Next /\ UNCHANGED <<lang, pyVars>>
    \/ lang = "py" /\ Py!Next /\ UNCHANGED <<lang, phpVars>>

Spec == Init /\ [][Next]_vars /\ Php!Fairness
-----------------------------------------------------------------------------
(* Hooked functions lead to their own originals and are all given back at  *)
(* the end of a request (PhpExtension: add_interceptor, find_interceptor,  *)
(* zend_interceptor_hash_dtor).                                            *)
HooksSound == lang = "php" => Php!HooksSound


(* A PHP request leaves nodes in the pool only for one of three reasons    *)
(* (PhpExtension: RSHUTDOWN).                                              *)
LeakNeedsCause == lang = "php" => Php!LeakNeedsCause

(* RSHUTDOWN's loop over the open nodes ends.                              *)
ShutdownEnds == (lang = "php" /\ phase = "shutdown") ~> phase = "idle"

(* Depth, sequence number and context read through any node are those of   *)
(* its present trace (pinpoint_get_depth, pinpoint_get_sequence_id,        *)
(* pinpoint_get_context_key).                                              *)
ReadsSound == IF lang = "php" THEN Php!ReadsSound ELSE Py!ReadsSound

(* Every span that is sent can be read back into a tree, whatever clues,   *)
(* errors and drops there were (EndTrace, EncodeTraceToJsonSpan).          *)
SpanSound == sent # NoSpan => SpanWellFormed(sent)

(* A Python thread's current node is its own (PyExtension:                 *)
(* force_flush_span, which settles it when an explicit id closed the tree). *)
CurrentIsOwn == lang = "py" => Py!CurrentIsOwn

(* A call that reaches the extension's handler finds an interceptor        *)
(* (pinpoint_interceptor_handler_entry).                                   *)
InterceptorFound == lang = "php" => Php!InterceptorFound
=============================================================================
