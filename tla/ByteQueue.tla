----------------------------- MODULE ByteQueue -----------------------------
(***************************************************************************)
(* What the send buffer of a connection promises: a queue of bytes.  The   *)
(* bytes of an accepted frame enter in order, in pieces of any size, and   *)
(* leave in the order they entered.  Only when memory can run out (Lossy)  *)
(* may bytes be dropped before they enter.  Bytes leave by being sent, or  *)
(* are discarded when the connection is reset.                             *)
(*                                                                         *)
(* A byte is its position in the stream modulo Colours, which tells lost,  *)
(* doubled and swapped bytes apart without an unbounded counter.           *)
(***************************************************************************)
EXTENDS Integers, Sequences

CONSTANTS
    Colours,   \* the number of byte values
    Sizes,     \* the sizes of the frames on offer
    Lossy      \* memory may run out

VARIABLES
    queue,     \* bytes in the buffer
    todo,      \* accepted bytes that are not in the buffer yet
    next,      \* the value of the next accepted byte
    sent       \* bytes sent so far, modulo Colours

vars == <<queue, todo, next, sent>>

\* n bytes of the stream, from value b on.
Bytes(b, n) == [i \in 1 .. n |-> (b + i - 1) % Colours]

Drop(s, n) == SubSeq(s, n + 1, Len(s))

Init == queue = <<>> /\ todo = <<>> /\ next = 0 /\ sent = 0

Accept(n) ==
    /\ todo = <<>>
    /\ todo' = Bytes(next, n)
    /\ next' = (next + n) % Colours
    /\ UNCHANGED <<queue, sent>>

Enter(n) ==
    /\ queue' = queue \o SubSeq(todo, 1, n)
    /\ todo' = Drop(todo, n)
    /\ UNCHANGED <<next, sent>>

Lose(n) ==
    /\ Lossy
    /\ todo' = Drop(todo, n)
    /\ UNCHANGED <<queue, next, sent>>

Send(n) ==
    /\ queue' = Drop(queue, n)
    /\ sent' = (sent + n) % Colours
    /\ UNCHANGED <<todo, next>>

Discard(n) ==
    /\ queue' = Drop(queue, n)
    /\ UNCHANGED <<todo, next, sent>>

Next ==
    \/ \E n \in Sizes : Accept(n)
    \/ \E n \in 1 .. Len(todo) : Enter(n) \/ Lose(n)
    \/ \E n \in 1 .. Len(queue) : Send(n) \/ Discard(n)

Spec == Init /\ [][Next]_vars
=============================================================================
