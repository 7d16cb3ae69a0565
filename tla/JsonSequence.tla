----------------------------- MODULE JsonSequence -----------------------------
(***************************************************************************)
(* What a JSON array promises its user: a sequence of values.  Growing it  *)
(* pads with Nil.  Two operations may be refused for a reason the sequence *)
(* does not show (a position nobody ever stored a value at): removing such *)
(* a position does nothing, and a shrink that would end at one cuts        *)
(* further, down to the last stored value.                                 *)
(***************************************************************************)
EXTENDS Naturals, Sequences, SequencesExt

CONSTANTS Elements,   \* the values that are stored
          Nil,        \* what a position holds that no value was stored at
          MaxSize     \* bound on the length

VARIABLE items

Padded(s, n) == [i \in 1 .. n |-> IF i <= Len(s) THEN s[i] ELSE Nil]

Init == items = <<>>

Store(i, x) ==
    items' = [Padded(items, IF i > Len(items) THEN i ELSE Len(items)) EXCEPT ![i] = x]
InsertItem(i, x) == i <= Len(items) + 1 /\ items' = InsertAt(items, i, x)
RemoveItem(i) == i <= Len(items) /\ items' = RemoveAt(items, i)
Clear == items' = <<>>
Resize(n) == items' = Padded(items, n)
CutShort(n) ==
    \E m \in 0 .. n - 1 : /\ n <= Len(items) /\ items' = SubSeq(items, 1, m)
                          /\ \A i \in m + 1 .. n : items[i] = Nil

Next ==
    \/ \E i \in 1 .. MaxSize, x \in Elements \cup {Nil} : Store(i, x) \/ InsertItem(i, x)
    \/ \E i \in 1 .. MaxSize : RemoveItem(i) \/ CutShort(i)
    \/ \E n \in 0 .. MaxSize : Resize(n)
    \/ Clear

Spec == Init /\ [][Next]_items
=============================================================================
