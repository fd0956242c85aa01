----------------------------- MODULE OrderedSet -----------------------------
(***************************************************************************)
(* What the linked lists of lib.h promise: a finite sequence of distinct   *)
(* nodes, in which a free node can be put before or behind a member or at  *)
(* either end, and from which any member can be removed.                   *)
(***************************************************************************)
EXTENDS Naturals, SequencesExt

CONSTANT Node
VARIABLE seq

Init == seq = <<>>

Free == Node \ ToSet(seq)

\* A node can be put at every place of the order.
PutAt(i, n) == seq' = InsertAt(seq, i, n)
Put == \E n \in Free, i \in 1 .. Len(seq) + 1 : PutAt(i, n)
Take == \E i \in DOMAIN seq : seq' = RemoveAt(seq, i)

Next == Put \/ Take
Spec == Init /\ [][Next]_seq
=============================================================================
