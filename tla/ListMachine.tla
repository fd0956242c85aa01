---------------------------- MODULE ListMachine -----------------------------
(***************************************************************************)
(* One list head and its callers: nodes are initialised once, and then     *)
(* linked before or behind the head or a member and unlinked, in any       *)
(* order.  list_delete leaves the pointers of the node as they are, so a   *)
(* node comes back into the list with stale ones: this is how the tasks of *)
(* the run queue and the wait queue nodes use the lists.                   *)
(***************************************************************************)
EXTENDS LinkedList, FiniteSets, SequencesExt

CONSTANTS Node, HeadNode
HeadAssumption == HeadNode \notin Node /\ IsFiniteSet(Node)

VARIABLES l,        \* the pointers of every node
          linked    \* the nodes its callers have put in the list
vars == <<l, linked>>

Cell == Node \cup {HeadNode}
Self == [n \in Cell |-> n]

Init == l = [next |-> Self, prev |-> Self] /\ linked = {}

AddBefore(at, n) == /\ l' = ListAddBefore(l, at, n)
                    /\ linked' = linked \cup {n}
AddBehind(at, n) == /\ l' = ListAddBehind(l, at, n)
                    /\ linked' = linked \cup {n}
Delete(n)        == /\ l' = ListDelete(l, n)
                    /\ linked' = linked \ {n}

Next == \/ \E at \in linked \cup {HeadNode}, n \in Node \ linked :
             AddBefore(at, n) \/ AddBehind(at, n)
        \/ \E n \in linked : Delete(n)

Spec == Init /\ [][Next]_vars

-----------------------------------------------------------------------------
\* The members met from the head on when a reader follows the pointers f.
Follow(f) ==
  LET walk[i \in 1 .. Cardinality(Cell)] ==
        f[IF i = 1 THEN HeadNode ELSE walk[i - 1]]
      back == {i \in DOMAIN walk : walk[i] = HeadNode}
  IN  SubSeq(walk, 1, Min(back \cup {Cardinality(Cell) + 1}) - 1)

Order     == Follow(l.next)
BackOrder == Follow(l.prev)

\* After any sequence of calls the pointers of the linked nodes form one
\* cycle through the head (lib.h list_add_before, list_add_behind,
\* list_delete), although nodes are relinked with stale pointers.
ListWellLinked == WellLinked(l, linked \cup {HeadNode}, HeadNode)

\* Reading the list forwards and backwards gives the same members in opposite
\* orders, each linked node once, and list_is_empty tells when there is none.
BothWaysAgree ==
  /\ BackOrder = Reverse(Order)
  /\ ToSet(Order) = linked
  /\ ListIsEmpty(l, HeadNode) <=> linked = {}

\* The list is one ring in both directions (lib.h list_add_before, list_delete).
ListSound == ListWellLinked /\ BothWaysAgree

\* The calls do to the order exactly what a sequence of distinct nodes allows,
\* so the pointer code implements the ordered set.
ImplementsOrderedSet == INSTANCE OrderedSet WITH seq <- Order
OrderedSetSpec == ImplementsOrderedSet!Spec
=============================================================================
