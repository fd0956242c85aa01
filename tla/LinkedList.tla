----------------------------- MODULE LinkedList -----------------------------
(***************************************************************************)
(* The intrusive doubly linked lists of src/os/kernel/lib.h.  A list value *)
(* is a record l with two functions from nodes to nodes, l.next and        *)
(* l.prev: the memory of every struct List that exists, linked or not.     *)
(* Each operator performs the stores of its C function in their order, so  *)
(* that a call on a node that is already linked, or on a stale one, does   *)
(* what the program does.                                                  *)
(***************************************************************************)

\* The memory of a set N of nodes.
ListMemory(N) == [next : [N -> N], prev : [N -> N]]

\* lib.h:33  the node points at itself.
ListInit(l, n) == [next |-> [l.next EXCEPT ![n] = n],
                   prev |-> [l.prev EXCEPT ![n] = n]]

\* Mutant: the old successor keeps its prev.
ListAddBehindHalf(l, h, n) ==
  [next |-> [l.next EXCEPT ![n] = l.next[h], ![h] = n],
   prev |-> [l.prev EXCEPT ![n] = h]]

\* lib.h:39  link n after h.  The third store goes through n's new next.
ListAddBehind(l, h, n) ==
  LET next1 == [l.next EXCEPT ![n] = l.next[h]]
  IN  [next |-> [next1 EXCEPT ![h] = n],
       prev |-> [l.prev EXCEPT ![n] = h, ![next1[n]] = n]]

\* lib.h:47  link n before h.
ListAddBefore(l, h, n) ==
  [next |-> [l.next EXCEPT ![l.prev[h]] = n, ![n] = h],
   prev |-> [l.prev EXCEPT ![n] = l.prev[h], ![h] = n]]

\* Mutant: only the predecessor learns that n is gone.
ListDeleteHalf(l, n) ==
  [prev |-> l.prev, next |-> [l.next EXCEPT ![l.prev[n]] = l.next[n]]]

\* lib.h:55  unlink n from its neighbours; n keeps its own two pointers.
ListDelete(l, n) ==
  [prev |-> [l.prev EXCEPT ![l.next[n]] = l.prev[n]],
   next |-> [l.next EXCEPT ![l.prev[n]] = l.next[n]]]

\* lib.h:61
ListIsEmpty(l, h) == l.next[h] = h /\ l.prev[h] = h

(***************************************************************************)
(* The loop   tmp = h->next; while (tmp in B) tmp = tmp->next;   that      *)
(* insert_task_queue and add_timer run, without recursion: Visited is the  *)
(* least set that holds the first node and the successor of each of its    *)
(* members in B.  The loop ends at the one visited node outside B, and     *)
(* never ends when there is none.                                          *)
(***************************************************************************)
WalkClosed(l, h, B, S) ==
  /\ l.next[h] \in S
  /\ \A m \in S \cap B : l.next[m] \in S

Visited(l, h, B) ==
  {n \in DOMAIN l.next :
     \A S \in SUBSET DOMAIN l.next : WalkClosed(l, h, B, S) => n \in S}

WalkEnds(l, h, B) == \E n \in Visited(l, h, B) : n \notin B
WalkEnd(l, h, B)  == CHOOSE n \in Visited(l, h, B) : n \notin B

-----------------------------------------------------------------------------
\* What a well-formed list is.  L holds the head and the linked nodes.

\* next and prev stay inside L and undo each other there.
Ring(l, L) ==
  \A n \in L : /\ l.next[n] \in L
               /\ l.prev[n] \in L
               /\ l.prev[l.next[n]] = n
               /\ l.next[l.prev[n]] = n

\* L is one cycle through h: following next, or prev, from any member of L
\* reaches h.
OneCycle(l, L, h) ==
  \A S \in SUBSET (L \ {h}) :
    \/ \A n \in S : l.next[n] \in S
    \/ \A n \in S : l.prev[n] \in S
    => S = {}

WellLinked(l, L, h) == h \in L /\ Ring(l, L) /\ OneCycle(l, L, h)
=============================================================================
