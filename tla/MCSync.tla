------------------------------- MODULE MCSync -------------------------------
(***************************************************************************)
(* A semaphore, and the linked lists that its waiters and everybody else's *)
(* are kept in.  `part` says which of the two a behaviour is of; the       *)
(* variables of the other keep their first values.                         *)
(***************************************************************************)
EXTENDS Semaphore

CONSTANTS Node, HeadNode
VARIABLES part, pointers, linked

List == INSTANCE ListMachine WITH l <- pointers
ASSUME ListAssumption == List!HeadAssumption

listVars == <<pointers, linked>>
allVars == <<part, vars, listVars>>

AllInit == part \in {"semaphore", "list"} /\ Init /\ List!Init
SemaphoreNext == part = "semaphore" /\ Next /\ UNCHANGED <<part, listVars>>
ListNext == part = "list" /\ List!Next /\ UNCHANGED <<part, vars>>
AllNext == SemaphoreNext \/ ListNext
AllSpec == /\ AllInit /\ [][AllNext]_allVars
           /\ part = "semaphore" => Fairness

\* Whatever calls come, the pointers form one ring that reads the same forwards and
\* backwards: what ListMachine says of lib.h's lists.
ListSound == List!ListSound

\* The calls do to the list what they would do to a sequence of distinct nodes (lib.h).
OrderedSetSpec == List!OrderedSetSpec
=============================================================================
