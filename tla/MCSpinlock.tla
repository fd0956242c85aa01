----------------------------- MODULE MCSpinlock -----------------------------
(***************************************************************************)
(* The spinlock by itself, under a name: its operators keep their prefix,  *)
(* so that a module about all of the kernel's synchronisation can take it  *)
(* beside the semaphore and the lists.                                     *)
(***************************************************************************)
EXTENDS Integers, FiniteSets

CONSTANTS CPU, Trying
VARIABLES word, pc, preempt, trying

Lock == INSTANCE Spinlock
ASSUME LockAssumption == Lock!CPUAssumption

lockVars == <<word, pc, preempt, trying>>

\* What Spinlock calls Spec: each CPU keeps executing, and critical sections end.
LockFairness == \A c \in CPU : WF_lockVars(Lock!Inside(c))
LockSpec == Lock!Init /\ [][Lock!Next]_lockVars /\ LockFairness

\* One holder, behind a word that says so, whoever tries: what Spinlock says of the
\* word (spinlock.c:14, 29, 48).
LockSafe == Lock!LockSafe

\* Preemption is off inside the lock's functions and nowhere else (spinlock.c:10, 39,
\* 45, 55).
PreemptOffInside == Lock!PreemptOffInside

\* While CPUs want the lock, one of them gets it (spinlock.c:16).
SomebodyGetsIt == Lock!SomebodyGetsIt

\* spin_trylock takes a free lock only, as the comment on the word has it (spinlock.h:7).
TryTakesFreeLock == Lock!TryTakesFreeLock
=============================================================================
