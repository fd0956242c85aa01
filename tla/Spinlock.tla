------------------------------ MODULE Spinlock ------------------------------
(***************************************************************************)
(* The spinlock of src/os/kernel/spinlock.c between CPUs: each atomic      *)
(* instruction on the lock word is a step, and so is each change of        *)
(* preempt_count, which belongs to the task the CPU is running.  The word  *)
(* is 1 when the lock is free; every spinlock_lock that comes too late     *)
(* takes one more off it, and waits until it reads a positive word again.  *)
(***************************************************************************)
EXTENDS Integers, FiniteSets

CONSTANTS CPU,      \* the CPUs that use the lock
          Trying    \* those that may also call spin_trylock
CPUAssumption == IsFiniteSet(CPU) /\ Trying \subseteq CPU

VARIABLES word,     \* spinlock_t.lock
          pc,       \* where each CPU is
          preempt,  \* preempt_count of the task on each CPU
          trying    \* the CPUs that call spin_trylock in this behaviour
vars == <<word, pc, preempt, trying>>

\* pc: outside; before the lock decq of line 14; in the loop of lines 16-19;
\* before the xchgq of line 48; before line 55; in the critical section;
\* before line 39.
Places == {"out", "dec", "spin", "xchg", "failed", "in", "unlocked"}

TypeOK == /\ word \in Int
          /\ pc \in [CPU -> Places]
          /\ preempt \in [CPU -> Nat]
          /\ trying \subseteq CPU

Init == /\ word = 1
        /\ pc = [c \in CPU |-> "out"]
        /\ preempt = [c \in CPU |-> 0]
        /\ trying \in SUBSET Trying

Go(c, from, to) == /\ pc[c] = from
                   /\ pc' = [pc EXCEPT ![c] = to]
                   /\ UNCHANGED trying

\* spinlock_lock
Disable(c) == /\ Go(c, "out", "dec")
              /\ preempt' = [preempt EXCEPT ![c] = @ + 1]
              /\ UNCHANGED word

Decrement(c) == /\ Go(c, "dec", IF word - 1 >= 0 THEN "in" ELSE "spin")
                /\ word' = word - 1
                /\ UNCHANGED preempt

\* Mutant: the waiting loop jumps back to the decrement whatever it sees.
SpinDecrements(c) == /\ Go(c, "spin", "dec")
                     /\ UNCHANGED <<word, preempt>>

\* Mutant: the loop that has seen the lock free jumps back to its own beginning.
SeeFreeSpins(c) == /\ word > 0
                   /\ Go(c, "spin", "spin")
                   /\ UNCHANGED <<word, preempt>>

\* Leaving the loop only goes back to the decrement.
SeeFree(c) == /\ word > 0
              /\ Go(c, "spin", "dec")
              /\ UNCHANGED <<word, preempt>>

\* spinlock_unlock
Unlock(c) == /\ Go(c, "in", "unlocked")
             /\ word' = 1
             /\ UNCHANGED preempt

Enable(c) == /\ Go(c, "unlocked", "out")
             /\ preempt' = [preempt EXCEPT ![c] = @ - 1]
             /\ UNCHANGED word

\* spin_trylock: any word but 0 is taken for a free lock.
TryDisable(c) == /\ c \in trying
                 /\ Go(c, "out", "xchg")
                 /\ preempt' = [preempt EXCEPT ![c] = @ + 1]
                 /\ UNCHANGED word

Exchange(c) == /\ Go(c, "xchg", IF word # 0 THEN "in" ELSE "failed")
               /\ word' = 0
               /\ UNCHANGED preempt

\* Mutant: preemption stays off when the lock was not taken.
TryFailKeeps(c) == /\ Go(c, "failed", "out")
                   /\ UNCHANGED <<word, preempt>>

TryFail(c) == /\ Go(c, "failed", "out")
              /\ preempt' = [preempt EXCEPT ![c] = @ - 1]
              /\ UNCHANGED word

\* What a CPU that is inside spinlock.c, or holds the lock, does next.
Inside(c) == \/ Decrement(c) \/ SeeFree(c) \/ Unlock(c) \/ Enable(c)
             \/ Exchange(c) \/ TryFail(c)
Next == \E c \in CPU : Disable(c) \/ TryDisable(c) \/ Inside(c)

-----------------------------------------------------------------------------
Holders == {c \in CPU : pc[c] = "in"}

\* As long as nobody uses spin_trylock, at most one CPU is between
\* spinlock_lock and spinlock_unlock.
MutualExclusion == trying = {} => \A c, d \in Holders : c = d

\* A lock that nobody holds can be taken at once, however many CPUs have
\* decremented the word (spinlock.c:14) or exchanged it (spinlock.c:48)
\* meanwhile: no decrement of a waiter is left behind.
FreeIsOne == Holders = {} => word = 1

\* The word goes no lower than one decrement of every CPU, so it cannot wrap:
\* a CPU decrements once for each time it has seen the word positive.
WordBounded == /\ word <= 1
               /\ word >= 1 - Cardinality(CPU)

\* Preemption is off for as long as a CPU holds the lock or waits for it, and
\* on again afterwards (spinlock.c:10, 39, 45, 55).
PreemptOffInside == \A c \in CPU : preempt[c] = IF pc[c] = "out" THEN 0 ELSE 1

\* One holder, behind a word that says so and that a CPU that tries leaves as good
\* (spinlock.c:14, 29, 48).
LockSafe == TypeOK /\ MutualExclusion /\ FreeIsOne /\ WordBounded

\* While CPUs want the lock, one of them gets it, whoever tries beside them.
SomebodyGetsIt == (\E c \in CPU : pc[c] \in {"dec", "spin"}) ~> Holders # {}

\* The word is "1 unlock 0 lock" (spinlock.h:7), so a word other than 0, on
\* which spin_trylock reports success, belongs to a lock that nobody holds.
TryTakesFreeLock ==
  [][\A c \in CPU : pc[c] = "xchg" /\ pc'[c] = "in" => Holders = {}]_vars
=============================================================================
