--------------------------- MODULE FairScheduler ----------------------------
(***************************************************************************)
(* What the scheduler promises, without run queue, flags and time slices:  *)
(* the task on the CPU, a set of ready tasks, the tasks created so far and *)
(* those in the making, and vruntimes that grow with the time a task has   *)
(* run.  When the CPU is given away it goes to a ready task with the least *)
(* vruntime, the idle task standing in when there is none.  A new task has *)
(* the vruntime its parent had when it was copied: what the parent runs    *)
(* until the child is ready is not charged to the child, and nothing       *)
(* bounds it.  After a wakeup of a task that is not asleep nothing is      *)
(* promised.                                                               *)
(***************************************************************************)
EXTENDS Naturals

CONSTANTS Task, Idle
VARIABLES cpu, ready, born, made, vr, broken
vars == <<cpu, ready, born, made, vr, broken>>

Init == /\ cpu = Idle
        /\ \E first \in Task \ {Idle} : ready = {first} /\ born = {Idle, first}
        /\ made = {}
        /\ vr = [t \in Task |-> 0]
        /\ broken = FALSE

\* The tasks of R among which the next one is chosen, under vruntimes v.
Least(R, v) == IF R = {} THEN {Idle}
               ELSE {t \in R : \A u \in R : v[t] <= v[u]}

\* Keep the CPU, or hand it to a least task: always when the current task has
\* gone to sleep, else only when it has run at least as long.
Dispatch(R, v) ==
  \/ cpu' = cpu /\ ready' = R
  \/ \E t \in Least(R, v) :
       /\ cpu' = t
       /\ \/ ready' = R \ {t}
          \/ v[cpu] >= v[t] /\ ready' = (R \cup ({cpu} \ {Idle})) \ {t}

\* The clock charges the task on the CPU.
Charge == /\ vr' = [vr EXCEPT ![cpu] = @ + 2]
          /\ Dispatch(ready, vr')
          /\ UNCHANGED <<born, made, broken>>

\* A sleeping task becomes ready.
Wake == /\ \E t \in born \ (ready \cup {cpu, Idle}) : Dispatch(ready \cup {t}, vr)
        /\ UNCHANGED <<born, made, vr, broken>>

\* The task on the CPU makes a child, which has the vruntime that its parent has now.
Make == /\ \E t \in Task \ (born \cup made) :
             /\ made' = made \cup {t}
             /\ vr' = [vr EXCEPT ![t] = vr[cpu]]
        /\ UNCHANGED <<cpu, ready, born, broken>>

\* Later, and with that vruntime, the child is ready.
Create == /\ \E t \in made :
               /\ made' = made \ {t}
               /\ born' = born \cup {t}
               /\ ready' = ready \cup {t}
          /\ UNCHANGED <<cpu, vr, broken>>

\* The task on the CPU goes to sleep, or yields.
Yield == Dispatch(ready, vr) /\ UNCHANGED <<born, made, vr, broken>>

Break == broken'
Next == \/ ~broken /\ (Charge \/ Wake \/ Make \/ Create \/ Yield)
        \/ Break
Spec == Init /\ [][Next]_vars
=============================================================================
