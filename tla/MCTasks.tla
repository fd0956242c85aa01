------------------------------ MODULE MCTasks -------------------------------
(***************************************************************************)
(* The scheduler, and beside it two machines that look closer at what it   *)
(* takes as one step: do_fork's insert_task_queue and the wait queue, each *)
(* store by store.  `part` says which of the three a behaviour is of.  The *)
(* variables of the others keep their first values, or hold nothing.       *)
(***************************************************************************)
EXTENDS Scheduler, TLC

VARIABLES part,
  fork_rq, fork_current, fork_ready, fork_vruntime, fork_at, fork_child,
  fork_tmp, fork_loaded, fork_struck, fork_hung,
  wait_list, wait_state, wait_at, wait_off, wait_order, wait_struck

\* Who can sleep.
Sleeper == Task \ {Idle}

Insert == INSTANCE ForkInsert WITH
  rq <- fork_rq, current <- fork_current, ready <- fork_ready,
  vruntime <- fork_vruntime, at <- fork_at, child <- fork_child, tmp <- fork_tmp,
  loaded <- fork_loaded, struck <- fork_struck, hung <- fork_hung
Wait == INSTANCE WaitQueue WITH
  Task <- Sleeper, QueueHead <- QHead, list <- wait_list, state <- wait_state,
  at <- wait_at, off <- wait_off, order <- wait_order, struck <- wait_struck
ASSUME PartsAssumption == Insert!ForkAssumption /\ Wait!QueueAssumption

forkVars == <<fork_rq, fork_current, fork_ready, fork_vruntime, fork_at, fork_child,
              fork_tmp, fork_loaded, fork_struck, fork_hung>>
waitVars == <<wait_list, wait_state, wait_at, wait_off, wait_order, wait_struck>>
allVars == <<part, vars, forkVars, waitVars>>

Nothing == "nothing"
NoFork == /\ fork_rq = Nothing /\ fork_current = Nothing /\ fork_ready = Nothing
          /\ fork_vruntime = Nothing /\ fork_at = Nothing /\ fork_child = Nothing
          /\ fork_tmp = Nothing /\ fork_loaded = Nothing /\ fork_struck = Nothing
          /\ fork_hung = Nothing

AllInit ==
  /\ Init /\ Wait!Init
  /\ \/ part \in {"scheduler", "wait"} /\ NoFork
     \/ part = "fork" /\ Insert!Init /\ fork_ready = {t \in Task : state[t] = RUNNING}

SchedulerNext == part = "scheduler" /\ Next /\ UNCHANGED <<part, forkVars, waitVars>>
ForkNext == part = "fork" /\ Insert!Next /\ UNCHANGED <<part, vars, waitVars>>
WaitNext == part = "wait" /\ Wait!Next /\ UNCHANGED <<part, vars, forkVars>>
AllNext == SchedulerNext \/ ForkNext \/ WaitNext
AllSpec == AllInit /\ [][AllNext]_allVars

\* do_fork's insert_task_queue between the stores of which interrupts come: what
\* ForkInsert says of it (task.c:293).
ForkSound == part = "fork" => Insert!Sound

\* The wait queue, into which sleep_on puts a node between the stores of which wakeup
\* comes: what WaitQueue says of it (waitqueue.c:16).
WaitSound == Wait!Sound

\* Wakeups come in the order of the calls of sleep_on (waitqueue.c:38).
WakesInOrder == Wait!InOrder

TaskSymmetry == Permutations(Sleeper)
=============================================================================
