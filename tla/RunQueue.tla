------------------------------ MODULE RunQueue ------------------------------
(***************************************************************************)
(* The run queue of one CPU, src/os/kernel/schedule.c: struct schedule is  *)
(* a record rq with the task list, running_task_count and                  *)
(* CPU_exectask_jiffies.  The operators are functions of the run queue and *)
(* of the tasks' vruntime, so that the state machines can compose them in  *)
(* one step, as a handler that runs with interrupts off does.              *)
(***************************************************************************)
EXTENDS Integers, FiniteSets, LinkedList

CONSTANTS Task,    \* every task structure, used or not yet
          Idle,    \* init_task_stack.task, which is never queued
          QHead    \* the list head, task_schedule[cpu].task_queue.list

ASSUME TaskAssumption == /\ IsFiniteSet(Task)
                         /\ Idle \in Task
                         /\ QHead \notin Task

Cell == Task \cup {QHead}

RunQueues == [list : ListMemory(Cell), count : Int, slice : Int]

\* INIT_TASK, do_fork and start_smp give every task priority 2: one tick
\* costs it two units of its slice and adds two to its vruntime.
TickCost == 2

-----------------------------------------------------------------------------
\* C's division truncates; count is positive where the code divides, or the
\* CPU raises a divide error.
Quotient(a, b) == IF b > 0 THEN a \div b ELSE -(a \div (-b))

\* The slice of a task of priority 2 when count tasks compete.
NewSlice(count) == Quotient(4, count) * 3

\* Mutant: every slice that is used up is replaced.
RefillUsedUp(rq) == IF rq.slice <= 0 /\ rq.count # 0
                    THEN [rq EXCEPT !.slice = NewSlice(rq.count)]
                    ELSE rq

\* Only a slice of exactly zero is replaced; see DivideError for a count of 0.
Refill(rq) == IF rq.slice = 0 /\ rq.count # 0
              THEN [rq EXCEPT !.slice = NewSlice(rq.count)]
              ELSE rq

\* Refilling with a count of zero is a divide error.
DivideError(rq) == rq.slice = 0 /\ rq.count = 0

\* get_next_task: the task it returns ...
NextTask(rq) == IF ListIsEmpty(rq.list, QHead) THEN Idle
                ELSE rq.list.next[QHead]

\* Mutant: the count is not taken down.
DequeueKeepsCount(rq) ==
  IF ListIsEmpty(rq.list, QHead) THEN rq
  ELSE [rq EXCEPT !.list = ListDelete(rq.list, rq.list.next[QHead])]

\* ... and the run queue it leaves.
Dequeue(rq) == IF ListIsEmpty(rq.list, QHead) THEN rq
               ELSE [list  |-> ListDelete(rq.list, rq.list.next[QHead]),
                     count |-> rq.count - 1,
                     slice |-> rq.slice]

\* The nodes the search of insert_task_queue passes over for t.  The head has
\* vruntime 0x7fffffffffffffff, which no task reaches.
Below(vruntime, t) == {m \in Task : vruntime[m] < vruntime[t]}

\* The search starts only on a list that is not empty, and then must end.
SearchEnds(rq, vruntime, t) ==
  \/ t = Idle
  \/ ListIsEmpty(rq.list, QHead)
  \/ WalkEnds(rq.list, QHead, Below(vruntime, t))

\* Mutant: no search, the task goes to the end.
InsertPlaceLast(rq, vruntime, t) == QHead

\* The node insert_task_queue puts t before.
InsertPlace(rq, vruntime, t) ==
  IF ListIsEmpty(rq.list, QHead) THEN QHead
  ELSE WalkEnd(rq.list, QHead, Below(vruntime, t))

\* insert_task_queue: the idle task is left out.
InsertTaskQueue(rq, vruntime, t) ==
  IF t = Idle \/ ~SearchEnds(rq, vruntime, t) THEN rq
  ELSE [list  |-> ListAddBefore(rq.list, InsertPlace(rq, vruntime, t), t),
        count |-> rq.count + 1,
        slice |-> rq.slice]

-----------------------------------------------------------------------------
\* The search order of insert_task_queue, on a run queue that holds Q.
Sorted(rq, vruntime, Q) ==
  \A t \in Q : \/ rq.list.next[t] = QHead
               \/ vruntime[t] <= vruntime[rq.list.next[t]]

\* The run queue holds exactly the tasks of Q, in the order of their vruntime,
\* and counts them plus one.
Holds(rq, vruntime, Q) ==
  /\ WellLinked(rq.list, Q \cup {QHead}, QHead)
  /\ Sorted(rq, vruntime, Q)
  /\ rq.count = Cardinality(Q) + 1
=============================================================================
