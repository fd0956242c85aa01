----------------------------- MODULE Scheduler ------------------------------
(***************************************************************************)
(* Tasks, sleeping, waking and preemption on the one CPU the kernel starts *)
(* (main.c:112 starts no other).  System calls run with interrupts on      *)
(* (entry.S:86), so that between any two steps of the current task an      *)
(* interrupt may come; the interrupt's handler, and the ret_from_intr that *)
(* follows it, run with interrupts off and are one step.                   *)
(*                                                                         *)
(* A task blocks in two ways.  disk_transfer makes its request visible to  *)
(* the disk, then marks itself and calls schedule (disk.c:181, 171, 172).  *)
(* sleep_on marks itself, then enters the wait queue and calls schedule    *)
(* (waitqueue.c:15, 16, 17).  Neither keeps interrupts off in between.     *)
(***************************************************************************)
EXTENDS RunQueue

CONSTANT MaxVruntime   \* ticks stop here: a bound of the model only
ASSUME BoundAssumption == MaxVruntime \in Nat

VARIABLES
  rq,        \* task_schedule[0]
  current,   \* the task whose stack the CPU is on
  state,     \* task_struct.state, "unborn" before do_fork copies the task
  vruntime,  \* task_struct.vruntime
  need,      \* the NEED_SHEDULE bit of task_struct.flags
  pc,        \* where a task is in the kernel
  child,     \* the task that its do_fork is making; itself when none is
  requests,  \* the tasks with a request the disk will finish
  waiters,   \* the tasks in keyboard_wait_queue
  halted,    \* an endless search or a divide error: the kernel has stopped
  early      \* a wakeup has found its task not asleep (see DiskDone)

vars == <<rq, current, state, vruntime, need, pc, child, requests, waiters,
          halted, early>>

RUNNING == "TASK_RUNNING"
UNINTERRUPTIBLE == "TASK_UNINTERRUPTIBLE"

\* pc: in the rest of the kernel or in user mode; after submit; after
\* disk.c:171; after waitqueue.c:15; after waitqueue.c:16; in do_fork, with a copy.
Places == {"run", "submitted", "marked", "unlisted", "listed", "copied"}

TypeOK ==
  /\ rq \in RunQueues
  /\ current \in Task
  /\ state \in [Task -> {RUNNING, UNINTERRUPTIBLE, "unborn"}]
  /\ vruntime \in [Task -> Nat]
  /\ need \in [Task -> BOOLEAN]
  /\ pc \in [Task -> Places]
  /\ child \in [Task -> Task]
  /\ requests \subseteq Task
  /\ waiters \subseteq Task
  /\ halted \in BOOLEAN
  /\ early \in BOOLEAN

\* schedule_init and task_init, up to the sti of main.c:153: init_task runs,
\* kernel_thread has made the first task ready, nothing has been scheduled.
BootQueue == [list  |-> [next |-> [n \in Cell |-> n], prev |-> [n \in Cell |-> n]],
              count |-> 1,
              slice |-> 4]

Init ==
  /\ current = Idle
  /\ vruntime = [t \in Task |-> 0]
  /\ \E first \in Task \ {Idle} :
       /\ rq = InsertTaskQueue(BootQueue, vruntime, first)
       /\ state = [t \in Task |->
                    IF t \in {Idle, first} THEN RUNNING ELSE "unborn"]
  /\ need = [t \in Task |-> t = Idle]
  /\ pc = [t \in Task |-> "run"]
  /\ child = [t \in Task |-> t]
  /\ requests = {} /\ waiters = {}
  /\ halted = FALSE /\ early = FALSE

-----------------------------------------------------------------------------
\* schedule(), entered with run queue q, vruntimes v, states st and
\* NEED_SHEDULE bits nd.  On a damaged queue the head itself may be taken for
\* a task; the model stops there, and where the search does not end.
Schedule(q, v, st, nd) ==
  LET task   == NextTask(q)
      rest   == Dequeue(q)
      switch == v[current] >= v[task] \/ st[current] # RUNNING
      back   == IF ~switch THEN {task}
                ELSE IF st[current] = RUNNING THEN {current} ELSE {}
      full   == IF back = {} THEN rest
                ELSE InsertTaskQueue(rest, v, CHOOSE t \in back : TRUE)
      ok     == /\ \A t \in back : SearchEnds(rest, v, t)
                /\ ~DivideError(full)
  IN  /\ need' = [nd EXCEPT ![current] = FALSE]
      /\ IF task = QHead
         THEN halted' = TRUE /\ rq' = q /\ UNCHANGED current
         ELSE /\ halted' = ~ok
              /\ rq' = Refill(full)
              /\ current' = IF switch THEN task ELSE current

\* ret_from_intr, after a handler that left run queue q, vruntimes v, states
\* st and NEED_SHEDULE bits nd.
RetFromIntr(q, v, st, nd) ==
  /\ state' = st
  /\ vruntime' = v
  /\ IF nd[current]
     THEN Schedule(q, v, st, nd)
     ELSE rq' = q /\ need' = nd /\ UNCHANGED <<current, halted>>

\* The timer interrupt, HPET_handler: the current task pays for the tick.
Tick ==
  LET v == [vruntime EXCEPT ![current] = @ + TickCost]
      q == [rq EXCEPT !.slice = @ - TickCost]
      nd == [need EXCEPT ![current] = @ \/ q.slice <= 0]
  IN  /\ ~halted
      /\ vruntime[current] < MaxVruntime
      /\ RetFromIntr(q, v, state, nd)
      /\ UNCHANGED <<pc, child, requests, waiters, early>>

\* A task is asleep once schedule has taken the CPU from it for another.
Asleep(t) == t # current /\ state[t] # RUNNING

\* wakeup_process, and the same three lines of end_request, inside a handler.
Wake(t) ==
  LET st == [state EXCEPT ![t] = RUNNING]
      nd == [need EXCEPT ![current] = TRUE]
  IN  /\ early' = (early \/ ~Asleep(t))
      /\ IF SearchEnds(rq, vruntime, t)
         THEN RetFromIntr(InsertTaskQueue(rq, vruntime, t), vruntime, st, nd)
         ELSE /\ halted' = TRUE
              /\ state' = st
              /\ UNCHANGED <<rq, current, vruntime, need>>

\* Mutant: the request is finished and its task is not woken.
DiskDoneSilent(t) ==
  /\ ~halted /\ t \in requests
  /\ requests' = requests \ {t}
  /\ UNCHANGED <<rq, current, state, vruntime, need, pc, child, waiters, halted, early>>

\* The disk interrupt that ends t's request: end_request wakes its task
\* whatever that is doing, and nothing orders it after the task's schedule().
DiskDone(t) ==
  /\ ~halted /\ t \in requests
  /\ requests' = requests \ {t}
  /\ Wake(t)
  /\ UNCHANGED <<pc, child, waiters>>

\* The keyboard interrupt, wakeup(&keyboard_wait_queue): it looks at the state
\* of the first waiter, and wakes it only from that state.  Which waiter is
\* first is left open.
KeyDone(t) ==
  /\ ~halted /\ t \in waiters
  /\ state[t] = UNINTERRUPTIBLE
  /\ waiters' = waiters \ {t}
  /\ Wake(t)
  /\ UNCHANGED <<pc, child, requests>>

-----------------------------------------------------------------------------
\* Steps of the current task; init_task only halts the CPU.
At(place) == ~halted /\ current # Idle /\ pc[current] = place
GoTo(place) == pc' = [pc EXCEPT ![current] = place]

\* submit() in disk_transfer: the disk can answer from here on.
Submit ==
  /\ At("run")
  /\ requests' = requests \cup {current}
  /\ GoTo("submitted")
  /\ UNCHANGED <<rq, current, state, vruntime, need, child, waiters, halted, early>>

\* wait_for_finish, disk.c:171
MarkForDisk ==
  /\ At("submitted")
  /\ state' = [state EXCEPT ![current] = UNINTERRUPTIBLE]
  /\ GoTo("marked")
  /\ UNCHANGED <<rq, current, vruntime, need, child, requests, waiters, halted, early>>

\* sleep_on, waitqueue.c:15
MarkForQueue ==
  /\ At("run")
  /\ state' = [state EXCEPT ![current] = UNINTERRUPTIBLE]
  /\ GoTo("unlisted")
  /\ UNCHANGED <<rq, current, vruntime, need, child, requests, waiters, halted, early>>

\* sleep_on, waitqueue.c:16
EnterQueue ==
  /\ At("unlisted")
  /\ waiters' = waiters \cup {current}
  /\ GoTo("listed")
  /\ UNCHANGED <<rq, current, state, vruntime, need, child, requests, halted, early>>

\* The schedule() that wait_for_finish and sleep_on end with; the task goes on
\* behind it when it gets the CPU back.
Block ==
  /\ At("marked") \/ At("listed")
  /\ Schedule(rq, vruntime, state, need)
  /\ GoTo("run")
  /\ UNCHANGED <<state, vruntime, child, requests, waiters, early>>

\* Mutant: the child's vruntime starts at zero.
CopyFromZero(c) ==
  /\ At("run")
  /\ state[c] = "unborn"
  /\ child' = [child EXCEPT ![current] = c]
  /\ vruntime' = [vruntime EXCEPT ![c] = 0]
  /\ need' = [need EXCEPT ![c] = need[current]]
  /\ state' = [state EXCEPT ![c] = UNINTERRUPTIBLE]
  /\ rq' = [rq EXCEPT !.list = ListInit(rq.list, c)]
  /\ GoTo("copied")
  /\ UNCHANGED <<current, requests, waiters, halted, early>>

\* do_fork, task.c:265 to 272: the child is a copy of its parent's task structure, with
\* the vruntime and the NEED_SHEDULE bit of that moment, and nobody can wake it.
CopyTask(c) ==
  /\ At("run")
  /\ state[c] = "unborn"
  /\ child' = [child EXCEPT ![current] = c]
  /\ vruntime' = [vruntime EXCEPT ![c] = vruntime[current]]
  /\ need' = [need EXCEPT ![c] = need[current]]
  /\ state' = [state EXCEPT ![c] = UNINTERRUPTIBLE]
  /\ rq' = [rq EXCEPT !.list = ListInit(rq.list, c)]
  /\ GoTo("copied")
  /\ UNCHANGED <<current, requests, waiters, halted, early>>

\* do_fork, task.c:293: wakeup_process makes the child ready; the parent may have paid
\* for any number of ticks since the copy.  It keeps the CPU until the next interrupt
\* looks at its NEED_SHEDULE bit.
Fork ==
  LET c == child[current]
  IN  /\ At("copied")
      /\ state' = [state EXCEPT ![c] = RUNNING]
      /\ need' = [need EXCEPT ![current] = TRUE]
      /\ rq' = InsertTaskQueue(rq, vruntime, c)
      /\ halted' = ~SearchEnds(rq, vruntime, c)
      /\ child' = [child EXCEPT ![current] = current]
      /\ GoTo("run")
      /\ UNCHANGED <<current, vruntime, requests, waiters, early>>

Interrupt == Tick \/ \E t \in Task : DiskDone(t) \/ KeyDone(t)
TaskStep  == \/ Submit \/ MarkForDisk \/ MarkForQueue \/ EnterQueue \/ Block
             \/ Fork \/ \E c \in Task : CopyTask(c)
Next == Interrupt \/ TaskStep

Spec == Init /\ [][Next]_vars

\* After an early wakeup the list may be damaged and nothing below says more:
\* TLC checks the state it leads to and does not go beyond.
UpToEarly == ~early

-----------------------------------------------------------------------------
\* The tasks that want the CPU and do not have it; init_task never queues.
Queued == {t \in Task \ {Idle, current} : state[t] = RUNNING}

\* The tasks that a do_fork has copied and not made ready yet.
Children == {child[t] : t \in {u \in Task : pc[u] = "copied"}}

\* Whatever order tasks, ticks and wakeups come in, the run queue holds each
\* ready task exactly once and nothing else, sorted by vruntime, and
\* running_task_count is one more than its length (schedule.c:79, 91) - until
\* an interrupt wakes a task that has not gone to sleep yet.
RunQueueIntact == ~early => Holds(rq, vruntime, Queued)

\* Until such an early wakeup, no search of insert_task_queue runs for ever
\* and schedule never divides by zero (schedule.c:37, 104).
NeverHalts == halted => early

\* A task that is neither ready nor running can still be reached by a wakeup,
\* of an interrupt or of the do_fork that makes it, unless it lost the CPU to a
\* tick between the two lines of sleep_on that mark it and list it
\* (waitqueue.c:15, 16): that one sleeps for ever.
SleepersReachable ==
  ~early => \A t \in Task \ {current} :
    state[t] = UNINTERRUPTIBLE =>
      t \in requests \cup waiters \cup Children \/ pc[t] = "unlisted"

\* disk_transfer (disk.c:175) comes back to its caller only after the disk
\* has finished the request: while it has not, the task is asleep in it.
DataBeforeReturn ==
  ~early => \A t \in requests : pc[t] = "run" => Asleep(t)

\* The run queue is whole and in order, and the kernel goes on (schedule.c:21, 86).
QueueSafe == TypeOK /\ RunQueueIntact /\ NeverHalts

\* No sleeper is out of reach, and none is back before its data (disk.c:168,
\* waitqueue.c:12).
SleepSafe == SleepersReachable /\ DataBeforeReturn

\* The task that gets the CPU has the least vruntime of all ready tasks; a
\* current task that is preempted is one of them (schedule.c:21).
LeastVruntimeRuns ==
  [][current' # current /\ ~early' =>
       \A t \in Queued' : vruntime'[current'] <= vruntime'[t]]_vars

\* Two units a tick never bring an odd slice, such as the three units that
\* three competing tasks get, to the zero that schedule waits for to replace
\* it (schedule.c:27): no slice is ever given again.
OddSliceIsTheLast ==
  [][rq.slice < 0 \/ rq.slice % 2 = 1 => rq'.slice <= rq.slice]_vars

\* The run queue code implements a set of ready tasks of which the one with
\* the least vruntime runs, until the first early wakeup.
Fair == INSTANCE FairScheduler
          WITH cpu <- current, ready <- Queued, vr <- vruntime, broken <- early,
               made <- Children, born <- {t \in Task : state[t] # "unborn"} \ Children
FairSpec == Fair!Spec
=============================================================================
