-------------------------------- MODULE Disk --------------------------------
(***************************************************************************)
(* The disk driver, src/os/kernel/disk.c: tasks in disk_transfer queue a   *)
(* request and start the disk when it is idle, the disk's interrupt ends   *)
(* the request in_using and starts the next.  The interrupt handler runs   *)
(* with interrupts off and is one step; a task's stores to the queue are a *)
(* step each.  A task has one request at a time, so that the request block *)
(* is named after it.                                                      *)
(***************************************************************************)
EXTENDS Integers, FiniteSets, SequencesExt, LinkedList

CONSTANTS Task,     \* the tasks that use the disk
          Idle,     \* stands for every other task
          QHead,    \* disk_request.wait_queue_list.wait_list
          None,     \* NULL
          Sectors   \* the transfer lengths tasks ask for
ASSUME DiskAssumption == /\ Idle \notin Task /\ QHead \notin Task /\ None \notin Task
                         /\ IsFiniteSet(Task) /\ Sectors \subseteq Nat \ {0}

VARIABLES
  list,         \* the list nodes of the queue and of every request block
  in_using,     \* disk_request.in_using
  blockCount,   \* disk_request.block_request_count
  left,         \* block_buffer_node.count
  device,       \* the request the controller is executing
  cpu,          \* who runs
  running,      \* the tasks in state TASK_RUNNING
  pc,           \* where each task is
  loaded,       \* the value of block_request_count a task is incrementing
  order,        \* history: the unfinished requests in the order of their calls
  wild,         \* cmd_out has taken the queue's head, or NULL, for a request
  struck,       \* history: places of add_request where the interrupt came
  shared,       \* history: two tasks were inside submit at once
  early         \* history: a task was woken before it slept
queue == <<list, in_using, blockCount>>
sched == <<cpu, running>>
vars == <<queue, left, device, sched, pc, loaded, order, wild, struck, shared,
          early>>

Cell == Task \cup {QHead}

\* pc: outside; before the four stores of list_add_before; before the load and
\* the store of disk.c:156; before 163, 14, 15, 16 and 17; before 171 and 172.
Adding == {"add1", "add2", "add3", "add4", "load", "store"}
Submitting == Adding \cup {"check", "pick", "unlink", "uncount", "issue"}
Places == Submitting \cup {"out", "mark", "sched"}

TypeOK ==
  /\ list \in ListMemory(Cell)
  /\ in_using \in Task \cup {None}
  /\ blockCount \in Int
  /\ left \in [Task -> Nat]
  /\ device \in Task \cup {None}
  /\ cpu \in Task \cup {Idle} /\ running \subseteq Task
  /\ pc \in [Task -> Places]
  /\ loaded \in [Task -> Int]
  /\ order \in Seq(Task) /\ IsInjective(order)
  /\ wild \in BOOLEAN /\ struck \subseteq Adding
  /\ shared \in BOOLEAN /\ early \in BOOLEAN

\* disk_init
Init ==
  /\ list = [next |-> [n \in Cell |-> n], prev |-> [n \in Cell |-> n]]
  /\ in_using = None /\ blockCount = 0
  /\ left = [t \in Task |-> 0]
  /\ device = None
  /\ cpu = Idle /\ running = Task
  /\ pc = [t \in Task |-> "out"]
  /\ loaded = [t \in Task |-> 0]
  /\ order = <<>>
  /\ wild = FALSE /\ struck = {} /\ shared = FALSE /\ early = FALSE

-----------------------------------------------------------------------------
Switch ==
  /\ cpu' \in (running \cup {Idle}) \ {cpu}
  /\ UNCHANGED <<queue, left, device, running, pc, loaded, order, wild, struck,
                 shared, early>>

\* Mutant: the last request is served first.
LastRequest == list.prev[QHead]

\* The list node cmd_out takes.
FirstRequest == list.next[QHead]

\* A step of task t in disk_transfer.
Step(t, from, to) ==
  /\ ~wild
  /\ cpu = t
  /\ pc[t] = from
  /\ pc' = [pc EXCEPT ![t] = to]
  /\ shared' = (shared \/ \E u \in running \ {t} : pc[u] \in Submitting)

\* make_request: a new request block.
MakeRequest(t) ==
  /\ Step(t, "out", "add1")
  /\ list' = ListInit(list, t)
  /\ \E n \in Sectors : left' = [left EXCEPT ![t] = n]
  /\ UNCHANGED <<in_using, blockCount, device, sched, loaded, order, wild,
                 struck, early>>

\* add_request, store by store: list_add_before(QHead, t).
Store1(t) ==
  /\ Step(t, "add1", "add2")
  /\ list' = [list EXCEPT !.next[list.prev[QHead]] = t]
  /\ UNCHANGED <<in_using, blockCount, left, device, sched, loaded, order, wild,
                 struck, early>>

Store2(t) ==
  /\ Step(t, "add2", "add3")
  /\ list' = [list EXCEPT !.prev[t] = list.prev[QHead]]
  /\ UNCHANGED <<in_using, blockCount, left, device, sched, loaded, order, wild,
                 struck, early>>

Store3(t) ==
  /\ Step(t, "add3", "add4")
  /\ list' = [list EXCEPT !.prev[QHead] = t]
  /\ UNCHANGED <<in_using, blockCount, left, device, sched, loaded, order, wild,
                 struck, early>>

Store4(t) ==
  /\ Step(t, "add4", "load")
  /\ list' = [list EXCEPT !.next[t] = QHead]
  /\ order' = Append(order, t)
  /\ UNCHANGED <<in_using, blockCount, left, device, sched, loaded, wild,
                 struck, early>>

\* disk.c:156
LoadCount(t) ==
  /\ Step(t, "load", "store")
  /\ loaded' = [loaded EXCEPT ![t] = blockCount]
  /\ UNCHANGED <<queue, left, device, sched, order, wild, struck, early>>

StoreCount(t) ==
  /\ Step(t, "store", "check")
  /\ blockCount' = loaded[t] + 1
  /\ loaded' = [loaded EXCEPT ![t] = 0]
  /\ UNCHANGED <<list, in_using, left, device, sched, order, wild, struck, early>>

\* Mutant: a task leaves it to others to start the disk.
CheckNot(t) ==
  /\ Step(t, "check", "mark")
  /\ UNCHANGED <<queue, left, device, sched, loaded, order, wild, struck, early>>

\* submit: start the disk when nobody has.
Check(t) ==
  /\ Step(t, "check", IF in_using = None THEN "pick" ELSE "mark")
  /\ UNCHANGED <<queue, left, device, sched, loaded, order, wild, struck, early>>

\* cmd_out, called by a task.
Pick(t) ==
  /\ Step(t, "pick", "unlink")
  /\ IF FirstRequest = QHead
     THEN wild' = TRUE /\ UNCHANGED in_using
     ELSE in_using' = FirstRequest /\ UNCHANGED wild
  /\ UNCHANGED <<list, blockCount, left, device, sched, loaded, order, struck,
                 early>>

\* Mutant: the request stays in the list.
UnlinkNot(t) ==
  /\ Step(t, "unlink", "uncount")
  /\ UNCHANGED <<queue, left, device, sched, loaded, order, wild, struck, early>>

Unlink(t) ==
  /\ Step(t, "unlink", "uncount")
  /\ IF in_using = None THEN wild' = TRUE /\ UNCHANGED list
     ELSE list' = ListDelete(list, in_using) /\ UNCHANGED wild
  /\ UNCHANGED <<in_using, blockCount, left, device, sched, loaded, order, struck,
                 early>>

Uncount(t) ==
  /\ Step(t, "uncount", "issue")
  /\ blockCount' = blockCount - 1
  /\ UNCHANGED <<list, in_using, left, device, sched, loaded, order, wild,
                 struck, early>>

Issue(t) ==
  /\ Step(t, "issue", "mark")
  /\ device = None
  /\ device' = in_using
  /\ UNCHANGED <<queue, left, sched, loaded, order, wild, struck, early>>

\* wait_for_finish
Mark(t) ==
  /\ Step(t, "mark", "sched")
  /\ running' = running \ {t}
  /\ UNCHANGED <<queue, left, device, cpu, loaded, order, wild, struck, early>>

Sleep(t) ==
  /\ Step(t, "sched", "out")
  /\ cpu' \in running \cup {Idle}
  /\ UNCHANGED <<queue, left, device, running, loaded, order, wild, struck,
                 early>>

-----------------------------------------------------------------------------
Met == {pc[t] : t \in running \cup ({cpu} \ {Idle})}

\* The controller's interrupt after a sector: write_handler or read_handler.
\* An error is printed and the sector counts as transferred.
NextSector ==
  /\ ~wild /\ device # None /\ in_using # None
  /\ left[in_using] > 1
  /\ left' = [left EXCEPT ![in_using] = @ - 1]
  /\ UNCHANGED <<queue, device, sched, pc, loaded, order, wild, struck, shared,
                 early>>

\* ... and after the last one: end_request, which calls cmd_out for the next
\* request when block_request_count says that there is one.
EndRequest ==
  LET n == in_using
      first == FirstRequest
  IN  /\ ~wild /\ device # None /\ n # None
      /\ left[n] = 1
      /\ left' = [left EXCEPT ![n] = 0]
      /\ running' = running \cup {n}
      /\ early' = (early \/ n \in running \/ n = cpu)
      /\ order' = RemoveFirst(order, n)
      /\ struck' = struck \cup (Met \cap Adding)
      /\ \/ /\ blockCount = 0
            /\ in_using' = None /\ device' = None
            /\ UNCHANGED <<list, blockCount, wild>>
         \/ /\ blockCount # 0 /\ first # QHead
            /\ in_using' = first /\ device' = first
            /\ list' = ListDelete(list, first)
            /\ blockCount' = blockCount - 1
            /\ UNCHANGED wild
         \/ /\ blockCount # 0 /\ first = QHead
            /\ wild' = TRUE
            /\ UNCHANGED <<queue, device>>
      /\ UNCHANGED <<cpu, pc, loaded, shared>>

Submit(t) == \/ Store1(t) \/ Store2(t) \/ Store3(t) \/ Store4(t)
             \/ LoadCount(t) \/ StoreCount(t) \/ Check(t)
             \/ Pick(t) \/ Unlink(t) \/ Uncount(t) \/ Issue(t)
Transfer(t) == Submit(t) \/ Mark(t) \/ Sleep(t)
Interrupt == NextSector \/ EndRequest
Next == Switch \/ Interrupt \/ \E t \in Task : MakeRequest(t) \/ Transfer(t)

Spec == Init /\ [][Next]_vars
\* The controller answers, and the scheduler gives the CPU to every ready task
\* again and again, because the vruntime of those that run grows.
Fairness == /\ WF_vars(Interrupt)
            /\ \A t \in Task : SF_vars(Switch /\ cpu' = t) /\ SF_vars(Transfer(t))
LiveSpec == Spec /\ Fairness

-----------------------------------------------------------------------------
\* What the driver is not protected against: two tasks inside submit at once, a
\* request that ends before its task sleeps, and a request that ends while
\* another task is between the first two stores of list_add_before, or between
\* the load and the store of block_request_count.  The model goes no further
\* than the first step that does one of these.
Fragile == {"add2", "store"}
Undisturbed == ~shared /\ ~early /\ struck \cap Fragile = {}

NoSubmit == \A t \in Task : pc[t] \notin Submitting

\* The requests that the controller has not been given yet.
Waiting == ToSet(order) \ {in_using}

\* Whenever no task is inside submit, the list and block_request_count hold
\* exactly the waiting requests, the controller executes the request in_using
\* (disk.c:14, 205), and it is idle only when there is none: although
\* interrupts come between any two stores of add_request and cmd_out.
QueueIntact ==
  Undisturbed /\ NoSubmit =>
    /\ WellLinked(list, Waiting \cup {QHead}, QHead)
    /\ blockCount = Cardinality(Waiting)
    /\ in_using = None => order = <<>>
    /\ device = in_using

\* The disk ends the requests in the order of the calls (disk.c:13, 155).
ServedInOrder ==
  [][Len(order') < Len(order) /\ Undisturbed' => order' = Tail(order)]_vars

\* cmd_out is called only when there is a request to take (disk.c:72, 163).
NeverWild == Undisturbed => ~wild

\* The queue and the controller agree however the interrupt falls into a task's stores,
\* and no command is issued for nothing (disk.c:14, 72, 205).
DiskSound == TypeOK /\ QueueIntact /\ NeverWild

\* Every request is finished.
EveryRequestServed ==
  \A t \in Task : t \in ToSet(order) ~> t \notin ToSet(order) \/ ~Undisturbed
=============================================================================
