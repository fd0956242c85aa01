----------------------------- MODULE WaitQueue ------------------------------
(***************************************************************************)
(* One wait queue, store by store: sleep_on puts a node of the task's own  *)
(* stack into the list with interrupts on, and wakeup runs in an interrupt *)
(* between any two of its stores.  A task that loses the processor while   *)
(* it is TASK_UNINTERRUPTIBLE gets it back only from a wakeup.  What a     *)
(* wakeup does to the run queue is in Scheduler.                           *)
(***************************************************************************)
EXTENDS LinkedList, Integers, SequencesExt

CONSTANTS Task, QueueHead
QueueAssumption == QueueHead \notin Task

VARIABLES
  list,     \* the pointers of the head and of each task's node
  state,    \* TASK_RUNNING or TASK_UNINTERRUPTIBLE
  at,       \* where each task is
  off,      \* it has lost the processor while it was uninterruptible
  order,    \* history: the tasks in the order in which their nodes were added
  struck    \* history: an interrupt met list_add_before where it must not
vars == <<list, state, at, off, order, struck>>

Node == Task \cup {QueueHead}
Adding == {"second", "third", "fourth"}
Places == {"out", "first", "sleep"} \cup Adding

TypeOK ==
  /\ list \in ListMemory(Node)
  /\ state \in [Task -> {"running", "uninterruptible"}]
  /\ at \in [Task -> Places]
  /\ \A t \in Task : at[t] = "out" => state[t] = "running"
  /\ off \subseteq Task /\ order \in Seq(Task) /\ struck \in BOOLEAN

Init ==
  /\ list = [next |-> [n \in Node |-> n], prev |-> [n \in Node |-> n]]
  /\ state = [t \in Task |-> "running"] /\ at = [t \in Task |-> "out"]
  /\ off = {} /\ order = <<>> /\ struck = FALSE

-----------------------------------------------------------------------------
\* A task that executes: nobody else is in an unfinished list_add_before unless it
\* has lost the processor there.
Runs(t) == t \notin off
Goes(t, place) == at' = [at EXCEPT ![t] = place]
Store(t, from, to, l) ==
  /\ at[t] = from /\ Runs(t)
  /\ Goes(t, to)
  /\ list' = l
  /\ order' = IF from = "first" THEN Append(order, t) ELSE order
  /\ UNCHANGED <<state, off, struck>>

\* sleep_on: wait_queue_init and the state.
SleepOn(t) ==
  /\ at[t] = "out" /\ Runs(t)
  /\ \A u \in Task \ {t} : at[u] \in {"out", "sleep"} \/ u \in off
  /\ list' = ListInit(list, t)
  /\ state' = [state EXCEPT ![t] = "uninterruptible"]
  /\ Goes(t, "first")
  /\ UNCHANGED <<off, order, struck>>

\* Mutant: the third store of list_add_before is missing.
ThirdMissing(t) == Store(t, "third", "fourth", list)

\* The four stores of list_add_before.
First(t)  == Store(t, "first", "second", [list EXCEPT !.next[list.prev[QueueHead]] = t])
Second(t) == Store(t, "second", "third", [list EXCEPT !.prev[t] = list.prev[QueueHead]])
Third(t)  == Store(t, "third", "fourth", [list EXCEPT !.prev[QueueHead] = t])
Fourth(t) == Store(t, "fourth", "sleep", [list EXCEPT !.next[t] = QueueHead])

\* schedule(), which Preempt takes the processor in, comes back once somebody has set TASK_RUNNING.
Return(t) ==
  /\ at[t] = "sleep" /\ state[t] = "running" /\ Runs(t)
  /\ Goes(t, "out")
  /\ UNCHANGED <<list, state, off, order, struck>>

\* A tick: schedule() does not put an uninterruptible task back into the run queue.
Preempt(t) ==
  /\ at[t] \in Places \ {"out"} /\ Runs(t) /\ state[t] = "uninterruptible"
  /\ off' = off \cup {t}
  /\ struck' = (struck \/ at[t] # "sleep")
  /\ UNCHANGED <<list, state, at, order>>

\* The wakeup of w meets an unfinished addition: it takes out the node that is being
\* added, or the tail between the two stores that link the new node to it.
Meets(w) ==
  \E t \in Task :
    at[t] \in Adding /\ (w = t \/ (at[t] = "second" /\ w = list.prev[QueueHead]))

\* What wakeup leaves of the list.
Without(w) == ListDelete(list, w)

\* Mutant: the last one is woken.
LastWaiter == list.prev[QueueHead]

\* The task of which node is woken: the first.
FirstWaiter == list.next[QueueHead]

\* wakeup, in an interrupt handler.
Wakeup ==
  /\ ~ListIsEmpty(list, QueueHead)
  /\ LET w == FirstWaiter
     IN  /\ w # QueueHead
         /\ state[w] = "uninterruptible"
         /\ list' = Without(w)
         /\ state' = [state EXCEPT ![w] = "running"]
         /\ off' = off \ {w}
         /\ order' = RemoveFirst(order, w)
         /\ struck' = (struck \/ Meets(w))
  /\ UNCHANGED at

TaskStep(t) ==
  \/ SleepOn(t) \/ First(t) \/ Second(t) \/ Third(t) \/ Fourth(t)
  \/ Return(t) \/ Preempt(t)
Next == Wakeup \/ \E t \in Task : TaskStep(t)
Spec == Init /\ [][Next]_vars
-----------------------------------------------------------------------------
\* The tasks in the list that nobody has taken out.
Waiters == {t \in Task : at[t] = "sleep" /\ state[t] = "uninterruptible"}

\* Unless an interrupt has met an addition, the list is one ring of the head and the
\* nodes that wait, whatever else came between its stores (waitqueue.c:16).
WaitListSound ==
  ~struck /\ (\A t \in Task : at[t] \notin Adding) =>
    WellLinked(list, Waiters \cup {QueueHead}, QueueHead)

\* Nor does its head ever lead to a node on a stack that its task has left, but for
\* the tail that the third store is about to replace.
NoDeadNode ==
  ~struck => \A t \in Task : at[t] = "out" =>
    /\ list.next[QueueHead] # t
    /\ list.prev[QueueHead] = t => \E u \in Task : at[u] = "third"

\* A task sleeps where a wakeup finds it.
SleepersFound ==
  ~struck => \A t \in off : t \in Waiters /\ t \in Visited(list, QueueHead, Task)

\* The list is sound wherever a wakeup comes, with no way to a stack that was left and
\* none of its sleepers lost, as long as no interrupt meets an addition where it
\* must not (waitqueue.c:16, 38).
Sound == TypeOK /\ WaitListSound /\ NoDeadNode /\ SleepersFound

\* Wakeups come in the order of the calls of sleep_on, also when the first is woken
\* while another is being added (waitqueue.c:38).
InOrder ==
  [][~struck' /\ Len(order') < Len(order) => order' = Tail(order)]_vars
=============================================================================
