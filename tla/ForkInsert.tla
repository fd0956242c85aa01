----------------------------- MODULE ForkInsert -----------------------------
(***************************************************************************)
(* do_fork puts the child into the run queue with interrupts on            *)
(* (task.c:293): insert_task_queue load by load and store by store, with   *)
(* ticks, wakeups and schedule() between any two of them.  Those run with  *)
(* interrupts off, and are one step on the operators of RunQueue, as are   *)
(* the calls of schedule() by which a task goes to sleep.                  *)
(*                                                                         *)
(* struck records what interrupts have met: the node that the search of    *)
(* do_fork stood at has left the queue ("stale"), a search inside the      *)
(* interrupt has come to the child between two of its stores ("half"), two *)
(* tasks in do_fork add before the same node ("same"), the queue has       *)
(* changed under the search ("moved") or the counter under its increment   *)
(* ("count").  Behind the first three nothing is claimed, and the model    *)
(* stops there.                                                            *)
(***************************************************************************)
EXTENDS RunQueue

CONSTANT MaxVruntime   \* ticks stop here: a bound of the model only
ForkAssumption == MaxVruntime \in Nat

VARIABLES
  rq,        \* task_schedule[0]; its slice stays as it is
  current,   \* the task whose stack the CPU is on
  ready,     \* the tasks in TASK_RUNNING, and those that do_fork is making so
  vruntime,
  at,        \* where each task is in do_fork
  child, tmp, loaded,  \* its locals, and the counter it has read
  struck,    \* history: what interrupts have met
  hung       \* a search inside an interrupt does not end
vars == <<rq, current, ready, vruntime, at, child, tmp, loaded, struck, hung>>
locals == <<child, tmp, loaded>>

Adding == {"second", "third", "fourth"}
Searching == {"enter", "empty", "search", "first"}
Places == {"unborn", "out", "load", "store"} \cup Adding \cup Searching
Broken == {"stale", "half", "same"}
Kinds == Broken \cup {"moved", "count"}

TypeOK ==
  /\ rq \in RunQueues /\ current \in ready /\ ready \subseteq Task
  /\ vruntime \in [Task -> 0 .. MaxVruntime]
  /\ at \in [Task -> Places] /\ \A t \in ready : at[t] # "unborn"
  /\ child \in [Task -> Task] /\ tmp \in [Task -> Cell] /\ loaded \in [Task -> Int]
  /\ struck \subseteq Kinds /\ hung \in BOOLEAN

\* The tasks whose child is not in the run queue yet, and those who have not counted it.
Within(places) == {t \in Task : at[t] \in places}
Pending == {child[t] : t \in Within(Searching \cup Adding)}
Uncounted == Within({"load", "store"})

\* As boot leaves it: init_task runs and the first task is ready.
Init ==
  /\ current = Idle
  /\ vruntime = [t \in Task |-> 0]
  /\ \E first \in Task \ {Idle} :
       /\ rq = InsertTaskQueue(
                 [list |-> [next |-> [n \in Cell |-> n], prev |-> [n \in Cell |-> n]],
                  count |-> 1, slice |-> 1],
                 vruntime, first)
       /\ ready = {Idle, first}
       /\ at = [t \in Task |-> IF t \in {Idle, first} THEN "out" ELSE "unborn"]
  /\ child = [t \in Task |-> t] /\ tmp = [t \in Task |-> QHead]
  /\ loaded = [t \in Task |-> 0]
  /\ struck = {} /\ hung = FALSE
-----------------------------------------------------------------------------
\* The search for the place of task x comes to node n.
Reaches(q, v, x, n) ==
  /\ x # Idle /\ ~ListIsEmpty(q.list, QHead)
  /\ n \in Visited(q.list, QHead, Below(v, x))

\* schedule(), after the task x has been inserted, or nobody if x is Idle, which is
\* never queued.  What it inserts again is the task it takes, or the current one.
Reschedule(x, v, able) ==
  LET q1   == InsertTaskQueue(rq, v, x)
      next == NextTask(q1)
      q2   == Dequeue(q1)
      switch == v[current] >= v[next] \/ current \notin able
      back == IF ~switch THEN next ELSE IF current \in able THEN current ELSE Idle
      q3   == InsertTaskQueue(q2, v, back)
      half == {t \in Within(Adding) :
                 Reaches(rq, v, x, child[t]) \/ Reaches(q2, v, back, child[t])}
  IN  /\ rq' = q3
      /\ current' = IF switch THEN next ELSE current
      /\ ready' = able /\ vruntime' = v
      /\ hung' = ~(SearchEnds(rq, v, x) /\ SearchEnds(q2, v, back))
      /\ struck' = struck \cup (IF half # {} THEN {"half"} ELSE {})
                          \cup (IF Within(Searching) # {} /\ q3.list # rq.list
                                THEN {"moved"} ELSE {})

\* The timer interrupt; whether the slice is used up is left open.
Tick ==
  /\ vruntime[current] + TickCost <= MaxVruntime
  /\ LET v == [vruntime EXCEPT ![current] = @ + TickCost]
     IN  \/ Reschedule(Idle, v, ready)
         \/ /\ vruntime' = v
            /\ UNCHANGED <<rq, current, ready, struck, hung>>
  /\ UNCHANGED <<at, locals>>

\* The disk or the keyboard wakes a task, and ret_from_intr schedules.
Wake(t) ==
  /\ at[t] # "unborn" /\ t \notin ready
  /\ Reschedule(t, vruntime, ready \cup {t})
  /\ UNCHANGED <<at, locals>>

\* The current task goes to sleep.
Sleep ==
  /\ current # Idle /\ at[current] = "out"
  /\ Reschedule(Idle, vruntime, ready \ {current})
  /\ UNCHANGED <<at, locals>>
-----------------------------------------------------------------------------
At(place) == at[current] = place
Goes(place) == at' = [at EXCEPT ![current] = place]
My(f) == f[current]
Stays == UNCHANGED <<current, ready, vruntime, hung>>

\* do_fork up to wakeup_process: the child has the vruntime of this moment, and ticks may
\* come before the next step.  It counts as ready from here on; nothing looks at its state
\* until it is in the queue, and no wakeup can come for it.
Fork(c) ==
  /\ current # Idle /\ At("out") /\ at[c] = "unborn"
  /\ at' = [at EXCEPT ![current] = "enter", ![c] = "out"]
  /\ child' = [child EXCEPT ![current] = c]
  /\ vruntime' = [vruntime EXCEPT ![c] = My(vruntime)]
  /\ ready' = ready \cup {c}
  /\ rq' = [rq EXCEPT !.list = ListInit(rq.list, c)]
  /\ UNCHANGED <<current, tmp, loaded, struck, hung>>

\* The first node, which is taken before the list is seen to be empty or not.
Enter ==
  /\ At("enter") /\ Goes("empty")
  /\ tmp' = [tmp EXCEPT ![current] = rq.list.next[QHead]]
  /\ UNCHANGED <<rq, child, loaded, struck>> /\ Stays
Empty ==
  /\ At("empty")
  /\ Goes(IF ListIsEmpty(rq.list, QHead) THEN "first" ELSE "search")
  /\ UNCHANGED <<rq, locals, struck>> /\ Stays

\* Mutant: the search goes one node too far.
SearchTooFar ==
  /\ At("search")
  /\ tmp' = [tmp EXCEPT ![current] = rq.list.next[@]]
  /\ Goes(IF My(tmp) \in Below(vruntime, My(child)) THEN "search" ELSE "first")
  /\ UNCHANGED <<rq, child, loaded, struck>> /\ Stays

\* A turn of the search, or its end.
Search ==
  /\ At("search")
  /\ IF My(tmp) \in Below(vruntime, My(child))
     THEN /\ tmp' = [tmp EXCEPT ![current] = rq.list.next[@]]
          /\ UNCHANGED at
     ELSE Goes("first") /\ UNCHANGED tmp
  /\ UNCHANGED <<rq, child, loaded, struck>> /\ Stays

\* The tasks in the run queue, as it should be.
Queued == ready \ ({current, Idle} \cup Pending)

\* Before which node the current task adds: one that has left the queue, or one before
\* which another task is adding.
Meets ==
  (IF My(tmp) \notin Queued \cup {QHead} THEN {"stale"} ELSE {})
    \cup (IF \E t \in Within(Adding) : tmp[t] = My(tmp) THEN {"same"} ELSE {})

\* The stores of list_add_before.
Store(from, to, list) ==
  /\ At(from) /\ Goes(to)
  /\ rq' = [rq EXCEPT !.list = list]
  /\ struck' = struck \cup (IF from = "first" THEN Meets ELSE {})
  /\ UNCHANGED locals /\ Stays

First  == Store("first", "second", [rq.list EXCEPT !.next[rq.list.prev[My(tmp)]] = My(child)])
Second == Store("second", "third", [rq.list EXCEPT !.prev[My(child)] = rq.list.prev[My(tmp)]])
Third  == Store("third", "fourth", [rq.list EXCEPT !.prev[My(tmp)] = My(child)])
Fourth == Store("fourth", "load", [rq.list EXCEPT !.next[My(child)] = My(tmp)])

\* running_task_count += 1
Load ==
  /\ At("load") /\ Goes("store")
  /\ loaded' = [loaded EXCEPT ![current] = rq.count]
  /\ UNCHANGED <<rq, child, tmp, struck>> /\ Stays

Count ==
  /\ At("store") /\ Goes("out")
  /\ rq' = [rq EXCEPT !.count = My(loaded) + 1]
  /\ struck' = IF My(loaded) # rq.count THEN struck \cup {"count"} ELSE struck
  /\ UNCHANGED locals /\ Stays

TaskStep ==
  \/ Enter \/ Empty \/ Search \/ First \/ Second \/ Third \/ Fourth \/ Load \/ Count
  \/ \E c \in Task : Fork(c)
Trusted == struck \cap Broken = {}
Next ==
  /\ Trusted /\ ~hung
  /\ Tick \/ Sleep \/ TaskStep \/ \E t \in Task : Wake(t)
Spec == Init /\ [][Next]_vars
-----------------------------------------------------------------------------
\* Between additions the run queue is one ring of the ready tasks, wherever interrupts
\* came, unless a search of theirs came to the child between two of its stores, they
\* took the node that do_fork's search had found out of the queue, or another do_fork
\* began to add before the same node (task.c:293, schedule.c:104).
QueueKept ==
  Trusted /\ Within(Adding) = {} => WellLinked(rq.list, Queued \cup {QHead}, QHead)

\* An interrupt whose searches do not come to the child finds its way through the queue
\* in the middle of an addition as well: they end (schedule.c:104).
InterruptsGoOn == Trusted => ~hung

\* The counter counts the tasks, unless an interrupt came between its load and its
\* store (schedule.c:110).
CountRight ==
  Trusted /\ "count" \notin struck =>
    rq.count = 1 + Cardinality(Queued) - Cardinality(Uncounted)

\* The least task is first, unless the queue changed under a search (schedule.c:106).
OrderKept ==
  Trusted /\ "moved" \notin struck /\ Within(Adding) = {} => Sorted(rq, vruntime, Queued)

\* An addition by do_fork and any interrupts between its loads and stores leave the
\* queue, its order and its counter right, but for what struck excuses (task.c:293).
Sound == TypeOK /\ QueueKept /\ InterruptsGoOn /\ CountRight /\ OrderKept
=============================================================================
