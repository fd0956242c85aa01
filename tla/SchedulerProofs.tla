-------------------------- MODULE SchedulerProofs ---------------------------
(***************************************************************************)
(* For every finite set of tasks and every bound on the clock: the types   *)
(* of the scheduler's state, and that until the first early wakeup the run *)
(* queue holds exactly the ready tasks and the kernel does not stop.  The  *)
(* first part says what the operators of RunQueue do to a run queue that   *)
(* holds a set of tasks, the second follows the actions of Scheduler, the  *)
(* third maps them to FairScheduler: each step is, on the tasks that are   *)
(* ready, the one on the CPU and the vruntimes, a step of the abstract     *)
(* scheduler or none.  The next part is about the wait queue of MCTasks,   *)
(* and the last, the longest, about do_fork's additions to the run queue:  *)
(* a sequence of tasks with additions under way at some of its places is   *)
(* followed through insertions and removals by interrupts, through what    *)
(* schedule() makes of these, and through the steps of do_fork itself.     *)
(***************************************************************************)
EXTENDS MCTasks, LinkedListProofs, FiniteSetTheorems

-----------------------------------------------------------------------------
\* insert_task_queue gives a run queue whatever it is called on.
LEMMA InsertType ==
  ASSUME NEW q \in RunQueues, NEW v, NEW t \in Task
  PROVE  InsertTaskQueue(q, v, t) \in RunQueues
<1>1. CASE t = Idle \/ ~SearchEnds(q, v, t)
  BY <1>1 DEF InsertTaskQueue
<1>2. CASE t # Idle /\ SearchEnds(q, v, t)
  <2> DEFINE p == InsertPlace(q, v, t)
  <2>1. p \in Cell
    <3>1. CASE ListIsEmpty(q.list, QHead)
      BY <3>1 DEF InsertPlace, Cell
    <3>2. CASE ~ListIsEmpty(q.list, QHead)
      <4>1. WalkEnd(q.list, QHead, Below(v, t)) \in DOMAIN q.list.next
        BY <1>2, <3>2 DEF SearchEnds, WalkEnds, WalkEnd, Visited
      <4>2. QED
        BY <3>2, <4>1 DEF InsertPlace, RunQueues, ListMemory
    <3>3. QED
      BY <3>1, <3>2
  <2>2. t \in Cell
    BY DEF Cell
  <2> HIDE DEF p
  <2>3. ListAddBefore(q.list, p, t) \in ListMemory(Cell)
    BY <2>1, <2>2 DEF ListAddBefore, ListMemory, RunQueues
  <2>4. InsertTaskQueue(q, v, t) = [list  |-> ListAddBefore(q.list, p, t),
                                    count |-> q.count + 1,
                                    slice |-> q.slice]
    BY <1>2 DEF InsertTaskQueue, p
  <2>5. QED
    BY <2>3, <2>4 DEF RunQueues
<1>3. QED
  BY <1>1, <1>2

\* get_next_task gives a run queue and a node whatever it is called on.
LEMMA DequeueType ==
  ASSUME NEW q \in RunQueues
  PROVE  Dequeue(q) \in RunQueues /\ NextTask(q) \in Cell
<1>1. QHead \in Cell /\ Idle \in Cell
  BY TaskAssumption DEF Cell
<1>2. q.list.next[QHead] \in Cell
  BY <1>1 DEF RunQueues, ListMemory
<1>3. ListDelete(q.list, q.list.next[QHead]) \in ListMemory(Cell)
  BY <1>2, DeleteFields DEF RunQueues
<1>4. QED
  BY <1>1, <1>2, <1>3 DEF Dequeue, NextTask, RunQueues

\* Refilling the slice changes nothing else.
LEMMA RefillType ==
  ASSUME NEW q \in RunQueues
  PROVE  /\ Refill(q) \in RunQueues
         /\ Refill(q).list = q.list
         /\ Refill(q).count = q.count
<1>1. q.count # 0 => NewSlice(q.count) \in Int
  <2>1. CASE q.count > 0
    BY <2>1 DEF RunQueues, NewSlice, Quotient
  <2>2. CASE q.count < 0
    <3>1. -q.count \in Int /\ -q.count > 0
      BY <2>2 DEF RunQueues
    <3>2. 4 \div (-q.count) \in Int
      BY <3>1
    <3>3. QED
      BY <2>2, <3>2 DEF RunQueues, NewSlice, Quotient
  <2>3. QED
    BY <2>1, <2>2 DEF RunQueues
<1>2. QED
  BY <1>1 DEF Refill, RunQueues

-----------------------------------------------------------------------------
\* An empty list holds no task.
LEMMA EmptyHolds ==
  ASSUME NEW q, NEW v, NEW Q \in SUBSET Task, Holds(q, v, Q)
  PROVE  ListIsEmpty(q.list, QHead) <=> Q = {}
<1> DEFINE l == q.list
           L == Q \cup {QHead}
<1>1. Ring(l, L) /\ OneCycle(l, L, QHead) /\ QHead \notin Q
  BY TaskAssumption DEF Holds, WellLinked
<1>2. ASSUME ListIsEmpty(l, QHead) PROVE Q = {}
  <2>1. \A n \in Q : l.next[n] \in Q
    BY <1>1, <1>2 DEF Ring, ListIsEmpty
  <2>2. Q \in SUBSET (L \ {QHead})
    BY <1>1
  <2>3. QED
    BY <1>1, <2>1, <2>2 DEF OneCycle
<1>3. ASSUME Q = {} PROVE ListIsEmpty(l, QHead)
  BY <1>1, <1>3 DEF Ring, ListIsEmpty
<1>4. QED
  BY <1>2, <1>3

\* insert_task_queue with a task that is not queued: its search ends and the
\* run queue holds the task too.
LEMMA InsertHolds ==
  ASSUME NEW q \in RunQueues, NEW v \in [Task -> Nat],
         NEW Q \in SUBSET (Task \ {Idle}), Holds(q, v, Q),
         NEW t \in Task \ (Q \cup {Idle})
  PROVE  /\ SearchEnds(q, v, t)
         /\ Holds(InsertTaskQueue(q, v, t), v, Q \cup {t})
<1> DEFINE l == q.list
           L == Q \cup {QHead}
           B == Below(v, t)
           p == InsertPlace(q, v, t)
<1>1. /\ WellLinked(l, L, QHead) /\ Ring(l, L) /\ l \in ListMemory(Cell)
      /\ L \in SUBSET Cell /\ t \in Cell \ L /\ QHead \notin Q
  BY TaskAssumption DEF Holds, WellLinked, RunQueues, Cell
<1>2. /\ p \in L \ B
      /\ l.prev[p] = QHead \/ l.prev[p] \in B
      /\ SearchEnds(q, v, t)
  <2>1. CASE ListIsEmpty(l, QHead)
    <3>1. QHead \notin B
      BY TaskAssumption DEF Below
    <3>2. QED
      BY <2>1, <3>1 DEF InsertPlace, SearchEnds, ListIsEmpty
  <2>2. CASE ~ListIsEmpty(l, QHead)
    <3>1. QHead \notin B
      BY TaskAssumption DEF Below
    <3>2. /\ WalkEnds(l, QHead, B)
          /\ WalkEnd(l, QHead, B) \in L \ B
          /\ \/ l.prev[WalkEnd(l, QHead, B)] = QHead
             \/ l.prev[WalkEnd(l, QHead, B)] \in B
      BY <1>1, <3>1, WalkInList
    <3>3. QED
      BY <2>2, <3>2 DEF InsertPlace, SearchEnds
  <2>3. QED
    BY <2>1, <2>2
<1> DEFINE k == ListAddBefore(l, p, t)
           q1 == InsertTaskQueue(q, v, t)
<1> HIDE DEF p
<1>3. q1 = [list |-> k, count |-> q.count + 1, slice |-> q.slice]
  BY <1>2 DEF InsertTaskQueue, p
<1>4. WellLinked(k, (Q \cup {t}) \cup {QHead}, QHead)
  <2>1. WellLinked(k, L \cup {t}, QHead)
    BY <1>1, <1>2, AddBeforeWellLinked
  <2>2. L \cup {t} = (Q \cup {t}) \cup {QHead}
    OBVIOUS
  <2>3. QED
    BY <2>1, <2>2
<1>5. \A m \in Cell : k.next[m] = IF m = t THEN p
                                  ELSE IF m = l.prev[p] THEN t ELSE l.next[m]
  <2>1. l.prev[p] \in L
    BY <1>1, <1>2 DEF Ring
  <2>2. p \in Cell /\ t # p /\ t # l.prev[p]
    BY <1>1, <1>2, <2>1
  <2>3. QED
    BY <1>1, <2>2, AddBeforeFields
<1>6. ASSUME NEW u \in Q \cup {t}
      PROVE  k.next[u] = QHead \/ v[u] <= v[k.next[u]]
  <2>1. CASE u = t
    <3>1. k.next[u] = p
      BY <1>1, <1>5, <2>1
    <3>2. p # QHead => p \in Task /\ ~(v[p] < v[t])
      BY <1>1, <1>2 DEF Below
    <3>3. QED
      BY <2>1, <3>1, <3>2
  <2>2. CASE u # t /\ u = l.prev[p]
    <3>1. k.next[u] = t /\ u \in Task
      BY <1>1, <1>5, <2>2
    <3>2. v[u] < v[t]
      BY <1>1, <1>2, <2>2, TaskAssumption DEF Below
    <3>3. QED
      BY <3>1, <3>2
  <2>3. CASE u # t /\ u # l.prev[p]
    <3>1. k.next[u] = l.next[u]
      BY <1>1, <1>5, <2>3
    <3>2. QED
      BY <2>3, <3>1 DEF Holds, Sorted
  <2>4. QED
    BY <2>1, <2>2, <2>3
<1>7. Cardinality(Q \cup {t}) = Cardinality(Q) + 1
  <2>1. IsFiniteSet(Q)
    BY TaskAssumption, FS_Subset
  <2>2. QED
    BY <2>1, FS_AddElement
<1>8. q1.count = Cardinality(Q \cup {t}) + 1
  <2>1. Cardinality(Q) \in Nat
    BY TaskAssumption, FS_Subset, FS_CardinalityType
  <2>2. QED
    BY <1>3, <1>7, <2>1 DEF Holds
<1> HIDE DEF k, q1
<1>9. Holds(q1, v, Q \cup {t})
  BY <1>3, <1>4, <1>6, <1>8 DEF Holds, Sorted
<1>10. QED
  BY <1>2, <1>9 DEF q1

\* get_next_task takes a task of the queue out of it, or none when there is
\* none and init_task is its answer.
LEMMA DequeueHolds ==
  ASSUME NEW q \in RunQueues, NEW v, NEW Q \in SUBSET Task, Holds(q, v, Q)
  PROVE  /\ Q = {} => NextTask(q) = Idle
         /\ Q # {} => NextTask(q) \in Q
         /\ Holds(Dequeue(q), v, Q \ {NextTask(q)})
<1>1. ListIsEmpty(q.list, QHead) <=> Q = {}
  BY EmptyHolds
<1>2. CASE Q = {}
  <2>1. NextTask(q) = Idle /\ Dequeue(q) = q
    BY <1>1, <1>2 DEF NextTask, Dequeue
  <2>2. Q \ {NextTask(q)} = Q
    BY <1>2
  <2>3. QED
    BY <1>2, <2>1, <2>2
<1>3. CASE Q # {}
  <2> DEFINE l == q.list
             L == Q \cup {QHead}
             m == NextTask(q)
             k == ListDelete(l, m)
  <2>1. /\ WellLinked(l, L, QHead) /\ Ring(l, L) /\ l \in ListMemory(Cell)
        /\ L \in SUBSET Cell /\ QHead \notin Q
    BY TaskAssumption DEF Holds, WellLinked, RunQueues, Cell
  <2>2. m = l.next[QHead]
    BY <1>1, <1>3 DEF NextTask
  <2>3. m \in Q /\ l.prev[m] = QHead
    <3>1. l.next[QHead] \in L /\ l.prev[l.next[QHead]] = QHead
      BY <2>1 DEF Ring
    <3>2. l.next[QHead] # QHead
      BY <1>1, <1>3, <3>1 DEF ListIsEmpty
    <3>3. QED
      BY <2>2, <3>1, <3>2
  <2> HIDE DEF m
  <2>4. Dequeue(q) = [list |-> k, count |-> q.count - 1, slice |-> q.slice]
    BY <1>1, <1>3, <2>2 DEF Dequeue
  <2>5. WellLinked(k, (Q \ {m}) \cup {QHead}, QHead)
    <3>1. WellLinked(k, L \ {m}, QHead)
      BY <2>1, <2>3, DeleteWellLinked
    <3>2. L \ {m} = (Q \ {m}) \cup {QHead}
      BY <2>1, <2>3
    <3>3. QED
      BY <3>1, <3>2
  <2>6. ASSUME NEW u \in Q \ {m}
        PROVE  k.next[u] = QHead \/ v[u] <= v[k.next[u]]
    <3>1. k.next[u] = l.next[u]
      BY <2>1, <2>3, DeleteFields
    <3>2. QED
      BY <3>1 DEF Holds, Sorted
  <2>7. q.count - 1 = Cardinality(Q \ {m}) + 1
    <3>1. IsFiniteSet(Q) /\ Cardinality(Q) \in Nat
      BY TaskAssumption, FS_Subset, FS_CardinalityType
    <3>2. Cardinality(Q \ {m}) = Cardinality(Q) - 1
      BY <2>3, <3>1, FS_RemoveElement
    <3>3. QED
      BY <3>1, <3>2 DEF Holds
  <2> HIDE DEF k
  <2>8. Holds(Dequeue(q), v, Q \ {m})
    BY <2>4, <2>5, <2>6, <2>7 DEF Holds, Sorted
  <2>9. QED
    BY <1>3, <2>3, <2>8 DEF m
<1>4. QED
  BY <1>2, <1>3

\* The first task of a sorted queue has the least vruntime: the tasks below it
\* would be a set closed under prev without the head.
LEMMA FirstIsLeast ==
  ASSUME NEW q \in RunQueues, NEW v \in [Task -> Nat],
         NEW Q \in SUBSET Task, Holds(q, v, Q), NEW u \in Q
  PROVE  v[NextTask(q)] <= v[u]
<1> DEFINE l == q.list
           L == Q \cup {QHead}
           m == NextTask(q)
           S == {n \in Q : v[n] < v[m]}
<1>1. Ring(l, L) /\ OneCycle(l, L, QHead) /\ QHead \notin Q
  BY TaskAssumption DEF Holds, WellLinked
<1>2. m = l.next[QHead] /\ m \in Q
  <2>1. ~ListIsEmpty(l, QHead)
    BY EmptyHolds
  <2>2. QED
    BY <2>1, DequeueHolds DEF NextTask
<1> HIDE DEF m
<1>3. \A n \in S : l.prev[n] \in S
  <2> TAKE n \in S
  <2>1. l.prev[n] \in L /\ l.next[l.prev[n]] = n
    BY <1>1 DEF Ring
  <2>2. l.prev[n] # QHead
    BY <1>2, <2>1
  <2>3. l.prev[n] \in Q /\ n # QHead
    BY <1>1, <2>1, <2>2
  <2>4. v[l.prev[n]] <= v[n]
    BY <2>1, <2>3 DEF Holds, Sorted
  <2>5. QED
    BY <1>2, <2>3, <2>4
<1>4. S \in SUBSET (L \ {QHead})
  BY <1>1
<1>5. S = {}
  BY <1>1, <1>3, <1>4 DEF OneCycle
<1>6. QED
  BY <1>2, <1>5 DEF m

\* Only the vruntimes of queued tasks matter to the order.
LEMMA HoldsSameVruntime ==
  ASSUME NEW q, NEW v, NEW w, NEW Q \in SUBSET Task,
         Holds(q, v, Q), \A t \in Q : w[t] = v[t]
  PROVE  Holds(q, w, Q)
<1>1. \A t \in Q : q.list.next[t] \in Q \cup {QHead}
  BY DEF Holds, WellLinked, Ring
<1>2. QED
  BY <1>1 DEF Holds, Sorted

\* list_init of a task outside the list leaves the list alone.
LEMMA HoldsListInit ==
  ASSUME NEW q \in RunQueues, NEW v, NEW Q \in SUBSET Task, Holds(q, v, Q),
         NEW t \in Task \ Q
  PROVE  LET r == [q EXCEPT !.list = ListInit(q.list, t)]
         IN  r \in RunQueues /\ Holds(r, v, Q)
<1> DEFINE k == ListInit(q.list, t)
           r == [q EXCEPT !.list = k]
           L == Q \cup {QHead}
<1>1. /\ t \in Cell \ L /\ L \in SUBSET Cell
      /\ q.list \in ListMemory(Cell)
  BY TaskAssumption DEF Cell, RunQueues
<1>2. k \in ListMemory(Cell)
  BY <1>1 DEF ListInit, ListMemory
<1>3. \A m \in L : k.next[m] = q.list.next[m] /\ k.prev[m] = q.list.prev[m]
  BY <1>1 DEF ListInit, ListMemory
<1> HIDE DEF k
<1>4. r \in RunQueues /\ r.list = k /\ r.count = q.count
  BY <1>2 DEF RunQueues
<1>5. WellLinked(k, L, QHead)
  BY <1>3 DEF Holds, WellLinked, Ring, OneCycle
<1>6. Sorted(r, v, Q)
  BY <1>3, <1>4 DEF Holds, Sorted
<1>7. QED
  BY <1>4, <1>5, <1>6 DEF Holds, k

-----------------------------------------------------------------------------
\* The tasks that are ready in states st when c has the CPU.
Ready(st, c) == {t \in Task \ {Idle, c} : st[t] = RUNNING}

States == [Task -> {RUNNING, UNINTERRUPTIBLE, "unborn"}]

\* schedule keeps the types, on any run queue.
LEMMA ScheduleType ==
  ASSUME NEW q \in RunQueues, NEW v, NEW st, NEW nd \in [Task -> BOOLEAN],
         current \in Task, Schedule(q, v, st, nd)
  PROVE  /\ rq' \in RunQueues
         /\ current' \in Task
         /\ need' \in [Task -> BOOLEAN]
         /\ halted' \in BOOLEAN
<1>1. Dequeue(q) \in RunQueues /\ NextTask(q) \in Cell
  BY DequeueType
<1>2. CASE NextTask(q) = QHead
  BY <1>2 DEF Schedule
<1>3. CASE NextTask(q) # QHead
  <2>1. NextTask(q) \in Task
    BY <1>1, <1>3 DEF Cell
  <2>2. \A t \in Task : Refill(InsertTaskQueue(Dequeue(q), v, t)) \in RunQueues
    BY <1>1, InsertType, RefillType
  <2>3. Refill(Dequeue(q)) \in RunQueues
    BY <1>1, RefillType
  <2>4. (CHOOSE t \in {current} : TRUE) = current
        /\ (CHOOSE t \in {NextTask(q)} : TRUE) = NextTask(q)
    OBVIOUS
  <2>5. rq' \in RunQueues
    <3>1. CASE v[current] >= v[NextTask(q)] \/ st[current] # RUNNING
      BY <1>3, <2>2, <2>3, <2>4, <3>1, Zenon DEF Schedule
    <3>2. CASE ~(v[current] >= v[NextTask(q)] \/ st[current] # RUNNING)
      BY <1>3, <2>1, <2>2, <2>4, <3>2, Zenon DEF Schedule
    <3>3. QED
      BY <3>1, <3>2
  <2>6. current' \in Task /\ need' \in [Task -> BOOLEAN] /\ halted' \in BOOLEAN
    BY <1>3, <2>1 DEF Schedule
  <2>7. QED
    BY <2>5, <2>6
<1>4. QED
  BY <1>2, <1>3

\* schedule, on a run queue that holds the ready tasks: it goes on, leaves one
\* that holds the ready tasks, and runs a task with the least vruntime of
\* them whenever it switches.
LEMMA ScheduleHolds ==
  ASSUME NEW q \in RunQueues, NEW v \in [Task -> Nat], NEW st \in States,
         NEW nd, current \in Task, st[Idle] = RUNNING,
         Holds(q, v, Ready(st, current)), Schedule(q, v, st, nd)
  PROVE  /\ halted' = FALSE
         /\ current' \in Task
         /\ current' # current => st[current'] = RUNNING
         /\ current # Idle /\ st[current] # RUNNING => current' # current
         /\ Holds(rq', v, Ready(st, current'))
         /\ current' # current =>
              \A t \in Ready(st, current') : v[current'] <= v[t]
<1> DEFINE R == Ready(st, current)
           task == NextTask(q)
           rest == Dequeue(q)
<1>1. R \in SUBSET (Task \ {Idle}) /\ IsFiniteSet(R) /\ current \notin R
  BY TaskAssumption, FS_Subset DEF Ready
<1>2. /\ R = {} => task = Idle
      /\ R # {} => task \in R
      /\ Holds(rest, v, R \ {task})
      /\ rest \in RunQueues
  BY <1>1, DequeueHolds, DequeueType
<1>3. task \in Task /\ task # QHead /\ st[task] = RUNNING /\ task \notin R \ {task}
  BY <1>1, <1>2, TaskAssumption DEF Ready
<1>4. \A u \in R : v[task] <= v[u]
  BY <1>1, FirstIsLeast
<1> HIDE DEF R, task, rest
\* A run queue that holds a set can be refilled.
<1>5. ASSUME NEW r \in RunQueues, NEW Q \in SUBSET Task, Holds(r, v, Q)
      PROVE  ~DivideError(r) /\ Holds(Refill(r), v, Q)
  <2>1. Cardinality(Q) \in Nat
    BY TaskAssumption, FS_Subset, FS_CardinalityType
  <2>2. r.count # 0
    BY <1>5, <2>1 DEF Holds
  <2>3. Refill(r).list = r.list /\ Refill(r).count = r.count
    BY RefillType
  <2>4. QED
    BY <1>5, <2>2, <2>3 DEF Holds, Sorted, DivideError
\* Putting a task back that is not queued, or init_task.
<1>6. ASSUME NEW t \in Task, t \notin R \ {task}
      PROVE  /\ SearchEnds(rest, v, t)
             /\ InsertTaskQueue(rest, v, t) \in RunQueues
             /\ Holds(InsertTaskQueue(rest, v, t), v,
                      (R \ {task}) \cup ({t} \ {Idle}))
  <2>1. CASE t = Idle
    <3>1. (R \ {task}) \cup ({t} \ {Idle}) = R \ {task}
      BY <2>1
    <3>2. InsertTaskQueue(rest, v, t) = rest /\ SearchEnds(rest, v, t)
      BY <2>1 DEF InsertTaskQueue, SearchEnds
    <3>3. QED
      BY <1>2, <3>1, <3>2
  <2>2. CASE t # Idle
    <3>1. t \in Task \ ((R \ {task}) \cup {Idle})
      BY <1>6, <2>2
    <3>2. R \ {task} \in SUBSET (Task \ {Idle})
      BY <1>1
    <3>3. (R \ {task}) \cup ({t} \ {Idle}) = (R \ {task}) \cup {t}
      BY <2>2
    <3>4. /\ SearchEnds(rest, v, t)
          /\ Holds(InsertTaskQueue(rest, v, t), v, (R \ {task}) \cup {t})
      BY <1>2, <3>1, <3>2, InsertHolds
    <3>5. QED
      BY <1>2, <3>3, <3>4, InsertType
  <2>3. QED
    BY <2>1, <2>2
<1>7. CASE st[current] # RUNNING
  <2>1. rq' = Refill(rest) /\ current' = task /\ (halted' <=> DivideError(rest))
    BY <1>3, <1>7 DEF Schedule, task, rest
  <2>2. Ready(st, current') = R \ {task}
    BY <1>7, <2>1 DEF Ready, R
  <2>3. halted' = FALSE /\ Holds(rq', v, Ready(st, current'))
    <3>1. R \ {task} \in SUBSET Task
      BY <1>1
    <3>2. ~DivideError(rest) /\ Holds(Refill(rest), v, R \ {task})
      BY <1>2, <1>5, <3>1
    <3>3. halted' \in BOOLEAN
      BY <1>3 DEF Schedule, task
    <3>4. QED
      BY <2>1, <2>2, <3>2, <3>3
  <2>4. current # Idle => current' # current
    BY <1>1, <1>2, <2>1
  <2>5. QED
    BY <1>3, <1>4, <2>1, <2>2, <2>3, <2>4
<1>8. CASE st[current] = RUNNING /\ v[current] >= v[task]
  <2> DEFINE full == InsertTaskQueue(rest, v, current)
  <2>1. /\ SearchEnds(rest, v, current) /\ full \in RunQueues
        /\ Holds(full, v, (R \ {task}) \cup ({current} \ {Idle}))
    BY <1>1, <1>6
  <2>2. (CHOOSE t \in {current} : TRUE) = current
    OBVIOUS
  <2>3. /\ rq' = Refill(full) /\ current' = task
        /\ halted' = ~(SearchEnds(rest, v, current) /\ ~DivideError(full))
    BY <1>3, <1>8, <2>2 DEF Schedule, task, rest
  <2>4. Ready(st, current') = (R \ {task}) \cup ({current} \ {Idle, task})
    BY <1>8, <2>3 DEF Ready, R
  <2>5. {current} \ {Idle, task} = {current} \ {Idle}
    BY <1>1, <1>2
  <2>6. Ready(st, current') \in SUBSET Task
    BY DEF Ready
  <2> HIDE DEF full
  <2>7. halted' = FALSE /\ Holds(rq', v, Ready(st, current'))
    <3>1. ~DivideError(full) /\ Holds(Refill(full), v, Ready(st, current'))
      BY <1>5, <2>1, <2>4, <2>5, <2>6
    <3>2. QED
      BY <2>1, <2>3, <3>1
  <2>8. \A t \in Ready(st, current') : v[task] <= v[t]
    BY <1>1, <1>3, <1>4, <1>8, <2>4
  <2>9. QED
    BY <1>3, <2>3, <2>7, <2>8
<1>9. CASE st[current] = RUNNING /\ ~(v[current] >= v[task])
  <2> DEFINE full == InsertTaskQueue(rest, v, task)
  <2>1. /\ SearchEnds(rest, v, task) /\ full \in RunQueues
        /\ Holds(full, v, (R \ {task}) \cup ({task} \ {Idle}))
    BY <1>3, <1>6
  <2>2. (CHOOSE t \in {task} : TRUE) = task
    OBVIOUS
  <2>3. /\ rq' = Refill(full) /\ current' = current
        /\ halted' = ~(SearchEnds(rest, v, task) /\ ~DivideError(full))
    BY <1>3, <1>9, <2>2 DEF Schedule, task, rest
  <2>4. (R \ {task}) \cup ({task} \ {Idle}) = R
    BY <1>1, <1>2
  <2> HIDE DEF full
  <2>5. ~DivideError(full) /\ Holds(Refill(full), v, R)
    BY <1>1, <1>5, <2>1, <2>4
  <2>6. QED
    BY <1>9, <2>1, <2>3, <2>5 DEF R
<1>10. QED
  BY <1>7, <1>8, <1>9

-----------------------------------------------------------------------------
\* What the state of a kernel whose wakeups were all in time has: it goes on,
\* init_task is always ready, the CPU is on a task that exists, and the run
\* queue holds the ready tasks.
Sound == /\ ~halted
         /\ state[Idle] = RUNNING
         /\ state[current] # "unborn"
         /\ Holds(rq, vruntime, Ready(state, current))

\* A task that do_fork has copied belongs to one parent, is not ready, and no wakeup
\* of an interrupt can come for it.
Carried ==
  /\ \A t \in requests \cup waiters : state[t] # "unborn"
  /\ \A p \in Task : pc[p] = "copied" =>
       /\ state[child[p]] = UNINTERRUPTIBLE /\ child[p] # current
       /\ child[p] \notin requests \cup waiters
  /\ \A p, r \in Task :
       pc[p] = "copied" /\ pc[r] = "copied" /\ child[p] = child[r] => p = r

IInv == TypeOK /\ (~early => Sound /\ Carried)

\* When the CPU changes hands, a running task that is a least one gets it.
Least == current' # current =>
           /\ state'[current'] = RUNNING
           /\ \A t \in Ready(state', current') :
                vruntime'[current'] <= vruntime'[t]

\* The kernel starts with init_task on the CPU and an empty queue.
LEMMA InitSound == Init => IInv
<1> SUFFICES ASSUME Init PROVE IInv
  OBVIOUS
<1>1. PICK first \in Task \ {Idle} :
        /\ rq = InsertTaskQueue(BootQueue, vruntime, first)
        /\ state = [t \in Task |->
                      IF t \in {Idle, first} THEN RUNNING ELSE "unborn"]
  BY DEF Init
<1>2. BootQueue \in RunQueues /\ vruntime \in [Task -> Nat]
  BY DEF BootQueue, RunQueues, ListMemory, Init
<1>3. Holds(BootQueue, vruntime, {})
  <2>1. WellLinked(BootQueue.list, {QHead}, QHead)
    BY DEF BootQueue, Cell, WellLinked, Ring, OneCycle
  <2>2. {} \cup {QHead} = {QHead}
    OBVIOUS
  <2>3. BootQueue.count = Cardinality({}) + 1
    BY FS_EmptySet DEF BootQueue
  <2>4. QED
    BY <2>1, <2>2, <2>3 DEF Holds, Sorted
<1>4. rq \in RunQueues
  BY <1>1, <1>2, InsertType
<1>5. Holds(rq, vruntime, {first})
  <2>1. {} \in SUBSET (Task \ {Idle}) /\ first \in Task \ ({} \cup {Idle})
    OBVIOUS
  <2>2. Holds(rq, vruntime, {} \cup {first})
    BY <1>1, <1>2, <1>3, <2>1, InsertHolds
  <2>3. {} \cup {first} = {first}
    OBVIOUS
  <2>4. QED
    BY <2>2, <2>3
<1>6. Ready(state, current) = {first}
  BY <1>1 DEF Ready, Init, RUNNING
<1>7. TypeOK
  BY <1>1, <1>2, <1>4, TaskAssumption
  DEF Init, TypeOK, Places, RUNNING, UNINTERRUPTIBLE
<1>8. Sound
  BY <1>1, <1>5, <1>6, TaskAssumption DEF Init, Sound, RUNNING
<1>9. Carried
  BY DEF Init, Carried
<1>10. QED
  BY <1>7, <1>8, <1>9 DEF IInv

\* ret_from_intr keeps the types, on any run queue.
LEMMA RetFromIntrType ==
  ASSUME TypeOK, NEW q \in RunQueues, NEW v \in [Task -> Nat],
         NEW st \in States, NEW nd \in [Task -> BOOLEAN],
         RetFromIntr(q, v, st, nd)
  PROVE  /\ rq' \in RunQueues /\ current' \in Task /\ halted' \in BOOLEAN
         /\ need' \in [Task -> BOOLEAN]
         /\ state' \in States /\ vruntime' \in [Task -> Nat]
<1>1. CASE nd[current]
  BY <1>1, ScheduleType DEF RetFromIntr, TypeOK
<1>2. CASE ~nd[current]
  BY <1>2 DEF RetFromIntr, TypeOK
<1>3. QED
  BY <1>1, <1>2

\* ret_from_intr, on a run queue that holds the ready tasks.
LEMMA RetFromIntrHolds ==
  ASSUME NEW q \in RunQueues, NEW v \in [Task -> Nat], NEW st \in States,
         NEW nd, current \in Task, st[Idle] = RUNNING,
         st[current] # "unborn", ~halted,
         Holds(q, v, Ready(st, current)), RetFromIntr(q, v, st, nd)
  PROVE  Sound' /\ Least
<1>1. state' = st /\ vruntime' = v
  BY DEF RetFromIntr
<1>2. CASE nd[current]
  <2>1. Schedule(q, v, st, nd)
    BY <1>2 DEF RetFromIntr
  <2>2. /\ halted' = FALSE /\ current' \in Task
        /\ current' # current => st[current'] = RUNNING
        /\ Holds(rq', v, Ready(st, current'))
        /\ current' # current =>
             \A t \in Ready(st, current') : v[current'] <= v[t]
    BY <2>1, ScheduleHolds
  <2>3. st[current'] # "unborn"
    BY <2>2 DEF RUNNING
  <2>4. QED
    BY <1>1, <2>2, <2>3 DEF Sound, Least, Ready
<1>3. CASE ~nd[current]
  <2>1. rq' = q /\ current' = current /\ halted' = halted
    BY <1>3 DEF RetFromIntr
  <2>2. QED
    BY <1>1, <2>1 DEF Sound, Least, Ready
<1>4. QED
  BY <1>2, <1>3


\* The timer interrupt.
LEMMA TickSound ==
  ASSUME IInv, Tick
  PROVE  TypeOK' /\ (~early' => Sound' /\ Least)
<1> DEFINE v == [vruntime EXCEPT ![current] = @ + TickCost]
           q == [rq EXCEPT !.slice = @ - TickCost]
           nd == [need EXCEPT ![current] = @ \/ q.slice <= 0]
<1>1. TypeOK
  BY DEF IInv
<1>2. /\ q \in RunQueues /\ q.list = rq.list /\ q.count = rq.count
      /\ v \in [Task -> Nat] /\ state \in States
  BY <1>1 DEF TypeOK, RunQueues, TickCost, States
<1>3. nd \in [Task -> BOOLEAN]
  BY <1>1 DEF TypeOK
<1>4. /\ RetFromIntr(q, v, state, nd) /\ ~halted
      /\ UNCHANGED <<pc, child, requests, waiters, early>>
  BY DEF Tick
<1> HIDE DEF v, q, nd
<1>5. TypeOK'
  <2>1. /\ rq' \in RunQueues /\ current' \in Task /\ halted' \in BOOLEAN
        /\ need' \in [Task -> BOOLEAN]
        /\ state' \in States /\ vruntime' \in [Task -> Nat]
    BY <1>1, <1>2, <1>3, <1>4, RetFromIntrType
  <2>2. QED
    BY <1>1, <1>4, <2>1 DEF TypeOK, States
<1>6. ASSUME ~early' PROVE Sound' /\ Least
  <2>1. Sound
    BY <1>4, <1>6 DEF IInv
  <2>2. Holds(rq, v, Ready(state, current))
    <3>1. \A t \in Ready(state, current) : v[t] = vruntime[t]
      BY <1>1 DEF TypeOK, Ready, v
    <3>2. Ready(state, current) \in SUBSET Task
      BY DEF Ready
    <3>3. QED
      BY <2>1, <3>1, <3>2, HoldsSameVruntime DEF Sound
  <2>3. Holds(q, v, Ready(state, current))
    BY <1>2, <2>2 DEF Holds, Sorted
  <2>4. QED
    BY <1>1, <1>2, <1>4, <2>1, <2>3, RetFromIntrHolds DEF Sound, TypeOK, Least
<1>7. QED
  BY <1>5, <1>6

\* A wakeup from an interrupt: without an early one, its task is not in the
\* run queue and joins it.
LEMMA WakeSound ==
  ASSUME IInv, ~halted, NEW t \in Task, Wake(t),
         pc' = pc, child' = child, requests' \subseteq Task, waiters' \subseteq Task
  PROVE  TypeOK' /\ (~early' => Sound' /\ Least)
<1> DEFINE st == [state EXCEPT ![t] = RUNNING]
           nd == [need EXCEPT ![current] = TRUE]
           q == InsertTaskQueue(rq, vruntime, t)
<1>1. TypeOK
  BY DEF IInv
<1>2. /\ st \in States /\ state \in States /\ vruntime \in [Task -> Nat]
      /\ nd \in [Task -> BOOLEAN] /\ q \in RunQueues /\ rq \in RunQueues
  BY <1>1, InsertType DEF TypeOK, States
<1>3. /\ early' = (early \/ ~Asleep(t))
      /\ SearchEnds(rq, vruntime, t) => RetFromIntr(q, vruntime, st, nd)
      /\ ~SearchEnds(rq, vruntime, t) =>
           /\ halted' = TRUE /\ state' = st
           /\ UNCHANGED <<rq, current, vruntime, need>>
  BY DEF Wake
<1>4. st = [state EXCEPT ![t] = RUNNING]
  OBVIOUS
<1>5. q = InsertTaskQueue(rq, vruntime, t)
  OBVIOUS
<1> HIDE DEF st, nd, q
<1>6. TypeOK'
  <2>1. /\ rq' \in RunQueues /\ current' \in Task /\ halted' \in BOOLEAN
        /\ need' \in [Task -> BOOLEAN]
        /\ state' \in States /\ vruntime' \in [Task -> Nat]
    <3>1. CASE SearchEnds(rq, vruntime, t)
      BY <1>1, <1>2, <1>3, <3>1, RetFromIntrType
    <3>2. CASE ~SearchEnds(rq, vruntime, t)
      BY <1>1, <1>2, <1>3, <3>2 DEF TypeOK
    <3>3. QED
      BY <3>1, <3>2
  <2>2. early' \in BOOLEAN
    BY <1>1, <1>3 DEF TypeOK
  <2>3. QED
    BY <1>1, <2>1, <2>2 DEF TypeOK, States
<1>7. ASSUME ~early' PROVE Sound' /\ Least
  <2>1. Sound /\ Asleep(t)
    BY <1>3, <1>7 DEF IInv
  <2>2. t \in Task \ (Ready(state, current) \cup {Idle}) /\ t # current
    BY <2>1 DEF Asleep, Sound, Ready
  <2>3. Ready(state, current) \in SUBSET (Task \ {Idle})
    BY DEF Ready
  <2>4. /\ SearchEnds(rq, vruntime, t)
        /\ Holds(q, vruntime, Ready(state, current) \cup {t})
    BY <1>2, <1>5, <2>1, <2>2, <2>3, InsertHolds DEF Sound
  <2>5. Ready(st, current) = Ready(state, current) \cup {t}
    BY <1>1, <1>4, <2>2 DEF Ready, TypeOK
  <2>6. st[Idle] = RUNNING /\ st[current] # "unborn"
    BY <1>1, <1>4, <2>1, <2>2, TaskAssumption DEF Sound, TypeOK
  <2>7. RetFromIntr(q, vruntime, st, nd)
    BY <1>3, <2>4
  <2>8. QED
    BY <1>1, <1>2, <2>4, <2>5, <2>6, <2>7, RetFromIntrHolds DEF TypeOK, Least
<1>8. QED
  BY <1>6, <1>7

\* Marking the current task asleep, and the steps around it, do not touch the
\* run queue, nor which of the other tasks are ready.
LEMMA MarkSound ==
  ASSUME IInv, Submit \/ MarkForDisk \/ MarkForQueue \/ EnterQueue
  PROVE  TypeOK' /\ (~early' => Sound' /\ Least)
<1>1. TypeOK /\ ~halted /\ current # Idle
  BY DEF IInv, Submit, MarkForDisk, MarkForQueue, EnterQueue, At
<1>2. /\ UNCHANGED <<rq, current, vruntime, need, child, halted, early>>
      /\ \/ state' = state
         \/ state' = [state EXCEPT ![current] = UNINTERRUPTIBLE]
  BY DEF Submit, MarkForDisk, MarkForQueue, EnterQueue
<1>3. /\ pc' \in [Task -> Places]
      /\ requests' \subseteq Task /\ waiters' \subseteq Task
  BY <1>1 DEF TypeOK, Places, Submit, MarkForDisk, MarkForQueue, EnterQueue, GoTo
<1>4. TypeOK'
  BY <1>1, <1>2, <1>3 DEF TypeOK
<1>5. ASSUME ~early' PROVE Sound' /\ Least
  <2>1. Sound
    BY <1>2, <1>5 DEF IInv
  <2>2. Ready(state', current') = Ready(state, current)
    BY <1>1, <1>2 DEF Ready, TypeOK
  <2>3. state'[Idle] = RUNNING /\ state'[current] # "unborn"
    BY <1>1, <1>2, <2>1, TaskAssumption
    DEF Sound, TypeOK, UNINTERRUPTIBLE
  <2>4. QED
    BY <1>2, <2>1, <2>2, <2>3 DEF Sound, Least
<1>6. QED
  BY <1>4, <1>5

\* A task that goes to sleep leaves the CPU to the next one.
LEMMA BlockSound ==
  ASSUME IInv, Block
  PROVE  TypeOK' /\ (~early' => Sound' /\ Least)
<1>1. /\ TypeOK /\ Schedule(rq, vruntime, state, need) /\ ~halted
      /\ UNCHANGED <<state, vruntime, child, requests, waiters, early>>
  BY DEF IInv, Block, At
<1>2. pc' \in [Task -> Places]
  BY <1>1 DEF TypeOK, Places, Block, GoTo
<1>3. /\ rq' \in RunQueues /\ current' \in Task /\ need' \in [Task -> BOOLEAN]
      /\ halted' \in BOOLEAN
  BY <1>1, ScheduleType DEF TypeOK
<1>4. TypeOK'
  BY <1>1, <1>2, <1>3 DEF TypeOK
<1>5. ASSUME ~early' PROVE Sound' /\ Least
  <2>1. Sound
    BY <1>1, <1>5 DEF IInv
  <2>2. /\ halted' = FALSE
        /\ current' # current => state[current'] = RUNNING
        /\ Holds(rq', vruntime, Ready(state, current'))
        /\ current' # current =>
             \A t \in Ready(state, current') : vruntime[current'] <= vruntime[t]
    BY <1>1, <2>1, ScheduleHolds DEF Sound, TypeOK, States
  <2>3. state[current'] # "unborn"
    BY <2>1, <2>2 DEF Sound, RUNNING
  <2>4. QED
    BY <1>1, <2>1, <2>2, <2>3 DEF Sound, Least, Ready
<1>6. QED
  BY <1>4, <1>5

\* do_fork's copy is of a task that is neither ready nor on the CPU.
LEMMA CopySound ==
  ASSUME IInv, NEW c \in Task, CopyTask(c)
  PROVE  TypeOK' /\ (~early' => Sound' /\ Least)
<1> DEFINE v == [vruntime EXCEPT ![c] = vruntime[current]]
           q == [rq EXCEPT !.list = ListInit(rq.list, c)]
           R == Ready(state, current)
<1>1. /\ TypeOK /\ state[c] = "unborn"
      /\ vruntime' = v /\ rq' = q
      /\ state' = [state EXCEPT ![c] = UNINTERRUPTIBLE]
      /\ need' = [need EXCEPT ![c] = need[current]]
      /\ child' = [child EXCEPT ![current] = c]
      /\ pc' = [pc EXCEPT ![current] = "copied"]
      /\ UNCHANGED <<current, requests, waiters, halted, early>>
  BY DEF IInv, CopyTask, GoTo
<1>2. v \in [Task -> Nat]
  BY <1>1 DEF TypeOK
<1>3. q \in RunQueues
  <2>1. ListInit(rq.list, c) \in ListMemory(Cell)
    BY <1>1 DEF TypeOK, RunQueues, ListInit, ListMemory, Cell
  <2>2. QED
    BY <1>1, <2>1 DEF TypeOK, RunQueues
<1>4. TypeOK'
  <2>1. need' \in [Task -> BOOLEAN] /\ child' \in [Task -> Task]
    BY <1>1 DEF TypeOK
  <2>2. pc' \in [Task -> Places]
    BY <1>1 DEF TypeOK, Places
  <2> HIDE DEF v, q
  <2>3. QED
    BY <1>1, <1>2, <1>3, <2>1, <2>2 DEF TypeOK
<1>5. ASSUME ~early' PROVE Sound' /\ Least
  <2>1. Sound
    BY <1>1, <1>5 DEF IInv
  <2>2. /\ c # current /\ c # Idle /\ R \in SUBSET Task /\ c \in Task \ R
    BY <1>1, <2>1 DEF Sound, Ready, RUNNING
  <2>3. Holds(rq, v, R)
    <3>1. \A t \in R : v[t] = vruntime[t]
      BY <1>1, <2>2 DEF TypeOK
    <3>2. QED
      BY <2>1, <2>2, <3>1, HoldsSameVruntime DEF Sound
  <2>4. Holds(q, v, R)
    <3>1. rq \in RunQueues
      BY <1>1 DEF TypeOK
    <3>2. QED
      BY <2>2, <2>3, <3>1, HoldsListInit
  <2> HIDE DEF q, v, R
  <2>5. Ready(state', current') = R
    BY <1>1, <2>2 DEF Ready, TypeOK, R, RUNNING, UNINTERRUPTIBLE
  <2>6. state'[Idle] = RUNNING /\ state'[current'] # "unborn"
    BY <1>1, <2>1, <2>2 DEF Sound, TypeOK, RUNNING
  <2>7. QED
    BY <1>1, <2>1, <2>4, <2>5, <2>6 DEF Sound, Least
<1>6. QED
  BY <1>4, <1>5

\* do_fork queues a child that was not there.
LEMMA ForkStepSound ==
  ASSUME IInv, Fork
  PROVE  TypeOK' /\ (~early' => Sound' /\ Least)
<1> DEFINE c == child[current]
           R == Ready(state, current)
<1>1. /\ TypeOK /\ pc[current] = "copied" /\ c \in Task
      /\ state' = [state EXCEPT ![c] = RUNNING]
      /\ need' = [need EXCEPT ![current] = TRUE]
      /\ rq' = InsertTaskQueue(rq, vruntime, c)
      /\ halted' = ~SearchEnds(rq, vruntime, c)
      /\ child' = [child EXCEPT ![current] = current]
      /\ pc' = [pc EXCEPT ![current] = "run"]
      /\ UNCHANGED <<current, vruntime, requests, waiters, early>>
  BY DEF IInv, Fork, At, GoTo, TypeOK
<1>2. TypeOK'
  <2>1. rq' \in RunQueues
    BY <1>1, InsertType DEF TypeOK
  <2>2. /\ need' \in [Task -> BOOLEAN] /\ halted' \in BOOLEAN
        /\ child' \in [Task -> Task]
    BY <1>1 DEF TypeOK
  <2>3. pc' \in [Task -> Places]
    BY <1>1 DEF TypeOK, Places
  <2> HIDE DEF c
  <2>4. QED
    BY <1>1, <2>1, <2>2, <2>3 DEF TypeOK
<1>3. ASSUME ~early' PROVE Sound' /\ Least
  <2>1. Sound /\ Carried
    BY <1>1, <1>3 DEF IInv
  <2>2. state[c] = UNINTERRUPTIBLE /\ c # current
    BY <1>1, <2>1 DEF Carried, TypeOK
  <2> HIDE DEF c
  <2>3. /\ c \in Task \ (R \cup {Idle}) /\ R \in SUBSET (Task \ {Idle})
    BY <1>1, <2>1, <2>2 DEF Sound, Ready, RUNNING, UNINTERRUPTIBLE
  <2>4. SearchEnds(rq, vruntime, c) /\ Holds(rq', vruntime, R \cup {c})
    BY <1>1, <2>1, <2>3, InsertHolds DEF Sound, TypeOK
  <2> HIDE DEF R
  <2>5. Ready(state', current') = R \cup {c}
    BY <1>1, <2>2, <2>3 DEF Ready, TypeOK, R
  <2>6. state'[Idle] = RUNNING /\ state'[current'] # "unborn"
    BY <1>1, <2>1, <2>2, <2>3 DEF Sound, TypeOK, RUNNING
  <2>7. halted' = FALSE /\ current' = current
    BY <1>1, <2>4
  <2>8. QED
    BY <1>1, <2>4, <2>5, <2>6, <2>7 DEF Sound, Least
<1>4. QED
  BY <1>2, <1>3

\* Every step.
LEMMA NextSound ==
  ASSUME IInv, Next
  PROVE  TypeOK' /\ (~early' => Sound' /\ Least)
<1>1. CASE Tick
  BY <1>1, TickSound
<1>2. ASSUME NEW t \in Task, DiskDone(t)
      PROVE  TypeOK' /\ (~early' => Sound' /\ Least)
  <2>1. /\ ~halted /\ Wake(t) /\ pc' = pc /\ child' = child
        /\ requests' \subseteq Task /\ waiters' \subseteq Task
    BY <1>2 DEF DiskDone, IInv, TypeOK
  <2>2. QED
    BY <2>1, WakeSound
<1>3. ASSUME NEW t \in Task, KeyDone(t)
      PROVE  TypeOK' /\ (~early' => Sound' /\ Least)
  <2>1. /\ ~halted /\ Wake(t) /\ pc' = pc /\ child' = child
        /\ requests' \subseteq Task /\ waiters' \subseteq Task
    BY <1>3 DEF KeyDone, IInv, TypeOK
  <2>2. QED
    BY <2>1, WakeSound
<1>4. CASE Submit \/ MarkForDisk \/ MarkForQueue \/ EnterQueue
  BY <1>4, MarkSound
<1>5. CASE Block
  BY <1>5, BlockSound
<1>6. ASSUME NEW c \in Task, CopyTask(c)
      PROVE  TypeOK' /\ (~early' => Sound' /\ Least)
  BY <1>6, CopySound
<1>7. CASE Fork
  BY <1>7, ForkStepSound
<1>8. QED
  BY <1>1, <1>2, <1>3, <1>4, <1>5, <1>6, <1>7 DEF Next, Interrupt, TaskStep

\* Nobody touches a task that do_fork has copied before its parent makes it ready.
LEMMA NextCarried ==
  ASSUME IInv, Next, ~early', Least
  PROVE  Carried'
<1>1. ~early
  BY DEF Next, Interrupt, TaskStep, Tick, DiskDone, KeyDone, Wake, Submit, MarkForDisk,
         MarkForQueue, EnterQueue, Block, CopyTask, Fork
<1>2. TypeOK /\ Sound /\ Carried
  BY <1>1 DEF IInv
<1>3. ASSUME child' = child, \A t \in Task : pc'[t] = "copied" => pc[t] = "copied",
             requests' \cup waiters' \subseteq requests \cup waiters \cup {current},
             \A t \in Task : \/ state'[t] = state[t]
                             \/ /\ t \in requests \cup waiters \cup {current}
                                /\ state'[t] # "unborn"
      PROVE  Carried'
  <2>1. \A t \in requests' \cup waiters' : state'[t] # "unborn"
    BY <1>2, <1>3 DEF Sound, Carried, TypeOK
  <2>2. ASSUME NEW p \in Task, pc'[p] = "copied"
        PROVE  /\ state'[child'[p]] = UNINTERRUPTIBLE /\ child'[p] # current'
               /\ child'[p] \notin requests' \cup waiters'
    <3>1. PICK c \in Task : c = child[p]
      BY <1>2 DEF TypeOK
    <3>2. /\ state[c] = UNINTERRUPTIBLE /\ c # current /\ c \notin requests \cup waiters
      BY <1>2, <1>3, <2>2, <3>1 DEF Carried
    <3>3. state'[c] = UNINTERRUPTIBLE /\ c \notin requests' \cup waiters'
      BY <1>3, <3>2
    <3>4. c # current'
      BY <3>2, <3>3 DEF Least, RUNNING, UNINTERRUPTIBLE
    <3>5. QED
      BY <1>3, <3>1, <3>3, <3>4
  <2>3. \A p, r \in Task :
          pc'[p] = "copied" /\ pc'[r] = "copied" /\ child'[p] = child'[r] => p = r
    BY <1>2, <1>3 DEF Carried
  <2>4. QED
    BY <2>1, <2>2, <2>3 DEF Carried
<1>4. CASE Tick
  <2>1. UNCHANGED <<state, pc, child, requests, waiters>>
    BY <1>4 DEF Tick, RetFromIntr
  <2>2. QED
    BY <1>3, <2>1
<1>5. ASSUME NEW t \in Task, DiskDone(t) \/ KeyDone(t)
      PROVE  Carried'
  <2>1. /\ pc' = pc /\ child' = child /\ t \in requests \cup waiters
        /\ requests' \subseteq requests /\ waiters' \subseteq waiters
        /\ state' = [state EXCEPT ![t] = RUNNING]
    BY <1>5 DEF DiskDone, KeyDone, Wake, RetFromIntr
  <2>2. \A u \in Task : state'[u] = state[u] \/ (u = t /\ state'[u] # "unborn")
    BY <1>2, <2>1 DEF TypeOK, RUNNING
  <2>3. QED
    BY <1>3, <2>1, <2>2
<1>6. CASE Submit \/ MarkForDisk \/ MarkForQueue \/ EnterQueue
  <2>1. /\ child' = child
        /\ requests' \cup waiters' \subseteq requests \cup waiters \cup {current}
        /\ state' = state \/ state' = [state EXCEPT ![current] = UNINTERRUPTIBLE]
    BY <1>6 DEF Submit, MarkForDisk, MarkForQueue, EnterQueue
  <2>2. \A t \in Task : pc'[t] = "copied" => pc[t] = "copied"
    BY <1>2, <1>6 DEF TypeOK, Submit, MarkForDisk, MarkForQueue, EnterQueue, GoTo
  <2>3. \A t \in Task : state'[t] = state[t] \/ (t = current /\ state'[t] # "unborn")
    BY <1>2, <2>1 DEF TypeOK, UNINTERRUPTIBLE
  <2>4. QED
    BY <1>3, <2>1, <2>2, <2>3
<1>7. CASE Block
  <2>1. UNCHANGED <<state, child, requests, waiters>>
    BY <1>7 DEF Block
  <2>2. \A t \in Task : pc'[t] = "copied" => pc[t] = "copied"
    BY <1>2, <1>7 DEF TypeOK, Block, GoTo
  <2>3. QED
    BY <1>3, <2>1, <2>2
<1>8. ASSUME NEW c \in Task, CopyTask(c)
      PROVE  Carried'
  <2>1. /\ state[c] = "unborn" /\ c # current /\ pc[current] = "run"
        /\ state' = [state EXCEPT ![c] = UNINTERRUPTIBLE]
        /\ child' = [child EXCEPT ![current] = c]
        /\ pc' = [pc EXCEPT ![current] = "copied"]
        /\ UNCHANGED <<current, requests, waiters>>
    BY <1>2, <1>8 DEF CopyTask, At, GoTo, Sound
  <2>2. c \notin requests \cup waiters
    BY <1>2, <2>1 DEF Carried
  <2>3. \A t \in Task : t # c => state'[t] = state[t]
    BY <1>2, <2>1 DEF TypeOK
  <2>4. state'[c] = UNINTERRUPTIBLE /\ child'[current] = c /\ current \in Task
    BY <1>2, <2>1 DEF TypeOK
  <2>5. \A t \in requests' \cup waiters' : state'[t] # "unborn"
    BY <1>2, <2>1, <2>3, <2>4 DEF Carried, TypeOK, UNINTERRUPTIBLE
  <2>6. \A p \in Task : p # current =>
          child'[p] = child[p] /\ child[p] \in Task /\ pc'[p] = pc[p]
    BY <1>2, <2>1 DEF TypeOK
  <2>7. \A p \in Task : p # current /\ pc[p] = "copied" => child[p] # c
    BY <1>2, <2>1 DEF Carried, UNINTERRUPTIBLE
  <2>8. ASSUME NEW p \in Task, pc'[p] = "copied"
        PROVE  /\ state'[child'[p]] = UNINTERRUPTIBLE /\ child'[p] # current'
               /\ child'[p] \notin requests' \cup waiters'
    <3>1. CASE p = current
      BY <2>1, <2>2, <2>4, <3>1
    <3>2. CASE p # current
      BY <1>2, <2>1, <2>3, <2>6, <2>7, <2>8, <3>2 DEF Carried
    <3>3. QED
      BY <3>1, <3>2
  <2>9. \A p, r \in Task :
          pc'[p] = "copied" /\ pc'[r] = "copied" /\ child'[p] = child'[r] => p = r
    BY <1>2, <2>4, <2>6, <2>7 DEF Carried
  <2>10. QED
    BY <2>5, <2>8, <2>9 DEF Carried
<1>9. CASE Fork
  <2>1. PICK c \in Task : c = child[current]
    BY <1>2 DEF TypeOK
  <2>2. /\ pc[current] = "copied"
        /\ state' = [state EXCEPT ![c] = RUNNING]
        /\ child' = [child EXCEPT ![current] = current]
        /\ pc' = [pc EXCEPT ![current] = "run"]
        /\ UNCHANGED <<current, requests, waiters>>
    BY <1>9, <2>1 DEF Fork, At, GoTo
  <2>3. current \in Task /\ pc'[current] # "copied"
    BY <1>2, <2>2 DEF TypeOK
  <2>4. \A p \in Task : p # current => child'[p] = child[p] /\ pc'[p] = pc[p]
    BY <1>2, <2>2 DEF TypeOK
  <2>5. \A p \in Task : p # current /\ pc[p] = "copied" => child[p] # c
    BY <1>2, <2>1, <2>2, <2>3 DEF Carried
  <2>6. \A t \in Task : t # c => state'[t] = state[t]
    BY <1>2, <2>2 DEF TypeOK
  <2>7. state'[c] # "unborn"
    BY <1>2, <2>2 DEF TypeOK, RUNNING
  <2>8. \A t \in requests' \cup waiters' : state'[t] # "unborn"
    BY <1>2, <2>2, <2>6, <2>7 DEF Carried, TypeOK
  <2>9. ASSUME NEW p \in Task, pc'[p] = "copied"
        PROVE  /\ state'[child'[p]] = UNINTERRUPTIBLE /\ child'[p] # current'
               /\ child'[p] \notin requests' \cup waiters'
    <3>1. p # current /\ child'[p] = child[p] /\ pc[p] = "copied" /\ child[p] \in Task
      BY <1>2, <2>3, <2>4, <2>9 DEF TypeOK
    <3>2. QED
      BY <1>2, <2>2, <2>5, <2>6, <3>1 DEF Carried
  <2>10. \A p, r \in Task :
          pc'[p] = "copied" /\ pc'[r] = "copied" /\ child'[p] = child'[r] => p = r
    BY <1>2, <2>3, <2>4 DEF Carried
  <2>11. QED
    BY <2>8, <2>9, <2>10 DEF Carried
<1>10. QED
  BY <1>4, <1>5, <1>6, <1>7, <1>8, <1>9 DEF Next, Interrupt, TaskStep

\* A stutter changes nothing.
LEMMA StutterSound ==
  ASSUME IInv, UNCHANGED vars
  PROVE  IInv' /\ Least
<1>1. TypeOK'
  BY DEF IInv, TypeOK, vars
<1>2. (~early' => Sound' /\ Carried') /\ Least
  BY DEF IInv, Sound, Carried, Ready, Least, vars
<1>3. QED
  BY <1>1, <1>2 DEF IInv

\* The invariant of the run queue holds in every reachable state.
LEMMA Inductive == Spec => []IInv
<1>1. IInv /\ [Next]_vars => IInv'
  BY NextSound, NextCarried, StutterSound DEF IInv
<1>2. QED
  BY InitSound, <1>1, PTL DEF Spec

-----------------------------------------------------------------------------
\* The scheduler's variables keep their types, whatever the wakeups do.
THEOREM TypeCorrect == Spec => []TypeOK
<1>1. IInv => TypeOK
  BY DEF IInv
<1>2. QED
  BY Inductive, <1>1, PTL

\* However many tasks there are and in whatever order ticks, sleeps, wakeups
\* and forks come: until the first early wakeup the linked list of
\* schedule.c holds each ready task once and nothing else, sorted, and the
\* count agrees with it.
THEOREM RunQueueSafe == Spec => []RunQueueIntact
<1>1. IInv => RunQueueIntact
  <2>1. Queued = Ready(state, current)
    BY DEF Queued, Ready
  <2>2. QED
    BY <2>1 DEF IInv, Sound, RunQueueIntact
<1>2. QED
  BY Inductive, <1>1, PTL

\* Until then no insertion search runs for ever and no slice is divided by a
\* count of zero.
THEOREM KernelGoesOn == Spec => []NeverHalts
<1>1. IInv => NeverHalts
  BY DEF IInv, Sound, NeverHalts
<1>2. QED
  BY Inductive, <1>1, PTL

\* Until then the CPU is only ever handed to a task with the least vruntime of
\* all ready ones.
THEOREM LeastRuns == Spec => LeastVruntimeRuns
<1>1. IInv /\ [Next]_vars =>
        [current' # current /\ ~early' =>
           \A t \in Queued' : vruntime'[current'] <= vruntime'[t]]_vars
  <2> SUFFICES ASSUME IInv, Next, current' # current, ~early'
               PROVE  \A t \in Queued' : vruntime'[current'] <= vruntime'[t]
    OBVIOUS
  <2>1. Least
    BY NextSound
  <2>2. Queued' = Ready(state', current')
    BY DEF Queued, Ready
  <2>3. QED
    BY <2>1, <2>2 DEF Least
<1>2. QED
  BY Inductive, <1>1, PTL DEF Spec, LeastVruntimeRuns

\* schedule() leaves a slice that is not used up as it is.
LEMMA ScheduleSlice ==
  ASSUME NEW q, NEW v, NEW st, NEW nd, Schedule(q, v, st, nd), q.slice # 0
  PROVE  rq'.slice = q.slice
<1> PICK rest : rest = Dequeue(q)
  OBVIOUS
<1>1. \A r, w, t : InsertTaskQueue(r, w, t).slice = r.slice
  BY DEF InsertTaskQueue
<1>2. rest.slice = q.slice
  BY DEF Dequeue
<1>3. PICK full : /\ rq' = q \/ rq' = Refill(full)
                  /\ full = rest \/ \E t : full = InsertTaskQueue(rest, v, t)
  BY DEF Schedule
<1>4. full.slice = q.slice
  BY <1>1, <1>2, <1>3
<1> QED
  BY <1>3, <1>4 DEF Refill

\* A slice that two units a tick take past zero is the last that is given, whatever
\* else goes on (schedule.c:27).
THEOREM OddSliceLasts == Spec => OddSliceIsTheLast
<1>1. IInv /\ [Next]_vars =>
        [rq.slice < 0 \/ rq.slice % 2 = 1 => rq'.slice <= rq.slice]_vars
  <2> SUFFICES ASSUME IInv, Next, rq.slice < 0 \/ rq.slice % 2 = 1
               PROVE  rq'.slice <= rq.slice
    OBVIOUS
  <2>1. TypeOK /\ rq.slice \in Int /\ rq.slice # 0 /\ rq.slice - 2 # 0
    <3>1. TypeOK /\ rq.slice \in Int
      BY DEF IInv, TypeOK, RunQueues
    <3> QED
      BY <3>1
  <2>2. \A r, w, t : InsertTaskQueue(r, w, t).slice = r.slice
    BY DEF InsertTaskQueue
  <2>3. ASSUME NEW q, NEW v, NEW st, NEW nd, RetFromIntr(q, v, st, nd), q.slice # 0
        PROVE  rq'.slice = q.slice
    BY <2>3, ScheduleSlice DEF RetFromIntr
  <2>4. CASE Tick
    <3> PICK q : q = [rq EXCEPT !.slice = @ - TickCost]
      OBVIOUS
    <3>1. q.slice = rq.slice - 2
      BY <2>1 DEF TickCost, TypeOK, RunQueues
    <3>2. PICK v, nd : RetFromIntr(q, v, state, nd)
      BY <2>4 DEF Tick
    <3>3. q.slice # 0
      BY <2>1, <3>1
    <3>4. rq'.slice = q.slice
      BY <2>3, <3>2, <3>3
    <3> QED
      BY <2>1, <3>1, <3>4
  <2>5. ASSUME NEW t \in Task, Wake(t)
        PROVE  rq'.slice <= rq.slice
    <3>1. CASE SearchEnds(rq, vruntime, t)
      <4>1. \E st, nd : RetFromIntr(InsertTaskQueue(rq, vruntime, t), vruntime, st, nd)
        BY <2>5, <3>1 DEF Wake
      <4> QED
        BY <2>1, <2>2, <2>3, <4>1
    <3>2. CASE ~SearchEnds(rq, vruntime, t)
      BY <2>1, <2>5, <3>2 DEF Wake
    <3> QED
      BY <3>1, <3>2
  <2>6. CASE Submit \/ MarkForDisk \/ MarkForQueue \/ EnterQueue
    BY <2>1, <2>6 DEF Submit, MarkForDisk, MarkForQueue, EnterQueue
  <2>7. CASE Block
    BY <2>1, <2>7, ScheduleSlice DEF Block
  <2>8. ASSUME NEW t \in Task, CopyTask(t)
        PROVE  rq'.slice <= rq.slice
    <3>1. rq' = [rq EXCEPT !.list = ListInit(rq.list, t)]
      BY <2>8 DEF CopyTask
    <3>2. rq'.slice = rq.slice
      BY <2>1, <3>1 DEF TypeOK, RunQueues
    <3> QED
      BY <2>1, <3>2
  <2>9. CASE Fork
    <3>1. rq' = InsertTaskQueue(rq, vruntime, child[current])
      BY <2>9 DEF Fork
    <3> QED
      BY <2>1, <2>2, <3>1
  <2> QED
    BY <2>4, <2>5, <2>6, <2>7, <2>8, <2>9 DEF Next, Interrupt, TaskStep, DiskDone, KeyDone
<1>2. QED
  BY Inductive, <1>1, PTL DEF Spec, OddSliceIsTheLast

-----------------------------------------------------------------------------
\* How a task's place in the kernel, its state and the wakeups that can still
\* come for it go together while no wakeup has been early.
InStep(t) ==
  /\ t \in requests =>
       /\ t \notin waiters
       /\ state[t] # "unborn"
       /\ \/ pc[t] = "submitted"
          \/ pc[t] \in {"marked", "run"} /\ state[t] = UNINTERRUPTIBLE
       /\ pc[t] = "run" => Asleep(t)
  /\ t \in waiters =>
       /\ state[t] = UNINTERRUPTIBLE
       /\ pc[t] \in {"listed", "run"}
       /\ pc[t] = "run" => Asleep(t)
  /\ pc[t] = "submitted" => t \in requests /\ state[t] = RUNNING
  /\ pc[t] = "unlisted" =>
       state[t] = UNINTERRUPTIBLE /\ t \notin requests \cup waiters
  /\ state[t] = UNINTERRUPTIBLE =>
       t \in requests \cup waiters \cup Children \/ pc[t] = "unlisted"
  /\ state[t] = "unborn" \/ t \in Children => pc[t] = "run"

SleepInv == ~early => \A t \in Task : InStep(t)

\* No task sleeps at the start.
LEMMA InitInStep == Init => SleepInv
  BY DEF Init, SleepInv, InStep, Children, Asleep, RUNNING, UNINTERRUPTIBLE

\* The tasks that are being made change with do_fork only.
LEMMA SameChildren ==
  ASSUME TypeOK, child' = child,
         \A t \in Task : pc'[t] = pc[t] \/ (pc[t] # "copied" /\ pc'[t] # "copied")
  PROVE  Children' = Children
  BY DEF Children

\* A task that runs outside the places where it sleeps is due for no wakeup.
LEMMA RunsAwake ==
  ASSUME NEW u \in Task, InStep(u), pc[u] = "run", ~Asleep(u), u \notin Children
  PROVE  u \notin requests /\ u \notin waiters /\ state[u] # UNINTERRUPTIBLE
<1>1. u \notin requests
  BY DEF InStep
<1>2. u \notin waiters
  BY DEF InStep
<1> QED
  BY <1>1, <1>2 DEF InStep

\* A wakeup in time takes its task out of the one set it was in.
LEMMA WakeInStep ==
  ASSUME IInv, SleepInv, NEW t \in Task, DiskDone(t) \/ KeyDone(t), ~early',
         Least
  PROVE  SleepInv'
<1>1. /\ TypeOK /\ ~early /\ Asleep(t) /\ pc' = pc /\ child' = child
      /\ state' = [state EXCEPT ![t] = RUNNING]
      /\ \/ t \in requests /\ requests' = requests \ {t} /\ waiters' = waiters
         \/ t \in waiters /\ waiters' = waiters \ {t} /\ requests' = requests
  BY DEF IInv, DiskDone, KeyDone, Wake, RetFromIntr
<1>2. ASSUME NEW u \in Task PROVE InStep(u)'
  <2>1. InStep(u) /\ InStep(t)
    BY <1>1 DEF SleepInv
  <2>2. CASE u = t
    <3>1. /\ state'[u] = RUNNING /\ u \notin requests' /\ u \notin waiters'
          /\ pc'[u] \notin {"submitted", "unlisted"}
      BY <1>1, <2>1, <2>2 DEF InStep, TypeOK, Asleep
    <3>2. u \in Children' => pc'[u] = "run"
      BY <1>1, <2>1 DEF Children, InStep
    <3>3. QED
      BY <3>1, <3>2 DEF InStep, RUNNING, UNINTERRUPTIBLE
  <2>3. CASE u # t
    <3>1. /\ state'[u] = state[u] /\ pc'[u] = pc[u]
          /\ u \in requests' <=> u \in requests
          /\ u \in waiters' <=> u \in waiters
          /\ u \in Children' <=> u \in Children
      BY <1>1, <2>3 DEF TypeOK, Children
    <3>2. Asleep(u) => Asleep(u)'
      BY <3>1 DEF Asleep, Least
    <3>3. QED
      BY <2>1, <3>1, <3>2 DEF InStep
  <2>4. QED
    BY <2>2, <2>3
<1>3. QED
  BY <1>2 DEF SleepInv

\* A task that gives up the CPU in disk_transfer or sleep_on leaves it asleep,
\* unless its wakeup has come since it lost the CPU there.
LEMMA BlockInStep ==
  ASSUME IInv, SleepInv, Block, ~early', Least
  PROVE  SleepInv'
<1>1. /\ TypeOK /\ Sound /\ ~early /\ current # Idle
      /\ pc[current] \in {"marked", "listed"}
      /\ Schedule(rq, vruntime, state, need)
      /\ pc' = [pc EXCEPT ![current] = "run"]
      /\ UNCHANGED <<state, child, requests, waiters>>
  BY DEF IInv, Block, At, GoTo
<1>2. Children' = Children
  <2>1. \A t \in Task : pc'[t] = pc[t] \/ (pc[t] # "copied" /\ pc'[t] # "copied")
    BY <1>1 DEF TypeOK
  <2>2. QED
    BY <1>1, <2>1, SameChildren
<1>3. state[current] # RUNNING => current' # current
  BY <1>1, ScheduleHolds DEF Sound, TypeOK, States
<1>4. ASSUME NEW u \in Task PROVE InStep(u)'
  <2>1. InStep(u)
    BY <1>1 DEF SleepInv
  <2>2. CASE u = current
    <3>1. pc'[u] = "run" /\ pc[u] \in {"marked", "listed"}
      BY <1>1, <2>2 DEF TypeOK
    <3>2. state[u] # RUNNING => Asleep(u)'
      BY <1>1, <1>3, <2>2 DEF Asleep
    <3>3. QED
      BY <1>1, <1>2, <2>1, <3>1, <3>2 DEF InStep, RUNNING, UNINTERRUPTIBLE
  <2>3. CASE u # current
    <3>1. pc'[u] = pc[u]
      BY <1>1, <2>3 DEF TypeOK
    <3>2. Asleep(u) => Asleep(u)'
      BY <1>1 DEF Asleep, Least
    <3>3. QED
      BY <1>1, <1>2, <2>1, <3>1, <3>2 DEF InStep
  <2>4. QED
    BY <2>2, <2>3
<1>5. QED
  BY <1>4 DEF SleepInv

\* The steps of the current task between blocking calls, and the tick.
LEMMA StepInStep ==
  ASSUME IInv, SleepInv, ~early', Least,
         \/ Tick \/ Submit \/ MarkForDisk \/ MarkForQueue \/ EnterQueue
         \/ Fork \/ \E c \in Task : CopyTask(c)
  PROVE  SleepInv'
<1>1. CASE Tick
  <2>1. /\ ~early /\ TypeOK
        /\ UNCHANGED <<state, pc, child, requests, waiters>>
    BY <1>1 DEF IInv, Tick, RetFromIntr
  <2>2. \A u \in Task : Asleep(u) => Asleep(u)'
    BY <2>1 DEF Asleep, Least
  <2>3. QED
    BY <2>1, <2>2 DEF SleepInv, InStep, Children
<1>2. CASE Submit \/ MarkForDisk \/ MarkForQueue \/ EnterQueue
  <2>1. TypeOK /\ ~early /\ current' = current /\ current \in Task
    BY <1>2 DEF IInv, TypeOK, Submit, MarkForDisk, MarkForQueue, EnterQueue
  <2>2. InStep(current) /\ state[current] # "unborn"
    BY <2>1 DEF SleepInv, IInv, Sound
  <2>3. Children' = Children /\ current \notin Children
    <3>1. /\ child' = child
          /\ \A t \in Task : pc'[t] = pc[t] \/ (pc[t] # "copied" /\ pc'[t] # "copied")
      BY <1>2, <2>1 DEF TypeOK, Submit, MarkForDisk, MarkForQueue, EnterQueue, At, GoTo
    <3>2. current \notin Children
      BY <2>1 DEF IInv, Carried, Children
    <3>3. QED
      BY <2>1, <3>1, <3>2, SameChildren
  <2>4. ASSUME NEW u \in Task PROVE InStep(u)'
    <3>1. InStep(u)
      BY <2>1 DEF SleepInv
    <3>2. CASE u # current
      <4>1. /\ state'[u] = state[u] /\ pc'[u] = pc[u]
            /\ u \in requests' <=> u \in requests
            /\ u \in waiters' <=> u \in waiters
        BY <1>2, <2>1, <3>2
        DEF TypeOK, Submit, MarkForDisk, MarkForQueue, EnterQueue, GoTo
      <4>2. Asleep(u) <=> Asleep(u)'
        BY <2>1, <4>1 DEF Asleep
      <4>3. QED
        BY <2>3, <3>1, <4>1, <4>2 DEF InStep
    <3>3. CASE u = current
      <4>1. ~Asleep(u)
        BY <3>3 DEF Asleep
      <4>2. CASE Submit
        <5>1. /\ u \notin requests /\ u \notin waiters
              /\ state[u] = RUNNING
          <6>1. pc[u] = "run" /\ u \notin Children /\ state[u] # "unborn"
            BY <2>2, <2>3, <3>3, <4>2 DEF Submit, At
          <6>2. u \notin requests /\ u \notin waiters /\ state[u] # UNINTERRUPTIBLE
            BY <3>1, <4>1, <6>1, RunsAwake
          <6> QED
            BY <2>1, <6>1, <6>2 DEF TypeOK
        <5>2. /\ pc'[u] = "submitted" /\ state'[u] = state[u]
              /\ u \in requests' /\ waiters' = waiters
          BY <2>1, <3>3, <4>2 DEF Submit, GoTo, TypeOK
        <5>3. QED
          BY <2>2, <2>3, <3>3, <5>1, <5>2 DEF InStep, RUNNING, UNINTERRUPTIBLE
      <4>3. CASE MarkForDisk
        <5>1. u \in requests /\ u \notin waiters
          BY <2>2, <3>3, <4>3 DEF InStep, MarkForDisk, At
        <5>2. /\ pc'[u] = "marked" /\ state'[u] = UNINTERRUPTIBLE
              /\ requests' = requests /\ waiters' = waiters
          BY <2>1, <3>3, <4>3 DEF MarkForDisk, GoTo, TypeOK
        <5>3. QED
          BY <2>2, <2>3, <3>3, <5>1, <5>2 DEF InStep, RUNNING, UNINTERRUPTIBLE
      <4>4. CASE MarkForQueue
        <5>1. u \notin requests /\ u \notin waiters
          BY <2>2, <3>3, <4>1, <4>4 DEF InStep, MarkForQueue, At
        <5>2. /\ pc'[u] = "unlisted" /\ state'[u] = UNINTERRUPTIBLE
              /\ requests' = requests /\ waiters' = waiters
          BY <2>1, <3>3, <4>4 DEF MarkForQueue, GoTo, TypeOK
        <5>3. QED
          BY <2>2, <2>3, <3>3, <5>1, <5>2 DEF InStep, RUNNING, UNINTERRUPTIBLE
      <4>5. CASE EnterQueue
        <5>1. state[u] = UNINTERRUPTIBLE /\ u \notin requests
          BY <2>2, <3>3, <4>5 DEF InStep, EnterQueue, At
        <5>2. /\ pc'[u] = "listed" /\ state'[u] = state[u]
              /\ requests' = requests /\ u \in waiters'
          BY <2>1, <3>3, <4>5 DEF EnterQueue, GoTo, TypeOK
        <5>3. QED
          BY <2>2, <2>3, <3>3, <5>1, <5>2 DEF InStep, RUNNING, UNINTERRUPTIBLE
      <4>6. QED
        BY <1>2, <4>2, <4>3, <4>4, <4>5
    <3>4. QED
      BY <3>2, <3>3
  <2>5. QED
    BY <2>4 DEF SleepInv
<1>3. ASSUME NEW c \in Task, CopyTask(c) PROVE SleepInv'
  <2>1. /\ TypeOK /\ ~early /\ Carried /\ state[c] = "unborn" /\ pc[current] = "run"
        /\ state' = [state EXCEPT ![c] = UNINTERRUPTIBLE]
        /\ child' = [child EXCEPT ![current] = c]
        /\ pc' = [pc EXCEPT ![current] = "copied"]
        /\ current \in Task /\ c # current
        /\ UNCHANGED <<current, requests, waiters>>
    BY <1>3 DEF IInv, Sound, TypeOK, CopyTask, At, GoTo
  <2>2. Children' = Children \cup {c}
    <3>1. \A t \in Task : t # current => child'[t] = child[t] /\ pc'[t] = pc[t]
      BY <2>1 DEF TypeOK
    <3>2. child'[current] = c /\ pc'[current] = "copied" /\ pc[current] # "copied"
      BY <2>1 DEF TypeOK
    <3>3. \A x : x \in Children' <=> \E t \in Task : pc'[t] = "copied" /\ x = child'[t]
      BY DEF Children
    <3>4. \A x : x \in Children <=> \E t \in Task : pc[t] = "copied" /\ x = child[t]
      BY DEF Children
    <3>5. \A x : x \in Children' <=> x \in Children \cup {c}
      BY <2>1, <3>1, <3>2, <3>3, <3>4
    <3>6. QED
      BY <3>5
  <2>3. ASSUME NEW u \in Task PROVE InStep(u)'
    <3>1. InStep(u)
      BY <2>1 DEF SleepInv
    <3>2. CASE u = c
      <4>1. /\ u \notin requests' /\ u \notin waiters' /\ pc'[u] = "run"
            /\ u \in Children'
        BY <2>1, <2>2, <3>1, <3>2 DEF InStep, TypeOK, UNINTERRUPTIBLE
      <4>2. QED
        BY <4>1 DEF InStep
    <3>3. CASE u # c /\ u # current
      <4>1. state'[u] = state[u] /\ pc'[u] = pc[u] /\ (u \in Children' <=> u \in Children)
        BY <2>1, <2>2, <3>3 DEF TypeOK
      <4>2. QED
        BY <2>1, <3>1, <4>1 DEF InStep, Asleep
    <3>4. CASE u = current
      <4>1. /\ state'[u] = state[u] /\ pc'[u] = "copied" /\ pc[u] = "run"
            /\ u \notin Children'
        BY <2>1, <2>2, <3>4 DEF TypeOK, Carried, Children
      <4>2. /\ u \notin requests /\ u \notin waiters
            /\ state[u] # UNINTERRUPTIBLE /\ state[u] # "unborn"
        <5>1. ~Asleep(u) /\ state[u] # "unborn"
          BY <2>1, <3>4 DEF Asleep, IInv, Sound
        <5>2. u \notin Children
          BY <2>1, <3>4 DEF Carried, Children
        <5> QED
          BY <3>1, <4>1, <5>1, <5>2, RunsAwake
      <4>3. QED
        BY <2>1, <4>1, <4>2 DEF InStep
    <3>5. QED
      BY <3>2, <3>3, <3>4
  <2>4. QED
    BY <2>3 DEF SleepInv
<1>4. CASE Fork
  <2>1. PICK c \in Task : c = child[current]
    BY DEF IInv, TypeOK
  <2>2. /\ TypeOK /\ ~early /\ Carried /\ Sound /\ pc[current] = "copied"
        /\ state' = [state EXCEPT ![c] = RUNNING]
        /\ child' = [child EXCEPT ![current] = current]
        /\ pc' = [pc EXCEPT ![current] = "run"]
        /\ current \in Task /\ UNCHANGED <<current, requests, waiters>>
    BY <1>4, <2>1 DEF IInv, TypeOK, Fork, At, GoTo
  <2>3. c \in Children /\ c # current /\ c \notin requests \cup waiters
    BY <2>1, <2>2 DEF Children, Carried
  <2>4. Children' \subseteq Children /\ Children \subseteq Children' \cup {c}
    <3>1. \A t \in Task : t # current => child'[t] = child[t] /\ pc'[t] = pc[t]
      BY <2>2 DEF TypeOK
    <3>2. pc'[current] # "copied"
      BY <2>2 DEF TypeOK
    <3>3. QED
      BY <2>1, <3>1, <3>2 DEF Children
  <2>5. ASSUME NEW u \in Task PROVE InStep(u)'
    <3>1. InStep(u)
      BY <2>2 DEF SleepInv
    <3>2. CASE u = c
      <4>1. /\ u \notin requests' /\ u \notin waiters' /\ pc'[u] = "run"
            /\ state'[u] = RUNNING
        BY <2>2, <2>3, <3>1, <3>2 DEF InStep, TypeOK
      <4>2. QED
        BY <4>1 DEF InStep, RUNNING, UNINTERRUPTIBLE
    <3>3. CASE u # c /\ u # current
      <4>1. state'[u] = state[u] /\ pc'[u] = pc[u] /\ (u \in Children' <=> u \in Children)
        BY <2>2, <2>4, <3>3 DEF TypeOK
      <4>2. QED
        BY <2>2, <3>1, <4>1 DEF InStep, Asleep
    <3>4. CASE u = current
      <4>1. /\ state'[u] = state[u] /\ pc'[u] = "run" /\ pc[u] = "copied"
        BY <2>2, <2>3, <3>4 DEF TypeOK
      <4>2. /\ u \notin requests /\ u \notin waiters
            /\ state[u] # UNINTERRUPTIBLE /\ state[u] # "unborn"
        BY <2>2, <3>1, <3>4, <4>1 DEF InStep, Carried, Children
      <4>3. QED
        BY <2>2, <4>1, <4>2 DEF InStep
    <3>5. QED
      BY <3>2, <3>3, <3>4
  <2>6. QED
    BY <2>5 DEF SleepInv
<1>5. QED
  BY <1>1, <1>2, <1>3, <1>4

\* The invariant of the sleepers holds in every reachable state.
LEMMA SleepInductive == Spec => []SleepInv
<1>1. ASSUME IInv, SleepInv, Next PROVE SleepInv'
  <2>1. CASE early'
    BY <2>1 DEF SleepInv
  <2>2. CASE ~early'
    <3>1. Least
      BY <1>1, <2>2, NextSound
    <3>2. ASSUME NEW t \in Task, DiskDone(t) \/ KeyDone(t) PROVE SleepInv'
      BY <1>1, <2>2, <3>1, <3>2, WakeInStep
    <3>3. CASE Block
      BY <1>1, <2>2, <3>1, <3>3, BlockInStep
    <3>4. CASE \/ Tick \/ Submit \/ MarkForDisk \/ MarkForQueue \/ EnterQueue
               \/ Fork \/ \E c \in Task : CopyTask(c)
      BY <1>1, <2>2, <3>1, <3>4, StepInStep
    <3>5. QED
      BY <1>1, <3>2, <3>3, <3>4 DEF Next, Interrupt, TaskStep
  <2>3. QED
    BY <2>1, <2>2
<1>2. ASSUME SleepInv, UNCHANGED vars PROVE SleepInv'
  BY <1>2 DEF SleepInv, InStep, Asleep, Children, vars
<1>3. QED
  BY InitInStep, Inductive, <1>1, <1>2, PTL DEF Spec

\* Until the first early wakeup a task that is neither ready nor running can
\* be woken, unless it lost the CPU between marking and listing itself.
THEOREM SleepersCanBeWoken == Spec => []SleepersReachable
<1>1. SleepInv => SleepersReachable
  BY DEF SleepInv, InStep, SleepersReachable
<1>2. QED
  BY SleepInductive, <1>1, PTL

\* Until then disk_transfer returns to its caller only after the disk has
\* finished the request.
THEOREM TransferWaits == Spec => []DataBeforeReturn
<1>1. IInv /\ SleepInv => DataBeforeReturn
  BY DEF IInv, TypeOK, SleepInv, InStep, DataBeforeReturn
<1>2. QED
  BY SleepInductive, Inductive, <1>1, PTL

\* The run queue stays whole, sorted and counted, and the kernel goes on: the three
\* results on the queue of schedule.c in one.
THEOREM QueueStaysSafe == Spec => []QueueSafe
BY TypeCorrect, RunQueueSafe, KernelGoesOn, PTL DEF QueueSafe

\* No sleeper is out of reach of a wakeup, and none returns without its data
\* (waitqueue.c:12, disk.c:168).
THEOREM SleepersStaySafe == Spec => []SleepSafe
BY SleepersCanBeWoken, TransferWaits, PTL DEF SleepSafe

-----------------------------------------------------------------------------
\* FairScheduler.
Born == {t \in Task : state[t] # "unborn"} \ Children

\* schedule, on a run queue that holds the ready tasks, keeps the CPU where it is or
\* gives it to a least one of them.
LEMMA ScheduleDispatches ==
  ASSUME NEW q \in RunQueues, NEW v \in [Task -> Nat], NEW st \in States,
         NEW nd, current \in Task, st[Idle] = RUNNING,
         Holds(q, v, Ready(st, current)), Schedule(q, v, st, nd), state' = st
  PROVE  Fair!Dispatch(Ready(st, current), v)
<1> DEFINE R == Ready(st, current)
           task == NextTask(q)
<1>1. R \in SUBSET (Task \ {Idle}) /\ IsFiniteSet(R) /\ current \notin R
  BY TaskAssumption, FS_Subset DEF Ready
<1>2. (R = {} => task = Idle) /\ (R # {} => task \in R)
  BY <1>1, DequeueHolds
<1>3. task \in Task /\ task # QHead /\ st[task] = RUNNING
  BY <1>1, <1>2, TaskAssumption DEF Ready
<1>4. \A u \in R : v[task] <= v[u]
  BY <1>1, FirstIsLeast
<1> HIDE DEF task
<1>5. task \in Fair!Least(R, v)
  BY <1>2, <1>4 DEF Fair!Least
<1>6. Queued' = Ready(st, current')
  BY DEF Queued, Ready
<1>7. CASE ~(v[current] >= v[task] \/ st[current] # RUNNING)
  <2>1. current' = current
    BY <1>3, <1>7 DEF Schedule, task
  <2> QED
    BY <1>6, <2>1 DEF Fair!Dispatch
<1>8. CASE v[current] >= v[task] \/ st[current] # RUNNING
  <2>1. current' = task
    BY <1>3, <1>8 DEF Schedule, task
  <2>2. CASE st[current] # RUNNING
    <3>1. Queued' = R \ {task}
      BY <1>6, <2>1, <2>2 DEF Ready
    <3> QED
      BY <1>5, <2>1, <3>1 DEF Fair!Dispatch
  <2>3. CASE st[current] = RUNNING
    <3>1. Queued' = (R \cup ({current} \ {Idle})) \ {task}
      BY <1>6, <2>1, <2>3 DEF Ready
    <3>2. v[current] >= v[task]
      BY <1>8, <2>3
    <3> QED
      BY <1>5, <2>1, <3>1, <3>2 DEF Fair!Dispatch
  <2> QED
    BY <2>2, <2>3
<1> QED
  BY <1>7, <1>8

\* So does ret_from_intr, whether or not it calls schedule.
LEMMA RetFromIntrDispatches ==
  ASSUME NEW q \in RunQueues, NEW v \in [Task -> Nat], NEW st \in States,
         NEW nd, current \in Task, st[Idle] = RUNNING,
         Holds(q, v, Ready(st, current)), RetFromIntr(q, v, st, nd)
  PROVE  Fair!Dispatch(Ready(st, current), v)
<1>1. state' = st
  BY DEF RetFromIntr
<1>2. CASE nd[current]
  BY <1>1, <1>2, ScheduleDispatches DEF RetFromIntr
<1>3. CASE ~nd[current]
  <2>1. current' = current
    BY <1>3 DEF RetFromIntr
  <2>2. Queued' = Ready(st, current)
    BY <1>1, <2>1 DEF Queued, Ready
  <2> QED
    BY <2>1, <2>2 DEF Fair!Dispatch
<1> QED
  BY <1>2, <1>3

-----------------------------------------------------------------------------
\* The initial states map to FairScheduler's.
LEMMA InitMaps == Init => Fair!Init
<1> SUFFICES ASSUME Init PROVE Fair!Init
  OBVIOUS
<1>1. PICK first \in Task \ {Idle} :
        state = [t \in Task |-> IF t \in {Idle, first} THEN RUNNING ELSE "unborn"]
  BY DEF Init
<1>2. Queued = {first}
  BY <1>1 DEF Queued, Init, RUNNING
<1>3. {t \in Task : state[t] # "unborn"} = {Idle, first}
  BY <1>1, TaskAssumption DEF RUNNING
<1>4. Children = {}
  BY DEF Children, Init
<1> QED
  BY <1>2, <1>3, <1>4 DEF Fair!Init, Init

\* A tick charges the current task and may give the CPU away.
LEMMA TickMaps ==
  ASSUME IInv, Tick, ~early'
  PROVE  Fair!Charge
<1> DEFINE v == [vruntime EXCEPT ![current] = @ + TickCost]
           q == [rq EXCEPT !.slice = @ - TickCost]
           nd == [need EXCEPT ![current] = @ \/ q.slice <= 0]
<1>1. TypeOK /\ Sound
  BY DEF IInv, Tick
<1>2. /\ q \in RunQueues /\ q.list = rq.list /\ q.count = rq.count
      /\ v \in [Task -> Nat] /\ state \in States
  BY <1>1 DEF TypeOK, RunQueues, TickCost, States
<1>3. RetFromIntr(q, v, state, nd) /\ early' = early
  BY DEF Tick
<1>4. v = [vruntime EXCEPT ![current] = @ + 2]
  BY DEF TickCost
<1>5. Holds(q, v, Ready(state, current))
  <2>1. \A t \in Ready(state, current) : v[t] = vruntime[t]
    BY <1>1 DEF TypeOK, Ready
  <2> HIDE DEF v, q
  <2>2. Ready(state, current) \in SUBSET Task
    BY DEF Ready
  <2>3. Holds(rq, v, Ready(state, current))
    BY <1>1, <2>1, <2>2, HoldsSameVruntime DEF Sound
  <2> QED
    BY <1>2, <2>3 DEF Holds, Sorted
<1> HIDE DEF v, q, nd
<1>6. Fair!Dispatch(Ready(state, current), v)
  BY <1>1, <1>2, <1>3, <1>5, RetFromIntrDispatches DEF TypeOK, Sound
<1>7. vruntime' = v /\ state' = state
  BY <1>3 DEF RetFromIntr
<1>8. Queued = Ready(state, current)
  BY DEF Queued, Ready
<1>9. Children' = Children
  BY DEF Tick, Children
<1> QED
  BY <1>3, <1>4, <1>6, <1>7, <1>8, <1>9 DEF Fair!Charge

\* A wakeup in time makes a task ready that was not, and may give the CPU away.
LEMMA WakeMaps ==
  ASSUME IInv, SleepInv, NEW t \in Task, DiskDone(t) \/ KeyDone(t), ~early'
  PROVE  Fair!Wake
<1> DEFINE st == [state EXCEPT ![t] = RUNNING]
           nd == [need EXCEPT ![current] = TRUE]
           q == InsertTaskQueue(rq, vruntime, t)
<1>1. /\ TypeOK /\ ~early /\ Asleep(t) /\ Wake(t)
      /\ t \in requests \/ state[t] = UNINTERRUPTIBLE
  BY DEF IInv, DiskDone, KeyDone, Wake
<1>2. Sound /\ InStep(t)
  BY <1>1 DEF IInv, SleepInv
<1>3. /\ state[t] # "unborn" /\ state[t] # RUNNING /\ t # current /\ t # Idle
  BY <1>1, <1>2 DEF InStep, Asleep, Sound, UNINTERRUPTIBLE
<1>4. t \in Task \ (Ready(state, current) \cup {Idle})
  BY <1>3 DEF Ready
<1>5. /\ st \in States /\ vruntime \in [Task -> Nat] /\ q \in RunQueues
      /\ rq \in RunQueues /\ current \in Task
      /\ Ready(state, current) \in SUBSET (Task \ {Idle})
  BY <1>1, InsertType DEF TypeOK, States, Ready
<1>6. SearchEnds(rq, vruntime, t) /\ Holds(q, vruntime, Ready(state, current) \cup {t})
  BY <1>2, <1>4, <1>5, InsertHolds DEF Sound
<1>7. Ready(st, current) = Ready(state, current) \cup {t}
  BY <1>1, <1>3 DEF Ready, TypeOK
<1>8. RetFromIntr(q, vruntime, st, nd) /\ early' = early
  <2>1. /\ early' = (early \/ ~Asleep(t))
        /\ SearchEnds(rq, vruntime, t) => RetFromIntr(q, vruntime, st, nd)
    BY <1>1 DEF Wake
  <2> QED
    BY <1>1, <1>6, <2>1 DEF TypeOK
<1>9. st[Idle] = RUNNING
  BY <1>1, <1>2, <1>3, TaskAssumption DEF Sound, TypeOK
<1>10. st = [state EXCEPT ![t] = RUNNING]
  OBVIOUS
<1> HIDE DEF st, nd, q
<1>11. Fair!Dispatch(Ready(state, current) \cup {t}, vruntime)
  BY <1>5, <1>6, <1>7, <1>8, <1>9, RetFromIntrDispatches
<1>12. vruntime' = vruntime /\ state' = st
  BY <1>8 DEF RetFromIntr
<1>13. Children' = Children /\ t \notin Children
  BY <1>1, <1>2 DEF IInv, Carried, Children, DiskDone, KeyDone
<1>14. Born' = Born
  BY <1>1, <1>3, <1>10, <1>12, <1>13 DEF Born, TypeOK, RUNNING
<1>15. Queued = Ready(state, current)
  BY DEF Queued, Ready
<1>16. t \in Born \ (Queued \cup {current, Idle})
  BY <1>3, <1>4, <1>15, <1>13 DEF Born
<1> QED
  BY <1>8, <1>11, <1>12, <1>14, <1>15, <1>16, <1>13 DEF Fair!Wake, Born

\* Marking a task that still runs is no step: it was not among those that wait for the CPU.
LEMMA MarkMaps ==
  ASSUME IInv, Submit \/ MarkForDisk \/ MarkForQueue \/ EnterQueue, ~early'
  PROVE  UNCHANGED Fair!vars
<1>1. TypeOK /\ Sound
  BY DEF IInv, Submit, MarkForDisk, MarkForQueue, EnterQueue
<1>2. /\ UNCHANGED <<current, vruntime, early>>
      /\ \/ state' = state
         \/ state' = [state EXCEPT ![current] = UNINTERRUPTIBLE]
  BY DEF Submit, MarkForDisk, MarkForQueue, EnterQueue
<1>3. Queued' = Queued
  BY <1>1, <1>2 DEF Queued, TypeOK
<1>4. Children' = Children
  <2>1. /\ child' = child
        /\ \A t \in Task : pc'[t] = pc[t] \/ (pc[t] # "copied" /\ pc'[t] # "copied")
    BY <1>1 DEF TypeOK, Submit, MarkForDisk, MarkForQueue, EnterQueue, At, GoTo
  <2> QED
    BY <1>1, <2>1, SameChildren
<1>5. Born' = Born
  BY <1>1, <1>2, <1>4 DEF Born, TypeOK, Sound, UNINTERRUPTIBLE
<1> QED
  BY <1>2, <1>3, <1>4, <1>5 DEF Fair!vars, Born

\* A task that gives up the CPU makes the abstract one choose.
LEMMA BlockMaps ==
  ASSUME IInv, Block, ~early'
  PROVE  Fair!Yield
<1>1. /\ TypeOK /\ Sound /\ Schedule(rq, vruntime, state, need)
      /\ UNCHANGED <<state, vruntime, early>>
  BY DEF IInv, Block
<1>2. Fair!Dispatch(Ready(state, current), vruntime)
  BY <1>1, ScheduleDispatches DEF TypeOK, Sound, States
<1>3. Queued = Ready(state, current)
  BY DEF Queued, Ready
<1>4. Children' = Children
  <2>1. /\ child' = child
        /\ \A t \in Task : pc'[t] = pc[t] \/ (pc[t] # "copied" /\ pc'[t] # "copied")
    BY <1>1 DEF TypeOK, Block, At, GoTo
  <2> QED
    BY <1>1, <2>1, SameChildren
<1> QED
  BY <1>1, <1>2, <1>3, <1>4 DEF Fair!Yield

\* do_fork's copy makes a task with the vruntime of this moment.
LEMMA CopyMaps ==
  ASSUME IInv, NEW c \in Task, CopyTask(c), ~early'
  PROVE  Fair!Make
<1>1. /\ TypeOK /\ Sound /\ state[c] = "unborn" /\ pc[current] = "run"
      /\ vruntime' = [vruntime EXCEPT ![c] = vruntime[current]]
      /\ state' = [state EXCEPT ![c] = UNINTERRUPTIBLE]
      /\ child' = [child EXCEPT ![current] = c]
      /\ pc' = [pc EXCEPT ![current] = "copied"]
      /\ UNCHANGED <<current, early>>
  BY DEF IInv, CopyTask, At, GoTo
<1>2. Carried /\ c \notin Children
  BY <1>1 DEF IInv, CopyTask, Carried, Children, UNINTERRUPTIBLE
<1>3. Children' = Children \cup {c}
  <2>1. \A t \in Task : t # current => child'[t] = child[t] /\ pc'[t] = pc[t]
    BY <1>1 DEF TypeOK
  <2>2. /\ child'[current] = c /\ pc'[current] = "copied" /\ pc[current] # "copied"
        /\ current \in Task
    BY <1>1 DEF TypeOK
  <2> QED
    BY <2>1, <2>2 DEF Children
<1>4. Queued' = Queued
  BY <1>1 DEF Queued, TypeOK, RUNNING, UNINTERRUPTIBLE
<1>5. Born' = Born /\ c \notin Born
  BY <1>1, <1>3 DEF Born, TypeOK, UNINTERRUPTIBLE
<1> QED
  BY <1>1, <1>2, <1>3, <1>4, <1>5 DEF Fair!Make, Born

\* The end of do_fork makes that task ready.
LEMMA ForkMaps ==
  ASSUME IInv, Fork, ~early'
  PROVE  Fair!Create
<1>1. PICK c \in Task : c = child[current]
  BY DEF IInv, TypeOK
<1>2. /\ TypeOK /\ Sound /\ Carried /\ pc[current] = "copied"
      /\ state' = [state EXCEPT ![c] = RUNNING]
      /\ child' = [child EXCEPT ![current] = current]
      /\ pc' = [pc EXCEPT ![current] = "run"]
      /\ current \in Task /\ UNCHANGED <<current, vruntime, early>>
  BY <1>1 DEF IInv, TypeOK, Fork, At, GoTo
<1>3. /\ c \in Children /\ state[c] = UNINTERRUPTIBLE /\ c # current /\ c # Idle
  BY <1>1, <1>2 DEF Sound, Carried, Children, RUNNING, UNINTERRUPTIBLE
<1>4. Children' = Children \ {c}
  <2>1. \A t \in Task : t # current => child'[t] = child[t] /\ pc'[t] = pc[t]
    BY <1>2 DEF TypeOK
  <2>2. pc'[current] # "copied"
    BY <1>2 DEF TypeOK
  <2>3. \A t \in Task : t # current /\ pc[t] = "copied" => child[t] # c
    BY <1>1, <1>2 DEF Carried
  <2> QED
    BY <1>1, <2>1, <2>2, <2>3 DEF Children
<1>5. Queued' = Queued \cup {c}
  BY <1>2, <1>3 DEF Queued, TypeOK
<1>6. Born' = Born \cup {c}
  BY <1>2, <1>3, <1>4 DEF Born, TypeOK, RUNNING, UNINTERRUPTIBLE
<1> QED
  BY <1>2, <1>3, <1>4, <1>5, <1>6 DEF Fair!Create, Born

-----------------------------------------------------------------------------
\* The linked run queue of schedule.c, its flags and its slices implement a scheduler
\* that gives the CPU to a ready task with the least vruntime, until the first early
\* wakeup, however many tasks there are.
THEOREM ImplementsFair == Spec => FairSpec
<1>1. IInv /\ SleepInv /\ [Next]_vars => [Fair!Next]_Fair!vars
  <2> SUFFICES ASSUME IInv, SleepInv, [Next]_vars PROVE [Fair!Next]_Fair!vars
    OBVIOUS
  <2>1. CASE UNCHANGED vars
    <3>1. UNCHANGED Fair!vars
      BY <2>1 DEF vars, Fair!vars, Queued, Children
    <3> QED
      BY <3>1
  <2>2. CASE early'
    BY <2>2 DEF Fair!Next, Fair!Break
  <2>3. CASE Next /\ ~early'
    <3>1. ~early
      BY <2>3 DEF Next, Interrupt, TaskStep, Tick, DiskDone, KeyDone, Wake, Submit,
                  MarkForDisk, MarkForQueue, EnterQueue, Block, CopyTask, Fork
    <3>2. CASE Tick
      BY <2>3, <3>1, <3>2, TickMaps DEF Fair!Next
    <3>3. CASE \E t \in Task : DiskDone(t) \/ KeyDone(t)
      BY <2>3, <3>1, <3>3, WakeMaps DEF Fair!Next
    <3>4. CASE Submit \/ MarkForDisk \/ MarkForQueue \/ EnterQueue
      BY <2>3, <3>4, MarkMaps
    <3>5. CASE Block
      BY <2>3, <3>1, <3>5, BlockMaps DEF Fair!Next
    <3>6. CASE \E c \in Task : CopyTask(c)
      BY <2>3, <3>1, <3>6, CopyMaps DEF Fair!Next
    <3>7. CASE Fork
      BY <2>3, <3>1, <3>7, ForkMaps DEF Fair!Next
    <3> QED
      BY <2>3, <3>2, <3>3, <3>4, <3>5, <3>6, <3>7 DEF Next, Interrupt, TaskStep
  <2> QED
    BY <2>1, <2>2, <2>3
<1> QED
  BY InitMaps, Inductive, SleepInductive, <1>1, PTL DEF Spec, FairSpec, Fair!Spec

-----------------------------------------------------------------------------
\* The wait queue.  Until an interrupt meets an addition, one task at a time is in
\* sleep_on before its node is linked, the history `order` holds the tasks whose nodes
\* wait, and the list follows it, but for the stores that list_add_before has yet to do.
Entering == {"first"} \cup Wait!Adding
Added == {t \in Sleeper : /\ wait_at[t] \in Wait!Adding \cup {"sleep"}
                           /\ wait_state[t] = "uninterruptible"}
Alone ==
  /\ \A t, u \in Sleeper : wait_at[t] \in Entering /\ wait_at[u] \in Entering => t = u
  /\ \A t \in Sleeper : wait_at[t] \in Entering => wait_state[t] = "uninterruptible"
  /\ \A t \in wait_off : wait_at[t] = "sleep" /\ wait_state[t] = "uninterruptible"
Ordered ==
  /\ IsInjective(wait_order) /\ ToSet(wait_order) = Added
  /\ \A t \in Sleeper : wait_at[t] \in Wait!Adding =>
       wait_order # <<>> /\ wait_order[Len(wait_order)] = t
Linked(t) ==
  /\ wait_at[t] = "second" => HalfLinked(wait_list, QHead, Front(wait_order), t)
  /\ wait_at[t] = "third" => Follows(Completed(wait_list, QHead, t, TRUE), QHead, wait_order)
  /\ wait_at[t] = "fourth" => Follows(Completed(wait_list, QHead, t, FALSE), QHead, wait_order)
InLine ==
  /\ (\A t \in Sleeper : wait_at[t] \notin Wait!Adding) =>
       Follows(wait_list, QHead, wait_order)
  /\ \A t \in Sleeper : Linked(t)
\* The lists and sequences of the instance are those of the lemmas.
LEMMA SameLists ==
  /\ \A N : Wait!ListMemory(N) = ListMemory(N)
  /\ \A l, n : Wait!ListInit(l, n) = ListInit(l, n)
  /\ \A l, n : Wait!ListDelete(l, n) = ListDelete(l, n)
  /\ \A l, L, h : Wait!WellLinked(l, L, h) <=> WellLinked(l, L, h)
  /\ \A l, h, B : Wait!Visited(l, h, B) = Visited(l, h, B)
  /\ \A s, e : Wait!RemoveFirst(s, e) = RemoveFirst(s, e)
<1>1. /\ \A N : Wait!ListMemory(N) = ListMemory(N)
      /\ \A l, n : Wait!ListInit(l, n) = ListInit(l, n)
      /\ \A l, n : Wait!ListDelete(l, n) = ListDelete(l, n)
  BY DEF ListMemory, Wait!ListMemory, ListInit, Wait!ListInit, ListDelete, Wait!ListDelete
<1>2. \A l, L, h : Wait!WellLinked(l, L, h) <=> WellLinked(l, L, h)
  BY DEF WellLinked, Wait!WellLinked, Ring, Wait!Ring, OneCycle, Wait!OneCycle
<1>3. \A l, h, B : Wait!Visited(l, h, B) = Visited(l, h, B)
  BY DEF Visited, Wait!Visited, WalkClosed, Wait!WalkClosed
<1>4. \A s, e : Wait!RemoveFirst(s, e) = RemoveFirst(s, e)
  BY DEF RemoveFirst, Wait!RemoveFirst, SelectInSeq, Wait!SelectInSeq, RemoveAt,
         Wait!RemoveAt, Min, Wait!Min
<1> QED
  BY <1>1, <1>2, <1>3, <1>4

\* The same of the types and of what a wakeup does.
WaitTypes ==
  /\ wait_list \in ListMemory(Wait!Node)
  /\ wait_state \in [Sleeper -> {"running", "uninterruptible"}]
  /\ wait_at \in [Sleeper -> Wait!Places]
  /\ \A t \in Sleeper : wait_at[t] = "out" => wait_state[t] = "running"
  /\ wait_off \subseteq Sleeper /\ wait_order \in Seq(Sleeper) /\ wait_struck \in BOOLEAN

\* WaitTypes is the module's own TypeOK.
LEMMA SameTypes == Wait!TypeOK <=> WaitTypes
  BY SameLists DEF Wait!TypeOK, WaitTypes

Woken(w) ==
  /\ w = wait_list.next[QHead] /\ w # QHead
  /\ wait_state[w] = "uninterruptible"
  /\ wait_list' = ListDelete(wait_list, w)
  /\ wait_state' = [wait_state EXCEPT ![w] = "running"]
  /\ wait_off' = wait_off \ {w}
  /\ wait_order' = RemoveFirst(wait_order, w)
  /\ wait_struck' = (wait_struck \/ Wait!Meets(w))
  /\ wait_at' = wait_at

\* Wakeup wakes the node the head's next leads to.
LEMMA WakeupWakes == Wait!Wakeup => Woken(wait_list.next[QHead])
  BY SameLists DEF Wait!Wakeup, Woken, Wait!FirstWaiter, Wait!Without

WaitInv == WaitTypes /\ (~wait_struck => Alone /\ Ordered /\ InLine)

\* The wait queue is empty at the start.
LEMMA WaitInit == Wait!Init => WaitInv
<1> SUFFICES ASSUME Wait!Init PROVE WaitInv
  OBVIOUS
<1>1. WaitTypes
  <2>1. wait_list \in ListMemory(Wait!Node)
    BY DEF Wait!Init, ListMemory
  <2>2. <<>> \in Seq(Sleeper)
    OBVIOUS
  <2> QED
    BY <2>1, <2>2 DEF Wait!Init, WaitTypes, Wait!Places
<1>2. Added = {}
  BY DEF Wait!Init, Added, Wait!Adding
<1>3. Alone
  BY DEF Wait!Init, Alone, Entering, Wait!Adding
<1>4. wait_order = <<>> /\ <<>> \in Seq(Sleeper) /\ Len(wait_order) = 0
  BY DEF Wait!Init
<1>5. Ordered
  BY <1>2, <1>4 DEF Wait!Init, Ordered, Wait!Adding, IsInjective, ToSet
<1>6. Follows(wait_list, QHead, wait_order)
  BY <1>4 DEF Wait!Init, Follows, NodeAt, Wait!Node
<1>7. InLine
  BY <1>6 DEF Wait!Init, InLine, Linked, Wait!Adding
<1> QED
  BY <1>1, <1>3, <1>5, <1>7 DEF WaitInv

\* Types.
LEMMA WaitTypeStep == WaitTypes /\ Wait!Next => WaitTypes'
<1> SUFFICES ASSUME WaitTypes, Wait!Next PROVE WaitTypes'
  OBVIOUS
<1>1. QHead \in Wait!Node /\ Sleeper \subseteq Wait!Node
  BY DEF Wait!Node
<1>2. wait_list.prev[QHead] \in Wait!Node /\ wait_list.next[QHead] \in Wait!Node
  BY <1>1 DEF WaitTypes, ListMemory
<1>3. CASE Wait!Wakeup
  <2> DEFINE w == wait_list.next[QHead]
  <2>5. Woken(w)
    BY <1>3, WakeupWakes
  <2>1. w \in Sleeper
    BY <1>2, <2>5 DEF Woken, Wait!Node
  <2>2. wait_list' \in ListMemory(Wait!Node)
    <3>1. wait_list' = ListDelete(wait_list, w)
      BY <2>5 DEF Woken
    <3>2. w \in Wait!Node
      BY <1>2
    <3> HIDE DEF w
    <3> QED
      BY <3>1, <3>2, DeleteFields DEF WaitTypes
  <2>3. wait_order' \in Seq(Sleeper)
    BY <2>5, RemoveFirstType DEF Woken, WaitTypes
  <2>4. wait_state' = [wait_state EXCEPT ![w] = "running"] /\ wait_at' = wait_at
        /\ wait_off' = wait_off \ {w} /\ wait_struck' \in BOOLEAN
    <3>1. Wait!Meets(w) \in BOOLEAN
      BY DEF Wait!Meets
    <3> QED
      BY <2>5, <3>1 DEF Woken, WaitTypes
  <2> HIDE DEF w
  <2> QED
    BY <2>1, <2>2, <2>3, <2>4 DEF WaitTypes
<1>4. ASSUME NEW t \in Sleeper, Wait!TaskStep(t)
      PROVE  WaitTypes'
  <2>1. CASE Wait!SleepOn(t)
    BY <1>1, <2>1, SameLists DEF Wait!SleepOn, WaitTypes, ListInit, ListMemory, Wait!Runs, Wait!Goes, Wait!Places
  <2>2. CASE Wait!First(t)
    BY <1>1, <1>2, <2>2 DEF Wait!First, Wait!Store, WaitTypes, ListMemory, Wait!Goes, Wait!Places, Wait!Adding
  <2>3. CASE Wait!Second(t)
    BY <1>1, <1>2, <2>3 DEF Wait!Second, Wait!Store, WaitTypes, ListMemory, Wait!Goes, Wait!Places, Wait!Adding
  <2>4. CASE Wait!Third(t)
    BY <1>1, <1>2, <2>4 DEF Wait!Third, Wait!Store, WaitTypes, ListMemory, Wait!Goes, Wait!Places, Wait!Adding
  <2>5. CASE Wait!Fourth(t)
    BY <1>1, <1>2, <2>5 DEF Wait!Fourth, Wait!Store, WaitTypes, ListMemory, Wait!Goes, Wait!Places, Wait!Adding
  <2>6. CASE Wait!Return(t)
    BY <2>6 DEF Wait!Return, WaitTypes, Wait!Goes, Wait!Places
  <2>7. CASE Wait!Preempt(t)
    BY <2>7 DEF Wait!Preempt, WaitTypes
  <2> QED
    BY <1>4, <2>1, <2>2, <2>3, <2>4, <2>5, <2>6, <2>7 DEF Wait!TaskStep
<1> QED
  BY <1>3, <1>4 DEF Wait!Next

\* The members of the list and its head are distinct nodes.
LEMMA WaitDistinct ==
  WaitTypes /\ Ordered =>
    /\ QHead \in Wait!Node /\ wait_list \in ListMemory(Wait!Node)
    /\ wait_order \in Seq(Sleeper) /\ wait_order \in Seq(Wait!Node)
    /\ Distinct(QHead, wait_order) /\ QHead \notin Sleeper
<1> SUFFICES ASSUME WaitTypes, Ordered PROVE
    /\ QHead \in Wait!Node /\ wait_list \in ListMemory(Wait!Node)
    /\ wait_order \in Seq(Sleeper) /\ wait_order \in Seq(Wait!Node)
    /\ Distinct(QHead, wait_order) /\ QHead \notin Sleeper
  OBVIOUS
<1>1. Sleeper \subseteq Wait!Node /\ QHead \notin Sleeper /\ QHead \in Wait!Node
  BY TaskAssumption DEF Wait!Node, Sleeper
<1>2. wait_order \in Seq(Sleeper) /\ wait_list \in ListMemory(Wait!Node)
  BY DEF WaitTypes
<1>3. wait_order \in Seq(Wait!Node)
  BY <1>1, <1>2
<1>4. ToSet(wait_order) \subseteq Sleeper /\ IsInjective(wait_order)
  BY DEF Ordered, Added
<1> QED
  BY <1>1, <1>2, <1>3, <1>4 DEF Distinct

\* sleep_on, up to its list_add_before.
LEMMA SleepOnStep ==
  ASSUME WaitInv, NEW t \in Sleeper, Wait!SleepOn(t), ~wait_struck'
  PROVE  Alone' /\ Ordered' /\ InLine'
<1>1. /\ wait_at[t] = "out" /\ t \notin wait_off
      /\ \A u \in Sleeper \ {t} : wait_at[u] \in {"out", "sleep"} \/ u \in wait_off
      /\ wait_list' = ListInit(wait_list, t)
      /\ wait_state' = [wait_state EXCEPT ![t] = "uninterruptible"]
      /\ wait_at' = [wait_at EXCEPT ![t] = "first"]
      /\ wait_off' = wait_off /\ wait_order' = wait_order /\ wait_struck' = wait_struck
  BY SameLists DEF Wait!SleepOn, Wait!Runs, Wait!Goes
<1>2. WaitTypes /\ Alone /\ Ordered /\ InLine
  BY <1>1 DEF WaitInv
<1>3. /\ \A u \in Sleeper : wait_at'[u] = IF u = t THEN "first" ELSE wait_at[u]
      /\ \A u \in Sleeper : wait_state'[u] = IF u = t THEN "uninterruptible" ELSE wait_state[u]
  BY <1>1, <1>2 DEF WaitTypes
<1>4. \A u \in Sleeper : wait_at[u] \notin Entering
  BY <1>1, <1>2 DEF Alone, Entering, Wait!Adding
<1>5. Alone'
  <2>1. wait_off \subseteq Sleeper
    BY <1>2 DEF WaitTypes
  <2> QED
    BY <1>1, <1>2, <1>3, <1>4, <2>1 DEF Alone, Entering, Wait!Adding
<1>6. Added' = Added
  BY <1>1, <1>3 DEF Added, Wait!Adding
<1>7. \A u \in Sleeper : wait_at[u] \notin Wait!Adding /\ wait_at'[u] \notin Wait!Adding
  BY <1>3, <1>4 DEF Entering, Wait!Adding
<1>8. Ordered'
  BY <1>1, <1>2, <1>6, <1>7 DEF Ordered
<1>9. Follows(wait_list, QHead, wait_order)
  BY <1>2, <1>7 DEF InLine
<1>10. t \notin ToSet(wait_order) /\ t # QHead
  BY <1>1, <1>2, WaitDistinct DEF Ordered, Added, Wait!Adding
<1>11. \A m \in ToSet(wait_order) \cup {QHead} :
         wait_list'.next[m] = wait_list.next[m] /\ wait_list'.prev[m] = wait_list.prev[m]
  <2>1. wait_list.next \in [Wait!Node -> Wait!Node] /\ wait_list.prev \in [Wait!Node -> Wait!Node]
    BY <1>2 DEF WaitTypes, ListMemory
  <2>2. ToSet(wait_order) \cup {QHead} \subseteq Wait!Node
    BY <1>2 DEF Ordered, Added, Wait!Node
  <2> QED
    BY <1>1, <1>10, <2>1, <2>2 DEF ListInit
<1>12. Follows(wait_list', QHead, wait_order)
  BY <1>2, <1>9, <1>11, WaitDistinct, FollowsElsewhere
<1> QED
  BY <1>1, <1>5, <1>7, <1>8, <1>12 DEF InLine, Linked, Wait!Adding

\* What the four stores of list_add_before have in common.
LEMMA StoreStep ==
  ASSUME WaitInv, NEW t \in Sleeper, NEW from \in Entering, NEW to \in Wait!Adding \cup {"sleep"},
         NEW l, Wait!Store(t, from, to, l), ~wait_struck'
  PROVE  /\ WaitTypes /\ Alone /\ Ordered /\ InLine /\ Alone'
         /\ wait_at[t] = from
         /\ \A u \in Sleeper : wait_at'[u] = IF u = t THEN to ELSE wait_at[u]
         /\ \A u \in Sleeper \ {t} : wait_at[u] \notin Entering
         /\ wait_list' = l
         /\ wait_order' = IF from = "first" THEN Append(wait_order, t) ELSE wait_order
         /\ Added' = IF from = "first" THEN Added \cup {t} ELSE Added
<1>1. /\ wait_at[t] = from /\ t \notin wait_off /\ wait_list' = l
      /\ wait_at' = [wait_at EXCEPT ![t] = to]
      /\ wait_order' = IF from = "first" THEN Append(wait_order, t) ELSE wait_order
      /\ wait_state' = wait_state /\ wait_off' = wait_off /\ wait_struck' = wait_struck
  BY DEF Wait!Store, Wait!Runs, Wait!Goes
<1>2. WaitTypes /\ Alone /\ Ordered /\ InLine
  BY <1>1 DEF WaitInv
<1>3. \A u \in Sleeper : wait_at'[u] = IF u = t THEN to ELSE wait_at[u]
  BY <1>1, <1>2 DEF WaitTypes
<1>4. \A u \in Sleeper \ {t} : wait_at[u] \notin Entering
  BY <1>1, <1>2 DEF Alone
<1>5. wait_state[t] = "uninterruptible"
  BY <1>1, <1>2 DEF Alone
<1>6. wait_off \subseteq Sleeper
  BY <1>2 DEF WaitTypes
<1>7. Alone'
  <2>1. \A u, v \in Sleeper : wait_at'[u] \in Entering /\ wait_at'[v] \in Entering => u = v
    BY <1>3, <1>4
  <2>2. \A u \in Sleeper : wait_at'[u] \in Entering => wait_state'[u] = "uninterruptible"
    BY <1>1, <1>3, <1>4, <1>5
  <2>3. \A u \in wait_off' : wait_at'[u] = "sleep" /\ wait_state'[u] = "uninterruptible"
    BY <1>1, <1>2, <1>3, <1>6 DEF Alone
  <2> QED
    BY <2>1, <2>2, <2>3 DEF Alone
<1>8. Added' = IF from = "first" THEN Added \cup {t} ELSE Added
  BY <1>1, <1>3, <1>5 DEF Added, Entering, Wait!Adding
<1> QED
  BY <1>1, <1>2, <1>3, <1>4, <1>7, <1>8

\* First store of list_add_before in sleep_on.
LEMMA FirstStep ==
  ASSUME WaitInv, NEW t \in Sleeper, Wait!First(t), ~wait_struck'
  PROVE  Alone' /\ Ordered' /\ InLine'
<1> DEFINE l == [wait_list EXCEPT !.next[wait_list.prev[QHead]] = t]
<1>1. Wait!Store(t, "first", "second", l)
  BY DEF Wait!First
<1>2. /\ WaitTypes /\ Alone /\ Ordered /\ InLine /\ Alone'
      /\ wait_at[t] = "first"
      /\ \A u \in Sleeper : wait_at'[u] = IF u = t THEN "second" ELSE wait_at[u]
      /\ \A u \in Sleeper \ {t} : wait_at[u] \notin Entering
      /\ wait_list' = l
      /\ wait_order' = Append(wait_order, t)
      /\ Added' = Added \cup {t}
  <2> HIDE DEF l
  <2>1. "first" \in Entering /\ "second" \in Wait!Adding \cup {"sleep"}
    BY DEF Entering, Wait!Adding
  <2> QED
    BY <1>1, <2>1, StoreStep
<1>3. t \notin ToSet(wait_order)
  BY <1>2 DEF Ordered, Added, Wait!Adding
<1>4. \A u \in Sleeper : wait_at[u] \notin Wait!Adding
  BY <1>2 DEF Entering, Wait!Adding
<1>5. /\ wait_order \in Seq(Sleeper) /\ wait_order \in Seq(Wait!Node) /\ IsInjective(wait_order)
      /\ QHead \in Wait!Node /\ wait_list \in ListMemory(Wait!Node) /\ t \in Wait!Node
  BY <1>2, WaitDistinct DEF Ordered, Wait!Node
<1>6. Follows(wait_list, QHead, wait_order)
  BY <1>2, <1>4 DEF InLine
<1>7. HalfLinked(l, QHead, wait_order, t)
  BY <1>5, <1>6, FirstStore
<1>8. /\ IsInjective(wait_order') /\ ToSet(wait_order') = ToSet(wait_order) \cup {t}
  BY <1>2, <1>3, <1>5, AppendMembers
<1>9. Front(wait_order') = wait_order
  BY <1>2, <1>5, FrontOfAppend
<1>10. wait_order' # <<>> /\ wait_order'[Len(wait_order')] = t
  <2>1. /\ Append(wait_order, t) \in Seq(Sleeper)
        /\ Len(Append(wait_order, t)) = Len(wait_order) + 1 /\ Len(wait_order) \in Nat
        /\ Append(wait_order, t)[Len(wait_order) + 1] = t
    BY <1>5, AppendProperties
  <2> DEFINE a == Append(wait_order, t)
  <2>2. a \in Seq(Sleeper) /\ Len(a) = Len(wait_order) + 1 /\ a[Len(a)] = t
    BY <2>1
  <2> HIDE DEF a
  <2>3. a # <<>>
    BY <2>1, <2>2
  <2> QED
    BY <1>2, <2>2, <2>3 DEF a
<1> HIDE DEF l
<1>11. Ordered'
  BY <1>2, <1>4, <1>8, <1>10 DEF Ordered
<1>12. \A u \in Sleeper : Linked(u)'
  <2> TAKE u \in Sleeper
  <2>1. CASE u = t
    BY <1>2, <1>7, <1>9, <2>1 DEF Linked
  <2>2. CASE u # t
    BY <1>2, <1>4, <2>2 DEF Linked, Wait!Adding
  <2> QED
    BY <2>1, <2>2
<1>13. wait_at'[t] \in Wait!Adding
  BY <1>2 DEF Wait!Adding
<1> QED
  BY <1>2, <1>11, <1>12, <1>13 DEF InLine

\* Of the last three stores: the order and who enters stay, and nobody else is entering.
LEMMA LaterStore ==
  ASSUME WaitInv, NEW t \in Sleeper, NEW from \in Wait!Adding, NEW to \in Wait!Adding \cup {"sleep"},
         NEW l, Wait!Store(t, from, to, l), ~wait_struck'
  PROVE  /\ WaitTypes /\ Ordered /\ Linked(t) /\ Alone'
         /\ wait_at[t] = from /\ wait_at'[t] = to
         /\ wait_list' = l /\ wait_order' = wait_order
         /\ wait_order # <<>> /\ wait_order[Len(wait_order)] = t
         /\ Ordered'
         /\ Linked(t)' => \A u \in Sleeper : Linked(u)'
<1>1. /\ WaitTypes /\ Alone /\ Ordered /\ InLine /\ Alone'
      /\ wait_at[t] = from
      /\ \A u \in Sleeper : wait_at'[u] = IF u = t THEN to ELSE wait_at[u]
      /\ \A u \in Sleeper \ {t} : wait_at[u] \notin Entering
      /\ wait_list' = l
      /\ wait_order' = wait_order
      /\ Added' = Added
  <2>1. from \in Entering /\ from # "first"
    BY DEF Entering, Wait!Adding
  <2> QED
    BY <2>1, StoreStep
<1>2. \A u \in Sleeper \ {t} : wait_at[u] \notin Wait!Adding
  BY <1>1 DEF Entering
<1>3. wait_order # <<>> /\ wait_order[Len(wait_order)] = t
  BY <1>1 DEF Ordered
<1>4. Ordered'
  BY <1>1, <1>2, <1>3 DEF Ordered
<1>5. \A u \in Sleeper : u # t => Linked(u)'
  BY <1>1, <1>2 DEF Linked, Wait!Adding
<1> QED
  BY <1>1, <1>3, <1>4, <1>5 DEF InLine

\* The order before its last member.
LEMMA OrderFront ==
  ASSUME WaitTypes, Ordered, wait_order # <<>>
  PROVE  LET s == Front(wait_order)
             u == wait_order[Len(wait_order)]
         IN  /\ s \in Seq(Wait!Node) /\ Distinct(QHead, s)
             /\ u \in Wait!Node /\ u # QHead /\ u \notin ToSet(s) /\ u \in Sleeper
             /\ wait_order = Append(s, u) /\ ToSet(s) = Added \ {u}
<1>1. /\ wait_order \in Seq(Wait!Node) /\ Distinct(QHead, wait_order) /\ wait_order \in Seq(Sleeper)
      /\ QHead \notin Sleeper
  BY WaitDistinct
<1>2. IsInjective(wait_order) /\ ToSet(wait_order) = Added /\ QHead \notin Added
  BY <1>1 DEF Ordered, Distinct
<1>3. /\ Front(wait_order) \in Seq(Wait!Node)
      /\ wait_order = Append(Front(wait_order), wait_order[Len(wait_order)])
      /\ IsInjective(Front(wait_order))
      /\ wait_order[Len(wait_order)] \notin ToSet(Front(wait_order))
      /\ ToSet(Front(wait_order)) = Added \ {wait_order[Len(wait_order)]}
  BY <1>1, <1>2, FrontProperties
<1>4. wait_order[Len(wait_order)] \in Sleeper
  BY <1>1, FrontProperties
<1> QED
  BY <1>1, <1>2, <1>3, <1>4 DEF Distinct, Wait!Node

\* Second store: the new node's prev.
LEMMA SecondStep ==
  ASSUME WaitInv, NEW t \in Sleeper, Wait!Second(t), ~wait_struck'
  PROVE  Alone' /\ Ordered' /\ InLine'
<1> DEFINE l == [wait_list EXCEPT !.prev[t] = wait_list.prev[QHead]]
<1>1. Wait!Store(t, "second", "third", l)
  BY DEF Wait!Second
<1>2. /\ WaitTypes /\ Ordered /\ Linked(t) /\ Alone' /\ Ordered'
      /\ wait_at[t] = "second" /\ wait_at'[t] = "third"
      /\ wait_list' = l /\ wait_order' = wait_order
      /\ wait_order # <<>> /\ wait_order[Len(wait_order)] = t
      /\ Linked(t)' => \A u \in Sleeper : Linked(u)'
  <2> HIDE DEF l
  <2>1. "second" \in Wait!Adding /\ "third" \in Wait!Adding \cup {"sleep"}
    BY DEF Wait!Adding
  <2> QED
    BY <1>1, <2>1, LaterStore
<1>3. HalfLinked(wait_list, QHead, Front(wait_order), t)
  BY <1>2 DEF Linked
<1>4. QHead \in Wait!Node /\ wait_list \in ListMemory(Wait!Node)
  BY <1>2, WaitDistinct
<1> DEFINE s == Front(wait_order)
<1>5. /\ s \in Seq(Wait!Node) /\ Distinct(QHead, s) /\ wait_order = Append(s, t)
      /\ t \in Wait!Node /\ t # QHead /\ t \notin ToSet(s)
  BY <1>2, OrderFront
<1>6. Follows(Completed(l, QHead, t, TRUE), QHead, wait_order)
  <2>1. HalfLinked(wait_list, QHead, s, t)
    BY <1>3
  <2> HIDE DEF s
  <2>2. Follows(Completed(l, QHead, t, TRUE), QHead, Append(s, t))
    BY <1>4, <1>5, <2>1, SecondStore
  <2> QED
    BY <1>5, <2>2
<1> HIDE DEF l
<1> QED
  BY <1>2, <1>6 DEF InLine, Linked, Wait!Adding

\* Third store: the head's prev.
LEMMA ThirdStep ==
  ASSUME WaitInv, NEW t \in Sleeper, Wait!Third(t), ~wait_struck'
  PROVE  Alone' /\ Ordered' /\ InLine'
<1> DEFINE l == [wait_list EXCEPT !.prev[QHead] = t]
<1>1. Wait!Store(t, "third", "fourth", l)
  BY DEF Wait!Third
<1>2. /\ WaitTypes /\ Ordered /\ Linked(t) /\ Alone' /\ Ordered'
      /\ wait_at[t] = "third" /\ wait_at'[t] = "fourth"
      /\ wait_list' = l /\ wait_order' = wait_order
      /\ Linked(t)' => \A u \in Sleeper : Linked(u)'
  <2> HIDE DEF l
  <2>1. "third" \in Wait!Adding /\ "fourth" \in Wait!Adding \cup {"sleep"}
    BY DEF Wait!Adding
  <2> QED
    BY <1>1, <2>1, LaterStore
<1>3. Follows(Completed(wait_list, QHead, t, TRUE), QHead, wait_order)
  BY <1>2 DEF Linked
<1>4. QHead \in Wait!Node /\ wait_list \in ListMemory(Wait!Node) /\ t \in Wait!Node
  BY <1>2, WaitDistinct DEF Wait!Node
<1>5. Follows(Completed(l, QHead, t, FALSE), QHead, wait_order)
  BY <1>3, <1>4, ThirdStore
<1> HIDE DEF l
<1> QED
  BY <1>2, <1>5 DEF InLine, Linked, Wait!Adding

\* Fourth store: the new node's next; the sleeper is in the queue.
LEMMA FourthStep ==
  ASSUME WaitInv, NEW t \in Sleeper, Wait!Fourth(t), ~wait_struck'
  PROVE  Alone' /\ Ordered' /\ InLine'
<1> DEFINE l == [wait_list EXCEPT !.next[t] = QHead]
<1>1. Wait!Store(t, "fourth", "sleep", l)
  BY DEF Wait!Fourth
<1>2. /\ Linked(t) /\ Alone' /\ Ordered'
      /\ wait_at[t] = "fourth" /\ wait_at'[t] = "sleep"
      /\ wait_list' = l /\ wait_order' = wait_order
      /\ Linked(t)' => \A u \in Sleeper : Linked(u)'
  <2> HIDE DEF l
  <2>1. "fourth" \in Wait!Adding /\ "sleep" \in Wait!Adding \cup {"sleep"}
    BY DEF Wait!Adding
  <2> QED
    BY <1>1, <2>1, LaterStore
<1>3. Follows(l, QHead, wait_order)
  BY <1>2 DEF Linked, Completed
<1> HIDE DEF l
<1> QED
  BY <1>2, <1>3 DEF InLine, Linked

\* sleep_on returns when the task runs again.
LEMMA ReturnStep ==
  ASSUME WaitInv, NEW t \in Sleeper, Wait!Return(t), ~wait_struck'
  PROVE  Alone' /\ Ordered' /\ InLine'
<1>1. /\ wait_at[t] = "sleep" /\ wait_state[t] = "running"
      /\ wait_at' = [wait_at EXCEPT ![t] = "out"]
      /\ UNCHANGED <<wait_list, wait_state, wait_off, wait_order, wait_struck>>
  BY DEF Wait!Return, Wait!Goes
<1>2. WaitTypes /\ Alone /\ Ordered /\ InLine
  BY <1>1 DEF WaitInv
<1>3. \A u \in Sleeper : wait_at'[u] = IF u = t THEN "out" ELSE wait_at[u]
  BY <1>1, <1>2 DEF WaitTypes
<1>4. Added' = Added
  BY <1>1, <1>3 DEF Added, Wait!Adding
<1>5. \A u \in Sleeper : /\ wait_at'[u] \in Wait!Adding <=> wait_at[u] \in Wait!Adding
                         /\ wait_at'[u] \in Entering <=> wait_at[u] \in Entering
                         /\ wait_at'[u] \in Wait!Adding => wait_at'[u] = wait_at[u]
  BY <1>1, <1>3 DEF Entering, Wait!Adding
<1>6. Alone'
  <2>1. wait_off \subseteq Sleeper
    BY <1>2 DEF WaitTypes
  <2>2. \A u \in wait_off' : wait_at'[u] = "sleep" /\ wait_state'[u] = "uninterruptible"
    BY <1>1, <1>2, <1>3, <2>1 DEF Alone
  <2>3. \A u \in Sleeper : wait_at'[u] \in Entering => wait_state'[u] = "uninterruptible"
    BY <1>1, <1>2, <1>5 DEF Alone
  <2>4. \A u, v \in Sleeper : wait_at'[u] \in Entering /\ wait_at'[v] \in Entering => u = v
    BY <1>2, <1>5 DEF Alone
  <2> QED
    BY <2>2, <2>3, <2>4 DEF Alone
<1>7. Ordered'
  BY <1>1, <1>2, <1>4, <1>5 DEF Ordered
<1>8. \A u \in Sleeper : Linked(u)'
  BY <1>1, <1>2, <1>5 DEF InLine, Linked, Wait!Adding
<1>9. (\A u \in Sleeper : wait_at'[u] \notin Wait!Adding) => Follows(wait_list', QHead, wait_order')
  BY <1>1, <1>2, <1>5 DEF InLine
<1> QED
  BY <1>6, <1>7, <1>8, <1>9 DEF InLine

\* The processor goes only from a task whose node is linked.
LEMMA PreemptStep ==
  ASSUME WaitInv, NEW t \in Sleeper, Wait!Preempt(t), ~wait_struck'
  PROVE  Alone' /\ Ordered' /\ InLine'
<1>1. /\ wait_at[t] = "sleep" /\ wait_state[t] = "uninterruptible"
      /\ wait_off' = wait_off \cup {t} /\ ~wait_struck
      /\ UNCHANGED <<wait_list, wait_state, wait_at, wait_order>>
  BY DEF Wait!Preempt
<1>2. Alone /\ Ordered /\ InLine
  BY <1>1 DEF WaitInv
<1>3. Alone'
  BY <1>1, <1>2 DEF Alone
<1>4. Ordered'
  BY <1>1, <1>2 DEF Ordered, Added
<1> QED
  BY <1>1, <1>2, <1>3, <1>4 DEF InLine, Linked

\* A wakeup that does not meet an addition takes the first of the order, and what
\* list_add_before has yet to do leads from what it leaves.
LEMMA WakeupFirst ==
  ASSUME WaitTypes, Alone, Ordered, InLine, NEW w, Woken(w), ~Wait!Meets(w)
  PROVE  /\ wait_order # <<>> /\ w = Head(wait_order) /\ wait_order' = Tail(wait_order)
         /\ (\A t \in Sleeper : wait_at[t] \notin Wait!Adding) =>
              Follows(wait_list', QHead, wait_order')
         /\ \A t \in Sleeper : wait_at[t] \in Wait!Adding => Len(wait_order) > 1
         /\ \A t \in Sleeper : Linked(t)'
<1> DEFINE o == wait_order
<1>1. /\ QHead \in Wait!Node /\ wait_list \in ListMemory(Wait!Node)
      /\ o \in Seq(Sleeper) /\ o \in Seq(Wait!Node) /\ Distinct(QHead, o) /\ QHead \notin Sleeper
  BY WaitDistinct
<1>2. /\ w = wait_list.next[QHead] /\ w # QHead /\ wait_list' = ListDelete(wait_list, w)
      /\ wait_order' = RemoveFirst(o, w) /\ wait_at' = wait_at
  BY DEF Woken
<1>3. o # <<>> /\ w = Head(o) => wait_order' = Tail(o)
  BY <1>1, <1>2, RemoveFirstHead
<1>4. ASSUME \A t \in Sleeper : wait_at[t] \notin Wait!Adding
      PROVE  /\ o # <<>> /\ w = Head(o) /\ Follows(wait_list', QHead, wait_order')
             /\ \A t \in Sleeper : Linked(t)'
  <2>1. Follows(wait_list, QHead, o)
    BY <1>4 DEF InLine
  <2>2. o # <<>> /\ w = Head(o)
    BY <1>1, <1>2, <2>1, FollowsEnds
  <2> HIDE DEF o
  <2>3. 1 \in 1 .. Len(o) /\ o[1] = Head(o) /\ RemoveAt(o, 1) = Tail(o)
    BY <1>1, <2>2 DEF RemoveAt
  <2>4. Follows(ListDelete(wait_list, o[1]), QHead, RemoveAt(o, 1))
    BY <1>1, <2>1, <2>3, FollowsRemove
  <2>5. Follows(wait_list', QHead, wait_order')
    BY <1>2, <1>3, <2>2, <2>3, <2>4
  <2> QED
    BY <1>2, <1>4, <2>2, <2>5 DEF Linked, Wait!Adding
<1>5. ASSUME NEW t \in Sleeper, wait_at[t] \in Wait!Adding
      PROVE  /\ o # <<>> /\ w = Head(o) /\ Len(o) > 1 /\ Linked(t)'
  <2>1. /\ o # <<>> /\ t = o[Len(o)] /\ Linked(t)
    BY <1>5 DEF Ordered, InLine
  <2>2. wait_list.next[QHead] # t
    BY <1>2, <1>5 DEF Wait!Meets
  <2>3. CASE wait_at[t] = "second"
    <3>1. wait_list.next[QHead] # wait_list.prev[QHead]
      BY <1>2, <2>3 DEF Wait!Meets, Wait!Adding
    <3>2. HalfLinked(wait_list, QHead, Front(o), t)
      BY <2>1, <2>3 DEF Linked
    <3> HIDE DEF o
    <3>3. /\ wait_list.next[QHead] = Head(o) /\ Len(o) > 1
          /\ HalfLinked(ListDelete(wait_list, Head(o)), QHead, Front(Tail(o)), t)
      BY <1>1, <2>1, <2>2, <3>1, <3>2, HalfLinkedFirst
    <3>4. HalfLinked(wait_list', QHead, Front(wait_order'), t)
      BY <1>2, <1>3, <2>1, <3>3
    <3> QED
      BY <1>2, <2>1, <2>3, <3>3, <3>4 DEF Linked
  <2>4. ASSUME NEW both \in BOOLEAN,
               Follows(Completed(wait_list, QHead, t, both), QHead, o)
        PROVE  /\ w = Head(o) /\ Len(o) > 1
               /\ Follows(Completed(wait_list', QHead, t, both), QHead, wait_order')
    <3> HIDE DEF o
    <3>1. /\ wait_list.next[QHead] = Head(o) /\ Len(o) > 1
          /\ Follows(Completed(ListDelete(wait_list, Head(o)), QHead, t, both), QHead, Tail(o))
      BY <1>1, <2>1, <2>2, <2>4, CompletedFirst
    <3> QED
      BY <1>2, <1>3, <2>1, <3>1
  <2>5. CASE wait_at[t] = "third"
    <3>1. Follows(Completed(wait_list, QHead, t, TRUE), QHead, o)
      BY <2>1, <2>5 DEF Linked
    <3>2. /\ w = Head(o) /\ Len(o) > 1
          /\ Follows(Completed(wait_list', QHead, t, TRUE), QHead, wait_order')
      BY <2>4, <3>1
    <3> QED
      BY <1>2, <2>1, <2>5, <3>2 DEF Linked
  <2>6. CASE wait_at[t] = "fourth"
    <3>1. Follows(Completed(wait_list, QHead, t, FALSE), QHead, o)
      BY <2>1, <2>6 DEF Linked
    <3>2. /\ w = Head(o) /\ Len(o) > 1
          /\ Follows(Completed(wait_list', QHead, t, FALSE), QHead, wait_order')
      BY <2>4, <3>1
    <3> QED
      BY <1>2, <2>1, <2>6, <3>2 DEF Linked
  <2> QED
    BY <1>5, <2>3, <2>5, <2>6 DEF Wait!Adding
<1>6. \A t \in Sleeper : wait_at[t] \notin Wait!Adding => Linked(t)'
  BY <1>2 DEF Linked, Wait!Adding
<1> QED
  BY <1>3, <1>4, <1>5, <1>6

\* An interrupt wakes the first waiter, which leaves the queue and the order.
LEMMA WakeupStep ==
  ASSUME WaitInv, Wait!Wakeup, ~wait_struck'
  PROVE  Alone' /\ Ordered' /\ InLine' /\ wait_order' = Tail(wait_order)
<1> DEFINE w == wait_list.next[QHead]
<1>1. Woken(w)
  BY WakeupWakes
<1> HIDE DEF w
<1>2. ~wait_struck /\ ~Wait!Meets(w) /\ WaitTypes /\ Alone /\ Ordered /\ InLine
  BY <1>1 DEF Woken, WaitInv
<1>3. /\ wait_order # <<>> /\ w = Head(wait_order) /\ wait_order' = Tail(wait_order)
      /\ (\A t \in Sleeper : wait_at[t] \notin Wait!Adding) =>
           Follows(wait_list', QHead, wait_order')
      /\ \A t \in Sleeper : wait_at[t] \in Wait!Adding => Len(wait_order) > 1
      /\ \A t \in Sleeper : Linked(t)'
  BY <1>1, <1>2, WakeupFirst
<1>4. /\ wait_order \in Seq(Sleeper) /\ IsInjective(wait_order) /\ ToSet(wait_order) = Added
      /\ \A t \in Sleeper : wait_at[t] \in Wait!Adding => wait_order[Len(wait_order)] = t
  BY <1>2 DEF WaitTypes, Ordered
<1>5. /\ w \in Added /\ IsInjective(Tail(wait_order)) /\ ToSet(Tail(wait_order)) = Added \ {w}
      /\ Len(wait_order) > 1 => /\ Tail(wait_order) # <<>>
                                /\ Tail(wait_order)[Len(Tail(wait_order))] = wait_order[Len(wait_order)]
  BY <1>3, <1>4, TailProperties
<1>6. /\ wait_state' = [wait_state EXCEPT ![w] = "running"] /\ wait_at' = wait_at
      /\ wait_off' = wait_off \ {w}
  BY <1>1 DEF Woken
<1>7. w \in Sleeper /\ wait_at[w] \in Wait!Adding \cup {"sleep"}
  BY <1>5 DEF Added
<1>8. \A t \in Sleeper : wait_state'[t] = IF t = w THEN "running" ELSE wait_state[t]
  BY <1>2, <1>6, <1>7 DEF WaitTypes
<1>9. Added' = Added \ {w}
  BY <1>6, <1>8 DEF Added
<1>10. wait_at[w] \notin Entering
  BY <1>2, <1>7 DEF Wait!Meets, Entering, Wait!Adding
<1>11. Alone'
  <2>1. wait_off \subseteq Sleeper
    BY <1>2 DEF WaitTypes
  <2>2. \A u \in wait_off' : wait_at'[u] = "sleep" /\ wait_state'[u] = "uninterruptible"
    BY <1>2, <1>6, <1>8, <2>1 DEF Alone
  <2>3. \A u \in Sleeper : wait_at'[u] \in Entering => wait_state'[u] = "uninterruptible"
    BY <1>2, <1>6, <1>8, <1>10 DEF Alone
  <2>4. \A u, v \in Sleeper : wait_at'[u] \in Entering /\ wait_at'[v] \in Entering => u = v
    BY <1>2, <1>6 DEF Alone
  <2> QED
    BY <2>2, <2>3, <2>4 DEF Alone
<1>12. Ordered'
  BY <1>3, <1>4, <1>5, <1>6, <1>9 DEF Ordered
<1>13. InLine'
  BY <1>3, <1>6 DEF InLine
<1> QED
  BY <1>3, <1>11, <1>12, <1>13

\* Every step keeps the wait queue's invariant, and wakeups take the first of the order.
LEMMA WaitStep ==
  WaitInv /\ Wait!Next =>
    /\ WaitInv'
    /\ ~wait_struck' /\ Len(wait_order') < Len(wait_order) => wait_order' = Tail(wait_order)
<1> SUFFICES ASSUME WaitInv, Wait!Next
             PROVE  /\ WaitInv'
                    /\ ~wait_struck' /\ Len(wait_order') < Len(wait_order)
                         => wait_order' = Tail(wait_order)
  OBVIOUS
<1>1. WaitTypes /\ WaitTypes'
  BY WaitTypeStep DEF WaitInv
<1>2. ASSUME ~wait_struck'
      PROVE  /\ Alone' /\ Ordered' /\ InLine'
             /\ Len(wait_order') < Len(wait_order) => wait_order' = Tail(wait_order)
  <2>1. CASE Wait!Wakeup
    BY <1>2, <2>1, WakeupStep
  <2>2. ASSUME NEW t \in Sleeper, Wait!TaskStep(t)
        PROVE  /\ Alone' /\ Ordered' /\ InLine'
               /\ wait_order' = wait_order \/ wait_order' = Append(wait_order, t)
    <3>1. CASE Wait!SleepOn(t)
      BY <1>2, <3>1, SleepOnStep DEF Wait!SleepOn
    <3>2. CASE Wait!First(t)
      BY <1>2, <3>2, FirstStep DEF Wait!First, Wait!Store
    <3>3. CASE Wait!Second(t)
      BY <1>2, <3>3, SecondStep DEF Wait!Second, Wait!Store
    <3>4. CASE Wait!Third(t)
      BY <1>2, <3>4, ThirdStep DEF Wait!Third, Wait!Store
    <3>5. CASE Wait!Fourth(t)
      BY <1>2, <3>5, FourthStep DEF Wait!Fourth, Wait!Store
    <3>6. CASE Wait!Return(t)
      BY <1>2, <3>6, ReturnStep DEF Wait!Return
    <3>7. CASE Wait!Preempt(t)
      BY <1>2, <3>7, PreemptStep DEF Wait!Preempt
    <3> QED
      BY <2>2, <3>1, <3>2, <3>3, <3>4, <3>5, <3>6, <3>7 DEF Wait!TaskStep
  <2>3. ASSUME NEW t \in Sleeper, wait_order' = wait_order \/ wait_order' = Append(wait_order, t)
        PROVE  ~(Len(wait_order') < Len(wait_order))
    <3>1. Len(Append(wait_order, t)) = Len(wait_order) + 1 /\ Len(wait_order) \in Nat
      BY <1>1 DEF WaitTypes
    <3> QED
      BY <2>3, <3>1
  <2> QED
    BY <2>1, <2>2, <2>3 DEF Wait!Next
<1> QED
  BY <1>1, <1>2 DEF WaitInv

\* What the two pointers of the head can be while the list follows the order.
LEMMA HeadPointers ==
  ASSUME WaitTypes, Alone, Ordered, InLine
  PROVE  /\ wait_list.next[QHead] \in Added \cup {QHead}
         /\ (\A t \in Sleeper : wait_at[t] # "third") =>
              wait_list.prev[QHead] \in Added \cup {QHead}
         /\ Added \ {t \in Sleeper : wait_at[t] \in Wait!Adding}
              \subseteq Visited(wait_list, QHead, Sleeper)
<1> DEFINE o == wait_order
<1>1. /\ QHead \in Wait!Node /\ wait_list \in ListMemory(Wait!Node)
      /\ o \in Seq(Wait!Node) /\ Distinct(QHead, o)
  BY WaitDistinct
<1>2. ToSet(o) = Added /\ Added \subseteq Sleeper /\ DOMAIN o = 1 .. Len(o) /\ Len(o) \in Nat
  BY <1>1 DEF Ordered, Added
<1>3. o # <<>> => Head(o) \in Added /\ o[Len(o)] \in Added
  <2>1. o # <<>> => 1 \in 1 .. Len(o) /\ Len(o) \in 1 .. Len(o) /\ Head(o) = o[1]
    BY <1>1, <1>2
  <2> QED
    BY <1>2, <2>1 DEF ToSet
<1>4. CASE \A t \in Sleeper : wait_at[t] \notin Wait!Adding
  <2>1. Follows(wait_list, QHead, o)
    BY <1>4 DEF InLine
  <2> HIDE DEF o
  <2>2. wait_list.next[QHead] \in Added \cup {QHead} /\ wait_list.prev[QHead] \in Added \cup {QHead}
    BY <1>1, <1>3, <2>1, FollowsEnds
  <2>3. \A i \in 0 .. Len(o) - 1 : wait_list.next[NodeAt(QHead, o, i)] = NodeAt(QHead, o, i + 1)
    BY <1>2, <2>1 DEF Follows
  <2>4. ToSet(o) \subseteq Visited(wait_list, QHead, Sleeper)
    BY <1>1, <1>2, <2>3, VisitedAlong
  <2> QED
    BY <1>2, <2>2, <2>4
<1>5. ASSUME NEW t \in Sleeper, wait_at[t] \in Wait!Adding
      PROVE  /\ wait_list.next[QHead] \in Added \cup {QHead}
             /\ wait_at[t] # "third" => wait_list.prev[QHead] \in Added \cup {QHead}
             /\ Added \ {t} \subseteq Visited(wait_list, QHead, Sleeper)
  <2> DEFINE s == Front(o)
  <2>1. o # <<>> /\ t = o[Len(o)] /\ Linked(t) /\ t \in Added
    BY <1>3, <1>5 DEF Ordered, InLine
  <2>2. /\ s \in Seq(Wait!Node) /\ Distinct(QHead, s) /\ t \in Wait!Node /\ t # QHead
        /\ t \notin ToSet(s) /\ ToSet(s) = Added \ {t}
    BY <2>1, OrderFront
  <2>3. CASE wait_at[t] = "second"
    <3>1. HalfLinked(wait_list, QHead, s, t)
      BY <2>1, <2>3 DEF Linked
    <3> HIDE DEF o, s
    <3>2. /\ wait_list.prev[QHead] = IF s = <<>> THEN QHead ELSE s[Len(s)]
          /\ wait_list.next[QHead] = IF s = <<>> THEN t ELSE Head(s)
      BY <1>1, <2>2, <3>1, HalfLinkedEnds
    <3>3. s # <<>> => Head(s) \in ToSet(s) /\ s[Len(s)] \in ToSet(s)
      <4>1. s # <<>> => /\ 1 \in 1 .. Len(s) /\ Len(s) \in 1 .. Len(s) /\ Head(s) = s[1]
                        /\ DOMAIN s = 1 .. Len(s)
        BY <2>2
      <4> QED
        BY <4>1 DEF ToSet
    <3>4. \A i \in 0 .. Len(s) - 1 : wait_list.next[NodeAt(QHead, s, i)] = NodeAt(QHead, s, i + 1)
      BY <1>1, <2>2, <3>1, HalfLinkedAlong
    <3>5. ToSet(s) \subseteq Visited(wait_list, QHead, Sleeper)
      <4>1. ToSet(s) \subseteq Sleeper
        BY <1>2, <2>2
      <4> QED
        BY <1>1, <2>2, <3>4, <4>1, VisitedAlong
    <3> QED
      BY <2>1, <2>2, <3>2, <3>3, <3>5
  <2>4. ASSUME NEW both \in BOOLEAN,
               Follows(Completed(wait_list, QHead, t, both), QHead, o)
        PROVE  /\ wait_list.next[QHead] \in Added \cup {QHead}
               /\ ~both => wait_list.prev[QHead] \in Added \cup {QHead}
               /\ Added \ {t} \subseteq Visited(wait_list, QHead, Sleeper)
    <3> HIDE DEF o, s
    <3>1. t \in Wait!Node /\ t # QHead /\ o[Len(o)] = t
      BY <2>1, <2>2
    <3>2. /\ wait_list.next[QHead] = Head(o)
          /\ ~both => wait_list.prev[QHead] = t
          /\ \A i \in 0 .. Len(o) - 1 : wait_list.next[NodeAt(QHead, o, i)] = NodeAt(QHead, o, i + 1)
      BY <1>1, <2>1, <2>4, <3>1, CompletedAlong
    <3>3. ToSet(o) \subseteq Visited(wait_list, QHead, Sleeper)
      BY <1>1, <1>2, <3>2, VisitedAlong
    <3>4. Added \ {t} \subseteq Visited(wait_list, QHead, Sleeper)
      BY <1>2, <3>3
    <3>5. wait_list.next[QHead] \in Added
      BY <1>3, <2>1, <3>2
    <3>6. ~both => wait_list.prev[QHead] \in Added
      BY <2>1, <3>2
    <3> QED
      BY <3>4, <3>5, <3>6
  <2>5. CASE wait_at[t] = "third"
    <3>1. Follows(Completed(wait_list, QHead, t, TRUE), QHead, o)
      BY <2>1, <2>5 DEF Linked
    <3> QED
      BY <2>4, <2>5, <3>1
  <2>6. CASE wait_at[t] = "fourth"
    <3>1. Follows(Completed(wait_list, QHead, t, FALSE), QHead, o)
      BY <2>1, <2>6 DEF Linked
    <3> QED
      BY <2>4, <3>1
  <2> QED
    BY <1>5, <2>3, <2>5, <2>6 DEF Wait!Adding
<1> QED
  BY <1>4, <1>5

\* The invariant gives what the run checks.
LEMMA WaitInvSound == WaitInv => WaitSound
<1> SUFFICES ASSUME WaitInv PROVE WaitSound
  OBVIOUS
<1>1. Wait!TypeOK /\ WaitTypes
  BY SameTypes DEF WaitInv
<1> SUFFICES ASSUME ~wait_struck
             PROVE  Wait!WaitListSound /\ Wait!NoDeadNode /\ Wait!SleepersFound
  BY <1>1 DEF WaitSound, Wait!Sound, Wait!WaitListSound, Wait!NoDeadNode, Wait!SleepersFound
<1>2. Alone /\ Ordered /\ InLine
  BY DEF WaitInv
<1>3. /\ wait_list.next[QHead] \in Added \cup {QHead}
      /\ (\A t \in Sleeper : wait_at[t] # "third") => wait_list.prev[QHead] \in Added \cup {QHead}
      /\ Added \ {t \in Sleeper : wait_at[t] \in Wait!Adding}
           \subseteq Visited(wait_list, QHead, Sleeper)
  BY <1>1, <1>2, HeadPointers
<1>4. QHead \notin Sleeper /\ wait_off \subseteq Sleeper
  BY <1>1, <1>2, WaitDistinct DEF WaitTypes
<1>5. Wait!WaitListSound
  <2> SUFFICES ASSUME \A t \in Sleeper : wait_at[t] \notin Wait!Adding
               PROVE  WellLinked(wait_list, Wait!Waiters \cup {QHead}, QHead)
    BY SameLists DEF Wait!WaitListSound
  <2>1. Added = Wait!Waiters
    BY DEF Added, Wait!Waiters
  <2>2. Follows(wait_list, QHead, wait_order) /\ ToSet(wait_order) = Wait!Waiters
    BY <1>2, <2>1 DEF InLine, Ordered
  <2>3. WellLinked(wait_list, ToSet(wait_order) \cup {QHead}, QHead)
    BY <1>1, <1>2, <2>2, WaitDistinct, FollowsWellLinked
  <2> QED
    BY <2>2, <2>3
<1>6. Wait!NoDeadNode
  <2>1. ASSUME NEW t \in Sleeper, wait_at[t] = "out"
        PROVE  t \notin Added \cup {QHead}
    BY <1>4, <2>1 DEF Added, Wait!Adding
  <2> QED
    BY <1>3, <2>1 DEF Wait!NoDeadNode
<1>7. Wait!SleepersFound
  <2>1. ASSUME NEW t \in wait_off
        PROVE  t \in Wait!Waiters /\ t \in Visited(wait_list, QHead, Sleeper)
    <3>1. t \in Sleeper /\ wait_at[t] = "sleep" /\ wait_state[t] = "uninterruptible"
      BY <1>2, <1>4 DEF Alone
    <3> QED
      BY <1>3, <3>1 DEF Added, Wait!Waiters, Wait!Adding
  <2> QED
    BY <2>1, SameLists DEF Wait!SleepersFound
<1> QED
  BY <1>5, <1>6, <1>7

\* A step of any of the three machines.
LEMMA AllStep ==
  WaitInv /\ [AllNext]_allVars =>
    WaitInv' /\ [~wait_struck' /\ Len(wait_order') < Len(wait_order)
                   => wait_order' = Tail(wait_order)]_waitVars
<1> SUFFICES ASSUME WaitInv, [AllNext]_allVars
             PROVE  /\ WaitInv'
                    /\ [~wait_struck' /\ Len(wait_order') < Len(wait_order)
                          => wait_order' = Tail(wait_order)]_waitVars
  OBVIOUS
<1>1. Wait!Next \/ UNCHANGED waitVars
  BY DEF AllNext, SchedulerNext, ForkNext, WaitNext, allVars
<1>2. CASE Wait!Next
  BY <1>2, WaitStep
<1>3. CASE UNCHANGED waitVars
  BY <1>3 DEF waitVars, WaitInv, WaitTypes, Alone, Ordered, Added, InLine, Linked
<1> QED
  BY <1>1, <1>2, <1>3

\* It holds in every reachable state.
LEMMA WaitInductive == AllSpec => []WaitInv
<1>1. AllInit => WaitInv
  BY WaitInit DEF AllInit
<1> QED
  BY <1>1, AllStep, PTL DEF AllSpec

\* Whatever wakeup comes between the stores of sleep_on without meeting an addition
\* where it must not, the list is one ring of the head and the nodes that wait, its head
\* never leads to the node of a task that has returned, and every task that lost the
\* processor in it is found (waitqueue.c:16, 38).
THEOREM WaitQueueSound == AllSpec => []WaitSound
<1> QED
  BY WaitInductive, WaitInvSound, PTL

\* Tasks are woken in the order of their calls of sleep_on (waitqueue.c:38).
THEOREM WakesInTurn == AllSpec => WakesInOrder
<1>1. WaitInv /\ [AllNext]_allVars =>
        [~wait_struck' /\ Len(wait_order') < Len(wait_order)
           => wait_order' = Tail(wait_order)]_waitVars
  BY AllStep
<1> QED
  BY <1>1, WaitInductive, PTL DEF AllSpec, WakesInOrder, Wait!InOrder, waitVars, Wait!vars

-----------------------------------------------------------------------------
\* do_fork's additions.  The queue is the sequence s of the tasks between which additions
\* are under way at some places: behind the g[t]-th node, for each task t of A.  p says
\* how far the addition is, c what is added and m before which node.
Node(s, i) == NodeAt(QHead, s, i)

\* Neighbours are linked, but for those between which something is being added.
Chain(l, s, open) ==
  \A i \in 0 .. Len(s) \ open : /\ l.next[Node(s, i)] = Node(s, i + 1)
                                /\ l.prev[Node(s, i + 1)] = Node(s, i)

\* The stores so far of an addition of c between a and b.
Stored(l, a, b, c, place) ==
  /\ l.next[a] = c
  /\ place \in {"second", "third"} => l.prev[b] = a
  /\ place = "fourth" => l.prev[b] = c
  /\ place \in {"third", "fourth"} => l.prev[c] = a

Open(g, A) == {g[t] : t \in A}

Shape(l, s, g, A, p, c, m) ==
  /\ l \in ListMemory(Cell) /\ s \in Seq(Task) /\ Distinct(QHead, s)
  /\ Chain(l, s, Open(g, A))
  /\ \A t \in A : /\ g[t] \in 0 .. Len(s) /\ m[t] = Node(s, g[t] + 1)
                  /\ Stored(l, Node(s, g[t]), m[t], c[t], p[t])
  /\ \A t, u \in A : g[t] = g[u] => t = u

\* The children that are not linked yet; each of them still leads to itself.
Loose(l, s, A, c, D) ==
  /\ D \in SUBSET (Task \ ToSet(s))
  /\ \A d \in D : l.next[d] = d
  /\ \A t \in A : c[t] \in D
  /\ \A t, u \in A : c[t] = c[u] => t = u

\* The tasks of W stand in front of where they add.
InFront(s, g, W) == \A t \in W : \E j \in 1 .. Len(s) : j < g[t] /\ s[j] = t

\* In the order of the vruntimes, with those that are being added.
InOrder(s, g, A, c, v) ==
  /\ \A j \in 1 .. Len(s) - 1 : v[s[j]] <= v[s[j + 1]]
  /\ \A t \in A : /\ g[t] > 0 => v[s[g[t]]] <= v[c[t]]
                  /\ g[t] < Len(s) => v[c[t]] <= v[s[g[t] + 1]]

\* The nodes of the queue are different.
LEMMA NodesDiffer ==
  ASSUME NEW s \in Seq(Task), Distinct(QHead, s)
  PROVE  /\ Len(s) \in Nat
         /\ \A i \in 0 .. Len(s) + 1 : Node(s, i) \in ToSet(s) \cup {QHead} /\ Node(s, i) \in Cell
         /\ \A i \in 1 .. Len(s) : Node(s, i) = s[i] /\ s[i] \in Task
         /\ Node(s, 0) = QHead /\ Node(s, Len(s) + 1) = QHead
         /\ \A i, j \in 0 .. Len(s) : Node(s, i) = Node(s, j) => i = j
         /\ \A i, j \in 1 .. Len(s) + 1 : Node(s, i) = Node(s, j) => i = j
         /\ \A x \in ToSet(s) : \E i \in 1 .. Len(s) : s[i] = x
<1>1. Len(s) \in Nat /\ \A i \in 1 .. Len(s) : s[i] \in Task /\ s[i] \in ToSet(s)
  BY DEF ToSet
<1>2. \A i, j \in 0 .. Len(s) : Node(s, i) = Node(s, j) => i = j
  <2>1. s \in Seq(Cell) /\ QHead \in Cell
    BY DEF Cell
  <2> QED
    BY <2>1, DistinctPlaces DEF Node
<1>3. Node(s, 0) = QHead /\ Node(s, Len(s) + 1) = QHead
  BY <1>1 DEF Node, NodeAt
<1>4. \A i \in 1 .. Len(s) : Node(s, i) = s[i] /\ Node(s, i) # QHead
  BY <1>1 DEF Node, NodeAt, Distinct
<1>5. ASSUME NEW i \in 1 .. Len(s) + 1, NEW j \in 1 .. Len(s) + 1, Node(s, i) = Node(s, j)
      PROVE  i = j
  <2>1. CASE i \in 1 .. Len(s) /\ j \in 1 .. Len(s)
    BY <1>2, <1>5, <2>1
  <2>2. CASE i = Len(s) + 1 \/ j = Len(s) + 1
    BY <1>1, <1>3, <1>4, <1>5, <2>2
  <2> QED
    BY <1>1, <2>1, <2>2
<1>6. \A i \in 0 .. Len(s) + 1 : Node(s, i) \in ToSet(s) \cup {QHead}
  BY <1>1 DEF Node, NodeAt
<1>7. ToSet(s) \subseteq Task /\ \A x \in ToSet(s) : \E i \in 1 .. Len(s) : s[i] = x
  BY <1>1 DEF ToSet
<1> QED
  BY <1>1, <1>2, <1>3, <1>4, <1>5, <1>6, <1>7 DEF Cell

\* A task linked between the i-th node and the next; what was open beyond is one further.
Further(o, i) == IF o > i THEN o + 1 ELSE o

\* r is s with x behind its i-th task.
IsSpliced(r, s, i, x) ==
  /\ r \in Seq(Task) /\ Distinct(QHead, r) /\ Len(r) = Len(s) + 1
  /\ ToSet(r) = ToSet(s) \cup {x}
  /\ \A j \in 0 .. Len(s) + 2 :
       Node(r, j) = IF j <= i THEN Node(s, j) ELSE IF j = i + 1 THEN x ELSE Node(s, j - 1)

\* What the sequence then is.
LEMMA Spliced ==
  ASSUME NEW s \in Seq(Task), Distinct(QHead, s), NEW i \in 0 .. Len(s),
         NEW x \in Task, x \notin ToSet(s)
  PROVE  IsSpliced(InsertAt(s, i + 1, x), s, i, x)
<1> DEFINE r == InsertAt(s, i + 1, x)
<1>1. i + 1 \in 1 .. Len(s) + 1 /\ Len(s) \in Nat
  OBVIOUS
<1>2. /\ r \in Seq(Task) /\ Len(r) = Len(s) + 1
      /\ \A j \in 1 .. Len(r) :
           r[j] = IF j < i + 1 THEN s[j] ELSE IF j = i + 1 THEN x ELSE s[j - 1]
      /\ ToSet(r) = ToSet(s) \cup {x}
  BY <1>1, InsertAtProperties
<1> HIDE DEF r
<1>3. \A j \in 0 .. Len(s) + 2 :
        Node(r, j) = IF j <= i THEN Node(s, j) ELSE IF j = i + 1 THEN x ELSE Node(s, j - 1)
  BY <1>1, <1>2 DEF Node, NodeAt
<1>4. QHead \notin ToSet(r)
  BY <1>2, TaskAssumption DEF Distinct
<1>5. IsInjective(r)
  <2> SUFFICES ASSUME NEW a \in 1 .. Len(r), NEW b \in 1 .. Len(r), r[a] = r[b]
               PROVE  a = b
    BY <1>2 DEF IsInjective
  <2>1. \A j \in 1 .. Len(s) : s[j] # x
    BY DEF ToSet
  <2>2. \A j, k \in 1 .. Len(s) : s[j] = s[k] => j = k
    BY DEF Distinct, IsInjective
  <2>3. Len(r) = Len(s) + 1
    BY <1>2
  <2>4. \A j \in 1 .. Len(r) :
          r[j] = IF j < i + 1 THEN s[j] ELSE IF j = i + 1 THEN x ELSE s[j - 1]
    BY <1>2
  <2>5. \A j \in 1 .. Len(r) : j < i + 1 => r[j] = s[j] /\ j \in 1 .. Len(s)
    BY <1>1, <2>3, <2>4
  <2>6. \A j \in 1 .. Len(r) : j > i + 1 => r[j] = s[j - 1] /\ j - 1 \in 1 .. Len(s)
    BY <1>1, <2>3, <2>4
  <2>7. \A j \in 1 .. Len(r) : j = i + 1 => r[j] = x
    BY <1>1, <2>4
  <2>8. CASE a < i + 1 /\ b < i + 1
    BY <2>2, <2>5, <2>8
  <2>9. CASE a > i + 1 /\ b > i + 1
    <3>1. a - 1 = b - 1
      BY <2>2, <2>6, <2>9
    <3> QED
      BY <3>1
  <2>10. CASE a < i + 1 /\ b > i + 1
    <3>1. a = b - 1
      BY <2>2, <2>5, <2>6, <2>10
    <3> QED
      BY <2>10, <3>1
  <2>11. CASE a > i + 1 /\ b < i + 1
    <3>1. a - 1 = b
      BY <2>2, <2>5, <2>6, <2>11
    <3> QED
      BY <2>11, <3>1
  <2>12. CASE a = i + 1 \/ b = i + 1
    BY <1>1, <2>1, <2>5, <2>6, <2>7, <2>12
  <2> QED
    BY <1>1, <2>3, <2>8, <2>9, <2>10, <2>11, <2>12
<1> QED
  BY <1>2, <1>3, <1>4, <1>5 DEF r, Distinct, IsSpliced

\* x has been linked between a and b.
PutBetween(k, l, a, b, x) ==
  /\ k.next[a] = x /\ k.next[x] = b /\ k.prev[b] = x /\ k.prev[x] = a
  /\ \A n \in Cell \ {a, x} : k.next[n] = l.next[n]
  /\ \A n \in Cell \ {b, x} : k.prev[n] = l.prev[n]

\* What the chain then is.
LEMMA ChainSpliced ==
  ASSUME NEW l \in ListMemory(Cell), NEW k \in ListMemory(Cell), NEW s \in Seq(Task),
         Distinct(QHead, s), NEW open \in SUBSET (0 .. Len(s)), Chain(l, s, open),
         NEW i \in 0 .. Len(s), NEW x \in Task \ ToSet(s),
         PutBetween(k, l, Node(s, i), Node(s, i + 1), x)
  PROVE  Chain(k, InsertAt(s, i + 1, x), {Further(o, i) : o \in open \ {i}})
<1> PICK r : r = InsertAt(s, i + 1, x)
  OBVIOUS
<1>1. /\ Len(r) = Len(s) + 1
      /\ \A j \in 0 .. Len(s) + 2 :
           Node(r, j) = IF j <= i THEN Node(s, j) ELSE IF j = i + 1 THEN x ELSE Node(s, j - 1)
  <2>1. x \in Task /\ x \notin ToSet(s)
    OBVIOUS
  <2>2. IsSpliced(InsertAt(s, i + 1, x), s, i, x)
    BY <2>1, Spliced
  <2>3. IsSpliced(r, s, i, x)
    BY <2>2
  <2> QED
    BY <2>3 DEF IsSpliced
<1>2. /\ Len(s) \in Nat
      /\ \A j \in 0 .. Len(s) + 1 : Node(s, j) \in Cell /\ Node(s, j) # x
  BY NodesDiffer, TaskAssumption
<1>3. /\ \A a, b \in 0 .. Len(s) : Node(s, a) = Node(s, b) => a = b
      /\ \A a, b \in 1 .. Len(s) + 1 : Node(s, a) = Node(s, b) => a = b
  BY NodesDiffer
<1>6. /\ k.next[Node(s, i)] = x /\ k.next[x] = Node(s, i + 1)
      /\ k.prev[Node(s, i + 1)] = x /\ k.prev[x] = Node(s, i)
      /\ \A n \in Cell \ {Node(s, i), x} : k.next[n] = l.next[n]
      /\ \A n \in Cell \ {Node(s, i + 1), x} : k.prev[n] = l.prev[n]
  BY DEF PutBetween
<1>4. \A j \in 0 .. Len(s) \ open : /\ l.next[Node(s, j)] = Node(s, j + 1)
                                    /\ l.prev[Node(s, j + 1)] = Node(s, j)
  BY DEF Chain
<1> DEFINE further == {Further(o, i) : o \in open \ {i}}
<1>5. ASSUME NEW j \in 0 .. Len(r), j \notin further
      PROVE  k.next[Node(r, j)] = Node(r, j + 1) /\ k.prev[Node(r, j + 1)] = Node(r, j)
  <2>1. CASE j < i
    <3>1. j \in 0 .. Len(s) \ open
      <4>1. Further(j, i) = j
        BY <2>1, <1>2 DEF Further
      <4> QED
        BY <1>2, <1>5, <2>1, <4>1
    <3>2. Node(r, j) = Node(s, j) /\ Node(r, j + 1) = Node(s, j + 1)
      BY <1>1, <1>2, <2>1
    <3>3. Node(s, j) # Node(s, i) /\ Node(s, j + 1) # Node(s, i + 1)
      BY <1>2, <1>3, <2>1
    <3>4. Node(s, j) \in Cell \ {Node(s, i), x} /\ Node(s, j + 1) \in Cell \ {Node(s, i + 1), x}
      BY <1>2, <2>1, <3>3
    <3> QED
      BY <1>4, <1>6, <3>1, <3>2, <3>4
  <2>2. CASE j = i
    <3>1. Node(r, j) = Node(s, i) /\ Node(r, j + 1) = x
      BY <1>1, <1>2, <2>2
    <3> QED
      BY <1>6, <3>1
  <2>3. CASE j = i + 1
    <3>1. Node(r, j) = x /\ Node(r, j + 1) = Node(s, i + 1)
      BY <1>1, <1>2, <2>3
    <3> QED
      BY <1>6, <3>1
  <2>4. CASE j > i + 1
    <3> PICK a \in 0 .. Len(s) : j = a + 1 /\ a > i
      BY <1>1, <1>2, <2>4
    <3>1. a \notin open
      <4>1. Further(a, i) = j
        BY DEF Further
      <4> QED
        BY <1>5, <4>1
    <3>2. Node(r, j) = Node(s, a) /\ Node(r, j + 1) = Node(s, a + 1)
      BY <1>1, <1>2
    <3>3. Node(s, a) # Node(s, i) /\ Node(s, a + 1) # Node(s, i + 1)
      BY <1>2, <1>3
    <3>4. Node(s, a) \in Cell \ {Node(s, i), x} /\ Node(s, a + 1) \in Cell \ {Node(s, i + 1), x}
      BY <1>2, <3>3
    <3> QED
      BY <1>4, <1>6, <3>1, <3>2, <3>4
  <2> QED
    BY <1>1, <1>2, <2>1, <2>2, <2>3, <2>4
<1> QED
  BY <1>5 DEF Chain

\* list_add_before (lib.h:47) where nothing is being added.
LEMMA ShapeInsert ==
  ASSUME NEW l, NEW s, NEW g, NEW A, NEW p, NEW c, NEW m, NEW D,
         Shape(l, s, g, A, p, c, m), Loose(l, s, A, c, D),
         NEW i \in 0 .. Len(s), i \notin Open(g, A), NEW x \in Task \ (ToSet(s) \cup D)
  PROVE  LET k == ListAddBefore(l, Node(s, i + 1), x)
             r == InsertAt(s, i + 1, x)
             h == [t \in A |-> Further(g[t], i)]
         IN  Shape(k, r, h, A, p, c, m) /\ Loose(k, r, A, c, D)
<1> PICK a \in Cell, b \in Cell : a = Node(s, i) /\ b = Node(s, i + 1)
  BY NodesDiffer DEF Shape
<1> PICK k : k = ListAddBefore(l, b, x)
  OBVIOUS
<1> PICK r : r = InsertAt(s, i + 1, x)
  OBVIOUS
<1> PICK h : h = [t \in A |-> Further(g[t], i)]
  OBVIOUS
<1>1. l \in ListMemory(Cell) /\ s \in Seq(Task) /\ Distinct(QHead, s) /\ Len(s) \in Nat
  BY NodesDiffer DEF Shape
<1>2. /\ \A j \in 0 .. Len(s) + 1 : Node(s, j) \in ToSet(s) \cup {QHead} /\ Node(s, j) \in Cell
      /\ \A j, n \in 0 .. Len(s) : Node(s, j) = Node(s, n) => j = n
      /\ \A j, n \in 1 .. Len(s) + 1 : Node(s, j) = Node(s, n) => j = n
  BY <1>1, NodesDiffer
<1>3. l.prev[b] = a /\ a # x /\ b # x /\ x \in Cell /\ x # QHead
  <2>1. l.prev[b] = a
    BY DEF Shape, Chain
  <2> QED
    BY <1>1, <1>2, <2>1, TaskAssumption DEF Cell
<1>4. /\ k \in ListMemory(Cell)
      /\ \A n \in Cell : /\ k.next[n] = IF n = x THEN b ELSE IF n = a THEN x ELSE l.next[n]
                         /\ k.prev[n] = IF n = b THEN x ELSE IF n = x THEN a ELSE l.prev[n]
  BY <1>1, <1>3, AddBeforeFields
<1>5. /\ r \in Seq(Task) /\ Distinct(QHead, r) /\ Len(r) = Len(s) + 1
      /\ ToSet(r) = ToSet(s) \cup {x}
      /\ \A j \in 0 .. Len(s) + 2 :
           Node(r, j) = IF j <= i THEN Node(s, j) ELSE IF j = i + 1 THEN x ELSE Node(s, j - 1)
  <2>1. x \in Task /\ x \notin ToSet(s)
    OBVIOUS
  <2>2. IsSpliced(InsertAt(s, i + 1, x), s, i, x)
    BY <1>1, <2>1, Spliced
  <2>3. IsSpliced(r, s, i, x)
    BY <2>2
  <2> QED
    BY <2>3 DEF IsSpliced
<1>6. Chain(k, r, Open(h, A))
  <2>1. Chain(l, s, Open(g, A)) /\ Open(g, A) \in SUBSET (0 .. Len(s))
    BY DEF Shape, Open
  <2>2. Chain(k, InsertAt(s, i + 1, x), {Further(o, i) : o \in Open(g, A) \ {i}})
    <3>1. x \in Task \ ToSet(s)
      OBVIOUS
    <3>2. /\ k.next[a] = x /\ k.next[x] = b /\ k.prev[b] = x /\ k.prev[x] = a
          /\ \A n \in Cell \ {a, x} : k.next[n] = l.next[n]
          /\ \A n \in Cell \ {b, x} : k.prev[n] = l.prev[n]
      BY <1>3, <1>4
    <3>3. k \in ListMemory(Cell) /\ Chain(l, s, Open(g, A))
      BY <1>4, <2>1
    <3>4. /\ s \in Seq(Task) /\ Distinct(QHead, s) /\ i \in 0 .. Len(s)
          /\ l \in ListMemory(Cell) /\ Open(g, A) \in SUBSET (0 .. Len(s))
      BY <1>1, <2>1
    <3> PICK y \in Task \ ToSet(s) : y = x
      BY <3>1
    <3> PICK open \in SUBSET (0 .. Len(s)) : open = Open(g, A)
      BY <3>4
    <3>5. PutBetween(k, l, Node(s, i), Node(s, i + 1), y) /\ Chain(l, s, open)
      BY <3>2, <3>3 DEF PutBetween
    <3>6. Chain(k, InsertAt(s, i + 1, y), {Further(o, i) : o \in open \ {i}})
      BY <3>3, <3>4, <3>5, ChainSpliced
    <3> QED
      BY <3>6
  <2>3. {Further(o, i) : o \in Open(g, A) \ {i}} = Open(h, A)
    BY DEF Open
  <2> QED
    BY <2>2, <2>3
<1>7. ASSUME NEW t \in A
      PROVE  /\ h[t] \in 0 .. Len(r) /\ m[t] = Node(r, h[t] + 1)
             /\ Stored(k, Node(r, h[t]), m[t], c[t], p[t])
  <2> PICK e \in 0 .. Len(s) : e = g[t]
    BY DEF Shape
  <2> PICK f \in 0 .. Len(r) : f = h[t] /\ f = Further(e, i)
    BY <1>1, <1>5 DEF Further
  <2>1. e # i
    BY DEF Open
  <2>2. Node(r, f) = Node(s, e) /\ Node(r, f + 1) = Node(s, e + 1)
    <3>1. CASE e < i
      <4>1. f = e /\ f <= i /\ f + 1 <= i
        BY <1>1, <3>1 DEF Further
      <4>2. f \in 0 .. Len(s) + 2 /\ f + 1 \in 0 .. Len(s) + 2
        BY <1>1, <4>1
      <4>3. Node(r, f) = Node(s, f)
        BY <1>5, <4>1, <4>2
      <4>4. Node(r, f + 1) = Node(s, f + 1)
        BY <1>5, <4>1, <4>2
      <4> QED
        BY <4>1, <4>3, <4>4
    <3>2. CASE e > i
      <4>1. f = e + 1 /\ f - 1 = e /\ (f + 1) - 1 = e + 1 /\ f > i + 1
        BY <1>1, <3>2 DEF Further
      <4>2. f \in 0 .. Len(s) + 2 /\ f + 1 \in 0 .. Len(s) + 2
        BY <1>1, <1>5
      <4>3. Node(r, f) = Node(s, f - 1)
        BY <1>1, <1>5, <4>1, <4>2
      <4>4. Node(r, f + 1) = Node(s, (f + 1) - 1)
        BY <1>1, <1>5, <4>1, <4>2
      <4> QED
        BY <4>1, <4>3, <4>4
    <3> QED
      BY <1>1, <2>1, <3>1, <3>2
  <2>3. Node(s, e) \in Cell /\ Node(s, e) # a /\ Node(s, e) # x
    BY <1>1, <1>2, <1>3, <2>1
  <2>4. Node(s, e + 1) \in Cell /\ Node(s, e + 1) # b /\ Node(s, e + 1) # x
    BY <1>1, <1>2, <1>3, <2>1
  <2>5. c[t] \in Cell /\ c[t] # x /\ c[t] # b /\ c[t] # a
    <3>1. c[t] \in D /\ c[t] \in Task /\ c[t] \notin ToSet(s)
      BY DEF Loose
    <3> QED
      BY <1>1, <1>2, <3>1, TaskAssumption DEF Cell
  <2>6. m[t] = Node(s, e + 1) /\ Stored(l, Node(s, e), m[t], c[t], p[t])
    BY DEF Shape
  <2>7. /\ k.next[Node(s, e)] = l.next[Node(s, e)] /\ k.prev[m[t]] = l.prev[m[t]]
        /\ k.prev[c[t]] = l.prev[c[t]]
    BY <1>4, <2>3, <2>4, <2>5, <2>6
  <2> QED
    BY <2>2, <2>6, <2>7 DEF Stored
<1>8. \A t, u \in A : h[t] = h[u] => t = u
  <2>1. \A t \in A : g[t] \in 0 .. Len(s)
    BY DEF Shape
  <2>2. \A t, u \in A : h[t] = h[u] => g[t] = g[u]
    BY <1>1, <2>1 DEF Further
  <2> QED
    BY <2>2 DEF Shape
<1>9. Shape(k, r, h, A, p, c, m)
  BY <1>4, <1>5, <1>6, <1>7, <1>8 DEF Shape
<1>10. Loose(k, r, A, c, D)
  <2>1. \A d \in D : d \in Cell /\ d # x /\ d # a
    BY <1>1, <1>2, TaskAssumption DEF Loose, Cell
  <2> QED
    BY <1>4, <1>5, <2>1 DEF Loose
<1> QED
  BY <1>9, <1>10

\* list_delete of the first task, when nothing is being added beside it.
LEMMA ShapeDelete ==
  ASSUME NEW l, NEW s, NEW g, NEW A, NEW p, NEW c, NEW m, NEW D,
         Shape(l, s, g, A, p, c, m), Loose(l, s, A, c, D),
         s # <<>>, 0 \notin Open(g, A), 1 \notin Open(g, A)
  PROVE  LET k == ListDelete(l, s[1])
             r == Tail(s)
             h == [t \in A |-> g[t] - 1]
         IN  /\ Shape(k, r, h, A, p, c, m) /\ Loose(k, r, A, c, D)
             /\ l.next[QHead] = s[1] /\ s[1] \in Task
             /\ Len(r) = Len(s) - 1 /\ ToSet(r) = ToSet(s) \ {s[1]}
             /\ \A j \in 1 .. Len(r) : r[j] = s[j + 1]
<1> PICK n \in Task : n = s[1]
  BY DEF Shape
<1> PICK k : k = ListDelete(l, n)
  OBVIOUS
<1> PICK r : r = Tail(s)
  OBVIOUS
<1> PICK h : h = [t \in A |-> g[t] - 1]
  OBVIOUS
<1>1. /\ l \in ListMemory(Cell) /\ s \in Seq(Task) /\ Distinct(QHead, s)
      /\ Len(s) \in Nat /\ Len(s) > 0
  BY NodesDiffer DEF Shape
<1>2. /\ \A j \in 0 .. Len(s) + 1 : Node(s, j) \in ToSet(s) \cup {QHead} /\ Node(s, j) \in Cell
      /\ \A j, i \in 0 .. Len(s) : Node(s, j) = Node(s, i) => j = i
      /\ \A j, i \in 1 .. Len(s) + 1 : Node(s, j) = Node(s, i) => j = i
      /\ Node(s, 0) = QHead /\ Node(s, 1) = n
      /\ n \in Cell /\ n \in ToSet(s) /\ n # QHead
  BY <1>1, NodesDiffer, TaskAssumption DEF Cell, ToSet
<1>3. /\ r \in Seq(Task) /\ Len(r) = Len(s) - 1 /\ Distinct(QHead, r)
      /\ ToSet(r) = ToSet(s) \ {n}
      /\ \A j \in 1 .. Len(r) : r[j] = s[j + 1]
  BY <1>1, TailProperties DEF Distinct
<1>4. \A j \in 1 .. Len(s) : Node(r, j) = Node(s, j + 1)
  BY <1>1, <1>3 DEF Node, NodeAt
<1>5. Node(r, 0) = QHead
  BY DEF Node, NodeAt
<1>6. /\ l.next[QHead] = n /\ l.prev[n] = QHead
      /\ l.next[n] = Node(s, 2) /\ l.prev[Node(s, 2)] = n
  <2>1. 0 \in 0 .. Len(s) \ Open(g, A) /\ 1 \in 0 .. Len(s) \ Open(g, A)
    BY <1>1
  <2> QED
    BY <1>2, <2>1 DEF Shape, Chain
<1>7. /\ k \in ListMemory(Cell)
      /\ \A x \in Cell : /\ k.next[x] = IF x = QHead THEN Node(s, 2) ELSE l.next[x]
                         /\ k.prev[x] = IF x = Node(s, 2) THEN QHead ELSE l.prev[x]
  <2>1. /\ k \in ListMemory(Cell)
        /\ \A x \in Cell : /\ k.next[x] = IF x = l.prev[n] THEN l.next[n] ELSE l.next[x]
                           /\ k.prev[x] = IF x = l.next[n] THEN l.prev[n] ELSE l.prev[x]
    BY <1>1, <1>2, DeleteFields
  <2> QED
    BY <1>6, <2>1
<1>8. \A o \in Open(g, A) : o \in 2 .. Len(s)
  BY <1>1 DEF Shape, Open
<1>9. ASSUME NEW j \in 0 .. Len(r), j \notin Open(h, A)
      PROVE  k.next[Node(r, j)] = Node(r, j + 1) /\ k.prev[Node(r, j + 1)] = Node(r, j)
  <2>1. CASE j = 0
    <3>1. Node(r, j + 1) = Node(s, 2)
      BY <1>1, <1>4, <2>1
    <3>2. QHead \in Cell /\ Node(s, 2) \in Cell
      BY <1>1, <1>2
    <3> QED
      BY <1>5, <1>7, <2>1, <3>1, <3>2
  <2>2. CASE j > 0
    <3> PICK i \in 2 .. Len(s) : i = j + 1
      BY <1>3, <2>2
    <3>1. Node(r, j) = Node(s, i) /\ Node(r, j + 1) = Node(s, i + 1)
      BY <1>3, <1>4, <2>2
    <3>2. i \notin Open(g, A)
      <4>1. \A t \in A : h[t] = g[t] - 1 /\ g[t] \in 0 .. Len(s)
        BY DEF Shape
      <4> QED
        BY <1>9, <4>1 DEF Open
    <3>3. l.next[Node(s, i)] = Node(s, i + 1) /\ l.prev[Node(s, i + 1)] = Node(s, i)
      BY <3>2 DEF Shape, Chain
    <3>4. Node(s, i) # QHead /\ Node(s, i) \in Cell
      BY <1>1, <1>2
    <3>5. Node(s, i + 1) # Node(s, 2) /\ Node(s, i + 1) \in Cell
      BY <1>1, <1>2
    <3> QED
      BY <1>7, <3>1, <3>3, <3>4, <3>5
  <2> QED
    BY <2>1, <2>2
<1>10. ASSUME NEW t \in A
       PROVE  /\ h[t] \in 0 .. Len(r) /\ m[t] = Node(r, h[t] + 1)
              /\ Stored(k, Node(r, h[t]), m[t], c[t], p[t])
  <2> PICK e \in 2 .. Len(s) : e = g[t]
    BY <1>8 DEF Open
  <2> PICK f \in 1 .. Len(r) : f = h[t] /\ e = f + 1
    BY <1>3
  <2>1. Node(r, f) = Node(s, e) /\ Node(r, f + 1) = Node(s, e + 1)
    BY <1>1, <1>3, <1>4
  <2>2. Node(s, e) \in Cell /\ Node(s, e) # QHead
    BY <1>1, <1>2
  <2>3. Node(s, e + 1) \in Cell /\ Node(s, e + 1) # Node(s, 2)
    BY <1>1, <1>2
  <2>4. c[t] \in Cell /\ c[t] # Node(s, 2)
    <3>1. c[t] \in D /\ c[t] \in Task /\ c[t] \notin ToSet(s)
      BY DEF Loose
    <3> QED
      BY <1>1, <1>2, <3>1, TaskAssumption DEF Cell
  <2>5. m[t] = Node(s, e + 1) /\ Stored(l, Node(s, e), m[t], c[t], p[t])
    BY DEF Shape
  <2>6. /\ k.next[Node(s, e)] = l.next[Node(s, e)] /\ k.prev[m[t]] = l.prev[m[t]]
        /\ k.prev[c[t]] = l.prev[c[t]]
    BY <1>7, <2>2, <2>3, <2>4, <2>5
  <2>7. f \in 0 .. Len(r)
    OBVIOUS
  <2> QED
    BY <2>1, <2>5, <2>6, <2>7 DEF Stored
<1>11. \A t, u \in A : h[t] = h[u] => t = u
  <2>1. \A t \in A : g[t] \in 0 .. Len(s) /\ h[t] = g[t] - 1
    BY DEF Shape
  <2>2. \A t, u \in A : h[t] = h[u] => g[t] = g[u]
    BY <1>1, <2>1
  <2> QED
    BY <2>2 DEF Shape
<1>12. Shape(k, r, h, A, p, c, m)
  BY <1>3, <1>7, <1>9, <1>10, <1>11 DEF Shape, Chain
<1>13. Loose(k, r, A, c, D)
  <2>1. \A d \in D : d \in Cell /\ d # QHead
    BY TaskAssumption DEF Loose, Cell
  <2> QED
    BY <1>3, <1>7, <2>1 DEF Loose
<1> QED
  BY <1>3, <1>6, <1>12, <1>13

\* A search that comes to no child stays in front of every addition, and ends.
LEMMA WalkInFront ==
  ASSUME NEW l, NEW s, NEW g, NEW A, NEW p, NEW c, NEW m,
         Shape(l, s, g, A, p, c, m), NEW B \in SUBSET Task,
         \A t \in A : c[t] \notin Visited(l, QHead, B)
  PROVE  \E i \in 0 .. Len(s) :
           /\ \A j \in 1 .. i : s[j] \in B
           /\ Node(s, i + 1) \notin B
           /\ \A t \in A : g[t] > i
           /\ WalkEnds(l, QHead, B) /\ WalkEnd(l, QHead, B) = Node(s, i + 1)
<1> PICK V : V = Visited(l, QHead, B)
  OBVIOUS
<1>1. /\ l \in ListMemory(Cell) /\ s \in Seq(Task) /\ Distinct(QHead, s) /\ Len(s) \in Nat
      /\ \A j \in 0 .. Len(s) + 1 : Node(s, j) \in Cell
      /\ \A j \in 1 .. Len(s) : Node(s, j) = s[j]
      /\ Node(s, 0) = QHead /\ Node(s, Len(s) + 1) = QHead /\ QHead \notin B
  BY NodesDiffer, TaskAssumption DEF Shape
<1>2. /\ l.next[QHead] \in V
      /\ \A n \in V \cap B : l.next[n] \in V
      /\ \A W \in SUBSET Cell : WalkClosed(l, QHead, B, W) => V \subseteq W
  <2>1. l.next \in [Cell -> Cell] /\ QHead \in Cell
    BY <1>1 DEF ListMemory, Cell
  <2>2. V = {n \in Cell : \A S \in SUBSET Cell : WalkClosed(l, QHead, B, S) => n \in S}
    BY <2>1 DEF Visited
  <2> QED
    BY <2>1, <2>2 DEF WalkClosed
<1> DEFINE X == {j \in 1 .. Len(s) + 1 : Node(s, j) \notin B}
<1>3. PICK e \in X : \A j \in X : e <= j
  <2>1. X \in SUBSET Nat /\ Len(s) + 1 \in X
    BY <1>1
  <2> QED
    BY <2>1, LeastOf
<1> PICK i \in 0 .. Len(s) : e = i + 1
  BY <1>1
<1>4. Node(s, i + 1) \notin B /\ \A j \in 1 .. i : Node(s, j) \in B
  BY <1>1, <1>3
<1> HIDE DEF X
<1> DEFINE Bad(j) == j \in Open(g, A) \/ Node(s, j + 1) \notin V
           Y == {j \in 0 .. i : Bad(j)}
<1>5. ASSUME NEW j \in 0 .. Len(s), l.next[Node(s, j)] \in V
      PROVE  ~Bad(j)
  <2>1. j \notin Open(g, A)
    <3>1. \A t \in A : l.next[Node(s, g[t])] = c[t]
      BY DEF Shape, Stored
    <3> QED
      BY <1>5, <3>1 DEF Open
  <2>2. l.next[Node(s, j)] = Node(s, j + 1)
    BY <2>1 DEF Shape, Chain
  <2> QED
    BY <1>5, <2>1, <2>2
<1>6. Y = {}
  <2> SUFFICES ASSUME Y # {} PROVE FALSE
    OBVIOUS
  <2>1. PICK y \in Y : \A j \in Y : y <= j
    <3>1. Y \in SUBSET Nat
      BY <1>1
    <3> QED
      BY <3>1, LeastOf
  <2>2. y \in 0 .. i /\ y \in 0 .. Len(s) /\ Bad(y)
    BY <1>1
  <2> HIDE DEF Bad
  <2>3. CASE y = 0
    BY <1>1, <1>2, <1>5, <2>2, <2>3
  <2>4. CASE y > 0
    <3>1. y - 1 \in 0 .. i /\ (y - 1) + 1 = y /\ y \in 1 .. i
      BY <2>2, <2>4
    <3>2. y - 1 \notin Y
      BY <2>1, <2>2
    <3>3. Node(s, y) \in V
      BY <3>1, <3>2 DEF Bad
    <3>4. l.next[Node(s, y)] \in V
      BY <1>2, <1>4, <3>1, <3>3
    <3> QED
      BY <1>5, <2>2, <3>4
  <2> QED
    BY <2>2, <2>3, <2>4
<1>7. \A j \in 0 .. i : j \notin Open(g, A) /\ Node(s, j + 1) \in V
  BY <1>6
<1>8. \A t \in A : g[t] > i
  <2> SUFFICES ASSUME NEW t \in A PROVE g[t] > i
    OBVIOUS
  <2>1. g[t] \in 0 .. Len(s) /\ g[t] \in Open(g, A)
    BY DEF Shape, Open
  <2> QED
    BY <1>7, <2>1
<1> DEFINE W == {Node(s, j) : j \in 1 .. i + 1}
<1>9. V \subseteq W
  <2>1. W \in SUBSET Cell
    BY <1>1
  <2>2. \A j \in 0 .. i : l.next[Node(s, j)] = Node(s, j + 1)
    BY <1>1, <1>7 DEF Shape, Chain
  <2>3. l.next[QHead] \in W
    <3>1. 0 \in 0 .. i /\ 0 + 1 \in 1 .. i + 1
      OBVIOUS
    <3> QED
      BY <1>1, <2>2, <3>1
  <2>4. ASSUME NEW n \in W \cap B
        PROVE  l.next[n] \in W
    <3>1. PICK j \in 1 .. i + 1 : n = Node(s, j)
      OBVIOUS
    <3>2. j \in 0 .. i /\ j + 1 \in 1 .. i + 1
      BY <1>4, <2>4, <3>1
    <3> QED
      BY <2>2, <3>1, <3>2
  <2> HIDE DEF W
  <2> QED
    BY <1>2, <2>1, <2>3, <2>4 DEF WalkClosed
<1>10. Node(s, i + 1) \in V
  BY <1>7
<1>11. \A n \in V : n \notin B => n = Node(s, i + 1)
  <2> SUFFICES ASSUME NEW n \in V, n \notin B PROVE n = Node(s, i + 1)
    OBVIOUS
  <2>1. PICK j \in 1 .. i + 1 : n = Node(s, j)
    BY <1>9
  <2>2. j \notin 1 .. i
    BY <1>4, <2>1
  <2>3. j = i + 1
    BY <2>2
  <2> QED
    BY <2>1, <2>3
<1>12. WalkEnds(l, QHead, B) /\ WalkEnd(l, QHead, B) = Node(s, i + 1)
  BY <1>4, <1>10, <1>11 DEF WalkEnds, WalkEnd
<1>13. \A j \in 1 .. i : s[j] \in B
  BY <1>1, <1>4
<1> QED
  BY <1>4, <1>8, <1>12, <1>13

-----------------------------------------------------------------------------
\* A run queue with additions under way.
Adds(q, s, g, A, p, c, m, D) ==
  q \in RunQueues /\ Shape(q.list, s, g, A, p, c, m) /\ Loose(q.list, s, A, c, D)

\* The search for the place of x comes to n.
Comes(q, v, x, n) ==
  x # Idle /\ ~ListIsEmpty(q.list, QHead) /\ n \in Visited(q.list, QHead, Below(v, x))

\* The list is seen to be empty when nothing is in it and nothing is being added.
LEMMA EmptyShape ==
  ASSUME NEW l, NEW s, NEW g, NEW A, NEW p, NEW c, NEW m, NEW D,
         Shape(l, s, g, A, p, c, m), Loose(l, s, A, c, D)
  PROVE  ListIsEmpty(l, QHead) <=> (s = <<>> /\ A = {})
<1>1. /\ s \in Seq(Task) /\ Len(s) \in Nat /\ Node(s, 0) = QHead
      /\ Len(s) = 0 => Node(s, 1) = QHead
      /\ Len(s) > 0 => Node(s, 1) # QHead
  <2>1. s \in Seq(Task) /\ Distinct(QHead, s)
    BY DEF Shape
  <2>2. /\ \A j, n \in 0 .. Len(s) : Node(s, j) = Node(s, n) => j = n
        /\ Len(s) \in Nat /\ Node(s, 0) = QHead /\ Node(s, Len(s) + 1) = QHead
    BY <2>1, NodesDiffer
  <2> QED
    BY <2>1, <2>2
<1>2. ASSUME ListIsEmpty(l, QHead)
      PROVE  s = <<>> /\ A = {}
  <2>1. 0 \notin Open(g, A)
    <3>1. \A t \in A : l.next[Node(s, g[t])] = c[t] /\ c[t] # QHead
      BY TaskAssumption DEF Shape, Stored, Loose
    <3> QED
      BY <1>1, <1>2, <3>1 DEF Open, ListIsEmpty
  <2>2. l.next[Node(s, 0)] = Node(s, 1)
    BY <1>1, <2>1 DEF Shape, Chain
  <2>3. Len(s) = 0
    BY <1>1, <1>2, <2>2 DEF ListIsEmpty
  <2>4. A = {}
    <3>1. \A t \in A : g[t] \in 0 .. 0
      BY <2>3 DEF Shape
    <3> QED
      BY <2>1, <3>1 DEF Open
  <2> QED
    BY <1>1, <2>3, <2>4
<1>3. ASSUME s = <<>>, A = {}
      PROVE  ListIsEmpty(l, QHead)
  <2>1. Open(g, A) = {} /\ Len(s) = 0
    BY <1>3 DEF Open
  <2>2. 0 \in 0 .. Len(s) \ Open(g, A)
    BY <2>1
  <2>3. l.next[Node(s, 0)] = Node(s, 1) /\ l.prev[Node(s, 1)] = Node(s, 0)
    BY <2>2 DEF Shape, Chain
  <2> QED
    BY <1>1, <2>1, <2>3 DEF ListIsEmpty
<1> QED
  BY <1>2, <1>3

\* InsertAt behind the i-th.
LEMMA Inserted ==
  ASSUME NEW s \in Seq(Task), NEW i \in 0 .. Len(s), NEW x \in Task
  PROVE  LET r == InsertAt(s, i + 1, x)
         IN  /\ Len(r) = Len(s) + 1 /\ Len(s) \in Nat
             /\ \A j \in 1 .. Len(r) :
                  r[j] = IF j < i + 1 THEN s[j] ELSE IF j = i + 1 THEN x ELSE s[j - 1]
<1> DEFINE r == InsertAt(s, i + 1, x)
<1>1. i + 1 \in 1 .. Len(s) + 1 /\ Len(s) \in Nat
  OBVIOUS
<1>2. /\ r \in Seq(Task) /\ Len(r) = Len(s) + 1
      /\ \A j \in 1 .. Len(r) :
           r[j] = IF j < i + 1 THEN s[j] ELSE IF j = i + 1 THEN x ELSE s[j - 1]
      /\ ToSet(r) = ToSet(s) \cup {x}
  BY <1>1, InsertAtProperties
<1> QED
  BY <1>1, <1>2

\* Those of A among W and x.
Joined(W, x, A) == W \cup ({x} \cap A)

\* Where those that add then add.
Moved(g, A, i) == [t \in A |-> Further(g[t], i)]

\* What is linked elsewhere, and further in front if it adds itself, keeps those that add
\* in front of where they add.
LEMMA FurtherInFront ==
  ASSUME NEW s \in Seq(Task), Distinct(QHead, s), NEW i \in 0 .. Len(s),
         NEW x \in Task \ ToSet(s), NEW A, NEW g,
         \A t \in A : g[t] \in 0 .. Len(s) /\ g[t] # i, x \in A => g[x] > i
  PROVE  \A W \in SUBSET A :
           InFront(s, g, W) =>
             InFront(InsertAt(s, i + 1, x), Moved(g, A, i), Joined(W, x, A))
<1> SUFFICES ASSUME NEW W \in SUBSET A, InFront(s, g, W)
             PROVE  InFront(InsertAt(s, i + 1, x), Moved(g, A, i), Joined(W, x, A))
  OBVIOUS
<1> PICK r : r = InsertAt(s, i + 1, x)
  OBVIOUS
<1> PICK h : h = Moved(g, A, i)
  OBVIOUS
<1>1. /\ Len(r) = Len(s) + 1 /\ Len(s) \in Nat
      /\ \A j \in 1 .. Len(r) :
           r[j] = IF j < i + 1 THEN s[j] ELSE IF j = i + 1 THEN x ELSE s[j - 1]
  <2> DEFINE q == InsertAt(s, i + 1, x)
  <2>1. /\ Len(q) = Len(s) + 1 /\ Len(s) \in Nat
        /\ \A j \in 1 .. Len(q) :
             q[j] = IF j < i + 1 THEN s[j] ELSE IF j = i + 1 THEN x ELSE s[j - 1]
    BY Inserted
  <2> QED
    BY <2>1
<1>2. \A t \in A : h[t] = Further(g[t], i)
  BY DEF Moved
<1>3. ASSUME NEW t \in W \cup ({x} \cap A)
      PROVE  \E j \in 1 .. Len(r) : j < h[t] /\ r[j] = t
  <2> PICK e \in 0 .. Len(s) : /\ e = g[t] /\ e # i
                               /\ h[t] = IF e > i THEN e + 1 ELSE e
    BY <1>2 DEF Further
  <2>1. CASE t \in W
    <3>1. PICK j \in 1 .. Len(s) : j < e /\ s[j] = t
      BY <2>1 DEF InFront
    <3>2. CASE j < i + 1
      <4>1. j \in 1 .. Len(r) /\ j < h[t] /\ r[j] = t
        BY <1>1, <3>1, <3>2
      <4> QED
        BY <4>1
    <3>3. CASE ~(j < i + 1)
      <4>1. PICK n \in 1 .. Len(r) : n = j + 1
        BY <1>1
      <4>2. n < h[t] /\ r[n] = s[n - 1] /\ n - 1 = j
        BY <1>1, <3>1, <3>3, <4>1
      <4> QED
        BY <3>1, <4>2
    <3> QED
      BY <3>2, <3>3
  <2>2. CASE t = x
    <3>1. x \in A
      BY <2>2
    <3>2. i + 1 \in 1 .. Len(r) /\ i + 1 < h[t] /\ r[i + 1] = x
      BY <1>1, <2>2, <3>1
    <3> QED
      BY <2>2, <3>2
  <2> QED
    BY <2>1, <2>2
<1> QED
  BY <1>3 DEF InFront, Joined

\* What is linked at its place keeps the order.
LEMMA FurtherInOrder ==
  ASSUME NEW s \in Seq(Task), Distinct(QHead, s), NEW i \in 0 .. Len(s),
         NEW x \in Task \ ToSet(s), NEW A, NEW g, NEW c, NEW v \in [Task -> Int],
         \A t \in A : g[t] \in 0 .. Len(s) /\ g[t] # i,
         i > 0 => v[s[i]] <= v[x], i < Len(s) => v[x] <= v[s[i + 1]],
         InOrder(s, g, A, c, v)
  PROVE  InOrder(InsertAt(s, i + 1, x), Moved(g, A, i), A, c, v)
<1> PICK r : r = InsertAt(s, i + 1, x)
  OBVIOUS
<1> PICK h : h = Moved(g, A, i)
  OBVIOUS
<1>1. /\ Len(r) = Len(s) + 1 /\ Len(s) \in Nat
      /\ \A j \in 1 .. Len(r) :
           r[j] = IF j < i + 1 THEN s[j] ELSE IF j = i + 1 THEN x ELSE s[j - 1]
  <2> DEFINE q == InsertAt(s, i + 1, x)
  <2>1. /\ Len(q) = Len(s) + 1 /\ Len(s) \in Nat
        /\ \A j \in 1 .. Len(q) :
             q[j] = IF j < i + 1 THEN s[j] ELSE IF j = i + 1 THEN x ELSE s[j - 1]
    BY Inserted
  <2> QED
    BY <2>1
<1>2. /\ \A j \in 1 .. i : r[j] = s[j]
      /\ r[i + 1] = x
      /\ \A j \in i + 1 .. Len(s) : r[j + 1] = s[j]
  <2>1. \A j \in 1 .. i : j \in 1 .. Len(r) /\ j < i + 1
    BY <1>1
  <2>2. i + 1 \in 1 .. Len(r)
    BY <1>1
  <2>3. ASSUME NEW j \in i + 1 .. Len(s)
        PROVE  r[j + 1] = s[j]
    <3>1. PICK n \in 1 .. Len(r) : n = j + 1
      BY <1>1
    <3>2. r[n] = s[n - 1] /\ n - 1 = j
      BY <1>1, <3>1
    <3> QED
      BY <3>1, <3>2
  <2> QED
    BY <1>1, <2>1, <2>2, <2>3
<1>3. \A t \in A : h[t] = Further(g[t], i)
  BY DEF Moved
<1>4. \A j \in 1 .. Len(s) - 1 : v[s[j]] <= v[s[j + 1]]
  BY DEF InOrder
<1>5. ASSUME NEW j \in 1 .. Len(r) - 1
      PROVE  v[r[j]] <= v[r[j + 1]]
  <2>1. CASE j < i
    <3>1. r[j] = s[j] /\ r[j + 1] = s[j + 1] /\ j \in 1 .. Len(s) - 1
      BY <1>1, <1>2, <2>1
    <3> QED
      BY <1>4, <3>1
  <2>2. CASE j = i
    BY <1>1, <1>2, <2>2
  <2>3. CASE j = i + 1
    <3>1. r[j] = x /\ i < Len(s) /\ r[j + 1] = s[i + 1]
      BY <1>1, <1>2, <2>3
    <3> QED
      BY <3>1
  <2>4. CASE j > i + 1
    <3>1. PICK n \in i + 1 .. Len(s) - 1 : j = n + 1
      BY <1>1, <2>4
    <3>2. n \in i + 1 .. Len(s) /\ n + 1 \in i + 1 .. Len(s) /\ n \in 1 .. Len(s) - 1
      BY <1>1, <3>1
    <3>3. r[j] = s[n] /\ r[j + 1] = s[n + 1]
      BY <1>2, <3>1, <3>2
    <3> QED
      BY <1>4, <3>2, <3>3
  <2> QED
    BY <1>1, <2>1, <2>2, <2>3, <2>4
<1>6. ASSUME NEW t \in A
      PROVE  /\ h[t] > 0 => v[r[h[t]]] <= v[c[t]]
             /\ h[t] < Len(r) => v[c[t]] <= v[r[h[t] + 1]]
  <2>1. CASE g[t] < i
    <3> PICK e \in 0 .. i - 1 : e = g[t] /\ h[t] = e
      BY <1>3, <2>1 DEF Further
    <3>1. /\ e > 0 => v[s[e]] <= v[c[t]]
          /\ v[c[t]] <= v[s[e + 1]]
      BY <1>1 DEF InOrder
    <3>2. /\ e > 0 => r[e] = s[e]
          /\ r[e + 1] = s[e + 1]
      <4>1. PICK n \in 1 .. i : n = e + 1
        OBVIOUS
      <4>2. r[n] = s[n] /\ (e > 0 => e \in 1 .. i)
        BY <1>2
      <4> QED
        BY <1>2, <4>1, <4>2
    <3> QED
      BY <3>1, <3>2
  <2>2. CASE g[t] > i
    <3> PICK e \in i + 1 .. Len(s) : e = g[t] /\ h[t] = e + 1
      BY <1>3, <2>2 DEF Further
    <3>1. /\ v[s[e]] <= v[c[t]]
          /\ e < Len(s) => v[c[t]] <= v[s[e + 1]]
      BY DEF InOrder
    <3>2. r[e + 1] = s[e]
      BY <1>2
    <3>3. h[t] < Len(r) => r[h[t] + 1] = s[e + 1] /\ e < Len(s)
      <4> SUFFICES ASSUME h[t] < Len(r) PROVE r[h[t] + 1] = s[e + 1] /\ e < Len(s)
        OBVIOUS
      <4>1. e < Len(s)
        BY <1>1
      <4>2. PICK n \in i + 1 .. Len(s) : n = e + 1
        BY <1>1, <4>1
      <4>3. r[n + 1] = s[n]
        BY <1>2
      <4> QED
        BY <4>1, <4>2, <4>3
    <3> QED
      BY <3>1, <3>2, <3>3
  <2> QED
    BY <1>1, <2>1, <2>2
<1> QED
  BY <1>5, <1>6 DEF InOrder

\* insert_task_queue with additions under way, when its search comes to no child.
LEMMA QueueInsert ==
  ASSUME NEW q, NEW s, NEW g, NEW A, NEW p, NEW c, NEW m, NEW D,
         Adds(q, s, g, A, p, c, m, D), NEW v \in [Task -> Int],
         NEW x \in Task \ (ToSet(s) \cup D), x # Idle,
         \A t \in A : ~Comes(q, v, x, c[t])
  PROVE  LET q1 == InsertTaskQueue(q, v, x)
         IN  /\ SearchEnds(q, v, x) /\ q1.count = q.count + 1
             /\ \E s1, g1 :
                  /\ Adds(q1, s1, g1, A, p, c, m, D)
                  /\ ToSet(s1) = ToSet(s) \cup {x} /\ Len(s1) = Len(s) + 1
                  /\ \A W \in SUBSET A : InFront(s, g, W) => InFront(s1, g1, Joined(W, x, A))
                  /\ InOrder(s, g, A, c, v) => InOrder(s1, g1, A, c, v)
<1> PICK l \in ListMemory(Cell) : l = q.list
  BY DEF Adds, RunQueues
<1> PICK B \in SUBSET Task : B = Below(v, x)
  BY DEF Below
<1>1. /\ Shape(l, s, g, A, p, c, m) /\ Loose(l, s, A, c, D) /\ q \in RunQueues
      /\ s \in Seq(Task) /\ Distinct(QHead, s)
  BY DEF Adds, Shape
<1>2. /\ Len(s) \in Nat /\ Node(s, 0) = QHead /\ Node(s, Len(s) + 1) = QHead
      /\ \A j \in 1 .. Len(s) : Node(s, j) = s[j] /\ s[j] \in Task
  BY <1>1, NodesDiffer
<1>3. PICK i \in 0 .. Len(s) :
        /\ i > 0 => v[s[i]] <= v[x]
        /\ i < Len(s) => v[x] <= v[s[i + 1]]
        /\ \A t \in A : g[t] > i
        /\ SearchEnds(q, v, x) /\ InsertPlace(q, v, x) = Node(s, i + 1)
  <2>1. CASE ListIsEmpty(l, QHead)
    <3>1. Len(s) = 0 /\ A = {}
      BY <1>1, <2>1, EmptyShape
    <3>2. InsertPlace(q, v, x) = Node(s, 0 + 1) /\ SearchEnds(q, v, x)
      BY <1>2, <2>1, <3>1 DEF InsertPlace, SearchEnds
    <3>3. 0 \in 0 .. Len(s)
      BY <3>1
    <3> QED
      BY <3>1, <3>2, <3>3
  <2>2. CASE ~ListIsEmpty(l, QHead)
    <3>1. \A t \in A : c[t] \notin Visited(l, QHead, B)
      BY <2>2 DEF Comes
    <3>2. PICK i \in 0 .. Len(s) :
           /\ \A j \in 1 .. i : s[j] \in B
           /\ Node(s, i + 1) \notin B
           /\ \A t \in A : g[t] > i
           /\ WalkEnds(l, QHead, B) /\ WalkEnd(l, QHead, B) = Node(s, i + 1)
      BY <1>1, <3>1, WalkInFront
    <3>3. i > 0 => v[s[i]] <= v[x]
      <4> SUFFICES ASSUME i > 0 PROVE v[s[i]] <= v[x]
        OBVIOUS
      <4>1. s[i] \in Task /\ v[s[i]] < v[x]
        BY <1>2, <3>2 DEF Below
      <4> QED
        BY <4>1
    <3>4. i < Len(s) => v[x] <= v[s[i + 1]]
      <4> SUFFICES ASSUME i < Len(s) PROVE v[x] <= v[s[i + 1]]
        OBVIOUS
      <4>1. i + 1 \in 1 .. Len(s)
        BY <1>2
      <4>2. s[i + 1] \in Task /\ s[i + 1] \notin B
        BY <1>2, <3>2, <4>1
      <4>3. ~(v[s[i + 1]] < v[x])
        BY <4>2 DEF Below
      <4> QED
        BY <4>2, <4>3
    <3>5. SearchEnds(q, v, x) /\ InsertPlace(q, v, x) = Node(s, i + 1)
      BY <2>2, <3>2 DEF SearchEnds, InsertPlace
    <3> QED
      BY <3>2, <3>3, <3>4, <3>5
  <2> QED
    BY <2>1, <2>2
<1> PICK y \in Task \ (ToSet(s) \cup D) : y = x
  OBVIOUS
<1> DEFINE k == ListAddBefore(l, Node(s, i + 1), y)
           r == InsertAt(s, i + 1, y)
           h == [t \in A |-> Further(g[t], i)]
<1>4. InsertTaskQueue(q, v, x) = [list |-> k, count |-> q.count + 1, slice |-> q.slice]
  BY <1>3 DEF InsertTaskQueue
<1>5. \A t \in A : g[t] \in 0 .. Len(s) /\ g[t] > i
  BY <1>1, <1>3 DEF Shape
<1>6. Shape(k, r, h, A, p, c, m) /\ Loose(k, r, A, c, D)
  <2>1. i \notin Open(g, A)
    BY <1>5 DEF Open
  <2> QED
    BY <1>1, <2>1, ShapeInsert
<1>7. ToSet(r) = ToSet(s) \cup {y} /\ Len(r) = Len(s) + 1
  <2>1. y \in Task /\ y \notin ToSet(s)
    OBVIOUS
  <2> HIDE DEF r
  <2>2. IsSpliced(InsertAt(s, i + 1, y), s, i, y)
    BY <1>1, <2>1, Spliced
  <2>3. IsSpliced(r, s, i, y)
    BY <2>2 DEF r
  <2> QED
    BY <2>3 DEF IsSpliced
<1>8. \A W \in SUBSET A : InFront(s, g, W) => InFront(r, h, Joined(W, y, A))
  <2>1. y \in Task \ ToSet(s)
    OBVIOUS
  <2>2. s \in Seq(Task) /\ Distinct(QHead, s) /\ i \in 0 .. Len(s)
    BY <1>1
  <2> HIDE DEF r, h, k
  <2>3. \A W \in SUBSET A :
          InFront(s, g, W) =>
            InFront(InsertAt(s, i + 1, y), Moved(g, A, i), Joined(W, y, A))
    <3>1. y \in A => g[y] > i
      BY <1>5
    <3>2. \A t \in A : g[t] \in 0 .. Len(s) /\ g[t] # i
      BY <1>5
    <3> QED
      BY <2>1, <2>2, <3>1, <3>2, FurtherInFront
  <2>4. h = Moved(g, A, i)
    BY DEF h, Moved
  <2> QED
    BY <2>3, <2>4 DEF r
<1>9. InOrder(s, g, A, c, v) => InOrder(r, h, A, c, v)
  <2>1. y \in Task \ ToSet(s) /\ v \in [Task -> Int]
    OBVIOUS
  <2>2. /\ i > 0 => v[s[i]] <= v[y]
        /\ i < Len(s) => v[y] <= v[s[i + 1]]
    BY <1>3
  <2> HIDE DEF r, h
  <2> SUFFICES ASSUME InOrder(s, g, A, c, v)
               PROVE  InOrder(r, h, A, c, v)
    OBVIOUS
  <2>3. \A t \in A : g[t] \in 0 .. Len(s) /\ g[t] # i
    BY <1>5
  <2>4. h = Moved(g, A, i)
    BY DEF h, Moved
  <2>5. InOrder(InsertAt(s, i + 1, y), Moved(g, A, i), A, c, v)
    BY <1>1, <2>1, <2>2, <2>3, FurtherInOrder
  <2> QED
    BY <2>4, <2>5 DEF r
<1>10. k \in ListMemory(Cell)
  BY <1>6 DEF Shape
<1> HIDE DEF k, r, h
<1>11. PICK q1 : q1 = InsertTaskQueue(q, v, x)
  OBVIOUS
<1>12. q1.list = k /\ q1.count = q.count + 1 /\ q1 \in RunQueues
  BY <1>1, <1>4, <1>10, <1>11 DEF RunQueues
<1>13. Adds(q1, r, h, A, p, c, m, D)
  BY <1>6, <1>12 DEF Adds
<1> QED
  BY <1>3, <1>7, <1>8, <1>9, <1>11, <1>12, <1>13

\* get_next_task takes a task beside which nothing is being added, when it is known that
\* no child is first behind it, or that nothing is being added so far in front.
LEMMA FirstFree ==
  ASSUME NEW q, NEW s, NEW g, NEW A, NEW p, NEW c, NEW m, NEW D,
         Adds(q, s, g, A, p, c, m, D), ~ListIsEmpty(q.list, QHead),
         \/ \A t \in A : Dequeue(q).list.next[QHead] # c[t]
         \/ \A t \in A : g[t] > 1
  PROVE  s # <<>> /\ \A t \in A : g[t] > 1
<1> PICK l \in ListMemory(Cell) : l = q.list
  BY DEF Adds, RunQueues
<1>1. /\ Shape(l, s, g, A, p, c, m) /\ Loose(l, s, A, c, D) /\ q \in RunQueues
      /\ s \in Seq(Task) /\ Distinct(QHead, s) /\ QHead \in Cell
  BY DEF Adds, Shape, Cell
<1>2. /\ Len(s) \in Nat /\ Node(s, 0) = QHead /\ Node(s, Len(s) + 1) = QHead
      /\ \A j \in 1 .. Len(s) : Node(s, j) = s[j] /\ s[j] \in Task
      /\ \A j \in 0 .. Len(s) + 1 : Node(s, j) \in Cell
  BY <1>1, NodesDiffer
<1>3. Dequeue(q).list = ListDelete(l, l.next[QHead])
  BY DEF Dequeue
<1>4. \A t \in A : /\ g[t] \in 0 .. Len(s) /\ l.next[Node(s, g[t])] = c[t]
                   /\ c[t] \in Cell /\ l.next[c[t]] = c[t]
  BY <1>1 DEF Shape, Stored, Loose, Cell
<1>5. \A n \in Cell : LET k == ListDelete(l, n)
                      IN  \A x \in Cell : k.next[x] = IF x = l.prev[n] THEN l.next[n] ELSE l.next[x]
  BY DeleteFields
<1>6. \A t \in A : g[t] # 0
  <2> SUFFICES ASSUME NEW t \in A, g[t] = 0 PROVE FALSE
    OBVIOUS
  <2>1. l.next[QHead] = c[t]
    BY <1>2, <1>4
  <2>2. Dequeue(q).list.next[QHead] = c[t]
    BY <1>1, <1>3, <1>4, <1>5, <2>1
  <2> QED
    BY <2>2
<1>7. 0 \in 0 .. Len(s) \ Open(g, A)
  BY <1>2, <1>6 DEF Open
<1>8. l.next[QHead] = Node(s, 1) /\ l.prev[Node(s, 1)] = QHead
  BY <1>1, <1>2, <1>7 DEF Shape, Chain
<1>9. Len(s) > 0
  <2> SUFFICES ASSUME Len(s) = 0 PROVE FALSE
    BY <1>2
  <2>1. Node(s, 1) = QHead
    BY <1>2
  <2> QED
    BY <1>8, <2>1 DEF ListIsEmpty
<1>10. \A t \in A : g[t] # 1
  <2> SUFFICES ASSUME NEW t \in A, g[t] = 1 PROVE FALSE
    OBVIOUS
  <2>1. l.next[Node(s, 1)] = c[t] /\ Node(s, 1) \in Cell
    BY <1>2, <1>4
  <2>2. Dequeue(q).list.next[QHead] = c[t]
    BY <1>1, <1>3, <1>5, <1>8, <2>1
  <2> QED
    BY <2>2
<1>11. \A t \in A : g[t] > 1
  BY <1>2, <1>4, <1>6, <1>10
<1> QED
  BY <1>9, <1>11

\* The task n has been taken out of s.
TakenOut(q, q2, n, s, g, A, p, c, m, D) ==
  \E s2, g2 :
    /\ Adds(q2, s2, g2, A, p, c, m, D)
    /\ ToSet(s2) = ToSet(s) \ {n} /\ q2.count - Len(s2) = q.count - Len(s)
    /\ \A W \in SUBSET A : InFront(s, g, W) => InFront(s2, g2, W \ {n})
    /\ \A v \in [Task -> Int] : InOrder(s, g, A, c, v) => InOrder(s2, g2, A, c, v)

\* get_next_task then.
LEMMA QueueDequeue ==
  ASSUME NEW q, NEW s, NEW g, NEW A, NEW p, NEW c, NEW m, NEW D,
         Adds(q, s, g, A, p, c, m, D), ~ListIsEmpty(q.list, QHead),
         s # <<>>, \A t \in A : g[t] > 1
  PROVE  /\ NextTask(q) = s[1] /\ s[1] \in ToSet(s)
         /\ TakenOut(q, Dequeue(q), s[1], s, g, A, p, c, m, D)
<1> PICK l \in ListMemory(Cell) : l = q.list
  BY DEF Adds, RunQueues
<1>1. /\ Shape(l, s, g, A, p, c, m) /\ Loose(l, s, A, c, D) /\ q \in RunQueues
      /\ s \in Seq(Task) /\ Distinct(QHead, s) /\ Len(s) \in Nat /\ Len(s) > 0
  BY DEF Adds, Shape
<1>2. \A t \in A : g[t] \in 0 .. Len(s) /\ g[t] > 1
  BY <1>1 DEF Shape
<1> DEFINE k == ListDelete(l, s[1])
           r == Tail(s)
           h == [t \in A |-> g[t] - 1]
<1>3. /\ Shape(k, r, h, A, p, c, m) /\ Loose(k, r, A, c, D)
      /\ l.next[QHead] = s[1] /\ s[1] \in Task
      /\ Len(r) = Len(s) - 1 /\ ToSet(r) = ToSet(s) \ {s[1]}
      /\ \A j \in 1 .. Len(r) : r[j] = s[j + 1]
  <2>1. 0 \notin Open(g, A) /\ 1 \notin Open(g, A)
    BY <1>2 DEF Open
  <2> QED
    BY <1>1, <2>1, ShapeDelete
<1>4. \A t \in A : h[t] = g[t] - 1
  OBVIOUS
<1> HIDE DEF k, r, h
<1>5. ASSUME NEW W \in SUBSET A, InFront(s, g, W)
      PROVE  InFront(r, h, W \ {s[1]})
  <2> SUFFICES ASSUME NEW t \in W, t # s[1]
               PROVE  \E j \in 1 .. Len(r) : j < h[t] /\ r[j] = t
    BY DEF InFront
  <2>1. PICK j \in 1 .. Len(s) : j < g[t] /\ s[j] = t
    BY <1>5 DEF InFront
  <2>2. PICK n \in 1 .. Len(r) : j = n + 1
    BY <1>1, <1>3, <2>1
  <2>3. n < h[t] /\ r[n] = t
    BY <1>2, <1>3, <1>4, <2>1, <2>2
  <2> QED
    BY <2>3
<1>6. ASSUME NEW v \in [Task -> Int], InOrder(s, g, A, c, v)
      PROVE  InOrder(r, h, A, c, v)
  <2>1. ASSUME NEW j \in 1 .. Len(r) - 1
        PROVE  v[r[j]] <= v[r[j + 1]]
    <3>1. PICK n \in 1 .. Len(s) - 1 : n = j + 1
      BY <1>1, <1>3
    <3>2. PICK e \in 1 .. Len(r) : e = j + 1 /\ j \in 1 .. Len(r)
      BY <1>1, <1>3
    <3>3. r[j] = s[n] /\ r[e] = s[n + 1]
      BY <1>1, <1>3, <3>1, <3>2
    <3> QED
      BY <1>6, <3>2, <3>3 DEF InOrder
  <2>2. ASSUME NEW t \in A
        PROVE  /\ h[t] > 0 => v[r[h[t]]] <= v[c[t]]
               /\ h[t] < Len(r) => v[c[t]] <= v[r[h[t] + 1]]
    <3>4. h[t] = g[t] - 1 /\ g[t] \in 0 .. Len(s) /\ g[t] > 1
      BY <1>2, <1>4
    <3>5. h[t] \in 1 .. Len(r) /\ g[t] = h[t] + 1
      BY <1>1, <1>3, <3>4
    <3> PICK e \in 1 .. Len(r) : e = h[t] /\ g[t] = e + 1
      BY <3>5
    <3>1. r[e] = s[g[t]]
      BY <1>3
    <3>2. e < Len(r) => r[e + 1] = s[g[t] + 1] /\ g[t] < Len(s)
      BY <1>1, <1>3
    <3>3. /\ g[t] > 0 => v[s[g[t]]] <= v[c[t]]
          /\ g[t] < Len(s) => v[c[t]] <= v[s[g[t] + 1]]
      BY <1>6 DEF InOrder
    <3> QED
      BY <1>2, <3>1, <3>2, <3>3
  <2> QED
    BY <2>1, <2>2 DEF InOrder
<1>7. NextTask(q) = s[1] /\ s[1] \in ToSet(s)
  BY <1>1, <1>3 DEF NextTask, ToSet
<1>8. Dequeue(q) = [list |-> k, count |-> q.count - 1, slice |-> q.slice]
  BY <1>3 DEF Dequeue, k
<1>9. PICK q2 : q2 = Dequeue(q)
  OBVIOUS
<1>10. q2.list = k /\ q2.count = q.count - 1 /\ q2 \in RunQueues
  <2>1. k \in ListMemory(Cell)
    BY <1>3 DEF Shape
  <2> QED
    BY <1>1, <1>8, <1>9, <2>1 DEF RunQueues
<1>11. Adds(q2, r, h, A, p, c, m, D)
  BY <1>3, <1>10 DEF Adds
<1>12. q2.count - Len(r) = q.count - Len(s)
  <2>1. q.count \in Int
    BY <1>1 DEF RunQueues
  <2> QED
    BY <1>1, <1>3, <1>10, <2>1
<1>13. TakenOut(q, q2, s[1], s, g, A, p, c, m, D)
  BY <1>3, <1>5, <1>6, <1>11, <1>12 DEF TakenOut
<1> QED
  BY <1>7, <1>9, <1>13

\* insert_task_queue of a task or of init_task, which it leaves out.
LEMMA QueueInsertAny ==
  ASSUME NEW q, NEW s, NEW g, NEW A, NEW p, NEW c, NEW m, NEW D,
         Adds(q, s, g, A, p, c, m, D), NEW v \in [Task -> Int],
         NEW x \in Task, x = Idle \/ x \notin ToSet(s) \cup D, Idle \notin A,
         \A t \in A : ~Comes(q, v, x, c[t])
  PROVE  LET q1 == InsertTaskQueue(q, v, x)
         IN  /\ SearchEnds(q, v, x)
             /\ \E s1, g1 :
                  /\ Adds(q1, s1, g1, A, p, c, m, D)
                  /\ ToSet(s1) = ToSet(s) \cup ({x} \ {Idle})
                  /\ q1.count - Len(s1) = q.count - Len(s)
                  /\ \A W \in SUBSET A : InFront(s, g, W) => InFront(s1, g1, Joined(W, x, A))
                  /\ InOrder(s, g, A, c, v) => InOrder(s1, g1, A, c, v)
<1> PICK q1 : q1 = InsertTaskQueue(q, v, x)
  OBVIOUS
<1>1. CASE x = Idle
  <2>1. q1 = q /\ SearchEnds(q, v, x)
    BY <1>1 DEF InsertTaskQueue, SearchEnds
  <2>2. \A W \in SUBSET A : Joined(W, x, A) = W
    BY <1>1 DEF Joined
  <2>3. ToSet(s) = ToSet(s) \cup ({x} \ {Idle})
    BY <1>1
  <2>4. \A W \in SUBSET A : InFront(s, g, W) => InFront(s, g, Joined(W, x, A))
    BY <2>2
  <2>5. \E s1, g1 :
          /\ Adds(q1, s1, g1, A, p, c, m, D)
          /\ ToSet(s1) = ToSet(s) \cup ({x} \ {Idle})
          /\ q1.count - Len(s1) = q.count - Len(s)
          /\ \A W \in SUBSET A : InFront(s, g, W) => InFront(s1, g1, Joined(W, x, A))
          /\ InOrder(s, g, A, c, v) => InOrder(s1, g1, A, c, v)
    BY <2>1, <2>3, <2>4
  <2> QED
    BY <2>1, <2>5
<1>2. CASE x # Idle
  <2> PICK y \in Task \ (ToSet(s) \cup D) : y = x
    BY <1>2
  <2>1. /\ SearchEnds(q, v, y) /\ InsertTaskQueue(q, v, y).count = q.count + 1
        /\ \E s1, g1 :
             /\ Adds(InsertTaskQueue(q, v, y), s1, g1, A, p, c, m, D)
             /\ ToSet(s1) = ToSet(s) \cup {y} /\ Len(s1) = Len(s) + 1
             /\ \A W \in SUBSET A : InFront(s, g, W) => InFront(s1, g1, Joined(W, y, A))
             /\ InOrder(s, g, A, c, v) => InOrder(s1, g1, A, c, v)
    BY <1>2, QueueInsert
  <2>2. PICK s1, g1 :
          /\ Adds(q1, s1, g1, A, p, c, m, D)
          /\ ToSet(s1) = ToSet(s) \cup {x} /\ Len(s1) = Len(s) + 1
          /\ \A W \in SUBSET A : InFront(s, g, W) => InFront(s1, g1, Joined(W, x, A))
          /\ InOrder(s, g, A, c, v) => InOrder(s1, g1, A, c, v)
    BY <2>1
  <2>3. q1.count - Len(s1) = q.count - Len(s)
    <3>1. q.count \in Int /\ Len(s) \in Nat
      BY DEF Adds, RunQueues, Shape
    <3> QED
      BY <2>1, <2>2, <3>1
  <2>4. ToSet(s1) = ToSet(s) \cup ({x} \ {Idle})
    BY <1>2, <2>2
  <2> QED
    BY <2>1, <2>2, <2>3, <2>4
<1> QED
  BY <1>1, <1>2

\* get_next_task when nothing is being added beside the first task, or nobody is queued.
LEMMA QueueDequeueAny ==
  ASSUME NEW q, NEW s, NEW g, NEW A, NEW p, NEW c, NEW m, NEW D,
         Adds(q, s, g, A, p, c, m, D),
         \/ \A t \in A : Dequeue(q).list.next[QHead] # c[t]
         \/ \A t \in A : g[t] > 1
  PROVE  /\ NextTask(q) \in ToSet(s) \/ (NextTask(q) = Idle /\ ToSet(s) = {} /\ A = {})
         /\ TakenOut(q, Dequeue(q), NextTask(q), s, g, A, p, c, m, D)
<1>1. CASE ListIsEmpty(q.list, QHead)
  <2>1. Dequeue(q) = q /\ NextTask(q) = Idle
    BY <1>1 DEF Dequeue, NextTask
  <2>2. s = <<>> /\ A = {}
    <3>1. Shape(q.list, s, g, A, p, c, m) /\ Loose(q.list, s, A, c, D)
      BY DEF Adds
    <3> QED
      BY <1>1, <3>1, EmptyShape
  <2>3. ToSet(s) = {}
    BY <2>2 DEF ToSet
  <2>4. \A W \in SUBSET A : InFront(s, g, W) => InFront(s, g, W \ {Idle})
    BY <2>2
  <2>5. ToSet(s) = ToSet(s) \ {Idle}
    BY <2>3
  <2>6. TakenOut(q, q, Idle, s, g, A, p, c, m, D)
    BY <2>4, <2>5 DEF TakenOut
  <2> QED
    BY <2>1, <2>2, <2>3, <2>6
<1>2. CASE ~ListIsEmpty(q.list, QHead)
  <2>1. s # <<>> /\ \A t \in A : g[t] > 1
    BY <1>2, FirstFree
  <2>2. /\ NextTask(q) = s[1] /\ s[1] \in ToSet(s)
        /\ TakenOut(q, Dequeue(q), s[1], s, g, A, p, c, m, D)
    BY <1>2, <2>1, QueueDequeue
  <2> QED
    BY <2>2
<1> QED
  BY <1>1, <1>2

\* A run queue with the ready tasks R but for cur, which runs, and those of D; the tasks
\* that are adding stand in front of where they add, or run.
Fits(q, s, g, A, p, c, m, D, R, cur) ==
  /\ Adds(q, s, g, A, p, c, m, D)
  /\ R \in SUBSET Task /\ D \in SUBSET R /\ A \in SUBSET (R \ {Idle})
  /\ Idle \in R \ D /\ cur \in R \ D
  /\ ToSet(s) = R \ ({cur, Idle} \cup D)
  /\ InFront(s, g, A \ {cur})

\* Who is able to run after schedule() is that x was woken, the current task slept or neither.
Able(x, able, A, R, cur) ==
  \/ x = Idle /\ able = R
  \/ x = Idle /\ able = R \ {cur} /\ cur \notin A /\ cur # Idle
  \/ x \in Task \ R /\ able = R \cup {x}

\* schedule() with additions under way, when its searches come to no child.
LEMMA Rescheduled ==
  ASSUME NEW q, NEW s, NEW g, NEW A, NEW p, NEW c, NEW m, NEW D, NEW R, NEW cur,
         Fits(q, s, g, A, p, c, m, D, R, cur), NEW v \in [Task -> Int],
         NEW x, NEW able, Able(x, able, A, R, cur),
         NEW q1, NEW q2, NEW n, NEW switch \in BOOLEAN, NEW back, NEW q3, NEW cur3,
         q1 = InsertTaskQueue(q, v, x), n = NextTask(q1), q2 = Dequeue(q1),
         cur \notin able => switch,
         back = IF ~switch THEN n ELSE IF cur \in able THEN cur ELSE Idle,
         q3 = InsertTaskQueue(q2, v, back), cur3 = IF switch THEN n ELSE cur,
         \A t \in A : ~Comes(q, v, x, c[t]) /\ ~Comes(q2, v, back, c[t])
  PROVE  /\ SearchEnds(q, v, x) /\ SearchEnds(q2, v, back)
         /\ \E s3, g3 :
              /\ Fits(q3, s3, g3, A, p, c, m, D, able, cur3)
              /\ q3.count - Len(s3) = q.count - Len(s)
              /\ InOrder(s, g, A, c, v) => InOrder(s3, g3, A, c, v)
<1>1. /\ R \subseteq Task /\ D \subseteq R /\ A \subseteq R /\ Idle \notin A
      /\ Idle \in R /\ Idle \notin D /\ cur \in R /\ cur \notin D
      /\ ToSet(s) = R \ ({cur, Idle} \cup D)
  BY DEF Fits
<1>0. Adds(q, s, g, A, p, c, m, D) /\ InFront(s, g, A \ {cur})
  BY DEF Fits
<1>2. /\ x \in Task /\ (x = Idle \/ x \notin R) /\ able \subseteq Task /\ D \subseteq able
      /\ A \subseteq able /\ Idle \in able
      /\ able \ {cur} = (R \ {cur}) \cup ({x} \ {Idle})
      /\ cur \notin able => cur \notin A
      /\ cur \in able \/ cur # Idle
  BY <1>1, TaskAssumption DEF Able
<1>3. SearchEnds(q, v, x)
      /\ \E s1, g1 :
           /\ Adds(q1, s1, g1, A, p, c, m, D)
           /\ ToSet(s1) = ToSet(s) \cup ({x} \ {Idle})
           /\ q1.count - Len(s1) = q.count - Len(s)
           /\ \A W \in SUBSET A : InFront(s, g, W) => InFront(s1, g1, Joined(W, x, A))
           /\ InOrder(s, g, A, c, v) => InOrder(s1, g1, A, c, v)
  <2>1. Idle \notin A /\ (x = Idle \/ x \notin ToSet(s) \cup D) /\ x \in Task
    BY <1>1, <1>2
  <2>2. \A t \in A : ~Comes(q, v, x, c[t])
    OBVIOUS
  <2> QED
    BY <1>0, <2>1, <2>2, QueueInsertAny
<1>4. PICK s1, g1 :
        /\ Adds(q1, s1, g1, A, p, c, m, D)
        /\ ToSet(s1) = ToSet(s) \cup ({x} \ {Idle})
        /\ q1.count - Len(s1) = q.count - Len(s)
        /\ \A W \in SUBSET A : InFront(s, g, W) => InFront(s1, g1, Joined(W, x, A))
        /\ InOrder(s, g, A, c, v) => InOrder(s1, g1, A, c, v)
  BY <1>3
<1>5. InFront(s1, g1, A \ {cur})
  <2>1. InFront(s1, g1, Joined(A \ {cur}, x, A))
    BY <1>0, <1>4
  <2> QED
    BY <2>1 DEF InFront, Joined
<1>6. ToSet(s1) = able \ ({cur, Idle} \cup D)
  <2>1. ToSet(s1) = ToSet(s) \cup ({x} \ {Idle})
    BY <1>4
  <2>2. ToSet(s) = (R \ {cur}) \ ({Idle} \cup D) /\ x \notin D
    BY <1>1, <1>2
  <2>3. able \ ({cur, Idle} \cup D) = (able \ {cur}) \ ({Idle} \cup D)
    OBVIOUS
  <2>4. ({x} \ {Idle}) \ ({Idle} \cup D) = {x} \ {Idle}
    BY <2>2
  <2>5. (able \ {cur}) \ ({Idle} \cup D) = ToSet(s) \cup ({x} \ {Idle})
    BY <1>2, <2>2, <2>4
  <2> QED
    BY <2>1, <2>3, <2>5
<1>7. \/ \A t \in A : Dequeue(q1).list.next[QHead] # c[t]
      \/ \A t \in A : g1[t] > 1
  <2>1. CASE back = Idle
    <3>1. cur \notin A \/ n = Idle
      BY <1>1, <1>2, <2>1
    <3>2. CASE cur \notin A
      <4>1. \A t \in A : \E j \in 1 .. Len(s1) : j < g1[t]
        BY <1>5, <3>2 DEF InFront
      <4>2. \A t \in A : g1[t] \in 0 .. Len(s1)
        BY <1>4 DEF Adds, Shape
      <4> QED
        BY <4>1, <4>2
    <3>3. CASE n = Idle
      <4>1. CASE ListIsEmpty(q1.list, QHead)
        <5>1. A = {}
          BY <1>4, <4>1, EmptyShape DEF Adds
        <5> QED
          BY <5>1
      <4>2. CASE ~ListIsEmpty(q1.list, QHead)
        <5>1. q1.list.next[QHead] = Idle
          BY <3>3, <4>2 DEF NextTask
        <5>2. Shape(q1.list, s1, g1, A, p, c, m)
          BY <1>4 DEF Adds
        <5>3. /\ \A i \in 0 .. Len(s1) + 1 : Node(s1, i) \in ToSet(s1) \cup {QHead}
              /\ Node(s1, 0) = QHead /\ Len(s1) \in Nat
          BY <5>2, NodesDiffer DEF Shape
        <5>4. CASE 0 \in Open(g1, A)
          <6>1. PICK t \in A : g1[t] = 0
            BY <5>4 DEF Open
          <6>2. q1.list.next[QHead] = c[t] /\ c[t] \in D
            BY <1>4, <5>2, <5>3, <6>1 DEF Shape, Stored, Adds, Loose
          <6> QED
            BY <1>1, <5>1, <6>2
        <5>5. CASE 0 \notin Open(g1, A)
          <6>1. q1.list.next[QHead] = Node(s1, 1) /\ Node(s1, 1) \in ToSet(s1) \cup {QHead}
            BY <5>2, <5>3, <5>5 DEF Shape, Chain
          <6> QED
            BY <1>6, <5>1, <6>1, TaskAssumption
        <5> QED
          BY <5>4, <5>5
      <4> QED
        BY <4>1, <4>2
    <3> QED
      BY <3>1, <3>2, <3>3
  <2>2. CASE back # Idle
    <3> PICK l \in ListMemory(Cell) : l = q2.list
      <4>1. q1 \in RunQueues
        BY <1>4 DEF Adds
      <4>2. q2 \in RunQueues
        BY <4>1, DequeueType
      <4> QED
        BY <4>2 DEF RunQueues
    <3> SUFFICES ASSUME NEW t \in A, l.next[QHead] = c[t] PROVE FALSE
      OBVIOUS
    <3>1. c[t] \in Task /\ c[t] # QHead
      BY <1>4, TaskAssumption DEF Adds, Loose
    <3>2. ~ListIsEmpty(l, QHead)
      BY <3>1 DEF ListIsEmpty
    <3>3. c[t] \in Visited(l, QHead, Below(v, back))
      BY <3>1 DEF Visited, WalkClosed, ListMemory, Cell
    <3>4. Comes(q2, v, back, c[t])
      BY <2>2, <3>2, <3>3 DEF Comes
    <3> QED
      BY <3>4
  <2> QED
    BY <2>1, <2>2
<1>8. /\ n \in ToSet(s1) \/ (n = Idle /\ ToSet(s1) = {} /\ A = {})
      /\ TakenOut(q1, q2, n, s1, g1, A, p, c, m, D)
  BY <1>4, <1>7, QueueDequeueAny
<1>9. PICK s2, g2 :
        /\ Adds(q2, s2, g2, A, p, c, m, D)
        /\ ToSet(s2) = ToSet(s1) \ {n}
        /\ q2.count - Len(s2) = q1.count - Len(s1)
        /\ \A W \in SUBSET A : InFront(s1, g1, W) => InFront(s2, g2, W \ {n})
        /\ \A w \in [Task -> Int] : InOrder(s1, g1, A, c, w) => InOrder(s2, g2, A, c, w)
  BY <1>8 DEF TakenOut
<1>10. InFront(s2, g2, (A \ {cur}) \ {n}) /\ (InOrder(s, g, A, c, v) => InOrder(s2, g2, A, c, v))
  BY <1>4, <1>5, <1>9
<1>11. /\ n \in able /\ n \notin D /\ n \in Task
       /\ n = cur => n = Idle
  <2>1. n \in ToSet(s1) \/ n = Idle
    BY <1>8
  <2> QED
    BY <1>1, <1>2, <1>6, <2>1
<1>12. back \in Task /\ (back = Idle \/ back \notin ToSet(s2) \cup D)
  <2>1. back \in {n, cur, Idle}
    OBVIOUS
  <2> QED
    BY <1>1, <1>2, <1>6, <1>9, <1>11, <2>1
<1>13. SearchEnds(q2, v, back)
       /\ \E s3, g3 :
            /\ Adds(q3, s3, g3, A, p, c, m, D)
            /\ ToSet(s3) = ToSet(s2) \cup ({back} \ {Idle})
            /\ q3.count - Len(s3) = q2.count - Len(s2)
            /\ \A W \in SUBSET A : InFront(s2, g2, W) => InFront(s3, g3, Joined(W, back, A))
            /\ InOrder(s2, g2, A, c, v) => InOrder(s3, g3, A, c, v)
  <2>1. Idle \notin A
    BY <1>1
  <2>2. \A t \in A : ~Comes(q2, v, back, c[t])
    OBVIOUS
  <2> QED
    BY <1>9, <1>12, <2>1, <2>2, QueueInsertAny
<1>14. PICK s3, g3 :
         /\ Adds(q3, s3, g3, A, p, c, m, D)
         /\ ToSet(s3) = ToSet(s2) \cup ({back} \ {Idle})
         /\ q3.count - Len(s3) = q2.count - Len(s2)
         /\ \A W \in SUBSET A : InFront(s2, g2, W) => InFront(s3, g3, Joined(W, back, A))
         /\ InOrder(s2, g2, A, c, v) => InOrder(s3, g3, A, c, v)
  BY <1>13
<1>15. InFront(s3, g3, A \ {cur3})
  <2>1. InFront(s3, g3, Joined((A \ {cur}) \ {n}, back, A))
    BY <1>10, <1>14
  <2>2. A \ {cur3} \subseteq Joined((A \ {cur}) \ {n}, back, A)
    <3>1. CASE ~switch
      BY <1>1, <1>2, <1>11, <3>1 DEF Joined
    <3>2. CASE switch /\ cur \in able
      BY <1>1, <1>2, <1>11, <3>2 DEF Joined
    <3>3. CASE switch /\ cur \notin able
      BY <1>1, <1>2, <1>11, <3>3 DEF Joined
    <3> QED
      BY <3>1, <3>2, <3>3
  <2> QED
    BY <2>1, <2>2 DEF InFront
<1>16. cur3 \in able \ D /\ ToSet(s3) = able \ ({cur3, Idle} \cup D)
  <2>1. CASE ~switch
    <3>1. back = n /\ cur3 = cur /\ cur \in able
      BY <2>1
    <3>2. ToSet(s3) = (ToSet(s1) \ {n}) \cup ({n} \ {Idle})
      BY <1>9, <1>14, <3>1
    <3>3. ToSet(s3) = ToSet(s1)
      BY <1>6, <1>8, <3>2
    <3> QED
      BY <1>1, <1>6, <3>1, <3>3
  <2>2. CASE switch /\ cur \in able
    <3>1. back = cur /\ cur3 = n
      BY <2>2
    <3>2. ToSet(s3) = (ToSet(s1) \ {n}) \cup ({cur} \ {Idle})
      BY <1>9, <1>14, <3>1
    <3> QED
      BY <1>1, <1>6, <1>11, <2>2, <3>1, <3>2
  <2>3. CASE switch /\ cur \notin able
    <3>1. back = Idle /\ cur3 = n
      BY <2>3
    <3>2. ToSet(s3) = ToSet(s1) \ {n}
      BY <1>9, <1>14, <3>1
    <3> QED
      BY <1>6, <1>11, <2>3, <3>1, <3>2
  <2> QED
    BY <2>1, <2>2, <2>3
<1>17. Fits(q3, s3, g3, A, p, c, m, D, able, cur3)
  <2>1. /\ able \in SUBSET Task /\ D \in SUBSET able /\ A \in SUBSET (able \ {Idle})
        /\ Idle \in able \ D
    BY <1>1, <1>2
  <2> QED
    BY <1>14, <1>15, <1>16, <2>1 DEF Fits
<1>18. q3.count - Len(s3) = q.count - Len(s)
  BY <1>4, <1>9, <1>14
<1> QED
  BY <1>3, <1>10, <1>13, <1>14, <1>17, <1>18

-----------------------------------------------------------------------------
\* The run queues of the instance are those of the lemmas.
LEMMA SameRunQueues ==
  /\ Insert!RunQueues = RunQueues /\ Insert!Cell = Cell
  /\ \A q, v, x : Insert!InsertTaskQueue(q, v, x) = InsertTaskQueue(q, v, x)
  /\ \A q, v, x : Insert!SearchEnds(q, v, x) <=> SearchEnds(q, v, x)
  /\ \A q, v, x, n : Insert!Reaches(q, v, x, n) <=> Comes(q, v, x, n)
  /\ \A q : Insert!Dequeue(q) = Dequeue(q) /\ Insert!NextTask(q) = NextTask(q)
  /\ \A q, v, Q : Insert!Sorted(q, v, Q) <=> Sorted(q, v, Q)
  /\ \A l, n : Insert!ListInit(l, n) = ListInit(l, n)
  /\ \A l, h : Insert!ListIsEmpty(l, h) <=> ListIsEmpty(l, h)
  /\ \A l, L, h : Insert!WellLinked(l, L, h) <=> WellLinked(l, L, h)
  /\ \A v, x : Insert!Below(v, x) = Below(v, x)
  /\ \A S : Insert!Cardinality(S) = Cardinality(S)
<1>1. Insert!Cell = Cell
  BY DEF Cell, Insert!Cell
<1>2. \A N : Insert!ListMemory(N) = ListMemory(N)
  BY DEF ListMemory, Insert!ListMemory
<1>3. Insert!RunQueues = RunQueues
  BY <1>1, <1>2 DEF RunQueues, Insert!RunQueues
<1>4. /\ \A l, h : Insert!ListIsEmpty(l, h) <=> ListIsEmpty(l, h)
      /\ \A l, n : Insert!ListInit(l, n) = ListInit(l, n)
      /\ \A l, n : Insert!ListDelete(l, n) = ListDelete(l, n)
      /\ \A l, h, n : Insert!ListAddBefore(l, h, n) = ListAddBefore(l, h, n)
      /\ \A l, h, B : Insert!Visited(l, h, B) = Visited(l, h, B)
      /\ \A v, x : Insert!Below(v, x) = Below(v, x)
  BY DEF ListIsEmpty, Insert!ListIsEmpty, ListInit, Insert!ListInit, ListDelete,
         Insert!ListDelete, ListAddBefore, Insert!ListAddBefore, Visited, Insert!Visited,
         WalkClosed, Insert!WalkClosed, Below, Insert!Below
<1>5. \A l, L, h : Insert!WellLinked(l, L, h) <=> WellLinked(l, L, h)
  BY DEF WellLinked, Insert!WellLinked, Ring, Insert!Ring, OneCycle, Insert!OneCycle
<1>6. \A q, v, x : Insert!SearchEnds(q, v, x) <=> SearchEnds(q, v, x)
  BY <1>4 DEF SearchEnds, Insert!SearchEnds, WalkEnds, Insert!WalkEnds
<1>7. \A q, v, x : Insert!InsertPlace(q, v, x) = InsertPlace(q, v, x)
  <2>1. ASSUME NEW l, NEW h, NEW B
        PROVE  Insert!WalkEnd(l, h, B) = WalkEnd(l, h, B)
    <3>1. Insert!Visited(l, h, B) = Visited(l, h, B)
      BY <1>4
    <3> QED
      BY <3>1 DEF WalkEnd, Insert!WalkEnd
  <2>2. ASSUME NEW q, NEW v, NEW x
        PROVE  Insert!InsertPlace(q, v, x) = InsertPlace(q, v, x)
    <3>1. Insert!Below(v, x) = Below(v, x)
      BY <1>4
    <3>2. Insert!WalkEnd(q.list, QHead, Below(v, x)) = WalkEnd(q.list, QHead, Below(v, x))
      BY <2>1
    <3>3. Insert!ListIsEmpty(q.list, QHead) <=> ListIsEmpty(q.list, QHead)
      BY <1>4
    <3> QED
      BY <3>1, <3>2, <3>3 DEF InsertPlace, Insert!InsertPlace
  <2> QED
    BY <2>2
<1>8. \A q, v, x : Insert!InsertTaskQueue(q, v, x) = InsertTaskQueue(q, v, x)
  BY <1>4, <1>6, <1>7 DEF InsertTaskQueue, Insert!InsertTaskQueue
<1>9. \A q : Insert!Dequeue(q) = Dequeue(q) /\ Insert!NextTask(q) = NextTask(q)
  BY <1>4 DEF Dequeue, Insert!Dequeue, NextTask, Insert!NextTask
<1>10. \A q, v, Q : Insert!Sorted(q, v, Q) <=> Sorted(q, v, Q)
  BY DEF Sorted, Insert!Sorted
<1>11. \A q, v, x, n : Insert!Reaches(q, v, x, n) <=> Comes(q, v, x, n)
  BY <1>4 DEF Comes, Insert!Reaches
<1>12. \A S : Insert!Cardinality(S) = Cardinality(S)
  BY DEF Cardinality, Insert!Cardinality
<1> QED
  BY <1>1, <1>3, <1>4, <1>5, <1>6, <1>8, <1>9, <1>10, <1>11, <1>12

\* The head leads to a task that is queued or being added, or the list is empty.
LEMMA HeadLeads ==
  ASSUME NEW l, NEW s, NEW g, NEW A, NEW p, NEW c, NEW m, NEW D,
         Shape(l, s, g, A, p, c, m), Loose(l, s, A, c, D)
  PROVE  l.next[QHead] \in ToSet(s) \cup D \/ ListIsEmpty(l, QHead)
<1>1. /\ s \in Seq(Task) /\ Distinct(QHead, s) /\ Len(s) \in Nat /\ Node(s, 0) = QHead
      /\ Node(s, Len(s) + 1) = QHead /\ \A i \in 1 .. Len(s) : Node(s, i) = s[i]
  BY NodesDiffer DEF Shape
<1>2. CASE 0 \in Open(g, A)
  <2>1. PICK t \in A : g[t] = 0
    BY <1>2 DEF Open
  <2>2. l.next[QHead] = c[t] /\ c[t] \in D
    BY <1>1, <2>1 DEF Shape, Stored, Loose
  <2> QED
    BY <2>2
<1>3. CASE 0 \notin Open(g, A)
  <2>1. l.next[QHead] = Node(s, 1)
    BY <1>1, <1>3 DEF Shape, Chain
  <2>2. CASE Len(s) > 0
    <3>1. Node(s, 1) = s[1] /\ s[1] \in ToSet(s)
      BY <1>1, <2>2 DEF ToSet
    <3> QED
      BY <2>1, <3>1
  <2>3. CASE Len(s) = 0
    <3>1. s = <<>>
      BY <1>1, <2>3
    <3>2. \A t \in A : g[t] \in 0 .. 0
      BY <2>3 DEF Shape
    <3>3. A = {}
      BY <1>3, <3>2 DEF Open
    <3> QED
      BY <3>1, <3>3, EmptyShape
  <2> QED
    BY <1>1, <2>2, <2>3
<1> QED
  BY <1>2, <1>3

\* schedule() takes a task that is able to run, whatever its search comes to.
LEMMA NextAble ==
  ASSUME NEW q, NEW s, NEW g, NEW A, NEW p, NEW c, NEW m, NEW D, NEW R, NEW cur,
         Fits(q, s, g, A, p, c, m, D, R, cur), NEW v, NEW x, NEW able, Able(x, able, A, R, cur)
  PROVE  LET q1 == InsertTaskQueue(q, v, x)
         IN  NextTask(q1) \in able /\ q1 \in RunQueues /\ Dequeue(q1) \in RunQueues
<1> PICK q1 : q1 = InsertTaskQueue(q, v, x)
  OBVIOUS
<1> PICK l \in ListMemory(Cell) : l = q.list
  BY DEF Fits, Adds, RunQueues
<1>1. /\ R \subseteq Task /\ D \subseteq R /\ Idle \in R /\ cur \notin D
      /\ ToSet(s) = R \ ({cur, Idle} \cup D)
  BY DEF Fits
<1>2. /\ x \in Task /\ able \subseteq Task /\ D \subseteq able /\ x \in able
      /\ ToSet(s) \subseteq able /\ Idle \in able
  BY <1>1, TaskAssumption DEF Able
<1>3. q \in RunQueues /\ (l.next[QHead] \in able \/ ListIsEmpty(l, QHead))
  <2>1. q \in RunQueues /\ Shape(l, s, g, A, p, c, m) /\ Loose(l, s, A, c, D)
    BY DEF Fits, Adds
  <2> QED
    BY <1>2, <2>1, HeadLeads
<1>4. q1 \in RunQueues /\ Dequeue(q1) \in RunQueues
  BY <1>2, <1>3, InsertType, DequeueType
<1>5. CASE x = Idle \/ ~SearchEnds(q, v, x)
  <2>1. q1 = q
    BY <1>5 DEF InsertTaskQueue
  <2> QED
    BY <1>2, <1>3, <1>4, <2>1 DEF NextTask
<1>6. CASE x # Idle /\ SearchEnds(q, v, x)
  <2> PICK e : e = InsertPlace(q, v, x)
    OBVIOUS
  <2>1. q1.list = ListAddBefore(l, e, x)
    BY <1>6 DEF InsertTaskQueue
  <2>2. QHead \in Cell /\ QHead # x
    BY <1>2, TaskAssumption DEF Cell
  <2>3. q1.list.next[QHead] = IF l.prev[e] = QHead THEN x ELSE l.next[QHead]
    BY <2>1, <2>2 DEF ListAddBefore, ListMemory
  <2>4. ListIsEmpty(l, QHead) => l.prev[e] = QHead
    BY DEF InsertPlace, ListIsEmpty
  <2> QED
    BY <1>2, <1>3, <1>4, <2>3, <2>4 DEF NextTask
<1> QED
  BY <1>5, <1>6

\* The memory determines the sequence.
LEMMA ChainBegins ==
  ASSUME NEW l, NEW s, NEW g, NEW r, NEW h, NEW A, NEW p, NEW c, NEW m, NEW D,
         Shape(l, s, g, A, p, c, m), Loose(l, s, A, c, D),
         Shape(l, r, h, A, p, c, m), Loose(l, r, A, c, D)
  PROVE  Len(s) <= Len(r) /\ \A i \in 1 .. Len(s) : s[i] = r[i]
<1>1. /\ s \in Seq(Task) /\ Len(s) \in Nat /\ Distinct(QHead, s)
      /\ \A i \in 1 .. Len(s) : Node(s, i) = s[i] /\ s[i] # QHead
      /\ Node(s, 0) = QHead
      /\ \A i \in 0 .. Len(s) + 1 : Node(s, i) \notin D
  <2>1. s \in Seq(Task) /\ Distinct(QHead, s)
    BY DEF Shape
  <2>2. \A i \in 1 .. Len(s) : s[i] \in Task /\ s[i] # QHead
    BY <2>1, TaskAssumption
  <2>3. D \in SUBSET (Task \ ToSet(s)) /\ QHead \notin D
    BY TaskAssumption DEF Loose
  <2>4. \A i \in 0 .. Len(s) + 1 : Node(s, i) \in ToSet(s) \cup {QHead}
    BY <2>1, NodesDiffer
  <2> QED
    BY <2>1, <2>2, <2>3, <2>4, NodesDiffer
<1>2. /\ r \in Seq(Task) /\ Len(r) \in Nat /\ Distinct(QHead, r)
      /\ \A i \in 1 .. Len(r) : Node(r, i) = r[i]
      /\ Node(r, 0) = QHead /\ Node(r, Len(r) + 1) = QHead
      /\ \A i \in 0 .. Len(r) + 1 : Node(r, i) \notin D
  <2>1. r \in Seq(Task) /\ Distinct(QHead, r)
    BY DEF Shape
  <2>3. D \in SUBSET (Task \ ToSet(r)) /\ QHead \notin D
    BY TaskAssumption DEF Loose
  <2>4. \A i \in 0 .. Len(r) + 1 : Node(r, i) \in ToSet(r) \cup {QHead}
    BY <2>1, NodesDiffer
  <2> QED
    BY <2>1, <2>3, <2>4, NodesDiffer
<1> DEFINE Same(i) == i <= Len(r) + 1 /\ Node(s, i) = Node(r, i)
<1>3. ASSUME NEW i \in 0 .. Len(s), Same(i)
      PROVE  Same(i + 1)
  <2>1. i \in 0 .. Len(r)
    <3> SUFFICES ASSUME i = Len(r) + 1 PROVE FALSE
      BY <1>1, <1>2, <1>3
    <3>1. i \in 1 .. Len(s) /\ Node(s, i) = QHead
      BY <1>2, <1>3
    <3> QED
      BY <1>1, <3>1
  <2>2. /\ i \notin Open(g, A) => l.next[Node(s, i)] = Node(s, i + 1)
        /\ i \notin Open(h, A) => l.next[Node(s, i)] = Node(r, i + 1)
    BY <1>3, <2>1 DEF Shape, Chain
  <2>3. /\ \A t \in A : g[t] = i => l.next[Node(s, i)] = c[t] /\ m[t] = Node(s, i + 1)
        /\ \A t \in A : h[t] = i => l.next[Node(s, i)] = c[t] /\ m[t] = Node(r, i + 1)
        /\ \A t \in A : c[t] \in D
        /\ \A t, u \in A : c[t] = c[u] => t = u
    BY <1>3 DEF Shape, Stored, Loose
  <2>4. Node(s, i + 1) \notin D /\ Node(r, i + 1) \notin D
    BY <1>1, <1>2, <2>1
  <2>5. Node(s, i + 1) = Node(r, i + 1)
    <3>1. CASE i \in Open(g, A)
      <4>1. PICK t \in A : g[t] = i
        BY <3>1 DEF Open
      <4>2. i \in Open(h, A)
        BY <2>2, <2>3, <2>4, <4>1
      <4>3. PICK u \in A : h[u] = i
        BY <4>2 DEF Open
      <4> QED
        BY <2>3, <4>1, <4>3
    <3>2. CASE i \notin Open(g, A)
      <4>1. i \notin Open(h, A)
        BY <2>2, <2>3, <2>4, <3>2 DEF Open
      <4> QED
        BY <2>2, <3>2, <4>1
    <3> QED
      BY <3>1, <3>2
  <2> QED
    BY <1>2, <2>1, <2>5
<1> DEFINE X == {i \in 0 .. Len(s) + 1 : ~Same(i)}
<1>4. X = {}
  <2> SUFFICES ASSUME X # {} PROVE FALSE
    OBVIOUS
  <2> HIDE DEF Same
  <2>1. PICK y \in X : \A j \in X : y <= j
    <3>1. X \in SUBSET Nat
      BY <1>1
    <3> QED
      BY <3>1, LeastOf
  <2>2. y # 0
    BY <1>1, <1>2, <2>1 DEF Same
  <2>3. y - 1 \in 0 .. Len(s) /\ (y - 1) + 1 = y /\ y - 1 \in 0 .. Len(s) + 1 /\ ~(y <= y - 1)
    BY <1>1, <2>1, <2>2
  <2>4. Same(y - 1)
    BY <2>1, <2>3
  <2>5. Same((y - 1) + 1)
    BY <1>3, <2>3, <2>4
  <2> QED
    BY <2>1, <2>3, <2>5
<1>5. \A i \in 0 .. Len(s) + 1 : Same(i)
  BY <1>4
<1>6. Len(s) <= Len(r)
  <2>1. Len(s) + 1 \in 0 .. Len(s) + 1
    BY <1>1
  <2> QED
    BY <1>1, <1>2, <1>5, <2>1
<1>7. ASSUME NEW i \in 1 .. Len(s)
      PROVE  s[i] = r[i]
  <2>1. i \in 0 .. Len(s) + 1 /\ i \in 1 .. Len(r)
    BY <1>1, <1>2, <1>6
  <2> QED
    BY <1>1, <1>2, <1>5, <2>1
<1> QED
  BY <1>6, <1>7

\* Pointers and children tell the sequence.
LEMMA ChainUnique ==
  ASSUME NEW l, NEW s, NEW g, NEW r, NEW h, NEW A, NEW p, NEW c, NEW m, NEW D,
         Shape(l, s, g, A, p, c, m), Loose(l, s, A, c, D),
         Shape(l, r, h, A, p, c, m), Loose(l, r, A, c, D)
  PROVE  s = r
<1>1. s \in Seq(Task) /\ r \in Seq(Task)
  BY DEF Shape
<1>2. Len(s) <= Len(r) /\ \A i \in 1 .. Len(s) : s[i] = r[i]
  BY ChainBegins
<1>3. Len(r) <= Len(s)
  BY ChainBegins
<1> QED
  BY <1>1, <1>2, <1>3

-----------------------------------------------------------------------------
\* Who is adding, and who searches.
Adders == Insert!Within(Insert!Adding)
Searchers == Insert!Within(Insert!Searching)

\* The module's own TypeOK.
ForkTypes ==
  /\ fork_rq \in RunQueues /\ fork_current \in fork_ready /\ fork_ready \subseteq Task
  /\ fork_vruntime \in [Task -> 0 .. MaxVruntime]
  /\ fork_at \in [Task -> Insert!Places] /\ \A t \in fork_ready : fork_at[t] # "unborn"
  /\ fork_child \in [Task -> Task] /\ fork_tmp \in [Task -> Cell]
  /\ fork_loaded \in [Task -> Int]
  /\ fork_struck \subseteq Insert!Kinds /\ fork_hung \in BOOLEAN

\* It is the one that ForkInsert states.
LEMMA SameForkTypes == Insert!TypeOK <=> ForkTypes
  BY SameRunQueues DEF Insert!TypeOK, ForkTypes

\* The parents are ready, and each has a child of its own, which has not run yet.
Parents ==
  /\ fork_at[Idle] = "out"
  /\ \A t \in Task : fork_at[t] \notin {"out", "unborn"} => t \in fork_ready
  /\ \A t \in Searchers \cup Adders : fork_at[fork_child[t]] = "out"
  /\ \A t, u \in Searchers \cup Adders : fork_child[t] = fork_child[u] => t = u

\* The run queue is the sequence s, with the gaps g.
Held(s, g) == Fits(fork_rq, s, g, Adders, fork_at, fork_child, fork_tmp, Insert!Pending,
                   fork_ready, fork_current)

\* The counter is as many less as tasks have not counted their child.
Counted(s) ==
  "count" \notin fork_struck =>
    fork_rq.count - Len(s) = 1 - Cardinality(Insert!Uncounted)

\* The search of the current task has passed over tasks with less vruntime only, or it
\* has come to another child.
Found(s) ==
  fork_at[fork_current] \in {"empty", "search", "first"} =>
    \/ \E t \in Adders : fork_tmp[fork_current] = fork_child[t]
    \/ \E i \in 0 .. Len(s) :
         /\ fork_tmp[fork_current] = Node(s, i + 1)
         /\ \A j \in 1 .. i : fork_vruntime[s[j]] < fork_vruntime[fork_child[fork_current]]
         /\ fork_at[fork_current] = "first" =>
              \/ i = Len(s)
              \/ fork_vruntime[fork_child[fork_current]] <= fork_vruntime[s[i + 1]]

\* Nobody searches but the current task, and the queue and what is being added are in order.
Located(s, g) ==
  "moved" \notin fork_struck =>
    /\ Searchers \subseteq {fork_current}
    /\ InOrder(s, g, Adders, fork_child, fork_vruntime)
    /\ Found(s)

ForkKept ==
  Insert!Trusted =>
    /\ ~fork_hung /\ Parents
    /\ \E s, g : Held(s, g) /\ Counted(s) /\ Located(s, g)

ForkInv == ForkTypes /\ ForkKept

\* Only the vruntime of a task that is not in the queue has changed.
LEMMA OrderSame ==
  ASSUME NEW s \in Seq(Task), NEW g, NEW A, NEW c, NEW D, NEW v, NEW w,
         \A t \in A : c[t] \in D /\ g[t] \in 0 .. Len(s), InOrder(s, g, A, c, v),
         \A t \in ToSet(s) \cup D : w[t] = v[t]
  PROVE  InOrder(s, g, A, c, w)
<1>1. Len(s) \in Nat /\ \A j \in 1 .. Len(s) : w[s[j]] = v[s[j]]
  BY DEF ToSet
<1>2. \A t \in A : w[c[t]] = v[c[t]]
  OBVIOUS
<1>3. \A j \in 1 .. Len(s) - 1 : j \in 1 .. Len(s) /\ j + 1 \in 1 .. Len(s)
  BY <1>1
<1>4. ASSUME NEW t \in A
      PROVE  /\ g[t] > 0 => w[s[g[t]]] <= w[c[t]]
             /\ g[t] < Len(s) => w[c[t]] <= w[s[g[t] + 1]]
  <2>1. /\ g[t] > 0 => g[t] \in 1 .. Len(s)
        /\ g[t] < Len(s) => g[t] + 1 \in 1 .. Len(s)
    BY <1>1
  <2>2. /\ g[t] > 0 => v[s[g[t]]] <= v[c[t]]
        /\ g[t] < Len(s) => v[c[t]] <= v[s[g[t] + 1]]
    BY DEF InOrder
  <2> QED
    BY <1>1, <1>2, <2>1, <2>2
<1> QED
  BY <1>1, <1>3, <1>4 DEF InOrder

\* schedule(), by an interrupt or a task that goes to sleep, keeps all this.
LEMMA RescheduleKept ==
  ASSUME ForkInv, Insert!Trusted, NEW x, NEW v \in [Task -> 0 .. MaxVruntime], NEW able,
         Able(x, able, Adders, fork_ready, fork_current),
         fork_current \notin able => fork_at[fork_current] = "out",
         x = Idle \/ fork_at[x] # "unborn",
         \A t \in Task \ {fork_current} : v[t] = fork_vruntime[t],
         Insert!Reschedule(x, v, able),
         fork_at' = fork_at, fork_child' = fork_child, fork_tmp' = fork_tmp,
         fork_loaded' = fork_loaded
  PROVE  ForkInv'
<1> PICK q : q = fork_rq
  OBVIOUS
<1> PICK cur : cur = fork_current
  OBVIOUS
<1> PICK q1 : q1 = InsertTaskQueue(q, v, x)
  OBVIOUS
<1> PICK n : n = NextTask(q1)
  OBVIOUS
<1> PICK q2 : q2 = Dequeue(q1)
  OBVIOUS
<1> PICK switch \in BOOLEAN : switch <=> (v[cur] >= v[n] \/ cur \notin able)
  OBVIOUS
<1> PICK back : back = IF ~switch THEN n ELSE IF cur \in able THEN cur ELSE Idle
  OBVIOUS
<1> PICK q3 : q3 = InsertTaskQueue(q2, v, back)
  OBVIOUS
<1> PICK cur3 : cur3 = IF switch THEN n ELSE cur
  OBVIOUS
<1> PICK half : half = {t \in Adders : Comes(q, v, x, fork_child[t]) \/ Comes(q2, v, back, fork_child[t])}
  OBVIOUS
<1>1. /\ fork_rq' = q3 /\ fork_current' = cur3 /\ fork_ready' = able /\ fork_vruntime' = v
      /\ fork_hung' = ~(SearchEnds(q, v, x) /\ SearchEnds(q2, v, back))
      /\ fork_struck' = fork_struck \cup (IF half # {} THEN {"half"} ELSE {})
                          \cup (IF Searchers # {} /\ q3.list # q.list THEN {"moved"} ELSE {})
  BY SameRunQueues DEF Insert!Reschedule, Adders, Searchers
<1>2. /\ ForkTypes /\ ~fork_hung /\ Parents
      /\ Adders' = Adders /\ Searchers' = Searchers /\ Insert!Pending' = Insert!Pending
      /\ Insert!Uncounted' = Insert!Uncounted
  BY DEF ForkInv, ForkKept, Adders, Searchers, Insert!Within, Insert!Pending, Insert!Uncounted
<1>3. PICK s, g : Held(s, g) /\ Counted(s) /\ Located(s, g)
  BY DEF ForkInv, ForkKept
<1> PICK A, p, c, m, D, R :
      /\ A = Adders /\ p = fork_at /\ c = fork_child /\ m = fork_tmp
      /\ D = Insert!Pending /\ R = fork_ready
  OBVIOUS
<1>4. Fits(q, s, g, A, p, c, m, D, R, cur)
  BY <1>3 DEF Held
<1>5. /\ R \subseteq Task /\ D \subseteq R /\ cur \in R /\ cur \notin D /\ Idle \in R /\ cur \in Task
      /\ s \in Seq(Task) /\ Len(s) \in Nat /\ ToSet(s) = R \ ({cur, Idle} \cup D)
      /\ q \in RunQueues
  BY <1>4 DEF Fits, Adds, Shape
<1>6. n \in able /\ q1 \in RunQueues /\ q2 \in RunQueues
  <2>1. Able(x, able, A, R, cur)
    OBVIOUS
  <2> QED
    BY <1>4, <2>1, NextAble
<1>7. able \subseteq Task /\ able \subseteq R \cup {x}
  BY <1>5, TaskAssumption DEF Able
<1>8. cur3 \in able /\ back \in Task
  BY <1>5, <1>6, <1>7
<1>9. q3 \in RunQueues
  BY <1>6, <1>8, InsertType
<1>10. ForkTypes'
  <2>1. \A t \in able : fork_at[t] # "unborn"
    BY <1>2, <1>7, TaskAssumption DEF ForkTypes, Parents
  <2>2. fork_struck' \subseteq Insert!Kinds
    BY <1>1, <1>2 DEF ForkTypes, Insert!Kinds, Insert!Broken
  <2>3. fork_hung' \in BOOLEAN
    BY <1>1
  <2> QED
    BY <1>1, <1>2, <1>7, <1>8, <1>9, <2>1, <2>2, <2>3 DEF ForkTypes
<1> SUFFICES ASSUME Insert!Trusted'
             PROVE  (~fork_hung /\ Parents /\ \E t, h : Held(t, h) /\ Counted(t) /\ Located(t, h))'
  BY <1>10 DEF ForkInv, ForkKept
<1>11. half = {}
  <2>1. "half" \notin fork_struck'
    BY DEF Insert!Trusted, Insert!Broken
  <2> QED
    BY <1>1, <2>1
<1>12. v \in [Task -> Int]
  BY BoundAssumption
<1>13. SearchEnds(q, v, x) /\ SearchEnds(q2, v, back)
       /\ \E s3, g3 :
            /\ Fits(q3, s3, g3, A, p, c, m, D, able, cur3)
            /\ q3.count - Len(s3) = q.count - Len(s)
            /\ InOrder(s, g, A, c, v) => InOrder(s3, g3, A, c, v)
  <2>1. \A t \in A : ~Comes(q, v, x, c[t]) /\ ~Comes(q2, v, back, c[t])
    BY <1>11
  <2>2. cur \notin able => switch
    OBVIOUS
  <2>3. Able(x, able, A, R, cur)
    OBVIOUS
  <2> QED
    BY <1>4, <1>12, <2>1, <2>2, <2>3, Rescheduled
<1>14. PICK s3, g3 :
         /\ Fits(q3, s3, g3, A, p, c, m, D, able, cur3)
         /\ q3.count - Len(s3) = q.count - Len(s)
         /\ InOrder(s, g, A, c, v) => InOrder(s3, g3, A, c, v)
  BY <1>13
<1>15. ~fork_hung'
  BY <1>1, <1>13
<1>16. Parents'
  <2>1. \A t \in Task : fork_at[t] \notin {"out", "unborn"} => t \in able
    BY <1>2, <1>5 DEF Parents, Able
  <2> QED
    BY <1>1, <1>2, <2>1 DEF Parents
<1>17. Held(s3, g3)'
  BY <1>1, <1>2, <1>14 DEF Held
<1>18. Counted(s3)'
  <2>1. "count" \notin fork_struck' => "count" \notin fork_struck
    BY <1>1
  <2> QED
    BY <1>1, <1>2, <1>3, <1>14, <2>1 DEF Counted
<1>19. Located(s3, g3)'
  <2> SUFFICES ASSUME "moved" \notin fork_struck'
               PROVE  (/\ Searchers \subseteq {fork_current}
                       /\ InOrder(s3, g3, Adders, fork_child, fork_vruntime)
                       /\ Found(s3))'
    BY DEF Located
  <2>1. "moved" \notin fork_struck /\ (Searchers = {} \/ q3.list = q.list)
    BY <1>1
  <2>2. Searchers \subseteq {cur} /\ InOrder(s, g, A, c, fork_vruntime) /\ Found(s)
    BY <1>3, <2>1 DEF Located
  <2>3. \A t \in ToSet(s) \cup D : v[t] = fork_vruntime[t]
    BY <1>5
  <2>4. InOrder(s3, g3, A, c, v)
    <3>1. \A t \in A : c[t] \in D /\ g[t] \in 0 .. Len(s)
      BY <1>4 DEF Fits, Adds, Shape, Loose
    <3>2. InOrder(s, g, A, c, v)
      BY <1>5, <2>2, <2>3, <3>1, OrderSame
    <3> QED
      BY <1>14, <3>2
  <2>5. CASE Searchers = {}
    <3>1. cur3 \in Task /\ fork_at[cur3] \notin {"empty", "search", "first"}
      BY <1>7, <1>8, <2>5 DEF Searchers, Insert!Within, Insert!Searching
    <3>2. Found(s3)'
      BY <1>1, <3>1 DEF Found
    <3> QED
      BY <1>1, <1>2, <2>4, <2>5, <3>2
  <2>6. CASE Searchers # {}
    <3>1. cur \in Searchers /\ q3.list = q.list
      BY <2>1, <2>2, <2>6
    <3>2. /\ Shape(q.list, s, g, A, p, c, m) /\ Loose(q.list, s, A, c, D)
          /\ Shape(q.list, s3, g3, A, p, c, m) /\ Loose(q.list, s3, A, c, D)
      BY <1>4, <1>14, <3>1 DEF Fits, Adds
    <3>3. s3 = s
      BY <3>2, ChainUnique
    <3>4. fork_at[cur] \notin {"out", "unborn"}
      BY <3>1 DEF Searchers, Insert!Within, Insert!Searching
    <3>5. cur \in able /\ cur # Idle
      BY <1>2, <3>4 DEF Parents
    <3>6. cur3 = cur
      <4>1. ToSet(s3) = able \ ({cur3, Idle} \cup D)
        BY <1>14 DEF Fits
      <4> QED
        BY <1>5, <3>3, <3>5, <4>1
    <3>7. fork_child[cur] \in D
      BY <3>1 DEF Insert!Pending, Searchers, Insert!Within
    <3>8. v[fork_child[cur]] = fork_vruntime[fork_child[cur]]
      BY <2>3, <3>7
    <3>9. \A j \in 1 .. Len(s) : v[s[j]] = fork_vruntime[s[j]]
      BY <1>5, <2>3 DEF ToSet
    <3>10. Found(s3)'
      <4> SUFFICES ASSUME fork_at[cur] \in {"empty", "search", "first"}
                   PROVE  \/ \E t \in A : fork_tmp[cur] = fork_child[t]
                          \/ \E i \in 0 .. Len(s) :
                               /\ fork_tmp[cur] = Node(s, i + 1)
                               /\ \A j \in 1 .. i : v[s[j]] < v[fork_child[cur]]
                               /\ fork_at[cur] = "first" =>
                                    i = Len(s) \/ v[fork_child[cur]] <= v[s[i + 1]]
        BY <1>1, <1>2, <3>3, <3>6 DEF Found
      <4>1. CASE \E t \in A : fork_tmp[cur] = fork_child[t]
        BY <4>1
      <4>2. CASE \E i \in 0 .. Len(s) :
                   /\ fork_tmp[cur] = Node(s, i + 1)
                   /\ \A j \in 1 .. i : fork_vruntime[s[j]] < fork_vruntime[fork_child[cur]]
                   /\ fork_at[cur] = "first" =>
                        \/ i = Len(s)
                        \/ fork_vruntime[fork_child[cur]] <= fork_vruntime[s[i + 1]]
        <5>1. PICK i \in 0 .. Len(s) :
                   /\ fork_tmp[cur] = Node(s, i + 1)
                   /\ \A j \in 1 .. i : fork_vruntime[s[j]] < fork_vruntime[fork_child[cur]]
                   /\ fork_at[cur] = "first" =>
                        \/ i = Len(s)
                        \/ fork_vruntime[fork_child[cur]] <= fork_vruntime[s[i + 1]]
          BY <4>2
        <5>2. \A j \in 1 .. i : v[s[j]] < v[fork_child[cur]]
          <6>1. \A j \in 1 .. i : j \in 1 .. Len(s)
            BY <1>5
          <6> QED
            BY <3>8, <3>9, <5>1, <6>1
        <5>3. i = Len(s) \/ v[s[i + 1]] = fork_vruntime[s[i + 1]]
          BY <1>5, <3>9
        <5> QED
          BY <3>8, <5>1, <5>2, <5>3
      <4> QED
        BY <2>2, <4>1, <4>2 DEF Found
    <3> QED
      BY <1>1, <1>2, <2>2, <2>4, <3>6, <3>10
  <2> QED
    BY <2>5, <2>6
<1> QED
  BY <1>15, <1>16, <1>17, <1>18, <1>19

-----------------------------------------------------------------------------
\* cur adds behind the i-th node as well.
Opened(q, s, g, A, p, c, m, D, R, cur, i) ==
  \E h : /\ Fits(q, s, h, A \cup {cur}, p, c, m, D, R, cur)
         /\ h[cur] = i /\ \A t \in A : h[t] = g[t]

\* Before the first store of list_add_before the queue is closed where the child goes.
LEMMA FirstFits ==
  ASSUME NEW q, NEW s, NEW g, NEW A, NEW p, NEW c, NEW m, NEW D, NEW R, NEW cur,
         Fits(q, s, g, A, p, c, m, D, R, cur), cur # Idle, cur \notin A, c[cur] \in D,
         \A t \in A : c[t] # c[cur] /\ m[t] # m[cur],
         NEW i \in 0 .. Len(s), m[cur] = Node(s, i + 1),
         NEW p2, p2[cur] = "second", \A t \in A : p2[t] = p[t],
         NEW q2, q2 = [q EXCEPT !.list = [q.list EXCEPT !.next[q.list.prev[m[cur]]] = c[cur]]]
  PROVE  Opened(q2, s, g, A, p2, c, m, D, R, cur, i)
<1> PICK l \in ListMemory(Cell) : l = q.list
  BY DEF Fits, Adds, RunQueues
<1> PICK h : h = [t \in A \cup {cur} |-> IF t = cur THEN i ELSE g[t]]
  OBVIOUS
<1>1. /\ Shape(l, s, g, A, p, c, m) /\ Loose(l, s, A, c, D) /\ q \in RunQueues
      /\ s \in Seq(Task) /\ Distinct(QHead, s) /\ Len(s) \in Nat
  BY DEF Fits, Adds, Shape
<1>2. /\ \A j \in 0 .. Len(s) + 1 : Node(s, j) \in Cell /\ Node(s, j) \notin D
      /\ \A j, n \in 0 .. Len(s) : Node(s, j) = Node(s, n) => j = n
      /\ \A j, n \in 1 .. Len(s) + 1 : Node(s, j) = Node(s, n) => j = n
  <2>1. QHead \notin D /\ \A n \in ToSet(s) : n \notin D
    BY <1>1, TaskAssumption DEF Loose
  <2> QED
    BY <1>1, <2>1, NodesDiffer
<1>3. \A t \in A : g[t] # i
  BY <1>1 DEF Shape
<1>4. l.prev[m[cur]] = Node(s, i)
  <2>1. i \notin Open(g, A)
    BY <1>3 DEF Open
  <2> QED
    BY <1>1, <2>1 DEF Shape, Chain
<1>5. c[cur] \in Cell
  BY <1>1 DEF Loose, Cell
<1> PICK k : k = [l EXCEPT !.next[l.prev[m[cur]]] = c[cur]]
  OBVIOUS
<1>6. /\ k \in ListMemory(Cell) /\ k.prev = l.prev
      /\ k.next[Node(s, i)] = c[cur]
      /\ \A n \in Cell : n # Node(s, i) => k.next[n] = l.next[n]
  BY <1>2, <1>4, <1>5 DEF ListMemory
<1>7. q2.list = k /\ q2 \in RunQueues
  BY <1>1, <1>6 DEF RunQueues
<1>8. Open(h, A \cup {cur}) = Open(g, A) \cup {i}
  BY DEF Open
<1>9. Chain(k, s, Open(h, A \cup {cur}))
  <2> SUFFICES ASSUME NEW j \in 0 .. Len(s) \ (Open(g, A) \cup {i})
               PROVE  /\ k.next[Node(s, j)] = Node(s, j + 1)
                      /\ k.prev[Node(s, j + 1)] = Node(s, j)
    BY <1>8 DEF Chain
  <2>1. l.next[Node(s, j)] = Node(s, j + 1) /\ l.prev[Node(s, j + 1)] = Node(s, j)
    BY <1>1 DEF Shape, Chain
  <2>2. Node(s, j) \in Cell /\ Node(s, j) # Node(s, i)
    BY <1>1, <1>2
  <2> QED
    BY <1>6, <2>1, <2>2
<1>10. ASSUME NEW t \in A
       PROVE  /\ h[t] = g[t] /\ g[t] \in 0 .. Len(s) /\ m[t] = Node(s, g[t] + 1)
              /\ Stored(k, Node(s, g[t]), m[t], c[t], p2[t])
  <2>1. /\ h[t] = g[t] /\ g[t] \in 0 .. Len(s) /\ m[t] = Node(s, g[t] + 1)
        /\ Stored(l, Node(s, g[t]), m[t], c[t], p[t])
    BY <1>1 DEF Shape
  <2>2. Node(s, g[t]) \in Cell /\ Node(s, g[t]) # Node(s, i)
    BY <1>1, <1>2, <1>3, <2>1
  <2> QED
    BY <1>6, <2>1, <2>2 DEF Stored
<1>11. h[cur] = i /\ Stored(k, Node(s, i), m[cur], c[cur], p2[cur])
  BY <1>4, <1>6 DEF Stored
<1>12. \A t, u \in A \cup {cur} : h[t] = h[u] => t = u
  BY <1>1, <1>3, <1>10, <1>11 DEF Shape
<1>13. Shape(k, s, h, A \cup {cur}, p2, c, m)
  BY <1>1, <1>6, <1>9, <1>10, <1>11, <1>12 DEF Shape
<1>14. Loose(k, s, A \cup {cur}, c, D)
  <2>1. \A d \in D : d \in Cell /\ d # Node(s, i)
    BY <1>1, <1>2 DEF Loose, Cell
  <2> QED
    BY <1>1, <1>6, <2>1 DEF Loose
<1>15. InFront(s, h, (A \cup {cur}) \ {cur})
  <2>1. InFront(s, g, A \ {cur})
    BY DEF Fits
  <2> QED
    BY <1>10, <2>1 DEF InFront
<1>16. Fits(q2, s, h, A \cup {cur}, p2, c, m, D, R, cur)
  BY <1>7, <1>13, <1>14, <1>15 DEF Fits, Adds
<1> QED
  BY <1>10, <1>11, <1>16 DEF Opened

\* The second store: the child leads back.
LEMMA SecondFits ==
  ASSUME NEW q, NEW s, NEW g, NEW A, NEW p, NEW c, NEW m, NEW D, NEW R, NEW cur,
         Fits(q, s, g, A, p, c, m, D, R, cur), cur \in A, p[cur] = "second",
         NEW p2, p2[cur] = "third", \A t \in A : t # cur => p2[t] = p[t],
         NEW q2, q2 = [q EXCEPT !.list = [q.list EXCEPT !.prev[c[cur]] = q.list.prev[m[cur]]]]
  PROVE  Fits(q2, s, g, A, p2, c, m, D, R, cur)
<1> PICK l \in ListMemory(Cell) : l = q.list
  BY DEF Fits, Adds, RunQueues
<1>1. /\ Shape(l, s, g, A, p, c, m) /\ Loose(l, s, A, c, D) /\ q \in RunQueues
      /\ s \in Seq(Task) /\ Distinct(QHead, s) /\ Len(s) \in Nat
  BY DEF Fits, Adds, Shape
<1>2. /\ \A j \in 0 .. Len(s) + 1 : Node(s, j) \in Cell /\ Node(s, j) \notin D
      /\ \A t \in A : /\ g[t] \in 0 .. Len(s) /\ m[t] = Node(s, g[t] + 1)
                      /\ c[t] \in D /\ c[t] \in Cell
  <2>1. QHead \notin D /\ \A n \in ToSet(s) : n \notin D
    BY <1>1, TaskAssumption DEF Loose
  <2>2. \A t \in A : g[t] \in 0 .. Len(s) /\ m[t] = Node(s, g[t] + 1) /\ c[t] \in D /\ c[t] \in Cell
    BY <1>1 DEF Shape, Loose, Cell
  <2> QED
    BY <1>1, <2>1, <2>2, NodesDiffer
<1> PICK k : k = [l EXCEPT !.prev[c[cur]] = l.prev[m[cur]]]
  OBVIOUS
<1>3. /\ k \in ListMemory(Cell) /\ k.next = l.next /\ k.prev[c[cur]] = l.prev[m[cur]]
      /\ \A n \in Cell : n # c[cur] => k.prev[n] = l.prev[n]
  BY <1>1, <1>2 DEF ListMemory
<1>4. q2.list = k /\ q2 \in RunQueues
  BY <1>1, <1>3 DEF RunQueues
<1>5. \A j \in 1 .. Len(s) + 1 : k.prev[Node(s, j)] = l.prev[Node(s, j)]
  BY <1>2, <1>3
<1>6. Chain(k, s, Open(g, A))
  <2>1. \A j \in 0 .. Len(s) : j + 1 \in 1 .. Len(s) + 1
    BY <1>1
  <2> QED
    BY <1>1, <1>3, <1>5, <2>1 DEF Shape, Chain
<1>7. ASSUME NEW t \in A
      PROVE  Stored(k, Node(s, g[t]), m[t], c[t], p2[t])
  <2>1. Stored(l, Node(s, g[t]), m[t], c[t], p[t])
    BY <1>1 DEF Shape
  <2>2. k.prev[m[t]] = l.prev[m[t]]
    BY <1>1, <1>2, <1>5
  <2>3. CASE t = cur
    BY <1>3, <2>1, <2>2, <2>3 DEF Stored
  <2>4. CASE t # cur
    <3>1. c[t] # c[cur] /\ c[t] \in Cell
      BY <1>1, <1>2, <2>4 DEF Loose
    <3> QED
      BY <1>3, <2>1, <2>2, <2>4, <3>1 DEF Stored
  <2> QED
    BY <2>3, <2>4
<1>8. Shape(k, s, g, A, p2, c, m)
  BY <1>1, <1>3, <1>6, <1>7 DEF Shape
<1>9. Loose(k, s, A, c, D)
  BY <1>1, <1>3 DEF Loose
<1> QED
  BY <1>4, <1>8, <1>9 DEF Fits, Adds

\* The third: what it is put before leads back to the child.
LEMMA ThirdFits ==
  ASSUME NEW q, NEW s, NEW g, NEW A, NEW p, NEW c, NEW m, NEW D, NEW R, NEW cur,
         Fits(q, s, g, A, p, c, m, D, R, cur), cur \in A, p[cur] = "third",
         NEW p2, p2[cur] = "fourth", \A t \in A : t # cur => p2[t] = p[t],
         NEW q2, q2 = [q EXCEPT !.list = [q.list EXCEPT !.prev[m[cur]] = c[cur]]]
  PROVE  Fits(q2, s, g, A, p2, c, m, D, R, cur)
<1> PICK l \in ListMemory(Cell) : l = q.list
  BY DEF Fits, Adds, RunQueues
<1>1. /\ Shape(l, s, g, A, p, c, m) /\ Loose(l, s, A, c, D) /\ q \in RunQueues
      /\ s \in Seq(Task) /\ Distinct(QHead, s) /\ Len(s) \in Nat
  BY DEF Fits, Adds, Shape
<1>2. /\ \A j \in 0 .. Len(s) + 1 : Node(s, j) \in Cell /\ Node(s, j) \notin D
      /\ \A t \in A : /\ g[t] \in 0 .. Len(s) /\ m[t] = Node(s, g[t] + 1)
                      /\ c[t] \in D /\ c[t] \in Cell
  <2>1. QHead \notin D /\ \A n \in ToSet(s) : n \notin D
    BY <1>1, TaskAssumption DEF Loose
  <2>2. \A t \in A : g[t] \in 0 .. Len(s) /\ m[t] = Node(s, g[t] + 1) /\ c[t] \in D /\ c[t] \in Cell
    BY <1>1 DEF Shape, Loose, Cell
  <2> QED
    BY <1>1, <2>1, <2>2, NodesDiffer
<1>3. \A j, n \in 1 .. Len(s) + 1 : Node(s, j) = Node(s, n) => j = n
  BY <1>1, NodesDiffer
<1> PICK k : k = [l EXCEPT !.prev[m[cur]] = c[cur]]
  OBVIOUS
<1>4. /\ k \in ListMemory(Cell) /\ k.next = l.next /\ k.prev[m[cur]] = c[cur]
      /\ \A n \in Cell : n # m[cur] => k.prev[n] = l.prev[n]
  <2>1. m[cur] \in Cell
    BY <1>1, <1>2
  <2> QED
    BY <1>1, <1>2, <2>1 DEF ListMemory
<1>5. q2.list = k /\ q2 \in RunQueues
  BY <1>1, <1>4 DEF RunQueues
<1>6. \A j \in 0 .. Len(s) : j # g[cur] => k.prev[Node(s, j + 1)] = l.prev[Node(s, j + 1)]
  <2> SUFFICES ASSUME NEW j \in 0 .. Len(s), j # g[cur]
               PROVE  k.prev[Node(s, j + 1)] = l.prev[Node(s, j + 1)]
    OBVIOUS
  <2>1. j + 1 \in 1 .. Len(s) + 1 /\ g[cur] + 1 \in 1 .. Len(s) + 1 /\ j + 1 # g[cur] + 1
    BY <1>1, <1>2
  <2>2. Node(s, j + 1) # m[cur] /\ Node(s, j + 1) \in Cell
    BY <1>1, <1>2, <1>3, <2>1
  <2> QED
    BY <1>4, <2>2
<1>7. Chain(k, s, Open(g, A))
  BY <1>1, <1>4, <1>6 DEF Shape, Chain, Open
<1>8. ASSUME NEW t \in A
      PROVE  Stored(k, Node(s, g[t]), m[t], c[t], p2[t])
  <2>1. Stored(l, Node(s, g[t]), m[t], c[t], p[t])
    BY <1>1 DEF Shape
  <2>2. k.prev[c[t]] = l.prev[c[t]]
    <3>1. c[t] \in Cell /\ c[t] # m[cur]
      <4>1. g[cur] + 1 \in 0 .. Len(s) + 1
        BY <1>1, <1>2
      <4> QED
        BY <1>2, <4>1
    <3> QED
      BY <1>4, <3>1
  <2>3. CASE t = cur
    BY <1>4, <2>1, <2>2, <2>3 DEF Stored
  <2>4. CASE t # cur
    <3>1. g[t] # g[cur]
      BY <1>1, <2>4 DEF Shape
    <3>2. k.prev[m[t]] = l.prev[m[t]]
      BY <1>2, <1>6, <3>1
    <3> QED
      BY <1>4, <2>1, <2>2, <2>4, <3>2 DEF Stored
  <2> QED
    BY <2>3, <2>4
<1>9. Shape(k, s, g, A, p2, c, m)
  BY <1>1, <1>4, <1>7, <1>8 DEF Shape
<1>10. Loose(k, s, A, c, D)
  BY <1>1, <1>4 DEF Loose
<1> QED
  BY <1>5, <1>9, <1>10 DEF Fits, Adds

\* The other gaps are between the same nodes as before.
LEMMA NodesFurther ==
  ASSUME NEW s \in Seq(Task), Distinct(QHead, s), NEW i \in 0 .. Len(s),
         NEW x \in Task \ ToSet(s), NEW e \in 0 .. Len(s), e # i
  PROVE  LET r == InsertAt(s, i + 1, x)
         IN  /\ Further(e, i) \in 0 .. Len(r)
             /\ Node(r, Further(e, i)) = Node(s, e)
             /\ Node(r, Further(e, i) + 1) = Node(s, e + 1)
<1> DEFINE r == InsertAt(s, i + 1, x)
<1>1. /\ Len(r) = Len(s) + 1 /\ Len(s) \in Nat
      /\ \A j \in 0 .. Len(s) + 2 :
           Node(r, j) = IF j <= i THEN Node(s, j) ELSE IF j = i + 1 THEN x ELSE Node(s, j - 1)
  BY Spliced DEF IsSpliced
<1> HIDE DEF r
<1> PICK f : f = Further(e, i)
  OBVIOUS
<1>2. CASE e < i
  <2>1. f = e /\ f <= i /\ f + 1 <= i /\ f \in 0 .. Len(s) + 2 /\ f + 1 \in 0 .. Len(s) + 2
    BY <1>1, <1>2 DEF Further
  <2>2. Node(r, f) = Node(s, f)
    BY <1>1, <2>1
  <2>3. Node(r, f + 1) = Node(s, f + 1)
    BY <1>1, <2>1
  <2> QED
    BY <1>1, <2>1, <2>2, <2>3 DEF r
<1>3. CASE e > i
  <2>1. f = e + 1 /\ f - 1 = e /\ (f + 1) - 1 = e + 1 /\ f > i + 1
    BY <1>1, <1>3 DEF Further
  <2>2. f \in 0 .. Len(s) + 2 /\ f + 1 \in 0 .. Len(s) + 2
    BY <1>1, <2>1
  <2>3. Node(r, f) = Node(s, f - 1)
    BY <1>1, <2>1, <2>2
  <2>4. Node(r, f + 1) = Node(s, (f + 1) - 1)
    BY <1>1, <2>1, <2>2
  <2> QED
    BY <1>1, <2>1, <2>3, <2>4 DEF r
<1> QED
  BY <1>1, <1>2, <1>3

\* What cur adds is linked in.
Closed(q2, s, g, A, p2, c, m, D, R, cur) ==
  \E s2, g2 :
    /\ Fits(q2, s2, g2, A \ {cur}, p2, c, m, D \ {c[cur]}, R, cur)
    /\ Len(s2) = Len(s) + 1
    /\ \A v \in [Task -> Int] :
         InOrder(s, g, A, c, v) => InOrder(s2, g2, A \ {cur}, c, v)

\* The fourth: the child is in the queue.
LEMMA FourthFits ==
  ASSUME NEW q, NEW s, NEW g, NEW A, NEW p, NEW c, NEW m, NEW D, NEW R, NEW cur,
         Fits(q, s, g, A, p, c, m, D, R, cur), cur \in A, p[cur] = "fourth", c[cur] \notin A,
         NEW p2, \A t \in A : t # cur => p2[t] = p[t],
         NEW q2, q2 = [q EXCEPT !.list = [q.list EXCEPT !.next[c[cur]] = m[cur]]]
  PROVE  Closed(q2, s, g, A, p2, c, m, D, R, cur)
<1> PICK l \in ListMemory(Cell) : l = q.list
  BY DEF Fits, Adds, RunQueues
<1>1. /\ Shape(l, s, g, A, p, c, m) /\ Loose(l, s, A, c, D) /\ q \in RunQueues
      /\ s \in Seq(Task) /\ Distinct(QHead, s) /\ Len(s) \in Nat
  BY DEF Fits, Adds, Shape
<1>2. /\ \A t \in A : g[t] \in 0 .. Len(s) /\ m[t] = Node(s, g[t] + 1)
      /\ \A t, u \in A : g[t] = g[u] => t = u
      /\ Chain(l, s, Open(g, A)) /\ Open(g, A) \in SUBSET (0 .. Len(s))
  BY <1>1 DEF Shape, Open
<1> PICK i \in 0 .. Len(s) : i = g[cur]
  BY <1>2
<1> PICK x \in Task \ ToSet(s) : x = c[cur]
  BY <1>1 DEF Loose
<1> PICK B : B = A \ {cur}
  OBVIOUS
<1> PICK r : r = InsertAt(s, i + 1, x)
  OBVIOUS
<1> PICK h : h = [t \in B |-> Further(g[t], i)]
  OBVIOUS
<1> PICK k : k = [l EXCEPT !.next[x] = m[cur]]
  OBVIOUS
<1>3. /\ \A j \in 0 .. Len(s) + 1 : Node(s, j) \in Cell /\ Node(s, j) \notin D
      /\ x \in Cell /\ x \in D
  <2>1. QHead \notin D /\ \A n \in ToSet(s) : n \notin D
    BY <1>1, TaskAssumption DEF Loose
  <2> QED
    BY <1>1, <2>1, NodesDiffer DEF Loose, Cell
<1>4. /\ k \in ListMemory(Cell) /\ k.prev = l.prev /\ k.next[x] = m[cur]
      /\ \A n \in Cell : n # x => k.next[n] = l.next[n]
  <2>1. m[cur] \in Cell
    BY <1>1, <1>2, <1>3
  <2> QED
    BY <1>3, <2>1 DEF ListMemory
<1>5. q2.list = k /\ q2.count = q.count /\ q2 \in RunQueues
  BY <1>1, <1>4 DEF RunQueues
<1>6. PutBetween(k, l, Node(s, i), Node(s, i + 1), x)
  <2>1. Stored(l, Node(s, i), Node(s, i + 1), x, "fourth")
    BY <1>1, <1>2 DEF Shape
  <2>2. m[cur] = Node(s, i + 1) /\ Node(s, i) \in Cell /\ Node(s, i) # x
    BY <1>1, <1>2, <1>3
  <2> QED
    BY <1>4, <2>1, <2>2 DEF PutBetween, Stored
<1>7. /\ r \in Seq(Task) /\ Distinct(QHead, r) /\ Len(r) = Len(s) + 1
      /\ ToSet(r) = ToSet(s) \cup {x}
  <2>1. x \in Task /\ x \notin ToSet(s)
    OBVIOUS
  <2>2. IsSpliced(InsertAt(s, i + 1, x), s, i, x)
    BY <1>1, <2>1, Spliced
  <2>3. IsSpliced(r, s, i, x)
    BY <2>2
  <2> QED
    BY <2>3 DEF IsSpliced
<1>8. Chain(k, r, Open(h, B))
  <2> PICK open \in SUBSET (0 .. Len(s)) : open = Open(g, A)
    BY <1>2
  <2>1. Chain(k, InsertAt(s, i + 1, x), {Further(o, i) : o \in open \ {i}})
    <3>1. Chain(l, s, open) /\ s \in Seq(Task) /\ Distinct(QHead, s) /\ k \in ListMemory(Cell)
      BY <1>1, <1>2, <1>4
    <3> QED
      BY <1>6, <3>1, ChainSpliced
  <2>2. {Further(o, i) : o \in open \ {i}} = Open(h, B)
    <3>1. \A t \in A : t \in B <=> g[t] # i
      BY <1>2
    <3>2. open \ {i} = {g[t] : t \in B}
      BY <3>1 DEF Open
    <3>3. Open(h, B) = {Further(g[t], i) : t \in B}
      BY DEF Open
    <3>4. {Further(o, i) : o \in {g[t] : t \in B}} = {Further(g[t], i) : t \in B}
      OBVIOUS
    <3> QED
      BY <3>2, <3>3, <3>4
  <2> QED
    BY <2>1, <2>2
<1>9. ASSUME NEW t \in B
      PROVE  /\ h[t] \in 0 .. Len(r) /\ m[t] = Node(r, h[t] + 1)
             /\ Stored(k, Node(r, h[t]), m[t], c[t], p2[t])
  <2> PICK e \in 0 .. Len(s) : e = g[t] /\ e # i
    BY <1>2
  <2>1. /\ h[t] \in 0 .. Len(r) /\ Node(r, h[t]) = Node(s, e) /\ Node(r, h[t] + 1) = Node(s, e + 1)
    <3> DEFINE z == InsertAt(s, i + 1, x)
    <3>1. /\ Further(e, i) \in 0 .. Len(z)
          /\ Node(z, Further(e, i)) = Node(s, e)
          /\ Node(z, Further(e, i) + 1) = Node(s, e + 1)
      BY <1>1, NodesFurther
    <3> QED
      BY <3>1
  <2>2. m[t] = Node(s, e + 1) /\ Stored(l, Node(s, e), m[t], c[t], p[t]) /\ p2[t] = p[t]
    BY <1>1 DEF Shape
  <2>3. k.next[Node(s, e)] = l.next[Node(s, e)]
    BY <1>1, <1>3, <1>4
  <2> QED
    BY <1>4, <2>1, <2>2, <2>3 DEF Stored
<1>10. \A t, u \in B : h[t] = h[u] => t = u
  <2>1. \A t, u \in B : h[t] = h[u] => g[t] = g[u]
    BY <1>1, <1>2 DEF Further
  <2> QED
    BY <1>2, <2>1
<1>11. Shape(k, r, h, B, p2, c, m)
  BY <1>4, <1>7, <1>8, <1>9, <1>10 DEF Shape
<1>12. Loose(k, r, B, c, D \ {x})
  <2>1. \A d \in D : d \in Cell
    BY <1>1 DEF Loose, Cell
  <2>2. \A t \in B : c[t] # x
    BY <1>1 DEF Loose
  <2> QED
    BY <1>1, <1>4, <1>7, <2>1, <2>2 DEF Loose
<1>13. \A t \in B : g[t] \in 0 .. Len(s) /\ g[t] # i
  BY <1>2
<1>14. InFront(r, h, B)
  <2>1. InFront(s, g, B) /\ B \in SUBSET B
    BY DEF Fits
  <2>2. x \in B => g[x] > i
    OBVIOUS
  <2>3. \A W \in SUBSET B :
          InFront(s, g, W) => InFront(InsertAt(s, i + 1, x), Moved(g, B, i), Joined(W, x, B))
    <3>1. s \in Seq(Task) /\ Distinct(QHead, s)
      BY <1>1
    <3> QED
      BY <1>13, <2>2, <3>1, FurtherInFront
  <2>4. h = Moved(g, B, i)
    BY DEF Moved
  <2>5. InFront(r, h, Joined(B, x, B))
    BY <2>1, <2>3, <2>4
  <2> QED
    BY <2>5 DEF InFront, Joined
<1>15. ASSUME NEW v \in [Task -> Int], InOrder(s, g, A, c, v)
       PROVE  InOrder(r, h, B, c, v)
  <2>1. InOrder(s, g, B, c, v)
    BY <1>15 DEF InOrder
  <2>2. /\ i > 0 => v[s[i]] <= v[x]
        /\ i < Len(s) => v[x] <= v[s[i + 1]]
    BY <1>15 DEF InOrder
  <2>3. InOrder(InsertAt(s, i + 1, x), Moved(g, B, i), B, c, v)
    <3>1. s \in Seq(Task) /\ Distinct(QHead, s) /\ v \in [Task -> Int]
      BY <1>1, <1>15
    <3> QED
      BY <1>13, <2>1, <2>2, <3>1, FurtherInOrder
  <2>4. h = Moved(g, B, i)
    BY DEF Moved
  <2> QED
    BY <2>3, <2>4
<1>16. Fits(q2, r, h, B, p2, c, m, D \ {x}, R, cur)
  <2>1. /\ R \in SUBSET Task /\ D \in SUBSET R /\ A \in SUBSET (R \ {Idle})
        /\ Idle \in R \ D /\ cur \in R \ D
        /\ ToSet(s) = R \ ({cur, Idle} \cup D)
    BY DEF Fits
  <2>2. x \in R \ {cur, Idle}
    BY <1>3, <2>1
  <2>3. ToSet(r) = R \ ({cur, Idle} \cup (D \ {x}))
    BY <1>3, <1>7, <2>1, <2>2
  <2>4. InFront(r, h, B \ {cur})
    BY <1>14
  <2> QED
    BY <1>5, <1>11, <1>12, <2>1, <2>3, <2>4 DEF Fits, Adds
<1> QED
  BY <1>7, <1>15, <1>16 DEF Closed

-----------------------------------------------------------------------------
\* A step of the current task in do_fork, after it has got its child: where it is then.
LEMMA ParentStep ==
  ASSUME ForkInv, Insert!Trusted, fork_at[fork_current] # "out",
         NEW place \in Insert!Places \ {"unborn"}, Insert!Goes(place),
         fork_child' = fork_child, Insert!Stays,
         place \in Insert!Adding \cup Insert!Searching =>
           fork_at[fork_current] \in Insert!Adding \cup Insert!Searching
  PROVE  /\ Parents' /\ ~fork_hung'
         /\ fork_at' \in [Task -> Insert!Places]
         /\ \A t \in fork_ready' : fork_at'[t] # "unborn"
         /\ \A t \in Task : fork_at'[t] = IF t = fork_current THEN place ELSE fork_at[t]
         /\ Adders' = IF place \in Insert!Adding THEN Adders \cup {fork_current}
                      ELSE Adders \ {fork_current}
         /\ Searchers' = IF place \in Insert!Searching THEN Searchers \cup {fork_current}
                         ELSE Searchers \ {fork_current}
         /\ Insert!Uncounted' = IF place \in {"load", "store"}
                                THEN Insert!Uncounted \cup {fork_current}
                                ELSE Insert!Uncounted \ {fork_current}
         /\ \/ place \in Insert!Adding \cup Insert!Searching
            \/ fork_current \notin Searchers \cup Adders
            => Insert!Pending' = Insert!Pending
         /\ /\ place \notin Insert!Adding \cup Insert!Searching
            /\ fork_current \in Searchers \cup Adders
            => Insert!Pending' = Insert!Pending \ {fork_child[fork_current]}
<1> PICK cur : cur = fork_current
  OBVIOUS
<1>1. /\ ForkTypes /\ ~fork_hung /\ Parents /\ cur \in Task /\ cur \in fork_ready
      /\ fork_at[cur] # "unborn"
  BY DEF ForkInv, ForkKept, ForkTypes
<1>2. PICK s, g : Held(s, g)
  BY DEF ForkInv, ForkKept
<1>3. cur \notin Insert!Pending
  BY <1>2 DEF Held, Fits
<1>4. /\ fork_current' = cur /\ fork_ready' = fork_ready /\ fork_hung' = fork_hung
      /\ fork_at' = [fork_at EXCEPT ![cur] = place]
  BY DEF Insert!Stays, Insert!Goes
<1>5. /\ fork_at' \in [Task -> Insert!Places]
      /\ \A t \in Task : fork_at'[t] = IF t = cur THEN place ELSE fork_at[t]
  BY <1>1, <1>4 DEF ForkTypes
<1>6. \A t \in fork_ready' : fork_at'[t] # "unborn"
  BY <1>1, <1>4, <1>5 DEF ForkTypes
<1>7. /\ Adders' = {t \in Task : fork_at'[t] \in Insert!Adding}
      /\ Searchers' = {t \in Task : fork_at'[t] \in Insert!Searching}
      /\ Insert!Uncounted' = {t \in Task : fork_at'[t] \in {"load", "store"}}
      /\ Adders = {t \in Task : fork_at[t] \in Insert!Adding}
      /\ Searchers = {t \in Task : fork_at[t] \in Insert!Searching}
      /\ Insert!Uncounted = {t \in Task : fork_at[t] \in {"load", "store"}}
  BY DEF Adders, Searchers, Insert!Uncounted, Insert!Within, Insert!Adding, Insert!Searching
<1>8. Adders' = IF place \in Insert!Adding THEN Adders \cup {cur} ELSE Adders \ {cur}
  BY <1>1, <1>5, <1>7
<1>9. Searchers' = IF place \in Insert!Searching THEN Searchers \cup {cur} ELSE Searchers \ {cur}
  BY <1>1, <1>5, <1>7
<1>10. Insert!Uncounted' = IF place \in {"load", "store"} THEN Insert!Uncounted \cup {cur}
                           ELSE Insert!Uncounted \ {cur}
  BY <1>1, <1>5, <1>7
<1>11. Insert!Within(Insert!Searching \cup Insert!Adding) = Searchers \cup Adders
       /\ Insert!Within(Insert!Searching \cup Insert!Adding)' = (Searchers \cup Adders)'
  BY DEF Insert!Within, Searchers, Adders
<1>12. /\ Insert!Pending = {fork_child[t] : t \in Searchers \cup Adders}
       /\ Insert!Pending' = {fork_child[t] : t \in (Searchers \cup Adders)'}
  BY <1>11 DEF Insert!Pending
<1>13. (place \in Insert!Adding \cup Insert!Searching \/ cur \notin Searchers \cup Adders)
       => (Searchers \cup Adders)' = Searchers \cup Adders
  BY <1>1, <1>7, <1>8, <1>9 DEF Insert!Adding, Insert!Searching
<1>14. (place \notin Insert!Adding \cup Insert!Searching /\ cur \in Searchers \cup Adders)
       => (Searchers \cup Adders)' = (Searchers \cup Adders) \ {cur}
  BY <1>8, <1>9
<1>15. (place \notin Insert!Adding \cup Insert!Searching /\ cur \in Searchers \cup Adders)
       => Insert!Pending' = Insert!Pending \ {fork_child[cur]}
  BY <1>1, <1>12, <1>14 DEF Parents
<1>16. (Searchers \cup Adders)' \subseteq Searchers \cup Adders
  BY <1>13, <1>14
<1>17. Parents'
  <2>1. fork_at'[Idle] = "out"
    BY <1>1, <1>5, TaskAssumption DEF Parents
  <2>2. \A t \in Task : fork_at'[t] \notin {"out", "unborn"} => t \in fork_ready'
    BY <1>1, <1>4, <1>5 DEF Parents
  <2>3. ASSUME NEW t \in (Searchers \cup Adders)'
        PROVE  fork_at'[fork_child[t]] = "out"
    <3>1. t \in Searchers \cup Adders
      BY <1>16
    <3>2. t \in Task
      BY <3>1, <1>7
    <3>3. fork_child[t] \in Task /\ fork_child[t] # cur
      BY <1>1, <1>3, <1>12, <3>1, <3>2 DEF ForkTypes
    <3> QED
      BY <1>1, <1>5, <3>1, <3>3 DEF Parents
  <2>4. \A t, u \in (Searchers \cup Adders)' : fork_child[t] = fork_child[u] => t = u
    BY <1>1, <1>16 DEF Parents
  <2> QED
    BY <2>1, <2>2, <2>3, <2>4 DEF Parents
<1> QED
  BY <1>1, <1>4, <1>5, <1>6, <1>8, <1>9, <1>10, <1>12, <1>13, <1>15, <1>17

\* What the tasks that add have in their variables is all that counts of these.
LEMMA FitsSame ==
  ASSUME NEW q, NEW s, NEW g, NEW A, NEW p, NEW c, NEW m, NEW D, NEW R, NEW cur,
         Fits(q, s, g, A, p, c, m, D, R, cur), NEW p2, NEW c2, NEW m2,
         \A t \in A : p2[t] = p[t] /\ c2[t] = c[t] /\ m2[t] = m[t]
  PROVE  Fits(q, s, g, A, p2, c2, m2, D, R, cur)
<1>1. Shape(q.list, s, g, A, p2, c2, m2)
  BY DEF Fits, Adds, Shape
<1>2. Loose(q.list, s, A, c2, D)
  BY DEF Fits, Adds, Loose
<1> QED
  BY <1>1, <1>2 DEF Fits, Adds

\* Likewise for the order.
LEMMA OrderSameChildren ==
  ASSUME NEW s, NEW g, NEW A, NEW c, NEW v, InOrder(s, g, A, c, v), NEW c2,
         \A t \in A : c2[t] = c[t]
  PROVE  InOrder(s, g, A, c2, v)
  BY DEF InOrder

\* A step of the search of the current task, if its finding is right.
LEMMA SearchStep ==
  ASSUME ForkInv, Insert!Trusted, fork_at[fork_current] \in Insert!Searching,
         NEW place \in {"empty", "search", "first"}, Insert!Goes(place), Insert!Stays,
         fork_rq' = fork_rq, fork_child' = fork_child, fork_loaded' = fork_loaded,
         fork_struck' = fork_struck, fork_tmp' \in [Task -> Cell],
         \A t \in Task \ {fork_current} : fork_tmp'[t] = fork_tmp[t],
         \A s, g : Held(s, g) /\ Found(s) => Found(s)'
  PROVE  ForkInv'
<1>1. /\ ForkTypes /\ fork_current \in Task /\ fork_current \in Searchers
      /\ fork_current \notin Adders
  BY DEF ForkInv, ForkTypes, Searchers, Adders, Insert!Within, Insert!Adding, Insert!Searching
<1>2. /\ Parents' /\ ~fork_hung'
      /\ fork_at' \in [Task -> Insert!Places]
      /\ \A t \in fork_ready' : fork_at'[t] # "unborn"
      /\ \A t \in Task : fork_at'[t] = IF t = fork_current THEN place ELSE fork_at[t]
      /\ Adders' = Adders /\ Searchers' = Searchers /\ Insert!Pending' = Insert!Pending
      /\ Insert!Uncounted' = Insert!Uncounted
  <2>1. place \in Insert!Searching /\ place \notin Insert!Adding /\ place \notin {"load", "store"}
        /\ place \in Insert!Places \ {"unborn"}
    BY DEF Insert!Searching, Insert!Adding, Insert!Places
  <2>2. fork_at[fork_current] # "out"
    BY DEF Insert!Searching
  <2>3. fork_current \notin Insert!Uncounted
    BY DEF Insert!Uncounted, Insert!Within, Insert!Searching
  <2> HIDE DEF Insert!Goes, Insert!Stays
  <2>4. /\ Parents' /\ ~fork_hung'
        /\ fork_at' \in [Task -> Insert!Places]
        /\ \A t \in fork_ready' : fork_at'[t] # "unborn"
        /\ \A t \in Task : fork_at'[t] = IF t = fork_current THEN place ELSE fork_at[t]
        /\ Adders' = Adders \ {fork_current}
        /\ Searchers' = Searchers \cup {fork_current}
        /\ Insert!Uncounted' = Insert!Uncounted \ {fork_current}
        /\ Insert!Pending' = Insert!Pending
    BY <2>1, <2>2, ParentStep
  <2> QED
    BY <1>1, <2>3, <2>4
<1>3. /\ fork_current' = fork_current /\ fork_ready' = fork_ready
      /\ fork_vruntime' = fork_vruntime /\ fork_hung' = fork_hung
  BY DEF Insert!Stays
<1>4. ForkTypes'
  BY <1>1, <1>2, <1>3 DEF ForkTypes
<1>5. PICK s, g : Held(s, g) /\ Counted(s) /\ Located(s, g)
  BY DEF ForkInv, ForkKept
<1>6. Held(s, g)'
  <2>1. \A t \in Adders : /\ fork_at'[t] = fork_at[t] /\ fork_child'[t] = fork_child[t]
                          /\ fork_tmp'[t] = fork_tmp[t]
    BY <1>1, <1>2 DEF Adders, Insert!Within
  <2>2. Fits(fork_rq, s, g, Adders, fork_at', fork_child', fork_tmp', Insert!Pending,
             fork_ready, fork_current)
    BY <1>5, <2>1, FitsSame DEF Held
  <2> QED
    BY <1>2, <1>3, <2>2 DEF Held
<1>7. Counted(s)'
  BY <1>2, <1>5 DEF Counted
<1>8. Located(s, g)'
  BY <1>2, <1>3, <1>5 DEF Located
<1> QED
  BY <1>2, <1>4, <1>6, <1>7, <1>8 DEF ForkInv, ForkKept

\* The node behind the i-th, or the child that is being added there.
LEMMA NextNode ==
  ASSUME NEW s, NEW g, Held(s, g), NEW i \in 0 .. Len(s)
  PROVE  \/ fork_rq.list.next[Node(s, i)] = Node(s, i + 1)
         \/ \E t \in Adders : fork_rq.list.next[Node(s, i)] = fork_child[t]
<1>1. Shape(fork_rq.list, s, g, Adders, fork_at, fork_child, fork_tmp)
  BY DEF Held, Fits, Adds
<1>2. CASE i \in Open(g, Adders)
  BY <1>1, <1>2 DEF Open, Shape, Stored
<1>3. CASE i \notin Open(g, Adders)
  BY <1>1, <1>3 DEF Shape, Chain
<1> QED
  BY <1>2, <1>3

\* The search begins at the first node, or at a child that is being put there.
LEMMA EnterKept ==
  ASSUME ForkInv, Insert!Trusted, Insert!Enter
  PROVE  ForkInv'
<1> PICK cur : cur = fork_current
  OBVIOUS
<1>1. /\ fork_at[cur] = "enter" /\ Insert!Goes("empty") /\ Insert!Stays
      /\ fork_tmp' = [fork_tmp EXCEPT ![cur] = fork_rq.list.next[QHead]]
      /\ fork_rq' = fork_rq /\ fork_child' = fork_child /\ fork_loaded' = fork_loaded
      /\ fork_struck' = fork_struck
  BY DEF Insert!Enter, Insert!At
<1>2. ForkTypes /\ cur \in Task /\ fork_rq.list.next[QHead] \in Cell
  BY DEF ForkInv, ForkTypes, RunQueues, ListMemory, Cell
<1>3. /\ fork_tmp' \in [Task -> Cell] /\ fork_tmp'[cur] = fork_rq.list.next[QHead]
      /\ \A t \in Task \ {cur} : fork_tmp'[t] = fork_tmp[t]
  BY <1>1, <1>2 DEF ForkTypes
<1>4. ASSUME NEW s, NEW g, Held(s, g)
      PROVE  Found(s)'
  <2>1. Len(s) \in Nat /\ Node(s, 0) = QHead
    BY <1>4, NodesDiffer DEF Held, Fits, Adds, Shape
  <2>2. \/ fork_rq.list.next[QHead] = Node(s, 0 + 1)
        \/ \E t \in Adders : fork_rq.list.next[QHead] = fork_child[t]
    BY <1>4, <2>1, NextNode
  <2>3. /\ Adders' = Adders /\ fork_current' = cur /\ fork_at'[cur] = "empty"
    BY <1>1, <1>2 DEF Insert!Goes, Insert!Stays, ForkTypes, Adders, Insert!Within, Insert!Adding
  <2>4. \A j \in 1 .. 0 : fork_vruntime'[s[j]] < fork_vruntime'[fork_child'[cur]]
    OBVIOUS
  <2> QED
    BY <1>1, <1>3, <2>1, <2>2, <2>3, <2>4 DEF Found
<1> QED
  BY <1>1, <1>3, <1>4, SearchStep DEF Insert!Searching

\* It is over if the list is seen to be empty, as then nothing is in it.
LEMMA EmptyKept ==
  ASSUME ForkInv, Insert!Trusted, Insert!Empty
  PROVE  ForkInv'
<1> PICK cur : cur = fork_current
  OBVIOUS
<1> PICK place : place = IF ListIsEmpty(fork_rq.list, QHead) THEN "first" ELSE "search"
  OBVIOUS
<1>1. /\ fork_at[cur] = "empty" /\ Insert!Goes(place) /\ Insert!Stays
      /\ fork_rq' = fork_rq /\ fork_child' = fork_child /\ fork_loaded' = fork_loaded
      /\ fork_struck' = fork_struck /\ fork_tmp' = fork_tmp
  BY SameRunQueues DEF Insert!Empty, Insert!At, Insert!locals
<1>2. ForkTypes /\ cur \in Task
  BY DEF ForkInv, ForkTypes
<1>3. /\ Adders' = Adders /\ fork_current' = cur /\ fork_at'[cur] = place
      /\ fork_vruntime' = fork_vruntime
  BY <1>1, <1>2 DEF Insert!Goes, Insert!Stays, ForkTypes, Adders, Insert!Within, Insert!Adding
<1>4. ASSUME NEW s, NEW g, Held(s, g), Found(s)
      PROVE  Found(s)'
  <2>1. place = "first" => Len(s) = 0 /\ Adders = {}
    <3>1. /\ Shape(fork_rq.list, s, g, Adders, fork_at, fork_child, fork_tmp)
          /\ Loose(fork_rq.list, s, Adders, fork_child, Insert!Pending)
      BY <1>4 DEF Held, Fits, Adds
    <3>2. place = "first" => s = <<>> /\ Adders = {}
      BY <3>1, EmptyShape
    <3> QED
      BY <3>2
  <2>2. \/ \E t \in Adders : fork_tmp[cur] = fork_child[t]
        \/ \E i \in 0 .. Len(s) :
             /\ fork_tmp[cur] = Node(s, i + 1)
             /\ \A j \in 1 .. i : fork_vruntime[s[j]] < fork_vruntime[fork_child[cur]]
    BY <1>1, <1>4 DEF Found
  <2>3. CASE \E t \in Adders : fork_tmp[cur] = fork_child[t]
    BY <1>1, <1>3, <2>3 DEF Found
  <2>4. CASE \E i \in 0 .. Len(s) :
               /\ fork_tmp[cur] = Node(s, i + 1)
               /\ \A j \in 1 .. i : fork_vruntime[s[j]] < fork_vruntime[fork_child[cur]]
    <3>1. PICK i \in 0 .. Len(s) :
            /\ fork_tmp[cur] = Node(s, i + 1)
            /\ \A j \in 1 .. i : fork_vruntime[s[j]] < fork_vruntime[fork_child[cur]]
      BY <2>4
    <3>2. place = "first" => i = Len(s)
      BY <2>1
    <3> QED
      BY <1>1, <1>3, <3>1, <3>2 DEF Found
  <2> QED
    BY <2>2, <2>3, <2>4
<1>5. fork_tmp' \in [Task -> Cell] /\ \A t \in Task \ {cur} : fork_tmp'[t] = fork_tmp[t]
  BY <1>1, <1>2 DEF ForkTypes
<1> QED
  BY <1>1, <1>4, <1>5, SearchStep DEF Insert!Searching

\* A turn of the search, or its end: it has not passed the place.
LEMMA SearchKept ==
  ASSUME ForkInv, Insert!Trusted, Insert!Search
  PROVE  ForkInv'
<1> PICK cur : cur = fork_current
  OBVIOUS
<1> PICK below \in BOOLEAN :
      below <=> fork_tmp[cur] \in Below(fork_vruntime, fork_child[cur])
  OBVIOUS
<1> PICK place : place = IF below THEN "search" ELSE "first"
  OBVIOUS
<1>1. ForkTypes /\ cur \in Task
  BY DEF ForkInv, ForkTypes
<1>2. /\ fork_at[cur] = "search" /\ Insert!Stays
      /\ fork_rq' = fork_rq /\ fork_child' = fork_child /\ fork_loaded' = fork_loaded
      /\ fork_struck' = fork_struck
      /\ below => /\ fork_tmp' = [fork_tmp EXCEPT ![cur] = fork_rq.list.next[fork_tmp[cur]]]
                  /\ fork_at' = fork_at
      /\ ~below => fork_tmp' = fork_tmp /\ Insert!Goes("first")
  <2>1. Insert!Below(fork_vruntime, fork_child[cur]) = Below(fork_vruntime, fork_child[cur])
    BY SameRunQueues
  <2> QED
    BY <2>1 DEF Insert!Search, Insert!At, Insert!My
<1>3. Insert!Goes(place)
  BY <1>1, <1>2 DEF Insert!Goes, ForkTypes
<1>4. /\ Adders' = Adders /\ fork_current' = cur /\ fork_at'[cur] = place
      /\ fork_vruntime' = fork_vruntime
  BY <1>1, <1>2, <1>3 DEF Insert!Goes, Insert!Stays, ForkTypes, Adders, Insert!Within, Insert!Adding
<1>5. /\ fork_tmp[cur] \in Cell /\ fork_rq.list.next[fork_tmp[cur]] \in Cell
      /\ fork_tmp' \in [Task -> Cell] /\ \A t \in Task \ {cur} : fork_tmp'[t] = fork_tmp[t]
      /\ below => fork_tmp'[cur] = fork_rq.list.next[fork_tmp[cur]]
  <2>1. fork_tmp \in [Task -> Cell] /\ fork_rq.list.next \in [Cell -> Cell]
    BY <1>1 DEF ForkTypes, RunQueues, ListMemory
  <2> QED
    BY <1>1, <1>2, <2>1
<1>6. ASSUME NEW s, NEW g, Held(s, g), Found(s)
      PROVE  Found(s)'
  <2>1. /\ Len(s) \in Nat /\ Node(s, Len(s) + 1) = QHead /\ QHead \notin Task
        /\ \A i \in 1 .. Len(s) : Node(s, i) = s[i] /\ s[i] \in Task
    BY <1>6, NodesDiffer, TaskAssumption DEF Held, Fits, Adds, Shape
  <2>2. /\ fork_vruntime \in [Task -> Int] /\ fork_child[cur] \in Task
    BY <1>1, BoundAssumption DEF ForkTypes
  <2>3. CASE \E t \in Adders : fork_tmp[cur] = fork_child[t]
    <3>1. PICK t \in Adders : fork_tmp[cur] = fork_child[t]
      BY <2>3
    <3>2. fork_rq.list.next[fork_child[t]] = fork_child[t]
      BY <1>6 DEF Held, Fits, Adds, Loose
    <3>3. fork_tmp'[cur] = fork_child[t]
      BY <1>2, <1>5, <3>1, <3>2
    <3> QED
      BY <1>2, <1>4, <3>3 DEF Found
  <2>4. CASE \E i \in 0 .. Len(s) :
               /\ fork_tmp[cur] = Node(s, i + 1)
               /\ \A j \in 1 .. i : fork_vruntime[s[j]] < fork_vruntime[fork_child[cur]]
    <3>1. PICK i \in 0 .. Len(s) :
            /\ fork_tmp[cur] = Node(s, i + 1)
            /\ \A j \in 1 .. i : fork_vruntime[s[j]] < fork_vruntime[fork_child[cur]]
      BY <2>4
    <3>2. CASE below
      <4>1. fork_tmp[cur] \in Task /\ fork_vruntime[fork_tmp[cur]] < fork_vruntime[fork_child[cur]]
        BY <3>2 DEF Below
      <4>2. i # Len(s)
        BY <2>1, <3>1, <4>1
      <4>3. PICK n \in 0 .. Len(s) : n = i + 1 /\ n \in 1 .. Len(s)
        BY <2>1, <4>2
      <4>4. fork_tmp[cur] = s[n] /\ fork_tmp[cur] = Node(s, n)
        BY <2>1, <3>1, <4>3
      <4>5. \A j \in 1 .. n : fork_vruntime[s[j]] < fork_vruntime[fork_child[cur]]
        <5>1. \A j \in 1 .. n : j \in 1 .. i \/ j = n
          BY <4>3
        <5> QED
          BY <3>1, <4>1, <4>4, <5>1
      <4>6. \/ fork_tmp'[cur] = Node(s, n + 1)
            \/ \E t \in Adders : fork_tmp'[cur] = fork_child[t]
        BY <1>5, <1>6, <3>2, <4>3, <4>4, NextNode
      <4>7. place = "search"
        BY <3>2
      <4> QED
        BY <1>2, <1>4, <4>3, <4>5, <4>6, <4>7 DEF Found
    <3>3. CASE ~below
      <4>1. i = Len(s) \/ fork_vruntime[fork_child[cur]] <= fork_vruntime[s[i + 1]]
        <5> SUFFICES ASSUME i # Len(s)
                     PROVE  fork_vruntime[fork_child[cur]] <= fork_vruntime[s[i + 1]]
          OBVIOUS
        <5>1. PICK n \in 1 .. Len(s) : n = i + 1
          BY <2>1
        <5>2. fork_tmp[cur] = s[n] /\ s[n] \in Task
          BY <2>1, <3>1, <5>1
        <5>3. ~(fork_vruntime[s[n]] < fork_vruntime[fork_child[cur]])
          BY <3>3, <5>2 DEF Below
        <5> QED
          BY <2>2, <5>1, <5>2, <5>3
      <4> QED
        BY <1>2, <1>4, <3>1, <3>3, <4>1 DEF Found
    <3> QED
      BY <3>2, <3>3
  <2> QED
    BY <1>2, <1>6, <2>3, <2>4 DEF Found
<1> QED
  BY <1>2, <1>3, <1>5, <1>6, SearchStep DEF Insert!Searching

-----------------------------------------------------------------------------
\* The current task has gone from one store of list_add_before to the next, and the list is l.
Stayed(from, to, l) ==
  /\ ForkTypes' /\ Parents' /\ ~fork_hung'
  /\ fork_at[fork_current] = from
  /\ fork_rq' = [fork_rq EXCEPT !.list = l] /\ fork_rq'.count = fork_rq.count
  /\ fork_child' = fork_child /\ fork_tmp' = fork_tmp
  /\ fork_current' = fork_current /\ fork_ready' = fork_ready
  /\ fork_vruntime' = fork_vruntime
  /\ fork_struck' = fork_struck \cup (IF from = "first" THEN Insert!Meets ELSE {})
  /\ fork_at'[fork_current] = to
  /\ \A t \in Task \ {fork_current} : fork_at'[t] = fork_at[t]
  /\ Adders' = IF to = "load" THEN Adders \ {fork_current}
               ELSE Adders \cup {fork_current}
  /\ Searchers' = Searchers \ {fork_current}
  /\ Insert!Uncounted' = IF to = "load" THEN Insert!Uncounted \cup {fork_current}
                         ELSE Insert!Uncounted
  /\ fork_current \notin Insert!Uncounted
  /\ Insert!Pending' = IF to = "load" THEN Insert!Pending \ {fork_child[fork_current]}
                       ELSE Insert!Pending

\* What the stores of list_add_before have in common.
LEMMA StoreStays ==
  ASSUME ForkInv, Insert!Trusted, NEW from, NEW to, NEW l \in ListMemory(Cell),
         from \in {"first"} \cup Insert!Adding, to \in Insert!Adding \cup {"load"},
         Insert!Store(from, to, l)
  PROVE  Stayed(from, to, l)
<1>1. /\ fork_at[fork_current] = from /\ Insert!Goes(to) /\ Insert!Stays
      /\ fork_rq' = [fork_rq EXCEPT !.list = l]
      /\ fork_struck' = fork_struck \cup (IF from = "first" THEN Insert!Meets ELSE {})
      /\ fork_child' = fork_child /\ fork_tmp' = fork_tmp /\ fork_loaded' = fork_loaded
  BY DEF Insert!Store, Insert!At, Insert!locals
<1>2. /\ ForkTypes /\ fork_current \in Task /\ fork_current \in Searchers \cup Adders
      /\ fork_current \notin Insert!Uncounted
  BY <1>1 DEF ForkInv, ForkTypes, Searchers, Adders, Insert!Uncounted, Insert!Within,
         Insert!Adding, Insert!Searching
<1>3. /\ Parents' /\ ~fork_hung'
      /\ fork_at' \in [Task -> Insert!Places]
      /\ \A t \in fork_ready' : fork_at'[t] # "unborn"
      /\ \A t \in Task : fork_at'[t] = IF t = fork_current THEN to ELSE fork_at[t]
      /\ Adders' = IF to \in Insert!Adding THEN Adders \cup {fork_current}
                   ELSE Adders \ {fork_current}
      /\ Searchers' = IF to \in Insert!Searching THEN Searchers \cup {fork_current}
                      ELSE Searchers \ {fork_current}
      /\ Insert!Uncounted' = IF to \in {"load", "store"}
                             THEN Insert!Uncounted \cup {fork_current}
                             ELSE Insert!Uncounted \ {fork_current}
      /\ \/ to \in Insert!Adding \cup Insert!Searching
         \/ fork_current \notin Searchers \cup Adders
         => Insert!Pending' = Insert!Pending
      /\ /\ to \notin Insert!Adding \cup Insert!Searching
         /\ fork_current \in Searchers \cup Adders
         => Insert!Pending' = Insert!Pending \ {fork_child[fork_current]}
  <2>1. /\ to \in Insert!Places \ {"unborn"} /\ from # "out"
        /\ from \in Insert!Adding \cup Insert!Searching
    BY DEF Insert!Places, Insert!Adding, Insert!Searching
  <2> QED
    BY <1>1, <2>1, ParentStep
<1>4. /\ to = "load" => to \notin Insert!Adding \cup Insert!Searching
      /\ to # "load" => to \in Insert!Adding
      /\ to \notin Insert!Searching
      /\ to \in {"load", "store"} <=> to = "load"
  BY DEF Insert!Adding, Insert!Searching
<1>5. ForkTypes'
  <2>1. fork_struck' \subseteq Insert!Kinds
    BY <1>1, <1>2 DEF ForkTypes, Insert!Meets, Insert!Kinds, Insert!Broken
  <2>2. fork_rq' \in RunQueues
    BY <1>1, <1>2 DEF ForkTypes, RunQueues
  <2> QED
    BY <1>1, <1>2, <1>3, <2>1, <2>2 DEF ForkTypes, Insert!Stays
<1>6. fork_rq'.count = fork_rq.count
  BY <1>1, <1>2 DEF ForkTypes, RunQueues
<1>7. /\ fork_current' = fork_current /\ fork_ready' = fork_ready
      /\ fork_vruntime' = fork_vruntime
  BY <1>1 DEF Insert!Stays
<1> QED
  BY <1>1, <1>2, <1>3, <1>4, <1>5, <1>6, <1>7 DEF Stayed

\* The first store opens the queue where the search has ended.
LEMMA FirstKept ==
  ASSUME ForkInv, Insert!Trusted, Insert!First
  PROVE  ForkInv'
<1> PICK cur : cur = fork_current
  OBVIOUS
<1>1. ForkTypes /\ Parents /\ cur \in Task /\ fork_tmp[cur] \in Cell /\ fork_child[cur] \in Task
  BY DEF ForkInv, ForkKept, ForkTypes
<1> PICK l : l = [fork_rq.list EXCEPT !.next[fork_rq.list.prev[fork_tmp[cur]]] = fork_child[cur]]
  OBVIOUS
<1>2. l \in ListMemory(Cell) /\ Insert!Store("first", "second", l)
  <2>1. fork_rq.list \in ListMemory(Cell) /\ fork_child[cur] \in Cell
    BY <1>1 DEF ForkTypes, RunQueues, Cell
  <2>2. l \in ListMemory(Cell)
    BY <2>1 DEF ListMemory
  <2> QED
    BY <2>2 DEF Insert!First, Insert!My
<1>3. /\ ForkTypes' /\ Parents' /\ ~fork_hung'
      /\ fork_at[cur] = "first"
      /\ fork_rq' = [fork_rq EXCEPT !.list = l] /\ fork_rq'.count = fork_rq.count
      /\ fork_child' = fork_child /\ fork_tmp' = fork_tmp
      /\ fork_current' = cur /\ fork_ready' = fork_ready
      /\ fork_vruntime' = fork_vruntime
      /\ fork_struck' = fork_struck \cup Insert!Meets
      /\ fork_at'[cur] = "second"
      /\ \A t \in Task \ {cur} : fork_at'[t] = fork_at[t]
      /\ Adders' = Adders \cup {cur} /\ Searchers' = Searchers \ {cur}
      /\ Insert!Uncounted' = Insert!Uncounted /\ Insert!Pending' = Insert!Pending
  <2>1. "first" \in {"first"} \cup Insert!Adding /\ "second" \in Insert!Adding \cup {"load"}
    BY DEF Insert!Adding
  <2>2. Stayed("first", "second", l)
    BY <1>2, <2>1, StoreStays
  <2>3. "second" # "load"
    OBVIOUS
  <2> QED
    BY <2>2, <2>3 DEF Stayed
<1> SUFFICES ASSUME Insert!Trusted'
             PROVE  (\E t, h : Held(t, h) /\ Counted(t) /\ Located(t, h))'
  BY <1>3 DEF ForkInv, ForkKept
<1>4. PICK s, g : Held(s, g) /\ Counted(s) /\ Located(s, g)
  BY DEF ForkInv, ForkKept
<1>5. /\ Fits(fork_rq, s, g, Adders, fork_at, fork_child, fork_tmp, Insert!Pending,
              fork_ready, cur)
      /\ s \in Seq(Task) /\ Distinct(QHead, s) /\ Len(s) \in Nat /\ ToSet(s) = Insert!Queued
  BY <1>4 DEF Held, Fits, Adds, Shape, Insert!Queued
<1>6. /\ fork_tmp[cur] \in Insert!Queued \cup {QHead}
      /\ \A t \in Adders : fork_tmp[t] # fork_tmp[cur]
  <2>1. "stale" \notin Insert!Meets /\ "same" \notin Insert!Meets
    BY <1>3 DEF Insert!Trusted, Insert!Broken
  <2> QED
    BY <2>1 DEF Insert!Meets, Insert!My, Adders
<1>7. /\ Node(s, Len(s) + 1) = QHead /\ \A n \in ToSet(s) : \E j \in 1 .. Len(s) : s[j] = n
      /\ \A j \in 1 .. Len(s) : Node(s, j) = s[j]
      /\ \A j, n \in 1 .. Len(s) + 1 : Node(s, j) = Node(s, n) => j = n
  BY <1>5, NodesDiffer
<1>8. PICK i \in 0 .. Len(s) : fork_tmp[cur] = Node(s, i + 1)
  <2>1. CASE fork_tmp[cur] = QHead
    BY <1>5, <1>7, <2>1
  <2>2. CASE fork_tmp[cur] \in ToSet(s)
    <3>1. PICK j \in 1 .. Len(s) : s[j] = fork_tmp[cur]
      BY <1>7, <2>2
    <3>2. PICK i \in 0 .. Len(s) : j = i + 1
      <4>1. j - 1 \in 0 .. Len(s) /\ j = (j - 1) + 1
        BY <1>5
      <4> QED
        BY <4>1
    <3> QED
      BY <1>7, <3>1, <3>2
  <2> QED
    BY <1>5, <1>6, <2>1, <2>2
<1>9. /\ cur \in Searchers /\ cur \notin Adders /\ cur # Idle
      /\ fork_child[cur] \in Insert!Pending
      /\ \A t \in Adders : fork_child[t] # fork_child[cur] /\ t \in Task
  <2>1. cur \in Searchers /\ cur \notin Adders /\ cur # Idle
    BY <1>1, <1>3 DEF Parents, Searchers, Adders, Insert!Within, Insert!Searching, Insert!Adding
  <2>2. fork_child[cur] \in Insert!Pending
    BY <1>1, <1>3 DEF Insert!Pending, Insert!Within, Insert!Searching, Insert!Adding
  <2>3. \A t \in Adders : t \in Task /\ t # cur /\ t \in Searchers \cup Adders
    BY <2>1 DEF Adders, Insert!Within
  <2> QED
    BY <1>1, <2>1, <2>2, <2>3 DEF Parents
<1>10. Opened(fork_rq', s, g, Adders, fork_at', fork_child, fork_tmp, Insert!Pending,
              fork_ready, cur, i)
  <2>1. \A t \in Adders : fork_at'[t] = fork_at[t]
    BY <1>3, <1>9
  <2>2. \A t \in Adders : fork_child[t] # fork_child[cur] /\ fork_tmp[t] # fork_tmp[cur]
    BY <1>6, <1>9
  <2>3. fork_rq' = [fork_rq EXCEPT !.list =
                      [fork_rq.list EXCEPT !.next[fork_rq.list.prev[fork_tmp[cur]]]
                         = fork_child[cur]]]
    BY <1>3
  <2>4. fork_at'[cur] = "second"
    BY <1>3
  <2>5. /\ Fits(fork_rq, s, g, Adders, fork_at, fork_child, fork_tmp, Insert!Pending,
                fork_ready, cur)
        /\ cur # Idle /\ cur \notin Adders /\ fork_child[cur] \in Insert!Pending
        /\ fork_tmp[cur] = Node(s, i + 1)
    BY <1>5, <1>8, <1>9
  <2> QED
    BY <2>1, <2>2, <2>3, <2>4, <2>5, FirstFits
<1>11. PICK h : /\ Fits(fork_rq', s, h, Adders \cup {cur}, fork_at', fork_child, fork_tmp,
                        Insert!Pending, fork_ready, cur)
                /\ h[cur] = i /\ \A t \in Adders : h[t] = g[t]
  BY <1>10 DEF Opened
<1>12. Held(s, h)'
  BY <1>3, <1>11 DEF Held
<1>13. Counted(s)'
  BY <1>3, <1>4 DEF Counted
<1>14. Located(s, h)'
  <2> SUFFICES ASSUME "moved" \notin fork_struck
               PROVE  (/\ Searchers \subseteq {fork_current}
                       /\ InOrder(s, h, Adders, fork_child, fork_vruntime)
                       /\ Found(s))'
    BY <1>3 DEF Located
  <2>1. Searchers \subseteq {cur} /\ InOrder(s, g, Adders, fork_child, fork_vruntime) /\ Found(s)
    BY <1>4 DEF Located
  <2>2. ~ \E t \in Adders : fork_tmp[cur] = fork_child[t]
    <3> SUFFICES ASSUME NEW t \in Adders, fork_tmp[cur] = fork_child[t] PROVE FALSE
      OBVIOUS
    <3>1. fork_child[t] \in Insert!Pending /\ fork_child[t] # QHead /\ fork_child[t] \notin ToSet(s)
      BY <1>5, TaskAssumption DEF Fits, Adds, Loose
    <3> QED
      BY <1>5, <1>6, <3>1
  <2>3. PICK n \in 0 .. Len(s) :
          /\ fork_tmp[cur] = Node(s, n + 1)
          /\ \A j \in 1 .. n : fork_vruntime[s[j]] < fork_vruntime[fork_child[cur]]
          /\ n = Len(s) \/ fork_vruntime[fork_child[cur]] <= fork_vruntime[s[n + 1]]
    BY <1>3, <2>1, <2>2 DEF Found
  <2>4. n = i
    <3>1. n + 1 \in 1 .. Len(s) + 1 /\ i + 1 \in 1 .. Len(s) + 1
      BY <1>5
    <3>2. n + 1 = i + 1
      BY <1>7, <1>8, <2>3, <3>1
    <3> QED
      BY <3>2
  <2>5. /\ i > 0 => fork_vruntime[s[i]] <= fork_vruntime[fork_child[cur]]
        /\ i < Len(s) => fork_vruntime[fork_child[cur]] <= fork_vruntime[s[i + 1]]
    <3>1. \A j \in 1 .. Len(s) : fork_vruntime[s[j]] \in Int
      BY <1>1, <1>5, BoundAssumption DEF ForkTypes
    <3>2. fork_vruntime[fork_child[cur]] \in Int
      BY <1>1, BoundAssumption DEF ForkTypes
    <3>3. i > 0 => i \in 1 .. i /\ i \in 1 .. Len(s)
      OBVIOUS
    <3> QED
      BY <1>5, <2>3, <2>4, <3>1, <3>2, <3>3
  <2>6. InOrder(s, h, Adders \cup {cur}, fork_child, fork_vruntime)
    BY <1>11, <2>1, <2>5 DEF InOrder
  <2>7. Found(s)'
    BY <1>3 DEF Found
  <2> QED
    BY <1>3, <2>1, <2>6, <2>7
<1> QED
  BY <1>12, <1>13, <1>14

\* The second store leaves the sequence as it is.
LEMMA SecondKept ==
  ASSUME ForkInv, Insert!Trusted, Insert!Second
  PROVE  ForkInv'
<1> PICK cur : cur = fork_current
  OBVIOUS
<1>1. ForkTypes /\ cur \in Task /\ fork_tmp[cur] \in Cell /\ fork_child[cur] \in Task
  BY DEF ForkInv, ForkTypes
<1> PICK l : l = [fork_rq.list EXCEPT !.prev[fork_child[cur]] = fork_rq.list.prev[fork_tmp[cur]]]
  OBVIOUS
<1>2. l \in ListMemory(Cell) /\ Insert!Store("second", "third", l)
  <2>1. fork_rq.list \in ListMemory(Cell) /\ fork_child[cur] \in Cell
    BY <1>1 DEF ForkTypes, RunQueues, Cell
  <2>2. l \in ListMemory(Cell)
    BY <1>1, <2>1 DEF ListMemory
  <2> QED
    BY <2>2 DEF Insert!Second, Insert!My
<1>3. /\ ForkTypes' /\ Parents' /\ ~fork_hung'
      /\ fork_at[cur] = "second"
      /\ fork_rq' = [fork_rq EXCEPT !.list = l] /\ fork_rq'.count = fork_rq.count
      /\ fork_child' = fork_child /\ fork_tmp' = fork_tmp
      /\ fork_current' = cur /\ fork_ready' = fork_ready
      /\ fork_vruntime' = fork_vruntime /\ fork_struck' = fork_struck
      /\ fork_at'[cur] = "third"
      /\ \A t \in Task \ {cur} : fork_at'[t] = fork_at[t]
      /\ Adders' = Adders \cup {cur} /\ Searchers' = Searchers \ {cur}
      /\ Insert!Uncounted' = Insert!Uncounted /\ Insert!Pending' = Insert!Pending
  <2>1. "second" \in {"first"} \cup Insert!Adding /\ "third" \in Insert!Adding \cup {"load"}
    BY DEF Insert!Adding
  <2>2. Stayed("second", "third", l)
    BY <1>2, <2>1, StoreStays
  <2>3. "second" # "first" /\ "third" # "load" /\ fork_struck \cup {} = fork_struck
    OBVIOUS
  <2> QED
    BY <2>2, <2>3 DEF Stayed
<1>4. PICK s, g : Held(s, g) /\ Counted(s) /\ Located(s, g)
  BY DEF ForkInv, ForkKept
<1>5. cur \in Adders /\ Adders' = Adders /\ \A t \in Adders : t \in Task
  BY <1>1, <1>3 DEF Adders, Insert!Within, Insert!Adding
<1>6. Held(s, g)'
  <2>1. Fits(fork_rq, s, g, Adders, fork_at, fork_child, fork_tmp, Insert!Pending,
             fork_ready, cur)
    BY <1>4 DEF Held
  <2>2. \A t \in Adders : t # cur => fork_at'[t] = fork_at[t]
    BY <1>3, <1>5
  <2>3. fork_rq' = [fork_rq EXCEPT !.list =
                      [fork_rq.list EXCEPT !.prev[fork_child[cur]]
                         = fork_rq.list.prev[fork_tmp[cur]]]]
    BY <1>3
  <2>4. Fits(fork_rq', s, g, Adders, fork_at', fork_child, fork_tmp, Insert!Pending,
             fork_ready, cur)
    BY <1>3, <1>5, <2>1, <2>2, <2>3, SecondFits
  <2> QED
    BY <1>3, <1>5, <2>4 DEF Held
<1>7. Counted(s)'
  BY <1>3, <1>4 DEF Counted
<1>8. Located(s, g)'
  BY <1>3, <1>4, <1>5 DEF Located, Found
<1> QED
  BY <1>3, <1>6, <1>7, <1>8 DEF ForkInv, ForkKept

\* So does the third.
LEMMA ThirdKept ==
  ASSUME ForkInv, Insert!Trusted, Insert!Third
  PROVE  ForkInv'
<1> PICK cur : cur = fork_current
  OBVIOUS
<1>1. ForkTypes /\ cur \in Task /\ fork_tmp[cur] \in Cell /\ fork_child[cur] \in Task
  BY DEF ForkInv, ForkTypes
<1> PICK l : l = [fork_rq.list EXCEPT !.prev[fork_tmp[cur]] = fork_child[cur]]
  OBVIOUS
<1>2. l \in ListMemory(Cell) /\ Insert!Store("third", "fourth", l)
  <2>1. fork_rq.list \in ListMemory(Cell) /\ fork_child[cur] \in Cell
    BY <1>1 DEF ForkTypes, RunQueues, Cell
  <2>2. l \in ListMemory(Cell)
    BY <1>1, <2>1 DEF ListMemory
  <2> QED
    BY <2>2 DEF Insert!Third, Insert!My
<1>3. /\ ForkTypes' /\ Parents' /\ ~fork_hung'
      /\ fork_at[cur] = "third"
      /\ fork_rq' = [fork_rq EXCEPT !.list = l] /\ fork_rq'.count = fork_rq.count
      /\ fork_child' = fork_child /\ fork_tmp' = fork_tmp
      /\ fork_current' = cur /\ fork_ready' = fork_ready
      /\ fork_vruntime' = fork_vruntime /\ fork_struck' = fork_struck
      /\ fork_at'[cur] = "fourth"
      /\ \A t \in Task \ {cur} : fork_at'[t] = fork_at[t]
      /\ Adders' = Adders \cup {cur} /\ Searchers' = Searchers \ {cur}
      /\ Insert!Uncounted' = Insert!Uncounted /\ Insert!Pending' = Insert!Pending
  <2>1. "third" \in {"first"} \cup Insert!Adding /\ "fourth" \in Insert!Adding \cup {"load"}
    BY DEF Insert!Adding
  <2>2. Stayed("third", "fourth", l)
    BY <1>2, <2>1, StoreStays
  <2>3. "third" # "first" /\ "fourth" # "load" /\ fork_struck \cup {} = fork_struck
    OBVIOUS
  <2> QED
    BY <2>2, <2>3 DEF Stayed
<1>4. PICK s, g : Held(s, g) /\ Counted(s) /\ Located(s, g)
  BY DEF ForkInv, ForkKept
<1>5. cur \in Adders /\ Adders' = Adders /\ \A t \in Adders : t \in Task
  BY <1>1, <1>3 DEF Adders, Insert!Within, Insert!Adding
<1>6. Held(s, g)'
  <2>1. Fits(fork_rq, s, g, Adders, fork_at, fork_child, fork_tmp, Insert!Pending,
             fork_ready, cur)
    BY <1>4 DEF Held
  <2>2. \A t \in Adders : t # cur => fork_at'[t] = fork_at[t]
    BY <1>3, <1>5
  <2>3. fork_rq' = [fork_rq EXCEPT !.list =
                      [fork_rq.list EXCEPT !.prev[fork_tmp[cur]] = fork_child[cur]]]
    BY <1>3
  <2>4. Fits(fork_rq', s, g, Adders, fork_at', fork_child, fork_tmp, Insert!Pending,
             fork_ready, cur)
    BY <1>3, <1>5, <2>1, <2>2, <2>3, ThirdFits
  <2> QED
    BY <1>3, <1>5, <2>4 DEF Held
<1>7. Counted(s)'
  BY <1>3, <1>4 DEF Counted
<1>8. Located(s, g)'
  BY <1>3, <1>4, <1>5 DEF Located, Found
<1> QED
  BY <1>3, <1>6, <1>7, <1>8 DEF ForkInv, ForkKept

\* The child is linked in, and not counted yet.
LEMMA FourthKept ==
  ASSUME ForkInv, Insert!Trusted, Insert!Fourth
  PROVE  ForkInv'
<1> PICK cur : cur = fork_current
  OBVIOUS
<1>1. /\ ForkTypes /\ Parents /\ cur \in Task /\ fork_tmp[cur] \in Cell
      /\ fork_child[cur] \in Task
  BY DEF ForkInv, ForkKept, ForkTypes
<1> PICK l : l = [fork_rq.list EXCEPT !.next[fork_child[cur]] = fork_tmp[cur]]
  OBVIOUS
<1>2. l \in ListMemory(Cell) /\ Insert!Store("fourth", "load", l)
  <2>1. fork_rq.list \in ListMemory(Cell) /\ fork_child[cur] \in Cell
    BY <1>1 DEF ForkTypes, RunQueues, Cell
  <2>2. l \in ListMemory(Cell)
    BY <1>1, <2>1 DEF ListMemory
  <2> QED
    BY <2>2 DEF Insert!Fourth, Insert!My
<1>3. /\ ForkTypes' /\ Parents' /\ ~fork_hung'
      /\ fork_at[cur] = "fourth"
      /\ fork_rq' = [fork_rq EXCEPT !.list = l] /\ fork_rq'.count = fork_rq.count
      /\ fork_child' = fork_child /\ fork_tmp' = fork_tmp
      /\ fork_current' = cur /\ fork_ready' = fork_ready
      /\ fork_vruntime' = fork_vruntime /\ fork_struck' = fork_struck
      /\ fork_at'[cur] = "load"
      /\ \A t \in Task \ {cur} : fork_at'[t] = fork_at[t]
      /\ Adders' = Adders \ {cur} /\ Searchers' = Searchers \ {cur}
      /\ Insert!Uncounted' = Insert!Uncounted \cup {cur} /\ cur \notin Insert!Uncounted
      /\ Insert!Pending' = Insert!Pending \ {fork_child[cur]}
  <2>1. "fourth" \in {"first"} \cup Insert!Adding /\ "load" \in Insert!Adding \cup {"load"}
    BY DEF Insert!Adding
  <2>2. Stayed("fourth", "load", l)
    BY <1>2, <2>1, StoreStays
  <2>3. "fourth" # "first" /\ fork_struck \cup {} = fork_struck
    OBVIOUS
  <2> QED
    BY <2>2, <2>3 DEF Stayed
<1>4. PICK s, g : Held(s, g) /\ Counted(s) /\ Located(s, g)
  BY DEF ForkInv, ForkKept
<1>5. cur \in Adders /\ \A t \in Adders : t \in Task
  BY <1>1, <1>3 DEF Adders, Insert!Within, Insert!Adding
<1>6. fork_child[cur] \notin Adders
  <2>1. fork_at[fork_child[cur]] = "out"
    BY <1>1, <1>5 DEF Parents
  <2> QED
    BY <2>1 DEF Adders, Insert!Within, Insert!Adding
<1>7. PICK s2, g2 :
        /\ Fits(fork_rq', s2, g2, Adders \ {cur}, fork_at', fork_child, fork_tmp,
                Insert!Pending \ {fork_child[cur]}, fork_ready, cur)
        /\ Len(s2) = Len(s) + 1
        /\ \A v \in [Task -> Int] :
             InOrder(s, g, Adders, fork_child, v) => InOrder(s2, g2, Adders \ {cur}, fork_child, v)
  <2>1. Fits(fork_rq, s, g, Adders, fork_at, fork_child, fork_tmp, Insert!Pending,
             fork_ready, cur)
    BY <1>4 DEF Held
  <2>2. \A t \in Adders : t # cur => fork_at'[t] = fork_at[t]
    BY <1>3, <1>5
  <2>3. fork_rq' = [fork_rq EXCEPT !.list =
                      [fork_rq.list EXCEPT !.next[fork_child[cur]] = fork_tmp[cur]]]
    BY <1>3
  <2>4. fork_at[cur] = "fourth"
    BY <1>3
  <2>5. Closed(fork_rq', s, g, Adders, fork_at', fork_child, fork_tmp, Insert!Pending,
               fork_ready, cur)
    BY <1>5, <1>6, <2>1, <2>2, <2>3, <2>4, FourthFits
  <2> QED
    BY <2>5 DEF Closed
<1>8. Held(s2, g2)'
  BY <1>3, <1>7 DEF Held
<1>9. Counted(s2)'
  <2>1. Cardinality(Insert!Uncounted \cup {cur}) = Cardinality(Insert!Uncounted) + 1
        /\ Cardinality(Insert!Uncounted) \in Int
    <3>1. IsFiniteSet(Insert!Uncounted)
      <4>1. Insert!Uncounted \subseteq Task
        BY DEF Insert!Uncounted, Insert!Within
      <4> QED
        BY <4>1, TaskAssumption, FS_Subset
    <3> QED
      BY <1>3, <3>1, FS_AddElement, FS_CardinalityType
  <2>2. Len(s) \in Int /\ fork_rq.count \in Int
    BY <1>1, <1>4 DEF ForkTypes, RunQueues, Held, Fits, Adds, Shape
  <2> QED
    BY <1>3, <1>4, <1>7, <2>1, <2>2 DEF Counted
<1>10. Located(s2, g2)'
  <2> SUFFICES ASSUME "moved" \notin fork_struck
               PROVE  (/\ Searchers \subseteq {fork_current}
                       /\ InOrder(s2, g2, Adders, fork_child, fork_vruntime)
                       /\ Found(s2))'
    BY <1>3 DEF Located
  <2>1. Searchers \subseteq {cur} /\ InOrder(s, g, Adders, fork_child, fork_vruntime)
    BY <1>4 DEF Located
  <2>2. fork_vruntime \in [Task -> Int]
    BY <1>1, BoundAssumption DEF ForkTypes
  <2>3. InOrder(s2, g2, Adders \ {cur}, fork_child, fork_vruntime)
    BY <1>7, <2>1, <2>2
  <2>4. Found(s2)'
    BY <1>3 DEF Found
  <2> QED
    BY <1>3, <2>1, <2>3, <2>4
<1> QED
  BY <1>3, <1>8, <1>9, <1>10 DEF ForkInv, ForkKept

\* A load or a store of the counter: where the current task is then.
LEMMA CounterStays ==
  ASSUME ForkInv, Insert!Trusted, NEW from, NEW to,
         from \in {"load", "store"}, to \in {"store", "out"},
         fork_at[fork_current] = from, Insert!Goes(to), Insert!Stays, fork_child' = fork_child
  PROVE  /\ Parents' /\ ~fork_hung'
         /\ fork_at' \in [Task -> Insert!Places]
         /\ \A t \in fork_ready' : fork_at'[t] # "unborn"
         /\ fork_at'[fork_current] = to
         /\ \A t \in Task \ {fork_current} : fork_at'[t] = fork_at[t]
         /\ Adders' = Adders /\ Searchers' = Searchers /\ Insert!Pending' = Insert!Pending
         /\ fork_current \notin Adders /\ fork_current \in Insert!Uncounted
         /\ Insert!Uncounted' = IF to = "store" THEN Insert!Uncounted
                                ELSE Insert!Uncounted \ {fork_current}
<1>1. /\ fork_current \in Task /\ fork_current \notin Searchers \cup Adders
      /\ fork_current \in Insert!Uncounted
  BY DEF ForkInv, ForkTypes, Searchers, Adders, Insert!Uncounted, Insert!Within,
         Insert!Adding, Insert!Searching
<1>2. /\ to \in Insert!Places \ {"unborn"} /\ fork_at[fork_current] # "out"
      /\ to \notin Insert!Adding /\ to \notin Insert!Searching
      /\ to \in {"load", "store"} <=> to = "store"
  BY DEF Insert!Places, Insert!Adding, Insert!Searching
<1>3. /\ Parents' /\ ~fork_hung'
      /\ fork_at' \in [Task -> Insert!Places]
      /\ \A t \in fork_ready' : fork_at'[t] # "unborn"
      /\ \A t \in Task : fork_at'[t] = IF t = fork_current THEN to ELSE fork_at[t]
      /\ Adders' = Adders \ {fork_current} /\ Searchers' = Searchers \ {fork_current}
      /\ Insert!Uncounted' = IF to \in {"load", "store"}
                             THEN Insert!Uncounted \cup {fork_current}
                             ELSE Insert!Uncounted \ {fork_current}
      /\ Insert!Pending' = Insert!Pending
  BY <1>1, <1>2, ParentStep
<1> QED
  BY <1>1, <1>2, <1>3

\* The load changes nothing that others see.
LEMMA LoadKept ==
  ASSUME ForkInv, Insert!Trusted, Insert!Load
  PROVE  ForkInv'
<1>1. /\ fork_at[fork_current] = "load" /\ Insert!Goes("store") /\ Insert!Stays
      /\ fork_loaded' = [fork_loaded EXCEPT ![fork_current] = fork_rq.count]
      /\ fork_rq' = fork_rq /\ fork_child' = fork_child /\ fork_tmp' = fork_tmp
      /\ fork_struck' = fork_struck
  BY DEF Insert!Load, Insert!At
<1>2. ForkTypes /\ fork_current \in Task /\ fork_rq.count \in Int
  BY DEF ForkInv, ForkTypes, RunQueues
<1>3. /\ Parents' /\ ~fork_hung'
      /\ fork_at' \in [Task -> Insert!Places]
      /\ \A t \in fork_ready' : fork_at'[t] # "unborn"
      /\ fork_at'[fork_current] = "store"
      /\ \A t \in Task \ {fork_current} : fork_at'[t] = fork_at[t]
      /\ Adders' = Adders /\ Searchers' = Searchers /\ Insert!Pending' = Insert!Pending
      /\ fork_current \notin Adders /\ Insert!Uncounted' = Insert!Uncounted
  <2> HIDE DEF Insert!Goes, Insert!Stays
  <2> QED
    BY <1>1, CounterStays
<1>4. /\ fork_current' = fork_current /\ fork_ready' = fork_ready
      /\ fork_vruntime' = fork_vruntime /\ fork_hung' = fork_hung
  BY <1>1 DEF Insert!Stays
<1>5. ForkTypes'
  <2>1. fork_loaded' \in [Task -> Int]
    BY <1>1, <1>2 DEF ForkTypes
  <2> QED
    BY <1>1, <1>2, <1>3, <1>4, <2>1 DEF ForkTypes
<1>6. PICK s, g : Held(s, g) /\ Counted(s) /\ Located(s, g)
  BY DEF ForkInv, ForkKept
<1>7. Held(s, g)'
  <2>1. \A t \in Adders : /\ fork_at'[t] = fork_at[t] /\ fork_child'[t] = fork_child[t]
                          /\ fork_tmp'[t] = fork_tmp[t]
    BY <1>1, <1>3 DEF Adders, Insert!Within
  <2>2. Fits(fork_rq, s, g, Adders, fork_at', fork_child', fork_tmp', Insert!Pending,
             fork_ready, fork_current)
    BY <1>6, <2>1, FitsSame DEF Held
  <2> QED
    BY <1>1, <1>3, <1>4, <2>2 DEF Held
<1>8. Counted(s)'
  BY <1>1, <1>3, <1>6 DEF Counted
<1>9. Located(s, g)'
  BY <1>1, <1>3, <1>4, <1>6 DEF Located, Found
<1> QED
  BY <1>3, <1>5, <1>7, <1>8, <1>9 DEF ForkInv, ForkKept

\* The store of the counter is right if nobody has changed it since the load.
LEMMA CountKept ==
  ASSUME ForkInv, Insert!Trusted, Insert!Count
  PROVE  ForkInv'
<1> PICK cur : cur = fork_current
  OBVIOUS
<1>1. /\ fork_at[cur] = "store" /\ Insert!Goes("out") /\ Insert!Stays
      /\ fork_rq' = [fork_rq EXCEPT !.count = fork_loaded[cur] + 1]
      /\ fork_struck' = IF fork_loaded[cur] # fork_rq.count THEN fork_struck \cup {"count"}
                        ELSE fork_struck
      /\ fork_loaded' = fork_loaded /\ fork_child' = fork_child /\ fork_tmp' = fork_tmp
  BY DEF Insert!Count, Insert!At, Insert!My, Insert!locals
<1>2. /\ ForkTypes /\ cur \in Task /\ fork_rq.count \in Int /\ fork_loaded[cur] \in Int
      /\ fork_rq' \in RunQueues /\ fork_rq'.list = fork_rq.list
      /\ fork_rq'.count = fork_loaded[cur] + 1
  <2>1. ForkTypes /\ cur \in Task
    BY DEF ForkInv, ForkTypes
  <2> QED
    BY <1>1, <2>1 DEF ForkTypes, RunQueues
<1>3. /\ Parents' /\ ~fork_hung'
      /\ fork_at' \in [Task -> Insert!Places]
      /\ \A t \in fork_ready' : fork_at'[t] # "unborn"
      /\ fork_at'[cur] = "out"
      /\ \A t \in Task \ {cur} : fork_at'[t] = fork_at[t]
      /\ Adders' = Adders /\ Searchers' = Searchers /\ Insert!Pending' = Insert!Pending
      /\ cur \notin Adders /\ cur \in Insert!Uncounted
      /\ Insert!Uncounted' = Insert!Uncounted \ {cur}
  <2> HIDE DEF Insert!Goes, Insert!Stays
  <2> QED
    BY <1>1, CounterStays
<1>4. /\ fork_current' = cur /\ fork_ready' = fork_ready
      /\ fork_vruntime' = fork_vruntime /\ fork_hung' = fork_hung
  BY <1>1 DEF Insert!Stays
<1>5. ForkTypes'
  <2>1. fork_struck' \subseteq Insert!Kinds
    BY <1>1, <1>2 DEF ForkTypes, Insert!Kinds
  <2> QED
    BY <1>1, <1>2, <1>3, <1>4, <2>1 DEF ForkTypes
<1>6. PICK s, g : Held(s, g) /\ Counted(s) /\ Located(s, g)
  BY DEF ForkInv, ForkKept
<1>7. Held(s, g)'
  <2>1. \A t \in Adders : /\ fork_at'[t] = fork_at[t] /\ fork_child'[t] = fork_child[t]
                          /\ fork_tmp'[t] = fork_tmp[t]
    BY <1>1, <1>3 DEF Adders, Insert!Within
  <2>2. Fits(fork_rq, s, g, Adders, fork_at', fork_child', fork_tmp', Insert!Pending,
             fork_ready, cur)
    BY <1>6, <2>1, FitsSame DEF Held
  <2>3. Fits(fork_rq', s, g, Adders, fork_at', fork_child', fork_tmp', Insert!Pending,
             fork_ready, cur)
    BY <1>2, <2>2 DEF Fits, Adds
  <2> QED
    BY <1>3, <1>4, <2>3 DEF Held
<1>8. Counted(s)'
  <2> SUFFICES ASSUME "count" \notin fork_struck'
               PROVE  fork_rq'.count - Len(s) = 1 - Cardinality(Insert!Uncounted')
    BY <1>3 DEF Counted
  <2>1. "count" \notin fork_struck /\ fork_loaded[cur] = fork_rq.count
    BY <1>1
  <2>2. fork_rq.count - Len(s) = 1 - Cardinality(Insert!Uncounted)
    BY <1>6, <2>1 DEF Counted
  <2>3. /\ Cardinality(Insert!Uncounted \ {cur}) = Cardinality(Insert!Uncounted) - 1
        /\ Cardinality(Insert!Uncounted) \in Int
    <3>1. IsFiniteSet(Insert!Uncounted)
      <4>1. Insert!Uncounted \subseteq Task
        BY DEF Insert!Uncounted, Insert!Within
      <4> QED
        BY <4>1, TaskAssumption, FS_Subset
    <3> QED
      BY <1>3, <3>1, FS_RemoveElement, FS_CardinalityType
  <2>4. Len(s) \in Int
    BY <1>6 DEF Held, Fits, Adds, Shape
  <2> QED
    BY <1>2, <1>3, <2>1, <2>2, <2>3, <2>4
<1>9. Located(s, g)'
  BY <1>1, <1>3, <1>4, <1>6 DEF Located, Found
<1> QED
  BY <1>3, <1>5, <1>7, <1>8, <1>9 DEF ForkInv, ForkKept

\* A task that is nobody's child becomes one: it leads to itself.
LEMMA BornFits ==
  ASSUME NEW q, NEW s, NEW g, NEW A, NEW p, NEW c, NEW m, NEW D, NEW R, NEW cur,
         Fits(q, s, g, A, p, c, m, D, R, cur), NEW x \in Task \ R,
         NEW q2, q2 = [q EXCEPT !.list = ListInit(q.list, x)]
  PROVE  Fits(q2, s, g, A, p, c, m, D \cup {x}, R \cup {x}, cur) /\ q2.count = q.count
<1> PICK l \in ListMemory(Cell) : l = q.list
  BY DEF Fits, Adds, RunQueues
<1>1. /\ Shape(l, s, g, A, p, c, m) /\ Loose(l, s, A, c, D) /\ q \in RunQueues
      /\ s \in Seq(Task) /\ Distinct(QHead, s) /\ Len(s) \in Nat
      /\ R \in SUBSET Task /\ D \in SUBSET R /\ A \in SUBSET (R \ {Idle})
      /\ Idle \in R \ D /\ cur \in R \ D /\ ToSet(s) = R \ ({cur, Idle} \cup D)
      /\ x # QHead
  BY TaskAssumption DEF Fits, Adds, Shape
<1> PICK k : k = ListInit(l, x)
  OBVIOUS
<1>2. /\ k \in ListMemory(Cell) /\ k.next[x] = x
      /\ \A n \in Cell : n # x => k.next[n] = l.next[n] /\ k.prev[n] = l.prev[n]
  BY DEF ListMemory, ListInit, Cell
<1>3. q2.list = k /\ q2 \in RunQueues /\ q2.count = q.count
  BY <1>1, <1>2 DEF RunQueues
<1>4. \A j \in 0 .. Len(s) + 1 : Node(s, j) \in Cell /\ Node(s, j) # x
  BY <1>1, NodesDiffer
<1>5. \A j \in 0 .. Len(s) : j \in 0 .. Len(s) + 1 /\ j + 1 \in 0 .. Len(s) + 1
  BY <1>1
<1>6. \A t \in A : /\ g[t] \in 0 .. Len(s) /\ m[t] = Node(s, g[t] + 1)
                   /\ c[t] \in D /\ c[t] \in Cell /\ c[t] # x
  BY <1>1 DEF Shape, Loose, Cell
<1>7. Chain(k, s, Open(g, A))
  <2> SUFFICES ASSUME NEW j \in 0 .. Len(s) \ Open(g, A)
               PROVE  /\ k.next[Node(s, j)] = Node(s, j + 1)
                      /\ k.prev[Node(s, j + 1)] = Node(s, j)
    BY DEF Chain
  <2>1. l.next[Node(s, j)] = Node(s, j + 1) /\ l.prev[Node(s, j + 1)] = Node(s, j)
    BY <1>1 DEF Shape, Chain
  <2>2. /\ Node(s, j) \in Cell /\ Node(s, j) # x
        /\ Node(s, j + 1) \in Cell /\ Node(s, j + 1) # x
    BY <1>4, <1>5
  <2> QED
    BY <1>2, <2>1, <2>2
<1>8. ASSUME NEW t \in A
      PROVE  Stored(k, Node(s, g[t]), m[t], c[t], p[t])
  <2>1. Stored(l, Node(s, g[t]), m[t], c[t], p[t])
    BY <1>1 DEF Shape
  <2>2. /\ Node(s, g[t]) \in Cell /\ Node(s, g[t]) # x /\ m[t] \in Cell /\ m[t] # x
        /\ c[t] \in Cell /\ c[t] # x
    BY <1>4, <1>5, <1>6
  <2> QED
    BY <1>2, <2>1, <2>2 DEF Stored
<1>9. Shape(k, s, g, A, p, c, m)
  BY <1>1, <1>2, <1>7, <1>8 DEF Shape
<1>10. Loose(k, s, A, c, D \cup {x})
  <2>1. D \cup {x} \in SUBSET (Task \ ToSet(s))
    BY <1>1
  <2>2. ASSUME NEW d \in D \cup {x} PROVE k.next[d] = d
    <3>1. d = x \/ (d \in D /\ d \in Cell /\ d # x /\ l.next[d] = d)
      BY <1>1 DEF Loose, Cell
    <3> QED
      BY <1>2, <3>1
  <2>3. /\ \A t \in A : c[t] \in D \cup {x}
        /\ \A t, u \in A : c[t] = c[u] => t = u
    BY <1>1 DEF Loose
  <2> QED
    BY <2>1, <2>2, <2>3 DEF Loose
<1>11. Adds(q2, s, g, A, p, c, m, D \cup {x})
  BY <1>3, <1>9, <1>10 DEF Adds
<1>12. /\ R \cup {x} \in SUBSET Task /\ D \cup {x} \in SUBSET (R \cup {x})
       /\ A \in SUBSET ((R \cup {x}) \ {Idle})
       /\ Idle \in (R \cup {x}) \ (D \cup {x}) /\ cur \in (R \cup {x}) \ (D \cup {x})
       /\ ToSet(s) = (R \cup {x}) \ ({cur, Idle} \cup (D \cup {x}))
  BY <1>1
<1>13. InFront(s, g, A \ {cur})
  BY DEF Fits
<1> QED
  BY <1>3, <1>11, <1>12, <1>13 DEF Fits

\* do_fork makes its child, which is nowhere yet, ready with the parent's vruntime.
LEMMA ForkKeeps ==
  ASSUME ForkInv, Insert!Trusted, NEW x \in Task, Insert!Fork(x)
  PROVE  ForkInv'
<1> PICK cur : cur = fork_current
  OBVIOUS
<1>1. /\ cur # Idle /\ fork_at[cur] = "out" /\ fork_at[x] = "unborn"
      /\ fork_at' = [fork_at EXCEPT ![cur] = "enter", ![x] = "out"]
      /\ fork_child' = [fork_child EXCEPT ![cur] = x]
      /\ fork_vruntime' = [fork_vruntime EXCEPT ![x] = fork_vruntime[cur]]
      /\ fork_ready' = fork_ready \cup {x}
      /\ fork_rq' = [fork_rq EXCEPT !.list = ListInit(fork_rq.list, x)]
      /\ fork_current' = cur /\ fork_tmp' = fork_tmp /\ fork_loaded' = fork_loaded
      /\ fork_struck' = fork_struck /\ fork_hung' = fork_hung
  BY SameRunQueues DEF Insert!Fork, Insert!At, Insert!My
<1>2. /\ ForkTypes /\ Parents /\ ~fork_hung /\ cur \in Task /\ cur # x
      /\ cur \in fork_ready /\ x \notin fork_ready
  BY <1>1 DEF ForkInv, ForkKept, ForkTypes
<1>3. x # Idle
  BY <1>1, <1>2 DEF Parents
<1>4. PICK s, g : Held(s, g) /\ Counted(s) /\ Located(s, g)
  BY DEF ForkInv, ForkKept
<1>5. /\ fork_at' \in [Task -> Insert!Places] /\ fork_at'[cur] = "enter" /\ fork_at'[x] = "out"
      /\ \A t \in Task \ {cur, x} : fork_at'[t] = fork_at[t]
  <2>1. "enter" \in Insert!Places /\ "out" \in Insert!Places
    BY DEF Insert!Places, Insert!Searching
  <2> QED
    BY <1>1, <1>2, <2>1 DEF ForkTypes
<1>6. /\ fork_child' \in [Task -> Task] /\ fork_child'[cur] = x
      /\ \A t \in Task \ {cur} : fork_child'[t] = fork_child[t]
  BY <1>1, <1>2 DEF ForkTypes
<1>7. /\ fork_vruntime' \in [Task -> 0 .. MaxVruntime]
      /\ \A t \in Task \ {x} : fork_vruntime'[t] = fork_vruntime[t]
  BY <1>1, <1>2 DEF ForkTypes
<1>8. /\ Adders' = Adders /\ cur \notin Adders /\ \A t \in Adders : t \in Task \ {cur, x}
      /\ Searchers' = Searchers \cup {cur} /\ cur \notin Searchers
      /\ \A t \in Searchers : t \in Task \ {cur, x}
      /\ Insert!Uncounted' = Insert!Uncounted
  BY <1>1, <1>2, <1>5 DEF Adders, Searchers, Insert!Uncounted, Insert!Within,
     Insert!Adding, Insert!Searching
<1>9. /\ Insert!Pending = {fork_child[t] : t \in Searchers \cup Adders}
      /\ Insert!Pending' = {fork_child'[t] : t \in (Searchers \cup Adders)'}
  BY DEF Insert!Pending, Insert!Within, Searchers, Adders
<1>10. Insert!Pending' = Insert!Pending \cup {x}
  BY <1>6, <1>8, <1>9
<1>11. /\ Insert!Pending \subseteq fork_ready /\ cur \notin Insert!Pending
       /\ s \in Seq(Task) /\ ToSet(s) = fork_ready \ ({cur, Idle} \cup Insert!Pending)
       /\ fork_ready \subseteq Task
  BY <1>4 DEF Held, Fits, Adds, Shape
<1>12. Held(s, g)'
  <2>1. Fits(fork_rq, s, g, Adders, fork_at, fork_child, fork_tmp, Insert!Pending,
             fork_ready, cur)
    BY <1>4 DEF Held
  <2>2. x \in Task \ fork_ready
    BY <1>2
  <2>3. Fits(fork_rq', s, g, Adders, fork_at, fork_child, fork_tmp, Insert!Pending \cup {x},
             fork_ready \cup {x}, cur)
    BY <1>1, <2>1, <2>2, BornFits
  <2>4. \A t \in Adders : /\ fork_at'[t] = fork_at[t] /\ fork_child'[t] = fork_child[t]
                          /\ fork_tmp'[t] = fork_tmp[t]
    BY <1>1, <1>5, <1>6, <1>8
  <2>5. Fits(fork_rq', s, g, Adders, fork_at', fork_child', fork_tmp', Insert!Pending \cup {x},
             fork_ready \cup {x}, cur)
    BY <2>3, <2>4, FitsSame
  <2> QED
    BY <1>1, <1>8, <1>10, <2>5 DEF Held
<1>13. fork_rq' \in RunQueues /\ fork_rq'.count = fork_rq.count
  <2>1. fork_rq' \in RunQueues
    BY <1>12 DEF Held, Fits, Adds
  <2> QED
    BY <1>1, <1>2, <2>1 DEF ForkTypes, RunQueues
<1>14. ForkTypes'
  <2>1. \A t \in fork_ready' : fork_at'[t] # "unborn"
    BY <1>1, <1>2, <1>5 DEF ForkTypes
  <2>2. fork_ready' \subseteq Task /\ fork_current' \in fork_ready'
    BY <1>1, <1>2 DEF ForkTypes
  <2> QED
    BY <1>1, <1>2, <1>5, <1>6, <1>7, <1>13, <2>1, <2>2 DEF ForkTypes
<1>15. Counted(s)'
  BY <1>1, <1>4, <1>8, <1>13 DEF Counted
<1>16. Parents'
  <2>1. fork_at'[Idle] = "out"
    BY <1>1, <1>2, <1>3, <1>5, TaskAssumption DEF Parents
  <2>2. \A t \in Task : fork_at'[t] \notin {"out", "unborn"} => t \in fork_ready'
    BY <1>1, <1>2, <1>5 DEF Parents
  <2>3. \A t \in Searchers \cup Adders : /\ fork_child'[t] = fork_child[t]
                                         /\ fork_child[t] \in Insert!Pending
    BY <1>6, <1>8, <1>9
  <2>4. ASSUME NEW t \in (Searchers \cup Adders)'
        PROVE  fork_at'[fork_child'[t]] = "out"
    <3>1. CASE t = cur
      BY <1>5, <1>6, <3>1
    <3>2. CASE t # cur
      <4>1. t \in Searchers \cup Adders
        BY <1>8, <3>2
      <4>2. fork_child[t] \in Task \ {cur, x}
        BY <1>2, <1>11, <2>3, <4>1
      <4> QED
        BY <1>2, <1>5, <2>3, <4>1, <4>2 DEF Parents
    <3> QED
      BY <3>1, <3>2
  <2>5. ASSUME NEW t \in (Searchers \cup Adders)', NEW u \in (Searchers \cup Adders)',
               fork_child'[t] = fork_child'[u]
        PROVE  t = u
    <3>1. x \notin Insert!Pending
      BY <1>2, <1>11
    <3>2. \A w \in (Searchers \cup Adders)' : w = cur \/ w \in Searchers \cup Adders
      BY <1>8
    <3> QED
      BY <1>2, <1>6, <2>3, <2>5, <3>1, <3>2 DEF Parents
  <2> QED
    BY <2>1, <2>2, <2>4, <2>5 DEF Parents
<1>17. Located(s, g)'
  <2> SUFFICES ASSUME "moved" \notin fork_struck
               PROVE  (/\ Searchers \subseteq {fork_current}
                       /\ InOrder(s, g, Adders, fork_child, fork_vruntime)
                       /\ Found(s))'
    BY <1>1 DEF Located
  <2>1. Searchers \subseteq {cur} /\ InOrder(s, g, Adders, fork_child, fork_vruntime)
    BY <1>4 DEF Located
  <2>2. InOrder(s, g, Adders, fork_child, fork_vruntime')
    <3>1. \A t \in ToSet(s) \cup Insert!Pending : fork_vruntime'[t] = fork_vruntime[t]
      BY <1>2, <1>7, <1>11
    <3>2. \A t \in Adders : fork_child[t] \in Insert!Pending /\ g[t] \in 0 .. Len(s)
      BY <1>4 DEF Held, Fits, Adds, Shape, Loose
    <3> QED
      BY <1>11, <2>1, <3>1, <3>2, OrderSame
  <2>3. \A t \in Adders : fork_child'[t] = fork_child[t]
    BY <1>6, <1>8
  <2>4. InOrder(s, g, Adders, fork_child', fork_vruntime')
    BY <2>2, <2>3, OrderSameChildren
  <2>5. Found(s)'
    BY <1>1, <1>5 DEF Found
  <2> QED
    BY <1>1, <1>8, <2>1, <2>4, <2>5
<1> QED
  BY <1>1, <1>2, <1>12, <1>14, <1>15, <1>16, <1>17 DEF ForkInv, ForkKept

\* The current task is not in the queue, and nobody adds it.
LEMMA OrderTicked ==
  ASSUME NEW s, NEW g, Held(s, g), InOrder(s, g, Adders, fork_child, fork_vruntime),
         NEW w, \A t \in Task \ {fork_current} : w[t] = fork_vruntime[t]
  PROVE  InOrder(s, g, Adders, fork_child, w)
<1>1. /\ s \in Seq(Task) /\ ToSet(s) \cup Insert!Pending \subseteq Task \ {fork_current}
      /\ \A t \in Adders : fork_child[t] \in Insert!Pending /\ g[t] \in 0 .. Len(s)
  BY DEF Held, Fits, Adds, Shape, Loose
<1>2. \A t \in ToSet(s) \cup Insert!Pending : w[t] = fork_vruntime[t]
  BY <1>1
<1> QED
  BY <1>1, <1>2, OrderSame

\* Nothing else than the vruntime of the current task has changed.
LEMMA TickedKept ==
  ASSUME ForkInv, Insert!Trusted, fork_vruntime' \in [Task -> 0 .. MaxVruntime],
         \A t \in Task \ {fork_current} : fork_vruntime'[t] = fork_vruntime[t],
         fork_rq' = fork_rq, fork_current' = fork_current, fork_ready' = fork_ready,
         fork_at' = fork_at, fork_child' = fork_child, fork_tmp' = fork_tmp,
         fork_loaded' = fork_loaded, fork_struck' = fork_struck, fork_hung' = fork_hung
  PROVE  ForkInv'
<1> PICK cur : cur = fork_current
  OBVIOUS
<1>1. ForkTypes /\ cur \in Task
  BY DEF ForkInv, ForkTypes
<1>2. PICK s, g : Held(s, g) /\ Counted(s) /\ Located(s, g)
  BY DEF ForkInv, ForkKept
<1>3. /\ Adders' = Adders /\ Searchers' = Searchers /\ Insert!Pending' = Insert!Pending
      /\ Insert!Uncounted' = Insert!Uncounted
  BY DEF Adders, Searchers, Insert!Within, Insert!Pending, Insert!Uncounted
<1>4. ForkTypes'
  BY <1>1 DEF ForkTypes
<1>5. ~fork_hung /\ Parents
  BY DEF ForkInv, ForkKept
<1>6. Parents'
  BY <1>3, <1>5 DEF Parents
<1>7. Held(s, g)' /\ Counted(s)'
  BY <1>2, <1>3 DEF Held, Counted
<1>8. /\ s \in Seq(Task) /\ Len(s) \in Nat
      /\ ToSet(s) = fork_ready \ ({cur, Idle} \cup Insert!Pending)
      /\ fork_ready \subseteq Task /\ Insert!Pending \subseteq fork_ready
      /\ cur \notin Insert!Pending
  BY <1>2 DEF Held, Fits, Adds, Shape
<1>9. \A t \in ToSet(s) \cup Insert!Pending : fork_vruntime'[t] = fork_vruntime[t]
  BY <1>8
<1>10. Located(s, g)'
  <2> SUFFICES ASSUME "moved" \notin fork_struck
               PROVE  (/\ Searchers \subseteq {fork_current}
                       /\ InOrder(s, g, Adders, fork_child, fork_vruntime)
                       /\ Found(s))'
    BY DEF Located
  <2>1. /\ Searchers \subseteq {cur} /\ InOrder(s, g, Adders, fork_child, fork_vruntime)
        /\ Found(s)
    BY <1>2 DEF Located
  <2>2. InOrder(s, g, Adders, fork_child, fork_vruntime')
    BY <1>2, <2>1, OrderTicked
  <2>3. Found(s)'
    <3> SUFFICES ASSUME fork_at[cur] \in {"empty", "search", "first"}
                 PROVE  \/ \E t \in Adders : fork_tmp[cur] = fork_child[t]
                        \/ \E i \in 0 .. Len(s) :
                             /\ fork_tmp[cur] = Node(s, i + 1)
                             /\ \A j \in 1 .. i : fork_vruntime'[s[j]] < fork_vruntime'[fork_child[cur]]
                             /\ fork_at[cur] = "first" =>
                                  i = Len(s) \/ fork_vruntime'[fork_child[cur]] <= fork_vruntime'[s[i + 1]]
      BY <1>3 DEF Found
    <3>1. fork_child[cur] \in Insert!Pending
      BY <1>1 DEF Insert!Pending, Insert!Within, Insert!Searching
    <3>2. fork_vruntime'[fork_child[cur]] = fork_vruntime[fork_child[cur]]
      BY <1>9, <3>1
    <3>3. \A j \in 1 .. Len(s) : fork_vruntime'[s[j]] = fork_vruntime[s[j]]
      BY <1>8, <1>9 DEF ToSet
    <3>4. CASE \E t \in Adders : fork_tmp[cur] = fork_child[t]
      BY <3>4
    <3>5. CASE \E i \in 0 .. Len(s) :
                 /\ fork_tmp[cur] = Node(s, i + 1)
                 /\ \A j \in 1 .. i : fork_vruntime[s[j]] < fork_vruntime[fork_child[cur]]
                 /\ fork_at[cur] = "first" =>
                      \/ i = Len(s)
                      \/ fork_vruntime[fork_child[cur]] <= fork_vruntime[s[i + 1]]
      <4>1. PICK i \in 0 .. Len(s) :
                 /\ fork_tmp[cur] = Node(s, i + 1)
                 /\ \A j \in 1 .. i : fork_vruntime[s[j]] < fork_vruntime[fork_child[cur]]
                 /\ fork_at[cur] = "first" =>
                      \/ i = Len(s)
                      \/ fork_vruntime[fork_child[cur]] <= fork_vruntime[s[i + 1]]
        BY <3>5
      <4>2. \A j \in 1 .. i : fork_vruntime'[s[j]] < fork_vruntime'[fork_child[cur]]
        <5>1. \A j \in 1 .. i : j \in 1 .. Len(s)
          BY <1>8
        <5> QED
          BY <3>2, <3>3, <4>1, <5>1
      <4>3. i = Len(s) \/ fork_vruntime'[s[i + 1]] = fork_vruntime[s[i + 1]]
        BY <1>8, <3>3
      <4> QED
        BY <3>2, <4>1, <4>2, <4>3
    <3> QED
      BY <2>1, <3>4, <3>5 DEF Found
  <2> QED
    BY <1>3, <2>1, <2>2, <2>3
<1> QED
  BY <1>4, <1>5, <1>6, <1>7, <1>10 DEF ForkInv, ForkKept

\* A tick: the current task is the only one whose vruntime changes.
LEMMA TickKept ==
  ASSUME ForkInv, Insert!Trusted, Insert!Tick
  PROVE  ForkInv'
<1> PICK cur : cur = fork_current
  OBVIOUS
<1> PICK v : v = [fork_vruntime EXCEPT ![cur] = @ + Insert!TickCost]
  OBVIOUS
<1>1. /\ fork_vruntime[cur] + Insert!TickCost <= MaxVruntime
      /\ \/ Insert!Reschedule(Idle, v, fork_ready)
         \/ /\ fork_vruntime' = v
            /\ fork_rq' = fork_rq /\ fork_current' = fork_current /\ fork_ready' = fork_ready
            /\ fork_struck' = fork_struck /\ fork_hung' = fork_hung
      /\ fork_at' = fork_at /\ fork_child' = fork_child /\ fork_tmp' = fork_tmp
      /\ fork_loaded' = fork_loaded
  BY DEF Insert!Tick, Insert!locals
<1>2. ForkTypes /\ cur \in Task
  BY DEF ForkInv, ForkTypes
<1>3. v \in [Task -> 0 .. MaxVruntime] /\ \A t \in Task \ {cur} : v[t] = fork_vruntime[t]
  BY <1>1, <1>2, BoundAssumption DEF ForkTypes, Insert!TickCost
<1>4. CASE Insert!Reschedule(Idle, v, fork_ready)
  <2>1. Able(Idle, fork_ready, Adders, fork_ready, fork_current) /\ fork_current \in fork_ready
    BY <1>2 DEF Able, ForkTypes
  <2> HIDE DEF Insert!Reschedule
  <2> QED
    BY <1>1, <1>3, <1>4, <2>1, RescheduleKept
<1>5. CASE /\ fork_vruntime' = v
           /\ fork_rq' = fork_rq /\ fork_current' = fork_current /\ fork_ready' = fork_ready
           /\ fork_struck' = fork_struck /\ fork_hung' = fork_hung
  <2>1. \A t \in Task \ {fork_current} : fork_vruntime'[t] = fork_vruntime[t]
    BY <1>3, <1>5
  <2>2. fork_vruntime' \in [Task -> 0 .. MaxVruntime]
    BY <1>3, <1>5
  <2> QED
    BY <1>1, <1>5, <2>1, <2>2, TickedKept
<1> QED
  BY <1>1, <1>4, <1>5

\* A wakeup adds a task that was not ready.
LEMMA WakeKept ==
  ASSUME ForkInv, Insert!Trusted, NEW x \in Task, Insert!Wake(x)
  PROVE  ForkInv'
<1>1. /\ fork_at[x] # "unborn" /\ x \notin fork_ready
      /\ Insert!Reschedule(x, fork_vruntime, fork_ready \cup {x})
      /\ fork_at' = fork_at /\ fork_child' = fork_child /\ fork_tmp' = fork_tmp
      /\ fork_loaded' = fork_loaded
  BY DEF Insert!Wake, Insert!locals
<1>2. /\ fork_vruntime \in [Task -> 0 .. MaxVruntime] /\ fork_current \in fork_ready \cup {x}
      /\ \A t \in Task \ {fork_current} : fork_vruntime[t] = fork_vruntime[t]
  BY DEF ForkInv, ForkTypes
<1>3. Able(x, fork_ready \cup {x}, Adders, fork_ready, fork_current)
  BY <1>1 DEF Able
<1> HIDE DEF Insert!Reschedule
<1> QED
  BY <1>1, <1>2, <1>3, RescheduleKept

\* A task that goes to sleep is not in do_fork.
LEMMA SleepKept ==
  ASSUME ForkInv, Insert!Trusted, Insert!Sleep
  PROVE  ForkInv'
<1>1. /\ fork_current # Idle /\ fork_at[fork_current] = "out"
      /\ Insert!Reschedule(Idle, fork_vruntime, fork_ready \ {fork_current})
      /\ fork_at' = fork_at /\ fork_child' = fork_child /\ fork_tmp' = fork_tmp
      /\ fork_loaded' = fork_loaded
  BY DEF Insert!Sleep, Insert!locals
<1>2. /\ fork_vruntime \in [Task -> 0 .. MaxVruntime]
      /\ \A t \in Task \ {fork_current} : fork_vruntime[t] = fork_vruntime[t]
  BY DEF ForkInv, ForkTypes
<1>3. Able(Idle, fork_ready \ {fork_current}, Adders, fork_ready, fork_current)
  <2>1. fork_current \notin Adders
    BY <1>1 DEF Adders, Insert!Within, Insert!Adding
  <2> QED
    BY <1>1, <2>1 DEF Able
<1> HIDE DEF Insert!Reschedule
<1> QED
  BY <1>1, <1>2, <1>3, RescheduleKept

\* Every step.
LEMMA ForkStepKept ==
  ASSUME ForkInv, Insert!Next
  PROVE  ForkInv'
<1>1. /\ Insert!Trusted
      /\ \/ Insert!Tick \/ Insert!Sleep \/ Insert!Enter \/ Insert!Empty \/ Insert!Search
         \/ Insert!First \/ Insert!Second \/ Insert!Third \/ Insert!Fourth
         \/ Insert!Load \/ Insert!Count
         \/ \E x \in Task : Insert!Fork(x)
         \/ \E x \in Task : Insert!Wake(x)
  BY DEF Insert!Next, Insert!TaskStep
<1>2. CASE Insert!Tick
  BY <1>1, <1>2, TickKept
<1>3. CASE Insert!Sleep
  BY <1>1, <1>3, SleepKept
<1>4. CASE Insert!Enter
  BY <1>1, <1>4, EnterKept
<1>5. CASE Insert!Empty
  BY <1>1, <1>5, EmptyKept
<1>6. CASE Insert!Search
  BY <1>1, <1>6, SearchKept
<1>7. CASE Insert!First
  BY <1>1, <1>7, FirstKept
<1>8. CASE Insert!Second
  BY <1>1, <1>8, SecondKept
<1>9. CASE Insert!Third
  BY <1>1, <1>9, ThirdKept
<1>10. CASE Insert!Fourth
  BY <1>1, <1>10, FourthKept
<1>11. CASE Insert!Load
  BY <1>1, <1>11, LoadKept
<1>12. CASE Insert!Count
  BY <1>1, <1>12, CountKept
<1>13. ASSUME NEW x \in Task, Insert!Fork(x)
       PROVE  ForkInv'
  BY <1>1, <1>13, ForkKeeps
<1>14. ASSUME NEW x \in Task, Insert!Wake(x)
       PROVE  ForkInv'
  BY <1>1, <1>14, WakeKept
<1> QED
  BY <1>1, <1>2, <1>3, <1>4, <1>5, <1>6, <1>7, <1>8, <1>9, <1>10, <1>11, <1>12, <1>13, <1>14

\* Boot leaves the first task in the queue, and nobody in do_fork.
LEMMA ForkBegins ==
  ASSUME Insert!Init
  PROVE  ForkInv
<1> PICK q0 : q0 = [list |-> [next |-> [n \in Cell |-> n], prev |-> [n \in Cell |-> n]],
                    count |-> 1, slice |-> 1]
  OBVIOUS
<1> PICK v : v = [t \in Task |-> 0]
  OBVIOUS
<1>1. PICK first \in Task \ {Idle} :
        /\ fork_rq = InsertTaskQueue(q0, v, first)
        /\ fork_ready = {Idle, first}
        /\ fork_at = [t \in Task |-> IF t \in {Idle, first} THEN "out" ELSE "unborn"]
  BY SameRunQueues DEF Insert!Init
<1>2. /\ fork_current = Idle /\ fork_vruntime = v
      /\ fork_child = [t \in Task |-> t] /\ fork_tmp = [t \in Task |-> QHead]
      /\ fork_loaded = [t \in Task |-> 0] /\ fork_struck = {} /\ fork_hung = FALSE
  BY DEF Insert!Init
<1>3. v \in [Task -> Int] /\ v \in [Task -> 0 .. MaxVruntime]
  BY BoundAssumption
<1>4. \A t \in Task : fork_at[t] = "out" \/ fork_at[t] = "unborn"
  BY <1>1
<1>5. Adders = {} /\ Searchers = {} /\ Insert!Uncounted = {} /\ Insert!Pending = {}
  BY <1>4 DEF Adders, Searchers, Insert!Uncounted, Insert!Pending, Insert!Within,
     Insert!Adding, Insert!Searching
<1> PICK s0 : s0 = <<>>
  OBVIOUS
<1>6. s0 \in Seq(Task) /\ Len(s0) = 0 /\ ToSet(s0) = {} /\ Distinct(QHead, s0)
  BY DEF ToSet, Distinct, IsInjective
<1>7. \A g, p, c, m : Adds(q0, s0, g, {}, p, c, m, {})
  <2>1. q0 \in RunQueues /\ q0.list \in ListMemory(Cell)
    BY DEF RunQueues, ListMemory
  <2>2. q0.list.next[QHead] = QHead /\ q0.list.prev[QHead] = QHead
    BY DEF Cell
  <2>3. Node(s0, 0) = QHead /\ Node(s0, 1) = QHead
    BY <1>6 DEF Node, NodeAt
  <2> SUFFICES ASSUME NEW g, NEW p, NEW c, NEW m
               PROVE  Adds(q0, s0, g, {}, p, c, m, {})
    OBVIOUS
  <2>4. Chain(q0.list, s0, Open(g, {}))
    <3>1. \A i \in 0 .. Len(s0) : i = 0
      BY <1>6
    <3> QED
      BY <2>2, <2>3, <3>1 DEF Chain
  <2>5. Shape(q0.list, s0, g, {}, p, c, m)
    BY <1>6, <2>1, <2>4 DEF Shape
  <2>6. Loose(q0.list, s0, {}, c, {})
    BY DEF Loose
  <2> QED
    BY <2>1, <2>5, <2>6 DEF Adds
<1>8. PICK s, g : /\ Adds(fork_rq, s, g, {}, fork_at, fork_child, fork_tmp, {})
                  /\ ToSet(s) = {first} /\ Len(s) = 1
  <2> PICK g0, p, c, m : g0 = 0 /\ p = fork_at /\ c = fork_child /\ m = fork_tmp
    OBVIOUS
  <2> DEFINE q1 == InsertTaskQueue(q0, v, first)
  <2>1. Adds(q0, s0, g0, {}, p, c, m, {}) /\ first \in Task \ (ToSet(s0) \cup {}) /\ first # Idle
    BY <1>6, <1>7
  <2>2. \A t \in {} : ~Comes(q0, v, first, c[t])
    OBVIOUS
  <2>3. \E s1, g1 :
          /\ Adds(q1, s1, g1, {}, p, c, m, {})
          /\ ToSet(s1) = ToSet(s0) \cup {first} /\ Len(s1) = Len(s0) + 1
          /\ \A W \in SUBSET {} : InFront(s0, g0, W) => InFront(s1, g1, Joined(W, first, {}))
          /\ InOrder(s0, g0, {}, c, v) => InOrder(s1, g1, {}, c, v)
    BY <1>3, <2>1, <2>2, QueueInsert
  <2> HIDE DEF q1
  <2>4. PICK s1, g1 :
          /\ Adds(q1, s1, g1, {}, p, c, m, {})
          /\ ToSet(s1) = ToSet(s0) \cup {first} /\ Len(s1) = Len(s0) + 1
    BY <2>3
  <2>5. fork_rq = q1
    BY <1>1 DEF q1
  <2>6. /\ Adds(fork_rq, s1, g1, {}, fork_at, fork_child, fork_tmp, {})
        /\ ToSet(s1) = {first} /\ Len(s1) = 1
    BY <1>6, <2>4, <2>5
  <2> QED
    BY <2>6
<1>9. fork_rq.count = 2
  <2> PICK p, c, m : p = fork_at /\ c = fork_child /\ m = fork_tmp
    OBVIOUS
  <2> DEFINE q1 == InsertTaskQueue(q0, v, first)
  <2>1. Adds(q0, s0, 0, {}, p, c, m, {}) /\ first \in Task \ (ToSet(s0) \cup {}) /\ first # Idle
    BY <1>6, <1>7
  <2>2. \A t \in {} : ~Comes(q0, v, first, c[t])
    OBVIOUS
  <2>3. q1.count = q0.count + 1
    BY <1>3, <2>1, <2>2, QueueInsert
  <2> QED
    BY <1>1, <2>3
<1>10. Held(s, g)
  <2>1. /\ {Idle, first} \in SUBSET Task /\ {first} = {Idle, first} \ ({Idle, Idle} \cup {})
    BY TaskAssumption
  <2>2. InFront(s, g, {} \ {Idle})
    BY DEF InFront
  <2> QED
    BY <1>1, <1>2, <1>5, <1>8, <2>1, <2>2 DEF Held, Fits
<1>11. Counted(s)
  BY <1>5, <1>8, <1>9, FS_EmptySet DEF Counted
<1>12. Located(s, g)
  <2>1. InOrder(s, g, {}, fork_child, fork_vruntime)
    BY <1>8 DEF InOrder
  <2>2. fork_at[Idle] = "out"
    BY <1>1, TaskAssumption
  <2> QED
    BY <1>2, <1>5, <2>1, <2>2 DEF Located, Found
<1>13. ForkTypes
  <2>1. fork_rq \in RunQueues
    BY <1>8 DEF Adds
  <2>2. fork_at \in [Task -> Insert!Places] /\ \A t \in fork_ready : fork_at[t] # "unborn"
    BY <1>1, TaskAssumption DEF Insert!Places
  <2> QED
    BY <1>1, <1>2, <1>3, <2>1, <2>2, TaskAssumption DEF ForkTypes, Cell
<1>14. Parents
  <2>1. fork_at[Idle] = "out"
    BY <1>1, TaskAssumption
  <2> QED
    BY <1>4, <1>5, <2>1 DEF Parents
<1> QED
  BY <1>2, <1>10, <1>11, <1>12, <1>13, <1>14 DEF ForkInv, ForkKept

\* Nobody adds: the run queue is a list in the order of the sequence.
LEMMA ClosedRing ==
  ASSUME NEW q, NEW s, NEW g, NEW p, NEW c, NEW m, NEW D, Adds(q, s, g, {}, p, c, m, D)
  PROVE  /\ WellLinked(q.list, ToSet(s) \cup {QHead}, QHead)
         /\ \A v : InOrder(s, g, {}, c, v) => Sorted(q, v, ToSet(s))
<1>1. /\ q.list \in ListMemory(Cell) /\ s \in Seq(Task) /\ Distinct(QHead, s)
      /\ Len(s) \in Nat /\ s \in Seq(Cell) /\ QHead \in Cell
  BY DEF Adds, Shape, Cell
<1>2. \A i \in 0 .. Len(s) : /\ q.list.next[Node(s, i)] = Node(s, i + 1)
                             /\ q.list.prev[Node(s, i + 1)] = Node(s, i)
  BY DEF Adds, Shape, Chain, Open
<1>3. Follows(q.list, QHead, s)
  BY <1>2 DEF Follows, Node
<1>4. WellLinked(q.list, ToSet(s) \cup {QHead}, QHead)
  BY <1>1, <1>3, FollowsWellLinked
<1>5. /\ \A i \in 1 .. Len(s) : Node(s, i) = s[i]
      /\ Node(s, Len(s) + 1) = QHead
      /\ \A t \in ToSet(s) : \E i \in 1 .. Len(s) : s[i] = t
  BY <1>1, NodesDiffer
<1>6. ASSUME NEW v, InOrder(s, g, {}, c, v), NEW t \in ToSet(s)
      PROVE  q.list.next[t] = QHead \/ v[t] <= v[q.list.next[t]]
  <2>1. PICK i \in 1 .. Len(s) : s[i] = t
    BY <1>5
  <2>2. q.list.next[t] = Node(s, i + 1)
    BY <1>1, <1>2, <1>5, <2>1
  <2>3. CASE i = Len(s)
    BY <1>5, <2>2, <2>3
  <2>4. CASE i # Len(s)
    <3>1. i \in 1 .. Len(s) - 1 /\ i + 1 \in 1 .. Len(s)
      BY <1>1, <2>4
    <3>2. Node(s, i + 1) = s[i + 1] /\ v[s[i]] <= v[s[i + 1]]
      BY <1>5, <1>6, <3>1 DEF InOrder
    <3> QED
      BY <2>1, <2>2, <3>2
  <2> QED
    BY <2>3, <2>4
<1> QED
  BY <1>4, <1>6 DEF Sorted

\* The invariant gives what the run checks.
LEMMA ForkInvSound ==
  ASSUME ForkInv
  PROVE  Insert!Sound
<1>1. Insert!TypeOK
  BY SameForkTypes DEF ForkInv
<1> SUFFICES ASSUME Insert!Trusted
             PROVE  /\ Adders = {} => WellLinked(fork_rq.list, Insert!Queued \cup {QHead}, QHead)
                    /\ ~fork_hung
                    /\ "count" \notin fork_struck =>
                         fork_rq.count = 1 + Cardinality(Insert!Queued) - Cardinality(Insert!Uncounted)
                    /\ "moved" \notin fork_struck /\ Adders = {} =>
                         Sorted(fork_rq, fork_vruntime, Insert!Queued)
  BY <1>1, SameRunQueues DEF Insert!Sound, Insert!QueueKept, Insert!InterruptsGoOn,
     Insert!CountRight, Insert!OrderKept, Adders
<1>2. PICK s, g : Held(s, g) /\ Counted(s) /\ Located(s, g)
  BY DEF ForkInv, ForkKept
<1>3. /\ ToSet(s) = Insert!Queued /\ s \in Seq(Task) /\ IsInjective(s) /\ Len(s) \in Int
      /\ Adds(fork_rq, s, g, Adders, fork_at, fork_child, fork_tmp, Insert!Pending)
      /\ fork_rq.count \in Int
  BY <1>2 DEF Held, Fits, Adds, Shape, Distinct, Insert!Queued, RunQueues
<1>4. Adders = {} => WellLinked(fork_rq.list, Insert!Queued \cup {QHead}, QHead)
  <2> SUFFICES ASSUME Adders = {}
               PROVE  WellLinked(fork_rq.list, Insert!Queued \cup {QHead}, QHead)
    OBVIOUS
  <2>1. Adds(fork_rq, s, g, {}, fork_at, fork_child, fork_tmp, Insert!Pending)
    BY <1>3
  <2>2. WellLinked(fork_rq.list, ToSet(s) \cup {QHead}, QHead)
    BY <2>1, ClosedRing
  <2> QED
    BY <1>3, <2>2
<1>5. ~fork_hung
  BY DEF ForkInv, ForkKept
<1>6. ASSUME "count" \notin fork_struck
      PROVE  fork_rq.count = 1 + Cardinality(Insert!Queued) - Cardinality(Insert!Uncounted)
  <2>1. Cardinality(Insert!Queued) = Len(s)
    BY <1>3, MembersCounted
  <2>2. Cardinality(Insert!Uncounted) \in Int
    <3>1. Insert!Uncounted \subseteq Task
      BY DEF Insert!Uncounted, Insert!Within
    <3> QED
      BY <3>1, TaskAssumption, FS_Subset, FS_CardinalityType
  <2> QED
    BY <1>2, <1>3, <1>6, <2>1, <2>2 DEF Counted
<1>7. ASSUME "moved" \notin fork_struck, Adders = {}
      PROVE  Sorted(fork_rq, fork_vruntime, Insert!Queued)
  <2>1. InOrder(s, g, {}, fork_child, fork_vruntime)
    BY <1>2, <1>7 DEF Located
  <2> QED
    BY <1>3, <1>7, <2>1, ClosedRing
<1> QED
  BY <1>4, <1>5, <1>6, <1>7

\* Of the machine of do_fork it holds in every reachable state.
LEMMA ForkInductive == AllSpec => [](part = "fork" => ForkInv)
<1>1. AllInit => (part = "fork" => ForkInv)
  BY ForkBegins DEF AllInit
<1>2. (part = "fork" => ForkInv) /\ [AllNext]_allVars => (part = "fork" => ForkInv)'
  <2> SUFFICES ASSUME part = "fork" => ForkInv, [AllNext]_allVars, part' = "fork"
               PROVE  ForkInv'
    OBVIOUS
  <2>1. part = "fork" /\ (Insert!Next \/ UNCHANGED forkVars)
    BY DEF AllNext, SchedulerNext, ForkNext, WaitNext, allVars
  <2>2. CASE Insert!Next
    BY <2>1, <2>2, ForkStepKept
  <2>3. CASE UNCHANGED forkVars
    <3>1. /\ fork_rq' = fork_rq /\ fork_current' = fork_current /\ fork_ready' = fork_ready
          /\ fork_vruntime' = fork_vruntime /\ fork_at' = fork_at /\ fork_child' = fork_child
          /\ fork_tmp' = fork_tmp /\ fork_loaded' = fork_loaded
          /\ fork_struck' = fork_struck /\ fork_hung' = fork_hung
      BY <2>3 DEF forkVars
    <3>2. /\ Adders' = Adders /\ Searchers' = Searchers /\ Insert!Pending' = Insert!Pending
          /\ Insert!Uncounted' = Insert!Uncounted /\ (Insert!Trusted' <=> Insert!Trusted)
      BY <3>1 DEF Adders, Searchers, Insert!Within, Insert!Pending, Insert!Uncounted,
         Insert!Trusted
    <3>3. ForkTypes'
      BY <2>1, <3>1 DEF ForkInv, ForkTypes
    <3> SUFFICES ASSUME Insert!Trusted
                 PROVE  (~fork_hung /\ Parents /\ \E s, g : Held(s, g) /\ Counted(s) /\ Located(s, g))'
      BY <3>2, <3>3 DEF ForkInv, ForkKept
    <3>4. ~fork_hung /\ Parents
      BY <2>1 DEF ForkInv, ForkKept
    <3>5. Parents'
      BY <3>1, <3>2, <3>4 DEF Parents
    <3>6. PICK s, g : Held(s, g) /\ Counted(s) /\ Located(s, g)
      BY <2>1 DEF ForkInv, ForkKept
    <3>7. Held(s, g)' /\ Counted(s)' /\ Located(s, g)'
      BY <3>1, <3>2, <3>6 DEF Held, Counted, Located, Found
    <3> QED
      BY <3>1, <3>4, <3>5, <3>7
  <2> QED
    BY <2>1, <2>2, <2>3
<1> QED
  BY <1>1, <1>2, PTL DEF AllSpec

\* do_fork's insert_task_queue, between whose loads and stores ticks, wakeups and
\* schedule() come, leaves the run queue one ring of the ready tasks, in order, and rightly
\* counted, and no search in an interrupt runs on, but for what struck excuses: for any
\* number of tasks and of additions at a time (task.c:293, schedule.c:104).
THEOREM ForkStaysSound == AllSpec => []ForkSound
<1>1. (part = "fork" => ForkInv) => ForkSound
  BY ForkInvSound DEF ForkSound
<1> QED
  BY <1>1, ForkInductive, PTL
=============================================================================
