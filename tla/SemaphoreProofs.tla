-------------------------- MODULE SemaphoreProofs ---------------------------
(***************************************************************************)
(* What the semaphore counts is conserved for any number of tasks, and it  *)
(* lets in no more than it counts, leaves nobody waiting for what is there *)
(* and loses no sleeper, but for the races it names.  The invariant that   *)
(* is preserved says where the tasks that are asleep are, which of them a  *)
(* call of __up has read or unlinked, that the counter covers those who    *)
(* have read it, and that those who have read a 0 found nothing.  The last *)
(* parts are about the lists of MCSync - there is always a sequence of     *)
(* distinct nodes that the pointers follow, and the calls change it as     *)
(* OrderedSet says - and about the spinlock, for every set of CPUs.        *)
(***************************************************************************)
EXTENDS MCSync, MCSpinlock, LinkedListProofs

\* Those whose share of the count is gone: inside, or stopped there by a fault.
Having == Inside \cup Faulted
Deciding == Between({"dec"})

Typed ==
  /\ counter \in Int
  /\ waiting \in Seq(Task)
  /\ at \in [Task -> Places] /\ wait \in [Task -> Task \cup {QueueHead}]
  /\ asleep \subseteq Task /\ off \subseteq Task
  /\ raced \subseteq Race

\* The list holds each task once, and only such as sleep; a task that has said that it
\* sleeps is in the list or about to be.
Listed ==
  /\ \A i \in DOMAIN waiting : at[waiting[i]] \in {"adding", "sleep"} /\ waiting[i] \in asleep
  /\ \A i, j \in DOMAIN waiting : waiting[i] = waiting[j] => i = j
  /\ \A t \in asleep \cup off : at[t] \in {"add", "adding", "sleep"}
  /\ \A t \in Task : at[t] \in {"add", "adding"} => t \in asleep

\* A call of __up that has read who is first, and has not unlinked it.  It is first still,
\* no other call has it, and none is between its stores to the list while one is added.
Reading(u) == at[u] \in {"delete", "deleting"} /\ wait[u] # QueueHead
Read ==
  /\ \A u \in Task : Reading(u) => waiting # <<>> /\ wait[u] = Head(waiting)
  /\ Trusted => /\ \A u, v \in Task : Reading(u) /\ Reading(v) => u = v
                /\ Between({"deleting"}) = {} \/ Between({"adding"}) = {}

\* A call that has unlinked one.  It is no other's, and does not run.
Holding(u) == at[u] \in {"state", "insert"} /\ wait[u] # QueueHead
Held ==
  \A u \in Task : Holding(u) =>
    /\ at[wait[u]] = "sleep" /\ wait[u] \in off
    /\ (at[u] = "insert") = (wait[u] \notin asleep)
    /\ \A i \in DOMAIN waiting : waiting[i] # wait[u]
    /\ \A v \in Task : Holding(v) /\ wait[v] = wait[u] => u = v

\* The counter covers those who have read it and not taken yet.
Enough == "both" \notin raced => Cardinality(Deciding) <= counter

\* Who has read a 0, and who waits, found nothing there.
Coming == Between({"enter"}) \cup (Between({"add"}) \ off)
Awaited == "late" \notin raced => counter <= 0 \/ (waiting = <<>> /\ Coming = {})

IInv == Typed /\ Listed /\ Read /\ Held /\ SleepersFound /\ Conserved /\ Enough /\ Awaited

-----------------------------------------------------------------------------
\* Taking one task out of a set and putting another in leaves its size.
LEMMA Exchange ==
  ASSUME NEW S, IsFiniteSet(S), NEW t \in S, NEW h, h \notin S
  PROVE  /\ IsFiniteSet((S \ {t}) \cup {h})
         /\ Cardinality((S \ {t}) \cup {h}) = Cardinality(S)
<1>1. /\ IsFiniteSet(S \ {t}) /\ Cardinality(S \ {t}) = Cardinality(S) - 1
  BY FS_RemoveElement
<1>2. h \notin S \ {t}
  OBVIOUS
<1>3. /\ IsFiniteSet((S \ {t}) \cup {h})
      /\ Cardinality((S \ {t}) \cup {h}) = Cardinality(S \ {t}) + 1
  BY <1>1, <1>2, FS_AddElement
<1>4. Cardinality(S) \in Nat
  BY FS_CardinalityType
<1> QED
  BY <1>1, <1>3, <1>4

\* The sets of tasks are finite.
LEMMA Finite ==
  /\ IsFiniteSet(Having) /\ Cardinality(Having) \in Nat
  /\ IsFiniteSet(Inside) /\ Cardinality(Inside) \in Nat
  /\ IsFiniteSet(Deciding) /\ Cardinality(Deciding) \in Nat
<1>1. /\ Having \subseteq Task /\ Inside \subseteq Task /\ Deciding \subseteq Task
  BY DEF Having, Inside, Faulted, Deciding, Between
<1> QED
  BY <1>1, SemaphoreAssumption, FS_Subset, FS_CardinalityType

\* The first of the list is a task that sleeps, and the others follow it.
LEMMA FirstWaits ==
  ASSUME Typed, Listed, waiting # <<>>
  PROVE  /\ Head(waiting) \in Task /\ Head(waiting) \in asleep
         /\ at[Head(waiting)] \in {"adding", "sleep"}
         /\ 1 \in DOMAIN waiting /\ Head(waiting) = waiting[1]
         /\ Tail(waiting) \in Seq(Task)
         /\ \A i \in DOMAIN Tail(waiting) :
              /\ i \in Nat /\ i + 1 \in DOMAIN waiting /\ Tail(waiting)[i] = waiting[i + 1]
              /\ Tail(waiting)[i] # Head(waiting)
         /\ \A i \in DOMAIN waiting :
              i = 1 \/ (i - 1 \in DOMAIN Tail(waiting) /\ Tail(waiting)[i - 1] = waiting[i])
<1>1. 1 \in DOMAIN waiting /\ Head(waiting) = waiting[1]
  BY DEF Typed
<1>2. /\ Tail(waiting) \in Seq(Task)
      /\ \A i \in DOMAIN Tail(waiting) :
           i \in Nat /\ i >= 1 /\ i + 1 \in DOMAIN waiting /\ Tail(waiting)[i] = waiting[i + 1]
  BY DEF Typed
<1>3. \A i \in DOMAIN Tail(waiting) : Tail(waiting)[i] # Head(waiting)
  <2> SUFFICES ASSUME NEW i \in DOMAIN Tail(waiting), waiting[i + 1] = waiting[1]
               PROVE  FALSE
    BY <1>1, <1>2
  <2>1. i + 1 = 1
    BY <1>1, <1>2 DEF Listed
  <2> QED
    BY <2>1, <1>2
<1>4. Head(waiting) \in Task /\ Head(waiting) \in asleep /\ at[Head(waiting)] \in {"adding", "sleep"}
  BY <1>1 DEF Typed, Listed
<1>5. \A i \in DOMAIN waiting :
        i = 1 \/ (i - 1 \in DOMAIN Tail(waiting) /\ Tail(waiting)[i - 1] = waiting[i])
  BY DEF Typed
<1> QED
  BY <1>1, <1>2, <1>3, <1>4, <1>5

\* The list holds one more task, which is its last.
LEMMA OneMore ==
  ASSUME Typed, NEW t \in Task, waiting' = Append(waiting, t)
  PROVE  /\ waiting' \in Seq(Task) /\ waiting' # <<>>
         /\ \A i \in DOMAIN waiting : i \in DOMAIN waiting' /\ waiting'[i] = waiting[i]
         /\ \A i \in DOMAIN waiting' :
              \/ i \in DOMAIN waiting /\ waiting'[i] = waiting[i]
              \/ i = Len(waiting) + 1 /\ waiting'[i] = t
         /\ Len(waiting) + 1 \in DOMAIN waiting' /\ waiting'[Len(waiting) + 1] = t
         /\ waiting # <<>> => Head(waiting') = Head(waiting)
BY DEF Typed
-----------------------------------------------------------------------------
\* A step is of one task, which has the processor.
LEMMA Running ==
  ASSUME Typed, NEW t \in Task, TaskStep(t)
  PROVE  /\ Trusted /\ t \notin off /\ at' \in [Task -> Places]
         /\ \A u \in Task : u # t => at'[u] = at[u]
<1>1. CASE Down(t)
  BY <1>1 DEF Typed, TaskStep, Down, Step, Places
<1>2. CASE Decrement(t)
  BY <1>2 DEF Typed, TaskStep, Decrement, Step, Places
<1>3. CASE Enter(t)
  BY <1>3 DEF Typed, TaskStep, Enter, Step, Places
<1>4. CASE Add(t)
  BY <1>4 DEF Typed, TaskStep, Add, Step, Places
<1>5. CASE Added(t)
  BY <1>5 DEF Typed, TaskStep, Added, Step, Places
<1>6. CASE Return(t)
  BY <1>6 DEF Typed, TaskStep, Return, Step, Places
<1>7. CASE Up(t)
  BY <1>7 DEF Typed, TaskStep, Up, Step, Places
<1>8. CASE Increment(t)
  BY <1>8 DEF Typed, TaskStep, Increment, Step, Places
<1>9. CASE ReadFirst(t)
  BY <1>9 DEF Typed, TaskStep, ReadFirst, Step, Places
<1>10. CASE Delete(t)
  BY <1>10 DEF Typed, TaskStep, Delete, Step, Places
<1>11. CASE Unlink(t)
  BY <1>11 DEF Typed, TaskStep, Unlink, Step, Places
<1>12. CASE Awaken(t)
  BY <1>12 DEF Typed, TaskStep, Awaken, Step, Places
<1>13. CASE Insert(t)
  BY <1>13 DEF Typed, TaskStep, Insert, Step, Places
<1> QED
  BY <1>1, <1>2, <1>3, <1>4, <1>5, <1>6, <1>7, <1>8, <1>9, <1>10, <1>11, <1>12, <1>13
     DEF TaskStep, Proceeds

\* The steps that change neither the list nor who sleeps nor a waiter that is held.
Plain(t) == Down(t) \/ Decrement(t) \/ Up(t) \/ Increment(t)

\* What such a step leaves.
LEMMA PlainStep ==
  ASSUME Typed, Listed, NEW t \in Task, TaskStep(t), Plain(t)
  PROVE  /\ at[t] \in {"out", "dec", "in", "inc"}
         /\ at'[t] \in {"dec", "enter", "in", "inc", "next", "out"}
         /\ waiting' = waiting /\ wait' = wait /\ asleep' = asleep
         /\ off' = off \cup asleep
<1>1. at[t] \in {"out", "dec", "in", "inc"} => t \notin asleep
  BY DEF Listed
<1> QED
  BY <1>1 DEF Typed, TaskStep, Plain, Down, Decrement, Up, Increment, Step, OthersOff
-----------------------------------------------------------------------------
\* Every step keeps the types.
LEMMA TypedKept ==
  ASSUME Typed, Listed, Read, [Next]_vars
  PROVE  Typed'
<1>1. CASE UNCHANGED vars
  BY <1>1 DEF Typed, vars
<1>2. ASSUME NEW t \in Task, TaskStep(t)
      PROVE  Typed'
  <2>1. at' \in [Task -> Places]
    BY <1>2, Running
  <2>2. CASE Down(t)
    BY <2>1, <2>2 DEF Typed, Down, OthersOff, Races, Race
  <2>3. CASE Decrement(t)
    BY <2>1, <2>3 DEF Typed, Decrement, OthersOff
  <2>4. CASE Enter(t)
    BY <2>1, <2>4 DEF Typed, Enter, OthersOff
  <2>5. CASE Add(t)
    <3>1. waiting' \in Seq(Task)
      BY <2>5, OneMore DEF Add
    <3> QED
      BY <2>1, <2>5, <3>1 DEF Typed, Add, OthersOff, Races, Race, Broken
  <2>6. CASE Added(t)
    BY <2>1, <2>6 DEF Typed, Added, OthersOff
  <2>7. CASE Return(t)
    BY <2>1, <2>7 DEF Typed, Return, OthersOff
  <2>8. CASE Up(t)
    BY <2>1, <2>8 DEF Typed, Up, OthersOff
  <2>9. CASE Increment(t)
    BY <2>1, <2>9 DEF Typed, Increment, OthersOff, Races, Race
  <2>10. CASE ReadFirst(t)
    <3>1. First \in Task \cup {QueueHead}
      BY FirstWaits DEF First
    <3> QED
      BY <2>1, <2>10, <3>1 DEF Typed, ReadFirst, OthersOff, Races, Race, Broken
  <2>11. CASE Delete(t)
    BY <2>1, <2>11 DEF Typed, Delete, OthersOff, Races, Race, Broken
  <2>12. CASE Unlink(t)
    <3>1. waiting' \in Seq(Task)
      BY <2>12, FirstWaits DEF Unlink, Read, Reading, Step, Typed
    <3> QED
      BY <2>1, <2>12, <3>1 DEF Typed, Unlink, OthersOff
  <2>13. CASE Awaken(t)
    BY <2>1, <2>13 DEF Typed, Awaken, OthersOff
  <2>14. CASE Insert(t)
    BY <2>1, <2>14 DEF Typed, Insert, OthersOff
  <2> QED
    BY <1>2, <2>2, <2>3, <2>4, <2>5, <2>6, <2>7, <2>8, <2>9, <2>10, <2>11, <2>12, <2>13, <2>14
       DEF TaskStep, Proceeds
<1> QED
  BY <1>1, <1>2 DEF Next

\* Every step keeps the list and those asleep together.
LEMMA ListedKept ==
  ASSUME Typed, Listed, Read, Held, [Next]_vars
  PROVE  Listed'
<1>1. CASE UNCHANGED vars
  BY <1>1 DEF Listed, vars
<1>2. ASSUME NEW t \in Task, TaskStep(t)
      PROVE  Listed'
  <2>1. \A u \in Task : u # t => at'[u] = at[u]
    BY <1>2, Running
  <2>2. t \notin off /\ at' \in [Task -> Places]
    BY <1>2, Running
  \* What a step keeps that leaves the list alone and wakes nobody.
  <2>3. ASSUME waiting' = waiting, off' \subseteq off \cup asleep,
               asleep' = asleep,
               at[t] \in {"add", "adding", "sleep"} => at'[t] = at[t] \/ (t \notin asleep /\ at'[t] = "in") \/ (t \in asleep /\ at[t] = "adding" /\ at'[t] = "sleep"),
               at[t] \notin {"add", "adding", "sleep"} => at'[t] \notin {"add", "adding", "sleep"}
        PROVE  Listed'
    <3>1. \A i \in DOMAIN waiting : waiting[i] \in Task
      BY DEF Typed
    <3>2. \A i \in DOMAIN waiting : at'[waiting[i]] \in {"adding", "sleep"} /\ waiting[i] \in asleep
      BY <2>1, <2>3, <3>1 DEF Listed
    <3>3. \A u \in asleep' \cup off' : at'[u] \in {"add", "adding", "sleep"}
      BY <2>1, <2>2, <2>3 DEF Listed, Typed
    <3>4. \A u \in Task : at'[u] \in {"add", "adding"} => u \in asleep'
      BY <2>1, <2>3 DEF Listed
    <3> QED
      BY <2>3, <3>2, <3>3, <3>4 DEF Listed
  <2>4. CASE Plain(t)
    BY <1>2, <2>3, <2>4, PlainStep
  <2>5. CASE Enter(t)
    <3>1. /\ at[t] = "enter" /\ at'[t] = "add" /\ waiting' = waiting
          /\ asleep' = asleep \cup {t} /\ off' \subseteq off \cup asleep
      BY <2>5 DEF Typed, Enter, Step, OthersOff
    <3>2. \A i \in DOMAIN waiting : waiting[i] \in Task
      BY DEF Typed
    <3>3. \A i \in DOMAIN waiting : at'[waiting[i]] \in {"adding", "sleep"} /\ waiting[i] \in asleep'
      BY <2>1, <3>1, <3>2 DEF Listed
    <3>4. \A u \in asleep' \cup off' : at'[u] \in {"add", "adding", "sleep"}
      BY <2>1, <3>1 DEF Listed, Typed
    <3>5. \A u \in Task : at'[u] \in {"add", "adding"} => u \in asleep'
      BY <2>1, <3>1 DEF Listed
    <3> QED
      BY <3>1, <3>3, <3>4, <3>5 DEF Listed
  <2>6. CASE Add(t)
    <3>1. /\ at[t] = "add" /\ at'[t] = "adding" /\ waiting' = Append(waiting, t)
          /\ asleep' = asleep /\ off' \subseteq off \cup asleep /\ t \in asleep
      BY <2>6 DEF Typed, Listed, Add, Step, OthersOff
    <3>2. \A i \in DOMAIN waiting : waiting[i] \in Task /\ waiting[i] # t
      BY <3>1 DEF Typed, Listed
    <3>3. \A i \in DOMAIN waiting' :
            \/ i \in DOMAIN waiting /\ waiting'[i] = waiting[i]
            \/ i = Len(waiting) + 1 /\ waiting'[i] = t
      BY <3>1, OneMore
    <3>4. \A i \in DOMAIN waiting' : at'[waiting'[i]] \in {"adding", "sleep"} /\ waiting'[i] \in asleep'
      BY <2>1, <3>1, <3>2, <3>3 DEF Listed
    <3>5. \A i, j \in DOMAIN waiting' : waiting'[i] = waiting'[j] => i = j
      BY <3>2, <3>3 DEF Listed
    <3>6. \A u \in asleep' \cup off' : at'[u] \in {"add", "adding", "sleep"}
      BY <2>1, <3>1 DEF Listed, Typed
    <3>7. \A u \in Task : at'[u] \in {"add", "adding"} => u \in asleep'
      BY <2>1, <3>1 DEF Listed
    <3> QED
      BY <3>4, <3>5, <3>6, <3>7 DEF Listed
  <2>7. CASE Added(t)
    <3>1. /\ at[t] = "adding" /\ at'[t] = "sleep" /\ t \in asleep
          /\ waiting' = waiting /\ asleep' = asleep /\ off' \subseteq off \cup asleep
      BY <2>7 DEF Typed, Listed, Added, Step, OthersOff
    <3> QED
      BY <2>3, <3>1
  <2>8. CASE Return(t)
    <3>1. /\ at[t] = "sleep" /\ at'[t] = "in" /\ t \notin asleep
          /\ waiting' = waiting /\ asleep' = asleep /\ off' \subseteq off \cup asleep
      BY <2>8 DEF Typed, Return, Step, OthersOff
    <3> QED
      BY <2>3, <3>1
  <2>9. CASE ReadFirst(t) \/ Delete(t)
    <3>1. /\ at[t] \in {"next", "delete"} /\ at'[t] \in {"delete", "deleting"}
          /\ waiting' = waiting /\ asleep' = asleep /\ off' \subseteq off \cup asleep
      BY <2>9 DEF Typed, ReadFirst, Delete, Step, OthersOff
    <3> QED
      BY <2>3, <3>1
  <2>10. CASE Unlink(t) /\ wait[t] = QueueHead
    <3>1. /\ at[t] = "deleting" /\ at'[t] = "state"
          /\ waiting' = waiting /\ asleep' = asleep /\ off' \subseteq off \cup asleep
      BY <2>10 DEF Typed, Unlink, Step, OthersOff
    <3> QED
      BY <2>3, <3>1
  <2>11. CASE Unlink(t) /\ wait[t] # QueueHead
    <3>1. /\ at[t] = "deleting" /\ at'[t] = "state"
          /\ waiting' = Tail(waiting) /\ asleep' = asleep /\ off' \subseteq off \cup asleep
      BY <2>11 DEF Typed, Unlink, Step, OthersOff
    <3>2. waiting # <<>>
      BY <2>11, <3>1 DEF Read, Reading
    <3>3. \A i \in DOMAIN waiting' :
            i \in Nat /\ i + 1 \in DOMAIN waiting /\ waiting'[i] = waiting[i + 1]
      BY <3>1, <3>2, FirstWaits
    <3>4. \A i \in DOMAIN waiting' : waiting'[i] \in Task
      BY <3>3 DEF Typed
    <3>5. \A i \in DOMAIN waiting' : at'[waiting'[i]] \in {"adding", "sleep"} /\ waiting'[i] \in asleep'
      BY <2>1, <3>1, <3>3, <3>4 DEF Listed
    <3>6. \A i, j \in DOMAIN waiting' : waiting'[i] = waiting'[j] => i = j
      <4> SUFFICES ASSUME NEW i \in DOMAIN waiting', NEW j \in DOMAIN waiting',
                          waiting'[i] = waiting'[j]
                   PROVE  i = j
        OBVIOUS
      <4>1. i + 1 = j + 1
        BY <3>3 DEF Listed
      <4> QED
        BY <3>3, <4>1
    <3>7. \A u \in asleep' \cup off' : at'[u] \in {"add", "adding", "sleep"}
      BY <2>1, <2>2, <3>1 DEF Listed, Typed
    <3>8. \A u \in Task : at'[u] \in {"add", "adding"} => u \in asleep'
      BY <2>1, <3>1 DEF Listed
    <3> QED
      BY <3>5, <3>6, <3>7, <3>8 DEF Listed
  <2>12. CASE Awaken(t)
    <3>1. /\ at[t] = "state" /\ at'[t] \in {"fault", "insert"} /\ waiting' = waiting
          /\ asleep' = asleep \ {wait[t]} /\ off' \subseteq off \cup asleep
      BY <2>12 DEF Typed, Awaken, Step, OthersOff
    <3>2. \A i \in DOMAIN waiting : waiting[i] \in Task /\ waiting[i] # wait[t]
      BY <3>1, SemaphoreAssumption DEF Typed, Held, Holding
    <3>3. \A i \in DOMAIN waiting : at'[waiting[i]] \in {"adding", "sleep"} /\ waiting[i] \in asleep'
      BY <2>1, <3>1, <3>2 DEF Listed
    <3>4. \A u \in asleep' \cup off' : at'[u] \in {"add", "adding", "sleep"}
      BY <2>1, <2>2, <3>1 DEF Listed, Typed
    <3>5. wait[t] \in Task => at[wait[t]] = "sleep"
      BY <3>1, SemaphoreAssumption DEF Held, Holding
    <3>6. \A u \in Task : at'[u] \in {"add", "adding"} => u \in asleep'
      BY <2>1, <3>1, <3>5 DEF Listed
    <3> QED
      BY <3>1, <3>3, <3>4, <3>6 DEF Listed
  <2>13. CASE Insert(t)
    <3>1. /\ at[t] = "insert" /\ at'[t] = "out"
          /\ waiting' = waiting /\ asleep' = asleep /\ off' \subseteq off \cup asleep
      BY <2>13 DEF Typed, Insert, Step
    <3> QED
      BY <2>3, <3>1
  <2> QED
    BY <1>2, <2>4, <2>5, <2>6, <2>7, <2>8, <2>9, <2>10, <2>11, <2>12, <2>13
       DEF TaskStep, Proceeds, Plain
<1> QED
  BY <1>1, <1>2 DEF Next
-----------------------------------------------------------------------------
\* Every step keeps the calls that have read who is first.
LEMMA ReadKept ==
  ASSUME Typed, Listed, Read, [Next]_vars
  PROVE  Read'
<1>1. CASE UNCHANGED vars
  BY <1>1 DEF Read, Reading, Trusted, Between, vars
<1>2. ASSUME NEW t \in Task, TaskStep(t)
      PROVE  Read'
  <2>1. \A u \in Task : u # t => at'[u] = at[u]
    BY <1>2, Running
  <2>2. Trusted
    BY <1>2, Running
  \* What a step keeps of a task that reads neither before nor after it.
  <2>3. ASSUME \A u \in Task : u # t => wait'[u] = wait[u],
               ~Reading(t), ~Reading(t)',
               waiting # <<>> => waiting' # <<>> /\ Head(waiting') = Head(waiting),
               at'[t] # "deleting",
               at'[t] = "adding" /\ Trusted' => Between({"deleting"}) = {}
        PROVE  Read'
    <3>1. \A u \in Task : Reading(u)' => Reading(u) /\ wait'[u] = wait[u]
      BY <2>1, <2>3 DEF Reading
    <3>2. Between({"deleting"})' \subseteq Between({"deleting"})
      BY <2>1, <2>3 DEF Between
    <3>3. at'[t] # "adding" => Between({"adding"})' \subseteq Between({"adding"})
      BY <2>1 DEF Between
    <3>4. Trusted' => Between({"deleting"})' = {} \/ Between({"adding"})' = {}
      BY <2>2, <2>3, <3>2, <3>3 DEF Read
    <3>5. \A u, v \in Task : Reading(u)' /\ Reading(v)' => u = v
      BY <2>2, <3>1 DEF Read
    <3>6. \A u \in Task : Reading(u)' => waiting' # <<>> /\ wait'[u] = Head(waiting')
      BY <2>3, <3>1 DEF Read
    <3> QED
      BY <3>4, <3>5, <3>6 DEF Read
  <2>4. CASE Plain(t)
    <3>1. /\ at[t] \notin {"delete", "deleting"}
          /\ at'[t] \notin {"delete", "deleting", "adding"}
          /\ waiting' = waiting /\ wait' = wait
      BY <1>2, <2>4, PlainStep
    <3>2. ~Reading(t) /\ ~Reading(t)'
      BY <3>1 DEF Reading
    <3> QED
      BY <2>3, <3>1, <3>2
  <2>5. CASE Enter(t) \/ Added(t) \/ Return(t) \/ Awaken(t) \/ Insert(t)
    <3>1. /\ at[t] \notin {"delete", "deleting"}
          /\ at'[t] \notin {"delete", "deleting", "adding"}
          /\ waiting' = waiting /\ \A u \in Task : u # t => wait'[u] = wait[u]
      BY <2>5 DEF Typed, Enter, Added, Return, Awaken, Insert, Step
    <3>2. ~Reading(t) /\ ~Reading(t)'
      BY <3>1 DEF Reading
    <3> QED
      BY <2>3, <3>1, <3>2
  <2>6. CASE Add(t)
    <3>1. /\ at[t] = "add" /\ at'[t] = "adding" /\ waiting' = Append(waiting, t) /\ wait' = wait
      BY <2>6 DEF Typed, Add, Step
    <3>2. ~Reading(t) /\ ~Reading(t)'
      BY <3>1 DEF Reading
    <3>3. Trusted' => Between({"deleting"}) = {}
      BY <2>6 DEF Add, Races, Trusted, Broken, Between
    <3>4. waiting # <<>> => waiting' # <<>> /\ Head(waiting') = Head(waiting)
      BY <3>1, OneMore
    <3> QED
      BY <2>3, <3>1, <3>2, <3>3, <3>4
  <2>7. CASE ReadFirst(t)
    <3>1. /\ at[t] = "next" /\ at'[t] = "delete" /\ waiting' = waiting
          /\ wait'[t] = First /\ \A u \in Task : u # t => wait'[u] = wait[u]
      BY <2>7 DEF Typed, ReadFirst, Step
    <3>2. \A u \in Task : Reading(u)' => u = t \/ (Reading(u) /\ wait'[u] = wait[u])
      BY <2>1, <3>1 DEF Reading
    <3>3. Reading(t)' => waiting # <<>> /\ First = Head(waiting) /\ First # QueueHead
      BY <3>1 DEF Reading, First
    <3>4. Trusted' => ~ \E u \in Between({"delete", "deleting"}) : wait[u] = First /\ First # QueueHead
      BY <2>7 DEF ReadFirst, Races, Trusted, Broken
    <3>5. Trusted' /\ Reading(t)' => \A u \in Task : ~Reading(u)
      BY <3>3, <3>4 DEF Read, Reading, Between
    <3>6. \A u \in Task : Reading(u)' => waiting' # <<>> /\ wait'[u] = Head(waiting')
      BY <3>1, <3>2, <3>3 DEF Read
    <3>7. Trusted' => \A u, v \in Task : Reading(u)' /\ Reading(v)' => u = v
      BY <2>2, <3>2, <3>5 DEF Read
    <3>8. /\ Between({"deleting"})' \subseteq Between({"deleting"})
          /\ Between({"adding"})' \subseteq Between({"adding"})
      BY <2>1, <3>1 DEF Between
    <3>9. Between({"deleting"})' = {} \/ Between({"adding"})' = {}
      BY <2>2, <3>8 DEF Read
    <3> QED
      BY <3>6, <3>7, <3>9 DEF Read
  <2>8. CASE Delete(t)
    <3>1. /\ at[t] = "delete" /\ at'[t] = "deleting" /\ waiting' = waiting /\ wait' = wait
      BY <2>8 DEF Typed, Delete, Step
    <3>2. \A u \in Task : Reading(u)' => Reading(u) /\ wait'[u] = wait[u]
      BY <2>1, <3>1 DEF Reading
    <3>3. Trusted' => Between({"adding", "deleting"}) = {}
      BY <2>8 DEF Delete, Races, Trusted, Broken
    <3>4. Between({"adding"})' \subseteq Between({"adding", "deleting"})
      BY <2>1, <3>1 DEF Between
    <3>5. \A u, v \in Task : Reading(u)' /\ Reading(v)' => u = v
      BY <2>2, <3>2 DEF Read
    <3>6. \A u \in Task : Reading(u)' => waiting' # <<>> /\ wait'[u] = Head(waiting')
      BY <3>1, <3>2 DEF Read
    <3> QED
      BY <3>3, <3>4, <3>5, <3>6 DEF Read
  <2>9. CASE Unlink(t)
    <3>1. /\ at[t] = "deleting" /\ at'[t] = "state" /\ wait' = wait
          /\ wait[t] = QueueHead => waiting' = waiting
      BY <2>9 DEF Typed, Unlink, Step
    <3>2. CASE wait[t] = QueueHead
      <4>1. ~Reading(t) /\ ~Reading(t)'
        BY <3>1, <3>2 DEF Reading
      <4> QED
        BY <2>3, <3>1, <3>2, <4>1
    <3>3. CASE wait[t] # QueueHead
      <4>1. Reading(t)
        BY <3>1, <3>3 DEF Reading
      <4>2. \A u \in Task : Reading(u)' => u # t /\ Reading(u)
        BY <2>1, <3>1 DEF Reading
      <4>3. \A u \in Task : ~Reading(u)'
        BY <2>2, <4>1, <4>2 DEF Read
      <4>4. /\ Between({"deleting"})' \subseteq Between({"deleting"})
            /\ Between({"adding"})' \subseteq Between({"adding"})
        BY <2>1, <3>1 DEF Between
      <4>5. Between({"deleting"})' = {} \/ Between({"adding"})' = {}
        BY <2>2, <4>4 DEF Read
      <4> QED
        BY <4>3, <4>5 DEF Read
    <3> QED
      BY <3>2, <3>3
  <2> QED
    BY <1>2, <2>4, <2>5, <2>6, <2>7, <2>8, <2>9 DEF TaskStep, Proceeds, Plain
<1> QED
  BY <1>1, <1>2 DEF Next

\* Every step keeps the calls that have a waiter.
LEMMA HeldKept ==
  ASSUME Typed, Listed, Read, Held, [Next]_vars
  PROVE  Held'
<1>1. CASE UNCHANGED vars
  BY <1>1 DEF Held, Holding, vars
<1>2. ASSUME NEW t \in Task, TaskStep(t)
      PROVE  Held'
  <2>1. \A u \in Task : u # t => at'[u] = at[u]
    BY <1>2, Running
  <2>2. Trusted /\ t \notin off
    BY <1>2, Running
  <2>3. /\ \A u \in Task : Holding(u) => wait[u] \in Task /\ wait[u] # t
        /\ \A i \in DOMAIN waiting : waiting[i] \in Task
    BY <2>2 DEF Typed, Held, Holding
  \* What a step keeps of a task that holds nobody after it.
  <2>4. ASSUME \A u \in Task : u # t => wait'[u] = wait[u],
               ~Holding(t)',
               \A u \in Task : Holding(u) /\ u # t => wait[u] \in off',
               \A u \in Task \ {t} : u \in asleep' <=> u \in asleep,
               \A i \in DOMAIN waiting' : waiting'[i] = t \/ \E j \in DOMAIN waiting : waiting'[i] = waiting[j]
        PROVE  Held'
    <3>1. \A u \in Task : Holding(u)' => u # t /\ Holding(u) /\ wait'[u] = wait[u] /\ at'[u] = at[u]
      BY <2>1, <2>4 DEF Holding
    <3> SUFFICES ASSUME NEW u \in Task, Holding(u)'
                 PROVE  /\ at'[wait'[u]] = "sleep" /\ wait'[u] \in off'
                        /\ (at'[u] = "insert") = (wait'[u] \notin asleep')
                        /\ \A i \in DOMAIN waiting' : waiting'[i] # wait'[u]
                        /\ \A v \in Task : Holding(v)' /\ wait'[v] = wait'[u] => u = v
      BY DEF Held
    <3>2. u # t /\ Holding(u) /\ wait'[u] = wait[u] /\ at'[u] = at[u]
      BY <3>1
    <3>3. at'[wait'[u]] = "sleep"
      BY <2>1, <2>3, <3>2 DEF Held
    <3>4. wait'[u] \in off'
      BY <2>4, <3>2
    <3>5. (at'[u] = "insert") = (wait'[u] \notin asleep')
      BY <2>3, <2>4, <3>2 DEF Held
    <3>6. \A i \in DOMAIN waiting' : waiting'[i] # wait'[u]
      BY <2>3, <2>4, <3>2 DEF Held
    <3>7. \A v \in Task : Holding(v)' /\ wait'[v] = wait'[u] => u = v
      BY <3>1, <3>2 DEF Held
    <3> QED
      BY <3>3, <3>4, <3>5, <3>6, <3>7
  <2>5. ASSUME \A u \in Task : u # t => wait'[u] = wait[u],
               at'[t] \notin {"state", "insert"}, off \subseteq off',
               \A u \in Task \ {t} : u \in asleep' <=> u \in asleep,
               waiting' = waiting
        PROVE  Held'
    <3>1. ~Holding(t)'
      BY <2>5 DEF Holding
    <3>2. \A u \in Task : Holding(u) /\ u # t => wait[u] \in off'
      BY <2>5 DEF Held
    <3> QED
      BY <2>4, <2>5, <3>1, <3>2
  <2>6. CASE Plain(t)
    <3>1. /\ at'[t] \notin {"state", "insert"} /\ waiting' = waiting /\ wait' = wait
          /\ asleep' = asleep /\ off \subseteq off'
      BY <1>2, <2>6, PlainStep
    <3> QED
      BY <2>5, <3>1
  <2>7. CASE Enter(t) \/ Added(t) \/ Return(t) \/ ReadFirst(t) \/ Delete(t)
    <3>1. /\ at'[t] \notin {"state", "insert"} /\ waiting' = waiting /\ off \subseteq off'
          /\ \A u \in Task : u # t => wait'[u] = wait[u]
          /\ \A u \in Task \ {t} : u \in asleep' <=> u \in asleep
      BY <2>7 DEF Typed, Enter, Added, Return, ReadFirst, Delete, Step, OthersOff
    <3> QED
      BY <2>5, <3>1
  <2>8. CASE Add(t)
    <3>1. /\ at'[t] = "adding" /\ waiting' = Append(waiting, t) /\ wait' = wait
          /\ off \subseteq off' /\ asleep' = asleep
      BY <2>8 DEF Typed, Add, Step, OthersOff
    <3>2. ~Holding(t)'
      BY <3>1 DEF Holding
    <3>3. \A u \in Task : Holding(u) /\ u # t => wait[u] \in off'
      BY <3>1 DEF Held
    <3>4. \A i \in DOMAIN waiting' : waiting'[i] = t \/ \E j \in DOMAIN waiting : waiting'[i] = waiting[j]
      BY <3>1, OneMore
    <3> QED
      BY <2>4, <3>1, <3>2, <3>3, <3>4
  <2>9. CASE Unlink(t) /\ wait[t] = QueueHead
    <3>1. /\ at'[t] = "state" /\ waiting' = waiting /\ wait' = wait
          /\ off \subseteq off' /\ asleep' = asleep
      BY <2>9 DEF Typed, Unlink, Step, OthersOff
    <3>2. ~Holding(t)'
      BY <2>9, <3>1 DEF Holding
    <3>3. \A u \in Task : Holding(u) /\ u # t => wait[u] \in off'
      BY <3>1 DEF Held
    <3> QED
      BY <2>4, <3>1, <3>2, <3>3
  <2>10. CASE Unlink(t) /\ wait[t] # QueueHead
    <3> DEFINE w == wait[t]
    <3>1. /\ at[t] = "deleting" /\ at'[t] = "state" /\ waiting' = Tail(waiting) /\ wait' = wait
          /\ off' = off \cup (asleep \ {t}) /\ asleep' = asleep
      BY <2>10 DEF Typed, Unlink, Step, OthersOff
    <3>2. waiting # <<>> /\ w = Head(waiting)
      BY <2>10, <3>1 DEF Read, Reading
    <3>3. /\ w \in Task /\ w \in asleep /\ at[w] \in {"adding", "sleep"}
          /\ 1 \in DOMAIN waiting /\ w = waiting[1]
          /\ \A i \in DOMAIN waiting' : waiting'[i] # w /\ \E j \in DOMAIN waiting : waiting'[i] = waiting[j]
      BY <3>1, <3>2, FirstWaits
    <3>4. at[w] = "sleep"
      BY <2>2, <3>1, <3>3 DEF Read, Between
    <3>5. w # t /\ at'[w] = "sleep" /\ w \in off'
      BY <2>1, <3>1, <3>3, <3>4
    <3>6. ~Holding(t)
      BY <3>1 DEF Holding
    <3>7. \A u \in Task : Holding(u) => wait[u] # w
      BY <3>3 DEF Held
    <3>8. \A u \in Task : Holding(u)' => u = t \/ (Holding(u) /\ at'[u] = at[u] /\ u # t)
      BY <2>1, <3>1, <3>6 DEF Holding
    <3> SUFFICES ASSUME NEW u \in Task, Holding(u)'
                 PROVE  /\ at'[wait[u]] = "sleep" /\ wait[u] \in off'
                        /\ (at'[u] = "insert") = (wait[u] \notin asleep)
                        /\ \A i \in DOMAIN waiting' : waiting'[i] # wait[u]
                        /\ \A v \in Task : Holding(v)' /\ wait[v] = wait[u] => u = v
      BY <3>1 DEF Held
    <3>9. CASE u = t
      BY <3>1, <3>3, <3>5, <3>7, <3>8, <3>9
    <3>10. CASE u # t
      <4>1. Holding(u) /\ at'[u] = at[u]
        BY <3>8, <3>10
      <4>2. at'[wait[u]] = "sleep" /\ wait[u] \in off'
        BY <2>1, <2>3, <3>1, <4>1 DEF Held
      <4>3. (at'[u] = "insert") = (wait[u] \notin asleep)
        BY <4>1 DEF Held
      <4>4. \A i \in DOMAIN waiting' : waiting'[i] # wait[u]
        BY <3>3, <4>1 DEF Held
      <4>5. \A v \in Task : Holding(v)' /\ wait[v] = wait[u] => u = v
        BY <3>7, <3>8, <4>1 DEF Held
      <4> QED
        BY <4>2, <4>3, <4>4, <4>5
    <3> QED
      BY <3>9, <3>10
  <2>11. CASE Awaken(t) /\ wait[t] = QueueHead
    <3>1. /\ at'[t] = "fault" /\ waiting' = waiting /\ wait' = wait
          /\ off \subseteq off' /\ asleep' = asleep
      BY <2>11, SemaphoreAssumption DEF Typed, Awaken, Step, OthersOff
    <3> QED
      BY <2>5, <3>1
  <2>12. CASE Awaken(t) /\ wait[t] # QueueHead
    <3>1. /\ at[t] = "state" /\ at'[t] = "insert" /\ waiting' = waiting /\ wait' = wait
          /\ off \subseteq off' /\ asleep' = asleep \ {wait[t]}
      BY <2>12 DEF Typed, Awaken, Step, OthersOff
    <3>2. Holding(t)
      BY <2>12, <3>1 DEF Holding
    <3>3. \A u \in Task : Holding(u)' => Holding(u)
      BY <2>1, <3>1, <3>2 DEF Holding
    <3> SUFFICES ASSUME NEW u \in Task, Holding(u)'
                 PROVE  /\ at'[wait[u]] = "sleep" /\ wait[u] \in off'
                        /\ (at'[u] = "insert") = (wait[u] \notin asleep')
                        /\ \A i \in DOMAIN waiting : waiting[i] # wait[u]
                        /\ \A v \in Task : Holding(v)' /\ wait[v] = wait[u] => u = v
      BY <3>1 DEF Held
    <3>4. Holding(u)
      BY <3>3
    <3>5. at'[wait[u]] = "sleep" /\ wait[u] \in off'
      BY <2>1, <2>3, <3>1, <3>4 DEF Held
    <3>6. (at'[u] = "insert") = (wait[u] \notin asleep')
      <4>1. CASE u = t
        BY <3>1, <4>1
      <4>2. CASE u # t
        <5>1. wait[u] # wait[t]
          BY <3>2, <3>4, <4>2 DEF Held
        <5>2. at'[u] = at[u]
          BY <2>1, <4>2
        <5> QED
          BY <3>1, <3>4, <5>1, <5>2 DEF Held
      <4> QED
        BY <4>1, <4>2
    <3>7. \A i \in DOMAIN waiting : waiting[i] # wait[u]
      BY <3>4 DEF Held
    <3>8. \A v \in Task : Holding(v)' /\ wait[v] = wait[u] => u = v
      BY <3>3, <3>4 DEF Held
    <3> QED
      BY <3>5, <3>6, <3>7, <3>8
  <2>13. CASE Insert(t)
    <3>1. /\ at[t] = "insert" /\ at'[t] = "out" /\ waiting' = waiting /\ asleep' = asleep
          /\ off \ {wait[t]} \subseteq off'
          /\ \A u \in Task : u # t => wait'[u] = wait[u]
      BY <2>13 DEF Typed, Insert, Step
    <3>2. ~Holding(t)'
      BY <3>1 DEF Holding
    <3>3. ASSUME NEW u \in Task, Holding(u), u # t
          PROVE  wait[u] \in off'
      <4>1. wait[u] \in off
        BY <3>3 DEF Held
      <4>2. wait[u] # wait[t]
        BY <3>1, <3>3 DEF Held, Holding
      <4> QED
        BY <3>1, <4>1, <4>2
    <3> QED
      BY <2>4, <3>1, <3>2, <3>3
  <2> QED
    BY <1>2, <2>6, <2>7, <2>8, <2>9, <2>10, <2>11, <2>12, <2>13 DEF TaskStep, Proceeds, Plain
<1> QED
  BY <1>1, <1>2 DEF Next

\* Every step leaves the sleepers in the list, on their way to it or in a call's hands.
LEMMA FoundKept ==
  ASSUME Typed, Listed, Read, Held, SleepersFound, [Next]_vars
  PROVE  SleepersFound'
<1>1. CASE UNCHANGED vars
  BY <1>1 DEF SleepersFound, InList, Between, vars
<1>2. ASSUME NEW t \in Task, TaskStep(t)
      PROVE  SleepersFound'
  <2>1. \A u \in Task : u # t => at'[u] = at[u]
    BY <1>2, Running
  <2> SUFFICES ASSUME NEW s \in asleep' \cup off'
               PROVE  \/ InList(s)' \/ at'[s] = "add"
                      \/ \E u \in Task : at'[u] \in {"state", "insert"} /\ wait'[u] = s
    BY DEF SleepersFound, Between
  <2>2. s \in asleep \cup off => s \in Task /\ (\/ InList(s) \/ at[s] = "add"
                      \/ \E u \in Task : at[u] \in {"state", "insert"} /\ wait[u] = s)
    BY DEF SleepersFound, Between, Typed
  \* A step that leaves the list alone, of a task that is neither to be added nor holds.
  <2>3. ASSUME waiting' = waiting, s \in asleep \cup off,
               \A u \in Task : u # t => wait'[u] = wait[u],
               at[t] \notin {"add", "state", "insert"}
        PROVE  \/ InList(s)' \/ at'[s] = "add"
               \/ \E u \in Task : at'[u] \in {"state", "insert"} /\ wait'[u] = s
    <3>1. InList(s) => InList(s)'
      BY <2>3 DEF InList
    <3>2. at[s] = "add" => at'[s] = "add"
      BY <2>1, <2>2, <2>3
    <3>3. \A u \in Task : at[u] \in {"state", "insert"} /\ wait[u] = s
                            => at'[u] \in {"state", "insert"} /\ wait'[u] = s
      BY <2>1, <2>3
    <3> QED
      BY <2>2, <2>3, <3>1, <3>2, <3>3
  <2>4. CASE Plain(t)
    <3>1. /\ at[t] \notin {"add", "state", "insert"} /\ waiting' = waiting /\ wait' = wait
          /\ s \in asleep \cup off
      BY <1>2, <2>4, PlainStep
    <3> QED
      BY <2>3, <3>1
  <2>5. CASE Added(t) \/ Return(t) \/ ReadFirst(t) \/ Delete(t)
    <3>1. /\ at[t] \notin {"add", "state", "insert"} /\ waiting' = waiting
          /\ \A u \in Task : u # t => wait'[u] = wait[u]
          /\ s \in asleep \cup off
      BY <2>5 DEF Typed, Added, Return, ReadFirst, Delete, Step, OthersOff
    <3> QED
      BY <2>3, <3>1
  <2>6. CASE Enter(t)
    <3>1. /\ at[t] = "enter" /\ at'[t] = "add" /\ waiting' = waiting /\ wait' = wait
          /\ s = t \/ s \in asleep \cup off
      BY <2>6 DEF Typed, Enter, Step, OthersOff
    <3> QED
      BY <2>3, <3>1
  <2>7. CASE Add(t)
    <3>1. /\ at[t] = "add" /\ waiting' = Append(waiting, t) /\ wait' = wait
          /\ s \in asleep \cup off
      BY <2>7 DEF Typed, Add, Step, OthersOff
    <3>2. s = t => InList(s)'
      BY <3>1, OneMore DEF InList
    <3>3. InList(s) => InList(s)'
      BY <3>1, OneMore DEF InList
    <3>4. s # t /\ at[s] = "add" => at'[s] = "add"
      BY <2>1, <2>2, <3>1
    <3>5. \A u \in Task : at[u] \in {"state", "insert"} /\ wait[u] = s
                            => at'[u] \in {"state", "insert"} /\ wait'[u] = s
      BY <2>1, <3>1
    <3> QED
      BY <2>2, <3>1, <3>2, <3>3, <3>4, <3>5
  <2>8. CASE Unlink(t) /\ wait[t] = QueueHead
    <3>1. /\ at[t] \notin {"add", "state", "insert"} /\ waiting' = waiting /\ wait' = wait
          /\ s \in asleep \cup off
      BY <2>8 DEF Typed, Unlink, Step, OthersOff
    <3> QED
      BY <2>3, <3>1
  <2>9. CASE Unlink(t) /\ wait[t] # QueueHead
    <3>1. /\ at[t] = "deleting" /\ at'[t] = "state" /\ waiting' = Tail(waiting) /\ wait' = wait
          /\ s \in asleep \cup off
      BY <2>9 DEF Typed, Unlink, Step, OthersOff
    <3>2. waiting # <<>> /\ wait[t] = Head(waiting)
      BY <2>9, <3>1 DEF Read, Reading
    <3>3. \A i \in DOMAIN waiting :
            waiting[i] = wait[t] \/ \E j \in DOMAIN waiting' : waiting'[j] = waiting[i]
      BY <3>1, <3>2, FirstWaits
    <3>4. InList(s) => s = wait[t] \/ InList(s)'
      BY <3>3 DEF InList
    <3>5. s = wait[t] => \E u \in Task : at'[u] \in {"state", "insert"} /\ wait'[u] = s
      BY <3>1
    <3>6. at[s] = "add" => at'[s] = "add"
      BY <2>1, <2>2, <3>1
    <3>7. \A u \in Task : at[u] \in {"state", "insert"} /\ wait[u] = s
                            => at'[u] \in {"state", "insert"} /\ wait'[u] = s
      BY <2>1, <3>1
    <3> QED
      BY <2>2, <3>1, <3>4, <3>5, <3>6, <3>7
  <2>10. CASE Awaken(t)
    <3>1. /\ at[t] = "state" /\ waiting' = waiting /\ wait' = wait /\ s \in asleep \cup off
          /\ wait[t] # QueueHead => at'[t] = "insert"
      BY <2>10 DEF Typed, Awaken, Step, OthersOff
    <3>2. InList(s) => InList(s)'
      BY <3>1 DEF InList
    <3>3. at[s] = "add" => at'[s] = "add"
      BY <2>1, <2>2, <3>1
    <3>4. s # QueueHead
      BY <2>2, <3>1, SemaphoreAssumption
    <3>5. \A u \in Task : at[u] \in {"state", "insert"} /\ wait[u] = s
                            => at'[u] \in {"state", "insert"} /\ wait'[u] = s
      BY <2>1, <3>1, <3>4
    <3> QED
      BY <2>2, <3>1, <3>2, <3>3, <3>5
  <2>11. CASE Insert(t)
    <3>1. /\ at[t] = "insert" /\ waiting' = waiting
          /\ \A u \in Task : u # t => wait'[u] = wait[u]
          /\ s \in asleep \/ (s \in off /\ s # wait[t])
      BY <2>11 DEF Typed, Insert, Step
    <3>2. s # wait[t]
      BY <2>2, <3>1, SemaphoreAssumption DEF Held, Holding
    <3>3. InList(s) => InList(s)'
      BY <3>1 DEF InList
    <3>4. at[s] = "add" => at'[s] = "add"
      BY <2>1, <2>2, <3>1
    <3>5. \A u \in Task : at[u] \in {"state", "insert"} /\ wait[u] = s
                            => at'[u] \in {"state", "insert"} /\ wait'[u] = s
      BY <2>1, <3>1, <3>2
    <3> QED
      BY <2>2, <3>1, <3>3, <3>4, <3>5
  <2> QED
    BY <1>2, <2>4, <2>5, <2>6, <2>7, <2>8, <2>9, <2>10, <2>11 DEF TaskStep, Proceeds, Plain
<1> QED
  BY <1>1, <1>2 DEF Next
-----------------------------------------------------------------------------
\* A step that leaves the counter alone leaves as many with a share.
LEMMA ConservedKept ==
  ASSUME Typed, Listed, Held, Conserved, [Next]_vars
  PROVE  Conserved'
<1>1. counter + Cardinality(Having) = Count /\ (Conserved' <=> counter' + Cardinality(Having') = Count)
  BY DEF Conserved, Having
<1>2. IsFiniteSet(Having) /\ Cardinality(Having) \in Nat /\ counter \in Int /\ Count \in Nat
  BY Finite, SemaphoreAssumption DEF Typed
<1>3. ASSUME counter' = counter, Having' = Having
      PROVE  Conserved'
  BY <1>1, <1>3
<1>4. CASE UNCHANGED vars
  BY <1>3, <1>4 DEF vars, Having, Inside, Faulted
<1>5. ASSUME NEW t \in Task, TaskStep(t)
      PROVE  Conserved'
  <2>1. \A u \in Task : u # t => at'[u] = at[u]
    BY <1>5, Running
  <2>2. CASE Decrement(t)
    <3>1. t \notin Having /\ Having' = Having \cup {t}
      BY <2>2 DEF Typed, Decrement, Step, Having, Inside, Faulted
    <3>2. Cardinality(Having') = Cardinality(Having) + 1
      BY <1>2, <3>1, FS_AddElement
    <3> QED
      BY <1>1, <1>2, <2>2, <3>2 DEF Decrement
  <2>3. CASE Increment(t)
    <3>1. t \in Having /\ Having' = Having \ {t}
      BY <2>3 DEF Typed, Increment, Step, Having, Inside, Faulted
    <3>2. Cardinality(Having') = Cardinality(Having) - 1
      BY <1>2, <3>1, FS_RemoveElement
    <3> QED
      BY <1>1, <1>2, <2>3, <3>2 DEF Increment
  <2>4. CASE Down(t)
    <3>1. Having' = Having
      BY <2>4 DEF Typed, Down, Step, Having, Inside, Faulted
    <3> QED
      BY <1>3, <2>4, <3>1 DEF Down
  <2>5. CASE Enter(t)
    <3>1. Having' = Having
      BY <2>5 DEF Typed, Enter, Step, Having, Inside, Faulted
    <3> QED
      BY <1>3, <2>5, <3>1 DEF Enter
  <2>6. CASE Add(t) \/ Added(t)
    <3>1. Having' = Having
      BY <2>6 DEF Typed, Listed, Add, Added, Step, Having, Inside, Faulted
    <3> QED
      BY <1>3, <2>6, <3>1 DEF Add, Added
  <2>7. CASE Return(t)
    <3>1. Having' = Having
      BY <2>7 DEF Typed, Return, Step, Having, Inside, Faulted
    <3> QED
      BY <1>3, <2>7, <3>1 DEF Return
  <2>8. CASE Up(t)
    <3>1. Having' = Having
      BY <2>8 DEF Typed, Up, Step, Having, Inside, Faulted
    <3> QED
      BY <1>3, <2>8, <3>1 DEF Up
  <2>9. CASE ReadFirst(t) \/ Delete(t)
    <3>1. Having' = Having
      BY <2>9 DEF Typed, ReadFirst, Delete, Step, Having, Inside, Faulted
    <3> QED
      BY <1>3, <2>9, <3>1 DEF ReadFirst, Delete
  <2>10. CASE Unlink(t)
    <3>1. Having' = Having
      BY <2>10 DEF Typed, Unlink, Step, Having, Inside, Faulted
    <3> QED
      BY <1>3, <2>10, <3>1 DEF Unlink
  <2>11. CASE Awaken(t) /\ wait[t] = QueueHead
    <3>1. asleep' = asleep
      BY <2>11, SemaphoreAssumption DEF Typed, Awaken
    <3>2. Having' = Having
      BY <2>11, <3>1 DEF Typed, Awaken, Step, Having, Inside, Faulted
    <3> QED
      BY <1>3, <2>11, <3>2 DEF Awaken
  <2>12. CASE Awaken(t) /\ wait[t] # QueueHead
    <3>1. at[t] = "state" /\ at'[t] = "insert" /\ asleep' = asleep \ {wait[t]}
      BY <2>12 DEF Typed, Awaken, Step
    <3>2. wait[t] \in Task /\ at[wait[t]] = "sleep" /\ wait[t] \in asleep
      BY <2>12, <3>1 DEF Typed, Held, Holding
    <3>3. t \in Having /\ wait[t] \notin Having
      BY <3>1, <3>2 DEF Having, Inside, Faulted
    <3>4. Having' = (Having \ {t}) \cup {wait[t]}
      BY <2>1, <3>1, <3>2 DEF Having, Inside, Faulted
    <3>5. Cardinality(Having') = Cardinality(Having)
      BY <1>2, <3>3, <3>4, Exchange
    <3> QED
      BY <1>1, <2>12, <3>5 DEF Awaken
  <2>13. CASE Insert(t)
    <3>1. Having' = Having
      BY <2>13 DEF Typed, Insert, Step, Having, Inside, Faulted
    <3> QED
      BY <1>3, <2>13, <3>1 DEF Insert
  <2> QED
    BY <1>5, <2>2, <2>3, <2>4, <2>5, <2>6, <2>7, <2>8, <2>9, <2>10, <2>11, <2>12, <2>13
       DEF TaskStep, Proceeds
<1> QED
  BY <1>4, <1>5 DEF Next

\* Only a task that reads the counter joins those who have read it, and the race is
\* noted when there are as many as the counter counts.
LEMMA EnoughKept ==
  ASSUME Typed, Listed, Enough, [Next]_vars
  PROVE  Enough'
<1>1. /\ IsFiniteSet(Deciding) /\ Cardinality(Deciding) \in Nat /\ counter \in Int
  BY Finite DEF Typed
<1>2. ASSUME Deciding' = Deciding, counter' \in Int, counter' >= counter,
             "both" \in raced => "both" \in raced'
      PROVE  Enough'
  BY <1>1, <1>2 DEF Enough
<1>3. CASE UNCHANGED vars
  BY <1>1, <1>2, <1>3 DEF vars, Deciding, Between
<1>4. ASSUME NEW t \in Task, TaskStep(t)
      PROVE  Enough'
  <2>1. CASE Down(t) /\ counter > 0
    <3>1. t \notin Deciding /\ Deciding' = Deciding \cup {t}
      BY <2>1 DEF Typed, Down, Step, Deciding, Between
    <3>2. Cardinality(Deciding') = Cardinality(Deciding) + 1
      BY <1>1, <3>1, FS_AddElement
    <3>3. "both" \notin raced' => Cardinality(Deciding) < counter /\ counter' = counter
      BY <1>1, <2>1 DEF Down, Races, Deciding
    <3> QED
      BY <1>1, <3>2, <3>3 DEF Enough
  <2>2. CASE Down(t) /\ ~(counter > 0)
    <3>1. Deciding' = Deciding
      BY <2>2 DEF Typed, Down, Step, Deciding, Between
    <3> QED
      BY <1>1, <1>2, <2>2, <3>1 DEF Down, Races
  <2>3. CASE Decrement(t)
    <3>1. t \in Deciding /\ Deciding' = Deciding \ {t}
      BY <2>3 DEF Typed, Decrement, Step, Deciding, Between
    <3>2. Cardinality(Deciding') = Cardinality(Deciding) - 1
      BY <1>1, <3>1, FS_RemoveElement
    <3> QED
      BY <1>1, <2>3, <3>2 DEF Decrement, Enough
  <2>4. CASE Increment(t)
    <3>1. Deciding' = Deciding /\ counter' = counter + 1
      BY <2>4 DEF Typed, Increment, Step, Deciding, Between
    <3>2. "both" \in raced => "both" \in raced'
      BY <2>4 DEF Increment, Races
    <3> QED
      BY <1>1, <1>2, <3>1, <3>2
  <2>5. CASE Enter(t) \/ Add(t) \/ Added(t) \/ Return(t) \/ Up(t)
    <3>1. Deciding' = Deciding /\ counter' = counter
      BY <2>5 DEF Typed, Enter, Add, Added, Return, Up, Step, Deciding, Between
    <3>2. "both" \in raced => "both" \in raced'
      BY <2>5 DEF Enter, Add, Added, Return, Up, Races
    <3> QED
      BY <1>1, <1>2, <3>1, <3>2
  <2>6. CASE ReadFirst(t) \/ Delete(t) \/ Unlink(t) \/ Awaken(t) \/ Insert(t)
    <3>1. Deciding' = Deciding /\ counter' = counter
      BY <2>6 DEF Typed, ReadFirst, Delete, Unlink, Awaken, Insert, Step, Deciding, Between
    <3>2. "both" \in raced => "both" \in raced'
      BY <2>6 DEF ReadFirst, Delete, Unlink, Awaken, Insert, Races
    <3> QED
      BY <1>1, <1>2, <3>1, <3>2
  <2> QED
    BY <1>4, <2>1, <2>2, <2>3, <2>4, <2>5, <2>6 DEF TaskStep, Proceeds
<1> QED
  BY <1>3, <1>4 DEF Next

\* Nobody begins to wait while there is something, and who adds something while others
\* wait notes the race.
LEMMA AwaitedKept ==
  ASSUME Typed, Listed, Read, Held, Awaited, [Next]_vars
  PROVE  Awaited'
<1>1. CASE UNCHANGED vars
  BY <1>1 DEF vars, Awaited, Coming, Between
<1>2. ASSUME NEW t \in Task, TaskStep(t)
      PROVE  Awaited'
  <2>1. counter \in Int
    BY DEF Typed
  <2>2. \A u \in Task : u # t => at'[u] = at[u]
    BY <1>2, Running
  \* What a step keeps that counts nothing up and lets nobody come.
  <2>3. ASSUME counter' \in Int, counter' <= counter, at'[t] \notin {"enter", "add"},
               off \ off' \subseteq Task \ Between({"add"})',
               waiting = <<>> => waiting' = <<>>,
               "late" \in raced => "late" \in raced'
        PROVE  Awaited'
    <3>1. Coming' \subseteq Coming
      BY <2>2, <2>3 DEF Coming, Between, Typed
    <3> QED
      BY <2>1, <2>3, <3>1 DEF Awaited
  <2>4. CASE Down(t) /\ counter > 0
    <3>1. /\ at'[t] = "dec" /\ counter' = counter /\ waiting' = waiting /\ off \subseteq off'
          /\ "late" \in raced => "late" \in raced'
      BY <2>4 DEF Typed, Down, Step, OthersOff, Races
    <3> QED
      BY <2>1, <2>3, <3>1
  <2>5. CASE Down(t) /\ ~(counter > 0)
    <3>1. counter' <= 0
      BY <2>1, <2>5 DEF Down
    <3> QED
      BY <3>1 DEF Awaited
  <2>6. CASE Decrement(t)
    <3>1. /\ at'[t] = "in" /\ counter' = counter - 1 /\ waiting' = waiting /\ off \subseteq off'
          /\ raced' = raced
      BY <2>6 DEF Typed, Decrement, Step, OthersOff
    <3> QED
      BY <2>1, <2>3, <3>1
  <2>7. CASE Enter(t)
    <3>1. t \in Coming /\ counter' = counter /\ raced' = raced
      BY <2>7 DEF Enter, Step, Coming, Between
    <3> QED
      BY <3>1 DEF Awaited
  <2>8. CASE Add(t)
    <3>1. t \in Coming /\ counter' = counter /\ ("late" \in raced => "late" \in raced')
      BY <2>8 DEF Add, Step, Coming, Between, Races
    <3> QED
      BY <3>1 DEF Awaited
  <2>9. CASE Added(t) \/ Return(t) \/ Up(t)
    <3>1. /\ at'[t] \notin {"enter", "add"} /\ counter' = counter /\ waiting' = waiting
          /\ off \subseteq off' /\ raced' = raced
      BY <2>9 DEF Typed, Added, Return, Up, Step, OthersOff
    <3> QED
      BY <2>1, <2>3, <3>1
  <2>10. CASE Increment(t)
    <3>1. /\ at[t] = "inc" /\ at'[t] = "out" /\ waiting' = waiting
          /\ off' = off \cup (asleep \ {t})
          /\ "late" \notin raced' => Between({"enter"}) = {} /\ waiting = <<>>
      BY <2>10 DEF Typed, Increment, Step, OthersOff, Races
    <3>2. Between({"enter"})' \subseteq Between({"enter"})
      BY <2>2, <3>1 DEF Between
    <3>3. Between({"add"})' \subseteq off'
      BY <2>2, <3>1 DEF Between, Listed
    <3> QED
      BY <3>1, <3>2, <3>3 DEF Awaited, Coming
  <2>11. CASE ReadFirst(t) \/ Delete(t) \/ Awaken(t)
    <3>1. /\ at'[t] \notin {"enter", "add"} /\ counter' = counter /\ waiting' = waiting
          /\ off \subseteq off' /\ ("late" \in raced => "late" \in raced')
      BY <2>11 DEF Typed, ReadFirst, Delete, Awaken, Step, OthersOff, Races
    <3> QED
      BY <2>1, <2>3, <3>1
  <2>12. CASE Unlink(t)
    <3>1. /\ at[t] = "deleting" /\ at'[t] = "state" /\ counter' = counter
          /\ wait[t] = QueueHead => waiting' = waiting
          /\ off \subseteq off' /\ raced' = raced
      BY <2>12 DEF Typed, Unlink, Step, OthersOff
    <3>2. wait[t] # QueueHead => waiting # <<>>
      BY <3>1 DEF Read, Reading
    <3> QED
      BY <2>1, <2>3, <3>1, <3>2
  <2>13. CASE Insert(t)
    <3>1. /\ at[t] = "insert" /\ at'[t] = "out" /\ counter' = counter /\ waiting' = waiting
          /\ off \ {wait[t]} \subseteq off' /\ raced' = raced
      BY <2>13 DEF Typed, Insert, Step
    <3>2. wait[t] \in Task => at'[wait[t]] # "add"
      BY <2>2, <3>1, SemaphoreAssumption DEF Held, Holding
    <3>3. \A u \in off \ off' : u \in Task /\ at'[u] # "add"
      BY <3>1, <3>2 DEF Typed
    <3>4. off \ off' \subseteq Task \ Between({"add"})'
      BY <3>3 DEF Between
    <3>5. counter' \in Int /\ counter' <= counter /\ at'[t] \notin {"enter", "add"}
      BY <2>1, <3>1
    <3> QED
      BY <2>3, <3>1, <3>4, <3>5
  <2> QED
    BY <1>2, <2>4, <2>5, <2>6, <2>7, <2>8, <2>9, <2>10, <2>11, <2>12, <2>13 DEF TaskStep, Proceeds
<1> QED
  BY <1>1, <1>2 DEF Next
-----------------------------------------------------------------------------
\* In the beginning nobody has anything.
LEMMA InitIInv == Init => IInv
<1> SUFFICES ASSUME Init
             PROVE  IInv
  OBVIOUS
<1>1. Typed /\ Listed
  BY SemaphoreAssumption DEF Init, Typed, Listed, Places, Race
<1>2. Having = {} /\ Deciding = {}
  BY DEF Init, Having, Inside, Faulted, Deciding, Between
<1>3. Cardinality(Having) = 0 /\ Cardinality(Deciding) = 0
  BY <1>2, FS_EmptySet
<1>4. counter = Count /\ Count \in Nat
  BY SemaphoreAssumption DEF Init
<1>5. Conserved
  BY <1>3, <1>4 DEF Conserved, Having
<1>6. Enough
  BY <1>3, <1>4 DEF Enough
<1>7. Awaited
  BY DEF Init, Awaited, Coming, Between
<1>8. Read /\ Held
  BY DEF Init, Read, Reading, Held, Holding, Between
<1>9. SleepersFound
  BY DEF Init, SleepersFound
<1> QED
  BY <1>1, <1>5, <1>6, <1>7, <1>8, <1>9 DEF IInv

\* The invariant of the semaphore, for any number of tasks and any count: what is asleep
\* is in the list or in the hands of one call, and what is counted is conserved, through
\* every access of semaphore_down and semaphore_up (semaphore.c:10-51).
THEOREM Invariant == Spec => []IInv
<1>1. IInv /\ [Next]_vars => IInv'
  BY TypedKept, ListedKept, ReadKept, HeldKept, FoundKept, ConservedKept, EnoughKept, AwaitedKept
     DEF IInv
<1> QED
  BY InitIInv, <1>1, PTL DEF Spec

\* The state is well typed.
THEOREM TypeCorrect == Spec => []TypeOK
<1>1. IInv => TypeOK
  BY DEF IInv, Typed, Listed, TypeOK
<1> QED
  BY <1>1, Invariant, PTL

\* Nothing the semaphore counts is lost or made, in any race of semaphore_down and
\* semaphore_up up to two calls of __up that read the same waiter, or two tasks that
\* change the list at once (semaphore.c:16, semaphore.c:34, semaphore.c:35).
THEOREM CountConserved == Spec => []Conserved
<1>1. IInv => Conserved
  BY DEF IInv
<1> QED
  BY <1>1, Invariant, PTL

\* No more than Count tasks are inside at once, if no two have read the same count
\* (semaphore.c:22).
THEOREM CountKept == Spec => []AtMostCount
<1>1. IInv => AtMostCount
  <2> SUFFICES ASSUME IInv, "both" \notin raced
               PROVE  Cardinality(Inside) <= Count
    BY DEF AtMostCount
  <2>1. /\ Cardinality(Having) \in Nat /\ Cardinality(Inside) \in Nat
        /\ Cardinality(Deciding) \in Nat /\ counter \in Int
    BY Finite DEF IInv, Typed
  <2>2. Cardinality(Inside) <= Cardinality(Having)
    BY Finite, FS_Subset DEF Having
  <2>3. counter >= 0
    BY <2>1 DEF IInv, Enough
  <2>4. counter + Cardinality(Having) = Count
    BY DEF IInv, Conserved, Having
  <2> QED
    BY <2>1, <2>2, <2>3, <2>4, SemaphoreAssumption
<1> QED
  BY <1>1, Invariant, PTL

\* Nobody waits for what is there, unless an up came between the reading of a 0 and the
\* list, or the other way round (semaphore.c:28, semaphore.c:43), or two calls took the
\* same waiter or changed the list at once before that.
THEOREM WaitersNotForgotten == Spec => []NobodyForgotten
<1>1. IInv => NobodyForgotten
  BY DEF IInv, Awaited, NobodyForgotten
<1> QED
  BY <1>1, Invariant, PTL

\* Whoever sleeps is in the list or in the hands of one call of __up, but for a tick
\* between the state and the list (semaphore.c:15).
THEOREM SleepersStayFound == Spec => []SleepersFound
<1>1. IInv => SleepersFound
  BY DEF IInv
<1> QED
  BY <1>1, Invariant, PTL

\* What the semaphore keeps, in one: nothing is lost or made, no more than Count are
\* inside, nobody is forgotten and no sleeper is lost, but for the races that the
\* definitions name.
THEOREM SemaphoreStaysSafe == Spec => []SemaphoreSafe
BY TypeCorrect, CountConserved, CountKept, WaitersNotForgotten, SleepersStayFound, PTL
   DEF SemaphoreSafe

-----------------------------------------------------------------------------
\* The list of MCSync.  A reader of it takes n steps from h along the pointers f.
Steps(w, f, h, n) == \A i \in 1 .. n : w[i] = f[IF i = 1 THEN h ELSE w[i - 1]]

\* The library's operators in the instances are the library's.
LEMMA SameOperators ==
  /\ \A S : List!Cardinality(S) = Cardinality(S) /\ (List!IsFiniteSet(S) <=> IsFiniteSet(S))
  /\ \A s : List!Reverse(s) = Reverse(s) /\ List!ToSet(s) = ToSet(s)
  /\ \A s, i, n : List!ImplementsOrderedSet!InsertAt(s, i, n) = InsertAt(s, i, n)
  /\ \A s, i : List!ImplementsOrderedSet!RemoveAt(s, i) = RemoveAt(s, i)
  /\ \A s : List!ImplementsOrderedSet!ToSet(s) = ToSet(s)
<1>1. \A S : List!Cardinality(S) = Cardinality(S)
  BY DEF Cardinality, List!Cardinality
<1>2. \A S : List!IsFiniteSet(S) <=> IsFiniteSet(S)
  BY DEF IsFiniteSet, List!IsFiniteSet
<1>3. /\ \A s : List!Reverse(s) = Reverse(s) /\ List!ToSet(s) = ToSet(s)
      /\ \A s : List!ImplementsOrderedSet!ToSet(s) = ToSet(s)
  BY DEF List!Reverse, Reverse, List!ToSet, ToSet, List!ImplementsOrderedSet!ToSet
<1>4. /\ \A s, i, n : List!ImplementsOrderedSet!InsertAt(s, i, n) = InsertAt(s, i, n)
      /\ \A s, i : List!ImplementsOrderedSet!RemoveAt(s, i) = RemoveAt(s, i)
  BY DEF List!ImplementsOrderedSet!InsertAt, InsertAt, List!ImplementsOrderedSet!RemoveAt, RemoveAt
<1> QED
  BY <1>1, <1>2, <1>3, <1>4

\* The lists of the instance are those of the lemmas.
LEMMA SameLists ==
  /\ \A l, h, n : List!ListAddBefore(l, h, n) = ListAddBefore(l, h, n)
  /\ \A l, h, n : List!ListAddBehind(l, h, n) = ListAddBehind(l, h, n)
  /\ \A l, n : List!ListDelete(l, n) = ListDelete(l, n)
  /\ \A l, h : List!ListIsEmpty(l, h) <=> ListIsEmpty(l, h)
  /\ \A l, L, h : List!WellLinked(l, L, h) <=> WellLinked(l, L, h)
<1>1. /\ \A l, h, n : List!ListAddBefore(l, h, n) = ListAddBefore(l, h, n)
      /\ \A l, h, n : List!ListAddBehind(l, h, n) = ListAddBehind(l, h, n)
      /\ \A l, n : List!ListDelete(l, n) = ListDelete(l, n)
      /\ \A l, h : List!ListIsEmpty(l, h) <=> ListIsEmpty(l, h)
  BY DEF List!ListAddBefore, ListAddBefore, List!ListAddBehind, ListAddBehind,
         List!ListDelete, ListDelete, List!ListIsEmpty, ListIsEmpty
<1>2. \A l, L, h : List!WellLinked(l, L, h) <=> WellLinked(l, L, h)
  BY DEF List!WellLinked, WellLinked, List!Ring, Ring, List!OneCycle, OneCycle
<1> QED
  BY <1>1, <1>2

\* From any node one can walk any number of steps along a function.
LEMMA StepsExist ==
  ASSUME NEW N, NEW f \in [N -> N], NEW h \in N, NEW n \in Nat
  PROVE  \E w \in [1 .. n -> N] : Steps(w, f, h, n)
<1> DEFINE X == {m \in Nat : \E w \in [1 .. m -> N] : Steps(w, f, h, m)}
<1>1. 0 \in X
  <2>1. [i \in 1 .. 0 |-> h] \in [1 .. 0 -> N]
    OBVIOUS
  <2>2. Steps([i \in 1 .. 0 |-> h], f, h, 0)
    BY DEF Steps
  <2> QED
    BY <2>1, <2>2
<1>2. ASSUME NEW m \in X PROVE m + 1 \in X
  <2>1. PICK w \in [1 .. m -> N] : Steps(w, f, h, m)
    OBVIOUS
  <2> DEFINE last == IF m = 0 THEN h ELSE w[m]
             v == [i \in 1 .. m + 1 |-> IF i = m + 1 THEN f[last] ELSE w[i]]
  <2>2. m \in Nat /\ last \in N
    OBVIOUS
  <2>3. v \in [1 .. m + 1 -> N]
    <3>1. \A i \in 1 .. m + 1 : i # m + 1 => i \in 1 .. m
      BY <2>2
    <3> QED
      BY <2>2, <3>1
  <2>4. ASSUME NEW i \in 1 .. m + 1
        PROVE  v[i] = f[IF i = 1 THEN h ELSE v[i - 1]]
    <3>1. CASE i = m + 1
      <4>1. v[i] = f[last]
        BY <3>1
      <4>2. last = IF i = 1 THEN h ELSE v[i - 1]
        <5>1. i = 1 <=> m = 0
          BY <2>2, <3>1
        <5>2. i # 1 => i - 1 = m /\ m \in 1 .. m + 1 /\ m # m + 1
          BY <2>2, <3>1
        <5> QED
          BY <5>1, <5>2
      <4> QED
        BY <4>1, <4>2
    <3>2. CASE i # m + 1
      <4>1. /\ i \in 1 .. m
            /\ i # 1 => i - 1 \in 1 .. m + 1 /\ i - 1 # m + 1
        BY <2>2, <3>2
      <4>2. v[i] = w[i] /\ (i # 1 => v[i - 1] = w[i - 1])
        BY <3>2, <4>1
      <4>3. w[i] = f[IF i = 1 THEN h ELSE w[i - 1]]
        BY <2>1, <4>1 DEF Steps
      <4> QED
        BY <4>2, <4>3
    <3> QED
      BY <3>1, <3>2
  <2>5. Steps(v, f, h, m + 1)
    <3> HIDE DEF v
    <3> QED
      BY <2>4 DEF Steps
  <2> HIDE DEF v
  <2> QED
    BY <2>2, <2>3, <2>5
<1> HIDE DEF X
<1>3. X \in SUBSET Nat
  BY DEF X
<1>4. X = Nat
  BY <1>1, <1>2, <1>3, SetInduction
<1> QED
  BY <1>4 DEF X

\* It sees a sequence s when the pointers go from the head along s and back.
LEMMA FollowIs ==
  ASSUME NEW f \in [List!Cell -> List!Cell], HeadNode \in List!Cell, IsFiniteSet(List!Cell),
         NEW s \in Seq(List!Cell), Distinct(HeadNode, s),
         \A i \in 0 .. Len(s) : f[NodeAt(HeadNode, s, i)] = NodeAt(HeadNode, s, i + 1)
  PROVE  List!Follow(f) = s
<1> DEFINE n == List!Cardinality(List!Cell)
           L == Len(s)
           g(w) == [i \in 1 .. n |-> f[IF i = 1 THEN HeadNode ELSE w[i - 1]]]
           walk == CHOOSE w : w = g(w)
<1>1. n \in Nat /\ L \in Nat /\ L + 1 <= n
  <2>1. IsFiniteSet(ToSet(s)) /\ Cardinality(ToSet(s)) = L
    BY MembersCounted DEF Distinct
  <2>2. HeadNode \notin ToSet(s) /\ ToSet(s) \cup {HeadNode} \subseteq List!Cell
    BY DEF Distinct, ToSet
  <2>3. Cardinality(ToSet(s) \cup {HeadNode}) = L + 1
    BY <2>1, <2>2, FS_AddElement
  <2> HIDE DEF L
  <2>4. L + 1 <= n /\ n \in Nat
    BY <2>2, <2>3, FS_Subset, FS_CardinalityType, SameOperators
  <2> QED
    BY <2>4 DEF L
<1>2. walk = g(walk)
  <2>1. PICK w \in [1 .. n -> List!Cell] : Steps(w, f, HeadNode, n)
    BY <1>1, StepsExist
  <2> HIDE DEF n
  <2>2. w = g(w)
    BY <2>1 DEF Steps
  <2> QED
    BY <2>2
<1> HIDE DEF walk, n
<1>3. DOMAIN walk = 1 .. n /\ Steps(walk, f, HeadNode, n)
  BY <1>2 DEF Steps
<1> HIDE DEF g
<1>4. \A i \in 1 .. L + 1 : walk[i] = NodeAt(HeadNode, s, i)
  <2> DEFINE X == {i \in 1 .. L + 1 : walk[i] # NodeAt(HeadNode, s, i)}
  <2> SUFFICES ASSUME X # {} PROVE FALSE
    OBVIOUS
  <2>1. X \subseteq Nat
    BY <1>1
  <2>2. PICK i \in X : \A j \in X : i <= j
    BY <2>1, LeastOf
  <2>3. i \in 1 .. n /\ i \in 1 .. L + 1
    BY <1>1
  <2>4. walk[i] = f[IF i = 1 THEN HeadNode ELSE walk[i - 1]]
    BY <1>3, <2>3 DEF Steps
  <2>5. (IF i = 1 THEN HeadNode ELSE walk[i - 1]) = NodeAt(HeadNode, s, i - 1)
    <3>1. CASE i = 1
      BY <3>1 DEF NodeAt
    <3>2. CASE i # 1
      <4>1. i - 1 \in 1 .. L + 1 /\ ~(i <= i - 1)
        BY <1>1, <2>3, <3>2
      <4> QED
        BY <2>2, <3>2, <4>1
    <3> QED
      BY <3>1, <3>2
  <2>6. i - 1 \in 0 .. L /\ (i - 1) + 1 = i
    BY <1>1, <2>3
  <2>7. f[NodeAt(HeadNode, s, i - 1)] = NodeAt(HeadNode, s, i)
    BY <2>6
  <2> QED
    BY <2>4, <2>5, <2>7
<1>5. /\ \A i \in 1 .. L : walk[i] = s[i] /\ walk[i] # HeadNode
      /\ walk[L + 1] = HeadNode
  <2>1. \A i \in 1 .. L : s[i] # HeadNode
    BY DEF Distinct, ToSet
  <2>2. \A i \in 1 .. L : i \in 1 .. L + 1 /\ NodeAt(HeadNode, s, i) = s[i]
    BY <1>1 DEF NodeAt
  <2>3. L + 1 \in 1 .. L + 1 /\ NodeAt(HeadNode, s, L + 1) = HeadNode
    BY <1>1 DEF NodeAt
  <2> QED
    BY <1>4, <2>1, <2>2, <2>3
<1> DEFINE back == {i \in DOMAIN walk : walk[i] = HeadNode}
           B == back \cup {n + 1}
<1>6. L + 1 \in B /\ B \subseteq Nat /\ \A i \in B : L + 1 <= i
  <2>1. L + 1 \in 1 .. n
    BY <1>1
  <2>2. \A i \in back : i \in 1 .. n /\ i \notin 1 .. L
    BY <1>3, <1>5
  <2> QED
    BY <1>1, <1>3, <1>5, <2>1, <2>2
<1>7. List!Min(B) = L + 1
  <2> HIDE DEF B, L
  <2>1. \E i \in B : \A j \in B : i <= j
    BY <1>6
  <2>2. \A i \in B : (\A j \in B : i <= j) => i = L + 1
    BY <1>6, <1>1
  <2> QED
    BY <1>6, <2>2 DEF List!Min
<1>8. List!Follow(f) = SubSeq(walk, 1, List!Min(B) - 1)
  BY DEF List!Follow, walk, g, n
<1>9. SubSeq(walk, 1, L) = s
  <2> DEFINE q == SubSeq(walk, 1, L)
  <2>1. q = [i \in 1 .. L |-> walk[i]]
    BY <1>1
  <2> HIDE DEF q
  <2>2. q = [i \in 1 .. L |-> s[i]]
    BY <1>5, <2>1
  <2>3. s = [i \in 1 .. L |-> s[i]]
    OBVIOUS
  <2> QED
    BY <2>2, <2>3 DEF q
<1>10. (L + 1) - 1 = L
  BY <1>1
<1> QED
  BY <1>7, <1>8, <1>9, <1>10

\* The list follows a sequence of its members.
Follower(s) ==
  /\ s \in Seq(List!Cell) /\ Distinct(HeadNode, s)
  /\ Follows(pointers, HeadNode, s) /\ ToSet(s) = linked
ListTyped == pointers \in ListMemory(List!Cell) /\ linked \subseteq Node
ListInv == ListTyped /\ \E s : Follower(s)

\* The list's memory is finite and the head is not a node.
LEMMA CellsFinite ==
  HeadNode \in List!Cell /\ Node \subseteq List!Cell /\ IsFiniteSet(List!Cell) /\ HeadNode \notin Node
<1>1. IsFiniteSet(Node) /\ HeadNode \notin Node
  BY ListAssumption, SameOperators DEF List!HeadAssumption
<1>2. IsFiniteSet(Node \cup {HeadNode})
  BY <1>1, FS_AddElement
<1> QED
  BY <1>1, <1>2 DEF List!Cell

\* list_init leaves a head that is alone on its ring.
LEMMA ListInit0 == List!Init => ListInv /\ Follower(<<>>)
<1> SUFFICES ASSUME List!Init PROVE ListTyped /\ Follower(<<>>)
  BY DEF ListInv
<1>1. /\ pointers.next = [n \in List!Cell |-> n] /\ pointers.prev = [n \in List!Cell |-> n]
      /\ pointers \in ListMemory(List!Cell) /\ linked = {}
  BY DEF List!Init, List!Self, ListMemory
<1>2. <<>> \in Seq(List!Cell) /\ Len(<<>>) = 0 /\ IsInjective(<<>>) /\ ToSet(<<>>) = {}
  BY DEF IsInjective, ToSet
<1>3. Follows(pointers, HeadNode, <<>>)
  BY <1>1, <1>2, CellsFinite DEF Follows, NodeAt
<1> QED
  BY <1>1, <1>2, <1>3 DEF ListTyped, Follower, Distinct

\* Behind a node is before the next one.
LEMMA BehindIsBefore ==
  ASSUME NEW N, NEW l \in ListMemory(N), NEW h \in N, NEW n \in N, n # h,
         l.prev[l.next[h]] = h
  PROVE  ListAddBehind(l, h, n) = ListAddBefore(l, l.next[h], n)
<1> DEFINE m == l.next[h]
<1>1. m \in N /\ l.next \in [N -> N] /\ l.prev \in [N -> N]
  BY DEF ListMemory
<1>2. [l.next EXCEPT ![n] = m][n] = m
  BY <1>1
<1>3. ListAddBehind(l, h, n) =
        [next |-> [[l.next EXCEPT ![n] = m] EXCEPT ![h] = n],
         prev |-> [l.prev EXCEPT ![n] = h, ![m] = n]]
  BY <1>2 DEF ListAddBehind
<1>4. ListAddBefore(l, m, n) =
        [next |-> [l.next EXCEPT ![h] = n, ![n] = m],
         prev |-> [l.prev EXCEPT ![n] = h, ![m] = n]]
  BY DEF ListAddBefore
<1> HIDE DEF m
<1>5. [[l.next EXCEPT ![n] = m] EXCEPT ![h] = n] = [l.next EXCEPT ![h] = n, ![n] = m]
  BY <1>1
<1> QED
  BY <1>3, <1>4, <1>5 DEF m

\* Every node of the ring is at a place of its order.
LEMMA PlaceOf ==
  ASSUME NEW s, Follower(s), ListTyped, NEW m \in linked \cup {HeadNode}
  PROVE  \E i \in 1 .. Len(s) + 1 : m = NodeAt(HeadNode, s, i)
<1>1. Len(s) \in Nat /\ DOMAIN s = 1 .. Len(s) /\ Len(s) + 1 \in 1 .. Len(s) + 1
  BY DEF Follower
<1>2. CASE m = HeadNode
  <2>1. NodeAt(HeadNode, s, Len(s) + 1) = m
    BY <1>1, <1>2 DEF NodeAt
  <2> QED
    BY <1>1, <2>1
<1>3. CASE m \in linked
  <2>1. PICK i \in 1 .. Len(s) : s[i] = m
    BY <1>1, <1>3 DEF Follower, ToSet
  <2>2. i \in 1 .. Len(s) + 1 /\ NodeAt(HeadNode, s, i) = m
    BY <1>1, <2>1 DEF NodeAt
  <2> QED
    BY <2>2
<1> QED
  BY <1>2, <1>3

\* What each call does to the sequence.
Inserted(s) == \E n \in Node \ ToSet(s) : \E i \in 1 .. Len(s) + 1 : Follower(InsertAt(s, i, n))
Removed(s) == \E i \in 1 .. Len(s) : Follower(RemoveAt(s, i))

\* list_add_before of the node at a place inserts there.
LEMMA InsertStep ==
  ASSUME NEW s, Follower(s), ListTyped, NEW i \in 1 .. Len(s) + 1, NEW n \in Node \ linked,
         pointers' = ListAddBefore(pointers, NodeAt(HeadNode, s, i), n),
         linked' = linked \cup {n}
  PROVE  ListTyped' /\ Inserted(s)'
<1> DEFINE k == ListAddBefore(pointers, NodeAt(HeadNode, s, i), n)
           t == InsertAt(s, i, n)
<1>1. n \in List!Cell /\ n # HeadNode /\ n \notin ToSet(s) /\ HeadNode \in List!Cell
  BY CellsFinite DEF Follower
<1>2. /\ k \in ListMemory(List!Cell) /\ t \in Seq(List!Cell)
      /\ Distinct(HeadNode, t) /\ Follows(k, HeadNode, t)
      /\ ToSet(t) = ToSet(s) \cup {n}
  BY <1>1, FollowsInsert DEF Follower, ListTyped
<1> HIDE DEF k, t
<1>3. Follower(t)' /\ ListTyped'
  BY <1>2 DEF Follower, ListTyped, k
<1> QED
  BY <1>1, <1>3 DEF Inserted, t

\* list_delete takes a node out of the order.
LEMMA RemoveStep ==
  ASSUME NEW s, Follower(s), ListTyped, NEW n \in linked,
         pointers' = ListDelete(pointers, n), linked' = linked \ {n}
  PROVE  ListTyped' /\ Removed(s)'
<1>1. PICK i \in 1 .. Len(s) : s[i] = n
  BY DEF Follower, ToSet
<1> DEFINE k == ListDelete(pointers, s[i])
           t == RemoveAt(s, i)
<1>2. /\ k \in ListMemory(List!Cell) /\ t \in Seq(List!Cell)
      /\ Distinct(HeadNode, t) /\ Follows(k, HeadNode, t)
  BY <1>1, FollowsRemove, CellsFinite DEF Follower, ListTyped
<1>3. ToSet(t) = ToSet(s) \ {n}
  BY <1>1, RemoveAtMembers DEF Follower, Distinct
<1> HIDE DEF k, t
<1>4. Follower(t)' /\ ListTyped'
  BY <1>1, <1>2, <1>3 DEF Follower, ListTyped, k
<1> QED
  BY <1>1, <1>4 DEF Removed, t

\* Each call of ListMachine is an insertion or a removal.
LEMMA ListNextStep ==
  ASSUME NEW s, Follower(s), ListTyped, List!Next
  PROVE  ListTyped' /\ (Inserted(s)' \/ Removed(s)')
<1>1. ASSUME NEW m \in linked \cup {HeadNode}, NEW n \in Node \ linked, List!AddBefore(m, n)
      PROVE  ListTyped' /\ Inserted(s)'
  <2>1. PICK i \in 1 .. Len(s) + 1 : m = NodeAt(HeadNode, s, i)
    BY PlaceOf
  <2>2. pointers' = ListAddBefore(pointers, m, n) /\ linked' = linked \cup {n}
    BY <1>1, SameLists DEF List!AddBefore
  <2> QED
    BY <2>1, <2>2, InsertStep
<1>2. ASSUME NEW m \in linked \cup {HeadNode}, NEW n \in Node \ linked, List!AddBehind(m, n)
      PROVE  ListTyped' /\ Inserted(s)'
  <2>1. PICK j \in 1 .. Len(s) + 1 : m = NodeAt(HeadNode, s, j)
    BY PlaceOf
  <2> DEFINE i == IF j = Len(s) + 1 THEN 0 ELSE j
  <2>2. /\ i \in 0 .. Len(s) /\ i + 1 \in 1 .. Len(s) + 1 /\ Len(s) \in Nat
        /\ m = NodeAt(HeadNode, s, i)
    <3>1. Len(s) \in Nat
      BY DEF Follower
    <3> QED
      BY <2>1, <3>1 DEF NodeAt
  <2> HIDE DEF i
  <2>3. /\ pointers.next[m] = NodeAt(HeadNode, s, i + 1)
        /\ pointers.prev[pointers.next[m]] = m
    BY <2>2 DEF Follower, Follows
  <2>4. m \in List!Cell /\ n \in List!Cell /\ n # m
    BY CellsFinite DEF ListTyped
  <2>5. ListAddBehind(pointers, m, n) = ListAddBefore(pointers, pointers.next[m], n)
    BY <2>3, <2>4, BehindIsBefore DEF ListTyped
  <2>6. pointers' = ListAddBefore(pointers, NodeAt(HeadNode, s, i + 1), n) /\ linked' = linked \cup {n}
    BY <1>2, <2>3, <2>5, SameLists DEF List!AddBehind
  <2> QED
    BY <2>2, <2>6, InsertStep
<1>3. ASSUME NEW n \in linked, List!Delete(n)
      PROVE  ListTyped' /\ Removed(s)'
  <2>1. pointers' = ListDelete(pointers, n) /\ linked' = linked \ {n}
    BY <1>3, SameLists DEF List!Delete
  <2> QED
    BY <2>1, RemoveStep
<1> QED
  BY <1>1, <1>2, <1>3 DEF List!Next

\* What is read from the head on.
LEMMA FollowReads ==
  ASSUME NEW p \in ListMemory(List!Cell), NEW s \in Seq(List!Cell), Distinct(HeadNode, s),
         Follows(p, HeadNode, s)
  PROVE  List!Follow(p.next) = s /\ List!Follow(p.prev) = Reverse(s)
<1>1. /\ p.next \in [List!Cell -> List!Cell] /\ p.prev \in [List!Cell -> List!Cell]
      /\ HeadNode \in List!Cell /\ IsFiniteSet(List!Cell)
  BY CellsFinite DEF ListMemory
<1>2. s \in Seq(List!Cell) /\ Distinct(HeadNode, s) /\ Len(s) \in Nat
  OBVIOUS
<1>3. \A i \in 0 .. Len(s) :
        /\ p.next[NodeAt(HeadNode, s, i)] = NodeAt(HeadNode, s, i + 1)
        /\ p.prev[NodeAt(HeadNode, s, i + 1)] = NodeAt(HeadNode, s, i)
  BY DEF Follows
<1>4. List!Follow(p.next) = s
  BY <1>1, <1>2, <1>3, FollowIs
<1> DEFINE r == Reverse(s)
           L == Len(s)
<1>5. /\ r \in Seq(List!Cell) /\ Len(r) = L /\ DOMAIN r = 1 .. L
      /\ \A i \in 1 .. L : r[i] = s[(L - i) + 1]
  <2>1. \A i \in 1 .. L : (L - i) + 1 \in 1 .. L
    BY <1>2
  <2> QED
    BY <1>2, <2>1 DEF Reverse
<1> HIDE DEF r, L
<1>6. Distinct(HeadNode, r)
  <2>1. /\ \A i \in 1 .. L : (L - i) + 1 \in 1 .. L
        /\ \A i, j \in 1 .. L : (L - i) + 1 = (L - j) + 1 => i = j
        /\ L \in Nat
    BY <1>2 DEF L
  <2>2. DOMAIN s = 1 .. L
    BY <1>2 DEF L
  <2>3. \A i, j \in 1 .. L : s[i] = s[j] => i = j
    BY <1>2, <2>2 DEF Distinct, IsInjective
  <2>4. IsInjective(r)
    <3>1. \A i, j \in 1 .. L : r[i] = r[j] => i = j
      <4> TAKE i, j \in 1 .. L
      <4> HAVE r[i] = r[j]
      <4>1. s[(L - i) + 1] = s[(L - j) + 1]
        BY <1>5
      <4> QED
        BY <2>1, <2>3, <4>1
    <3> QED
      BY <1>5, <3>1 DEF IsInjective
  <2>5. HeadNode \notin ToSet(r)
    BY <1>2, <1>5, <2>1, <2>2 DEF Distinct, ToSet
  <2> QED
    BY <2>4, <2>5 DEF Distinct
<1>7. \A i \in 0 .. L + 1 : NodeAt(HeadNode, r, i) = NodeAt(HeadNode, s, (L + 1) - i)
  <2> TAKE i \in 0 .. L + 1
  <2>1. L \in Nat
    BY <1>2 DEF L
  <2>2. CASE i \in 1 .. L
    <3>1. (L + 1) - i \in 1 .. L /\ (L - i) + 1 = (L + 1) - i
      BY <2>1, <2>2
    <3> QED
      BY <1>5, <2>2, <3>1 DEF NodeAt, L
  <2>3. CASE i \notin 1 .. L
    <3>1. (L + 1) - i \notin 1 .. L
      BY <2>1, <2>3
    <3> QED
      BY <1>5, <2>3, <3>1 DEF NodeAt, L
  <2> QED
    BY <2>2, <2>3
<1>8. \A i \in 0 .. Len(r) : p.prev[NodeAt(HeadNode, r, i)] = NodeAt(HeadNode, r, i + 1)
  <2> SUFFICES ASSUME NEW i \in 0 .. L
               PROVE  p.prev[NodeAt(HeadNode, r, i)] = NodeAt(HeadNode, r, i + 1)
    BY <1>5
  <2>1. L \in Nat
    BY <1>2 DEF L
  <2>2. /\ L - i \in 0 .. L /\ (L - i) + 1 = (L + 1) - i /\ (L + 1) - (i + 1) = L - i
        /\ i \in 0 .. L + 1 /\ i + 1 \in 0 .. L + 1
    BY <2>1
  <2>3. p.prev[NodeAt(HeadNode, s, (L - i) + 1)] = NodeAt(HeadNode, s, L - i)
    BY <1>3, <2>2 DEF L
  <2> QED
    BY <1>7, <2>2, <2>3
<1>9. List!Follow(p.prev) = r
  BY <1>1, <1>5, <1>6, <1>8, FollowIs
<1> QED
  BY <1>4, <1>9 DEF r

\* The order the pointers are read in is the one they follow, in this state and in the next.
LEMMA OrderIs ==
  /\ \A s : Follower(s) /\ ListTyped => List!Order = s /\ List!BackOrder = Reverse(s)
  /\ \A s : Follower(s)' /\ ListTyped' => (List!Order)' = s
<1>1. \A s : Follower(s) /\ ListTyped => List!Order = s /\ List!BackOrder = Reverse(s)
  BY FollowReads DEF Follower, ListTyped, List!Order, List!BackOrder
<1>2. \A s : Follower(s)' /\ ListTyped' => (List!Order)' = s
  BY FollowReads DEF Follower, ListTyped, List!Order
<1> QED
  BY <1>1, <1>2

\* The invariant gives what the run checks.
LEMMA ListInvSound == ListInv => ListSound
<1> SUFFICES ASSUME ListInv PROVE List!ListWellLinked /\ List!BothWaysAgree
  BY DEF ListSound, List!ListSound
<1>1. PICK s : Follower(s)
  BY DEF ListInv
<1>2. /\ s \in Seq(List!Cell) /\ Distinct(HeadNode, s) /\ Follows(pointers, HeadNode, s)
      /\ ToSet(s) = linked /\ ListTyped /\ HeadNode \in List!Cell
  BY <1>1, CellsFinite DEF Follower, ListInv
<1>3. List!ListWellLinked
  BY <1>2, FollowsWellLinked, SameLists DEF ListTyped, List!ListWellLinked
<1>4. List!Order = s /\ List!BackOrder = Reverse(s)
  BY <1>1, <1>2, OrderIs
<1>5. List!ListIsEmpty(pointers, HeadNode) <=> linked = {}
  <2>1. /\ pointers.prev[HeadNode] = IF s = <<>> THEN HeadNode ELSE s[Len(s)]
        /\ pointers.next[HeadNode] = IF s = <<>> THEN HeadNode ELSE Head(s)
    BY <1>2, FollowsEnds
  <2>2. s # <<>> => Head(s) \in ToSet(s)
    BY <1>2, TailProperties
  <2>3. s = <<>> => ToSet(s) = {}
    BY DEF ToSet
  <2> QED
    BY <1>2, <2>1, <2>2, <2>3, SameLists DEF ListIsEmpty, Distinct
<1> QED
  BY <1>2, <1>3, <1>4, <1>5, SameOperators DEF List!BothWaysAgree

\* A step keeps the invariant and is a step of OrderedSet, or a stutter.
LEMMA ListStep ==
  ListInv /\ [List!Next]_listVars =>
    ListInv' /\ [List!ImplementsOrderedSet!Next]_(List!Order)
<1> SUFFICES ASSUME ListInv, [List!Next]_listVars
             PROVE  ListInv' /\ [List!ImplementsOrderedSet!Next]_(List!Order)
  OBVIOUS
<1>1. PICK s : Follower(s) /\ ListTyped
  BY DEF ListInv
<1>2. CASE UNCHANGED listVars
  <2>1. pointers' = pointers /\ linked' = linked
    BY <1>2 DEF listVars
  <2>2. Follower(s)' /\ ListTyped'
    BY <1>1, <2>1 DEF Follower, ListTyped
  <2>3. List!Order = s
    BY <1>1, OrderIs
  <2>4. (List!Order)' = s
    BY <1>1, <2>1 , <2>3 DEF List!Order
  <2> QED
    BY <2>2, <2>3, <2>4 DEF ListInv
<1>3. CASE List!Next
  <2>1. ListTyped' /\ (Inserted(s)' \/ Removed(s)')
    BY <1>1, <1>3, ListNextStep
  <2>2. List!Order = s /\ s \in Seq(List!Cell)
    BY <1>1, OrderIs DEF Follower
  <2>3. ASSUME NEW t, Follower(t)' PROVE (List!Order)' = t /\ ListInv'
    <3>1. (List!Order)' = t
      BY <2>1, <2>3, OrderIs
    <3> QED
      BY <2>1, <2>3, <3>1 DEF ListInv
  <2>4. CASE Inserted(s)'
    <3>1. PICK n \in Node \ ToSet(s), i \in 1 .. Len(s) + 1 : Follower(InsertAt(s, i, n))'
      BY <2>4 DEF Inserted
    <3>2. (List!Order)' = InsertAt(s, i, n) /\ ListInv'
      BY <2>3, <3>1
    <3>3. n \in List!ImplementsOrderedSet!Free
      BY <2>2, <3>1, SameOperators DEF List!ImplementsOrderedSet!Free
    <3>4. List!ImplementsOrderedSet!PutAt(i, n)
      BY <2>2, <3>2, SameOperators DEF List!ImplementsOrderedSet!PutAt
    <3>5. List!ImplementsOrderedSet!Put
      BY <2>2, <3>1, <3>3, <3>4 DEF List!ImplementsOrderedSet!Put
    <3> QED
      BY <3>2, <3>5 DEF List!ImplementsOrderedSet!Next
  <2>5. CASE Removed(s)'
    <3>1. PICK i \in 1 .. Len(s) : Follower(RemoveAt(s, i))'
      BY <2>5 DEF Removed
    <3>2. (List!Order)' = RemoveAt(s, i) /\ ListInv'
      BY <2>3, <3>1
    <3>3. i \in DOMAIN List!Order
      BY <2>2, <3>1
    <3>4. List!ImplementsOrderedSet!Take
      BY <2>2, <3>2, <3>3, SameOperators DEF List!ImplementsOrderedSet!Take
    <3> QED
      BY <3>2, <3>4 DEF List!ImplementsOrderedSet!Next
  <2> QED
    BY <2>1, <2>4, <2>5
<1> QED
  BY <1>2, <1>3

\* The invariant holds in every reachable state.
LEMMA ListInductive == AllSpec => []ListInv
<1>1. AllInit => ListInv
  BY ListInit0 DEF AllInit
<1>2. ListInv /\ [AllNext]_allVars => ListInv'
  BY ListStep DEF AllNext, ListNext, SemaphoreNext, allVars
<1> QED
  BY <1>1, <1>2, PTL DEF AllSpec

\* After any calls on any number of nodes, relinked with stale pointers or not, the
\* pointers are one ring that reads the same in both directions (lib.h:39, 47, 55).
THEOREM ListsStaySound == AllSpec => []ListSound
<1> QED
  BY ListInductive, ListInvSound, PTL

\* For any finite set of nodes the pointer code implements a sequence of distinct nodes
\* that are put in at a place and taken out (lib.h:39, 47, 55).
THEOREM ListsAreOrderedSets == AllSpec => OrderedSetSpec
<1>1. AllInit => List!ImplementsOrderedSet!Init
  <2> SUFFICES ASSUME AllInit PROVE List!ImplementsOrderedSet!Init
    OBVIOUS
  <2>1. Follower(<<>>) /\ ListTyped
    BY ListInit0 DEF AllInit, ListInv
  <2>2. List!Order = <<>>
    BY <2>1, OrderIs
  <2> QED
    BY <2>2 DEF List!ImplementsOrderedSet!Init
<1>2. ListInv /\ [AllNext]_allVars => [List!ImplementsOrderedSet!Next]_(List!Order)
  BY ListStep DEF AllNext, ListNext, SemaphoreNext, allVars
<1> QED
  BY <1>1, <1>2, ListInductive, PTL
    DEF AllSpec, OrderedSetSpec, List!OrderedSetSpec, List!ImplementsOrderedSet!Spec

-----------------------------------------------------------------------------
\* The spinlock of MCSpinlock.  The invariant counts the CPUs whose decrements the word
\* holds: those in the waiting loop and the holder, unless the word has just been set to 1.
Counted == {c \in CPU : pc[c] \in {"spin", "in"}}

\* A free lock's word is 1; without spin_trylock a held lock's word is not,
\* which is what keeps a second holder out.
LockInv ==
  /\ Lock!TypeOK
  /\ word <= 1
  /\ Lock!FreeIsOne
  /\ trying = {} => (word = 1 => Lock!Holders = {})
  /\ word = 1 \/ word >= 1 - Cardinality(Counted)
  /\ Lock!MutualExclusion
  /\ trying = {} => \A c \in CPU : pc[c] \notin {"xchg", "failed"}
  /\ PreemptOffInside

\* The CPUs are finitely many, and the instance counts them as the library does.
LEMMA LockConstants ==
  /\ IsFiniteSet(CPU) /\ Trying \subseteq CPU
  /\ Lock!Cardinality(CPU) = Cardinality(CPU)
<1>1. IsFiniteSet(CPU) /\ Trying \subseteq CPU
  BY LockAssumption DEF Lock!CPUAssumption, Lock!IsFiniteSet, IsFiniteSet
<1>2. \A S : Lock!Cardinality(S) = Cardinality(S)
  BY DEF Lock!Cardinality, Cardinality
<1> QED
  BY <1>1, <1>2

\* Counted sets are finite, and one more counted CPU makes one more.
LEMMA CountedFinite ==
  /\ IsFiniteSet(Counted)
  /\ Cardinality(Counted) \in Nat
  /\ Cardinality(Counted) <= Cardinality(CPU)
BY LockConstants, FS_Subset, FS_CardinalityType DEF Counted

\* The lock is free and nobody spins at the start.
LEMMA LockBegins == Lock!Init => LockInv
BY LockConstants
   DEF Lock!Init, LockInv, Lock!TypeOK, Lock!Places, Lock!FreeIsOne, Lock!Holders,
       Lock!MutualExclusion, PreemptOffInside, Lock!PreemptOffInside

\* Every step of a CPU, atomic instruction by atomic instruction.
LEMMA LockSteps == LockInv /\ [Lock!Next]_lockVars => LockInv'
<1> SUFFICES ASSUME LockInv, [Lock!Next]_lockVars PROVE LockInv'
  OBVIOUS
<1> USE DEF LockInv, Lock!TypeOK, Lock!Places, Lock!FreeIsOne, Lock!Holders,
            Lock!MutualExclusion, PreemptOffInside, Lock!PreemptOffInside, Lock!Go
<1>0. CASE UNCHANGED lockVars
  BY <1>0 DEF lockVars, Counted
<1>1. ASSUME NEW c \in CPU, Lock!Disable(c) PROVE LockInv'
  <2>1. Counted' = Counted
    BY <1>1 DEF Lock!Disable, Counted
  <2> QED
    BY <1>1, <2>1 DEF Lock!Disable
<1>2. ASSUME NEW c \in CPU, Lock!TryDisable(c) PROVE LockInv'
  <2>1. Counted' = Counted
    BY <1>2 DEF Lock!TryDisable, Counted
  <2> QED
    BY <1>2, <2>1 DEF Lock!TryDisable
<1>3. ASSUME NEW c \in CPU, Lock!Decrement(c) PROVE LockInv'
  <2>1. Counted' = Counted \cup {c} /\ c \notin Counted
    BY <1>3 DEF Lock!Decrement, Counted
  <2>2. Cardinality(Counted') = Cardinality(Counted) + 1
    BY <2>1, CountedFinite, FS_AddElement
  <2>3. Cardinality(Counted) >= 0
    BY CountedFinite
  <2>4. word' = 1 \/ word' >= 1 - Cardinality(Counted')
    BY <1>3, <2>2, <2>3, CountedFinite DEF Lock!Decrement
  <2> QED
    BY <1>3, <2>4 DEF Lock!Decrement
<1>4. ASSUME NEW c \in CPU, Lock!SeeFree(c) PROVE LockInv'
  <2>1. word = 1
    BY <1>4 DEF Lock!SeeFree
  <2> QED
    BY <1>4, <2>1 DEF Lock!SeeFree
<1>5. ASSUME NEW c \in CPU, Lock!Unlock(c) PROVE LockInv'
  BY <1>5 DEF Lock!Unlock
<1>6. ASSUME NEW c \in CPU, Lock!Enable(c) PROVE LockInv'
  <2>1. Counted' = Counted
    BY <1>6 DEF Lock!Enable, Counted
  <2> QED
    BY <1>6, <2>1 DEF Lock!Enable
<1>7. ASSUME NEW c \in CPU, Lock!Exchange(c) PROVE LockInv'
  <2>1. PICK d \in CPU : d \in Counted'
    <3>1. CASE word = 0
      <4>1. PICK d \in CPU : pc[d] = "in"
        BY <3>1
      <4> QED
        BY <1>7, <4>1 DEF Lock!Exchange, Counted
    <3>2. CASE word # 0
      BY <1>7, <3>2 DEF Lock!Exchange, Counted
    <3> QED
      BY <3>1, <3>2
  <2>2. Cardinality(Counted') \in Nat /\ Cardinality(Counted') >= 1
    <3>1. IsFiniteSet(Counted')
      BY LockConstants, FS_Subset DEF Counted
    <3> QED
      BY <2>1, <3>1, FS_EmptySet, FS_CardinalityType
  <2> QED
    BY <1>7, <2>2 DEF Lock!Exchange
<1>8. ASSUME NEW c \in CPU, Lock!TryFail(c) PROVE LockInv'
  <2>1. Counted' = Counted
    BY <1>8 DEF Lock!TryFail, Counted
  <2> QED
    BY <1>8, <2>1 DEF Lock!TryFail
<1> QED
  BY <1>0, <1>1, <1>2, <1>3, <1>4, <1>5, <1>6, <1>7, <1>8 DEF Lock!Next, Lock!Inside

\* The counting invariant holds in every reachable state.
LEMMA LockInvariant == LockSpec => []LockInv
BY LockBegins, LockSteps, PTL DEF LockSpec

\* As long as no CPU uses spin_trylock, any number of CPUs exclude each other
\* (spinlock.c:8, 29).
THEOREM OneHolder == LockSpec => []Lock!MutualExclusion
<1>1. LockInv => Lock!MutualExclusion
  BY DEF LockInv
<1> QED
  BY LockInvariant, <1>1, PTL

\* The word of a lock nobody holds is 1, also with spin_trylock.
THEOREM FreeLockCanBeTaken == LockSpec => []Lock!FreeIsOne
<1>1. LockInv => Lock!FreeIsOne
  BY DEF LockInv
<1> QED
  BY LockInvariant, <1>1, PTL

\* The waiters cannot take the word lower than one decrement each.
THEOREM WordNeverWraps == LockSpec => []Lock!WordBounded
<1>1. LockInv => Lock!WordBounded
  BY CountedFinite, LockConstants, FS_CardinalityType
     DEF LockInv, Lock!WordBounded, Lock!TypeOK
<1> QED
  BY LockInvariant, <1>1, PTL

\* preempt_count is 1 from the first line of spinlock_lock or spin_trylock to
\* the last of spinlock_unlock, and 0 otherwise.
THEOREM PreemptionBalanced == LockSpec => []PreemptOffInside
<1>1. LockInv => PreemptOffInside
  BY DEF LockInv
<1> QED
  BY LockInvariant, <1>1, PTL

\* The lock excludes, is free when nobody holds it and does not wrap, whoever tries:
\* the results on the word of spinlock.c in one.
THEOREM LockStaysSafe == LockSpec => []LockSafe
<1>1. LockInv => Lock!TypeOK
  BY DEF LockInv
<1> QED
  BY LockInvariant, <1>1, OneHolder, WordNeverWraps, FreeLockCanBeTaken, PTL
    DEF LockSafe, Lock!LockSafe
=============================================================================
