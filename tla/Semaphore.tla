----------------------------- MODULE Semaphore ------------------------------
(***************************************************************************)
(* A counting semaphore: semaphore_down and semaphore_up access by access, *)
(* called by tasks that can lose the processor at each.  The tasks that    *)
(* wait are a sequence here: what the head of their list leads to, which   *)
(* the first store of list_add_before and the second of list_delete        *)
(* change.                                                                 *)
(*                                                                         *)
(* raced records the races: two tasks have read the same count ("both"), a *)
(* task that has read a 0 is passed over ("late"), two calls of __up have  *)
(* read the same waiter ("same"), and a task changes the list while        *)
(* another is between its stores to it ("list").  Behind the last two      *)
(* nothing is claimed, and the model stops there.                          *)
(***************************************************************************)
EXTENDS Integers, Sequences, FiniteSets

CONSTANTS Task,
          QueueHead,  \* semaphore->wait, whose task is NULL
          Count       \* semaphore_init
ASSUME SemaphoreAssumption ==
  Count \in Nat \ {0} /\ IsFiniteSet(Task) /\ QueueHead \notin Task

VARIABLES
  counter,  \* the counter
  waiting,  \* the tasks in the list
  at,       \* where each task is
  wait,     \* the local variable of __up, the head outside of it
  asleep,   \* TASK_UNINTERRUPTIBLE
  off,      \* not in the run queue: has lost the processor when it was asleep
  raced     \* history: the races that have happened
vars == <<counter, waiting, at, wait, asleep, off, raced>>

Broken == {"same", "list"}
Race == {"both", "late"} \cup Broken
Places == {"out", "dec", "enter", "add", "adding", "sleep", "in", "inc", "next",
           "delete", "deleting", "state", "insert", "fault"}

TypeOK ==
  /\ counter \in Int
  /\ waiting \in Seq(Task) /\ \A i, j \in DOMAIN waiting : waiting[i] = waiting[j] => i = j
  /\ at \in [Task -> Places] /\ wait \in [Task -> Task \cup {QueueHead}]
  /\ asleep \subseteq Task /\ off \subseteq Task /\ raced \subseteq Race
  /\ \A t \in asleep \cup off : at[t] \in {"add", "adding", "sleep"}

Init ==
  /\ counter = Count /\ waiting = <<>>
  /\ at = [t \in Task |-> "out"] /\ wait = [t \in Task |-> QueueHead]
  /\ asleep = {} /\ off = {} /\ raced = {}

Between(places) == {u \in Task : at[u] \in places}

\* A step of t, which has the processor: whoever else is asleep has not.
Step(t, from, to) ==
  /\ at[t] = from /\ t \notin off
  /\ at' = [at EXCEPT ![t] = to]
OthersOff(t) == off' = off \cup (asleep \ {t})
Races(kind, happens) == raced' = IF happens THEN raced \cup {kind} ELSE raced

\* semaphore_down reads the counter.  The race: others have read it before and have
\* not yet taken what it counts.
Down(t) ==
  /\ Step(t, "out", IF counter > 0 THEN "dec" ELSE "enter")
  /\ Races("both", counter > 0 /\ Cardinality(Between({"dec"})) >= counter)
  /\ OthersOff(t) /\ UNCHANGED <<counter, waiting, wait, asleep>>

\* It takes one.
Decrement(t) ==
  /\ Step(t, "dec", "in")
  /\ counter' = counter - 1
  /\ OthersOff(t) /\ UNCHANGED <<waiting, wait, asleep, raced>>

\* Or, in __down, it goes to sleep ...
Enter(t) ==
  /\ Step(t, "enter", "add")
  /\ asleep' = asleep \cup {t}
  /\ OthersOff(t) /\ UNCHANGED <<counter, waiting, wait, raced>>

\* ... as the last of those that wait.  The first store of list_add_before leads to it;
Add(t) ==
  /\ Step(t, "add", "adding")
  /\ waiting' = Append(waiting, t)
  /\ Races("list", Between({"adding", "deleting"}) # {})
  /\ OthersOff(t) /\ UNCHANGED <<counter, wait, asleep>>

\* the other three change nothing that the head leads to.
Added(t) ==
  /\ Step(t, "adding", "sleep")
  /\ OthersOff(t) /\ UNCHANGED <<counter, waiting, wait, asleep, raced>>

\* What __up has left to it is its own.
Return(t) ==
  /\ Step(t, "sleep", "in") /\ t \notin asleep
  /\ OthersOff(t) /\ UNCHANGED <<counter, waiting, wait, asleep, raced>>

\* semaphore_up looks whether somebody waits.
Up(t) ==
  /\ Step(t, "in", IF waiting = <<>> THEN "inc" ELSE "next")
  /\ OthersOff(t) /\ UNCHANGED <<counter, waiting, wait, asleep, raced>>

\* Nobody does.  The race: a task has read a counter of 0 and is not in the list yet,
\* or is there by now.
Increment(t) ==
  /\ Step(t, "inc", "out")
  /\ counter' = counter + 1
  /\ Races("late", Between({"enter"}) # {} \/ waiting # <<>>)
  /\ OthersOff(t) /\ UNCHANGED <<waiting, wait, asleep>>

\* __up reads who is first: the head, if others have taken all in the meantime.
First == IF waiting = <<>> THEN QueueHead ELSE Head(waiting)
ReadFirst(t) ==
  /\ Step(t, "next", "delete")
  /\ wait' = [wait EXCEPT ![t] = First]
  /\ Races("same", \E u \in Between({"delete", "deleting"}) :
                     wait[u] = First /\ First # QueueHead)
  /\ OthersOff(t) /\ UNCHANGED <<counter, waiting, asleep>>

\* The first store of list_delete.  To delete the head of an empty list does nothing.
Delete(t) ==
  /\ Step(t, "delete", "deleting")
  /\ Races("list", \/ Between({"adding", "deleting"}) # {}
                   \/ wait[t] = QueueHead /\ waiting # <<>>)
  /\ OthersOff(t) /\ UNCHANGED <<counter, waiting, wait, asleep>>

\* The second.
Unlink(t) ==
  /\ Step(t, "deleting", "state")
  /\ waiting' = IF wait[t] = QueueHead THEN waiting ELSE Tail(waiting)
  /\ OthersOff(t) /\ UNCHANGED <<counter, wait, asleep, raced>>

\* Mutant: the counter is counted up as well.
AwakenCounts(t) ==
  /\ Step(t, "state", IF wait[t] = QueueHead THEN "fault" ELSE "insert")
  /\ asleep' = asleep \ {wait[t]}
  /\ counter' = counter + 1
  /\ OthersOff(t) /\ UNCHANGED <<waiting, wait, raced>>

\* Its task is TASK_RUNNING.  The task of the head is NULL.
Awaken(t) ==
  /\ Step(t, "state", IF wait[t] = QueueHead THEN "fault" ELSE "insert")
  /\ asleep' = asleep \ {wait[t]}
  /\ OthersOff(t) /\ UNCHANGED <<counter, waiting, wait, raced>>

\* Mutant: it is not put back in the run queue.
InsertNobody(t) ==
  /\ Step(t, "insert", "out")
  /\ wait' = [wait EXCEPT ![t] = QueueHead]
  /\ OthersOff(t) /\ UNCHANGED <<counter, waiting, asleep, raced>>

\* insert_task_queue.
Insert(t) ==
  /\ Step(t, "insert", "out")
  /\ off' = (off \cup (asleep \ {t})) \ {wait[t]}
  /\ wait' = [wait EXCEPT ![t] = QueueHead]
  /\ UNCHANGED <<counter, waiting, asleep, raced>>

Proceeds(t) ==
  \/ Decrement(t) \/ Enter(t) \/ Add(t) \/ Added(t) \/ Return(t) \/ Up(t) \/ Increment(t)
  \/ ReadFirst(t) \/ Delete(t) \/ Unlink(t) \/ Awaken(t) \/ Insert(t)
Trusted == raced \cap Broken = {}
TaskStep(t) == Trusted /\ (Down(t) \/ Proceeds(t))
Next == \E t \in Task : TaskStep(t)
Spec == Init /\ [][Next]_vars

\* A task that can go on does, and one that is inside leaves.
Fairness == \A t \in Task : WF_vars(Trusted /\ Proceeds(t))
FairSpec == Spec /\ Fairness
-----------------------------------------------------------------------------
\* Those that have what the semaphore counts: __up hands it on when it wakes.
Inside == {t \in Task : at[t] \in {"in", "inc", "next", "delete", "deleting", "state"}
                          \/ (at[t] = "sleep" /\ t \notin asleep)}

Faulted == {t \in Task : at[t] = "fault"}

\* Nothing the semaphore counts is lost or made, up to where two calls of __up take the
\* same waiter or the list is changed by two tasks at once, but what a task that has
\* faulted kept (semaphore.c:45).
Conserved == counter + Cardinality(Inside \cup Faulted) = Count

\* At most Count tasks are inside, unless two have read the same count
\* (semaphore.c:22).
AtMostCount == "both" \notin raced => Cardinality(Inside) <= Count

\* Nobody waits for what is there, unless an up came between the reading of a 0 and
\* the list, or the other way round (semaphore.c:28, semaphore.c:43).
NobodyForgotten == "late" \notin raced => waiting = <<>> \/ counter <= 0

\* Whoever sleeps is in the list or in the hands of one __up, unless it is where it
\* sleeps and is not in the list (semaphore.c:15): there a tick takes the processor from it
\* for ever.
InList(t) == \E i \in DOMAIN waiting : waiting[i] = t
SleepersFound ==
  \A t \in asleep \cup off :
    InList(t) \/ at[t] = "add" \/ \E u \in Between({"state", "insert"}) : wait[u] = t

\* The count is kept, and outside the races it is kept to; no sleeper is lost but for
\* the one place where it is (semaphore.c:15, 22, 28, 43, 45).
SemaphoreSafe == TypeOK /\ Conserved /\ AtMostCount /\ NobodyForgotten /\ SleepersFound

\* Who waits gets in, if those inside leave and none of this has happened.
WaitersServed ==
  \A t \in Task : at[t] = "sleep" ~> at[t] = "in" \/ raced # {} \/ Faulted # {}
=============================================================================
