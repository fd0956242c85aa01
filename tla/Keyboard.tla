------------------------------ MODULE Keyboard ------------------------------
(***************************************************************************)
(* The keyboard driver, src/os/kernel/keyboard.c: the interrupt handler    *)
(* fills the ring, tasks empty it with keyboard_read and reset it with     *)
(* keyboard_open, keyboard_close or keyboard_ioctl.  The handler runs with *)
(* interrupts off and is one step; the tasks' system calls are not, and    *)
(* each access of theirs to the shared ring is a step.  The codes 0xfa     *)
(* that the handler drops are left out, and a code is represented by the   *)
(* number of codes since the last reset.                                   *)
(***************************************************************************)
EXTENDS Integers, FiniteSets, SequencesExt

CONSTANTS Task,      \* the tasks that use the keyboard
          Idle,      \* stands for every other task
          Size,      \* KEYBOARD_BUF_SIZE
          Wants,     \* the numbers of codes that tasks ask for
          MaxTyped   \* a bound of the model: codes typed after a reset
KeyboardAssumption == /\ Idle \notin Task
                      /\ Size \in Nat \ {0} /\ MaxTyped \in Nat
                      /\ Wants \subseteq Nat \ {0}

VARIABLES
  head, tail, count, buf,   \* *p_kb, the pointers as offsets in buf
  waiters,                  \* keyboard_wait_queue, first waiter first
  cpu,                      \* who runs
  running,                  \* the tasks in state TASK_RUNNING
  pc,                       \* where each task is
  want, counter, loaded,    \* in keyboard_read: parameter, local, old count
  typed,                    \* history: codes typed since the last reset,
  got,                      \*   the codes given to readers since then,
  struck,                   \*   places where codes have met a task,
  shared,                   \*   two tasks were inside the driver at once,
  early                     \*   a task was woken before it slept
ring == <<head, tail, count, buf>>
locals == <<want, counter, loaded>>
vars == <<ring, waiters, cpu, running, pc, locals, typed, got, struck,
          shared, early>>

\* pc: user mode; before waitqueue.c:15, 16, 17; before the two loads of
\* keyboard.c:143, before 146, before 149 or 155, before the load and the store
\* of 157; before 94, 95, 96 and their like; in the page fault of a copy.
Resetting == {"tail", "count", "clear"}
Places == {"out", "mark", "list", "sched", "compare", "take", "copy", "move",
           "load", "store", "fault"} \cup Resetting

TypeOK ==
  /\ head \in 0 .. Size /\ tail \in Int /\ count \in Int
  /\ buf \in [0 .. Size - 1 -> 0 .. MaxTyped]
  /\ waiters \in Seq(Task) /\ IsInjective(waiters)
  /\ cpu \in Task \cup {Idle} /\ running \subseteq Task
  /\ pc \in [Task -> Places]
  /\ want \in [Task -> Wants \cup {0}]
  /\ counter \in [Task -> Int] /\ loaded \in [Task -> Int]
  /\ typed \in 0 .. MaxTyped /\ got \in Seq(0 .. MaxTyped)
  /\ struck \subseteq Places
  /\ shared \in BOOLEAN /\ early \in BOOLEAN

Empty == [i \in 0 .. Size - 1 |-> 0]
Zero == [t \in Task |-> 0]

Init ==
  /\ head = 0 /\ tail = 0 /\ count = 0 /\ buf = Empty
  /\ waiters = <<>>
  /\ cpu = Idle /\ running = Task
  /\ pc = [t \in Task |-> "out"]
  /\ want = Zero /\ counter = Zero /\ loaded = Zero
  /\ typed = 0 /\ got = <<>> /\ struck = {}
  /\ shared = FALSE /\ early = FALSE

-----------------------------------------------------------------------------
\* An interrupt's return gives the CPU to any task that wants it: see
\* Scheduler.  A task that has marked itself is not one of them.
Switch ==
  /\ cpu' \in (running \cup {Idle}) \ {cpu}
  /\ UNCHANGED <<ring, waiters, running, pc, locals, typed, got, struck,
                 shared, early>>

\* wakeup(&keyboard_wait_queue, TASK_UNINTERRUPTIBLE)
Wakeup ==
  IF waiters # <<>> /\ Head(waiters) \notin running
  THEN /\ waiters' = Tail(waiters)
       /\ running' = running \cup {Head(waiters)}
       /\ early' = (early \/ Head(waiters) = cpu)
  ELSE UNCHANGED <<waiters, running, early>>

\* Where the interrupt meets the task on the CPU, and those it had before.
Met == {pc[t] : t \in running \cup ({cpu} \ {Idle})}

\* Mutant: the handler wakes nobody.
KeySilent ==
  LET at == head % Size
  IN  /\ typed < MaxTyped
      /\ typed' = typed + 1
      /\ buf' = [buf EXCEPT ![at] = typed']
      /\ head' = at + 1
      /\ count' = count + 1
      /\ struck' = struck \cup Met
      /\ UNCHANGED <<tail, waiters, running, cpu, pc, locals, got, shared, early>>

\* keyboard_handler.  Nothing keeps it from overwriting unread codes.
Key ==
  LET at == IF head = Size THEN 0 ELSE head
  IN  /\ typed < MaxTyped
      /\ typed' = typed + 1
      /\ buf' = [buf EXCEPT ![at] = typed']
      /\ head' = at + 1
      /\ count' = count + 1
      /\ Wakeup
      /\ struck' = struck \cup Met
      /\ UNCHANGED <<tail, cpu, pc, locals, got, shared>>

-----------------------------------------------------------------------------
\* A step of task t in the driver.  Tasks that sleep are not in the way.
Step(t, from, to) ==
  /\ cpu = t
  /\ pc[t] = from
  /\ pc' = [pc EXCEPT ![t] = to]
  /\ shared' = (shared \/ \E u \in running \ {t} : pc[u] # "out")

\* keyboard.c:139
Read(t) ==
  /\ Step(t, "out", IF count = 0 THEN "mark" ELSE "compare")
  /\ \E n \in Wants : want' = [want EXCEPT ![t] = n]
  /\ UNCHANGED <<ring, waiters, cpu, running, counter, loaded, typed, got,
                 struck, early>>

\* sleep_on
Mark(t) ==
  /\ Step(t, "mark", "list")
  /\ running' = running \ {t}
  /\ UNCHANGED <<ring, waiters, cpu, locals, typed, got, struck, early>>

Enlist(t) ==
  /\ Step(t, "list", "sched")
  /\ waiters' = Append(waiters, t)
  /\ UNCHANGED <<ring, cpu, running, locals, typed, got, struck, early>>

Sleep(t) ==
  /\ Step(t, "sched", "compare")
  /\ cpu' \in running \cup {Idle}
  /\ UNCHANGED <<ring, waiters, running, locals, typed, got, struck, early>>

\* keyboard.c:143 compares as unsigned, so that a negative count is enough.
Enough(t) == count < 0 \/ count >= want[t]

Compare(t) ==
  /\ Step(t, "compare", IF Enough(t) THEN "copy" ELSE "take")
  /\ counter' = [counter EXCEPT ![t] = IF Enough(t) THEN want[t] ELSE 0]
  /\ UNCHANGED <<ring, waiters, cpu, running, want, loaded, typed, got, struck,
                 early>>

\* The same line reads the count a second time.
Take(t) ==
  /\ Step(t, "take", "copy")
  /\ counter' = [counter EXCEPT ![t] = count]
  /\ UNCHANGED <<ring, waiters, cpu, running, want, loaded, typed, got, struck,
                 early>>

\* The byte at an offset of buf; 0 is any byte that no code since the reset is.
Cell(i) == IF i \in DOMAIN buf THEN buf[i] ELSE 0

\* The codes in the ring from tail on, as far as the end of buf.
Room == Size - tail

\* keyboard.c:146, 153, 154.  The part copied from the head goes to the start
\* of the reader's buffer, over the first part.  A tail beyond the end of buf
\* makes the length of the first copy negative, and the copy faults.
Copy(t) ==
  \/ /\ counter[t] <= Room
     /\ Step(t, "copy", "move")
     /\ got' = got \o [i \in 1 .. counter[t] |-> Cell(tail + i - 1)]
     /\ UNCHANGED <<ring, waiters, cpu, running, locals, typed, struck, early>>
  \/ /\ counter[t] > Room /\ Room >= 0
     /\ Step(t, "copy", "move")
     /\ got' = got \o [i \in 1 .. counter[t] |->
                         IF i <= counter[t] - Room THEN Cell(head + i - 1)
                         ELSE IF i <= Room THEN Cell(tail + i - 1) ELSE 0]
     /\ UNCHANGED <<ring, waiters, cpu, running, locals, typed, struck, early>>
  \/ /\ counter[t] > Room /\ Room < 0
     /\ Step(t, "copy", "fault")
     /\ UNCHANGED <<ring, waiters, cpu, running, locals, typed, got, struck,
                    early>>

\* keyboard.c:149 and 155, where the head may have moved on.
Move(t) ==
  /\ Step(t, "move", "load")
  /\ tail' = IF counter[t] <= Room THEN tail + counter[t]
             ELSE head + counter[t] - Room
  /\ UNCHANGED <<head, count, buf, waiters, cpu, running, locals, typed, got,
                 struck, early>>

\* keyboard.c:157
Load(t) ==
  /\ Step(t, "load", "store")
  /\ loaded' = [loaded EXCEPT ![t] = count]
  /\ UNCHANGED <<ring, waiters, cpu, running, want, counter, typed, got,
                 struck, early>>

\* Mutant: the count falls by the number asked for.
StoreWant(t) ==
  /\ Step(t, "store", "out")
  /\ count' = loaded[t] - want[t]
  /\ want' = Zero /\ counter' = Zero /\ loaded' = Zero
  /\ UNCHANGED <<head, tail, buf, waiters, cpu, running, typed, got, struck,
                 early>>

\* The locals of a call end with it.
Store(t) ==
  /\ Step(t, "store", "out")
  /\ count' = loaded[t] - counter[t]
  /\ want' = [want EXCEPT ![t] = 0]
  /\ counter' = [counter EXCEPT ![t] = 0]
  /\ loaded' = [loaded EXCEPT ![t] = 0]
  /\ UNCHANGED <<head, tail, buf, waiters, cpu, running, typed, got, struck,
                 early>>

\* keyboard_open, keyboard_close, and keyboard_ioctl with KEY_CMD_RESET_BUFFER:
\* four statements, with interrupts on.
ResetHead(t) ==
  /\ Step(t, "out", "tail")
  /\ head' = 0
  /\ typed' = 0 /\ got' = <<>> /\ struck' = {}
  /\ UNCHANGED <<tail, count, buf, waiters, cpu, running, locals, early>>

ResetTail(t) ==
  /\ Step(t, "tail", "count")
  /\ tail' = 0
  /\ UNCHANGED <<head, count, buf, waiters, cpu, running, locals, typed, got,
                 struck, early>>

ResetCount(t) ==
  /\ Step(t, "count", "clear")
  /\ count' = 0
  /\ UNCHANGED <<head, tail, buf, waiters, cpu, running, locals, typed, got,
                 struck, early>>

ResetBuf(t) ==
  /\ Step(t, "clear", "out")
  /\ buf' = Empty
  /\ UNCHANGED <<head, tail, count, waiters, cpu, running, locals, typed, got,
                 struck, early>>

Reading(t) == \/ Mark(t) \/ Enlist(t) \/ Sleep(t) \/ Compare(t) \/ Take(t)
              \/ Copy(t) \/ Move(t) \/ Load(t) \/ Store(t)
Reset(t) == ResetTail(t) \/ ResetCount(t) \/ ResetBuf(t)

Next == \/ Switch \/ Key
        \/ \E t \in Task : Read(t) \/ Reading(t) \/ ResetHead(t) \/ Reset(t)
Spec == Init /\ [][Next]_vars

\* The scheduler gives the CPU to every ready task again and again, because the
\* vruntime of those that run grows (see FairScheduler), and a task that has
\* the shell's loop around its reads calls again.
Fairness == \A t \in Task : /\ SF_vars(Switch /\ cpu' = t)
                            /\ SF_vars(Read(t) \/ Reading(t) \/ Reset(t))
LiveSpec == Spec /\ Fairness

-----------------------------------------------------------------------------
\* One task at a time is inside the driver, sleepers aside, and nobody was
\* woken before it slept.  The model goes no further than the first step that
\* ends this.
Calm == ~shared /\ ~early

Quiet == \A t \in running : pc[t] = "out"

\* The codes reach the readers once each and in the order they were typed
\* (keyboard.c:40, 148), until Size codes have been typed after the last reset,
\* provided none was typed in the middle of that reset.
KeysInOrder ==
  Calm /\ typed <= Size /\ struck \cap Resetting = {} =>
    Len(got) <= typed /\ \A i \in DOMAIN got : got[i] = i

\* Between calls, count is the number of codes not read yet, unless one was
\* typed between the load and the store of keyboard.c:157 or in the middle of
\* a reset.
CountIsUnread ==
  Calm /\ Quiet /\ struck \cap (Resetting \cup {"store"}) = {} =>
    count = typed - Len(got)

\* No task sleeps while there are codes to read, unless one was typed after
\* that task looked (keyboard.c:139) and before it was listed
\* (waitqueue.c:16).
SleepsOnlyWhenEmpty ==
  Calm /\ Quiet /\ waiters # <<>> /\ struck \cap {"mark", "list"} = {} =>
    count <= 0

\* A reader gets no more codes than it has room for, unless codes were typed
\* between the two loads of keyboard.c:143.
BufferFits ==
  Calm /\ "take" \notin struck =>
    \A t \in Task : counter[t] <= want[t]

\* The ring between the handler and any one reader at a time: order, count, room, and
\* no sleeper beside a code (keyboard.c:40, 139, 143, 157).
RingSound ==
  TypeOK /\ KeysInOrder /\ CountIsUnread /\ SleepsOnlyWhenEmpty /\ BufferFits

\* A tick has taken the CPU from a task between the two lines of sleep_on that
\* mark it and list it: nobody will find it.
Stranded == \E t \in Task \ (running \cup {cpu}) : pc[t] = "list"

\* Every code is read, as long as the codes keep to the ring's size, meet no
\* reader in one of the places named above, and no reader is stranded.
EveryCodeRead ==
  typed > Len(got) ~>
    \/ typed = Len(got)
    \/ ~Calm \/ Stranded \/ typed > Size
    \/ struck \cap ({"mark", "list", "store"} \cup Resetting) # {}
=============================================================================
