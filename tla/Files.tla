------------------------------- MODULE Files --------------------------------
(***************************************************************************)
(* Open files: the descriptors of each task and the struct files behind    *)
(* them, over the system calls of sys.c and over fork and vfork (task.c).  *)
(* A lookup and the transfers of a read or a write put the task to sleep,  *)
(* so that each of these calls has two steps with the other tasks' calls   *)
(* between them, and a fork makes its copies one by one.  Struct files are *)
(* objects of kmalloc: a freed one keeps its contents until it is given to *)
(* somebody else.                                                          *)
(***************************************************************************)
EXTENDS Integers, FiniteSets

CONSTANTS Task,       \* the tasks that there may be
          FirstTask,  \* the one that there is in the beginning
          Name,       \* what a descriptor is opened for: the files and the keyboard
          Keyboard,   \* the keyboard, whatever file it is opened by
          Fds,        \* TASK_FILE_MAX: descriptors are 0 .. Fds - 1
          Slots,      \* the objects of the slab of struct files
          MaxPosition \* bound: the positions
ASSUME FilesAssumption ==
  /\ FirstTask \in Task /\ Keyboard \in Name
  /\ Fds \in Nat \ {0} /\ Slots \in Nat \ {0} /\ MaxPosition \in Nat

VARIABLES
  live,      \* the tasks that there are
  table,     \* filestruct of each task: 0 is NULL
  used,      \* the slots that are allocated
  file,      \* the struct file in each slot
  call,      \* each task's call
  child,     \* the task that each one's fork is making; itself when none is
  opened,    \* history: the file each descriptor was opened for
  shared     \* history: the slots vfork has left to two tasks
vars == <<live, table, used, file, call, child, opened, shared>>
history == <<opened, shared>>

Fd == 0 .. Fds - 1
Slot == 1 .. Slots
Struct == [name : Name, position : 0 .. MaxPosition]
Calls == [at : {"out", "walk", "io", "copy", "fault"}, slot : 0 .. Slots]
None == [at |-> "out", slot |-> 0]

TypeOK ==
  /\ live \subseteq Task
  /\ table \in [Task -> [Fd -> 0 .. Slots]]
  /\ used \subseteq Slot
  /\ file \in [Slot -> Struct]
  /\ call \in [Task -> Calls]
  /\ child \in [Task -> Task]
  /\ opened \in [Task -> [Fd -> Name]]
  /\ shared \subseteq Slot

Init ==
  /\ live = {FirstTask}
  /\ table = [t \in Task |-> [fd \in Fd |-> 0]]
  /\ used = {}
  /\ file = [s \in Slot |-> [name |-> Keyboard, position |-> 0]]
  /\ opened = [t \in Task |-> [fd \in Fd |-> Keyboard]]
  /\ call = [t \in Task |-> None]
  /\ child = [t \in Task |-> t]
  /\ shared = {}

-----------------------------------------------------------------------------
Has(t, s) == \E fd \in Fd : table[t][fd] = s

\* The tasks that there are and those in the making.
Holders == live \cup {child[t] : t \in live}
Idle(t) == t \in live /\ call[t].at = "out"

\* kmalloc gives the first free slot and kfree flips the slot's bit.
IsNext(s) == s \in Slot \ used /\ \A r \in Slot \ used : s <= r
Flipped(s) == IF s \in used THEN used \ {s} ELSE used \cup {s}

\* A task follows a NULL pointer: do_page_fault keeps it for good.
Fault(t) ==
  /\ call' = [call EXCEPT ![t] = [at |-> "fault", slot |-> 0]]
  /\ UNCHANGED <<live, table, used, file, child, history>>

\* sys_open and sys_device_openkeyboard look the name up first.
OpenBegin(t) ==
  /\ Idle(t)
  /\ call' = [call EXCEPT ![t] = [at |-> "walk", slot |-> 0]]
  /\ UNCHANGED <<live, table, used, file, child, history>>

\* The name is not there, or is a directory.
OpenFails(t) ==
  /\ call[t].at = "walk"
  /\ call' = [call EXCEPT ![t] = None]
  /\ UNCHANGED <<live, table, used, file, child, history>>

\* What is allocated after the open: without a descriptor the struct file is freed.
UsedAfter(t, s) ==
  IF \A fd \in Fd : table[t][fd] # 0 THEN used ELSE used \cup {s}

\* Otherwise a struct file is made and gets the first free descriptor, O_APPEND
\* with its position at the end; without a free one the call fails with EMFILE.
OpenEnd(t) ==
  /\ call[t].at = "walk"
  /\ call' = [call EXCEPT ![t] = None]
  /\ LET free == {fd \in Fd : table[t][fd] = 0}
     IN  \E s \in Slot, n \in Name, pos \in {0, MaxPosition} :
           /\ IsNext(s)
           /\ used' = UsedAfter(t, s)
           /\ file' = [file EXCEPT ![s] = [name |-> n, position |-> pos]]
           /\ IF free = {} THEN UNCHANGED <<table, opened>>
              ELSE \E fd \in free :
                     /\ \A other \in free : fd <= other
                     /\ table' = [table EXCEPT ![t][fd] = s]
                     /\ opened' = [opened EXCEPT ![t][fd] = n]
  /\ UNCHANGED <<live, child, shared>>

\* There is no memory for a struct file, and memset follows the NULL pointer.
OpenFaults(t) == call[t].at = "walk" /\ used = Slot /\ Fault(t)

\* sys_close frees the struct file, whoever else has it.
Close(t) ==
  /\ Idle(t)
  /\ \E fd \in Fd :
       /\ table[t][fd] # 0
       /\ table' = [table EXCEPT ![t][fd] = 0]
       /\ opened' = [opened EXCEPT ![t][fd] = Keyboard]
       /\ used' = Flipped(table[t][fd])
  /\ UNCHANGED <<live, file, call, child, shared>>

\* sys_read and sys_write go to the disk or wait for a key with the struct file in
\* hand.
Transfer(t) ==
  /\ Idle(t)
  /\ \E fd \in Fd :
       /\ table[t][fd] # 0
       /\ call' = [call EXCEPT ![t] = [at |-> "io", slot |-> table[t][fd]]]
  /\ UNCHANGED <<live, table, used, file, child, history>>

\* What is then in the slot gets the new position; a device has none.
Transferred(t) ==
  /\ call[t].at = "io"
  /\ call' = [call EXCEPT ![t] = None]
  /\ LET f == file[call[t].slot]
     IN  \E pos \in f.position .. MaxPosition :
           file' = IF f.name = Keyboard THEN file
                   ELSE [file EXCEPT ![call[t].slot].position = pos]
  /\ UNCHANGED <<live, table, used, child, history>>

\* sys_lseek; a device has none.
Seek(t) ==
  /\ Idle(t)
  /\ \E fd \in Fd, pos \in 0 .. MaxPosition :
       /\ table[t][fd] # 0 /\ file[table[t][fd]].name # Keyboard
       /\ file' = [file EXCEPT ![table[t][fd]].position = pos]
  /\ UNCHANGED <<live, table, used, call, child, history>>

\* close, read, write and lseek of a descriptor that is not open.
Wrong(t) == Idle(t) /\ (\E fd \in Fd : table[t][fd] = 0) /\ Fault(t)

\* sys_vfork: the task_struct is copied with its pointers, and CLONE_FS leaves them.
Vfork(t) ==
  /\ Idle(t)
  /\ \E u \in Task \ Holders :
       /\ live' = live \cup {u}
       /\ table' = [table EXCEPT ![u] = table[t]]
       /\ opened' = [opened EXCEPT ![u] = opened[t]]
       /\ shared' = shared \cup ({table[t][fd] : fd \in Fd} \ {0})
  /\ UNCHANGED <<used, file, call, child>>

\* Mutant: fork leaves the child the parent's struct files.
ForkLeaves(t) ==
  /\ Idle(t)
  /\ \E u \in Task \ Holders :
       /\ live' = live \cup {u}
       /\ table' = [table EXCEPT ![u] = table[t]]
       /\ opened' = [opened EXCEPT ![u] = opened[t]]
  /\ UNCHANGED <<used, file, call, child, shared>>

\* sys_fork: a child, which nobody runs before do_fork is through.
Fork(t) ==
  /\ Idle(t)
  /\ call' = [call EXCEPT ![t] = [at |-> "copy", slot |-> 0]]
  /\ \E u \in Task \ Holders : child' = [child EXCEPT ![t] = u]
  /\ UNCHANGED <<live, table, used, file, history>>

\* The open descriptors of which the child has no copy yet.
ToCopy(t) == {fd \in Fd : table[t][fd] # 0 /\ table[child[t]][fd] = 0}

\* copy_file: the next open file gets a struct file of its own, of what is then in
\* the parent's.
CopyFile(t) ==
  /\ call[t].at = "copy"
  /\ \E fd \in ToCopy(t), s \in Slot :
       /\ \A other \in ToCopy(t) : fd <= other
       /\ IsNext(s)
       /\ table' = [table EXCEPT ![child[t]][fd] = s]
       /\ opened' = [opened EXCEPT ![child[t]][fd] = file[table[t][fd]].name]
       /\ used' = used \cup {s}
       /\ file' = [file EXCEPT ![s] = file[table[t][fd]]]
  /\ UNCHANGED <<live, call, child, shared>>

\* There is no memory for a copy, and memcpy follows the NULL pointer: the child never
\* runs, and the copies it has got stay allocated.
CopyFaults(t) == call[t].at = "copy" /\ ToCopy(t) # {} /\ used = Slot /\ Fault(t)

\* wakeup_process makes the child a task.
ForkEnd(t) ==
  /\ call[t].at = "copy" /\ ToCopy(t) = {}
  /\ live' = live \cup {child[t]}
  /\ child' = [child EXCEPT ![t] = t]
  /\ call' = [call EXCEPT ![t] = None]
  /\ UNCHANGED <<table, used, file, history>>

TaskStep(t) ==
  \/ OpenBegin(t) \/ OpenFails(t) \/ OpenEnd(t) \/ OpenFaults(t)
  \/ Close(t) \/ Transfer(t) \/ Transferred(t) \/ Seek(t) \/ Wrong(t)
  \/ Vfork(t) \/ Fork(t) \/ CopyFile(t) \/ CopyFaults(t) \/ ForkEnd(t)
Next == \E t \in Task : TaskStep(t)
Spec == Init /\ [][Next]_vars

-----------------------------------------------------------------------------
\* Closing a struct file that vfork has left to two tasks frees it under the other
\* one (sys.c:129).  The four invariants say that this trouble stays with these
\* struct files: every other one is as good as if there were no vfork.

\* A descriptor leads to a live struct file of what it was opened for, through any
\* number of forks, closes and reuses of the slots (sys.c:111, task.c:99).
DescriptorsMean ==
  \A t \in Holders, fd \in Fd :
    LET s == table[t][fd]
    IN  s \notin shared \cup {0} => s \in used /\ file[s].name = opened[t][fd]

\* The copies of a child that never runs, since there was no memory for the next one
\* (task.c:98).
Orphan(s) == \E t \in live : call[t].at = "fault" /\ child[t] # t /\ Has(child[t], s)

\* Nothing else is lost: the paths that fail free theirs (sys.c:108), and each struct
\* file that is allocated has a descriptor, of a task or of the child that a fork has
\* under way.
NoneLost ==
  \A s \in used \ shared :
    \/ \E t \in live : Has(t, s) \/ (call[t].at = "copy" /\ Has(child[t], s))
    \/ Orphan(s)

\* None has two descriptors: open, fork and the reuse of what close has freed give
\* each to one task, and a copy to the child alone while it is made (task.c:90).
OneDescriptor ==
  \A t, u \in Holders, a, b \in Fd :
    (table[t][a] = table[u][b] /\ <<t, a>> # <<u, b>>) =>
      table[t][a] \in shared \cup {0}

\* A call that has been asleep (sys.c:147) ends in the struct file it began with:
\* nobody has freed it, and the task has it open still.
SleepersSafe ==
  \A t \in live : call[t].at = "io" /\ call[t].slot \notin shared =>
    call[t].slot \in used /\ Has(t, call[t].slot)

\* A descriptor is the one way to a live struct file of what it was opened for, no
\* sleeper's is freed, and none is lost but the copies of a fork that finds no memory
\* for the next one; all this but for those vfork has left to two tasks (sys.c:111,
\* 129, task.c:90, 98).
DescriptorsSound ==
  TypeOK /\ DescriptorsMean /\ NoneLost /\ OneDescriptor /\ SleepersSafe
=============================================================================
