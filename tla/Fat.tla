-------------------------------- MODULE Fat ---------------------------------
(***************************************************************************)
(* The files of the FAT32 driver, fat32.c: FAT32_read, FAT32_write and     *)
(* FAT32_lseek on open files, with the file allocation table, the          *)
(* directory and the inodes in memory.  Each transfer of the disk puts the *)
(* task to sleep, so that every transfer is a step and other tasks' calls  *)
(* come between any two.  The table and the directory are a sector and a   *)
(* cluster long; the contents of the files are left out, where they are    *)
(* written is not.  A call's answer is left out too.                       *)
(***************************************************************************)
EXTENDS Integers, FiniteSets, FiniteSetsExt

CONSTANTS Task,      \* the tasks, each with one open file at a time
          File,      \* the names in the directory
          NoFile,    \* the closed descriptor's name
          Last,      \* the number of the last data cluster; the first is 2
          NumFATs,   \* the copies of the table
          Bytes,     \* bytes in a cluster
          Counts,    \* the counts of bytes that are read and written
          MaxSize,   \* bound: no file is written past this size
          MaxCalls   \* bound: the calls, all tasks together
ASSUME FatAssumption ==
  /\ NoFile \notin File
  /\ Last \in Nat /\ Last >= 3 /\ NumFATs \in Nat \ {0} /\ Bytes \in Nat \ {0}
  /\ Counts \subseteq Nat \ {0} /\ MaxSize \in Nat /\ MaxCalls \in Nat

VARIABLES
  table,      \* the copies of the file allocation table
  directory,  \* size and first cluster of each file, on the disk
  handle,     \* each task's open file: its struct file and its own inode
  call,       \* each task's call
  calls,      \* how many calls there have been
  struck      \* history: what has come over the file system
vars == <<table, directory, handle, call, calls, struck>>

Cluster == 2 .. Last
Eoc == Last + 1                 \* 0x0ffffff8 and above
Entry == Cluster \cup {0, Eoc}  \* 0 is a free cluster, and no cluster at all
Copy == 1 .. NumFATs
Table == [Cluster -> Entry]
Directory == [File -> [size : Nat, first : Entry]]

Handles == [file : File \cup {NoFile}, mode : {"plain", "trunc"},
            size : Nat, first : Entry, position : Nat]
Closed == [file |-> NoFile, mode |-> "plain", size |-> 0, first |-> 0, position |-> 0]

\* Before the transfer of: the table, on the way to the position, in the search
\* for a free cluster, for the next cluster and in writefatentry; the directory
\* in write_inode; the data.  In a copy of a negative length there is no more.
Places == {"out", "walk", "find", "next", "readTable", "writeTable",
           "readDirectory", "writeDirectory", "load", "store", "overrun"}

\* A call's place, what it is and what an allocation is for, its local variables:
\* what is left to do, the clusters, flags, the sector (0, or a cluster's), how far
\* to walk, and what it has read of the table and of the directory.
Calls == [at : Places, op : {"read", "write"}, for : {"first", "append", "size"},
          left : Int, cluster : Entry, next : Entry, flags : BOOLEAN,
          sector : Entry, steps : Nat, copy : 0 .. NumFATs,
          table : Table, directory : Directory]
NoTable == [c \in Cluster |-> 0]
NoDirectory == [f \in File |-> [size |-> 0, first |-> 0]]
None == [at |-> "out", op |-> "read", for |-> "size", left |-> 0, cluster |-> 0,
         next |-> 0, flags |-> FALSE, sector |-> 0, steps |-> 0, copy |-> 0,
         table |-> NoTable, directory |-> NoDirectory]

TypeOK ==
  /\ table \in [Copy -> Table]
  /\ directory \in Directory
  /\ handle \in [Task -> Handles]
  /\ call \in [Task -> Calls]
  /\ calls \in 0 .. MaxCalls
  /\ struck \subseteq {"table", "directory", "twice", "full", "edge", "torn"}

\* A disk with one file of two clusters; the other files are empty.
Init ==
  /\ \E f \in File :
       directory = [NoDirectory EXCEPT ![f] = [size |-> 2 * Bytes, first |-> 2]]
  /\ table = [i \in Copy |-> [NoTable EXCEPT ![2] = 3, ![3] = Eoc]]
  /\ handle = [t \in Task |-> Closed]
  /\ call = [t \in Task |-> None]
  /\ calls = 0 /\ struck = {}

-----------------------------------------------------------------------------
\* Where two calls may not be at once: from the search for a free cluster to the
\* end of writefatentry, and between the read and the write of write_inode.
Allocates(c) == \/ c.at \in {"readTable", "writeTable"}
                \/ c.at \in {"readDirectory", "writeDirectory"} /\ c.for = "first"
UpdatesDirectory(c) == c.at = "writeDirectory"

Raced(calls1) ==
  {w \in {"table", "directory"} : \E t, u \in Task : t # u /\
     IF w = "table" THEN Allocates(calls1[t]) /\ Allocates(calls1[u])
                    ELSE UpdatesDirectory(calls1[t]) /\ UpdatesDirectory(calls1[u])}

\* Task t's call goes from a place to what it is afterwards.
Step(t, from, after) ==
  /\ call[t].at = from
  /\ call' = [call EXCEPT ![t] = after]
  /\ struck' = struck \cup Raced(call')

Idle(t) == call[t].at = "out" /\ calls < MaxCalls /\ calls' = calls + 1
IsOpen(t) == handle[t].file # NoFile

\* What readfatentry finds for cluster c: behind the end of the table, anything.
NextOf(c) == IF c \in Cluster THEN {table[1][c]}
             ELSE IF c = Eoc THEN Entry ELSE {Eoc}

Smaller(a, b) == IF a <= b THEN a ELSE b

\* sys_open after the path has been found: each open file has an inode of its
\* own, and O_TRUNC and O_APPEND look at nothing else.
Open(t) ==
  /\ Idle(t) /\ ~IsOpen(t)
  /\ \E f \in File, mode \in {"plain", "trunc"}, append \in BOOLEAN :
       LET size == IF mode = "trunc" THEN 0 ELSE directory[f].size
       IN  /\ handle' = [handle EXCEPT ![t] =
                [file |-> f, mode |-> mode, size |-> size,
                 first |-> directory[f].first,
                 position |-> IF append THEN size ELSE 0]]
           /\ struck' = struck \cup
                (IF \E u \in Task : handle[u].file = f THEN {"twice"} ELSE {})
  /\ UNCHANGED <<table, directory, call>>

\* FAT32_close does nothing; the struct file is freed.
Close(t) ==
  /\ Idle(t) /\ IsOpen(t)
  /\ handle' = [handle EXCEPT ![t] = Closed]
  /\ UNCHANGED <<table, directory, call, struck>>

\* FAT32_lseek: every position that is not refused.
Seek(t) ==
  /\ Idle(t) /\ IsOpen(t)
  /\ \E pos \in 0 .. handle[t].size :
       handle' = [handle EXCEPT ![t].position = pos]
  /\ UNCHANGED <<table, directory, call, struck>>

Index(t) == handle[t].position \div Bytes
Offset(t) == handle[t].position % Bytes

\* FAT32_read of a file that has a first cluster: the count ends with the file.
Read(t) ==
  /\ Idle(t) /\ IsOpen(t) /\ handle[t].first # 0
  /\ \E count \in Counts :
       Step(t, "out", [None EXCEPT
         !.at = IF Index(t) > 0 THEN "walk" ELSE "load",
         !.left = Smaller(count, handle[t].size - handle[t].position),
         !.cluster = handle[t].first, !.steps = Index(t)])
  /\ UNCHANGED <<table, directory, handle>>

Write(t) ==
  /\ Idle(t) /\ IsOpen(t)
  /\ \E count \in Counts :
       /\ handle[t].position + count <= MaxSize
       /\ Step(t, "out", [None EXCEPT
            !.op = "write", !.left = count, !.cluster = handle[t].first,
            !.at = IF handle[t].first = 0 THEN "find"
                   ELSE IF Index(t) > 0 THEN "walk" ELSE "load",
            !.for = IF handle[t].first = 0 THEN "first" ELSE "size",
            !.flags = handle[t].first = 0,
            !.steps = IF handle[t].first = 0 THEN 0 ELSE Index(t)])
  /\ UNCHANGED <<table, directory, handle>>

-----------------------------------------------------------------------------
\* Mutant: the walk ends one cluster early.
ArrivedEarly(t) == call[t].steps <= 2

Arrived(t) == call[t].steps = 1

\* The cluster of the position: the write that walks off the end of the chain
\* goes on behind the table and the data.
Walk(t) ==
  /\ call[t].at = "walk"
  /\ \E c \in NextOf(call[t].cluster) :
       LET writes == call[t].op = "write"
       IN  /\ call' = [call EXCEPT ![t] =
                IF Arrived(t) /\ writes /\ c = 0 THEN None     \* -ENOSPC
                ELSE [call[t] EXCEPT !.cluster = c, !.steps = @ - 1,
                                     !.at = IF Arrived(t) THEN "load" ELSE "walk"]]
           /\ struck' = struck \cup (IF writes /\ c = Eoc THEN {"edge"} ELSE {})
  /\ UNCHANGED <<table, directory, handle, calls>>

\* FAT32_find_available_cluster takes the first of these.
Free == {c \in Cluster : table[1][c] = 0}
Available(c) == c \in Free /\ \A d \in Free : c <= d

\* For a file without clusters.
FindFirst(t) ==
  /\ call[t].for = "first"
  /\ \E c \in Cluster :
       /\ Available(c)
       /\ handle' = [handle EXCEPT ![t].first = c]
       /\ Step(t, "find", [call[t] EXCEPT !.at = "readDirectory", !.cluster = c])
  /\ UNCHANGED <<table, directory, calls>>

\* For a cluster behind the last one.
FindNext(t) ==
  /\ call[t].for = "append"
  /\ \E c \in Cluster :
       /\ Available(c)
       /\ Step(t, "find", [call[t] EXCEPT !.at = "readTable", !.next = c])
  /\ UNCHANGED <<table, directory, handle, calls>>

\* -ENOSPC, whatever has been written: the size in the inode stays.
NoSpace(t) ==
  /\ call[t].at = "find"
  /\ Free = {}
  /\ call' = [call EXCEPT ![t] = None]
  /\ struck' = struck \cup {"full"}
  /\ UNCHANGED <<table, directory, handle, calls>>

\* writefatentry reads the sector of the entry and changes it: the entry of the
\* last cluster, and then that of the cluster behind it; of a first cluster only that.
ReadTable(t) ==
  /\ LET links == call[t].for = "append"
         entry == call[t].cluster
         new == IF links THEN call[t].next ELSE Eoc
     IN  Step(t, "readTable", [call[t] EXCEPT !.at = "writeTable", !.copy = 1,
                !.table = IF entry \in Cluster THEN [table[1] EXCEPT ![entry] = new]
                                               ELSE table[1]])
  /\ UNCHANGED <<table, directory, handle, calls>>

MoreCopies(c) == c.copy < NumFATs

CopyWritten(c) == {c.copy}

\* After the entry of the last cluster comes that of the next; after that, flags
\* sends the loop on to the sector it had last, which is 0 when there was none.
AfterEntry(c) ==
  IF c.for = "append"
  THEN [c EXCEPT !.at = "readTable", !.for = "first", !.copy = 0,
                 !.cluster = c.next, !.next = 0, !.table = NoTable]
  ELSE [c EXCEPT !.at = "store", !.for = "size", !.copy = 0,
                 !.flags = TRUE, !.table = NoTable]

\* One copy of the table after the other.
WriteTable(t) ==
  /\ table' = [i \in Copy |-> IF i \in CopyWritten(call[t]) THEN call[t].table
                                                         ELSE table[i]]
  /\ Step(t, "writeTable", IF MoreCopies(call[t])
                           THEN [call[t] EXCEPT !.copy = @ + 1]
                           ELSE AfterEntry(call[t]))
  /\ UNCHANGED <<directory, handle, calls>>

\* Mutant: the entry keeps the first cluster that it had.
EntryOldFirst(t) ==
  [size |-> handle[t].size, first |-> directory[handle[t].file].first]

EntryOf(t) == [size |-> handle[t].size, first |-> handle[t].first]

\* fat32_write_inode: the cluster of the directory, with this file's entry changed.
ReadDirectory(t) ==
  /\ Step(t, "readDirectory",
       [call[t] EXCEPT !.at = "writeDirectory",
          !.directory = [directory EXCEPT ![handle[t].file] = EntryOf(t)]])
  /\ UNCHANGED <<table, directory, handle, calls>>

\* The inode of a first cluster is written before the table knows of it.
WriteDirectory(t) ==
  /\ directory' = call[t].directory
  /\ Step(t, "writeDirectory",
       IF call[t].for = "first"
       THEN [call[t] EXCEPT !.at = "readTable", !.directory = NoDirectory]
       ELSE None)
  /\ UNCHANGED <<table, handle, calls>>

Length(t) == Smaller(call[t].left, Bytes - Offset(t))

\* A cluster is read and copied to the caller.
Load(t) ==
  /\ call[t].op = "read" /\ call[t].left >= 0
  /\ LET left == call[t].left - Length(t)
     IN  Step(t, "load", IF left = 0 THEN None
                         ELSE [call[t] EXCEPT !.at = "next", !.left = left])
  /\ handle' = [handle EXCEPT ![t].position = @ + Length(t)]
  /\ UNCHANGED <<table, directory, calls>>

\* The copy of a negative length runs on through the memory.
Overrun(t) ==
  /\ call[t].left < 0
  /\ Step(t, "load", [call[t] EXCEPT !.at = "overrun"])
  /\ UNCHANGED <<table, directory, handle, calls>>

\* Mutant: the first cluster has the number 1.
SectorFromOne(c) == c + 1

\* The sector of a cluster is named by the cluster.
SectorOf(c) == c

\* FAT32_write reads the cluster that it changes.
LoadForWrite(t) ==
  /\ call[t].op = "write"
  /\ Step(t, "load", [call[t] EXCEPT !.at = "store", !.sector = SectorOf(call[t].cluster)])
  /\ UNCHANGED <<table, directory, handle, calls>>

Grown(t) == handle[t].position + Length(t) > handle[t].size

\* Mutant: the inode is not written.
AfterWriteNone(t) == None

\* After the last round the inode goes to the directory if the file has grown.
AfterWrite(t) ==
  IF Grown(t) THEN [None EXCEPT !.at = "readDirectory", !.op = "write"] ELSE None

\* The write of the cluster; when all is written the inode's size follows.
Store(t) ==
  /\ LET left == call[t].left - Length(t)
         position == handle[t].position + Length(t)
     IN  /\ Step(t, "store",
              IF left > 0 THEN [call[t] EXCEPT !.at = "next", !.left = left]
              ELSE AfterWrite(t))
         /\ handle' = [handle EXCEPT
              ![t].position = position,
              ![t].size = IF left = 0 /\ Grown(t) THEN position ELSE @]
  /\ UNCHANGED <<table, directory, calls>>

\* FAT32_read goes on to the next cluster.
NextToRead(t) ==
  /\ call[t].op = "read"
  /\ \E c \in NextOf(call[t].cluster) :
       Step(t, "next", IF c = 0 THEN None
                       ELSE [call[t] EXCEPT !.at = "load", !.cluster = c])
  /\ UNCHANGED <<table, directory, handle, calls>>

\* FAT32_write only looks whether there is a next cluster: if so it goes on with
\* the one that it has.
NextToWrite(t) ==
  /\ call[t].op = "write"
  /\ \E c \in NextOf(call[t].cluster) :
       Step(t, "next", IF c = Eoc
                       THEN [call[t] EXCEPT !.at = "find", !.for = "append"]
                       ELSE [call[t] EXCEPT
                               !.at = IF call[t].flags THEN "store" ELSE "load"])
  /\ UNCHANGED <<table, directory, handle, calls>>

\* The machine stops, at any step; what is on the disk stays.
Reset ==
  /\ calls < MaxCalls /\ calls' = calls + 1
  /\ handle' = [t \in Task |-> Closed]
  /\ call' = [t \in Task |-> None]
  /\ struck' = struck \cup (IF \E t \in Task : Allocates(call[t]) THEN {"torn"} ELSE {})
  /\ UNCHANGED <<table, directory>>

TaskStep(t) ==
  \/ Open(t) \/ Close(t) \/ Seek(t) \/ Read(t) \/ Write(t)
  \/ Walk(t) \/ FindFirst(t) \/ FindNext(t) \/ NoSpace(t)
  \/ ReadTable(t) \/ WriteTable(t) \/ ReadDirectory(t) \/ WriteDirectory(t)
  \/ Load(t) \/ Overrun(t) \/ LoadForWrite(t) \/ Store(t)
  \/ NextToRead(t) \/ NextToWrite(t)
Next == Reset \/ \E t \in Task : TaskStep(t)
Spec == Init /\ [][Next]_vars

-----------------------------------------------------------------------------
Quiet == \A t \in Task : call[t].at = "out"

\* None of these has happened: two calls between the search for a free cluster
\* and the end of writefatentry ("table"), or inside write_inode ("directory"); a
\* file that two tasks have open ("twice"); a full disk ("full"); a write that
\* walked off the end of its chain ("edge"); a machine stopped while a cluster
\* was being allocated ("torn").
Spared(what) == struck \cap what = {}

\* The clusters of a chain, from the first on.
Nth(first, n) ==
  LET c[i \in 0 .. n] == IF i = 0 THEN first
                         ELSE IF c[i - 1] \in Cluster THEN table[1][c[i - 1]] ELSE 0
  IN  c[n]
Chain(first) == {Nth(first, i) : i \in 0 .. Last} \cap Cluster

\* No cluster is in the chains of two files, unless two tasks searched for a
\* free one at once (fat32.c:106), a write linked a cluster behind the end of
\* the table, or the machine stopped before the last entry was written.  Neither
\* stale inodes nor lost directory entries nor a full disk do it.
ChainsApart ==
  Spared({"table", "edge", "torn"}) =>
    \A f, g \in File : f # g =>
      Chain(directory[f].first) \cap Chain(directory[g].first) = {}

\* Between calls every chain ends: FAT32_write's entries (fat32.c:224) leave
\* neither a circle nor a chain into free clusters.
ChainsEnd ==
  Quiet /\ Spared({"table", "edge", "torn"}) =>
    \A f \in File : directory[f].first # 0 =>
      \E c \in Chain(directory[f].first) : table[1][c] = Eoc

\* Between calls every cluster that is not free is some file's; the second inode
\* of a file (fat32.c:559) and a lost directory entry do cost clusters.
NothingLost ==
  Quiet /\ Spared({"table", "directory", "twice", "edge", "torn"}) =>
    \A c \in Cluster : table[1][c] # 0 =>
      \E f \in File : c \in Chain(directory[f].first)

\* The chains of the files are apart, have ends, and are all there is (fat32.c:106,
\* 224, 559).
ChainsSound == ChainsApart /\ ChainsEnd /\ NothingLost

\* The copies of the table agree whenever no task is writing them (fat32.c:25).
CopiesAgree ==
  Spared({"table", "torn"}) /\ (\A t \in Task : call[t].at # "writeTable") =>
    \A i \in Copy : table[i] = table[1]

\* After each call the directory has what the task's inode has, unless O_TRUNC
\* set the inode's size, another task has the file open, or two tasks were inside
\* write_inode (fat32.c:628) at once.
SizeOnDisk ==
  Spared({"directory", "twice"}) =>
    \A t \in Task :
      call[t].at = "out" /\ IsOpen(t) /\ handle[t].mode = "plain" =>
        directory[handle[t].file] = [size |-> handle[t].size, first |-> handle[t].first]

\* No position is behind the end of its file and no length is negative, unless a
\* write ran out of space: that one (fat32.c:221) leaves a position behind the
\* end, and the next read copies a negative length.
WithinFile ==
  Spared({"full"}) =>
    \A t \in Task : /\ call[t].left >= 0
                     /\ call[t].at = "out" => handle[t].position <= handle[t].size

\* The disk has what the tasks work with: one table, the inodes' sizes and clusters,
\* and positions inside their files (fat32.c:25, 221, 628).
DiskAgrees == TypeOK /\ CopiesAgree /\ SizeOnDisk /\ WithinFile

\* A write never touches a cluster of another file, whatever sector it has kept
\* from the round before (fat32.c:173) and however stale its inode is.  It goes to
\* the file's own chain, or to the start of the disk when it gave the file its
\* first cluster, unless another task's append has unlinked what it walked on.
OthersSpared ==
  [][\A t \in Task :
       Store(t) /\ Spared({"table", "edge", "torn"}) =>
         /\ Spared({"twice"}) => call[t].sector \in {0} \cup Chain(handle[t].first)
         /\ \A g \in File \ {handle[t].file} :
              call[t].sector \notin Chain(directory[g].first)]_vars

\* A write that begins inside a cluster goes to the cluster of its position, by
\* the walk of fat32.c:151.
RightPlace ==
  [][\A t \in Task :
       Store(t) /\ ~call[t].flags /\ Offset(t) # 0 /\
       Spared({"table", "twice", "edge", "torn"}) =>
         call[t].sector = Nth(handle[t].first, Index(t))]_vars
=============================================================================
