----------------------------- MODULE UserProofs -----------------------------
(***************************************************************************)
(* Proofs about what user programs work with.  For any number of tasks,    *)
(* descriptors and struct files: a descriptor is the one way to a live     *)
(* struct file of what it was opened for, but for those that vfork has     *)
(* left to two tasks.  And for any number of codes and characters: the     *)
(* shell reads the keyboard as it was typed, however far behind it is.     *)
(***************************************************************************)
EXTENDS MCUser, Sequences, TLAPS

\* What a call has in hand, and that only tasks that there are make calls.
CallsKept ==
  \A t \in Task : /\ call[t].at = "io" => call[t].slot \in Slot
                  /\ t \notin live => call[t].at = "out"

\* A fork makes one child, nobody else makes it, and it runs when the fork is through; no
\* other task has descriptors.
ChildrenKept ==
  /\ \A t \in Task : t \notin live => child[t] = t
  /\ \A t \in live : child[t] # t => child[t] \notin live /\ call[t].at \in {"copy", "fault"}
  /\ \A t \in live : call[t].at = "copy" => child[t] # t
  /\ \A t, u \in live : child[t] = child[u] => t = u
  /\ \A u \in Task \ Holders, fd \in Fd : table[u][fd] = 0

\* Every struct file that is allocated has a descriptor.
Held == \A s \in used \ shared : \E t \in Holders, fd \in Fd : table[t][fd] = s

FilesIInv ==
  TypeOK /\ DescriptorsMean /\ Held /\ OneDescriptor /\ SleepersSafe /\ CallsKept /\ ChildrenKept

\* That is more than what is claimed.
LEMMA FilesAreSound == FilesIInv => DescriptorsSound
<1> SUFFICES ASSUME FilesIInv PROVE NoneLost
  BY DEF FilesIInv, DescriptorsSound
<1> SUFFICES ASSUME NEW s \in used \ shared
             PROVE  \/ \E t \in live : Has(t, s) \/ (call[t].at = "copy" /\ Has(child[t], s))
                    \/ Orphan(s)
  BY DEF NoneLost
<1>1. PICK u \in Holders : Has(u, s)
  BY DEF FilesIInv, Held, Has
<1>2. CASE u \notin live
  <2>1. PICK t \in live : u = child[t]
    BY <1>2 DEF Holders
  <2>2. child[t] # t /\ call[t].at \in {"copy", "fault"}
    BY <1>2, <2>1 DEF FilesIInv, ChildrenKept
  <2> QED
    BY <1>1, <2>1, <2>2 DEF Orphan
<1> QED
  BY <1>1, <1>2

\* Who has descriptors is a task; and while no fork begins and none ends it is the same.
LEMMA HoldersAre ==
  ASSUME FilesIInv
  PROVE  live \subseteq Holders /\ Holders \subseteq Task
BY DEF FilesIInv, TypeOK, Holders
LEMMA HoldersStay == ASSUME UNCHANGED <<live, child>> PROVE Holders' = Holders
BY DEF Holders
-----------------------------------------------------------------------------
\* What there is in the beginning.
LEMMA FilesBegin == Init => FilesIInv
<1> SUFFICES ASSUME Init PROVE FilesIInv
  OBVIOUS
<1> USE FilesAssumption DEF Init
<1>1. 0 \in 0 .. Slots /\ 0 \in 0 .. MaxPosition
  OBVIOUS
<1>2. TypeOK
  <2>1. None \in Calls
    BY <1>1 DEF None, Calls
  <2>2. [name |-> Keyboard, position |-> 0] \in Struct
    BY <1>1 DEF Struct
  <2> QED
    BY <1>1, <2>1, <2>2 DEF TypeOK
<1>3. \A t \in Task : child[t] = t /\ call[t].at = "out"
  BY DEF None
<1>4. Holders \subseteq Task
  BY <1>3 DEF Holders
<1>5. DescriptorsMean /\ Held /\ OneDescriptor
  BY <1>4 DEF DescriptorsMean, Held, OneDescriptor
<1>6. SleepersSafe /\ CallsKept
  BY <1>3 DEF SleepersSafe, CallsKept
<1>7. ChildrenKept
  BY <1>3 DEF ChildrenKept
<1> QED
  BY <1>2, <1>5, <1>6, <1>7 DEF FilesIInv

\* A step of a call that leaves descriptors and struct files alone.
LEMMA CallKeeps ==
  ASSUME FilesIInv, NEW t \in live, NEW c \in Calls,
         call' = [call EXCEPT ![t] = c], UNCHANGED <<live, table, used, file, child, history>>,
         c.at = "io" => c.slot \in Slot /\ Has(t, c.slot),
         c.at # "copy", child[t] # t => c.at = "fault"
  PROVE  FilesIInv'
<1>1. TypeOK /\ t \in Task
  BY DEF FilesIInv, TypeOK
<1>2. \A u \in Task : call'[u] = IF u = t THEN c ELSE call[u]
  BY <1>1 DEF TypeOK
<1>3. TypeOK'
  BY DEF FilesIInv, TypeOK, history
<1>4. (DescriptorsMean /\ Held /\ OneDescriptor)'
  BY HoldersStay DEF FilesIInv, DescriptorsMean, Held, OneDescriptor, history
<1>5. SleepersSafe'
  <2> SUFFICES ASSUME NEW u \in live, call'[u].at = "io", call'[u].slot \notin shared
               PROVE  call'[u].slot \in used /\ Has(u, call'[u].slot)
    BY DEF SleepersSafe, Has, history
  <2>1. u \in Task
    BY <1>1 DEF TypeOK
  <2>2. CASE u = t
    <3>1. call'[u] = c
      BY <1>2, <2>1, <2>2
    <3>2. PICK fd \in Fd : table[t][fd] = c.slot
      BY <2>2, <3>1 DEF Has
    <3>3. c.slot \notin shared \cup {0}
      BY <2>2, <3>1, FilesAssumption DEF Slot
    <3>4. c.slot \in used
      BY <3>2, <3>3, HoldersAre DEF FilesIInv, DescriptorsMean
    <3> QED
      BY <2>2, <3>1, <3>4
  <2>3. CASE u # t
    <3>1. call'[u] = call[u]
      BY <1>2, <2>1, <2>3
    <3> QED
      BY <3>1 DEF FilesIInv, SleepersSafe
  <2> QED
    BY <2>2, <2>3
<1>6. CallsKept'
  BY <1>2 DEF FilesIInv, CallsKept
<1>7. ChildrenKept'
  <2>1. live \subseteq Task
    BY <1>1 DEF TypeOK
  <2> QED
    BY <1>2, <2>1, HoldersStay DEF FilesIInv, ChildrenKept
<1> QED
  BY <1>3, <1>4, <1>5, <1>6, <1>7 DEF FilesIInv

\* A task that is in a call is there.
LEMMA CallerLives ==
  ASSUME FilesIInv, NEW t \in Task, call[t].at # "out"
  PROVE  t \in live
BY DEF FilesIInv, CallsKept

\* A task that is not in a fork makes no child.
LEMMA MakesNone ==
  ASSUME FilesIInv, NEW t \in live, call[t].at \notin {"copy", "fault"}
  PROVE  child[t] = t
BY DEF FilesIInv, ChildrenKept

\* A page fault ends a task's calls.
LEMMA FaultKeeps ==
  ASSUME FilesIInv, NEW t \in live, Fault(t)
  PROVE  FilesIInv'
<1>1. PICK c : c = [at |-> "fault", slot |-> 0]
  OBVIOUS
<1>2. c \in Calls /\ c.at = "fault"
  BY <1>1, FilesAssumption DEF Calls
<1> QED
  BY <1>1, <1>2, CallKeeps DEF Fault

\* So it is when a call begins, when it fails and when it follows a NULL pointer.
LEMMA CallsKeep ==
  ASSUME FilesIInv, NEW t \in Task,
         \/ OpenBegin(t) \/ OpenFails(t) \/ OpenFaults(t) \/ Transfer(t) \/ Wrong(t) \/ CopyFaults(t)
  PROVE  FilesIInv'
<1>1. CASE OpenBegin(t)
  <2>1. PICK c : c = [at |-> "walk", slot |-> 0]
    OBVIOUS
  <2>2. c \in Calls /\ c.at = "walk"
    BY <2>1, FilesAssumption DEF Calls
  <2>3. t \in live /\ child[t] = t
    BY <1>1, MakesNone DEF OpenBegin, Idle
  <2> QED
    BY <1>1, <2>1, <2>2, <2>3, CallKeeps DEF OpenBegin
<1>2. CASE OpenFails(t)
  <2>1. PICK c : c = None
    OBVIOUS
  <2>2. c \in Calls /\ c.at = "out"
    BY <2>1, FilesAssumption DEF Calls, None
  <2>3. t \in live
    BY <1>2, CallerLives DEF OpenFails
  <2>4. child[t] = t
    BY <1>2, <2>3, MakesNone DEF OpenFails
  <2> QED
    BY <1>2, <2>1, <2>2, <2>3, <2>4, CallKeeps DEF OpenFails
<1>3. CASE OpenFaults(t)
  <2>1. t \in live
    BY <1>3, CallerLives DEF OpenFaults
  <2> QED
    BY <1>3, <2>1, FaultKeeps DEF OpenFaults
<1>4. CASE Transfer(t)
  <2>1. PICK fd \in Fd : table[t][fd] # 0 /\ call' = [call EXCEPT ![t] = [at |-> "io", slot |-> table[t][fd]]]
    BY <1>4 DEF Transfer
  <2>2. table[t][fd] \in Slot
    <3>1. table[t][fd] \in 0 .. Slots
      BY DEF FilesIInv, TypeOK
    <3> QED
      BY <2>1, <3>1, FilesAssumption DEF Slot
  <2>3. PICK c : c = [at |-> "io", slot |-> table[t][fd]]
    OBVIOUS
  <2>4. c \in Calls /\ c.at = "io" /\ c.slot \in Slot /\ c.slot = table[t][fd]
    BY <2>2, <2>3, FilesAssumption DEF Calls, Slot
  <2>5. t \in live /\ child[t] = t /\ UNCHANGED <<live, table, used, file, child, history>>
    BY <1>4, MakesNone DEF Transfer, Idle
  <2>6. Has(t, c.slot)
    BY <2>4, <2>5 DEF Has
  <2> QED
    BY <2>1, <2>3, <2>4, <2>5, <2>6, CallKeeps
<1>5. CASE Wrong(t)
  BY <1>5, FaultKeeps DEF Wrong, Idle
<1>6. CASE CopyFaults(t)
  <2>1. t \in live
    BY <1>6, CallerLives DEF CopyFaults
  <2> QED
    BY <1>6, <2>1, FaultKeeps DEF CopyFaults
<1> QED
  BY <1>1, <1>2, <1>3, <1>4, <1>5, <1>6

\* A position is all that a transfer and a seek change of a struct file.
LEMMA PositionKeeps ==
  ASSUME FilesIInv, NEW s \in Slot, NEW pos \in 0 .. MaxPosition,
         file' = [file EXCEPT ![s].position = pos]
  PROVE  file' \in [Slot -> Struct] /\ \A r \in Slot : file'[r].name = file[r].name
<1>1. TypeOK
  BY DEF FilesIInv
<1>2. PICK f \in Struct : f = [file[s] EXCEPT !.position = pos] /\ f.name = file[s].name
  BY <1>1 DEF TypeOK, Struct
<1>3. file' = [file EXCEPT ![s] = f]
  BY <1>2
<1> QED
  BY <1>1, <1>2, <1>3 DEF TypeOK

\* A step that leaves every name, and every call but for those that end, is harmless.
LEMMA NamesKeep ==
  ASSUME FilesIInv, UNCHANGED <<live, table, used, child, history>>,
         file' \in [Slot -> Struct], \A r \in Slot : file'[r].name = file[r].name,
         call' \in [Task -> Calls],
         \A u \in Task : \/ call'[u] = call[u]
                        \/ (call'[u].at = "out" /\ call[u].at \notin {"copy", "fault"})
  PROVE  FilesIInv'
<1>1. TypeOK
  BY DEF FilesIInv
<1>2. TypeOK'
  BY <1>1 DEF TypeOK, history
<1>3. DescriptorsMean'
  <2>1. used \subseteq Slot
    BY <1>1 DEF TypeOK
  <2> QED
    BY <2>1, HoldersStay DEF FilesIInv, DescriptorsMean, history
<1>4. (Held /\ OneDescriptor)'
  BY HoldersStay DEF FilesIInv, Held, OneDescriptor, history
<1>5. SleepersSafe'
  <2>1. live \subseteq Task
    BY <1>1 DEF TypeOK
  <2>2. \A u \in live : call'[u].at = "io" => call'[u] = call[u]
    BY <2>1
  <2> QED
    BY <2>2 DEF FilesIInv, SleepersSafe, Has, history
<1>6. CallsKept'
  <2>1. \A u \in Task : call'[u].at = "io" => call'[u] = call[u]
    OBVIOUS
  <2> QED
    BY <2>1 DEF FilesIInv, CallsKept
<1>7. ChildrenKept'
  <2>1. live \subseteq Task
    BY <1>1 DEF TypeOK
  <2>2. \A u \in live : call'[u].at = call[u].at \/ (call'[u].at = "out" /\ child[u] = u)
    BY <2>1, MakesNone
  <2> QED
    BY <2>2, HoldersStay DEF FilesIInv, ChildrenKept
<1> QED
  BY <1>2, <1>3, <1>4, <1>5, <1>6, <1>7 DEF FilesIInv

\* A transfer ends: the position moves, and the names stay.
LEMMA TransferredKeeps ==
  ASSUME FilesIInv, NEW t \in Task, Transferred(t)
  PROVE  FilesIInv'
<1>1. TypeOK
  BY DEF FilesIInv
<1>2. call[t].slot \in Slot
  BY DEF Transferred, FilesIInv, CallsKept
<1>3. PICK pos \in file[call[t].slot].position .. MaxPosition :
        file' = IF file[call[t].slot].name = Keyboard THEN file
                ELSE [file EXCEPT ![call[t].slot].position = pos]
  BY DEF Transferred
<1>4. pos \in 0 .. MaxPosition
  <2>1. file[call[t].slot].position \in 0 .. MaxPosition
    BY <1>1, <1>2 DEF TypeOK, Struct
  <2> QED
    BY <2>1, FilesAssumption
<1>5. file' \in [Slot -> Struct] /\ \A r \in Slot : file'[r].name = file[r].name
  <2>1. CASE file[call[t].slot].name = Keyboard
    BY <1>1, <1>3, <2>1 DEF TypeOK
  <2>2. CASE file[call[t].slot].name # Keyboard
    <3>1. PICK s \in Slot : s = call[t].slot
      BY <1>2
    <3> QED
      BY <1>3, <1>4, <2>2, <3>1, PositionKeeps
  <2> QED
    BY <2>1, <2>2
<1>6. PICK c : c = None
  OBVIOUS
<1>7. c \in Calls /\ c.at = "out"
  BY <1>6, FilesAssumption DEF Calls, None
<1>8. call' = [call EXCEPT ![t] = c]
  BY <1>6 DEF Transferred
<1>9. /\ call' \in [Task -> Calls]
      /\ \A u \in Task : \/ call'[u] = call[u]
                        \/ (call'[u].at = "out" /\ call[u].at \notin {"copy", "fault"})
  BY <1>1, <1>7, <1>8 DEF TypeOK, Transferred
<1> QED
  BY <1>5, <1>9, NamesKeep DEF Transferred

\* A seek moves the position of what is open, and that is a struct file.
LEMMA SeekKeeps ==
  ASSUME FilesIInv, NEW t \in Task, Seek(t)
  PROVE  FilesIInv'
<1>1. TypeOK
  BY DEF FilesIInv
<1>2. PICK fd \in Fd, pos \in 0 .. MaxPosition :
        table[t][fd] # 0 /\ file' = [file EXCEPT ![table[t][fd]].position = pos]
  BY DEF Seek
<1>3. table[t][fd] \in Slot
  <2>1. table[t][fd] \in 0 .. Slots
    BY <1>1 DEF TypeOK
  <2> QED
    BY <1>2, <2>1, FilesAssumption DEF Slot
<1>4. PICK s \in Slot : s = table[t][fd]
  BY <1>3
<1>5. file' \in [Slot -> Struct] /\ \A r \in Slot : file'[r].name = file[r].name
  BY <1>2, <1>4, PositionKeeps
<1>6. call' \in [Task -> Calls] /\ \A u \in Task : call'[u] = call[u]
  BY <1>1 DEF TypeOK, Seek
<1> QED
  BY <1>5, <1>6, NamesKeep DEF Seek

\* An open gives the first free descriptor a slot that was free, and that was nobody's
\* unless two tasks had it; without a descriptor the slot is free again.
LEMMA OpenEndKeeps ==
  ASSUME FilesIInv, NEW t \in Task, OpenEnd(t)
  PROVE  FilesIInv'
<1>1. TypeOK /\ t \in live /\ used \subseteq Slot /\ 0 \notin Slot
  BY CallerLives, FilesAssumption DEF FilesIInv, OpenEnd, TypeOK, Slot
<1>2. PICK s \in Slot, n \in Name, pos \in {0, MaxPosition} :
        /\ IsNext(s)
        /\ used' = UsedAfter(t, s)
        /\ file' = [file EXCEPT ![s] = [name |-> n, position |-> pos]]
        /\ IF {fd \in Fd : table[t][fd] = 0} = {} THEN UNCHANGED <<table, opened>>
           ELSE \E fd \in {fd \in Fd : table[t][fd] = 0} :
                  /\ \A other \in {fd_1 \in Fd : table[t][fd_1] = 0} : fd <= other
                  /\ table' = [table EXCEPT ![t][fd] = s]
                  /\ opened' = [opened EXCEPT ![t][fd] = n]
  BY DEF OpenEnd
<1>3. s \notin used /\ Holders' = Holders /\ UNCHANGED <<live, child, shared>>
  BY <1>2, HoldersStay DEF IsNext, OpenEnd
<1>4. PICK f \in Struct : f = [name |-> n, position |-> pos]
  <2>1. pos \in 0 .. MaxPosition
    BY FilesAssumption
  <2> QED
    BY <2>1 DEF Struct
<1>5. f.name = n /\ \A r \in Slot : file'[r] = IF r = s THEN f ELSE file[r]
  BY <1>1, <1>2, <1>4 DEF TypeOK
<1>6. file' \in [Slot -> Struct]
  BY <1>1, <1>2, <1>4 DEF TypeOK
<1>7. call' \in [Task -> Calls] /\ \A u \in Task : call'[u] = IF u = t THEN None ELSE call[u]
  <2>1. None \in Calls
    BY FilesAssumption DEF Calls, None
  <2> QED
    BY <1>1, <2>1 DEF TypeOK, OpenEnd
<1>8. None.at = "out"
  BY DEF None
<1>9. live \subseteq Holders /\ Holders \subseteq Task
  BY HoldersAre
<1>10. \A u \in Holders, fd \in Fd : table[u][fd] = s => s \in shared
  BY <1>1, <1>3 DEF FilesIInv, DescriptorsMean
<1>11. CallsKept'
  BY <1>3, <1>7, <1>8 DEF FilesIInv, CallsKept
<1>14. table'[t] = table[t] \/ t \in Holders
  BY <1>1, <1>9
<1>15. \A u \in Task : u # t => table'[u] = table[u]
  BY <1>1, <1>2 DEF TypeOK
<1>16. ChildrenKept'
  <2>1. child[t] = t
    BY <1>1, MakesNone DEF OpenEnd
  <2>2. \A u \in live : call'[u].at = call[u].at \/ (call'[u].at = "out" /\ child[u] = u)
    BY <1>7, <1>8, <1>9, <2>1
  <2> QED
    BY <1>3, <1>9, <1>14, <1>15, <2>2 DEF FilesIInv, ChildrenKept
<1>12. CASE {fd \in Fd : table[t][fd] = 0} = {}
  <2>1. UNCHANGED <<table, opened, live, shared, used>>
    BY <1>2, <1>3, <1>12 DEF UsedAfter
  <2>2. TypeOK'
    <3>1. UNCHANGED <<table, opened, live, shared, used, child>>
      BY <1>3, <2>1
    <3> QED
      BY <1>1, <1>6, <1>7, <3>1 DEF TypeOK
  <2>3. DescriptorsMean'
    <3> SUFFICES ASSUME NEW u \in Holders, NEW fd \in Fd, table[u][fd] \notin shared \cup {0}
                 PROVE  table[u][fd] \in used /\ file'[table[u][fd]].name = opened[u][fd]
      BY <1>3, <2>1 DEF DescriptorsMean
    <3>1. table[u][fd] \in used /\ file[table[u][fd]].name = opened[u][fd]
      BY DEF FilesIInv, DescriptorsMean
    <3> QED
      BY <1>1, <1>3, <1>5, <3>1
  <2>4. (Held /\ OneDescriptor)'
    BY <1>3, <2>1 DEF FilesIInv, Held, OneDescriptor
  <2>5. SleepersSafe'
    <3>1. \A u \in live : call'[u].at = "io" => call'[u] = call[u]
      BY <1>7, <1>8, <1>9
    <3> QED
      BY <2>1, <3>1 DEF FilesIInv, SleepersSafe, Has
  <2> QED
    BY <1>11, <1>16, <2>2, <2>3, <2>4, <2>5 DEF FilesIInv
<1>13. CASE {fd \in Fd : table[t][fd] = 0} # {}
  <2>1. PICK d \in Fd : /\ table[t][d] = 0
                        /\ table' = [table EXCEPT ![t][d] = s]
                        /\ opened' = [opened EXCEPT ![t][d] = n]
    BY <1>2, <1>13
  <2>2. used' = used \cup {s}
    BY <1>2, <2>1 DEF UsedAfter
  <2>3. \A u \in Task, a \in Fd :
          /\ table'[u][a] = IF u = t /\ a = d THEN s ELSE table[u][a]
          /\ opened'[u][a] = IF u = t /\ a = d THEN n ELSE opened[u][a]
    BY <1>1, <2>1 DEF TypeOK
  <2>4. s \in 0 .. Slots
    BY FilesAssumption DEF Slot
  <2>5. TypeOK'
    <3>1. table' \in [Task -> [Fd -> 0 .. Slots]] /\ opened' \in [Task -> [Fd -> Name]]
      BY <1>1, <2>1, <2>4 DEF TypeOK
    <3>2. used' \subseteq Slot
      BY <1>1, <2>2
    <3> QED
      BY <1>1, <1>3, <1>6, <1>7, <3>1, <3>2 DEF TypeOK
  <2>6. DescriptorsMean'
    <3> SUFFICES ASSUME NEW u \in Holders, NEW fd \in Fd, table'[u][fd] \notin shared \cup {0}
                 PROVE  table'[u][fd] \in used' /\ file'[table'[u][fd]].name = opened'[u][fd]
      BY <1>3 DEF DescriptorsMean
    <3>1. CASE u = t /\ fd = d
      BY <1>1, <1>5, <1>9, <2>2, <2>3, <3>1
    <3>2. CASE ~(u = t /\ fd = d)
      <4>1. table'[u][fd] = table[u][fd] /\ opened'[u][fd] = opened[u][fd]
        BY <1>9, <2>3, <3>2
      <4>2. table[u][fd] \in used /\ file[table[u][fd]].name = opened[u][fd]
        BY <4>1 DEF FilesIInv, DescriptorsMean
      <4> QED
        BY <1>1, <1>3, <1>5, <2>2, <4>1, <4>2
    <3> QED
      BY <3>1, <3>2
  <2>7. Held'
    <3> SUFFICES ASSUME NEW r \in used', r \notin shared
                 PROVE  \E u \in Holders, fd \in Fd : table'[u][fd] = r
      BY <1>3 DEF Held
    <3>1. CASE r = s
      BY <1>1, <1>9, <2>3, <3>1
    <3>2. CASE r # s
      <4>1. PICK u \in Holders, fd \in Fd : table[u][fd] = r
        BY <2>2, <3>2 DEF FilesIInv, Held
      <4>2. r # 0
        BY <1>1, <2>2, <3>2
      <4> QED
        BY <1>9, <2>1, <2>3, <4>1, <4>2
    <3> QED
      BY <3>1, <3>2
  <2>8. OneDescriptor'
    <3> SUFFICES ASSUME NEW u \in Holders, NEW v \in Holders, NEW a \in Fd, NEW b \in Fd,
                        table'[u][a] = table'[v][b], <<u, a>> # <<v, b>>
                 PROVE  table'[u][a] \in shared \cup {0}
      BY <1>3 DEF OneDescriptor
    <3>1. CASE ~(u = t /\ a = d) /\ ~(v = t /\ b = d)
      BY <1>9, <2>3, <3>1 DEF FilesIInv, OneDescriptor
    <3>2. CASE u = t /\ a = d
      BY <1>9, <1>10, <2>3, <3>2
    <3>3. CASE v = t /\ b = d
      BY <1>9, <1>10, <2>3, <3>3
    <3> QED
      BY <3>1, <3>2, <3>3
  <2>9. SleepersSafe'
    <3> SUFFICES ASSUME NEW u \in live, call'[u].at = "io", call'[u].slot \notin shared
                 PROVE  call'[u].slot \in used' /\ \E fd \in Fd : table'[u][fd] = call'[u].slot
      BY <1>3 DEF SleepersSafe, Has
    <3>1. u # t /\ call'[u] = call[u]
      BY <1>7, <1>8, <1>9
    <3>2. call[u].slot \in used /\ \E fd \in Fd : table[u][fd] = call[u].slot
      BY <3>1 DEF FilesIInv, SleepersSafe, Has
    <3> QED
      BY <1>9, <2>2, <2>3, <3>1, <3>2
  <2> QED
    BY <1>11, <1>16, <2>5, <2>6, <2>7, <2>8, <2>9 DEF FilesIInv
<1> QED
  BY <1>12, <1>13

\* A close frees what nobody else has, unless two tasks have it: no other descriptor
\* leads there, and no other task sleeps with it.
LEMMA CloseKeeps ==
  ASSUME FilesIInv, NEW t \in Task, Close(t)
  PROVE  FilesIInv'
<1>1. /\ TypeOK /\ t \in live /\ used \subseteq Slot /\ 0 \notin Slot /\ live \subseteq Task
      /\ live \subseteq Holders /\ Holders \subseteq Task /\ Holders' = Holders
      /\ call[t].at = "out" /\ UNCHANGED <<live, file, call, child, shared>>
  BY FilesAssumption, HoldersAre, HoldersStay DEF FilesIInv, Close, Idle, TypeOK, Slot
<1>2. PICK d \in Fd : /\ table[t][d] # 0
                      /\ table' = [table EXCEPT ![t][d] = 0]
                      /\ opened' = [opened EXCEPT ![t][d] = Keyboard]
                      /\ used' = Flipped(table[t][d])
  BY DEF Close
<1>3. PICK s \in Slot : s = table[t][d]
  <2>1. table[t][d] \in 0 .. Slots
    BY <1>1 DEF TypeOK
  <2> QED
    BY <1>2, <2>1, FilesAssumption DEF Slot
<1>4. \A u \in Task, a \in Fd :
        /\ table'[u][a] = IF u = t /\ a = d THEN 0 ELSE table[u][a]
        /\ opened'[u][a] = IF u = t /\ a = d THEN Keyboard ELSE opened[u][a]
  BY <1>1, <1>2 DEF TypeOK
<1>5. used' \subseteq Slot /\ \A r \in Slot : r # s => (r \in used' <=> r \in used)
  BY <1>1, <1>2, <1>3 DEF Flipped
<1>6. s \notin shared => s \in used /\ s \notin used'
  <2>1. s \notin shared => s \in used
    BY <1>1, <1>3 DEF FilesIInv, DescriptorsMean
  <2> QED
    BY <1>2, <1>3, <2>1 DEF Flipped
<1>7. \A u \in Holders, a \in Fd : table[u][a] = s /\ ~(u = t /\ a = d) => s \in shared
  BY <1>1, <1>3 DEF FilesIInv, OneDescriptor
<1>8. TypeOK'
  <2>1. 0 \in 0 .. Slots
    BY FilesAssumption
  <2> QED
    BY <1>1, <1>2, <1>5, <2>1, FilesAssumption DEF TypeOK
<1>9. DescriptorsMean'
  <2> SUFFICES ASSUME NEW u \in Holders, NEW fd \in Fd, table'[u][fd] \notin shared \cup {0}
               PROVE  table'[u][fd] \in used' /\ file[table'[u][fd]].name = opened'[u][fd]
    BY <1>1 DEF DescriptorsMean
  <2>1. ~(u = t /\ fd = d) /\ table'[u][fd] = table[u][fd] /\ opened'[u][fd] = opened[u][fd]
    BY <1>1, <1>4
  <2>2. table[u][fd] \in used /\ file[table[u][fd]].name = opened[u][fd]
    BY <2>1 DEF FilesIInv, DescriptorsMean
  <2> QED
    BY <1>1, <1>5, <1>7, <2>1, <2>2
<1>10. Held'
  <2> SUFFICES ASSUME NEW r \in used', r \notin shared
               PROVE  \E u \in Holders, fd \in Fd : table'[u][fd] = r
    BY <1>1 DEF Held
  <2>1. r \in used /\ r # s
    BY <1>5, <1>6
  <2>2. PICK u \in Holders, fd \in Fd : table[u][fd] = r
    BY <2>1 DEF FilesIInv, Held
  <2> QED
    BY <1>1, <1>3, <1>4, <2>1, <2>2
<1>11. OneDescriptor'
  <2> SUFFICES ASSUME NEW u \in Holders, NEW v \in Holders, NEW a \in Fd, NEW b \in Fd,
                      table'[u][a] = table'[v][b], <<u, a>> # <<v, b>>
               PROVE  table'[u][a] \in shared \cup {0}
    BY <1>1 DEF OneDescriptor
  <2>1. CASE ~(u = t /\ a = d) /\ ~(v = t /\ b = d)
    BY <1>1, <1>4, <2>1 DEF FilesIInv, OneDescriptor
  <2>2. CASE (u = t /\ a = d) \/ (v = t /\ b = d)
    BY <1>1, <1>4, <2>2
  <2> QED
    BY <2>1, <2>2
<1>12. SleepersSafe'
  <2> SUFFICES ASSUME NEW u \in live, call[u].at = "io", call[u].slot \notin shared
               PROVE  call[u].slot \in used' /\ \E fd \in Fd : table'[u][fd] = call[u].slot
    BY <1>1 DEF SleepersSafe, Has
  <2>1. u # t /\ call[u].slot \in used
    BY <1>1 DEF FilesIInv, SleepersSafe
  <2>2. PICK fd \in Fd : table[u][fd] = call[u].slot
    BY DEF FilesIInv, SleepersSafe, Has
  <2>3. call[u].slot # s
    BY <1>1, <1>7, <2>1, <2>2
  <2> QED
    BY <1>1, <1>4, <1>5, <2>1, <2>2, <2>3
<1>13. CallsKept'
  BY <1>1 DEF FilesIInv, CallsKept
<1>14. ChildrenKept'
  <2>1. \A u \in Task \ Holders : table'[u] = table[u]
    BY <1>1, <1>2 DEF TypeOK
  <2> QED
    BY <1>1, <2>1 DEF FilesIInv, ChildrenKept
<1> QED
  BY <1>8, <1>9, <1>10, <1>11, <1>12, <1>13, <1>14 DEF FilesIInv

\* All that a vfork gives the child is left to two tasks.
LEMMA VforkKeeps ==
  ASSUME FilesIInv, NEW t \in Task, Vfork(t)
  PROVE  FilesIInv'
<1>1. /\ TypeOK /\ t \in live /\ used \subseteq Slot /\ 0 \notin Slot /\ live \subseteq Task
      /\ live \subseteq Holders /\ Holders \subseteq Task
      /\ UNCHANGED <<used, file, call, child>>
  BY FilesAssumption, HoldersAre DEF FilesIInv, Vfork, Idle, TypeOK, Slot
<1>2. PICK u \in Task \ Holders :
        /\ live' = live \cup {u}
        /\ table' = [table EXCEPT ![u] = table[t]]
        /\ opened' = [opened EXCEPT ![u] = opened[t]]
        /\ shared' = shared \cup ({table[t][fd] : fd \in Fd} \ {0})
  BY DEF Vfork
<1>12. child[u] = u /\ Holders' = Holders \cup {u}
  <2>1. child[u] = u
    BY <1>1, <1>2 DEF FilesIInv, ChildrenKept
  <2> QED
    BY <1>1, <1>2, <2>1 DEF Holders
<1>3. \A v \in Task : /\ table'[v] = IF v = u THEN table[t] ELSE table[v]
                      /\ opened'[v] = IF v = u THEN opened[t] ELSE opened[v]
  BY <1>1, <1>2 DEF TypeOK
<1>4. \A fd \in Fd : table'[u][fd] \in shared' \cup {0}
  BY <1>2, <1>3
<1>5. shared \subseteq shared' /\ shared' \subseteq Slot
  <2>1. \A fd \in Fd : table[t][fd] \in 0 .. Slots
    BY <1>1 DEF TypeOK
  <2>2. \A fd \in Fd : table[t][fd] \in Slot \cup {0}
    BY <2>1, FilesAssumption DEF Slot
  <2> QED
    BY <1>1, <1>2, <2>2 DEF TypeOK
<1>6. TypeOK'
  BY <1>1, <1>2, <1>5 DEF TypeOK
<1>7. DescriptorsMean'
  <2> SUFFICES ASSUME NEW v \in Holders', NEW fd \in Fd, table'[v][fd] \notin shared' \cup {0}
               PROVE  table'[v][fd] \in used /\ file[table'[v][fd]].name = opened'[v][fd]
    BY <1>1 DEF DescriptorsMean
  <2>1. v # u /\ v \in Holders /\ table'[v] = table[v] /\ opened'[v] = opened[v]
    BY <1>1, <1>3, <1>4, <1>12
  <2> QED
    BY <1>5, <2>1 DEF FilesIInv, DescriptorsMean
<1>8. Held'
  <2> SUFFICES ASSUME NEW r \in used, r \notin shared'
               PROVE  \E v \in Holders', fd \in Fd : table'[v][fd] = r
    BY <1>1 DEF Held
  <2>1. PICK v \in Holders, fd \in Fd : table[v][fd] = r
    BY <1>5 DEF FilesIInv, Held
  <2> QED
    BY <1>1, <1>2, <1>3, <1>12, <2>1
<1>9. OneDescriptor'
  <2> SUFFICES ASSUME NEW v \in Holders', NEW w \in Holders', NEW a \in Fd, NEW b \in Fd,
                      table'[v][a] = table'[w][b], <<v, a>> # <<w, b>>
               PROVE  table'[v][a] \in shared' \cup {0}
    BY DEF OneDescriptor
  <2>1. CASE v = u \/ w = u
    BY <1>4, <2>1
  <2>2. CASE v # u /\ w # u
    <3>1. v \in Holders /\ w \in Holders /\ table'[v] = table[v] /\ table'[w] = table[w]
      BY <1>1, <1>3, <1>12, <2>2
    <3> QED
      BY <1>5, <3>1 DEF FilesIInv, OneDescriptor
  <2> QED
    BY <2>1, <2>2
<1>10. SleepersSafe'
  <2> SUFFICES ASSUME NEW v \in live', call[v].at = "io", call[v].slot \notin shared'
               PROVE  call[v].slot \in used /\ \E fd \in Fd : table'[v][fd] = call[v].slot
    BY <1>1, <1>2 DEF SleepersSafe, Has
  <2>1. v \in live /\ v # u
    BY <1>1, <1>2 DEF FilesIInv, CallsKept
  <2>2. call[v].slot \in used /\ \E fd \in Fd : table[v][fd] = call[v].slot
    BY <1>5, <2>1 DEF FilesIInv, SleepersSafe, Has
  <2> QED
    BY <1>1, <1>3, <2>1, <2>2
<1>11. CallsKept'
  BY <1>1, <1>2 DEF FilesIInv, CallsKept
<1>13. ChildrenKept'
  <2>1. \A v \in Task \ Holders' : v \in Task \ Holders /\ table'[v] = table[v]
    BY <1>1, <1>3, <1>12
  <2>2. \A v \in live : child[v] # u
    BY <1>2 DEF Holders
  <2>3. call[u].at = "out"
    BY <1>1, <1>2 DEF FilesIInv, CallsKept
  <2>4. \A v \in live' : child'[v] # v =>
          v \in live /\ child'[v] \notin live' /\ call'[v].at \in {"copy", "fault"}
    BY <1>1, <1>2, <1>12, <2>2 DEF FilesIInv, ChildrenKept
  <2>5. \A v \in live' : call'[v].at = "copy" => child'[v] # v
    BY <1>1, <1>2, <2>3 DEF FilesIInv, ChildrenKept
  <2>6. \A v, w \in live' : child'[v] = child'[w] => v = w
    BY <1>1, <1>2, <1>12, <2>2 DEF FilesIInv, ChildrenKept
  <2>7. \A v \in Task : v \notin live' => child'[v] = v
    BY <1>1, <1>2 DEF FilesIInv, ChildrenKept
  <2>8. \A v \in Task \ Holders', fd \in Fd : table'[v][fd] = 0
    BY <2>1 DEF FilesIInv, ChildrenKept
  <2> QED
    BY <2>4, <2>5, <2>6, <2>7, <2>8 DEF ChildrenKept
<1> QED
  BY <1>6, <1>7, <1>8, <1>9, <1>10, <1>11, <1>13 DEF FilesIInv

\* A fork begins with a child that nobody is and nobody makes, and that has nothing.
LEMMA ForkKeeps ==
  ASSUME FilesIInv, NEW t \in Task, Fork(t)
  PROVE  FilesIInv'
<1>1. /\ TypeOK /\ t \in live /\ call[t].at = "out" /\ live \subseteq Holders /\ Holders \subseteq Task
      /\ UNCHANGED <<live, table, used, file, opened, shared>>
  BY HoldersAre DEF FilesIInv, Fork, Idle, history
<1>2. PICK u \in Task \ Holders : child' = [child EXCEPT ![t] = u]
  BY DEF Fork
<1>3. PICK c \in Calls : c.at = "copy" /\ call' = [call EXCEPT ![t] = c]
  <2>1. [at |-> "copy", slot |-> 0] \in Calls
    BY FilesAssumption DEF Calls
  <2> QED
    BY <2>1 DEF Fork
<1>4. \A v \in Task : /\ child'[v] = IF v = t THEN u ELSE child[v]
                      /\ call'[v] = IF v = t THEN c ELSE call[v]
  BY <1>1, <1>2, <1>3 DEF TypeOK
<1>5. child[t] = t
  BY <1>1, MakesNone
<1>6. Holders' = Holders \cup {u}
  BY <1>1, <1>4, <1>5 DEF Holders
<1>7. \A fd \in Fd : table[u][fd] = 0
  BY <1>2 DEF FilesIInv, ChildrenKept
<1>8. TypeOK'
  BY <1>1, <1>2, <1>3 DEF TypeOK
<1>9. DescriptorsMean'
  BY <1>1, <1>6, <1>7 DEF FilesIInv, DescriptorsMean
<1>10. Held'
  BY <1>1, <1>6 DEF FilesIInv, Held
<1>11. OneDescriptor'
  <2> SUFFICES ASSUME NEW v \in Holders', NEW w \in Holders', NEW a \in Fd, NEW b \in Fd,
                      table[v][a] = table[w][b], <<v, a>> # <<w, b>>
               PROVE  table[v][a] \in shared \cup {0}
    BY <1>1 DEF OneDescriptor
  <2>1. CASE v = u \/ w = u
    BY <1>7, <2>1
  <2>2. CASE v # u /\ w # u
    BY <1>6, <2>2 DEF FilesIInv, OneDescriptor
  <2> QED
    BY <2>1, <2>2
<1>12. SleepersSafe'
  <2>1. \A v \in live : call'[v].at = "io" => call'[v] = call[v]
    BY <1>1, <1>3, <1>4
  <2> QED
    BY <1>1, <2>1 DEF FilesIInv, SleepersSafe, Has
<1>13. CallsKept'
  BY <1>1, <1>3, <1>4 DEF FilesIInv, CallsKept
<1>14. ChildrenKept'
  <2>1. \A v \in live : child[v] # u
    BY <1>2 DEF Holders
  <2>2. \A v \in live : v # t => child'[v] = child[v] /\ call'[v] = call[v]
    BY <1>1, <1>4
  <2>3. child'[t] = u /\ call'[t].at = "copy" /\ u \notin live /\ u # t
    BY <1>1, <1>2, <1>3, <1>4
  <2>4. \A v \in Task : v \notin live' => child'[v] = v
    BY <1>1, <1>4 DEF FilesIInv, ChildrenKept
  <2>5. \A v \in live' : child'[v] # v => child'[v] \notin live' /\ call'[v].at \in {"copy", "fault"}
    BY <1>1, <2>2, <2>3 DEF FilesIInv, ChildrenKept
  <2>6. \A v \in live' : call'[v].at = "copy" => child'[v] # v
    BY <1>1, <2>2, <2>3 DEF FilesIInv, ChildrenKept
  <2>7. \A v, w \in live' : child'[v] = child'[w] => v = w
    BY <1>1, <2>1, <2>2, <2>3 DEF FilesIInv, ChildrenKept
  <2>8. \A v \in Task \ Holders', fd \in Fd : table'[v][fd] = 0
    BY <1>1, <1>6 DEF FilesIInv, ChildrenKept
  <2> QED
    BY <2>4, <2>5, <2>6, <2>7, <2>8 DEF ChildrenKept
<1> QED
  BY <1>8, <1>9, <1>10, <1>11, <1>12, <1>13, <1>14 DEF FilesIInv

\* A copy is of a file that the parent has open, in a slot that nobody had unless two
\* tasks had it, and the child has it alone.
LEMMA CopyFileKeeps ==
  ASSUME FilesIInv, NEW t \in Task, CopyFile(t)
  PROVE  FilesIInv'
<1>1. /\ TypeOK /\ t \in live /\ used \subseteq Slot /\ 0 \notin Slot
      /\ live \subseteq Holders /\ Holders \subseteq Task /\ Holders' = Holders
      /\ UNCHANGED <<live, call, child, shared>>
  BY CallerLives, HoldersAre, HoldersStay, FilesAssumption DEF FilesIInv, CopyFile, TypeOK, Slot
<1>2. PICK u \in Task : u = child[t]
  BY <1>1 DEF TypeOK
<1>3. u \in Holders /\ u \notin live
  BY <1>1, <1>2 DEF FilesIInv, ChildrenKept, CopyFile, Holders
<1>4. PICK d \in Fd, s \in Slot :
        /\ table[t][d] # 0 /\ table[u][d] = 0
        /\ IsNext(s)
        /\ table' = [table EXCEPT ![u][d] = s]
        /\ opened' = [opened EXCEPT ![u][d] = file[table[t][d]].name]
        /\ used' = used \cup {s}
        /\ file' = [file EXCEPT ![s] = file[table[t][d]]]
  BY <1>2 DEF CopyFile, ToCopy
<1>5. s \notin used
  BY <1>4 DEF IsNext
<1>6. table[t][d] \in Slot
  <2>1. table[t][d] \in 0 .. Slots
    BY <1>1 DEF TypeOK
  <2> QED
    BY <1>4, <2>1, FilesAssumption DEF Slot
<1>7. PICK f \in Struct : f = file[table[t][d]]
  BY <1>1, <1>6 DEF TypeOK
<1>8. \A r \in Slot : file'[r] = IF r = s THEN f ELSE file[r]
  BY <1>1, <1>4, <1>7 DEF TypeOK
<1>9. \A v \in Task, a \in Fd :
        /\ table'[v][a] = IF v = u /\ a = d THEN s ELSE table[v][a]
        /\ opened'[v][a] = IF v = u /\ a = d THEN f.name ELSE opened[v][a]
  BY <1>1, <1>4, <1>7 DEF TypeOK
<1>10. \A v \in Holders, a \in Fd : table[v][a] = s => s \in shared
  BY <1>1, <1>5 DEF FilesIInv, DescriptorsMean
<1>11. TypeOK'
  <2>1. s \in 0 .. Slots /\ f.name \in Name
    BY <1>7, FilesAssumption DEF Slot, Struct
  <2> QED
    BY <1>1, <1>4, <1>7, <2>1 DEF TypeOK
<1>12. DescriptorsMean'
  <2> SUFFICES ASSUME NEW v \in Holders, NEW fd \in Fd, table'[v][fd] \notin shared \cup {0}
               PROVE  table'[v][fd] \in used' /\ file'[table'[v][fd]].name = opened'[v][fd]
    BY <1>1 DEF DescriptorsMean
  <2>1. CASE v = u /\ fd = d
    BY <1>1, <1>4, <1>8, <1>9, <2>1
  <2>2. CASE ~(v = u /\ fd = d)
    <3>1. table'[v][fd] = table[v][fd] /\ opened'[v][fd] = opened[v][fd]
      BY <1>1, <1>9, <2>2
    <3>2. table[v][fd] \in used /\ file[table[v][fd]].name = opened[v][fd]
      BY <3>1 DEF FilesIInv, DescriptorsMean
    <3> QED
      BY <1>1, <1>4, <1>5, <1>8, <3>1, <3>2
  <2> QED
    BY <2>1, <2>2
<1>13. Held'
  <2> SUFFICES ASSUME NEW r \in used', r \notin shared
               PROVE  \E v \in Holders, fd \in Fd : table'[v][fd] = r
    BY <1>1 DEF Held
  <2>1. CASE r = s
    BY <1>3, <1>9, <2>1
  <2>2. CASE r # s
    <3>1. PICK v \in Holders, fd \in Fd : table[v][fd] = r
      BY <1>4, <2>2 DEF FilesIInv, Held
    <3>2. r # 0
      BY <1>1, <1>4, <2>2
    <3> QED
      BY <1>1, <1>4, <1>9, <3>1, <3>2
  <2> QED
    BY <2>1, <2>2
<1>14. OneDescriptor'
  <2> SUFFICES ASSUME NEW v \in Holders, NEW w \in Holders, NEW a \in Fd, NEW b \in Fd,
                      table'[v][a] = table'[w][b], <<v, a>> # <<w, b>>
               PROVE  table'[v][a] \in shared \cup {0}
    BY <1>1 DEF OneDescriptor
  <2>1. CASE ~(v = u /\ a = d) /\ ~(w = u /\ b = d)
    BY <1>1, <1>9, <2>1 DEF FilesIInv, OneDescriptor
  <2>2. CASE v = u /\ a = d
    BY <1>1, <1>9, <1>10, <2>2
  <2>3. CASE w = u /\ b = d
    BY <1>1, <1>9, <1>10, <2>3
  <2> QED
    BY <2>1, <2>2, <2>3
<1>15. SleepersSafe'
  <2> SUFFICES ASSUME NEW v \in live, call[v].at = "io", call[v].slot \notin shared
               PROVE  call[v].slot \in used' /\ \E fd \in Fd : table'[v][fd] = call[v].slot
    BY <1>1 DEF SleepersSafe, Has
  <2>1. v # u /\ call[v].slot \in used /\ \E fd \in Fd : table[v][fd] = call[v].slot
    BY <1>3 DEF FilesIInv, SleepersSafe, Has
  <2> QED
    BY <1>1, <1>4, <1>9, <2>1
<1>16. CallsKept'
  BY <1>1 DEF FilesIInv, CallsKept
<1>17. ChildrenKept'
  <2>1. \A v \in Task \ Holders : table'[v] = table[v]
    BY <1>1, <1>3, <1>4 DEF TypeOK
  <2> QED
    BY <1>1, <2>1 DEF FilesIInv, ChildrenKept
<1> QED
  BY <1>11, <1>12, <1>13, <1>14, <1>15, <1>16, <1>17 DEF FilesIInv

\* When the fork is through its child is a task, with what it has got.
LEMMA ForkEndKeeps ==
  ASSUME FilesIInv, NEW t \in Task, ForkEnd(t)
  PROVE  FilesIInv'
<1>1. /\ TypeOK /\ t \in live /\ live \subseteq Holders /\ Holders \subseteq Task
      /\ UNCHANGED <<table, used, file, opened, shared>>
  BY CallerLives, HoldersAre DEF FilesIInv, ForkEnd, history
<1>2. PICK u \in Task : u = child[t]
  BY <1>1 DEF TypeOK
<1>3. u # t /\ u \notin live /\ live' = live \cup {u}
  BY <1>1, <1>2 DEF FilesIInv, ChildrenKept, ForkEnd
<1>4. PICK c \in Calls : c.at = "out" /\ call' = [call EXCEPT ![t] = c]
  <2>1. None \in Calls /\ None.at = "out"
    BY FilesAssumption DEF Calls, None
  <2> QED
    BY <2>1 DEF ForkEnd
<1>5. \A v \in Task : /\ child'[v] = IF v = t THEN t ELSE child[v]
                      /\ call'[v] = IF v = t THEN c ELSE call[v]
  BY <1>1, <1>4 DEF TypeOK, ForkEnd
<1>6. child[u] = u
  BY <1>3 DEF FilesIInv, ChildrenKept
<1>7. Holders' = Holders
  BY <1>1, <1>2, <1>3, <1>5, <1>6 DEF Holders
<1>8. TypeOK'
  BY <1>1, <1>3, <1>4 DEF TypeOK, ForkEnd
<1>9. DescriptorsMean'
  BY <1>1, <1>7 DEF FilesIInv, DescriptorsMean
<1>10. Held'
  BY <1>1, <1>7 DEF FilesIInv, Held
<1>11. OneDescriptor'
  BY <1>1, <1>7 DEF FilesIInv, OneDescriptor
<1>12. \A v \in live' : call'[v].at \in {"io", "copy", "fault"} => v \in live /\ v # t /\ call'[v] = call[v]
  BY <1>1, <1>3, <1>4, <1>5 DEF FilesIInv, CallsKept
<1>13. SleepersSafe'
  BY <1>1, <1>12 DEF FilesIInv, SleepersSafe, Has
<1>14. CallsKept'
  BY <1>1, <1>3, <1>4, <1>5 DEF FilesIInv, CallsKept
<1>15. ChildrenKept'
  <2>1. \A v \in live : v # t => child[v] # u
    BY <1>1, <1>2 DEF FilesIInv, ChildrenKept
  <2>2. \A v \in live : v # t => child'[v] = child[v] /\ call'[v] = call[v]
    BY <1>1, <1>5
  <2>3. child'[t] = t /\ call'[t].at = "out" /\ child'[u] = u /\ call'[u].at = "out"
    BY <1>1, <1>3, <1>4, <1>5, <1>6 DEF FilesIInv, CallsKept
  <2>4. \A v \in Task : v \notin live' => child'[v] = v
    BY <1>1, <1>3, <1>5 DEF FilesIInv, ChildrenKept
  <2>5. \A v \in live' : child'[v] # v => child'[v] \notin live' /\ call'[v].at \in {"copy", "fault"}
    BY <1>3, <2>1, <2>2, <2>3 DEF FilesIInv, ChildrenKept
  <2>6. \A v \in live' : call'[v].at = "copy" => child'[v] # v
    BY <1>3, <2>2, <2>3 DEF FilesIInv, ChildrenKept
  <2>7. \A v \in live : v # t => child[v] # t
    BY <1>1 DEF FilesIInv, ChildrenKept
  <2>8. \A v, w \in live' : child'[v] = child'[w] => v = w
    BY <1>3, <2>1, <2>2, <2>3, <2>7 DEF FilesIInv, ChildrenKept
  <2>9. \A v \in Task \ Holders', fd \in Fd : table'[v][fd] = 0
    BY <1>1, <1>7 DEF FilesIInv, ChildrenKept
  <2> QED
    BY <2>4, <2>5, <2>6, <2>8, <2>9 DEF ChildrenKept
<1> QED
  BY <1>8, <1>9, <1>10, <1>11, <1>13, <1>14, <1>15 DEF FilesIInv
-----------------------------------------------------------------------------
\* Every step keeps the inductive invariant.
LEMMA FilesStep == ASSUME FilesIInv, [Next]_vars PROVE FilesIInv'
<1>1. CASE UNCHANGED vars
  BY <1>1 DEF FilesIInv, CallsKept, ChildrenKept, TypeOK, DescriptorsMean, Held, Holders,
              OneDescriptor, SleepersSafe, Has, vars
<1>2. ASSUME NEW t \in Task, TaskStep(t) PROVE FilesIInv'
  BY <1>2, CallsKeep, OpenEndKeeps, CloseKeeps, TransferredKeeps, SeekKeeps, VforkKeeps,
     ForkKeeps, CopyFileKeeps, ForkEndKeeps
     DEF TaskStep
<1> QED
  BY <1>1, <1>2 DEF Next

\* A descriptor is the one way to a live struct file of what it was opened for, no
\* sleeper's is freed, and none is lost but the copies of a fork that finds no memory for
\* the next one, whatever the tasks open, copy and close; all this but for the struct
\* files that vfork has left to two of them (sys.c:111, 129, task.c:90, 98).
THEOREM DescriptorsStaySound == AllSpec => []DescriptorsSound
<1>1. AllInit => FilesIInv
  BY FilesBegin DEF AllInit
<1>2. FilesIInv /\ [AllNext]_allVars => FilesIInv'
  <2> SUFFICES ASSUME FilesIInv, [AllNext]_allVars PROVE FilesIInv'
    OBVIOUS
  <2>1. [Next]_vars
    BY DEF AllNext, FilesNext, KeysNext, LinesNext, allVars
  <2> QED
    BY <2>1, FilesStep
<1>3. FilesIInv => DescriptorsSound
  BY FilesAreSound
<1> QED
  BY <1>1, <1>2, <1>3, PTL DEF AllSpec
-----------------------------------------------------------------------------
\* The shell and the keyboard.  The codes that are not read yet decide what the shell will
\* have when it has read them, so the invariant follows the decoder through all of them: it
\* ends up at rest, and as the keyboard is unless keys were mixed, and none of its states
\* on the way has a character that was not typed.

\* What analysis_keycode goes by, and a code of the keyboard.
Decoder ==
  [at : Decoding!Places, flags : SUBSET Decoding!Modifiers, got : Seq(Decoding!Characters)]
Coded == {"a", "space", "enter", "lshift", "rshift", "ctrl", "alt", "home", "star", "num"}
Code == {Decoding!E0, Decoding!E1} \cup {Decoding!Down(k) : k \in Coded}
          \cup {Decoding!Up(k) : k \in Coded}
Now == [at |-> at, flags |-> flags, got |-> got]

\* What the decoder d is behind the code c.
Start == Decoding!In("first")
Moved(d, place) == [at |-> place, flags |-> d.flags, got |-> d.got]
Noted(d, make, k) == IF make THEN d.flags \cup {k} ELSE d.flags \ {k}
CharOf(d, make, k) ==
  IF make /\ k \notin Decoding!Modifiers
  THEN Decoding!KeyOf(k, d.flags \cap {"lshift", "rshift"} # {}) ELSE ""
Taken(d, make, k) ==
  [at |-> Start,
   flags |-> IF k \in {"lshift", "rshift", "ctrl", "alt"} THEN Noted(d, make, k) ELSE d.flags,
   got |-> IF CharOf(d, make, k) = "" THEN d.got ELSE Append(d.got, CharOf(d, make, k))]
AfterE0(d, c) ==
  IF c[2] = "ctrl" THEN Noted(d, c[1] = "down", "rctrl")
  ELSE IF c[2] = "alt" THEN Noted(d, c[1] = "down", "ralt") ELSE d.flags
BehindE0(d, c) ==
  IF c = Decoding!Down("lshift") THEN Moved(d, <<"print down", 1>>)
  ELSE IF c = Decoding!Up("star") THEN Moved(d, <<"print up", 1>>)
  ELSE [at |-> Start, flags |-> AfterE0(d, c), got |-> d.got]
Behind(d, c) ==
  CASE d.at = Start ->
         (IF c = Decoding!E1 THEN Moved(d, <<"pause", 2>>)
          ELSE IF c = Decoding!E0 THEN Moved(d, Decoding!In("extended"))
          ELSE Taken(d, c[1] = "down", c[2]))
    [] d.at = Decoding!In("extended") -> BehindE0(d, c)
    [] d.at \in {<<"pause", i>> : i \in 2 .. 6} ->
         (IF c = Decoding!PauseCodes[d.at[2]] /\ d.at[2] < 6
          THEN Moved(d, <<"pause", d.at[2] + 1>>) ELSE Moved(d, Start))
    [] d.at = <<"print down", 1>> ->
         (IF c = Decoding!E0 THEN Moved(d, <<"print down", 2>>) ELSE Taken(d, TRUE, "lshift"))
    [] d.at = <<"print down", 2>> ->
         (IF c = Decoding!Down("star") THEN Moved(d, Start) ELSE Taken(d, TRUE, "lshift"))
    [] d.at = <<"print up", 1>> ->
         (IF c = Decoding!E0 THEN Moved(d, <<"print up", 2>>) ELSE Taken(d, FALSE, "star"))
    [] d.at = <<"print up", 2>> ->
         (IF c = Decoding!Up("lshift") THEN Moved(d, Start) ELSE Taken(d, FALSE, "star"))

\* The characters g are some of the characters t that were typed, in their order.
Matched(g, t) ==
  /\ Len(g) <= Len(t)
  /\ \A i \in DOMAIN g : \E j \in i .. Len(t) :
       \E k \in DOMAIN Decoding!Plain :
         {g[i], t[j]} \subseteq {Decoding!Plain[k], Decoding!Shifted[k]}
Fits(g, t, m) == Matched(g, t) /\ (~m => Decoding!IsPrefix(g, t))

\* From the decoder d, the codes s, read one by one, lead to e, and on the way there its
\* characters always fit those that were typed.
Leads(d, s, t, m, e) ==
  \E st \in [0 .. Len(s) -> Decoder] :
    /\ st[0] = d /\ st[Len(s)] = e
    /\ \A i \in 1 .. Len(s) : st[i] = Behind(st[i - 1], s[i])
    /\ \A i \in 0 .. Len(s) : Fits(st[i].got, t, m)

\* What the table holds are characters, or nothing.
LEMMA KeyIsCharacter ==
  ASSUME NEW k, NEW shift \in BOOLEAN, Decoding!KeyOf(k, shift) # ""
  PROVE  Decoding!KeyOf(k, shift) \in Decoding!Characters
<1>1. k \in DOMAIN Decoding!Plain
  BY DEF Decoding!KeyOf
<1>2. Decoding!KeyOf(k, shift) \in {Decoding!Plain[k], Decoding!Shifted[k]}
  BY <1>1 DEF Decoding!KeyOf
<1> DEFINE pairs == {{Decoding!Plain[n], Decoding!Shifted[n]} : n \in DOMAIN Decoding!Plain}
<1>3. {Decoding!Plain[k], Decoding!Shifted[k]} \in pairs
  BY <1>1
<1>4. Decoding!Characters = (UNION pairs) \ {""}
  BY DEF Decoding!Characters
<1> HIDE DEF pairs
<1>5. \A x, y : x \in y /\ y \in pairs => x \in UNION pairs
  OBVIOUS
<1>6. Decoding!KeyOf(k, shift) \in UNION pairs
  BY <1>2, <1>3, <1>5
<1> QED
  BY <1>4, <1>6

LEMMA CharIsCharacter ==
  ASSUME NEW d, NEW make, NEW k, CharOf(d, make, k) # ""
  PROVE  CharOf(d, make, k) \in Decoding!Characters
<1> DEFINE shift == d.flags \cap {"lshift", "rshift"} # {}
<1>1. CharOf(d, make, k) =
        IF make /\ k \notin Decoding!Modifiers THEN Decoding!KeyOf(k, shift) ELSE ""
  BY DEF CharOf
<1>2. shift \in BOOLEAN
  OBVIOUS
<1> HIDE DEF shift
<1> QED
  BY <1>1, <1>2, KeyIsCharacter

\* A decoder stays one, whatever it reads.
LEMMA TakenIsDecoder ==
  ASSUME NEW d \in Decoder, NEW make, NEW k PROVE Taken(d, make, k) \in Decoder
<1>1. CharOf(d, make, k) # "" => CharOf(d, make, k) \in Decoding!Characters
  BY CharIsCharacter
<1>2. Start \in Decoding!Places
  BY DEF Start, Decoding!Places
<1>3. k \in {"lshift", "rshift", "ctrl", "alt"} => Noted(d, make, k) \in SUBSET Decoding!Modifiers
  BY DEF Noted, Decoder, Decoding!Modifiers
<1> HIDE DEF CharOf
<1>4. (IF CharOf(d, make, k) = "" THEN d.got ELSE Append(d.got, CharOf(d, make, k)))
        \in Seq(Decoding!Characters)
  <2>1. d.got \in Seq(Decoding!Characters)
    BY DEF Decoder
  <2>2. \A x \in Decoding!Characters : Append(d.got, x) \in Seq(Decoding!Characters)
    BY <2>1
  <2> QED
    BY <1>1, <2>1, <2>2
<1> QED
  BY <1>2, <1>3, <1>4 DEF Taken, Decoder

LEMMA MovedIsDecoder ==
  ASSUME NEW d \in Decoder, NEW place \in Decoding!Places PROVE Moved(d, place) \in Decoder
BY DEF Moved, Decoder

\* The places, which are all different.
LEMMA PlacesAre ==
  /\ Start \in Decoding!Places /\ Decoding!In("extended") \in Decoding!Places
  /\ \A i \in 2 .. 6 : <<"pause", i>> \in Decoding!Places
  /\ <<"print down", 1>> \in Decoding!Places /\ <<"print down", 2>> \in Decoding!Places
  /\ <<"print up", 1>> \in Decoding!Places /\ <<"print up", 2>> \in Decoding!Places
  /\ \A p \in Decoding!Places :
       \/ p = Start \/ p = Decoding!In("extended") \/ p \in {<<"pause", i>> : i \in 2 .. 6}
       \/ p = <<"print down", 1>> \/ p = <<"print down", 2>>
       \/ p = <<"print up", 1>> \/ p = <<"print up", 2>>
<1>1. Start \in Decoding!Places /\ Decoding!In("extended") \in Decoding!Places
  BY DEF Start, Decoding!Places
<1>2. \A i \in 2 .. 6 : <<"pause", i>> \in Decoding!Places
  BY DEF Decoding!Places
<1>3. /\ <<"print down", 1>> \in Decoding!Places /\ <<"print down", 2>> \in Decoding!Places
      /\ <<"print up", 1>> \in Decoding!Places /\ <<"print up", 2>> \in Decoding!Places
  BY DEF Decoding!Places
<1>4. ASSUME NEW p \in Decoding!Places
      PROVE  \/ p = Start \/ p = Decoding!In("extended") \/ p \in {<<"pause", i>> : i \in 2 .. 6}
             \/ p = <<"print down", 1>> \/ p = <<"print down", 2>>
             \/ p = <<"print up", 1>> \/ p = <<"print up", 2>>
  <2>1. CASE p \in {<<"print down", i>> : i \in {1, 2}} \cup {<<"print up", i>> : i \in {1, 2}}
    BY <2>1
  <2>2. CASE p \in {Start, Decoding!In("extended")} \cup {<<"pause", i>> : i \in 2 .. 6}
    BY <2>2
  <2> QED
    BY <2>1, <2>2 DEF Decoding!Places, Start
<1> QED
  BY <1>1, <1>2, <1>3, <1>4
LEMMA PlacesDiffer ==
  ASSUME NEW n, NEW x, NEW m, NEW y, n # m PROVE <<n, x>> # <<m, y>>
OBVIOUS

\* The decoder at each of its places.
LEMMA AtStart ==
  ASSUME NEW d, NEW c, d.at = Start
  PROVE  Behind(d, c) = IF c = Decoding!E1 THEN Moved(d, <<"pause", 2>>)
                        ELSE IF c = Decoding!E0 THEN Moved(d, Decoding!In("extended"))
                        ELSE Taken(d, c[1] = "down", c[2])
BY DEF Behind, Start, Decoding!In
LEMMA AtExtended ==
  ASSUME NEW d, NEW c, d.at = Decoding!In("extended") PROVE Behind(d, c) = BehindE0(d, c)
BY DEF Behind, Start, Decoding!In
LEMMA AtPause ==
  ASSUME NEW d, NEW c, NEW i \in 2 .. 6, d.at = <<"pause", i>>
  PROVE  Behind(d, c) = IF c = Decoding!PauseCodes[i] /\ i < 6
                        THEN Moved(d, <<"pause", i + 1>>) ELSE Moved(d, Start)
<1>1. d.at # Start /\ d.at # Decoding!In("extended")
  BY DEF Start, Decoding!In
<1>2. d.at \in {<<"pause", j>> : j \in 2 .. 6} /\ d.at[2] = i
  OBVIOUS
<1>3. /\ d.at # <<"print down", 1>> /\ d.at # <<"print down", 2>>
      /\ d.at # <<"print up", 1>> /\ d.at # <<"print up", 2>>
  OBVIOUS
<1> QED
  BY <1>1, <1>2, <1>3 DEF Behind
LEMMA AtPrint ==
  ASSUME NEW d, NEW c
  PROVE  /\ d.at = <<"print down", 1>> => Behind(d, c) =
              IF c = Decoding!E0 THEN Moved(d, <<"print down", 2>>) ELSE Taken(d, TRUE, "lshift")
         /\ d.at = <<"print down", 2>> => Behind(d, c) =
              IF c = Decoding!Down("star") THEN Moved(d, Start) ELSE Taken(d, TRUE, "lshift")
         /\ d.at = <<"print up", 1>> => Behind(d, c) =
              IF c = Decoding!E0 THEN Moved(d, <<"print up", 2>>) ELSE Taken(d, FALSE, "star")
         /\ d.at = <<"print up", 2>> => Behind(d, c) =
              IF c = Decoding!Up("lshift") THEN Moved(d, Start) ELSE Taken(d, FALSE, "star")
<1> DEFINE Printing ==
             {<<"print down", 1>>, <<"print down", 2>>, <<"print up", 1>>, <<"print up", 2>>}
<1>1. ASSUME NEW p \in Printing
      PROVE  /\ p # Start /\ p # Decoding!In("extended")
             /\ p \notin {<<"pause", j>> : j \in 2 .. 6}
  <2>1. PICK n \in {"print down", "print up"}, x \in {1, 2} : p = <<n, x>>
    OBVIOUS
  <2>2. n # "first" /\ n # "extended" /\ n # "pause"
    OBVIOUS
  <2>3. p # <<"first", 0>> /\ p # <<"extended", 0>> /\ \A j \in 2 .. 6 : p # <<"pause", j>>
    BY <2>1, <2>2, PlacesDiffer
  <2> QED
    BY <2>3 DEF Start, Decoding!In
<1>2. /\ <<"print down", 1>> # <<"print down", 2>> /\ <<"print down", 1>> # <<"print up", 1>>
      /\ <<"print down", 1>> # <<"print up", 2>> /\ <<"print down", 2>> # <<"print up", 1>>
      /\ <<"print down", 2>> # <<"print up", 2>> /\ <<"print up", 1>> # <<"print up", 2>>
  OBVIOUS
<1>3. ASSUME d.at \in Printing
      PROVE Behind(d, c) =
        IF d.at = <<"print down", 1>>
        THEN IF c = Decoding!E0 THEN Moved(d, <<"print down", 2>>) ELSE Taken(d, TRUE, "lshift")
        ELSE IF d.at = <<"print down", 2>>
        THEN IF c = Decoding!Down("star") THEN Moved(d, Start) ELSE Taken(d, TRUE, "lshift")
        ELSE IF d.at = <<"print up", 1>>
        THEN IF c = Decoding!E0 THEN Moved(d, <<"print up", 2>>) ELSE Taken(d, FALSE, "star")
        ELSE IF c = Decoding!Up("lshift") THEN Moved(d, Start) ELSE Taken(d, FALSE, "star")
  <2>1. /\ d.at # Start /\ d.at # Decoding!In("extended")
        /\ d.at \notin {<<"pause", j>> : j \in 2 .. 6}
    BY <1>1, <1>3
  <2> QED
    BY <2>1, <1>2, <1>3 DEF Behind
<1> QED
  BY <1>2, <1>3

LEMMA BehindIsDecoder ==
  ASSUME NEW d \in Decoder, NEW c PROVE Behind(d, c) \in Decoder
<1>1. d.at \in Decoding!Places
  BY DEF Decoder
<1>2. \A k, make : Taken(d, make, k) \in Decoder
  BY TakenIsDecoder
<1>4. \A place \in Decoding!Places : Moved(d, place) \in Decoder
  BY MovedIsDecoder
<1>5. CASE d.at = Start
  <2>1. Moved(d, <<"pause", 2>>) \in Decoder
    <3>1. 2 \in 2 .. 6
      OBVIOUS
    <3>2. <<"pause", 2>> \in Decoding!Places
      BY <3>1, PlacesAre
    <3> QED
      BY <3>2, <1>4
  <2>2. Moved(d, Decoding!In("extended")) \in Decoder
    BY <1>4, PlacesAre
  <2>3. Behind(d, c) \in {Moved(d, <<"pause", 2>>), Moved(d, Decoding!In("extended")),
                         Taken(d, c[1] = "down", c[2])}
    BY <1>5, AtStart
  <2> QED
    BY <2>1, <2>2, <2>3, <1>2
<1>6. CASE d.at = Decoding!In("extended")
  <2>1. \A set \in SUBSET Decoding!Modifiers :
          [at |-> Start, flags |-> set, got |-> d.got] \in Decoder
    BY PlacesAre DEF Decoder
  <2>2. \A make : \A k \in Decoding!Modifiers :
          Noted(d, make, k) \in SUBSET Decoding!Modifiers
    BY DEF Noted, Decoder
  <2>3. {"rctrl", "ralt"} \subseteq Decoding!Modifiers /\ d.flags \in SUBSET Decoding!Modifiers
    BY DEF Decoding!Modifiers, Decoder
  <2>4. BehindE0(d, c) \in Decoder
    BY <2>1, <2>2, <2>3, <1>4, PlacesAre DEF BehindE0, AfterE0
  <2> QED
    BY <2>4, <1>6, AtExtended
<1>7. CASE d.at \in {<<"pause", i>> : i \in 2 .. 6}
  <2>1. PICK i \in 2 .. 6 : d.at = <<"pause", i>>
    BY <1>7
  <2>2. i < 6 => i + 1 \in 2 .. 6
    OBVIOUS
  <2> QED
    BY <2>1, <2>2, <1>4, AtPause, PlacesAre
<1>8. CASE d.at \in
             {<<"print down", 1>>, <<"print down", 2>>, <<"print up", 1>>, <<"print up", 2>>}
  BY <1>2, <1>4, <1>8, AtPrint, PlacesAre
<1> QED
  BY <1>1, <1>5, <1>6, <1>7, <1>8, PlacesAre

-----------------------------------------------------------------------------
\* Both ends of the way fit, and no codes lead nowhere.
LEMMA LeadsFits ==
  ASSUME NEW d, NEW s \in Seq(Code), NEW t, NEW m, NEW e, Leads(d, s, t, m, e)
  PROVE  /\ d \in Decoder /\ e \in Decoder
         /\ Fits(d.got, t, m) /\ Fits(e.got, t, m)
         /\ s = <<>> => d = e
<1>1. PICK st \in [0 .. Len(s) -> Decoder] :
        /\ st[0] = d /\ st[Len(s)] = e
        /\ \A i \in 0 .. Len(s) : Fits(st[i].got, t, m)
  BY DEF Leads
<1>2. 0 \in 0 .. Len(s) /\ Len(s) \in 0 .. Len(s) /\ (s = <<>> => Len(s) = 0)
  OBVIOUS
<1> QED
  BY <1>1, <1>2

\* Reading goes one step down the way.
LEMMA LeadsOn ==
  ASSUME NEW d, NEW s \in Seq(Code), NEW t, NEW m, NEW e, Leads(d, s, t, m, e), s # <<>>
  PROVE  Leads(Behind(d, Head(s)), Tail(s), t, m, e)
<1>1. PICK st \in [0 .. Len(s) -> Decoder] :
        /\ st[0] = d /\ st[Len(s)] = e
        /\ \A i \in 1 .. Len(s) : st[i] = Behind(st[i - 1], s[i])
        /\ \A i \in 0 .. Len(s) : Fits(st[i].got, t, m)
  BY DEF Leads
<1>2. /\ Len(s) \in Nat \ {0} /\ Tail(s) \in Seq(Code) /\ Len(Tail(s)) = Len(s) - 1
      /\ Head(s) = s[1] /\ \A i \in 1 .. Len(s) - 1 : Tail(s)[i] = s[i + 1]
  OBVIOUS
<1> DEFINE rest == [i \in 0 .. Len(s) - 1 |-> st[i + 1]]
<1>3. rest \in [0 .. Len(Tail(s)) -> Decoder]
  BY <1>1, <1>2
<1>4. rest[0] = Behind(d, Head(s)) /\ rest[Len(Tail(s))] = e
  BY <1>1, <1>2
<1>5. ASSUME NEW i \in 1 .. Len(Tail(s)) PROVE rest[i] = Behind(rest[i - 1], Tail(s)[i])
  <2>1. i + 1 \in 1 .. Len(s) /\ (i + 1) - 1 = i /\ i \in 0 .. Len(s) - 1
       /\ i - 1 \in 0 .. Len(s) - 1
    BY <1>2
  <2>2. rest[i] = st[i + 1] /\ rest[i - 1] = st[i] /\ Tail(s)[i] = s[i + 1]
    BY <2>1, <1>2
  <2>3. st[i + 1] = Behind(st[i], s[i + 1])
    BY <1>1, <2>1
  <2> QED
    BY <2>2, <2>3
<1>6. \A i \in 0 .. Len(Tail(s)) : Fits(rest[i].got, t, m)
  BY <1>1, <1>2
<1> HIDE DEF rest
<1> QED
  BY <1>3, <1>4, <1>5, <1>6 DEF Leads

\* A code that is sent makes the way longer.
LEMMA LeadsFurther ==
  ASSUME NEW d, NEW s \in Seq(Code), NEW t, NEW m, NEW e, Leads(d, s, t, m, e),
         NEW c \in Code, Fits(Behind(e, c).got, t, m)
  PROVE  Leads(d, Append(s, c), t, m, Behind(e, c))
<1>1. PICK st \in [0 .. Len(s) -> Decoder] :
        /\ st[0] = d /\ st[Len(s)] = e
        /\ \A i \in 1 .. Len(s) : st[i] = Behind(st[i - 1], s[i])
        /\ \A i \in 0 .. Len(s) : Fits(st[i].got, t, m)
  BY DEF Leads
<1> DEFINE n == Len(s)
           more == [i \in 0 .. n + 1 |-> IF i <= n THEN st[i] ELSE Behind(e, c)]
           on == Append(s, c)
<1>2. /\ n \in Nat /\ on \in Seq(Code) /\ Len(on) = n + 1
      /\ on[n + 1] = c /\ \A i \in 1 .. n : on[i] = s[i]
  OBVIOUS
<1>3. Behind(e, c) \in Decoder
  BY <1>1, <1>2, BehindIsDecoder
<1>4. more \in [0 .. Len(on) -> Decoder]
  BY <1>1, <1>2, <1>3
<1>5. more[0] = d /\ more[Len(on)] = Behind(e, c)
  BY <1>1, <1>2
<1>6. ASSUME NEW i \in 1 .. Len(on) PROVE more[i] = Behind(more[i - 1], on[i])
  <2>1. CASE i = n + 1
    <3>1. more[i] = Behind(e, c) /\ more[i - 1] = e /\ on[i] = c
      BY <1>1, <1>2, <2>1
    <3> QED
      BY <3>1
  <2>2. CASE i # n + 1
    <3>1. i \in 1 .. n /\ more[i] = st[i] /\ more[i - 1] = st[i - 1] /\ on[i] = s[i]
      BY <1>2, <2>2
    <3> QED
      BY <3>1, <1>1
  <2> QED
    BY <2>1, <2>2
<1>7. \A i \in 0 .. Len(on) : Fits(more[i].got, t, m)
  BY <1>1, <1>2
<1> HIDE DEF more
<1> QED
  BY <1>4, <1>5, <1>6, <1>7 DEF Leads

\* The way stays as what is typed grows.
LEMMA LeadsStill ==
  ASSUME NEW d, NEW s \in Seq(Code), NEW t, NEW m, NEW e, Leads(d, s, t, m, e),
         NEW t2, NEW m2, \A a \in Decoder : Fits(a.got, t, m) => Fits(a.got, t2, m2)
  PROVE  Leads(d, s, t2, m2, e)
<1>1. PICK st \in [0 .. Len(s) -> Decoder] :
        /\ st[0] = d /\ st[Len(s)] = e
        /\ \A i \in 1 .. Len(s) : st[i] = Behind(st[i - 1], s[i])
        /\ \A i \in 0 .. Len(s) : Fits(st[i].got, t, m)
  BY DEF Leads
<1>2. \A i \in 0 .. Len(s) : Fits(st[i].got, t2, m2)
  BY <1>1
<1> QED
  BY <1>1, <1>2 DEF Leads

LEMMA PlacesNumbered ==
  \A n : <<n, 1>> # <<n, 2>>
OBVIOUS

\* Sequences.
LEMMA SeqGrows ==
  ASSUME NEW S, NEW s \in Seq(S), NEW x \in S PROVE Append(s, x) \in Seq(S)
OBVIOUS
LEMMA SeqEmpty == ASSUME NEW S PROVE <<>> \in Seq(S)
OBVIOUS

\* The command is one of the names, or none.
LEMMA CommandIsNamed == Decoding!ParseCommand.index \in 0 .. Len(Names)
<1>1. ASSUME NEW word PROVE Decoding!FindCmd(word) \in 0 .. Len(Names)
  <2>1. DOMAIN Names = 1 .. Len(Names) /\ Len(Names) \in Nat
    BY DEF Names
  <2>2. CASE word \in Decoding!Range(Names)
    <3>1. \E i \in DOMAIN Names : Names[i] = word
      BY <2>2 DEF Decoding!Range
    <3>2. (CHOOSE i \in DOMAIN Names : Names[i] = word) \in DOMAIN Names
      BY <3>1
    <3> QED
      BY <3>2, <2>1, <2>2 DEF Decoding!FindCmd
  <2>3. CASE word \notin Decoding!Range(Names)
    BY <2>3, <2>1 DEF Decoding!FindCmd
  <2> QED
    BY <2>2, <2>3
<1>2. 0 \in 0 .. Len(Names)
  BY DEF Names
<1>3. \E word : Decoding!ParseCommand.index \in {0, Decoding!FindCmd(word)}
  BY DEF Decoding!ParseCommand, Decoding!NoCommand
<1> QED
  BY <1>1, <1>2, <1>3

\* The part behind key == 0 is Taken, and the line stays one.
LEMMA OrdinaryIsTaken ==
  ASSUME NEW make, NEW k, Decoding!Ordinary(make, k) PROVE Now' = Taken(Now, make, k)
<1>1. CharOf(Now, make, k) = Decoding!Key(make, k)
  BY DEF CharOf, Now, Decoding!Key
<1>2. got' = IF CharOf(Now, make, k) = "" THEN got ELSE Append(got, CharOf(Now, make, k))
  BY <1>1 DEF Decoding!Ordinary, Decoding!Line
<1>3. at' = Start
  BY DEF Decoding!Ordinary, Start
<1>4. flags' = IF k \in {"lshift", "rshift", "ctrl", "alt"} THEN Noted(Now, make, k) ELSE flags
  BY DEF Decoding!Ordinary, Decoding!Flags, Noted, Now
<1> HIDE DEF CharOf
<1> QED
  BY <1>2, <1>3, <1>4 DEF Now, Taken

LEMMA LineKeeps ==
  ASSUME NEW c, c # "" => c \in Decoding!Characters, Decoding!Line(c),
         line \in Seq(Decoding!Characters), command.index \in 0 .. Len(Names)
  PROVE  line' \in Seq(Decoding!Characters) /\ command'.index \in 0 .. Len(Names)
<1>1. CASE c = "enter"
  <2>1. line' = <<>> /\ command' = Decoding!ParseCommand
    BY <1>1 DEF Decoding!Line
  <2>2. line' \in Seq(Decoding!Characters)
    BY <2>1, SeqEmpty
  <2>3. command'.index = Decoding!ParseCommand.index
    BY <2>1
  <2> QED
    BY <2>2, <2>3, CommandIsNamed
<1>2. CASE c # "enter"
  <2>1. line' = (IF c = "" THEN line ELSE Append(line, c)) /\ command' = command
    BY <1>2 DEF Decoding!Line
  <2>2. \A x \in Decoding!Characters : Append(line, x) \in Seq(Decoding!Characters)
    BY SeqGrows
  <2> QED
    BY <2>1, <2>2
<1> QED
  BY <1>1, <1>2

LEMMA OrdinaryKeeps ==
  ASSUME NEW make, NEW k, Decoding!Ordinary(make, k),
         line \in Seq(Decoding!Characters), command.index \in 0 .. Len(Names)
  PROVE  line' \in Seq(Decoding!Characters) /\ command'.index \in 0 .. Len(Names)
<1>1. CharOf(Now, make, k) = Decoding!Key(make, k)
  BY DEF CharOf, Now, Decoding!Key
<1>2. CharOf(Now, make, k) # "" => CharOf(Now, make, k) \in Decoding!Characters
  BY CharIsCharacter
<1>3. Decoding!Line(Decoding!Key(make, k))
  BY DEF Decoding!Ordinary
<1> QED
  BY <1>1, <1>2, <1>3, LineKeeps

\* A read does what Behind says, and keeps the line and the command what they are.
LEMMA ReadIs ==
  ASSUME at \in Decoding!Places, Decoding!GetScancode,
         line \in Seq(Decoding!Characters), command.index \in 0 .. Len(Names)
  PROVE  /\ Now' = Behind(Now, Head(stream))
         /\ line' \in Seq(Decoding!Characters) /\ command'.index \in 0 .. Len(Names)
<1> DEFINE c == Head(stream)
           Rest == /\ line' \in Seq(Decoding!Characters)
                   /\ command'.index \in 0 .. Len(Names)
<1>1. \/ Decoding!First(c) \/ Decoding!PauseBreak(c) \/ Decoding!Extended(c)
      \/ Decoding!PrintDown(c) \/ Decoding!PrintUp(c)
  BY DEF Decoding!GetScancode
<1>2. Now.at = at /\ Now.flags = flags /\ Now.got = got
  BY DEF Now
<1>3. ASSUME NEW place, Decoding!GoesOn(place) PROVE Now' = Moved(Now, place) /\ Rest
  BY <1>3 DEF Decoding!GoesOn, Now, Moved
<1>4. ASSUME NEW set, Decoding!OtherKey(set)
      PROVE  Now' = [at |-> Start, flags |-> set, got |-> got] /\ Rest
  BY <1>4 DEF Decoding!OtherKey, Now, Start
<1>5. Decoding!OtherKey(flags) => Now' = Moved(Now, Start) /\ Rest
  BY <1>4 DEF Moved, Now
<1>6. ASSUME NEW make, NEW k, Decoding!Ordinary(make, k) PROVE Now' = Taken(Now, make, k) /\ Rest
  BY <1>6, OrdinaryIsTaken, OrdinaryKeeps
<1>7. CASE Decoding!First(c)
  <2>1. Now.at = Start
    BY <1>2, <1>7 DEF Decoding!First, Start
  <2>2. CASE c = Decoding!E1
    BY <1>3, <1>7, <2>1, <2>2, AtStart DEF Decoding!First
  <2>3. CASE c # Decoding!E1 /\ c = Decoding!E0
    BY <1>3, <1>7, <2>1, <2>3, AtStart DEF Decoding!First
  <2>4. CASE c # Decoding!E1 /\ c # Decoding!E0
    BY <1>6, <1>7, <2>1, <2>4, AtStart DEF Decoding!First
  <2> QED
    BY <2>2, <2>3, <2>4
<1>8. CASE Decoding!PauseBreak(c)
  <2>1. PICK i \in 2 .. 6 : Now.at = <<"pause", i>>
    BY <1>2, <1>8 DEF Decoding!PauseBreak
  <2>2. IF c = Decoding!PauseCodes[i] /\ i < 6
        THEN Decoding!GoesOn(<<"pause", i + 1>>) ELSE Decoding!OtherKey(flags)
    BY <1>2, <1>8, <2>1 DEF Decoding!PauseBreak
  <2>3. Behind(Now, c) = IF c = Decoding!PauseCodes[i] /\ i < 6
                         THEN Moved(Now, <<"pause", i + 1>>) ELSE Moved(Now, Start)
    BY <2>1, AtPause
  <2> QED
    BY <1>3, <1>5, <2>2, <2>3
<1>9. CASE Decoding!Extended(c)
  <2>1. Now.at = Decoding!In("extended")
    BY <1>2, <1>9 DEF Decoding!Extended
  <2>2. Behind(Now, c) = BehindE0(Now, c)
    BY <2>1, AtExtended
  <2>3. CASE c = Decoding!Down("lshift")
    BY <1>3, <1>9, <2>2, <2>3 DEF Decoding!Extended, BehindE0, AfterE0
  <2>4. CASE c # Decoding!Down("lshift") /\ c = Decoding!Up("star")
    BY <1>3, <1>9, <2>2, <2>4 DEF Decoding!Extended, BehindE0, AfterE0
  <2>5. CASE c # Decoding!Down("lshift") /\ c # Decoding!Up("star") /\ c[2] \in {"ctrl", "alt"}
    <3> DEFINE m == IF c[2] = "ctrl" THEN "rctrl" ELSE "ralt"
    <3>1. Decoding!OtherKey(Decoding!Flags(c[1] = "down", m))
      BY <1>9, <2>5 DEF Decoding!Extended
    <3>2. Decoding!Flags(c[1] = "down", m) = Noted(Now, c[1] = "down", m)
      BY <1>2 DEF Decoding!Flags, Noted
    <3>3. BehindE0(Now, c) = [at |-> Start, flags |-> Noted(Now, c[1] = "down", m), got |-> got]
      BY <1>2, <2>5 DEF BehindE0, AfterE0
    <3> HIDE DEF m
    <3> QED
      BY <1>4, <2>2, <3>1, <3>2, <3>3
  <2>6. CASE c # Decoding!Down("lshift") /\ c # Decoding!Up("star") /\ c[2] \notin {"ctrl", "alt"}
    <3>1. BehindE0(Now, c) = [at |-> Start, flags |-> flags, got |-> got]
      BY <1>2, <2>6 DEF BehindE0, AfterE0
    <3> QED
      BY <1>4, <1>9, <2>2, <2>6, <3>1 DEF Decoding!Extended
  <2> QED
    BY <2>3, <2>4, <2>5, <2>6
<1>10. CASE Decoding!PrintDown(c)
  <2>1. CASE at = <<"print down", 1>>
    <3>2. at # <<"print down", 2>>
      BY <2>1, PlacesNumbered
    <3>1. IF c = Decoding!E0 THEN Decoding!GoesOn(<<"print down", 2>>)
          ELSE Decoding!Ordinary(TRUE, "lshift")
      BY <1>10, <2>1, <3>2 DEF Decoding!PrintDown
    <3> QED
      BY <3>1, <1>2, <1>3, <1>6, <2>1, AtPrint
  <2>2. CASE at = <<"print down", 2>>
    <3>2. at # <<"print down", 1>>
      BY <2>2, PlacesNumbered
    <3>1. IF c = Decoding!Down("star") THEN Decoding!OtherKey(flags)
          ELSE Decoding!Ordinary(TRUE, "lshift")
      BY <1>10, <2>2, <3>2 DEF Decoding!PrintDown
    <3> QED
      BY <3>1, <1>2, <1>5, <1>6, <2>2, AtPrint
  <2> QED
    BY <1>10, <2>1, <2>2 DEF Decoding!PrintDown
<1>11. CASE Decoding!PrintUp(c)
  <2>1. CASE at = <<"print up", 1>>
    <3>2. at # <<"print up", 2>>
      BY <2>1, PlacesNumbered
    <3>1. IF c = Decoding!E0 THEN Decoding!GoesOn(<<"print up", 2>>)
          ELSE Decoding!Ordinary(FALSE, "star")
      BY <1>11, <2>1, <3>2 DEF Decoding!PrintUp
    <3> QED
      BY <3>1, <1>2, <1>3, <1>6, <2>1, AtPrint
  <2>2. CASE at = <<"print up", 2>>
    <3>2. at # <<"print up", 1>>
      BY <2>2, PlacesNumbered
    <3>1. IF c = Decoding!Up("lshift") THEN Decoding!OtherKey(flags)
          ELSE Decoding!Ordinary(FALSE, "star")
      BY <1>11, <2>2, <3>2 DEF Decoding!PrintUp
    <3> QED
      BY <3>1, <1>2, <1>5, <1>6, <2>2, AtPrint
  <2> QED
    BY <1>11, <2>1, <2>2 DEF Decoding!PrintUp
<1> QED
  BY <1>1, <1>7, <1>8, <1>9, <1>10, <1>11

Plains == {"a", "space", "enter"}
Resting == {Start, <<"print down", 1>>, <<"print up", 1>>}
Awaiting == {Decoding!In("extended"), <<"print down", 2>>, <<"print up", 2>>}

\* A prefix, element by element.
LEMMA PrefixIs ==
  ASSUME NEW S, NEW g \in Seq(S), NEW t \in Seq(S)
  PROVE  Decoding!IsPrefix(g, t) <=> Len(g) <= Len(t) /\ \A i \in 1 .. Len(g) : g[i] = t[i]
<1>1. CASE Len(g) <= Len(t)
  <2>1. /\ SubSeq(g, 1, Len(g)) = [i \in 1 .. Len(g) |-> g[i]]
        /\ SubSeq(t, 1, Len(g)) = [i \in 1 .. Len(g) |-> t[i]]
    BY <1>1
  <2> QED
    BY <1>1, <2>1 DEF Decoding!IsPrefix
<1>2. CASE ~ (Len(g) <= Len(t))
  BY <1>2 DEF Decoding!IsPrefix
<1> QED
  BY <1>1, <1>2

\* What fits still does when a character more is typed, and when it is read as well.
LEMMA FitsGrows ==
  ASSUME NEW S, NEW g \in Seq(S), NEW t \in Seq(S), NEW m, Fits(g, t, m), NEW c \in S
  PROVE  Fits(g, Append(t, c), m)
<1> DEFINE u == Append(t, c)
<1>1. u \in Seq(S) /\ Len(u) = Len(t) + 1 /\ Len(t) \in Nat /\ Len(g) \in Nat
      /\ \A i \in 1 .. Len(t) : u[i] = t[i]
  OBVIOUS
<1>2. DOMAIN g = 1 .. Len(g)
  OBVIOUS
<1> HIDE DEF u
<1>3. Matched(g, u)
  <2>1. Len(g) <= Len(u)
    BY <1>1 DEF Fits, Matched
  <2>2. ASSUME NEW i \in DOMAIN g
        PROVE  \E j \in i .. Len(u) : \E k \in DOMAIN Decoding!Plain :
                 {g[i], u[j]} \subseteq {Decoding!Plain[k], Decoding!Shifted[k]}
    <3>1. PICK j \in i .. Len(t) : \E k \in DOMAIN Decoding!Plain :
                 {g[i], t[j]} \subseteq {Decoding!Plain[k], Decoding!Shifted[k]}
      BY DEF Fits, Matched
    <3>2. j \in i .. Len(u) /\ u[j] = t[j]
      BY <1>1, <1>2
    <3> QED
      BY <3>1, <3>2
  <2> QED
    BY <2>1, <2>2 DEF Matched
<1>4. ~m => Decoding!IsPrefix(g, u)
  <2> SUFFICES ASSUME ~m PROVE Decoding!IsPrefix(g, u)
    OBVIOUS
  <2>1. Len(g) <= Len(t) /\ \A i \in 1 .. Len(g) : g[i] = t[i]
    BY PrefixIs DEF Fits
  <2>2. Len(g) <= Len(u) /\ \A i \in 1 .. Len(g) : g[i] = u[i]
    BY <2>1, <1>1
  <2> QED
    BY <2>2, <1>1, PrefixIs
<1> QED
  BY <1>3, <1>4 DEF Fits, u

LEMMA FitsBoth ==
  ASSUME NEW S, NEW g \in Seq(S), NEW t \in Seq(S), NEW m, Fits(g, t, m),
         NEW n \in DOMAIN Decoding!Plain, NEW x \in S, NEW y \in S,
         {x, y} \subseteq {Decoding!Plain[n], Decoding!Shifted[n]},
         ~m => g = t /\ x = y
  PROVE  Fits(Append(g, x), Append(t, y), m)
<1> DEFINE h == Append(g, x)
           u == Append(t, y)
<1>1. /\ u \in Seq(S) /\ Len(u) = Len(t) + 1 /\ Len(t) \in Nat
      /\ u[Len(u)] = y /\ \A i \in 1 .. Len(t) : u[i] = t[i]
  OBVIOUS
<1>2. /\ h \in Seq(S) /\ Len(h) = Len(g) + 1 /\ Len(g) \in Nat /\ DOMAIN h = 1 .. Len(h)
      /\ h[Len(h)] = x /\ \A i \in 1 .. Len(g) : h[i] = g[i]
      /\ DOMAIN g = 1 .. Len(g)
  OBVIOUS
<1>3. ~m => h = u
  OBVIOUS
<1> HIDE DEF h, u
<1>4. Len(g) <= Len(t)
  BY DEF Fits, Matched
<1>5. ASSUME NEW i \in DOMAIN h
      PROVE  \E j \in i .. Len(u) : \E k \in DOMAIN Decoding!Plain :
               {h[i], u[j]} \subseteq {Decoding!Plain[k], Decoding!Shifted[k]}
  <2>1. CASE i = Len(h)
    <3>1. Len(u) \in i .. Len(u)
      BY <1>1, <1>2, <1>4, <2>1
    <3>2. {h[i], u[Len(u)]} \subseteq {Decoding!Plain[n], Decoding!Shifted[n]}
      BY <1>1, <1>2, <2>1
    <3> QED
      BY <3>1, <3>2
  <2>2. CASE i # Len(h)
    <3>1. i \in DOMAIN g /\ h[i] = g[i]
      BY <1>2, <2>2
    <3>2. PICK j \in i .. Len(t) : \E k \in DOMAIN Decoding!Plain :
                 {g[i], t[j]} \subseteq {Decoding!Plain[k], Decoding!Shifted[k]}
      BY <3>1 DEF Fits, Matched
    <3>3. j \in i .. Len(u) /\ u[j] = t[j]
      BY <1>1, <1>2
    <3> QED
      BY <3>1, <3>2, <3>3
  <2> QED
    BY <2>1, <2>2
<1>6. Matched(h, u)
  BY <1>1, <1>2, <1>4, <1>5 DEF Matched
<1>7. ~m => Decoding!IsPrefix(h, u)
  BY <1>1, <1>2, <1>3, PrefixIs
<1> QED
  BY <1>6, <1>7 DEF Fits, h, u

LEMMA FitsInTheBeginning == Fits(<<>>, <<>>, FALSE)
<1>1. Decoding!IsPrefix(<<>>, <<>>)
  BY DEF Decoding!IsPrefix
<1> QED
  BY <1>1 DEF Fits, Matched

-----------------------------------------------------------------------------
\* A decoder that only changes its place.
LEMMA MovedIs ==
  ASSUME NEW d, NEW place
  PROVE  /\ Moved(d, place).at = place
         /\ Moved(d, place).flags = d.flags /\ Moved(d, place).got = d.got
BY DEF Moved

\* Codes that return no character.
LEMMA TakenGives ==
  ASSUME NEW d \in Decoder, NEW make \in BOOLEAN, NEW k
  PROVE  /\ Taken(d, make, k).at = Start
         /\ Taken(d, make, k).flags =
              IF k \in {"lshift", "rshift", "ctrl", "alt"} THEN Noted(d, make, k) ELSE d.flags
         /\ ~make \/ k \in Decoding!Modifiers \/ k \notin DOMAIN Decoding!Plain =>
              Taken(d, make, k).got = d.got
<1>1. ~make \/ k \in Decoding!Modifiers \/ k \notin DOMAIN Decoding!Plain =>
        CharOf(d, make, k) = ""
  BY DEF CharOf, Decoding!KeyOf
<1> QED
  BY <1>1 DEF Taken

LEMMA ShiftAndStar ==
  ASSUME NEW d \in Decoder
  PROVE  /\ Taken(d, TRUE, "lshift").at = Start /\ Taken(d, TRUE, "lshift").got = d.got
         /\ Taken(d, FALSE, "star").at = Start /\ Taken(d, FALSE, "star").got = d.got
<1>1. "lshift" \in Decoding!Modifiers
  BY DEF Decoding!Modifiers
<1> QED
  BY <1>1, TakenGives

\* A decoder that rests takes an E0 for one, and then the code behind it.
LEMMA E0Comes ==
  ASSUME NEW e \in Decoder, e.at \in Resting, NEW f, f = Behind(e, Decoding!E0)
  PROVE  /\ f \in Decoder /\ f.at \in Awaiting /\ f.got = e.got /\ f.flags = e.flags
         /\ e.at = Start => f.at = Decoding!In("extended")
         /\ e.at = <<"print down", 1>> => f.at = <<"print down", 2>>
         /\ e.at = <<"print up", 1>> => f.at = <<"print up", 2>>
<1>1. f \in Decoder
  BY BehindIsDecoder
<1>2. CASE e.at = Start
  <2>1. f = Moved(e, Decoding!In("extended"))
    BY <1>2, AtStart DEF Decoding!E0, Decoding!E1
  <2>2. Start # <<"print down", 1>> /\ Start # <<"print up", 1>>
    BY DEF Start, Decoding!In
  <2>3. f.at = Decoding!In("extended") /\ f.got = e.got /\ f.flags = e.flags
    BY <2>1, MovedIs
  <2> QED
    BY <1>1, <1>2, <2>2, <2>3 DEF Awaiting
<1>3. CASE e.at = <<"print down", 1>>
  <2>1. f = Moved(e, <<"print down", 2>>)
    BY <1>3, AtPrint
  <2>2. Start # <<"print down", 1>> /\ <<"print down", 1>> # <<"print up", 1>>
    BY DEF Start, Decoding!In
  <2>3. f.at = <<"print down", 2>> /\ f.got = e.got /\ f.flags = e.flags
    <3> DEFINE place == <<"print down", 2>>
    <3>1. f = Moved(e, place)
      BY <2>1
    <3> HIDE DEF place
    <3>2. f.at = place /\ f.got = e.got /\ f.flags = e.flags
      BY <3>1, MovedIs
    <3> QED
      BY <3>2 DEF place
  <2> QED
    BY <1>1, <1>3, <2>2, <2>3 DEF Awaiting
<1>4. CASE e.at = <<"print up", 1>>
  <2>1. f = Moved(e, <<"print up", 2>>)
    BY <1>4, AtPrint
  <2>2. Start # <<"print up", 1>> /\ <<"print down", 1>> # <<"print up", 1>>
    BY DEF Start, Decoding!In
  <2>3. f.at = <<"print up", 2>> /\ f.got = e.got /\ f.flags = e.flags
    <3> DEFINE place == <<"print up", 2>>
    <3>1. f = Moved(e, place)
      BY <2>1
    <3> HIDE DEF place
    <3>2. f.at = place /\ f.got = e.got /\ f.flags = e.flags
      BY <3>1, MovedIs
    <3> QED
      BY <3>2 DEF place
  <2> QED
    BY <1>1, <1>4, <2>2, <2>3 DEF Awaiting
<1> QED
  BY <1>2, <1>3, <1>4 DEF Resting

LEMMA BehindE0Comes ==
  ASSUME NEW f \in Decoder, f.at \in Awaiting, NEW c, NEW g, g = Behind(f, c)
  PROVE  /\ g \in Decoder /\ g.at \in Resting /\ g.got = f.got
         /\ f.at = Decoding!In("extended") => g = BehindE0(f, c)
         /\ f.at = <<"print down", 2>> /\ c = Decoding!Down("star") => g = Moved(f, Start)
         /\ f.at = <<"print up", 2>> /\ c = Decoding!Up("lshift") => g = Moved(f, Start)
<1>1. g \in Decoder
  BY BehindIsDecoder
<1>2. /\ Decoding!In("extended") # <<"print down", 2>>
      /\ Decoding!In("extended") # <<"print up", 2>>
      /\ <<"print down", 2>> # <<"print up", 2>>
  BY DEF Decoding!In
<1>3. CASE f.at = Decoding!In("extended")
  <2>1. g = BehindE0(f, c)
    BY <1>3, AtExtended
  <2>2. BehindE0(f, c).got = f.got /\ BehindE0(f, c).at \in Resting
    BY DEF BehindE0, Moved, Resting
  <2> QED
    BY <1>1, <1>2, <1>3, <2>1, <2>2
<1>4. CASE f.at = <<"print down", 2>>
  <2>1. g = Moved(f, Start) \/ g = Taken(f, TRUE, "lshift")
    BY <1>4, AtPrint
  <2>2. g.at = Start /\ g.got = f.got
    <3> DEFINE h == Taken(f, TRUE, "lshift")
    <3>1. h.at = Start /\ h.got = f.got
      BY ShiftAndStar
    <3>2. g = Moved(f, Start) \/ g = h
      BY <2>1
    <3> HIDE DEF h
    <3> QED
      BY <3>1, <3>2, MovedIs
  <2> QED
    BY <1>1, <1>2, <1>4, <2>2, AtPrint DEF Resting
<1>5. CASE f.at = <<"print up", 2>>
  <2>1. g = Moved(f, Start) \/ g = Taken(f, FALSE, "star")
    BY <1>5, AtPrint
  <2>2. g.at = Start /\ g.got = f.got
    <3> DEFINE h == Taken(f, FALSE, "star")
    <3>1. h.at = Start /\ h.got = f.got
      BY ShiftAndStar
    <3>2. g = Moved(f, Start) \/ g = h
      BY <2>1
    <3> HIDE DEF h
    <3> QED
      BY <3>1, <3>2, MovedIs
  <2> QED
    BY <1>1, <1>2, <1>5, <2>2, AtPrint DEF Resting
<1> QED
  BY <1>3, <1>4, <1>5 DEF Awaiting

Ends(e, h, t, m) ==
  /\ e.at \in Resting
  /\ ~m => e.at = Start /\ e.flags = h \cap Decoding!Modifiers /\ e.got = t
KeysIInv ==
  /\ Decoding!TypeOK /\ stream \in Seq(Code)
  /\ \E e \in Decoder : Leads(Now, stream, typed, mixed, e) /\ Ends(e, held, typed, mixed)

\* What an E0 and the code c make of a decoder that rests.
PairGives(e, c, g) ==
  /\ g \in Decoder /\ g.at \in Resting /\ g.got = e.got
  /\ e.at = Start =>
       /\ c = Decoding!Down("lshift") => g.at = <<"print down", 1>> /\ g.flags = e.flags
       /\ c = Decoding!Up("star") => g.at = <<"print up", 1>> /\ g.flags = e.flags
       /\ c # Decoding!Down("lshift") /\ c # Decoding!Up("star") =>
            g.at = Start /\ g.flags = AfterE0(e, c)
  /\ e.at = <<"print down", 1>> /\ c = Decoding!Down("star") => g.at = Start /\ g.flags = e.flags
  /\ e.at = <<"print up", 1>> /\ c = Decoding!Up("lshift") => g.at = Start /\ g.flags = e.flags

\* Codes that are sent, one by one.
LEMMA Joined ==
  ASSUME NEW s \in Seq(Code), NEW a \in Code, NEW b \in Code
  PROVE  /\ s \o <<a>> = Append(s, a) /\ s \o <<a, b>> = Append(Append(s, a), b)
         /\ Append(s, a) \in Seq(Code) /\ Len(Append(s, a)) = Len(s) + 1
OBVIOUS

LEMMA CodesAre ==
  /\ Decoding!E0 \in Code /\ Decoding!E1 \in Code
  /\ \A k \in Coded : Decoding!Down(k) \in Code /\ Decoding!Up(k) \in Code
BY DEF Code

\* A code that returns no character is always fine to send.
LEMMA LeadsSilently ==
  ASSUME NEW d, NEW s \in Seq(Code), NEW t, NEW m, NEW e, Leads(d, s, t, m, e),
         NEW c \in Code, NEW f, f = Behind(e, c), f.got = e.got
  PROVE  Leads(d, Append(s, c), t, m, f) /\ Append(s, c) \in Seq(Code)
<1>1. Fits(Behind(e, c).got, t, m)
  BY LeadsFits
<1>2. Leads(d, Append(s, c), t, m, Behind(e, c))
  BY <1>1, LeadsFurther
<1> QED
  BY <1>2, Joined

LEMMA PairGiven ==
  ASSUME NEW e \in Decoder, e.at \in Resting, NEW f, f = Behind(e, Decoding!E0),
         NEW c, NEW g, g = Behind(f, c)
  PROVE  PairGives(e, c, g)
<1>1. /\ f \in Decoder /\ f.at \in Awaiting /\ f.got = e.got /\ f.flags = e.flags
      /\ e.at = Start => f.at = Decoding!In("extended")
      /\ e.at = <<"print down", 1>> => f.at = <<"print down", 2>>
      /\ e.at = <<"print up", 1>> => f.at = <<"print up", 2>>
  BY E0Comes
<1>2. /\ g \in Decoder /\ g.at \in Resting /\ g.got = f.got
      /\ f.at = Decoding!In("extended") => g = BehindE0(f, c)
      /\ f.at = <<"print down", 2>> /\ c = Decoding!Down("star") => g = Moved(f, Start)
      /\ f.at = <<"print up", 2>> /\ c = Decoding!Up("lshift") => g = Moved(f, Start)
  BY <1>1, BehindE0Comes
<1>3. ASSUME e.at = Start
      PROVE  /\ c = Decoding!Down("lshift") => g.at = <<"print down", 1>> /\ g.flags = e.flags
             /\ c = Decoding!Up("star") => g.at = <<"print up", 1>> /\ g.flags = e.flags
             /\ c # Decoding!Down("lshift") /\ c # Decoding!Up("star") =>
                  g.at = Start /\ g.flags = AfterE0(e, c)
  <2>1. g = BehindE0(f, c)
    BY <1>1, <1>2, <1>3
  <2>2. AfterE0(f, c) = AfterE0(e, c)
    BY <1>1 DEF AfterE0, Noted
  <2>3. CASE c = Decoding!Down("lshift")
    <3>1. g = Moved(f, <<"print down", 1>>) /\ c # Decoding!Up("star")
      BY <2>1, <2>3 DEF BehindE0, Decoding!Down, Decoding!Up
    <3>2. g.at = <<"print down", 1>> /\ g.flags = f.flags
      <4> DEFINE place == <<"print down", 1>>
      <4>1. g = Moved(f, place)
        BY <3>1
      <4> HIDE DEF place
      <4>2. g.at = place /\ g.flags = f.flags
        BY <4>1, MovedIs
      <4> QED
        BY <4>2 DEF place
    <3> QED
      BY <3>1, <3>2, <2>3, <1>1
  <2>4. CASE c = Decoding!Up("star")
    <3>1. g = Moved(f, <<"print up", 1>>) /\ c # Decoding!Down("lshift")
      BY <2>1, <2>4 DEF BehindE0, Decoding!Down, Decoding!Up
    <3>2. g.at = <<"print up", 1>> /\ g.flags = f.flags
      <4> DEFINE place == <<"print up", 1>>
      <4>1. g = Moved(f, place)
        BY <3>1
      <4> HIDE DEF place
      <4>2. g.at = place /\ g.flags = f.flags
        BY <4>1, MovedIs
      <4> QED
        BY <4>2 DEF place
    <3> QED
      BY <3>1, <3>2, <2>4, <1>1
  <2>5. CASE c # Decoding!Down("lshift") /\ c # Decoding!Up("star")
    <3>1. g = [at |-> Start, flags |-> AfterE0(f, c), got |-> f.got]
      BY <2>1, <2>5 DEF BehindE0
    <3>2. g.at = Start /\ g.flags = AfterE0(f, c)
      BY <3>1
    <3> QED
      BY <3>2, <2>2, <2>5
  <2> QED
    BY <2>3, <2>4, <2>5
<1>4. /\ g = Moved(f, Start) => g.at = Start /\ g.flags = e.flags
  <2>1. ASSUME g = Moved(f, Start) PROVE g.at = Start /\ g.flags = f.flags
    BY <2>1, MovedIs
  <2> QED
    BY <2>1, <1>1
<1>5. g.got = e.got
  BY <1>1, <1>2
<1> QED
  BY <1>1, <1>2, <1>3, <1>4, <1>5 DEF PairGives

\* An E0 and a code more.
PairLeads(d, s, t, m, e, c) ==
  \E g : /\ PairGives(e, c, g) /\ Leads(d, s \o <<Decoding!E0, c>>, t, m, g)
         /\ s \o <<Decoding!E0, c>> \in Seq(Code)
LEMMA PairSent ==
  ASSUME NEW d, NEW s \in Seq(Code), NEW t, NEW m, NEW e, Leads(d, s, t, m, e),
         e.at \in Resting, NEW c \in Code
  PROVE  PairLeads(d, s, t, m, e, c)
<1>1. e \in Decoder
  BY LeadsFits
<1>2. PICK f : f = Behind(e, Decoding!E0)
  OBVIOUS
<1>3. PICK g : g = Behind(f, c)
  OBVIOUS
<1>4. f.got = e.got /\ f \in Decoder /\ f.at \in Awaiting
  BY <1>1, <1>2, E0Comes
<1>5. g.got = f.got
  BY <1>3, <1>4, BehindE0Comes
<1>6. PairGives(e, c, g)
  BY <1>1, <1>2, <1>3, PairGiven
<1>7. Leads(d, Append(s, Decoding!E0), t, m, f) /\ Append(s, Decoding!E0) \in Seq(Code)
  BY <1>2, <1>4, LeadsSilently, CodesAre
<1>8. /\ Leads(d, Append(Append(s, Decoding!E0), c), t, m, g)
      /\ Append(Append(s, Decoding!E0), c) \in Seq(Code)
  BY <1>3, <1>5, <1>7, LeadsSilently
<1>9. Append(Append(s, Decoding!E0), c) = s \o <<Decoding!E0, c>>
  BY Joined, CodesAre
<1> QED
  BY <1>6, <1>8, <1>9 DEF PairLeads

\* What is sent, and that the bound is kept.
LEMMA SendsLen ==
  ASSUME NEW codes \in Seq(Code), stream \in Seq(Code), Decoding!Sends(codes)
  PROVE  Len(stream') <= MaxCodes /\ stream' = stream \o codes
<1>1. Len(stream) + Len(codes) <= MaxCodes /\ stream' = stream \o codes
  BY DEF Decoding!Sends
<1>2. Len(stream \o codes) = Len(stream) + Len(codes)
  OBVIOUS
<1> QED
  BY <1>1, <1>2

\* Once keys are mixed less is asked for.
LEMMA FitsMixed ==
  ASSUME NEW g, NEW t, NEW m, NEW m2, Fits(g, t, m), m => m2 PROVE Fits(g, t, m2)
BY DEF Fits

LEMMA LeadsMixed ==
  ASSUME NEW d, NEW s \in Seq(Code), NEW t, NEW m, NEW m2, m => m2, NEW e, Leads(d, s, t, m, e)
  PROVE  Leads(d, s, t, m2, e)
<1>1. \A a \in Decoder : Fits(a.got, t, m) => Fits(a.got, t, m2)
  BY FitsMixed
<1> QED
  BY <1>1, LeadsStill

\* The keyboard moves and the shell does not.
LEMMA KeyboardKeeps ==
  ASSUME Decoding!TypeOK, UNCHANGED Decoding!shell,
         held' \subseteq DecodedKeys, stream' \in Seq(Code), Len(stream') <= MaxCodes,
         typed' \in Seq(Decoding!Characters), Len(typed') <= MaxTyped, mixed' \in BOOLEAN,
         NEW g, Leads(Now, stream', typed', mixed', g), Ends(g, held', typed', mixed')
  PROVE  KeysIInv'
<1>1. Now' = Now
  BY DEF Decoding!shell, Now
<1>2. Decoding!TypeOK'
  BY DEF Decoding!TypeOK, Decoding!shell
<1>3. g \in Decoder
  BY LeadsFits
<1> HIDE DEF Now
<1>4. PICK n : n = Now
  OBVIOUS
<1>5. Leads(n, stream', typed', mixed', g) /\ n = Now'
  BY <1>1, <1>4
<1> QED
  BY <1>2, <1>3, <1>5 DEF KeysIInv

LEMMA KeysFacts ==
  ASSUME KeysIInv
  PROVE  /\ Decoding!TypeOK /\ stream \in Seq(Code) /\ typed \in Seq(Decoding!Characters)
         /\ held \subseteq DecodedKeys /\ Len(typed) <= MaxTyped /\ mixed \in BOOLEAN
         /\ \E e \in Decoder : Leads(Now, stream, typed, mixed, e) /\ Ends(e, held, typed, mixed)
BY DEF KeysIInv, Decoding!TypeOK

\* A key is let go.
LEMMA ReleaseKeeps == ASSUME KeysIInv, NEW k, Decoding!Release(k) PROVE KeysIInv'
<1>1. PICK e \in Decoder : Leads(Now, stream, typed, mixed, e) /\ Ends(e, held, typed, mixed)
  BY KeysFacts
<1>2. /\ k \in {"a", "space", "enter", "lshift", "rshift", "ctrl", "alt"}
      /\ Decoding!Sends(<<Decoding!Up(k)>>) /\ held' = held \ {k}
      /\ UNCHANGED Decoding!shell /\ typed' = typed /\ mixed' = mixed
  BY DEF Decoding!Release
<1>3. PICK c : c = Decoding!Up(k)
  OBVIOUS
<1>4. c \in Code /\ c[1] = "up" /\ c[2] = k /\ c # Decoding!E0 /\ c # Decoding!E1
  BY <1>2, <1>3, CodesAre DEF Coded, Decoding!Up, Decoding!E0, Decoding!E1
<1>5. PICK f : f = Behind(e, c)
  OBVIOUS
<1>6. /\ f.at = Start /\ f.got = e.got
      /\ e.at = Start => f.flags = IF k \in {"lshift", "rshift", "ctrl", "alt"}
                                   THEN e.flags \ {k} ELSE e.flags
  <2>1. CASE e.at = Start
    <3>1. f = Taken(e, FALSE, k)
      BY <1>4, <1>5, <2>1, AtStart
    <3> QED
      BY <3>1, TakenGives DEF Noted
  <2>2. CASE e.at = <<"print down", 1>>
    <3>1. f = Taken(e, TRUE, "lshift")
      BY <1>4, <1>5, <2>2, AtPrint
    <3>2. f.at = Start /\ f.got = e.got
      BY <3>1, ShiftAndStar
    <3>3. <<"print down", 1>> # Start
      BY DEF Start, Decoding!In
    <3> QED
      BY <3>2, <3>3, <2>2
  <2>3. CASE e.at = <<"print up", 1>>
    <3>1. f = Taken(e, FALSE, "star")
      BY <1>4, <1>5, <2>3, AtPrint
    <3>2. f.at = Start /\ f.got = e.got
      BY <3>1, ShiftAndStar
    <3>3. <<"print up", 1>> # Start
      BY DEF Start, Decoding!In
    <3> QED
      BY <3>2, <3>3, <2>3
  <2> QED
    BY <1>1, <2>1, <2>2, <2>3 DEF Ends, Resting
<1>7. Leads(Now, Append(stream, c), typed, mixed, f) /\ Append(stream, c) \in Seq(Code)
  BY <1>1, <1>4, <1>5, <1>6, LeadsSilently, KeysFacts
<1>8. stream' = Append(stream, c) /\ Len(stream') <= MaxCodes
  <2>1. <<c>> \in Seq(Code) /\ Decoding!Sends(<<c>>)
    BY <1>2, <1>3, <1>4
  <2> QED
    BY <2>1, <1>4, SendsLen, Joined, KeysFacts
<1>9. Ends(f, held', typed', mixed')
  BY <1>1, <1>2, <1>6 DEF Ends, Resting, Decoding!Modifiers
<1> QED
  BY <1>2, <1>7, <1>8, <1>9, KeyboardKeeps, KeysFacts

\* The right ctrl and alt.
LEMMA RightKeeps == ASSUME KeysIInv, NEW k \in DecodedKeys, Decoding!Right(k) PROVE KeysIInv'
<1>1. PICK e \in Decoder : Leads(Now, stream, typed, mixed, e) /\ Ends(e, held, typed, mixed)
  BY KeysFacts
<1>2. k \in {"rctrl", "ralt"}
  BY DEF Decoding!Right, Decoding!Left
<1>3. PICK c :
        c = IF k \in held THEN Decoding!Up(Decoding!Left[k]) ELSE Decoding!Down(Decoding!Left[k])
  OBVIOUS
<1>4. /\ Decoding!Sends(<<Decoding!E0, c>>)
      /\ held' = IF k \in held THEN held \ {k} ELSE held \cup {k}
      /\ UNCHANGED Decoding!shell /\ typed' = typed /\ mixed' = mixed
  BY <1>3 DEF Decoding!Right
<1>5. Decoding!Left["rctrl"] = "ctrl" /\ Decoding!Left["ralt"] = "alt"
  BY DEF Decoding!Left
<1>6. c \in Code
  BY <1>2, <1>3, <1>5, CodesAre DEF Coded
<1>7. /\ c # Decoding!Down("lshift") /\ c # Decoding!Up("star")
      /\ c[2] = Decoding!Left[k] /\ (c[1] = "down" <=> k \notin held)
  BY <1>2, <1>3, <1>5 DEF Decoding!Up, Decoding!Down
<1>8. AfterE0(e, c) = IF k \in held THEN e.flags \ {k} ELSE e.flags \cup {k}
  BY <1>2, <1>5, <1>7 DEF AfterE0, Noted
<1>9. PairLeads(Now, stream, typed, mixed, e, c)
  BY <1>1, <1>6, PairSent, KeysFacts DEF Ends
<1>10. PICK g : /\ PairGives(e, c, g) /\ Leads(Now, stream \o <<Decoding!E0, c>>, typed, mixed, g)
                /\ stream \o <<Decoding!E0, c>> \in Seq(Code)
  BY <1>9 DEF PairLeads
<1>11. stream' = stream \o <<Decoding!E0, c>> /\ Len(stream') <= MaxCodes
  <2>1. <<Decoding!E0, c>> \in Seq(Code)
    BY <1>6, CodesAre
  <2> QED
    BY <2>1, <1>4, SendsLen, KeysFacts
<1>12. Ends(g, held', typed', mixed')
  <2>1. g.at \in Resting /\ g.got = e.got
    BY <1>10 DEF PairGives
  <2>2. ASSUME ~mixed PROVE g.at = Start /\ g.flags = AfterE0(e, c)
    BY <1>1, <1>7, <1>10, <2>2 DEF PairGives, Ends
  <2>3. ASSUME ~mixed PROVE g.flags = held' \cap Decoding!Modifiers
    BY <1>1, <1>2, <1>4, <1>8, <2>2, <2>3 DEF Ends, Decoding!Modifiers
  <2> QED
    BY <1>1, <1>4, <2>1, <2>2, <2>3 DEF Ends
<1> QED
  BY <1>4, <1>10, <1>11, <1>12, KeyboardKeeps, KeysFacts

\* The keys that are characters have one with each shift.
LEMMA PlainCharacters ==
  ASSUME NEW k \in Plains, NEW shift \in BOOLEAN
  PROVE  /\ k \in DOMAIN Decoding!Plain
         /\ Decoding!KeyOf(k, shift) \in {Decoding!Plain[k], Decoding!Shifted[k]}
         /\ Decoding!KeyOf(k, shift) # "" /\ Decoding!KeyOf(k, shift) \in Decoding!Characters
<1>1. k \in DOMAIN Decoding!Plain
  BY DEF Plains, Decoding!Plain
<1>2. Decoding!KeyOf(k, shift) \in {Decoding!Plain[k], Decoding!Shifted[k]}
  BY <1>1 DEF Decoding!KeyOf
<1>3. Decoding!Plain[k] # "" /\ Decoding!Shifted[k] # ""
  <2>1. /\ Decoding!Plain["a"] # "" /\ Decoding!Plain["space"] # "" /\ Decoding!Plain["enter"] # ""
    BY DEF Decoding!Plain
  <2>2. /\ Decoding!Shifted["a"] # "" /\ Decoding!Shifted["space"] # ""
        /\ Decoding!Shifted["enter"] # ""
    BY DEF Decoding!Shifted
  <2> QED
    BY <2>1, <2>2 DEF Plains
<1>4. Decoding!KeyOf(k, shift) # ""
  BY <1>2, <1>3
<1> QED
  BY <1>1, <1>2, <1>4, KeyIsCharacter

\* A key that is not a character goes down.
LEMMA ModifierKeeps ==
  ASSUME KeysIInv, NEW k \in DecodedKeys, k \notin Plains, Decoding!Press(k) PROVE KeysIInv'
<1>1. PICK e \in Decoder : Leads(Now, stream, typed, mixed, e) /\ Ends(e, held, typed, mixed)
  BY KeysFacts
<1>2. /\ k \in {"lshift", "rshift", "ctrl", "alt"}
      /\ Decoding!Sends(<<Decoding!Down(k)>>) /\ held' = held \cup {k}
      /\ UNCHANGED Decoding!shell /\ mixed' = mixed
  BY DEF Decoding!Press, Plains
<1>3. k \notin DOMAIN Decoding!Plain /\ k \in Decoding!Modifiers
  BY <1>2 DEF Decoding!Plain, Decoding!Modifiers
<1>4. typed' = typed
  BY <1>3 DEF Decoding!Press
<1>5. PICK c : c = Decoding!Down(k)
  OBVIOUS
<1>6. c \in Code /\ c[1] = "down" /\ c[2] = k /\ c # Decoding!E0 /\ c # Decoding!E1
  BY <1>2, <1>5, CodesAre DEF Coded, Decoding!Down, Decoding!E0, Decoding!E1
<1>7. PICK f : f = Behind(e, c)
  OBVIOUS
<1>8. f.at = Start /\ f.got = e.got /\ (e.at = Start => f.flags = e.flags \cup {k})
  <2>1. CASE e.at = Start
    <3>1. f = Taken(e, TRUE, k)
      BY <1>6, <1>7, <2>1, AtStart
    <3> QED
      BY <1>2, <1>3, <3>1, TakenGives DEF Noted
  <2>2. CASE e.at = <<"print down", 1>>
    <3>1. f = Taken(e, TRUE, "lshift")
      BY <1>6, <1>7, <2>2, AtPrint
    <3>2. f.at = Start /\ f.got = e.got
      BY <3>1, ShiftAndStar
    <3>3. <<"print down", 1>> # Start
      BY DEF Start, Decoding!In
    <3> QED
      BY <3>2, <3>3, <2>2
  <2>3. CASE e.at = <<"print up", 1>>
    <3>1. f = Taken(e, FALSE, "star")
      BY <1>6, <1>7, <2>3, AtPrint
    <3>2. f.at = Start /\ f.got = e.got
      BY <3>1, ShiftAndStar
    <3>3. <<"print up", 1>> # Start
      BY DEF Start, Decoding!In
    <3> QED
      BY <3>2, <3>3, <2>3
  <2> QED
    BY <1>1, <2>1, <2>2, <2>3 DEF Ends, Resting
<1>9. Leads(Now, Append(stream, c), typed, mixed, f) /\ Append(stream, c) \in Seq(Code)
  BY <1>1, <1>6, <1>7, <1>8, LeadsSilently, KeysFacts
<1>10. stream' = Append(stream, c) /\ Len(stream') <= MaxCodes
  <2>1. <<c>> \in Seq(Code) /\ Decoding!Sends(<<c>>)
    BY <1>2, <1>5, <1>6
  <2> QED
    BY <2>1, <1>6, SendsLen, Joined, KeysFacts
<1>11. Ends(f, held', typed', mixed')
  BY <1>1, <1>2, <1>3, <1>4, <1>8 DEF Ends, Resting
<1> QED
  BY <1>2, <1>4, <1>9, <1>10, <1>11, KeyboardKeeps, KeysFacts

\* A character is typed.
LEMMA CharacterKeeps ==
  ASSUME KeysIInv, NEW k \in DecodedKeys, k \in Plains, Decoding!Press(k) PROVE KeysIInv'
<1>1. PICK e \in Decoder : Leads(Now, stream, typed, mixed, e) /\ Ends(e, held, typed, mixed)
  BY KeysFacts
<1> DEFINE x == CharOf(e, TRUE, k)
           y == Decoding!KeyOf(k, Decoding!Shifts # {})
<1>2. /\ Decoding!Sends(<<Decoding!Down(k)>>) /\ held' = held \cup {k}
      /\ UNCHANGED Decoding!shell /\ mixed' = mixed
  BY DEF Decoding!Press
<1>3. /\ k \notin {"lshift", "rshift", "ctrl", "alt"} /\ k \notin Decoding!Modifiers
      /\ k \in DOMAIN Decoding!Plain
  BY DEF Decoding!Plain, Decoding!Modifiers, Plains
<1>4. typed' = Append(typed, y) /\ Len(typed) < MaxTyped
  BY <1>3 DEF Decoding!Press
<1>5. PICK c : c = Decoding!Down(k)
  OBVIOUS
<1>6. c \in Code /\ c[1] = "down" /\ c[2] = k /\ c # Decoding!E0 /\ c # Decoding!E1
  BY <1>5, CodesAre DEF Coded, Plains, Decoding!Down, Decoding!E0, Decoding!E1
<1>7. PICK f : f = Behind(e, c)
  OBVIOUS
<1>8. /\ x \in {Decoding!Plain[k], Decoding!Shifted[k]} /\ x # "" /\ x \in Decoding!Characters
      /\ y \in {Decoding!Plain[k], Decoding!Shifted[k]} /\ y \in Decoding!Characters
  <2>1. x = Decoding!KeyOf(k, e.flags \cap {"lshift", "rshift"} # {})
    BY <1>3 DEF CharOf
  <2>2. PICK a \in BOOLEAN : a = (e.flags \cap {"lshift", "rshift"} # {})
    OBVIOUS
  <2>3. PICK b \in BOOLEAN : b = (Decoding!Shifts # {})
    OBVIOUS
  <2>4. x = Decoding!KeyOf(k, a) /\ y = Decoding!KeyOf(k, b)
    BY <2>1, <2>2, <2>3
  <2> HIDE DEF x, y
  <2> QED
    BY <2>4, PlainCharacters
<1>9. ~mixed => x = y
  <2> SUFFICES ASSUME ~mixed PROVE x = y
    OBVIOUS
  <2>1. x = Decoding!KeyOf(k, e.flags \cap {"lshift", "rshift"} # {})
    BY <1>3 DEF CharOf
  <2>2. e.flags \cap {"lshift", "rshift"} = Decoding!Shifts
    BY <1>1 DEF Ends, Decoding!Modifiers, Decoding!Shifts
  <2> QED
    BY <2>1, <2>2
<1> HIDE DEF x, y
<1>10. f.at = Start /\ (f.got = e.got \/ (e.at = Start /\ f.got = Append(e.got, x)))
       /\ (e.at = Start => f.flags = e.flags /\ f.got = Append(e.got, x))
  <2>1. CASE e.at = Start
    <3>1. f = Taken(e, TRUE, k)
      BY <1>6, <1>7, <2>1, AtStart
    <3>2. f.at = Start /\ f.flags = e.flags
      BY <1>3, <3>1, TakenGives
    <3>3. f.got = Append(e.got, x)
      BY <1>8, <3>1 DEF Taken, x
    <3> QED
      BY <3>2, <3>3, <2>1
  <2>2. CASE e.at = <<"print down", 1>>
    <3>1. f = Taken(e, TRUE, "lshift")
      BY <1>6, <1>7, <2>2, AtPrint
    <3>2. f.at = Start /\ f.got = e.got
      BY <3>1, ShiftAndStar
    <3>3. <<"print down", 1>> # Start
      BY DEF Start, Decoding!In
    <3> QED
      BY <3>2, <3>3, <2>2
  <2>3. CASE e.at = <<"print up", 1>>
    <3>1. f = Taken(e, FALSE, "star")
      BY <1>6, <1>7, <2>3, AtPrint
    <3>2. f.at = Start /\ f.got = e.got
      BY <3>1, ShiftAndStar
    <3>3. <<"print up", 1>> # Start
      BY DEF Start, Decoding!In
    <3> QED
      BY <3>2, <3>3, <2>3
  <2> QED
    BY <1>1, <2>1, <2>2, <2>3 DEF Ends, Resting
<1>11. Leads(Now, stream, typed', mixed, e)
  <2>1. PICK S : S = Decoding!Characters
    OBVIOUS
  <2>2. PICK t \in Seq(S) : t = typed
    BY <2>1, KeysFacts
  <2>3. \A d \in Decoder : d.got \in Seq(S)
    BY <2>1 DEF Decoder
  <2>4. y \in S /\ Append(t, y) = typed'
    BY <1>4, <1>8, <2>1, <2>2
  <2>5. \A d \in Decoder : Fits(d.got, t, mixed) => Fits(d.got, Append(t, y), mixed)
    BY <2>2, <2>3, <2>4, FitsGrows
  <2>6. Leads(Now, stream, t, mixed, e)
    BY <1>1, <2>2
  <2>7. Leads(Now, stream, Append(t, y), mixed, e)
    BY <2>5, <2>6, LeadsStill, KeysFacts
  <2> QED
    BY <2>4, <2>7
<1>12. Fits(f.got, typed', mixed)
  <2>1. CASE f.got = e.got
    BY <1>11, <2>1, LeadsFits, KeysFacts
  <2>2. CASE e.at = Start /\ f.got = Append(e.got, x)
    <3>1. Fits(e.got, typed, mixed) /\ e.got \in Seq(Decoding!Characters)
      BY <1>1, LeadsFits, KeysFacts DEF Decoder
    <3>2. ~mixed => e.got = typed
      BY <1>1 DEF Ends
    <3>3. Fits(Append(e.got, x), Append(typed, y), mixed)
      BY <3>1, <3>2, <1>3, <1>8, <1>9, FitsBoth, KeysFacts
    <3> QED
      BY <3>3, <2>2, <1>4
  <2> QED
    BY <1>10, <2>1, <2>2
<1>13. Leads(Now, Append(stream, c), typed', mixed, f) /\ Append(stream, c) \in Seq(Code)
  <2>1. PICK t : t = typed'
    OBVIOUS
  <2>2. Leads(Now, Append(stream, c), t, mixed, Behind(e, c))
    BY <2>1, <1>6, <1>7, <1>11, <1>12, LeadsFurther, KeysFacts
  <2> QED
    BY <2>1, <2>2, <1>6, <1>7, Joined, KeysFacts
<1>14. stream' = Append(stream, c) /\ Len(stream') <= MaxCodes
  <2>1. <<c>> \in Seq(Code) /\ Decoding!Sends(<<c>>)
    BY <1>2, <1>5, <1>6
  <2> QED
    BY <2>1, <1>6, SendsLen, Joined, KeysFacts
<1>15. Ends(f, held', typed', mixed')
  <2>1. held' \cap Decoding!Modifiers = held \cap Decoding!Modifiers
    BY <1>2, <1>3
  <2> QED
    BY <2>1, <1>1, <1>2, <1>4, <1>9, <1>10 DEF Ends, Resting
<1>16. typed' \in Seq(Decoding!Characters) /\ Len(typed') <= MaxTyped
  <2>1. Len(Append(typed, y)) = Len(typed) + 1 /\ Len(typed) \in Nat
    BY KeysFacts
  <2>2. MaxTyped \in Nat
    BY ShellsAssumption DEF Decoding!ShellAssumption
  <2>3. Append(typed, y) \in Seq(Decoding!Characters)
    BY <1>8, SeqGrows, KeysFacts
  <2> QED
    BY <1>4, <2>1, <2>2, <2>3
<1> QED
  BY <1>2, <1>13, <1>14, <1>15, <1>16, KeyboardKeeps, KeysFacts

\* The keyboard sends an E0 and a code, or twice that, while a shift is down: that the
\* decoder rests behind it is all that there is to say.
LEMMA PairsKeep ==
  ASSUME KeysIInv, NEW c \in Code, NEW b \in Code,
         \/ Decoding!Sends(<<Decoding!E0, c>>)
         \/ Decoding!Sends(<<Decoding!E0, c>> \o <<Decoding!E0, b>>),
         held' \subseteq DecodedKeys, UNCHANGED Decoding!shell, typed' = typed, mixed' = TRUE
  PROVE  KeysIInv'
<1>1. PICK e \in Decoder : Leads(Now, stream, typed, mixed, e) /\ Ends(e, held, typed, mixed)
  BY KeysFacts
<1>2. Leads(Now, stream, typed, TRUE, e) /\ e.at \in Resting
  BY <1>1, LeadsMixed, KeysFacts DEF Ends
<1>3. PICK g : /\ PairGives(e, c, g) /\ Leads(Now, stream \o <<Decoding!E0, c>>, typed, TRUE, g)
               /\ stream \o <<Decoding!E0, c>> \in Seq(Code)
  BY <1>2, PairSent, KeysFacts DEF PairLeads
<1>4. g.at \in Resting
  BY <1>3 DEF PairGives
<1>5. CASE Decoding!Sends(<<Decoding!E0, c>>)
  <2>1. <<Decoding!E0, c>> \in Seq(Code)
    BY CodesAre
  <2>2. stream' = stream \o <<Decoding!E0, c>> /\ Len(stream') <= MaxCodes
    BY <2>1, <1>5, SendsLen, KeysFacts
  <2>3. Ends(g, held', typed', mixed')
    BY <1>4 DEF Ends
  <2> QED
    BY <1>3, <2>2, <2>3, KeyboardKeeps, KeysFacts
<1>6. CASE Decoding!Sends(<<Decoding!E0, c>> \o <<Decoding!E0, b>>)
  <2>1. <<Decoding!E0, c>> \o <<Decoding!E0, b>> \in Seq(Code)
    BY CodesAre
  <2> DEFINE s == stream \o <<Decoding!E0, c>>
  <2>2. stream' = s \o <<Decoding!E0, b>> /\ Len(stream') <= MaxCodes
    <3>1. stream' = stream \o (<<Decoding!E0, c>> \o <<Decoding!E0, b>>)
         /\ Len(stream') <= MaxCodes
      BY <2>1, <1>6, SendsLen, KeysFacts
    <3>2. /\ stream \in Seq(Code) /\ <<Decoding!E0, c>> \in Seq(Code)
          /\ <<Decoding!E0, b>> \in Seq(Code)
      BY CodesAre, KeysFacts
    <3>3. \A p, q, r \in Seq(Code) : p \o (q \o r) = (p \o q) \o r
      OBVIOUS
    <3> QED
      BY <3>1, <3>2, <3>3
  <2>3. s \in Seq(Code) /\ Leads(Now, s, typed, TRUE, g)
    BY <1>3
  <2> HIDE DEF s
  <2>4. PICK h : /\ PairGives(g, b, h) /\ Leads(Now, s \o <<Decoding!E0, b>>, typed, TRUE, h)
                 /\ s \o <<Decoding!E0, b>> \in Seq(Code)
    BY <1>4, <2>3, PairSent DEF PairLeads
  <2>5. Ends(h, held', typed', mixed')
    BY <2>4 DEF Ends, PairGives
  <2> QED
    BY <2>2, <2>4, <2>5, KeyboardKeeps, KeysFacts
<1> QED
  BY <1>5, <1>6

\* An arrow while no shift is down.
LEMMA PlainArrowKeeps ==
  ASSUME KeysIInv, NEW c \in {Decoding!Up("home"), Decoding!Down("home")},
         Decoding!Sends(<<Decoding!E0, c>>),
         held' \in {held \ {"home"}, held \cup {"home"}}, held' \subseteq DecodedKeys,
         UNCHANGED Decoding!shell, typed' = typed, mixed' = mixed
  PROVE  KeysIInv'
<1>1. PICK e \in Decoder : Leads(Now, stream, typed, mixed, e) /\ Ends(e, held, typed, mixed)
  BY KeysFacts
<1>2. c \in Code
  BY CodesAre DEF Coded
<1>3. c # Decoding!Down("lshift") /\ c # Decoding!Up("star") /\ c[2] = "home"
  BY DEF Decoding!Up, Decoding!Down
<1>4. PICK g : /\ PairGives(e, c, g) /\ Leads(Now, stream \o <<Decoding!E0, c>>, typed, mixed, g)
               /\ stream \o <<Decoding!E0, c>> \in Seq(Code)
  BY <1>1, <1>2, PairSent, KeysFacts DEF PairLeads, Ends
<1>5. stream' = stream \o <<Decoding!E0, c>> /\ Len(stream') <= MaxCodes
  <2>1. <<Decoding!E0, c>> \in Seq(Code)
    BY <1>2, CodesAre
  <2> QED
    BY <2>1, SendsLen, KeysFacts
<1>6. Ends(g, held', typed', mixed')
  <2>1. g.at \in Resting /\ g.got = e.got
    BY <1>4 DEF PairGives
  <2>2. ASSUME ~mixed PROVE g.at = Start /\ g.flags = e.flags
    BY <1>1, <1>3, <1>4, <2>2 DEF PairGives, Ends, AfterE0
  <2>3. held' \cap Decoding!Modifiers = held \cap Decoding!Modifiers
    BY DEF Decoding!Modifiers
  <2> QED
    BY <1>1, <2>1, <2>2, <2>3 DEF Ends
<1> QED
  BY <1>4, <1>5, <1>6, KeyboardKeeps, KeysFacts

\* An arrow.
LEMMA ArrowKeeps == ASSUME KeysIInv, "home" \in DecodedKeys, Decoding!Arrow PROVE KeysIInv'
<1>1. /\ held' \in {held \ {"home"}, held \cup {"home"}} /\ UNCHANGED Decoding!shell
      /\ typed' = typed /\ mixed' = (mixed \/ Decoding!Shifts # {})
  BY DEF Decoding!Arrow
<1>2. held' \subseteq DecodedKeys
  BY <1>1, KeysFacts
<1>3. CASE Decoding!Shifts = {}
  <2>1. \E c \in {Decoding!Up("home"), Decoding!Down("home")} : Decoding!Sends(<<Decoding!E0, c>>)
    <3>1. Decoding!Sends(IF "home" \in held
                         THEN <<Decoding!E0, Decoding!Up("home")>> \o <<>>
                         ELSE <<>> \o <<Decoding!E0, Decoding!Down("home")>>)
      BY <1>3 DEF Decoding!Arrow
    <3>2. \A c : /\ <<Decoding!E0, c>> \o <<>> = <<Decoding!E0, c>>
               /\ <<>> \o <<Decoding!E0, c>> = <<Decoding!E0, c>>
      OBVIOUS
    <3> QED
      BY <3>1, <3>2
  <2>2. mixed' = mixed
    BY <1>1, <1>3, KeysFacts
  <2> QED
    BY <1>1, <1>2, <2>1, <2>2, PlainArrowKeeps
<1>4. CASE Decoding!Shifts # {}
  <2>1. PICK fake \in Decoding!Shifts :
          Decoding!Sends(IF "home" \in held
             THEN <<Decoding!E0, Decoding!Up("home")>> \o <<Decoding!E0, Decoding!Down(fake)>>
             ELSE <<Decoding!E0, Decoding!Up(fake)>> \o <<Decoding!E0, Decoding!Down("home")>>)
    <3>1. PICK fake \in Decoding!Shifts :
            LET Fake(code) == IF fake = Decoding!Nil THEN <<>> ELSE <<Decoding!E0, code>>
            IN  Decoding!Sends(IF "home" \in held
                  THEN <<Decoding!E0, Decoding!Up("home")>> \o Fake(Decoding!Down(fake))
                  ELSE Fake(Decoding!Up(fake)) \o <<Decoding!E0, Decoding!Down("home")>>)
      BY <1>4 DEF Decoding!Arrow
    <3>2. fake # Decoding!Nil
      BY DEF Decoding!Shifts, Decoding!Nil
    <3> QED
      BY <3>1, <3>2
  <2>2. fake \in Coded /\ "home" \in Coded
    BY DEF Coded, Decoding!Shifts
  <2>3. mixed' = TRUE
    BY <1>1, <1>4
  <2>4. \A c, b \in Code : Decoding!Sends(<<Decoding!E0, c>> \o <<Decoding!E0, b>>) => KeysIInv'
    BY <1>1, <1>2, <2>3, PairsKeep
  <2> QED
    BY <2>1, <2>2, <2>4, CodesAre
<1> QED
  BY <1>3, <1>4

\* Print screen while no shift is down.
LEMMA PlainPrintKeeps ==
  ASSUME KeysIInv, NEW c \in Code, NEW b \in Code,
         \/ c = Decoding!Down("lshift") /\ b = Decoding!Down("star")
         \/ c = Decoding!Up("star") /\ b = Decoding!Up("lshift"),
         Decoding!Sends(<<Decoding!E0, c>> \o <<Decoding!E0, b>>),
         held' \in {held \ {"print"}, held \cup {"print"}}, held' \subseteq DecodedKeys,
         UNCHANGED Decoding!shell, typed' = typed, mixed' = mixed
  PROVE  KeysIInv'
<1>1. PICK e \in Decoder : Leads(Now, stream, typed, mixed, e) /\ Ends(e, held, typed, mixed)
  BY KeysFacts
<1>2. PICK g : /\ PairGives(e, c, g) /\ Leads(Now, stream \o <<Decoding!E0, c>>, typed, mixed, g)
               /\ stream \o <<Decoding!E0, c>> \in Seq(Code)
  BY <1>1, PairSent, KeysFacts DEF PairLeads, Ends
<1> DEFINE s == stream \o <<Decoding!E0, c>>
<1>3. stream' = s \o <<Decoding!E0, b>> /\ Len(stream') <= MaxCodes
  <2>1. <<Decoding!E0, c>> \o <<Decoding!E0, b>> \in Seq(Code)
    BY CodesAre
  <2>2. stream' = stream \o (<<Decoding!E0, c>> \o <<Decoding!E0, b>>)
         /\ Len(stream') <= MaxCodes
    BY <2>1, SendsLen, KeysFacts
  <2>3. /\ stream \in Seq(Code) /\ <<Decoding!E0, c>> \in Seq(Code)
        /\ <<Decoding!E0, b>> \in Seq(Code)
    BY CodesAre, KeysFacts
  <2>4. \A p, q, r \in Seq(Code) : p \o (q \o r) = (p \o q) \o r
    OBVIOUS
  <2> QED
    BY <2>2, <2>3, <2>4
<1>4. s \in Seq(Code) /\ Leads(Now, s, typed, mixed, g)
  BY <1>2
<1> HIDE DEF s
<1>5. g.at \in Resting /\ g.got = e.got
  BY <1>2 DEF PairGives
<1>6. PICK h : /\ PairGives(g, b, h) /\ Leads(Now, s \o <<Decoding!E0, b>>, typed, mixed, h)
               /\ s \o <<Decoding!E0, b>> \in Seq(Code)
  BY <1>4, <1>5, PairSent DEF PairLeads
<1>7. Ends(h, held', typed', mixed')
  <2>1. h.at \in Resting /\ h.got = e.got
    BY <1>5, <1>6 DEF PairGives
  <2>2. ASSUME ~mixed PROVE h.at = Start /\ h.flags = e.flags
    <3>1. e.at = Start
      BY <1>1, <2>2 DEF Ends
    <3>2. CASE c = Decoding!Down("lshift") /\ b = Decoding!Down("star")
      <4>1. g.at = <<"print down", 1>> /\ g.flags = e.flags
        BY <1>2, <3>1, <3>2 DEF PairGives
      <4> QED
        BY <1>6, <3>2, <4>1 DEF PairGives
    <3>3. CASE c = Decoding!Up("star") /\ b = Decoding!Up("lshift")
      <4>1. g.at = <<"print up", 1>> /\ g.flags = e.flags
        BY <1>2, <3>1, <3>3 DEF PairGives
      <4> QED
        BY <1>6, <3>3, <4>1 DEF PairGives
    <3> QED
      BY <3>2, <3>3
  <2>3. held' \cap Decoding!Modifiers = held \cap Decoding!Modifiers
    BY DEF Decoding!Modifiers
  <2> QED
    BY <1>1, <2>1, <2>2, <2>3 DEF Ends
<1> QED
  BY <1>3, <1>6, <1>7, KeyboardKeeps, KeysFacts

\* Print screen.
LEMMA PrintScreenKeeps ==
  ASSUME KeysIInv, "print" \in DecodedKeys, Decoding!PrintScreen PROVE KeysIInv'
<1>1. /\ held' \in {held \ {"print"}, held \cup {"print"}} /\ UNCHANGED Decoding!shell
      /\ typed' = typed /\ mixed' = (mixed \/ Decoding!Shifts # {})
  BY DEF Decoding!PrintScreen
<1>2. held' \subseteq DecodedKeys
  BY <1>1, KeysFacts
<1>3. /\ Decoding!Down("lshift") \in Code /\ Decoding!Up("lshift") \in Code
      /\ Decoding!Down("star") \in Code /\ Decoding!Up("star") \in Code
  BY CodesAre DEF Coded
<1>4. CASE Decoding!Shifts = {}
  <2>1. Decoding!Sends(IF "print" \in held
          THEN <<Decoding!E0, Decoding!Up("star")>> \o <<Decoding!E0, Decoding!Up("lshift")>>
          ELSE <<Decoding!E0, Decoding!Down("lshift")>> \o <<Decoding!E0, Decoding!Down("star")>>)
    BY <1>4 DEF Decoding!PrintScreen
  <2>2. mixed' = mixed
    BY <1>1, <1>4, KeysFacts
  <2>3. CASE "print" \in held
    BY <1>1, <1>2, <1>3, <2>1, <2>2, <2>3, PlainPrintKeeps
  <2>4. CASE "print" \notin held
    BY <1>1, <1>2, <1>3, <2>1, <2>2, <2>4, PlainPrintKeeps
  <2> QED
    BY <2>3, <2>4
<1>5. CASE Decoding!Shifts # {}
  <2>1. Decoding!Sends(IF "print" \in held THEN <<Decoding!E0, Decoding!Up("star")>> \o <<>>
                       ELSE <<>> \o <<Decoding!E0, Decoding!Down("star")>>)
    BY <1>5 DEF Decoding!PrintScreen
  <2>2. \A c : /\ <<Decoding!E0, c>> \o <<>> = <<Decoding!E0, c>>
               /\ <<>> \o <<Decoding!E0, c>> = <<Decoding!E0, c>>
    OBVIOUS
  <2>3. mixed' = TRUE
    BY <1>1, <1>5
  <2>4. \A c \in Code : Decoding!Sends(<<Decoding!E0, c>>) => KeysIInv'
    BY <1>1, <1>2, <2>3, PairsKeep
  <2> QED
    BY <1>3, <2>1, <2>2, <2>4
<1> QED
  BY <1>4, <1>5

\* The codes of pause.
LEMMA PauseCodesAre ==
  /\ Decoding!PauseCodes \in Seq(Code)
  /\ Decoding!PauseCodes[2] = Decoding!Down("ctrl") /\ Decoding!PauseCodes[3] = Decoding!Down("num")
  /\ Decoding!PauseCodes[4] = Decoding!E1 /\ Decoding!PauseCodes[5] = Decoding!Up("ctrl")
  /\ Decoding!PauseCodes[6] = Decoding!Up("num")
<1>1. /\ Decoding!E1 \in Code /\ Decoding!Down("ctrl") \in Code /\ Decoding!Down("num") \in Code
      /\ Decoding!Up("ctrl") \in Code /\ Decoding!Up("num") \in Code
  BY CodesAre DEF Coded
<1> QED
  BY <1>1 DEF Decoding!PauseCodes

\* The code i of pause at its place, and one out of place.
LEMMA PauseOn ==
  ASSUME NEW e \in Decoder, NEW i \in 2 .. 6, e.at = <<"pause", i>>,
         NEW f, f = Behind(e, Decoding!PauseCodes[i])
  PROVE  /\ f \in Decoder /\ f.got = e.got /\ f.flags = e.flags
         /\ i < 6 => f.at = <<"pause", i + 1>>
         /\ i = 6 => f.at = Start
<1>1. f = IF i < 6 THEN Moved(e, <<"pause", i + 1>>) ELSE Moved(e, Start)
  BY AtPause
<1>2. PICK place : place = <<"pause", i + 1>>
  OBVIOUS
<1>3. f = IF i < 6 THEN Moved(e, place) ELSE Moved(e, Start)
  BY <1>1, <1>2
<1>4. f.got = e.got /\ f.flags = e.flags /\ f.at = IF i < 6 THEN place ELSE Start
  BY <1>3, MovedIs
<1>5. f \in Decoder
  BY BehindIsDecoder
<1> QED
  BY <1>2, <1>4, <1>5

LEMMA PauseBegins ==
  ASSUME NEW e \in Decoder, e.at = Start, NEW f, f = Behind(e, Decoding!E1)
  PROVE  f \in Decoder /\ f.got = e.got /\ f.flags = e.flags /\ f.at = <<"pause", 2>>
<1>1. PICK place : place = <<"pause", 2>>
  OBVIOUS
<1>2. f = Moved(e, place)
  BY <1>1, AtStart
<1>3. f.got = e.got /\ f.flags = e.flags /\ f.at = place
  BY <1>2, MovedIs
<1>4. f \in Decoder
  BY BehindIsDecoder
<1> QED
  BY <1>1, <1>3, <1>4

LEMMA SilentAtStart ==
  ASSUME NEW e \in Decoder, e.at = Start,
         NEW c \in {Decoding!Down("ctrl"), Decoding!Down("num"), Decoding!Up("num")},
         NEW f, f = Behind(e, c)
  PROVE  f \in Decoder /\ f.got = e.got /\ f.at = Start
<1>1. c # Decoding!E0 /\ c # Decoding!E1
  BY DEF Decoding!Up, Decoding!Down, Decoding!E0, Decoding!E1
<1>2. PICK make \in BOOLEAN : make = (c[1] = "down")
  OBVIOUS
<1>3. PICK k : k = c[2]
  OBVIOUS
<1>4. f = Taken(e, make, k)
  BY <1>1, <1>2, <1>3, AtStart
<1>5. k \in {"ctrl", "num"}
  BY <1>3 DEF Decoding!Up, Decoding!Down
<1>6. k \in Decoding!Modifiers \/ k \notin DOMAIN Decoding!Plain
  BY <1>5 DEF Decoding!Modifiers, Decoding!Plain
<1>7. f.at = Start /\ f.got = e.got
  BY <1>4, <1>6, TakenGives
<1>8. f \in Decoder
  BY BehindIsDecoder
<1> QED
  BY <1>7, <1>8

\* All of pause leaves a resting decoder at rest, with the characters it had.
LEMMA PauseRun ==
  ASSUME NEW e \in Decoder, e.at \in Resting,
         NEW f1, f1 = Behind(e, Decoding!E1),
         NEW f2, f2 = Behind(f1, Decoding!Down("ctrl")),
         NEW f3, f3 = Behind(f2, Decoding!Down("num")),
         NEW f4, f4 = Behind(f3, Decoding!E1),
         NEW f5, f5 = Behind(f4, Decoding!Up("ctrl")), NEW f6, f6 = Behind(f5, Decoding!Up("num"))
  PROVE  /\ f1.got = e.got /\ f2.got = f1.got /\ f3.got = f2.got
         /\ f4.got = f3.got /\ f5.got = f4.got /\ f6.got = f5.got
         /\ f6.at = Start /\ (e.at = Start => f6.flags = e.flags)
<1>1. CASE e.at = Start
  <2>1. f1 \in Decoder /\ f1.got = e.got /\ f1.flags = e.flags /\ f1.at = <<"pause", 2>>
    BY <1>1, PauseBegins
  <2>2. /\ 2 \in 2 .. 6 /\ 3 \in 2 .. 6 /\ 4 \in 2 .. 6 /\ 5 \in 2 .. 6 /\ 6 \in 2 .. 6
        /\ 2 + 1 = 3 /\ 3 + 1 = 4 /\ 4 + 1 = 5 /\ 5 + 1 = 6
        /\ 2 < 6 /\ 3 < 6 /\ 4 < 6 /\ 5 < 6
    OBVIOUS
  <2>3. f2 \in Decoder /\ f2.got = f1.got /\ f2.flags = f1.flags /\ f2.at = <<"pause", 3>>
    BY <2>1, <2>2, PauseOn, PauseCodesAre
  <2>4. f3 \in Decoder /\ f3.got = f2.got /\ f3.flags = f2.flags /\ f3.at = <<"pause", 4>>
    BY <2>3, <2>2, PauseOn, PauseCodesAre
  <2>5. f4 \in Decoder /\ f4.got = f3.got /\ f4.flags = f3.flags /\ f4.at = <<"pause", 5>>
    BY <2>4, <2>2, PauseOn, PauseCodesAre
  <2>6. f5 \in Decoder /\ f5.got = f4.got /\ f5.flags = f4.flags /\ f5.at = <<"pause", 6>>
    BY <2>5, <2>2, PauseOn, PauseCodesAre
  <2>7. f6.got = f5.got /\ f6.flags = f5.flags /\ f6.at = Start
    BY <2>6, <2>2, PauseOn, PauseCodesAre
  <2> QED
    BY <2>1, <2>3, <2>4, <2>5, <2>6, <2>7
<1>2. CASE e.at # Start
  <2>1. f1.at = Start /\ f1.got = e.got /\ f1 \in Decoder
    <3>1. f1 \in Decoder
      BY BehindIsDecoder
    <3>2. Decoding!E1 # Decoding!E0
      BY DEF Decoding!E1, Decoding!E0
    <3>3. CASE e.at = <<"print down", 1>>
      <4>1. f1 = Taken(e, TRUE, "lshift")
        BY <3>2, <3>3, AtPrint
      <4> QED
        BY <4>1, <3>1, ShiftAndStar
    <3>4. CASE e.at = <<"print up", 1>>
      <4>1. f1 = Taken(e, FALSE, "star")
        BY <3>2, <3>4, AtPrint
      <4> QED
        BY <4>1, <3>1, ShiftAndStar
    <3> QED
      BY <1>2, <3>3, <3>4 DEF Resting
  <2>2. f2 \in Decoder /\ f2.got = f1.got /\ f2.at = Start
    BY <2>1, SilentAtStart
  <2>3. f3 \in Decoder /\ f3.got = f2.got /\ f3.at = Start
    BY <2>2, SilentAtStart
  <2>4. f4 \in Decoder /\ f4.got = f3.got /\ f4.at = <<"pause", 2>>
    BY <2>3, PauseBegins
  <2>5. f5 \in Decoder /\ f5.got = f4.got /\ f5.at = Start
    <3>1. Decoding!Up("ctrl") # Decoding!PauseCodes[2]
      BY PauseCodesAre DEF Decoding!Up, Decoding!Down
    <3>2. 2 \in 2 .. 6
      OBVIOUS
    <3>3. f5 = Moved(f4, Start)
      BY <2>4, <3>1, <3>2, AtPause
    <3>4. f5 \in Decoder
      BY <2>4, BehindIsDecoder
    <3> QED
      BY <3>3, <3>4, MovedIs
  <2>6. f6.got = f5.got /\ f6.at = Start
    BY <2>5, SilentAtStart
  <2> QED
    BY <1>2, <2>1, <2>2, <2>3, <2>4, <2>5, <2>6
<1> QED
  BY <1>1, <1>2

\* Six codes, and that they are sent one behind the other.
Six(a, b, c, x, y, z) == <<a, b, c, x, y, z>>
Behind6(s, a, b, c, x, y, z) ==
  s \o Six(a, b, c, x, y, z) = Append(Append(Append(Append(Append(Append(s, a), b), c), x), y), z)

\* Six codes sent at once are six sent one behind the other.
LEMMA SixJoined ==
  ASSUME NEW s \in Seq(Code), NEW a \in Code, NEW b \in Code, NEW c \in Code,
         NEW x \in Code, NEW y \in Code, NEW z \in Code
  PROVE  Behind6(s, a, b, c, x, y, z)
<1>1. <<a, b, c, x, y, z>> = Append(Append(<<a, b, c, x>>, y), z)
  OBVIOUS
<1>2. <<a, b, c, x>> = Append(Append(<<a, b>>, c), x)
  OBVIOUS
<1>3. \A p \in Seq(Code), q \in Seq(Code), r \in Code :
        p \o Append(q, r) = Append(p \o q, r) /\ Append(q, r) \in Seq(Code)
  OBVIOUS
<1>4. s \o <<a, b>> = Append(Append(s, a), b)
  OBVIOUS
<1>5. <<a, b>> \in Seq(Code)
  OBVIOUS
<1>6. s \o <<a, b, c, x>> = Append(Append(Append(Append(s, a), b), c), x)
      /\ <<a, b, c, x>> \in Seq(Code)
  <2>1. PICK p \in Seq(Code) : p = <<a, b>>
    BY <1>5
  <2>2. PICK q \in Seq(Code) : q = Append(p, c)
    BY <1>3
  <2>3. s \o p = Append(Append(s, a), b)
    BY <1>4, <2>1
  <2>4. s \o q = Append(s \o p, c)
    BY <1>3, <2>2
  <2>5. s \o Append(q, x) = Append(s \o q, x) /\ Append(q, x) \in Seq(Code)
    BY <1>3
  <2>6. <<a, b, c, x>> = Append(q, x)
    BY <1>2, <2>1, <2>2
  <2> QED
    BY <2>3, <2>4, <2>5, <2>6
<1>7. PICK q \in Seq(Code) : q = <<a, b, c, x>>
  BY <1>6
<1>8. PICK r \in Seq(Code) : r = Append(q, y)
  BY <1>3
<1>9. s \o r = Append(s \o q, y) /\ s \o Append(r, z) = Append(s \o r, z)
  BY <1>3, <1>8
<1>10. Six(a, b, c, x, y, z) = Append(r, z)
  BY <1>1, <1>7, <1>8 DEF Six
<1>11. s \o q = Append(Append(Append(Append(s, a), b), c), x)
  BY <1>6, <1>7
<1> QED
  BY <1>9, <1>10, <1>11 DEF Behind6

\* Pause.
LEMMA PauseKeeps == ASSUME KeysIInv, Decoding!Pause PROVE KeysIInv'
<1>1. PICK e \in Decoder : Leads(Now, stream, typed, mixed, e) /\ Ends(e, held, typed, mixed)
  BY KeysFacts
<1>2. /\ Decoding!Sends(Decoding!PauseCodes) /\ UNCHANGED Decoding!shell
      /\ held' = held /\ typed' = typed /\ mixed' = mixed
  BY DEF Decoding!Pause, Decoding!keyboard
<1>3. /\ Decoding!E1 \in Code /\ Decoding!Down("ctrl") \in Code /\ Decoding!Down("num") \in Code
      /\ Decoding!Up("ctrl") \in Code /\ Decoding!Up("num") \in Code
  BY CodesAre DEF Coded
<1>4. PICK f1 : f1 = Behind(e, Decoding!E1)
  OBVIOUS
<1>5. PICK f2 : f2 = Behind(f1, Decoding!Down("ctrl"))
  OBVIOUS
<1>6. PICK f3 : f3 = Behind(f2, Decoding!Down("num"))
  OBVIOUS
<1>7. PICK f4 : f4 = Behind(f3, Decoding!E1)
  OBVIOUS
<1>8. PICK f5 : f5 = Behind(f4, Decoding!Up("ctrl"))
  OBVIOUS
<1>9. PICK f6 : f6 = Behind(f5, Decoding!Up("num"))
  OBVIOUS
<1>10. /\ f1.got = e.got /\ f2.got = f1.got /\ f3.got = f2.got
       /\ f4.got = f3.got /\ f5.got = f4.got /\ f6.got = f5.got
       /\ f6.at = Start /\ (e.at = Start => f6.flags = e.flags)
  BY <1>1, <1>4, <1>5, <1>6, <1>7, <1>8, <1>9, PauseRun DEF Ends
<1>11. PICK s1 : s1 = Append(stream, Decoding!E1)
  OBVIOUS
<1>12. PICK s2 : s2 = Append(s1, Decoding!Down("ctrl"))
  OBVIOUS
<1>13. PICK s3 : s3 = Append(s2, Decoding!Down("num"))
  OBVIOUS
<1>14. PICK s4 : s4 = Append(s3, Decoding!E1)
  OBVIOUS
<1>15. PICK s5 : s5 = Append(s4, Decoding!Up("ctrl"))
  OBVIOUS
<1>16. PICK s6 : s6 = Append(s5, Decoding!Up("num"))
  OBVIOUS
<1>17. Leads(Now, s1, typed, mixed, f1) /\ s1 \in Seq(Code)
  BY <1>1, <1>3, <1>4, <1>10, <1>11, LeadsSilently, KeysFacts
<1>18. Leads(Now, s2, typed, mixed, f2) /\ s2 \in Seq(Code)
  BY <1>17, <1>3, <1>5, <1>10, <1>12, LeadsSilently
<1>19. Leads(Now, s3, typed, mixed, f3) /\ s3 \in Seq(Code)
  BY <1>18, <1>3, <1>6, <1>10, <1>13, LeadsSilently
<1>20. Leads(Now, s4, typed, mixed, f4) /\ s4 \in Seq(Code)
  BY <1>19, <1>3, <1>7, <1>10, <1>14, LeadsSilently
<1>21. Leads(Now, s5, typed, mixed, f5) /\ s5 \in Seq(Code)
  BY <1>20, <1>3, <1>8, <1>10, <1>15, LeadsSilently
<1>22. Leads(Now, s6, typed, mixed, f6) /\ s6 \in Seq(Code)
  BY <1>21, <1>3, <1>9, <1>10, <1>16, LeadsSilently
<1>23. stream' = s6 /\ Len(stream') <= MaxCodes
  <2>1. stream' = stream \o Decoding!PauseCodes /\ Len(stream') <= MaxCodes
    BY <1>2, SendsLen, PauseCodesAre, KeysFacts
  <2>2. Decoding!PauseCodes = 
          <<Decoding!E1, Decoding!Down("ctrl"), Decoding!Down("num"), Decoding!E1,
            Decoding!Up("ctrl"), Decoding!Up("num")>>
    BY DEF Decoding!PauseCodes
  <2>3. stream \o Decoding!PauseCodes = s6
    <3>1. stream \in Seq(Code)
      BY KeysFacts
    <3>2. PICK ec \in Code, dc \in Code, dn \in Code, uc \in Code, un \in Code :
            /\ ec = Decoding!E1 /\ dc = Decoding!Down("ctrl") /\ dn = Decoding!Down("num")
            /\ uc = Decoding!Up("ctrl") /\ un = Decoding!Up("num")
      BY <1>3
    <3>3. Behind6(stream, ec, dc, dn, ec, uc, un)
      BY <3>1, SixJoined
    <3>4. s6 = Append(Append(Append(Append(Append(Append(stream, ec), dc), dn), ec), uc), un)
      BY <1>11, <1>12, <1>13, <1>14, <1>15, <1>16, <3>2
    <3>5. Decoding!PauseCodes = Six(ec, dc, dn, ec, uc, un)
      BY <2>2, <3>2 DEF Six
    <3> QED
      BY <3>3, <3>4, <3>5 DEF Behind6
  <2> QED
    BY <2>1, <2>3
<1>24. Ends(f6, held', typed', mixed')
  <2>1. Start \in Resting
    BY DEF Resting
  <2>2. ~mixed => e.at = Start /\ e.flags = held \cap Decoding!Modifiers /\ e.got = typed
    BY <1>1 DEF Ends
  <2>3. f6.got = e.got
    BY <1>10
  <2>4. ~mixed => f6.flags = held \cap Decoding!Modifiers /\ f6.got = typed
    BY <1>10, <2>2, <2>3
  <2> QED
    BY <1>2, <1>10, <2>1, <2>4 DEF Ends
<1>25. /\ held' \subseteq DecodedKeys /\ typed' \in Seq(Decoding!Characters)
       /\ Len(typed') <= MaxTyped /\ mixed' \in BOOLEAN
  BY <1>2, KeysFacts
<1>26. Decoding!TypeOK /\ UNCHANGED Decoding!shell
  BY <1>2, KeysFacts
<1>27. /\ stream' \in Seq(Code) /\ Len(stream') <= MaxCodes
       /\ Leads(Now, stream', typed', mixed', f6)
  BY <1>2, <1>22, <1>23
<1> QED
  BY <1>24, <1>25, <1>26, <1>27, KeyboardKeeps

-----------------------------------------------------------------------------
\* The shell reads a code.
LEMMA ReadKeeps == ASSUME KeysIInv, Decoding!GetScancode PROVE KeysIInv'
<1>1. PICK e \in Decoder : Leads(Now, stream, typed, mixed, e) /\ Ends(e, held, typed, mixed)
  BY KeysFacts
<1>2. /\ stream # <<>> /\ stream' = Tail(stream)
      /\ held' = held /\ typed' = typed /\ mixed' = mixed
  BY DEF Decoding!GetScancode, Decoding!keyboard
<1>3. /\ at \in Decoding!Places /\ line \in Seq(Decoding!Characters)
      /\ command.index \in 0 .. Len(Names) /\ Len(stream) <= MaxCodes
  BY KeysFacts DEF Decoding!TypeOK
<1>4. /\ Now' = Behind(Now, Head(stream))
      /\ line' \in Seq(Decoding!Characters) /\ command'.index \in 0 .. Len(Names)
  BY <1>3, ReadIs
<1>5. PICK n : n = Behind(Now, Head(stream))
  OBVIOUS
<1>6. Leads(n, Tail(stream), typed, mixed, e)
  BY <1>1, <1>2, <1>5, LeadsOn, KeysFacts
<1>7. Tail(stream) \in Seq(Code) /\ Len(Tail(stream)) <= Len(stream)
  BY <1>2, KeysFacts
<1>8. n \in Decoder
  BY <1>6, <1>7, LeadsFits
<1>9. Now' = n
  BY <1>4, <1>5
<1>10. at' = n.at /\ flags' = n.flags /\ got' = n.got
  BY <1>9 DEF Now
<1>11. Decoding!TypeOK'
  <2>1. at' \in Decoding!Places /\ flags' \subseteq Decoding!Modifiers
        /\ got' \in Seq(Decoding!Characters)
    BY <1>8, <1>10 DEF Decoder
  <2>2. MaxCodes \in Nat
    BY ShellsAssumption DEF Decoding!ShellAssumption
  <2>3. Len(stream') <= MaxCodes
    BY <1>2, <1>3, <1>7, <2>2, KeysFacts
  <2> QED
    BY <2>1, <2>3, <1>2, <1>4, KeysFacts DEF Decoding!TypeOK
<1> HIDE DEF Now
<1> QED
  BY <1>1, <1>2, <1>6, <1>7, <1>9, <1>11 DEF KeysIInv

\* What there is in the beginning, and every step.
LEMMA KeysBegin == Decoding!Init => KeysIInv
<1> SUFFICES ASSUME Decoding!Init PROVE KeysIInv
  OBVIOUS
<1>1. /\ held = {} /\ stream = <<>> /\ at = Start /\ flags = {} /\ line = <<>>
      /\ command.index = 0 /\ typed = <<>> /\ got = <<>> /\ mixed = FALSE
  BY DEF Decoding!Init, Decoding!NoCommand, Start
<1>2. <<>> \in Seq(Decoding!Characters) /\ <<>> \in Seq(Code)
  BY SeqEmpty
<1>3. Decoding!TypeOK
  <2>1. MaxCodes \in Nat /\ MaxTyped \in Nat /\ 0 \in 0 .. Len(Names)
    BY ShellsAssumption DEF Decoding!ShellAssumption, Names
  <2>2. Len(stream) <= MaxCodes /\ Len(typed) <= MaxTyped
    BY <1>1, <2>1
  <2>3. {typed, got, line} \subseteq Seq(Decoding!Characters)
    BY <1>1, <1>2
  <2>4. at \in Decoding!Places /\ flags \subseteq Decoding!Modifiers /\ held \subseteq DecodedKeys
    BY <1>1, PlacesAre
  <2>5. command.index \in 0 .. Len(Names) /\ mixed \in BOOLEAN
    BY <1>1, <2>1
  <2> QED
    BY <2>2, <2>3, <2>4, <2>5 DEF Decoding!TypeOK
<1>4. Now \in Decoder
  BY <1>1, <1>2, PlacesAre DEF Now, Decoder
<1>5. Leads(Now, stream, typed, mixed, Now)
  <2>1. PICK n \in Decoder : n = Now /\ n.got = <<>>
    BY <1>1, <1>4 DEF Now
  <2> DEFINE st == [i \in 0 .. 0 |-> n]
  <2>2. st \in [0 .. Len(<<>>) -> Decoder] /\ st[0] = n /\ st[Len(<<>>)] = n
    OBVIOUS
  <2>3. \A i \in 1 .. Len(<<>>) : st[i] = Behind(st[i - 1], <<>>[i])
    OBVIOUS
  <2>4. \A i \in 0 .. Len(<<>>) : Fits(st[i].got, <<>>, FALSE)
    BY <2>1, FitsInTheBeginning
  <2> HIDE DEF st
  <2>5. Leads(n, <<>>, <<>>, FALSE, n)
    BY <2>2, <2>3, <2>4 DEF Leads
  <2> QED
    BY <1>1, <2>1, <2>5
<1>6. Ends(Now, held, typed, mixed)
  BY <1>1 DEF Ends, Now, Resting
<1> QED
  BY <1>1, <1>2, <1>3, <1>4, <1>5, <1>6 DEF KeysIInv

LEMMA KeysStep == ASSUME KeysIInv, Decoding!Next PROVE KeysIInv'
<1>1. ASSUME NEW k \in DecodedKeys, Decoding!Press(k) PROVE KeysIInv'
  BY <1>1, ModifierKeeps, CharacterKeeps
<1>2. ASSUME NEW k \in DecodedKeys, Decoding!Release(k) PROVE KeysIInv'
  BY <1>2, ReleaseKeeps
<1>3. ASSUME NEW k \in DecodedKeys, Decoding!Right(k) PROVE KeysIInv'
  BY <1>3, RightKeeps
<1> QED
  BY <1>1, <1>2, <1>3, ArrowKeeps, PrintScreenKeeps, PauseKeeps, ReadKeeps
     DEF Decoding!Next, Decoding!Type

\* What the invariant says when it is looked at from outside.
LEMMA KeysAreRead == KeysIInv => Decoding!Sound
<1> SUFFICES ASSUME KeysIInv PROVE Decoding!Sound
  OBVIOUS
<1>1. PICK e \in Decoder : Leads(Now, stream, typed, mixed, e) /\ Ends(e, held, typed, mixed)
  BY KeysFacts
<1>2. /\ Now.at = at /\ Now.flags = flags /\ Now.got = got
  BY DEF Now
<1>3. Fits(got, typed, mixed) /\ (stream = <<>> => Now = e)
  BY <1>1, <1>2, LeadsFits, KeysFacts
<1>4. stream = <<>> => e.at = at /\ e.flags = flags /\ e.got = got
  BY <1>2, <1>3
<1>5. Decoding!ModifiersAgree
  BY <1>1, <1>4 DEF Ends, Decoding!ModifiersAgree, Start
<1>6. Decoding!ReadAsTyped
  BY <1>1, <1>3, <1>4 DEF Ends, Fits, Decoding!ReadAsTyped
<1>7. Decoding!NothingInvented
  BY <1>3 DEF Fits, Matched, Decoding!NothingInvented
<1> QED
  BY <1>5, <1>6, <1>7, KeysFacts DEF Decoding!Sound

\* However far behind the shell is, its characters are those that were typed, in order and
\* with the shifts of their time, and its modifiers those of the keyboard when it has read
\* everything, as long as no arrow and no print screen moved with a shift down; and even
\* then it makes no character that nobody typed (init.c:222, 228, 230).
THEOREM KeysStayRead == AllSpec => []KeysRead
<1> DEFINE I == part = "keys" => KeysIInv
<1>1. AllInit => I
  BY KeysBegin DEF AllInit
<1>2. I /\ [AllNext]_allVars => I'
  <2> SUFFICES ASSUME I, [AllNext]_allVars, part' = "keys" PROVE KeysIInv'
    OBVIOUS
  <2>1. CASE KeysNext
    BY <2>1, KeysStep DEF KeysNext
  <2>2. CASE UNCHANGED shellVars /\ part' = part
    <3>1. KeysIInv
      BY <2>2
    <3>2. Decoding!TypeOK'
      BY <2>2, <3>1, KeysFacts DEF Decoding!TypeOK, shellVars
    <3>3. Now' = Now /\ stream' = stream /\ typed' = typed /\ mixed' = mixed /\ held' = held
      BY <2>2 DEF Now, shellVars
    <3> HIDE DEF Now
    <3> QED
      BY <3>1, <3>2, <3>3 DEF KeysIInv
  <2>3. CASE LinesNext
    BY <2>3 DEF LinesNext, AllInit
  <2> QED
    BY <2>1, <2>2, <2>3 DEF AllNext, FilesNext, allVars
<1>3. I => KeysRead
  BY KeysAreRead DEF KeysRead
<1> QED
  BY <1>1, <1>2, <1>3, PTL DEF AllSpec
=============================================================================
