------------------------------ MODULE FatProofs ------------------------------
(***************************************************************************)
(* The files of the FAT32 driver for every number of tasks, files, copies  *)
(* of the table and clusters, of any size.  Base holds whatever happens;   *)
(* CopiesKept, LengthKept and InodeKept say how far a call has got with    *)
(* the copies of the table, its lengths and its inode.  For the chains,    *)
(* there is a map of the clusters, Mapped, that is not in the state: whose *)
(* a cluster is and how far from the first of its chain.  It grows with    *)
(* each allocation and never changes else, which is why no stale inode, no *)
(* kept sector and no order of the transfers brings two files together.    *)
(***************************************************************************)
EXTENDS MCVolume, FiniteSetTheorems, WellFoundedInduction, TLAPS

-----------------------------------------------------------------------------
\* What a step makes of a task's call and of its open file.
Becomes(t, c, h) ==
  call' = [call EXCEPT ![t] = c] /\ handle' = [handle EXCEPT ![t] = h]

\* The constants.
LEMMA Constants ==
  /\ Cluster \subseteq Nat /\ 0 \notin Cluster /\ Eoc \notin Cluster /\ Eoc # 0 /\ Entry \subseteq Nat
  /\ Entry = Cluster \cup {0, Eoc} /\ 1 \in Copy /\ Copy \subseteq Nat /\ NumFATs \in Copy
  /\ 2 \in Cluster /\ 3 \in Cluster /\ IsFiniteSet(Cluster) /\ Cardinality(Cluster) = Last - 1
<1>1. /\ Cluster \subseteq Nat /\ 0 \notin Cluster /\ Eoc \notin Cluster /\ Eoc # 0 /\ Entry \subseteq Nat
      /\ Entry = Cluster \cup {0, Eoc} /\ 1 \in Copy /\ Copy \subseteq Nat /\ NumFATs \in Copy
      /\ 2 \in Cluster /\ 3 \in Cluster
  BY FatAssumption DEF Cluster, Entry, Eoc, Copy
<1>2. IsFiniteSet(Cluster) /\ Cardinality(Cluster) = Last - 1
  BY FatAssumption, FS_Interval DEF Cluster
<1> QED
  BY <1>1, <1>2

\* No call, and nothing read.
LEMMA Nones ==
  /\ None \in Calls /\ NoTable \in Table /\ NoDirectory \in Directory
  /\ None.at = "out" /\ None.op = "read" /\ None.for = "size" /\ None.left = 0
  /\ None.cluster = 0 /\ None.next = 0 /\ None.flags = FALSE /\ None.sector = 0
  /\ None.steps = 0 /\ None.copy = 0
<1>1. NoTable \in Table
  BY Constants DEF NoTable, Table
<1>2. NoDirectory \in Directory
  BY Constants DEF NoDirectory, Directory
<1>3. 0 \in Entry /\ 0 \in 0 .. NumFATs /\ 0 \in Int /\ 0 \in Nat /\ "out" \in Places
  BY Constants, FatAssumption DEF Places
<1>4. None \in Calls
  BY <1>1, <1>2, <1>3 DEF None, Calls
<1> QED
  BY <1>1, <1>2, <1>4 DEF None

\* The values of a call's fields, one by one.
LEMMA Fields ==
  ASSUME NEW r \in Calls
  PROVE  /\ r.at \in Places /\ r.op \in {"read", "write"} /\ r.for \in {"first", "append", "size"}
         /\ r.left \in Int /\ r.cluster \in Entry /\ r.next \in Entry /\ r.flags \in BOOLEAN
         /\ r.sector \in Entry /\ r.steps \in Nat /\ r.copy \in 0 .. NumFATs
         /\ r.table \in Table /\ r.directory \in Directory
BY DEF Calls
\* And those of an open file's.
LEMMA HandleFields ==
  ASSUME NEW h \in Handles
  PROVE  /\ h.file \in File \cup {NoFile} /\ h.mode \in {"plain", "trunc"} /\ h.size \in Nat
         /\ h.first \in Entry /\ h.position \in Nat
BY DEF Handles

\* What a step of one task leaves to the others.
LEMMA BecomesMeans ==
  ASSUME TypeOK, NEW t \in Task, NEW c \in Calls, NEW h \in Handles, Becomes(t, c, h)
  PROVE  /\ call' \in [Task -> Calls] /\ handle' \in [Task -> Handles]
         /\ call'[t] = c /\ handle'[t] = h
         /\ \A u \in Task : u # t => call'[u] = call[u] /\ handle'[u] = handle[u]
BY DEF TypeOK, Becomes
-----------------------------------------------------------------------------
\* What each step does, field by field.
LEMMA OpenDoes ==
  ASSUME TypeOK, NEW t \in Task, Open(t)
  PROVE  \E h \in Handles :
           /\ Becomes(t, call[t], h) /\ call[t].at = "out" /\ h.file \in File
           /\ h.first = directory[h.file].first /\ h.position <= h.size
           /\ h.mode = "plain" => h.size = directory[h.file].size
           /\ struck \subseteq struck' /\ struck' \subseteq struck \cup {"twice"} /\ ~IsOpen(t)
           /\ "twice" \notin struck' => \A u \in Task : handle[u].file # h.file
<1>1. PICK f \in File, mode \in {"plain", "trunc"}, append \in BOOLEAN :
        LET size == IF mode = "trunc" THEN 0 ELSE directory[f].size
        IN  /\ handle' = [handle EXCEPT ![t] =
                 [file |-> f, mode |-> mode, size |-> size,
                  first |-> directory[f].first,
                  position |-> IF append THEN size ELSE 0]]
            /\ struck' = struck \cup
                 (IF \E u \in Task : handle[u].file = f THEN {"twice"} ELSE {})
  BY DEF Open
<1>2. PICK size \in Nat : size = IF mode = "trunc" THEN 0 ELSE directory[f].size
  BY DEF TypeOK, Directory
<1>3. PICK position \in Nat : position = IF append THEN size ELSE 0
  OBVIOUS
<1>4. PICK first \in Entry : first = directory[f].first
  BY DEF TypeOK, Directory
<1>5. PICK h \in Handles : h = [file |-> f, mode |-> mode, size |-> size, first |-> first,
                                position |-> position]
  BY DEF Handles
<1>6. h.file = f /\ h.first = directory[h.file].first /\ h.position <= h.size /\ h.mode = mode /\ h.size = size
  BY <1>2, <1>3, <1>4, <1>5
<1>7. handle' = [handle EXCEPT ![t] = h]
  BY <1>1, <1>2, <1>3, <1>4, <1>5
<1>8. call' = [call EXCEPT ![t] = call[t]]
  BY DEF Open, TypeOK
<1>9. /\ struck \subseteq struck' /\ struck' \subseteq struck \cup {"twice"}
      /\ "twice" \notin struck' => \A u \in Task : handle[u].file # f
  BY <1>1
<1> QED
  BY <1>2, <1>6, <1>7, <1>8, <1>9 DEF Open, Idle, Becomes

\* A closed handle holds nothing.
LEMMA CloseDoes ==
  ASSUME TypeOK, NEW t \in Task, Close(t)
  PROVE  \E h \in Handles :
           /\ Becomes(t, call[t], h) /\ call[t].at = "out"
           /\ h.file = NoFile /\ h.position = 0 /\ h.size = 0 /\ h.first = 0
<1>1. PICK h \in Handles : h = Closed
  BY Constants DEF Closed, Handles
<1>2. call' = [call EXCEPT ![t] = call[t]]
  BY DEF Close, TypeOK
<1>3. h.file = NoFile /\ h.position = 0 /\ h.size = 0 /\ h.first = 0
  BY <1>1 DEF Closed
<1> QED
  BY <1>1, <1>2, <1>3 DEF Close, Idle, Becomes

\* FAT32_lseek changes the position only, and leaves it inside the file.
LEMMA SeekDoes ==
  ASSUME TypeOK, NEW t \in Task, Seek(t)
  PROVE  \E h \in Handles :
           /\ Becomes(t, call[t], h) /\ call[t].at = "out" /\ h.position <= h.size
           /\ h.file = handle[t].file /\ h.mode = handle[t].mode /\ h.size = handle[t].size
           /\ h.first = handle[t].first
<1>1. PICK pos \in 0 .. handle[t].size : handle' = [handle EXCEPT ![t].position = pos]
  BY DEF Seek
<1>2. PICK r \in Handles : r = handle[t]
  BY DEF TypeOK
<1>3. pos \in Nat /\ pos <= r.size
  BY <1>2, HandleFields
<1>4. PICK h \in Handles : h = [r EXCEPT !.position = pos]
  BY <1>3 DEF Handles
<1>5. h.position <= h.size /\ h.file = r.file /\ h.mode = r.mode /\ h.size = r.size /\ h.first = r.first
  BY <1>3, <1>4 DEF Handles
<1>6. handle' = [handle EXCEPT ![t] = h]
  BY <1>1, <1>2, <1>4
<1>7. call' = [call EXCEPT ![t] = call[t]]
  BY DEF Seek, TypeOK
<1> QED
  BY <1>2, <1>5, <1>6, <1>7 DEF Seek, Idle, Becomes

\* The parts of a position: which cluster it is in, and where.
LEMMA Parts ==
  ASSUME TypeOK, NEW t \in Task
  PROVE  Index(t) \in Nat /\ Offset(t) \in Nat /\ Offset(t) < Bytes /\ handle[t].position \in Nat
<1>1. handle[t].position \in Nat
  BY DEF TypeOK, Handles
<1> QED
  BY <1>1, FatAssumption DEF Index, Offset

\* What is left of a cluster leads to the next one's beginning.
LEMMA RoundsUp == ASSUME NEW p \in Nat PROVE (p + (Bytes - (p % Bytes))) % Bytes = 0
<1>1. p = Bytes * (p \div Bytes) + (p % Bytes) /\ p \div Bytes \in Nat
  BY FatAssumption
<1>2. PICK q \in Nat : q = p \div Bytes
  BY FatAssumption
<1>3. p + (Bytes - (p % Bytes)) = Bytes * (q + 1)
  BY <1>1, <1>2, FatAssumption
<1>4. (Bytes * (q + 1)) % Bytes = 0
  BY FatAssumption
<1> QED
  BY <1>3, <1>4

\* A read takes no more than there is, so that its count is not negative inside the file.
LEMMA ReadDoes ==
  ASSUME TypeOK, NEW t \in Task, Read(t)
  PROVE  \E c \in Calls :
           /\ Becomes(t, c, handle[t]) /\ call[t].at = "out" /\ handle[t].file # NoFile
           /\ handle[t].first # 0 /\ c.op = "read" /\ c.for = "size" /\ c.sector = 0
           /\ c.at = IF Index(t) > 0 THEN "walk" ELSE "load"
           /\ c.cluster = handle[t].first /\ c.steps = Index(t)
           /\ c.left <= handle[t].size - handle[t].position
           /\ handle[t].position <= handle[t].size => c.left >= 0
<1>1. PICK count \in Counts : call' = [call EXCEPT ![t] = [None EXCEPT
         !.at = IF Index(t) > 0 THEN "walk" ELSE "load",
         !.left = Smaller(count, handle[t].size - handle[t].position),
         !.cluster = handle[t].first, !.steps = Index(t)]]
  BY DEF Read, Step
<1>2. PICK left \in Int : left = Smaller(count, handle[t].size - handle[t].position)
  BY FatAssumption DEF TypeOK, Handles, Smaller
<1>3. PICK place \in Places : place = IF Index(t) > 0 THEN "walk" ELSE "load"
  BY DEF Places
<1>4. Index(t) \in Nat /\ handle[t].first \in Entry
  BY Parts, HandleFields DEF TypeOK
<1>5. PICK c1 : c1 = [None EXCEPT !.at = place, !.left = left]
  OBVIOUS
<1>6. c1 \in Calls /\ c1.at = place /\ c1.left = left /\ c1.op = "read" /\ c1.for = "size" /\ c1.sector = 0
  <2>1. c1 \in Calls
    BY <1>5, Nones DEF Calls
  <2> QED
    BY <1>5, <2>1, Nones DEF Calls
<1>7. PICK c : c = [c1 EXCEPT !.cluster = handle[t].first, !.steps = Index(t)]
  OBVIOUS
<1>8. /\ c \in Calls /\ c.at = place /\ c.left = left /\ c.op = "read" /\ c.for = "size" /\ c.sector = 0
      /\ c.cluster = handle[t].first /\ c.steps = Index(t)
  BY <1>4, <1>6, <1>7 DEF Calls
<1>9. call' = [call EXCEPT ![t] = c]
  BY <1>1, <1>2, <1>3, <1>5, <1>7
<1>10. handle' = [handle EXCEPT ![t] = handle[t]]
  BY DEF Read, TypeOK
<1>11. left <= handle[t].size - handle[t].position /\ (handle[t].position <= handle[t].size => left >= 0)
  <2>1. count \in Int /\ count > 0 /\ handle[t].size - handle[t].position \in Int
        /\ handle[t].size \in Int /\ handle[t].position \in Int
    BY FatAssumption DEF TypeOK, Handles
  <2> QED
    BY <1>2, <2>1 DEF Smaller
<1> QED
  BY <1>3, <1>8, <1>9, <1>10, <1>11 DEF Read, Idle, IsOpen, Becomes

\* A write of a file without clusters goes to look for one, another to its position.
LEMMA WriteDoes ==
  ASSUME TypeOK, NEW t \in Task, Write(t)
  PROVE  \E c \in Calls :
           /\ Becomes(t, c, handle[t]) /\ call[t].at = "out" /\ handle[t].file # NoFile
           /\ c.op = "write" /\ c.sector = 0 /\ c.left > 0
           /\ handle[t].first = 0 =>
                c.at = "find" /\ c.for = "first" /\ c.flags
           /\ handle[t].first # 0 =>
                /\ c.at = IF Index(t) > 0 THEN "walk" ELSE "load"
                /\ c.for = "size" /\ ~c.flags
                /\ c.cluster = handle[t].first /\ c.steps = Index(t)
<1>1. PICK count \in Counts : call' = [call EXCEPT ![t] = [None EXCEPT
            !.op = "write", !.left = count, !.cluster = handle[t].first,
            !.at = IF handle[t].first = 0 THEN "find"
                   ELSE IF Index(t) > 0 THEN "walk" ELSE "load",
            !.for = IF handle[t].first = 0 THEN "first" ELSE "size",
            !.flags = handle[t].first = 0,
            !.steps = IF handle[t].first = 0 THEN 0 ELSE Index(t)]]
  BY DEF Write, Step
<1>2. count \in Int /\ count > 0
  BY FatAssumption
<1>3. PICK place \in Places : place = IF handle[t].first = 0 THEN "find"
                   ELSE IF Index(t) > 0 THEN "walk" ELSE "load"
  BY DEF Places
<1>4. handle[t].first \in Entry
  BY HandleFields DEF TypeOK
<1>5. PICK steps \in Nat : steps = IF handle[t].first = 0 THEN 0 ELSE Index(t)
  BY Parts
<1>6. PICK what \in {"first", "append", "size"} : what = IF handle[t].first = 0 THEN "first" ELSE "size"
  OBVIOUS
<1>7. PICK flags \in BOOLEAN : flags = (handle[t].first = 0)
  OBVIOUS
<1>8. PICK c1 \in Calls : c1 = [None EXCEPT !.op = "write", !.left = count] /\ c1.op = "write" /\ c1.left = count
                          /\ c1.sector = 0
  <2>1. PICK c1 : c1 = [None EXCEPT !.op = "write", !.left = count]
    OBVIOUS
  <2>2. c1 \in Calls
    BY <1>2, <2>1, Nones DEF Calls
  <2> QED
    BY <1>2, <2>1, <2>2, Nones DEF Calls
<1>9. PICK c2 \in Calls : /\ c2 = [c1 EXCEPT !.cluster = handle[t].first, !.at = place] /\ c2.at = place
                          /\ c2.op = "write" /\ c2.left = count /\ c2.sector = 0 /\ c2.cluster = handle[t].first
  <2>1. PICK c2 : c2 = [c1 EXCEPT !.cluster = handle[t].first, !.at = place]
    OBVIOUS
  <2>2. c2 \in Calls
    BY <1>4, <1>8, <2>1 DEF Calls
  <2> QED
    BY <1>8, <2>1, <2>2 DEF Calls
<1>10. PICK c3 \in Calls : /\ c3 = [c2 EXCEPT !.for = what, !.flags = flags] /\ c3.for = what /\ (c3.flags <=> flags)
                           /\ c3.op = "write" /\ c3.left = count /\ c3.sector = 0 /\ c3.at = place
                           /\ c3.cluster = handle[t].first
  <2>1. PICK c3 : c3 = [c2 EXCEPT !.for = what, !.flags = flags]
    OBVIOUS
  <2>2. c3 \in Calls
    BY <1>9, <2>1 DEF Calls
  <2> QED
    BY <1>9, <2>1, <2>2 DEF Calls
<1>11. PICK c \in Calls : /\ c = [c3 EXCEPT !.steps = steps] /\ c.steps = steps
                          /\ c.for = what /\ (c.flags <=> flags)
                          /\ c.op = "write" /\ c.left = count /\ c.sector = 0 /\ c.at = place
                          /\ c.cluster = handle[t].first
  <2>1. PICK c : c = [c3 EXCEPT !.steps = steps]
    OBVIOUS
  <2>2. c \in Calls
    BY <1>10, <2>1 DEF Calls
  <2> QED
    BY <1>10, <2>1, <2>2 DEF Calls
<1>12. call' = [call EXCEPT ![t] = c]
  BY <1>1, <1>3, <1>5, <1>6, <1>7, <1>8, <1>9, <1>10, <1>11
<1>13. handle' = [handle EXCEPT ![t] = handle[t]]
  BY DEF Write, TypeOK
<1> QED
  BY <1>2, <1>3, <1>5, <1>6, <1>7, <1>11, <1>12, <1>13 DEF Write, Idle, IsOpen, Becomes

\* A call that ends leaves its file as it is.
LEMMA NoneDoes ==
  ASSUME TypeOK, NEW t \in Task, call' = [call EXCEPT ![t] = None], UNCHANGED handle
  PROVE  Becomes(t, None, handle[t])
BY DEF TypeOK, Becomes

\* An entry of the table leads to an entry.
LEMMA NextOfIs ==
  ASSUME TypeOK, NEW x \in Entry, NEW c \in NextOf(x)
  PROVE  c \in Entry /\ (x \in Cluster => c = table[1][x]) /\ (x = 0 => c = Eoc)
BY Constants DEF TypeOK, Table, NextOf

\* The walk goes one entry on, and ends without space or at the cluster of the position.
LEMMA WalkDoes ==
  ASSUME TypeOK, NEW t \in Task, Walk(t)
  PROVE  \E c \in NextOf(call[t].cluster) :
           /\ call[t].at = "walk" /\ struck \subseteq struck'
           /\ call[t].op = "write" /\ c = Eoc => "edge" \in struck'
           /\ struck' \subseteq struck \cup {"edge"}
           /\ IF Arrived(t) /\ call[t].op = "write" /\ c = 0
              THEN Becomes(t, None, handle[t])
              ELSE \E d : /\ call[t].steps > 0 => d \in Calls
                          /\ Becomes(t, d, handle[t])
                          /\ d.at = IF Arrived(t) THEN "load" ELSE "walk"
                          /\ d.cluster = c /\ d.steps = call[t].steps - 1
                          /\ d.op = call[t].op /\ d.for = call[t].for /\ d.left = call[t].left
                          /\ d.flags = call[t].flags /\ d.sector = call[t].sector
<1>1. PICK c \in NextOf(call[t].cluster) :
        /\ call' = [call EXCEPT ![t] =
                IF Arrived(t) /\ call[t].op = "write" /\ c = 0 THEN None
                ELSE [call[t] EXCEPT !.cluster = c, !.steps = call[t].steps - 1,
                               !.at = IF Arrived(t) THEN "load" ELSE "walk"]]
        /\ struck' = struck \cup (IF call[t].op = "write" /\ c = Eoc THEN {"edge"} ELSE {})
  BY DEF Walk
<1>2. PICK r \in Calls : r = call[t]
  BY DEF TypeOK
<1>3. PICK place \in Places : place = IF Arrived(t) THEN "load" ELSE "walk"
  BY DEF Places
<1>4. PICK d1 : d1 = [r EXCEPT !.cluster = c, !.steps = r.steps - 1]
  OBVIOUS
<1>5. c \in Entry
  BY <1>2, NextOfIs, Fields
<1>6. r.steps > 0 => d1 \in Calls
  <2> HAVE r.steps > 0
  <2>1. r.steps - 1 \in Nat
    BY Fields
  <2> QED
    BY <1>4, <1>5, <2>1 DEF Calls
<1>7. /\ d1.cluster = c /\ d1.steps = r.steps - 1 /\ d1.op = r.op /\ d1.for = r.for /\ d1.left = r.left
      /\ d1.flags = r.flags /\ d1.sector = r.sector /\ "at" \in DOMAIN d1
  BY <1>4 DEF Calls
<1>8. PICK d : d = [d1 EXCEPT !.at = place]
  OBVIOUS
<1>9. r.steps > 0 => d \in Calls
  BY <1>6, <1>8 DEF Calls
<1>10. /\ d.at = place /\ d.cluster = c /\ d.steps = r.steps - 1 /\ d.op = r.op /\ d.for = r.for /\ d.left = r.left
       /\ d.flags = r.flags /\ d.sector = r.sector
  BY <1>7, <1>8
<1>11. CASE Arrived(t) /\ call[t].op = "write" /\ c = 0
  <2>1. Becomes(t, None, handle[t])
    BY <1>1, <1>11, NoneDoes DEF Walk
  <2> QED
    BY <1>1, <1>11, <2>1 DEF Walk
<1>12. CASE ~(Arrived(t) /\ call[t].op = "write" /\ c = 0)
  <2>1. call' = [call EXCEPT ![t] = d]
    <3>1. call' = [call EXCEPT ![t] = [r EXCEPT !.cluster = c, !.steps = r.steps - 1, !.at = place]]
      BY <1>1, <1>2, <1>3, <1>12
    <3> QED
      BY <1>4, <1>8, <3>1
  <2>2. handle' = [handle EXCEPT ![t] = handle[t]]
    BY DEF TypeOK, Walk
  <2>3. Becomes(t, d, handle[t])
    BY <2>1, <2>2 DEF Becomes
  <2> QED
    BY <1>1, <1>2, <1>3, <1>9, <1>10, <1>12, <2>3 DEF Walk
<1> QED
  BY <1>11, <1>12

\* The free cluster that is found becomes the inode's first one.
LEMMA FindFirstDoes ==
  ASSUME TypeOK, NEW t \in Task, FindFirst(t)
  PROVE  \E c \in Calls, h \in Handles, x \in Cluster :
           /\ Available(x) /\ Becomes(t, c, h) /\ call[t].at = "find" /\ call[t].for = "first"
           /\ h.first = x /\ h.file = handle[t].file /\ h.mode = handle[t].mode
           /\ h.size = handle[t].size /\ h.position = handle[t].position
           /\ c.at = "readDirectory" /\ c.cluster = x
           /\ c.op = call[t].op /\ c.for = call[t].for /\ c.left = call[t].left
           /\ c.next = call[t].next /\ c.flags = call[t].flags /\ c.sector = call[t].sector
           /\ c.steps = call[t].steps /\ c.copy = call[t].copy
<1>1. PICK x \in Cluster :
        /\ Available(x) /\ handle' = [handle EXCEPT ![t].first = x]
        /\ call' = [call EXCEPT ![t] = [call[t] EXCEPT !.at = "readDirectory", !.cluster = x]]
  BY DEF FindFirst, Step
<1>2. PICK r \in Calls : r = call[t]
  BY DEF TypeOK
<1>3. PICK g \in Handles : g = handle[t]
  BY DEF TypeOK
<1>4. PICK c : c = [r EXCEPT !.at = "readDirectory", !.cluster = x]
  OBVIOUS
<1>5. x \in Entry /\ "readDirectory" \in Places
  BY DEF Entry, Places
<1>6. c \in Calls
  BY <1>4, <1>5 DEF Calls
<1>7. /\ c.at = "readDirectory" /\ c.cluster = x
      /\ c.op = r.op /\ c.for = r.for /\ c.left = r.left /\ c.next = r.next
      /\ c.flags = r.flags /\ c.sector = r.sector /\ c.steps = r.steps /\ c.copy = r.copy
  BY <1>4 DEF Calls
<1>8. PICK h : h = [g EXCEPT !.first = x]
  OBVIOUS
<1>9. h \in Handles
  BY <1>5, <1>8 DEF Handles
<1>10. h.first = x /\ h.file = g.file /\ h.mode = g.mode /\ h.size = g.size /\ h.position = g.position
  BY <1>8 DEF Handles
<1>11. Becomes(t, c, h)
  BY <1>1, <1>2, <1>3, <1>4, <1>8 DEF Becomes
<1>12. call[t].at = "find" /\ call[t].for = "first"
  BY DEF FindFirst, Step
<1> QED
  BY <1>1, <1>2, <1>3, <1>6, <1>7, <1>9, <1>10, <1>11, <1>12

\* The free cluster that is found is the one to link behind the last.
LEMMA FindNextDoes ==
  ASSUME TypeOK, NEW t \in Task, FindNext(t)
  PROVE  \E c \in Calls, x \in Cluster :
           /\ Becomes(t, c, handle[t]) /\ call[t].at = "find" /\ Available(x) /\ call[t].for = "append"
           /\ c.at = "readTable" /\ c.next = x
           /\ c.op = call[t].op /\ c.for = call[t].for /\ c.left = call[t].left
           /\ c.cluster = call[t].cluster /\ c.flags = call[t].flags
           /\ c.sector = call[t].sector /\ c.steps = call[t].steps /\ c.copy = call[t].copy
<1>1. PICK x \in Cluster :
        Available(x) /\ call' = [call EXCEPT ![t] = [call[t] EXCEPT !.at = "readTable", !.next = x]]
  BY DEF FindNext, Step
<1>2. PICK r \in Calls : r = call[t]
  BY DEF TypeOK
<1>3. PICK c : c = [r EXCEPT !.at = "readTable", !.next = x]
  OBVIOUS
<1>4. x \in Entry /\ "readTable" \in Places
  BY DEF Entry, Places
<1>5. c \in Calls
  BY <1>3, <1>4 DEF Calls
<1>6. /\ c.at = "readTable" /\ c.next = x
      /\ c.op = r.op /\ c.for = r.for /\ c.left = r.left /\ c.cluster = r.cluster
      /\ c.flags = r.flags /\ c.sector = r.sector /\ c.steps = r.steps /\ c.copy = r.copy
  BY <1>3, <1>4 DEF Calls
<1>7. Becomes(t, c, handle[t])
  BY <1>1, <1>2, <1>3 DEF Becomes, TypeOK, FindNext
<1> QED
  BY <1>1, <1>2, <1>5, <1>6, <1>7 DEF FindNext, Step

\* A copy of a negative length is the call's last step.
LEMMA OverrunDoes ==
  ASSUME TypeOK, NEW t \in Task, Overrun(t)
  PROVE  \E c \in Calls :
           /\ Becomes(t, c, handle[t]) /\ call[t].at = "load" /\ call[t].left < 0
           /\ c.at = "overrun"
           /\ c.op = call[t].op /\ c.for = call[t].for /\ c.left = call[t].left
           /\ c.cluster = call[t].cluster /\ c.next = call[t].next /\ c.flags = call[t].flags
           /\ c.sector = call[t].sector /\ c.steps = call[t].steps /\ c.copy = call[t].copy
<1>1. call' = [call EXCEPT ![t] = [call[t] EXCEPT !.at = "overrun"]]
  BY DEF Overrun, Step
<1>2. PICK r \in Calls : r = call[t]
  BY DEF TypeOK
<1>3. PICK c : c = [r EXCEPT !.at = "overrun"]
  OBVIOUS
<1>4. "overrun" \in Places
  BY DEF Places
<1>5. c \in Calls
  BY <1>3, <1>4 DEF Calls
<1>6. /\ c.at = "overrun"
      /\ c.op = r.op /\ c.for = r.for /\ c.left = r.left /\ c.cluster = r.cluster
      /\ c.next = r.next /\ c.flags = r.flags /\ c.sector = r.sector /\ c.steps = r.steps
      /\ c.copy = r.copy
  BY <1>3, <1>4 DEF Calls
<1>7. Becomes(t, c, handle[t])
  BY <1>1, <1>2, <1>3 DEF Becomes, TypeOK, Overrun
<1> QED
  BY <1>1, <1>2, <1>5, <1>6, <1>7 DEF Overrun, Step

\* The cluster that is read is the one that is written.
LEMMA LoadForWriteDoes ==
  ASSUME TypeOK, NEW t \in Task, LoadForWrite(t)
  PROVE  \E c \in Calls :
           /\ Becomes(t, c, handle[t]) /\ call[t].at = "load" /\ call[t].op = "write"
           /\ c.at = "store" /\ c.sector = call[t].cluster
           /\ c.op = call[t].op /\ c.for = call[t].for /\ c.left = call[t].left
           /\ c.cluster = call[t].cluster /\ c.next = call[t].next /\ c.flags = call[t].flags
           /\ c.steps = call[t].steps /\ c.copy = call[t].copy
<1>1. call' = [call EXCEPT ![t] = [call[t] EXCEPT !.at = "store", !.sector = call[t].cluster]]
  BY DEF LoadForWrite, Step, SectorOf
<1>2. PICK r \in Calls : r = call[t]
  BY DEF TypeOK
<1>3. PICK c : c = [r EXCEPT !.at = "store", !.sector = r.cluster]
  OBVIOUS
<1>4. r.cluster \in Entry /\ "store" \in Places
  BY Fields DEF Places
<1>5. c \in Calls
  BY <1>3, <1>4 DEF Calls
<1>6. /\ c.at = "store" /\ c.sector = r.cluster
      /\ c.op = r.op /\ c.for = r.for /\ c.left = r.left /\ c.cluster = r.cluster
      /\ c.next = r.next /\ c.flags = r.flags /\ c.steps = r.steps /\ c.copy = r.copy
  BY <1>3, <1>4 DEF Calls
<1>7. Becomes(t, c, handle[t])
  BY <1>1, <1>2, <1>3 DEF Becomes, TypeOK, LoadForWrite
<1> QED
  BY <1>1, <1>2, <1>5, <1>6, <1>7 DEF LoadForWrite, Step, SectorOf

\* The directory is read and its entry of the file replaced by the inode's.
LEMMA ReadDirectoryDoes ==
  ASSUME TypeOK, NEW t \in Task, ReadDirectory(t)
  PROVE  \E c \in Calls :
           /\ Becomes(t, c, handle[t]) /\ call[t].at = "readDirectory"
           /\ c.at = "writeDirectory" /\ c.directory = [directory EXCEPT ![handle[t].file] = EntryOf(t)]
           /\ c.op = call[t].op /\ c.for = call[t].for /\ c.left = call[t].left
           /\ c.cluster = call[t].cluster /\ c.next = call[t].next /\ c.flags = call[t].flags
           /\ c.sector = call[t].sector /\ c.steps = call[t].steps /\ c.copy = call[t].copy
<1>1. call' = [call EXCEPT ![t] = [call[t] EXCEPT !.at = "writeDirectory", !.directory = [directory EXCEPT ![handle[t].file] = EntryOf(t)]]]
  BY DEF ReadDirectory, Step
<1>2. PICK r \in Calls : r = call[t]
  BY DEF TypeOK
<1>3. PICK c : c = [r EXCEPT !.at = "writeDirectory", !.directory = [directory EXCEPT ![handle[t].file] = EntryOf(t)]]
  OBVIOUS
<1>4. [directory EXCEPT ![handle[t].file] = EntryOf(t)] \in Directory /\ "writeDirectory" \in Places
  <2>1. EntryOf(t) \in [size : Nat, first : Entry]
    BY HandleFields DEF EntryOf, TypeOK
  <2> QED
    BY <2>1 DEF TypeOK, Directory, Places
<1>5. c \in Calls
  BY <1>3, <1>4 DEF Calls
<1>6. /\ c.at = "writeDirectory" /\ c.directory = [directory EXCEPT ![handle[t].file] = EntryOf(t)]
      /\ c.op = r.op /\ c.for = r.for /\ c.left = r.left /\ c.cluster = r.cluster
      /\ c.next = r.next /\ c.flags = r.flags /\ c.sector = r.sector /\ c.steps = r.steps
      /\ c.copy = r.copy
  BY <1>3, <1>4 DEF Calls
<1>7. Becomes(t, c, handle[t])
  BY <1>1, <1>2, <1>3 DEF Becomes, TypeOK, ReadDirectory
<1> QED
  BY <1>1, <1>2, <1>5, <1>6, <1>7 DEF ReadDirectory, Step

\* A write that finds the disk full ends.
LEMMA NoSpaceDoes ==
  ASSUME TypeOK, NEW t \in Task, NoSpace(t)
  PROVE  /\ Becomes(t, None, handle[t]) /\ call[t].at = "find" /\ Free = {}
         /\ struck' = struck \cup {"full"}
BY NoneDoes DEF NoSpace

\* The table is read and one entry changed.
LEMMA ReadTableDoes ==
  ASSUME TypeOK, NEW t \in Task, ReadTable(t)
  PROVE  \E c \in Calls :
           /\ Becomes(t, c, handle[t]) /\ call[t].at = "readTable"
           /\ c.at = "writeTable" /\ c.copy = 1
           /\ call[t].cluster \in Cluster =>
                c.table = [table[1] EXCEPT ![call[t].cluster] =
                             IF call[t].for = "append" THEN call[t].next ELSE Eoc]
           /\ c.op = call[t].op /\ c.for = call[t].for /\ c.left = call[t].left
           /\ c.cluster = call[t].cluster /\ c.next = call[t].next /\ c.flags = call[t].flags
           /\ c.sector = call[t].sector /\ c.steps = call[t].steps
<1>1. PICK new \in Entry : new = IF call[t].for = "append" THEN call[t].next ELSE Eoc
  BY Constants, Fields DEF TypeOK
<1>2. PICK r \in Calls : r = call[t]
  BY DEF TypeOK
<1>3. PICK tab \in Table : tab = IF r.cluster \in Cluster THEN [table[1] EXCEPT ![r.cluster] = new]
                                                         ELSE table[1]
  <2>1. table[1] \in Table
    BY Constants DEF TypeOK
  <2> QED
    BY <1>1, <2>1 DEF Table
<1>4. call' = [call EXCEPT ![t] = [call[t] EXCEPT !.at = "writeTable", !.copy = 1, !.table = tab]]
  BY <1>1, <1>2, <1>3 DEF ReadTable, Step
<1>5. PICK c1 : c1 = [r EXCEPT !.at = "writeTable", !.copy = 1]
  OBVIOUS
<1>6. 1 \in 0 .. NumFATs /\ "writeTable" \in Places
  BY FatAssumption DEF Places
<1>7. c1 \in Calls
  BY <1>5, <1>6 DEF Calls
<1>8. /\ c1.at = "writeTable" /\ c1.copy = 1
      /\ c1.op = r.op /\ c1.for = r.for /\ c1.left = r.left /\ c1.cluster = r.cluster
      /\ c1.next = r.next /\ c1.flags = r.flags /\ c1.sector = r.sector
      /\ c1.steps = r.steps
  BY <1>5, <1>6 DEF Calls
<1>9. PICK c : c = [c1 EXCEPT !.table = tab]
  OBVIOUS
<1>10. c \in Calls
  BY <1>7, <1>9 DEF Calls
<1>11. /\ c.table = tab /\ c.at = "writeTable" /\ c.copy = 1
       /\ c.op = r.op /\ c.for = r.for /\ c.left = r.left /\ c.cluster = r.cluster
       /\ c.next = r.next /\ c.flags = r.flags /\ c.sector = r.sector /\ c.steps = r.steps
  BY <1>7, <1>8, <1>9 DEF Calls
<1>12. Becomes(t, c, handle[t])
  BY <1>2, <1>4, <1>5, <1>9 DEF Becomes, TypeOK, ReadTable
<1> QED
  BY <1>1, <1>2, <1>3, <1>10, <1>11, <1>12 DEF ReadTable, Step

\* One copy of the table is written, and then the next one or the next entry's turn comes.
LEMMA WriteTableDoes ==
  ASSUME TypeOK, NEW t \in Task, WriteTable(t)
  PROVE  \E c \in Calls :
           /\ Becomes(t, c, handle[t]) /\ call[t].at = "writeTable"
           /\ table' \in [Copy -> Table]
           /\ \A i \in Copy : table'[i] = IF i = call[t].copy THEN call[t].table ELSE table[i]
           /\ c.op = call[t].op /\ c.left = call[t].left /\ c.sector = call[t].sector
           /\ c.steps = call[t].steps
           /\ IF call[t].copy < NumFATs
              THEN /\ c.at = "writeTable" /\ c.copy = call[t].copy + 1 /\ c.table = call[t].table
                   /\ c.for = call[t].for /\ c.cluster = call[t].cluster /\ c.next = call[t].next
                   /\ c.flags = call[t].flags
              ELSE IF call[t].for = "append"
              THEN /\ c.at = "readTable" /\ c.for = "first" /\ c.cluster = call[t].next
                   /\ c.flags = call[t].flags
              ELSE /\ c.at = "store" /\ c.for = "size" /\ c.cluster = call[t].cluster /\ c.flags
<1>1. PICK r \in Calls : r = call[t]
  BY DEF TypeOK
<1>2. table' = [i \in Copy |-> IF i = r.copy THEN r.table ELSE table[i]]
  BY <1>1 DEF WriteTable, CopyWritten
<1>3. /\ table' \in [Copy -> Table]
      /\ \A i \in Copy : table'[i] = IF i = call[t].copy THEN call[t].table ELSE table[i]
  BY <1>1, <1>2, Fields DEF TypeOK
<1>4. call[t].at = "writeTable"
  BY DEF WriteTable, Step
<1>5. CASE r.copy < NumFATs
  <2>1. PICK c : c = [r EXCEPT !.copy = r.copy + 1]
    OBVIOUS
  <2>2. r.copy + 1 \in 0 .. NumFATs
    BY <1>5, Fields, FatAssumption
  <2>3. c \in Calls
    BY <2>1, <2>2 DEF Calls
  <2>4. /\ c.copy = r.copy + 1 /\ c.table = r.table
        /\ c.at = r.at /\ c.op = r.op /\ c.for = r.for /\ c.left = r.left
        /\ c.cluster = r.cluster /\ c.next = r.next /\ c.flags = r.flags
        /\ c.sector = r.sector /\ c.steps = r.steps
    BY <2>1, <2>2 DEF Calls
  <2>5. call' = [call EXCEPT ![t] = c]
    BY <1>1, <1>5, <2>1 DEF WriteTable, Step, MoreCopies
  <2>6. Becomes(t, c, handle[t])
    BY <2>5 DEF Becomes, TypeOK, WriteTable
  <2> QED
    BY <1>1, <1>3, <1>4, <1>5, <2>3, <2>4, <2>6
<1>6. CASE ~(r.copy < NumFATs)
  <2>1. call' = [call EXCEPT ![t] = AfterEntry(r)]
    BY <1>1, <1>6 DEF WriteTable, Step, MoreCopies
  <2>2. CASE r.for = "append"
    <3>1. PICK c1 : c1 = [r EXCEPT !.at = "readTable", !.for = "first", !.copy = 0]
      OBVIOUS
    <3>2. 0 \in 0 .. NumFATs /\ 0 \in Entry /\ NoTable \in Table /\ r.next \in Entry
      BY Constants, Nones, Fields, FatAssumption
    <3>3. c1 \in Calls
      BY <3>1, <3>2 DEF Calls, Places
    <3>4. /\ c1.at = "readTable" /\ c1.for = "first"
          /\ c1.op = r.op /\ c1.left = r.left /\ c1.cluster = r.cluster /\ c1.next = r.next
          /\ c1.flags = r.flags /\ c1.sector = r.sector /\ c1.steps = r.steps
      BY <3>1 DEF Calls
    <3>5. PICK c : c = [c1 EXCEPT !.cluster = r.next, !.next = 0, !.table = NoTable]
      OBVIOUS
    <3>6. c \in Calls
      BY <3>2, <3>3, <3>5 DEF Calls
    <3>7. /\ c.at = "readTable" /\ c.for = "first" /\ c.cluster = r.next
          /\ c.op = r.op /\ c.left = r.left /\ c.flags = r.flags /\ c.sector = r.sector
          /\ c.steps = r.steps
      BY <3>3, <3>4, <3>5 DEF Calls
    <3>8. AfterEntry(r) = c
      BY <2>2, <3>1, <3>5 DEF AfterEntry
    <3>9. Becomes(t, c, handle[t])
      BY <2>1, <3>8 DEF Becomes, TypeOK, WriteTable
    <3> QED
      BY <1>1, <1>3, <1>4, <1>6, <2>2, <3>6, <3>7, <3>9
  <2>3. CASE r.for # "append"
    <3>1. PICK c1 : c1 = [r EXCEPT !.at = "store", !.for = "size", !.copy = 0]
      OBVIOUS
    <3>2. 0 \in 0 .. NumFATs /\ NoTable \in Table
      BY Nones, FatAssumption
    <3>3. c1 \in Calls
      BY <3>1, <3>2 DEF Calls, Places
    <3>4. /\ c1.at = "store" /\ c1.for = "size"
          /\ c1.op = r.op /\ c1.left = r.left /\ c1.cluster = r.cluster /\ c1.next = r.next
          /\ c1.flags = r.flags /\ c1.sector = r.sector /\ c1.steps = r.steps
      BY <3>1 DEF Calls
    <3>5. PICK c : c = [c1 EXCEPT !.flags = TRUE, !.table = NoTable]
      OBVIOUS
    <3>6. c \in Calls
      BY <3>2, <3>3, <3>5 DEF Calls
    <3>7. /\ c.at = "store" /\ c.for = "size" /\ c.flags
          /\ c.op = r.op /\ c.left = r.left /\ c.cluster = r.cluster /\ c.next = r.next
          /\ c.sector = r.sector /\ c.steps = r.steps
      BY <3>3, <3>4, <3>5 DEF Calls
    <3>8. AfterEntry(r) = c
      BY <2>3, <3>1, <3>5 DEF AfterEntry
    <3>9. Becomes(t, c, handle[t])
      BY <2>1, <3>8 DEF Becomes, TypeOK, WriteTable
    <3> QED
      BY <1>1, <1>3, <1>4, <1>6, <2>3, <3>6, <3>7, <3>9
  <2> QED
    BY <2>2, <2>3
<1> QED
  BY <1>5, <1>6

\* The directory is what the call has made of it.
LEMMA WriteDirectoryDoes ==
  ASSUME TypeOK, NEW t \in Task, WriteDirectory(t)
  PROVE  \E c \in Calls :
           /\ Becomes(t, c, handle[t]) /\ call[t].at = "writeDirectory"
           /\ directory' = call[t].directory /\ directory' \in Directory
           /\ call[t].for # "first" => c = None
           /\ call[t].for = "first" => /\ c.at = "readTable"
                /\ c.op = call[t].op /\ c.for = call[t].for /\ c.left = call[t].left
                /\ c.cluster = call[t].cluster /\ c.next = call[t].next /\ c.flags = call[t].flags
                /\ c.sector = call[t].sector /\ c.steps = call[t].steps /\ c.copy = call[t].copy
<1>1. PICK r \in Calls : r = call[t]
  BY DEF TypeOK
<1>2. call[t].at = "writeDirectory" /\ directory' = call[t].directory /\ directory' \in Directory
  BY <1>1, Fields DEF WriteDirectory, Step
<1>3. CASE r.for = "first"
  <2>1. PICK c : c = [r EXCEPT !.at = "readTable", !.directory = NoDirectory]
    OBVIOUS
  <2>2. c \in Calls
    BY <2>1, Nones DEF Calls, Places
  <2>3. /\ c.at = "readTable"
        /\ c.op = r.op /\ c.for = r.for /\ c.left = r.left /\ c.cluster = r.cluster
        /\ c.next = r.next /\ c.flags = r.flags /\ c.sector = r.sector /\ c.steps = r.steps
        /\ c.copy = r.copy
    BY <2>1 DEF Calls
  <2>4. Becomes(t, c, handle[t])
    BY <1>1, <1>3, <2>1 DEF WriteDirectory, Step, Becomes, TypeOK
  <2> QED
    BY <1>1, <1>2, <1>3, <2>2, <2>3, <2>4
<1>4. CASE r.for # "first"
  <2>1. call' = [call EXCEPT ![t] = None] /\ UNCHANGED handle
    BY <1>1, <1>4 DEF WriteDirectory, Step
  <2> QED
    BY <1>1, <1>2, <1>4, <2>1, NoneDoes, Nones
<1> QED
  BY <1>3, <1>4

\* A round goes to the end of its cluster or does all that is left.
LEMMA LengthIs ==
  ASSUME TypeOK, NEW t \in Task, call[t].left >= 0
  PROVE  /\ Length(t) \in Nat /\ Length(t) <= call[t].left
         /\ Length(t) = call[t].left \/ Length(t) = Bytes - Offset(t)
         /\ call[t].left \in Nat
<1>1. call[t].left \in Int
  BY Fields DEF TypeOK
<1>2. Offset(t) \in Nat /\ Offset(t) < Bytes /\ Bytes \in Nat
  BY Parts, FatAssumption
<1> QED
  BY <1>1, <1>2 DEF Length, Smaller

\* The inode h is the one of t's file behind what is transferred at once.
Advanced(h, t, size) ==
  /\ h = [handle[t] EXCEPT !.position = handle[t].position + Length(t), !.size = size]
  /\ h.position = handle[t].position + Length(t) /\ h.size = size
  /\ h.file = handle[t].file /\ h.mode = handle[t].mode /\ h.first = handle[t].first

\* A transfer of data leaves such an inode.
LEMMA MovedOn ==
  ASSUME TypeOK, NEW t \in Task, call[t].left >= 0, NEW size \in Nat
  PROVE  \E h \in Handles : Advanced(h, t, size)
<1>1. PICK g \in Handles : g = handle[t]
  BY DEF TypeOK
<1>2. PICK position \in Nat : position = handle[t].position + Length(t)
  BY <1>1, HandleFields, LengthIs
<1>3. PICK h : h = [g EXCEPT !.position = position, !.size = size]
  OBVIOUS
<1>4. h \in Handles
  BY <1>3 DEF Handles
<1>5. h.position = position /\ h.size = size /\ h.file = g.file /\ h.mode = g.mode /\ h.first = g.first
  BY <1>3 DEF Handles
<1>6. Advanced(h, t, size)
  BY <1>1, <1>2, <1>3, <1>5 DEF Advanced
<1> QED
  BY <1>4, <1>6

\* A cluster is read: the position moves on, inside the file, and the count goes down with it.
LEMMA LoadDoes ==
  ASSUME TypeOK, NEW t \in Task, Load(t)
  PROVE  \E c \in Calls, h \in Handles :
           /\ Becomes(t, c, h) /\ call[t].at = "load" /\ call[t].op = "read" /\ call[t].left >= 0
           /\ h.position = handle[t].position + Length(t) /\ h.size = handle[t].size
           /\ h.file = handle[t].file /\ h.mode = handle[t].mode /\ h.first = handle[t].first
           /\ IF call[t].left - Length(t) = 0 THEN c = None
              ELSE /\ c.at = "next" /\ c.left = call[t].left - Length(t)
                   /\ c.op = call[t].op /\ c.for = call[t].for /\ c.cluster = call[t].cluster
                   /\ c.next = call[t].next /\ c.flags = call[t].flags /\ c.sector = call[t].sector
                   /\ c.steps = call[t].steps /\ c.copy = call[t].copy
<1>1. call[t].at = "load" /\ call[t].op = "read" /\ call[t].left >= 0
  BY DEF Load, Step
<1>2. PICK r \in Calls : r = call[t]
  BY DEF TypeOK
<1>3. PICK left \in Nat : left = r.left - Length(t)
  BY <1>1, <1>2, LengthIs
<1>4. handle[t].size \in Nat
  BY HandleFields DEF TypeOK
<1>5. PICK h \in Handles :
           /\ h = [handle[t] EXCEPT !.position = handle[t].position + Length(t), !.size = handle[t].size]
           /\ h.position = handle[t].position + Length(t) /\ h.size = handle[t].size
           /\ h.file = handle[t].file /\ h.mode = handle[t].mode /\ h.first = handle[t].first
  BY <1>1, <1>4, MovedOn DEF Advanced
<1>6. handle' = [handle EXCEPT ![t] = h]
  <2>1. PICK g \in Handles : g = handle[t]
    BY DEF TypeOK
  <2>2. h = [g EXCEPT !.position = g.position + Length(t)]
    <3>1. PICK p : p = g.position + Length(t)
      OBVIOUS
    <3>2. h = [g EXCEPT !.position = p, !.size = g.size]
      BY <1>5, <2>1, <3>1
    <3>3. [g EXCEPT !.position = p, !.size = g.size] = [g EXCEPT !.position = p]
      BY DEF Handles
    <3> QED
      BY <3>1, <3>2, <3>3
  <2>3. handle' = [handle EXCEPT ![t] = [handle[t] EXCEPT !.position = handle[t].position + Length(t)]]
    BY DEF Load
  <2> QED
    BY <2>1, <2>2, <2>3
<1>7. CASE left = 0
  <2>1. call' = [call EXCEPT ![t] = None]
    BY <1>2, <1>3, <1>7 DEF Load, Step
  <2>2. Becomes(t, None, h)
    BY <1>6, <2>1 DEF Becomes
  <2> QED
    BY <1>1, <1>2, <1>3, <1>5, <1>7, <2>2, Nones
<1>8. CASE left # 0
  <2>1. PICK c : c = [r EXCEPT !.at = "next", !.left = left]
    OBVIOUS
  <2>2. c \in Calls
    <3>1. left \in Int /\ "next" \in Places
      BY DEF Places
    <3> QED
      BY <2>1, <3>1 DEF Calls
  <2>3. /\ c.at = "next" /\ c.left = left
        /\ c.op = r.op /\ c.for = r.for /\ c.cluster = r.cluster /\ c.next = r.next
        /\ c.flags = r.flags /\ c.sector = r.sector /\ c.steps = r.steps /\ c.copy = r.copy
    BY <2>1 DEF Calls
  <2>4. call' = [call EXCEPT ![t] = c]
    BY <1>2, <1>3, <1>8, <2>1 DEF Load, Step
  <2>5. Becomes(t, c, h)
    BY <1>6, <2>4 DEF Becomes
  <2> QED
    BY <1>1, <1>2, <1>3, <1>5, <1>8, <2>2, <2>3, <2>5
<1> QED
  BY <1>7, <1>8

\* A cluster is written: the position moves on, and at the end the size follows.
LEMMA StoreDoes ==
  ASSUME TypeOK, NEW t \in Task, Store(t), call[t].left >= 0
  PROVE  \E c \in Calls, h \in Handles :
           /\ Becomes(t, c, h) /\ call[t].at = "store"
           /\ h.position = handle[t].position + Length(t)
           /\ h.file = handle[t].file /\ h.mode = handle[t].mode /\ h.first = handle[t].first
           /\ IF call[t].left - Length(t) > 0
              THEN /\ c.at = "next" /\ c.left = call[t].left - Length(t) /\ h.size = handle[t].size
                   /\ c.op = call[t].op /\ c.for = call[t].for /\ c.cluster = call[t].cluster
                   /\ c.next = call[t].next /\ c.flags = call[t].flags /\ c.sector = call[t].sector
                   /\ c.steps = call[t].steps /\ c.copy = call[t].copy
              ELSE IF h.position > handle[t].size
              THEN /\ c.at = "readDirectory" /\ c.op = "write" /\ c.for = "size" /\ c.sector = 0
                   /\ c.left = 0 /\ h.size = h.position
              ELSE c = None /\ h.size = handle[t].size
<1>1. call[t].at = "store"
  BY DEF Store, Step
<1>2. PICK r \in Calls : r = call[t]
  BY DEF TypeOK
<1>3. PICK left \in Nat : left = r.left - Length(t)
  BY <1>2, LengthIs
<1>4. PICK g \in Handles : g = handle[t]
  BY DEF TypeOK
<1>5. PICK position \in Nat : position = handle[t].position + Length(t)
  BY <1>4, HandleFields, LengthIs
<1>6. PICK size \in Nat : size = IF left = 0 /\ position > g.size THEN position ELSE g.size
  BY HandleFields
<1>7. PICK h \in Handles :
           /\ h = [handle[t] EXCEPT !.position = handle[t].position + Length(t), !.size = size]
           /\ h.position = position /\ h.size = size
           /\ h.file = handle[t].file /\ h.mode = handle[t].mode /\ h.first = handle[t].first
  <2>1. PICK h1 \in Handles : Advanced(h1, t, size)
    BY MovedOn
  <2> QED
    BY <1>5, <2>1 DEF Advanced
<1>8. Grown(t) <=> position > g.size
  BY <1>4, <1>5 DEF Grown
<1>9. handle' = [handle EXCEPT ![t] = h]
  <2>1. handle' = [handle EXCEPT ![t].position = position,
                                 ![t].size = IF left = 0 /\ position > g.size THEN position ELSE @]
    BY <1>2, <1>3, <1>4, <1>5, <1>8 DEF Store
  <2>2. handle' = [handle EXCEPT ![t] = [g EXCEPT !.position = position, !.size = size]]
    <3>1. PICK g1 : g1 = [g EXCEPT !.position = position]
      OBVIOUS
    <3>2. g1.size = g.size
      BY <3>1 DEF Handles
    <3>3. PICK H1 : H1 = [handle EXCEPT ![t] = g1]
      OBVIOUS
    <3>4. H1[t] = g1
      BY <3>3 DEF TypeOK
    <3>5. handle' = [H1 EXCEPT ![t].size = IF left = 0 /\ position > g.size THEN position ELSE @]
      BY <1>4, <2>1, <3>1, <3>3
    <3>6. handle' = [H1 EXCEPT ![t] = [g1 EXCEPT !.size = size]]
      BY <1>6, <3>2, <3>4, <3>5
    <3>7. handle' = [handle EXCEPT ![t] = [g1 EXCEPT !.size = size]]
      BY <3>3, <3>6
    <3> QED
      BY <3>1, <3>7
  <2> QED
    BY <1>4, <1>5, <1>7, <2>2
<1>10. call' = [call EXCEPT ![t] = IF left > 0 THEN [call[t] EXCEPT !.at = "next", !.left = left]
                                   ELSE AfterWrite(t)]
  BY <1>2, <1>3 DEF Store, Step
<1>11. CASE left > 0
  <2>1. PICK c : c = [r EXCEPT !.at = "next", !.left = left]
    OBVIOUS
  <2>2. c \in Calls
    <3>1. left \in Int /\ "next" \in Places
      BY DEF Places
    <3> QED
      BY <2>1, <3>1 DEF Calls
  <2>3. /\ c.at = "next" /\ c.left = left
        /\ c.op = r.op /\ c.for = r.for /\ c.cluster = r.cluster /\ c.next = r.next
        /\ c.flags = r.flags /\ c.sector = r.sector /\ c.steps = r.steps /\ c.copy = r.copy
    BY <2>1 DEF Calls
  <2>4. Becomes(t, c, h)
    BY <1>2, <1>9, <1>10, <1>11, <2>1 DEF Becomes
  <2>5. h.size = g.size
    BY <1>6, <1>7, <1>11
  <2> QED
    BY <1>1, <1>2, <1>3, <1>4, <1>5, <1>7, <1>11, <2>2, <2>3, <2>4, <2>5
<1>12. CASE left = 0 /\ position > g.size
  <2>1. PICK c : c = [None EXCEPT !.at = "readDirectory", !.op = "write"]
    OBVIOUS
  <2>2. c \in Calls
    BY <2>1, Nones DEF Calls, Places
  <2>3. c.at = "readDirectory" /\ c.op = "write" /\ c.for = "size" /\ c.sector = 0 /\ c.left = 0
    BY <2>1, <2>2, Nones DEF Calls
  <2>4. Becomes(t, c, h)
    <3>1. AfterWrite(t) = c
      BY <1>8, <1>12, <2>1 DEF AfterWrite
    <3>2. ~(left > 0)
      BY <1>12
    <3> QED
      BY <1>9, <1>10, <3>1, <3>2 DEF Becomes
  <2>5. h.size = position
    BY <1>6, <1>7, <1>12
  <2>6. ~(call[t].left - Length(t) > 0) /\ h.position > handle[t].size
    BY <1>2, <1>3, <1>4, <1>7, <1>12
  <2> QED
    BY <1>1, <1>5, <1>7, <2>2, <2>3, <2>4, <2>5, <2>6
<1>13. CASE left = 0 /\ ~(position > g.size)
  <2>1. Becomes(t, None, h)
    <3>1. AfterWrite(t) = None
      BY <1>8, <1>13 DEF AfterWrite
    <3>2. ~(left > 0)
      BY <1>13
    <3> QED
      BY <1>9, <1>10, <3>1, <3>2 DEF Becomes
  <2>2. h.size = g.size
    BY <1>6, <1>7, <1>13
  <2>3. ~(call[t].left - Length(t) > 0) /\ ~(h.position > handle[t].size)
    BY <1>2, <1>3, <1>4, <1>7, <1>13
  <2> QED
    BY <1>1, <1>4, <1>5, <1>7, <2>1, <2>2, <2>3, Nones
<1> QED
  BY <1>11, <1>12, <1>13

\* A read goes on to what the entry says.
LEMMA NextToReadDoes ==
  ASSUME TypeOK, NEW t \in Task, NextToRead(t)
  PROVE  \E c \in Calls :
           /\ Becomes(t, c, handle[t]) /\ call[t].at = "next" /\ call[t].op = "read"
           /\ c = None \/ (/\ c.at = "load"
                           /\ c.op = call[t].op /\ c.for = call[t].for /\ c.left = call[t].left
                           /\ c.next = call[t].next /\ c.flags = call[t].flags /\ c.sector = call[t].sector
                           /\ c.steps = call[t].steps /\ c.copy = call[t].copy)
<1>1. PICK x \in NextOf(call[t].cluster) :
        call' = [call EXCEPT ![t] = IF x = 0 THEN None
                       ELSE [call[t] EXCEPT !.at = "load", !.cluster = x]]
  BY DEF NextToRead, Step
<1>2. PICK r \in Calls : r = call[t]
  BY DEF TypeOK
<1>3. call[t].at = "next" /\ call[t].op = "read" /\ UNCHANGED handle
  BY DEF NextToRead, Step
<1>4. CASE x = 0
  <2>1. Becomes(t, None, handle[t])
    BY <1>1, <1>3, <1>4, NoneDoes
  <2> QED
    BY <1>3, <2>1, Nones
<1>5. CASE x # 0
  <2>1. PICK c : c = [r EXCEPT !.at = "load", !.cluster = x]
    OBVIOUS
  <2>2. x \in Entry
    BY <1>2, Fields, NextOfIs
  <2>3. c \in Calls
    BY <2>1, <2>2 DEF Calls, Places
  <2>4. /\ c.at = "load"
        /\ c.op = r.op /\ c.for = r.for /\ c.left = r.left /\ c.next = r.next
        /\ c.flags = r.flags /\ c.sector = r.sector /\ c.steps = r.steps /\ c.copy = r.copy
    BY <2>1 DEF Calls
  <2>5. Becomes(t, c, handle[t])
    BY <1>1, <1>2, <1>3, <1>5, <2>1 DEF Becomes, TypeOK
  <2> QED
    BY <1>2, <1>3, <2>3, <2>4, <2>5
<1> QED
  BY <1>4, <1>5

\* A write stays where it is, or looks for a cluster if there is no next one.
LEMMA NextToWriteDoes ==
  ASSUME TypeOK, NEW t \in Task, NextToWrite(t)
  PROVE  \E c \in Calls, x \in NextOf(call[t].cluster) :
           /\ Becomes(t, c, handle[t]) /\ call[t].at = "next" /\ call[t].op = "write"
           /\ c.op = call[t].op /\ c.left = call[t].left /\ c.cluster = call[t].cluster
           /\ c.next = call[t].next /\ c.flags = call[t].flags /\ c.sector = call[t].sector
           /\ c.steps = call[t].steps /\ c.copy = call[t].copy
           /\ IF x = Eoc THEN c.at = "find" /\ c.for = "append"
              ELSE c.at = (IF call[t].flags THEN "store" ELSE "load") /\ c.for = call[t].for
<1>1. PICK x \in NextOf(call[t].cluster) :
        call' = [call EXCEPT ![t] = IF x = Eoc
                       THEN [call[t] EXCEPT !.at = "find", !.for = "append"]
                       ELSE [call[t] EXCEPT !.at = IF call[t].flags THEN "store" ELSE "load"]]
  BY DEF NextToWrite, Step
<1>2. PICK r \in Calls : r = call[t]
  BY DEF TypeOK
<1>3. call[t].at = "next" /\ call[t].op = "write" /\ UNCHANGED handle
  BY DEF NextToWrite, Step
<1>4. PICK place \in Places : place = IF x = Eoc THEN "find" ELSE IF r.flags THEN "store" ELSE "load"
  BY DEF Places
<1>5. PICK what \in {"first", "append", "size"} : what = IF x = Eoc THEN "append" ELSE r.for
  BY Fields
<1>6. PICK c : c = [r EXCEPT !.at = place, !.for = what]
  OBVIOUS
<1>7. c \in Calls
  BY <1>6 DEF Calls
<1>8. /\ c.at = place /\ c.for = what
      /\ c.op = r.op /\ c.left = r.left /\ c.cluster = r.cluster /\ c.next = r.next
      /\ c.flags = r.flags /\ c.sector = r.sector /\ c.steps = r.steps /\ c.copy = r.copy
  BY <1>6 DEF Calls
<1>9. call' = [call EXCEPT ![t] = c]
  <2>1. CASE x = Eoc
    BY <1>1, <1>2, <1>4, <1>5, <1>6, <2>1
  <2>2. CASE x # Eoc
    <3>1. [r EXCEPT !.at = place, !.for = r.for] = [r EXCEPT !.at = place]
      BY DEF Calls
    <3> QED
      BY <1>1, <1>2, <1>4, <1>5, <1>6, <2>2, <3>1
  <2> QED
    BY <2>1, <2>2
<1>10. Becomes(t, c, handle[t])
  BY <1>3, <1>9 DEF Becomes, TypeOK
<1> QED
  BY <1>2, <1>3, <1>4, <1>5, <1>7, <1>8, <1>10
-----------------------------------------------------------------------------
\* What holds whatever happens.
Kinds == {"table", "directory", "twice", "full", "edge", "torn"}
InTable == {"readTable", "writeTable"}
InDirectory == {"readDirectory", "writeDirectory"}
Working == {"load", "store", "next"}

\* What a call is where it is: an allocation and a directory's update are of a write, an
\* entry of the table is for a first cluster or for one behind the last.
Shape(c, h) ==
  /\ c.at # "out" => h.file # NoFile
  /\ c.at = "out" => c.op = "read"
  /\ c.at = "walk" => c.steps > 0
  /\ c.at \in {"find", "store"} \cup InTable \cup InDirectory => c.op = "write"
  /\ c.at = "find" => c.for \in {"first", "append"}
  /\ c.at = "find" /\ c.for = "first" => h.first = 0 /\ c.sector = 0
  /\ c.at \in InTable => c.for \in {"first", "append"}
  /\ c.at \in InDirectory => c.for \in {"first", "size"}
  /\ c.at \in {"walk"} \cup Working => c.for = "size"
  /\ c.at = "writeTable" => c.copy \in Copy
  /\ c.op = "write" => c.left >= 0

\* Two are at once where they may not be, or have a file open, only if it is recorded.
Alone ==
  /\ Spared({"table"}) =>
       \A t, u \in Task : Allocates(call[t]) /\ Allocates(call[u]) => t = u
  /\ Spared({"directory"}) =>
       \A t, u \in Task : UpdatesDirectory(call[t]) /\ UpdatesDirectory(call[u]) => t = u
  /\ Spared({"twice"}) =>
       \A t, u \in Task : IsOpen(t) /\ handle[t].file = handle[u].file => t = u

Shapes == \A t \in Task : Shape(call[t], handle[t])
Base == TypeOK /\ Shapes /\ Alone

\* A step that looks for two calls at once.
LEMMA StepRecords ==
  ASSUME NEW t \in Task, NEW from, NEW after, Step(t, from, after), struck \subseteq Kinds
  PROVE  /\ struck \subseteq struck' /\ Raced(call') \subseteq struck'
         /\ struck' \subseteq struck \cup {"table", "directory"} /\ struck' \subseteq Kinds
BY DEF Step, Raced, Kinds

\* A step of one task keeps Base when it keeps that task's part of it.
LEMMA BaseMoves ==
  ASSUME Base, NEW t \in Task, NEW c \in Calls, NEW h \in Handles, Becomes(t, c, h),
         table' \in [Copy -> Table], directory' \in Directory, calls' \in 0 .. MaxCalls,
         struck' \subseteq Kinds, struck \subseteq struck', Shape(c, h),
         \/ Raced(call') \subseteq struck'
         \/ c.at \in {"out", "walk", "load"},
         \/ h.file \in {handle[t].file, NoFile}
         \/ "twice" \notin struck' => \A u \in Task : handle[u].file # h.file
  PROVE  Base'
<1>1. TypeOK /\ Shapes /\ Alone
  BY DEF Base
<1>2. /\ call' \in [Task -> Calls] /\ handle' \in [Task -> Handles]
      /\ call'[t] = c /\ handle'[t] = h
      /\ \A u \in Task : u # t => call'[u] = call[u] /\ handle'[u] = handle[u]
  BY <1>1, BecomesMeans
<1>3. TypeOK'
  BY <1>2 DEF TypeOK, Kinds
<1>4. Shapes'
  BY <1>1, <1>2 DEF Shapes
<1>5. Alone'
  <2>1. ASSUME "table" \notin struck', NEW u \in Task, NEW v \in Task, u # v,
               Allocates(call'[u]), Allocates(call'[v])
        PROVE  FALSE
    <3>1. CASE Raced(call') \subseteq struck'
      BY <2>1, <3>1 DEF Raced
    <3>2. CASE c.at \in {"out", "walk", "load"}
      <4>1. ~Allocates(c)
        BY <3>2 DEF Allocates
      <4>2. call'[u] = call[u] /\ call'[v] = call[v]
        BY <1>2, <2>1, <4>1
      <4> QED
        BY <1>1, <2>1, <4>2 DEF Alone, Spared
    <3> QED
      BY <3>1, <3>2
  <2>2. ASSUME "directory" \notin struck', NEW u \in Task, NEW v \in Task, u # v,
               UpdatesDirectory(call'[u]), UpdatesDirectory(call'[v])
        PROVE  FALSE
    <3>1. CASE Raced(call') \subseteq struck'
      BY <2>2, <3>1 DEF Raced
    <3>2. CASE c.at \in {"out", "walk", "load"}
      <4>1. ~UpdatesDirectory(c)
        BY <3>2 DEF UpdatesDirectory
      <4>2. call'[u] = call[u] /\ call'[v] = call[v]
        BY <1>2, <2>2, <4>1
      <4> QED
        BY <1>1, <2>2, <4>2 DEF Alone, Spared
    <3> QED
      BY <3>1, <3>2
  <2>3. ASSUME "twice" \notin struck', NEW u \in Task, NEW v \in Task, u # v,
               handle'[u].file # NoFile, handle'[u].file = handle'[v].file
        PROVE  FALSE
    <3>1. "twice" \notin struck
      BY <2>3
    <3>2. \A x, y \in Task : handle[x].file # NoFile /\ handle[x].file = handle[y].file => x = y
      BY <1>1, <3>1 DEF Alone, Spared, IsOpen
    <3>3. CASE h.file \in {handle[t].file, NoFile}
      BY <1>2, <2>3, <3>2, <3>3
    <3>4. CASE \A w \in Task : handle[w].file # h.file
      BY <1>2, <2>3, <3>2, <3>4
    <3> QED
      BY <2>3, <3>3, <3>4
  <2> QED
    BY <2>1, <2>2, <2>3 DEF Alone, Spared, IsOpen
<1> QED
  BY <1>3, <1>4, <1>5 DEF Base

\* The steps of a call that leave the open files, the table and the directory alone.
LEMMA BaseCalls ==
  ASSUME Base, NEW t \in Task, NEW c \in Calls, Becomes(t, c, handle[t]), calls' \in 0 .. MaxCalls,
         struck' \subseteq Kinds, struck \subseteq struck',
         UNCHANGED <<table, directory>>, Shape(c, handle[t]),
         \/ Raced(call') \subseteq struck'
         \/ c.at \in {"out", "walk", "load"}
  PROVE  Base'
BY BaseMoves DEF Base, TypeOK

\* A call begins.
LEMMA BaseBegins ==
  ASSUME Base, NEW t \in Task, Open(t) \/ Close(t) \/ Seek(t) \/ Read(t) \/ Write(t)
  PROVE  Base'
<1>1. /\ TypeOK /\ Shape(call[t], handle[t]) /\ struck \subseteq Kinds
      /\ table \in [Copy -> Table] /\ directory \in Directory /\ call[t] \in Calls
  BY DEF Base, Shapes, TypeOK, Kinds
<1>2. calls' \in 0 .. MaxCalls
  <2>1. Idle(t)
    BY DEF Open, Close, Seek, Read, Write
  <2> QED
    BY <1>1, <2>1, FatAssumption DEF TypeOK, Idle
<1>3. CASE Open(t)
  <2>1. PICK h \in Handles :
           /\ Becomes(t, call[t], h) /\ call[t].at = "out" /\ h.file \in File
           /\ struck \subseteq struck' /\ struck' \subseteq struck \cup {"twice"} /\ ~IsOpen(t)
           /\ "twice" \notin struck' => \A u \in Task : handle[u].file # h.file
    BY <1>1, <1>3, OpenDoes
  <2>2. Shape(call[t], h)
    BY <1>1, <2>1, FatAssumption DEF Shape, InTable, InDirectory, Working
  <2>3. UNCHANGED <<table, directory>> /\ struck' \subseteq Kinds
    BY <1>1, <1>3, <2>1 DEF Open, Kinds
  <2> QED
    BY <1>1, <1>2, <2>1, <2>2, <2>3, BaseMoves
<1>4. CASE Close(t)
  <2>1. PICK h \in Handles : Becomes(t, call[t], h) /\ call[t].at = "out" /\ h.file = NoFile
    BY <1>1, <1>4, CloseDoes
  <2>2. Shape(call[t], h)
    BY <1>1, <2>1 DEF Shape, InTable, InDirectory, Working
  <2>3. UNCHANGED <<table, directory, struck>>
    BY <1>4 DEF Close
  <2> QED
    BY <1>1, <1>2, <2>1, <2>2, <2>3, BaseMoves
<1>5. CASE Seek(t)
  <2>1. PICK h \in Handles : Becomes(t, call[t], h) /\ call[t].at = "out" /\ h.file = handle[t].file
    BY <1>1, <1>5, SeekDoes
  <2>2. Shape(call[t], h)
    BY <1>1, <2>1 DEF Shape, InTable, InDirectory, Working
  <2>3. UNCHANGED <<table, directory, struck>>
    BY <1>5 DEF Seek
  <2> QED
    BY <1>1, <1>2, <2>1, <2>2, <2>3, BaseMoves
<1>6. CASE Read(t)
  <2>1. PICK c \in Calls :
           /\ Becomes(t, c, handle[t]) /\ handle[t].file # NoFile
           /\ c.op = "read" /\ c.for = "size"
           /\ c.at = IF Index(t) > 0 THEN "walk" ELSE "load"
           /\ c.steps = Index(t)
    BY <1>1, <1>6, ReadDoes
  <2>2. Shape(c, handle[t])
    BY <2>1 DEF Shape, InTable, InDirectory, Working
  <2>3. UNCHANGED <<table, directory>> /\ struck \subseteq struck' /\ struck' \subseteq Kinds
    BY <1>1, <1>6, StepRecords DEF Read
  <2>4. c.at \in {"walk", "load"}
    BY <2>1
  <2> QED
    BY <1>2, <2>1, <2>2, <2>3, <2>4, BaseCalls
<1>7. CASE Write(t)
  <2>1. PICK c \in Calls :
           /\ Becomes(t, c, handle[t]) /\ handle[t].file # NoFile
           /\ c.op = "write" /\ c.left > 0 /\ c.sector = 0
           /\ handle[t].first = 0 => c.at = "find" /\ c.for = "first"
           /\ handle[t].first # 0 =>
                /\ c.at = IF Index(t) > 0 THEN "walk" ELSE "load"
                /\ c.for = "size" /\ c.steps = Index(t)
    BY <1>1, <1>7, WriteDoes
  <2>2. Shape(c, handle[t])
    BY <2>1, Fields DEF Shape, InTable, InDirectory, Working
  <2>3. UNCHANGED <<table, directory>> /\ struck \subseteq struck' /\ struck' \subseteq Kinds
        /\ Raced(call') \subseteq struck'
    BY <1>1, <1>7, StepRecords DEF Write
  <2> QED
    BY <1>2, <2>1, <2>2, <2>3, BaseCalls
<1> QED
  BY <1>3, <1>4, <1>5, <1>6, <1>7

\* A walk, and the search for a free cluster.
LEMMA BaseSearches ==
  ASSUME Base, NEW t \in Task, Walk(t) \/ FindFirst(t) \/ FindNext(t) \/ NoSpace(t)
  PROVE  Base'
<1>1. /\ TypeOK /\ Shape(call[t], handle[t]) /\ struck \subseteq Kinds
      /\ table \in [Copy -> Table] /\ directory \in Directory /\ call[t] \in Calls
      /\ calls \in 0 .. MaxCalls /\ Shape(None, handle[t])
  BY Nones DEF Base, Shapes, TypeOK, Kinds, Shape, InTable, InDirectory, Working
<1>2. UNCHANGED <<table, directory, calls>>
  BY DEF Walk, FindFirst, FindNext, NoSpace
<1>3. CASE Walk(t)
  <2>1. PICK c \in NextOf(call[t].cluster) :
           /\ call[t].at = "walk" /\ struck \subseteq struck'
           /\ struck' \subseteq struck \cup {"edge"}
           /\ IF Arrived(t) /\ call[t].op = "write" /\ c = 0
              THEN Becomes(t, None, handle[t])
              ELSE \E d : /\ call[t].steps > 0 => d \in Calls
                          /\ Becomes(t, d, handle[t])
                          /\ d.at = IF Arrived(t) THEN "load" ELSE "walk"
                          /\ d.steps = call[t].steps - 1
                          /\ d.op = call[t].op /\ d.for = call[t].for /\ d.left = call[t].left
    BY <1>1, <1>3, WalkDoes
  <2>2. struck' \subseteq Kinds
    BY <1>1, <2>1 DEF Kinds
  <2>3. CASE Arrived(t) /\ call[t].op = "write" /\ c = 0
    BY <1>1, <1>2, <2>1, <2>2, <2>3, Nones, BaseCalls
  <2>4. CASE ~(Arrived(t) /\ call[t].op = "write" /\ c = 0)
    <3>1. call[t].steps > 0 /\ call[t].steps \in Nat
      BY <1>1, <2>1, Fields DEF Shape
    <3>2. PICK d \in Calls :
                          /\ Becomes(t, d, handle[t])
                          /\ d.at = IF Arrived(t) THEN "load" ELSE "walk"
                          /\ d.steps = call[t].steps - 1
                          /\ d.op = call[t].op /\ d.for = call[t].for /\ d.left = call[t].left
      BY <2>1, <2>4, <3>1
    <3>3. d.at = "walk" => d.steps > 0
      BY <3>1, <3>2 DEF Arrived
    <3>4. Shape(d, handle[t])
      BY <1>1, <2>1, <3>2, <3>3 DEF Shape, InTable, InDirectory, Working
    <3>5. d.at \in {"walk", "load"}
      BY <3>2
    <3> QED
      BY <1>1, <1>2, <2>1, <2>2, <3>2, <3>4, <3>5, BaseCalls
  <2> QED
    BY <2>3, <2>4
<1>4. CASE FindFirst(t)
  <2>1. PICK c \in Calls, h \in Handles, x \in Cluster :
           /\ Becomes(t, c, h) /\ call[t].at = "find" /\ call[t].for = "first"
           /\ h.file = handle[t].file
           /\ c.at = "readDirectory" /\ c.op = call[t].op /\ c.for = call[t].for /\ c.left = call[t].left
    BY <1>1, <1>4, FindFirstDoes
  <2>2. Shape(c, h)
    BY <1>1, <2>1 DEF Shape, InTable, InDirectory, Working
  <2>3. struck \subseteq struck' /\ struck' \subseteq Kinds /\ Raced(call') \subseteq struck'
    BY <1>1, <1>4, StepRecords DEF FindFirst
  <2> QED
    BY <1>1, <1>2, <2>1, <2>2, <2>3, BaseMoves
<1>5. CASE FindNext(t)
  <2>1. PICK c \in Calls :
           /\ Becomes(t, c, handle[t]) /\ call[t].at = "find" /\ call[t].for = "append"
           /\ c.at = "readTable" /\ c.op = call[t].op /\ c.for = call[t].for /\ c.left = call[t].left
    BY <1>1, <1>5, FindNextDoes
  <2>2. Shape(c, handle[t])
    BY <1>1, <2>1 DEF Shape, InTable, InDirectory, Working
  <2>3. struck \subseteq struck' /\ struck' \subseteq Kinds /\ Raced(call') \subseteq struck'
    BY <1>1, <1>5, StepRecords DEF FindNext
  <2> QED
    BY <1>1, <1>2, <2>1, <2>2, <2>3, BaseCalls
<1>6. CASE NoSpace(t)
  <2>1. Becomes(t, None, handle[t]) /\ struck' = struck \cup {"full"}
    BY <1>1, <1>6, NoSpaceDoes
  <2>2. struck \subseteq struck' /\ struck' \subseteq Kinds
    BY <1>1, <2>1 DEF Kinds
  <2> QED
    BY <1>1, <1>2, <2>1, <2>2, Nones, BaseCalls
<1> QED
  BY <1>3, <1>4, <1>5, <1>6

\* An entry of the table, and the inode.
LEMMA BaseEntries ==
  ASSUME Base, NEW t \in Task, ReadTable(t) \/ WriteTable(t) \/ ReadDirectory(t) \/ WriteDirectory(t)
  PROVE  Base'
<1>1. /\ TypeOK /\ Shape(call[t], handle[t]) /\ struck \subseteq Kinds
      /\ table \in [Copy -> Table] /\ directory \in Directory /\ call[t] \in Calls
      /\ calls \in 0 .. MaxCalls /\ Shape(None, handle[t])
      /\ handle[t] \in Handles
  BY Nones DEF Base, Shapes, TypeOK, Kinds, Shape, InTable, InDirectory, Working
<1>2. struck \subseteq struck' /\ struck' \subseteq Kinds /\ Raced(call') \subseteq struck'
  BY <1>1, StepRecords DEF ReadTable, WriteTable, ReadDirectory, WriteDirectory
<1>3. UNCHANGED calls
  BY DEF ReadTable, WriteTable, ReadDirectory, WriteDirectory
<1>8. TypeOK
  BY <1>1
<1>4. CASE ReadTable(t)
  <2>1. PICK c \in Calls :
           /\ Becomes(t, c, handle[t]) /\ call[t].at = "readTable"
           /\ c.at = "writeTable" /\ c.copy = 1
           /\ c.op = call[t].op /\ c.for = call[t].for /\ c.left = call[t].left
    BY <1>4, <1>8, ReadTableDoes
  <2>2. Shape(c, handle[t])
    BY <1>1, <2>1, Constants DEF Shape, InTable, InDirectory, Working
  <2> QED
    BY <1>1, <1>2, <1>3, <1>4, <2>1, <2>2, BaseCalls DEF ReadTable
<1>5. CASE WriteTable(t)
  <2>1. PICK c \in Calls :
           /\ Becomes(t, c, handle[t]) /\ call[t].at = "writeTable"
           /\ table' \in [Copy -> Table]
           /\ c.op = call[t].op /\ c.left = call[t].left
           /\ IF call[t].copy < NumFATs
              THEN c.at = "writeTable" /\ c.copy = call[t].copy + 1 /\ c.for = call[t].for
              ELSE IF call[t].for = "append"
              THEN c.at = "readTable" /\ c.for = "first"
              ELSE c.at = "store" /\ c.for = "size"
    BY <1>1, <1>5, WriteTableDoes
  <2>2. call[t].copy \in Copy /\ call[t].copy \in Nat
    BY <1>1, <2>1, Constants DEF Shape
  <2>3. call[t].copy < NumFATs => call[t].copy + 1 \in Copy
    BY <2>2, FatAssumption DEF Copy
  <2>4. Shape(c, handle[t])
    <3>1. CASE call[t].copy < NumFATs
      BY <1>1, <2>1, <2>3, <3>1 DEF Shape, InTable, InDirectory, Working
    <3>2. CASE ~(call[t].copy < NumFATs)
      BY <1>1, <2>1, <3>2 DEF Shape, InTable, InDirectory, Working
    <3> QED
      BY <3>1, <3>2
  <2>5. directory' \in Directory
    BY <1>1, <1>5 DEF WriteTable
  <2> QED
    BY <1>1, <1>2, <1>3, <2>1, <2>4, <2>5, BaseMoves
<1>6. CASE ReadDirectory(t)
  <2>1. PICK c \in Calls :
           /\ Becomes(t, c, handle[t]) /\ call[t].at = "readDirectory"
           /\ c.at = "writeDirectory"
           /\ c.op = call[t].op /\ c.for = call[t].for /\ c.left = call[t].left
    BY <1>6, <1>8, ReadDirectoryDoes
  <2>2. Shape(c, handle[t])
    BY <1>1, <2>1 DEF Shape, InTable, InDirectory, Working
  <2> QED
    BY <1>1, <1>2, <1>3, <1>6, <2>1, <2>2, BaseCalls DEF ReadDirectory
<1>7. CASE WriteDirectory(t)
  <2>1. PICK c \in Calls :
           /\ Becomes(t, c, handle[t]) /\ call[t].at = "writeDirectory"
           /\ directory' \in Directory
           /\ call[t].for # "first" => c = None
           /\ call[t].for = "first" => /\ c.at = "readTable" /\ c.op = call[t].op
                                       /\ c.for = call[t].for /\ c.left = call[t].left
    BY <1>1, <1>7, WriteDirectoryDoes
  <2>2. Shape(c, handle[t])
    <3>1. CASE call[t].for = "first"
      BY <1>1, <2>1, <3>1 DEF Shape, InTable, InDirectory, Working
    <3>2. CASE call[t].for # "first"
      BY <1>1, <2>1, <3>2
    <3> QED
      BY <3>1, <3>2
  <2>3. table' \in [Copy -> Table]
    BY <1>1, <1>7 DEF WriteDirectory
  <2> QED
    BY <1>1, <1>2, <1>3, <2>1, <2>2, <2>3, BaseMoves
<1> QED
  BY <1>4, <1>5, <1>6, <1>7

\* The transfers of data.
LEMMA BaseTransfers ==
  ASSUME Base, NEW t \in Task,
         \/ Load(t) \/ Overrun(t) \/ LoadForWrite(t) \/ Store(t) \/ NextToRead(t) \/ NextToWrite(t)
  PROVE  Base'
<1>1. /\ TypeOK /\ Shape(call[t], handle[t]) /\ struck \subseteq Kinds
      /\ table \in [Copy -> Table] /\ directory \in Directory /\ call[t] \in Calls
      /\ calls \in 0 .. MaxCalls /\ handle[t] \in Handles
      /\ \A h \in Handles : Shape(None, h)
  BY Nones DEF Base, Shapes, TypeOK, Kinds, Shape, InTable, InDirectory, Working
<1>2. struck \subseteq struck' /\ struck' \subseteq Kinds /\ Raced(call') \subseteq struck'
  BY <1>1, StepRecords DEF Load, Overrun, LoadForWrite, Store, NextToRead, NextToWrite
<1>3. UNCHANGED <<table, directory, calls>>
  BY DEF Load, Overrun, LoadForWrite, Store, NextToRead, NextToWrite
<1>4. CASE Load(t)
  <2>1. PICK c \in Calls, h \in Handles :
           /\ Becomes(t, c, h) /\ call[t].at = "load" /\ call[t].op = "read"
           /\ h.file = handle[t].file
           /\ c = None \/ (c.at = "next" /\ c.op = call[t].op /\ c.for = call[t].for)
    BY <1>1, <1>4, LoadDoes
  <2>2. Shape(c, h)
    <3>1. CASE c = None
      BY <1>1, <3>1
    <3>2. CASE c.at = "next" /\ c.op = call[t].op /\ c.for = call[t].for
      BY <1>1, <2>1, <3>2 DEF Shape, InTable, InDirectory, Working
    <3> QED
      BY <2>1, <3>1, <3>2
  <2> QED
    BY <1>1, <1>2, <1>3, <2>1, <2>2, BaseMoves
<1>5. CASE Overrun(t)
  <2>1. PICK c \in Calls :
           /\ Becomes(t, c, handle[t]) /\ call[t].at = "load" /\ call[t].left < 0
           /\ c.at = "overrun" /\ c.op = call[t].op /\ c.left = call[t].left
    BY <1>1, <1>5, OverrunDoes
  <2>2. Shape(c, handle[t])
    BY <1>1, <2>1 DEF Shape, InTable, InDirectory, Working
  <2> QED
    BY <1>1, <1>2, <1>3, <2>1, <2>2, BaseCalls
<1>6. CASE LoadForWrite(t)
  <2>1. PICK c \in Calls :
           /\ Becomes(t, c, handle[t]) /\ call[t].at = "load" /\ call[t].op = "write"
           /\ c.at = "store" /\ c.op = call[t].op /\ c.for = call[t].for /\ c.left = call[t].left
    BY <1>1, <1>6, LoadForWriteDoes
  <2>2. Shape(c, handle[t])
    BY <1>1, <2>1 DEF Shape, InTable, InDirectory, Working
  <2> QED
    BY <1>1, <1>2, <1>3, <2>1, <2>2, BaseCalls
<1>7. CASE Store(t)
  <2>1. call[t].left >= 0 /\ call[t].left \in Int
    BY <1>1, <1>7, Fields DEF Store, Step, Shape
  <2>2. PICK c \in Calls, h \in Handles :
           /\ Becomes(t, c, h) /\ call[t].at = "store" /\ h.file = handle[t].file
           /\ IF call[t].left - Length(t) > 0
              THEN /\ c.at = "next" /\ c.left = call[t].left - Length(t)
                   /\ c.op = call[t].op /\ c.for = call[t].for
              ELSE IF h.position > handle[t].size
              THEN c.at = "readDirectory" /\ c.op = "write" /\ c.for = "size" /\ c.left = 0
              ELSE c = None
    BY <1>1, <1>7, <2>1, StoreDoes
  <2>3. Shape(c, h)
    <3>1. CASE c = None
      BY <1>1, <3>1
    <3>2. CASE call[t].left - Length(t) > 0
      <4>1. c.left >= 0
        BY <2>1, <2>2, <3>2, LengthIs, <1>1
      <4> QED
        BY <1>1, <2>2, <3>2, <4>1 DEF Shape, InTable, InDirectory, Working
    <3>3. CASE c.at = "readDirectory" /\ c.op = "write" /\ c.for = "size" /\ c.left = 0
      BY <1>1, <2>2, <3>3 DEF Shape, InTable, InDirectory, Working
    <3> QED
      BY <2>2, <3>1, <3>2, <3>3
  <2> QED
    BY <1>1, <1>2, <1>3, <2>2, <2>3, BaseMoves
<1>8. CASE NextToRead(t)
  <2>1. PICK c \in Calls :
           /\ Becomes(t, c, handle[t]) /\ call[t].at = "next" /\ call[t].op = "read"
           /\ c = None \/ (c.at = "load" /\ c.op = call[t].op /\ c.for = call[t].for)
    BY <1>1, <1>8, NextToReadDoes
  <2>2. Shape(c, handle[t])
    <3>1. CASE c = None
      BY <1>1, <3>1
    <3>2. CASE c.at = "load" /\ c.op = call[t].op /\ c.for = call[t].for
      BY <1>1, <2>1, <3>2 DEF Shape, InTable, InDirectory, Working
    <3> QED
      BY <2>1, <3>1, <3>2
  <2> QED
    BY <1>1, <1>2, <1>3, <2>1, <2>2, BaseCalls
<1>9. CASE NextToWrite(t)
  <2>1. PICK c \in Calls, x \in NextOf(call[t].cluster) :
           /\ Becomes(t, c, handle[t]) /\ call[t].at = "next" /\ call[t].op = "write"
           /\ c.op = call[t].op /\ c.left = call[t].left
           /\ IF x = Eoc THEN c.at = "find" /\ c.for = "append"
              ELSE c.at = (IF call[t].flags THEN "store" ELSE "load") /\ c.for = call[t].for
    BY <1>1, <1>9, NextToWriteDoes
  <2>2. Shape(c, handle[t])
    BY <1>1, <2>1 DEF Shape, InTable, InDirectory, Working
  <2> QED
    BY <1>1, <1>2, <1>3, <2>1, <2>2, BaseCalls
<1> QED
  BY <1>4, <1>5, <1>6, <1>7, <1>8, <1>9

\* The beginning, and every step.
LEMMA BaseInit == Init => Base
<1> SUFFICES ASSUME Init PROVE Base
  OBVIOUS
<1>1. PICK f \in File : directory = [NoDirectory EXCEPT ![f] = [size |-> 2 * Bytes, first |-> 2]]
  BY DEF Init
<1>2. PICK e : e = [size |-> 2 * Bytes, first |-> 2]
  OBVIOUS
<1>3. e \in [size : Nat, first : Entry]
  BY <1>2, Constants, FatAssumption
<1>4. directory \in Directory
  BY <1>1, <1>2, <1>3, Nones DEF Directory
<1>5. [NoTable EXCEPT ![2] = 3, ![3] = Eoc] \in Table
  BY Nones, Constants DEF Table
<1>6. Closed \in Handles
  BY Constants DEF Closed, Handles
<1>7. TypeOK
  BY <1>4, <1>5, <1>6, Nones, FatAssumption DEF Init, TypeOK
<1>8. \A t \in Task : call[t] = None /\ handle[t].file = NoFile
  BY <1>6 DEF Init, Closed
<1>9. Shapes
  BY <1>8, Nones DEF Shapes, Shape, InTable, InDirectory, Working
<1>10. Alone
  BY <1>8, Nones DEF Alone, Allocates, UpdatesDirectory, IsOpen
<1> QED
  BY <1>7, <1>9, <1>10 DEF Base

\* After a reset there is nothing left to go wrong.
LEMMA BaseReset == ASSUME Base, Reset PROVE Base'
<1>1. handle' = [t \in Task |-> Closed] /\ call' = [t \in Task |-> None]
  BY DEF Reset
<1>2. Closed \in Handles
  BY Constants DEF Closed, Handles
<1>3. \A t \in Task : call'[t] = None /\ handle'[t].file = NoFile
  BY <1>1 DEF Closed
<1>4. calls' \in 0 .. MaxCalls
  BY FatAssumption DEF Base, TypeOK, Reset
<1>5. struck' \subseteq Kinds
  BY DEF Base, TypeOK, Reset, Kinds
<1>6. TypeOK'
  BY <1>1, <1>2, <1>4, <1>5, Nones DEF Base, TypeOK, Reset, Kinds
<1>7. Shapes'
  BY <1>3, Nones DEF Shapes, Shape, InTable, InDirectory, Working
<1>8. Alone'
  BY <1>3, Nones DEF Alone, Allocates, UpdatesDirectory, IsOpen
<1> QED
  BY <1>6, <1>7, <1>8 DEF Base

\* Whatever step comes, what holds whatever happens goes on holding.
LEMMA BaseStep == ASSUME Base, [Next]_vars PROVE Base'
<1>1. CASE UNCHANGED vars
  BY <1>1 DEF vars, Base, TypeOK, Shapes, Alone, IsOpen, Spared
<1>2. CASE Reset
  BY <1>2, BaseReset
<1>3. ASSUME NEW t \in Task, TaskStep(t) PROVE Base'
  BY <1>3, BaseBegins, BaseSearches, BaseEntries, BaseTransfers DEF TaskStep
<1> QED
  BY <1>1, <1>2, <1>3 DEF Next

-----------------------------------------------------------------------------
\* Every step of a task is one of its call and of its open file; the others keep
\* theirs, and the history grows.
LEMMA TaskDoes ==
  ASSUME Base, NEW t \in Task, TaskStep(t)
  PROVE  /\ \E c \in Calls, h \in Handles : Becomes(t, c, h)
         /\ struck \subseteq struck'
<1>1. TypeOK /\ Shape(call[t], handle[t]) /\ struck \subseteq Kinds /\ call[t] \in Calls /\ handle[t] \in Handles
  BY DEF Base, Shapes, TypeOK, Kinds
<1>2. CASE Open(t) \/ Close(t) \/ Seek(t) \/ Read(t) \/ Write(t)
  <2>1. struck \subseteq struck'
    BY <1>2 DEF Open, Close, Seek, Read, Write, Step
  <2>2. CASE Open(t)
    BY <1>1, <2>1, <2>2, OpenDoes
  <2>3. CASE Close(t)
    BY <1>1, <2>1, <2>3, CloseDoes
  <2>4. CASE Seek(t)
    BY <1>1, <2>1, <2>4, SeekDoes
  <2>5. CASE Read(t)
    BY <1>1, <2>1, <2>5, ReadDoes
  <2>6. CASE Write(t)
    BY <1>1, <2>1, <2>6, WriteDoes
  <2> QED
    BY <1>2, <2>2, <2>3, <2>4, <2>5, <2>6
<1>3. CASE Walk(t)
  <2>1. call[t].at = "walk" => call[t].steps > 0
    BY <1>1 DEF Shape
  <2> QED
    BY <1>1, <1>3, <2>1, WalkDoes, Nones
<1>4. CASE FindFirst(t) \/ FindNext(t) \/ NoSpace(t)
  <2>1. struck \subseteq struck'
    BY <1>4 DEF FindFirst, FindNext, NoSpace, Step
  <2>2. CASE FindFirst(t)
    BY <1>1, <2>1, <2>2, FindFirstDoes
  <2>3. CASE FindNext(t)
    BY <1>1, <2>1, <2>3, FindNextDoes
  <2>4. CASE NoSpace(t)
    BY <1>1, <2>1, <2>4, NoSpaceDoes, Nones
  <2> QED
    BY <1>4, <2>2, <2>3, <2>4
<1>5. CASE ReadTable(t) \/ WriteTable(t) \/ ReadDirectory(t) \/ WriteDirectory(t)
  <2>1. struck \subseteq struck'
    BY <1>5 DEF ReadTable, WriteTable, ReadDirectory, WriteDirectory, Step
  <2>2. CASE ReadTable(t)
    BY <1>1, <2>1, <2>2, ReadTableDoes
  <2>3. CASE WriteTable(t)
    BY <1>1, <2>1, <2>3, WriteTableDoes
  <2>4. CASE ReadDirectory(t)
    BY <1>1, <2>1, <2>4, ReadDirectoryDoes
  <2>5. CASE WriteDirectory(t)
    BY <1>1, <2>1, <2>5, WriteDirectoryDoes
  <2> QED
    BY <1>5, <2>2, <2>3, <2>4, <2>5
<1>6. CASE Load(t) \/ Overrun(t) \/ LoadForWrite(t) \/ Store(t) \/ NextToRead(t) \/ NextToWrite(t)
  <2>1. struck \subseteq struck'
    BY <1>6 DEF Load, Overrun, LoadForWrite, Store, NextToRead, NextToWrite, Step
  <2>2. CASE Load(t)
    BY <1>1, <2>1, <2>2, LoadDoes
  <2>3. CASE Overrun(t)
    BY <1>1, <2>1, <2>3, OverrunDoes
  <2>4. CASE LoadForWrite(t)
    BY <1>1, <2>1, <2>4, LoadForWriteDoes
  <2>5. CASE Store(t)
    <3>1. call[t].left >= 0
      BY <1>1, <2>5 DEF Store, Step, Shape
    <3> QED
      BY <1>1, <2>1, <2>5, <3>1, StoreDoes
  <2>6. CASE NextToRead(t)
    BY <1>1, <2>1, <2>6, NextToReadDoes
  <2>7. CASE NextToWrite(t)
    BY <1>1, <2>1, <2>7, NextToWriteDoes
  <2> QED
    BY <1>6, <2>2, <2>3, <2>4, <2>5, <2>6, <2>7
<1> QED
  BY <1>2, <1>3, <1>4, <1>5, <1>6 DEF TaskStep
-----------------------------------------------------------------------------
\* The copies of the table: the same, but those that the one task that is writing
\* them has written already.
CopiesKept ==
  Spared({"table", "torn"}) =>
    /\ (\A t \in Task : call[t].at # "writeTable") => \A i \in Copy : table[i] = table[1]
    /\ \A t \in Task : call[t].at = "writeTable" =>
         \A i \in Copy : i < call[t].copy => table[i] = call[t].table

\* Each step of a task keeps the copies as they should be.
LEMMA CopiesTask ==
  ASSUME Base, CopiesKept, NEW t \in Task, TaskStep(t)
  PROVE  CopiesKept'
<1>1. TypeOK /\ Shape(call[t], handle[t])
  BY DEF Base, Shapes
<1>2. SUFFICES ASSUME "table" \notin struck', "torn" \notin struck'
               PROVE  /\ (\A u \in Task : call'[u].at # "writeTable") => \A i \in Copy : table'[i] = table'[1]
                      /\ \A u \in Task : call'[u].at = "writeTable" =>
                           \A i \in Copy : i < call'[u].copy => table'[i] = call'[u].table
  BY DEF CopiesKept, Spared
<1>3. /\ (\A u \in Task : call[u].at # "writeTable") => \A i \in Copy : table[i] = table[1]
      /\ \A u \in Task : call[u].at = "writeTable" =>
           \A i \in Copy : i < call[u].copy => table[i] = call[u].table
      /\ \A u, v \in Task : call[u].at = "writeTable" /\ call[v].at = "writeTable" => u = v
  BY <1>2, TaskDoes DEF CopiesKept, Spared, Base, Alone, Allocates
<1>4. CASE WriteTable(t)
  <2>1. PICK c \in Calls :
           /\ Becomes(t, c, handle[t]) /\ call[t].at = "writeTable"
           /\ table' \in [Copy -> Table]
           /\ \A i \in Copy : table'[i] = IF i = call[t].copy THEN call[t].table ELSE table[i]
           /\ IF call[t].copy < NumFATs
              THEN c.at = "writeTable" /\ c.copy = call[t].copy + 1 /\ c.table = call[t].table
              ELSE c.at \in {"readTable", "store"}
    BY <1>1, <1>4, WriteTableDoes
  <2>2. \A u \in Task : u # t => call'[u] = call[u] /\ call[u].at # "writeTable"
    BY <1>1, <1>3, <2>1, BecomesMeans, HandleFields DEF TypeOK
  <2>3. call'[t] = c
    BY <1>1, <2>1, BecomesMeans DEF TypeOK
  <2>4. call[t].copy \in Copy /\ call[t].copy \in Int
    <3>1. call[t].at = "writeTable"
      BY <2>1
    <3>2. call[t].copy \in Copy
      BY <1>1, <3>1 DEF Shape
    <3> QED
      BY <3>2 DEF Copy
  <2>5. \A i \in Copy : i <= call[t].copy => table'[i] = call[t].table
    <3>1. \A i \in Copy : i \in Int
      BY Constants
    <3> QED
      BY <1>3, <2>1, <2>4, <3>1
  <2>6. CASE call[t].copy < NumFATs
    <3>1. \A i \in Copy : i < c.copy => i <= call[t].copy
      BY <2>1, <2>4, <2>6 DEF Copy
    <3> QED
      BY <2>1, <2>2, <2>3, <2>5, <2>6, <3>1
  <2>7. CASE ~(call[t].copy < NumFATs)
    <3>1. \A i \in Copy : i <= call[t].copy
      BY <2>4, <2>7, FatAssumption DEF Copy
    <3>2. \A i \in Copy : table'[i] = table'[1]
      <4>1. 1 \in Copy
        BY Constants
      <4>2. \A i \in Copy : table'[i] = call[t].table
        BY <2>5, <3>1
      <4> QED
        BY <4>1, <4>2
    <3>3. \A u \in Task : call'[u].at # "writeTable"
      BY <2>1, <2>2, <2>3, <2>7
    <3> QED
      BY <3>2, <3>3
  <2> QED
    BY <2>6, <2>7
<1>5. CASE ReadTable(t)
  <2>1. PICK c \in Calls :
           Becomes(t, c, handle[t]) /\ call[t].at = "readTable" /\ c.at = "writeTable" /\ c.copy = 1
    BY <1>1, <1>5, ReadTableDoes
  <2>2. call'[t] = c /\ \A u \in Task : u # t => call'[u] = call[u]
    BY <1>1, <2>1, BecomesMeans DEF TypeOK
  <2>3. \A i \in Copy : ~(i < c.copy)
    BY <2>1 DEF Copy
  <2>4. UNCHANGED table
    BY <1>5 DEF ReadTable
  <2> QED
    BY <1>3, <2>1, <2>2, <2>3, <2>4
<1>6. CASE ~WriteTable(t) /\ ~ReadTable(t)
  <2>1. PICK c \in Calls, h \in Handles :
           Becomes(t, c, h) /\ call[t].at # "writeTable" /\ c.at # "writeTable"
    <3>1. CASE Open(t)
      BY <1>1, <3>1, OpenDoes DEF TypeOK
    <3>2. CASE Close(t)
      BY <1>1, <3>2, CloseDoes DEF TypeOK
    <3>3. CASE Seek(t)
      BY <1>1, <3>3, SeekDoes DEF TypeOK
    <3>4. CASE Read(t)
      BY <1>1, <3>4, ReadDoes DEF TypeOK
    <3>5. CASE Write(t)
      <4>1. PICK c \in Calls : /\ Becomes(t, c, handle[t]) /\ call[t].at = "out"
                               /\ handle[t].first = 0 => c.at = "find"
                               /\ handle[t].first # 0 => c.at = IF Index(t) > 0 THEN "walk" ELSE "load"
        BY <1>1, <3>5, WriteDoes
      <4> QED
        BY <1>1, <4>1 DEF TypeOK
    <3>6. CASE Walk(t)
      <4>1. PICK c \in NextOf(call[t].cluster) :
           /\ call[t].at = "walk"
           /\ IF Arrived(t) /\ call[t].op = "write" /\ c = 0
              THEN Becomes(t, None, handle[t])
              ELSE \E d : /\ call[t].steps > 0 => d \in Calls
                          /\ Becomes(t, d, handle[t])
                          /\ d.at = IF Arrived(t) THEN "load" ELSE "walk"
        BY <1>1, <3>6, WalkDoes
      <4>2. call[t].steps > 0
        BY <1>1, <4>1 DEF Shape
      <4>3. CASE Arrived(t) /\ call[t].op = "write" /\ c = 0
        BY <1>1, <4>1, <4>3, Nones DEF TypeOK
      <4>4. CASE ~(Arrived(t) /\ call[t].op = "write" /\ c = 0)
        BY <1>1, <4>1, <4>2, <4>4 DEF TypeOK
      <4> QED
        BY <4>3, <4>4
    <3>7. CASE FindFirst(t)
      BY <1>1, <3>7, FindFirstDoes
    <3>8. CASE FindNext(t)
      BY <1>1, <3>8, FindNextDoes DEF TypeOK
    <3>9. CASE NoSpace(t)
      BY <1>1, <3>9, NoSpaceDoes, Nones DEF TypeOK
    <3>10. CASE ReadDirectory(t)
      BY <1>1, <3>10, ReadDirectoryDoes DEF TypeOK
    <3>11. CASE WriteDirectory(t)
      BY <1>1, <3>11, WriteDirectoryDoes, Nones DEF TypeOK
    <3>12. CASE Load(t)
      BY <1>1, <3>12, LoadDoes, Nones
    <3>13. CASE Overrun(t)
      BY <1>1, <3>13, OverrunDoes DEF TypeOK
    <3>14. CASE LoadForWrite(t)
      BY <1>1, <3>14, LoadForWriteDoes DEF TypeOK
    <3>15. CASE Store(t)
      <4>1. call[t].left >= 0
        BY <1>1, <3>15 DEF Store, Step, Shape
      <4>2. PICK c \in Calls, h \in Handles :
           /\ Becomes(t, c, h) /\ call[t].at = "store"
           /\ c.at \in {"next", "readDirectory"} \/ c = None
        BY <1>1, <3>15, <4>1, StoreDoes
      <4> QED
        BY <4>2, Nones
    <3>16. CASE NextToRead(t)
      BY <1>1, <3>16, NextToReadDoes, Nones DEF TypeOK
    <3>17. CASE NextToWrite(t)
      BY <1>1, <3>17, NextToWriteDoes DEF TypeOK
    <3> QED
      BY <1>6, <3>1, <3>2, <3>3, <3>4, <3>5, <3>6, <3>7, <3>8, <3>9, <3>10, <3>11, <3>12, <3>13,
         <3>14, <3>15, <3>16, <3>17 DEF TaskStep
  <2>2. call'[t] = c /\ \A u \in Task : u # t => call'[u] = call[u]
    BY <1>1, <2>1, BecomesMeans
  <2>3. UNCHANGED table
    BY <1>6 DEF TaskStep, Open, Close, Seek, Read, Write, Walk, FindFirst, FindNext, NoSpace,
                ReadDirectory, WriteDirectory, Load, Overrun, LoadForWrite, Store, NextToRead,
                NextToWrite
  <2> QED
    BY <1>3, <2>1, <2>2, <2>3
<1> QED
  BY <1>4, <1>5, <1>6

\* And each step of the system does.
LEMMA CopiesStep == ASSUME Base, CopiesKept, [Next]_vars PROVE CopiesKept'
<1>1. CASE UNCHANGED vars
  BY <1>1 DEF vars, CopiesKept, Spared
<1>2. CASE Reset
  <2>1. SUFFICES ASSUME "table" \notin struck', "torn" \notin struck'
                 PROVE  /\ \A i \in Copy : table'[i] = table'[1]
                        /\ \A u \in Task : call'[u].at # "writeTable"
    BY DEF CopiesKept, Spared
  <2>2. \A u \in Task : call[u].at # "writeTable"
    BY <1>2, <2>1 DEF Reset, Allocates
  <2>3. UNCHANGED table /\ struck \subseteq struck' /\ \A u \in Task : call'[u] = None
    BY <1>2 DEF Reset
  <2> QED
    BY <2>1, <2>2, <2>3, Nones DEF CopiesKept, Spared
<1>3. ASSUME NEW t \in Task, TaskStep(t) PROVE CopiesKept'
  BY <1>3, CopiesTask
<1> QED
  BY <1>1, <1>2, <1>3 DEF Next

\* The copies agree at the beginning.
LEMMA CopiesInit == ASSUME Init PROVE CopiesKept
<1>1. \A t \in Task : call[t].at # "writeTable"
  BY Nones DEF Init
<1>2. \A i \in Copy : table[i] = table[1]
  BY Constants DEF Init
<1> QED
  BY <1>1, <1>2 DEF CopiesKept
-----------------------------------------------------------------------------
\* As long as the disk was never full: what is left to do is never negative, what is
\* left to read ends with the file, and a position that a call begins or ends with is
\* inside the file.
Lengths(c, h) ==
  /\ c.left >= 0
  /\ c.at \in {"out", "walk"} => h.position <= h.size
  /\ c.at \in InDirectory /\ c.for = "size" => h.position <= h.size
  /\ c.op = "read" /\ c.at \in {"walk", "load", "next"} => h.position + c.left <= h.size
LengthKept == Spared({"full"}) => \A t \in Task : Lengths(call[t], handle[t])

\* The lengths are kept when the task that moves keeps its own.
LEMMA LengthMoves ==
  ASSUME Base, LengthKept, NEW t \in Task, NEW c \in Calls, NEW h \in Handles, Becomes(t, c, h),
         struck \subseteq struck', Spared({"full"}) /\ "full" \notin struck' => Lengths(c, h)
  PROVE  LengthKept'
<1>1. TypeOK
  BY DEF Base
<1>2. call'[t] = c /\ handle'[t] = h /\ \A u \in Task : u # t => call'[u] = call[u] /\ handle'[u] = handle[u]
  BY <1>1, BecomesMeans
<1> QED
  BY <1>2 DEF LengthKept, Spared

\* A call begins.
LEMMA LengthBegins ==
  ASSUME Base, LengthKept, NEW t \in Task, Open(t) \/ Close(t) \/ Seek(t) \/ Read(t) \/ Write(t)
  PROVE  LengthKept'
<1>1. /\ TypeOK /\ call[t] \in Calls /\ handle[t] \in Handles /\ handle[t].position \in Nat
      /\ handle[t].size \in Nat /\ struck \subseteq struck'
  BY TaskDoes, HandleFields DEF Base, TypeOK, TaskStep
<1>2. Spared({"full"}) => Lengths(call[t], handle[t])
  BY DEF LengthKept
<1>3. CASE Open(t)
  <2>1. PICK h \in Handles : Becomes(t, call[t], h) /\ call[t].at = "out" /\ h.position <= h.size
    BY <1>1, <1>3, OpenDoes
  <2> QED
    BY <1>1, <1>2, <2>1, LengthMoves DEF Lengths, InDirectory
<1>4. CASE Close(t)
  <2>1. PICK h \in Handles : Becomes(t, call[t], h) /\ call[t].at = "out" /\ h.position = 0 /\ h.size = 0
    BY <1>1, <1>4, CloseDoes
  <2> QED
    BY <1>1, <1>2, <2>1, LengthMoves DEF Lengths, InDirectory
<1>5. CASE Seek(t)
  <2>1. PICK h \in Handles : Becomes(t, call[t], h) /\ call[t].at = "out" /\ h.position <= h.size
    BY <1>1, <1>5, SeekDoes
  <2> QED
    BY <1>1, <1>2, <2>1, LengthMoves DEF Lengths, InDirectory
<1>6. CASE Read(t)
  <2>1. PICK c \in Calls :
           /\ Becomes(t, c, handle[t]) /\ call[t].at = "out"
           /\ c.at = IF Index(t) > 0 THEN "walk" ELSE "load"
           /\ c.left <= handle[t].size - handle[t].position
           /\ handle[t].position <= handle[t].size => c.left >= 0
    BY <1>1, <1>6, ReadDoes
  <2>2. Spared({"full"}) => Lengths(c, handle[t])
    <3>1. c.left \in Int /\ c.at \in {"walk", "load"}
      BY <2>1, Fields
    <3> QED
      BY <1>1, <1>2, <2>1, <3>1 DEF Lengths, InDirectory
  <2> QED
    BY <1>1, <2>1, <2>2, LengthMoves
<1>7. CASE Write(t)
  <2>1. PICK c \in Calls :
           /\ Becomes(t, c, handle[t]) /\ call[t].at = "out" /\ c.op = "write" /\ c.left > 0
           /\ handle[t].first = 0 => c.at = "find"
           /\ handle[t].first # 0 => c.at = IF Index(t) > 0 THEN "walk" ELSE "load"
    BY <1>1, <1>7, WriteDoes
  <2>2. Spared({"full"}) => Lengths(c, handle[t])
    <3>1. c.left \in Int /\ c.at \in {"find", "walk", "load"}
      BY <2>1, Fields
    <3> QED
      BY <1>1, <1>2, <2>1, <3>1 DEF Lengths, InDirectory
  <2> QED
    BY <1>1, <2>1, <2>2, LengthMoves
<1> QED
  BY <1>3, <1>4, <1>5, <1>6, <1>7

\* A walk, a search for a free cluster, an entry of the table, the inode.
LEMMA LengthGoesOn ==
  ASSUME Base, LengthKept, NEW t \in Task,
         \/ Walk(t) \/ FindFirst(t) \/ FindNext(t) \/ NoSpace(t)
         \/ ReadTable(t) \/ WriteTable(t) \/ ReadDirectory(t) \/ WriteDirectory(t)
  PROVE  LengthKept'
<1>1. /\ TypeOK /\ call[t] \in Calls /\ handle[t] \in Handles /\ handle[t].position \in Nat
      /\ handle[t].size \in Nat /\ struck \subseteq struck' /\ Shape(call[t], handle[t])
  BY TaskDoes, HandleFields DEF Base, Shapes, TypeOK, TaskStep
<1>2. Spared({"full"}) => Lengths(call[t], handle[t])
  BY DEF LengthKept
<1>3. CASE Walk(t)
  <2>1. PICK c \in NextOf(call[t].cluster) :
           /\ call[t].at = "walk"
           /\ IF Arrived(t) /\ call[t].op = "write" /\ c = 0
              THEN Becomes(t, None, handle[t])
              ELSE \E d : /\ call[t].steps > 0 => d \in Calls
                          /\ Becomes(t, d, handle[t])
                          /\ d.at = IF Arrived(t) THEN "load" ELSE "walk"
                          /\ d.op = call[t].op /\ d.for = call[t].for /\ d.left = call[t].left
    BY <1>1, <1>3, WalkDoes
  <2>2. CASE Arrived(t) /\ call[t].op = "write" /\ c = 0
    BY <1>1, <1>2, <2>1, <2>2, Nones, LengthMoves DEF Lengths, InDirectory
  <2>3. CASE ~(Arrived(t) /\ call[t].op = "write" /\ c = 0)
    <3>1. call[t].steps > 0
      BY <1>1, <2>1 DEF Shape
    <3>2. PICK d \in Calls :
                          /\ Becomes(t, d, handle[t])
                          /\ d.at \in {"load", "walk"}
                          /\ d.op = call[t].op /\ d.for = call[t].for /\ d.left = call[t].left
      BY <2>1, <2>3, <3>1
    <3> QED
      BY <1>1, <1>2, <2>1, <3>2, LengthMoves DEF Lengths, InDirectory
  <2> QED
    BY <2>2, <2>3
<1>4. CASE FindFirst(t)
  <2>1. PICK c \in Calls, h \in Handles, x \in Cluster :
           /\ Becomes(t, c, h) /\ call[t].for = "first" /\ call[t].at = "find"
           /\ c.at = "readDirectory" /\ c.op = call[t].op /\ c.for = call[t].for /\ c.left = call[t].left
    BY <1>1, <1>4, FindFirstDoes
  <2> QED
    BY <1>1, <1>2, <2>1, LengthMoves DEF Lengths, InDirectory, Shape
<1>5. CASE FindNext(t)
  <2>1. PICK c \in Calls :
           Becomes(t, c, handle[t]) /\ c.at = "readTable" /\ c.left = call[t].left
    BY <1>1, <1>5, FindNextDoes
  <2> QED
    BY <1>1, <1>2, <2>1, LengthMoves DEF Lengths, InDirectory
<1>6. CASE NoSpace(t)
  BY <1>1, <1>6, NoSpaceDoes, Nones, LengthMoves
<1>7. CASE ReadTable(t)
  <2>1. PICK c \in Calls :
           Becomes(t, c, handle[t]) /\ c.at = "writeTable" /\ c.left = call[t].left
    BY <1>1, <1>7, ReadTableDoes
  <2> QED
    BY <1>1, <1>2, <2>1, LengthMoves DEF Lengths, InDirectory
<1>8. CASE WriteTable(t)
  <2>1. PICK c \in Calls :
           /\ Becomes(t, c, handle[t]) /\ call[t].at = "writeTable"
           /\ c.op = call[t].op /\ c.left = call[t].left
           /\ c.at \in {"writeTable", "readTable", "store"}
    BY <1>1, <1>8, WriteTableDoes
  <2>2. c.op = "write"
    BY <1>1, <2>1 DEF Shape, InTable
  <2> QED
    BY <1>1, <1>2, <2>1, <2>2, LengthMoves DEF Lengths, InDirectory
<1>9. CASE ReadDirectory(t)
  <2>1. PICK c \in Calls :
           /\ Becomes(t, c, handle[t]) /\ call[t].at = "readDirectory"
           /\ c.at = "writeDirectory" /\ c.for = call[t].for /\ c.left = call[t].left
    BY <1>1, <1>9, ReadDirectoryDoes
  <2> QED
    BY <1>1, <1>2, <2>1, LengthMoves DEF Lengths, InDirectory
<1>10. CASE WriteDirectory(t)
  <2>1. PICK c \in Calls :
           /\ Becomes(t, c, handle[t]) /\ call[t].at = "writeDirectory"
           /\ call[t].for # "first" => c = None
           /\ call[t].for = "first" => c.at = "readTable" /\ c.left = call[t].left
    BY <1>1, <1>10, WriteDirectoryDoes
  <2>2. call[t].for \in {"first", "size"}
    BY <1>1, <2>1 DEF Shape, InDirectory
  <2>3. Spared({"full"}) => Lengths(c, handle[t])
    <3>1. CASE call[t].for = "first"
      BY <1>1, <1>2, <2>1, <3>1 DEF Lengths, InDirectory
    <3>2. CASE call[t].for = "size"
      BY <1>1, <1>2, <2>1, <3>2, Nones DEF Lengths, InDirectory
    <3> QED
      BY <2>2, <3>1, <3>2
  <2> QED
    BY <1>1, <2>1, <2>3, LengthMoves
<1> QED
  BY <1>3, <1>4, <1>5, <1>6, <1>7, <1>8, <1>9, <1>10

\* The transfers of data.
LEMMA LengthMovesOn ==
  ASSUME Base, LengthKept, NEW t \in Task,
         \/ Load(t) \/ Overrun(t) \/ LoadForWrite(t) \/ Store(t) \/ NextToRead(t) \/ NextToWrite(t)
  PROVE  LengthKept'
<1>1. /\ TypeOK /\ call[t] \in Calls /\ handle[t] \in Handles /\ handle[t].position \in Nat
      /\ handle[t].size \in Nat /\ struck \subseteq struck' /\ Shape(call[t], handle[t])
      /\ call[t].left \in Int
  BY TaskDoes, HandleFields, Fields DEF Base, Shapes, TypeOK, TaskStep
<1>2. Spared({"full"}) => Lengths(call[t], handle[t])
  BY DEF LengthKept
<1>3. CASE Load(t)
  <2>1. PICK c \in Calls, h \in Handles :
           /\ Becomes(t, c, h) /\ call[t].at = "load" /\ call[t].op = "read" /\ call[t].left >= 0
           /\ h.position = handle[t].position + Length(t) /\ h.size = handle[t].size
           /\ IF call[t].left - Length(t) = 0 THEN c = None
              ELSE c.at = "next" /\ c.left = call[t].left - Length(t)
    BY <1>1, <1>3, LoadDoes
  <2>2. Length(t) \in Nat /\ Length(t) <= call[t].left
    BY <1>1, <2>1, LengthIs
  <2>3. Spared({"full"}) => Lengths(c, h)
    <3>1. SUFFICES ASSUME Spared({"full"}) PROVE Lengths(c, h)
      OBVIOUS
    <3>2. handle[t].position + call[t].left <= handle[t].size
      BY <1>2, <2>1, <3>1 DEF Lengths
    <3>3. CASE call[t].left - Length(t) = 0
      <4>1. h.position <= h.size
        BY <1>1, <2>1, <2>2, <3>2, <3>3
      <4> QED
        BY <2>1, <3>3, <4>1, Nones DEF Lengths, InDirectory
    <3>4. CASE call[t].left - Length(t) # 0
      <4>1. c.left >= 0 /\ h.position + c.left <= h.size
        BY <1>1, <2>1, <2>2, <3>2, <3>4
      <4> QED
        BY <2>1, <3>4, <4>1 DEF Lengths, InDirectory
    <3> QED
      BY <3>3, <3>4
  <2> QED
    BY <1>1, <2>1, <2>3, LengthMoves
<1>4. CASE Overrun(t)
  <2>1. PICK c \in Calls : Becomes(t, c, handle[t]) /\ call[t].left < 0
    BY <1>1, <1>4, OverrunDoes
  <2>2. ~Spared({"full"})
    BY <1>1, <1>2, <2>1 DEF Lengths
  <2> QED
    BY <1>1, <2>1, <2>2, LengthMoves
<1>5. CASE LoadForWrite(t)
  <2>1. PICK c \in Calls :
           Becomes(t, c, handle[t]) /\ c.at = "store" /\ c.left = call[t].left
    BY <1>1, <1>5, LoadForWriteDoes
  <2> QED
    BY <1>1, <1>2, <2>1, LengthMoves DEF Lengths, InDirectory
<1>6. CASE Store(t)
  <2>1. call[t].at = "store" /\ call[t].left >= 0
    BY <1>1, <1>6 DEF Store, Step, Shape
  <2>2. PICK c \in Calls, h \in Handles :
           /\ Becomes(t, c, h)
           /\ IF call[t].left - Length(t) > 0
              THEN c.at = "next" /\ c.left = call[t].left - Length(t) /\ c.op = call[t].op
              ELSE IF h.position > handle[t].size
              THEN c.at = "readDirectory" /\ c.op = "write" /\ c.left = 0 /\ h.size = h.position
              ELSE c = None /\ h.size = handle[t].size
    BY <1>1, <1>6, <2>1, StoreDoes
  <2>3. call[t].op = "write" /\ h.position \in Nat /\ Length(t) \in Nat /\ Length(t) <= call[t].left
    BY <1>1, <2>1, LengthIs, HandleFields DEF Shape
  <2>4. Lengths(c, h)
    <3>1. CASE call[t].left - Length(t) > 0
      BY <1>1, <2>2, <2>3, <3>1 DEF Lengths, InDirectory
    <3>2. CASE ~(call[t].left - Length(t) > 0) /\ h.position > handle[t].size
      BY <1>1, <2>2, <2>3, <3>2 DEF Lengths, InDirectory
    <3>3. CASE ~(call[t].left - Length(t) > 0) /\ ~(h.position > handle[t].size)
      <4>1. h.position <= h.size
        BY <1>1, <2>2, <2>3, <3>3
      <4> QED
        BY <2>2, <3>3, <4>1, Nones DEF Lengths, InDirectory
    <3> QED
      BY <3>1, <3>2, <3>3
  <2> QED
    BY <1>1, <2>2, <2>4, LengthMoves
<1>7. CASE NextToRead(t)
  <2>1. PICK c \in Calls :
           /\ Becomes(t, c, handle[t]) /\ call[t].at = "next" /\ call[t].op = "read"
           /\ c = None \/ (c.at = "load" /\ c.left = call[t].left)
    BY <1>1, <1>7, NextToReadDoes
  <2>2. Spared({"full"}) => Lengths(c, handle[t])
    <3>1. SUFFICES ASSUME Spared({"full"}) PROVE Lengths(c, handle[t])
      OBVIOUS
    <3>2. handle[t].position + call[t].left <= handle[t].size /\ call[t].left >= 0
      BY <1>2, <2>1, <3>1 DEF Lengths
    <3>3. handle[t].position <= handle[t].size
      BY <1>1, <3>2
    <3> QED
      BY <2>1, <3>2, <3>3, Nones DEF Lengths, InDirectory
  <2> QED
    BY <1>1, <2>1, <2>2, LengthMoves
<1>8. CASE NextToWrite(t)
  <2>1. PICK c \in Calls, x \in NextOf(call[t].cluster) :
           /\ Becomes(t, c, handle[t]) /\ call[t].op = "write"
           /\ c.op = call[t].op /\ c.left = call[t].left
           /\ c.at \in {"find", "store", "load"}
    BY <1>1, <1>8, NextToWriteDoes
  <2> QED
    BY <1>1, <1>2, <2>1, LengthMoves DEF Lengths, InDirectory
<1> QED
  BY <1>3, <1>4, <1>5, <1>6, <1>7, <1>8

\* Each step keeps positions and lengths inside the files.
LEMMA LengthStep == ASSUME Base, LengthKept, [Next]_vars PROVE LengthKept'
<1>1. CASE UNCHANGED vars
  BY <1>1 DEF vars, LengthKept, Spared
<1>2. CASE Reset
  <2>1. \A u \in Task : call'[u] = None /\ handle'[u].position = 0 /\ handle'[u].size = 0
    BY <1>2 DEF Reset, Closed
  <2> QED
    BY <2>1, Nones DEF LengthKept, Lengths, InDirectory
<1>3. ASSUME NEW t \in Task, TaskStep(t) PROVE LengthKept'
  BY <1>3, LengthBegins, LengthGoesOn, LengthMovesOn DEF TaskStep
<1> QED
  BY <1>1, <1>2, <1>3 DEF Next

\* Nothing is open at the beginning.
LEMMA LengthInit == ASSUME Init PROVE LengthKept
<1>1. \A t \in Task : call[t] = None /\ handle[t].position = 0 /\ handle[t].size = 0
  BY DEF Init, Closed
<1> QED
  BY <1>1, Nones DEF LengthKept, Lengths, InDirectory
-----------------------------------------------------------------------------
\* As long as no file was open twice and no two tasks were inside write_inode: the
\* directory has what the inode of a task has, but for the new first cluster or the new
\* size that the task is writing there.
Inodes(c, h) ==
  /\ h.file # NoFile /\ c.at \in InDirectory /\ c.for = "first" => directory[h.file].first = 0
  /\ c.at = "writeDirectory" =>
       c.directory = [directory EXCEPT ![h.file] = [size |-> h.size, first |-> h.first]]
  /\ h.file # NoFile /\ ~(c.at \in InDirectory /\ c.for = "first") =>
       directory[h.file].first = h.first
  /\ h.file # NoFile /\ h.mode = "plain" /\ ~(c.at \in InDirectory /\ c.for = "size") =>
       directory[h.file].size = h.size
InodeKept ==
  Spared({"directory", "twice"}) => \A t \in Task : Inodes(call[t], handle[t])

\* The inodes are kept when the directory is and the task that moves keeps its own.
LEMMA InodeMoves ==
  ASSUME Base, InodeKept, NEW t \in Task, NEW c \in Calls, NEW h \in Handles, Becomes(t, c, h),
         struck \subseteq struck', UNCHANGED directory,
         Spared({"directory", "twice"}) => Inodes(c, h)
  PROVE  InodeKept'
<1>1. TypeOK
  BY DEF Base
<1>2. call'[t] = c /\ handle'[t] = h /\ \A u \in Task : u # t => call'[u] = call[u] /\ handle'[u] = handle[u]
  BY <1>1, BecomesMeans
<1>3. SUFFICES ASSUME Spared({"directory", "twice"})', NEW u \in Task
               PROVE  Inodes(call[u], handle[u])'
  BY DEF InodeKept
<1>4. Spared({"directory", "twice"})
  BY <1>3 DEF Spared
<1>5. CASE u = t
  <2>1. Inodes(c, h)
    BY <1>4
  <2> QED
    BY <1>2, <1>5, <2>1 DEF Inodes
<1>6. CASE u # t
  <2>1. Inodes(call[u], handle[u]) /\ call'[u] = call[u] /\ handle'[u] = handle[u]
    BY <1>2, <1>4, <1>6 DEF InodeKept
  <2> QED
    BY <2>1 DEF Inodes
<1> QED
  BY <1>5, <1>6

\* The steps outside of write_inode that leave the inode alone.
LEMMA InodeStays ==
  ASSUME Base, InodeKept, NEW t \in Task, NEW c \in Calls, NEW h \in Handles, Becomes(t, c, h),
         struck \subseteq struck', UNCHANGED directory,
         call[t].at \notin InDirectory, c.at \notin InDirectory,
         h.file = handle[t].file, h.mode = handle[t].mode, h.first = handle[t].first,
         h.size = handle[t].size
  PROVE  InodeKept'
<1>1. Spared({"directory", "twice"}) => Inodes(c, h)
  BY DEF InodeKept, Inodes, InDirectory
<1> QED
  BY <1>1, InodeMoves

\* Each step of a task keeps the inodes and the directory together.
LEMMA InodeTask ==
  ASSUME Base, InodeKept, NEW t \in Task, TaskStep(t)
  PROVE  InodeKept'
<1>1. /\ TypeOK /\ Shape(call[t], handle[t]) /\ call[t] \in Calls /\ handle[t] \in Handles
      /\ struck \subseteq struck' /\ directory \in Directory
  BY TaskDoes DEF Base, Shapes, TypeOK
<1>2. Spared({"directory", "twice"}) => Inodes(call[t], handle[t])
  BY DEF InodeKept
<1>3. CASE Open(t)
  <2>1. PICK h \in Handles :
           /\ Becomes(t, call[t], h) /\ call[t].at = "out"
           /\ h.first = directory[h.file].first
           /\ h.mode = "plain" => h.size = directory[h.file].size
    BY <1>1, <1>3, OpenDoes
  <2>2. Inodes(call[t], h)
    BY <2>1 DEF Inodes, InDirectory
  <2> QED
    BY <1>1, <1>3, <2>1, <2>2, InodeMoves DEF Open
<1>4. CASE Close(t)
  <2>1. PICK h \in Handles : Becomes(t, call[t], h) /\ call[t].at = "out" /\ h.file = NoFile
    BY <1>1, <1>4, CloseDoes
  <2>2. Inodes(call[t], h)
    BY <2>1 DEF Inodes, InDirectory
  <2> QED
    BY <1>1, <1>4, <2>1, <2>2, InodeMoves DEF Close
<1>5. CASE FindFirst(t)
  <2>1. PICK c \in Calls, h \in Handles, x \in Cluster :
           /\ Becomes(t, c, h) /\ call[t].at = "find" /\ call[t].for = "first"
           /\ h.file = handle[t].file /\ h.mode = handle[t].mode /\ h.size = handle[t].size
           /\ c.at = "readDirectory" /\ c.for = call[t].for
    BY <1>1, <1>5, FindFirstDoes
  <2>2. Spared({"directory", "twice"}) => Inodes(c, h)
    BY <1>1, <1>2, <2>1 DEF Inodes, InDirectory, Shape
  <2> QED
    BY <1>1, <1>5, <2>1, <2>2, InodeMoves DEF FindFirst
<1>6. CASE ReadDirectory(t)
  <2>1. PICK c \in Calls :
           /\ Becomes(t, c, handle[t]) /\ call[t].at = "readDirectory"
           /\ c.at = "writeDirectory" /\ c.directory = [directory EXCEPT ![handle[t].file] = EntryOf(t)]
           /\ c.for = call[t].for
    BY <1>1, <1>6, ReadDirectoryDoes
  <2>2. Spared({"directory", "twice"}) => Inodes(c, handle[t])
    BY <1>2, <2>1 DEF Inodes, InDirectory, EntryOf
  <2> QED
    BY <1>1, <1>6, <2>1, <2>2, InodeMoves DEF ReadDirectory
<1>7. CASE WriteDirectory(t)
  <2>1. PICK c \in Calls :
           /\ Becomes(t, c, handle[t]) /\ call[t].at = "writeDirectory"
           /\ directory' = call[t].directory
           /\ c.at \in {"readTable", "out"}
    BY <1>1, <1>7, WriteDirectoryDoes, Nones
  <2>2. call'[t] = c /\ handle'[t] = handle[t] /\ \A u \in Task : u # t => call'[u] = call[u] /\ handle'[u] = handle[u]
    BY <1>1, <2>1, BecomesMeans
  <2>3. SUFFICES ASSUME "directory" \notin struck', "twice" \notin struck', NEW u \in Task
                 PROVE  Inodes(call[u], handle[u])'
    BY DEF InodeKept, Spared
  <2>4. Spared({"directory", "twice"}) /\ \A v \in Task : Inodes(call[v], handle[v])
    BY <1>1, <2>3 DEF InodeKept, Spared
  <2>5. handle[t].file \in File /\ handle[t].file # NoFile
    BY <1>1, <2>1, HandleFields DEF Shape
  <2>6. directory' = [directory EXCEPT ![handle[t].file] = [size |-> handle[t].size, first |-> handle[t].first]]
    BY <2>1, <2>4 DEF Inodes
  <2>7. /\ directory'[handle[t].file].first = handle[t].first
        /\ directory'[handle[t].file].size = handle[t].size
        /\ \A f \in File : f # handle[t].file => directory'[f] = directory[f]
    BY <1>1, <2>5, <2>6 DEF Directory
  <2>8. CASE u = t
    BY <2>1, <2>2, <2>7, <2>8 DEF Inodes, InDirectory
  <2>9. CASE u # t
    <3>1. handle[u].file # handle[t].file
      BY <2>4, <2>5, <2>9 DEF Base, Alone, Spared, IsOpen
    <3>2. call[u].at # "writeDirectory"
      BY <2>1, <2>4, <2>9 DEF Base, Alone, Spared, UpdatesDirectory
    <3>3. handle[u].file # NoFile => directory'[handle[u].file] = directory[handle[u].file]
      BY <1>1, <2>7, <3>1, HandleFields DEF TypeOK
    <3>4. PICK r, g : r = call[u] /\ g = handle[u]
      OBVIOUS
    <3>5. call'[u] = r /\ handle'[u] = g /\ Inodes(r, g) /\ r.at # "writeDirectory"
      BY <2>2, <2>4, <2>9, <3>2, <3>4
    <3>6. g.file # NoFile => directory'[g.file] = directory[g.file]
      BY <3>3, <3>4
    <3> QED
      BY <3>5, <3>6 DEF Inodes
  <2> QED
    BY <2>8, <2>9
<1>8. CASE Store(t)
  <2>1. call[t].at = "store" /\ call[t].left >= 0
    BY <1>1, <1>8 DEF Store, Step, Shape
  <2>2. PICK c \in Calls, h \in Handles :
           /\ Becomes(t, c, h)
           /\ h.file = handle[t].file /\ h.mode = handle[t].mode /\ h.first = handle[t].first
           /\ \/ c.at \in {"next", "out"} /\ h.size = handle[t].size
              \/ c.at = "readDirectory" /\ c.for = "size"
    BY <1>1, <1>8, <2>1, StoreDoes, Nones
  <2>3. Spared({"directory", "twice"}) => Inodes(c, h)
    BY <1>2, <2>1, <2>2 DEF Inodes, InDirectory
  <2> QED
    BY <1>1, <1>8, <2>2, <2>3, InodeMoves DEF Store
<1>9. CASE ~(Open(t) \/ Close(t) \/ FindFirst(t) \/ ReadDirectory(t) \/ WriteDirectory(t) \/ Store(t))
  <2>1. \E c \in Calls, h \in Handles :
          /\ Becomes(t, c, h) /\ call[t].at \notin InDirectory /\ c.at \notin InDirectory
          /\ h.file = handle[t].file /\ h.mode = handle[t].mode /\ h.first = handle[t].first
          /\ h.size = handle[t].size
    <3>1. CASE Seek(t)
      BY <1>1, <3>1, SeekDoes DEF InDirectory
    <3>2. CASE Read(t)
      BY <1>1, <3>2, ReadDoes DEF InDirectory
    <3>3. CASE Write(t)
      <4>1. PICK c \in Calls : /\ Becomes(t, c, handle[t]) /\ call[t].at = "out"
                               /\ handle[t].first = 0 => c.at = "find"
                               /\ handle[t].first # 0 => c.at = IF Index(t) > 0 THEN "walk" ELSE "load"
        BY <1>1, <3>3, WriteDoes
      <4> QED
        BY <1>1, <4>1 DEF InDirectory
    <3>4. CASE Walk(t)
      <4>1. PICK c \in NextOf(call[t].cluster) :
           /\ call[t].at = "walk"
           /\ IF Arrived(t) /\ call[t].op = "write" /\ c = 0
              THEN Becomes(t, None, handle[t])
              ELSE \E d : /\ call[t].steps > 0 => d \in Calls
                          /\ Becomes(t, d, handle[t])
                          /\ d.at = IF Arrived(t) THEN "load" ELSE "walk"
        BY <1>1, <3>4, WalkDoes
      <4>2. call[t].steps > 0
        BY <1>1, <4>1 DEF Shape
      <4>3. CASE Arrived(t) /\ call[t].op = "write" /\ c = 0
        BY <1>1, <4>1, <4>3, Nones DEF InDirectory
      <4>4. CASE ~(Arrived(t) /\ call[t].op = "write" /\ c = 0)
        BY <1>1, <4>1, <4>2, <4>4 DEF InDirectory
      <4> QED
        BY <4>3, <4>4
    <3>5. CASE FindNext(t)
      BY <1>1, <3>5, FindNextDoes DEF InDirectory
    <3>6. CASE NoSpace(t)
      BY <1>1, <3>6, NoSpaceDoes, Nones DEF InDirectory
    <3>7. CASE ReadTable(t)
      BY <1>1, <3>7, ReadTableDoes DEF InDirectory
    <3>8. CASE WriteTable(t)
      <4>1. PICK c \in Calls : /\ Becomes(t, c, handle[t]) /\ call[t].at = "writeTable"
                               /\ c.at \in {"writeTable", "readTable", "store"}
        BY <1>1, <3>8, WriteTableDoes
      <4> QED
        BY <1>1, <4>1 DEF InDirectory
    <3>9. CASE Load(t)
      BY <1>1, <3>9, LoadDoes, Nones DEF InDirectory
    <3>10. CASE Overrun(t)
      BY <1>1, <3>10, OverrunDoes DEF InDirectory
    <3>11. CASE LoadForWrite(t)
      BY <1>1, <3>11, LoadForWriteDoes DEF InDirectory
    <3>12. CASE NextToRead(t)
      BY <1>1, <3>12, NextToReadDoes, Nones DEF InDirectory
    <3>13. CASE NextToWrite(t)
      BY <1>1, <3>13, NextToWriteDoes DEF InDirectory
    <3> QED
      BY <1>9, <3>1, <3>2, <3>3, <3>4, <3>5, <3>6, <3>7, <3>8, <3>9, <3>10, <3>11, <3>12, <3>13
         DEF TaskStep
  <2>2. UNCHANGED directory
    BY <1>9 DEF TaskStep, Seek, Read, Write, Walk, FindNext, NoSpace, ReadTable, WriteTable,
                Load, Overrun, LoadForWrite, NextToRead, NextToWrite
  <2> QED
    BY <1>1, <2>1, <2>2, InodeStays
<1> QED
  BY <1>3, <1>4, <1>5, <1>6, <1>7, <1>8, <1>9

\* And each step of the system does.
LEMMA InodeStep == ASSUME Base, InodeKept, [Next]_vars PROVE InodeKept'
<1>1. CASE UNCHANGED vars
  BY <1>1 DEF vars, InodeKept, Inodes, Spared
<1>2. CASE Reset
  <2>1. \A u \in Task : call'[u] = None /\ handle'[u].file = NoFile
    BY <1>2 DEF Reset, Closed
  <2> QED
    BY <2>1, Nones DEF InodeKept, Inodes, InDirectory
<1>3. ASSUME NEW t \in Task, TaskStep(t) PROVE InodeKept'
  BY <1>3, InodeTask
<1> QED
  BY <1>1, <1>2, <1>3 DEF Next

\* There are no inodes at the beginning.
LEMMA InodeInit == ASSUME Init PROVE InodeKept
<1>1. \A t \in Task : call[t] = None /\ handle[t].file = NoFile
  BY DEF Init, Closed
<1> QED
  BY <1>1, Nones DEF InodeKept, Inodes, InDirectory
-----------------------------------------------------------------------------
\* The chains are told by a map m of the clusters: whose a cluster is, the first of its
\* chain, and how many come before it.  It follows the allocations, and nothing else.
Owners == [Cluster -> [file : File \cup {NoFile}, root : Entry, depth : Nat]]
Clear == Spared({"table", "edge", "torn"})
Fresh(c) == IF c.for = "append" THEN c.next ELSE c.cluster
Linking(c) == c.at \in InTable /\ c.for = "append"
Founding(c) == c.at \in InDirectory /\ c.for = "first"

\* A cluster of an inode's chain, and the beginning of a file's.
Mine(m, h, x) == x \in Cluster /\ m[x].file = h.file /\ m[x].root = h.first
StartsAt(m, f, x) ==
  x # 0 => x \in Cluster /\ m[x].file = f /\ m[x].root = x /\ m[x].depth = 0

\* The map has what the table says.
Linked(m, tab) ==
  \A x \in Cluster : tab[x] \in Cluster =>
    /\ m[tab[x]].file = m[x].file /\ m[tab[x]].root = m[x].root
    /\ m[tab[x]].depth = m[x].depth + 1
Unmarked(m, tab) == \A x \in Cluster : m[x].file = NoFile => tab[x] = 0
Marked(m) ==
  \A x \in Cluster : table[1][x] = 0 =>
    \/ m[x].file = NoFile
    \/ \E t \in Task : Allocates(call[t]) /\ Fresh(call[t]) = x
Roots(m) ==
  \A x \in Cluster : m[x].file # NoFile =>
    m[x].root # 0 /\ StartsAt(m, m[x].file, m[x].root)

\* The first clusters in the directory, on the disk and as it is about to be written, and
\* in the inodes are first in the map.
Starts(m) ==
  /\ \A f \in File : StartsAt(m, f, directory[f].first)
  /\ \A t \in Task : IsOpen(t) => StartsAt(m, handle[t].file, handle[t].first)
  /\ \A t \in Task : call[t].at = "writeDirectory" =>
       \A f \in File : StartsAt(m, f, call[t].directory[f].first)

\* A write works on its file's clusters; the one that it allocates is still free, and what
\* it writes to the table changes one entry.
Placed(m, tab, c, h) ==
  c.op = "write" =>
    /\ c.at = "walk" => c.cluster = 0 \/ Mine(m, h, c.cluster)
    /\ \/ c.at \in Working \cup InTable
       \/ c.at \in InDirectory /\ c.for = "first"
       \/ c.at = "find" /\ c.for = "append"
       => Mine(m, h, c.cluster)
    /\ c.sector # 0 => Mine(m, h, c.sector)
    /\ c.at \in InDirectory /\ c.for = "first" => c.cluster = h.first
    /\ c.at \in InTable /\ c.for = "append" =>
         Mine(m, h, c.next) /\ m[c.next].depth = m[c.cluster].depth + 1
    /\ Allocates(c) /\ (c.at = "writeTable" /\ c.for = "first" => c.copy = 1) =>
         tab[Fresh(c)] = 0
    /\ c.at = "writeTable" /\ c.copy # 1 =>
         tab[c.cluster] = (IF c.for = "append" THEN c.next ELSE Eoc) /\ c.table = tab
    /\ c.at = "writeTable" /\ c.copy = 1 =>
         c.table = [tab EXCEPT ![c.cluster] = IF c.for = "append" THEN c.next ELSE Eoc]

\* As long as a write has not allocated, its cluster is that of its position.
Aligned(m, c, h) ==
  c.op = "write" /\ ~c.flags =>
    /\ c.at = "next" => h.position % Bytes = 0
    /\ c.at = "walk" /\ c.cluster # 0 => m[c.cluster].depth + c.steps = h.position \div Bytes
    /\ c.at = "load" /\ h.position % Bytes # 0 => m[c.cluster].depth = h.position \div Bytes
    /\ c.at = "store" /\ h.position % Bytes # 0 =>
         c.sector # 0 /\ m[c.sector].depth = h.position \div Bytes

\* If no file is open twice, nobody changes the entries that a write has gone by, and each
\* cluster is linked to but for a first one and one that is about to be.
Kept(tab, c) ==
  c.op = "write" =>
    /\ \/ c.at = "find" /\ c.for = "append"
       \/ c.at = "readTable" /\ c.for = "append"
       \/ c.at = "writeTable" /\ c.for = "append" /\ c.copy = 1
       => tab[c.cluster] = Eoc
    /\ c.at \in Working => tab[c.cluster] # 0
    /\ c.at = "walk" /\ c.cluster # 0 => tab[c.cluster] # 0
    /\ c.sector # 0 => tab[c.sector] # 0
Rooted(m) ==
  \A x \in Cluster : m[x].file # NoFile =>
    \/ x = m[x].root
    \/ \E y \in Cluster : table[1][y] = x
    \/ \E t \in Task : Linking(call[t]) /\ call[t].next = x

\* If no entry of the directory is lost either, each chain is a file's.
RootNamed(m) ==
  \A x \in Cluster : m[x].file # NoFile /\ m[x].root = x =>
    \/ directory[m[x].file].first = x
    \/ \E t \in Task : handle[t].file = m[x].file /\ handle[t].first = x /\ Founding(call[t])

Mapped(m) ==
  /\ Linked(m, table[1]) /\ Unmarked(m, table[1]) /\ Marked(m) /\ Roots(m) /\ Starts(m)
  /\ \A t \in Task : Placed(m, table[1], call[t], handle[t]) /\ Aligned(m, call[t], handle[t])
  /\ Spared({"twice"}) => Rooted(m) /\ \A t \in Task : Kept(table[1], call[t])
  /\ Spared({"twice", "directory"}) => RootNamed(m)
Chained == Clear => \E m \in Owners : Mapped(m)

-----------------------------------------------------------------------------
\* A map that marks more says the same of the clusters that were marked.
LEMMA StartsAtKept ==
  ASSUME NEW m, NEW n, NEW f, NEW x, f # NoFile, StartsAt(m, f, x),
         \A y \in Cluster : m[y].file # NoFile => n[y] = m[y]
  PROVE  StartsAt(n, f, x)
BY DEF StartsAt

\* It leaves each write where it is.
LEMMA PlacedKept ==
  ASSUME NEW m, NEW n, NEW tab, NEW tab2, NEW c, NEW h, h.file # NoFile, Placed(m, tab, c, h),
         \A y \in Cluster : m[y].file # NoFile => n[y] = m[y],
         tab2 = tab \/ ~Allocates(c)
  PROVE  Placed(n, tab2, c, h)
<1>1. \A x : Mine(m, h, x) => Mine(n, h, x) /\ n[x] = m[x]
  BY DEF Mine
<1>2. CASE tab2 = tab
  BY <1>1, <1>2 DEF Placed, InTable, Working
<1>3. CASE ~Allocates(c)
  <2>1. c.at # "writeTable" /\ c.at \notin InTable
    BY <1>3 DEF Allocates, InTable
  <2> QED
    BY <1>1, <1>3, <2>1 DEF Placed
<1> QED
  BY <1>2, <1>3

\* And at the position that it had.
LEMMA AlignedKept ==
  ASSUME NEW m, NEW n, NEW tab, NEW c, NEW h, h.file # NoFile, Placed(m, tab, c, h),
         \A y \in Cluster : m[y].file # NoFile => n[y] = m[y], Aligned(m, c, h)
  PROVE  Aligned(n, c, h)
<1>1. \A x : Mine(m, h, x) => n[x] = m[x]
  BY DEF Mine
<1> QED
  BY <1>1 DEF Aligned, Placed, Working

\* A change elsewhere in the table is not on a write's way.
LEMMA KeptKept ==
  ASSUME NEW m, NEW tab, NEW tab2, NEW c, NEW h, Placed(m, tab, c, h), Kept(tab, c),
         \A y \in Cluster : m[y].file = h.file => tab2[y] = tab[y]
  PROVE  Kept(tab2, c)
<1>1. \A x : Mine(m, h, x) => tab2[x] = tab[x]
  BY DEF Mine
<1> QED
  BY <1>1 DEF Kept, Placed, Working, InTable

\* What a step of one task has to show.
LEMMA MappedMoves ==
  ASSUME Base, NEW m \in Owners, NEW n \in Owners, Mapped(m), NEW t \in Task, NEW c \in Calls,
         NEW h \in Handles, Becomes(t, c, h), struck \subseteq struck',
         \A y \in Cluster : m[y].file # NoFile => n[y] = m[y],
         \A y \in Cluster : \/ table'[1][y] = table[1][y]
                            \/ m[y].file = handle[t].file,
         table'[1] = table[1] \/ \A u \in Task \ {t} : ~Allocates(call[u]),
         Linked(n, table'[1]), Unmarked(n, table'[1]), Marked(n)', Roots(n),
         \A f \in File : StartsAt(n, f, directory'[f].first),
         h.file # NoFile => StartsAt(n, h.file, h.first),
         c.at = "writeDirectory" => \A f \in File : StartsAt(n, f, c.directory[f].first),
         Placed(n, table'[1], c, h), Aligned(n, c, h),
         Spared({"twice"})' => Rooted(n)' /\ Kept(table'[1], c),
         Spared({"twice", "directory"})' => RootNamed(n)'
  PROVE  Mapped(n)'
<1>1. TypeOK /\ Shapes /\ Alone
  BY DEF Base
<1>2. call'[t] = c /\ handle'[t] = h /\ \A u \in Task : u # t => call'[u] = call[u] /\ handle'[u] = handle[u]
  BY <1>1, BecomesMeans
<1>3. Starts(n)'
  <2>1. \A f \in File : f # NoFile
    BY FatAssumption
  <2>2. ASSUME NEW u \in Task, handle'[u].file # NoFile
        PROVE  StartsAt(n, handle'[u].file, handle'[u].first)
    <3>1. CASE u = t
      BY <1>2, <2>2, <3>1
    <3>2. CASE u # t
      <4>1. StartsAt(m, handle[u].file, handle[u].first) /\ handle'[u] = handle[u]
        BY <1>2, <2>2, <3>2 DEF Mapped, Starts, IsOpen
      <4> QED
        BY <2>2, <4>1, StartsAtKept
    <3> QED
      BY <3>1, <3>2
  <2>3. ASSUME NEW u \in Task, call'[u].at = "writeDirectory", NEW f \in File
        PROVE  StartsAt(n, f, call'[u].directory[f].first)
    <3>1. CASE u = t
      BY <1>2, <2>3, <3>1
    <3>2. CASE u # t
      <4>1. StartsAt(m, f, call[u].directory[f].first) /\ call'[u] = call[u]
        BY <1>2, <2>3, <3>2 DEF Mapped, Starts
      <4> QED
        BY <2>1, <4>1, StartsAtKept
    <3> QED
      BY <3>1, <3>2
  <2> QED
    BY <2>2, <2>3 DEF Starts, IsOpen
<1>4. ASSUME NEW u \in Task
      PROVE  Placed(n, table'[1], call'[u], handle'[u]) /\ Aligned(n, call'[u], handle'[u])
  <2>1. CASE u = t
    BY <1>2, <2>1
  <2>2. CASE u # t
    <3>1. PICK r \in Calls, g \in Handles : r = call[u] /\ g = handle[u]
      BY <1>1 DEF TypeOK
    <3>2. call'[u] = r /\ handle'[u] = g
      BY <1>2, <2>2, <3>1
    <3>3. Placed(m, table[1], r, g) /\ Aligned(m, r, g) /\ Shape(r, g)
      BY <1>1, <3>1 DEF Mapped, Shapes
    <3>4. CASE r.op = "write"
      <4>1. g.file # NoFile
        BY <3>3, <3>4 DEF Shape
      <4>2. table'[1] = table[1] \/ ~Allocates(r)
        BY <2>2, <3>1
      <4>3. Placed(n, table'[1], r, g)
        BY <3>3, <4>1, <4>2, PlacedKept
      <4>4. Aligned(n, r, g)
        BY <3>3, <4>1, AlignedKept
      <4> QED
        BY <3>2, <4>3, <4>4
    <3>5. CASE r.op # "write"
      BY <3>2, <3>5 DEF Placed, Aligned
    <3> QED
      BY <3>4, <3>5
  <2> QED
    BY <2>1, <2>2
<1>5. ASSUME Spared({"twice"})', NEW u \in Task
      PROVE  Kept(table'[1], call'[u])
  <2>1. CASE u = t
    BY <1>2, <1>5, <2>1
  <2>2. CASE u # t
    <3>1. PICK r \in Calls, g \in Handles : r = call[u] /\ g = handle[u]
      BY <1>1 DEF TypeOK
    <3>2. call'[u] = r
      BY <1>2, <2>2, <3>1
    <3>3. Spared({"twice"})
      BY <1>5 DEF Spared
    <3>4. Placed(m, table[1], r, g) /\ Kept(table[1], r) /\ Shape(r, g)
      BY <1>1, <3>1, <3>3 DEF Mapped, Shapes
    <3>5. CASE r.op = "write"
      <4>1. g.file # NoFile
        BY <3>4, <3>5 DEF Shape
      <4>2. g.file # handle[t].file
        BY <1>1, <2>2, <3>1, <3>3, <4>1 DEF Alone, IsOpen
      <4>3. \A y \in Cluster : m[y].file = g.file => table'[1][y] = table[1][y]
        BY <4>2
      <4> QED
        BY <3>2, <3>4, <4>3, KeptKept
    <3>6. CASE r.op # "write"
      BY <3>2, <3>6 DEF Kept
    <3> QED
      BY <3>5, <3>6
  <2> QED
    BY <2>1, <2>2
<1> QED
  BY <1>3, <1>4, <1>5 DEF Mapped

\* What a step has to show that allocates nothing and writes neither table nor directory.
LEMMA MappedStays ==
  ASSUME Base, NEW m \in Owners, Mapped(m), NEW t \in Task, NEW c \in Calls,
         NEW h \in Handles, Becomes(t, c, h), struck \subseteq struck',
         UNCHANGED <<table, directory>>,
         Allocates(call[t]) => Allocates(c) /\ Fresh(c) = Fresh(call[t]),
         Linking(call[t]) => Linking(c) /\ c.next = call[t].next,
         Founding(call[t]) => Founding(c) /\ h.file = handle[t].file /\ h.first = handle[t].first,
         h.file # NoFile => StartsAt(m, h.file, h.first),
         c.at = "writeDirectory" => \A f \in File : StartsAt(m, f, c.directory[f].first),
         Placed(m, table[1], c, h), Aligned(m, c, h),
         Spared({"twice"}) => Kept(table[1], c)
  PROVE  Mapped(m)'
<1>1. TypeOK
  BY DEF Base
<1>2. call'[t] = c /\ handle'[t] = h /\ \A u \in Task : u # t => call'[u] = call[u] /\ handle'[u] = handle[u]
  BY <1>1, BecomesMeans
<1>3. Marked(m)'
  <2>1. ASSUME NEW x \in Cluster, NEW u \in Task, Allocates(call[u]), Fresh(call[u]) = x
        PROVE  Allocates(call'[u]) /\ Fresh(call'[u]) = x
    BY <1>2, <2>1
  <2>2. Marked(m)
    BY DEF Mapped
  <2> QED
    BY <2>1, <2>2 DEF Marked
<1>4. Spared({"twice"})' => Spared({"twice"}) /\ Rooted(m)'
  <2>1. ASSUME NEW x \in Cluster, NEW u \in Task, Linking(call[u]), call[u].next = x
        PROVE  Linking(call'[u]) /\ call'[u].next = x
    BY <1>2, <2>1
  <2>2. Spared({"twice"})' => Spared({"twice"}) /\ Rooted(m)
    BY DEF Mapped, Spared
  <2> QED
    BY <2>1, <2>2 DEF Rooted
<1>5. Spared({"twice", "directory"})' => RootNamed(m)'
  <2>1. ASSUME NEW u \in Task, Founding(call[u])
        PROVE  Founding(call'[u]) /\ handle'[u].file = handle[u].file /\ handle'[u].first = handle[u].first
    BY <1>2, <2>1
  <2>2. Spared({"twice", "directory"})' => RootNamed(m)
    BY DEF Mapped, Spared
  <2> QED
    BY <2>1, <2>2 DEF RootNamed
<1>6. /\ Linked(m, table'[1]) /\ Unmarked(m, table'[1]) /\ Roots(m)
      /\ \A f \in File : StartsAt(m, f, directory'[f].first)
  BY DEF Mapped, Starts
<1> QED
  BY <1>3, <1>4, <1>5, <1>6, MappedMoves

\* And one after which the task is not in a write.
LEMMA MappedRests ==
  ASSUME Base, NEW m \in Owners, Mapped(m), NEW t \in Task, NEW c \in Calls,
         NEW h \in Handles, Becomes(t, c, h), struck \subseteq struck',
         UNCHANGED <<table, directory>>, ~Allocates(call[t]),
         h.file # NoFile => StartsAt(m, h.file, h.first),
         c.op = "read", c.at # "writeDirectory"
  PROVE  Mapped(m)'
<1>1. ~Linking(call[t]) /\ ~Founding(call[t])
  BY DEF Linking, Founding, Allocates, InTable, InDirectory
<1>2. Placed(m, table[1], c, h) /\ Aligned(m, c, h) /\ Kept(table[1], c)
  BY DEF Placed, Aligned, Kept
<1> QED
  BY <1>1, <1>2, MappedStays

\* What the map says of one task.
LEMMA MappedTask ==
  ASSUME Base, NEW m \in Owners, Mapped(m), NEW t \in Task
  PROVE  /\ TypeOK /\ Shape(call[t], handle[t]) /\ call[t] \in Calls /\ handle[t] \in Handles
         /\ Placed(m, table[1], call[t], handle[t]) /\ Aligned(m, call[t], handle[t])
         /\ Spared({"twice"}) => Kept(table[1], call[t])
         /\ handle[t].file # NoFile => StartsAt(m, handle[t].file, handle[t].first)
         /\ \A f \in File : StartsAt(m, f, directory[f].first)
         /\ table[1] \in Table
BY Constants DEF Base, Shapes, TypeOK, Mapped, Starts, IsOpen

\* The cluster that a task allocates is marked already, as that of its file.
LEMMA FreshIsMine ==
  ASSUME NEW m, NEW tab, NEW c, NEW h, Placed(m, tab, c, h), Shape(c, h), Allocates(c)
  PROVE  Mine(m, h, Fresh(c))
<1>1. c.op = "write"
  BY DEF Shape, Allocates, InTable, InDirectory
<1>2. CASE c.at \in InTable
  BY <1>1, <1>2 DEF Placed, Shape, Fresh
<1>3. CASE c.at \in InDirectory /\ c.for = "first"
  BY <1>1, <1>3 DEF Placed, Shape, Fresh
<1> QED
  BY <1>2, <1>3 DEF Allocates, InTable, InDirectory

\* If no file is open twice, the clusters of the file of a task that is not allocating are
\* in use.
LEMMA NotFree ==
  ASSUME Base, NEW m \in Owners, Mapped(m), Spared({"twice"}), NEW t \in Task,
         handle[t].file # NoFile, ~Allocates(call[t]), NEW x \in Cluster, m[x].file = handle[t].file
  PROVE  table[1][x] # 0
<1>1. SUFFICES ASSUME table[1][x] = 0 PROVE FALSE
  OBVIOUS
<1>2. PICK u \in Task : Allocates(call[u]) /\ Fresh(call[u]) = x
  BY <1>1 DEF Mapped, Marked
<1>3. Mine(m, handle[u], x)
  BY <1>2, MappedTask, FreshIsMine
<1>4. t = u
  BY <1>3 DEF Mine, Base, Alone, IsOpen
<1> QED
  BY <1>2, <1>4

\* The steps that allocate nothing and write neither table nor directory.  A call begins.
LEMMA MappedBegins ==
  ASSUME Base, NEW m \in Owners, Mapped(m), NEW t \in Task,
         Open(t) \/ Close(t) \/ Seek(t) \/ Read(t) \/ Write(t)
  PROVE  Mapped(m)'
<1>1. /\ TypeOK /\ Shape(call[t], handle[t]) /\ call[t] \in Calls /\ handle[t] \in Handles
      /\ handle[t].file # NoFile => StartsAt(m, handle[t].file, handle[t].first)
      /\ \A f \in File : StartsAt(m, f, directory[f].first)
  BY MappedTask
<1>2. struck \subseteq struck'
  BY TaskDoes DEF TaskStep
<1>3. UNCHANGED <<table, directory>>
  BY DEF Open, Close, Seek, Read, Write
<1>4. call[t].at = "out" /\ call[t].op = "read" /\ ~Allocates(call[t])
  BY <1>1 DEF Open, Close, Seek, Read, Write, Idle, Shape, Allocates
<1>5. CASE Open(t)
  <2>1. PICK h \in Handles :
          Becomes(t, call[t], h) /\ h.file \in File /\ h.first = directory[h.file].first
    BY <1>1, <1>5, OpenDoes
  <2> QED
    BY <1>1, <1>2, <1>3, <1>4, <2>1, MappedRests
<1>6. CASE Close(t)
  <2>1. PICK h \in Handles : Becomes(t, call[t], h) /\ h.file = NoFile
    BY <1>1, <1>6, CloseDoes
  <2> QED
    BY <1>1, <1>2, <1>3, <1>4, <2>1, MappedRests
<1>7. CASE Seek(t)
  <2>1. PICK h \in Handles :
          Becomes(t, call[t], h) /\ h.file = handle[t].file /\ h.first = handle[t].first
    BY <1>1, <1>7, SeekDoes
  <2> QED
    BY <1>1, <1>2, <1>3, <1>4, <2>1, MappedRests
<1>8. CASE Read(t)
  <2>1. PICK c \in Calls :
          /\ Becomes(t, c, handle[t]) /\ c.op = "read"
          /\ c.at = IF Index(t) > 0 THEN "walk" ELSE "load"
    BY <1>1, <1>8, ReadDoes
  <2>2. c.at # "writeDirectory"
    BY <2>1
  <2> QED
    BY <1>1, <1>2, <1>3, <1>4, <2>1, <2>2, MappedRests
<1>9. CASE Write(t)
  <2>1. PICK c \in Calls :
           /\ Becomes(t, c, handle[t]) /\ handle[t].file # NoFile
           /\ c.op = "write" /\ c.sector = 0
           /\ handle[t].first = 0 =>
                c.at = "find" /\ c.for = "first" /\ c.flags
           /\ handle[t].first # 0 =>
                /\ c.at = IF Index(t) > 0 THEN "walk" ELSE "load"
                /\ c.for = "size" /\ ~c.flags
                /\ c.cluster = handle[t].first /\ c.steps = Index(t)
    BY <1>1, <1>9, WriteDoes
  <2>2. ~Linking(call[t]) /\ ~Founding(call[t])
    BY <1>4 DEF Linking, Founding, InTable, InDirectory
  <2>3. /\ Placed(m, table[1], c, handle[t]) /\ Aligned(m, c, handle[t]) /\ c.at # "writeDirectory"
        /\ Spared({"twice"}) => Kept(table[1], c)
    <3>1. CASE handle[t].first = 0
      BY <2>1, <3>1 DEF Placed, Aligned, Kept, InTable, InDirectory, Working, Allocates
    <3>2. CASE handle[t].first # 0
      <4>1. Mine(m, handle[t], c.cluster) /\ m[c.cluster].depth = 0
        BY <1>1, <2>1, <3>2 DEF StartsAt, Mine
      <4>2. c.at \in {"walk", "load"} /\ ~c.flags
        BY <2>1, <3>2
      <4>3. c.at # "writeDirectory"
        BY <4>2
      <4>4. Placed(m, table[1], c, handle[t])
        BY <2>1, <4>1, <4>2 DEF Placed, InTable, InDirectory, Working, Allocates
      <4>5. Aligned(m, c, handle[t])
        <5>1. Index(t) \in Nat /\ Index(t) = handle[t].position \div Bytes
          BY <1>1, Parts DEF Index
        <5>2. c.at = "load" => Index(t) = 0
          BY <2>1, <3>2, <5>1
        <5>3. c.steps = Index(t)
          BY <2>1, <3>2
        <5> QED
          BY <4>1, <4>2, <5>1, <5>2, <5>3 DEF Aligned
      <4>6. Spared({"twice"}) => Kept(table[1], c)
        <5>1. Spared({"twice"}) => table[1][c.cluster] # 0
          BY <1>4, <2>1, <4>1, NotFree DEF Mine
        <5> QED
          BY <2>1, <4>2, <5>1 DEF Kept, Working
      <4> QED
        BY <4>3, <4>4, <4>5, <4>6
    <3> QED
      BY <3>1, <3>2
  <2> QED
    BY <1>1, <1>2, <1>3, <1>4, <2>1, <2>2, <2>3, MappedStays
<1> QED
  BY <1>5, <1>6, <1>7, <1>8, <1>9

\* A walk along the chain, and one that ends because the disk is full.
LEMMA MappedWalks ==
  ASSUME Base, NEW m \in Owners, Mapped(m), Clear', NEW t \in Task, Walk(t) \/ NoSpace(t)
  PROVE  Mapped(m)'
<1>1. /\ TypeOK /\ Shape(call[t], handle[t]) /\ call[t] \in Calls /\ handle[t] \in Handles
      /\ Placed(m, table[1], call[t], handle[t]) /\ Aligned(m, call[t], handle[t])
      /\ handle[t].file # NoFile => StartsAt(m, handle[t].file, handle[t].first)
      /\ table[1] \in Table
  BY MappedTask
<1>2. struck \subseteq struck'
  BY TaskDoes DEF TaskStep
<1>3. UNCHANGED <<table, directory>>
  BY DEF Walk, NoSpace
<1>4. call[t].at \in {"walk", "find"} /\ ~Allocates(call[t])
  BY DEF Walk, NoSpace, Allocates
<1>5. CASE NoSpace(t)
  BY <1>1, <1>2, <1>3, <1>4, <1>5, NoSpaceDoes, Nones, MappedRests
<1>6. CASE Walk(t)
  <2>1. PICK x \in NextOf(call[t].cluster) :
           /\ call[t].at = "walk"
           /\ call[t].op = "write" /\ x = Eoc => "edge" \in struck'
           /\ IF Arrived(t) /\ call[t].op = "write" /\ x = 0
              THEN Becomes(t, None, handle[t])
              ELSE \E d : /\ call[t].steps > 0 => d \in Calls
                          /\ Becomes(t, d, handle[t])
                          /\ d.at = IF Arrived(t) THEN "load" ELSE "walk"
                          /\ d.cluster = x /\ d.steps = call[t].steps - 1
                          /\ d.op = call[t].op /\ d.for = call[t].for
                          /\ d.flags = call[t].flags /\ d.sector = call[t].sector
    BY <1>1, <1>6, WalkDoes
  <2>2. CASE Arrived(t) /\ call[t].op = "write" /\ x = 0
    BY <1>1, <1>2, <1>3, <1>4, <2>1, <2>2, Nones, MappedRests
  <2>3. CASE ~(Arrived(t) /\ call[t].op = "write" /\ x = 0)
    <3>1. call[t].steps > 0 /\ call[t].steps \in Nat /\ handle[t].file # NoFile
      BY <1>1, <2>1, Fields DEF Shape
    <3>2. PICK d \in Calls :
                          /\ Becomes(t, d, handle[t])
                          /\ d.at = IF Arrived(t) THEN "load" ELSE "walk"
                          /\ d.cluster = x /\ d.steps = call[t].steps - 1
                          /\ d.op = call[t].op /\ d.for = call[t].for
                          /\ d.flags = call[t].flags /\ d.sector = call[t].sector
      BY <2>1, <2>3, <3>1
    <3>3. d.at \in {"walk", "load"}
      BY <3>2
    <3>4. CASE d.op = "read"
      BY <1>1, <1>2, <1>3, <1>4, <3>2, <3>3, <3>4, MappedRests
    <3>5. CASE d.op = "write"
      <4>1. call[t].cluster \in Entry /\ call[t].cluster # Eoc /\ x # Eoc
        <5>1. x # Eoc
          BY <2>1, <3>2, <3>5 DEF Clear, Spared
        <5>2. call[t].cluster = 0 \/ Mine(m, handle[t], call[t].cluster)
          BY <1>1, <2>1, <3>2, <3>5 DEF Placed
        <5> QED
          BY <1>1, <5>1, <5>2, Constants, Fields DEF Mine
      <4>2. call[t].cluster \in Cluster /\ x = table[1][call[t].cluster] /\ x \in Entry
        BY <1>1, <4>1, NextOfIs, Constants
      <4>3. Mine(m, handle[t], call[t].cluster)
        BY <1>1, <2>1, <3>2, <3>5, <4>2, Constants DEF Placed
      <4>4. x # 0 => Mine(m, handle[t], x) /\ m[x].depth = m[call[t].cluster].depth + 1
        <5>1. x # 0 => x \in Cluster
          BY <4>1, <4>2, Constants
        <5> QED
          BY <4>2, <4>3, <5>1 DEF Mapped, Linked, Mine
      <4>5. Arrived(t) => x # 0
        BY <2>3, <3>2, <3>5
      <4>6. Placed(m, table[1], d, handle[t])
        <5>1. d.at = "load" => x # 0
          BY <3>2, <4>5
        <5>2. d.sector # 0 => Mine(m, handle[t], d.sector)
          BY <1>1, <3>2, <3>5 DEF Placed
        <5>3. d.cluster = x
          BY <3>2
        <5> QED
          BY <3>3, <4>4, <5>1, <5>2, <5>3 DEF Placed, InTable, InDirectory, Working, Allocates
      <4>7. Aligned(m, d, handle[t])
        <5>1. SUFFICES ASSUME ~d.flags PROVE Aligned(m, d, handle[t])
          BY DEF Aligned
        <5>2. x # 0 => m[x].depth + d.steps = handle[t].position \div Bytes
          <6>1. SUFFICES ASSUME x # 0 PROVE m[x].depth + d.steps = handle[t].position \div Bytes
            OBVIOUS
          <6>2. m[call[t].cluster].depth + call[t].steps = handle[t].position \div Bytes
            BY <1>1, <2>1, <3>2, <3>5, <4>2, <5>1, Constants DEF Aligned
          <6>3. m[call[t].cluster].depth \in Nat
            BY <4>2 DEF Owners
          <6>4. m[x].depth = m[call[t].cluster].depth + 1 /\ d.steps = call[t].steps - 1
            BY <3>2, <4>4, <6>1
          <6> QED
            BY <3>1, <6>2, <6>3, <6>4
        <5>3. d.at = "load" => m[x].depth = handle[t].position \div Bytes
          <6>1. SUFFICES ASSUME d.at = "load" PROVE m[x].depth = handle[t].position \div Bytes
            OBVIOUS
          <6>2. Arrived(t)
            BY <3>2, <6>1
          <6>3. d.steps = 0 /\ x # 0
            BY <3>1, <3>2, <4>5, <6>2 DEF Arrived
          <6>4. m[x].depth \in Nat
            BY <4>4, <6>3 DEF Owners, Mine
          <6> QED
            BY <5>2, <6>3, <6>4
        <5>4. d.cluster = x
          BY <3>2
        <5> QED
          BY <3>3, <5>2, <5>3, <5>4 DEF Aligned
      <4>8. Spared({"twice"}) => Kept(table[1], d)
        <5>1. SUFFICES ASSUME Spared({"twice"}) PROVE Kept(table[1], d)
          OBVIOUS
        <5>2. Kept(table[1], call[t])
          BY <5>1 DEF Mapped
        <5>3. x # 0 => table[1][x] # 0
          BY <1>4, <3>1, <4>4, <5>1, NotFree DEF Mine
        <5>4. d.at = "load" => x # 0
          BY <3>2, <4>5
        <5> QED
          BY <3>2, <3>3, <5>2, <5>3, <5>4 DEF Kept, Working
      <4>9. ~Linking(call[t]) /\ ~Founding(call[t])
        BY <2>1 DEF Linking, Founding, InTable, InDirectory
      <4> QED
        BY <1>1, <1>2, <1>3, <1>4, <3>1, <3>2, <3>3, <4>6, <4>7, <4>8, <4>9, MappedStays
    <3> QED
      BY <3>4, <3>5, Fields
  <2> QED
    BY <2>2, <2>3
<1> QED
  BY <1>5, <1>6

\* The transfers of data.
LEMMA MappedTransfers ==
  ASSUME Base, NEW m \in Owners, Mapped(m), NEW t \in Task,
         \/ Load(t) \/ Overrun(t) \/ LoadForWrite(t) \/ Store(t) \/ NextToRead(t) \/ NextToWrite(t)
  PROVE  Mapped(m)'
<1>1. /\ TypeOK /\ Shape(call[t], handle[t]) /\ call[t] \in Calls /\ handle[t] \in Handles
      /\ Placed(m, table[1], call[t], handle[t]) /\ Aligned(m, call[t], handle[t])
      /\ Spared({"twice"}) => Kept(table[1], call[t])
      /\ handle[t].file # NoFile => StartsAt(m, handle[t].file, handle[t].first)
      /\ table[1] \in Table
  BY MappedTask
<1>2. struck \subseteq struck'
  BY TaskDoes DEF TaskStep
<1>3. UNCHANGED <<table, directory>>
  BY DEF Load, Overrun, LoadForWrite, Store, NextToRead, NextToWrite
<1>4. call[t].at \in Working /\ call[t].for = "size" /\ handle[t].file # NoFile
  <2>1. call[t].at \in Working
    BY DEF Load, Overrun, LoadForWrite, Store, NextToRead, NextToWrite, Step, Working
  <2> QED
    BY <1>1, <2>1 DEF Shape, Working
<1>5. ~Allocates(call[t]) /\ ~Linking(call[t]) /\ ~Founding(call[t])
  BY <1>4 DEF Working, Allocates, Linking, Founding, InTable, InDirectory
<1>6. CASE Load(t)
  <2>1. PICK c \in Calls, h \in Handles :
           /\ Becomes(t, c, h) /\ call[t].op = "read"
           /\ h.file = handle[t].file /\ h.first = handle[t].first
           /\ c = None \/ (c.at = "next" /\ c.op = call[t].op)
    BY <1>1, <1>6, LoadDoes
  <2> QED
    BY <1>1, <1>2, <1>3, <1>5, <2>1, Nones, MappedRests
<1>7. CASE Overrun(t)
  <2>1. PICK c \in Calls :
           /\ Becomes(t, c, handle[t]) /\ call[t].left < 0 /\ c.at = "overrun" /\ c.op = call[t].op
    BY <1>1, <1>7, OverrunDoes
  <2>2. c.op = "read"
    BY <1>1, <2>1, Fields DEF Shape
  <2> QED
    BY <1>1, <1>2, <1>3, <1>5, <2>1, <2>2, MappedRests
<1>8. CASE LoadForWrite(t)
  <2>1. PICK c \in Calls :
           /\ Becomes(t, c, handle[t]) /\ call[t].at = "load" /\ call[t].op = "write"
           /\ c.at = "store" /\ c.sector = call[t].cluster
           /\ c.op = call[t].op /\ c.for = call[t].for
           /\ c.cluster = call[t].cluster /\ c.flags = call[t].flags
    BY <1>1, <1>8, LoadForWriteDoes
  <2>2. Mine(m, handle[t], call[t].cluster) /\ call[t].cluster # 0
    BY <1>1, <1>4, <2>1, Constants DEF Placed, Mine
  <2>3. Placed(m, table[1], c, handle[t])
    BY <1>4, <2>1, <2>2 DEF Placed, InTable, InDirectory, Working, Allocates
  <2>4. Aligned(m, c, handle[t])
    BY <1>1, <2>1, <2>2 DEF Aligned
  <2>5. Spared({"twice"}) => Kept(table[1], c)
    BY <1>1, <1>4, <2>1 DEF Kept, Working
  <2> QED
    BY <1>1, <1>2, <1>3, <1>5, <2>1, <2>3, <2>4, <2>5, MappedStays
<1>9. CASE Store(t)
  <2>1. call[t].at = "store" /\ call[t].op = "write" /\ call[t].left >= 0
    BY <1>1, <1>9 DEF Store, Step, Shape
  <2>2. PICK c \in Calls, h \in Handles :
           /\ Becomes(t, c, h)
           /\ h.position = handle[t].position + Length(t)
           /\ h.file = handle[t].file /\ h.first = handle[t].first
           /\ IF call[t].left - Length(t) > 0
              THEN /\ c.at = "next" /\ c.op = call[t].op /\ c.for = call[t].for
                   /\ c.cluster = call[t].cluster /\ c.flags = call[t].flags
                   /\ c.sector = call[t].sector
              ELSE IF h.position > handle[t].size
              THEN c.at = "readDirectory" /\ c.op = "write" /\ c.for = "size" /\ c.sector = 0
              ELSE c = None
    BY <1>1, <1>9, <2>1, StoreDoes
  <2>3. CASE call[t].left - Length(t) > 0
    <3>1. /\ c.at = "next" /\ c.op = "write" /\ c.for = "size"
          /\ c.cluster = call[t].cluster /\ c.flags = call[t].flags /\ c.sector = call[t].sector
      BY <1>4, <2>1, <2>2, <2>3
    <3>2. \A x : Mine(m, h, x) <=> Mine(m, handle[t], x)
      BY <2>2 DEF Mine
    <3>3. /\ Mine(m, handle[t], call[t].cluster)
          /\ call[t].sector # 0 => Mine(m, handle[t], call[t].sector)
      BY <1>1, <1>4, <2>1 DEF Placed
    <3>4. Placed(m, table[1], c, h)
      BY <3>1, <3>2, <3>3 DEF Placed, InTable, InDirectory, Working, Allocates
    <3>5. h.position % Bytes = 0
      <4>1. call[t].left \in Int /\ Length(t) \in Nat
        BY <1>1, <2>1, Fields, LengthIs
      <4>2. Length(t) = Bytes - (handle[t].position % Bytes)
        <5>1. Length(t) = call[t].left \/ Length(t) = Bytes - Offset(t)
          BY <1>1, <2>1, LengthIs
        <5> QED
          BY <2>3, <4>1, <5>1 DEF Offset
      <4>3. PICK p \in Nat : p = handle[t].position
        BY <1>1, Parts
      <4>4. (p + (Bytes - (p % Bytes))) % Bytes = 0
        BY RoundsUp
      <4> QED
        BY <2>2, <4>2, <4>3, <4>4
    <3>6. Aligned(m, c, h)
      BY <3>1, <3>5 DEF Aligned
    <3>7. Spared({"twice"}) => Kept(table[1], c)
      BY <1>1, <1>4, <2>1, <3>1 DEF Kept, Working
    <3> QED
      BY <1>1, <1>2, <1>3, <1>5, <2>2, <3>1, <3>4, <3>6, <3>7, MappedStays
  <2>4. CASE ~(call[t].left - Length(t) > 0) /\ h.position > handle[t].size
    <3>1. c.at = "readDirectory" /\ c.op = "write" /\ c.for = "size" /\ c.sector = 0
      BY <2>2, <2>4
    <3>2. Placed(m, table[1], c, h) /\ Aligned(m, c, h) /\ Kept(table[1], c)
      BY <3>1 DEF Placed, Aligned, Kept, InTable, Working, Allocates
    <3> QED
      BY <1>1, <1>2, <1>3, <1>5, <2>2, <3>1, <3>2, MappedStays
  <2>5. CASE ~(call[t].left - Length(t) > 0) /\ ~(h.position > handle[t].size)
    BY <1>1, <1>2, <1>3, <1>5, <2>2, <2>5, Nones, MappedRests
  <2> QED
    BY <2>3, <2>4, <2>5
<1>10. CASE NextToRead(t)
  <2>1. PICK c \in Calls :
           /\ Becomes(t, c, handle[t]) /\ call[t].op = "read"
           /\ c = None \/ (c.at = "load" /\ c.op = call[t].op)
    BY <1>1, <1>10, NextToReadDoes
  <2> QED
    BY <1>1, <1>2, <1>3, <1>5, <2>1, Nones, MappedRests
<1>11. CASE NextToWrite(t)
  <2>1. PICK c \in Calls, x \in NextOf(call[t].cluster) :
           /\ Becomes(t, c, handle[t]) /\ call[t].at = "next" /\ call[t].op = "write"
           /\ c.op = call[t].op /\ c.cluster = call[t].cluster
           /\ c.flags = call[t].flags /\ c.sector = call[t].sector
           /\ IF x = Eoc THEN c.at = "find" /\ c.for = "append"
              ELSE c.at = (IF call[t].flags THEN "store" ELSE "load") /\ c.for = call[t].for
    BY <1>1, <1>11, NextToWriteDoes
  <2>2. Mine(m, handle[t], call[t].cluster) /\ (call[t].sector # 0 => Mine(m, handle[t], call[t].sector))
    BY <1>1, <1>4, <2>1 DEF Placed
  <2>3. x = table[1][call[t].cluster]
    BY <1>1, <2>1, <2>2, NextOfIs, Fields DEF Mine
  <2>4. c.at \in {"find", "store", "load"}
    BY <2>1
  <2>5. Placed(m, table[1], c, handle[t])
    BY <2>1, <2>2, <2>4 DEF Placed, InTable, InDirectory, Working, Allocates
  <2>6. Aligned(m, c, handle[t])
    <3>1. SUFFICES ASSUME ~c.flags PROVE Aligned(m, c, handle[t])
      BY DEF Aligned
    <3>2. handle[t].position % Bytes = 0
      BY <1>1, <2>1, <3>1 DEF Aligned
    <3>3. c.at \in {"find", "load"}
      BY <2>1, <3>1
    <3> QED
      BY <3>2, <3>3 DEF Aligned
  <2>7. Spared({"twice"}) => Kept(table[1], c)
    <3>1. SUFFICES ASSUME Kept(table[1], call[t]) PROVE Kept(table[1], c)
      BY <1>1
    <3>2. CASE x = Eoc
      BY <1>4, <2>1, <2>3, <3>1, <3>2 DEF Kept, Working
    <3>3. CASE x # Eoc
      BY <1>4, <2>1, <2>4, <3>1, <3>3 DEF Kept, Working
    <3> QED
      BY <3>2, <3>3
  <2>8. c.at # "writeDirectory"
    BY <2>4
  <2> QED
    BY <1>1, <1>2, <1>3, <1>5, <2>1, <2>5, <2>6, <2>7, <2>8, MappedStays
<1> QED
  BY <1>6, <1>7, <1>8, <1>9, <1>10, <1>11

\* The reads of a sector of the table and of the directory.
LEMMA MappedReads ==
  ASSUME Base, NEW m \in Owners, Mapped(m), NEW t \in Task, ReadTable(t) \/ ReadDirectory(t)
  PROVE  Mapped(m)'
<1>1. /\ TypeOK /\ Shape(call[t], handle[t]) /\ call[t] \in Calls /\ handle[t] \in Handles
      /\ Placed(m, table[1], call[t], handle[t]) /\ Aligned(m, call[t], handle[t])
      /\ Spared({"twice"}) => Kept(table[1], call[t])
      /\ handle[t].file # NoFile => StartsAt(m, handle[t].file, handle[t].first)
      /\ \A f \in File : StartsAt(m, f, directory[f].first)
      /\ table[1] \in Table
  BY MappedTask
<1>2. struck \subseteq struck'
  BY TaskDoes DEF TaskStep
<1>3. UNCHANGED <<table, directory>>
  BY DEF ReadTable, ReadDirectory
<1>4. CASE ReadTable(t)
  <2>1. PICK c \in Calls :
           /\ Becomes(t, c, handle[t]) /\ call[t].at = "readTable"
           /\ c.at = "writeTable" /\ c.copy = 1
           /\ call[t].cluster \in Cluster =>
                c.table = [table[1] EXCEPT ![call[t].cluster] =
                             IF call[t].for = "append" THEN call[t].next ELSE Eoc]
           /\ c.op = call[t].op /\ c.for = call[t].for
           /\ c.cluster = call[t].cluster /\ c.next = call[t].next /\ c.flags = call[t].flags
           /\ c.sector = call[t].sector
    BY <1>1, <1>4, ReadTableDoes
  <2>2. call[t].op = "write" /\ Allocates(call[t]) /\ Allocates(c) /\ Fresh(c) = Fresh(call[t])
    BY <1>1, <2>1 DEF Shape, InTable, Allocates, Fresh
  <2>3. Mine(m, handle[t], call[t].cluster) /\ call[t].cluster \in Cluster
    BY <1>1, <2>1, <2>2 DEF Placed, InTable, Mine
  <2>4. /\ call[t].sector # 0 => Mine(m, handle[t], call[t].sector)
        /\ call[t].for = "append" =>
             Mine(m, handle[t], call[t].next) /\ m[call[t].next].depth = m[call[t].cluster].depth + 1
        /\ table[1][Fresh(call[t])] = 0
    BY <1>1, <2>1, <2>2 DEF Placed, InTable
  <2>5. Placed(m, table[1], c, handle[t])
    BY <2>1, <2>2, <2>3, <2>4 DEF Placed, InTable, InDirectory, Working
  <2>6. Aligned(m, c, handle[t])
    BY <2>1 DEF Aligned
  <2>7. Spared({"twice"}) => Kept(table[1], c)
    BY <1>1, <2>1 DEF Kept, Working
  <2>8. /\ Linking(call[t]) => Linking(c) /\ c.next = call[t].next
        /\ ~Founding(call[t])
    BY <2>1 DEF Linking, Founding, InTable, InDirectory
  <2> QED
    BY <1>1, <1>2, <1>3, <2>1, <2>2, <2>5, <2>6, <2>7, <2>8, MappedStays
<1>5. CASE ReadDirectory(t)
  <2>1. PICK c \in Calls :
           /\ Becomes(t, c, handle[t]) /\ call[t].at = "readDirectory"
           /\ c.at = "writeDirectory" /\ c.directory = [directory EXCEPT ![handle[t].file] = EntryOf(t)]
           /\ c.op = call[t].op /\ c.for = call[t].for
           /\ c.cluster = call[t].cluster /\ c.flags = call[t].flags
           /\ c.sector = call[t].sector
    BY <1>1, <1>5, ReadDirectoryDoes
  <2>2. /\ handle[t].file # NoFile /\ call[t].op = "write"
        /\ Allocates(call[t]) => Allocates(c) /\ Fresh(c) = Fresh(call[t]) /\ c.for = "first"
        /\ Allocates(c) => Allocates(call[t])
    BY <1>1, <2>1 DEF Shape, InDirectory, Allocates, Fresh
  <2>3. ASSUME NEW f \in File PROVE StartsAt(m, f, c.directory[f].first)
    <3>1. PICK e : e = EntryOf(t)
      OBVIOUS
    <3>2. e.first = handle[t].first
      BY <3>1 DEF EntryOf
    <3>3. handle[t].file \in File
      BY <1>1, <2>2, HandleFields
    <3>4. c.directory[f] = IF f = handle[t].file THEN e ELSE directory[f]
      BY <1>1, <2>1, <3>1, <3>3 DEF TypeOK, Directory
    <3> QED
      BY <1>1, <2>2, <3>2, <3>4
  <2>4. Placed(m, table[1], c, handle[t])
    <3>1. /\ call[t].sector # 0 => Mine(m, handle[t], call[t].sector)
          /\ call[t].for = "first" => call[t].cluster = handle[t].first /\ Mine(m, handle[t], call[t].cluster)
          /\ Allocates(call[t]) => table[1][Fresh(call[t])] = 0
      BY <1>1, <2>1, <2>2 DEF Placed, InDirectory
    <3> QED
      BY <2>1, <2>2, <3>1 DEF Placed, InTable, InDirectory, Working
  <2>5. Aligned(m, c, handle[t])
    BY <2>1 DEF Aligned
  <2>6. Spared({"twice"}) => Kept(table[1], c)
    BY <1>1, <2>1 DEF Kept, Working
  <2>7. /\ ~Linking(call[t])
        /\ Founding(call[t]) => Founding(c)
    BY <2>1 DEF Linking, Founding, InTable, InDirectory
  <2> QED
    BY <1>1, <1>2, <1>3, <2>1, <2>2, <2>3, <2>4, <2>5, <2>6, <2>7, MappedStays
<1> QED
  BY <1>4, <1>5

\* A free cluster gets its mark when it has been found.
LEMMA Marks ==
  ASSUME Base, NEW m \in Owners, Mapped(m), NEW x \in Cluster, table[1][x] = 0,
         \A u \in Task : ~Allocates(call[u]), NEW f \in File, NEW root \in Cluster, NEW depth \in Nat,
         \/ root = x /\ depth = 0
         \/ StartsAt(m, f, root)
  PROVE  \E n \in Owners :
           /\ n[x] = [file |-> f, root |-> root, depth |-> depth] /\ m[x].file = NoFile
           /\ \A y \in Cluster : y # x => n[y] = m[y]
           /\ \A y \in Cluster : m[y].file # NoFile => n[y] = m[y]
           /\ Linked(n, table[1]) /\ Unmarked(n, table[1]) /\ Roots(n)
           /\ \A y \in Cluster : table[1][y] = 0 => y = x \/ n[y].file = NoFile
<1>1. Linked(m, table[1]) /\ Unmarked(m, table[1]) /\ Marked(m) /\ Roots(m) /\ table[1] \in Table
  BY MappedTask, Constants DEF Mapped, Base, TypeOK
<1>2. \A y \in Cluster : table[1][y] = 0 => m[y].file = NoFile
  BY <1>1 DEF Marked
<1>3. m[x].file = NoFile /\ f # NoFile /\ root # 0 /\ root \in Entry
  BY <1>2, FatAssumption, Constants
<1>4. PICK e \in [file : File \cup {NoFile}, root : Entry, depth : Nat] :
        e = [file |-> f, root |-> root, depth |-> depth]
  BY <1>3
<1>5. e.file = f /\ e.root = root /\ e.depth = depth
  BY <1>4
<1>6. PICK n \in Owners : n = [m EXCEPT ![x] = e]
  BY DEF Owners
<1>7. n[x] = e /\ \A y \in Cluster : y # x => n[y] = m[y]
  BY <1>6 DEF Owners
<1>8. \A y \in Cluster : table[1][y] \in Cluster => table[1][y] # x /\ y # x
  BY <1>1, <1>3, Constants DEF Linked, Unmarked
<1>9. Linked(n, table[1])
  BY <1>1, <1>7, <1>8 DEF Linked
<1>10. Unmarked(n, table[1])
  BY <1>1, <1>3, <1>5, <1>7 DEF Unmarked
<1>11. Roots(n)
  <2>1. ASSUME NEW y \in Cluster, n[y].file # NoFile
        PROVE  n[y].root # 0 /\ StartsAt(n, n[y].file, n[y].root)
    <3>1. CASE y = x
      <4>1. n[y].root = root /\ n[y].file = f
        BY <1>5, <1>7, <3>1
      <4>2. CASE root = x /\ depth = 0
        BY <1>3, <1>5, <1>7, <4>1, <4>2 DEF StartsAt
      <4>3. CASE StartsAt(m, f, root)
        <5>1. root # x
          BY <1>3, <4>3 DEF StartsAt
        <5> QED
          BY <1>3, <1>7, <4>1, <4>3, <5>1 DEF StartsAt
      <4> QED
        BY <4>2, <4>3
    <3>2. CASE y # x
      <4>1. n[y] = m[y] /\ m[y].root # 0 /\ StartsAt(m, m[y].file, m[y].root)
        BY <1>1, <1>7, <2>1, <3>2 DEF Roots
      <4>2. m[y].root # x
        BY <1>3, <2>1, <4>1 DEF StartsAt
      <4> QED
        BY <1>7, <4>1, <4>2 DEF StartsAt
    <3> QED
      BY <3>1, <3>2
  <2> QED
    BY <2>1 DEF Roots
<1> QED
  BY <1>2, <1>3, <1>4, <1>7, <1>9, <1>10, <1>11

\* The search for a free cluster, for a file without one and for one more.
LEMMA MappedFinds ==
  ASSUME Base, Base', NEW m \in Owners, Mapped(m), Clear', NEW t \in Task, FindFirst(t) \/ FindNext(t)
  PROVE  \E n \in Owners : Mapped(n)'
<1>1. /\ TypeOK /\ Shape(call[t], handle[t]) /\ call[t] \in Calls /\ handle[t] \in Handles
      /\ Placed(m, table[1], call[t], handle[t]) /\ Aligned(m, call[t], handle[t])
      /\ Spared({"twice"}) => Kept(table[1], call[t])
      /\ handle[t].file # NoFile => StartsAt(m, handle[t].file, handle[t].first)
      /\ \A f \in File : StartsAt(m, f, directory[f].first)
      /\ table[1] \in Table
  BY MappedTask
<1>2. struck \subseteq struck'
  BY TaskDoes DEF TaskStep
<1>3. UNCHANGED <<table, directory>>
  BY DEF FindFirst, FindNext
<1>4. call[t].at = "find" /\ call[t].op = "write" /\ handle[t].file \in File /\ handle[t].file # NoFile
  BY <1>1, HandleFields DEF FindFirst, FindNext, Step, Shape
<1>5. ASSUME NEW c \in Calls, NEW h \in Handles, Becomes(t, c, h), Allocates(c)
      PROVE  \A u \in Task : ~Allocates(call[u])
  <2>1. call'[t] = c /\ \A u \in Task : u # t => call'[u] = call[u]
    BY <1>1, <1>5, BecomesMeans
  <2>2. \A u, v \in Task : Allocates(call'[u]) /\ Allocates(call'[v]) => u = v
    BY DEF Base, Alone, Clear, Spared
  <2>3. ~Allocates(call[t])
    BY <1>4 DEF Allocates
  <2> QED
    BY <1>5, <2>1, <2>2, <2>3
<1>6. \A f \in File : f # NoFile
  BY FatAssumption
<1>7. CASE FindFirst(t)
  <2>1. PICK c \in Calls, h \in Handles, x \in Cluster :
           /\ Becomes(t, c, h) /\ Available(x) /\ call[t].for = "first"
           /\ h.first = x /\ h.file = handle[t].file
           /\ c.at = "readDirectory" /\ c.cluster = x
           /\ c.op = call[t].op /\ c.for = call[t].for
           /\ c.flags = call[t].flags /\ c.sector = call[t].sector
    BY <1>1, <1>7, FindFirstDoes
  <2>2. Allocates(c) /\ Fresh(c) = x /\ Founding(c) /\ c.op = "write" /\ c.sector = 0
    BY <1>1, <1>4, <2>1 DEF Allocates, Fresh, Founding, InDirectory, Shape
  <2>3. \A u \in Task : ~Allocates(call[u]) /\ ~Linking(call[u]) /\ ~Founding(call[u])
    BY <1>5, <2>1, <2>2 DEF Linking, Founding, Allocates, InTable, InDirectory
  <2>4. table[1][x] = 0
    BY <2>1 DEF Available, Free
  <2>5. PICK n \in Owners :
           /\ n[x] = [file |-> handle[t].file, root |-> x, depth |-> 0] /\ m[x].file = NoFile
           /\ \A y \in Cluster : y # x => n[y] = m[y]
           /\ \A y \in Cluster : m[y].file # NoFile => n[y] = m[y]
           /\ Linked(n, table[1]) /\ Unmarked(n, table[1]) /\ Roots(n)
           /\ \A y \in Cluster : table[1][y] = 0 => y = x \/ n[y].file = NoFile
    BY <1>4, <2>3, <2>4, Marks
  <2>6. n[x].file = handle[t].file /\ n[x].root = x /\ n[x].depth = 0
    BY <2>5
  <2>7. call'[t] = c /\ handle'[t] = h /\ \A u \in Task : u # t => call'[u] = call[u] /\ handle'[u] = handle[u]
    BY <1>1, <2>1, BecomesMeans
  <2>8. Marked(n)'
    BY <1>3, <2>2, <2>5, <2>7 DEF Marked
  <2>9. \A f \in File : StartsAt(n, f, directory'[f].first)
    BY <1>1, <1>3, <1>6, <2>5, StartsAtKept
  <2>10. StartsAt(n, h.file, h.first)
    BY <2>1, <2>6 DEF StartsAt
  <2>11. Placed(n, table'[1], c, h)
    <3>1. Mine(n, h, x)
      BY <2>1, <2>6 DEF Mine
    <3> QED
      BY <1>3, <2>1, <2>2, <2>4, <3>1 DEF Placed, InTable, Working, InDirectory
  <2>12. Aligned(n, c, h) /\ Kept(table'[1], c)
    BY <2>1, <2>2 DEF Aligned, Kept, Working
  <2>13. Spared({"twice"})' => Rooted(n)'
    <3>1. SUFFICES ASSUME Rooted(m) PROVE Rooted(n)'
      BY <1>2 DEF Mapped, Spared
    <3> QED
      BY <1>3, <2>3, <2>5, <2>6, <3>1 DEF Rooted
  <2>14. Spared({"twice", "directory"})' => RootNamed(n)'
    <3>1. SUFFICES ASSUME RootNamed(m) PROVE RootNamed(n)'
      BY <1>2 DEF Mapped, Spared
    <3>2. handle'[t].file = n[x].file /\ handle'[t].first = x /\ Founding(call'[t])
      BY <2>1, <2>2, <2>6, <2>7
    <3> QED
      BY <1>3, <2>3, <2>5, <3>1, <3>2 DEF RootNamed
  <2>15. Mapped(n)'
    BY <1>2, <1>3, <2>1, <2>5, <2>8, <2>9, <2>10, <2>11, <2>12, <2>13, <2>14, MappedMoves
  <2> QED
    BY <2>15
<1>8. CASE FindNext(t)
  <2>1. PICK c \in Calls, x \in Cluster :
           /\ Becomes(t, c, handle[t]) /\ Available(x) /\ call[t].for = "append"
           /\ c.at = "readTable" /\ c.next = x
           /\ c.op = call[t].op /\ c.for = call[t].for
           /\ c.cluster = call[t].cluster /\ c.flags = call[t].flags
           /\ c.sector = call[t].sector
    BY <1>1, <1>8, FindNextDoes
  <2>2. Allocates(c) /\ Fresh(c) = x /\ Linking(c) /\ c.op = "write"
    BY <1>4, <2>1 DEF Allocates, Fresh, Linking, InTable
  <2>3. \A u \in Task : ~Allocates(call[u]) /\ ~Linking(call[u]) /\ ~Founding(call[u])
    BY <1>1, <1>5, <2>1, <2>2 DEF Linking, Founding, Allocates, InTable, InDirectory
  <2>4. table[1][x] = 0
    BY <2>1 DEF Available, Free
  <2>5. Mine(m, handle[t], call[t].cluster) /\ (call[t].sector # 0 => Mine(m, handle[t], call[t].sector))
    BY <1>1, <1>4, <2>1 DEF Placed
  <2>6. handle[t].first \in Cluster /\ StartsAt(m, handle[t].file, handle[t].first)
    <3>1. handle[t].first # 0
      BY <1>4, <2>5 DEF Mine, Mapped, Roots
    <3> QED
      BY <1>1, <1>4, <3>1 DEF StartsAt
  <2>7. PICK depth \in Nat : depth = m[call[t].cluster].depth + 1
    BY <2>5 DEF Mine, Owners
  <2>8. PICK n \in Owners :
           /\ n[x] = [file |-> handle[t].file, root |-> handle[t].first, depth |-> depth] /\ m[x].file = NoFile
           /\ \A y \in Cluster : y # x => n[y] = m[y]
           /\ \A y \in Cluster : m[y].file # NoFile => n[y] = m[y]
           /\ Linked(n, table[1]) /\ Unmarked(n, table[1]) /\ Roots(n)
           /\ \A y \in Cluster : table[1][y] = 0 => y = x \/ n[y].file = NoFile
    BY <1>4, <2>3, <2>4, <2>6, Marks
  <2>9. n[x].file = handle[t].file /\ n[x].root = handle[t].first /\ n[x].depth = depth
    BY <2>8
  <2>10. call'[t] = c /\ handle'[t] = handle[t] /\ \A u \in Task : u # t => call'[u] = call[u] /\ handle'[u] = handle[u]
    BY <1>1, <2>1, BecomesMeans
  <2>11. Marked(n)'
    BY <1>3, <2>2, <2>8, <2>10 DEF Marked
  <2>12. \A f \in File : StartsAt(n, f, directory'[f].first)
    BY <1>1, <1>3, <1>6, <2>8, StartsAtKept
  <2>13. StartsAt(n, handle[t].file, handle[t].first)
    BY <1>4, <2>6, <2>8, StartsAtKept
  <2>14. Placed(n, table'[1], c, handle[t])
    <3>1. Mine(n, handle[t], x)
      BY <2>9 DEF Mine
    <3>2. /\ Mine(n, handle[t], call[t].cluster) /\ n[x].depth = n[call[t].cluster].depth + 1
          /\ call[t].sector # 0 => Mine(n, handle[t], call[t].sector)
      BY <1>4, <2>5, <2>7, <2>8, <2>9 DEF Mine
    <3> QED
      BY <1>3, <2>1, <2>2, <2>4, <3>1, <3>2 DEF Placed, InTable, Working, InDirectory
  <2>15. Aligned(n, c, handle[t])
    BY <2>1 DEF Aligned
  <2>16. Spared({"twice"})' => Rooted(n)' /\ Kept(table'[1], c)
    <3>1. SUFFICES ASSUME Rooted(m), Kept(table[1], call[t]) PROVE Rooted(n)' /\ Kept(table'[1], c)
      BY <1>1, <1>2 DEF Mapped, Spared
    <3>2. Kept(table'[1], c)
      BY <1>3, <1>4, <2>1, <3>1 DEF Kept, Working
    <3>3. Linking(call'[t]) /\ call'[t].next = x
      BY <2>1, <2>2, <2>10
    <3> QED
      BY <1>3, <2>3, <2>8, <3>1, <3>2, <3>3 DEF Rooted
  <2>17. Spared({"twice", "directory"})' => RootNamed(n)'
    <3>1. SUFFICES ASSUME RootNamed(m) PROVE RootNamed(n)'
      BY <1>2 DEF Mapped, Spared
    <3>2. n[x].root # x
      BY <1>4, <2>6, <2>8, <2>9, Constants DEF StartsAt
    <3> QED
      BY <1>3, <2>3, <2>8, <3>1, <3>2 DEF RootNamed
  <2>18. Mapped(n)'
    BY <1>1, <1>2, <1>3, <2>1, <2>8, <2>11, <2>12, <2>13, <2>14, <2>15, <2>16, <2>17, MappedMoves
  <2> QED
    BY <2>18
<1> QED
  BY <1>7, <1>8

\* A copy of the table: the first one is that which is read.
LEMMA MappedWritesTable ==
  ASSUME Base, NEW m \in Owners, Mapped(m), Clear', NEW t \in Task, WriteTable(t)
  PROVE  Mapped(m)'
<1>1. /\ TypeOK /\ Shape(call[t], handle[t]) /\ call[t] \in Calls /\ handle[t] \in Handles
      /\ Placed(m, table[1], call[t], handle[t]) /\ Aligned(m, call[t], handle[t])
      /\ Spared({"twice"}) => Kept(table[1], call[t])
      /\ handle[t].file # NoFile => StartsAt(m, handle[t].file, handle[t].first)
      /\ \A f \in File : StartsAt(m, f, directory[f].first)
      /\ table[1] \in Table
  BY MappedTask
<1>2. struck \subseteq struck'
  BY TaskDoes DEF TaskStep
<1>3. PICK r \in Calls : r = call[t]
  BY <1>1
<1>4. PICK c \in Calls :
           /\ Becomes(t, c, handle[t]) /\ r.at = "writeTable"
           /\ table' \in [Copy -> Table]
           /\ \A i \in Copy : table'[i] = IF i = r.copy THEN r.table ELSE table[i]
           /\ c.op = r.op /\ c.sector = r.sector
           /\ IF r.copy < NumFATs
              THEN /\ c.at = "writeTable" /\ c.copy = r.copy + 1 /\ c.table = r.table
                   /\ c.for = r.for /\ c.cluster = r.cluster /\ c.next = r.next
                   /\ c.flags = r.flags
              ELSE IF r.for = "append"
              THEN /\ c.at = "readTable" /\ c.for = "first" /\ c.cluster = r.next
                   /\ c.flags = r.flags
              ELSE /\ c.at = "store" /\ c.for = "size" /\ c.cluster = r.cluster /\ c.flags
  BY <1>1, <1>3, WriteTableDoes
<1>5. UNCHANGED directory
  BY DEF WriteTable
<1>6. call'[t] = c /\ handle'[t] = handle[t] /\ \A u \in Task : u # t => call'[u] = call[u] /\ handle'[u] = handle[u]
  BY <1>1, <1>4, BecomesMeans
<1>7. /\ r.op = "write" /\ r.for \in {"first", "append"} /\ r.copy \in Copy /\ Allocates(r) /\ r.at \in InTable
      /\ handle[t].file # NoFile
  BY <1>1, <1>3, <1>4 DEF Shape, InTable, Allocates
<1>8. /\ \A u \in Task \ {t} : ~Allocates(call[u]) /\ ~Linking(call[u])
      /\ ~Founding(r) /\ (Linking(r) <=> r.for = "append")
  <2>1. \A u \in Task \ {t} : ~Allocates(call[u])
    BY <1>2, <1>3, <1>7 DEF Base, Alone, Clear, Spared
  <2> QED
    BY <1>4, <2>1 DEF Linking, Founding, Allocates, InTable, InDirectory
<1>9. /\ Mine(m, handle[t], r.cluster)
      /\ r.sector # 0 => Mine(m, handle[t], r.sector)
      /\ r.for = "append" => Mine(m, handle[t], r.next) /\ m[r.next].depth = m[r.cluster].depth + 1
  BY <1>1, <1>3, <1>7, <1>4 DEF Placed
<1>10. PICK new \in Cluster \cup {Eoc} : new = IF r.for = "append" THEN r.next ELSE Eoc
  BY <1>9 DEF Mine
<1>11. PICK tab \in Table, tab2 \in Table : tab = table[1] /\ tab2 = table'[1]
  BY <1>1, <1>4, Constants
<1>12. /\ tab2[r.cluster] = new /\ r.table = tab2
       /\ \A y \in Cluster : y # r.cluster => tab2[y] = tab[y]
       /\ Spared({"twice"}) => \A y \in Cluster : tab[r.cluster] = y => new = y
  <2>1. r.cluster \in Cluster /\ 1 \in Copy
    BY <1>9, Constants DEF Mine
  <2>2. CASE r.copy = 1
    <3>1. r.table = [tab EXCEPT ![r.cluster] = new]
      BY <1>1, <1>3, <1>4, <1>7, <1>10, <1>11, <2>2 DEF Placed
    <3>2. tab2 = r.table
      BY <1>4, <1>11, <2>1, <2>2
    <3>3. tab2[r.cluster] = new /\ \A y \in Cluster : y # r.cluster => tab2[y] = tab[y]
      BY <2>1, <3>1, <3>2 DEF Table
    <3>4. r.for = "first" => tab[r.cluster] = 0
      BY <1>1, <1>3, <1>4, <1>7, <1>11, <2>2 DEF Placed, Fresh
    <3>5. Spared({"twice"}) /\ r.for = "append" => tab[r.cluster] = Eoc
      BY <1>1, <1>3, <1>4, <1>7, <1>11, <2>2 DEF Kept
    <3> QED
      BY <1>7, <3>2, <3>3, <3>4, <3>5, Constants
  <2>3. CASE r.copy # 1
    <3>1. tab[r.cluster] = new /\ r.table = tab
      BY <1>1, <1>3, <1>4, <1>7, <1>10, <1>11, <2>3 DEF Placed
    <3>2. tab2 = tab
      BY <1>4, <1>11, <2>1, <2>3
    <3> QED
      BY <3>1, <3>2
  <2> QED
    BY <2>2, <2>3
<1>13. r.cluster \in Cluster /\ new # 0 /\ m[r.cluster].file = handle[t].file
  BY <1>9, <1>10, Constants DEF Mine
<1>14. r.for = "append" => tab2[r.next] = 0 /\ new = r.next /\ r.next \in Cluster
  <2>1. SUFFICES ASSUME r.for = "append" PROVE tab2[r.next] = 0 /\ new = r.next /\ r.next \in Cluster
    OBVIOUS
  <2>2. tab[r.next] = 0
    BY <1>1, <1>3, <1>4, <1>7, <1>11, <2>1 DEF Placed, Fresh
  <2>3. r.next # r.cluster
    <3>1. m[r.cluster].depth \in Nat
      BY <1>13 DEF Owners
    <3> QED
      BY <1>9, <2>1, <3>1
  <2> QED
    BY <1>9, <1>10, <1>12, <2>1, <2>2, <2>3 DEF Mine
<1>15. Linked(m, tab2)
  <2>1. Linked(m, tab)
    BY <1>11 DEF Mapped
  <2>2. new \in Cluster => r.for = "append" /\ new = r.next
    BY <1>10, Constants
  <2> QED
    BY <1>9, <1>12, <2>1, <2>2 DEF Linked, Mine
<1>16. Unmarked(m, tab2)
  BY <1>7, <1>11, <1>12, <1>13 DEF Mapped, Unmarked
<1>17. c.at \in {"writeTable", "readTable"} /\ r.for = "append" => Allocates(c) /\ Fresh(c) = r.next
  BY <1>4 DEF Allocates, Fresh
<1>18. c.at \in {"writeTable", "readTable", "store"} /\ (r.for = "append" => c.at # "store")
  BY <1>4
<1>19. Marked(m)'
  <2>1. ASSUME NEW y \in Cluster, tab2[y] = 0, m[y].file # NoFile
        PROVE  Allocates(c) /\ Fresh(c) = y
    <3>1. y # r.cluster /\ tab[y] = 0
      BY <1>12, <1>13, <2>1
    <3>2. PICK u \in Task : Allocates(call[u]) /\ Fresh(call[u]) = y
      BY <1>11, <2>1, <3>1 DEF Mapped, Marked
    <3>3. Fresh(r) = y
      BY <1>3, <1>8, <3>2
    <3>4. r.for = "append" /\ r.next = y
      BY <1>7, <3>1, <3>3 DEF Fresh
    <3> QED
      BY <1>17, <1>18, <3>4
  <2> QED
    BY <1>6, <1>11, <2>1 DEF Marked
<1>20. Placed(m, tab2, c, handle[t])
  <2>1. CASE r.copy < NumFATs
    <3>1. /\ c.at = "writeTable" /\ c.copy = r.copy + 1 /\ c.table = r.table /\ c.op = "write"
          /\ c.for = r.for /\ c.cluster = r.cluster /\ c.next = r.next /\ c.sector = r.sector
      BY <1>4, <1>7, <2>1
    <3>2. c.copy # 1
      BY <1>7, <3>1 DEF Copy
    <3>3. c.for = "append" => tab2[Fresh(c)] = 0
      BY <1>14, <3>1 DEF Fresh
    <3> QED
      BY <1>7, <1>9, <1>10, <1>12, <3>1, <3>2, <3>3 DEF Placed, InTable, InDirectory, Working
  <2>2. CASE ~(r.copy < NumFATs) /\ r.for = "append"
    <3>1. c.at = "readTable" /\ c.for = "first" /\ c.cluster = r.next /\ c.op = "write" /\ c.sector = r.sector
      BY <1>4, <1>7, <2>2
    <3> QED
      BY <1>9, <1>14, <2>2, <3>1 DEF Placed, InTable, InDirectory, Working, Fresh
  <2>3. CASE ~(r.copy < NumFATs) /\ r.for = "first"
    <3>1. c.at = "store" /\ c.for = "size" /\ c.cluster = r.cluster /\ c.op = "write" /\ c.sector = r.sector
      BY <1>4, <1>7, <2>3
    <3> QED
      BY <1>9, <3>1 DEF Placed, InTable, InDirectory, Working, Allocates
  <2> QED
    BY <1>7, <2>1, <2>2, <2>3
<1>21. Aligned(m, c, handle[t])
  <2>1. c.at = "store" => c.flags
    BY <1>4
  <2> QED
    BY <1>18, <2>1 DEF Aligned
<1>22. ASSUME Spared({"twice"})' PROVE Rooted(m)' /\ Kept(tab2, c)
  <2>1. Spared({"twice"}) /\ Rooted(m) /\ Kept(tab, r)
    BY <1>1, <1>2, <1>3, <1>11, <1>22 DEF Mapped, Spared
  <2>2. Rooted(m)'
    <3>1. ASSUME NEW y \in Cluster, m[y].file # NoFile, y # m[y].root
          PROVE  \E z \in Cluster : tab2[z] = y
      <4>1. CASE \E z \in Cluster : tab[z] = y
        BY <1>12, <1>13, <2>1, <3>1, <4>1
      <4>2. CASE \E u \in Task : Linking(call[u]) /\ call[u].next = y
        <5>1. Linking(r) /\ r.next = y
          BY <1>3, <1>8, <4>2
        <5> QED
          BY <1>8, <1>12, <1>13, <1>14, <5>1
      <4> QED
        BY <1>11, <2>1, <3>1, <4>1, <4>2 DEF Rooted
    <3> QED
      BY <1>11, <3>1 DEF Rooted
  <2>3. Kept(tab2, c)
    <3>1. r.sector # 0 => tab2[r.sector] # 0
      BY <1>4, <1>7, <1>9, <1>12, <1>13, <2>1 DEF Kept, Mine
    <3>2. c.sector = r.sector
      BY <1>4
    <3>3. c.at = "store" => c.cluster = r.cluster
      BY <1>4
    <3>4. c.at = "writeTable" => c.copy # 1
      BY <1>4, <1>7 DEF Copy
    <3>5. c.at = "readTable" => c.for # "append"
      BY <1>4
    <3> QED
      BY <1>12, <1>13, <1>18, <3>1, <3>2, <3>3, <3>4, <3>5 DEF Kept, Working
  <2> QED
    BY <2>2, <2>3
<1>23. Spared({"twice", "directory"})' => RootNamed(m)'
  <2>1. SUFFICES ASSUME RootNamed(m) PROVE RootNamed(m)'
    BY <1>2 DEF Mapped, Spared
  <2>2. \A u \in Task : Founding(call[u]) => call'[u] = call[u] /\ handle'[u] = handle[u]
    BY <1>3, <1>6, <1>8
  <2> QED
    BY <1>5, <2>1, <2>2 DEF RootNamed
<1>24. \A y \in Cluster : table'[1][y] = table[1][y] \/ m[y].file = handle[t].file
  BY <1>11, <1>12, <1>13
<1>25. Roots(m) /\ \A f \in File : StartsAt(m, f, directory'[f].first)
  BY <1>1, <1>5 DEF Mapped
<1>26. c.at # "writeDirectory"
  BY <1>18
<1> QED
  BY <1>1, <1>2, <1>4, <1>8, <1>11, <1>15, <1>16, <1>19, <1>20, <1>21, <1>22, <1>23, <1>24, <1>25,
     <1>26, MappedMoves

\* The directory: what is written there begins with first clusters.
LEMMA MappedWritesDirectory ==
  ASSUME Base, InodeKept, NEW m \in Owners, Mapped(m), NEW t \in Task, WriteDirectory(t)
  PROVE  Mapped(m)'
<1>1. /\ TypeOK /\ Shape(call[t], handle[t]) /\ call[t] \in Calls /\ handle[t] \in Handles
      /\ Placed(m, table[1], call[t], handle[t]) /\ Aligned(m, call[t], handle[t])
      /\ Spared({"twice"}) => Kept(table[1], call[t])
      /\ handle[t].file # NoFile => StartsAt(m, handle[t].file, handle[t].first)
      /\ table[1] \in Table
  BY MappedTask
<1>2. struck \subseteq struck'
  BY TaskDoes DEF TaskStep
<1>3. PICK r \in Calls : r = call[t]
  BY <1>1
<1>4. PICK c \in Calls :
           /\ Becomes(t, c, handle[t]) /\ r.at = "writeDirectory"
           /\ directory' = r.directory
           /\ r.for # "first" => c = None
           /\ r.for = "first" => /\ c.at = "readTable"
                /\ c.op = r.op /\ c.for = r.for
                /\ c.cluster = r.cluster /\ c.flags = r.flags /\ c.sector = r.sector
  BY <1>1, <1>3, WriteDirectoryDoes
<1>5. UNCHANGED table
  BY DEF WriteDirectory
<1>6. call'[t] = c /\ handle'[t] = handle[t] /\ \A u \in Task : u # t => call'[u] = call[u] /\ handle'[u] = handle[u]
  BY <1>1, <1>4, BecomesMeans
<1>7. /\ r.op = "write" /\ r.for \in {"first", "size"} /\ handle[t].file # NoFile /\ handle[t].file \in File
      /\ c.at # "writeDirectory" /\ ~Linking(r)
  BY <1>1, <1>3, <1>4, Nones, HandleFields DEF Shape, InDirectory, InTable, Linking
<1>8. Allocates(r) => Allocates(c) /\ Fresh(c) = Fresh(r)
  BY <1>4 DEF Allocates, Fresh
<1>9. \A f \in File : StartsAt(m, f, directory'[f].first)
  BY <1>3, <1>4 DEF Mapped, Starts
<1>10. Marked(m)'
  <2>1. ASSUME NEW x \in Cluster, NEW u \in Task, Allocates(call[u]), Fresh(call[u]) = x
        PROVE  Allocates(call'[u]) /\ Fresh(call'[u]) = x
    BY <1>3, <1>6, <1>8, <2>1
  <2>2. Marked(m)
    BY DEF Mapped
  <2> QED
    BY <1>5, <2>1, <2>2 DEF Marked
<1>11. Placed(m, table[1], c, handle[t]) /\ Aligned(m, c, handle[t])
  <2>1. CASE r.for = "first"
    <3>1. /\ Mine(m, handle[t], r.cluster) /\ table[1][r.cluster] = 0
          /\ r.sector # 0 => Mine(m, handle[t], r.sector)
      BY <1>1, <1>3, <1>4, <1>7, <2>1 DEF Placed, InDirectory, Allocates, Fresh
    <3>2. Placed(m, table[1], c, handle[t])
      BY <1>4, <2>1, <3>1 DEF Placed, InTable, InDirectory, Working, Fresh
    <3> QED
      BY <1>4, <2>1, <3>2 DEF Aligned
  <2>2. CASE r.for # "first"
    BY <1>4, <2>2, Nones DEF Placed, Aligned
  <2> QED
    BY <2>1, <2>2
<1>12. ASSUME Spared({"twice"})' PROVE Rooted(m)' /\ Kept(table[1], c)
  <2>1. Spared({"twice"}) /\ Rooted(m) /\ Kept(table[1], r)
    BY <1>1, <1>2, <1>3, <1>12 DEF Mapped, Spared
  <2>2. \A u \in Task : Linking(call[u]) => call'[u] = call[u]
    BY <1>3, <1>6, <1>7
  <2>3. Rooted(m)'
    BY <1>5, <2>1, <2>2 DEF Rooted
  <2>4. Kept(table[1], c)
    <3>1. CASE r.for = "first"
      BY <1>4, <2>1, <3>1 DEF Kept, Working
    <3>2. CASE r.for # "first"
      BY <1>4, <3>2, Nones DEF Kept
    <3> QED
      BY <3>1, <3>2
  <2> QED
    BY <2>3, <2>4
<1>13. ASSUME Spared({"twice", "directory"})' PROVE RootNamed(m)'
  <2>1. Spared({"twice", "directory"}) /\ RootNamed(m) /\ Spared({"directory", "twice"})
    BY <1>2, <1>13 DEF Mapped, Spared
  <2>2. /\ directory' = [directory EXCEPT ![handle[t].file] = [size |-> handle[t].size, first |-> handle[t].first]]
        /\ r.for = "first" => directory[handle[t].file].first = 0
        /\ r.for # "first" => directory[handle[t].file].first = handle[t].first
    BY <1>3, <1>4, <1>7, <2>1 DEF InodeKept, Inodes, InDirectory
  <2>3. /\ directory'[handle[t].file].first = handle[t].first
        /\ \A f \in File : f # handle[t].file => directory'[f] = directory[f]
    BY <1>1, <1>7, <2>2 DEF TypeOK, Directory
  <2>4. ASSUME NEW x \in Cluster, m[x].file # NoFile, m[x].root = x
        PROVE  \/ directory'[m[x].file].first = x
               \/ \E u \in Task : handle'[u].file = m[x].file /\ handle'[u].first = x /\ Founding(call'[u])
    <3>1. m[x].file \in File
      BY <2>4 DEF Owners
    <3>2. CASE directory[m[x].file].first = x
      <4>1. x # 0
        BY Constants
      <4> QED
        BY <2>2, <2>3, <3>1, <3>2, <4>1
    <3>3. CASE \E u \in Task : handle[u].file = m[x].file /\ handle[u].first = x /\ Founding(call[u])
      <4>1. PICK u \in Task : handle[u].file = m[x].file /\ handle[u].first = x /\ Founding(call[u])
        BY <3>3
      <4>2. CASE u = t
        BY <2>3, <4>1, <4>2
      <4>3. CASE u # t
        BY <1>6, <4>1, <4>3
      <4> QED
        BY <4>2, <4>3
    <3> QED
      BY <2>1, <2>4, <3>2, <3>3 DEF RootNamed
  <2> QED
    BY <2>4 DEF RootNamed
<1>14. Linked(m, table'[1]) /\ Unmarked(m, table'[1]) /\ Roots(m)
  BY <1>5 DEF Mapped
<1> QED
  BY <1>1, <1>2, <1>4, <1>5, <1>7, <1>9, <1>10, <1>11, <1>12, <1>13, <1>14, MappedMoves

\* The machine stops, and starts with the disk as it is.
LEMMA MappedReset ==
  ASSUME Base, NEW m \in Owners, Mapped(m), Clear', Reset
  PROVE  Mapped(m)'
<1>1. UNCHANGED <<table, directory>> /\ struck \subseteq struck'
  BY DEF Reset
<1>2. \A u \in Task : call'[u] = None /\ handle'[u].file = NoFile
  BY DEF Reset, Closed
<1>3. \A u \in Task : ~Allocates(call[u]) /\ ~Linking(call[u]) /\ ~Founding(call[u])
  <2>1. \A u \in Task : ~Allocates(call[u])
    BY DEF Reset, Clear, Spared
  <2> QED
    BY <2>1 DEF Linking, Founding, Allocates, InTable, InDirectory
<1>4. Linked(m, table'[1]) /\ Unmarked(m, table'[1]) /\ Roots(m) /\ Marked(m)'
  BY <1>1, <1>3 DEF Mapped, Marked
<1>5. Starts(m)'
  BY <1>1, <1>2, Nones DEF Mapped, Starts, IsOpen
<1>6. \A u \in Task : /\ Placed(m, table'[1], call'[u], handle'[u]) /\ Aligned(m, call'[u], handle'[u])
                      /\ Kept(table'[1], call'[u])
  BY <1>2, Nones DEF Placed, Aligned, Kept
<1>7. Spared({"twice"})' => Rooted(m)'
  BY <1>1, <1>3 DEF Mapped, Spared, Rooted
<1>8. Spared({"twice", "directory"})' => RootNamed(m)'
  BY <1>1, <1>3 DEF Mapped, Spared, RootNamed
<1> QED
  BY <1>4, <1>5, <1>6, <1>7, <1>8 DEF Mapped

\* Each step keeps the map, or extends it by the cluster it allocates.
LEMMA ChainedStep == ASSUME Base, InodeKept, Chained, [Next]_vars PROVE Chained'
<1>1. Base'
  BY BaseStep
<1>2. CASE UNCHANGED vars
  <2>1. UNCHANGED <<table, directory, handle, call, struck>>
    BY <1>2 DEF vars
  <2>2. ASSUME NEW m, Mapped(m) PROVE Mapped(m)'
    BY <2>1, <2>2 DEF Mapped, Marked, Starts, IsOpen, Rooted, RootNamed, Spared
  <2> QED
    BY <2>1, <2>2 DEF Chained, Clear, Spared
<1>3. CASE Next
  <2>1. SUFFICES ASSUME Clear' PROVE \E n \in Owners : Mapped(n)'
    BY DEF Chained
  <2>2. CASE Reset
    <3>1. Clear
      BY <2>1, <2>2 DEF Reset, Clear, Spared
    <3> QED
      BY <2>1, <2>2, <3>1, MappedReset DEF Chained
  <2>3. ASSUME NEW t \in Task, TaskStep(t) PROVE \E n \in Owners : Mapped(n)'
    <3>1. Clear
      BY <2>1, <2>3, TaskDoes DEF Clear, Spared
    <3>2. PICK m \in Owners : Mapped(m)
      BY <3>1 DEF Chained
    <3> QED
      BY <1>1, <2>1, <2>3, <3>2, MappedBegins, MappedWalks, MappedTransfers, MappedReads, MappedFinds,
         MappedWritesTable, MappedWritesDirectory DEF TaskStep
  <2> QED
    BY <1>3, <2>2, <2>3 DEF Next
<1> QED
  BY <1>2, <1>3

\* At the beginning there is one chain of two clusters.
LEMMA ChainedInit == ASSUME Init PROVE Chained
<1>1. PICK f \in File : directory = [NoDirectory EXCEPT ![f] = [size |-> 2 * Bytes, first |-> 2]]
  BY DEF Init
<1> DEFINE m == [x \in Cluster |-> IF x = 2 THEN [file |-> f, root |-> 2, depth |-> 0]
                                   ELSE IF x = 3 THEN [file |-> f, root |-> 2, depth |-> 1]
                                   ELSE [file |-> NoFile, root |-> 0, depth |-> 0]]
<1>2. 2 \in Cluster /\ 3 \in Cluster /\ 2 \in Entry /\ 0 \in Entry /\ 1 \in Copy /\ Eoc \notin Cluster /\ 0 \notin Cluster
  BY Constants
<1>3. m \in Owners
  BY <1>2 DEF Owners
<1>4. /\ m[2].file = f /\ m[2].root = 2 /\ m[2].depth = 0
      /\ m[3].file = f /\ m[3].root = 2 /\ m[3].depth = 1
      /\ \A x \in Cluster : x # 2 /\ x # 3 => m[x].file = NoFile
  BY <1>2
<1> HIDE DEF m
<1>5. table[1] = [NoTable EXCEPT ![2] = 3, ![3] = Eoc]
  BY <1>2 DEF Init
<1>6. table[1][2] = 3 /\ table[1][3] = Eoc /\ \A x \in Cluster : x # 2 /\ x # 3 => table[1][x] = 0
  BY <1>2, <1>5 DEF NoTable
<1>7. Eoc # 0 /\ Eoc # 2 /\ Eoc # 3 /\ f # NoFile
  BY FatAssumption DEF Eoc
<1>8. Linked(m, table[1]) /\ Unmarked(m, table[1])
  BY <1>2, <1>4, <1>6, <1>7 DEF Linked, Unmarked
<1>9. Marked(m)
  BY <1>4, <1>6, <1>7 DEF Marked
<1>10. Roots(m)
  BY <1>2, <1>4, <1>7 DEF Roots, StartsAt
<1>11. \A u \in Task : call[u] = None /\ handle[u].file = NoFile
  BY DEF Init, Closed
<1>12. directory[f].first = 2 /\ \A g \in File : g # f => directory[g].first = 0
  BY <1>1 DEF NoDirectory
<1>13. Starts(m)
  BY <1>2, <1>4, <1>11, <1>12, Nones DEF Starts, StartsAt, IsOpen
<1>14. \A u \in Task : /\ Placed(m, table[1], call[u], handle[u]) /\ Aligned(m, call[u], handle[u])
                       /\ Kept(table[1], call[u])
  BY <1>11, Nones DEF Placed, Aligned, Kept
<1>15. Rooted(m)
  BY <1>2, <1>4, <1>6 DEF Rooted
<1>16. RootNamed(m)
  BY <1>4, <1>12 DEF RootNamed
<1> QED
  BY <1>3, <1>8, <1>9, <1>10, <1>13, <1>14, <1>15, <1>16 DEF Chained, Mapped

-----------------------------------------------------------------------------
\* Induction without an operator parameter, by the library's theorems on finite sets.
LEMMA LeastNumber ==
  ASSUME NEW X \in SUBSET Nat, X # {}
  PROVE  \E n \in X : \A k \in X : n <= k
<1> DEFINE S == {0 .. n : n \in X}
<1>1. S \subseteq FiniteSubsetsOf(Nat) /\ S # {}
  <2>1. \A n \in X : IsFiniteSet(0 .. n) /\ 0 .. n \subseteq Nat
    BY FS_Interval
  <2> QED
    BY <2>1 DEF FiniteSubsetsOf
<1>2. PICK s \in S : \A r \in S : ~(<<r, s>> \in StrictSubsetOrdering(Nat))
  BY <1>1, FS_StrictSubsetOrderingWellFounded, WFMin
<1>3. PICK n \in X : s = 0 .. n
  BY <1>2
<1>4. ASSUME NEW k \in X, k < n PROVE FALSE
  <2>1. 0 .. k \in S
    OBVIOUS
  <2>2. 0 .. k \subseteq 0 .. n /\ n \in 0 .. n /\ n \notin 0 .. k
    BY <1>4
  <2>3. <<0 .. k, 0 .. n>> \in StrictSubsetOrdering(Nat)
    BY <2>2 DEF StrictSubsetOrdering
  <2> QED
    BY <1>2, <1>3, <2>1, <2>3
<1> QED
  BY <1>4

\* The first n + 1 places of a chain.
Along(w, tab, x, n) ==
  /\ DOMAIN w = 0 .. n /\ w[0] = x
  /\ \A i \in 1 .. n : w[i] = IF w[i - 1] \in Cluster THEN tab[w[i - 1]] ELSE 0

\* A walk that is a function of the numbers up to n.
Walked(w, tab, x, n) == Along(w, tab, x, n) /\ w = [i \in 0 .. n |-> w[i]]

\* There is always a walk of any length.
LEMMA AlongExists ==
  ASSUME NEW tab, NEW x, NEW n \in Nat
  PROVE  \E w : Walked(w, tab, x, n)
<1> DEFINE X == {k \in Nat : ~ \E w : Walked(w, tab, x, k)}
<1>1. SUFFICES ASSUME X # {} PROVE FALSE
  OBVIOUS
<1>2. PICK k \in X : \A j \in X : k <= j
  BY <1>1, LeastNumber
<1>3. k # 0
  <2>1. SUFFICES ASSUME k = 0 PROVE FALSE
    OBVIOUS
  <2>2. PICK w : w = [i \in 0 .. 0 |-> x]
    OBVIOUS
  <2>3. Along(w, tab, x, 0) /\ w = [i \in 0 .. 0 |-> w[i]]
    BY <2>2 DEF Along
  <2>4. Walked(w, tab, x, 0)
    BY <2>3 DEF Walked
  <2> QED
    BY <1>2, <2>1, <2>4
<1>4. k - 1 \in Nat /\ k - 1 \notin X
  BY <1>2, <1>3
<1>5. PICK w : Walked(w, tab, x, k - 1)
  BY <1>4
<1>6. PICK next : next = IF w[k - 1] \in Cluster THEN tab[w[k - 1]] ELSE 0
  OBVIOUS
<1>7. PICK v : v = [i \in 0 .. k |-> IF i = k THEN next ELSE w[i]]
  OBVIOUS
<1>8. v[k] = next /\ \A i \in 0 .. k - 1 : v[i] = w[i]
  BY <1>2, <1>4, <1>7
<1>9. Along(v, tab, x, k)
  <2>1. DOMAIN v = 0 .. k /\ v[0] = x
    BY <1>3, <1>4, <1>5, <1>7, <1>8 DEF Along, Walked
  <2>2. ASSUME NEW i \in 1 .. k
        PROVE  v[i] = IF v[i - 1] \in Cluster THEN tab[v[i - 1]] ELSE 0
    <3>1. CASE i = k
      <4>1. i - 1 \in 0 .. k - 1 /\ i - 1 = k - 1
        BY <1>4, <3>1
      <4> QED
        BY <1>6, <1>8, <3>1, <4>1
    <3>2. CASE i # k
      <4>1. i \in 1 .. k - 1 /\ i \in 0 .. k - 1 /\ i - 1 \in 0 .. k - 1
        BY <1>4, <3>2
      <4> QED
        BY <1>5, <1>8, <4>1 DEF Along, Walked
    <3> QED
      BY <3>1, <3>2
  <2> QED
    BY <2>1, <2>2 DEF Along
<1>10. v = [i \in 0 .. k |-> v[i]]
  BY <1>7
<1>11. Walked(v, tab, x, k)
  BY <1>9, <1>10 DEF Walked
<1> QED
  BY <1>2, <1>11

\* Two walks from one place agree as far as both go.
LEMMA AlongUnique ==
  ASSUME NEW tab, NEW x, NEW n \in Nat, NEW k \in Nat, NEW v, NEW w,
         Along(v, tab, x, n), Along(w, tab, x, k), NEW i \in Nat, i <= n, i <= k
  PROVE  v[i] = w[i]
<1> DEFINE X == {j \in Nat : j <= n /\ j <= k /\ v[j] # w[j]}
<1>1. SUFFICES ASSUME X # {} PROVE FALSE
  OBVIOUS
<1>2. PICK j \in X : \A l \in X : j <= l
  BY <1>1, LeastNumber
<1>3. j # 0
  BY <1>2 DEF Along
<1>4. j - 1 \in Nat /\ j - 1 <= n /\ j - 1 <= k /\ j \in 1 .. n /\ j \in 1 .. k /\ ~(j <= j - 1)
  BY <1>2, <1>3
<1>5. v[j - 1] = w[j - 1]
  BY <1>2, <1>4
<1>6. v[j] = w[j]
  BY <1>4, <1>5 DEF Along
<1> QED
  BY <1>2, <1>6

\* Nth follows the chain.
LEMMA NthAlong ==
  ASSUME NEW x, NEW n \in Nat, NEW w, Along(w, table[1], x, n), NEW i \in 0 .. n
  PROVE  Nth(x, i) = w[i]
<1>1. i \in Nat /\ i <= n
  OBVIOUS
<1>2. PICK tab : tab = table[1]
  OBVIOUS
<1>3. PICK u : Walked(u, tab, x, i)
  BY <1>1, AlongExists
<1>9. PICK v : v = u /\ Along(v, tab, x, i) /\ v = [j \in 0 .. i |-> v[j]]
  BY <1>3 DEF Walked
<1> DEFINE follows(w1) == [j \in 0 .. i |-> IF j = 0 THEN x
                                     ELSE IF w1[j - 1] \in Cluster THEN tab[w1[j - 1]] ELSE 0]
           c == CHOOSE w1 : w1 = follows(w1)
<1>4. v = follows(v)
  <2>1. \A j \in 0 .. i : v[j] = IF j = 0 THEN x
                                 ELSE IF v[j - 1] \in Cluster THEN tab[v[j - 1]] ELSE 0
    <3>1. \A j \in 0 .. i : j # 0 => j \in 1 .. i
      BY <1>1
    <3> QED
      BY <1>9, <3>1 DEF Along
  <2> QED
    BY <1>9, <2>1
<1>5. c = follows(c)
  BY <1>4
<1>6. Nth(x, i) = c[i]
  BY <1>2 DEF Nth
<1> HIDE DEF c
<1>7. Along(c, tab, x, i)
  <2>1. 0 \in 0 .. i /\ \A j \in 1 .. i : j \in 0 .. i /\ j # 0
    BY <1>1
  <2> QED
    BY <1>5, <2>1 DEF Along
<1>8. c[i] = w[i]
  BY <1>1, <1>2, <1>7, AlongUnique
<1> QED
  BY <1>6, <1>8

\* Chain is what a walk of as many steps as there are numbers meets.
LEMMA ChainIs ==
  ASSUME NEW x, NEW n \in Nat, n = Last, NEW w, Along(w, table[1], x, n)
  PROVE  Chain(x) = {w[i] : i \in 0 .. n} \cap Cluster
BY NthAlong DEF Chain

-----------------------------------------------------------------------------
\* A walk from a file's first cluster meets that file's clusters, in the order of the map.
LEMMA WalkOwned ==
  ASSUME NEW m \in Owners, NEW tab, Linked(m, tab), NEW f, NEW x, StartsAt(m, f, x),
         NEW n \in Nat, NEW w, Along(w, tab, x, n), NEW i \in Nat, i <= n, w[i] \in Cluster
  PROVE  /\ m[w[i]].file = f /\ m[w[i]].root = x /\ m[w[i]].depth = i
         /\ \A j \in Nat : j <= i => w[j] \in Cluster
<1> DEFINE Told(k) == /\ m[w[k]].file = f /\ m[w[k]].root = x /\ m[w[k]].depth = k
                      /\ \A j \in Nat : j <= k => w[j] \in Cluster
           X == {k \in Nat : k <= n /\ w[k] \in Cluster /\ ~Told(k)}
<1>1. SUFFICES ASSUME X # {} PROVE FALSE
  OBVIOUS
<1>2. PICK k \in X : \A j \in X : k <= j
  BY <1>1, LeastNumber
<1>3. k \in Nat /\ k <= n /\ w[k] \in Cluster /\ ~Told(k)
  BY <1>2
<1>4. CASE k = 0
  <2>1. w[0] = x /\ x \in Cluster /\ x # 0
    BY <1>3, <1>4, Constants DEF Along
  <2>2. m[x].file = f /\ m[x].root = x /\ m[x].depth = 0
    BY <2>1 DEF StartsAt
  <2>3. \A j \in Nat : j <= 0 => j = 0
    OBVIOUS
  <2> QED
    BY <1>3, <1>4, <2>1, <2>2, <2>3
<1>5. CASE k # 0
  <2>1. PICK p \in Nat : p = k - 1
    BY <1>3, <1>5
  <2>2. p <= n /\ ~(k <= p) /\ k \in 1 .. n /\ k = p + 1 /\ \A j \in Nat : j <= k => j = k \/ j <= p
    BY <1>3, <1>5, <2>1
  <2>3. w[k] = IF w[p] \in Cluster THEN tab[w[p]] ELSE 0
    BY <2>1, <2>2 DEF Along
  <2>4. w[p] \in Cluster /\ w[k] = tab[w[p]]
    BY <1>3, <2>3, Constants
  <2>5. p \notin X
    BY <1>2, <2>2
  <2>6. Told(p)
    BY <2>1, <2>2, <2>4, <2>5
  <2>7. m[w[k]].file = m[w[p]].file /\ m[w[k]].root = m[w[p]].root /\ m[w[k]].depth = m[w[p]].depth + 1
    BY <1>3, <2>4 DEF Linked
  <2>8. m[w[k]].depth = k
    BY <2>2, <2>6, <2>7
  <2>9. \A j \in Nat : j <= k => w[j] \in Cluster
    BY <1>3, <2>2, <2>6
  <2> QED
    BY <1>3, <2>6, <2>7, <2>8, <2>9
<1> QED
  BY <1>4, <1>5

\* It never meets one twice, so that it is no longer than there are clusters.
LEMMA WalkEnds ==
  ASSUME NEW m \in Owners, NEW tab, Linked(m, tab), NEW f, NEW x, StartsAt(m, f, x),
         NEW n \in Nat, NEW w, Along(w, tab, x, n), NEW i \in Nat, i <= n, w[i] \in Cluster
  PROVE  i < Last
<1>1. SUFFICES ASSUME ~(i < Last) PROVE FALSE
  OBVIOUS
<1>2. \A j \in Nat : j <= i => w[j] \in Cluster /\ m[w[j]].depth = j
  <2>1. ASSUME NEW j \in Nat, j <= i PROVE w[j] \in Cluster
    BY <2>1, WalkOwned
  <2>2. ASSUME NEW j \in Nat, j <= i PROVE m[w[j]].depth = j
    <3>1. j <= n
      BY <2>2
    <3> QED
      BY <2>1, <2>2, <3>1, WalkOwned
  <2> QED
    BY <2>1, <2>2
<1>3. PICK g : g = [j \in 0 .. i |-> w[j]]
  OBVIOUS
<1>4. \A j \in 0 .. i : j \in Nat /\ j <= i
  OBVIOUS
<1>5. g \in [0 .. i -> Cluster]
  BY <1>2, <1>3, <1>4
<1>6. IsFiniteSet(0 .. i) /\ Cardinality(0 .. i) = i + 1
  <2>1. 0 \in Int /\ i \in Int /\ ~(0 > i) /\ i - 0 + 1 = i + 1
    OBVIOUS
  <2> QED
    BY <2>1, FS_Interval
<1>7. i + 1 > Last - 1
  BY <1>1, FatAssumption
<1>8. PICK j \in 0 .. i, k \in 0 .. i : j # k /\ g[j] = g[k]
  BY <1>5, <1>6, <1>7, Constants, FS_PigeonHole
<1>9. w[j] = w[k]
  BY <1>3, <1>8
<1> QED
  BY <1>2, <1>4, <1>8, <1>9

\* It meets every cluster of the chain that is linked to.
LEMMA WalkReaches ==
  ASSUME NEW m \in Owners, NEW tab \in Table, Linked(m, tab), Unmarked(m, tab), Roots(m),
         \A y \in Cluster : tab[y] # 0 => y = m[y].root \/ \E z \in Cluster : tab[z] = y,
         NEW x \in Cluster, tab[x] # 0, NEW n \in Nat, m[x].depth <= n,
         NEW w, Along(w, tab, m[x].root, n)
  PROVE  w[m[x].depth] = x
<1> DEFINE X == {k \in Nat : k <= n /\ \E y \in Cluster : /\ tab[y] # 0 /\ m[y].depth = k
                                                          /\ m[y].root = m[x].root /\ w[k] # y}
<1>1. \A y \in Cluster : m[y].depth \in Nat
  BY DEF Owners
<1>2. SUFFICES ASSUME X # {} PROVE FALSE
  BY <1>1
<1>3. PICK k \in X : \A j \in X : k <= j
  BY <1>2, LeastNumber
<1>4. PICK y \in Cluster : tab[y] # 0 /\ m[y].depth = k /\ m[y].root = m[x].root /\ w[k] # y
  BY <1>3
<1>5. y # m[y].root
  <2>1. SUFFICES ASSUME y = m[y].root PROVE FALSE
    OBVIOUS
  <2>2. m[y].depth = 0
    BY <1>4, <2>1 DEF Roots, StartsAt, Unmarked
  <2> QED
    BY <1>4, <2>1, <2>2 DEF Along
<1>6. PICK z \in Cluster : tab[z] = y
  BY <1>4, <1>5
<1>7. tab[z] # 0 /\ m[z].root = m[x].root /\ k = m[z].depth + 1
  BY <1>4, <1>6, Constants DEF Linked
<1>8. PICK p \in Nat : p = m[z].depth
  BY <1>1
<1>9. p <= n /\ ~(k <= p) /\ k \in 1 .. n /\ p = k - 1
  BY <1>3, <1>7, <1>8
<1>10. w[p] = z
  <2>1. p \notin X
    BY <1>3, <1>9
  <2>2. \A u \in Cluster : tab[u] # 0 /\ m[u].depth = p /\ m[u].root = m[x].root => w[p] = u
    BY <1>9, <2>1
  <2> QED
    BY <1>7, <1>8, <2>2
<1>11. w[k] = y
  BY <1>6, <1>9, <1>10 DEF Along
<1> QED
  BY <1>4, <1>11

\* The clusters of a file's chain are its own, and fewer than there are numbers.
LEMMA ChainOwned ==
  ASSUME NEW m \in Owners, Mapped(m), NEW f, NEW x, StartsAt(m, f, x), NEW y \in Chain(x)
  PROVE  y \in Cluster /\ m[y].file = f /\ m[y].root = x
<1>1. PICK n \in Nat : n = Last
  BY FatAssumption
<1>2. PICK w : Along(w, table[1], x, n)
  BY AlongExists DEF Walked
<1>3. PICK i \in 0 .. n : w[i] = y /\ y \in Cluster
  BY <1>1, <1>2, ChainIs
<1>4. i \in Nat /\ i <= n
  OBVIOUS
<1> QED
  BY <1>2, <1>3, <1>4, WalkOwned DEF Mapped

\* While no file is open twice, a cluster with an entry has its place in a chain.
LEMMA ChainHas ==
  ASSUME Base, NEW m \in Owners, Mapped(m), Rooted(m), NEW x \in Cluster, table[1][x] # 0
  PROVE  /\ m[x].file \in File /\ StartsAt(m, m[x].file, m[x].root)
         /\ x \in Chain(m[x].root) /\ Nth(m[x].root, m[x].depth) = x
<1>1. table[1] \in Table
  BY Constants DEF Base, TypeOK
<1>2. PICK tab \in Table : tab = table[1]
  BY <1>1
<1>3. Linked(m, tab) /\ Unmarked(m, tab) /\ Roots(m)
  BY <1>2 DEF Mapped
<1>4. \A y \in Cluster : tab[y] # 0 => y = m[y].root \/ \E z \in Cluster : tab[z] = y
  <2>1. ASSUME NEW t \in Task, Linking(call[t]) PROVE tab[call[t].next] = 0
    <3>1. PICK c \in Calls : c = call[t]
      BY DEF Base, TypeOK
    <3>2. c.at \in InTable /\ c.for = "append" /\ c.op = "write"
      BY <2>1, <3>1 DEF Linking, Base, Shapes, Shape
    <3>3. Allocates(c) /\ Fresh(c) = c.next
      BY <3>2 DEF Allocates, InTable, Fresh
    <3>4. Placed(m, tab, c, handle[t])
      BY <1>2, <3>1 DEF Mapped
    <3> QED
      BY <3>1, <3>2, <3>3, <3>4 DEF Placed
  <2> QED
    BY <1>2, <1>3, <2>1 DEF Rooted, Unmarked
<1>5. m[x].file \in File /\ m[x].root # 0 /\ StartsAt(m, m[x].file, m[x].root) /\ m[x].depth \in Nat
  BY <1>2, <1>3 DEF Unmarked, Roots, Owners
<1>6. PICK n \in Nat : n = m[x].depth
  BY <1>5
<1>7. PICK w : Along(w, tab, m[x].root, n)
  BY AlongExists DEF Walked
<1>8. w[n] = x
  BY <1>2, <1>3, <1>4, <1>6, <1>7, WalkReaches
<1>9. n < Last
  BY <1>3, <1>5, <1>7, <1>8, WalkEnds
<1>10. Nth(m[x].root, n) = x
  <2>1. n \in 0 .. n
    OBVIOUS
  <2> QED
    BY <1>2, <1>7, <1>8, <2>1, NthAlong
<1>11. n \in 0 .. Last
  BY <1>9, FatAssumption
<1>12. x \in Chain(m[x].root)
  BY <1>10, <1>11 DEF Chain
<1> QED
  BY <1>5, <1>6, <1>10, <1>12

\* Two chains would both have marked a cluster that they share.
LEMMA ApartOnce == ASSUME Base, Chained PROVE ChainsApart
<1>1. SUFFICES ASSUME Clear, NEW f \in File, NEW g \in File, f # g,
                      NEW y \in Chain(directory[f].first), y \in Chain(directory[g].first)
               PROVE  FALSE
  BY DEF ChainsApart, Clear
<1>2. PICK m \in Owners : Mapped(m)
  BY <1>1 DEF Chained
<1>3. StartsAt(m, f, directory[f].first) /\ StartsAt(m, g, directory[g].first)
  BY <1>2 DEF Mapped, Starts
<1>4. m[y].file = f
  BY <1>1, <1>2, <1>3, ChainOwned
<1>5. m[y].file = g
  BY <1>1, <1>2, <1>3, ChainOwned
<1> QED
  BY <1>1, <1>4, <1>5

\* When no cluster is being allocated, only the clusters of no file are free.
LEMMA QuietMarks ==
  ASSUME Quiet, NEW m \in Owners, Mapped(m), NEW x \in Cluster, m[x].file # NoFile
  PROVE  table[1][x] # 0
BY DEF Mapped, Marked, Quiet, Allocates

\* A chain that does not end would be longer than there are clusters.
LEMMA EndOnce == ASSUME Base, Chained PROVE ChainsEnd
<1>1. SUFFICES ASSUME Quiet, Clear, NEW f \in File, directory[f].first # 0,
                      \A y \in Chain(directory[f].first) : table[1][y] # Eoc
               PROVE  FALSE
  BY DEF ChainsEnd, Clear
<1>2. PICK m \in Owners : Mapped(m)
  BY <1>1 DEF Chained
<1>3. PICK x : x = directory[f].first
  OBVIOUS
<1>4. StartsAt(m, f, x) /\ x # 0
  BY <1>1, <1>2, <1>3 DEF Mapped, Starts
<1>5. PICK tab \in Table : tab = table[1]
  BY Constants DEF Base, TypeOK
<1>6. PICK n \in Nat : n = Last
  BY FatAssumption
<1>7. PICK w : Along(w, tab, x, n)
  BY AlongExists DEF Walked
<1>8. \A i \in Nat : i <= n /\ w[i] \in Cluster => tab[w[i]] \in Cluster
  <2>1. SUFFICES ASSUME NEW i \in Nat, i <= n, w[i] \in Cluster PROVE tab[w[i]] \in Cluster
    OBVIOUS
  <2>2. m[w[i]].file = f
    BY <1>2, <1>4, <1>5, <1>7, <2>1, WalkOwned DEF Mapped
  <2>3. tab[w[i]] # 0
    BY <1>1, <1>2, <1>5, <2>1, <2>2, QuietMarks, FatAssumption
  <2>4. i \in 0 .. n
    BY <2>1
  <2>5. w[i] \in Chain(x)
    BY <1>5, <1>6, <1>7, <2>1, <2>4, ChainIs
  <2>6. tab[w[i]] # Eoc
    BY <1>1, <1>3, <1>5, <2>5
  <2>7. tab[w[i]] \in Entry
    BY <2>1 DEF Table
  <2> QED
    BY <2>3, <2>6, <2>7, Constants
<1>9. w[n] \in Cluster
  <2> DEFINE X == {k \in Nat : k <= n /\ w[k] \notin Cluster}
  <2>1. SUFFICES ASSUME X # {} PROVE FALSE
    OBVIOUS
  <2>2. PICK k \in X : \A j \in X : k <= j
    BY <2>1, LeastNumber
  <2>3. w[0] = x /\ x \in Cluster
    BY <1>4, <1>7 DEF Along, StartsAt
  <2>4. k \in Nat /\ k <= n /\ w[k] \notin Cluster /\ k # 0
    BY <2>2, <2>3
  <2>5. PICK p \in Nat : p = k - 1
    BY <2>4
  <2>6. p <= n /\ ~(k <= p) /\ k \in 1 .. n
    BY <2>4, <2>5
  <2>7. w[p] \in Cluster
    BY <2>2, <2>6
  <2>8. w[k] = tab[w[p]]
    BY <1>7, <2>5, <2>6, <2>7 DEF Along
  <2> QED
    BY <1>8, <2>4, <2>6, <2>7, <2>8
<1>10. n < Last
  <2>1. Linked(m, tab) /\ n <= n
    BY <1>2, <1>5 DEF Mapped
  <2> QED
    BY <1>4, <1>7, <1>9, <2>1, WalkEnds
<1> QED
  BY <1>6, <1>10

\* A cluster with an entry is reached from a first one, which the directory names.
LEMMA NothingLostOnce == ASSUME Base, Chained PROVE NothingLost
<1>1. SUFFICES ASSUME Quiet, Spared({"table", "directory", "twice", "edge", "torn"}),
                      NEW y \in Cluster, table[1][y] # 0
               PROVE  \E f \in File : y \in Chain(directory[f].first)
  BY DEF NothingLost
<1>2. Clear /\ Spared({"twice"}) /\ Spared({"twice", "directory"})
  BY <1>1 DEF Spared, Clear
<1>3. PICK m \in Owners : Mapped(m)
  BY <1>2 DEF Chained
<1>4. Rooted(m) /\ RootNamed(m)
  BY <1>2, <1>3 DEF Mapped
<1>5. PICK x : x = m[y].root
  OBVIOUS
<1>6. /\ m[y].file \in File /\ StartsAt(m, m[y].file, x) /\ y \in Chain(x)
  BY <1>1, <1>3, <1>4, <1>5, ChainHas
<1>7. x # 0
  BY <1>3, <1>5, <1>6, FatAssumption DEF Mapped, Roots
<1>8. x \in Cluster /\ m[x].file = m[y].file /\ m[x].root = x
  BY <1>6, <1>7 DEF StartsAt
<1>9. m[x].file # NoFile
  BY <1>6, <1>8, FatAssumption
<1>10. directory[m[x].file].first = x
  BY <1>1, <1>4, <1>8, <1>9 DEF RootNamed, Quiet, Founding, InDirectory
<1> QED
  BY <1>6, <1>8, <1>10
-----------------------------------------------------------------------------
\* What the chains need: the inodes, and the map.
ChainInv == Base /\ InodeKept /\ Chained

\* The invariant of the chains holds in every reachable state.
LEMMA ChainInvAlways == AllSpec => []ChainInv
<1>1. AllInit => ChainInv
  BY BaseInit, InodeInit, ChainedInit DEF AllInit, ChainInv
<1>2. ASSUME ChainInv, [AllNext]_allVars PROVE ChainInv'
  <2>1. [Next]_vars
    BY <1>2 DEF AllNext, FilesNext, NamesNext, allVars
  <2> QED
    BY <1>2, <2>1, BaseStep, InodeStep, ChainedStep DEF ChainInv
<1> QED
  BY <1>1, <1>2, PTL DEF AllSpec

\* The chains of the files are apart whatever tasks do with them, unless two allocations
\* run at once, a write goes off its chain or the machine stops in an allocation; they end,
\* and between calls nothing is lost but by stale inodes (FAT32_write, fat32.c:106, 224, 559).
THEOREM ChainsStaySound == AllSpec => []ChainsSound
<1>1. ChainInv => ChainsSound
  BY ApartOnce, EndOnce, NothingLostOnce DEF ChainInv, ChainsSound
<1> QED
  BY <1>1, ChainInvAlways, PTL

\* Where a write that is at its data goes.
LEMMA StoresTo ==
  ASSUME Base, Clear, NEW m \in Owners, Mapped(m), NEW t \in Task, call[t].at = "store",
         call[t].sector # 0
  PROVE  /\ call[t].sector \in Cluster /\ m[call[t].sector].file = handle[t].file
         /\ m[call[t].sector].root = handle[t].first /\ call[t].op = "write"
         /\ Spared({"twice"}) => table[1][call[t].sector] # 0 /\ Rooted(m)
<1>1. call[t].op = "write"
  BY DEF Base, Shapes, Shape
<1>2. Placed(m, table[1], call[t], handle[t])
  BY DEF Mapped
<1>3. Mine(m, handle[t], call[t].sector)
  BY <1>1, <1>2 DEF Placed
<1>4. Spared({"twice"}) => table[1][call[t].sector] # 0 /\ Rooted(m)
  BY <1>1 DEF Mapped, Kept
<1> QED
  BY <1>1, <1>3, <1>4 DEF Mine

\* A write goes to a cluster of its own file, whatever sector it has kept from the round
\* before and however stale its inode is (FAT32_write, fat32.c:173).
THEOREM OthersStaySpared == AllSpec => OthersSpared
<1>1. ASSUME ChainInv, NEW t \in Task, Store(t), Clear
      PROVE  /\ Spared({"twice"}) => call[t].sector \in {0} \cup Chain(handle[t].first)
             /\ \A g \in File \ {handle[t].file} :
                  call[t].sector \notin Chain(directory[g].first)
  <2>1. PICK m \in Owners : Mapped(m)
    BY <1>1 DEF ChainInv, Chained
  <2>2. call[t].at = "store"
    BY <1>1 DEF Store, Step
  <2>3. CASE call[t].sector = 0
    BY <2>3, Constants DEF Chain
  <2>4. CASE call[t].sector # 0
    <3>1. PICK x : x = call[t].sector
      OBVIOUS
    <3>2. /\ x \in Cluster /\ m[x].file = handle[t].file /\ m[x].root = handle[t].first
          /\ Spared({"twice"}) => table[1][x] # 0 /\ Rooted(m)
      BY <1>1, <2>1, <2>2, <2>4, <3>1, StoresTo DEF ChainInv
    <3>3. Spared({"twice"}) => x \in Chain(handle[t].first)
      BY <1>1, <2>1, <3>2, ChainHas DEF ChainInv
    <3>4. ASSUME NEW g \in File \ {handle[t].file}, x \in Chain(directory[g].first) PROVE FALSE
      <4>1. StartsAt(m, g, directory[g].first)
        BY <2>1 DEF Mapped, Starts
      <4>2. m[x].file = g
        BY <2>1, <3>4, <4>1, ChainOwned
      <4> QED
        BY <3>2, <4>2
    <3> QED
      BY <3>1, <3>3, <3>4
  <2> QED
    BY <2>3, <2>4
<1>2. ChainInv /\ [AllNext]_allVars =>
        [\A t \in Task :
           Store(t) /\ Spared({"table", "edge", "torn"}) =>
             /\ Spared({"twice"}) => call[t].sector \in {0} \cup Chain(handle[t].first)
             /\ \A g \in File \ {handle[t].file} :
                  call[t].sector \notin Chain(directory[g].first)]_vars
  BY <1>1 DEF Clear
<1> QED
  BY <1>2, ChainInvAlways, PTL DEF AllSpec, OthersSpared

\* As long as a write has not allocated, what it writes in the middle of a cluster goes to
\* the cluster of its position (FAT32_write, fat32.c:151).
THEOREM RightPlaceKept == AllSpec => RightPlace
<1>1. ASSUME ChainInv, NEW t \in Task, Store(t), ~call[t].flags, Offset(t) # 0,
             Spared({"table", "twice", "edge", "torn"})
      PROVE  call[t].sector = Nth(handle[t].first, Index(t))
  <2>1. Clear /\ Spared({"twice"})
    BY <1>1 DEF Clear, Spared
  <2>2. PICK m \in Owners : Mapped(m)
    BY <1>1, <2>1 DEF ChainInv, Chained
  <2>3. call[t].at = "store"
    BY <1>1 DEF Store, Step
  <2>4. Aligned(m, call[t], handle[t]) /\ call[t].op = "write"
    BY <1>1, <2>2, <2>3 DEF Mapped, ChainInv, Base, Shapes, Shape
  <2>5. call[t].sector # 0 /\ m[call[t].sector].depth = Index(t)
    BY <1>1, <2>3, <2>4 DEF Aligned, Offset, Index
  <2>6. PICK x : x = call[t].sector
    OBVIOUS
  <2>7. x \in Cluster /\ m[x].root = handle[t].first /\ table[1][x] # 0 /\ Rooted(m)
    BY <1>1, <2>1, <2>2, <2>3, <2>5, <2>6, StoresTo DEF ChainInv
  <2>8. Nth(m[x].root, m[x].depth) = x
    BY <1>1, <2>2, <2>7, ChainHas DEF ChainInv
  <2> QED
    BY <2>5, <2>6, <2>7, <2>8
<1>2. ChainInv /\ [AllNext]_allVars =>
        [\A t \in Task :
           Store(t) /\ ~call[t].flags /\ Offset(t) # 0 /\
           Spared({"table", "twice", "edge", "torn"}) =>
             call[t].sector = Nth(handle[t].first, Index(t))]_vars
  BY <1>1
<1> QED
  BY <1>2, ChainInvAlways, PTL DEF AllSpec, RightPlace

-----------------------------------------------------------------------------
\* The disk has what the tasks work with: the copies of the table agree, after a call the
\* directory has the inode's size and first cluster, positions are inside their files.
THEOREM DiskStaysAgreed == AllSpec => []DiskAgrees
<1> DEFINE Inv == Base /\ CopiesKept /\ LengthKept /\ InodeKept
<1>1. AllInit => Inv
  BY BaseInit, CopiesInit, LengthInit, InodeInit DEF AllInit
<1>2. ASSUME Inv, [AllNext]_allVars PROVE Inv'
  <2>1. [Next]_vars
    BY <1>2 DEF AllNext, FilesNext, NamesNext, allVars
  <2> QED
    BY <1>2, <2>1, BaseStep, CopiesStep, LengthStep, InodeStep
<1>3. ASSUME Inv PROVE DiskAgrees
  <2>1. TypeOK /\ CopiesAgree
    BY <1>3 DEF Base, CopiesKept, CopiesAgree, Spared
  <2>2. SizeOnDisk
    <3>1. SUFFICES ASSUME Spared({"directory", "twice"}), NEW t \in Task, call[t].at = "out",
                          IsOpen(t), handle[t].mode = "plain"
                   PROVE  directory[handle[t].file] = [size |-> handle[t].size, first |-> handle[t].first]
      BY DEF SizeOnDisk
    <3>2. PICK h \in Handles : h = handle[t]
      BY <2>1 DEF TypeOK
    <3>3. h.file \in File
      BY <3>1, <3>2, HandleFields DEF IsOpen
    <3>4. PICK e \in [size : Nat, first : Entry] : e = directory[h.file]
      BY <2>1, <3>3 DEF TypeOK, Directory
    <3>5. e.size = h.size /\ e.first = h.first
      BY <1>3, <3>1, <3>2, <3>4 DEF InodeKept, Inodes, InDirectory, IsOpen
    <3>6. e = [size |-> h.size, first |-> h.first]
      BY <3>5
    <3> QED
      BY <3>2, <3>4, <3>6
  <2>3. WithinFile
    BY <1>3 DEF LengthKept, Lengths, WithinFile
  <2> QED
    BY <2>1, <2>2, <2>3 DEF DiskAgrees
<1> QED
  BY <1>1, <1>2, <1>3, PTL DEF AllSpec
=============================================================================
