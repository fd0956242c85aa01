------------------------------- MODULE Lookup -------------------------------
(***************************************************************************)
(* The names of the FAT32 volume: path_walk (vfs.c) splits a path and has  *)
(* FAT32_lookup search each component in the directory the one before it   *)
(* led to, a cluster a step, for each cluster is a transfer the task       *)
(* sleeps in.  Nothing in the code creates, renames or removes an entry,   *)
(* and no walk looks at the dentries that others have made, so that one    *)
(* task's walks are all there is.                                          *)
(*                                                                         *)
(* An entry is a record.  kind "long" holds `chars`, Long characters of    *)
(* the name of the entry behind it; `order` and `sum` say which and whose, *)
(* and the code does not look at them.  kind "file" and "dir" hold `base`  *)
(* and `ext`, filled up with blanks, `lower`, which of the two are shown   *)
(* in lower case, and `first`.  live is FALSE for a free entry.            *)
(***************************************************************************)
EXTENDS Integers, Sequences, SequencesExt, FiniteSetsExt

CONSTANTS Base, Ext, Long, \* the characters of each kind of entry: 8, 3, 13
          PerCluster,      \* the entries of a cluster
          Lower,           \* the letters: each capital's small one
          Others,          \* bytes behind a name that is not read to its end
          Volumes,         \* what the disk may hold: [chain, entries]
          Root,            \* the first cluster of the root directory
          Paths,           \* the paths that are asked for
          MaxDentries      \* bound: the dentries
LookupAssumption ==
  /\ {Base, Ext, Long, PerCluster, MaxDentries} \subseteq Nat \ {0}
  /\ \A v \in Volumes : Root \in DOMAIN v.chain

VARIABLES
  volume,   \* the disk: the clusters of each directory and file, and their entries
  dentries, \* the dentries with their index nodes; the first is root_sb->root
  walk      \* the call of path_walk
vars == <<volume, dentries, walk>>

Null == 0
Free == [kind |-> "file", live |-> FALSE]
Clusters == DOMAIN volume.entries
-----------------------------------------------------------------------------
\* Paths are sequences of characters.  The slashes in front are passed over, and
\* the component ends at the next.
Leading(path) ==
  Min({k \in 1 .. Len(path) + 1 : k > Len(path) \/ path[k] # "/"})
SkipSlashes(path) == SubSeq(path, Leading(path), Len(path))
ComponentEnd(path) ==
  Min({k \in 1 .. Len(path) + 1 : k > Len(path) \/ path[k] = "/"}) - 1
Component(path) == SubSeq(path, 1, ComponentEnd(path))
Rest(path) == SkipSlashes(SubSeq(path, ComponentEnd(path) + 1, Len(path)))

\* Where the components of a path begin.
Starts(path) == {k \in 1 .. Len(path) : path[k] # "/" /\ (k > 1 => path[k - 1] = "/")}

\* The bytes of a name: it is copied to zeroed memory, one byte longer, and what is
\* behind that is anything.
ByteAt(name, j, beyond) ==
  IF j <= Len(name) THEN name[j] ELSE IF j = Len(name) + 1 THEN "nul" ELSE beyond

-----------------------------------------------------------------------------
\* Mutant: the end of the name is not compared.
ChunkBegins(chars, name, k) ==
  \A x \in 1 .. Long :
    LET j == (k - 1) * Long + x
    IN  j <= Len(name) => chars[x] = name[j]

\* The k-th long entry before a short one holds the k-th part of the name: its
\* characters, one 0, and 0xffff behind it.
ChunkFits(chars, name, k) ==
  \A x \in 1 .. Long :
    LET j == (k - 1) * Long + x
    IN  chars[x] = IF j <= Len(name) THEN name[j]
                   ELSE IF j = Len(name) + 1 THEN "nul" ELSE "pad"

\* The long entries before buff[i], as many as the name needs; whose they are is not
\* looked at.  "fails" goes on with the next entry, "short" with the short name.
LongCompare(buff, i, name) ==
  LET needed == (Len(name) + Long - 1) \div Long
      There(k) == i > k /\ buff[i - k].kind = "long" /\ buff[i - k].live
      reached == {k \in 1 .. needed : \A l \in 1 .. k : There(l)}
  IN  IF \E k \in reached : ~ChunkFits(buff[i - k].chars, name, k) THEN "fails"
      ELSE IF reached = 1 .. needed THEN "found" ELSE "short"

Alphanumeric == DOMAIN Lower \cup {Lower[c] : c \in DOMAIN Lower}
Shown(c, low) == IF low /\ c \in DOMAIN Lower THEN Lower[c] ELSE c

\* One character of the base name, with the j-th of the name: the j to go on with, or
\* Null.  A character that is no letter, digit or blank is passed over.
BaseChar(entry, c, name, j, beyond) ==
  LET byte == ByteAt(name, j, beyond)
  IN  IF c = " " /\ entry.kind = "file"
      THEN IF byte = "." THEN j ELSE IF byte = " " THEN j + 1 ELSE Null
      ELSE IF c = " "
      THEN IF j = Len(name) + 1 THEN j
           ELSE IF j <= Len(name) /\ byte = " " THEN j + 1 ELSE Null
      ELSE IF c \in Alphanumeric
      THEN IF j <= Len(name) /\ byte = Shown(c, "base" \in entry.lower)
           THEN j + 1 ELSE Null
      ELSE j + 1

BaseCompare(entry, name, beyond) ==
  LET after[x \in 0 .. Base] ==
        IF x = 0 THEN 1
        ELSE IF after[x - 1] = Null THEN Null
        ELSE BaseChar(entry, entry.base[x], name, after[x - 1], beyond)
  IN  after[Base]

\* The extension, behind a character that is passed over; its blanks are compared as
\* well, and where the name ends is not.
ExtCompare(entry, name, j, beyond) ==
  \A x \in 1 .. Ext :
    /\ entry.ext[x] \in Alphanumeric \cup {" "}
    /\ ByteAt(name, j + x, beyond) = Shown(entry.ext[x], "ext" \in entry.lower)

ShortCompare(entry, name, beyond) ==
  LET j == BaseCompare(entry, name, beyond)
  IN  j # Null /\ (entry.kind = "file" => ExtCompare(entry, name, j, beyond))

\* buff[i] is what the name stands for.
Matches(buff, i, name, beyond) ==
  /\ buff[i].kind # "long" /\ buff[i].live
  /\ \/ LongCompare(buff, i, name) = "found"
     \/ LongCompare(buff, i, name) = "short" /\ ShortCompare(buff[i], name, beyond)

-----------------------------------------------------------------------------
Dentry == [name : Seq(UNION {{p[k] : k \in DOMAIN p} : p \in Paths}),
           parent : 0 .. MaxDentries, dir : BOOLEAN,
           first : Clusters \cup {0}, cluster : Clusters \cup {0}, index : 0 .. PerCluster]
Out(path, alone, answer) ==
  [at |-> "out", path |-> path, alone |-> alone, rest |-> <<>>, parent |-> Null,
   cluster |-> 0, answer |-> answer]

TypeOK ==
  /\ \A d \in DOMAIN volume.chain : \A k \in DOMAIN volume.chain[d] : volume.chain[d][k] \in Clusters
  /\ Len(dentries) \in 1 .. MaxDentries
  /\ \A d \in DOMAIN dentries : dentries[d] \in Dentry /\ dentries[d].parent < d
  /\ walk.at \in {"out", "look"} /\ walk.path \in Paths \cup {<<>>}
  /\ {walk.parent, walk.answer} \subseteq 0 .. Len(dentries)
  /\ walk.cluster \in Clusters \cup {0}

Init ==
  /\ volume \in Volumes
  /\ dentries = <<[name |-> <<>>, parent |-> Null, dir |-> TRUE, first |-> Root,
                   cluster |-> 0, index |-> 0]>>
  /\ walk = Out(<<>>, FALSE, 1)

\* The search for the first component of rest in the directory of a dentry; whether
\* that is a directory is not looked at.
Search(path, alone, rest, parent, made) ==
  [at |-> "look", path |-> path, alone |-> alone, rest |-> rest, parent |-> parent,
   cluster |-> made[parent].first, answer |-> Null]

\* A call, with the flag that asks for the parent.
PathWalk(path, alone) ==
  /\ walk.at = "out" /\ Len(dentries) + Cardinality(Starts(path)) <= MaxDentries
  /\ LET rest == SkipSlashes(path)
     IN  walk' = IF rest = <<>> THEN Out(path, alone, 1)
                 ELSE Search(path, alone, rest, 1, dentries)
  /\ UNCHANGED <<volume, dentries>>

\* The cluster's entry in the file allocation table; Null stands for the end mark.
ReadFatEntry(c) ==
  LET Follows(n, d) == \E k \in 2 .. Len(volume.chain[d]) :
        volume.chain[d][k - 1] = c /\ volume.chain[d][k] = n
  IN  IF \E n \in Clusters, d \in DOMAIN volume.chain : Follows(n, d)
      THEN CHOOSE n \in Clusters : \E d \in DOMAIN volume.chain : Follows(n, d)
      ELSE Null

\* What a buffer that the disk has not filled holds: an earlier cluster.
Stale == {volume.entries[c] : c \in Clusters}

\* What a transfer leaves in the buffer.  A file without clusters has cluster 0, and so
\* has the root in a ".." entry: a sector the disk has not, and no error is reported.
Transfer(c) == IF c \in Clusters THEN {volume.entries[c]} ELSE Stale

\* The positions of the entries that fit, in a buffer behind other memory.
Hits(before, content, beyond) ==
  {i \in 1 .. Len(content) :
     Matches(before \o content, Len(before) + i, Component(walk.rest), beyond)}

\* The dentry and the index node of an entry.
Inode(entry, i) ==
  [name |-> Component(walk.rest), parent |-> walk.parent, dir |-> entry.kind = "dir",
   first |-> entry.first, cluster |-> walk.cluster, index |-> i]

\* path_walk behind a successful lookup.
Onward(found) ==
  LET d == Len(found)
  IN  IF Rest(walk.rest) = <<>>
      THEN Out(walk.path, walk.alone, IF walk.alone THEN walk.parent ELSE d)
      ELSE Search(walk.path, walk.alone, Rest(walk.rest), d, found)

\* The lookup reads a cluster that has the name: the first entry that fits is taken.
Found ==
  /\ walk.at = "look"
  /\ \E content \in Transfer(walk.cluster), before \in Stale \cup {<<>>},
        beyond \in Others :
       LET hits == Hits(before, content, beyond)
           found == Append(dentries, Inode(content[Min(hits)], Min(hits)))
       IN  /\ hits # {}
           /\ dentries' = found
           /\ walk' = Onward(found)
  /\ UNCHANGED volume

\* Mutant: the search ends with the first cluster.
AfterTheFirst(c) == Null

\* The cluster to go on with.
NextCluster(c) == ReadFatEntry(c)

\* It has not: the lookup goes on with the next cluster or gives NULL, and the walk
\* with it.
NotThere ==
  /\ walk.at = "look"
  /\ \E content \in Transfer(walk.cluster), before \in Stale \cup {<<>>},
        beyond \in Others : Hits(before, content, beyond) = {}
  /\ walk' = IF NextCluster(walk.cluster) = Null
             THEN [walk EXCEPT !.at = "out"]
             ELSE [walk EXCEPT !.cluster = NextCluster(walk.cluster)]
  /\ UNCHANGED <<volume, dentries>>

Next ==
  \/ \E path \in Paths, alone \in BOOLEAN : PathWalk(path, alone)
  \/ Found \/ NotThere
Spec == Init /\ [][Next]_vars
-----------------------------------------------------------------------------
\* What a directory means, by the rules of the file system: its entries in the order
\* of its clusters, and the names of each.
Directory(d) ==
  [m \in 1 .. Len(volume.chain[d]) * PerCluster |->
     volume.entries[volume.chain[d][((m - 1) \div PerCluster) + 1]]
                   [((m - 1) % PerCluster) + 1]]
Place(d, m) == <<volume.chain[d][((m - 1) \div PerCluster) + 1], ((m - 1) % PerCluster) + 1>>
Named(d) == {m \in DOMAIN Directory(d) :
               Directory(d)[m].live /\ Directory(d)[m].kind # "long"}

\* The long entries of an entry are those before it that are in order, to the one that
\* is marked as the last, and have its check sum.
Parts(d, m) ==
  LET f == Directory(d)
      Whole(n) == /\ \A k \in 1 .. n : /\ f[m - k].kind = "long" /\ f[m - k].live
                                       /\ f[m - k].order = k
                                       /\ f[m - k].sum = <<f[m].base, f[m].ext>>
                  /\ f[m - n].last
      whole == {n \in 1 .. m - 1 : Whole(n)}
  IN  IF whole = {} THEN 0 ELSE Min(whole)
LongName(d, m) ==
  LET Part(k) == Directory(d)[m - k].chars
      chars == FlattenSeq([k \in 1 .. Parts(d, m) |-> Part(k)])
  IN  SelectSeq(chars, LAMBDA c : c \notin {"nul", "pad"})
ShortName(e) ==
  LET Text(chars, part) == [k \in DOMAIN SelectSeq(chars, LAMBDA c : c # " ") |->
                              Shown(chars[k], part \in e.lower)]
  IN  Text(e.base, "base")
        \o (IF Text(e.ext, "ext") = <<>> THEN <<>> ELSE <<".">> \o Text(e.ext, "ext"))

\* The entry before these, in the same cluster, is no long entry.
Apart(d, m) ==
  /\ (m - 1) % PerCluster > Parts(d, m)
  /\ LET e == Directory(d)[m - Parts(d, m) - 1] IN ~(e.kind = "long" /\ e.live)
Ordinary(chars) == \A k \in DOMAIN chars : chars[k] \in Alphanumeric \cup {" "}

\* The newest dentry (they never change), the directory it comes from and where it is in
\* this.
newest == dentries[Len(dentries)]
Home == dentries[newest.parent].first
FoundIn == Len(dentries) > 1 /\ dentries[newest.parent].dir /\ Home \in DOMAIN volume.chain
FoundAt == {m \in DOMAIN Directory(Home) : Place(Home, m) = <<newest.cluster, newest.index>>}

\* Each index node says where its own entry is, which is what write_inode goes by: a
\* live entry of the directory, with its first cluster (fat32.c:567).
HomeAgrees == FoundIn =>
  \E m \in FoundAt \cap Named(Home) :
    /\ Directory(Home)[m].first = newest.first
    /\ (Directory(Home)[m].kind = "dir") = newest.dir

\* A long name that is all in one cluster, with no other's parts before it, stands for
\* its whole self, or for a beginning of it that fills its entries (fat32.c:373).
LongNamesExact == FoundIn =>
  \A m \in FoundAt :
    Parts(Home, m) > 0 /\ Apart(Home, m) =>
      \/ newest.name = LongName(Home, m)
      \/ Len(newest.name) % Long = 0 /\ IsPrefix(newest.name, LongName(Home, m))

\* An entry with a short name only, of letters and digits and with room left in the
\* base, is found by this name, to which a file's may have something added
\* (fat32.c:394, fat32.c:484).
ShortNamesMeant == FoundIn =>
  \A m \in FoundAt :
    LET e == Directory(Home)[m]
    IN  Parts(Home, m) = 0 /\ Apart(Home, m) /\ Ordinary(e.base) /\ e.base[Base] = " "
        => IF e.kind = "dir" THEN newest.name = ShortName(e)
           ELSE IsPrefix(ShortName(e), newest.name)

\* The lookup that gave NULL was for a name that nothing in the directory has: nothing
\* with that long name in one cluster, and nothing with that short name that is
\* written with letters and digits and, for a file, with a full extension
\* (fat32.c:549, vfs.c:93).
Fits(d, m, name) ==
  LET e == Directory(d)[m]
  IN  \/ /\ Parts(d, m) > 0 /\ (m - 1) % PerCluster >= Parts(d, m)
         /\ name = LongName(d, m)
      \/ /\ Parts(d, m) = 0 /\ Apart(d, m) /\ name = ShortName(e)
         /\ Ordinary(e.base) /\ (e.kind = "file" => e.ext[Ext] # " ")
Failed == /\ walk.at = "out" /\ walk.answer = Null
          /\ dentries[walk.parent].dir
          /\ dentries[walk.parent].first \in DOMAIN volume.chain
Asked == Component(walk.rest)
NotMissed ==
  Failed =>
    \A m \in Named(dentries[walk.parent].first) :
         ~Fits(dentries[walk.parent].first, m, Asked)

\* What a walk gives is spelled by the path, component by component from the root, and
\* is the parent when the flag asks for it (vfs.c:58).
PathSpelled ==
  walk.at = "out" /\ walk.answer # Null =>
    LET spelled[d \in DOMAIN dentries] ==
          IF d = 1 THEN <<>> ELSE Append(spelled[dentries[d].parent], dentries[d].name)
        starts == SetToSortSeq(Starts(walk.path), <)
        From(k) == SubSeq(walk.path, starts[k], Len(walk.path))
        names == [k \in DOMAIN starts |-> Component(From(k))]
    IN  spelled[walk.answer] =
          IF walk.alone /\ names # <<>> THEN Front(names) ELSE names

\* What a lookup gives is what the name stands for, and its index node leads back to
\* its entry (fat32.c:373, 394, 567).
Sound == TypeOK /\ HomeAgrees /\ LongNamesExact /\ ShortNamesMeant
=============================================================================
