------------------------------ MODULE MCVolume ------------------------------
(***************************************************************************)
(* The FAT32 volume: the files, with interchangeable tasks and names, and  *)
(* the search for a name.  `part` says which of the two a behaviour is of; *)
(* when it is the search's turn the files keep their first state, else the *)
(* search's variables hold nothing.  Its volumes have a root directory of  *)
(* up to three things, two characters of a name in a long entry, and a     *)
(* directory below it.                                                     *)
(***************************************************************************)
EXTENDS Fat, Sequences, TLC

EntriesPerCluster == 3
FreeEntry == [kind |-> "file", live |-> FALSE]
Short(kind, base, ext, lower, first) ==
  <<[kind |-> kind, live |-> TRUE, base |-> base, ext |-> ext, lower |-> lower,
     first |-> first]>>
Part(order, last, chars, sum) ==
  <<[kind |-> "long", live |-> TRUE, order |-> order, last |-> last, chars |-> chars,
     sum |-> sum]>>

\* Files with long names: ab, aba and b, whose other names are AB, A_B and _.
ab == Part(1, TRUE, <<"a", "b">>, <<<<"A", "B">>, <<" ">>>>)
        \o Short("file", <<"A", "B">>, <<" ">>, {}, 0)
aba == LET sum == <<<<"A", "_">>, <<"B">>>>
       IN  Part(2, TRUE, <<"a", "nul">>, sum) \o Part(1, FALSE, <<"a", "b">>, sum)
             \o Short("file", <<"A", "_">>, <<"B">>, {}, 7)
b == Part(1, TRUE, <<"b", "nul">>, <<<<"_", " ">>, <<" ">>>>)
       \o Short("file", <<"_", " ">>, <<" ">>, {}, 0)
\* A part that a system without long names left behind, and a file that was removed.
stray == Part(1, TRUE, <<"a", "b">>, <<<<"B", "B">>, <<" ">>>>)
gone == <<FreeEntry, FreeEntry>>
\* Short names only: A.B, a.b, AB, AB.A and the directories A and AB.
AdotB == Short("file", <<"A", " ">>, <<"B">>, {}, 0)
aDotb == Short("file", <<"A", " ">>, <<"B">>, {"base", "ext"}, 7)
AB == Short("file", <<"A", "B">>, <<" ">>, {}, 7)
ABdotA == Short("file", <<"A", "B">>, <<"A">>, {}, 7)
A == Short("dir", <<"A", " ">>, <<" ">>, {}, 5)

dots == Short("dir", <<".", " ">>, <<" ">>, {}, 5)
          \o Short("dir", <<".", ".">>, <<" ">>, {}, 0)

\* n clusters of entries, the last filled up with free ones.
ClustersOf(s, n) ==
  [c \in 1 .. n |-> [i \in 1 .. EntriesPerCluster |->
     LET m == (c - 1) * EntriesPerCluster + i IN IF m <= Len(s) THEN s[m] ELSE FreeEntry]]

\* The root in clusters 2 to 4, the directory A in 5 and 6, the data of a file, which
\* happens to be a directory's, in 7.
VolumeOf(root, below) ==
  [chain |-> [d \in {2, 5, 7} |->
                IF d = 2 THEN <<2, 4, 3>> ELSE IF d = 5 THEN <<5, 6>> ELSE <<7>>],
   entries |-> [c \in 2 .. 7 |->
                  IF c <= 4 THEN ClustersOf(root, 3)[IF c = 2 THEN 1 ELSE 6 - c]
                  ELSE IF c <= 6 THEN ClustersOf(below, 2)[c - 4]
                  ELSE ClustersOf(ab, 1)[1]]]
Things == {ab, aba, b, stray, gone, AdotB, aDotb, AB, ABdotA, A}
SmallVolumes ==
  {VolumeOf(x \o y \o z, dots \o ab) :
     x \in Things, y \in {aba, stray, gone, AdotB}, z \in Things}

SmallPaths ==
  {<<"/">>, <<"/", "a", "b">>, <<"a", "b", "a">>, <<"/", "/", "b", "/">>,
   <<"/", "A", ".", "B">>, <<"a", ".", "b">>, <<"A", "B">>, <<"A">>, <<"a">>,
   <<"A", "B", ".", "A">>, <<"/", "A", "/", "a", "b">>, <<"A", "/", "/", "a", "b", "a">>,
   <<"a", "b", "a", "/", "a", "b">>}
-----------------------------------------------------------------------------
VARIABLES part, volume, dentries, walk

Names == INSTANCE Lookup WITH
  Base <- 2, Ext <- 1, Long <- 2, PerCluster <- EntriesPerCluster,
  Lower <- [c \in {"A", "B"} |-> IF c = "A" THEN "a" ELSE "b"],
  Others <- {"nul", "A"}, Volumes <- SmallVolumes, Root <- 2, Paths <- SmallPaths,
  MaxDentries <- 3
ASSUME Names!LookupAssumption

nameVars == <<volume, dentries, walk>>
allVars == <<part, vars, nameVars>>

Nothing == "nothing"
AllInit ==
  \/ /\ part = "files" /\ Init
     /\ volume = Nothing /\ dentries = Nothing /\ walk = Nothing
  \/ /\ part = "names" /\ Names!Init
     /\ Init /\ directory[CHOOSE f \in File : TRUE].first # 0
FilesNext == part = "files" /\ Next /\ UNCHANGED <<part, nameVars>>
NamesNext == part = "names" /\ Names!Next /\ UNCHANGED <<part, vars>>
AllNext == FilesNext \/ NamesNext
AllSpec == AllInit /\ [][AllNext]_allVars

\* What is found under a name is what has that name, and its index node says where
\* it is: what Lookup says of a name that is found (fat32.c:373, 394, 567).
NamesSound == part = "names" => Names!Sound

\* What has a name is found under it, and a path leads where it says: what Lookup
\* says of walks (fat32.c:549, vfs.c:58).
NamesFound == part = "names" => Names!NotMissed /\ Names!PathSpelled

\* The model goes no further than a race in the table or a write that walked off
\* its chain: behind them the file system promises nothing.
Sane == Spared({"table", "edge"})
Symmetric == Permutations(Task) \cup Permutations(File)
=============================================================================
