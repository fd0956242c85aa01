---------------------------- MODULE MemoryProofs ----------------------------
(***************************************************************************)
(* Proofs about the layers of memory.  For any number of tasks, any zone   *)
(* and any requests: no page is given twice, the counter follows the bits, *)
(* and the search for one page finds it.  For any number of tasks, pages   *)
(* and blocks: the address spaces stay apart and sound.  For any number of *)
(* tasks, pages and objects: what Slab says of kmalloc and kfree.  Its     *)
(* invariant says of every place of a call what it has done to its slab    *)
(* and not yet to the rest, and how far the pointers of the list lead, as  *)
(* an interrupt's kfree may come between.                                  *)
(***************************************************************************)
EXTENDS MCMemory, LinkedListProofs

\* Division by the size of a page, from the definition of the quotient.
LEMMA Division ==
  ASSUME NEW P \in Nat \ {0}, NEW a \in Nat
  PROVE  a \div P \in Nat /\ a % P \in 0 .. P - 1 /\ a = P * (a \div P) + (a % P)
OBVIOUS

\* One more of them is further by a whole one.
LEMMA Further ==
  ASSUME NEW P \in Nat \ {0}, NEW q \in Int, NEW r \in Int, q < r
  PROVE  P * q + P <= P * r
<1>1. P * (r - q) >= P * 1
  <2>1. r - q >= 1
    OBVIOUS
  <2> QED
    BY <2>1
<1> QED
  BY <1>1

\* A number divides in one way.
LEMMA OneWay ==
  ASSUME NEW P \in Nat \ {0}, NEW a \in Nat, NEW q \in Nat, NEW r \in 0 .. P - 1, a = P * q + r
  PROVE  a \div P = q /\ a % P = r
<1>1. a \div P \in Nat /\ a % P \in 0 .. P - 1 /\ a = P * (a \div P) + (a % P)
  BY Division
<1>2. ~(q < a \div P) /\ ~(a \div P < q)
  BY <1>1, Further
<1> QED
  BY <1>1, <1>2

\* Multiples: what they are, their sums, and the next.
LEMMA Multiple ==
  ASSUME NEW P \in Nat \ {0}, NEW a \in Nat, a % P = 0
  PROVE  \E q \in Nat : a = P * q /\ a \div P = q
<1>1. a \div P \in Nat /\ a = P * (a \div P)
  BY Division
<1> QED
  BY <1>1

\* A product divided by one of its factors.
LEMMA IsMultiple ==
  ASSUME NEW P \in Nat \ {0}, NEW q \in Nat
  PROVE  P * q \in Nat /\ (P * q) % P = 0 /\ (P * q) \div P = q
<1>1. PICK a \in Nat : a = P * q
  OBVIOUS
<1>2. a = P * q + 0 /\ 0 \in 0 .. P - 1
  BY <1>1
<1> QED
  BY <1>1, <1>2, OneWay

\* Multiples of P add up to one.
LEMMA SumOfMultiples ==
  ASSUME NEW P \in Nat \ {0}, NEW a \in Nat, NEW b \in Nat, a % P = 0, b % P = 0
  PROVE  (a + b) % P = 0
<1>1. PICK q \in Nat : a = P * q
  BY Multiple
<1>2. PICK r \in Nat : b = P * r
  BY Multiple
<1>3. PICK n \in Nat : n = q + r
  OBVIOUS
<1>4. a + b = P * n
  BY <1>1, <1>2, <1>3
<1> QED
  BY <1>4, IsMultiple

\* Two different multiples of P are at least P apart.
LEMMA NextMultiple ==
  ASSUME NEW P \in Nat \ {0}, NEW a \in Nat, NEW b \in Nat, a % P = 0, b % P = 0, a < b
  PROVE  a + P <= b /\ (a + P) % P = 0
<1>1. PICK q \in Nat : a = P * q
  BY Multiple
<1>2. PICK r \in Nat : b = P * r
  BY Multiple
<1>3. q < r
  <2>1. SUFFICES ASSUME r <= q PROVE FALSE
    OBVIOUS
  <2>2. r = q \/ P * r + P <= P * q
    BY <2>1, Further
  <2> QED
    BY <1>1, <1>2, <2>2
<1>4. P * q + P <= P * r
  BY <1>3, Further
<1>5. a + P = P * (q + 1)
  BY <1>1
<1> QED
  BY <1>1, <1>2, <1>4, <1>5, IsMultiple

\* The page of an address: no later for an earlier address, the same within a page.
LEMMA PagesInOrder ==
  ASSUME NEW P \in Nat \ {0}, NEW a \in Nat, NEW b \in Nat, a <= b
  PROVE  a \div P \in Nat /\ b \div P \in Nat /\ a \div P <= b \div P
<1>1. a \div P \in Nat /\ a % P \in 0 .. P - 1 /\ a = P * (a \div P) + (a % P)
  BY Division
<1>2. b \div P \in Nat /\ b % P \in 0 .. P - 1 /\ b = P * (b \div P) + (b % P)
  BY Division
<1>3. b \div P < a \div P => P * (b \div P) + P <= P * (a \div P)
  BY <1>1, <1>2, Further
<1> QED
  BY <1>1, <1>2, <1>3

\* Addresses inside one page have one page number.
LEMMA WithinPage ==
  ASSUME NEW P \in Nat \ {0}, NEW a \in Nat, a % P = 0, NEW x \in a .. a + P - 1
  PROVE  x \div P = a \div P
<1>1. PICK q \in Nat : a = P * q /\ a \div P = q
  BY Multiple
<1>2. x = P * q + (x - a) /\ x - a \in 0 .. P - 1 /\ x \in Nat
  BY <1>1
<1> QED
  BY <1>1, <1>2, OneWay

-----------------------------------------------------------------------------
\* The pages.

Busy == {"load", "store", "loadCount", "storeCount"}

\* Pages of task t's run that the call has marked.
Marked(t) ==
  {p \in Pages(t) : \/ p < This(t)
                    \/ p = This(t) /\ call[t].at \in {"loadCount", "storeCount"}}

\* A call that searches has begun nothing; one that is past it has a page to do.
Forms ==
  {c \in Calls :
     /\ (c.at \in {"scan", "search"}) =>
          /\ c.job = "take" /\ c.done = 0 /\ c.number > 0
     /\ (c.at \in Busy) =>
          /\ Run(c.page, c.number) \subseteq Zone
          /\ c.done < c.number
          /\ (c.job = "give") => (c.number = 1)}

Typed == TypeOK /\ call \in [Task -> Forms]

\* Nobody owns the pages of a call that is under way, and what it has marked is
\* marked: no interrupt undoes it, for nobody can free what nobody owns.
Unowned(t) ==
  call[t].at \in Busy =>
    /\ \A p \in Pages(t) : owners[p] = 0
    /\ call[t].job = "take" => Marked(t) \cap clear = {}

\* The word that is about to be stored, however old, marks every page that has an
\* owner and every page the call itself has marked.
Stale(t) ==
  call[t].at = "store" =>
    /\ \A p \in call[t].word : owners[p] = 0
    /\ call[t].job = "take" => Marked(t) \cap call[t].word = {}

OwnedOnce == \A p \in Zone : owners[p] > 0 => owners[p] = 1 /\ p \notin clear

Safe ==
  /\ \A t, u \in Task : call[t].at # "out" /\ call[u].at # "out" => t = u
  /\ \A t \in Task : Unowned(t) /\ Stale(t)
  /\ OwnedOnce

IInv == Typed /\ (Alone => Safe)

-----------------------------------------------------------------------------
\* The search returns a page of the zone that begins a run of clear pages.
LEMMA FoundRun ==
  ASSUME NEW n, NEW pages, NEW p \in Found(n, pages)
  PROVE  p \in Zone /\ Run(p, n) \subseteq pages
BY DEF Found, Candidates

\* A call outside the allocator is typed.
LEMMA NoneTyped == None \in Forms
BY PageAssumption DEF None, Forms, Busy, Calls, Places, Zone

\* Where a step of a task goes, and that a step with nobody else inside leaves
\* nobody else inside.
LEMMA StepMoves ==
  ASSUME Typed, NEW t \in Task, NEW from, NEW after \in Forms,
         Step(t, from, after)
  PROVE  /\ call[t].at = from
         /\ call' \in [Task -> Calls] /\ call' \in [Task -> Forms]
         /\ call'[t] = after
         /\ shared' \in BOOLEAN
         /\ Alone' => Alone /\ \A u \in Task : u # t => call'[u].at = "out"
BY DEF Typed, TypeOK, Step, Alone, Forms

\* A call that goes on with the next page of its run is typed.
LEMMA NextPageTyped ==
  ASSUME NEW c \in Forms, c.at = "storeCount", c.done + 1 < c.number
  PROVE  [c EXCEPT !.at = "load", !.done = @ + 1, !.count = 0] \in Forms
<1> DEFINE Moved(n, m) == [c EXCEPT !.at = "load", !.done = n, !.count = m]
<1>1. c \in Calls /\ c.done + 1 \in Nat
  BY DEF Forms, Calls
<1>2. ASSUME NEW n \in Nat, NEW m \in Int
      PROVE  Moved(n, m) \in Calls /\ Moved(n, m).done = n
  BY <1>1 DEF Calls, Places
<1>3. \A n, m : /\ Moved(n, m).at = "load" /\ Moved(n, m).page = c.page
                /\ Moved(n, m).number = c.number /\ Moved(n, m).job = c.job
  BY <1>1 DEF Calls
<1>4. /\ Run(c.page, c.number) \subseteq Zone
      /\ (c.job = "give") => (c.number = 1)
  BY DEF Forms, Busy
<1>5. Moved(c.done + 1, 0) = [c EXCEPT !.at = "load", !.done = @ + 1, !.count = 0]
  OBVIOUS
<1> HIDE DEF Moved
<1>6. Moved(c.done + 1, 0) \in Calls /\ Moved(c.done + 1, 0).done = c.done + 1
  BY <1>1, <1>2
<1>7. Moved(c.done + 1, 0) \in Forms
  BY <1>3, <1>4, <1>6 DEF Forms, Busy
<1> QED
  BY <1>5, <1>7

\* The calls that the steps lead to are typed, one lemma for all of them.
LEMMA AfterTyped ==
  ASSUME Typed, NEW t \in Task
  PROVE
  /\ \A n \in Numbers : [None EXCEPT !.at = "scan", !.number = n] \in Forms
  /\ call[t].at = "scan" =>
       [call[t] EXCEPT !.at = "search", !.word = clear] \in Forms
  /\ call[t].at = "search" => \A p \in Found(call[t].number, clear) :
       [call[t] EXCEPT !.at = "load", !.page = p, !.word = {}] \in Forms
  /\ \A p \in Zone : [None EXCEPT !.at = "load", !.job = "give", !.number = 1,
                                  !.page = p] \in Forms
  /\ call[t].at = "load" =>
       [call[t] EXCEPT !.at = "store", !.word = clear \cap WordOf(This(t))] \in Forms
  /\ call[t].at = "store" =>
       [call[t] EXCEPT !.at = "loadCount", !.word = {}] \in Forms
  /\ call[t].at = "loadCount" =>
       [call[t] EXCEPT !.at = "storeCount", !.count = freeCount] \in Forms
  /\ call[t].at = "storeCount" /\ call[t].done + 1 < call[t].number =>
       [call[t] EXCEPT !.at = "load", !.done = @ + 1, !.count = 0] \in Forms
<1> USE DEF Forms, Calls, Places, Busy
<1>0. call[t] \in Forms /\ clear \subseteq Zone /\ freeCount \in Int
  BY DEF Typed, TypeOK
<1>1. ASSUME NEW n \in Numbers
      PROVE  [None EXCEPT !.at = "scan", !.number = n] \in Forms
  <2>1. n \in Nat /\ n > 0
    BY PageAssumption
  <2> QED
    BY <2>1, NoneTyped DEF None
<1>2. ASSUME call[t].at = "search", NEW p \in Found(call[t].number, clear)
      PROVE  [call[t] EXCEPT !.at = "load", !.page = p, !.word = {}] \in Forms
  <2>1. p \in Zone /\ Run(p, call[t].number) \subseteq Zone
    BY <1>0, FoundRun
  <2> QED
    BY <1>0, <1>2, <2>1
<1>3. ASSUME NEW p \in Zone
      PROVE  [None EXCEPT !.at = "load", !.job = "give", !.number = 1, !.page = p]
                \in Forms
  <2>1. Run(p, 1) = {p}
    BY PageAssumption DEF Run, Zone
  <2> DEFINE d == [None EXCEPT !.at = "load", !.job = "give", !.number = 1,
                               !.page = p]
  <2>2. d \in Calls
    BY NoneTyped DEF None
  <2>3. /\ d.at = "load" /\ d.job = "give" /\ d.number = 1 /\ d.page = p
        /\ d.done = 0
    BY DEF None
  <2> HIDE DEF d
  <2>4. d \in Forms
    BY <2>1, <2>2, <2>3
  <2> QED
    BY <2>4 DEF d
<1>4. ASSUME call[t].at = "storeCount", call[t].done + 1 < call[t].number
      PROVE  [call[t] EXCEPT !.at = "load", !.done = @ + 1, !.count = 0] \in Forms
  BY <1>0, <1>4, NextPageTyped
<1>5. call[t].at = "scan" =>
        [call[t] EXCEPT !.at = "search", !.word = clear] \in Forms
  BY <1>0
<1>6. call[t].at = "load" =>
        [call[t] EXCEPT !.at = "store", !.word = clear \cap WordOf(This(t))] \in Forms
  BY <1>0
<1>7. call[t].at = "store" =>
        [call[t] EXCEPT !.at = "loadCount", !.word = {}] \in Forms
  BY <1>0
<1>8. call[t].at = "loadCount" =>
        [call[t] EXCEPT !.at = "storeCount", !.count = freeCount] \in Forms
  BY <1>0
<1> QED
  BY <1>1, <1>2, <1>3, <1>4, <1>5, <1>6, <1>7, <1>8

\* The page a call deals with is one of its run, which is in the zone.
LEMMA ThisInRun ==
  ASSUME Typed, NEW t \in Task, call[t].at \in Busy
  PROVE  This(t) \in Pages(t) /\ Pages(t) \subseteq Zone
<1>1. call[t] \in Forms
  BY DEF Typed
<1>2. call[t].page \in Int /\ call[t].done \in Nat /\ call[t].number \in Nat
  BY <1>1, PageAssumption DEF Forms, Calls, Zone
<1>3. Pages(t) \subseteq Zone /\ call[t].done < call[t].number
  BY <1>1 DEF Forms, Pages
<1>4. This(t) \in Pages(t)
  BY <1>2, <1>3 DEF This, Pages, Run
<1> QED
  BY <1>3, <1>4

\* Every step of a task keeps the types.
LEMMA TaskTyped ==
  ASSUME Typed, NEW t \in Task, TaskStep(t)
  PROVE  Typed'
<1>0. call[t] \in Calls /\ call[t] \in Forms /\ TypeOK
  BY DEF Typed, TypeOK
<1> USE DEF Typed
<1>1. CASE Request(t)
  BY <1>1, AfterTyped, StepMoves DEF Request, TypeOK
<1>2. CASE Look(t)
  <2>1. call[t].at = "scan"
    BY <1>2 DEF Look, Step
  <2> QED
    BY <1>2, <2>1, AfterTyped, StepMoves DEF Look, TypeOK
<1>3. CASE Find(t)
  <2>1. PICK p \in Found(call[t].number, clear) :
          Step(t, "search", [call[t] EXCEPT !.at = "load", !.page = p, !.word = {}])
    BY <1>3 DEF Find
  <2>2. call[t].at = "search"
    BY <2>1 DEF Step
  <2> QED
    BY <1>3, <2>1, <2>2, AfterTyped, StepMoves DEF Find, TypeOK
<1>4. CASE FailCount(t)
  BY <1>4, NoneTyped, StepMoves DEF FailCount, TypeOK
<1>5. CASE FailSearch(t)
  BY <1>5, NoneTyped, StepMoves DEF FailSearch, TypeOK
<1>6. CASE Release(t)
  <2>1. PICK p \in Zone :
          /\ owners[p] > 0
          /\ owners' = [owners EXCEPT ![p] = @ - 1]
          /\ Step(t, "out", [None EXCEPT !.at = "load", !.job = "give",
                                         !.number = 1, !.page = p])
    BY <1>6 DEF Release
  <2>2. owners' \in [Zone -> Nat]
    BY <2>1 DEF TypeOK
  <2> QED
    BY <1>6, <2>1, <2>2, AfterTyped, StepMoves DEF Release, TypeOK
<1>7. CASE Load(t)
  <2>1. call[t].at = "load"
    BY <1>7 DEF Load, Step
  <2> QED
    BY <1>7, <2>1, AfterTyped, StepMoves DEF Load, TypeOK
<1>8. CASE Store(t)
  <2>1. call[t].at = "store"
    BY <1>8 DEF Store, Step
  <2>2. This(t) \in Zone
    BY <2>1, ThisInRun DEF Busy
  <2>3. clear' \subseteq Zone
    BY <1>0, <1>8, <2>2 DEF Store, TypeOK, Calls
  <2> QED
    BY <1>8, <2>1, <2>3, AfterTyped, StepMoves DEF Store, TypeOK
<1>9. CASE LoadCount(t)
  <2>1. call[t].at = "loadCount"
    BY <1>9 DEF LoadCount, Step
  <2> QED
    BY <1>9, <2>1, AfterTyped, StepMoves DEF LoadCount, TypeOK
<1>10. Counted(t) \in Int
  BY <1>0 DEF Counted, Calls
<1>11. CASE StoreCount(t)
  <2>1. call[t].at = "storeCount" /\ call[t].done + 1 < call[t].number
    BY <1>11 DEF StoreCount, Step
  <2> QED
    BY <1>10, <1>11, <2>1, AfterTyped, StepMoves DEF StoreCount, TypeOK
<1>12. CASE Return(t)
  BY <1>10, <1>12, NoneTyped, StepMoves DEF Return, TypeOK
<1> QED
  BY <1>1, <1>2, <1>3, <1>4, <1>5, <1>6, <1>7, <1>8, <1>9, <1>11, <1>12
     DEF TaskStep

\* The interrupt keeps the types, for it frees a page that has an owner.
LEMMA InterruptTyped ==
  ASSUME Typed, InterruptFrees
  PROVE  Typed'
<1>1. PICK p \in Zone : /\ owners[p] > 0
                        /\ owners' = [owners EXCEPT ![p] = @ - 1]
                        /\ clear' = clear \cup {p}
  BY DEF InterruptFrees
<1>2. owners' \in [Zone -> Nat] /\ clear' \subseteq Zone
  BY <1>1 DEF Typed, TypeOK
<1>3. freeCount' = freeCount + 1
  BY DEF InterruptFrees
<1>4. freeCount' \in Int
  BY <1>3 DEF Typed, TypeOK
<1>5. \E places : struck' = struck \cup ({"store", "storeCount"} \cap places)
  BY DEF InterruptFrees
<1>6. struck' \subseteq {"store", "storeCount"}
  BY <1>5 DEF Typed, TypeOK
<1> QED
  BY <1>2, <1>4, <1>6 DEF InterruptFrees, Typed, TypeOK

-----------------------------------------------------------------------------
\* With nobody else inside, what is to show of a step of task t is about t.
LEMMA SafeAfter ==
  ASSUME NEW t \in Task, \A u \in Task : u # t => call'[u].at = "out",
         Unowned(t)', Stale(t)', OwnedOnce'
  PROVE  Safe'
<1>1. ASSUME NEW u \in Task PROVE Unowned(u)' /\ Stale(u)'
  BY DEF Unowned, Stale, Busy
<1>2. \A u, v \in Task : call'[u].at # "out" /\ call'[v].at # "out" => u = v
  OBVIOUS
<1> QED
  BY <1>1, <1>2 DEF Safe

\* A step to a place where nothing is taken or given yet, that leaves the pages.
LEMMA SafeOutside ==
  ASSUME NEW t \in Task, \A u \in Task : u # t => call'[u].at = "out", Safe,
         call'[t].at \in {"out", "scan", "search"},
         UNCHANGED <<clear, owners>>
  PROVE  Safe'
<1>1. Unowned(t)' /\ Stale(t)'
  BY DEF Unowned, Stale, Busy
<1>2. OwnedOnce'
  BY DEF Safe, OwnedOnce
<1> QED
  BY <1>1, <1>2, SafeAfter

\* A clear page has no owner.
LEMMA ClearUnowned ==
  ASSUME Typed, Safe, NEW p \in clear
  PROVE  p \in Zone /\ owners[p] = 0
BY DEF Typed, TypeOK, Safe, OwnedOnce

\* The numbers of a call are integers.
LEMMA CallNumbers ==
  ASSUME Typed, NEW t \in Task
  PROVE  /\ call[t] \in Forms /\ call[t] \in Calls
         /\ call[t].page \in Int /\ call[t].done \in Nat /\ call[t].number \in Nat
         /\ This(t) \in Int
         /\ Pages(t) \subseteq Int
<1>1. call[t] \in Forms /\ call[t] \in Calls
  BY DEF Typed, Forms
<1>2. call[t].page \in Int /\ call[t].done \in Nat /\ call[t].number \in Nat
  BY <1>1, PageAssumption DEF Calls, Zone
<1> QED
  BY <1>1, <1>2 DEF This, Pages, Run

\* alloc_pages chooses a run whose pages are clear, which nobody owns.
LEMMA FindSafe ==
  ASSUME Typed, Safe, NEW t \in Task, Find(t), Alone'
  PROVE  Safe'
<1>1. PICK p \in Found(call[t].number, clear) :
        Step(t, "search", [call[t] EXCEPT !.at = "load", !.page = p, !.word = {}])
  BY DEF Find
<1>2. call[t].at = "search"
  BY <1>1 DEF Step
<1>3. [call[t] EXCEPT !.at = "load", !.page = p, !.word = {}] \in Forms
  BY <1>2, AfterTyped
<1>4. /\ call'[t] = [call[t] EXCEPT !.at = "load", !.page = p, !.word = {}]
      /\ \A u \in Task : u # t => call'[u].at = "out"
  BY <1>1, <1>3, StepMoves
<1>5. /\ call'[t].at = "load" /\ call'[t].page = p
      /\ call'[t].number = call[t].number /\ call'[t].done = 0
  <2>1. call[t] \in Calls /\ call[t].done = 0
    BY <1>2, CallNumbers DEF Forms
  <2> QED
    BY <1>4, <2>1 DEF Calls
<1>6. Pages(t)' \subseteq clear
  BY <1>5, FoundRun DEF Pages
<1>7. Marked(t)' = {}
  <2>1. p \in Int
    BY FoundRun, PageAssumption DEF Zone
  <2> QED
    BY <1>5, <2>1 DEF Marked, Pages, Run, This
<1>8. Unowned(t)' /\ Stale(t)'
  BY <1>5, <1>6, <1>7, ClearUnowned DEF Unowned, Stale, Find
<1>9. OwnedOnce'
  BY DEF Safe, OwnedOnce, Find
<1> QED
  BY <1>4, <1>8, <1>9, SafeAfter

\* free_pages begins with a page that from now on nobody owns.
LEMMA ReleaseSafe ==
  ASSUME Typed, Safe, NEW t \in Task, Release(t), Alone'
  PROVE  Safe'
<1>1. PICK p \in Zone :
        /\ owners[p] > 0
        /\ owners' = [owners EXCEPT ![p] = @ - 1]
        /\ Step(t, "out", [None EXCEPT !.at = "load", !.job = "give",
                                       !.number = 1, !.page = p])
  BY DEF Release
<1>2. [None EXCEPT !.at = "load", !.job = "give", !.number = 1, !.page = p]
        \in Forms
  BY AfterTyped
<1>3. /\ call'[t] = [None EXCEPT !.at = "load", !.job = "give", !.number = 1,
                                 !.page = p]
      /\ \A u \in Task : u # t => call'[u].at = "out"
  BY <1>1, <1>2, StepMoves
<1>4. /\ call'[t].at = "load" /\ call'[t].page = p
      /\ call'[t].number = 1 /\ call'[t].job = "give"
  BY <1>3 DEF None
<1>5. Pages(t)' = {p}
  BY <1>4, PageAssumption DEF Pages, Run, Zone
<1>6. owners[p] = 1 /\ owners'[p] = 0 /\ \A q \in Zone : q # p => owners'[q] = owners[q]
  BY <1>1 DEF Typed, TypeOK, Safe, OwnedOnce
<1>7. Unowned(t)' /\ Stale(t)'
  BY <1>4, <1>5, <1>6 DEF Unowned, Stale
<1>8. OwnedOnce'
  BY <1>6 DEF Safe, OwnedOnce, Release
<1> QED
  BY <1>3, <1>7, <1>8, SafeAfter

\* The word that is loaded marks what bits_map marks.
LEMMA LoadSafe ==
  ASSUME Typed, Safe, NEW t \in Task, Load(t), Alone'
  PROVE  Safe'
<1>1. call[t].at = "load"
  BY DEF Load, Step
<1>2. /\ call'[t] = [call[t] EXCEPT !.at = "store", !.word = clear \cap WordOf(This(t))]
      /\ \A u \in Task : u # t => call'[u].at = "out"
  <2> DEFINE after == [call[t] EXCEPT !.at = "store", !.word = clear \cap WordOf(This(t))]
  <2>1. after \in Forms
    BY <1>1, AfterTyped
  <2>2. Step(t, "load", after)
    BY DEF Load
  <2> HIDE DEF after
  <2>3. call'[t] = after /\ \A u \in Task : u # t => call'[u].at = "out"
    BY <2>1, <2>2, StepMoves
  <2> QED
    BY <2>3 DEF after
<1>3. /\ call'[t].at = "store" /\ call'[t].word \subseteq clear
      /\ call'[t].page = call[t].page /\ call'[t].number = call[t].number
      /\ call'[t].done = call[t].done /\ call'[t].job = call[t].job
  BY <1>2, CallNumbers DEF Calls
<1>4. Pages(t)' = Pages(t) /\ Marked(t)' = Marked(t)
  BY <1>1, <1>3 DEF Pages, Marked, This
<1>5. /\ \A p \in Pages(t) : owners[p] = 0
      /\ call[t].job = "take" => Marked(t) \cap clear = {}
  BY <1>1 DEF Safe, Unowned, Busy
<1>6. Unowned(t)'
  BY <1>3, <1>4, <1>5 DEF Unowned, Load
<1>7. Stale(t)'
  BY <1>3, <1>4, <1>5, ClearUnowned DEF Stale, Load
<1>8. OwnedOnce'
  BY DEF Safe, OwnedOnce, Load
<1> QED
  BY <1>2, <1>6, <1>7, <1>8, SafeAfter

\* The store clears no bit of a page that has an owner, however many pages the
\* interrupt has freed since the word was loaded: it only sets what they cleared.
LEMMA StoreSafe ==
  ASSUME Typed, Safe, NEW t \in Task, Store(t), Alone'
  PROVE  Safe'
<1>1. call[t].at = "store"
  BY DEF Store, Step
<1>2. /\ call'[t] = [call[t] EXCEPT !.at = "loadCount", !.word = {}]
      /\ \A u \in Task : u # t => call'[u].at = "out"
  <2> DEFINE after == [call[t] EXCEPT !.at = "loadCount", !.word = {}]
  <2>1. after \in Forms
    BY <1>1, AfterTyped
  <2>2. Step(t, "store", after)
    BY DEF Store
  <2> HIDE DEF after
  <2>3. call'[t] = after /\ \A u \in Task : u # t => call'[u].at = "out"
    BY <2>1, <2>2, StepMoves
  <2> QED
    BY <2>3 DEF after
<1>3. /\ call'[t].at = "loadCount"
      /\ call'[t].page = call[t].page /\ call'[t].number = call[t].number
      /\ call'[t].done = call[t].done /\ call'[t].job = call[t].job
  BY <1>2, CallNumbers DEF Calls
<1>4. /\ Pages(t)' = Pages(t)
      /\ Marked(t)' \subseteq Marked(t) \cup {This(t)}
  BY <1>1, <1>3 DEF Pages, Marked, This
<1>5. /\ \A p \in Pages(t) : owners[p] = 0
      /\ call[t].job = "take" => Marked(t) \cap clear = {}
  BY <1>1 DEF Safe, Unowned, Busy
<1>6. /\ \A p \in call[t].word : owners[p] = 0
      /\ call[t].job = "take" => Marked(t) \cap call[t].word = {}
  BY <1>1 DEF Safe, Stale
<1>7. This(t) \in Pages(t) /\ This(t) \in Zone
  BY <1>1, ThisInRun DEF Busy
<1>8. /\ clear' \subseteq clear \cup call[t].word \cup {This(t)}
      /\ call[t].job = "take" => This(t) \notin clear'
  BY <1>7 DEF Store, WordOf
<1>9. Unowned(t)'
  BY <1>3, <1>4, <1>5, <1>6, <1>8 DEF Unowned, Store
<1>10. Stale(t)'
  BY <1>3 DEF Stale
<1>11. OwnedOnce'
  BY <1>5, <1>6, <1>7, <1>8 DEF Safe, OwnedOnce, Store
<1> QED
  BY <1>2, <1>9, <1>10, <1>11, SafeAfter

\* Loading the counter changes nothing that is shared.
LEMMA LoadCountSafe ==
  ASSUME Typed, Safe, NEW t \in Task, LoadCount(t), Alone'
  PROVE  Safe'
<1>1. call[t].at = "loadCount"
  BY DEF LoadCount, Step
<1>2. /\ call'[t] = [call[t] EXCEPT !.at = "storeCount", !.count = freeCount]
      /\ \A u \in Task : u # t => call'[u].at = "out"
  <2> DEFINE after == [call[t] EXCEPT !.at = "storeCount", !.count = freeCount]
  <2>1. after \in Forms
    BY <1>1, AfterTyped
  <2>2. Step(t, "loadCount", after)
    BY DEF LoadCount
  <2> HIDE DEF after
  <2>3. call'[t] = after /\ \A u \in Task : u # t => call'[u].at = "out"
    BY <2>1, <2>2, StepMoves
  <2> QED
    BY <2>3 DEF after
<1>3. /\ call'[t].at = "storeCount"
      /\ call'[t].page = call[t].page /\ call'[t].number = call[t].number
      /\ call'[t].done = call[t].done /\ call'[t].job = call[t].job
  BY <1>2, CallNumbers DEF Calls
<1>4. Pages(t)' = Pages(t) /\ Marked(t)' = Marked(t)
  BY <1>1, <1>3 DEF Pages, Marked, This
<1>5. Unowned(t)' /\ Stale(t)'
  BY <1>1, <1>3, <1>4 DEF Safe, Unowned, Stale, Busy, LoadCount
<1>6. OwnedOnce'
  BY DEF Safe, OwnedOnce, LoadCount
<1> QED
  BY <1>2, <1>5, <1>6, SafeAfter

\* The page that is done is one of those that are marked.
LEMMA StoreCountSafe ==
  ASSUME Typed, Safe, NEW t \in Task, StoreCount(t), Alone'
  PROVE  Safe'
<1>1. call[t].at = "storeCount" /\ call[t].done + 1 < call[t].number
  BY DEF StoreCount, Step
<1>2. /\ call'[t] = [call[t] EXCEPT !.at = "load", !.done = @ + 1, !.count = 0]
      /\ \A u \in Task : u # t => call'[u].at = "out"
  <2> DEFINE after == [call[t] EXCEPT !.at = "load", !.done = @ + 1, !.count = 0]
  <2>1. after \in Forms
    BY <1>1, AfterTyped
  <2>2. Step(t, "storeCount", after)
    BY DEF StoreCount
  <2> HIDE DEF after
  <2>3. call'[t] = after /\ \A u \in Task : u # t => call'[u].at = "out"
    BY <2>1, <2>2, StepMoves
  <2> QED
    BY <2>3 DEF after
<1>3. /\ call'[t].at = "load"
      /\ call'[t].page = call[t].page /\ call'[t].number = call[t].number
      /\ call'[t].done = call[t].done + 1 /\ call'[t].job = call[t].job
  BY <1>2, CallNumbers DEF Calls
<1>4. Pages(t)' = Pages(t) /\ This(t)' = This(t) + 1
  BY <1>3, CallNumbers DEF Pages, This
<1>5. Marked(t)' \subseteq Marked(t)
  BY <1>1, <1>3, <1>4, CallNumbers DEF Marked
<1>6. Unowned(t)' /\ Stale(t)'
  BY <1>1, <1>3, <1>4, <1>5 DEF Safe, Unowned, Stale, Busy, StoreCount
<1>7. OwnedOnce'
  BY DEF Safe, OwnedOnce, StoreCount
<1> QED
  BY <1>2, <1>6, <1>7, SafeAfter

\* When alloc_pages returns, each page of its run is marked and had no owner.
LEMMA ReturnSafe ==
  ASSUME Typed, Safe, NEW t \in Task, Return(t), Alone'
  PROVE  Safe'
<1>1. call[t].at = "storeCount" /\ call[t].done + 1 = call[t].number
  BY DEF Return, Step
<1>2. call'[t] = None /\ \A u \in Task : u # t => call'[u].at = "out"
  BY NoneTyped, StepMoves DEF Return
<1>3. Unowned(t)' /\ Stale(t)'
  BY <1>2 DEF Unowned, Stale, Busy, None
<1>4. /\ \A p \in Pages(t) : owners[p] = 0
      /\ call[t].job = "take" => Marked(t) \cap clear = {}
  BY <1>1 DEF Safe, Unowned, Busy
<1>5. Marked(t) = Pages(t)
  BY <1>1, CallNumbers DEF Marked, Pages, Run, This
<1>6. \A p \in Zone : owners'[p] = IF call[t].job = "take" /\ p \in Pages(t)
                                   THEN owners[p] + 1 ELSE owners[p]
  BY DEF Return
<1>7. OwnedOnce'
  BY <1>4, <1>5, <1>6 DEF Safe, OwnedOnce, Return
<1> QED
  BY <1>2, <1>3, <1>7, SafeAfter

\* The interrupt frees a page that has an owner, hence one that no call under way
\* works on and no loaded word holds clear.
LEMMA InterruptSafe ==
  ASSUME Typed, Safe, InterruptFrees
  PROVE  Safe'
<1>1. PICK p \in Zone : /\ owners[p] > 0
                        /\ owners' = [owners EXCEPT ![p] = @ - 1]
                        /\ clear' = clear \cup {p}
  BY DEF InterruptFrees
<1>2. owners[p] = 1 /\ owners'[p] = 0 /\ \A q \in Zone : q # p => owners'[q] = owners[q]
  BY <1>1 DEF Typed, TypeOK, Safe, OwnedOnce
<1>3. call' = call
  BY DEF InterruptFrees
<1>4. ASSUME NEW t \in Task PROVE Unowned(t)' /\ Stale(t)'
  <2>1. Pages(t)' = Pages(t) /\ Marked(t)' = Marked(t) /\ Marked(t) \subseteq Pages(t)
    BY <1>3 DEF Pages, Marked, This
  <2>2. Unowned(t)'
    <3>1. SUFFICES ASSUME call[t].at \in Busy PROVE Unowned(t)'
      BY <1>3 DEF Unowned
    <3>2. Pages(t) \subseteq Zone /\ p \notin Pages(t)
      BY <1>2, <3>1, ThisInRun DEF Safe, Unowned
    <3> QED
      BY <1>1, <1>2, <1>3, <2>1, <3>1, <3>2 DEF Safe, Unowned
  <2>3. Stale(t)'
    <3>1. call[t].word \subseteq Zone
      BY CallNumbers DEF Calls
    <3> QED
      BY <1>2, <1>3, <2>1, <3>1 DEF Safe, Stale
  <2> QED
    BY <2>2, <2>3
<1>5. OwnedOnce'
  BY <1>1, <1>2 DEF Safe, OwnedOnce
<1>6. \A t, u \in Task : call'[t].at # "out" /\ call'[u].at # "out" => t = u
  BY <1>3 DEF Safe
<1> QED
  BY <1>4, <1>5, <1>6 DEF Safe

-----------------------------------------------------------------------------
\* The invariant holds at boot, and every step of Next keeps it.
LEMMA InitIInv == Init => IInv
<1> SUFFICES ASSUME Init PROVE IInv
  OBVIOUS
<1>1. Cardinality(Zone) \in Nat
  BY PageAssumption, FS_Interval DEF Zone
<1>2. Cardinality(Zone) - (BootPage + 1) \in Int
  BY <1>1, PageAssumption
<1>3. \A t \in Task : call[t] = None /\ call[t].at = "out"
  BY DEF Init, None
<1>4. Typed
  BY NoneTyped, <1>2 DEF Init, Typed, TypeOK, Forms
<1>5. Safe
  BY <1>3 DEF Init, Safe, Unowned, Stale, Busy, OwnedOnce
<1> QED
  BY <1>4, <1>5 DEF IInv

\* Every step of a call and of the interrupt keeps the page allocator's invariant.
LEMMA StepIInv == IInv /\ [Next]_vars => IInv'
<1> SUFFICES ASSUME IInv, [Next]_vars PROVE IInv'
  OBVIOUS
<1>0. Typed /\ (Alone => Safe)
  BY DEF IInv
<1>1. CASE UNCHANGED vars
  BY <1>1 DEF vars, IInv, Typed, TypeOK, Alone, Safe, OwnedOnce, Unowned, Stale,
              Marked, Pages, This
<1>2. CASE InterruptFrees
  <2>1. Alone' => Alone
    BY <1>2 DEF InterruptFrees, Alone
  <2> QED
    BY <1>0, <1>2, <2>1, InterruptTyped, InterruptSafe DEF IInv
<1>3. ASSUME NEW t \in Task, TaskStep(t) PROVE IInv'
  <2>1. Typed'
    BY <1>0, <1>3, TaskTyped
  <2>2. ASSUME Alone' PROVE Safe'
    <3>1. Safe
      BY <1>0, <1>3, <2>2 DEF TaskStep, Request, Look, Find, FailCount, FailSearch,
         Release, Load, Store, LoadCount, StoreCount, Return, Step, Alone
    <3>2. CASE Request(t)
      <4>1. PICK n \in Numbers :
              Step(t, "out", [None EXCEPT !.at = "scan", !.number = n])
        BY <3>2 DEF Request
      <4>2. /\ call'[t] = [None EXCEPT !.at = "scan", !.number = n]
            /\ \A u \in Task : u # t => call'[u].at = "out"
        BY <1>0, <2>2, <4>1, AfterTyped, StepMoves
      <4> QED
        BY <3>1, <3>2, <4>2, SafeOutside DEF Request, None
    <3>3. CASE Look(t)
      <4>1. call[t].at = "scan"
        BY <3>3 DEF Look, Step
      <4>2. /\ call'[t] = [call[t] EXCEPT !.at = "search", !.word = clear]
            /\ \A u \in Task : u # t => call'[u].at = "out"
        <5> DEFINE after == [call[t] EXCEPT !.at = "search", !.word = clear]
        <5>1. after \in Forms
          BY <1>0, <4>1, AfterTyped
        <5>2. Step(t, "scan", after)
          BY <3>3 DEF Look
        <5> HIDE DEF after
        <5>3. call'[t] = after /\ \A u \in Task : u # t => call'[u].at = "out"
          BY <1>0, <2>2, <5>1, <5>2, StepMoves
        <5> QED
          BY <5>3 DEF after
      <4>3. call'[t].at = "search"
        BY <1>0, <4>2, CallNumbers DEF Calls
      <4> QED
        BY <3>1, <3>3, <4>2, <4>3, SafeOutside DEF Look
    <3>4. CASE FailCount(t) \/ FailSearch(t)
      <4>1. call'[t] = None /\ \A u \in Task : u # t => call'[u].at = "out"
        BY <1>0, <2>2, <3>4, NoneTyped, StepMoves DEF FailCount, FailSearch
      <4> QED
        BY <3>1, <3>4, <4>1, SafeOutside DEF FailCount, FailSearch, None
    <3> QED
      BY <1>0, <1>3, <2>2, <3>1, <3>2, <3>3, <3>4, FindSafe, ReleaseSafe, LoadSafe,
         StoreSafe, LoadCountSafe, StoreCountSafe, ReturnSafe DEF TaskStep
  <2> QED
    BY <2>1, <2>2 DEF IInv
<1> QED
  BY <1>1, <1>2, <1>3 DEF Next

-----------------------------------------------------------------------------
\* What bits_map says that page_free_count should be, and how far it is from that.
Known == Cardinality(clear) - (IF 0 \in Zone THEN 0 ELSE 1)
Level(n) == /\ BitsSpared => freeCount <= Known + n
            /\ CountSpared => freeCount >= Known + n
Kept(n) == BitsSpared /\ 0 \notin Zone => Cardinality(clear) >= n

\* The counter and the bits during a call: a call that has changed the one and not the
\* other yet; pages enough for what is left of the request, and the one that is kept; what
\* has been loaded, as new as the history says.
Tallied(t) ==
  /\ call[t].at \in {"scan", "search"} => call[t].number \in Numbers
  /\ call[t].at \in {"scan", "search", "load", "store"} => Level(0)
  /\ call[t].at \in {"loadCount", "storeCount"} =>
       Level(IF call[t].job = "take" THEN 1 ELSE -1)
  /\ call[t].at = "scan" \/ call[t].job = "give" => Kept(1)
  /\ call[t].at = "search" => Kept(call[t].number + 1)
  /\ call[t].job = "take" /\ call[t].at \in {"load", "store"} =>
       Kept((call[t].number - call[t].done) + 1)
  /\ call[t].job = "take" /\ call[t].at \in {"loadCount", "storeCount"} =>
       Kept(call[t].number - call[t].done)
  /\ call[t].job = "take" /\ call[t].at \in Busy => Pages(t) \ Marked(t) \subseteq clear
  /\ call[t].job = "give" /\ call[t].at \in {"load", "store"} => This(t) \notin clear
  /\ call[t].at = "store" =>
       /\ call[t].word \subseteq clear
       /\ BitsSpared => call[t].word = clear \cap WordOf(This(t))
       /\ call[t].job = "take" => (Pages(t) \ Marked(t)) \cap WordOf(This(t)) \subseteq call[t].word
  /\ call[t].at = "storeCount" =>
       call[t].count <= freeCount /\ (CountSpared => call[t].count = freeCount)

Counts ==
  /\ Quiet => Level(0) /\ Kept(1)
  /\ \A t \in Task : call[t].at # "out" => Tallied(t)

\* The zone, and any part of it, is a finite set.
LEMMA ZoneFinite ==
  ASSUME NEW S, S \subseteq Zone
  PROVE  IsFiniteSet(S) /\ Cardinality(S) \in Nat
<1>1. FirstPage \in Int /\ EndPage - 1 \in Int
  BY PageAssumption
<1>2. IsFiniteSet(Zone)
  BY <1>1, FS_Interval DEF Zone
<1> QED
  BY <1>2, FS_Subset, FS_CardinalityType

\* With nobody else inside, what is to show of a step of task t is about t.
LEMMA CountsAfter ==
  ASSUME NEW t \in Task, \A u \in Task : u # t => call'[u].at = "out",
         call'[t].at # "out" => Tallied(t)',
         call'[t].at = "out" => Level(0)' /\ Kept(1)'
  PROVE  Counts'
<1>1. Quiet' => Level(0)' /\ Kept(1)'
  BY DEF Quiet
<1>2. \A u \in Task : call'[u].at # "out" => Tallied(u)'
  BY DEF Tallied
<1> QED
  BY <1>1, <1>2 DEF Counts

\* A task that calls when nobody is inside finds the counter where it should be.
LEMMA QuietCall ==
  ASSUME Counts, NEW t \in Task, call[t].at = "out",
         \A u \in Task : u # t => call'[u].at = "out" /\ call'[u] = call[u]
  PROVE  Level(0) /\ Kept(1)
BY DEF Counts, Quiet

\* The others' calls when t makes a step.
LEMMA OthersOut ==
  ASSUME Typed, NEW t \in Task, NEW from, NEW after, Step(t, from, after), Alone'
  PROVE  \A u \in Task : u # t => call'[u].at = "out" /\ call'[u] = call[u]
BY DEF Typed, TypeOK, Step, Alone

\* A request, and the look at the counter that lets it pass.
LEMMA RequestCounts ==
  ASSUME Typed, Counts, NEW t \in Task, Request(t), Alone'
  PROVE  Counts'
<1>1. PICK n \in Numbers : Step(t, "out", [None EXCEPT !.at = "scan", !.number = n])
  BY DEF Request
<1>2. call[t].at = "out" /\ call'[t] = [None EXCEPT !.at = "scan", !.number = n]
  BY <1>1, AfterTyped, StepMoves
<1>3. call'[t].at = "scan" /\ call'[t].job = "take" /\ call'[t].number = n
  BY <1>2 DEF None
<1>4. \A u \in Task : u # t => call'[u].at = "out" /\ call'[u] = call[u]
  BY <1>1, OthersOut
<1>5. Level(0) /\ Kept(1)
  BY <1>2, <1>4, QuietCall
<1>6. Level(0)' /\ Kept(1)'
  BY <1>5 DEF Level, Kept, Known, BitsSpared, CountSpared, Request
<1>7. Tallied(t)'
  BY <1>3, <1>6 DEF Tallied, Busy
<1> QED
  BY <1>3, <1>4, <1>7, CountsAfter

\* The search's first look at the counter and the map changes neither.
LEMMA LookCounts ==
  ASSUME Typed, Counts, NEW t \in Task, Look(t), Alone'
  PROVE  Counts'
<1>1. call[t].at = "scan" /\ call[t] \in Forms /\ call[t].number \in Nat /\ call[t].job = "take"
  BY CallNumbers DEF Look, Step, Forms
<1> DEFINE after == [call[t] EXCEPT !.at = "search", !.word = clear]
<1>2. after \in Forms
  BY <1>1, AfterTyped
<1>3. Step(t, "scan", after)
  BY DEF Look
<1>4. after.at = "search" /\ after.job = "take" /\ after.number = call[t].number
  BY <1>1, CallNumbers DEF Calls
<1> HIDE DEF after
<1>5. call'[t] = after /\ \A u \in Task : u # t => call'[u].at = "out"
  BY <1>2, <1>3, StepMoves
<1>6. Level(0)
  BY <1>1 DEF Counts, Tallied
<1>7. clear \subseteq Zone /\ freeCount \in Int
  BY DEF Typed, TypeOK
<1>8. Cardinality(clear) \in Nat
  BY <1>7, ZoneFinite
<1>9. Kept(call[t].number + 1)
  <2>1. freeCount >= call[t].number
    BY DEF Look, Enough
  <2>2. BitsSpared /\ 0 \notin Zone => freeCount <= Cardinality(clear) - 1
    BY <1>6, <1>8 DEF Level, Known
  <2> QED
    BY <1>1, <1>7, <1>8, <2>1, <2>2 DEF Kept
<1>10. PICK n \in Nat : n = call[t].number + 1
  BY <1>1
<1>11. UNCHANGED <<clear, freeCount, struck>>
  BY DEF Look
<1>12. Level(0)' /\ Kept(n)'
  BY <1>6, <1>9, <1>10, <1>11 DEF Level, Kept, Known, BitsSpared, CountSpared
<1>13. Tallied(t)'
  <2>0. call[t].number \in Numbers /\ call'[t].number = call[t].number
    BY <1>1, <1>4, <1>5 DEF Counts, Tallied
  <2>1. call'[t].at = "search" /\ call'[t].job = "take" /\ call'[t].number + 1 = n
    BY <1>4, <1>5, <1>10
  <2> QED
    BY <1>12, <2>0, <2>1 DEF Tallied, Busy
<1> QED
  BY <1>4, <1>5, <1>13, CountsAfter

\* The search ends with a run that is clear, or fails.
LEMMA FindCounts ==
  ASSUME Typed, Counts, NEW t \in Task, Find(t), Alone'
  PROVE  Counts'
<1>1. PICK p \in Found(call[t].number, clear) :
        Step(t, "search", [call[t] EXCEPT !.at = "load", !.page = p, !.word = {}])
  BY DEF Find
<1>2. call[t].at = "search" /\ call[t] \in Forms /\ call[t] \in Calls
  BY <1>1, CallNumbers DEF Step
<1> DEFINE after == [call[t] EXCEPT !.at = "load", !.page = p, !.word = {}]
<1>3. after \in Forms
  BY <1>2, AfterTyped
<1>4. PICK n \in Nat : n = call[t].number
  BY CallNumbers
<1>5. after.at = "load" /\ after.page = p /\ after.job = "take" /\ after.number = n /\ after.done = 0
  BY <1>2, <1>4 DEF Forms, Calls
<1> HIDE DEF after
<1>6. call'[t] = after /\ \A u \in Task : u # t => call'[u].at = "out"
  BY <1>1, <1>3, StepMoves DEF after
<1>7. UNCHANGED <<clear, freeCount, struck>>
  BY DEF Find
<1>8. Level(0)' /\ Kept(n + 1)'
  <2>1. Level(0) /\ Kept(n + 1)
    BY <1>2, <1>4 DEF Counts, Tallied
  <2> QED
    BY <1>7, <2>1 DEF Level, Kept, Known, BitsSpared, CountSpared
<1>9. Pages(t)' \subseteq clear'
  BY <1>4, <1>5, <1>6, <1>7, FoundRun DEF Pages
<1>10. Tallied(t)'
  <2>1. (n - 0) + 1 = n + 1
    OBVIOUS
  <2> QED
    BY <1>5, <1>6, <1>8, <1>9, <2>1 DEF Tallied
<1> QED
  BY <1>5, <1>6, <1>10, CountsAfter

\* A call that finds too few pages, or no run, changes nothing.
LEMMA FailCounts ==
  ASSUME Typed, Counts, NEW t \in Task, FailCount(t) \/ FailSearch(t), Alone'
  PROVE  Counts'
<1>1. PICK from \in {"scan", "search"} : Step(t, from, None)
  BY DEF FailCount, FailSearch
<1>2. /\ call[t].at \in {"scan", "search"} /\ call'[t].at = "out"
      /\ \A u \in Task : u # t => call'[u].at = "out"
  <2>1. call[t].at = from
    BY <1>1 DEF Step
  <2>2. call'[t] = None /\ \A u \in Task : u # t => call'[u].at = "out"
    BY <1>1, NoneTyped, StepMoves
  <2> QED
    BY <2>1, <2>2 DEF None
<1>3. Level(0) /\ Kept(1)
  <2>1. Level(0)
    BY <1>2 DEF Counts, Tallied
  <2>2. PICK n \in Nat : n = call[t].number
    BY CallNumbers
  <2>3. Kept(1) \/ Kept(n + 1)
    BY <1>2, <2>2 DEF Counts, Tallied
  <2>4. Cardinality(clear) \in Nat
    BY ZoneFinite DEF Typed, TypeOK
  <2> QED
    BY <2>1, <2>2, <2>3, <2>4 DEF Kept
<1>4. Level(0)' /\ Kept(1)'
  BY <1>3 DEF Level, Kept, Known, BitsSpared, CountSpared, FailCount, FailSearch
<1> QED
  BY <1>2, <1>4, CountsAfter

\* free_pages begins.
LEMMA ReleaseCounts ==
  ASSUME Typed, Safe, Counts, NEW t \in Task, Release(t), Alone'
  PROVE  Counts'
<1>1. PICK p \in Zone :
        /\ owners[p] > 0
        /\ Step(t, "out", [None EXCEPT !.at = "load", !.job = "give", !.number = 1, !.page = p])
  BY DEF Release
<1>2. /\ call[t].at = "out"
      /\ call'[t] = [None EXCEPT !.at = "load", !.job = "give", !.number = 1, !.page = p]
  BY <1>1, AfterTyped, StepMoves
<1>3. call'[t].at = "load" /\ call'[t].job = "give" /\ This(t)' = p
  <2>1. p + 0 = p
    BY PageAssumption DEF Zone
  <2> QED
    BY <1>2, <2>1 DEF None, This
<1>4. \A u \in Task : u # t => call'[u].at = "out" /\ call'[u] = call[u]
  BY <1>1, OthersOut
<1>5. Level(0)' /\ Kept(1)'
  <2>1. Level(0) /\ Kept(1)
    BY <1>2, <1>4, QuietCall
  <2> QED
    BY <2>1 DEF Level, Kept, Known, BitsSpared, CountSpared, Release
<1>6. p \notin clear'
  BY <1>1 DEF Safe, OwnedOnce, Release
<1>7. Tallied(t)'
  BY <1>3, <1>5, <1>6 DEF Tallied
<1> QED
  BY <1>3, <1>4, <1>7, CountsAfter

\* A word is loaded: memory is as before.
LEMMA LoadCounts ==
  ASSUME Typed, Counts, NEW t \in Task, Load(t), Alone'
  PROVE  Counts'
<1>1. call[t].at = "load" /\ call[t] \in Calls
  BY CallNumbers DEF Load, Step
<1> DEFINE after == [call[t] EXCEPT !.at = "store", !.word = clear \cap WordOf(This(t))]
<1>2. after \in Forms
  BY <1>1, AfterTyped
<1>3. /\ after.at = "store" /\ after.word = clear \cap WordOf(This(t))
      /\ after.page = call[t].page /\ after.number = call[t].number
      /\ after.done = call[t].done /\ after.job = call[t].job
  BY <1>1 DEF Calls
<1> HIDE DEF after
<1>4. call'[t] = after /\ \A u \in Task : u # t => call'[u].at = "out"
  BY <1>2, StepMoves DEF after, Load
<1>5. Pages(t)' = Pages(t) /\ Marked(t)' = Marked(t) /\ This(t)' = This(t)
  BY <1>1, <1>3, <1>4 DEF Pages, Marked, This
<1>6. UNCHANGED <<clear, freeCount, struck>>
  BY DEF Load
<1>7. PICK n \in Nat, d \in Nat : n = call[t].number /\ d = call[t].done
  BY CallNumbers
<1>8. Tallied(t)
  BY <1>1 DEF Counts
<1>9. /\ Level(0)' /\ (call[t].job = "give" => Kept(1)')
      /\ call[t].job = "take" => Kept((n - d) + 1)'
  <2>1. /\ Level(0) /\ (call[t].job = "give" => Kept(1))
        /\ call[t].job = "take" => Kept((n - d) + 1)
    BY <1>1, <1>7, <1>8 DEF Tallied
  <2> QED
    BY <1>6, <2>1 DEF Level, Kept, Known, BitsSpared, CountSpared
<1>10. /\ call[t].job = "take" => Pages(t) \ Marked(t) \subseteq clear
       /\ call[t].job = "give" => This(t) \notin clear
  BY <1>1, <1>8 DEF Tallied, Busy
<1>11. WordOf(This(t))' = WordOf(This(t))
  BY <1>5 DEF WordOf
<1>12. Tallied(t)'
  BY <1>3, <1>4, <1>5, <1>6, <1>7, <1>9, <1>10, <1>11 DEF Tallied
<1> QED
  BY <1>3, <1>4, <1>12, CountsAfter
\* The store takes the page's bit, or gives it back, and nothing else unless an interrupt
\* has come before it.
LEMMA StoreCounts ==
  ASSUME Typed, Safe, Counts, NEW t \in Task, Store(t), Alone'
  PROVE  Counts'
<1>1. call[t].at = "store" /\ call[t] \in Calls /\ call[t].job \in {"take", "give"}
  BY CallNumbers DEF Store, Step, Calls
<1> DEFINE after == [call[t] EXCEPT !.at = "loadCount", !.word = {}]
<1>2. after \in Forms
  BY <1>1, AfterTyped
<1>3. /\ after.at = "loadCount"
      /\ after.page = call[t].page /\ after.number = call[t].number
      /\ after.done = call[t].done /\ after.job = call[t].job
  BY <1>1 DEF Calls
<1> HIDE DEF after
<1>4. call'[t] = after /\ \A u \in Task : u # t => call'[u].at = "out"
  BY <1>2, StepMoves DEF after, Store
<1>5. Pages(t)' = Pages(t) /\ Marked(t)' = Marked(t) \cup {This(t)}
  <2>1. This(t) \in Pages(t)
    BY <1>1, ThisInRun DEF Busy
  <2> QED
    BY <1>1, <1>3, <1>4, <2>1 DEF Pages, Marked, This
<1>6. UNCHANGED <<freeCount, struck>> /\ freeCount \in Int
  BY DEF Store, Typed, TypeOK
<1>7. PICK n \in Nat, d \in Nat : n = call[t].number /\ d = call[t].done
  BY CallNumbers
<1>8. Tallied(t)
  BY <1>1 DEF Counts
<1> DEFINE W == WordOf(This(t))
<1>9. /\ call[t].word \subseteq clear /\ (BitsSpared => call[t].word = clear \cap W)
      /\ call[t].job = "take" => Pages(t) \ Marked(t) \subseteq clear
      /\ call[t].job = "take" => (Pages(t) \ Marked(t)) \cap W \subseteq call[t].word
      /\ call[t].job = "give" => This(t) \notin clear
      /\ Level(0) /\ (call[t].job = "give" => Kept(1))
      /\ call[t].job = "take" => Kept((n - d) + 1)
  BY <1>1, <1>7, <1>8 DEF Tallied, Busy
<1>10. /\ This(t) \in Zone /\ This(t) \in Pages(t) /\ This(t) \in W /\ This(t) \notin Marked(t)
  <2>1. This(t) \in Pages(t) /\ This(t) \in Zone
    BY <1>1, ThisInRun DEF Busy
  <2>2. This(t) \notin Marked(t)
    BY <1>1, CallNumbers DEF Marked
  <2> QED
    BY <2>1, <2>2 DEF WordOf
<1>11. /\ clear \subseteq Zone /\ IsFiniteSet(clear) /\ Cardinality(clear) \in Nat
       /\ clear' \subseteq Zone /\ IsFiniteSet(clear') /\ Cardinality(clear') \in Nat
  <2>1. clear \subseteq Zone /\ clear' \subseteq Zone
    BY <1>10, <1>1 DEF Typed, TypeOK, Store, Calls
  <2> QED
    BY <2>1, ZoneFinite
<1>12. clear' = (clear \ W) \cup (IF call[t].job = "take" THEN call[t].word \ {This(t)}
                                  ELSE call[t].word \cup {This(t)})
  BY DEF Store
<1>13. CASE call[t].job = "take"
  <2>1. clear' \subseteq clear \ {This(t)} /\ (BitsSpared => clear' = clear \ {This(t)})
    BY <1>9, <1>10, <1>12, <1>13
  <2>2. This(t) \in clear
    BY <1>9, <1>10, <1>13
  <2>3. PICK rest : rest = clear \ {This(t)}
    OBVIOUS
  <2>4. Cardinality(rest) = Cardinality(clear) - 1 /\ IsFiniteSet(rest)
    BY <1>11, <2>2, <2>3, FS_RemoveElement
  <2>5. Cardinality(clear') <= Cardinality(rest)
    BY <2>1, <2>3, <2>4, FS_Subset
  <2>6. /\ Cardinality(clear') <= Cardinality(clear) - 1
        /\ BitsSpared => Cardinality(clear') = Cardinality(clear) - 1
    BY <2>1, <2>3, <2>4, <2>5
  <2>7. Level(1)'
    BY <1>6, <1>9, <1>11, <2>6 DEF Level, Known, BitsSpared, CountSpared
  <2>8. Kept(n - d)'
    BY <1>6, <1>9, <1>11, <1>13, <2>6 DEF Kept, BitsSpared
  <2>9. Pages(t) \ (Marked(t) \cup {This(t)}) \subseteq clear'
    BY <1>9, <1>12, <1>13
  <2>10. Tallied(t)'
    BY <1>3, <1>4, <1>5, <1>7, <1>13, <2>7, <2>8, <2>9 DEF Tallied
  <2> QED
    BY <1>3, <1>4, <2>10, CountsAfter
<1>14. CASE call[t].job = "give"
  <2>1. PICK more : more = clear \cup {This(t)}
    OBVIOUS
  <2>2. clear' \subseteq more /\ (BitsSpared => clear' = more)
    BY <1>9, <1>10, <1>12, <1>14, <2>1
  <2>3. Cardinality(more) = Cardinality(clear) + 1 /\ IsFiniteSet(more)
    BY <1>9, <1>11, <1>14, <2>1, FS_AddElement
  <2>4. Cardinality(clear') <= Cardinality(more)
    BY <2>2, <2>3, FS_Subset
  <2>5. /\ Cardinality(clear') <= Cardinality(clear) + 1
        /\ BitsSpared => Cardinality(clear') = Cardinality(clear) + 1
    BY <2>2, <2>3, <2>4
  <2>6. Level(-1)'
    BY <1>6, <1>9, <1>11, <2>5 DEF Level, Known, BitsSpared, CountSpared
  <2>7. Kept(1)'
    BY <1>6, <1>9, <1>11, <1>14, <2>5 DEF Kept, BitsSpared
  <2>8. Tallied(t)'
    BY <1>3, <1>4, <1>14, <2>6, <2>7 DEF Tallied
  <2> QED
    BY <1>3, <1>4, <2>8, CountsAfter
<1> QED
  BY <1>1, <1>13, <1>14

\* The counter is loaded once all pages are dealt with.
LEMMA LoadCountCounts ==
  ASSUME Typed, Counts, NEW t \in Task, LoadCount(t), Alone'
  PROVE  Counts'
<1>1. call[t].at = "loadCount" /\ call[t] \in Calls /\ freeCount \in Int
  BY CallNumbers DEF LoadCount, Step, Typed, TypeOK
<1> DEFINE after == [call[t] EXCEPT !.at = "storeCount", !.count = freeCount]
<1>2. after \in Forms
  BY <1>1, AfterTyped
<1>3. /\ after.at = "storeCount" /\ after.count = freeCount
      /\ after.page = call[t].page /\ after.number = call[t].number
      /\ after.done = call[t].done /\ after.job = call[t].job
  BY <1>1 DEF Calls
<1> HIDE DEF after
<1>4. call'[t] = after /\ \A u \in Task : u # t => call'[u].at = "out"
  BY <1>2, StepMoves DEF after, LoadCount
<1>5. Pages(t)' = Pages(t) /\ Marked(t)' = Marked(t)
  BY <1>1, <1>3, <1>4 DEF Pages, Marked, This
<1>6. UNCHANGED <<clear, freeCount, struck>>
  BY DEF LoadCount
<1>7. PICK n \in Nat, d \in Nat : n = call[t].number /\ d = call[t].done
  BY CallNumbers
<1>8. Tallied(t)
  BY <1>1 DEF Counts
<1>9. PICK k : k = IF call[t].job = "take" THEN 1 ELSE -1
  OBVIOUS
<1>10. /\ Level(k)' /\ (call[t].job = "give" => Kept(1)')
       /\ call[t].job = "take" => Kept(n - d)'
       /\ call[t].job = "take" => Pages(t) \ Marked(t) \subseteq clear
  <2>1. /\ Level(k) /\ (call[t].job = "give" => Kept(1))
        /\ call[t].job = "take" => Kept(n - d)
        /\ call[t].job = "take" => Pages(t) \ Marked(t) \subseteq clear
    BY <1>1, <1>7, <1>8, <1>9 DEF Tallied, Busy
  <2> QED
    BY <1>6, <2>1 DEF Level, Kept, Known, BitsSpared, CountSpared
<1>11. Tallied(t)'
  BY <1>1, <1>3, <1>4, <1>5, <1>6, <1>7, <1>9, <1>10 DEF Tallied
<1> QED
  BY <1>3, <1>4, <1>11, CountsAfter

\* What is stored in the counter settles it with the bits.
LEMMA Settled ==
  ASSUME Typed, Counts, NEW t \in Task, call[t].at = "storeCount",
         freeCount' = Counted(t), UNCHANGED <<clear, struck>>
  PROVE  Level(0)'
<1>1. call[t] \in Calls /\ freeCount \in Int /\ Tallied(t)
  BY CallNumbers DEF Typed, TypeOK, Counts
<1>2. PICK c \in Int : c = call[t].count /\ c <= freeCount /\ (CountSpared => c = freeCount)
  BY <1>1 DEF Tallied, Calls
<1>3. PICK known \in Int : known = Known
  <2>1. Cardinality(clear) \in Nat
    BY ZoneFinite DEF Typed, TypeOK
  <2> QED
    BY <2>1 DEF Known
<1>4. Level(IF call[t].job = "take" THEN 1 ELSE -1)
  BY <1>1 DEF Tallied
<1>5. Known' = known /\ (BitsSpared' <=> BitsSpared) /\ (CountSpared' <=> CountSpared)
  BY <1>3 DEF Known, BitsSpared, CountSpared
<1>6. CASE call[t].job = "take"
  <2>1. freeCount' = c - 1
    BY <1>2, <1>6 DEF Counted
  <2>2. /\ BitsSpared => freeCount <= known + 1
        /\ CountSpared => freeCount >= known + 1
    BY <1>3, <1>4, <1>6 DEF Level
  <2> QED
    BY <1>1, <1>2, <1>5, <2>1, <2>2 DEF Level
<1>7. CASE call[t].job # "take"
  <2>1. freeCount' = c + 1
    BY <1>2, <1>7 DEF Counted
  <2>2. /\ BitsSpared => freeCount <= known - 1
        /\ CountSpared => freeCount >= known - 1
    BY <1>3, <1>4, <1>7 DEF Level
  <2> QED
    BY <1>1, <1>2, <1>5, <2>1, <2>2 DEF Level
<1> QED
  BY <1>6, <1>7

\* The counter is written back: it is what the map says again, but for what came between.
LEMMA StoreCountCounts ==
  ASSUME Typed, Counts, NEW t \in Task, StoreCount(t), Alone'
  PROVE  Counts'
<1>1. call[t].at = "storeCount" /\ call[t].done + 1 < call[t].number
      /\ call[t] \in Calls /\ call[t] \in Forms
  BY CallNumbers DEF StoreCount, Step
<1>2. call[t].job = "take"
  <2>1. call[t].job \in {"take", "give"} /\ (call[t].job = "give" => call[t].number = 1)
    BY <1>1 DEF Forms, Busy, Calls
  <2> QED
    BY <1>1, <2>1, CallNumbers
<1> DEFINE after == [call[t] EXCEPT !.at = "load", !.done = @ + 1, !.count = 0]
<1>3. after \in Forms
  BY <1>1, AfterTyped
<1>4. /\ after.at = "load" /\ after.page = call[t].page /\ after.number = call[t].number
      /\ after.done = call[t].done + 1 /\ after.job = "take"
  BY <1>1, <1>2 DEF Calls
<1> HIDE DEF after
<1>5. call'[t] = after /\ \A u \in Task : u # t => call'[u].at = "out"
  BY <1>3, StepMoves DEF after, StoreCount
<1>6. UNCHANGED <<clear, struck>> /\ freeCount' = Counted(t)
  BY DEF StoreCount
<1>7. PICK n \in Nat, d \in Nat : n = call[t].number /\ d = call[t].done
  BY CallNumbers
<1>8. Pages(t)' = Pages(t) /\ Marked(t)' = Marked(t)
  <2>1. Pages(t)' = Pages(t) /\ This(t)' = This(t) + 1
    BY <1>4, <1>5, CallNumbers DEF Pages, This
  <2> QED
    BY <1>1, <1>4, <1>5, <2>1, CallNumbers DEF Marked
<1>9. Tallied(t)
  BY <1>1 DEF Counts
<1>10. Kept(n - d)' /\ Pages(t) \ Marked(t) \subseteq clear
  <2>1. Kept(n - d) /\ Pages(t) \ Marked(t) \subseteq clear
    BY <1>1, <1>2, <1>7, <1>9 DEF Tallied, Busy
  <2> QED
    BY <1>6, <2>1 DEF Kept, BitsSpared
<1>11. Level(0)'
  BY <1>1, <1>6, Settled
<1>12. Tallied(t)'
  <2>1. (n - (d + 1)) + 1 = n - d
    OBVIOUS
  <2> QED
    BY <1>4, <1>5, <1>6, <1>7, <1>8, <1>10, <1>11, <2>1 DEF Tallied
<1> QED
  BY <1>4, <1>5, <1>12, CountsAfter

\* A call returns.
LEMMA ReturnCounts ==
  ASSUME Typed, Counts, NEW t \in Task, Return(t), Alone'
  PROVE  Counts'
<1>1. call[t].at = "storeCount" /\ call[t].done + 1 = call[t].number /\ Tallied(t)
  BY DEF Return, Step, Counts
<1>2. call'[t].at = "out" /\ \A u \in Task : u # t => call'[u].at = "out"
  <2>1. call'[t] = None /\ \A u \in Task : u # t => call'[u].at = "out"
    BY NoneTyped, StepMoves DEF Return
  <2> QED
    BY <2>1 DEF None
<1>3. UNCHANGED <<clear, struck>> /\ freeCount' = Counted(t)
  BY DEF Return
<1>4. Level(0)'
  BY <1>1, <1>3, Settled
<1>5. Kept(1)
  <2>1. call[t].job \in {"take", "give"} /\ call[t].number - call[t].done = 1
    BY <1>1, CallNumbers DEF Calls
  <2> QED
    BY <1>1, <2>1 DEF Tallied
<1>6. Kept(1)'
  BY <1>3, <1>5 DEF Kept, BitsSpared
<1> QED
  BY <1>2, <1>4, <1>6, CountsAfter

\* The interrupt changes both by one; what it does to a store is in the history.
LEMMA InterruptCounts ==
  ASSUME Typed, Safe, Counts, InterruptFrees
  PROVE  Counts'
<1>1. PICK p \in Zone : owners[p] > 0 /\ clear' = clear \cup {p}
  BY DEF InterruptFrees
<1>2. p \notin clear
  BY <1>1 DEF Safe, OwnedOnce
<1>3. /\ Cardinality(clear) \in Nat /\ Cardinality(clear') = Cardinality(clear) + 1
      /\ freeCount \in Int /\ freeCount' = freeCount + 1
  <2>1. IsFiniteSet(clear) /\ Cardinality(clear) \in Nat
    BY ZoneFinite DEF Typed, TypeOK
  <2> QED
    BY <1>1, <1>2, <2>1, FS_AddElement DEF InterruptFrees, Typed, TypeOK
<1>4. UNCHANGED call
  BY DEF InterruptFrees
<1>5. /\ BitsSpared' => BitsSpared /\ \A t \in Task : call[t].at # "store"
      /\ CountSpared' => CountSpared /\ \A t \in Task : call[t].at # "storeCount"
  BY DEF InterruptFrees, BitsSpared, CountSpared
<1>6. \A n \in Int : Level(n) => Level(n)'
  BY <1>3, <1>5 DEF Level, Known
<1>7. \A n \in Int : Kept(n) => Kept(n)'
  BY <1>3, <1>5 DEF Kept
<1>8. Quiet' => Level(0)' /\ Kept(1)'
  BY <1>4, <1>6, <1>7 DEF Counts, Quiet
<1>9. ASSUME NEW t \in Task, call[t].at # "out" PROVE Tallied(t)'
  <2>1. Tallied(t)
    BY <1>9 DEF Counts
  <2>2. /\ Pages(t)' = Pages(t) /\ Marked(t)' = Marked(t) /\ This(t)' = This(t)
        /\ WordOf(This(t))' = WordOf(This(t))
    BY <1>4 DEF Pages, Marked, This, WordOf
  <2>3. PICK n \in Nat, d \in Nat : n = call[t].number /\ d = call[t].done
    BY CallNumbers
  <2>4. call[t].at \in {"load", "store"} => This(t) # p
    <3>1. call[t].at \in {"load", "store"} => This(t) \in Pages(t) /\ \A q \in Pages(t) : owners[q] = 0
      BY ThisInRun DEF Busy, Safe, Unowned
    <3> QED
      BY <1>1, <3>1
  <2>5. PICK c : c = call[t]
    OBVIOUS
  <2>6. /\ c.at \in {"scan", "search", "load", "store"} => Level(0)'
        /\ c.at \in {"loadCount", "storeCount"} => Level(IF c.job = "take" THEN 1 ELSE -1)'
        /\ c.at = "scan" \/ c.job = "give" => Kept(1)'
        /\ c.at = "search" => Kept(n + 1)'
        /\ c.job = "take" /\ c.at \in {"load", "store"} => Kept((n - d) + 1)'
        /\ c.job = "take" /\ c.at \in {"loadCount", "storeCount"} => Kept(n - d)'
    BY <1>6, <1>7, <2>1, <2>3, <2>5 DEF Tallied
  <2>7. /\ c.job = "take" /\ c.at \in Busy => Pages(t) \ Marked(t) \subseteq clear'
        /\ c.job = "give" /\ c.at \in {"load", "store"} => This(t) \notin clear'
    BY <1>1, <2>1, <2>4, <2>5 DEF Tallied
  <2>8. c.at = "store" =>
          /\ c.word \subseteq clear' /\ ~BitsSpared'
          /\ c.job = "take" => (Pages(t) \ Marked(t)) \cap WordOf(This(t)) \subseteq c.word
    BY <1>1, <1>5, <2>1, <2>5 DEF Tallied
  <2>9. c.at = "storeCount" => c.count <= freeCount' /\ ~CountSpared'
    <3>1. c.at = "storeCount" => c.count <= freeCount /\ c.count \in Int
      BY <2>1, <2>5, CallNumbers DEF Tallied, Calls
    <3> QED
      BY <1>3, <1>5, <2>5, <3>1
  <2>10. c.at \in {"scan", "search"} => c.number \in Numbers
    BY <2>1, <2>5 DEF Tallied
  <2> QED
    BY <1>4, <2>2, <2>3, <2>5, <2>6, <2>7, <2>8, <2>9, <2>10 DEF Tallied
<1> QED
  BY <1>4, <1>8, <1>9 DEF Counts

\* At boot; for the counter begins as the boot leaves it.
LEMMA CountsBegin ==
  ASSUME Init
  PROVE  Counts
<1>1. /\ FirstPage \in {0, 1} /\ EndPage \in Nat
      /\ BootPage \in Int /\ FirstPage <= BootPage /\ BootPage <= EndPage - FirstPage - 1
  BY PageAssumption
<1>2. clear = (BootPage + 1) .. (EndPage - 1)
  BY <1>1 DEF Init, Zone
<1>3. Cardinality(clear) = EndPage - 1 - BootPage
  <2>1. Cardinality((BootPage + 1) .. (EndPage - 1)) =
          IF BootPage + 1 > EndPage - 1 THEN 0 ELSE (EndPage - 1) - (BootPage + 1) + 1
    BY <1>1, FS_Interval
  <2> QED
    BY <1>1, <1>2, <2>1
<1>4. Cardinality(Zone) = EndPage - FirstPage
  <2>1. Cardinality(FirstPage .. (EndPage - 1)) =
          IF FirstPage > EndPage - 1 THEN 0 ELSE (EndPage - 1) - FirstPage + 1
    BY <1>1, FS_Interval
  <2> QED
    BY <1>1, <2>1 DEF Zone
<1>5. 0 \in Zone <=> FirstPage = 0
  BY <1>1 DEF Zone
<1>6. freeCount = Known
  BY <1>1, <1>3, <1>4, <1>5 DEF Init, Known
<1>7. Level(0) /\ Kept(1)
  BY <1>1, <1>3, <1>5, <1>6 DEF Level, Known, Kept
<1>8. \A t \in Task : call[t].at = "out"
  BY DEF Init, None
<1> QED
  BY <1>7, <1>8 DEF Counts

\* Every step keeps the counters' invariant while one task is in the allocator.
LEMMA CountsStep ==
  ASSUME IInv, Alone => Counts, [Next]_vars, Alone'
  PROVE  Counts'
<1>1. Alone
  BY DEF vars, Next, TaskStep, InterruptFrees, Request, Look, Find, FailCount, FailSearch,
     Release, Load, Store, LoadCount, StoreCount, Return, Step, Alone
<1>2. Typed /\ Safe /\ Counts
  BY <1>1 DEF IInv
<1>3. CASE UNCHANGED vars
  <2>1. UNCHANGED <<clear, freeCount, call, struck>>
    BY <1>3 DEF vars
  <2>2. \A n : (Level(n)' <=> Level(n)) /\ (Kept(n)' <=> Kept(n))
    BY <2>1 DEF Level, Kept, Known, BitsSpared, CountSpared
  <2>3. \A t \in Task : /\ Pages(t)' = Pages(t) /\ Marked(t)' = Marked(t) /\ This(t)' = This(t)
                        /\ WordOf(This(t))' = WordOf(This(t))
    BY <2>1 DEF Pages, Marked, This, WordOf
  <2>4. \A t \in Task : Tallied(t) => Tallied(t)'
    <3>1. TAKE t \in Task
    <3>2. HAVE Tallied(t)
    <3>3. PICK c : c = call[t]
      OBVIOUS
    <3>4. PICK n \in Nat, d \in Nat : n = c.number /\ d = c.done
      BY <1>2, <3>3, CallNumbers
    <3>5. /\ c.at \in {"scan", "search", "load", "store"} => Level(0)'
          /\ c.at \in {"loadCount", "storeCount"} => Level(IF c.job = "take" THEN 1 ELSE -1)'
          /\ c.at = "scan" \/ c.job = "give" => Kept(1)'
          /\ c.at = "search" => Kept(n + 1)'
          /\ c.job = "take" /\ c.at \in {"load", "store"} => Kept((n - d) + 1)'
          /\ c.job = "take" /\ c.at \in {"loadCount", "storeCount"} => Kept(n - d)'
      BY <2>2, <3>2, <3>3, <3>4 DEF Tallied
    <3> QED
      BY <2>1, <2>3, <3>2, <3>3, <3>4, <3>5 DEF Tallied, BitsSpared, CountSpared
  <2>5. (Quiet' <=> Quiet) /\ \A t \in Task : call'[t] = call[t]
    BY <2>1 DEF Quiet
  <2> QED
    BY <1>2, <2>2, <2>4, <2>5 DEF Counts
<1>4. CASE InterruptFrees
  BY <1>2, <1>4, InterruptCounts
<1>5. ASSUME NEW t \in Task, TaskStep(t) PROVE Counts'
  BY <1>2, <1>5, RequestCounts, LookCounts, FindCounts, FailCounts, ReleaseCounts, LoadCounts,
     StoreCounts, LoadCountCounts, StoreCountCounts, ReturnCounts DEF TaskStep
<1> QED
  BY <1>3, <1>4, <1>5 DEF Next

\* What follows for page_free_count and for the page that is kept.
LEMMA CountsKeep ==
  ASSUME IInv, Alone => Counts
  PROVE  PagesCounted
<1>1. CountKept
  <2>1. ASSUME Alone, Quiet PROVE Level(0)
    BY <2>1 DEF Counts
  <2>2. Cardinality(clear) \in Nat
    BY ZoneFinite DEF IInv, Typed, TypeOK
  <2> QED
    BY <2>1, <2>2 DEF CountKept, Level, Known
<1>2. OnePageKept
  <2>1. SUFFICES ASSUME Alone, BitsSpared, 0 \notin Zone, clear = {} PROVE FALSE
    BY DEF OnePageKept
  <2>2. Cardinality(clear) = 0
    BY <2>1, FS_EmptySet
  <2>3. ASSUME NEW n \in Int, n >= 1, Kept(n) PROVE FALSE
    BY <2>1, <2>2, <2>3 DEF Kept
  <2>4. PICK t \in Task : call[t].at # "out" /\ Tallied(t)
    BY <2>1, <2>3 DEF Counts, Quiet
  <2>5. call[t] \in Forms /\ call[t] \in Calls
    BY CallNumbers DEF IInv
  <2>6. PICK n \in Nat, d \in Nat : n = call[t].number /\ d = call[t].done
    BY CallNumbers DEF IInv
  <2>7. call[t].at \in Places /\ call[t].job \in {"take", "give"}
    BY <2>5 DEF Calls
  <2>8. call[t].at \in Busy => d < n
    BY <2>5, <2>6 DEF Forms
  <2>9. Kept(1) \/ Kept(n + 1) \/ (call[t].at \in Busy /\ (Kept((n - d) + 1) \/ Kept(n - d)))
    BY <2>4, <2>6, <2>7 DEF Tallied, Places, Busy
  <2> QED
    BY <2>3, <2>6, <2>8, <2>9
<1> QED
  BY <1>1, <1>2 DEF PagesCounted

-----------------------------------------------------------------------------
\* The search for one page: from the first page of the zone, then from each word.
StartOf(i) == IF i = 0 THEN FirstPage ELSE i * WordBits

\* With requests for one page the search goes from each word to the next one.
LEMMA NextStartOfOne ==
  ASSUME WordBits > 1, NEW i \in Nat \ {0}
  PROVE  NextStart(StartOf(i - 1), 1) = StartOf(i)
<1>1. PICK P \in Nat : P = WordBits /\ P > 1 /\ P \in Nat \ {0}
  BY PageAssumption
<1>2. 1 % P = 1
  BY <1>1, OneWay
<1>3. CASE i = 1
  <2>1. FirstPage = 0 \/ FirstPage = 1
    BY PageAssumption
  <2>2. 0 % P = 0
    <3>1. 0 = P * 0 + 0 /\ 0 \in 0 .. P - 1
      BY <1>1
    <3> QED
      BY <1>1, <3>1, OneWay
  <2> QED
    BY <1>1, <1>2, <1>3, <2>1, <2>2 DEF NextStart, StartOf
<1>4. CASE i > 1
  <2>1. PICK m \in Nat : m = i - 1 /\ m # 0 /\ i = m + 1
    BY <1>4
  <2>2. (m * P) % P = 0 /\ m * P = P * m /\ i * P = P * m + P
    BY <1>1, <2>1, IsMultiple
  <2>3. StartOf(i - 1) = m * P /\ StartOf(i) = i * P
    BY <1>1, <1>4, <2>1 DEF StartOf
  <2>4. NextStart(m * P, 1) = m * P + P
    BY <1>1, <2>2 DEF NextStart
  <2> QED
    BY <2>2, <2>3, <2>4
<1> QED
  BY <1>3, <1>4

\* The values of the loop variable, which are defined by recursion.
LEMMA StartsOfOne ==
  ASSUME WordBits > 1, NEW i \in 0 .. EndPage, StartOf(i) \in 0 .. EndPage
  PROVE  StartOf(i) \in Starts(1)
<1> DEFINE P(f) == f = [k \in 0 .. EndPage |->
                          IF k = 0 THEN FirstPage ELSE NextStart(f[k - 1], 1)]
           g == [k \in 0 .. EndPage |-> StartOf(k)]
           h == CHOOSE f : P(f)
<1>0. EndPage \in Nat
  BY PageAssumption
<1>1. P(g)
  <2>1. \A k \in 0 .. EndPage : StartOf(k) = IF k = 0 THEN FirstPage ELSE NextStart(g[k - 1], 1)
    <3>1. TAKE k \in 0 .. EndPage
    <3>2. CASE k = 0
      BY <3>2 DEF StartOf
    <3>3. CASE k # 0
      <4>1. k - 1 \in 0 .. EndPage /\ k \in Nat \ {0}
        BY <1>0, <3>3
      <4>2. g[k - 1] = StartOf(k - 1)
        BY <4>1
      <4> QED
        BY <3>3, <4>1, <4>2, NextStartOfOne
    <3> QED
      BY <3>2, <3>3
  <2> QED
    BY <2>1
<1>2. P(h)
  BY <1>1
<1>3. \A k \in 0 .. EndPage : h[k] = StartOf(k)
  <2> DEFINE X == {k \in Nat : k \in 0 .. EndPage => h[k] = StartOf(k)}
  <2> HIDE DEF h
  <2>1. 0 \in X
    BY <1>0, <1>2 DEF StartOf
  <2>2. ASSUME NEW k \in X PROVE k + 1 \in X
    <3>1. SUFFICES ASSUME k + 1 \in 0 .. EndPage PROVE h[k + 1] = StartOf(k + 1)
      OBVIOUS
    <3>2. k \in Nat /\ k \in 0 .. EndPage /\ k + 1 \in Nat \ {0} /\ (k + 1) - 1 = k
      BY <1>0, <3>1
    <3>3. h[k + 1] = NextStart(h[k], 1)
      BY <1>2, <3>1, <3>2
    <3>4. h[k] = StartOf(k)
      BY <2>2, <3>2
    <3> QED
      BY <3>2, <3>3, <3>4, NextStartOfOne
  <2> HIDE DEF X
  <2>3. X \in SUBSET Nat
    BY DEF X
  <2>4. X = Nat
    BY <2>1, <2>2, <2>3, SetInduction
  <2> QED
    BY <1>0, <2>4 DEF X
<1>4. Starts(1) = {h[k] : k \in 0 .. EndPage} \cap (0 .. EndPage)
  BY DEF Starts
<1> HIDE DEF h
<1>5. StartOf(i) \in {h[k] : k \in 0 .. EndPage}
  BY <1>3
<1> QED
  BY <1>4, <1>5

\* No page is missed in the search for one.
LEMMA AllAreCandidates ==
  ASSUME 1 \in Numbers
  PROVE  Candidates(1) = Zone
<1>1. PICK P \in Nat : P = WordBits /\ P > 1 /\ P \in Nat \ {0}
  BY PageAssumption
<1>2. FirstPage \in {0, 1} /\ EndPage \in Nat
  BY PageAssumption
<1>3. ASSUME NEW p \in Zone
      PROVE  \E j \in Starts(1) : p >= j /\ p \div WordBits = j \div WordBits
  <2>1. p \in Nat /\ FirstPage <= p /\ p < EndPage
    BY <1>2 DEF Zone
  <2>2. PICK w \in Nat : w = p \div P /\ p % P \in 0 .. P - 1 /\ p = P * w + (p % P)
    BY <1>1, <2>1, Division
  <2>3. CASE w = 0
    <3>1. StartOf(0) = FirstPage /\ FirstPage \in 0 .. EndPage /\ 0 \in 0 .. EndPage
      BY <1>2, <2>1 DEF StartOf
    <3>2. FirstPage \in Starts(1)
      BY <1>1, <3>1, StartsOfOne
    <3>3. FirstPage \in 0 .. P - 1 /\ FirstPage = P * 0 + FirstPage
      BY <1>1, <1>2
    <3>4. FirstPage \div P = 0
      BY <1>1, <1>2, <3>3, OneWay
    <3> QED
      BY <1>1, <2>1, <2>2, <2>3, <3>2, <3>4
  <2>4. CASE w # 0
    <3>1. w <= P * w /\ P * w <= p
      <4>1. P * w >= 1 * w
        BY <1>1
      <4> QED
        BY <2>2, <4>1
    <3>2. w \in 0 .. EndPage /\ P * w \in 0 .. EndPage /\ P * w \in Nat
      BY <1>2, <2>1, <3>1, <1>1, IsMultiple
    <3>3. StartOf(w) = P * w
      <4>1. w * P = P * w
        OBVIOUS
      <4> QED
        BY <1>1, <2>4, <4>1 DEF StartOf
    <3>4. P * w \in Starts(1)
      BY <1>1, <3>2, <3>3, StartsOfOne
    <3>5. (P * w) \div P = w
      BY <1>1, IsMultiple
    <3> QED
      BY <1>1, <2>2, <3>1, <3>4, <3>5
  <2> QED
    BY <2>3, <2>4
<1> QED
  BY <1>3 DEF Candidates

\* A request for one page that fails.
LEMMA FailLeavesOne ==
  ASSUME IInv, Alone => Counts, [Next]_vars, NEW t \in Task, Fails(t), call[t].number = 1,
         Alone', CountSpared
  PROVE  Cardinality(Seen(t)) <= 1
<1>1. /\ call[t].at \in {"scan", "search"} /\ call'[t].at = "out" /\ call' # call
  BY DEF Fails
<1>2. PICK u \in Task : TaskStep(u)
  BY <1>1 DEF Next, vars, InterruptFrees
<1>3. Typed
  BY DEF IInv
<1>4. \A v \in Task \ {u} : call'[v] = call[v]
  BY <1>2, <1>3 DEF TaskStep, Request, Look, Find, FailCount, FailSearch, Release, Load, Store,
     LoadCount, StoreCount, Return, Step, Typed, TypeOK
<1>5. TaskStep(t)
  BY <1>1, <1>2, <1>4
<1>6. Alone
  BY <1>5 DEF TaskStep, Request, Look, Find, FailCount, FailSearch, Release, Load, Store,
     LoadCount, StoreCount, Return, Step, Alone
<1>7. FailCount(t) \/ FailSearch(t)
  <2>1. \/ Look(t) \/ Find(t) \/ FailCount(t) \/ FailSearch(t)
    BY <1>1, <1>5 DEF TaskStep, Request, Look, Find, FailCount, FailSearch, Release, Load, Store,
       LoadCount, StoreCount, Return, Step
  <2>2. ~Look(t)
    <3>1. SUFFICES ASSUME Look(t) PROVE FALSE
      OBVIOUS
    <3>2. call[t].at = "scan"
      BY <3>1 DEF Look, Step
    <3> DEFINE after == [call[t] EXCEPT !.at = "search", !.word = clear]
    <3>3. after \in Forms /\ after.at = "search"
      BY <1>3, <3>2, AfterTyped, CallNumbers DEF Calls
    <3>4. Step(t, "scan", after)
      BY <3>1 DEF Look
    <3> HIDE DEF after
    <3>5. call'[t] = after
      BY <1>3, <3>3, <3>4, StepMoves
    <3> QED
      BY <1>1, <3>3, <3>5
  <2>3. ~Find(t)
    <3>1. SUFFICES ASSUME Find(t) PROVE FALSE
      OBVIOUS
    <3>2. PICK p \in Found(call[t].number, clear) :
            Step(t, "search", [call[t] EXCEPT !.at = "load", !.page = p, !.word = {}])
      BY <3>1 DEF Find
    <3> DEFINE after == [call[t] EXCEPT !.at = "load", !.page = p, !.word = {}]
    <3>3. call[t].at = "search"
      BY <3>2 DEF Step
    <3>4. after \in Forms /\ after.at = "load"
      BY <1>3, <3>3, AfterTyped, CallNumbers DEF Calls
    <3> HIDE DEF after
    <3>5. call'[t] = after
      BY <1>3, <3>2, <3>4, StepMoves DEF after
    <3> QED
      BY <1>1, <3>4, <3>5
  <2> QED
    BY <2>1, <2>2, <2>3
<1>8. CASE FailCount(t)
  <2>1. call[t].at = "scan" /\ ~(freeCount >= 1)
    BY <1>8 DEF FailCount, Step, Enough
  <2>2. Level(0)
    BY <1>6, <2>1 DEF Counts, Tallied
  <2>3. Cardinality(clear) \in Nat /\ freeCount \in Int
    BY <1>3, ZoneFinite DEF Typed, TypeOK
  <2>4. Seen(t) = clear
    BY <2>1 DEF Seen
  <2> QED
    BY <2>1, <2>2, <2>3, <2>4 DEF Level, Known
<1>9. CASE FailSearch(t)
  <2>1. call[t].at = "search" /\ Found(1, call[t].word) = {}
    BY <1>9 DEF FailSearch, Step
  <2>2. 1 \in Numbers
    BY <1>6, <2>1 DEF Counts, Tallied
  <2>3. call[t].word \subseteq Zone
    BY <1>3, CallNumbers DEF Calls
  <2>4. call[t].word = {}
    <3>1. SUFFICES ASSUME NEW p \in call[t].word PROVE FALSE
      OBVIOUS
    <3>2. p \in Candidates(1) /\ Run(p, 1) = {p}
      BY <2>2, <2>3, <3>1, AllAreCandidates, PageAssumption DEF Run, Zone
    <3> QED
      BY <2>1, <3>1, <3>2 DEF Found
  <2> QED
    BY <2>1, <2>4, FS_EmptySet DEF Seen
<1> QED
  BY <1>7, <1>8, <1>9

-----------------------------------------------------------------------------
\* The pages in the runs of the three layers.
CountedToo == IInv /\ (Alone => Counts)

\* The joint invariant of pages and counters holds at the start.
LEMMA CountedTooBegins == AllInit => CountedToo
BY InitIInv, CountsBegin DEF AllInit, CountedToo

\* It is kept by the steps of MCMemory, whatever part they are of.
LEMMA CountedTooKept == CountedToo /\ [AllNext]_allVars => CountedToo' /\ [Next]_vars
<1> SUFFICES ASSUME CountedToo, [AllNext]_allVars PROVE CountedToo' /\ [Next]_vars
  OBVIOUS
<1>1. [Next]_vars
  BY DEF AllNext, PagesNext, SlabsNext, SpacesNext, allVars
<1>2. IInv /\ (Alone => Counts)
  BY DEF CountedToo
<1>3. IInv'
  BY <1>1, <1>2, StepIInv
<1>4. Alone' => Counts'
  BY <1>1, <1>2, CountsStep
<1> QED
  BY <1>1, <1>3, <1>4 DEF CountedToo

\* The types of the allocator's state hold in every state, also when tasks are
\* in the allocator at once; and with one task at a time in alloc_pages and free_pages,
\* and the disk's interrupt freeing pages between any two loads and stores of theirs, no
\* page has two owners and none that has one is marked free (memory.c:259, 655).
THEOREM PagesStaySafe == AllSpec => []PagesSafe
<1>1. CountedToo => PagesSafe
  BY DEF CountedToo, IInv, Typed, Safe, OwnedOnce, NoPageTwice, PagesSafe
<1> QED
  BY <1>1, CountedTooBegins, CountedTooKept, PTL DEF AllSpec

\* Between calls page_free_count is what bits_map says, too high only after an interrupt
\* met the store of a word and too low only after one met the store of the counter; and
\* one page of a zone that begins behind page 0 is never given (memory.c:171, 231, 261).
THEOREM PagesStayCounted == AllSpec => []PagesCounted
<1>1. CountedToo => PagesCounted
  BY CountsKeep DEF CountedToo
<1> QED
  BY <1>1, CountedTooBegins, CountedTooKept, PTL DEF AllSpec

\* The search for one page passes none by, whatever the zone and the length of a word
\* (memory.c:231, 244).
THEOREM SingleFound == AllSpec => SinglePageFound
<1> DEFINE A == \A t \in Task : Fails(t) /\ call[t].number = 1 /\ Alone' /\ CountSpared =>
                                  Cardinality(Seen(t)) <= 1
<1>1. CountedToo /\ [AllNext]_allVars => [A]_vars
  <2>1. SUFFICES ASSUME CountedToo, [AllNext]_allVars PROVE A
    OBVIOUS
  <2>2. IInv /\ (Alone => Counts) /\ [Next]_vars
    BY <2>1, CountedTooKept DEF CountedToo
  <2> QED
    BY <2>2, FailLeavesOne
<1> HIDE DEF A
<1>2. AllSpec => [][A]_vars
  BY <1>1, CountedTooBegins, CountedTooKept, PTL DEF AllSpec
<1> QED
  BY <1>2 DEF SinglePageFound, A

-----------------------------------------------------------------------------
\* The address spaces.
Member == Task \cup {FirstTask}
SpacePlaces == {"out", "start", "test", "brk", "page", "map", "end", "take", "bump", "fault"}
HeapPages == 0 .. MaxHeap \div PageUnits

\* What the variables hold: more than TypeOK says of the calls.
SpaceCalls == [at : SpacePlaces, size : Sizes \cup {0}, arg : 0 .. MaxHeap,
               next : 0 .. MaxHeap, frame : (0 .. Frames - 1) \cup {-1}]
SpacesTyped ==
  /\ space_live \subseteq Member /\ space_raced \subseteq Member
  /\ space_mm \in [Member -> Member]
  /\ space_code \in [Member -> (0 .. Frames - 1) \cup {-1}]
  /\ space_heap \in [Member -> [HeapPages -> {0, -1}]]
  /\ space_endBrk \in [Member -> 0 .. MaxHeap]
  /\ space_taken \subseteq 0 .. Frames - 1 /\ space_wiped \in BOOLEAN
  /\ space_lib \in [Member -> [started : BOOLEAN, used : 0 .. MaxHeap, end : 0 .. MaxHeap]]
  /\ space_blocks \in [Member -> SUBSET [from : 0 .. MaxHeap, size : Sizes]]
  /\ space_call \in [Member -> SpaceCalls]

\* The ends of heaps lie between pages, and a loop of do_brk before its end has a page
\* left to map.
Paged(t) ==
  /\ space_call[t].at \notin {"out", "fault"} => space_call[t].size \in Sizes
  /\ space_call[t].arg % PageUnits = 0
  /\ space_call[t].at \in {"page", "map", "end"} => space_call[t].next % PageUnits = 0
  /\ space_call[t].at = "map" => space_call[t].next < space_call[t].arg
Whole(s) == space_endBrk[s] % PageUnits = 0 /\ space_lib[s].end % PageUnits = 0
OnPages == \A t \in Member : Paged(t) /\ Whole(t)

\* The spaces in use are those of live tasks, and each has a frame of its own.
Spaced ==
  /\ \A t \in Member \ space_live : space_call[t].at = "out"
  /\ \A t \in space_live : space_mm[t] \in space_live
  /\ 0 \in space_taken
  /\ \A s \in space_live : space_mm[s] = s =>
       /\ space_code[s] \in space_taken /\ space_code[s] # 0
       /\ \A r \in space_live : space_mm[r] = r /\ space_code[r] = space_code[s] => r = s
  /\ \A t \in space_live : space_mm[space_mm[t]] = space_mm[t]

\* Before the first page of any heap is mapped there is no heap.
Blank(t) ==
  /\ space_call[t].at \in {"out", "start", "test", "brk", "page", "map", "fault"}
  /\ space_call[t].at \in {"brk", "page"} => space_call[t].arg > 0
  /\ space_call[t].at \in {"page", "map"} => space_call[t].next = 0
NoHeap(s) ==
  /\ space_endBrk[s] = 0 /\ space_lib[s].end = 0 /\ space_lib[s].used = 0
  /\ space_blocks[s] = {} /\ \A p \in HeapPages : space_heap[s][p] = -1
Unwiped == ~space_wiped => \A t \in Member : Blank(t) /\ NoHeap(t)

\* The heap of space s is mapped as far as n.
PageOf(a) == a \div PageUnits
MappedTo(s, n) == \A a \in 0 .. n - 1 : space_heap[s][PageOf(a)] # -1
Inmate(t, s) == t \in space_live /\ space_mm[t] = s /\ space_call[t].at \notin {"out", "fault"}

\* How far the call of a task has come in its space.
CallSound(t, s) ==
  LET c == space_call[t]
      l == space_lib[s]
  IN  /\ c.at = "start" <=> ~l.started
      /\ c.at # "end" => l.end = space_endBrk[s]
      /\ c.at \in {"brk", "page", "map", "end"} => l.end + c.size + Align <= c.arg
      /\ c.at \in {"page", "map"} => c.next <= c.arg /\ MappedTo(s, c.next)
      /\ c.at = "end" => c.next = c.arg /\ space_endBrk[s] = c.arg /\ MappedTo(s, c.arg)
      /\ c.at \in {"take", "bump"} => l.used + c.size + Align <= l.end
      /\ c.at = "bump" => c.next = l.used

\* In a space with one task at a time in malloc the blocks lie below what is used, that
\* below the end, and the pages below the end are mapped.
SpaceSound(s) ==
  LET l == space_lib[s]
  IN  /\ \A t, u \in Member : Inmate(t, s) /\ Inmate(u, s) => t = u
      /\ l.used <= l.end /\ MappedTo(s, l.end)
      /\ \A b \in space_blocks[s] : b.from + b.size + Align <= l.used
      /\ \A b, c \in space_blocks[s] :
           b = c \/ b.from + b.size + Align <= c.from \/ c.from + c.size + Align <= b.from
      /\ ~l.started => l.end = 0
      /\ (\A t \in Member : ~Inmate(t, s)) => l.end = space_endBrk[s]
      /\ \A t \in Member : Inmate(t, s) => CallSound(t, s)
Unraced == \A s \in space_live : space_mm[s] = s /\ s \notin space_raced => SpaceSound(s)

SpacesIInv == SpacesTyped /\ OnPages /\ Spaced /\ Unwiped /\ Unraced
-----------------------------------------------------------------------------
\* PAGE_2M_ALIGN: a multiple, not less than the number.
LEMMA RoundedUp ==
  ASSUME NEW n \in Nat
  PROVE  /\ Spaces!RoundUp(n) \in Nat /\ Spaces!RoundUp(n) >= n
         /\ Spaces!RoundUp(n) % PageUnits = 0
<1>1. PICK P \in Nat \ {0} : P = PageUnits
  BY LayersAssumption DEF Spaces!SpaceAssumption
<1>2. PICK m \in Nat : m = n + P - 1
  BY <1>1
<1>3. PICK q \in Nat : q = m \div P /\ m % P \in 0 .. P - 1 /\ m = P * q + (m % P)
  BY Division
<1>4. Spaces!RoundUp(n) = P * q
  BY <1>1, <1>2, <1>3 DEF Spaces!RoundUp
<1>5. P * q >= n
  BY <1>2, <1>3
<1> QED
  BY <1>1, <1>4, <1>5, IsMultiple
-----------------------------------------------------------------------------
\* The assumption in plain words.
LEMMA SpaceConstants ==
  /\ Frames \in Nat /\ Frames > 1 /\ PageUnits \in Nat \ {0} /\ Align \in Nat
  /\ Sizes \subseteq Nat \ {0} /\ MaxHeap \in Nat /\ FirstTask \in Member
BY LayersAssumption DEF Spaces!SpaceAssumption, Member

\* The pages of a heap.
LEMMA PageThere ==
  ASSUME NEW a \in 0 .. MaxHeap
  PROVE  PageOf(a) \in HeapPages
<1>1. PICK P \in Nat \ {0} : P = PageUnits
  BY SpaceConstants
<1>2. a \in Nat /\ MaxHeap \in Nat /\ a <= MaxHeap
  BY SpaceConstants
<1> QED
  BY <1>1, <1>2, PagesInOrder DEF HeapPages, PageOf

\* All addresses of an aligned page have its page number.
LEMMA SamePage ==
  ASSUME NEW n \in Nat, n % PageUnits = 0, NEW a \in n .. n + PageUnits - 1
  PROVE  PageOf(a) = PageOf(n)
<1>1. PICK P \in Nat \ {0} : P = PageUnits
  BY SpaceConstants
<1> QED
  BY <1>1, WithinPage DEF PageOf

\* Zero is on a page's edge.
LEMMA ZeroIsMultiple == 0 % PageUnits = 0
<1>1. PICK P \in Nat \ {0} : P = PageUnits
  BY SpaceConstants
<1>2. P * 0 = 0
  BY <1>1
<1> QED
  BY <1>1, <1>2, IsMultiple

\* At boot.
LEMMA SpacesBegin ==
  ASSUME Spaces!Init
  PROVE  SpacesIInv
<1>1. /\ space_live = {FirstTask} /\ space_raced = {} /\ space_taken = {0, 1}
      /\ space_wiped = FALSE /\ FirstTask \in Member
      /\ \A t \in Member : /\ space_mm[t] = t
                           /\ space_code[t] = IF t = FirstTask THEN 1 ELSE -1
                           /\ space_endBrk[t] = 0 /\ space_blocks[t] = {}
                           /\ space_call[t] = Spaces!Out
                           /\ \A p \in HeapPages : space_heap[t][p] = -1
                           /\ space_lib[t] = [started |-> FALSE, used |-> 0, end |-> 0]
  BY SpaceConstants DEF Spaces!Init, Member, Spaces!Pages, HeapPages, Spaces!NoFrame
<1>2. /\ Spaces!Out \in SpaceCalls /\ Spaces!Out.at = "out" /\ Spaces!Out.arg = 0
      /\ [started |-> FALSE, used |-> 0, end |-> 0] \in
           [started : BOOLEAN, used : 0 .. MaxHeap, end : 0 .. MaxHeap]
  BY SpaceConstants DEF Spaces!Out, SpaceCalls, SpacePlaces, Spaces!NoFrame
<1>3. SpacesTyped
  <2>1. /\ space_mm \in [Member -> Member]
        /\ space_code \in [Member -> (0 .. Frames - 1) \cup {-1}]
        /\ space_endBrk \in [Member -> 0 .. MaxHeap]
        /\ space_blocks \in [Member -> SUBSET [from : 0 .. MaxHeap, size : Sizes]]
    BY SpaceConstants DEF Spaces!Init, Member, Spaces!NoFrame
  <2>2. space_heap \in [Member -> [HeapPages -> {0, -1}]]
    BY DEF Spaces!Init, Member, Spaces!Pages, HeapPages, Spaces!NoFrame
  <2>3. space_lib \in [Member -> [started : BOOLEAN, used : 0 .. MaxHeap, end : 0 .. MaxHeap]]
    BY <1>2 DEF Spaces!Init, Member
  <2>4. space_call \in [Member -> SpaceCalls]
    BY <1>2 DEF Spaces!Init, Member
  <2>5. space_live \subseteq Member /\ space_raced \subseteq Member /\ space_wiped \in BOOLEAN
        /\ space_taken \subseteq 0 .. Frames - 1
    <3>1. 0 \in 0 .. Frames - 1 /\ 1 \in 0 .. Frames - 1
      BY SpaceConstants
    <3> QED
      BY <1>1, <3>1
  <2> QED
    BY <2>1, <2>2, <2>3, <2>4, <2>5 DEF SpacesTyped
<1>4. OnPages
  BY <1>1, <1>2, ZeroIsMultiple DEF OnPages, Paged, Whole
<1>5. Spaced
  BY <1>1, <1>2 DEF Spaced
<1>6. Unwiped
  BY <1>1, <1>2 DEF Unwiped, Blank, NoHeap
<1>7. Unraced
  <2>1. MappedTo(FirstTask, 0)
    BY DEF MappedTo
  <2>2. \A t, s \in Member : ~Inmate(t, s)
    BY <1>1, <1>2 DEF Inmate
  <2> QED
    BY <1>1, <2>1, <2>2 DEF Unraced, SpaceSound
<1> QED
  BY <1>3, <1>4, <1>5, <1>6, <1>7 DEF SpacesIInv

\* Where a step of a task goes.
LEMMA CallMoves ==
  ASSUME SpacesTyped, NEW t \in Member, NEW c \in SpaceCalls, Spaces!Goes(t, c)
  PROVE  /\ space_call' \in [Member -> SpaceCalls] /\ space_call'[t] = c
         /\ \A u \in Member \ {t} : space_call'[u] = space_call[u]
BY DEF SpacesTyped, Spaces!Goes

\* The space of a live task is one of those in use.
LEMMA HomeOf ==
  ASSUME SpacesIInv, NEW t \in space_live
  PROVE  /\ t \in Member /\ space_mm[t] \in Member /\ space_mm[t] \in space_live
         /\ space_mm[space_mm[t]] = space_mm[t]
BY DEF SpacesIInv, SpacesTyped, Spaced

\* What a step of a task in its own space has to see to.
LEMMA StepKeeps ==
  ASSUME SpacesIInv, NEW t \in space_live, NEW s \in Member, s = space_mm[t],
         UNCHANGED <<space_live, space_mm, space_code>>,
         space_taken \subseteq space_taken', space_raced \subseteq space_raced',
         \A u \in Member \ {t} : space_call'[u] = space_call[u],
         \A r \in Member \ {s} : /\ space_endBrk'[r] = space_endBrk[r]
                                 /\ space_heap'[r] = space_heap[r]
                                 /\ space_lib'[r] = space_lib[r]
                                 /\ space_blocks'[r] = space_blocks[r],
         SpacesTyped', Paged(t)', Whole(s)',
         ~space_wiped' => ~space_wiped /\ Blank(t)' /\ NoHeap(s)',
         s \notin space_raced' => SpaceSound(s)'
  PROVE  SpacesIInv'
<1>1. /\ t \in Member /\ space_live \subseteq Member /\ space_mm \in [Member -> Member]
      /\ s \in space_live /\ space_mm[s] = s
  BY HomeOf DEF SpacesIInv, SpacesTyped
<1>2. OnPages'
  <2>1. \A u \in Member : Paged(u)'
    BY DEF SpacesIInv, OnPages, Paged
  <2>2. \A r \in Member : Whole(r)'
    BY DEF SpacesIInv, OnPages, Whole
  <2> QED
    BY <2>1, <2>2 DEF OnPages
<1>3. Spaced'
  <2>1. \A u \in Member \ space_live : space_call'[u].at = "out"
    BY <1>1 DEF SpacesIInv, Spaced
  <2> QED
    BY <2>1 DEF SpacesIInv, Spaced
<1>4. Unwiped'
  <2>1. SUFFICES ASSUME ~space_wiped', NEW u \in Member PROVE Blank(u)' /\ NoHeap(u)'
    BY DEF Unwiped
  <2>2. Blank(u) /\ NoHeap(u)
    BY <2>1 DEF SpacesIInv, Unwiped
  <2>3. Blank(u)'
    BY <2>1, <2>2 DEF Blank
  <2>4. NoHeap(u)'
    BY <2>1, <2>2 DEF NoHeap
  <2> QED
    BY <2>3, <2>4
<1>5. Unraced'
  <2>1. SUFFICES ASSUME NEW r \in space_live, space_mm[r] = r, r \notin space_raced'
                 PROVE  SpaceSound(r)'
    BY DEF Unraced
  <2>2. CASE r = s
    BY <2>1, <2>2
  <2>3. CASE r # s
    <3>1. SpaceSound(r) /\ r \in Member
      BY <1>1, <2>1 DEF SpacesIInv, Unraced
    <3>2. \A u \in Member : Inmate(u, r)' <=> Inmate(u, r)
      BY <2>3 DEF Inmate
    <3>3. \A u \in Member : Inmate(u, r) => u # t
      BY <2>3 DEF Inmate
    <3>4. \A n : MappedTo(r, n)' <=> MappedTo(r, n)
      BY <2>3, <3>1 DEF MappedTo
    <3>5. \A u \in Member : Inmate(u, r) /\ CallSound(u, r) => CallSound(u, r)'
      BY <2>3, <3>1, <3>3, <3>4 DEF CallSound
    <3> QED
      BY <2>3, <3>1, <3>2, <3>4, <3>5 DEF SpaceSound
  <2> QED
    BY <2>2, <2>3
<1> QED
  BY <1>2, <1>3, <1>4, <1>5 DEF SpacesIInv

\* What a task in malloc knows of its space, where nobody else is in malloc.
LEMMA InOwnSpace ==
  ASSUME SpacesIInv, NEW t \in space_live, NEW s \in Member, s = space_mm[t],
         s \notin space_raced, space_call[t].at \notin {"out", "fault"},
         UNCHANGED <<space_live, space_mm>>,
         \A u \in Member \ {t} : space_call'[u] = space_call[u]
  PROVE  /\ SpaceSound(s) /\ CallSound(t, s)
         /\ \A u \in Member \ {t} : ~Inmate(u, s) /\ ~Inmate(u, s)'
<1>1. SpaceSound(s) /\ t \in Member
  BY HomeOf DEF SpacesIInv, Unraced
<1>2. Inmate(t, s)
  BY DEF Inmate
<1>3. \A u \in Member \ {t} : ~Inmate(u, s)
  BY <1>1, <1>2 DEF SpaceSound
<1>4. \A u \in Member \ {t} : ~Inmate(u, s)'
  BY <1>3 DEF Inmate
<1>5. CallSound(t, s)
  BY <1>1, <1>2 DEF SpaceSound
<1> QED
  BY <1>1, <1>3, <1>4, <1>5

\* malloc is called.
LEMMA MallocKeeps ==
  ASSUME SpacesIInv, NEW t \in Member, Spaces!Malloc(t)
  PROVE  SpacesIInv'
<1>1. t \in space_live /\ space_call[t].at = "out"
  BY DEF Spaces!Malloc, Spaces!At
<1>2. PICK s \in Member : s = space_mm[t]
  BY <1>1, HomeOf
<1>3. PICK n \in Sizes :
        Spaces!Goes(t, [Spaces!Out EXCEPT !.size = n,
                         !.at = IF space_lib[s].started THEN "test" ELSE "start"])
  BY <1>2 DEF Spaces!Malloc, Spaces!Space
<1> DEFINE c == [Spaces!Out EXCEPT !.size = n,
                   !.at = IF space_lib[s].started THEN "test" ELSE "start"]
<1>4. /\ c \in SpaceCalls /\ c.at = IF space_lib[s].started THEN "test" ELSE "start"
      /\ c.size = n /\ c.arg = 0 /\ c.next = 0
  <2>1. Spaces!Out \in SpaceCalls /\ Spaces!Out.arg = 0 /\ Spaces!Out.next = 0
    BY SpaceConstants DEF Spaces!Out, SpaceCalls, SpacePlaces, Spaces!NoFrame
  <2> QED
    BY <2>1 DEF SpaceCalls, SpacePlaces
<1>5. /\ space_call' \in [Member -> SpaceCalls] /\ space_call'[t] = c
      /\ \A u \in Member \ {t} : space_call'[u] = space_call[u]
  <2> HIDE DEF c
  <2> QED
    BY <1>3, <1>4, CallMoves DEF SpacesIInv, c
<1> HIDE DEF c
<1>6. /\ UNCHANGED <<space_live, space_mm, space_code, space_heap, space_endBrk, space_taken,
                     space_wiped, space_lib, space_blocks>>
      /\ space_raced' = IF \E u \in Member : Inmate(u, s) THEN space_raced \cup {s}
                        ELSE space_raced
  BY <1>1, <1>2 DEF Spaces!Malloc, Spaces!tasks, Spaces!memory, Spaces!InMalloc, Spaces!Space,
                    Inmate, Member
<1>7. SpacesTyped'
  BY <1>5, <1>6 DEF SpacesIInv, SpacesTyped
<1>8. Paged(t)' /\ Whole(s)'
  BY <1>4, <1>5, <1>6, ZeroIsMultiple DEF SpacesIInv, OnPages, Paged, Whole
<1>9. ~space_wiped' => ~space_wiped /\ Blank(t)' /\ NoHeap(s)'
  BY <1>4, <1>5, <1>6 DEF SpacesIInv, Unwiped, Blank, NoHeap
<1>10. ASSUME s \notin space_raced' PROVE SpaceSound(s)'
  <2>1. SpaceSound(s) /\ s \notin space_raced /\ \A u \in Member : ~Inmate(u, s)
    BY <1>1, <1>2, <1>6, <1>10, HomeOf DEF SpacesIInv, Unraced
  <2>2. \A u \in Member \ {t} : ~Inmate(u, s)'
    BY <1>5, <1>6, <2>1 DEF Inmate
  <2>3. space_lib[s].end = space_endBrk[s]
    BY <2>1 DEF SpaceSound
  <2>4. CallSound(t, s)'
    BY <1>4, <1>5, <1>6, <2>3 DEF CallSound
  <2>5. \A u, v \in Member : Inmate(u, s)' /\ Inmate(v, s)' => u = v
    BY <2>2
  <2>6. \A u \in Member : Inmate(u, s)' => CallSound(u, s)'
    BY <2>2, <2>4
  <2>7. \A m : MappedTo(s, m)' <=> MappedTo(s, m)
    BY <1>6 DEF MappedTo
  <2> QED
    BY <1>6, <2>1, <2>3, <2>5, <2>6, <2>7 DEF SpaceSound
<1> QED
  BY <1>1, <1>2, <1>5, <1>6, <1>7, <1>8, <1>9, <1>10, StepKeeps

\* Its first call asks where the heap starts.
LEMMA StartKeeps ==
  ASSUME SpacesIInv, NEW t \in Member, Spaces!Start(t)
  PROVE  SpacesIInv'
<1>1. t \in space_live /\ space_call[t].at = "start"
  BY DEF Spaces!Start, Spaces!At
<1>2. PICK s \in Member : s = space_mm[t]
  BY <1>1, HomeOf
<1> DEFINE c == [space_call[t] EXCEPT !.at = "test"]
           l == [started |-> TRUE, used |-> 0, end |-> 0]
<1>3. space_call[t] \in SpaceCalls
  BY DEF SpacesIInv, SpacesTyped
<1>4. /\ c \in SpaceCalls /\ c.at = "test" /\ c.size = space_call[t].size
      /\ c.arg = space_call[t].arg /\ c.next = space_call[t].next
  BY <1>3 DEF SpaceCalls, SpacePlaces
<1>5. /\ space_call' \in [Member -> SpaceCalls] /\ space_call'[t] = c
      /\ \A u \in Member \ {t} : space_call'[u] = space_call[u]
  <2>1. Spaces!Goes(t, c)
    BY DEF Spaces!Start, Spaces!To
  <2> HIDE DEF c
  <2> QED
    BY <1>4, <2>1, CallMoves DEF SpacesIInv
<1> HIDE DEF c
<1>6. UNCHANGED <<space_live, space_mm, space_code, space_heap, space_endBrk, space_taken,
                  space_wiped, space_blocks, space_raced>>
  BY DEF Spaces!Start, Spaces!tasks, Spaces!memory
<1>7. /\ l \in [started : BOOLEAN, used : 0 .. MaxHeap, end : 0 .. MaxHeap]
      /\ space_lib' \in [Member -> [started : BOOLEAN, used : 0 .. MaxHeap, end : 0 .. MaxHeap]]
      /\ space_lib'[s] = l /\ \A r \in Member \ {s} : space_lib'[r] = space_lib[r]
  <2>1. l \in [started : BOOLEAN, used : 0 .. MaxHeap, end : 0 .. MaxHeap]
    BY SpaceConstants
  <2>2. space_lib' = [space_lib EXCEPT ![s] = l]
    BY <1>2 DEF Spaces!Start, Spaces!Space
  <2> HIDE DEF l
  <2> QED
    BY <2>1, <2>2 DEF SpacesIInv, SpacesTyped
<1>8. SpacesTyped'
  BY <1>5, <1>6, <1>7 DEF SpacesIInv, SpacesTyped
<1>9. Paged(t)' /\ Whole(s)'
  BY <1>1, <1>4, <1>5, <1>6, <1>7, ZeroIsMultiple DEF SpacesIInv, OnPages, Paged, Whole
<1>10. ~space_wiped' => ~space_wiped /\ Blank(t)' /\ NoHeap(s)'
  BY <1>1, <1>4, <1>5, <1>6, <1>7 DEF SpacesIInv, Unwiped, Blank, NoHeap
<1>11. ASSUME s \notin space_raced' PROVE SpaceSound(s)'
  <2>1. /\ SpaceSound(s) /\ CallSound(t, s)
        /\ \A u \in Member \ {t} : ~Inmate(u, s)'
    BY <1>1, <1>2, <1>5, <1>6, <1>11, InOwnSpace
  <2>2. Inmate(t, s)'
    BY <1>1, <1>2, <1>4, <1>5, <1>6 DEF Inmate
  <2>3. space_lib[s].end = 0 /\ space_endBrk[s] = 0 /\ space_lib[s].used = 0
    <3>1. space_lib[s].end = 0 /\ space_endBrk[s] = 0 /\ space_lib[s].used <= 0
      BY <1>1, <2>1 DEF SpaceSound, CallSound
    <3>2. space_lib[s].used \in Nat
      BY SpaceConstants DEF SpacesIInv, SpacesTyped
    <3> QED
      BY <3>1, <3>2
  <2>4. CallSound(t, s)'
    BY <1>1, <1>4, <1>5, <1>6, <1>7, <2>3 DEF CallSound
  <2>5. \A m : MappedTo(s, m)' <=> MappedTo(s, m)
    BY <1>6 DEF MappedTo
  <2> QED
    BY <1>6, <1>7, <2>1, <2>2, <2>3, <2>4, <2>5 DEF SpaceSound
<1> QED
  BY <1>1, <1>2, <1>5, <1>6, <1>7, <1>8, <1>9, <1>10, <1>11, StepKeeps

\* A step that changes nothing but the task's call, and marks a frame at most.
LEMMA CallStepKeeps ==
  ASSUME SpacesIInv, NEW t \in space_live, NEW s \in Member, s = space_mm[t],
         NEW c \in SpaceCalls, Spaces!Goes(t, c),
         UNCHANGED <<space_live, space_mm, space_code, space_heap, space_endBrk, space_wiped,
                     space_lib, space_blocks, space_raced>>,
         space_taken \subseteq space_taken', space_taken' \subseteq 0 .. Frames - 1,
         c.at \notin {"out", "fault"} => c.size \in Sizes,
         c.arg % PageUnits = 0,
         c.at \in {"page", "map", "end"} => c.next % PageUnits = 0,
         c.at = "map" => c.next < c.arg,
         ~space_wiped =>
           /\ c.at \in {"out", "start", "test", "brk", "page", "map", "fault"}
           /\ c.at \in {"brk", "page"} => c.arg > 0
           /\ c.at \in {"page", "map"} => c.next = 0,
         s \notin space_raced => SpaceSound(s)'
  PROVE  SpacesIInv'
<1>1. /\ space_call' \in [Member -> SpaceCalls] /\ space_call'[t] = c
      /\ \A u \in Member \ {t} : space_call'[u] = space_call[u]
  BY HomeOf, CallMoves DEF SpacesIInv
<1>2. SpacesTyped'
  BY <1>1 DEF SpacesIInv, SpacesTyped
<1>3. Paged(t)' /\ Whole(s)'
  BY <1>1 DEF SpacesIInv, OnPages, Paged, Whole
<1>4. ~space_wiped' => ~space_wiped /\ Blank(t)' /\ NoHeap(s)'
  BY <1>1 DEF SpacesIInv, Unwiped, Blank, NoHeap
<1> QED
  BY <1>1, <1>2, <1>3, <1>4, StepKeeps

\* The same for the space's own invariant, when the task is alone in malloc there.
LEMMA CallStepSound ==
  ASSUME SpacesIInv, NEW t \in space_live, NEW s \in Member, s = space_mm[t],
         NEW c \in SpaceCalls, Spaces!Goes(t, c),
         UNCHANGED <<space_live, space_mm, space_heap, space_endBrk, space_lib, space_blocks,
                     space_raced>>,
         s \notin space_raced, space_call[t].at \notin {"out", "fault"},
         c.at \in {"out", "fault"} => space_lib[s].end = space_endBrk[s],
         c.at \notin {"out", "fault"} => CallSound(t, s)'
  PROVE  SpaceSound(s)'
<1>1. /\ space_call'[t] = c /\ \A u \in Member \ {t} : space_call'[u] = space_call[u]
      /\ t \in Member
  BY HomeOf, CallMoves DEF SpacesIInv
<1>2. SpaceSound(s) /\ \A u \in Member \ {t} : ~Inmate(u, s)'
  BY <1>1, InOwnSpace
<1>3. Inmate(t, s)' <=> c.at \notin {"out", "fault"}
  BY <1>1 DEF Inmate
<1>4. \A m : MappedTo(s, m)' <=> MappedTo(s, m)
  BY DEF MappedTo
<1>5. \A u \in Member : Inmate(u, s)' => CallSound(u, s)'
  BY <1>2, <1>3
<1>6. (\A u \in Member : ~Inmate(u, s)') => space_lib'[s].end = space_endBrk'[s]
  BY <1>1, <1>3
<1> QED
  BY <1>2, <1>4, <1>5, <1>6 DEF SpaceSound

\* Does the block fit, or is brk asked for more?
LEMMA TestKeeps ==
  ASSUME SpacesIInv, NEW t \in Member, Spaces!Test(t)
  PROVE  SpacesIInv'
<1>1. t \in space_live /\ space_call[t].at = "test"
  BY DEF Spaces!Test, Spaces!At
<1>2. PICK s \in Member : s = space_mm[t]
  BY <1>1, HomeOf
<1> DEFINE n == space_call[t].size
           l == space_lib[s]
           arg == l.end + Spaces!RoundUp(n + Align)
<1>3. /\ space_call[t] \in SpaceCalls /\ n \in Sizes /\ n \in Nat /\ n > 0
      /\ l.end \in 0 .. MaxHeap /\ l.used \in 0 .. MaxHeap /\ l.end % PageUnits = 0
      /\ space_call[t].arg % PageUnits = 0
  <2>1. space_call[t] \in SpaceCalls /\ l.end \in 0 .. MaxHeap /\ l.used \in 0 .. MaxHeap
    BY DEF SpacesIInv, SpacesTyped
  <2>2. n \in Sizes /\ l.end % PageUnits = 0 /\ space_call[t].arg % PageUnits = 0
    BY <1>1 DEF SpacesIInv, OnPages, Paged, Whole
  <2>3. n \in Nat /\ n > 0
    <3>1. n \in Nat \ {0}
      BY <2>2, SpaceConstants
    <3> HIDE DEF n
    <3> QED
      BY <3>1
  <2> QED
    BY <2>1, <2>2, <2>3
<1>4. /\ arg \in Nat /\ arg >= l.end + n + Align /\ arg > 0 /\ arg % PageUnits = 0
  <2>1. PICK m \in Nat : m = n + Align
    BY <1>3, SpaceConstants
  <2>2. PICK r \in Nat : r = Spaces!RoundUp(n + Align) /\ r >= m /\ r % PageUnits = 0
    BY <2>1, RoundedUp
  <2>3. PICK e \in Nat : e = l.end
    BY <1>3
  <2>4. (e + r) % PageUnits = 0
    BY <1>3, <2>2, <2>3, SumOfMultiples, SpaceConstants
  <2>5. arg = e + r
    BY <2>2, <2>3
  <2> QED
    BY <1>3, <2>1, <2>2, <2>3, <2>4, <2>5, SpaceConstants
<1> HIDE DEF arg
<1>5. UNCHANGED <<space_live, space_mm, space_code, space_heap, space_endBrk, space_wiped,
                  space_lib, space_blocks, space_raced, space_taken>>
  BY DEF Spaces!Test, Spaces!tasks, Spaces!memory, Spaces!library
<1>6. PICK c \in SpaceCalls :
        /\ Spaces!Goes(t, c) /\ c.size = n
        /\ \/ c.at = "take" /\ l.end > l.used + Align + n /\ c.arg = space_call[t].arg
           \/ c.at = "brk" /\ c.arg = arg
  <2>1. CASE Spaces!Fits(l, n)
    <3>1. Spaces!Goes(t, [space_call[t] EXCEPT !.at = "take"])
      BY <1>2, <2>1 DEF Spaces!Test, Spaces!To, Spaces!Space
    <3>2. [space_call[t] EXCEPT !.at = "take"] \in SpaceCalls
      BY <1>3 DEF SpaceCalls, SpacePlaces
    <3> QED
      BY <1>3, <2>1, <3>1, <3>2 DEF Spaces!Fits, SpaceCalls
  <2>2. CASE ~Spaces!Fits(l, n)
    <3>1. arg <= MaxHeap /\ Spaces!Goes(t, [space_call[t] EXCEPT !.at = "brk", !.arg = arg])
      BY <1>2, <2>2 DEF Spaces!Test, Spaces!Space, arg
    <3>2. arg \in 0 .. MaxHeap
      BY <1>4, <3>1, SpaceConstants
    <3>3. [space_call[t] EXCEPT !.at = "brk", !.arg = arg] \in SpaceCalls
      BY <1>3, <3>2 DEF SpaceCalls, SpacePlaces
    <3> QED
      BY <1>3, <3>1, <3>3 DEF SpaceCalls
  <2> QED
    BY <2>1, <2>2
<1>7. ~space_wiped => l.end = 0
  BY DEF SpacesIInv, Unwiped, NoHeap
<1>8. ASSUME s \notin space_raced PROVE SpaceSound(s)'
  <2>1. SpaceSound(s) /\ CallSound(t, s) /\ space_call'[t] = c
    BY <1>1, <1>2, <1>5, <1>6, <1>8, InOwnSpace, CallMoves DEF SpacesIInv
  <2>2. CallSound(t, s)'
    <3>1. l.end = space_endBrk[s] /\ l.started
      BY <1>1, <2>1 DEF CallSound
    <3>2. CASE c.at = "take"
      <4>1. l.used + n + Align <= l.end
        BY <1>3, <1>6, <3>2, SpaceConstants
      <4> QED
        BY <1>5, <1>6, <2>1, <3>1, <3>2, <4>1 DEF CallSound
    <3>3. CASE c.at = "brk"
      BY <1>4, <1>5, <1>6, <2>1, <3>1, <3>3 DEF CallSound
    <3> QED
      BY <1>6, <3>2, <3>3
  <2> QED
    BY <1>1, <1>2, <1>5, <1>6, <1>8, <2>2, CallStepSound
<1>9. space_taken' \subseteq 0 .. Frames - 1
  BY <1>5 DEF SpacesIInv, SpacesTyped
<1>10. /\ c.at \notin {"out", "fault"} => c.size \in Sizes
       /\ c.arg % PageUnits = 0
       /\ c.at \in {"page", "map", "end"} => c.next % PageUnits = 0
       /\ c.at = "map" => c.next < c.arg
       /\ ~space_wiped => c.at = "brk" /\ c.arg > 0
  <2>1. l.end = 0 => ~(l.end > l.used + Align + n)
    BY <1>3, SpaceConstants
  <2> QED
    BY <1>3, <1>4, <1>6, <1>7, <2>1
<1> QED
  BY <1>1, <1>2, <1>5, <1>6, <1>8, <1>9, <1>10, CallStepKeeps

\* sys_brk.
LEMMA BrkKeeps ==
  ASSUME SpacesIInv, NEW t \in Member, Spaces!Brk(t)
  PROVE  SpacesIInv'
<1>1. t \in space_live /\ space_call[t].at = "brk"
  BY DEF Spaces!Brk, Spaces!At
<1>2. PICK s \in Member : s = space_mm[t]
  BY <1>1, HomeOf
<1> DEFINE k == space_call[t]
<1>3. /\ k \in SpaceCalls /\ k.size \in Sizes /\ k.arg % PageUnits = 0
      /\ space_endBrk[s] \in 0 .. MaxHeap /\ space_endBrk[s] % PageUnits = 0
  BY <1>1 DEF SpacesIInv, SpacesTyped, OnPages, Paged, Whole
<1>4. UNCHANGED <<space_live, space_mm, space_code, space_heap, space_endBrk, space_wiped,
                  space_lib, space_blocks, space_raced, space_taken>>
  BY DEF Spaces!Brk, Spaces!tasks, Spaces!memory, Spaces!library
<1>5. PICK c \in SpaceCalls :
        /\ Spaces!Goes(t, c) /\ c.at = "page" /\ c.size = k.size /\ c.arg = k.arg
        /\ c.next = space_endBrk[s]
  <2>1. Spaces!Goes(t, [k EXCEPT !.at = "page", !.next = space_endBrk[s]])
    BY <1>2 DEF Spaces!Brk, Spaces!Space
  <2>2. [k EXCEPT !.at = "page", !.next = space_endBrk[s]] \in SpaceCalls
    BY <1>3 DEF SpaceCalls, SpacePlaces
  <2> QED
    BY <1>3, <2>1, <2>2 DEF SpaceCalls
<1>6. ASSUME s \notin space_raced PROVE SpaceSound(s)'
  <2>1. SpaceSound(s) /\ CallSound(t, s) /\ space_call'[t] = c
    BY <1>1, <1>2, <1>4, <1>5, <1>6, InOwnSpace, CallMoves DEF SpacesIInv
  <2>2. /\ space_lib[s].started /\ space_lib[s].end = space_endBrk[s]
        /\ space_lib[s].end + k.size + Align <= k.arg
        /\ MappedTo(s, space_endBrk[s])
    BY <1>1, <2>1 DEF SpaceSound, CallSound
  <2>3. space_endBrk[s] <= k.arg
    <3>1. k.size \in Nat /\ k.arg \in Nat /\ space_endBrk[s] \in Nat
      <4>1. k.arg \in 0 .. MaxHeap
        BY <1>3 DEF SpaceCalls
      <4>2. k.size \in Nat
        BY <1>3, SpaceConstants
      <4> QED
        BY <1>3, <4>1, <4>2, SpaceConstants
    <3> QED
      BY <2>2, <3>1, SpaceConstants
  <2>4. MappedTo(s, c.next)'
    BY <1>4, <1>5, <2>2 DEF MappedTo
  <2>5. CallSound(t, s)'
    BY <1>4, <1>5, <2>1, <2>2, <2>3, <2>4 DEF CallSound
  <2> QED
    BY <1>1, <1>2, <1>4, <1>5, <1>6, <2>5, CallStepSound
<1>7. space_taken' \subseteq 0 .. Frames - 1
  BY <1>4 DEF SpacesIInv, SpacesTyped
<1>8. ~space_wiped => space_endBrk[s] = 0 /\ k.arg > 0
  BY <1>1 DEF SpacesIInv, Unwiped, NoHeap, Blank
<1> QED
  BY <1>1, <1>2, <1>3, <1>4, <1>5, <1>6, <1>7, <1>8, CallStepKeeps

\* The address of the block is read.
LEMMA TakeBlockKeeps ==
  ASSUME SpacesIInv, NEW t \in Member, Spaces!Take(t)
  PROVE  SpacesIInv'
<1>1. t \in space_live /\ space_call[t].at = "take"
  BY DEF Spaces!Take, Spaces!At
<1>2. PICK s \in Member : s = space_mm[t]
  BY <1>1, HomeOf
<1> DEFINE k == space_call[t]
<1>3. /\ k \in SpaceCalls /\ k.size \in Sizes /\ k.arg % PageUnits = 0
      /\ space_lib[s].used \in 0 .. MaxHeap
  BY <1>1 DEF SpacesIInv, SpacesTyped, OnPages, Paged, Whole
<1>4. UNCHANGED <<space_live, space_mm, space_code, space_heap, space_endBrk, space_wiped,
                  space_lib, space_blocks, space_raced, space_taken>>
  BY DEF Spaces!Take, Spaces!tasks, Spaces!memory, Spaces!library
<1>5. PICK c \in SpaceCalls :
        /\ Spaces!Goes(t, c) /\ c.at = "bump" /\ c.size = k.size /\ c.arg = k.arg
        /\ c.next = space_lib[s].used
  <2>1. Spaces!Goes(t, [k EXCEPT !.at = "bump", !.next = space_lib[s].used])
    BY <1>2 DEF Spaces!Take, Spaces!Space
  <2>2. [k EXCEPT !.at = "bump", !.next = space_lib[s].used] \in SpaceCalls
    BY <1>3 DEF SpaceCalls, SpacePlaces
  <2> QED
    BY <1>3, <2>1, <2>2 DEF SpaceCalls
<1>6. ASSUME s \notin space_raced PROVE SpaceSound(s)'
  <2>1. SpaceSound(s) /\ CallSound(t, s) /\ space_call'[t] = c
    BY <1>1, <1>2, <1>4, <1>5, <1>6, InOwnSpace, CallMoves DEF SpacesIInv
  <2>2. CallSound(t, s)'
    BY <1>1, <1>4, <1>5, <2>1 DEF CallSound
  <2> QED
    BY <1>1, <1>2, <1>4, <1>5, <1>6, <2>2, CallStepSound
<1>7. space_taken' \subseteq 0 .. Frames - 1
  BY <1>4 DEF SpacesIInv, SpacesTyped
<1>8. space_wiped
  BY <1>1 DEF SpacesIInv, Unwiped, Blank
<1> QED
  BY <1>1, <1>2, <1>3, <1>4, <1>5, <1>6, <1>7, <1>8, CallStepKeeps

\* fork or vfork finds no memory.
LEMMA ForkFaultsKeeps ==
  ASSUME SpacesIInv, NEW t \in Member, Spaces!ForkFaults(t)
  PROVE  SpacesIInv'
<1>1. t \in space_live /\ space_call[t].at = "out"
  BY DEF Spaces!ForkFaults, Spaces!At
<1>2. PICK s \in Member : s = space_mm[t]
  BY <1>1, HomeOf
<1>3. UNCHANGED <<space_live, space_mm, space_code, space_heap, space_endBrk, space_wiped,
                  space_lib, space_blocks, space_raced, space_taken>>
  BY DEF Spaces!ForkFaults, Spaces!tasks, Spaces!memory, Spaces!library
<1>4. PICK c \in SpaceCalls : Spaces!Goes(t, c) /\ c.at = "fault" /\ c.arg = 0
  <2>1. Spaces!Out \in SpaceCalls /\ Spaces!Out.arg = 0
    BY SpaceConstants DEF Spaces!Out, SpaceCalls, SpacePlaces, Spaces!NoFrame
  <2>2. /\ [Spaces!Out EXCEPT !.at = "fault"] \in SpaceCalls
        /\ [Spaces!Out EXCEPT !.at = "fault"].at = "fault"
        /\ [Spaces!Out EXCEPT !.at = "fault"].arg = 0
    BY <2>1 DEF SpaceCalls, SpacePlaces
  <2>3. Spaces!Goes(t, [Spaces!Out EXCEPT !.at = "fault"])
    BY DEF Spaces!ForkFaults, Spaces!Fault
  <2> QED
    BY <2>2, <2>3
<1>5. ASSUME s \notin space_raced PROVE SpaceSound(s)'
  <2>1. SpaceSound(s)
    BY <1>1, <1>2, <1>5, HomeOf DEF SpacesIInv, Unraced
  <2>2. /\ space_call'[t] = c /\ \A u \in Member \ {t} : space_call'[u] = space_call[u]
    BY <1>4, CallMoves DEF SpacesIInv
  <2>3. \A u \in Member : Inmate(u, s)' <=> Inmate(u, s)
    BY <1>1, <1>3, <1>4, <2>2 DEF Inmate
  <2>4. \A u \in Member : Inmate(u, s) => u # t
    BY <1>1 DEF Inmate
  <2>5. \A m : MappedTo(s, m)' <=> MappedTo(s, m)
    BY <1>3 DEF MappedTo
  <2>6. \A u \in Member : Inmate(u, s) /\ CallSound(u, s) => CallSound(u, s)'
    BY <1>3, <2>2, <2>4, <2>5 DEF CallSound
  <2> QED
    BY <1>3, <2>1, <2>3, <2>5, <2>6 DEF SpaceSound
<1>6. space_taken' \subseteq 0 .. Frames - 1
  BY <1>3 DEF SpacesIInv, SpacesTyped
<1> QED
  BY <1>1, <1>2, <1>3, <1>4, <1>5, <1>6, ZeroIsMultiple, CallStepKeeps

\* A page more, from a page's boundary.
LEMMA MappedMore ==
  ASSUME NEW s, NEW n \in Nat, n % PageUnits = 0, MappedTo(s, n),
         space_heap[s][PageOf(n)] # -1
  PROVE  MappedTo(s, n + PageUnits)
<1>1. ASSUME NEW a \in 0 .. (n + PageUnits) - 1
      PROVE  space_heap[s][PageOf(a)] # -1
  <2>1. PageUnits \in Nat /\ a \in Int
    BY SpaceConstants
  <2>2. CASE a < n
    <3>1. a \in 0 .. n - 1
      BY <2>1, <2>2
    <3> QED
      BY <3>1 DEF MappedTo
  <2>3. CASE ~(a < n)
    <3>1. a \in n .. n + PageUnits - 1
      BY <2>1, <2>3
    <3>2. PageOf(a) = PageOf(n)
      BY <3>1, SamePage
    <3> QED
      BY <3>2
  <2> QED
    BY <2>2, <2>3
<1> QED
  BY <1>1 DEF MappedTo

\* A round of the loop has a page left.
LEMMA RoundLeft ==
  ASSUME SpacesIInv, NEW t \in Member, space_call[t].at \in {"page", "map"},
         space_call[t].next < space_call[t].arg
  PROVE  LET k == space_call[t]
         IN  /\ k \in SpaceCalls /\ k.size \in Sizes /\ k.arg % PageUnits = 0
             /\ k.next % PageUnits = 0 /\ k.next \in Nat /\ k.arg \in Nat
             /\ k.arg <= MaxHeap /\ k.next \in 0 .. MaxHeap
             /\ k.next + PageUnits <= k.arg /\ (k.next + PageUnits) % PageUnits = 0
             /\ k.next + PageUnits \in 0 .. MaxHeap
<1> DEFINE k == space_call[t]
<1>1. k \in SpaceCalls /\ k.size \in Sizes /\ k.arg % PageUnits = 0 /\ k.next % PageUnits = 0
  BY DEF SpacesIInv, SpacesTyped, OnPages, Paged
<1>2. k.next \in 0 .. MaxHeap /\ k.arg \in 0 .. MaxHeap
  BY <1>1 DEF SpaceCalls
<1>3. k.next \in Nat /\ k.arg \in Nat /\ k.arg <= MaxHeap
  BY <1>2, SpaceConstants
<1>4. PICK P \in Nat \ {0}, n \in Nat, m \in Nat : P = PageUnits /\ n = k.next /\ m = k.arg
  BY <1>3, SpaceConstants
<1>5. n + P <= m /\ (n + P) % P = 0
  BY <1>1, <1>4, NextMultiple
<1>6. n + P \in 0 .. MaxHeap
  BY <1>3, <1>4, <1>5, SpaceConstants
<1> QED
  BY <1>1, <1>2, <1>3, <1>4, <1>5, <1>6

\* A round of do_brk's loop.
LEMMA PageKeeps ==
  ASSUME SpacesIInv, NEW t \in Member, Spaces!Page(t)
  PROVE  SpacesIInv'
<1>1. t \in space_live /\ space_call[t].at = "page" /\ space_call[t].next < space_call[t].arg
  BY DEF Spaces!Page, Spaces!At
<1>2. PICK s \in Member : s = space_mm[t]
  BY <1>1, HomeOf
<1> DEFINE k == space_call[t]
<1>3. /\ k \in SpaceCalls /\ k.size \in Sizes /\ k.arg % PageUnits = 0
      /\ k.next % PageUnits = 0 /\ k.next \in Nat /\ k.arg \in Nat /\ k.arg <= MaxHeap
      /\ k.next \in 0 .. MaxHeap
  BY <1>1, RoundLeft
<1>4. /\ k.next + PageUnits <= k.arg /\ (k.next + PageUnits) % PageUnits = 0
      /\ k.next + PageUnits \in 0 .. MaxHeap
  BY <1>1, RoundLeft
<1>5. UNCHANGED <<space_live, space_mm, space_code, space_heap, space_endBrk, space_wiped,
                  space_lib, space_blocks, space_raced>>
  BY DEF Spaces!Page, Spaces!tasks, Spaces!library
<1> DEFINE Round(c) ==
        /\ Spaces!Goes(t, c) /\ space_taken \subseteq space_taken'
        /\ space_taken' \subseteq 0 .. Frames - 1
        /\ \/ /\ c.at = "page" /\ c.size = k.size /\ c.arg = k.arg
              /\ c.next = k.next + PageUnits
              /\ space_heap[s][PageOf(k.next)] # -1
           \/ c.at = "fault" /\ c.arg = 0
           \/ c.at = "map" /\ c.size = k.size /\ c.arg = k.arg /\ c.next = k.next
<1>60. \E c \in SpaceCalls : Round(c)
  <2>1. space_taken \subseteq 0 .. Frames - 1
    BY DEF SpacesIInv, SpacesTyped
  <2>2. CASE space_heap[s][PageOf(k.next)] # -1
    <3>1. /\ Spaces!Goes(t, [k EXCEPT !.next = k.next + PageUnits])
          /\ space_taken' = space_taken
      BY <1>2, <2>2 DEF Spaces!Page, Spaces!Space, Spaces!NoFrame, PageOf
    <3>2. [k EXCEPT !.next = k.next + PageUnits] \in SpaceCalls
      BY <1>3, <1>4 DEF SpaceCalls, SpacePlaces
    <3> QED
      BY <1>1, <1>3, <2>1, <2>2, <3>1, <3>2 DEF SpaceCalls
  <2>3. CASE ~(space_heap[s][PageOf(k.next)] # -1)
    <3>1. \/ Spaces!Fault(t) /\ space_taken' = space_taken
          \/ \E f \in Spaces!Frame \ space_taken :
               /\ space_taken' = space_taken \cup {f}
               /\ Spaces!Goes(t, [k EXCEPT !.at = "map", !.frame = f])
      BY <1>2, <2>3 DEF Spaces!Page, Spaces!Space, Spaces!NoFrame, PageOf
    <3>2. CASE Spaces!Fault(t) /\ space_taken' = space_taken
      <4>1. Spaces!Out \in SpaceCalls /\ Spaces!Out.arg = 0
        BY SpaceConstants DEF Spaces!Out, SpaceCalls, SpacePlaces, Spaces!NoFrame
      <4>2. /\ [Spaces!Out EXCEPT !.at = "fault"] \in SpaceCalls
            /\ [Spaces!Out EXCEPT !.at = "fault"].at = "fault"
            /\ [Spaces!Out EXCEPT !.at = "fault"].arg = 0
        BY <4>1 DEF SpaceCalls, SpacePlaces
      <4>3. Spaces!Goes(t, [Spaces!Out EXCEPT !.at = "fault"])
        BY <3>2 DEF Spaces!Fault
      <4> QED
        BY <2>1, <3>2, <4>2, <4>3
    <3>3. ASSUME NEW f \in Spaces!Frame \ space_taken, space_taken' = space_taken \cup {f},
                 Spaces!Goes(t, [k EXCEPT !.at = "map", !.frame = f])
          PROVE  \E c \in SpaceCalls : Round(c)
      <4>1. f \in 0 .. Frames - 1
        BY DEF Spaces!Frame
      <4>2. [k EXCEPT !.at = "map", !.frame = f] \in SpaceCalls
        BY <1>3, <4>1 DEF SpaceCalls, SpacePlaces
      <4> QED
        BY <1>3, <2>1, <3>3, <4>1, <4>2 DEF SpaceCalls
    <3> QED
      BY <3>1, <3>2, <3>3
  <2> QED
    BY <2>2, <2>3
<1>6. PICK c \in SpaceCalls : Round(c)
  BY <1>60
<1>7. ASSUME s \notin space_raced PROVE SpaceSound(s)'
  <2>1. SpaceSound(s) /\ CallSound(t, s) /\ space_call'[t] = c
    BY <1>1, <1>2, <1>5, <1>6, <1>7, InOwnSpace, CallMoves DEF SpacesIInv
  <2>2. /\ space_lib[s].started /\ space_lib[s].end = space_endBrk[s]
        /\ space_lib[s].end + k.size + Align <= k.arg
        /\ k.next <= k.arg /\ MappedTo(s, k.next)
    BY <1>1, <2>1 DEF CallSound
  <2>3. c.at \notin {"out", "fault"} => CallSound(t, s)'
    <3>1. CASE c.at = "page"
      <4>1. MappedTo(s, c.next) /\ c.next <= c.arg
        BY <1>3, <1>4, <1>6, <2>2, <3>1, MappedMore
      <4>2. MappedTo(s, c.next)'
        BY <1>5, <4>1 DEF MappedTo
      <4> QED
        BY <1>5, <1>6, <2>1, <2>2, <3>1, <4>1, <4>2 DEF CallSound
    <3>2. CASE c.at = "map"
      <4>1. MappedTo(s, c.next)'
        BY <1>5, <1>6, <2>2, <3>2 DEF MappedTo
      <4> QED
        BY <1>5, <1>6, <2>1, <2>2, <3>2, <4>1 DEF CallSound
    <3> QED
      BY <1>6, <3>1, <3>2
  <2> QED
    BY <1>1, <1>2, <1>5, <1>6, <1>7, <2>2, <2>3, CallStepSound
<1>8. ~space_wiped => k.next = 0 /\ PageOf(k.next) \in HeapPages
                      /\ space_heap[s][PageOf(k.next)] = -1
  BY <1>1, <1>3, PageThere DEF SpacesIInv, Unwiped, NoHeap, Blank
<1>9. /\ c.at \notin {"out", "fault"} => c.size \in Sizes
      /\ c.arg % PageUnits = 0
      /\ c.at \in {"page", "map", "end"} => c.next % PageUnits = 0
      /\ c.at = "map" => c.next < c.arg
      /\ ~space_wiped => c.at \in {"map", "fault"} /\ (c.at = "map" => c.next = 0)
  BY <1>1, <1>3, <1>4, <1>6, <1>8, ZeroIsMultiple
<1> QED
  BY <1>1, <1>2, <1>5, <1>6, <1>7, <1>9, CallStepKeeps

\* The frame is mapped: the first page of memory, with whatever begins there.
LEMMA MapKeeps ==
  ASSUME SpacesIInv, NEW t \in Member, Spaces!Map(t)
  PROVE  SpacesIInv'
<1>1. t \in space_live /\ space_call[t].at = "map"
  BY DEF Spaces!Map, Spaces!At
<1>2. PICK s \in Member : s = space_mm[t]
  BY <1>1, HomeOf
<1> DEFINE k == space_call[t]
           p == PageOf(k.next)
<1>30. k.next < k.arg
  BY <1>1 DEF SpacesIInv, OnPages, Paged
<1>3. /\ k \in SpaceCalls /\ k.size \in Sizes /\ k.arg % PageUnits = 0
      /\ k.next % PageUnits = 0 /\ k.next \in Nat /\ k.arg \in Nat /\ k.arg <= MaxHeap
      /\ k.next \in 0 .. MaxHeap
  BY <1>1, <1>30, RoundLeft
<1>4. /\ k.next + PageUnits <= k.arg /\ (k.next + PageUnits) % PageUnits = 0
      /\ k.next + PageUnits \in 0 .. MaxHeap
  BY <1>1, <1>30, RoundLeft
<1>5. /\ UNCHANGED <<space_live, space_mm, space_code, space_endBrk, space_taken,
                     space_lib, space_blocks, space_raced>>
      /\ space_wiped' = TRUE
  BY DEF Spaces!Map, Spaces!tasks, Spaces!library
<1>6. PICK c \in SpaceCalls :
        /\ Spaces!Goes(t, c) /\ c.at = "page" /\ c.size = k.size /\ c.arg = k.arg
        /\ c.next = k.next + PageUnits
  <2>1. Spaces!Goes(t, [k EXCEPT !.at = "page", !.next = k.next + PageUnits])
    BY DEF Spaces!Map
  <2>2. [k EXCEPT !.at = "page", !.next = k.next + PageUnits] \in SpaceCalls
    BY <1>3, <1>4 DEF SpaceCalls, SpacePlaces
  <2> QED
    BY <1>3, <2>1, <2>2 DEF SpaceCalls
<1>7. /\ space_heap' \in [Member -> [HeapPages -> {0, -1}]]
      /\ \A r \in Member \ {s} : space_heap'[r] = space_heap[r]
      /\ space_heap'[s][p] = 0
      /\ \A q \in HeapPages : space_heap[s][q] # -1 => space_heap'[s][q] # -1
  <2>1. p \in HeapPages
    BY <1>3, PageThere
  <2>2. space_heap' = [space_heap EXCEPT ![s][p] = 0]
    BY <1>2 DEF Spaces!Map, Spaces!Space, Spaces!Mapped, PageOf
  <2>3. space_heap \in [Member -> [HeapPages -> {0, -1}]]
    BY DEF SpacesIInv, SpacesTyped
  <2> HIDE DEF p
  <2> QED
    BY <2>1, <2>2, <2>3
<1>8. /\ space_call' \in [Member -> SpaceCalls] /\ space_call'[t] = c
      /\ \A u \in Member \ {t} : space_call'[u] = space_call[u]
  BY <1>6, CallMoves DEF SpacesIInv
<1>9. SpacesTyped'
  BY <1>5, <1>7, <1>8 DEF SpacesIInv, SpacesTyped
<1>10. Paged(t)' /\ Whole(s)'
  BY <1>3, <1>4, <1>5, <1>6, <1>8 DEF SpacesIInv, OnPages, Paged, Whole
<1>11. ASSUME s \notin space_raced' PROVE SpaceSound(s)'
  <2>1. /\ SpaceSound(s) /\ CallSound(t, s)
        /\ \A u \in Member \ {t} : ~Inmate(u, s)'
    BY <1>1, <1>2, <1>5, <1>8, <1>11, InOwnSpace
  <2>2. Inmate(t, s)'
    BY <1>1, <1>2, <1>5, <1>6, <1>8 DEF Inmate
  <2>3. /\ space_lib[s].started /\ space_lib[s].end = space_endBrk[s]
        /\ space_lib[s].end + k.size + Align <= k.arg /\ MappedTo(s, k.next)
    BY <1>1, <2>1 DEF CallSound
  <2>4. ASSUME NEW n \in Int, n <= MaxHeap, MappedTo(s, n) PROVE MappedTo(s, n)'
    <3>1. ASSUME NEW a \in 0 .. n - 1 PROVE space_heap'[s][PageOf(a)] # -1
      <4>1. a \in 0 .. MaxHeap
        BY <2>4, SpaceConstants
      <4>2. space_heap[s][PageOf(a)] # -1
        BY <2>4 DEF MappedTo
      <4> QED
        BY <1>7, <4>1, <4>2, PageThere
    <3> QED
      BY <3>1 DEF MappedTo
  <2>5. PICK n \in Nat, m \in Nat, e \in Nat :
          n = k.next /\ m = k.next + PageUnits /\ e = space_lib[s].end
    <3>1. space_lib[s].end \in 0 .. MaxHeap
      BY DEF SpacesIInv, SpacesTyped
    <3> QED
      BY <1>3, <1>4, <3>1, SpaceConstants
  <2>6. MappedTo(s, m)'
    <3>1. \A a \in 0 .. n - 1 : space_heap'[s][PageOf(a)] # -1
      <4>1. MappedTo(s, n) /\ n \in Int /\ n <= MaxHeap
        BY <1>3, <2>3, <2>5, SpaceConstants
      <4> QED
        BY <2>4, <4>1 DEF MappedTo
    <3>2. ASSUME NEW a \in 0 .. m - 1 PROVE space_heap'[s][PageOf(a)] # -1
      <4>1. PageUnits \in Nat /\ a \in Int /\ m = n + PageUnits
        BY <2>5, SpaceConstants
      <4>2. CASE a < n
        <5>1. a \in 0 .. n - 1
          BY <4>1, <4>2
        <5> QED
          BY <3>1, <5>1
      <4>3. CASE ~(a < n)
        <5>1. a \in n .. n + PageUnits - 1
          BY <4>1, <4>3
        <5>2. PageOf(a) = PageOf(n)
          BY <1>3, <2>5, <5>1, SamePage
        <5> QED
          BY <1>7, <2>5, <5>2
      <4> QED
        BY <4>2, <4>3
    <3> QED
      BY <3>2 DEF MappedTo
  <2>7. MappedTo(s, e)'
    <3>1. space_lib[s].end \in 0 .. MaxHeap
      BY DEF SpacesIInv, SpacesTyped
    <3>2. MappedTo(s, e) /\ e \in Int /\ e <= MaxHeap
      BY <2>1, <2>5, <3>1, SpaceConstants DEF SpaceSound
    <3> QED
      BY <2>4, <3>2
  <2>8. CallSound(t, s)'
    BY <1>4, <1>5, <1>6, <1>8, <2>3, <2>5, <2>6 DEF CallSound
  <2> QED
    BY <1>5, <2>1, <2>2, <2>5, <2>7, <2>8 DEF SpaceSound
<1> QED
  BY <1>1, <1>2, <1>5, <1>7, <1>8, <1>9, <1>10, <1>11, StepKeeps

\* The loop ends: the kernel has the new end.
LEMMA BrkEndsKeeps ==
  ASSUME SpacesIInv, NEW t \in Member, Spaces!BrkEnds(t)
  PROVE  SpacesIInv'
<1>1. t \in space_live /\ space_call[t].at = "page" /\ space_call[t].next >= space_call[t].arg
  BY DEF Spaces!BrkEnds, Spaces!At
<1>2. PICK s \in Member : s = space_mm[t]
  BY <1>1, HomeOf
<1> DEFINE k == space_call[t]
<1>3. /\ k \in SpaceCalls /\ k.size \in Sizes /\ k.arg % PageUnits = 0
      /\ k.next % PageUnits = 0 /\ k.next \in 0 .. MaxHeap /\ k.arg \in 0 .. MaxHeap
  <2>1. /\ k \in SpaceCalls /\ k.size \in Sizes /\ k.arg % PageUnits = 0
        /\ k.next % PageUnits = 0
    BY <1>1 DEF SpacesIInv, SpacesTyped, OnPages, Paged
  <2> QED
    BY <2>1 DEF SpaceCalls
<1>4. UNCHANGED <<space_live, space_mm, space_code, space_heap, space_taken, space_wiped,
                  space_lib, space_blocks, space_raced>>
  BY DEF Spaces!BrkEnds, Spaces!tasks, Spaces!library
<1>5. PICK c \in SpaceCalls :
        Spaces!Goes(t, c) /\ c.at = "end" /\ c.size = k.size /\ c.arg = k.arg /\ c.next = k.next
  <2>1. Spaces!Goes(t, [k EXCEPT !.at = "end"])
    BY DEF Spaces!BrkEnds, Spaces!To
  <2>2. [k EXCEPT !.at = "end"] \in SpaceCalls
    BY <1>3 DEF SpaceCalls, SpacePlaces
  <2> QED
    BY <1>3, <2>1, <2>2 DEF SpaceCalls
<1>6. /\ space_endBrk' \in [Member -> 0 .. MaxHeap] /\ space_endBrk'[s] = k.next
      /\ \A r \in Member \ {s} : space_endBrk'[r] = space_endBrk[r]
  <2>1. space_endBrk' = [space_endBrk EXCEPT ![s] = k.next]
    BY <1>2 DEF Spaces!BrkEnds, Spaces!Space
  <2> QED
    BY <1>3, <2>1 DEF SpacesIInv, SpacesTyped
<1>7. /\ space_call' \in [Member -> SpaceCalls] /\ space_call'[t] = c
      /\ \A u \in Member \ {t} : space_call'[u] = space_call[u]
  BY <1>5, CallMoves DEF SpacesIInv
<1>8. SpacesTyped'
  BY <1>4, <1>6, <1>7 DEF SpacesIInv, SpacesTyped
<1>9. Paged(t)' /\ Whole(s)'
  BY <1>3, <1>4, <1>5, <1>6, <1>7 DEF SpacesIInv, OnPages, Paged, Whole
<1>10. space_wiped'
  <2>1. ~space_wiped => k.next = 0 /\ k.arg > 0
    BY <1>1 DEF SpacesIInv, Unwiped, Blank
  <2> QED
    BY <1>1, <1>3, <1>4, <2>1
<1>11. ASSUME s \notin space_raced' PROVE SpaceSound(s)'
  <2>1. /\ SpaceSound(s) /\ CallSound(t, s)
        /\ \A u \in Member \ {t} : ~Inmate(u, s)'
    BY <1>1, <1>2, <1>4, <1>7, <1>11, InOwnSpace
  <2>2. Inmate(t, s)'
    BY <1>1, <1>2, <1>4, <1>5, <1>7 DEF Inmate
  <2>3. /\ space_lib[s].started /\ k.next = k.arg
        /\ space_lib[s].end + k.size + Align <= k.arg /\ MappedTo(s, k.next)
    <3>1. /\ space_lib[s].started /\ k.next <= k.arg
          /\ space_lib[s].end + k.size + Align <= k.arg /\ MappedTo(s, k.next)
      BY <1>1, <2>1 DEF CallSound
    <3> QED
      BY <1>1, <1>3, <3>1
  <2>4. \A m : MappedTo(s, m)' <=> MappedTo(s, m)
    BY <1>4 DEF MappedTo
  <2>5. CallSound(t, s)'
    BY <1>4, <1>5, <1>6, <1>7, <2>3, <2>4 DEF CallSound
  <2> QED
    BY <1>4, <2>1, <2>2, <2>4, <2>5 DEF SpaceSound
<1> QED
  BY <1>1, <1>2, <1>4, <1>6, <1>7, <1>8, <1>9, <1>10, <1>11, StepKeeps

\* The library has it.
LEMMA SetEndKeeps ==
  ASSUME SpacesIInv, NEW t \in Member, Spaces!SetEnd(t)
  PROVE  SpacesIInv'
<1>1. t \in space_live /\ space_call[t].at = "end"
  BY DEF Spaces!SetEnd, Spaces!At
<1>2. PICK s \in Member : s = space_mm[t]
  BY <1>1, HomeOf
<1> DEFINE k == space_call[t]
           l == space_lib[s]
           Libs == [started : BOOLEAN, used : 0 .. MaxHeap, end : 0 .. MaxHeap]
<1>3. /\ k \in SpaceCalls /\ k.size \in Sizes /\ k.arg % PageUnits = 0
      /\ k.next % PageUnits = 0 /\ k.next \in 0 .. MaxHeap /\ l \in Libs
  <2>1. /\ k \in SpaceCalls /\ k.size \in Sizes /\ k.arg % PageUnits = 0
        /\ k.next % PageUnits = 0 /\ l \in Libs
    BY <1>1 DEF SpacesIInv, SpacesTyped, OnPages, Paged
  <2> QED
    BY <2>1 DEF SpaceCalls
<1>4. UNCHANGED <<space_live, space_mm, space_code, space_heap, space_taken, space_wiped,
                  space_endBrk, space_blocks, space_raced>>
  BY DEF Spaces!SetEnd, Spaces!tasks, Spaces!memory
<1>5. PICK c \in SpaceCalls :
        Spaces!Goes(t, c) /\ c.at = "take" /\ c.size = k.size /\ c.arg = k.arg /\ c.next = k.next
  <2>1. Spaces!Goes(t, [k EXCEPT !.at = "take"])
    BY DEF Spaces!SetEnd, Spaces!To
  <2>2. [k EXCEPT !.at = "take"] \in SpaceCalls
    BY <1>3 DEF SpaceCalls, SpacePlaces
  <2> QED
    BY <1>3, <2>1, <2>2 DEF SpaceCalls
<1>6. /\ space_lib' \in [Member -> Libs]
      /\ space_lib'[s].end = k.next /\ space_lib'[s].used = l.used
      /\ space_lib'[s].started = l.started
      /\ \A r \in Member \ {s} : space_lib'[r] = space_lib[r]
  <2>1. space_lib' = [space_lib EXCEPT ![s].end = k.next]
    BY <1>2 DEF Spaces!SetEnd, Spaces!Space
  <2>2. space_lib \in [Member -> Libs]
    BY DEF SpacesIInv, SpacesTyped
  <2> QED
    BY <1>3, <2>1, <2>2
<1>7. /\ space_call' \in [Member -> SpaceCalls] /\ space_call'[t] = c
      /\ \A u \in Member \ {t} : space_call'[u] = space_call[u]
  BY <1>5, CallMoves DEF SpacesIInv
<1>8. SpacesTyped'
  BY <1>4, <1>6, <1>7 DEF SpacesIInv, SpacesTyped
<1>9. Paged(t)' /\ Whole(s)'
  BY <1>3, <1>4, <1>5, <1>6, <1>7 DEF SpacesIInv, OnPages, Paged, Whole
<1>10. space_wiped'
  BY <1>1, <1>4 DEF SpacesIInv, Unwiped, Blank
<1>11. ASSUME s \notin space_raced' PROVE SpaceSound(s)'
  <2>1. /\ SpaceSound(s) /\ CallSound(t, s)
        /\ \A u \in Member \ {t} : ~Inmate(u, s)'
    BY <1>1, <1>2, <1>4, <1>7, <1>11, InOwnSpace
  <2>2. Inmate(t, s)'
    BY <1>1, <1>2, <1>4, <1>5, <1>7 DEF Inmate
  <2>3. /\ l.started /\ k.next = k.arg /\ space_endBrk[s] = k.arg
        /\ l.end + k.size + Align <= k.arg /\ MappedTo(s, k.arg) /\ l.used <= l.end
    BY <1>1, <2>1 DEF CallSound, SpaceSound
  <2>4. l.used + k.size + Align <= k.next /\ l.used <= k.next
    <3>1. /\ l.used \in Nat /\ l.end \in Nat /\ k.size \in Nat /\ k.next \in Nat
      <4>1. l.used \in Nat /\ l.end \in Nat /\ k.next \in Nat
        BY <1>3, SpaceConstants
      <4>2. k.size \in Nat
        BY <1>3, SpaceConstants
      <4> QED
        BY <4>1, <4>2
    <3> QED
      BY <2>3, <3>1, SpaceConstants
  <2>5. \A m : MappedTo(s, m)' <=> MappedTo(s, m)
    BY <1>4 DEF MappedTo
  <2>6. CallSound(t, s)'
    BY <1>4, <1>5, <1>6, <1>7, <2>3, <2>4 DEF CallSound
  <2> QED
    BY <1>4, <1>6, <2>1, <2>2, <2>3, <2>4, <2>5, <2>6 DEF SpaceSound
<1> QED
  BY <1>1, <1>2, <1>4, <1>6, <1>7, <1>8, <1>9, <1>10, <1>11, StepKeeps

\* malloc returns a block.
LEMMA BumpKeeps ==
  ASSUME SpacesIInv, NEW t \in Member, Spaces!Bump(t)
  PROVE  SpacesIInv'
<1>1. t \in space_live /\ space_call[t].at = "bump"
  BY DEF Spaces!Bump, Spaces!At
<1>2. PICK s \in Member : s = space_mm[t]
  BY <1>1, HomeOf
<1> DEFINE k == space_call[t]
           l == space_lib[s]
           Libs == [started : BOOLEAN, used : 0 .. MaxHeap, end : 0 .. MaxHeap]
           new == [from |-> k.next, size |-> k.size]
           Blocks == [from : 0 .. MaxHeap, size : Sizes]
<1>3. /\ k \in SpaceCalls /\ k.size \in Sizes /\ k.size \in Nat
      /\ k.next \in 0 .. MaxHeap /\ l \in Libs /\ l.used \in Nat /\ l.end \in Nat
      /\ Align \in Nat /\ k.next \in Nat
  <2>1. k \in SpaceCalls /\ k.size \in Sizes /\ l \in Libs
    BY <1>1 DEF SpacesIInv, SpacesTyped, OnPages, Paged
  <2>2. k.next \in 0 .. MaxHeap
    BY <2>1 DEF SpaceCalls
  <2>3. k.size \in Nat
    BY <2>1, SpaceConstants
  <2>4. l.used \in Nat /\ l.end \in Nat /\ k.next \in Nat
    BY <2>1, <2>2, SpaceConstants
  <2> QED
    BY <2>1, <2>2, <2>3, <2>4, SpaceConstants
<1>4. UNCHANGED <<space_live, space_mm, space_code, space_heap, space_taken, space_wiped,
                  space_endBrk, space_raced>>
  BY DEF Spaces!Bump, Spaces!tasks, Spaces!memory
<1>5. /\ Spaces!Out \in SpaceCalls /\ Spaces!Out.at = "out" /\ Spaces!Out.arg = 0
      /\ Spaces!Goes(t, Spaces!Out)
  BY SpaceConstants DEF Spaces!Bump, Spaces!Out, SpaceCalls, SpacePlaces, Spaces!NoFrame
<1>6. /\ space_lib' \in [Member -> Libs]
      /\ space_lib'[s].used = l.used + k.size + Align /\ space_lib'[s].end = l.end
      /\ space_lib'[s].started = l.started
      /\ \A r \in Member \ {s} : space_lib'[r] = space_lib[r]
  <2>1. /\ space_lib' = [space_lib EXCEPT ![s].used = l.used + k.size + Align]
        /\ l.used + k.size + Align <= MaxHeap
    BY <1>2 DEF Spaces!Bump, Spaces!Space
  <2>2. space_lib \in [Member -> Libs]
    BY DEF SpacesIInv, SpacesTyped
  <2>3. l.used + k.size + Align \in 0 .. MaxHeap
    BY <1>3, <2>1, SpaceConstants
  <2> QED
    BY <1>3, <2>1, <2>2, <2>3
<1>7. /\ space_blocks' \in [Member -> SUBSET Blocks]
      /\ space_blocks'[s] = space_blocks[s] \cup {new}
      /\ \A r \in Member \ {s} : space_blocks'[r] = space_blocks[r]
  <2>1. space_blocks' = [space_blocks EXCEPT ![s] = space_blocks[s] \cup {new}]
    BY <1>2 DEF Spaces!Bump, Spaces!Space
  <2>2. new \in Blocks
    BY <1>3
  <2>3. space_blocks \in [Member -> SUBSET Blocks]
    BY DEF SpacesIInv, SpacesTyped
  <2> HIDE DEF new, Blocks
  <2> QED
    BY <2>1, <2>2, <2>3
<1>8. /\ space_call' \in [Member -> SpaceCalls] /\ space_call'[t] = Spaces!Out
      /\ \A u \in Member \ {t} : space_call'[u] = space_call[u]
  BY <1>5, CallMoves DEF SpacesIInv
<1>9. SpacesTyped'
  BY <1>4, <1>6, <1>7, <1>8 DEF SpacesIInv, SpacesTyped
<1>10. Paged(t)' /\ Whole(s)'
  BY <1>4, <1>5, <1>6, <1>8, ZeroIsMultiple DEF SpacesIInv, OnPages, Paged, Whole
<1>11. space_wiped'
  BY <1>1, <1>4 DEF SpacesIInv, Unwiped, Blank
<1>12. ASSUME s \notin space_raced' PROVE SpaceSound(s)'
  <2>1. /\ SpaceSound(s) /\ CallSound(t, s)
        /\ \A u \in Member \ {t} : ~Inmate(u, s)'
    BY <1>1, <1>2, <1>4, <1>8, <1>12, InOwnSpace
  <2>2. ~Inmate(t, s)'
    BY <1>5, <1>8 DEF Inmate
  <2>3. /\ l.started /\ l.end = space_endBrk[s] /\ l.used + k.size + Align <= l.end
        /\ k.next = l.used /\ MappedTo(s, l.end)
    BY <1>1, <2>1 DEF CallSound, SpaceSound
  <2>4. \A m : MappedTo(s, m)' <=> MappedTo(s, m)
    BY <1>4 DEF MappedTo
  <2>5. \A b \in space_blocks[s] : /\ b.from + b.size + Align <= l.used
                                   /\ b.from \in Nat /\ b.size \in Nat
    <3>1. TAKE b \in space_blocks[s]
    <3>2. b \in Blocks
      BY <3>1 DEF SpacesIInv, SpacesTyped
    <3>3. b.from \in 0 .. MaxHeap /\ b.size \in Sizes
      BY <3>2
    <3>4. b.size \in Nat
      BY <3>3, SpaceConstants
    <3> QED
      BY <2>1, <3>1, <3>3, <3>4, SpaceConstants DEF SpaceSound
  <2>6. ASSUME NEW b \in space_blocks'[s]
        PROVE  b.from + b.size + Align <= l.used + k.size + Align
    <3>1. CASE b = new
      BY <1>3, <2>3, <3>1
    <3>2. CASE b \in space_blocks[s]
      BY <1>3, <2>5, <3>2
    <3> QED
      BY <1>7, <3>1, <3>2
  <2>7. ASSUME NEW b \in space_blocks'[s], NEW c \in space_blocks'[s]
        PROVE  b = c \/ b.from + b.size + Align <= c.from \/ c.from + c.size + Align <= b.from
    <3>1. CASE b \in space_blocks[s] /\ c \in space_blocks[s]
      BY <2>1, <3>1 DEF SpaceSound
    <3>2. CASE b = new /\ c \in space_blocks[s]
      BY <2>3, <2>5, <3>2
    <3>3. CASE c = new /\ b \in space_blocks[s]
      BY <2>3, <2>5, <3>3
    <3>4. CASE b = new /\ c = new
      BY <3>4
    <3> QED
      BY <1>7, <3>1, <3>2, <3>3, <3>4
  <2> QED
    BY <1>4, <1>6, <2>1, <2>2, <2>3, <2>4, <2>6, <2>7 DEF SpaceSound
<1> QED
  BY <1>1, <1>2, <1>4, <1>6, <1>7, <1>8, <1>9, <1>10, <1>11, <1>12, StepKeeps

\* A space none of whose tasks changes, with its tasks the same, stays sound.
LEMMA OtherSpaceKeeps ==
  ASSUME NEW r, SpaceSound(r), UNCHANGED space_call,
         \A x \in Member : x \in space_live' /\ space_mm'[x] = r
           => (x \in space_live /\ space_mm[x] = r) \/ space_call[x].at = "out",
         \A x \in Member : x \in space_live /\ space_mm[x] = r
           => x \in space_live' /\ space_mm'[x] = r,
         space_endBrk'[r] = space_endBrk[r], space_heap'[r] = space_heap[r],
         space_lib'[r] = space_lib[r], space_blocks'[r] = space_blocks[r]
  PROVE  SpaceSound(r)'
<1>1. \A x \in Member : Inmate(x, r)' <=> Inmate(x, r)
  BY DEF Inmate
<1>2. \A n : MappedTo(r, n)' <=> MappedTo(r, n)
  BY DEF MappedTo
<1>3. \A x \in Member : CallSound(x, r) => CallSound(x, r)'
  BY <1>2 DEF CallSound
<1> QED
  BY <1>1, <1>2, <1>3 DEF SpaceSound

\* fork: no heap anywhere, so that the child's space has none.
LEMMA ForkKeeps ==
  ASSUME SpacesIInv, NEW t \in Member, Spaces!Fork(t)
  PROVE  SpacesIInv'
<1>1. t \in space_live /\ space_call[t].at = "out" /\ ~space_wiped
  BY DEF Spaces!Fork, Spaces!At, Spaces!NoKmalloc
<1>2. PICK s \in Member : s = space_mm[t]
  BY <1>1, HomeOf
<1>3. PICK u \in Member \ space_live, f \in (0 .. Frames - 1) \ space_taken :
       /\ space_live' = space_live \cup {u}
       /\ space_mm' = [space_mm EXCEPT ![u] = u]
       /\ space_code' = [space_code EXCEPT ![u] = f]
       /\ space_taken' = space_taken \cup {f}
       /\ space_endBrk' = [space_endBrk EXCEPT ![u] = space_endBrk[s]]
       /\ space_lib' = [space_lib EXCEPT ![u] = space_lib[s]]
       /\ space_blocks' = [space_blocks EXCEPT ![u] = space_blocks[s]]
       /\ space_raced' = IF s \in space_raced THEN space_raced \cup {u} ELSE space_raced
  BY <1>2 DEF Spaces!Fork, Spaces!Space, Spaces!Frame, Member
<1>4. UNCHANGED <<space_heap, space_wiped, space_call>>
  BY DEF Spaces!Fork
<1> USE DEF SpacesIInv
<1>5. /\ space_mm'[u] = u /\ space_code'[u] = f /\ space_endBrk'[u] = space_endBrk[s]
      /\ space_lib'[u] = space_lib[s] /\ space_blocks'[u] = space_blocks[s]
      /\ \A x \in Member \ {u} : /\ space_mm'[x] = space_mm[x] /\ space_code'[x] = space_code[x]
                                 /\ space_endBrk'[x] = space_endBrk[x]
                                 /\ space_lib'[x] = space_lib[x]
                                 /\ space_blocks'[x] = space_blocks[x]
  BY <1>3 DEF SpacesTyped
<1>6. SpacesTyped'
  <2>1. /\ space_live' \subseteq Member /\ space_raced' \subseteq Member
        /\ space_taken' \subseteq 0 .. Frames - 1
    BY <1>3 DEF SpacesTyped
  <2>2. /\ space_mm' \in [Member -> Member]
        /\ space_code' \in [Member -> (0 .. Frames - 1) \cup {-1}]
        /\ space_endBrk' \in [Member -> 0 .. MaxHeap]
    BY <1>3 DEF SpacesTyped
  <2>3. /\ space_lib' \in [Member -> [started : BOOLEAN, used : 0 .. MaxHeap, end : 0 .. MaxHeap]]
        /\ space_blocks' \in [Member -> SUBSET [from : 0 .. MaxHeap, size : Sizes]]
    BY <1>3 DEF SpacesTyped
  <2> QED
    BY <1>4, <2>1, <2>2, <2>3 DEF SpacesTyped
<1>7. OnPages'
  <2>1. \A x \in Member : Paged(x)'
    BY <1>4 DEF OnPages, Paged
  <2>2. \A x \in Member : Whole(x)'
    BY <1>5 DEF OnPages, Whole
  <2> QED
    BY <2>1, <2>2 DEF OnPages
<1>8. Spaced'
  <2>1. \A x \in Member \ space_live' : space_call'[x].at = "out"
    BY <1>3, <1>4 DEF Spaced
  <2>2. ASSUME NEW x \in space_live'
        PROVE  x \in Member /\ space_mm'[x] \in space_live' /\ space_mm'[space_mm'[x]] = space_mm'[x]
    <3>1. CASE x = u
      BY <1>3, <1>5, <3>1
    <3>2. CASE x \in space_live
      <4>1. space_mm[x] \in space_live /\ space_mm[x] # u /\ x # u /\ x \in Member
            /\ space_mm[x] \in Member /\ space_mm[space_mm[x]] = space_mm[x]
        BY <1>3, <3>2, HomeOf
      <4> QED
        BY <1>3, <1>5, <4>1
    <3> QED
      BY <1>3, <3>1, <3>2
  <2>3. 0 \in space_taken'
    BY <1>3 DEF Spaced
  <2>4. ASSUME NEW x \in space_live', space_mm'[x] = x
        PROVE  /\ space_code'[x] \in space_taken' /\ space_code'[x] # 0
               /\ \A y \in space_live' :
                    space_mm'[y] = y /\ space_code'[y] = space_code'[x] => y = x
    <3>1. f # 0
      BY <1>3 DEF Spaced
    <3>2. \A y \in space_live : /\ y \in Member \ {u}
                                /\ space_mm'[y] = y => space_code'[y] \in space_taken
      BY <1>3, <1>5, HomeOf DEF Spaced
    <3>3. CASE x = u
      BY <1>3, <1>5, <3>1, <3>2, <3>3
    <3>4. CASE x \in space_live
      <4>1. space_mm[x] = x /\ space_code'[x] = space_code[x]
        BY <1>5, <2>4, <3>2, <3>4
      <4>2. space_code[x] \in space_taken /\ space_code[x] # 0
        BY <3>4, <4>1 DEF Spaced
      <4>3. ASSUME NEW y \in space_live', space_mm'[y] = y, space_code'[y] = space_code'[x]
            PROVE  y = x
        <5>1. CASE y = u
          BY <1>3, <1>5, <4>1, <4>2, <4>3, <5>1
        <5>2. CASE y \in space_live
          <6>1. space_mm[y] = y /\ space_code[y] = space_code[x]
            BY <1>5, <3>2, <4>1, <4>3, <5>2
          <6> QED
            BY <3>4, <4>1, <5>2, <6>1 DEF Spaced
        <5> QED
          BY <1>3, <5>1, <5>2
      <4> QED
        BY <1>3, <4>1, <4>2, <4>3
    <3> QED
      BY <1>3, <3>3, <3>4
  <2> QED
    BY <2>1, <2>2, <2>3, <2>4 DEF Spaced
<1>9. /\ \A x \in Member : Blank(x) /\ NoHeap(x)
  BY <1>1 DEF Unwiped
<1>10. Unwiped'
  <2>1. \A x \in Member : Blank(x)'
    BY <1>4, <1>9 DEF Blank
  <2>2. \A x \in Member : NoHeap(x)'
    BY <1>2, <1>4, <1>5, <1>9 DEF NoHeap
  <2> QED
    BY <2>1, <2>2 DEF Unwiped
<1>11. Unraced'
  <2>1. SUFFICES ASSUME NEW r \in space_live', space_mm'[r] = r, r \notin space_raced'
                 PROVE  SpaceSound(r)'
    BY DEF Unraced
  <2>2. CASE r = u
    <3>1. \A x \in Member : ~Inmate(x, u)'
      <4>1. SUFFICES ASSUME NEW x \in Member, Inmate(x, u)' PROVE FALSE
        OBVIOUS
      <4>2. x \in space_live' /\ space_mm'[x] = u /\ space_call[x].at \notin {"out", "fault"}
        BY <1>4, <4>1 DEF Inmate
      <4>3. x # u
        BY <1>3, <4>2 DEF Spaced
      <4>4. x \in space_live /\ space_mm[x] = u
        BY <1>3, <1>5, <4>2, <4>3
      <4> QED
        BY <1>3, <4>4, HomeOf
    <3>2. /\ space_lib'[u].end = 0 /\ space_lib'[u].used = 0 /\ space_endBrk'[u] = 0
          /\ space_blocks'[u] = {}
      BY <1>2, <1>5, <1>9 DEF NoHeap
    <3>3. MappedTo(u, 0)'
      BY DEF MappedTo
    <3> QED
      BY <2>2, <3>1, <3>2, <3>3 DEF SpaceSound
  <2>3. CASE r # u
    <3>1. r \in space_live /\ r \in Member /\ space_mm[r] = r /\ r \notin space_raced
      BY <1>3, <1>5, <2>1, <2>3 DEF SpacesTyped
    <3>2. SpaceSound(r)
      BY <3>1 DEF Unraced
    <3>3. \A x \in Member : x \in space_live' /\ space_mm'[x] = r
            => (x \in space_live /\ space_mm[x] = r) \/ space_call[x].at = "out"
      BY <1>3, <1>5, <2>3
    <3>4. \A x \in Member : x \in space_live /\ space_mm[x] = r
            => x \in space_live' /\ space_mm'[x] = r
      BY <1>3, <1>5
    <3>5. /\ space_endBrk'[r] = space_endBrk[r] /\ space_heap'[r] = space_heap[r]
          /\ space_lib'[r] = space_lib[r] /\ space_blocks'[r] = space_blocks[r]
      BY <1>4, <1>5, <2>3, <3>1
    <3> QED
      BY <1>4, <3>2, <3>3, <3>4, <3>5, OtherSpaceKeeps
  <2> QED
    BY <2>2, <2>3
<1> QED
  BY <1>6, <1>7, <1>8, <1>10, <1>11

\* vfork: one more task in the space, outside malloc.
LEMMA VforkKeeps ==
  ASSUME SpacesIInv, NEW t \in Member, Spaces!Vfork(t)
  PROVE  SpacesIInv'
<1>1. t \in space_live
  BY DEF Spaces!Vfork, Spaces!At
<1>2. PICK s \in Member : s = space_mm[t] /\ s \in space_live /\ space_mm[s] = s
  BY <1>1, HomeOf
<1>3. PICK u \in Member \ space_live :
        space_live' = space_live \cup {u} /\ space_mm' = [space_mm EXCEPT ![u] = s]
  BY <1>2 DEF Spaces!Vfork, Spaces!Space, Member
<1>4. UNCHANGED <<space_code, space_heap, space_endBrk, space_taken, space_wiped, space_lib,
                  space_call, space_blocks, space_raced>>
  BY DEF Spaces!Vfork, Spaces!memory, Spaces!library
<1> USE DEF SpacesIInv
<1>5. space_mm'[u] = s /\ \A x \in Member \ {u} : space_mm'[x] = space_mm[x]
  BY <1>3 DEF SpacesTyped
<1>6. SpacesTyped'
  BY <1>3, <1>4 DEF SpacesTyped
<1>7. OnPages'
  BY <1>4 DEF OnPages, Paged, Whole
<1>8. \A x \in space_live' : space_mm'[x] = x => x \in space_live /\ space_mm[x] = x /\ x \in Member
  BY <1>2, <1>3, <1>5, HomeOf
<1>9. Spaced'
  <2>1. \A x \in Member \ space_live' : space_call'[x].at = "out"
    BY <1>3, <1>4 DEF Spaced
  <2>2. ASSUME NEW x \in space_live'
        PROVE  space_mm'[x] \in space_live' /\ space_mm'[space_mm'[x]] = space_mm'[x]
    <3>1. CASE x = u
      BY <1>2, <1>3, <1>5, <3>1
    <3>2. CASE x \in space_live
      <4>1. space_mm[x] \in space_live /\ space_mm[x] # u /\ x # u /\ x \in Member
            /\ space_mm[x] \in Member /\ space_mm[space_mm[x]] = space_mm[x]
        BY <1>3, <3>2, HomeOf
      <4> QED
        BY <1>3, <1>5, <4>1
    <3> QED
      BY <1>3, <3>1, <3>2
  <2> QED
    BY <1>4, <1>8, <2>1, <2>2 DEF Spaced
<1>10. Unwiped'
  BY <1>4 DEF Unwiped, Blank, NoHeap
<1>11. Unraced'
  <2>1. SUFFICES ASSUME NEW r \in space_live', space_mm'[r] = r, r \notin space_raced'
                 PROVE  SpaceSound(r)'
    BY DEF Unraced
  <2>2. SpaceSound(r) /\ r \in Member
    BY <1>4, <1>8, <2>1 DEF Unraced
  <2>3. \A x \in Member : x \in space_live' /\ space_mm'[x] = r
          => (x \in space_live /\ space_mm[x] = r) \/ space_call[x].at = "out"
    BY <1>3, <1>5 DEF Spaced
  <2>4. \A x \in Member : x \in space_live /\ space_mm[x] = r
          => x \in space_live' /\ space_mm'[x] = r
    BY <1>3, <1>5
  <2> QED
    BY <1>4, <2>2, <2>3, <2>4, OtherSpaceKeeps
<1> QED
  BY <1>6, <1>7, <1>9, <1>10, <1>11

\* Every step of a task keeps the invariant of the address spaces.
LEMMA SpacesStep ==
  ASSUME SpacesIInv, [Spaces!Next]_spaceVars
  PROVE  SpacesIInv'
<1>1. CASE UNCHANGED spaceVars
  <2> USE <1>1 DEF spaceVars
  <2>1. SpacesTyped'
    BY DEF SpacesIInv, SpacesTyped
  <2>2. OnPages'
    BY DEF SpacesIInv, OnPages, Paged, Whole
  <2>3. Spaced'
    BY DEF SpacesIInv, Spaced
  <2>4. Unwiped'
    BY DEF SpacesIInv, Unwiped, Blank, NoHeap
  <2>5. Unraced'
    <3>1. \A x, r \in Member : Inmate(x, r)' <=> Inmate(x, r)
      BY DEF Inmate
    <3>2. \A r \in Member : \A n : MappedTo(r, n)' <=> MappedTo(r, n)
      BY DEF MappedTo
    <3>3. \A x, r \in Member : CallSound(x, r) => CallSound(x, r)'
      BY <3>2 DEF CallSound
    <3>4. \A r \in Member : SpaceSound(r) => SpaceSound(r)'
      BY <3>1, <3>2, <3>3 DEF SpaceSound
    <3> QED
      BY <3>4 DEF SpacesIInv, SpacesTyped, Unraced
  <2> QED
    BY <2>1, <2>2, <2>3, <2>4, <2>5 DEF SpacesIInv
<1>2. CASE Spaces!Next
  <2>1. PICK t \in Member : Spaces!TaskStep(t)
    BY <1>2 DEF Spaces!Next, Member
  <2>2. \/ Spaces!Malloc(t) \/ Spaces!Start(t) \/ Spaces!Test(t) \/ Spaces!Brk(t)
        \/ Spaces!Page(t) \/ Spaces!Map(t) \/ Spaces!BrkEnds(t) \/ Spaces!SetEnd(t)
        \/ Spaces!Take(t) \/ Spaces!Bump(t) \/ Spaces!ForkFaults(t) \/ Spaces!Fork(t)
        \/ Spaces!Vfork(t)
    BY <2>1 DEF Spaces!TaskStep
  <2> QED
    BY <2>2, MallocKeeps, StartKeeps, TestKeeps, BrkKeeps, PageKeeps, MapKeeps, BrkEndsKeeps,
       SetEndKeeps, TakeBlockKeeps, BumpKeeps, ForkFaultsKeeps, ForkKeeps, VforkKeeps
<1> QED
  BY <1>1, <1>2

\* From the invariant to what AddressSpace says.
LEMMA SpacesAreSound ==
  ASSUME SpacesIInv
  PROVE  Spaces!Sound
<1>1. Spaces!TypeOK
  <2>1. \A t \in Member : space_call[t] \in SpaceCalls
    BY DEF SpacesIInv, SpacesTyped
  <2>2. /\ \A t \in Member : /\ space_call[t].at \in SpacePlaces /\ space_call[t].arg % PageUnits = 0
                             /\ space_call[t].next \in 0 .. MaxHeap
    BY <2>1 DEF SpaceCalls, SpacesIInv, OnPages, Paged
  <2>3. \A t \in Member : \A b \in space_blocks[t] : b.from \in 0 .. MaxHeap /\ b.size \in Sizes
    <3>1. \A t \in Member : space_blocks[t] \in SUBSET [from : 0 .. MaxHeap, size : Sizes]
      BY DEF SpacesIInv, SpacesTyped
    <3> QED
      BY <3>1
  <2>4. space_heap \in [Member -> [HeapPages -> (0 .. Frames - 1) \cup {-1}]]
    <3>1. 0 \in 0 .. Frames - 1
      BY SpaceConstants
    <3>2. \A t \in Member : space_heap[t] \in [HeapPages -> {0, -1}]
      BY DEF SpacesIInv, SpacesTyped
    <3>3. \A t \in Member : space_heap[t] \in [HeapPages -> (0 .. Frames - 1) \cup {-1}]
      BY <3>1, <3>2
    <3> QED
      BY <3>3 DEF SpacesIInv, SpacesTyped
  <2> QED
    BY <2>2, <2>3, <2>4 DEF SpacesIInv, SpacesTyped, Spaces!TypeOK, Member, SpacePlaces, HeapPages,
       Spaces!Address, Spaces!Frame, Spaces!NoFrame, Spaces!Pages, Spaces!Libs
<1>2. Spaces!SpacesApart
  <2>1. SUFFICES ASSUME NEW t \in {space_mm[x] : x \in space_live},
                        NEW u \in {space_mm[x] : x \in space_live}
                 PROVE  /\ t # u => space_code[t] # space_code[u]
                        /\ \A p \in HeapPages : space_heap[t][p] # space_code[u] \/ space_heap[t][p] = -1
    BY DEF Spaces!SpacesApart, HeapPages, Spaces!Pages, Spaces!NoFrame
  <2>2. /\ t \in space_live /\ space_mm[t] = t /\ t \in Member
        /\ u \in space_live /\ space_mm[u] = u
    BY HomeOf
  <2>4. \A p \in HeapPages : space_heap[t][p] \in {0, -1}
    BY <2>2 DEF SpacesIInv, SpacesTyped
  <2>5. t # u => space_code[t] # space_code[u]
    BY <2>2 DEF SpacesIInv, Spaced
  <2>6. space_code[u] # 0
    BY <2>2 DEF SpacesIInv, Spaced
  <2> QED
    BY <2>4, <2>5, <2>6
<1>3. Spaces!BlocksSound
  <2>1. SUFFICES ASSUME NEW t \in space_live, space_mm[t] \notin space_raced,
                        NEW b \in space_blocks[space_mm[t]]
                 PROVE  /\ \A c \in space_blocks[space_mm[t]] :
                             \/ c = b
                             \/ b.from + b.size + Align <= c.from
                             \/ c.from + c.size + Align <= b.from
                        /\ \A a \in b.from .. b.from + b.size - 1 :
                             space_heap[space_mm[t]][a \div PageUnits] # -1
    BY DEF Spaces!BlocksSound, Spaces!NoFrame
  <2>2. PICK s \in space_live : s = space_mm[t] /\ space_mm[s] = s /\ s \in Member
    BY HomeOf
  <2>3. SpaceSound(s)
    BY <2>1, <2>2 DEF SpacesIInv, Unraced
  <2>4. \A c \in space_blocks[s] :
          b = c \/ b.from + b.size + Align <= c.from \/ c.from + c.size + Align <= b.from
    BY <2>2, <2>3 DEF SpaceSound
  <2>5. ASSUME NEW a \in b.from .. b.from + b.size - 1
        PROVE  space_heap[s][a \div PageUnits] # -1
    <3>1. b.from \in Nat /\ b.size \in Nat
      <4>1. b \in [from : 0 .. MaxHeap, size : Sizes]
        BY <2>2 DEF SpacesIInv, SpacesTyped
      <4>2. b.from \in 0 .. MaxHeap /\ b.size \in Sizes
        BY <4>1
      <4>3. b.size \in Nat
        BY <4>2, SpaceConstants
      <4> QED
        BY <4>2, <4>3
    <3>2. PICK used \in Nat, end \in Nat : used = space_lib[s].used /\ end = space_lib[s].end
      <4>1. space_lib[s] \in [started : BOOLEAN, used : 0 .. MaxHeap, end : 0 .. MaxHeap]
        BY <2>2 DEF SpacesIInv, SpacesTyped
      <4> QED
        BY <4>1, SpaceConstants
    <3>3. b.from + b.size + Align <= used /\ used <= end /\ MappedTo(s, end)
      BY <2>2, <2>3, <3>2 DEF SpaceSound
    <3>4. a \in 0 .. end - 1
      BY <2>5, <3>1, <3>2, <3>3, SpaceConstants
    <3>5. space_heap[s][PageOf(a)] # -1
      BY <3>3, <3>4 DEF MappedTo
    <3> QED
      BY <3>5 DEF PageOf
  <2> QED
    BY <2>2, <2>4, <2>5
<1>4. Spaces!EndsAgree
  <2>1. SUFFICES ASSUME NEW t \in space_live, space_mm[t] \notin space_raced,
                        \A u \in space_live : space_mm[u] = space_mm[t] => ~Spaces!InMalloc(u)
                 PROVE  space_lib[space_mm[t]].end = space_endBrk[space_mm[t]]
    BY DEF Spaces!EndsAgree
  <2>2. PICK s \in space_live : s = space_mm[t] /\ space_mm[s] = s /\ s \in Member
    BY HomeOf
  <2>3. SpaceSound(s)
    BY <2>1, <2>2 DEF SpacesIInv, Unraced
  <2>4. \A u \in Member : ~Inmate(u, s)
    BY <2>1, <2>2 DEF Inmate, Spaces!InMalloc
  <2> QED
    BY <2>2, <2>3, <2>4 DEF SpaceSound
<1>5. Spaces!NoHeapToCopy
  <2>1. \A t \in space_live : space_endBrk[space_mm[t]] # 0 => space_wiped
    BY HomeOf DEF SpacesIInv, Unwiped, NoHeap
  <2> QED
    BY <2>1 DEF Spaces!NoHeapToCopy, Spaces!NoKmalloc
<1> QED
  BY <1>1, <1>2, <1>3, <1>4, <1>5 DEF Spaces!Sound

\* Whatever tasks there are, and in whatever order they fork, call brk and malloc: no space
\* reaches the code of another, the blocks of a space that no two tasks were in malloc in are
\* apart and mapped, and no heap is ever copied (task.c:162, malloc.c:17, memory.c:862).
THEOREM SpacesStaySound == AllSpec => []SpacesSound
<1> DEFINE Remains == part = "spaces" => SpacesIInv
<1>1. AllInit => Remains
  BY SpacesBegin DEF AllInit
<1>2. Remains /\ [AllNext]_allVars => Remains'
  <2>1. SUFFICES ASSUME Remains, [AllNext]_allVars, part' = "spaces" PROVE SpacesIInv'
    OBVIOUS
  <2>2. part = "spaces" /\ [Spaces!Next]_spaceVars
    BY <2>1 DEF AllNext, PagesNext, SlabsNext, SpacesNext, allVars
  <2> QED
    BY <2>1, <2>2, SpacesStep
<1>3. Remains => SpacesSound
  BY SpacesAreSound DEF SpacesSound
<1> QED
  BY <1>1, <1>2, <1>3, PTL DEF AllSpec

-----------------------------------------------------------------------------
\* The slabs.
SlabUnit == 0 .. Colors - 1
SlabPlaces == {"out", "choose", "walk", "full", "create", "load", "store", "check", "page"}
SlabFields == {"map", "using", "free", "total", "size", "drop"}
Adding == {"add1", "add2", "add3", "add4"}
Deleting == {"del1", "del2"}
SlabCalls == [at : SlabPlaces, job : {"take", "give"}, field : SlabFields \cup Adding \cup Deleting,
              slab : SlabPage, unit : SlabUnit, word : SUBSET SlabUnit, count : Int,
              next : SlabPage, prev : SlabPage]
Strikes == SlabFields \cup {"slab", "list", "walk", "shared"}
Owns(s) == {j \in SlabUnit : slab_owners[<<s, j>>] > 0}
NotHit(what) == slab_struck \cap what = {}
Moving == {"load", "store"}

\* The fields that a kmalloc and a kfree come to.
SlabForms ==
  {c \in SlabCalls :
     /\ c.at \in {"choose", "walk", "full", "create"} => c.job = "take" /\ c.field = "map"
     /\ c.at = "choose" => c.slab = FirstSlab
     /\ c.at \in {"check", "page"} => c.job = "give" /\ c.field = "map"
     /\ c.at \in Moving =>
          c.field \notin IF c.job = "take" THEN Deleting \cup {"drop"} ELSE Adding \cup {"size"}
     /\ c.at \in Moving /\ c.field \in Deleting => c.slab # FirstSlab
     /\ c.at = "load" => c.field \notin {"add3", "add4"}}

\* What the variables hold: more than TypeOK says of the calls, and the first slab is
\* never unlisted.
SlabsTyped ==
  /\ slab_list \in ListMemory(SlabPage)
  /\ slab_pool \subseteq SlabPage /\ FirstSlab \in slab_pool
  /\ slab_map \in [SlabPage -> SUBSET SlabUnit]
  /\ slab_using \in [SlabPage -> Int] /\ slab_free \in [SlabPage -> Int] /\ slab_total \in Int
  /\ slab_pages \subseteq SlabPage
  /\ slab_owners \in [SlabPage \X SlabUnit -> Nat]
  /\ slab_call \in [Task -> SlabForms]
  /\ slab_struck \subseteq Strikes

\* What a call has done to its slab and not yet to the rest: the bit that is set and has no
\* owner, the object that is in using_count, the one that is not in free_count, the objects
\* that total_free has too many, the slab that is not in the list.
Bits(c, s) ==
  IF /\ c.slab = s /\ c.at \in Moving
     /\ c.field \in IF c.job = "take" THEN {"using", "free", "total"} ELSE {"map"}
  THEN {c.unit} ELSE {}
Used(c, s) ==
  IF /\ c.slab = s /\ c.at \in Moving
     /\ c.field \in IF c.job = "take" THEN {"free", "total"} ELSE {"map", "free", "using"}
  THEN 1 ELSE 0
Gone(c, s) ==
  IF /\ c.slab = s /\ c.at \in Moving
     /\ c.field \in IF c.job = "take" THEN {"total"} ELSE {"map", "free"}
  THEN 1 ELSE 0
Ahead(c) ==
  IF c.at \in Moving /\ c.field \in Adding \cup {"drop"} THEN Colors
  ELSE IF c.at \in Moving /\ c.job = "give" /\ c.field \notin Deleting THEN -1 ELSE 0
OnlyHis(c) == IF c.at = "page" \/ (c.at \in Moving /\ c.field \in Adding \cup {"size", "drop"})
              THEN {c.slab} ELSE {}

\* The maps and the counters, but for that.
MapSound(s, bits) ==
  Owns(s) \cup bits \subseteq slab_map[s] /\ (NotHit({"map"}) => slab_map[s] = Owns(s) \cup bits)
UsingSound(s, n) ==
  /\ Cardinality(Owns(s)) + n <= slab_using[s]
  /\ NotHit({"using"}) => slab_using[s] = Cardinality(Owns(s)) + n
FreeSound(s, n) ==
  /\ slab_free[s] <= (Colors - Cardinality(Owns(s))) - n
  /\ NotHit({"free"}) => slab_free[s] = (Colors - Cardinality(Owns(s))) - n
Spares == {o \in slab_pool \X SlabUnit : slab_owners[o] = 0}
MapsAre(c) == \A s \in slab_pool : MapSound(s, Bits(c, s))
UsingsAre(c) == \A s \in slab_pool : UsingSound(s, Used(c, s))
FreesAre(c) == \A s \in slab_pool : FreeSound(s, Gone(c, s))
TotalIs(c) == NotHit({"total", "size", "drop"}) => slab_total = Cardinality(Spares) + Ahead(c)
PagesAre(c) == SlabPage \subseteq slab_pages \cup slab_pool \cup OnlyHis(c)

\* The pointers lead along the slabs of the list, but for the stores of list_add_before and
\* list_delete that are to come.
Plain(c) == c.at \notin Moving \/ c.field \notin {"add2", "add3", "add4", "del2"}
Leads(c) ==
  /\ Plain(c) => WellLinked(slab_list, slab_pool, FirstSlab)
  /\ c.at \in Moving /\ c.field = "add2" => HalfAdded(slab_list, FirstSlab, slab_pool, c.slab)
  /\ c.at \in Moving /\ c.field = "add3" =>
       WellLinked(Completed(slab_list, FirstSlab, c.slab, TRUE), slab_pool \cup {c.slab}, FirstSlab)
  /\ c.at \in Moving /\ c.field = "add4" =>
       WellLinked(Completed(slab_list, FirstSlab, c.slab, FALSE), slab_pool \cup {c.slab}, FirstSlab)
  /\ c.at \in Moving /\ c.field = "del2" => HalfDeleted(slab_list, FirstSlab, slab_pool, c.slab)
SlabsAre(c) == MapsAre(c) /\ UsingsAre(c) /\ FreesAre(c) /\ TotalIs(c) /\ PagesAre(c) /\ Leads(c)

\* What a call has in hand, and what it has loaded.
HandSound(c) ==
  /\ \/ c.at \in {"walk", "full", "check"}
     \/ c.at \in Moving /\ c.field \in {"map", "using", "free", "total"} \cup Deleting
     => c.slab \in slab_pool
  /\ \A s \in OnlyHis(c) : s \notin slab_pool /\ s \notin slab_pages
  /\ c.at \in Moving /\ c.field \in Adding \cup {"size"} =>
       slab_map[c.slab] = {} /\ slab_using[c.slab] = 0 /\ slab_free[c.slab] = Colors
  /\ c.at \in Moving /\ c.field \in Deleting => Owns(c.slab) = {}
  /\ \/ c.job = "take" /\ c.at \in Moving /\ c.field \in {"using", "free", "total"}
     \/ c.job = "take" /\ c.at = "store" /\ c.field = "map"
     \/ c.job = "give" /\ c.at \in Moving /\ c.field = "map"
     => c.unit \notin Owns(c.slab)
LoadSound(c) ==
  c.at = "store" =>
    /\ c.field = "map" =>
         /\ slab_map[c.slab] \subseteq c.word /\ (NotHit({"map"}) => c.word = slab_map[c.slab])
         /\ c.job = "take" => c.unit \notin c.word
    /\ c.field = "using" =>
         slab_using[c.slab] <= c.count /\ (NotHit({"using"}) => c.count = slab_using[c.slab])
    /\ c.field = "free" =>
         c.count <= slab_free[c.slab] /\ (NotHit({"free"}) => c.count = slab_free[c.slab])
    /\ c.field \in {"total", "size", "drop"} => (NotHit({c.field}) => c.count = slab_total)
    /\ c.field \in {"add1", "add2"} => c.prev = slab_list.prev[FirstSlab]
    /\ c.field \in Deleting => c.next = slab_list.next[c.slab] /\ c.prev = slab_list.prev[c.slab]

\* The slab that was chosen has a clear bit; and while kmalloc walks along the list, a slab
\* with a free object is still to come: whoever goes on to the end of the list meets it.
Undisturbed == NotHit({"map", "free", "total", "size", "drop", "walk"})
Onward(S) == \A n \in S : slab_list.next[n] # FirstSlab => slab_list.next[n] \in S
HasFree(S) == \E n \in S : n \in slab_pool /\ slab_free[n] # 0
Chosen(c) ==
  /\ c.job = "take" /\ c.at = "load" /\ c.field = "map" /\ Undisturbed => slab_map[c.slab] # SlabUnit
  /\ c.at = "walk" /\ Undisturbed =>
       \A S \in SUBSET SlabPage : c.slab \in S /\ Onward(S) => HasFree(S)
  /\ c.at = "full" /\ Undisturbed =>
       /\ slab_list.next[c.slab] # FirstSlab
       /\ \A S \in SUBSET SlabPage : slab_list.next[c.slab] \in S /\ Onward(S) => HasFree(S)
InHand(c) == SlabsAre(c) /\ HandSound(c) /\ LoadSound(c) /\ Chosen(c)

\* No slab is in the list and in the pages, and objects that somebody has are in the list.
ListSafe ==
  /\ slab_pages \cap slab_pool = {}
  /\ \A o \in SlabPage \X SlabUnit : slab_owners[o] > 0 => slab_owners[o] = 1 /\ o[1] \in slab_pool
SlabsSafe ==
  /\ \A t, u \in Task : slab_call[t].at # "out" /\ slab_call[u].at # "out" => t = u
  /\ ListSafe
  /\ (\A t \in Task : slab_call[t].at = "out") => SlabsAre(Slabs!None)
  /\ \A t \in Task : slab_call[t].at # "out" => InHand(slab_call[t])

SlabsIInv == SlabsTyped /\ (Slabs!Sane => SlabsSafe)

-----------------------------------------------------------------------------
\* The assumption on the constants, in this module's words.
LEMMA SlabConstants ==
  /\ FirstSlab \in SlabPage /\ IsFiniteSet(SlabPage)
  /\ Colors \in Nat /\ Colors >= 1 /\ SlabUnit = Slabs!Unit
  /\ IsFiniteSet(SlabUnit) /\ Cardinality(SlabUnit) = Colors
<1>1. FirstSlab \in SlabPage /\ IsFiniteSet(SlabPage) /\ Colors \in 1 .. 64
  <2>1. Slabs!SlabAssumption
    BY LayersAssumption
  <2> QED
    BY <2>1 DEF Slabs!SlabAssumption, Slabs!IsFiniteSet, IsFiniteSet
<1>2. 0 \in Int /\ Colors - 1 \in Int
  BY <1>1
<1>3. IsFiniteSet(0 .. Colors - 1) /\ Cardinality(0 .. Colors - 1) = IF 0 > Colors - 1 THEN 0 ELSE (Colors - 1) - 0 + 1
  BY <1>2, FS_Interval
<1> QED
  BY <1>1, <1>3 DEF SlabUnit, Slabs!Unit

\* The definitions of the instance, in this module's words.
LEMMA SlabNames ==
  /\ Slabs!Calls = SlabCalls /\ Slabs!None \in SlabForms
  /\ Slabs!Object = SlabPage \X SlabUnit /\ Slabs!Links = Adding \cup Deleting
  /\ \A S : Slabs!Cardinality(S) = Cardinality(S)
  /\ \A N : Slabs!ListMemory(N) = ListMemory(N)
  /\ \A l, n : Slabs!ListInit(l, n) = ListInit(l, n) /\ Slabs!ListDelete(l, n) = ListDelete(l, n)
  /\ \A l, L, h : Slabs!WellLinked(l, L, h) <=> WellLinked(l, L, h)
<1>1. Slabs!Calls = SlabCalls
  BY SlabConstants DEF Slabs!Calls, SlabCalls, Slabs!Places, SlabPlaces, Slabs!Fields, SlabFields,
                       Slabs!Links, Adding, Deleting
<1>2. Slabs!None \in SlabForms
  BY SlabConstants DEF Slabs!None, SlabForms, SlabCalls, SlabPlaces, SlabFields, SlabUnit, Moving,
                       Adding, Deleting
<1>3. \A l, L, h : Slabs!WellLinked(l, L, h) <=> WellLinked(l, L, h)
  BY DEF WellLinked, Ring, OneCycle, Slabs!WellLinked, Slabs!Ring, Slabs!OneCycle
<1>4. \A l, n : Slabs!ListInit(l, n) = ListInit(l, n) /\ Slabs!ListDelete(l, n) = ListDelete(l, n)
  BY DEF ListInit, ListDelete, Slabs!ListInit, Slabs!ListDelete
<1>5. \A S : Slabs!Cardinality(S) = Cardinality(S)
  BY DEF Cardinality, Slabs!Cardinality
<1>6. (\A N : Slabs!ListMemory(N) = ListMemory(N)) /\ Slabs!Links = Adding \cup Deleting
  BY DEF ListMemory, Slabs!ListMemory, Slabs!Links, Adding, Deleting
<1> QED
  BY <1>1, <1>2, <1>3, <1>4, <1>5, <1>6, SlabConstants DEF Slabs!Object

\* What is owned of a slab is a finite set.
LEMMA OwnsFinite ==
  ASSUME NEW s
  PROVE  /\ IsFiniteSet(Owns(s)) /\ Cardinality(Owns(s)) \in Nat /\ Owns(s) \subseteq SlabUnit
         /\ Cardinality(Owns(s)) <= Colors
         /\ Cardinality(Owns(s)) = Colors => Owns(s) = SlabUnit
<1>1. Owns(s) \subseteq SlabUnit
  BY DEF Owns
<1> QED
  BY <1>1, SlabConstants, FS_Subset, FS_CardinalityType

\* The objects of the list that nobody has are a finite set.
LEMMA SparesFinite ==
  ASSUME slab_pool \subseteq SlabPage
  PROVE  IsFiniteSet(Spares) /\ Cardinality(Spares) \in Nat /\ Spares \subseteq SlabPage \X SlabUnit
<1>1. IsFiniteSet(SlabPage \X SlabUnit)
  BY SlabConstants, FS_Product
<1>2. Spares \subseteq SlabPage \X SlabUnit
  BY DEF Spares
<1> QED
  BY <1>1, <1>2, FS_Subset, FS_CardinalityType
-----------------------------------------------------------------------------
\* After: where a call goes on after a store.
LEMMA SlabAfter ==
  ASSUME NEW c \in SlabForms, c.at = "store"
  PROVE  LET d == Slabs!After(c)
         IN  /\ d \in SlabForms
             /\ c.field # "total" \/ c.job = "give" =>
                  d.job = c.job /\ d.slab = c.slab /\ d.unit = c.unit
             /\ c.field = "map" => d.at = "load" /\ d.field = IF c.job = "take" THEN "using" ELSE "free"
             /\ c.field = "using" => d.at = "load" /\ d.field = IF c.job = "take" THEN "free" ELSE "total"
             /\ c.field = "free" => d.at = "load" /\ d.field = IF c.job = "take" THEN "total" ELSE "using"
             /\ c.field = "size" => d.at = "load" /\ d.field = "add1" /\ c.job = "take"
             /\ c.field = "add1" => d.at = "load" /\ d.field = "add2" /\ c.job = "take"
             /\ c.field = "add2" => d.at = "store" /\ d.field = "add3" /\ c.job = "take"
             /\ c.field = "add3" => d.at = "store" /\ d.field = "add4" /\ c.job = "take"
             /\ c.field = "add4" => d.at = "load" /\ d.field = "map" /\ c.job = "take"
             /\ c.field = "total" /\ c.job = "give" => d.at = "check" /\ d.field = "map"
             /\ c.field = "total" /\ c.job = "take" => d = Slabs!None
             /\ c.field = "del1" => d.at = "load" /\ d.field = "del2" /\ c.job = "give"
             /\ c.field = "del2" => d.at = "load" /\ d.field = "drop" /\ c.job = "give"
             /\ c.field = "drop" => d.at = "page" /\ d.field = "map" /\ c.job = "give"
<1> DEFINE to(field) == [c EXCEPT !.at = "load", !.field = field, !.word = {}, !.count = 0,
                                  !.next = FirstSlab, !.prev = FirstSlab]
           All == SlabFields \cup Adding \cup Deleting
<1>1. c \in SlabCalls /\ c.field \in All /\ c.job \in {"take", "give"}
  BY DEF SlabForms, SlabCalls
<1>2. c.field \in Deleting \cup {"drop"} => c.job = "give"
  BY <1>1 DEF SlabForms, Moving
<1>3. c.field \in Adding \cup {"size"} => c.job = "take"
  BY DEF SlabForms, Moving
<1>4. ASSUME NEW f \in All
      PROVE  /\ to(f) \in SlabCalls /\ to(f).at = "load" /\ to(f).field = f
             /\ to(f).job = c.job /\ to(f).slab = c.slab /\ to(f).unit = c.unit
  <2>1. to(f) \in SlabCalls
    <3>1. PICK b \in SlabCalls : b = [c EXCEPT !.at = "load", !.field = f]
      BY <1>1 DEF SlabCalls, SlabPlaces
    <3>2. PICK e \in SlabCalls : e = [b EXCEPT !.word = {}]
      <4>1. {} \in SUBSET SlabUnit
        OBVIOUS
      <4> QED
        BY <4>1 DEF SlabCalls
    <3>3. PICK g \in SlabCalls : g = [e EXCEPT !.count = 0]
      <4>1. [e EXCEPT !.count = 0] \in SlabCalls
        BY DEF SlabCalls
      <4> QED
        BY <4>1
    <3>4. [g EXCEPT !.next = FirstSlab, !.prev = FirstSlab] \in SlabCalls
      BY SlabConstants DEF SlabCalls
    <3>5. [b EXCEPT !.word = {}, !.count = 0, !.next = FirstSlab, !.prev = FirstSlab] \in SlabCalls
      BY <3>2, <3>3, <3>4
    <3> QED
      BY <3>1, <3>5
  <2>2. to(f).at = "load" /\ to(f).field = f
    BY <1>1 DEF SlabCalls
  <2>3. to(f).job = c.job /\ to(f).slab = c.slab /\ to(f).unit = c.unit
    BY <1>1 DEF SlabCalls
  <2> HIDE DEF to, All
  <2> QED
    BY <2>1, <2>2, <2>3
<1>5. ASSUME NEW p \in {"check", "page", "store"}, NEW f \in All
      PROVE  LET e == [to(f) EXCEPT !.at = p]
             IN  /\ e \in SlabCalls /\ e.at = p /\ e.field = f
                 /\ e.job = c.job /\ e.slab = c.slab /\ e.unit = c.unit
  <2>1. PICK b \in SlabCalls : b = to(f) /\ b.field = f /\ b.job = c.job
                              /\ b.slab = c.slab /\ b.unit = c.unit
    <3> HIDE DEF to, All
    <3> QED
      BY <1>4
  <2> DEFINE e == [b EXCEPT !.at = p]
  <2>2. e \in SlabCalls /\ e.at = p /\ e.field = f
    BY <2>1 DEF SlabCalls, SlabPlaces
  <2>3. e.job = c.job /\ e.slab = c.slab /\ e.unit = c.unit
    BY <2>1 DEF SlabCalls
  <2>4. [to(f) EXCEPT !.at = p] = e
    BY <2>1
  <2> HIDE DEF e, to
  <2> QED
    BY <2>2, <2>3, <2>4
<1>6. /\ \A f \in SlabFields \cup Adding \cup Deleting : f \in All
      /\ c.field \in Deleting => c.slab # FirstSlab
  BY DEF SlabForms, Moving
<1> HIDE DEF to, All
<1>7. CASE c.field = "map"
  <2>1. Slabs!After(c) = to(IF c.job = "take" THEN "using" ELSE "free")
    BY <1>7 DEF Slabs!After, to
  <2> QED
    BY <1>1, <1>4, <1>6, <1>7, <2>1 DEF SlabForms, SlabFields, Moving, Adding, Deleting
<1>8. CASE c.field = "using"
  <2>1. Slabs!After(c) = to(IF c.job = "take" THEN "free" ELSE "total")
    BY <1>8 DEF Slabs!After, to
  <2> QED
    BY <1>1, <1>4, <1>6, <1>8, <2>1 DEF SlabForms, SlabFields, Moving, Adding, Deleting
<1>9. CASE c.field = "free"
  <2>1. Slabs!After(c) = to(IF c.job = "take" THEN "total" ELSE "using")
    BY <1>9 DEF Slabs!After, to
  <2> QED
    BY <1>1, <1>4, <1>6, <1>9, <2>1 DEF SlabForms, SlabFields, Moving, Adding, Deleting
<1>10. CASE c.field = "size"
  <2>1. Slabs!After(c) = to("add1")
    BY <1>10 DEF Slabs!After, to
  <2> QED
    BY <1>3, <1>4, <1>6, <1>10, <2>1 DEF SlabForms, SlabFields, Moving, Adding, Deleting
<1>11. CASE c.field = "add1"
  <2>1. Slabs!After(c) = to("add2")
    BY <1>11 DEF Slabs!After, to
  <2> QED
    BY <1>3, <1>4, <1>6, <1>11, <2>1 DEF SlabForms, SlabFields, Moving, Adding, Deleting
<1>14. CASE c.field = "add4"
  <2>1. Slabs!After(c) = to("map")
    BY <1>14 DEF Slabs!After, to
  <2> QED
    BY <1>3, <1>4, <1>6, <1>14, <2>1 DEF SlabForms, SlabFields, Moving, Adding, Deleting
<1>15. CASE c.field = "del1"
  <2>1. Slabs!After(c) = to("del2")
    BY <1>15 DEF Slabs!After, to
  <2> QED
    BY <1>2, <1>4, <1>6, <1>15, <2>1 DEF SlabForms, SlabFields, Moving, Adding, Deleting
<1>16. CASE c.field = "del2"
  <2>1. Slabs!After(c) = to("drop")
    BY <1>16 DEF Slabs!After, to
  <2> QED
    BY <1>2, <1>4, <1>6, <1>16, <2>1 DEF SlabForms, SlabFields, Moving, Adding, Deleting
<1>12. CASE c.field = "add2"
  <2>1. Slabs!After(c) = [to("add3") EXCEPT !.at = "store"]
    BY <1>12 DEF Slabs!After, to
  <2>2. "add3" \in All
    BY <1>6 DEF SlabFields, Adding, Deleting
  <2>3. /\ Slabs!After(c) \in SlabCalls /\ Slabs!After(c).at = "store" /\ Slabs!After(c).field = "add3"
        /\ Slabs!After(c).job = c.job /\ Slabs!After(c).slab = c.slab /\ Slabs!After(c).unit = c.unit
    BY <1>5, <2>1, <2>2
  <2>4. Slabs!After(c) \in SlabForms
    BY <1>3, <1>6, <1>12, <2>3 DEF SlabForms, SlabFields, Moving, Adding, Deleting
  <2> QED
    BY <1>3, <1>12, <2>3, <2>4 DEF Adding, Deleting
<1>13. CASE c.field = "add3"
  <2>1. Slabs!After(c) = [to("add4") EXCEPT !.at = "store"]
    BY <1>13 DEF Slabs!After, to
  <2>2. "add4" \in All
    BY <1>6 DEF SlabFields, Adding, Deleting
  <2>3. /\ Slabs!After(c) \in SlabCalls /\ Slabs!After(c).at = "store" /\ Slabs!After(c).field = "add4"
        /\ Slabs!After(c).job = c.job /\ Slabs!After(c).slab = c.slab /\ Slabs!After(c).unit = c.unit
    BY <1>5, <2>1, <2>2
  <2>4. Slabs!After(c) \in SlabForms
    BY <1>3, <1>6, <1>13, <2>3 DEF SlabForms, SlabFields, Moving, Adding, Deleting
  <2> QED
    BY <1>3, <1>13, <2>3, <2>4 DEF Adding, Deleting
<1>18. CASE c.field = "drop"
  <2>1. Slabs!After(c) = [to("map") EXCEPT !.at = "page"]
    BY <1>18 DEF Slabs!After, to
  <2>2. "map" \in All
    BY <1>6 DEF SlabFields, Adding, Deleting
  <2>3. /\ Slabs!After(c) \in SlabCalls /\ Slabs!After(c).at = "page" /\ Slabs!After(c).field = "map"
        /\ Slabs!After(c).job = c.job /\ Slabs!After(c).slab = c.slab /\ Slabs!After(c).unit = c.unit
    BY <1>5, <2>1, <2>2
  <2>4. Slabs!After(c) \in SlabForms
    BY <1>2, <1>6, <1>18, <2>3 DEF SlabForms, SlabFields, Moving, Adding, Deleting
  <2> QED
    BY <1>2, <1>18, <2>3, <2>4 DEF Adding, Deleting
<1>17. CASE c.field = "total"
  <2>1. Slabs!After(c) = IF c.job = "take" THEN Slabs!None ELSE [to("map") EXCEPT !.at = "check"]
    BY <1>17 DEF Slabs!After, to
  <2>2. CASE c.job = "take"
    BY <1>17, <2>1, <2>2, SlabNames
  <2>3. CASE c.job = "give"
    <3>1. "map" \in All /\ Slabs!After(c) = [to("map") EXCEPT !.at = "check"]
      BY <1>6, <2>1, <2>3 DEF SlabFields
    <3>2. /\ Slabs!After(c) \in SlabCalls /\ Slabs!After(c).at = "check" /\ Slabs!After(c).field = "map"
          /\ Slabs!After(c).job = c.job /\ Slabs!After(c).slab = c.slab /\ Slabs!After(c).unit = c.unit
      BY <1>5, <3>1
    <3>3. Slabs!After(c) \in SlabForms
      BY <2>3, <3>2 DEF SlabForms, Moving
    <3> QED
      BY <1>17, <2>3, <3>2, <3>3
  <2> QED
    BY <1>1, <2>2, <2>3
<1> QED
  BY <1>1, <1>7, <1>8, <1>9, <1>10, <1>11, <1>12, <1>13, <1>14, <1>15, <1>16, <1>17, <1>18
     DEF SlabFields, Adding, Deleting, All

\* A Step changes the call of its task only; in a sane state that follows, all others are

\* outside and the history is as before.
LEMMA SlabStep ==
  ASSUME SlabsTyped, NEW t \in Task, NEW from, NEW after \in SlabForms,
         Slabs!Step(t, from, after)
  PROVE  /\ slab_call' \in [Task -> SlabForms] /\ slab_struck' \subseteq Strikes
         /\ slab_call[t] \in SlabForms /\ slab_call[t].at = from /\ slab_call'[t] = after
         /\ \A u \in Task : u # t => slab_call'[u] = slab_call[u]
         /\ Slabs!Sane' => /\ Slabs!Sane /\ slab_struck' = slab_struck
                           /\ \A u \in Task : u # t => slab_call[u].at = "out"
<1>1. /\ slab_call[t].at = from
      /\ slab_call' = [slab_call EXCEPT ![t] = after]
      /\ slab_struck' = slab_struck \cup
           (IF \E u \in Task \ {t} : slab_call[u].at # "out" THEN {"shared"} ELSE {})
  BY DEF Slabs!Step
<1>2. slab_call \in [Task -> SlabForms] /\ slab_struck \subseteq Strikes
  BY DEF SlabsTyped
<1>3. slab_call' \in [Task -> SlabForms] /\ slab_call'[t] = after /\ \A u \in Task : u # t => slab_call'[u] = slab_call[u]
  BY <1>1, <1>2
<1>4. slab_struck' \subseteq Strikes
  BY <1>1, <1>2 DEF Strikes
<1>5. ASSUME Slabs!Sane'
      PROVE  /\ Slabs!Sane /\ slab_struck' = slab_struck
             /\ \A u \in Task : u # t => slab_call[u].at = "out"
  <2>1. "shared" \notin slab_struck' /\ "slab" \notin slab_struck' /\ "list" \notin slab_struck'
    BY <1>5 DEF Slabs!Sane, Slabs!Spared
  <2>2. ~\E u \in Task \ {t} : slab_call[u].at # "out"
    BY <1>1, <2>1
  <2> QED
    BY <1>1, <2>1, <2>2 DEF Slabs!Sane, Slabs!Spared
<1> QED
  BY <1>1, <1>2, <1>3, <1>4, <1>5

\* Two calls that owe the list the same.
Alike(c, d) == \/ Plain(c) /\ Plain(d)
               \/ c.at \in Moving /\ d.at \in Moving /\ c.field = d.field /\ c.slab = d.slab

\* What one of them leaves of the list the other does too.
LEMMA AlikeLead ==
  ASSUME NEW c, NEW d, Alike(c, d)
  PROVE  (Leads(c) => Leads(d)) /\ (Leads(c)' => Leads(d)')
<1>1. CASE Plain(c) /\ Plain(d)
  BY <1>1 DEF Leads, Plain
<1>2. CASE c.at \in Moving /\ d.at \in Moving /\ c.field = d.field /\ c.slab = d.slab
  BY <1>2 DEF Leads, Plain
<1> QED
  BY <1>1, <1>2 DEF Alike

\* Two calls that owe the same.
Same(c, d) ==
  /\ \A s \in SlabPage : Bits(c, s) = Bits(d, s) /\ Used(c, s) = Used(d, s) /\ Gone(c, s) = Gone(d, s)
  /\ Ahead(c) = Ahead(d) /\ OnlyHis(c) = OnlyHis(d) /\ Alike(c, d)

\* A call that is not among its stores owes nothing.
LEMMA OutOwesNothing ==
  ASSUME NEW c, c.at \notin {"load", "store", "page"}
  PROVE  /\ \A s : Bits(c, s) = {} /\ Used(c, s) = 0 /\ Gone(c, s) = 0
         /\ Ahead(c) = 0 /\ OnlyHis(c) = {} /\ Plain(c)
BY DEF Bits, Used, Gone, Ahead, OnlyHis, Moving, Plain

\* What is unchanged of the memory is as sound as before, for a call that owes the same.
LEMMA PartsKept ==
  ASSUME slab_pool \subseteq SlabPage, NEW c, NEW d,
         UNCHANGED <<slab_pool, slab_owners, slab_struck>>
  PROVE  /\ UNCHANGED slab_map /\ (\A s \in SlabPage : Bits(c, s) = Bits(d, s)) /\ MapsAre(c) => MapsAre(d)'
         /\ UNCHANGED slab_using /\ (\A s \in SlabPage : Used(c, s) = Used(d, s)) /\ UsingsAre(c) => UsingsAre(d)'
         /\ UNCHANGED slab_free /\ (\A s \in SlabPage : Gone(c, s) = Gone(d, s)) /\ FreesAre(c) => FreesAre(d)'
         /\ UNCHANGED slab_total /\ Ahead(c) = Ahead(d) /\ TotalIs(c) => TotalIs(d)'
         /\ UNCHANGED slab_pages /\ OnlyHis(c) = OnlyHis(d) /\ PagesAre(c) => PagesAre(d)'
         /\ UNCHANGED slab_list /\ Alike(c, d) /\ Leads(c) => Leads(d)'
<1>1. Spares' = Spares
  BY DEF Spares
<1>2. \A s : Owns(s)' = Owns(s)
  BY DEF Owns
<1>3. \A what : NotHit(what)' <=> NotHit(what)
  BY DEF NotHit
<1>4. UNCHANGED slab_map => \A s, b : MapSound(s, b) => MapSound(s, b)'
  BY <1>2, <1>3 DEF MapSound
<1>5. UNCHANGED slab_using => \A s, n : UsingSound(s, n) => UsingSound(s, n)'
  BY <1>2, <1>3 DEF UsingSound
<1>6. UNCHANGED slab_free => \A s, n : FreeSound(s, n) => FreeSound(s, n)'
  BY <1>2, <1>3 DEF FreeSound
<1>7. UNCHANGED slab_map /\ (\A s \in SlabPage : Bits(c, s) = Bits(d, s)) /\ MapsAre(c) => MapsAre(d)'
  BY <1>1, <1>4 DEF MapsAre
<1>8. UNCHANGED slab_using /\ (\A s \in SlabPage : Used(c, s) = Used(d, s)) /\ UsingsAre(c) => UsingsAre(d)'
  BY <1>1, <1>5 DEF UsingsAre
<1>9. UNCHANGED slab_free /\ (\A s \in SlabPage : Gone(c, s) = Gone(d, s)) /\ FreesAre(c) => FreesAre(d)'
  BY <1>1, <1>6 DEF FreesAre
<1>10. UNCHANGED slab_total /\ Ahead(c) = Ahead(d) /\ TotalIs(c) => TotalIs(d)'
  BY <1>1, <1>3 DEF TotalIs
<1>11. UNCHANGED slab_pages /\ OnlyHis(c) = OnlyHis(d) /\ PagesAre(c) => PagesAre(d)'
  BY DEF PagesAre
<1>12. UNCHANGED slab_list /\ Alike(c, d) /\ Leads(c) => Leads(d)'
  <2>1. Leads(d) /\ UNCHANGED slab_list => Leads(d)'
    BY DEF Leads
  <2> QED
    BY <2>1, AlikeLead
<1> QED
  BY <1>7, <1>8, <1>9, <1>10, <1>11, <1>12

\* The call of the one task that may be inside.
LEMMA SlabsBefore ==
  ASSUME SlabsTyped, SlabsSafe, NEW t \in Task, \A u \in Task : u # t => slab_call[u].at = "out",
         NEW c, c = slab_call[t]
  PROVE  InHand(c) /\ ListSafe
<1>1. CASE c.at # "out"
  BY <1>1 DEF SlabsSafe
<1>2. CASE c.at = "out"
  <2>1. SlabsAre(Slabs!None) /\ ListSafe
    BY <1>2 DEF SlabsSafe
  <2>2. Slabs!None.at = "out"
    BY DEF Slabs!None
  <2>3. Same(Slabs!None, c)
    BY <1>2, <2>2, OutOwesNothing DEF Same, Alike
  <2>4. slab_pool \subseteq SlabPage
    BY DEF SlabsTyped
  <2>5. SlabsAre(c)
    BY <2>1, <2>3, <2>4, AlikeLead DEF SlabsAre, MapsAre, UsingsAre, FreesAre, TotalIs, PagesAre, Same
  <2>6. HandSound(c) /\ LoadSound(c) /\ Chosen(c)
    BY <1>2, OutOwesNothing DEF HandSound, LoadSound, Chosen, Moving
  <2> QED
    BY <2>1, <2>5, <2>6 DEF InHand
<1> QED
  BY <1>1, <1>2

\* With one task inside, its call is all there is to show of the slabs.
LEMMA SlabsAfterwards ==
  ASSUME NEW t \in Task, NEW d, slab_call'[t] = d, \A u \in Task : u # t => slab_call'[u].at = "out",
         slab_pool' \subseteq SlabPage, ListSafe', InHand(d)'
  PROVE  SlabsSafe'
<1>1. \A u, v \in Task : slab_call'[u].at # "out" /\ slab_call'[v].at # "out" => u = v
  OBVIOUS
<1>2. \A u \in Task : slab_call'[u].at # "out" => InHand(slab_call[u])'
  <2> TAKE u \in Task
  <2> HAVE slab_call'[u].at # "out"
  <2>1. slab_call'[u] = d
    OBVIOUS
  <2> QED
    <3>1. SlabsAre(slab_call[u])'
      BY <2>1 DEF InHand, SlabsAre, MapsAre, UsingsAre, FreesAre, TotalIs, PagesAre, Leads
    <3>2. HandSound(slab_call[u])'
      BY <2>1 DEF InHand, HandSound
    <3>3. LoadSound(slab_call[u])' /\ Chosen(slab_call[u])'
      BY <2>1 DEF InHand, LoadSound, Chosen
    <3> QED
      BY <3>1, <3>2, <3>3 DEF InHand
<1>3. (\A u \in Task : slab_call'[u].at = "out") => SlabsAre(Slabs!None)'
  <2> HAVE \A u \in Task : slab_call'[u].at = "out"
  <2>1. d.at = "out"
    OBVIOUS
  <2>2. Slabs!None.at = "out"
    BY DEF Slabs!None
  <2>3. Same(d, Slabs!None)
    BY <2>1, <2>2, OutOwesNothing DEF Same, Alike
  <2>5. SlabsAre(d)'
    BY DEF InHand
  <2> QED
    BY <2>3, <2>5, AlikeLead DEF SlabsAre, MapsAre, UsingsAre, FreesAre, TotalIs, PagesAre, Same
<1> QED
  BY <1>1, <1>2, <1>3 DEF SlabsSafe

slabMemory == <<slab_list, slab_pool, slab_map, slab_using, slab_free, slab_total, slab_pages, slab_owners>>

\* A step that changes no memory, to a call that owes the same.
LEMMA CallSafe ==
  ASSUME SlabsTyped, SlabsSafe, NEW t \in Task, NEW c, c = slab_call[t], NEW d,
         slab_call'[t] = d, UNCHANGED slabMemory, slab_struck' = slab_struck,
         \A u \in Task : u # t => slab_call[u].at = "out" /\ slab_call'[u] = slab_call[u],
         Same(c, d), HandSound(d), LoadSound(d), Chosen(d)
  PROVE  SlabsSafe'
<1>1. InHand(c) /\ ListSafe
  BY SlabsBefore
<1>2. slab_pool \subseteq SlabPage /\ UNCHANGED <<slab_pool, slab_owners, slab_struck>>
  BY DEF SlabsTyped, slabMemory
<1>3. SlabsAre(d)'
  BY <1>1, <1>2, PartsKept DEF InHand, SlabsAre, Same, slabMemory
<1>4. HandSound(d)' /\ LoadSound(d)' /\ Chosen(d)'
  <2>1. (\A s : Owns(s)' = Owns(s)) /\ (\A what : NotHit(what)' <=> NotHit(what))
    BY <1>2 DEF Owns, NotHit
  <2>2. HandSound(d)'
    BY <2>1 DEF HandSound, slabMemory
  <2>3. LoadSound(d)'
    BY <2>1 DEF LoadSound, slabMemory
  <2>4. Chosen(d)'
    BY <2>1 DEF Chosen, Undisturbed, Onward, HasFree, slabMemory
  <2> QED
    BY <2>2, <2>3, <2>4
<1>5. ListSafe'
  BY <1>1, <1>2 DEF ListSafe, slabMemory
<1>6. slab_pool' \subseteq SlabPage
  BY <1>2
<1>7. \A u \in Task : u # t => slab_call'[u].at = "out"
  OBVIOUS
<1>8. InHand(d)'
  BY <1>3, <1>4 DEF InHand
<1> QED
  BY <1>5, <1>6, <1>7, <1>8, SlabsAfterwards

\* What a step that changes no memory leaves typed.
LEMMA CallTyped ==
  ASSUME SlabsTyped, UNCHANGED slabMemory, slab_call' \in [Task -> SlabForms],
         slab_struck' \subseteq Strikes
  PROVE  SlabsTyped'
BY DEF SlabsTyped, slabMemory

\* A step that changes a call only, and leaves it what it owes.
LEMMA CallKeeps ==
  ASSUME SlabsTyped, NEW t \in Task, NEW from, NEW c \in SlabForms, c = slab_call[t],
         NEW d \in SlabForms, Slabs!Step(t, from, d), UNCHANGED slabMemory,
         InHand(c) => Same(c, d) /\ HandSound(d) /\ LoadSound(d) /\ Chosen(d)
  PROVE  SlabsTyped' /\ (SlabsSafe /\ Slabs!Sane' => SlabsSafe')
<1>1. /\ slab_call' \in [Task -> SlabForms] /\ slab_struck' \subseteq Strikes /\ slab_call'[t] = d
      /\ \A u \in Task : u # t => slab_call'[u] = slab_call[u]
      /\ Slabs!Sane' => /\ Slabs!Sane /\ slab_struck' = slab_struck
                        /\ \A u \in Task : u # t => slab_call[u].at = "out"
  BY SlabStep
<1>2. SlabsTyped'
  BY <1>1, CallTyped
<1>3. ASSUME SlabsSafe, Slabs!Sane' PROVE SlabsSafe'
  <2>1. InHand(c)
    BY <1>1, <1>3, SlabsBefore
  <2> QED
    BY <1>1, <1>3, <2>1, CallSafe
<1> QED
  BY <1>2, <1>3

\* A call of kmalloc begins.
LEMMA KmallocKeeps ==
  ASSUME SlabsTyped, NEW t \in Task, Slabs!Kmalloc(t)
  PROVE  SlabsTyped' /\ (SlabsSafe /\ Slabs!Sane' => SlabsSafe')
<1> DEFINE e == [Slabs!None EXCEPT !.at = "choose"]
<1>1. e \in SlabForms /\ e.at = "choose"
  <2>1. /\ Slabs!None \in SlabCalls /\ Slabs!None.job = "take" /\ Slabs!None.field = "map"
        /\ Slabs!None.slab = FirstSlab
    BY SlabNames DEF SlabForms, Slabs!None
  <2> HIDE DEF e
  <2>2. /\ e \in SlabCalls /\ e.at = "choose" /\ e.job = "take" /\ e.field = "map"
        /\ e.slab = FirstSlab
    BY <2>1 DEF e, SlabCalls, SlabPlaces
  <2> QED
    BY <2>2 DEF SlabForms, Moving
<1>2. Slabs!Step(t, "out", e) /\ UNCHANGED slabMemory /\ slab_call[t].at = "out"
  BY DEF Slabs!Kmalloc, Slabs!Step, slabMemory
<1> HIDE DEF e
<1>3. PICK d \in SlabForms : d = e
  BY <1>1
<1>4. PICK c \in SlabForms : c = slab_call[t]
  BY DEF SlabsTyped
<1>5. Same(c, d)
  BY <1>1, <1>2, <1>3, <1>4, OutOwesNothing DEF Same, Alike
<1>6. HandSound(d) /\ LoadSound(d) /\ Chosen(d)
  BY <1>1, <1>3, OutOwesNothing DEF HandSound, LoadSound, Chosen, Moving
<1> QED
  BY <1>2, <1>3, <1>4, <1>5, <1>6, CallKeeps

\* With the counters and the maps as they are meant, a slab with a free object has a clear bit.
LEMMA FreeHasBit ==
  ASSUME NEW c, NEW s \in slab_pool, MapsAre(c), FreesAre(c), Bits(c, s) = {}, Gone(c, s) = 0,
         Undisturbed
  PROVE  /\ slab_free[s] = Colors - Cardinality(Owns(s))
         /\ slab_free[s] # 0 => slab_map[s] # SlabUnit
<1>1. NotHit({"map"}) /\ NotHit({"free"})
  BY DEF NotHit, Undisturbed
<1>2. FreeSound(s, 0) /\ MapSound(s, {})
  BY DEF FreesAre, MapsAre
<1>3. slab_free[s] = (Colors - Cardinality(Owns(s))) - 0
  BY <1>1, <1>2 DEF FreeSound
<1>4. slab_free[s] = Colors - Cardinality(Owns(s))
  BY <1>3, OwnsFinite, SlabConstants
<1>5. slab_free[s] # 0 => Owns(s) # SlabUnit
  BY <1>4, OwnsFinite, SlabConstants
<1> QED
  BY <1>1, <1>2, <1>4, <1>5 DEF MapSound

\* There is a free object by total_free, and the walk begins; or there is none.
LEMMA ChooseKeeps ==
  ASSUME SlabsTyped, NEW t \in Task, Slabs!Choose(t)
  PROVE  SlabsTyped' /\ (SlabsSafe /\ Slabs!Sane' => SlabsSafe')
<1>1. PICK c \in SlabForms : c = slab_call[t]
  BY DEF SlabsTyped
<1>2. /\ c.at = "choose" /\ c.job = "take" /\ c.field = "map" /\ c \in SlabCalls
      /\ c.slab = FirstSlab
  BY <1>1 DEF Slabs!Choose, Slabs!Step, SlabForms
<1>3. PICK p \in {"walk", "create"} : p = IF slab_total # 0 THEN "walk" ELSE "create"
  OBVIOUS
<1> DEFINE e == [c EXCEPT !.at = p]
<1>4. Slabs!Step(t, "choose", e) /\ UNCHANGED slabMemory
  BY <1>1, <1>3 DEF Slabs!Choose, slabMemory
<1>5. e \in SlabCalls /\ e.at = p /\ e.job = "take" /\ e.field = "map" /\ e.slab = FirstSlab
  BY <1>2 DEF SlabCalls, SlabPlaces
<1> HIDE DEF e
<1>6. PICK d \in SlabForms : d = e
  BY <1>5 DEF SlabForms, Moving
<1>7. /\ d.at \in {"walk", "create"} /\ d.job = "take" /\ d.field = "map" /\ d.slab = FirstSlab
      /\ d.at = "walk" => slab_total # 0
  BY <1>3, <1>5, <1>6
<1>8. Same(c, d)
  BY <1>2, <1>7, OutOwesNothing DEF Same, Alike
<1>9. HandSound(d) /\ LoadSound(d)
  BY <1>7, OutOwesNothing DEF HandSound, LoadSound, Moving, SlabsTyped
<1>10. ASSUME InHand(c), Undisturbed, slab_total # 0, NEW S \in SUBSET SlabPage, FirstSlab \in S, Onward(S)
       PROVE  HasFree(S)
  <2>1. /\ Ahead(c) = 0 /\ (\A s : Bits(c, s) = {} /\ Gone(c, s) = 0) /\ Plain(c)
    BY <1>2, OutOwesNothing
  <2>2. slab_total = Cardinality(Spares) + 0
    <3>1. NotHit({"total", "size", "drop"})
      BY <1>10 DEF NotHit, Undisturbed
    <3> QED
      BY <1>10, <2>1, <3>1 DEF InHand, SlabsAre, TotalIs
  <2>3. Spares # {}
    <3>1. Spares = {} => Cardinality(Spares) = 0
      BY FS_EmptySet
    <3> QED
      BY <1>10, <2>2, <3>1
  <2>4. PICK s \in slab_pool, j \in SlabUnit : slab_owners[<<s, j>>] = 0
    BY <2>3 DEF Spares
  <2>5. j \notin Owns(s)
    BY <2>4 DEF Owns
  <2>6. slab_free[s] = Colors - Cardinality(Owns(s))
    BY <1>10, <2>1, <2>4, FreeHasBit DEF InHand, SlabsAre
  <2>7. slab_free[s] # 0
    BY <2>4, <2>5, <2>6, OwnsFinite, SlabConstants
  <2>8. WellLinked(slab_list, slab_pool, FirstSlab)
    BY <1>10, <2>1 DEF InHand, SlabsAre, Leads
  <2>9. slab_pool \subseteq S
    BY <1>10, <2>8, WalkMeetsAll DEF Onward
  <2> QED
    BY <2>4, <2>7, <2>9 DEF HasFree
<1>11. InHand(c) => Chosen(d)
  BY <1>7, <1>10 DEF Chosen
<1> QED
  BY <1>1, <1>4, <1>6, <1>8, <1>9, <1>11, CallKeeps

\* One slab of the walk: it has a free object, or a later one has.
LEMMA WalkKeeps ==
  ASSUME SlabsTyped, NEW t \in Task, Slabs!Walk(t)
  PROVE  SlabsTyped' /\ (SlabsSafe /\ Slabs!Sane' => SlabsSafe')
<1>1. PICK c \in SlabForms : c = slab_call[t]
  BY DEF SlabsTyped
<1>2. /\ c.at = "walk" /\ c.job = "take" /\ c.field = "map" /\ c \in SlabCalls
      /\ c.slab \in SlabPage
  BY <1>1 DEF Slabs!Walk, Slabs!Step, SlabForms, SlabCalls
<1>3. PICK s \in SlabPage : s = c.slab
  BY <1>2
<1>4. PICK p \in {"load", "full"} : p = IF slab_free[s] # 0 THEN "load" ELSE "full"
  OBVIOUS
<1> DEFINE e == [c EXCEPT !.at = p]
<1>5. Slabs!Step(t, "walk", e) /\ UNCHANGED slabMemory
  BY <1>1, <1>3, <1>4 DEF Slabs!Walk, Slabs!Able, slabMemory
<1>6. e \in SlabCalls /\ e.at = p /\ e.job = "take" /\ e.field = "map" /\ e.slab = s
  BY <1>2, <1>3 DEF SlabCalls, SlabPlaces
<1> HIDE DEF e
<1>7. PICK d \in SlabForms : d = e
  BY <1>6 DEF SlabForms, Moving, Deleting
<1>8. /\ d.at \in {"load", "full"} /\ d.job = "take" /\ d.field = "map" /\ d.slab = s
      /\ d.at = "load" <=> slab_free[s] # 0
  BY <1>4, <1>6, <1>7
<1>9. /\ \A r : Bits(c, r) = {} /\ Used(c, r) = 0 /\ Gone(c, r) = 0
      /\ Ahead(c) = 0 /\ OnlyHis(c) = {} /\ Plain(c)
  BY <1>2, OutOwesNothing
<1>10. /\ \A r : Bits(d, r) = {} /\ Used(d, r) = 0 /\ Gone(d, r) = 0
       /\ Ahead(d) = 0 /\ OnlyHis(d) = {} /\ Plain(d)
  BY <1>8 DEF Bits, Used, Gone, Ahead, OnlyHis, Plain, Moving, Adding, Deleting
<1>11. Same(c, d)
  BY <1>9, <1>10 DEF Same, Alike
<1>12. ASSUME InHand(c) PROVE HandSound(d) /\ LoadSound(d) /\ Chosen(d)
  <2>1. s \in slab_pool
    BY <1>2, <1>3, <1>12 DEF InHand, HandSound
  <2>2. HandSound(d) /\ LoadSound(d)
    BY <1>8, <1>10, <2>1 DEF HandSound, LoadSound, Moving, Adding, Deleting
  <2>3. ASSUME Undisturbed, d.at = "load" PROVE slab_map[s] # SlabUnit
    BY <1>8, <1>9, <1>12, <2>1, <2>3, FreeHasBit DEF InHand, SlabsAre
  <2>4. ASSUME Undisturbed, d.at = "full"
        PROVE  /\ slab_list.next[s] # FirstSlab
               /\ \A S \in SUBSET SlabPage : slab_list.next[s] \in S /\ Onward(S) => HasFree(S)
    <3>1. slab_free[s] = 0
      BY <1>8, <2>4
    <3>2. \A S \in SUBSET SlabPage : s \in S /\ Onward(S) => HasFree(S)
      BY <1>2, <1>3, <1>12, <2>4 DEF InHand, Chosen
    <3>3. ~HasFree({s}) /\ {s} \in SUBSET SlabPage
      BY <3>1 DEF HasFree
    <3>4. slab_list.next[s] # FirstSlab
      <4>1. slab_list.next[s] = FirstSlab => Onward({s})
        BY DEF Onward
      <4> QED
        BY <3>2, <3>3, <4>1
    <3>5. ASSUME NEW S \in SUBSET SlabPage, slab_list.next[s] \in S, Onward(S) PROVE HasFree(S)
      <4>1. Onward(S \cup {s}) /\ S \cup {s} \in SUBSET SlabPage
        BY <3>5 DEF Onward
      <4>2. HasFree(S \cup {s})
        BY <3>2, <4>1
      <4> QED
        BY <3>1, <4>2 DEF HasFree
    <3> QED
      BY <3>4, <3>5
  <2>5. Chosen(d)
    BY <1>8, <2>3, <2>4 DEF Chosen
  <2> QED
    BY <2>2, <2>5
<1> QED
  BY <1>1, <1>5, <1>7, <1>11, <1>12, CallKeeps

\* Past a slab that is full.
LEMMA PassKeeps ==
  ASSUME SlabsTyped, NEW t \in Task, Slabs!Pass(t)
  PROVE  SlabsTyped' /\ (SlabsSafe /\ Slabs!Sane' => SlabsSafe')
<1>1. PICK c \in SlabForms : c = slab_call[t]
  BY DEF SlabsTyped
<1>2. /\ c.at = "full" /\ c.job = "take" /\ c.field = "map" /\ c \in SlabCalls
      /\ c.slab \in SlabPage
  BY <1>1 DEF Slabs!Pass, Slabs!Step, SlabForms, SlabCalls
<1>3. PICK n \in SlabPage : n = slab_list.next[c.slab]
  BY <1>2 DEF SlabsTyped, ListMemory
<1>4. PICK p \in {"load", "walk"} : p = IF n = FirstSlab THEN "load" ELSE "walk"
  OBVIOUS
<1> DEFINE e == [c EXCEPT !.slab = n, !.at = p]
<1>5. Slabs!Step(t, "full", e) /\ UNCHANGED slabMemory
  BY <1>1, <1>3, <1>4 DEF Slabs!Pass, slabMemory
<1>6. e \in SlabCalls /\ e.at = p /\ e.job = "take" /\ e.field = "map" /\ e.slab = n
  BY <1>2 DEF SlabCalls, SlabPlaces
<1> HIDE DEF e
<1>7. PICK d \in SlabForms : d = e
  BY <1>6 DEF SlabForms, Moving, Deleting
<1>8. /\ d.at \in {"load", "walk"} /\ d.job = "take" /\ d.field = "map" /\ d.slab = n
      /\ d.at = "load" <=> n = FirstSlab
  BY <1>4, <1>6, <1>7
<1>9. Same(c, d)
  <2>1. /\ \A r : Bits(c, r) = {} /\ Used(c, r) = 0 /\ Gone(c, r) = 0
        /\ Ahead(c) = 0 /\ OnlyHis(c) = {} /\ Plain(c)
    BY <1>2, OutOwesNothing
  <2>2. /\ \A r : Bits(d, r) = {} /\ Used(d, r) = 0 /\ Gone(d, r) = 0
        /\ Ahead(d) = 0 /\ OnlyHis(d) = {} /\ Plain(d)
    BY <1>8 DEF Bits, Used, Gone, Ahead, OnlyHis, Plain, Moving, Adding, Deleting
  <2> QED
    BY <2>1, <2>2 DEF Same, Alike
<1>10. ASSUME InHand(c) PROVE HandSound(d) /\ LoadSound(d) /\ Chosen(d)
  <2>1. WellLinked(slab_list, slab_pool, FirstSlab) /\ c.slab \in slab_pool
    BY <1>2, <1>10, OutOwesNothing DEF InHand, SlabsAre, Leads, HandSound
  <2>2. n \in slab_pool
    BY <1>3, <2>1 DEF WellLinked, Ring
  <2>3. OnlyHis(d) = {}
    BY <1>8 DEF OnlyHis, Moving, Adding
  <2>4. HandSound(d) /\ LoadSound(d)
    BY <1>8, <2>2, <2>3 DEF HandSound, LoadSound, Moving, Adding, Deleting
  <2>5. Undisturbed => /\ n # FirstSlab
                       /\ \A S \in SUBSET SlabPage : n \in S /\ Onward(S) => HasFree(S)
    BY <1>2, <1>3, <1>10 DEF InHand, Chosen
  <2>6. Chosen(d)
    BY <1>8, <2>5 DEF Chosen
  <2> QED
    BY <2>4, <2>6
<1> QED
  BY <1>1, <1>5, <1>7, <1>9, <1>10, CallKeeps

\* kmalloc returns NULL: there is no page, or no bit in the map.
LEMMA FailKeeps ==
  ASSUME SlabsTyped, NEW t \in Task, Slabs!CreateFails(t) \/ Slabs!NoBit(t)
  PROVE  SlabsTyped' /\ (SlabsSafe /\ Slabs!Sane' => SlabsSafe')
<1>1. PICK c \in SlabForms : c = slab_call[t]
  BY DEF SlabsTyped
<1>2. PICK d \in SlabForms : d = Slabs!None
  BY SlabNames
<1>3. d.at = "out"
  BY <1>2 DEF Slabs!None
<1>4. PICK from \in {"create", "load"} :
        /\ Slabs!Step(t, from, d) /\ UNCHANGED slabMemory
        /\ from = "load" => c.field = "map" /\ c.job = "take"
  BY <1>1, <1>2 DEF Slabs!CreateFails, Slabs!NoBit, slabMemory
<1>5. c.at = from
  BY <1>1, <1>4 DEF Slabs!Step
<1>6. /\ \A s : Bits(c, s) = {} /\ Used(c, s) = 0 /\ Gone(c, s) = 0
      /\ Ahead(c) = 0 /\ OnlyHis(c) = {} /\ Plain(c)
  <2>1. CASE from = "create"
    BY <1>5, <2>1, OutOwesNothing
  <2>2. CASE from = "load"
    BY <1>4, <1>5, <2>2 DEF Bits, Used, Gone, Ahead, OnlyHis, Plain, Moving, Adding, Deleting
  <2> QED
    BY <2>1, <2>2
<1>7. Same(c, d)
  BY <1>3, <1>6, OutOwesNothing DEF Same, Alike
<1>8. HandSound(d) /\ LoadSound(d) /\ Chosen(d)
  BY <1>3, OutOwesNothing DEF HandSound, LoadSound, Chosen, Moving
<1> QED
  BY <1>1, <1>4, <1>7, <1>8, CallKeeps

\* The word of the map is loaded, and the bit chosen.
LEMMA LoadMapKeeps ==
  ASSUME SlabsTyped, NEW t \in Task, Slabs!LoadMap(t)
  PROVE  SlabsTyped' /\ (SlabsSafe /\ Slabs!Sane' => SlabsSafe')
<1>0. PICK c \in SlabForms : c = slab_call[t]
  BY DEF SlabsTyped
<1>1. c.at = "load" /\ c.field = "map" /\ c \in SlabCalls /\ c.slab \in SlabPage
      /\ c.job \in {"take", "give"} /\ c.unit \in SlabUnit
  BY <1>0 DEF Slabs!LoadMap, Slabs!Step, SlabForms, SlabCalls
<1>2. PICK w \in SUBSET SlabUnit : w = slab_map[c.slab]
  BY <1>1 DEF SlabsTyped
<1>3. PICK j \in IF c.job = "take" THEN Slabs!Unit \ w ELSE {c.unit} :
        Slabs!Step(t, "load", [c EXCEPT !.at = "store", !.word = w, !.unit = j])
  BY <1>0, <1>2 DEF Slabs!LoadMap
<1>4. j \in SlabUnit /\ (c.job = "take" => j \notin w) /\ (c.job = "give" => j = c.unit)
  BY <1>1, <1>3, SlabConstants
<1> DEFINE e == [c EXCEPT !.at = "store", !.word = w, !.unit = j]
<1>5. /\ e \in SlabForms /\ e.at = "store" /\ e.field = "map" /\ e.job = c.job
      /\ e.slab = c.slab /\ e.word = w /\ e.unit = j
  <2>1. e.at = "store" /\ e.word = w /\ e.unit = j
    BY <1>1 DEF SlabCalls
  <2>2. e.field = "map" /\ e.job = c.job /\ e.slab = c.slab
    BY <1>1 DEF SlabCalls
  <2>3. e \in SlabCalls
    <3>1. PICK b \in SlabCalls : b = [c EXCEPT !.at = "store", !.word = w]
      BY <1>1 DEF SlabCalls, SlabPlaces
    <3>2. [b EXCEPT !.unit = j] \in SlabCalls
      BY <1>4 DEF SlabCalls
    <3> QED
      BY <3>1, <3>2
  <2> HIDE DEF e
  <2> QED
    BY <1>1, <2>1, <2>2, <2>3 DEF SlabForms, Moving, Adding, Deleting
<1> HIDE DEF e
<1>6. PICK d \in SlabForms : d = e
  BY <1>5
<1>7. Slabs!Step(t, "load", d) /\ UNCHANGED slabMemory
  BY <1>3, <1>6 DEF Slabs!LoadMap, slabMemory, e
<1>8. d.at = "store" /\ d.field = "map" /\ d.job = c.job /\ d.slab = c.slab /\ d.unit = j /\ d.word = w
  BY <1>5, <1>6
<1>9. Same(c, d)
  <2>1. \A s : Bits(c, s) = Bits(d, s)
    BY <1>1, <1>4, <1>8 DEF Bits, Moving
  <2>2. \A s : Used(c, s) = Used(d, s) /\ Gone(c, s) = Gone(d, s)
    BY <1>1, <1>8 DEF Used, Gone, Moving
  <2>3. Ahead(c) = Ahead(d) /\ OnlyHis(c) = OnlyHis(d) /\ Alike(c, d)
    BY <1>1, <1>8 DEF Ahead, OnlyHis, Alike, Moving
  <2> QED
    BY <2>1, <2>2, <2>3 DEF Same
<1>10. ASSUME InHand(c) PROVE HandSound(d) /\ LoadSound(d) /\ Chosen(d)
  <2>1. c.slab \in slab_pool
    BY <1>1, <1>10 DEF InHand, HandSound, Moving
  <2>2. Owns(c.slab) \subseteq w
    BY <1>2, <1>10, <2>1 DEF InHand, SlabsAre, MapsAre, MapSound
  <2>3. c.job = "give" => c.unit \notin Owns(c.slab)
    BY <1>1, <1>10 DEF InHand, HandSound, Moving
  <2>4. OnlyHis(d) = {} /\ d.unit \notin Owns(d.slab)
    BY <1>1, <1>4, <1>8, <2>2, <2>3 DEF OnlyHis, Adding
  <2>5. HandSound(d)
    BY <1>8, <2>1, <2>4 DEF HandSound, Adding, Deleting
  <2>6. LoadSound(d)
    BY <1>2, <1>4, <1>8 DEF LoadSound, Deleting
  <2> QED
    BY <1>8, <2>5, <2>6 DEF Chosen
<1> QED
  BY <1>0, <1>7, <1>9, <1>10, CallKeeps

\* After a load a call owes what it owed.
LEMMA LoadedTheSame ==
  ASSUME NEW c \in SlabForms, NEW d \in SlabForms, c.at = "load", c.field # "map", d.at = "store",
         d.field = c.field, d.job = c.job, d.slab = c.slab, d.unit = c.unit
  PROVE  Same(c, d) /\ (HandSound(c) => HandSound(d)) /\ Chosen(d)
<1>1. \A s : Bits(c, s) = Bits(d, s)
  BY DEF Bits, Moving
<1>2. \A s : Used(c, s) = Used(d, s) /\ Gone(c, s) = Gone(d, s)
  BY DEF Used, Gone, Moving
<1>3. Ahead(c) = Ahead(d) /\ OnlyHis(c) = OnlyHis(d) /\ Alike(c, d)
  BY DEF Ahead, OnlyHis, Alike, Moving
<1>4. HandSound(c) => HandSound(d)
  BY <1>3 DEF HandSound, Moving
<1> QED
  BY <1>1, <1>2, <1>3, <1>4 DEF Same, Chosen

\* A counter is loaded.
LEMMA LoadCountKeeps ==
  ASSUME SlabsTyped, NEW t \in Task, Slabs!LoadCount(t)
  PROVE  SlabsTyped' /\ (SlabsSafe /\ Slabs!Sane' => SlabsSafe')
<1>0. PICK c \in SlabForms : c = slab_call[t]
  BY DEF SlabsTyped
<1>1. c.at = "load" /\ c.field \in SlabFields \ {"map"} /\ c \in SlabCalls /\ c.slab \in SlabPage
  BY <1>0 DEF Slabs!LoadCount, Slabs!Step, Slabs!Fields, SlabFields, SlabForms, SlabCalls
<1>2. PICK n \in Int : /\ c.field = "using" => n = slab_using[c.slab]
                       /\ c.field = "free" => n = slab_free[c.slab]
                       /\ c.field \in {"total", "size", "drop"} => n = slab_total
                       /\ n = CASE c.field = "using" -> slab_using[c.slab]
                                [] c.field = "free"  -> slab_free[c.slab]
                                [] OTHER             -> slab_total
  BY <1>1 DEF SlabsTyped
<1> DEFINE e == [c EXCEPT !.at = "store", !.count = n]
<1>3. Slabs!Step(t, "load", e) /\ UNCHANGED slabMemory
  BY <1>0, <1>2 DEF Slabs!LoadCount, slabMemory
<1>4. /\ e \in SlabForms /\ e.at = "store" /\ e.field = c.field /\ e.job = c.job
      /\ e.slab = c.slab /\ e.unit = c.unit /\ e.count = n
  <2>1. e.at = "store" /\ e.count = n
    BY <1>1 DEF SlabCalls
  <2>2. e.field = c.field /\ e.job = c.job /\ e.slab = c.slab /\ e.unit = c.unit
    BY <1>1 DEF SlabCalls
  <2>3. e \in SlabCalls
    BY <1>1, <1>2 DEF SlabCalls, SlabPlaces
  <2> HIDE DEF e
  <2>4. c.field \notin IF c.job = "take" THEN Deleting \cup {"drop"} ELSE Adding \cup {"size"}
    BY <1>1 DEF SlabForms, Moving
  <2> QED
    BY <1>1, <2>1, <2>2, <2>3, <2>4 DEF SlabForms, SlabFields, Moving, Adding, Deleting
<1> HIDE DEF e
<1>5. PICK d \in SlabForms : d = e
  BY <1>4
<1>6. Slabs!Step(t, "load", d)
  BY <1>3, <1>5
<1>7. /\ d.at = "store" /\ d.field = c.field /\ d.job = c.job /\ d.slab = c.slab
      /\ d.unit = c.unit /\ d.count = n
  BY <1>4, <1>5
<1>8. LoadSound(d)
  <2>1. slab_using[c.slab] \in Int /\ slab_free[c.slab] \in Int
    BY <1>1 DEF SlabsTyped
  <2> QED
    BY <1>1, <1>2, <1>7, <2>1 DEF LoadSound, SlabFields, Adding, Deleting
<1>9. InHand(c) => Same(c, d) /\ HandSound(d) /\ LoadSound(d) /\ Chosen(d)
  BY <1>1, <1>7, <1>8, LoadedTheSame DEF InHand
<1> QED
  BY <1>0, <1>3, <1>6, <1>9, CallKeeps

\* The pointers that list_add_before and list_delete store from are loaded.
LEMMA LoadLinkKeeps ==
  ASSUME SlabsTyped, NEW t \in Task, Slabs!LoadLast(t) \/ Slabs!LoadBeside(t)
  PROVE  SlabsTyped' /\ (SlabsSafe /\ Slabs!Sane' => SlabsSafe')
<1>0. PICK c \in SlabForms : c = slab_call[t]
  BY DEF SlabsTyped
<1>1. c.at = "load" /\ c.field \in {"add1", "add2", "del1", "del2"} /\ c \in SlabCalls
      /\ c.slab \in SlabPage /\ c.next \in SlabPage
  BY <1>0 DEF Slabs!LoadLast, Slabs!LoadBeside, Slabs!Step, SlabForms, SlabCalls
<1>2. PICK n \in SlabPage, p \in SlabPage :
        /\ c.field \in {"add1", "add2"} => n = c.next /\ p = slab_list.prev[FirstSlab]
        /\ c.field \in {"del1", "del2"} => n = slab_list.next[c.slab] /\ p = slab_list.prev[c.slab]
  <2>1. /\ \A s \in SlabPage : slab_list.next[s] \in SlabPage /\ slab_list.prev[s] \in SlabPage
        /\ FirstSlab \in SlabPage
    BY SlabConstants DEF SlabsTyped, ListMemory
  <2>2. CASE c.field \in {"add1", "add2"}
    BY <1>1, <2>1, <2>2
  <2>3. CASE c.field \in {"del1", "del2"}
    BY <1>1, <2>1, <2>3
  <2> QED
    BY <1>1, <2>2, <2>3
<1> DEFINE e == [c EXCEPT !.at = "store", !.next = n, !.prev = p]
<1>3. Slabs!Step(t, "load", e) /\ UNCHANGED slabMemory
  <2>1. CASE Slabs!LoadLast(t)
    <3>1. /\ Slabs!Step(t, "load", [c EXCEPT !.at = "store", !.prev = p])
          /\ UNCHANGED slabMemory /\ n = c.next
      BY <1>0, <1>2, <2>1 DEF Slabs!LoadLast, slabMemory
    <3>2. [c EXCEPT !.at = "store", !.prev = p] = e
      BY <1>1, <3>1 DEF SlabCalls
    <3> QED
      BY <3>1, <3>2
  <2>2. CASE Slabs!LoadBeside(t)
    BY <1>0, <1>2, <2>2 DEF Slabs!LoadBeside, slabMemory
  <2> QED
    BY <2>1, <2>2
<1>4. /\ e \in SlabForms /\ e.at = "store" /\ e.field = c.field /\ e.job = c.job
      /\ e.slab = c.slab /\ e.unit = c.unit /\ e.next = n /\ e.prev = p
  <2>1. e.at = "store" /\ e.next = n /\ e.prev = p
    BY <1>1 DEF SlabCalls
  <2>2. e.field = c.field /\ e.job = c.job /\ e.slab = c.slab /\ e.unit = c.unit
    BY <1>1 DEF SlabCalls
  <2>3. e \in SlabCalls
    <3>1. PICK b \in SlabCalls : b = [c EXCEPT !.at = "store", !.next = n]
      BY <1>1 DEF SlabCalls, SlabPlaces
    <3>2. [b EXCEPT !.prev = p] \in SlabCalls
      BY DEF SlabCalls
    <3> QED
      BY <3>1, <3>2
  <2> HIDE DEF e
  <2>4. /\ c.field \notin IF c.job = "take" THEN Deleting \cup {"drop"} ELSE Adding \cup {"size"}
        /\ c.field \in Deleting => c.slab # FirstSlab
    BY <1>1 DEF SlabForms, Moving
  <2> QED
    BY <1>1, <2>1, <2>2, <2>3, <2>4 DEF SlabForms, Moving
<1> HIDE DEF e
<1>5. PICK d \in SlabForms : d = e
  BY <1>4
<1>6. Slabs!Step(t, "load", d)
  BY <1>3, <1>5
<1>7. /\ d.at = "store" /\ d.field = c.field /\ d.job = c.job /\ d.slab = c.slab
      /\ d.unit = c.unit /\ d.next = n /\ d.prev = p
  BY <1>4, <1>5
<1>8. LoadSound(d)
  BY <1>1, <1>2, <1>7 DEF LoadSound, Adding, Deleting
<1>9. InHand(c) => Same(c, d) /\ HandSound(d) /\ LoadSound(d) /\ Chosen(d)
  BY <1>1, <1>7, <1>8, LoadedTheSame DEF InHand
<1> QED
  BY <1>0, <1>3, <1>6, <1>9, CallKeeps

\* kfree looks whether its slab is given back: then nothing of it is used.
LEMMA CheckKeeps ==
  ASSUME SlabsTyped, NEW t \in Task, Slabs!Check(t)
  PROVE  SlabsTyped' /\ (SlabsSafe /\ Slabs!Sane' => SlabsSafe')
<1>1. PICK c \in SlabForms : c = slab_call[t]
  BY DEF SlabsTyped
<1>2. /\ c.at = "check" /\ c.job = "give" /\ c.field = "map" /\ c \in SlabCalls
      /\ c.slab \in SlabPage
  BY <1>1 DEF Slabs!Check, Slabs!Step, SlabForms, SlabCalls
<1>3. PICK spare \in BOOLEAN : spare = Slabs!Spare(c.slab, slab_using[c.slab], slab_total)
  BY DEF Slabs!Spare
<1> DEFINE e == [c EXCEPT !.at = "load", !.field = "del1"]
           f == IF spare THEN e ELSE Slabs!None
<1>4. Slabs!Step(t, "check", f) /\ UNCHANGED slabMemory
  BY <1>1, <1>3 DEF Slabs!Check, slabMemory
<1>5. e \in SlabCalls /\ e.at = "load" /\ e.job = "give" /\ e.field = "del1" /\ e.slab = c.slab
  BY <1>2 DEF SlabCalls, SlabPlaces, Deleting
<1>6. spare => slab_using[c.slab] = 0 /\ c.slab # FirstSlab
  BY <1>3 DEF Slabs!Spare
<1> HIDE DEF e
<1>7. PICK d \in SlabForms : d = f
  <2>1. spare => e \in SlabForms
    BY <1>5, <1>6 DEF SlabForms, Moving, Adding
  <2> QED
    BY <2>1, SlabNames
<1>8. /\ spare => d.at = "load" /\ d.job = "give" /\ d.field = "del1" /\ d.slab = c.slab
      /\ ~spare => d.at = "out"
  BY <1>5, <1>7 DEF Slabs!None
<1>9. Same(c, d)
  <2>1. /\ \A r : Bits(c, r) = {} /\ Used(c, r) = 0 /\ Gone(c, r) = 0
        /\ Ahead(c) = 0 /\ OnlyHis(c) = {} /\ Plain(c)
    BY <1>2, OutOwesNothing
  <2>2. /\ \A r : Bits(d, r) = {} /\ Used(d, r) = 0 /\ Gone(d, r) = 0
        /\ Ahead(d) = 0 /\ OnlyHis(d) = {} /\ Plain(d)
    <3>1. CASE spare
      BY <1>8, <3>1 DEF Bits, Used, Gone, Ahead, OnlyHis, Plain, Moving, Adding, Deleting
    <3>2. CASE ~spare
      BY <1>8, <3>2, OutOwesNothing
    <3> QED
      BY <3>1, <3>2
  <2> QED
    BY <2>1, <2>2 DEF Same, Alike
<1>10. ASSUME InHand(c) PROVE HandSound(d) /\ LoadSound(d) /\ Chosen(d)
  <2>1. CASE ~spare
    BY <1>8, <2>1, OutOwesNothing DEF HandSound, LoadSound, Chosen, Moving
  <2>2. CASE spare
    <3>1. c.slab \in slab_pool
      BY <1>2, <1>10 DEF InHand, HandSound
    <3>2. Used(c, c.slab) = 0
      BY <1>2, OutOwesNothing
    <3>3. Cardinality(Owns(c.slab)) + 0 <= 0
      BY <1>6, <1>10, <2>2, <3>1, <3>2 DEF InHand, SlabsAre, UsingsAre, UsingSound
    <3>4. Owns(c.slab) = {}
      BY <3>3, OwnsFinite, FS_EmptySet
    <3>5. OnlyHis(d) = {}
      BY <1>8, <2>2 DEF OnlyHis, Moving, Adding
    <3>6. HandSound(d)
      BY <1>8, <2>2, <3>1, <3>4, <3>5 DEF HandSound, Moving, Adding
    <3> QED
      BY <1>8, <2>2, <3>6 DEF LoadSound, Chosen
  <2> QED
    BY <2>1, <2>2
<1> HIDE DEF f
<1>11. Slabs!Step(t, "check", d)
  BY <1>4, <1>7
<1> QED
  BY <1>1, <1>4, <1>9, <1>10, <1>11, CallKeeps

\* What a step leaves of ListSafe when it changes neither list nor owners nor pages.
LEMMA ListKept ==
  ASSUME ListSafe, UNCHANGED <<slab_list, slab_pool, slab_pages, slab_owners>>
  PROVE  ListSafe'
BY DEF ListSafe

\* The word is stored with its bit set or flipped.
LEMMA StoreMapSound ==
  ASSUME SlabsTyped, NEW c \in SlabForms, NEW d \in SlabForms, InHand(c), ListSafe,
         c.at = "store", c.field = "map", d = Slabs!After(c),
         slab_map' = [slab_map EXCEPT ![c.slab] = Slabs!Marked(c)],
         UNCHANGED <<slab_list, slab_pool, slab_using, slab_free, slab_total, slab_pages, slab_owners, slab_struck>>
  PROVE  InHand(d)' /\ ListSafe'
<1>1. /\ d.job = c.job /\ d.slab = c.slab /\ d.unit = c.unit /\ d.at = "load"
      /\ d.field = IF c.job = "take" THEN "using" ELSE "free"
  BY SlabAfter
<1>2. c.slab \in SlabPage /\ c.job \in {"take", "give"}
  BY DEF SlabForms, SlabCalls
<1>3. c.slab \in slab_pool /\ c.unit \notin Owns(c.slab)
  BY <1>2 DEF InHand, HandSound, Moving
<1>4. slab_pool \subseteq SlabPage
  BY DEF SlabsTyped
<1>5. \A s : Used(c, s) = Used(d, s) /\ Gone(c, s) = Gone(d, s)
  BY <1>1, <1>2 DEF Used, Gone, Moving
<1>6. Ahead(c) = Ahead(d) /\ OnlyHis(c) = {} /\ OnlyHis(d) = {} /\ Alike(c, d)
  BY <1>1, <1>2 DEF Ahead, OnlyHis, Alike, Plain, Moving, Adding, Deleting
<1>7. UsingsAre(d)' /\ FreesAre(d)' /\ TotalIs(d)' /\ PagesAre(d)' /\ Leads(d)'
  BY <1>4, <1>5, <1>6, PartsKept DEF InHand, SlabsAre
<1>8. MapsAre(d)'
  <2> SUFFICES ASSUME NEW r \in slab_pool PROVE MapSound(r, Bits(d, r))'
    BY DEF MapsAre
  <2>1. MapSound(r, Bits(c, r)) /\ r \in SlabPage
    BY <1>4 DEF InHand, SlabsAre, MapsAre
  <2>2. Owns(r)' = Owns(r) /\ (NotHit({"map"})' <=> NotHit({"map"}))
    BY DEF Owns, NotHit
  <2>3. CASE r # c.slab
    <3>1. Bits(c, r) = {} /\ Bits(d, r) = {} /\ slab_map'[r] = slab_map[r]
      BY <1>1, <2>1, <2>3 DEF Bits, SlabsTyped
    <3> QED
      BY <2>1, <2>2, <3>1 DEF MapSound
  <2>4. CASE r = c.slab
    <3>1. slab_map'[r] = Slabs!Marked(c)
      BY <2>1, <2>4 DEF SlabsTyped
    <3>2. slab_map[r] \subseteq c.word /\ (NotHit({"map"}) => c.word = slab_map[r])
      BY <2>4 DEF InHand, LoadSound
    <3>3. CASE c.job = "take"
      <4>1. Bits(c, r) = {} /\ Bits(d, r) = {c.unit}
        BY <1>1, <2>4, <3>3 DEF Bits, Moving
      <4>2. slab_map'[r] = c.word \cup {c.unit}
        BY <3>1, <3>3 DEF Slabs!Marked
      <4> QED
        BY <2>1, <2>2, <3>2, <4>1, <4>2 DEF MapSound
    <3>4. CASE c.job = "give"
      <4>1. Bits(c, r) = {c.unit} /\ Bits(d, r) = {}
        BY <1>1, <2>4, <3>4 DEF Bits, Moving
      <4>2. c.unit \in c.word
        BY <2>1, <3>2, <4>1 DEF MapSound
      <4>3. slab_map'[r] = c.word \ {c.unit}
        BY <3>1, <3>4, <4>2 DEF Slabs!Marked
      <4> QED
        BY <1>3, <2>1, <2>2, <2>4, <3>2, <4>1, <4>3 DEF MapSound
    <3> QED
      BY <1>2, <3>3, <3>4
  <2> QED
    BY <2>3, <2>4
<1>9. HandSound(d)'
  <2>1. slab_pool' = slab_pool /\ Owns(c.slab)' = Owns(c.slab)
    BY DEF Owns
  <2>2. d.slab \in slab_pool' /\ d.unit \notin Owns(d.slab)'
    BY <1>1, <1>3, <2>1
  <2> QED
    BY <1>1, <1>6, <2>2 DEF HandSound, Adding, Deleting
<1>10. LoadSound(d)' /\ Chosen(d)'
  BY <1>1 DEF LoadSound, Chosen
<1> QED
  BY <1>7, <1>8, <1>9, <1>10, ListKept DEF InHand, SlabsAre

\* using_count is stored: what an interrupt took off between is lost, and it stays too high.
LEMMA StoreUsingSound ==
  ASSUME SlabsTyped, NEW c \in SlabForms, NEW d \in SlabForms, InHand(c), ListSafe,
         c.at = "store", c.field = "using", d = Slabs!After(c),
         slab_using' = [slab_using EXCEPT ![c.slab] = c.count + IF c.job = "take" THEN 1 ELSE -1],
         UNCHANGED <<slab_list, slab_pool, slab_map, slab_free, slab_total, slab_pages, slab_owners, slab_struck>>
  PROVE  InHand(d)' /\ ListSafe'
<1>1. /\ d.job = c.job /\ d.slab = c.slab /\ d.unit = c.unit /\ d.at = "load"
      /\ d.field = IF c.job = "take" THEN "free" ELSE "total"
  BY SlabAfter
<1>2. c.slab \in SlabPage /\ c.job \in {"take", "give"} /\ c.count \in Int
  BY DEF SlabForms, SlabCalls
<1>3. c.slab \in slab_pool /\ (c.job = "take" => c.unit \notin Owns(c.slab))
  BY <1>2 DEF InHand, HandSound, Moving
<1>4. slab_pool \subseteq SlabPage
  BY DEF SlabsTyped
<1>5. \A s : Bits(c, s) = Bits(d, s) /\ Gone(c, s) = Gone(d, s)
  BY <1>1, <1>2 DEF Bits, Gone, Moving
<1>6. Ahead(c) = Ahead(d) /\ OnlyHis(c) = {} /\ OnlyHis(d) = {} /\ Alike(c, d)
  BY <1>1, <1>2 DEF Ahead, OnlyHis, Alike, Plain, Moving, Adding, Deleting
<1>7. MapsAre(d)' /\ FreesAre(d)' /\ TotalIs(d)' /\ PagesAre(d)' /\ Leads(d)'
  BY <1>4, <1>5, <1>6, PartsKept DEF InHand, SlabsAre
<1>8. UsingsAre(d)'
  <2> SUFFICES ASSUME NEW r \in slab_pool PROVE UsingSound(r, Used(d, r))'
    BY DEF UsingsAre
  <2>1. UsingSound(r, Used(c, r)) /\ r \in SlabPage /\ slab_using[r] \in Int
    BY <1>4 DEF InHand, SlabsAre, UsingsAre, SlabsTyped
  <2>2. Owns(r)' = Owns(r) /\ (NotHit({"using"})' <=> NotHit({"using"}))
    BY DEF Owns, NotHit
  <2>3. CASE r # c.slab
    <3>1. Used(c, r) = 0 /\ Used(d, r) = 0 /\ slab_using'[r] = slab_using[r]
      BY <1>1, <2>1, <2>3 DEF Used, SlabsTyped
    <3> QED
      BY <2>1, <2>2, <3>1 DEF UsingSound
  <2>4. CASE r = c.slab
    <3>1. slab_using'[r] = c.count + IF c.job = "take" THEN 1 ELSE -1
      BY <2>1, <2>4 DEF SlabsTyped
    <3>2. slab_using[r] <= c.count /\ (NotHit({"using"}) => c.count = slab_using[r])
      BY <2>4 DEF InHand, LoadSound
    <3>3. Used(d, r) = Used(c, r) + (IF c.job = "take" THEN 1 ELSE -1) /\ Used(c, r) \in Int
      BY <1>1, <1>2, <2>4 DEF Used, Moving
    <3>4. Cardinality(Owns(r)) \in Nat
      BY OwnsFinite
    <3> QED
      BY <1>2, <2>1, <2>2, <3>1, <3>2, <3>3, <3>4 DEF UsingSound
  <2> QED
    BY <2>3, <2>4
<1>9. HandSound(d)'
  <2>1. slab_pool' = slab_pool /\ Owns(c.slab)' = Owns(c.slab)
    BY DEF Owns
  <2>2. d.slab \in slab_pool' /\ (c.job = "take" => d.unit \notin Owns(d.slab)')
    BY <1>1, <1>3, <2>1
  <2> QED
    BY <1>1, <1>2, <1>6, <2>2 DEF HandSound, Adding, Deleting
<1>10. LoadSound(d)' /\ Chosen(d)'
  BY <1>1 DEF LoadSound, Chosen
<1> QED
  BY <1>7, <1>8, <1>9, <1>10, ListKept DEF InHand, SlabsAre

\* free_count is stored: what an interrupt added between is lost, and it stays too low.
LEMMA StoreFreeSound ==
  ASSUME SlabsTyped, NEW c \in SlabForms, NEW d \in SlabForms, InHand(c), ListSafe,
         c.at = "store", c.field = "free", d = Slabs!After(c),
         slab_free' = [slab_free EXCEPT ![c.slab] = c.count + IF c.job = "take" THEN -1 ELSE 1],
         UNCHANGED <<slab_list, slab_pool, slab_map, slab_using, slab_total, slab_pages, slab_owners, slab_struck>>
  PROVE  InHand(d)' /\ ListSafe'
<1>1. /\ d.job = c.job /\ d.slab = c.slab /\ d.unit = c.unit /\ d.at = "load"
      /\ d.field = IF c.job = "take" THEN "total" ELSE "using"
  BY SlabAfter
<1>2. c.slab \in SlabPage /\ c.job \in {"take", "give"} /\ c.count \in Int
  BY DEF SlabForms, SlabCalls
<1>3. c.slab \in slab_pool /\ (c.job = "take" => c.unit \notin Owns(c.slab))
  BY <1>2 DEF InHand, HandSound, Moving
<1>4. slab_pool \subseteq SlabPage
  BY DEF SlabsTyped
<1>5. \A s : Bits(c, s) = Bits(d, s) /\ Used(c, s) = Used(d, s)
  BY <1>1, <1>2 DEF Bits, Used, Moving
<1>6. Ahead(c) = Ahead(d) /\ OnlyHis(c) = {} /\ OnlyHis(d) = {} /\ Alike(c, d)
  BY <1>1, <1>2 DEF Ahead, OnlyHis, Alike, Plain, Moving, Adding, Deleting
<1>7. MapsAre(d)' /\ UsingsAre(d)' /\ TotalIs(d)' /\ PagesAre(d)' /\ Leads(d)'
  BY <1>4, <1>5, <1>6, PartsKept DEF InHand, SlabsAre
<1>8. FreesAre(d)'
  <2> SUFFICES ASSUME NEW r \in slab_pool PROVE FreeSound(r, Gone(d, r))'
    BY DEF FreesAre
  <2>1. FreeSound(r, Gone(c, r)) /\ r \in SlabPage /\ slab_free[r] \in Int
    BY <1>4 DEF InHand, SlabsAre, FreesAre, SlabsTyped
  <2>2. Owns(r)' = Owns(r) /\ (NotHit({"free"})' <=> NotHit({"free"}))
    BY DEF Owns, NotHit
  <2>3. CASE r # c.slab
    <3>1. Gone(c, r) = 0 /\ Gone(d, r) = 0 /\ slab_free'[r] = slab_free[r]
      BY <1>1, <2>1, <2>3 DEF Gone, SlabsTyped
    <3> QED
      BY <2>1, <2>2, <3>1 DEF FreeSound
  <2>4. CASE r = c.slab
    <3>1. slab_free'[r] = c.count + IF c.job = "take" THEN -1 ELSE 1
      BY <2>1, <2>4 DEF SlabsTyped
    <3>2. c.count <= slab_free[r] /\ (NotHit({"free"}) => c.count = slab_free[r])
      BY <2>4 DEF InHand, LoadSound
    <3>3. Gone(d, r) = Gone(c, r) + (IF c.job = "take" THEN 1 ELSE -1) /\ Gone(c, r) \in Int
      BY <1>1, <1>2, <2>4 DEF Gone, Moving
    <3>4. Cardinality(Owns(r)) \in Nat /\ Colors \in Nat
      BY OwnsFinite, SlabConstants
    <3> QED
      BY <1>2, <2>1, <2>2, <3>1, <3>2, <3>3, <3>4 DEF FreeSound
  <2> QED
    BY <2>3, <2>4
<1>9. HandSound(d)'
  <2>1. slab_pool' = slab_pool /\ Owns(c.slab)' = Owns(c.slab)
    BY DEF Owns
  <2>2. d.slab \in slab_pool' /\ (c.job = "take" => d.unit \notin Owns(d.slab)')
    BY <1>1, <1>3, <2>1
  <2> QED
    BY <1>1, <1>2, <1>6, <2>2 DEF HandSound, Adding, Deleting
<1>10. LoadSound(d)' /\ Chosen(d)'
  BY <1>1 DEF LoadSound, Chosen
<1> QED
  BY <1>7, <1>8, <1>9, <1>10, ListKept DEF InHand, SlabsAre

\* total_free is stored, by a kfree, or with a whole slab.
LEMMA StoreTotalSound ==
  ASSUME SlabsTyped, NEW c \in SlabForms, NEW d \in SlabForms, InHand(c), ListSafe,
         c.at = "store", d = Slabs!After(c),
         \/ c.field = "total" /\ c.job = "give" /\ slab_total' = c.count + 1
         \/ c.field = "size" /\ slab_total' = c.count + Colors,
         UNCHANGED <<slab_list, slab_pool, slab_map, slab_using, slab_free, slab_pages, slab_owners, slab_struck>>
  PROVE  InHand(d)' /\ ListSafe'
<1>1. /\ d.job = c.job /\ d.slab = c.slab /\ d.unit = c.unit
      /\ d.field = IF c.field = "total" THEN "map" ELSE "add1"
      /\ c.field = "total" => d.at = "check"
      /\ c.field = "size" => d.at = "load" /\ c.job = "take"
  BY SlabAfter
<1>2. c.slab \in SlabPage /\ c.count \in Int /\ Colors \in Nat /\ slab_total \in Int
  BY SlabConstants DEF SlabForms, SlabCalls, SlabsTyped
<1>4. slab_pool \subseteq SlabPage
  BY DEF SlabsTyped
<1>5. \A s : Bits(c, s) = Bits(d, s) /\ Used(c, s) = Used(d, s) /\ Gone(c, s) = Gone(d, s)
  <2>1. CASE c.field = "total"
    BY <1>1, <2>1 DEF Bits, Used, Gone, Moving
  <2>2. CASE c.field = "size"
    BY <1>1, <2>2 DEF Bits, Used, Gone, Moving
  <2> QED
    BY <2>1, <2>2
<1>6. /\ OnlyHis(c) = OnlyHis(d) /\ Alike(c, d)
      /\ Ahead(d) = Ahead(c) + IF c.field = "total" THEN 1 ELSE Colors
      /\ Ahead(c) \in Int
  <2>1. CASE c.field = "total"
    BY <1>1, <2>1 DEF Ahead, OnlyHis, Alike, Plain, Moving, Adding, Deleting
  <2>2. CASE c.field = "size"
    BY <1>1, <1>2, <2>2 DEF Ahead, OnlyHis, Alike, Plain, Moving, Adding, Deleting
  <2> QED
    BY <2>1, <2>2
<1>7. MapsAre(d)' /\ UsingsAre(d)' /\ FreesAre(d)' /\ PagesAre(d)' /\ Leads(d)'
  BY <1>4, <1>5, <1>6, PartsKept DEF InHand, SlabsAre
<1>8. TotalIs(d)'
  <2> SUFFICES ASSUME NotHit({"total", "size", "drop"})'
               PROVE  slab_total' = Cardinality(Spares)' + Ahead(d)
    BY DEF TotalIs
  <2>1. NotHit({"total", "size", "drop"}) /\ NotHit({c.field})
    BY DEF NotHit
  <2>2. c.count = slab_total /\ slab_total = Cardinality(Spares) + Ahead(c)
    BY <2>1 DEF InHand, LoadSound, SlabsAre, TotalIs
  <2>3. Spares' = Spares /\ Cardinality(Spares) \in Nat
    BY <1>4, SparesFinite DEF Spares
  <2>4. Cardinality(Spares)' = Cardinality(Spares)
    BY <2>3
  <2>5. slab_total' = c.count + IF c.field = "total" THEN 1 ELSE Colors
    OBVIOUS
  <2> QED
    BY <1>2, <1>6, <2>2, <2>3, <2>4, <2>5
<1>9. HandSound(d)'
  <2>1. slab_pool' = slab_pool /\ Owns(c.slab)' = Owns(c.slab)
    BY DEF Owns
  <2>2. CASE c.field = "total"
    <3>1. c.slab \in slab_pool
      BY <2>2 DEF InHand, HandSound, Moving
    <3>2. OnlyHis(d) = {}
      BY <1>1, <2>2 DEF OnlyHis, Moving
    <3> QED
      BY <1>1, <2>1, <2>2, <3>1, <3>2 DEF HandSound, Moving
  <2>3. CASE c.field = "size"
    <3>1. /\ slab_map[c.slab] = {} /\ slab_using[c.slab] = 0 /\ slab_free[c.slab] = Colors
          /\ \A s \in OnlyHis(c) : s \notin slab_pool /\ s \notin slab_pages
      BY <2>3 DEF InHand, HandSound, Moving
    <3>2. d.at = "load" /\ d.job = "take" /\ d.field = "add1"
      BY <1>1, <2>3
    <3> QED
      BY <1>1, <1>6, <2>1, <3>1, <3>2 DEF HandSound, Moving, Deleting
  <2> QED
    BY <2>2, <2>3
<1>10. LoadSound(d)' /\ Chosen(d)'
  <2>1. d.at = "check" \/ (d.at = "load" /\ d.field = "add1")
    BY <1>1
  <2> QED
    BY <2>1 DEF LoadSound, Chosen
<1> QED
  BY <1>7, <1>8, <1>9, <1>10, ListKept DEF InHand, SlabsAre

\* A slab is given back: the last store of total_free.
LEMMA StoreDropSound ==
  ASSUME SlabsTyped, NEW c \in SlabForms, NEW d \in SlabForms, InHand(c), ListSafe,
         c.at = "store", d = Slabs!After(c), c.field = "drop",
         slab_total' = c.count - Colors,
         UNCHANGED <<slab_list, slab_pool, slab_map, slab_using, slab_free, slab_pages, slab_owners, slab_struck>>
  PROVE  InHand(d)' /\ ListSafe'
<1>1. d.at = "page" /\ c.job = "give" /\ d.slab = c.slab /\ d.job = "give" /\ d.field = "map"
  BY SlabAfter
<1>2. c.slab \in SlabPage /\ c.count \in Int /\ Colors \in Nat /\ slab_total \in Int
  BY SlabConstants DEF SlabForms, SlabCalls, SlabsTyped
<1>3. /\ \A s : Bits(d, s) = {} /\ Used(d, s) = 0 /\ Gone(d, s) = 0
      /\ Ahead(d) = 0 /\ OnlyHis(d) = {c.slab}
  BY <1>1 DEF Bits, Used, Gone, Ahead, OnlyHis, Moving
<1>4. slab_pool \subseteq SlabPage
  BY DEF SlabsTyped
<1>5. \A s : Bits(c, s) = {} /\ Used(c, s) = 0 /\ Gone(c, s) = 0
  BY <1>1 DEF Bits, Used, Gone, Moving
<1>6. Ahead(c) = Colors /\ OnlyHis(c) = {c.slab} /\ Alike(c, d)
  BY <1>1 DEF Ahead, OnlyHis, Alike, Plain, Moving
<1>7. MapsAre(d)' /\ UsingsAre(d)' /\ FreesAre(d)' /\ PagesAre(d)' /\ Leads(d)'
  BY <1>3, <1>4, <1>5, <1>6, PartsKept DEF InHand, SlabsAre
<1>8. TotalIs(d)'
  <2> SUFFICES ASSUME NotHit({"total", "size", "drop"})'
               PROVE  slab_total' = Cardinality(Spares)' + Ahead(d)
    BY DEF TotalIs
  <2>1. NotHit({"total", "size", "drop"}) /\ NotHit({c.field})
    BY DEF NotHit
  <2>2. c.count = slab_total /\ slab_total = Cardinality(Spares) + Ahead(c)
    BY <2>1 DEF InHand, LoadSound, SlabsAre, TotalIs
  <2>3. Spares' = Spares /\ Cardinality(Spares) \in Nat
    BY <1>4, SparesFinite DEF Spares
  <2>4. Cardinality(Spares)' = Cardinality(Spares)
    BY <2>3
  <2> QED
    BY <1>2, <1>3, <1>6, <2>2, <2>3, <2>4
<1>9. HandSound(d)'
  <2>1. c.slab \notin slab_pool /\ c.slab \notin slab_pages
    BY <1>6 DEF InHand, HandSound
  <2> QED
    BY <1>1, <1>3, <2>1 DEF HandSound, Moving
<1>10. LoadSound(d)' /\ Chosen(d)'
  BY <1>1 DEF LoadSound, Chosen
<1> QED
  BY <1>7, <1>8, <1>9, <1>10, ListKept DEF InHand, SlabsAre

\* One owner more or less of an object.
Gets(s, j, n) == slab_owners' = [slab_owners EXCEPT ![<<s, j>>] = n]

\* What is owned of the slabs when one object's owners are others.
LEMMA OwnersChange ==
  ASSUME SlabsTyped, NEW s \in SlabPage, NEW j \in SlabUnit, NEW n \in Nat, Gets(s, j, n)
  PROVE  /\ \A r \in SlabPage : r # s => Owns(r)' = Owns(r)
         /\ n > 0 => Owns(s)' = Owns(s) \cup {j}
         /\ n = 0 => Owns(s)' = Owns(s) \ {j}
         /\ j \notin Owns(s) => Cardinality(Owns(s) \cup {j}) = Cardinality(Owns(s)) + 1
         /\ j \in Owns(s) => Cardinality(Owns(s) \ {j}) = Cardinality(Owns(s)) - 1
         /\ \A o \in SlabPage \X SlabUnit : slab_owners'[o] = IF o = <<s, j>> THEN n ELSE slab_owners[o]
<1>1. \A r \in SlabPage, k \in SlabUnit :
        slab_owners'[<<r, k>>] = IF r = s /\ k = j THEN n ELSE slab_owners[<<r, k>>]
  BY DEF SlabsTyped, Gets
<1>2. \A r \in SlabPage : r # s => Owns(r)' = Owns(r)
  BY <1>1 DEF Owns
<1>3. n > 0 => Owns(s)' = Owns(s) \cup {j}
  BY <1>1 DEF Owns
<1>4. n = 0 => Owns(s)' = Owns(s) \ {j}
  BY <1>1 DEF Owns
<1>5. \A o \in SlabPage \X SlabUnit : slab_owners'[o] = IF o = <<s, j>> THEN n ELSE slab_owners[o]
  BY DEF SlabsTyped, Gets
<1>6. IsFiniteSet(Owns(s))
  BY OwnsFinite
<1>7. j \notin Owns(s) => Cardinality(Owns(s) \cup {j}) = Cardinality(Owns(s)) + 1
  BY <1>6, FS_AddElement
<1>8. j \in Owns(s) => Cardinality(Owns(s) \ {j}) = Cardinality(Owns(s)) - 1
  BY <1>6, FS_RemoveElement
<1> QED
  BY <1>2, <1>3, <1>4, <1>5, <1>7, <1>8

\* kmalloc's last store: the object has an owner.
LEMMA StoreLastSound ==
  ASSUME SlabsTyped, NEW c \in SlabForms, NEW d \in SlabForms, InHand(c), ListSafe,
         c.at = "store", d = Slabs!After(c), c.field = "total", c.job = "take",
         slab_total' = c.count - 1,
         Gets(c.slab, c.unit, slab_owners[<<c.slab, c.unit>>] + 1),
         UNCHANGED <<slab_list, slab_pool, slab_map, slab_using, slab_free, slab_pages, slab_struck>>
  PROVE  InHand(d)' /\ ListSafe'
<1>1. d.at = "out"
  BY SlabAfter DEF Slabs!None
<1>2. c.slab \in SlabPage /\ c.unit \in SlabUnit /\ c.count \in Int /\ Colors \in Nat /\ slab_total \in Int
  BY SlabConstants DEF SlabForms, SlabCalls, SlabsTyped
<1>3. /\ \A s : Bits(d, s) = {} /\ Used(d, s) = 0 /\ Gone(d, s) = 0
      /\ Ahead(d) = 0 /\ OnlyHis(d) = {} /\ Plain(d)
  BY <1>1, OutOwesNothing
<1>4. slab_pool \subseteq SlabPage /\ slab_pool' = slab_pool
  BY DEF SlabsTyped
<1>5. /\ Bits(c, c.slab) = {c.unit} /\ Used(c, c.slab) = 1 /\ Gone(c, c.slab) = 1
      /\ \A s : s # c.slab => Bits(c, s) = {} /\ Used(c, s) = 0 /\ Gone(c, s) = 0
      /\ Ahead(c) = 0 /\ OnlyHis(c) = {} /\ Plain(c)
  BY DEF Bits, Used, Gone, Ahead, OnlyHis, Plain, Moving, Adding
<1>6. c.slab \in slab_pool /\ c.unit \notin Owns(c.slab)
  BY DEF InHand, HandSound, Moving
<1>7. slab_owners[<<c.slab, c.unit>>] = 0
  <2>1. slab_owners[<<c.slab, c.unit>>] \in Nat
    BY <1>2 DEF SlabsTyped
  <2>2. ~(slab_owners[<<c.slab, c.unit>>] > 0)
    BY <1>2, <1>6 DEF Owns
  <2> QED
    BY <2>1, <2>2
<1>8. Gets(c.slab, c.unit, 1)
  BY <1>7
<1>9. /\ \A r \in SlabPage : r # c.slab => Owns(r)' = Owns(r)
      /\ Owns(c.slab)' = Owns(c.slab) \cup {c.unit}
      /\ Cardinality(Owns(c.slab) \cup {c.unit}) = Cardinality(Owns(c.slab)) + 1
      /\ \A o \in SlabPage \X SlabUnit :
           slab_owners'[o] = IF o = <<c.slab, c.unit>> THEN 1 ELSE slab_owners[o]
  <2>1. PICK s \in SlabPage, j \in SlabUnit : s = c.slab /\ j = c.unit
    BY <1>2
  <2>2. PICK n \in Nat : n = 1 /\ Gets(s, j, n)
    BY <1>8, <2>1
  <2>4. j \notin Owns(s) /\ n > 0
    BY <1>6, <2>1, <2>2
  <2>3. /\ \A r \in SlabPage : r # s => Owns(r)' = Owns(r)
        /\ Owns(s)' = Owns(s) \cup {j}
        /\ Cardinality(Owns(s) \cup {j}) = Cardinality(Owns(s)) + 1
        /\ \A o \in SlabPage \X SlabUnit :
             slab_owners'[o] = IF o = <<s, j>> THEN n ELSE slab_owners[o]
    <3>1. Gets(s, j, n)
      BY <2>2
    <3>2. \A r \in SlabPage : r # s => Owns(r)' = Owns(r)
      BY <3>1, OwnersChange
    <3>3. Owns(s)' = Owns(s) \cup {j}
      BY <2>4, <3>1, OwnersChange
    <3>4. Cardinality(Owns(s) \cup {j}) = Cardinality(Owns(s)) + 1
      BY <2>4, <3>1, OwnersChange
    <3>5. \A o \in SlabPage \X SlabUnit :
             slab_owners'[o] = IF o = <<s, j>> THEN n ELSE slab_owners[o]
      BY <3>1 DEF Gets, SlabsTyped
    <3> QED
      BY <3>2, <3>3, <3>4, <3>5
  <2> QED
    BY <2>1, <2>2, <2>3
<1>10. \A what : NotHit(what)' <=> NotHit(what)
  BY DEF NotHit
<1>11. MapsAre(d)'
  <2> SUFFICES ASSUME NEW r \in slab_pool PROVE MapSound(r, {})'
    BY <1>3, <1>4 DEF MapsAre
  <2>1. MapSound(r, Bits(c, r))
    BY DEF InHand, SlabsAre, MapsAre
  <2>2. Owns(r)' = Owns(r) \cup Bits(c, r)
    BY <1>4, <1>5, <1>9
  <2> QED
    BY <1>10, <2>1, <2>2 DEF MapSound
<1>12. \A r \in slab_pool : /\ Cardinality(Owns(r))' = Cardinality(Owns(r)) + Used(c, r)
                         /\ Used(c, r) = Gone(c, r) /\ Used(c, r) \in Int
                         /\ Cardinality(Owns(r)) \in Nat
  <2> TAKE r \in slab_pool
  <2>1. Cardinality(Owns(r)) \in Nat
    BY OwnsFinite
  <2>2. CASE r = c.slab
    <3>1. Used(c, r) = 1 /\ Gone(c, r) = 1
      BY <1>5, <2>2
    <3>2. Cardinality(Owns(r))' = Cardinality(Owns(r)) + 1
      BY <1>9, <2>2
    <3> QED
      BY <2>1, <3>1, <3>2
  <2>3. CASE r # c.slab
    <3>1. Used(c, r) = 0 /\ Gone(c, r) = 0
      BY <1>5, <2>3
    <3>2. Cardinality(Owns(r))' = Cardinality(Owns(r))
      BY <1>4, <1>9, <2>3
    <3> QED
      BY <2>1, <3>1, <3>2
  <2> QED
    BY <2>2, <2>3
<1>13. UsingsAre(d)'
  <2> SUFFICES ASSUME NEW r \in slab_pool PROVE UsingSound(r, 0)'
    BY <1>3, <1>4 DEF UsingsAre
  <2>1. UsingSound(r, Used(c, r)) /\ slab_using[r] \in Int
    BY <1>4 DEF InHand, SlabsAre, UsingsAre, SlabsTyped
  <2> QED
    BY <1>10, <1>12, <2>1 DEF UsingSound
<1>14. FreesAre(d)'
  <2> SUFFICES ASSUME NEW r \in slab_pool PROVE FreeSound(r, 0)'
    BY <1>3, <1>4 DEF FreesAre
  <2>1. FreeSound(r, Gone(c, r)) /\ slab_free[r] \in Int
    BY <1>4 DEF InHand, SlabsAre, FreesAre, SlabsTyped
  <2> QED
    BY <1>2, <1>10, <1>12, <2>1 DEF FreeSound
<1>15. TotalIs(d)'
  <2> SUFFICES ASSUME NotHit({"total", "size", "drop"})'
               PROVE  slab_total' = Cardinality(Spares)' + 0
    BY <1>3 DEF TotalIs
  <2>1. NotHit({"total", "size", "drop"}) /\ NotHit({c.field})
    BY DEF NotHit
  <2>2. c.count = slab_total /\ slab_total = Cardinality(Spares) + 0
    BY <1>5, <2>1 DEF InHand, LoadSound, SlabsAre, TotalIs
  <2>3. <<c.slab, c.unit>> \in Spares
    BY <1>2, <1>6, <1>7 DEF Spares
  <2>4. Spares' = Spares \ {<<c.slab, c.unit>>}
    <3>1. slab_pool \X SlabUnit \subseteq SlabPage \X SlabUnit
      BY <1>4
    <3> QED
      BY <1>4, <1>9, <3>1 DEF Spares
  <2>5. IsFiniteSet(Spares) /\ Cardinality(Spares) \in Nat
    BY <1>4, SparesFinite
  <2>6. Cardinality(Spares)' = Cardinality(Spares) - 1
    <3>1. PICK o : o = <<c.slab, c.unit>>
      OBVIOUS
    <3>2. Cardinality(Spares \ {o}) = Cardinality(Spares) - 1
      BY <2>3, <2>5, <3>1, FS_RemoveElement
    <3> QED
      BY <2>4, <3>1, <3>2
  <2> QED
    BY <2>2, <2>5, <2>6
<1>16. PagesAre(d)'
  <2>1. SlabPage \subseteq slab_pages \cup slab_pool
    BY <1>5 DEF InHand, SlabsAre, PagesAre
  <2> QED
    BY <1>4, <2>1 DEF PagesAre
<1>17. HandSound(d)' /\ LoadSound(d)' /\ Chosen(d)'
  BY <1>1, <1>3 DEF HandSound, LoadSound, Chosen, Moving
<1>18. ListSafe'
  <2>1. \A o \in SlabPage \X SlabUnit : slab_owners'[o] > 0 => slab_owners'[o] = 1 /\ o[1] \in slab_pool'
    <3> TAKE o \in SlabPage \X SlabUnit
    <3>1. CASE o = <<c.slab, c.unit>>
      BY <1>4, <1>6, <1>9, <3>1
    <3>2. CASE o # <<c.slab, c.unit>>
      BY <1>4, <1>9, <3>2 DEF ListSafe
    <3> QED
      BY <3>1, <3>2
  <2> QED
    BY <1>4, <2>1 DEF ListSafe
<1>19. Leads(d)'
  <2>1. WellLinked(slab_list, slab_pool, FirstSlab)
    BY <1>5 DEF InHand, SlabsAre, Leads
  <2> QED
    BY <1>3, <2>1 DEF Leads, Plain
<1> QED
  BY <1>11, <1>13, <1>14, <1>15, <1>16, <1>17, <1>18, <1>19 DEF InHand, SlabsAre

\* The store of a word is a step of the invariant.
LEMMA StoreMapKeeps ==
  ASSUME SlabsTyped, NEW t \in Task, Slabs!StoreMap(t)
  PROVE  SlabsTyped' /\ (SlabsSafe /\ Slabs!Sane' => SlabsSafe')
<1>0. PICK c \in SlabForms : c = slab_call[t]
  BY DEF SlabsTyped
<1>1. c.at = "store" /\ c.field = "map" /\ c.slab \in SlabPage /\ c.unit \in SlabUnit
      /\ c.word \subseteq SlabUnit
  BY <1>0 DEF Slabs!StoreMap, Slabs!Step, SlabForms, SlabCalls
<1>2. PICK d \in SlabForms : d = Slabs!After(c)
  BY <1>1, SlabAfter
<1>3. Slabs!Step(t, "store", d)
  BY <1>0, <1>2 DEF Slabs!StoreMap
<1>4. /\ slab_map' = [slab_map EXCEPT ![c.slab] = Slabs!Marked(c)]
      /\ UNCHANGED <<slab_list, slab_pool, slab_using, slab_free, slab_total, slab_pages, slab_owners>>
  BY <1>0 DEF Slabs!StoreMap
<1>5. /\ slab_call' \in [Task -> SlabForms] /\ slab_struck' \subseteq Strikes
      /\ slab_call'[t] = d
      /\ \A u \in Task : u # t => slab_call'[u] = slab_call[u]
      /\ Slabs!Sane' => /\ Slabs!Sane /\ slab_struck' = slab_struck
                        /\ \A u \in Task : u # t => slab_call[u].at = "out"
  BY <1>3, SlabStep
<1>6. SlabsTyped'
  <2>1. Slabs!Marked(c) \in SUBSET SlabUnit
    BY <1>1 DEF Slabs!Marked
  <2>2. slab_map' \in [SlabPage -> SUBSET SlabUnit]
    BY <1>4, <2>1 DEF SlabsTyped
  <2> QED
    BY <1>4, <1>5, <2>2 DEF SlabsTyped
<1>7. ASSUME SlabsSafe, Slabs!Sane' PROVE SlabsSafe'
  <2>1. InHand(c) /\ ListSafe
    BY <1>0, <1>5, <1>7, SlabsBefore
  <2>2. InHand(d)' /\ ListSafe'
    BY <1>1, <1>2, <1>4, <1>5, <1>7, <2>1, StoreMapSound
  <2>3. slab_pool' \subseteq SlabPage /\ \A u \in Task : u # t => slab_call'[u].at = "out"
    BY <1>5, <1>6, <1>7 DEF SlabsTyped
  <2> QED
    BY <1>5, <2>2, <2>3, SlabsAfterwards
<1> QED
  BY <1>6, <1>7

\* So is the store of each counter.
LEMMA StoreCountKeeps ==
  ASSUME SlabsTyped, NEW t \in Task, Slabs!StoreCount(t)
  PROVE  SlabsTyped' /\ (SlabsSafe /\ Slabs!Sane' => SlabsSafe')
<1>0. PICK c \in SlabForms : c = slab_call[t]
  BY DEF SlabsTyped
<1>1. c.at = "store" /\ c.field # "map" /\ c.slab \in SlabPage /\ c.unit \in SlabUnit
      /\ c.count \in Int /\ c.field \in SlabFields /\ c.job \in {"take", "give"}
  BY <1>0 DEF Slabs!StoreCount, Slabs!Step, Slabs!Fields, SlabFields, SlabForms, SlabCalls
<1>2. PICK d \in SlabForms : d = Slabs!After(c)
  BY <1>1, SlabAfter
<1>3. Slabs!Step(t, "store", d)
  BY <1>0, <1>2 DEF Slabs!StoreCount
<1>4. /\ slab_using' = IF c.field = "using" THEN [slab_using EXCEPT ![c.slab] = Slabs!Counted(c)]
                                            ELSE slab_using
      /\ slab_free' = IF c.field = "free" THEN [slab_free EXCEPT ![c.slab] = Slabs!Counted(c)]
                                          ELSE slab_free
      /\ slab_total' = IF c.field \in {"total", "size", "drop"} THEN Slabs!Counted(c) ELSE slab_total
      /\ slab_owners' = IF c.field = "total" /\ c.job = "take"
                        THEN [slab_owners EXCEPT ![<<c.slab, c.unit>>] = @ + 1] ELSE slab_owners
      /\ UNCHANGED <<slab_list, slab_pool, slab_map, slab_pages>>
  BY <1>0 DEF Slabs!StoreCount
<1>5. /\ slab_call' \in [Task -> SlabForms] /\ slab_struck' \subseteq Strikes
      /\ slab_call'[t] = d
      /\ \A u \in Task : u # t => slab_call'[u] = slab_call[u]
      /\ Slabs!Sane' => /\ Slabs!Sane /\ slab_struck' = slab_struck
                        /\ \A u \in Task : u # t => slab_call[u].at = "out"
  BY <1>3, SlabStep
<1>6. /\ c.field = "using" => Slabs!Counted(c) = c.count + IF c.job = "take" THEN 1 ELSE -1
      /\ c.field = "free" => Slabs!Counted(c) = c.count + IF c.job = "take" THEN -1 ELSE 1
      /\ c.field = "total" => Slabs!Counted(c) = c.count + IF c.job = "take" THEN -1 ELSE 1
      /\ c.field = "size" => Slabs!Counted(c) = c.count + Colors
      /\ c.field = "drop" => Slabs!Counted(c) = c.count + (-Colors)
  BY DEF Slabs!Counted
<1>7. Slabs!Counted(c) \in Int /\ Colors \in Nat
  BY <1>1, <1>6, SlabConstants DEF SlabFields
<1>8. SlabsTyped'
  <2>1. slab_using' \in [SlabPage -> Int] /\ slab_free' \in [SlabPage -> Int] /\ slab_total' \in Int
    BY <1>4, <1>7 DEF SlabsTyped
  <2>2. slab_owners' \in [SlabPage \X SlabUnit -> Nat]
    <3>1. slab_owners \in [SlabPage \X SlabUnit -> Nat] /\ <<c.slab, c.unit>> \in SlabPage \X SlabUnit
      BY <1>1 DEF SlabsTyped
    <3>2. slab_owners[<<c.slab, c.unit>>] + 1 \in Nat
      BY <3>1
    <3>3. PICK n \in Nat : n = slab_owners[<<c.slab, c.unit>>] + 1
      BY <3>2
    <3>4. [slab_owners EXCEPT ![<<c.slab, c.unit>>] = n] \in [SlabPage \X SlabUnit -> Nat]
      BY <3>1
    <3> QED
      BY <1>4, <3>1, <3>3, <3>4
  <2> QED
    BY <1>4, <1>5, <2>1, <2>2 DEF SlabsTyped
<1>9. ASSUME SlabsSafe, Slabs!Sane' PROVE SlabsSafe'
  <2>1. InHand(c) /\ ListSafe
    BY <1>0, <1>5, <1>9, SlabsBefore
  <2>2. InHand(d)' /\ ListSafe'
    <3>1. CASE c.field = "using"
      <4>1. /\ slab_using' = [slab_using EXCEPT ![c.slab] = c.count + IF c.job = "take" THEN 1 ELSE -1]
            /\ UNCHANGED <<slab_list, slab_pool, slab_map, slab_free, slab_total, slab_pages, slab_owners, slab_struck>>
        BY <1>4, <1>5, <1>6, <1>9, <3>1
      <4> QED
        BY <1>1, <1>2, <2>1, <3>1, <4>1, StoreUsingSound
    <3>2. CASE c.field = "free"
      <4>1. /\ slab_free' = [slab_free EXCEPT ![c.slab] = c.count + IF c.job = "take" THEN -1 ELSE 1]
            /\ UNCHANGED <<slab_list, slab_pool, slab_map, slab_using, slab_total, slab_pages, slab_owners, slab_struck>>
        BY <1>4, <1>5, <1>6, <1>9, <3>2
      <4> QED
        BY <1>1, <1>2, <2>1, <3>2, <4>1, StoreFreeSound
    <3>3. CASE c.field = "size" \/ (c.field = "total" /\ c.job = "give")
      <4>1. /\ \/ c.field = "total" /\ c.job = "give" /\ slab_total' = c.count + 1
               \/ c.field = "size" /\ slab_total' = c.count + Colors
            /\ UNCHANGED <<slab_list, slab_pool, slab_map, slab_using, slab_free, slab_pages, slab_owners, slab_struck>>
        BY <1>4, <1>5, <1>6, <1>9, <3>3
      <4> QED
        BY <1>1, <1>2, <2>1, <4>1, StoreTotalSound
    <3>4. CASE c.field = "drop"
      <4>1. /\ slab_total' = c.count - Colors
            /\ UNCHANGED <<slab_list, slab_pool, slab_map, slab_using, slab_free, slab_pages, slab_owners, slab_struck>>
        BY <1>1, <1>4, <1>5, <1>6, <1>7, <1>9, <3>4
      <4> QED
        BY <1>1, <1>2, <2>1, <3>4, <4>1, StoreDropSound
    <3>5. CASE c.field = "total" /\ c.job = "take"
      <4>1. slab_total' = c.count - 1
        BY <1>1, <1>4, <1>6, <3>5
      <4>2. UNCHANGED <<slab_list, slab_pool, slab_map, slab_using, slab_free, slab_pages, slab_struck>>
        BY <1>4, <1>5, <1>9, <3>5
      <4>3. Gets(c.slab, c.unit, slab_owners[<<c.slab, c.unit>>] + 1)
        BY <1>4, <3>5 DEF Gets
      <4> QED
        BY <1>1, <1>2, <2>1, <3>5, <4>1, <4>2, <4>3, StoreLastSound
    <3> QED
      BY <1>1, <3>1, <3>2, <3>3, <3>4, <3>5 DEF SlabFields
  <2>3. slab_pool' \subseteq SlabPage /\ \A u \in Task : u # t => slab_call'[u].at = "out"
    BY <1>5, <1>8, <1>9 DEF SlabsTyped
  <2> QED
    BY <1>5, <2>2, <2>3, SlabsAfterwards
<1> QED
  BY <1>8, <1>9

\* free_pages: the page of the slab that was given back can be given again.
LEMMA FreePageKeeps ==
  ASSUME SlabsTyped, NEW t \in Task, Slabs!FreePage(t)
  PROVE  SlabsTyped' /\ (SlabsSafe /\ Slabs!Sane' => SlabsSafe')
<1>1. PICK c \in SlabForms : c = slab_call[t]
  BY DEF SlabsTyped
<1>2. c.at = "page" /\ c.slab \in SlabPage
  BY <1>1 DEF Slabs!FreePage, Slabs!Step, SlabForms, SlabCalls
<1>3. PICK d \in SlabForms : d = Slabs!None /\ d.at = "out"
  BY SlabNames DEF Slabs!None
<1>4. /\ Slabs!Step(t, "page", d) /\ slab_pages' = slab_pages \cup {c.slab}
      /\ UNCHANGED <<slab_list, slab_pool, slab_map, slab_using, slab_free, slab_total, slab_owners>>
  BY <1>1, <1>3 DEF Slabs!FreePage
<1>5. /\ slab_call' \in [Task -> SlabForms] /\ slab_struck' \subseteq Strikes /\ slab_call'[t] = d
      /\ \A u \in Task : u # t => slab_call'[u] = slab_call[u]
      /\ Slabs!Sane' => /\ Slabs!Sane /\ slab_struck' = slab_struck
                        /\ \A u \in Task : u # t => slab_call[u].at = "out"
  BY <1>4, SlabStep
<1>6. SlabsTyped'
  BY <1>2, <1>4, <1>5 DEF SlabsTyped
<1>7. ASSUME SlabsSafe, Slabs!Sane' PROVE SlabsSafe'
  <2>1. InHand(c) /\ ListSafe
    BY <1>1, <1>5, <1>7, SlabsBefore
  <2>2. /\ \A s : Bits(c, s) = {} /\ Used(c, s) = 0 /\ Gone(c, s) = 0
        /\ Ahead(c) = 0 /\ OnlyHis(c) = {c.slab} /\ Plain(c)
    BY <1>2 DEF Bits, Used, Gone, Ahead, OnlyHis, Plain, Moving
  <2>3. /\ \A s : Bits(d, s) = {} /\ Used(d, s) = 0 /\ Gone(d, s) = 0
        /\ Ahead(d) = 0 /\ OnlyHis(d) = {} /\ Plain(d)
    BY <1>3, OutOwesNothing
  <2>4. MapsAre(d)' /\ UsingsAre(d)' /\ FreesAre(d)' /\ TotalIs(d)' /\ Leads(d)'
    <3>1. UNCHANGED <<slab_pool, slab_owners, slab_struck>> /\ slab_pool \subseteq SlabPage /\ Alike(c, d)
      BY <1>4, <1>5, <1>7, <2>2, <2>3 DEF SlabsTyped, Alike
    <3> QED
      BY <1>4, <2>1, <2>2, <2>3, <3>1, PartsKept DEF InHand, SlabsAre
  <2>5. PagesAre(d)'
    BY <1>4, <2>1, <2>2, <2>3 DEF InHand, SlabsAre, PagesAre
  <2>6. HandSound(d)' /\ LoadSound(d)' /\ Chosen(d)'
    BY <1>3, <2>3 DEF HandSound, LoadSound, Chosen, Moving
  <2>7. ListSafe'
    <3>1. c.slab \notin slab_pool
      BY <2>1, <2>2 DEF InHand, HandSound
    <3> QED
      BY <1>4, <2>1, <3>1 DEF ListSafe
  <2>8. slab_pool' \subseteq SlabPage /\ \A u \in Task : u # t => slab_call'[u].at = "out"
    BY <1>5, <1>6, <1>7 DEF SlabsTyped
  <2>9. InHand(d)'
    BY <2>4, <2>5, <2>6 DEF InHand, SlabsAre
  <2> QED
    BY <1>5, <2>7, <2>8, <2>9, SlabsAfterwards
<1> QED
  BY <1>6, <1>7

\* kmalloc_create: a slab that is in nobody's list, of a page that is nobody else's.
LEMMA CreateKeeps ==
  ASSUME SlabsTyped, NEW t \in Task, Slabs!Create(t)
  PROVE  SlabsTyped' /\ (SlabsSafe /\ Slabs!Sane' => SlabsSafe')
<1>0. PICK c \in SlabForms : c = slab_call[t]
  BY DEF SlabsTyped
<1>1. PICK p \in slab_pages :
        /\ Slabs!Step(t, "create", [c EXCEPT !.at = "load", !.field = "size", !.slab = p])
        /\ slab_pages' = slab_pages \ {p}
        /\ slab_map' = [slab_map EXCEPT ![p] = {}]
        /\ slab_using' = [slab_using EXCEPT ![p] = 0]
        /\ slab_free' = [slab_free EXCEPT ![p] = Colors]
        /\ slab_list' = ListInit(slab_list, p)
        /\ UNCHANGED <<slab_pool, slab_total, slab_owners>>
  BY <1>0, SlabNames DEF Slabs!Create
<1>2. p \in SlabPage /\ c.at = "create" /\ Colors \in Int
  BY <1>0, <1>1, SlabConstants DEF SlabsTyped, Slabs!Step
<1>3. c \in SlabCalls /\ c.job = "take" /\ c.field = "map"
  BY <1>2 DEF SlabForms
<1> DEFINE e == [c EXCEPT !.at = "load", !.field = "size", !.slab = p]
<1>4. /\ e \in SlabForms /\ e.at = "load" /\ e.field = "size" /\ e.slab = p
      /\ e.job = "take"
  <2>1. PICK b \in SlabCalls : b = [c EXCEPT !.at = "load", !.field = "size"]
    BY <1>3 DEF SlabCalls, SlabPlaces, SlabFields
  <2>2. b.at = "load" /\ b.field = "size" /\ b.job = "take"
    BY <1>3, <2>1 DEF SlabCalls
  <2>3. PICK a \in SlabCalls : a = [b EXCEPT !.slab = p]
    BY <1>2 DEF SlabCalls
  <2>4. a.at = "load" /\ a.field = "size" /\ a.job = "take" /\ a.slab = p
    BY <2>2, <2>3 DEF SlabCalls
  <2>5. a \in SlabForms
    BY <2>4 DEF SlabForms, Moving, Deleting
  <2>6. e = a
    BY <2>1, <2>3
  <2> HIDE DEF e
  <2> QED
    BY <2>4, <2>5, <2>6
<1> HIDE DEF e
<1>5. PICK d \in SlabForms : d = e
  BY <1>4
<1>6. Slabs!Step(t, "create", d)
  BY <1>1, <1>5 DEF e
<1>7. /\ slab_call' \in [Task -> SlabForms] /\ slab_struck' \subseteq Strikes
      /\ slab_call'[t] = d
      /\ \A u \in Task : u # t => slab_call'[u] = slab_call[u]
      /\ Slabs!Sane' => /\ Slabs!Sane /\ slab_struck' = slab_struck
                        /\ \A u \in Task : u # t => slab_call[u].at = "out"
  BY <1>6, SlabStep
<1>8. SlabsTyped'
  <2>1. slab_map' \in [SlabPage -> SUBSET SlabUnit]
    BY <1>1, <1>2 DEF SlabsTyped
  <2>2. slab_using' \in [SlabPage -> Int] /\ slab_free' \in [SlabPage -> Int]
    BY <1>1, <1>2 DEF SlabsTyped
  <2>3. slab_pages' \subseteq SlabPage
    BY <1>1 DEF SlabsTyped
  <2>4. slab_list' \in ListMemory(SlabPage)
    BY <1>1, <1>2 DEF SlabsTyped, ListMemory, ListInit
  <2> QED
    BY <1>1, <1>7, <2>1, <2>2, <2>3, <2>4 DEF SlabsTyped
<1>9. ASSUME SlabsSafe, Slabs!Sane' PROVE SlabsSafe'
  <2>1. InHand(c) /\ ListSafe
    BY <1>0, <1>7, <1>9, SlabsBefore
  <2>2. d.at = "load" /\ d.field = "size" /\ d.slab = p /\ d.job = "take"
    BY <1>4, <1>5
  <2>3. UNCHANGED <<slab_pool, slab_total, slab_owners, slab_struck>>
    BY <1>1, <1>7, <1>9
  <2>4. p \notin slab_pool
    BY <1>1, <2>1 DEF ListSafe
  <2>5. slab_pool \subseteq SlabPage /\ slab_pool' = slab_pool
    BY <2>3 DEF SlabsTyped
  <2>6. /\ \A s : Owns(s)' = Owns(s)
        /\ \A what : NotHit(what)' <=> NotHit(what)
    BY <2>3 DEF Owns, NotHit
  <2>7. /\ \A s : Bits(c, s) = {} /\ Used(c, s) = 0 /\ Gone(c, s) = 0
        /\ Ahead(c) = 0 /\ OnlyHis(c) = {} /\ Plain(c)
    BY <1>2, OutOwesNothing
  <2>8. /\ \A s : Bits(d, s) = {} /\ Used(d, s) = 0 /\ Gone(d, s) = 0
        /\ Ahead(d) = 0 /\ OnlyHis(d) = {p} /\ Plain(d)
    BY <2>2 DEF Bits, Used, Gone, Ahead, OnlyHis, Plain, Moving, Adding
  <2>9. \A s \in slab_pool : slab_map'[s] = slab_map[s] /\ slab_using'[s] = slab_using[s]
                          /\ slab_free'[s] = slab_free[s]
    BY <1>1, <2>4, <2>5 DEF SlabsTyped
  <2>10. MapsAre(d)'
    <3> SUFFICES ASSUME NEW s \in slab_pool PROVE MapSound(s, {})'
      BY <2>5, <2>8 DEF MapsAre
    <3>1. MapSound(s, {})
      BY <2>1, <2>7 DEF InHand, SlabsAre, MapsAre
    <3> QED
      BY <2>6, <2>9, <3>1 DEF MapSound
  <2>11. UsingsAre(d)'
    <3> SUFFICES ASSUME NEW s \in slab_pool PROVE UsingSound(s, 0)'
      BY <2>5, <2>8 DEF UsingsAre
    <3>1. UsingSound(s, 0)
      BY <2>1, <2>7 DEF InHand, SlabsAre, UsingsAre
    <3> QED
      BY <2>6, <2>9, <3>1 DEF UsingSound
  <2>12. FreesAre(d)'
    <3> SUFFICES ASSUME NEW s \in slab_pool PROVE FreeSound(s, 0)'
      BY <2>5, <2>8 DEF FreesAre
    <3>1. FreeSound(s, 0)
      BY <2>1, <2>7 DEF InHand, SlabsAre, FreesAre
    <3> QED
      BY <2>6, <2>9, <3>1 DEF FreeSound
  <2>13. TotalIs(d)'
    <3>1. Ahead(c) = Ahead(d)
      BY <2>7, <2>8
    <3> QED
      BY <2>1, <2>3, <2>5, <3>1, PartsKept DEF InHand, SlabsAre
  <2>14. PagesAre(d)'
    BY <1>1, <2>1, <2>5, <2>7, <2>8 DEF InHand, SlabsAre, PagesAre
  <2>15. HandSound(d)'
    <3>1. slab_map'[p] = {} /\ slab_using'[p] = 0 /\ slab_free'[p] = Colors /\ p \notin slab_pages'
      BY <1>1, <1>2 DEF SlabsTyped
    <3> QED
      BY <2>2, <2>4, <2>5, <2>8, <3>1 DEF HandSound, Moving, Deleting
  <2>16. LoadSound(d)' /\ Chosen(d)'
    BY <2>2 DEF LoadSound, Chosen
  <2>17. ListSafe'
    BY <1>1, <2>1, <2>3, <2>5 DEF ListSafe
  <2>18. slab_pool' \subseteq SlabPage /\ \A u \in Task : u # t => slab_call'[u].at = "out"
    BY <1>7, <1>9, <2>3, <2>5
  <2>20. Leads(d)'
    <3>1. WellLinked(slab_list, slab_pool, FirstSlab) /\ slab_list \in ListMemory(SlabPage)
      BY <2>1, <2>7 DEF InHand, SlabsAre, Leads, SlabsTyped
    <3>2. PICK l : l = ListInit(slab_list, p)
      OBVIOUS
    <3>3. \A s \in slab_pool : l.next[s] = slab_list.next[s] /\ l.prev[s] = slab_list.prev[s]
      BY <1>2, <2>4, <2>5, <3>1, <3>2 DEF ListInit, ListMemory
    <3>4. WellLinked(l, slab_pool, FirstSlab)
      BY <3>1, <3>3, WellLinkedElsewhere
    <3> QED
      BY <1>1, <2>5, <2>8, <3>2, <3>4 DEF Leads, Plain
  <2>19. InHand(d)'
    BY <2>20, <2>10, <2>11, <2>12, <2>13, <2>14, <2>15, <2>16 DEF InHand, SlabsAre
  <2> QED
    BY <1>7, <2>17, <2>18, <2>19, SlabsAfterwards
<1> QED
  BY <1>8, <1>9

\* The objects of a slab that are more.
LEMMA WholeSlab ==
  ASSUME NEW s \in SlabPage, NEW P, IsFiniteSet(P), P \cap ({s} \X SlabUnit) = {}
  PROVE  Cardinality(P \cup ({s} \X SlabUnit)) = Cardinality(P) + Colors
<1>1. IsFiniteSet({s}) /\ Cardinality({s}) = 1
  BY FS_Singleton
<1>2. IsFiniteSet(SlabUnit) /\ Cardinality(SlabUnit) = Colors /\ Colors \in Nat
  BY SlabConstants
<1>3. IsFiniteSet({s} \X SlabUnit) /\ Cardinality({s} \X SlabUnit) = 1 * Colors
  BY <1>1, <1>2, FS_Product
<1>4. PICK T : T = {s} \X SlabUnit
  OBVIOUS
<1>5. Cardinality(P \cup T) = Cardinality(P) + Cardinality(T) - Cardinality(P \cap T)
  BY <1>3, <1>4, FS_Union
<1>6. Cardinality(P \cap T) = 0 /\ Cardinality(P) \in Nat /\ Cardinality(T) = Colors
  <2>1. P \cap T = {}
    BY <1>4
  <2>2. Cardinality(P \cap T) = 0
    BY <2>1, FS_EmptySet
  <2>3. Cardinality(P) \in Nat
    BY FS_CardinalityType
  <2>4. Cardinality(T) = 1 * Colors
    BY <1>3, <1>4
  <2>5. Cardinality(T) = Colors
    BY <1>2, <2>4
  <2> QED
    BY <2>2, <2>3, <2>5
<1>7. Cardinality(P \cup T) = Cardinality(P) + Colors
  BY <1>2, <1>5, <1>6
<1> QED
  BY <1>4, <1>7

\* kfree's first step: its caller does not have the object any more.
LEMMA KfreeKeeps ==
  ASSUME SlabsTyped, NEW t \in Task, Slabs!Kfree(t)
  PROVE  SlabsTyped' /\ (SlabsSafe /\ Slabs!Sane' => SlabsSafe')
<1>0. PICK c \in SlabForms : c = slab_call[t]
  BY DEF SlabsTyped
<1> DEFINE e(p, k) == [Slabs!None EXCEPT !.at = "load", !.job = "give", !.slab = p, !.unit = k]
<1>1. PICK s \in SlabPage, j \in SlabUnit :
        /\ slab_owners[<<s, j>>] > 0
        /\ Gets(s, j, slab_owners[<<s, j>>] - 1)
        /\ Slabs!Step(t, "out", e(s, j))
  <2>1. PICK o \in SlabPage \X SlabUnit :
          /\ slab_owners[o] > 0
          /\ slab_owners' = [slab_owners EXCEPT ![o] = @ - 1]
          /\ Slabs!Step(t, "out", e(o[1], o[2]))
    BY SlabNames DEF Slabs!Kfree
  <2>2. PICK s \in SlabPage, j \in SlabUnit : o = <<s, j>>
    OBVIOUS
  <2> QED
    BY <2>1, <2>2 DEF Gets
<1>2. UNCHANGED <<slab_list, slab_pool, slab_map, slab_using, slab_free, slab_total, slab_pages>>
  BY DEF Slabs!Kfree
<1>3. PICK n \in Nat : n = slab_owners[<<s, j>>] - 1
  <2>1. slab_owners[<<s, j>>] \in Nat
    BY DEF SlabsTyped
  <2>2. slab_owners[<<s, j>>] - 1 \in Nat
    BY <1>1, <2>1
  <2> QED
    BY <2>2
<1>4. e(s, j) \in SlabForms /\ e(s, j).at = "load" /\ e(s, j).field = "map" /\ e(s, j).slab = s
      /\ e(s, j).unit = j /\ e(s, j).job = "give"
  <2>1. PICK b \in SlabCalls : b = [Slabs!None EXCEPT !.at = "load", !.job = "give"]
    BY SlabNames DEF SlabForms, SlabCalls, SlabPlaces
  <2>2. b.at = "load" /\ b.field = "map" /\ b.job = "give"
    BY <2>1 DEF Slabs!None
  <2>3. PICK a \in SlabCalls : a = [b EXCEPT !.slab = s, !.unit = j]
    BY DEF SlabCalls
  <2>4. a.at = "load" /\ a.field = "map" /\ a.job = "give" /\ a.slab = s /\ a.unit = j
    BY <2>2, <2>3 DEF SlabCalls
  <2>5. a \in SlabForms
    BY <2>4 DEF SlabForms, Moving, Adding, Deleting
  <2>6. e(s, j) = a
    BY <2>1, <2>3
  <2> HIDE DEF e
  <2> QED
    BY <2>4, <2>5, <2>6
<1> HIDE DEF e
<1>5. PICK d \in SlabForms : d = e(s, j)
  BY <1>4
<1>6. Slabs!Step(t, "out", d)
  BY <1>1, <1>5
<1>7. /\ slab_call' \in [Task -> SlabForms] /\ slab_struck' \subseteq Strikes
      /\ slab_call'[t] = d /\ c.at = "out"
      /\ \A u \in Task : u # t => slab_call'[u] = slab_call[u]
      /\ Slabs!Sane' => /\ Slabs!Sane /\ slab_struck' = slab_struck
                        /\ \A u \in Task : u # t => slab_call[u].at = "out"
  BY <1>0, <1>6, SlabStep
<1>8. Gets(s, j, n)
  BY <1>1, <1>3
<1>9. SlabsTyped'
  <2>1. slab_owners' \in [SlabPage \X SlabUnit -> Nat]
    BY <1>8 DEF Gets, SlabsTyped
  <2> QED
    BY <1>2, <1>7, <2>1 DEF SlabsTyped
<1>10. ASSUME SlabsSafe, Slabs!Sane' PROVE SlabsSafe'
  <2>1. InHand(c) /\ ListSafe
    BY <1>0, <1>7, <1>10, SlabsBefore
  <2>2. /\ d.at = "load" /\ d.field = "map" /\ d.slab = s /\ d.unit = j /\ d.job = "give"
        /\ Bits(d, s) = {j} /\ Used(d, s) = 1 /\ Gone(d, s) = 1
        /\ \A r : r # s => Bits(d, r) = {} /\ Used(d, r) = 0 /\ Gone(d, r) = 0
        /\ Ahead(d) = -1 /\ OnlyHis(d) = {} /\ Plain(d)
    BY <1>4, <1>5 DEF Bits, Used, Gone, Ahead, OnlyHis, Plain, Moving, Adding, Deleting
  <2>3. /\ \A r : Bits(c, r) = {} /\ Used(c, r) = 0 /\ Gone(c, r) = 0
        /\ Ahead(c) = 0 /\ OnlyHis(c) = {} /\ Plain(c)
    BY <1>7, OutOwesNothing
  <2>4. slab_struck' = slab_struck /\ \A what : NotHit(what)' <=> NotHit(what)
    BY <1>7, <1>10 DEF NotHit
  <2>5. slab_pool \subseteq SlabPage /\ slab_pool' = slab_pool /\ s \in slab_pool
    BY <1>1, <1>2, <2>1 DEF SlabsTyped, ListSafe
  <2>6. j \in Owns(s) /\ n = 0
    <3>1. slab_owners[<<s, j>>] = 1
      BY <1>1, <2>1 DEF ListSafe
    <3> QED
      BY <1>1, <1>3, <3>1 DEF Owns
  <2>7. /\ \A r \in SlabPage : r # s => Owns(r)' = Owns(r)
        /\ Owns(s)' = Owns(s) \ {j}
        /\ Cardinality(Owns(s) \ {j}) = Cardinality(Owns(s)) - 1
    <3>1. \A r \in SlabPage : r # s => Owns(r)' = Owns(r)
      BY <1>8, OwnersChange
    <3>2. Owns(s)' = Owns(s) \ {j}
      BY <1>8, <2>6, OwnersChange
    <3>3. Cardinality(Owns(s) \ {j}) = Cardinality(Owns(s)) - 1
      BY <1>8, <2>6, OwnersChange
    <3> QED
      BY <3>1, <3>2, <3>3
  <2>8. \A o \in SlabPage \X SlabUnit : slab_owners'[o] = IF o = <<s, j>> THEN 0 ELSE slab_owners[o]
    BY <1>8, <2>6 DEF Gets, SlabsTyped
  <2>9. \A r \in slab_pool : /\ Owns(r)' \cup Bits(d, r) = Owns(r)
                          /\ Cardinality(Owns(r))' = Cardinality(Owns(r)) - Used(d, r)
                          /\ Used(d, r) = Gone(d, r) /\ Used(d, r) \in Int
                          /\ Cardinality(Owns(r)) \in Nat
    <3> TAKE r \in slab_pool
    <3>1. Cardinality(Owns(r)) \in Nat
      BY OwnsFinite
    <3>2. CASE r = s
      <4>1. Owns(r)' \cup Bits(d, r) = Owns(r)
        BY <2>2, <2>6, <2>7, <3>2
      <4>2. Used(d, r) = 1 /\ Gone(d, r) = 1
        BY <2>2, <3>2
      <4>3. Cardinality(Owns(r))' = Cardinality(Owns(r)) - 1
        BY <2>7, <3>2
      <4> QED
        BY <3>1, <4>1, <4>2, <4>3
    <3>3. CASE r # s
      <4>1. Used(d, r) = 0 /\ Gone(d, r) = 0 /\ Bits(d, r) = {}
        BY <2>2, <3>3
      <4>2. Owns(r)' = Owns(r)
        BY <2>5, <2>7, <3>3
      <4>3. Cardinality(Owns(r))' = Cardinality(Owns(r))
        BY <4>2
      <4> QED
        BY <3>1, <4>1, <4>2, <4>3
    <3> QED
      BY <3>2, <3>3
  <2>10. MapsAre(d)'
    <3> SUFFICES ASSUME NEW r \in slab_pool PROVE MapSound(r, Bits(d, r))'
      BY <2>5 DEF MapsAre
    <3>1. MapSound(r, {})
      BY <2>1, <2>3 DEF InHand, SlabsAre, MapsAre
    <3> QED
      BY <1>2, <2>4, <2>9, <3>1 DEF MapSound
  <2>11. UsingsAre(d)'
    <3> SUFFICES ASSUME NEW r \in slab_pool PROVE UsingSound(r, Used(d, r))'
      BY <2>5 DEF UsingsAre
    <3>1. UsingSound(r, 0) /\ slab_using[r] \in Int
      BY <2>1, <2>3, <2>5 DEF InHand, SlabsAre, UsingsAre, SlabsTyped
    <3> QED
      BY <1>2, <2>4, <2>9, <3>1 DEF UsingSound
  <2>12. FreesAre(d)'
    <3> SUFFICES ASSUME NEW r \in slab_pool PROVE FreeSound(r, Gone(d, r))'
      BY <2>5 DEF FreesAre
    <3>1. FreeSound(r, 0) /\ slab_free[r] \in Int /\ Colors \in Int
      BY <2>1, <2>3, <2>5, SlabConstants DEF InHand, SlabsAre, FreesAre, SlabsTyped
    <3> QED
      BY <1>2, <2>4, <2>9, <3>1 DEF FreeSound
  <2>13. TotalIs(d)'
    <3> SUFFICES ASSUME NotHit({"total", "size", "drop"})'
                 PROVE  slab_total' = Cardinality(Spares)' + (-1)
      BY <2>2 DEF TotalIs
    <3>1. slab_total = Cardinality(Spares) + 0
      BY <2>1, <2>3, <2>4 DEF InHand, SlabsAre, TotalIs
    <3>2. PICK o : o = <<s, j>>
      OBVIOUS
    <3>3. Spares' = Spares \cup {o}
      <4>1. o \in slab_pool \X SlabUnit /\ slab_pool \X SlabUnit \subseteq SlabPage \X SlabUnit
        BY <1>1, <2>5, <3>2
      <4> QED
        BY <2>5, <2>8, <3>2, <4>1 DEF Spares
    <3>4. o \notin Spares
      BY <1>1, <3>2 DEF Spares
    <3>5. IsFiniteSet(Spares) /\ Cardinality(Spares) \in Nat
      BY <2>5, SparesFinite
    <3>6. Cardinality(Spares \cup {o}) = Cardinality(Spares) + 1
      BY <3>4, <3>5, FS_AddElement
    <3>7. Cardinality(Spares)' = Cardinality(Spares) + 1
      BY <3>3, <3>6
    <3> QED
      BY <1>2, <3>1, <3>5, <3>7
  <2>14. PagesAre(d)'
    BY <1>2, <2>1, <2>2, <2>3, <2>5 DEF InHand, SlabsAre, PagesAre
  <2>15. HandSound(d)'
    <3>1. j \notin Owns(s)'
      BY <2>7
    <3> QED
      BY <2>2, <2>5, <3>1 DEF HandSound, Moving, Adding, Deleting
  <2>16. LoadSound(d)' /\ Chosen(d)'
    BY <2>2 DEF LoadSound, Chosen
  <2>17. ListSafe'
    <3>1. \A o \in SlabPage \X SlabUnit : slab_owners'[o] > 0 => slab_owners'[o] = 1 /\ o[1] \in slab_pool'
      <4> TAKE o \in SlabPage \X SlabUnit
      <4>1. CASE o = <<s, j>>
        <5>1. slab_owners'[o] = 0
          BY <2>8, <4>1
        <5> QED
          BY <5>1
      <4>2. CASE o # <<s, j>>
        BY <2>1, <2>5, <2>8, <4>2 DEF ListSafe
      <4> QED
        BY <4>1, <4>2
    <3> QED
      BY <1>2, <2>1, <2>5, <3>1 DEF ListSafe
  <2>18. slab_pool' \subseteq SlabPage /\ \A u \in Task : u # t => slab_call'[u].at = "out"
    BY <1>2, <1>7, <1>10, <2>5
  <2>20. Leads(d)'
    <3>1. WellLinked(slab_list, slab_pool, FirstSlab)
      BY <2>1, <2>3 DEF InHand, SlabsAre, Leads
    <3> QED
      BY <1>2, <2>2, <3>1 DEF Leads, Plain
  <2>19. InHand(d)'
    BY <2>20, <2>10, <2>11, <2>12, <2>13, <2>14, <2>15, <2>16 DEF InHand, SlabsAre
  <2> QED
    BY <1>7, <2>17, <2>18, <2>19, SlabsAfterwards
<1> QED
  BY <1>9, <1>10

\* What the stores of list_add_before and list_delete keep as long as they change the
\* members of no list.
LEMMA LinkSound ==
  ASSUME SlabsTyped, NEW c \in SlabForms, NEW d \in SlabForms, InHand(c), ListSafe,
         c.at = "store", c.field \in {"add1", "add2", "add3", "del1"}, d = Slabs!After(c), Leads(d)',
         UNCHANGED <<slab_pool, slab_map, slab_using, slab_free, slab_total, slab_pages, slab_owners, slab_struck>>
  PROVE  InHand(d)' /\ ListSafe'
<1>1. /\ d.job = c.job /\ d.slab = c.slab /\ d.at \in Moving
      /\ \/ d.field \in Adding /\ c.field \in Adding /\ c.job = "take"
         \/ d.field \in Deleting /\ c.field \in Deleting /\ c.job = "give"
      /\ d.at = "store" => d.field \in {"add3", "add4"}
  BY SlabAfter DEF Adding, Deleting, Moving
<1>2. \A s : Bits(c, s) = Bits(d, s)
  BY <1>1 DEF Bits, Moving, Adding, Deleting
<1>3. \A s : Used(c, s) = Used(d, s) /\ Gone(c, s) = Gone(d, s)
  BY <1>1 DEF Used, Gone, Moving, Adding, Deleting
<1>4. Ahead(c) = Ahead(d) /\ OnlyHis(c) = OnlyHis(d)
  BY <1>1 DEF Ahead, OnlyHis, Moving, Adding, Deleting
<1>5. slab_pool \subseteq SlabPage
  BY DEF SlabsTyped
<1>6. MapsAre(d)' /\ UsingsAre(d)' /\ FreesAre(d)' /\ TotalIs(d)' /\ PagesAre(d)'
  BY <1>2, <1>3, <1>4, <1>5, PartsKept DEF InHand, SlabsAre
<1>7. HandSound(d)'
  <2>1. \A s : Owns(s)' = Owns(s)
    BY DEF Owns
  <2>2. HandSound(c) /\ c.at \in Moving
    BY DEF InHand, Moving
  <2>3. /\ d.field \in Deleting => d.slab \in slab_pool /\ Owns(d.slab) = {}
        /\ \A s \in OnlyHis(d) : s \notin slab_pool /\ s \notin slab_pages
        /\ d.field \in Adding => /\ slab_map[d.slab] = {} /\ slab_using[d.slab] = 0
                                 /\ slab_free[d.slab] = Colors
    BY <1>1, <1>4, <2>2 DEF HandSound, Adding, Deleting
  <2> QED
    BY <1>1, <2>1, <2>3 DEF HandSound, Moving, Adding, Deleting
<1>8. LoadSound(d)' /\ Chosen(d)'
  <2>1. d.field \notin {"map", "using", "free", "total", "size", "drop"}
    BY <1>1 DEF Adding, Deleting
  <2>2. LoadSound(d)'
    BY <1>1, <2>1 DEF LoadSound, Deleting
  <2>3. Chosen(d)'
    BY <1>1, <2>1 DEF Chosen, Moving
  <2> QED
    BY <2>2, <2>3
<1>9. SlabsAre(d)'
  BY <1>6 DEF SlabsAre
<1>10. ListSafe'
  BY DEF ListSafe
<1> QED
  BY <1>7, <1>8, <1>9, <1>10 DEF InHand

\* These stores one by one.
LEMMA LinkLeads ==
  ASSUME SlabsTyped, NEW c \in SlabForms, NEW d \in SlabForms, InHand(c),
         c.at = "store", c.field \in {"add1", "add2", "add3", "del1"}, d = Slabs!After(c),
         slab_list' = Slabs!Linked(c), slab_pool' = slab_pool
  PROVE  Leads(d)'
<1>1. /\ slab_list \in ListMemory(SlabPage) /\ slab_pool \in SUBSET SlabPage /\ FirstSlab \in slab_pool
      /\ c.slab \in SlabPage /\ Leads(c) /\ LoadSound(c) /\ c.at \in Moving
  BY DEF SlabsTyped, SlabForms, SlabCalls, InHand, SlabsAre, Moving
<1>2. PICK l \in ListMemory(SlabPage), L \in SUBSET SlabPage, h \in SlabPage, u \in SlabPage :
        l = slab_list /\ L = slab_pool /\ h = FirstSlab /\ u = c.slab /\ h \in L
  BY <1>1
<1>3. \A s \in OnlyHis(c) : s \notin slab_pool
  BY DEF InHand, HandSound
<1>4. d.slab = c.slab /\ d.at \in Moving
  BY SlabAfter DEF Moving
<1>5. CASE c.field = "add1"
  <2>1. d.field = "add2" /\ Slabs!Linked(c) = [slab_list EXCEPT !.next[c.prev] = c.slab]
    BY <1>5, SlabAfter DEF Slabs!Linked
  <2>2. WellLinked(l, L, h) /\ c.prev = l.prev[h]
    BY <1>1, <1>2, <1>5 DEF Leads, Plain, LoadSound
  <2>3. HalfAdded([l EXCEPT !.next[l.prev[h]] = u], h, L, u)
    BY <2>2, AddedFirst
  <2>4. HalfAdded(slab_list', FirstSlab, slab_pool', d.slab)
    BY <1>2, <1>4, <2>1, <2>2, <2>3
  <2> QED
    BY <1>4, <2>1, <2>4 DEF Leads, Plain
<1>6. CASE c.field = "add2"
  <2>1. d.field = "add3" /\ Slabs!Linked(c) = [slab_list EXCEPT !.prev[c.slab] = c.prev]
    BY <1>6, SlabAfter DEF Slabs!Linked
  <2>2. HalfAdded(l, h, L, u) /\ c.prev = l.prev[h] /\ u \in SlabPage \ L
    <3>1. c.slab \in OnlyHis(c)
      BY <1>1, <1>6 DEF OnlyHis, Adding
    <3> QED
      BY <1>1, <1>2, <1>3, <1>6, <3>1 DEF Leads, LoadSound
  <2>3. WellLinked(Completed([l EXCEPT !.prev[u] = l.prev[h]], h, u, TRUE), L \cup {u}, h)
    BY <1>2, <2>2, AddedSecond
  <2>4. WellLinked(Completed(slab_list', FirstSlab, d.slab, TRUE), slab_pool' \cup {d.slab}, FirstSlab)
    BY <1>2, <1>4, <2>1, <2>2, <2>3
  <2> QED
    BY <1>4, <2>1, <2>4 DEF Leads, Plain
<1>7. CASE c.field = "add3"
  <2>1. d.field = "add4" /\ Slabs!Linked(c) = [slab_list EXCEPT !.prev[FirstSlab] = c.slab]
    BY <1>7, SlabAfter DEF Slabs!Linked
  <2>2. WellLinked(Completed(l, h, u, TRUE), L \cup {u}, h)
    BY <1>1, <1>2, <1>7 DEF Leads
  <2>3. WellLinked(Completed([l EXCEPT !.prev[h] = u], h, u, FALSE), L \cup {u}, h)
    BY <2>2, AddedThird
  <2>4. WellLinked(Completed(slab_list', FirstSlab, d.slab, FALSE), slab_pool' \cup {d.slab}, FirstSlab)
    BY <1>2, <1>4, <2>1, <2>3
  <2> QED
    BY <1>4, <2>1, <2>4 DEF Leads, Plain
<1>8. CASE c.field = "del1"
  <2>1. d.field = "del2" /\ Slabs!Linked(c) = [slab_list EXCEPT !.prev[c.next] = c.prev]
    BY <1>8, SlabAfter DEF Slabs!Linked
  <2>2. WellLinked(l, L, h) /\ c.next = l.next[u] /\ c.prev = l.prev[u]
    BY <1>1, <1>2, <1>8 DEF Leads, Plain, LoadSound, Deleting
  <2>3. u \in L \ {h}
    BY <1>1, <1>2, <1>8 DEF SlabForms, InHand, HandSound, Deleting
  <2>4. HalfDeleted([l EXCEPT !.prev[l.next[u]] = l.prev[u]], h, L, u)
    BY <2>2, <2>3, DeletedFirst
  <2>5. HalfDeleted(slab_list', FirstSlab, slab_pool', d.slab)
    BY <1>2, <1>4, <2>1, <2>2, <2>4
  <2> QED
    BY <1>4, <2>1, <2>5 DEF Leads, Plain
<1> QED
  BY <1>5, <1>6, <1>7, <1>8

\* The last store of list_add_before: the slab is in the list.
LEMMA AddLastSound ==
  ASSUME SlabsTyped, NEW c \in SlabForms, NEW d \in SlabForms, InHand(c), ListSafe,
         c.at = "store", c.field = "add4", d = Slabs!After(c),
         slab_list' = Slabs!Linked(c), slab_pool' = slab_pool \cup {c.slab},
         UNCHANGED <<slab_map, slab_using, slab_free, slab_total, slab_pages, slab_owners, slab_struck>>
  PROVE  InHand(d)' /\ ListSafe'
<1>1. InHand(c) /\ ListSafe
  OBVIOUS
<1>2. d.at = "load" /\ d.field = "map" /\ d.job = "take" /\ d.slab = c.slab
  BY SlabAfter
<1>3. UNCHANGED <<slab_map, slab_using, slab_free, slab_total, slab_pages, slab_owners, slab_struck>>
  OBVIOUS
<1>20. /\ SlabsTyped /\ c.slab \in SlabPage /\ c.at = "store" /\ c.field = "add4"
       /\ c.job = "take"
  BY SlabAfter DEF SlabForms, SlabCalls
<1>21. /\ slab_pool' = slab_pool \cup {c.slab} /\ slab_pool \subseteq SlabPage
  BY DEF SlabsTyped
<1>4. OnlyHis(c) = {c.slab} /\ Ahead(c) = Colors
  BY DEF OnlyHis, Ahead, Moving, Adding
<1>5. /\ c.slab \notin slab_pool /\ c.slab \notin slab_pages
      /\ slab_map[c.slab] = {} /\ slab_using[c.slab] = 0 /\ slab_free[c.slab] = Colors
  BY <1>1, <1>4, <1>20 DEF InHand, HandSound, Moving, Adding
<1>6. /\ \A s : Owns(s)' = Owns(s)
      /\ \A what : NotHit(what)' <=> NotHit(what)
  BY <1>3 DEF Owns, NotHit
<1>7. \A s : Bits(c, s) = {} /\ Used(c, s) = 0 /\ Gone(c, s) = 0
  BY <1>20 DEF Bits, Used, Gone, Moving
<1>8. /\ \A s : Bits(d, s) = {} /\ Used(d, s) = 0 /\ Gone(d, s) = 0
      /\ Ahead(d) = 0 /\ OnlyHis(d) = {}
  <2>1. \A s : Bits(d, s) = {}
    BY <1>2 DEF Bits
  <2>2. \A s : Used(d, s) = 0 /\ Gone(d, s) = 0
    BY <1>2 DEF Used, Gone
  <2>3. Ahead(d) = 0 /\ OnlyHis(d) = {}
    BY <1>2 DEF Ahead, OnlyHis, Adding
  <2> QED
    BY <2>1, <2>2, <2>3
<1>9. Owns(c.slab) = {} /\ Cardinality(Owns(c.slab)) = 0 /\ Colors \in Nat
  <2>1. \A j \in SlabUnit : ~(slab_owners[<<c.slab, j>>] > 0)
    BY <1>20, <1>1, <1>5 DEF ListSafe
  <2> QED
    BY <2>1, FS_EmptySet, SlabConstants DEF Owns
<1>10. MapsAre(d)'
  <2> SUFFICES ASSUME NEW s \in slab_pool' PROVE MapSound(s, {})'
    BY <1>8 DEF MapsAre
  <2>1. CASE s = c.slab
    BY <1>3, <1>5, <1>6, <1>9, <2>1 DEF MapSound
  <2>2. CASE s # c.slab
    <3>1. MapSound(s, {})
      BY <1>21, <1>1, <1>7, <2>2 DEF InHand, SlabsAre, MapsAre
    <3> QED
      BY <1>3, <1>6, <3>1 DEF MapSound
  <2> QED
    BY <2>1, <2>2
<1>11. UsingsAre(d)'
  <2> SUFFICES ASSUME NEW s \in slab_pool' PROVE UsingSound(s, 0)'
    BY <1>8 DEF UsingsAre
  <2>1. CASE s = c.slab
    <3>1. slab_using'[s] = 0 /\ Cardinality(Owns(s))' = 0
      BY <1>3, <1>5, <1>6, <1>9, <2>1
    <3> QED
      BY <3>1 DEF UsingSound
  <2>2. CASE s # c.slab
    <3>1. UsingSound(s, 0)
      BY <1>21, <1>1, <1>7, <2>2 DEF InHand, SlabsAre, UsingsAre
    <3> QED
      BY <1>3, <1>6, <3>1 DEF UsingSound
  <2> QED
    BY <2>1, <2>2
<1>12. FreesAre(d)'
  <2> SUFFICES ASSUME NEW s \in slab_pool' PROVE FreeSound(s, 0)'
    BY <1>8 DEF FreesAre
  <2>1. CASE s = c.slab
    BY <1>3, <1>5, <1>6, <1>9, <2>1 DEF FreeSound
  <2>2. CASE s # c.slab
    <3>1. FreeSound(s, 0)
      BY <1>21, <1>1, <1>7, <2>2 DEF InHand, SlabsAre, FreesAre
    <3> QED
      BY <1>3, <1>6, <3>1 DEF FreeSound
  <2> QED
    BY <2>1, <2>2
<1>13. TotalIs(d)'
  <2> SUFFICES ASSUME NotHit({"total", "size", "drop"})'
               PROVE  slab_total' = Cardinality(Spares)' + 0
    BY <1>8 DEF TotalIs
  <2>1. slab_total = Cardinality(Spares) + Colors
    BY <1>1, <1>4, <1>6 DEF InHand, SlabsAre, TotalIs
  <2>2. \A j \in SlabUnit : slab_owners[<<c.slab, j>>] = 0
    <3> TAKE j \in SlabUnit
    <3>1. slab_owners[<<c.slab, j>>] \in Nat /\ ~(slab_owners[<<c.slab, j>>] > 0)
      BY <1>20, <1>9 DEF SlabsTyped, Owns
    <3> QED
      BY <3>1
  <2>3. Spares' = Spares \cup ({c.slab} \X SlabUnit)
    BY <1>21, <1>3, <2>2 DEF Spares
  <2>4. Spares \cap ({c.slab} \X SlabUnit) = {}
    BY <1>5 DEF Spares
  <2>5. IsFiniteSet(Spares) /\ Cardinality(Spares) \in Nat
    BY <1>21, SparesFinite
  <2>6. Cardinality(Spares \cup ({c.slab} \X SlabUnit)) = Cardinality(Spares) + Colors
    BY <1>20, <2>4, <2>5, WholeSlab
  <2>7. Cardinality(Spares)' = Cardinality(Spares) + Colors
    BY <2>3, <2>6
  <2> QED
    BY <1>3, <1>9, <2>1, <2>5, <2>7
<1>14. PagesAre(d)'
  BY <1>21, <1>1, <1>3, <1>4, <1>8 DEF InHand, SlabsAre, PagesAre
<1>15. HandSound(d)'
  BY <1>21, <1>2, <1>8 DEF HandSound, Moving, Adding, Deleting
<1>16. LoadSound(d)'
  BY <1>2 DEF LoadSound
<1>17. Chosen(d)'
  <2>1. 0 \in SlabUnit
    BY SlabConstants DEF SlabUnit
  <2> QED
    BY <1>2, <1>3, <1>5, <2>1 DEF Chosen
<1>18. ListSafe'
  BY <1>20, <1>21, <1>1, <1>3, <1>5 DEF ListSafe
<1>19. Leads(d)'
  <2>1. slab_list' = Completed(slab_list, FirstSlab, c.slab, FALSE)
    BY <1>20 DEF Slabs!Linked, Completed
  <2>2. WellLinked(Completed(slab_list, FirstSlab, c.slab, FALSE), slab_pool \cup {c.slab}, FirstSlab)
    BY <1>1, <1>20 DEF InHand, SlabsAre, Leads, Moving
  <2>3. WellLinked(slab_list', slab_pool', FirstSlab)
    BY <1>21, <2>1, <2>2
  <2> QED
    BY <1>2, <2>3 DEF Leads, Plain
<1> QED
  BY <1>10, <1>11, <1>12, <1>13, <1>14, <1>15, <1>16, <1>17, <1>18, <1>19 DEF InHand, SlabsAre

\* The last store of list_delete: the slab is out of the list.
LEMMA DeleteLastSound ==
  ASSUME SlabsTyped, NEW c \in SlabForms, NEW d \in SlabForms, InHand(c), ListSafe,
         c.at = "store", c.field = "del2", d = Slabs!After(c), NEW s, s = c.slab,
         slab_list' = Slabs!Linked(c), slab_pool' = slab_pool \ {s},
         UNCHANGED <<slab_map, slab_using, slab_free, slab_total, slab_pages, slab_owners, slab_struck>>
  PROVE  InHand(d)' /\ ListSafe'
<1>1. InHand(c) /\ ListSafe
  OBVIOUS
<1>2. /\ c.job = "give" /\ c.at \in Moving /\ c.at = "store" /\ c.field = "del2"
      /\ s \in SlabPage /\ s \in slab_pool /\ s # FirstSlab /\ Owns(s) = {}
  <2>1. c.job = "give" /\ c.at \in Moving /\ c.field \in Deleting /\ s # FirstSlab /\ s \in SlabPage
    BY SlabAfter DEF SlabForms, SlabCalls, Moving, Deleting
  <2>2. HandSound(c)
    BY DEF InHand
  <2>3. s \in slab_pool /\ Owns(s) = {}
    BY <2>1, <2>2 DEF HandSound
  <2> QED
    BY <2>1, <2>3
<1>3. slab_pool' = slab_pool \ {s} /\ slab_pool \subseteq SlabPage
  BY DEF SlabsTyped
<1>4. UNCHANGED <<slab_map, slab_using, slab_free, slab_total, slab_pages, slab_owners, slab_struck>>
  OBVIOUS
<1>8. d.at = "load" /\ d.field = "drop" /\ d.job = "give" /\ d.slab = s
  BY SlabAfter
<1>5. /\ \A r : Owns(r)' = Owns(r)
      /\ \A what : NotHit(what)' <=> NotHit(what)
  BY <1>4 DEF Owns, NotHit
<1>6. /\ \A r : Bits(c, r) = {} /\ Used(c, r) = 0 /\ Gone(c, r) = 0
      /\ Ahead(c) = 0 /\ OnlyHis(c) = {}
  BY <1>2 DEF Bits, Used, Gone, Ahead, OnlyHis, Moving, Deleting, Adding
<1>7. /\ \A r : Bits(d, r) = {} /\ Used(d, r) = 0 /\ Gone(d, r) = 0
      /\ Ahead(d) = Colors /\ OnlyHis(d) = {s}
  BY <1>8 DEF Bits, Used, Gone, Ahead, OnlyHis, Moving, Deleting, Adding
<1>9. MapsAre(d)'
  <2> SUFFICES ASSUME NEW r \in slab_pool' PROVE MapSound(r, {})'
    BY <1>7 DEF MapsAre
  <2>1. MapSound(r, {})
    BY <1>1, <1>3, <1>6 DEF InHand, SlabsAre, MapsAre
  <2> QED
    BY <1>4, <1>5, <2>1 DEF MapSound
<1>10. UsingsAre(d)'
  <2> SUFFICES ASSUME NEW r \in slab_pool' PROVE UsingSound(r, 0)'
    BY <1>7 DEF UsingsAre
  <2>1. UsingSound(r, 0)
    BY <1>1, <1>3, <1>6 DEF InHand, SlabsAre, UsingsAre
  <2> QED
    BY <1>4, <1>5, <2>1 DEF UsingSound
<1>11. FreesAre(d)'
  <2> SUFFICES ASSUME NEW r \in slab_pool' PROVE FreeSound(r, 0)'
    BY <1>7 DEF FreesAre
  <2>1. FreeSound(r, 0)
    BY <1>1, <1>3, <1>6 DEF InHand, SlabsAre, FreesAre
  <2> QED
    BY <1>4, <1>5, <2>1 DEF FreeSound
<1>12. TotalIs(d)'
  <2> SUFFICES ASSUME NotHit({"total", "size", "drop"})'
               PROVE  slab_total' = Cardinality(Spares)' + Colors
    BY <1>7 DEF TotalIs
  <2>1. slab_total = Cardinality(Spares) + 0
    BY <1>1, <1>5, <1>6 DEF InHand, SlabsAre, TotalIs
  <2>2. \A j \in SlabUnit : slab_owners[<<s, j>>] = 0
    <3> TAKE j \in SlabUnit
    <3>1. slab_owners[<<s, j>>] \in Nat /\ ~(slab_owners[<<s, j>>] > 0)
      BY <1>2 DEF SlabsTyped, Owns
    <3> QED
      BY <3>1
  <2>3. Spares = Spares' \cup ({s} \X SlabUnit) /\ Spares' \cap ({s} \X SlabUnit) = {}
    BY <1>2, <1>3, <1>4, <2>2 DEF Spares
  <2>4. PICK P : P = Spares'
    OBVIOUS
  <2>5. IsFiniteSet(Spares) /\ Cardinality(Spares) \in Nat /\ P \subseteq Spares
    BY <2>3, <2>4, SparesFinite DEF SlabsTyped
  <2>6. IsFiniteSet(P) /\ Cardinality(P) \in Nat
    BY <2>5, FS_Subset, FS_CardinalityType
  <2>7. P \cap ({s} \X SlabUnit) = {}
    BY <2>3, <2>4
  <2>8. Cardinality(P \cup ({s} \X SlabUnit)) = Cardinality(P) + Colors
    BY <1>2, <2>6, <2>7, WholeSlab
  <2>9. Cardinality(Spares) = Cardinality(P) + Colors /\ Cardinality(Spares)' = Cardinality(P)
    BY <2>3, <2>4, <2>8
  <2> QED
    BY <1>4, <2>1, <2>5, <2>9
<1>13. PagesAre(d)'
  BY <1>1, <1>3, <1>4, <1>6, <1>7 DEF InHand, SlabsAre, PagesAre
<1>14. HandSound(d)'
  <2>1. s \notin slab_pages'
    BY <1>1, <1>2, <1>4 DEF ListSafe
  <2> QED
    BY <1>8, <1>3, <1>7, <2>1 DEF HandSound, Moving, Adding, Deleting
<1>15. LoadSound(d)' /\ Chosen(d)'
  BY <1>8 DEF LoadSound, Chosen
<1>16. ListSafe'
  <2>1. \A o \in SlabPage \X SlabUnit : slab_owners'[o] > 0 => slab_owners'[o] = 1 /\ o[1] \in slab_pool'
    <3> TAKE o \in SlabPage \X SlabUnit
    <3> HAVE slab_owners'[o] > 0
    <3>1. slab_owners[o] > 0 /\ slab_owners[o] = 1 /\ o[1] \in slab_pool
      BY <1>1, <1>4 DEF ListSafe
    <3>2. o = <<o[1], o[2]>> /\ o[2] \in SlabUnit
      OBVIOUS
    <3>3. o[1] # s
      BY <1>2, <3>1, <3>2 DEF Owns
    <3> QED
      BY <1>3, <1>4, <3>1, <3>3
  <2> QED
    BY <1>1, <1>3, <1>4, <2>1 DEF ListSafe
<1>17. Leads(d)'
  <2>1. Slabs!Linked(c) = [slab_list EXCEPT !.next[c.prev] = c.next]
    BY <1>2 DEF Slabs!Linked
  <2>2. HalfDeleted(slab_list, FirstSlab, slab_pool, s)
    BY <1>1, <1>2 DEF InHand, SlabsAre, Leads
  <2>3. c.next = slab_list.next[s] /\ c.prev = slab_list.prev[s]
    BY <1>1, <1>2 DEF InHand, LoadSound, Deleting
  <2>4. slab_list \in ListMemory(SlabPage)
    BY DEF SlabsTyped
  <2>5. WellLinked([slab_list EXCEPT !.next[slab_list.prev[s]] = slab_list.next[s]],
                   slab_pool \ {s}, FirstSlab)
    BY <1>2, <1>3, <2>2, <2>4, DeletedSecond
  <2>6. WellLinked(slab_list', slab_pool', FirstSlab)
    BY <2>1, <2>3, <2>5
  <2> QED
    BY <1>8, <2>6 DEF Leads, Plain
<1> QED
  BY <1>9, <1>10, <1>11, <1>12, <1>13, <1>14, <1>15, <1>16, <1>17 DEF InHand, SlabsAre

\* So is each store of list_add_before and of list_delete.
LEMMA StoreLinkKeeps ==
  ASSUME SlabsTyped, NEW t \in Task, Slabs!StoreLink(t)
  PROVE  SlabsTyped' /\ (SlabsSafe /\ Slabs!Sane' => SlabsSafe')
<1>0. PICK c \in SlabForms : c = slab_call[t]
  BY DEF SlabsTyped
<1>1. /\ c.at = "store" /\ c.field \in {"add1", "add2", "add3", "add4", "del1", "del2"}
      /\ c.slab \in SlabPage /\ c.next \in SlabPage /\ c.prev \in SlabPage
  <2>1. c.field \in Adding \cup Deleting
    BY <1>0, SlabNames DEF Slabs!StoreLink
  <2> QED
    BY <1>0, <2>1 DEF Slabs!StoreLink, Slabs!Step, SlabForms, SlabCalls, Adding, Deleting
<1>2. PICK d \in SlabForms : d = Slabs!After(c)
  BY <1>1, SlabAfter
<1>3. Slabs!Step(t, "store", d)
  BY <1>0, <1>2 DEF Slabs!StoreLink
<1>4. /\ slab_list' = Slabs!Linked(c)
      /\ slab_pool' = IF c.field = "add4" THEN slab_pool \cup {c.slab}
                      ELSE IF c.field = "del2" THEN slab_pool \ {c.slab} ELSE slab_pool
      /\ UNCHANGED <<slab_map, slab_using, slab_free, slab_total, slab_pages, slab_owners>>
  BY <1>0 DEF Slabs!StoreLink
<1>5. /\ slab_call' \in [Task -> SlabForms] /\ slab_struck' \subseteq Strikes
      /\ slab_call'[t] = d
      /\ \A u \in Task : u # t => slab_call'[u] = slab_call[u]
      /\ Slabs!Sane' => /\ Slabs!Sane /\ slab_struck' = slab_struck
                        /\ \A u \in Task : u # t => slab_call[u].at = "out"
  BY <1>3, SlabStep
<1>6. SlabsTyped'
  <2>1. slab_list \in ListMemory(SlabPage) /\ FirstSlab \in SlabPage
    BY SlabConstants DEF SlabsTyped
  <2>2. Slabs!Linked(c) \in ListMemory(SlabPage)
    BY <1>1, <2>1 DEF Slabs!Linked, ListMemory
  <2>3. c.field = "del2" => c.slab # FirstSlab
    BY <1>1 DEF SlabForms, Moving, Deleting
  <2>4. slab_pool' \subseteq SlabPage /\ FirstSlab \in slab_pool'
    BY <1>1, <1>4, <2>3 DEF SlabsTyped
  <2> QED
    BY <1>4, <1>5, <2>2, <2>4 DEF SlabsTyped
<1>7. ASSUME SlabsSafe, Slabs!Sane' PROVE SlabsSafe'
  <2>1. InHand(c) /\ ListSafe /\ slab_struck' = slab_struck
    BY <1>0, <1>5, <1>7, SlabsBefore
  <2>2. InHand(d)' /\ ListSafe'
    <3>1. CASE c.field \in {"add1", "add2", "add3", "del1"}
      <4>1. slab_pool' = slab_pool
        BY <1>4, <3>1
      <4>2. Leads(d)'
        BY <1>1, <1>2, <1>4, <2>1, <3>1, <4>1, LinkLeads
      <4> QED
        BY <1>1, <1>2, <1>4, <2>1, <3>1, <4>1, <4>2, LinkSound
    <3>2. CASE c.field = "add4"
      <4>1. slab_pool' = slab_pool \cup {c.slab}
        BY <1>4, <3>2
      <4> QED
        BY <1>1, <1>2, <1>4, <2>1, <3>2, <4>1, AddLastSound
    <3>3. CASE c.field = "del2"
      <4>1. slab_pool' = slab_pool \ {c.slab}
        BY <1>4, <3>3
      <4> QED
        BY <1>1, <1>2, <1>4, <2>1, <3>3, <4>1, DeleteLastSound
    <3> QED
      BY <1>1, <3>1, <3>2, <3>3
  <2>3. slab_pool' \subseteq SlabPage /\ \A u \in Task : u # t => slab_call'[u].at = "out"
    BY <1>5, <1>6, <1>7 DEF SlabsTyped
  <2> QED
    BY <1>5, <2>2, <2>3, SlabsAfterwards
<1> QED
  BY <1>6, <1>7

\* What kfree in an interrupt does to object j of slab s and to the counters.
Freed(s, j, spare) ==
  /\ slab_owners[<<s, j>>] > 0 /\ Gets(s, j, slab_owners[<<s, j>>] - 1)
  /\ slab_map' = [slab_map EXCEPT ![s] = IF j \in @ THEN @ \ {j} ELSE @ \cup {j}]
  /\ slab_using' = [slab_using EXCEPT ![s] = slab_using[s] - 1]
  /\ slab_free' = [slab_free EXCEPT ![s] = @ + 1]
  /\ slab_total' = (slab_total + 1) - (IF spare THEN Colors ELSE 0)
  /\ slab_list' = IF spare THEN ListDelete(slab_list, s) ELSE slab_list
  /\ slab_pool' = IF spare THEN slab_pool \ {s} ELSE slab_pool
  /\ slab_pages' = IF spare THEN slab_pages \cup {s} ELSE slab_pages
  /\ spare => slab_using[s] - 1 = 0 /\ s # FirstSlab

\* A call that has not loaded a pointer to slab s in order to change the list beside it.
Aside(c, s) ==
  /\ c.field = "add1" /\ c.at = "store" => s # slab_list.prev[FirstSlab]
  /\ c.field = "add2" => s # slab_list.prev[FirstSlab]
  /\ \/ c.field = "del1" /\ c.at = "store"
     \/ c.field = "del2"
     => s # slab_list.next[c.slab] /\ s # slab_list.prev[c.slab]

\* The pointers of the list, when an interrupt gives a slab back, lead on past it.
LEMMA LeadsPast ==
  ASSUME SlabsTyped, NEW c \in SlabForms, InHand(c), NEW s \in slab_pool, s # FirstSlab,
         c.at \notin {"out", "choose", "create"} => c.slab # s, Aside(c, s),
         slab_list' = ListDelete(slab_list, s), slab_pool' = slab_pool \ {s}
  PROVE  /\ Leads(c)'
         /\ c.at = "store" /\ c.field \in {"add1", "add2"} => c.prev = slab_list'.prev[FirstSlab]
         /\ c.at = "store" /\ c.field \in Deleting =>
              c.next = slab_list'.next[c.slab] /\ c.prev = slab_list'.prev[c.slab]
<1>1. /\ slab_list \in ListMemory(SlabPage) /\ slab_pool \in SUBSET SlabPage /\ FirstSlab \in slab_pool
      /\ c.slab \in SlabPage /\ Leads(c) /\ LoadSound(c) /\ HandSound(c)
  BY DEF SlabsTyped, SlabForms, SlabCalls, InHand, SlabsAre
<1>2. PICK l \in ListMemory(SlabPage), P \in SUBSET SlabPage, h \in SlabPage, u \in SlabPage :
        l = slab_list /\ P = slab_pool /\ h = FirstSlab /\ u = c.slab /\ h \in P
  BY <1>1
<1>3. s \in P \ {h} /\ s \in SlabPage /\ slab_list' = ListDelete(l, s) /\ slab_pool' = P \ {s}
  BY <1>2
<1>4. c.at \in Moving /\ c.field \in Adding => u \notin P
  <2> HAVE c.at \in Moving /\ c.field \in Adding
  <2>1. c.slab \in OnlyHis(c)
    BY DEF OnlyHis
  <2> QED
    BY <1>1, <1>2, <2>1 DEF HandSound
<1>5. c.at \in Moving /\ c.field \in Deleting => u \in P \ {h} /\ u # s
  BY <1>1, <1>2 DEF HandSound, SlabForms, Moving
<1>6. c.at = "store" => c.at \in Moving
  BY DEF Moving
<1>7. CASE Plain(c)
  <2>1. WellLinked(l, P, h)
    BY <1>1, <1>2, <1>7 DEF Leads
  <2>2. WellLinked(ListDelete(l, s), P \ {s}, h)
    BY <1>3, <2>1, DeleteWellLinked
  <2>3. Leads(c)'
    BY <1>2, <1>3, <1>7, <2>2 DEF Leads, Plain
  <2>4. c.at = "store" => c.field \notin {"add2", "del2"}
    BY <1>6, <1>7 DEF Plain
  <2>5. c.at = "store" /\ c.field = "add1" => c.prev = slab_list'.prev[FirstSlab]
    <3> HAVE c.at = "store" /\ c.field = "add1"
    <3>1. c.prev = l.prev[h] /\ s # l.prev[h]
      BY <1>1, <1>2 DEF LoadSound, Aside
    <3>2. ListDelete(l, s).prev[h] = l.prev[h]
      BY <1>2, <1>3, <2>1, <3>1, DeleteElsewhere
    <3> QED
      BY <1>2, <1>3, <3>1, <3>2
  <2>6. c.at = "store" /\ c.field = "del1" =>
          c.next = slab_list'.next[c.slab] /\ c.prev = slab_list'.prev[c.slab]
    <3> HAVE c.at = "store" /\ c.field = "del1"
    <3>1. c.next = l.next[u] /\ c.prev = l.prev[u] /\ s # l.next[u] /\ s # l.prev[u] /\ u \in P
      BY <1>1, <1>2, <1>5, <1>6 DEF LoadSound, Aside, Deleting
    <3>2. ListDelete(l, s).prev[u] = l.prev[u] /\ ListDelete(l, s).next[u] = l.next[u]
      BY <1>2, <1>3, <2>1, <3>1, DeleteElsewhere
    <3> QED
      BY <1>2, <1>3, <3>1, <3>2
  <2> QED
    BY <2>3, <2>4, <2>5, <2>6 DEF Deleting
<1>8. CASE c.at \in Moving /\ c.field = "add2"
  <2>1. HalfAdded(l, h, P, u) /\ s # l.prev[h] /\ u \in SlabPage \ P
    BY <1>1, <1>2, <1>4, <1>8 DEF Leads, Aside, Adding
  <2>5. h \in P /\ s \in P \ {h}
    BY <1>2, <1>3
  <2>2. HalfAdded(ListDelete(l, s), h, P \ {s}, u) /\ ListDelete(l, s).prev[h] = l.prev[h]
    BY <2>1, <2>5, HalfAddedDelete
  <2>3. Leads(c)'
    BY <1>2, <1>3, <1>8, <2>2 DEF Leads, Plain
  <2>4. c.at = "store" => c.prev = l.prev[h]
    BY <1>1, <1>2, <1>8 DEF LoadSound
  <2> QED
    BY <1>2, <1>3, <1>8, <2>2, <2>3, <2>4 DEF Deleting
<1>9. CASE c.at \in Moving /\ c.field = "add3"
  <2>1. WellLinked(Completed(l, h, u, TRUE), P \cup {u}, h) /\ u \in SlabPage \ P /\ TRUE \in BOOLEAN
    BY <1>1, <1>2, <1>4, <1>9 DEF Leads, Adding
  <2>2. WellLinked(Completed(ListDelete(l, s), h, u, TRUE), (P \ {s}) \cup {u}, h)
    BY <1>2, <1>3, <2>1, CompletedDelete
  <2>3. Leads(c)'
    BY <1>2, <1>3, <1>9, <2>2 DEF Leads, Plain
  <2> QED
    BY <1>9, <2>3 DEF Deleting
<1>10. CASE c.at \in Moving /\ c.field = "add4"
  <2>1. WellLinked(Completed(l, h, u, FALSE), P \cup {u}, h) /\ u \in SlabPage \ P /\ FALSE \in BOOLEAN
    BY <1>1, <1>2, <1>4, <1>10 DEF Leads, Adding
  <2>2. WellLinked(Completed(ListDelete(l, s), h, u, FALSE), (P \ {s}) \cup {u}, h)
    BY <1>2, <1>3, <2>1, CompletedDelete
  <2>3. Leads(c)'
    BY <1>2, <1>3, <1>10, <2>2 DEF Leads, Plain
  <2> QED
    BY <1>10, <2>3 DEF Deleting
<1>11. CASE c.at \in Moving /\ c.field = "del2"
  <2>1. HalfDeleted(l, h, P, u) /\ u \in P \ {h} /\ u # s
    BY <1>1, <1>2, <1>5, <1>11 DEF Leads, Deleting
  <2>2. s \notin {u, l.next[u], l.prev[u]}
    BY <1>2, <1>11, <2>1 DEF Aside
  <2>3. /\ HalfDeleted(ListDelete(l, s), h, P \ {s}, u)
        /\ ListDelete(l, s).next[u] = l.next[u] /\ ListDelete(l, s).prev[u] = l.prev[u]
    BY <1>2, <1>3, <2>1, <2>2, HalfDeletedDelete
  <2>4. Leads(c)'
    BY <1>2, <1>3, <1>11, <2>3 DEF Leads, Plain
  <2>5. c.at = "store" => c.next = l.next[u] /\ c.prev = l.prev[u]
    BY <1>1, <1>2, <1>11 DEF LoadSound, Deleting
  <2> QED
    BY <1>2, <1>3, <1>11, <2>3, <2>4, <2>5
<1> QED
  BY <1>7, <1>8, <1>9, <1>10, <1>11 DEF Plain

\* An interrupt's kfree keeps the maps, the counters and the pointers what they are for the
\* call that it comes between, but for the counter whose load and store it comes between.
LEMMA FreedInHand ==
  ASSUME SlabsTyped, NEW c \in SlabForms, InHand(c), ListSafe,
         NEW s \in SlabPage, NEW j \in SlabUnit, NEW spare \in BOOLEAN, Freed(s, j, spare),
         slab_struck \subseteq slab_struck',
         c.at = "store" /\ c.field \in SlabFields /\ (c.slab = s \/ c.field \in {"total", "size", "drop"})
           => c.field \in slab_struck',
         spare /\ c.at \notin {"out", "choose", "create"} => c.slab # s,
         spare => Aside(c, s), spare /\ c.at \in {"walk", "full"} => "walk" \in slab_struck'
  PROVE  InHand(c)' /\ ListSafe'
<1>1. /\ slab_pool \subseteq SlabPage /\ s \in slab_pool
      /\ c.slab \in SlabPage /\ Colors \in Nat /\ slab_total \in Int
  <2>1. s \in slab_pool
    <3>1. PICK o \in SlabPage \X SlabUnit : o = <<s, j>>
      OBVIOUS
    <3>2. slab_owners[o] > 0 /\ o[1] = s
      BY <3>1 DEF Freed
    <3> QED
      BY <3>2 DEF ListSafe
  <2> QED
    BY <2>1, SlabConstants DEF SlabsTyped, SlabForms, SlabCalls
<1>2. slab_owners[<<s, j>>] = 1 /\ Gets(s, j, 0)
  <2>1. slab_owners[<<s, j>>] = 1
    BY DEF Freed, ListSafe
  <2> QED
    BY <2>1 DEF Freed
<1>3. /\ \A r \in SlabPage : r # s => Owns(r)' = Owns(r)
      /\ Owns(s)' = Owns(s) \ {j} /\ j \in Owns(s)
      /\ Cardinality(Owns(s) \ {j}) = Cardinality(Owns(s)) - 1
  <2>1. PICK n \in Nat : n = 0 /\ Gets(s, j, n)
    BY <1>2
  <2>2. j \in Owns(s)
    BY <1>2 DEF Owns
  <2>3. \A r \in SlabPage : r # s => Owns(r)' = Owns(r)
    BY <2>1, OwnersChange
  <2>4. Owns(s)' = Owns(s) \ {j}
    BY <2>1, OwnersChange
  <2>5. Cardinality(Owns(s) \ {j}) = Cardinality(Owns(s)) - 1
    BY <2>1, <2>2, OwnersChange
  <2> QED
    BY <2>2, <2>3, <2>4, <2>5
<1>4. \A o \in SlabPage \X SlabUnit : slab_owners'[o] = IF o = <<s, j>> THEN 0 ELSE slab_owners[o]
  BY <1>2 DEF Gets, SlabsTyped
<1>5. \A what : NotHit(what)' => NotHit(what)
  BY DEF NotHit
<1>6. MapsAre(c) /\ UsingsAre(c) /\ FreesAre(c) /\ TotalIs(c) /\ PagesAre(c) /\ HandSound(c)
  BY DEF InHand, SlabsAre
<1>7. /\ slab_map'[s] = slab_map[s] \ {j} /\ slab_using'[s] = slab_using[s] - 1
      /\ slab_free'[s] = slab_free[s] + 1 /\ slab_using[s] \in Int /\ slab_free[s] \in Int
      /\ \A r \in SlabPage : r # s => /\ slab_map'[r] = slab_map[r] /\ slab_using'[r] = slab_using[r]
                                      /\ slab_free'[r] = slab_free[r]
  <2>1. j \in slab_map[s]
    BY <1>1, <1>3, <1>6 DEF MapsAre, MapSound
  <2>2. slab_map'[s] = slab_map[s] \ {j} /\ \A r \in SlabPage : r # s => slab_map'[r] = slab_map[r]
    BY <2>1 DEF Freed, SlabsTyped
  <2>3. /\ slab_using'[s] = slab_using[s] - 1 /\ slab_using[s] \in Int
        /\ \A r \in SlabPage : r # s => slab_using'[r] = slab_using[r]
    BY DEF Freed, SlabsTyped
  <2>4. /\ slab_free'[s] = slab_free[s] + 1 /\ slab_free[s] \in Int
        /\ \A r \in SlabPage : r # s => slab_free'[r] = slab_free[r]
    BY DEF Freed, SlabsTyped
  <2> QED
    BY <2>2, <2>3, <2>4
<1>8. Cardinality(Owns(s)) \in Nat /\ IsFiniteSet(Owns(s))
  BY OwnsFinite
<1>9. spare => Owns(s) = {j}
  <2> HAVE spare
  <2>1. UsingSound(s, Used(c, s)) /\ Used(c, s) \in {0, 1}
    BY <1>1, <1>6 DEF UsingsAre, Used
  <2>2. slab_using[s] - 1 = 0
    BY DEF Freed
  <2>3. Cardinality(Owns(s)) + Used(c, s) <= slab_using[s]
    BY <2>1 DEF UsingSound
  <2>4. Cardinality(Owns(s)) <= 1
    BY <1>7, <1>8, <2>1, <2>2, <2>3
  <2>5. Cardinality(Owns(s) \ {j}) \in Nat /\ IsFiniteSet(Owns(s) \ {j})
    BY <1>8, FS_RemoveElement, FS_CardinalityType
  <2>6. Cardinality(Owns(s) \ {j}) = 0
    BY <1>3, <1>8, <2>4, <2>5
  <2>7. Owns(s) \ {j} = {}
    BY <2>5, <2>6, FS_EmptySet
  <2> QED
    BY <1>3, <2>7
<1>10. slab_pool' = (IF spare THEN slab_pool \ {s} ELSE slab_pool) /\ (spare => s # FirstSlab)
  BY DEF Freed
<1>11. MapsAre(c)'
  <2> SUFFICES ASSUME NEW r \in slab_pool' PROVE MapSound(r, Bits(c, r))'
    BY DEF MapsAre
  <2>1. MapSound(r, Bits(c, r)) /\ r \in SlabPage
    BY <1>1, <1>6, <1>10 DEF MapsAre
  <2>2. CASE r # s
    BY <1>3, <1>5, <1>7, <2>1, <2>2 DEF MapSound
  <2>3. CASE r = s
    <3>1. j \notin Bits(c, s)
      <4>1. c.job \in {"take", "give"}
        BY DEF SlabForms, SlabCalls
      <4>2. Bits(c, s) # {} => c.unit \notin Owns(s) /\ Bits(c, s) = {c.unit}
        BY <1>6, <4>1 DEF Bits, HandSound
      <4> QED
        BY <1>3, <4>2
    <3> QED
      BY <1>3, <1>5, <1>7, <2>1, <2>3, <3>1 DEF MapSound
  <2> QED
    BY <2>2, <2>3
<1>12. UsingsAre(c)'
  <2> SUFFICES ASSUME NEW r \in slab_pool' PROVE UsingSound(r, Used(c, r))'
    BY DEF UsingsAre
  <2>1. UsingSound(r, Used(c, r)) /\ r \in SlabPage /\ Used(c, r) \in Int
    BY <1>1, <1>6, <1>10 DEF UsingsAre, Used
  <2>2. CASE r # s
    BY <1>3, <1>5, <1>7, <2>1, <2>2 DEF UsingSound
  <2>3. CASE r = s
    <3>1. Cardinality(Owns(r))' = Cardinality(Owns(r)) - 1
      BY <1>3, <2>3
    <3> QED
      BY <1>5, <1>7, <1>8, <2>1, <2>3, <3>1 DEF UsingSound
  <2> QED
    BY <2>2, <2>3
<1>13. FreesAre(c)'
  <2> SUFFICES ASSUME NEW r \in slab_pool' PROVE FreeSound(r, Gone(c, r))'
    BY DEF FreesAre
  <2>1. FreeSound(r, Gone(c, r)) /\ r \in SlabPage /\ Gone(c, r) \in Int
    BY <1>1, <1>6, <1>10 DEF FreesAre, Gone
  <2>2. CASE r # s
    BY <1>3, <1>5, <1>7, <2>1, <2>2 DEF FreeSound
  <2>3. CASE r = s
    <3>1. Cardinality(Owns(r))' = Cardinality(Owns(r)) - 1
      BY <1>3, <2>3
    <3> QED
      BY <1>1, <1>5, <1>7, <1>8, <2>1, <2>3, <3>1 DEF FreeSound
  <2> QED
    BY <2>2, <2>3
<1>14. TotalIs(c)'
  <2> SUFFICES ASSUME NotHit({"total", "size", "drop"})'
               PROVE  slab_total' = Cardinality(Spares)' + Ahead(c)
    BY DEF TotalIs
  <2>1. slab_total = Cardinality(Spares) + Ahead(c) /\ Ahead(c) \in Int
    BY <1>1, <1>5, <1>6 DEF TotalIs, Ahead
  <2>2. PICK o : o = <<s, j>>
    OBVIOUS
  <2>8. slab_total \in Int /\ Colors \in Int
    BY <1>1
  <2>3. IsFiniteSet(Spares) /\ Cardinality(Spares) \in Nat /\ o \notin Spares
    BY <1>1, <1>2, <2>2, SparesFinite DEF Spares
  <2>4. Cardinality(Spares \cup {o}) = Cardinality(Spares) + 1 /\ IsFiniteSet(Spares \cup {o})
    BY <2>3, FS_AddElement
  <2>5. slab_pool \X SlabUnit \subseteq SlabPage \X SlabUnit /\ o \in slab_pool \X SlabUnit
    BY <1>1, <2>2
  <2>6. CASE ~spare
    <3>1. Spares' = Spares \cup {o}
      BY <1>4, <1>10, <2>2, <2>5, <2>6 DEF Spares
    <3>2. Cardinality(Spares)' = Cardinality(Spares) + 1
      BY <2>4, <3>1
    <3>3. slab_total' = (slab_total + 1) - 0
      BY <2>6 DEF Freed
    <3> QED
      BY <2>1, <2>3, <2>8, <3>2, <3>3
  <2>7. CASE spare
    <3>1. \A k \in SlabUnit : slab_owners'[<<s, k>>] = 0
      <4> TAKE k \in SlabUnit
      <4>1. slab_owners[<<s, k>>] \in Nat /\ (k # j => ~(slab_owners[<<s, k>>] > 0))
        BY <1>9, <2>7 DEF Owns, SlabsTyped
      <4>2. <<s, k>> \in SlabPage \X SlabUnit
        OBVIOUS
      <4>3. CASE k = j
        BY <1>4, <4>2, <4>3
      <4>4. CASE k # j
        <5>1. slab_owners'[<<s, k>>] = slab_owners[<<s, k>>]
          BY <1>4, <4>2, <4>4
        <5> QED
          BY <4>1, <4>4, <5>1
      <4> QED
        BY <4>3, <4>4
    <3>2. PICK P : P = Spares'
      OBVIOUS
    <3>3. Spares \cup {o} = P \cup ({s} \X SlabUnit)
      <4>1. \A p \in slab_pool \X SlabUnit : p \in Spares \cup {o} <=> slab_owners'[p] = 0
        BY <1>4, <2>2, <2>5 DEF Spares
      <4>2. \A p \in slab_pool \X SlabUnit : p \in P \cup ({s} \X SlabUnit) <=> slab_owners'[p] = 0
        <5> TAKE p \in slab_pool \X SlabUnit
        <5>1. p = <<p[1], p[2]>> /\ p[1] \in slab_pool /\ p[2] \in SlabUnit
          OBVIOUS
        <5>2. CASE p[1] = s
          <6>1. slab_owners'[p] = 0
            BY <3>1, <5>1, <5>2
          <6>2. p \in {s} \X SlabUnit
            BY <5>1, <5>2
          <6> QED
            BY <6>1, <6>2
        <5>3. CASE p[1] # s
          <6>1. p \in slab_pool' \X SlabUnit
            BY <1>10, <2>7, <5>1, <5>3
          <6>2. p \notin {s} \X SlabUnit
            BY <5>3
          <6>3. p \in P <=> slab_owners'[p] = 0
            BY <3>2, <6>1 DEF Spares
          <6> QED
            BY <6>2, <6>3
        <5> QED
          BY <5>2, <5>3
      <4>3. Spares \cup {o} \subseteq slab_pool \X SlabUnit
        BY <2>5 DEF Spares
      <4>4. P \cup ({s} \X SlabUnit) \subseteq slab_pool \X SlabUnit
        BY <1>1, <1>10, <2>7, <3>2 DEF Spares
      <4> QED
        BY <4>1, <4>2, <4>3, <4>4
    <3>4. P \cap ({s} \X SlabUnit) = {}
      BY <1>10, <2>7, <3>2 DEF Spares
    <3>5. IsFiniteSet(P) /\ Cardinality(P) \in Nat
      <4>1. P \in SUBSET (Spares \cup {o})
        BY <3>3
      <4> QED
        BY <2>4, <4>1, FS_Subset, FS_CardinalityType
    <3>6. Cardinality(P \cup ({s} \X SlabUnit)) = Cardinality(P) + Colors
      BY <3>4, <3>5, WholeSlab
    <3>7. Cardinality(Spares) + 1 = Cardinality(P) + Colors
      BY <2>4, <3>3, <3>6
    <3>8. Cardinality(Spares)' = Cardinality(P)
      BY <3>2
    <3>9. slab_total' = (slab_total + 1) - Colors
      BY <2>7 DEF Freed
    <3> QED
      <4>1. PICK n \in Nat, m \in Nat, a \in Int : n = Cardinality(Spares) /\ m = Cardinality(P) /\ a = Ahead(c)
        BY <2>1, <2>3, <3>5
      <4>2. slab_total = n + a /\ n + 1 = m + Colors
        BY <2>1, <3>7, <4>1
      <4>3. (slab_total + 1) - Colors = m + a
        BY <2>8, <4>2
      <4> QED
        BY <3>8, <3>9, <4>1, <4>3
  <2> QED
    BY <2>6, <2>7
<1>15. PagesAre(c)'
  <2>1. SlabPage \subseteq slab_pages \cup slab_pool \cup OnlyHis(c)
    BY <1>6 DEF PagesAre
  <2>2. slab_pages' = IF spare THEN slab_pages \cup {s} ELSE slab_pages
    BY DEF Freed
  <2> QED
    BY <1>10, <2>1, <2>2 DEF PagesAre
<1>16. \A r \in OnlyHis(c) : r # s /\ r \notin slab_pool /\ r \notin slab_pages
  BY <1>1, <1>6 DEF HandSound
<1>17. HandSound(c)'
  <2>1. \/ c.at \in {"walk", "full", "check"}
        \/ c.at \in Moving /\ c.field \in {"map", "using", "free", "total"} \cup Deleting
        => c.slab \in slab_pool'
    <3> HAVE \/ c.at \in {"walk", "full", "check"}
             \/ c.at \in Moving /\ c.field \in {"map", "using", "free", "total"} \cup Deleting
    <3>1. c.slab \in slab_pool
      BY <1>6 DEF HandSound
    <3>2. spare => c.slab # s
      BY DEF Moving
    <3> QED
      BY <1>10, <3>1, <3>2
  <2>2. \A r \in OnlyHis(c) : r \notin slab_pool' /\ r \notin slab_pages'
    BY <1>10, <1>16 DEF Freed
  <2>3. c.at \in Moving /\ c.field \in Adding \cup {"size"} =>
          slab_map'[c.slab] = {} /\ slab_using'[c.slab] = 0 /\ slab_free'[c.slab] = Colors
    <3> HAVE c.at \in Moving /\ c.field \in Adding \cup {"size"}
    <3>1. c.slab # s
      BY <1>16 DEF OnlyHis
    <3> QED
      BY <1>1, <1>6, <1>7, <3>1 DEF HandSound
  <2>4. Owns(c.slab)' \subseteq Owns(c.slab)
    BY <1>1, <1>3
  <2>5. c.at \in Moving /\ c.field \in Deleting => Owns(c.slab)' = {}
    BY <1>6, <2>4 DEF HandSound
  <2>6. \/ c.job = "take" /\ c.at \in Moving /\ c.field \in {"using", "free", "total"}
        \/ c.job = "take" /\ c.at = "store" /\ c.field = "map"
        \/ c.job = "give" /\ c.at \in Moving /\ c.field = "map"
        => c.unit \notin Owns(c.slab)'
    BY <1>6, <2>4 DEF HandSound
  <2> QED
    BY <2>1, <2>2, <2>3, <2>5, <2>6 DEF HandSound
<1>22. /\ Leads(c)'
       /\ c.at = "store" /\ c.field \in {"add1", "add2"} => c.prev = slab_list'.prev[FirstSlab]
       /\ c.at = "store" /\ c.field \in Deleting =>
            c.next = slab_list'.next[c.slab] /\ c.prev = slab_list'.prev[c.slab]
  <2>1. CASE spare
    <3>1. slab_list' = ListDelete(slab_list, s) /\ slab_pool' = slab_pool \ {s} /\ s # FirstSlab
      BY <1>10, <2>1 DEF Freed
    <3> QED
      BY <1>1, <2>1, <3>1, LeadsPast
  <2>2. CASE ~spare
    <3>1. slab_list' = slab_list /\ slab_pool' = slab_pool
      BY <1>10, <2>2 DEF Freed
    <3>2. Leads(c) /\ LoadSound(c)
      BY DEF InHand, SlabsAre
    <3>3. Leads(c)'
      BY <3>1, <3>2 DEF Leads
    <3> QED
      BY <3>1, <3>2, <3>3 DEF LoadSound
  <2> QED
    BY <2>1, <2>2
<1>18. LoadSound(c)'
  <2> SUFFICES ASSUME c.at = "store" PROVE LoadSound(c)'
    BY DEF LoadSound
  <2>1. LoadSound(c) /\ c.word \subseteq SlabUnit /\ c.count \in Int
    BY DEF InHand, SlabForms, SlabCalls
  <2>2. /\ c.field \in {"map", "using", "free"} /\ c.slab = s => c.field \in slab_struck'
        /\ c.field \in {"total", "size", "drop"} => c.field \in slab_struck'
    BY DEF SlabFields
  <2>3. c.field = "map" =>
          /\ slab_map'[c.slab] \subseteq c.word /\ (NotHit({"map"})' => c.word = slab_map'[c.slab])
          /\ c.job = "take" => c.unit \notin c.word
    <3> HAVE c.field = "map"
    <3>1. /\ slab_map[c.slab] \subseteq c.word /\ (NotHit({"map"}) => c.word = slab_map[c.slab])
          /\ c.job = "take" => c.unit \notin c.word
      BY <2>1 DEF LoadSound
    <3>2. CASE c.slab = s
      BY <1>7, <2>2, <3>1, <3>2 DEF NotHit
    <3>3. CASE c.slab # s
      BY <1>1, <1>5, <1>7, <3>1, <3>3
    <3> QED
      BY <3>2, <3>3
  <2>4. c.field = "using" =>
          slab_using'[c.slab] <= c.count /\ (NotHit({"using"})' => c.count = slab_using'[c.slab])
    <3> HAVE c.field = "using"
    <3>1. slab_using[c.slab] <= c.count /\ (NotHit({"using"}) => c.count = slab_using[c.slab])
      BY <2>1 DEF LoadSound
    <3>2. CASE c.slab = s
      <4>1. ~NotHit({"using"})'
        BY <2>2, <3>2 DEF NotHit
      <4>2. slab_using'[c.slab] <= c.count
        BY <1>7, <2>1, <3>1, <3>2
      <4> QED
        BY <4>1, <4>2
    <3>3. CASE c.slab # s
      BY <1>1, <1>5, <1>7, <3>1, <3>3
    <3> QED
      BY <3>2, <3>3
  <2>5. c.field = "free" =>
          c.count <= slab_free'[c.slab] /\ (NotHit({"free"})' => c.count = slab_free'[c.slab])
    <3> HAVE c.field = "free"
    <3>1. c.count <= slab_free[c.slab] /\ (NotHit({"free"}) => c.count = slab_free[c.slab])
      BY <2>1 DEF LoadSound
    <3>2. CASE c.slab = s
      <4>1. ~NotHit({"free"})'
        BY <2>2, <3>2 DEF NotHit
      <4>2. c.count <= slab_free'[c.slab]
        BY <1>7, <2>1, <3>1, <3>2
      <4> QED
        BY <4>1, <4>2
    <3>3. CASE c.slab # s
      BY <1>1, <1>5, <1>7, <3>1, <3>3
    <3> QED
      BY <3>2, <3>3
  <2>6. c.field \in {"total", "size", "drop"} => ~NotHit({c.field})'
    BY <2>2 DEF NotHit
  <2> QED
    BY <1>22, <2>3, <2>4, <2>5, <2>6 DEF LoadSound
<1>19. Chosen(c)'
  <2>1. Chosen(c) /\ (Undisturbed' => Undisturbed)
    BY <1>5 DEF InHand, Undisturbed
  <2>2. c.job = "take" /\ c.at = "load" /\ c.field = "map" /\ Undisturbed' => slab_map'[c.slab] # SlabUnit
    <3>1. slab_map'[c.slab] \subseteq slab_map[c.slab] /\ slab_map[c.slab] \subseteq SlabUnit
      BY <1>1, <1>7 DEF SlabsTyped
    <3> QED
      BY <2>1, <3>1 DEF Chosen
  <2>3. ASSUME c.at \in {"walk", "full"}, Undisturbed'
        PROVE  slab_list' = slab_list /\ \A S : (Onward(S)' <=> Onward(S)) /\ (HasFree(S) => HasFree(S)')
    <3>1. ~spare
      BY <2>3 DEF Undisturbed, NotHit
    <3>2. slab_list' = slab_list /\ slab_pool' = slab_pool
      BY <1>10, <3>1 DEF Freed
    <3>3. slab_free[s] # -1
      <4>1. FreeSound(s, 0)
        BY <1>1, <1>6, <2>3, OutOwesNothing DEF FreesAre
      <4>2. NotHit({"free"})
        BY <2>1, <2>3 DEF Undisturbed, NotHit
      <4>3. slab_free[s] = (Colors - Cardinality(Owns(s))) - 0
        BY <4>1, <4>2 DEF FreeSound
      <4>4. Cardinality(Owns(s)) <= Colors
        BY OwnsFinite
      <4> QED
        BY <1>1, <1>8, <4>3, <4>4
    <3>4. \A r \in slab_pool : slab_free[r] # 0 => slab_free'[r] # 0
      <4> SUFFICES ASSUME NEW r \in slab_pool, slab_free[r] # 0 PROVE slab_free'[r] # 0
        OBVIOUS
      <4>1. CASE r = s
        BY <1>7, <3>3, <4>1
      <4>2. CASE r # s
        BY <1>1, <1>7, <4>2
      <4> QED
        BY <4>1, <4>2
    <3>5. ASSUME NEW S PROVE Onward(S)' <=> Onward(S)
      BY <3>2 DEF Onward
    <3>6. ASSUME NEW S, HasFree(S) PROVE HasFree(S)'
      BY <3>2, <3>4, <3>6 DEF HasFree
    <3> QED
      BY <3>2, <3>5, <3>6
  <2>4. ASSUME c.at = "walk", Undisturbed', NEW S \in SUBSET SlabPage, c.slab \in S, Onward(S)'
        PROVE  HasFree(S)'
    BY <2>1, <2>3, <2>4 DEF Chosen
  <2>5. ASSUME c.at = "full", Undisturbed'
        PROVE  slab_list'.next[c.slab] # FirstSlab
    BY <2>1, <2>3, <2>5 DEF Chosen
  <2>6. ASSUME c.at = "full", Undisturbed', NEW S \in SUBSET SlabPage, slab_list'.next[c.slab] \in S, Onward(S)'
        PROVE  HasFree(S)'
    BY <2>1, <2>3, <2>6 DEF Chosen
  <2> QED
    BY <2>2, <2>4, <2>5, <2>6 DEF Chosen
<1>20. ListSafe'
  <2>1. \A o \in SlabPage \X SlabUnit : slab_owners'[o] > 0 => slab_owners'[o] = 1 /\ o[1] \in slab_pool'
    <3> TAKE o \in SlabPage \X SlabUnit
    <3> HAVE slab_owners'[o] > 0
    <3>1. o # <<s, j>>
      <4>1. o = <<s, j>> => slab_owners'[o] = 0
        BY <1>4
      <4> QED
        BY <4>1
    <3>2. slab_owners'[o] = slab_owners[o] /\ slab_owners[o] = 1 /\ o[1] \in slab_pool
      BY <1>4, <3>1 DEF ListSafe
    <3>3. o = <<o[1], o[2]>> /\ o[2] \in SlabUnit
      OBVIOUS
    <3>4. spare => o[1] # s
      <4> HAVE spare
      <4>1. o[1] = s => o[2] \in Owns(s)
        BY <3>2, <3>3 DEF Owns
      <4> QED
        BY <1>9, <3>1, <3>3, <4>1
    <3> QED
      BY <1>10, <3>2, <3>4
  <2>2. slab_pages' \cap slab_pool' = {}
    BY <1>10 DEF Freed, ListSafe
  <2> QED
    BY <1>10, <2>1, <2>2 DEF ListSafe
<1>21. MapsAre(c)' /\ UsingsAre(c)' /\ FreesAre(c)' /\ TotalIs(c)' /\ PagesAre(c)'
  BY <1>11, <1>12, <1>13, <1>14, <1>15
<1> QED
  BY <1>17, <1>18, <1>19, <1>20, <1>21, <1>22 DEF InHand, SlabsAre

\* kfree in an interrupt.
LEMMA InterruptKeeps ==
  ASSUME SlabsTyped, Slabs!InterruptFrees
  PROVE  SlabsTyped' /\ (SlabsSafe /\ Slabs!Sane' => SlabsSafe')
<1> DEFINE spares(s) == Slabs!Spare(s, slab_using[s] - 1, slab_total + 1)
           back(s) == Slabs!GivenBack(s)
<1>1. PICK s \in SlabPage, j \in SlabUnit :
        /\ Freed(s, j, spares(s))
        /\ slab_struck' = slab_struck \cup Slabs!Hit(s) \cup (IF spares(s) THEN back(s) ELSE {})
  <2>1. PICK o \in SlabPage \X SlabUnit :
          /\ slab_owners[o] > 0
          /\ slab_owners' = [slab_owners EXCEPT ![o] = @ - 1]
          /\ slab_map' = [slab_map EXCEPT ![o[1]] = IF o[2] \in @ THEN @ \ {o[2]} ELSE @ \cup {o[2]}]
          /\ slab_using' = [slab_using EXCEPT ![o[1]] = slab_using[o[1]] - 1]
          /\ slab_free' = [slab_free EXCEPT ![o[1]] = @ + 1]
          /\ slab_total' = slab_total + 1 - (IF spares(o[1]) THEN Colors ELSE 0)
          /\ slab_list' = IF spares(o[1]) THEN ListDelete(slab_list, o[1]) ELSE slab_list
          /\ slab_pool' = IF spares(o[1]) THEN slab_pool \ {o[1]} ELSE slab_pool
          /\ slab_pages' = IF spares(o[1]) THEN slab_pages \cup {o[1]} ELSE slab_pages
          /\ slab_struck' = slab_struck \cup Slabs!Hit(o[1])
               \cup (IF spares(o[1]) THEN back(o[1]) ELSE {})
    BY SlabNames DEF Slabs!InterruptFrees
  <2>2. PICK s \in SlabPage, j \in SlabUnit : o = <<s, j>>
    OBVIOUS
  <2>4. spares(s) => slab_using[s] - 1 = 0 /\ s # FirstSlab
    BY DEF Slabs!Spare
  <2> HIDE DEF spares
  <2>6. o[1] = s /\ o[2] = j
    BY <2>2
  <2>5. Freed(s, j, spares(s))
    <3>1. slab_owners[<<s, j>>] > 0 /\ Gets(s, j, slab_owners[<<s, j>>] - 1)
      BY <2>1, <2>2 DEF Gets
    <3>2. slab_map' = [slab_map EXCEPT ![s] = IF j \in @ THEN @ \ {j} ELSE @ \cup {j}]
      BY <2>1, <2>6
    <3>3. slab_using' = [slab_using EXCEPT ![s] = slab_using[s] - 1] /\ slab_free' = [slab_free EXCEPT ![s] = @ + 1]
      BY <2>1, <2>6
    <3>4. slab_total' = (slab_total + 1) - (IF spares(s) THEN Colors ELSE 0)
      <4>1. slab_total \in Int /\ Colors \in Int
        BY SlabConstants DEF SlabsTyped
      <4>2. CASE spares(s)
        BY <2>1, <2>6, <4>1, <4>2
      <4>3. CASE ~spares(s)
        BY <2>1, <2>6, <4>1, <4>3
      <4> QED
        BY <4>2, <4>3
    <3>5. /\ slab_list' = IF spares(s) THEN ListDelete(slab_list, s) ELSE slab_list
          /\ slab_pool' = IF spares(s) THEN slab_pool \ {s} ELSE slab_pool
          /\ slab_pages' = IF spares(s) THEN slab_pages \cup {s} ELSE slab_pages
      BY <2>1, <2>6
    <3> QED
      BY <2>4, <3>1, <3>2, <3>3, <3>4, <3>5 DEF Freed
  <2> HIDE DEF spares, back
  <2> QED
    BY <2>1, <2>2, <2>5
<1>2. PICK spare \in BOOLEAN : spare = spares(s)
  BY DEF Slabs!Spare
<1>3. Freed(s, j, spare) /\ UNCHANGED slab_call
  BY <1>1, <1>2 DEF Slabs!InterruptFrees
<1>4. slab_struck' = slab_struck \cup Slabs!Hit(s) \cup (IF spare THEN back(s) ELSE {})
  BY <1>1, <1>2
<1> HIDE DEF spares
<1>5. /\ Slabs!Hit(s) \subseteq SlabFields
      /\ \A t \in Task : /\ slab_call[t].at = "store" /\ slab_call[t].field \in SlabFields
                         /\ slab_call[t].slab = s \/ slab_call[t].field \in {"total", "size", "drop"}
                         => slab_call[t].field \in Slabs!Hit(s)
  BY DEF Slabs!Hit, Slabs!Fields, SlabFields
<1>8. back(s) \subseteq {"slab", "list", "walk"}
  BY DEF Slabs!GivenBack
<1>9. \A t \in Task : slab_call[t].at \notin {"out", "choose", "create"} /\ slab_call[t].slab = s
                     => "slab" \in back(s)
  BY DEF Slabs!GivenBack, Slabs!InHand
<1>10. \A t \in Task : ~Aside(slab_call[t], s) => "list" \in back(s)
  BY DEF Slabs!GivenBack, Slabs!Beside, Aside
<1>11. \A t \in Task : slab_call[t].at \in {"walk", "full"} => "walk" \in back(s)
  BY DEF Slabs!GivenBack
<1> HIDE DEF back
<1>6. SlabsTyped'
  <2>1. slab_owners' \in [SlabPage \X SlabUnit -> Nat]
    <3>1. slab_owners[<<s, j>>] \in Nat /\ slab_owners[<<s, j>>] > 0
      BY <1>3 DEF SlabsTyped, Freed
    <3>2. slab_owners[<<s, j>>] - 1 \in Nat
      BY <3>1
    <3>3. PICK n \in Nat : n = slab_owners[<<s, j>>] - 1
      BY <3>2
    <3>4. slab_owners' = [slab_owners EXCEPT ![<<s, j>>] = n]
      BY <1>3, <3>3 DEF Freed, Gets
    <3> QED
      BY <3>4 DEF SlabsTyped
  <2>2. slab_map' \in [SlabPage -> SUBSET SlabUnit]
    <3>1. slab_map[s] \subseteq SlabUnit
      BY DEF SlabsTyped
    <3>2. PICK m \in SUBSET SlabUnit : m = IF j \in slab_map[s] THEN slab_map[s] \ {j} ELSE slab_map[s] \cup {j}
      BY <3>1
    <3>3. slab_map' = [slab_map EXCEPT ![s] = m]
      BY <1>3, <3>2 DEF Freed, SlabsTyped
    <3> QED
      BY <3>3 DEF SlabsTyped
  <2>3. slab_using' \in [SlabPage -> Int] /\ slab_free' \in [SlabPage -> Int]
    BY <1>3 DEF Freed, SlabsTyped
  <2>4. slab_total' \in Int
    <3>1. slab_total' = (slab_total + 1) - (IF spare THEN Colors ELSE 0)
      BY <1>3 DEF Freed
    <3> QED
      BY <3>1, SlabConstants DEF SlabsTyped
  <2>5. slab_pages' \subseteq SlabPage
    BY <1>3 DEF Freed, SlabsTyped
  <2>6. slab_pool' \subseteq SlabPage /\ FirstSlab \in slab_pool'
    BY <1>3 DEF Freed, SlabsTyped
  <2>7. slab_struck' \subseteq Strikes
    BY <1>4, <1>5, <1>8 DEF SlabsTyped, Strikes
  <2>8. slab_list' \in ListMemory(SlabPage)
    <3>1. slab_list \in ListMemory(SlabPage)
      BY DEF SlabsTyped
    <3>2. ListDelete(slab_list, s) \in ListMemory(SlabPage)
      BY <3>1, DeleteFields
    <3> QED
      BY <1>3, <3>1, <3>2 DEF Freed
  <2> QED
    BY <1>3, <2>1, <2>2, <2>3, <2>4, <2>5, <2>6, <2>7, <2>8 DEF SlabsTyped
<1>7. ASSUME SlabsSafe, Slabs!Sane' PROVE SlabsSafe'
  <2>1. (spare => "slab" \notin back(s) /\ "list" \notin back(s)) /\ slab_struck \subseteq slab_struck'
    BY <1>4, <1>7 DEF Slabs!Sane, Slabs!Spared
  <2>2. ASSUME NEW c \in SlabForms, InHand(c), ListSafe,
               c = Slabs!None \/ \E t \in Task : c = slab_call[t]
        PROVE  InHand(c)' /\ ListSafe'
    <3>1. c = Slabs!None => c.at = "out" /\ c.field = "map"
      BY DEF Slabs!None
    <3>2. /\ c.at = "store" /\ c.field \in SlabFields /\ (c.slab = s \/ c.field \in {"total", "size", "drop"})
             => c.field \in slab_struck'
          /\ spare /\ c.at \notin {"out", "choose", "create"} => c.slab # s
          /\ spare => Aside(c, s)
          /\ spare /\ c.at \in {"walk", "full"} => "walk" \in slab_struck'
      <4>1. CASE c = Slabs!None
        BY <3>1, <4>1 DEF Aside
      <4>2. CASE \E t \in Task : c = slab_call[t]
        <5>1. PICK t \in Task : c = slab_call[t]
          BY <4>2
        <5>2. /\ c.at = "store" /\ c.field \in SlabFields /\ (c.slab = s \/ c.field \in {"total", "size", "drop"})
             => c.field \in slab_struck'
          BY <1>4, <1>5, <5>1
        <5>3. spare /\ c.at \notin {"out", "choose", "create"} => c.slab # s
          BY <1>9, <2>1, <5>1
        <5>4. spare => Aside(c, s)
          BY <1>10, <2>1, <5>1
        <5>5. spare /\ c.at \in {"walk", "full"} => "walk" \in slab_struck'
          BY <1>4, <1>11, <5>1
        <5> QED
          BY <5>2, <5>3, <5>4, <5>5
      <4> QED
        BY <2>2, <4>1, <4>2
    <3> QED
      BY <1>3, <2>1, <2>2, <3>2, FreedInHand
  <2>3. ListSafe
    BY <1>7 DEF SlabsSafe
  <2>4. CASE \A t \in Task : slab_call[t].at = "out"
    <3>1. SlabsAre(Slabs!None) /\ Slabs!None.at = "out" /\ Slabs!None \in SlabForms
      BY <1>7, <2>4, SlabNames DEF SlabsSafe, Slabs!None
    <3>2. PICK c \in SlabForms : c = Slabs!None
      BY <3>1
    <3>3. SlabsAre(c) /\ c.at = "out"
      BY <3>1, <3>2
    <3>4. HandSound(c) /\ LoadSound(c) /\ Chosen(c)
      BY <3>3, OutOwesNothing DEF HandSound, LoadSound, Chosen, Moving
    <3>5. InHand(c)' /\ ListSafe'
      BY <2>2, <2>3, <3>2, <3>3, <3>4 DEF InHand
    <3>6. SlabsAre(Slabs!None)'
      BY <3>2, <3>5 DEF InHand, SlabsAre, MapsAre, UsingsAre, FreesAre, TotalIs, PagesAre, Leads
    <3> QED
      BY <1>3, <2>4, <3>5, <3>6 DEF SlabsSafe
  <2>5. CASE \E t \in Task : slab_call[t].at # "out"
    <3>1. PICK t \in Task : slab_call[t].at # "out"
      BY <2>5
    <3>2. PICK c \in SlabForms : c = slab_call[t]
      BY DEF SlabsTyped
    <3>3. InHand(c)
      BY <1>7, <3>1, <3>2 DEF SlabsSafe
    <3>4. InHand(c)' /\ ListSafe'
      BY <2>2, <2>3, <3>2, <3>3
    <3>5. slab_call'[t] = c /\ \A u \in Task : u # t => slab_call'[u].at = "out"
      BY <1>3, <1>7, <3>1, <3>2 DEF SlabsSafe
    <3>6. slab_pool' \subseteq SlabPage
      BY <1>6 DEF SlabsTyped
    <3> QED
      BY <3>4, <3>5, <3>6, SlabsAfterwards
  <2> QED
    BY <2>4, <2>5
<1> QED
  BY <1>6, <1>7

\* slab_init leaves one slab, of which nobody has an object.
LEMMA SlabsBegin ==
  ASSUME Slabs!Init
  PROVE  SlabsIInv
<1>1. /\ slab_list = [next |-> [p \in SlabPage |-> p], prev |-> [p \in SlabPage |-> p]]
      /\ slab_pool = {FirstSlab} /\ slab_map = [p \in SlabPage |-> {}]
      /\ slab_using = [p \in SlabPage |-> 0]
      /\ slab_free = [p \in SlabPage |-> IF p = FirstSlab THEN Colors ELSE 0]
      /\ slab_total = Colors /\ slab_pages = SlabPage \ {FirstSlab}
      /\ slab_owners = [o \in SlabPage \X SlabUnit |-> 0]
      /\ slab_call = [t \in Task |-> Slabs!None] /\ slab_struck = {}
  BY SlabNames DEF Slabs!Init
<1>2. FirstSlab \in SlabPage /\ Colors \in Nat
  BY SlabConstants
<1>3. slab_pool \subseteq SlabPage /\ slab_list \in ListMemory(SlabPage)
  BY <1>1, <1>2 DEF ListMemory
<1>4. SlabsTyped
  BY <1>1, <1>2, <1>3, SlabNames DEF SlabsTyped
<1>5. \A s \in SlabPage : Owns(s) = {} /\ Cardinality(Owns(s)) = 0
  <2> TAKE s \in SlabPage
  <2>1. Owns(s) = {}
    BY <1>1 DEF Owns
  <2> QED
    BY <2>1, FS_EmptySet
<1>6. Slabs!None.at = "out"
  BY DEF Slabs!None
<1>7. /\ \A s : Bits(Slabs!None, s) = {} /\ Used(Slabs!None, s) = 0 /\ Gone(Slabs!None, s) = 0
      /\ Ahead(Slabs!None) = 0 /\ OnlyHis(Slabs!None) = {}
  BY <1>6, OutOwesNothing
<1>8. MapsAre(Slabs!None) /\ UsingsAre(Slabs!None) /\ FreesAre(Slabs!None)
  <2>1. MapSound(FirstSlab, {})
    BY <1>1, <1>2, <1>5 DEF MapSound
  <2>2. UsingSound(FirstSlab, 0)
    BY <1>1, <1>2, <1>5 DEF UsingSound
  <2>3. FreeSound(FirstSlab, 0)
    BY <1>1, <1>2, <1>5 DEF FreeSound
  <2> QED
    <3>1. slab_pool = {FirstSlab}
      BY <1>1
    <3> QED
      BY <1>7, <2>1, <2>2, <2>3, <3>1 DEF MapsAre, UsingsAre, FreesAre
<1>9. TotalIs(Slabs!None)
  <2>1. PICK P : P = {}
    OBVIOUS
  <2>2. Spares = P \cup ({FirstSlab} \X SlabUnit)
    BY <1>1, <1>2, <1>3, <2>1 DEF Spares
  <2>3. IsFiniteSet(P) /\ Cardinality(P) = 0 /\ P \cap ({FirstSlab} \X SlabUnit) = {}
    BY <2>1, FS_EmptySet
  <2>4. Cardinality(P \cup ({FirstSlab} \X SlabUnit)) = Cardinality(P) + Colors
    BY <1>2, <2>3, WholeSlab
  <2> QED
    BY <1>1, <1>2, <1>7, <2>2, <2>3, <2>4 DEF TotalIs
<1>10. PagesAre(Slabs!None)
  BY <1>1, <1>3, <1>7 DEF PagesAre
<1>14. Leads(Slabs!None)
  <2>1. WellLinked(slab_list, slab_pool, FirstSlab)
    BY <1>1, <1>2 DEF WellLinked, Ring, OneCycle
  <2> QED
    BY <1>6, <2>1 DEF Leads, Moving
<1>11. SlabsAre(Slabs!None)
  BY <1>8, <1>9, <1>10, <1>14 DEF SlabsAre
<1>12. ListSafe
  BY <1>1, <1>3 DEF ListSafe
<1>13. SlabsSafe
  BY <1>1, <1>6, <1>11, <1>12 DEF SlabsSafe
<1> QED
  BY <1>4, <1>13 DEF SlabsIInv

\* What has been struck stays in the history.
LEMMA StruckStays ==
  ASSUME Slabs!Next
  PROVE  slab_struck \subseteq slab_struck'
<1>1. \A t, from, after : Slabs!Step(t, from, after) => slab_struck \subseteq slab_struck'
  BY DEF Slabs!Step
<1>2. CASE Slabs!InterruptFrees
  BY <1>2 DEF Slabs!InterruptFrees
<1>3. ASSUME NEW t \in Task, Slabs!TaskStep(t) PROVE slab_struck \subseteq slab_struck'
  <2>1. CASE Slabs!Kmalloc(t)
    BY <1>1, <2>1 DEF Slabs!Kmalloc
  <2>2. CASE Slabs!Choose(t)
    BY <1>1, <2>2 DEF Slabs!Choose
  <2>3. CASE Slabs!Walk(t)
    BY <1>1, <2>3 DEF Slabs!Walk
  <2>4. CASE Slabs!Pass(t)
    BY <1>1, <2>4 DEF Slabs!Pass
  <2>5. CASE Slabs!Create(t)
    BY <1>1, <2>5 DEF Slabs!Create
  <2>6. CASE Slabs!CreateFails(t)
    BY <1>1, <2>6 DEF Slabs!CreateFails
  <2>7. CASE Slabs!LoadLast(t)
    BY <1>1, <2>7 DEF Slabs!LoadLast
  <2>8. CASE Slabs!LoadBeside(t)
    BY <1>1, <2>8 DEF Slabs!LoadBeside
  <2>9. CASE Slabs!StoreLink(t)
    BY <1>1, <2>9 DEF Slabs!StoreLink
  <2>10. CASE Slabs!NoBit(t)
    BY <1>1, <2>10 DEF Slabs!NoBit
  <2>11. CASE Slabs!LoadMap(t)
    BY <1>1, <2>11 DEF Slabs!LoadMap
  <2>12. CASE Slabs!StoreMap(t)
    BY <1>1, <2>12 DEF Slabs!StoreMap
  <2>13. CASE Slabs!LoadCount(t)
    BY <1>1, <2>13 DEF Slabs!LoadCount
  <2>14. CASE Slabs!StoreCount(t)
    BY <1>1, <2>14 DEF Slabs!StoreCount
  <2>15. CASE Slabs!FreePage(t)
    BY <1>1, <2>15 DEF Slabs!FreePage
  <2>16. CASE Slabs!Kfree(t)
    BY <1>1, <2>16 DEF Slabs!Kfree
  <2>17. CASE Slabs!Check(t)
    BY <1>1, <2>17 DEF Slabs!Check
  <2> QED
    BY <1>3, <2>1, <2>2, <2>3, <2>4, <2>5, <2>6, <2>7, <2>8, <2>9, <2>10, <2>11, <2>12, <2>13, <2>14, <2>15, <2>16, <2>17 DEF Slabs!TaskStep
<1> QED
  BY <1>2, <1>3 DEF Slabs!Next

\* Every step keeps the invariant of the slabs.
LEMMA SlabsStep ==
  ASSUME SlabsIInv, [Slabs!Next]_slabVars
  PROVE  SlabsIInv'
<1>1. CASE UNCHANGED slabVars
  <2> USE <1>1 DEF slabVars
  <2>2. SlabsTyped'
    BY DEF SlabsIInv, SlabsTyped
  <2>3. Slabs!Sane' <=> Slabs!Sane
    BY DEF Slabs!Sane, Slabs!Spared
  <2>4. ASSUME NEW c, InHand(c) PROVE SlabsAre(c)' /\ HandSound(c)' /\ LoadSound(c)' /\ Chosen(c)'
    <3>1. \A what : NotHit(what)' <=> NotHit(what)
      BY DEF NotHit
    <3>2. (\A s : Owns(s)' = Owns(s)) /\ Spares' = Spares
      BY DEF Owns, Spares
    <3>3. MapsAre(c)' /\ UsingsAre(c)' /\ FreesAre(c)'
      BY <2>4, <3>1, <3>2 DEF InHand, SlabsAre, MapsAre, UsingsAre, FreesAre, MapSound, UsingSound, FreeSound
    <3>4. TotalIs(c)' /\ PagesAre(c)' /\ Leads(c)'
      BY <2>4, <3>1, <3>2 DEF InHand, SlabsAre, TotalIs, PagesAre, Leads
    <3>5. HandSound(c)'
      BY <2>4, <3>2 DEF InHand, HandSound
    <3>6. LoadSound(c)'
      BY <2>4, <3>1 DEF InHand, LoadSound
    <3>7. Chosen(c)'
      BY <2>4, <3>1 DEF InHand, Chosen, Undisturbed, Onward, HasFree
    <3> QED
      BY <3>3, <3>4, <3>5, <3>6, <3>7 DEF SlabsAre
  <2>5. ListSafe => ListSafe'
    BY DEF ListSafe
  <2>6. SlabsAre(Slabs!None) => SlabsAre(Slabs!None)'
    BY DEF SlabsAre, MapsAre, UsingsAre, FreesAre, TotalIs, PagesAre, Leads,
           MapSound, UsingSound, FreeSound, Spares, Owns, NotHit
  <2>7. SlabsSafe => SlabsSafe'
    <3> HAVE SlabsSafe
    <3>1. \A t \in Task : slab_call'[t].at # "out" => InHand(slab_call[t])'
      <4> TAKE t \in Task
      <4> HAVE slab_call'[t].at # "out"
      <4>1. PICK c : c = slab_call[t]
        OBVIOUS
      <4>2. SlabsAre(c)' /\ HandSound(c)' /\ LoadSound(c)' /\ Chosen(c)'
        BY <2>4, <4>1 DEF SlabsSafe
      <4>3. c = slab_call'[t]
        BY <4>1
      <4>4. SlabsAre(slab_call[t])'
        BY <4>2, <4>3 DEF SlabsAre, MapsAre, UsingsAre, FreesAre, TotalIs, PagesAre, Leads
      <4>5. HandSound(slab_call[t])'
        BY <4>2, <4>3 DEF HandSound
      <4>6. LoadSound(slab_call[t])'
        BY <4>2, <4>3 DEF LoadSound
      <4>7. Chosen(slab_call[t])'
        BY <4>2, <4>3 DEF Chosen
      <4> QED
        BY <4>4, <4>5, <4>6, <4>7 DEF InHand
    <3> QED
      BY <2>5, <2>6, <3>1 DEF SlabsSafe
  <2> QED
    BY <2>2, <2>3, <2>7 DEF SlabsIInv
<1>2. CASE Slabs!Next
  <2>1. SlabsTyped /\ (Slabs!Sane => SlabsSafe)
    BY DEF SlabsIInv
  <2>2. Slabs!Sane' => Slabs!Sane
    BY <1>2, StruckStays DEF Slabs!Sane, Slabs!Spared
  <2>3. SlabsTyped' /\ (SlabsSafe /\ Slabs!Sane' => SlabsSafe')
    <3>1. CASE Slabs!InterruptFrees
      BY <2>1, <3>1, InterruptKeeps
    <3>2. ASSUME NEW t \in Task, Slabs!TaskStep(t)
          PROVE  SlabsTyped' /\ (SlabsSafe /\ Slabs!Sane' => SlabsSafe')
      <4>1. CASE Slabs!Kmalloc(t)
        BY <2>1, <4>1, KmallocKeeps
      <4>2. CASE Slabs!Choose(t)
        BY <2>1, <4>2, ChooseKeeps
      <4>3. CASE Slabs!Walk(t)
        BY <2>1, <4>3, WalkKeeps
      <4>4. CASE Slabs!Pass(t)
        BY <2>1, <4>4, PassKeeps
      <4>5. CASE Slabs!Create(t)
        BY <2>1, <4>5, CreateKeeps
      <4>6. CASE Slabs!CreateFails(t)
        BY <2>1, <4>6, FailKeeps
      <4>7. CASE Slabs!LoadLast(t)
        BY <2>1, <4>7, LoadLinkKeeps
      <4>8. CASE Slabs!LoadBeside(t)
        BY <2>1, <4>8, LoadLinkKeeps
      <4>9. CASE Slabs!StoreLink(t)
        BY <2>1, <4>9, StoreLinkKeeps
      <4>10. CASE Slabs!NoBit(t)
        BY <2>1, <4>10, FailKeeps
      <4>11. CASE Slabs!LoadMap(t)
        BY <2>1, <4>11, LoadMapKeeps
      <4>12. CASE Slabs!StoreMap(t)
        BY <2>1, <4>12, StoreMapKeeps
      <4>13. CASE Slabs!LoadCount(t)
        BY <2>1, <4>13, LoadCountKeeps
      <4>14. CASE Slabs!StoreCount(t)
        BY <2>1, <4>14, StoreCountKeeps
      <4>15. CASE Slabs!FreePage(t)
        BY <2>1, <4>15, FreePageKeeps
      <4>16. CASE Slabs!Kfree(t)
        BY <2>1, <4>16, KfreeKeeps
      <4>17. CASE Slabs!Check(t)
        BY <2>1, <4>17, CheckKeeps
      <4> QED
        BY <3>2, <4>1, <4>2, <4>3, <4>4, <4>5, <4>6, <4>7, <4>8, <4>9, <4>10, <4>11, <4>12, <4>13, <4>14, <4>15, <4>16, <4>17 DEF Slabs!TaskStep
    <3> QED
      BY <1>2, <3>1, <3>2 DEF Slabs!Next
  <2> QED
    BY <2>1, <2>2, <2>3 DEF SlabsIInv
<1> QED
  BY <1>1, <1>2

\* From the invariant to what Slab says.
LEMMA SlabsAreSound ==
  ASSUME SlabsIInv
  PROVE  Slabs!Sound
<1>1. SlabsTyped /\ (Slabs!Sane => SlabsSafe)
  BY DEF SlabsIInv
<1>2. Slabs!TypeOK
  <2>1. slab_call \in [Task -> SlabCalls]
    BY <1>1 DEF SlabsTyped, SlabForms
  <2> QED
    BY <1>1, <2>1, SlabNames, SlabConstants DEF Slabs!TypeOK, SlabsTyped, Slabs!Fields, SlabFields, Strikes
<1>3. /\ slab_pool \subseteq SlabPage
      /\ \A s : Slabs!Owned(s) = Owns(s)
      /\ Slabs!Object = SlabPage \X SlabUnit /\ Slabs!Unit = SlabUnit
      /\ \A S : Slabs!Cardinality(S) = Cardinality(S)
  <2>1. \A s : Slabs!Owned(s) = Owns(s)
    BY SlabConstants DEF Slabs!Owned, Owns
  <2> QED
    BY <1>1, <2>1, SlabNames, SlabConstants DEF SlabsTyped
<1>4. ASSUME Slabs!Sane
      PROVE  /\ MapsAre(Slabs!None) \/ \E t \in Task : MapsAre(slab_call[t])
             /\ \/ PagesAre(Slabs!None)
                \/ \E t \in Task : PagesAre(slab_call[t]) /\ slab_call[t].at # "out"
  <2>1. SlabsSafe
    BY <1>1, <1>4
  <2> QED
    BY <2>1 DEF SlabsSafe, InHand, SlabsAre
<1>5. ASSUME Slabs!Sane PROVE ListSafe
  BY <1>1, <1>5 DEF SlabsSafe
<1>6. ASSUME Slabs!Sane, NEW s \in slab_pool PROVE Owns(s) \subseteq slab_map[s]
  BY <1>4, <1>6 DEF MapsAre, MapSound
<1>7. Slabs!NoObjectTwice
  <2> SUFFICES ASSUME Slabs!Sane, NEW o \in SlabPage \X SlabUnit, slab_owners[o] > 0
               PROVE  slab_owners[o] = 1 /\ o[2] \in slab_map[o[1]]
    BY <1>3 DEF Slabs!NoObjectTwice
  <2>1. slab_owners[o] = 1 /\ o[1] \in slab_pool
    BY <1>5 DEF ListSafe
  <2>2. o = <<o[1], o[2]>> /\ o[2] \in SlabUnit
    OBVIOUS
  <2>3. o[2] \in Owns(o[1])
    BY <2>2 DEF Owns
  <2> QED
    BY <1>6, <2>1, <2>3
<1>8. Slabs!ObjectsLive
  <2> SUFFICES ASSUME Slabs!Sane, NEW s \in SlabPage, Owns(s) # {}
               PROVE  s \in slab_pool /\ s \notin slab_pages
    BY <1>3 DEF Slabs!ObjectsLive
  <2>1. PICK j \in SlabUnit : slab_owners[<<s, j>>] > 0
    BY DEF Owns
  <2>2. s \in slab_pool
    BY <1>5, <2>1 DEF ListSafe
  <2> QED
    BY <1>5, <2>2 DEF ListSafe
<1>9. ASSUME Slabs!Sane, Slabs!Quiet
      PROVE  /\ \A s \in slab_pool : MapSound(s, {}) /\ UsingSound(s, 0) /\ FreeSound(s, 0)
             /\ NotHit({"total", "size", "drop"}) => slab_total = Cardinality(Spares) + 0
             /\ WellLinked(slab_list, slab_pool, FirstSlab)
  <2>1. SlabsAre(Slabs!None)
    BY <1>1, <1>9 DEF SlabsSafe, Slabs!Quiet
  <2>2. Slabs!None.at = "out"
    BY DEF Slabs!None
  <2>3. /\ \A s : Bits(Slabs!None, s) = {} /\ Used(Slabs!None, s) = 0 /\ Gone(Slabs!None, s) = 0
        /\ Ahead(Slabs!None) = 0 /\ Plain(Slabs!None)
    BY <2>2, OutOwesNothing
  <2> QED
    BY <2>1, <2>3 DEF SlabsAre, MapsAre, UsingsAre, FreesAre, TotalIs, Leads
<1>10. Slabs!CountsAgree
  <2> SUFFICES ASSUME Slabs!Sane, Slabs!Quiet, NEW s \in slab_pool
               PROVE  /\ Owns(s) \subseteq slab_map[s] /\ (NotHit({"map"}) => Owns(s) = slab_map[s])
                      /\ Cardinality(Owns(s)) <= slab_using[s]
                      /\ NotHit({"using"}) => slab_using[s] = Cardinality(Owns(s))
                      /\ slab_free[s] <= Colors - Cardinality(Owns(s))
                      /\ NotHit({"free"}) => slab_free[s] = Colors - Cardinality(Owns(s))
    BY <1>3 DEF Slabs!CountsAgree, Slabs!Spared, NotHit
  <2>1. MapSound(s, {}) /\ UsingSound(s, 0) /\ FreeSound(s, 0)
    BY <1>9
  <2>2. Cardinality(Owns(s)) \in Nat /\ Colors \in Nat /\ slab_using[s] \in Int /\ slab_free[s] \in Int
    BY <1>1, <1>3, OwnsFinite, SlabConstants DEF SlabsTyped
  <2>3. Owns(s) \subseteq slab_map[s] /\ (NotHit({"map"}) => Owns(s) = slab_map[s])
    BY <2>1 DEF MapSound
  <2>4. Cardinality(Owns(s)) <= slab_using[s] /\ (NotHit({"using"}) => slab_using[s] = Cardinality(Owns(s)))
    BY <2>1, <2>2 DEF UsingSound
  <2>5. /\ slab_free[s] <= Colors - Cardinality(Owns(s))
        /\ NotHit({"free"}) => slab_free[s] = Colors - Cardinality(Owns(s))
    BY <2>1, <2>2 DEF FreeSound
  <2> QED
    BY <2>3, <2>4, <2>5
<1>11. Slabs!TotalAgrees
  <2> SUFFICES ASSUME Slabs!Sane, Slabs!Quiet, Slabs!Spared({"total", "size", "drop"})
               PROVE  slab_total = Slabs!Cardinality({o \in slab_pool \X Slabs!Unit : slab_owners[o] = 0})
    BY DEF Slabs!TotalAgrees
  <2>1. slab_total = Cardinality(Spares) + 0
    BY <1>9 DEF NotHit, Slabs!Spared
  <2>2. Spares = {o \in slab_pool \X Slabs!Unit : slab_owners[o] = 0}
    BY <1>3 DEF Spares
  <2>3. Cardinality(Spares) \in Nat
    BY <1>1, SparesFinite DEF SlabsTyped
  <2> QED
    BY <1>3, <2>1, <2>2, <2>3
<1>12. Slabs!PagesKept
  <2> SUFFICES ASSUME Slabs!Sane, NEW p \in SlabPage, p \notin slab_pages, p \notin slab_pool
               PROVE  \E t \in Task : /\ slab_call[t].slab = p
                                      /\ \/ slab_call[t].at = "page"
                                         \/ slab_call[t].field \in {"size", "drop"} \cup Slabs!Links
    BY DEF Slabs!PagesKept
  <2>1. Slabs!None.at = "out"
    BY DEF Slabs!None
  <2>2. ~PagesAre(Slabs!None)
    BY <2>1, OutOwesNothing DEF PagesAre
  <2>3. PICK t \in Task : PagesAre(slab_call[t]) /\ slab_call[t].at # "out"
    BY <1>4, <2>2
  <2>4. p \in OnlyHis(slab_call[t])
    BY <2>3 DEF PagesAre
  <2>5. /\ slab_call[t].slab = p
        /\ slab_call[t].at = "page" \/ slab_call[t].field \in {"size", "drop"} \cup Adding
    BY <2>4 DEF OnlyHis
  <2> QED
    BY <2>5, SlabNames
<1>13. Slabs!ListAgrees
  BY <1>9, SlabNames DEF Slabs!ListAgrees
<1> QED
  BY <1>2, <1>7, <1>8, <1>10, <1>11, <1>12, <1>13 DEF Slabs!Sound

\* kmalloc comes to its end without an object only when there is no page.
LEMMA NullMeansThat ==
  ASSUME SlabsIInv, [Slabs!Next]_slabVars
  PROVE  Slabs!NullMeansNone
<1> SUFFICES ASSUME NEW t \in Task, slab_call[t].job = "take", slab_call[t].at \in {"create", "load"},
                    slab_call'[t].at = "out", Slabs!Sane',
                    Slabs!Spared({"map", "free", "total", "size", "drop", "walk"})
             PROVE  slab_pages = {} /\ slab_call[t].at = "create"
  BY DEF Slabs!NullMeansNone
<1>1. SlabsTyped /\ (Slabs!Sane => SlabsSafe)
  BY DEF SlabsIInv
<1>2. slab_call'[t] # slab_call[t] /\ Slabs!Next
  BY DEF slabVars
<1>3. slab_call[t] \in SlabForms /\ slab_call[t] \in SlabCalls /\ slab_call \in [Task -> SlabForms]
  BY <1>1 DEF SlabsTyped, SlabForms
<1>4. Slabs!Sane
  BY <1>2, StruckStays DEF Slabs!Sane, Slabs!Spared
<1>5. ASSUME NEW u, NEW from, NEW after, Slabs!Step(u, from, after)
      PROVE  u = t /\ slab_call[t].at = from /\ after.at = "out"
  <2>1. slab_call[u].at = from /\ slab_call' = [slab_call EXCEPT ![u] = after]
    BY <1>5 DEF Slabs!Step
  <2>2. u = t
    BY <1>2, <1>3, <2>1
  <2>3. slab_call'[t] = after
    BY <1>3, <2>1, <2>2
  <2> QED
    BY <2>1, <2>2, <2>3
<1>6. ~Slabs!InterruptFrees
  BY <1>2 DEF Slabs!InterruptFrees
<1>7. PICK u \in Task : Slabs!TaskStep(u)
  BY <1>2, <1>6 DEF Slabs!Next
<1>8. /\ ~Slabs!Kmalloc(u) /\ ~Slabs!Choose(u) /\ ~Slabs!Walk(u) /\ ~Slabs!Pass(u) /\ ~Slabs!StoreLink(u)
      /\ ~Slabs!StoreMap(u) /\ ~Slabs!StoreCount(u) /\ ~Slabs!FreePage(u) /\ ~Slabs!Kfree(u) /\ ~Slabs!Check(u)
  <2>1. \A from, after : Slabs!Step(u, from, after) => from \in {"create", "load"}
    BY <1>5
  <2>2. ~Slabs!Kmalloc(u)
    BY <2>1 DEF Slabs!Kmalloc
  <2>3. ~Slabs!Choose(u)
    BY <2>1 DEF Slabs!Choose
  <2>4. ~Slabs!Walk(u)
    BY <2>1 DEF Slabs!Walk
  <2>5. ~Slabs!Pass(u)
    BY <2>1 DEF Slabs!Pass
  <2>6. ~Slabs!StoreLink(u)
    BY <2>1 DEF Slabs!StoreLink
  <2>7. ~Slabs!StoreMap(u)
    BY <2>1 DEF Slabs!StoreMap
  <2>8. ~Slabs!StoreCount(u)
    BY <2>1 DEF Slabs!StoreCount
  <2>9. ~Slabs!FreePage(u)
    BY <2>1 DEF Slabs!FreePage
  <2>10. ~Slabs!Kfree(u)
    BY <2>1 DEF Slabs!Kfree
  <2>11. ~Slabs!Check(u)
    BY <2>1 DEF Slabs!Check
  <2> QED
    BY <2>2, <2>3, <2>4, <2>5, <2>6, <2>7, <2>8, <2>9, <2>10, <2>11
<1>9. ~Slabs!Create(u)
  <2> SUFFICES ASSUME Slabs!Create(u) PROVE FALSE
    OBVIOUS
  <2>1. PICK p : Slabs!Step(u, "create", [slab_call[u] EXCEPT !.at = "load", !.field = "size", !.slab = p])
    BY DEF Slabs!Create
  <2>2. u = t /\ [slab_call[u] EXCEPT !.at = "load", !.field = "size", !.slab = p].at = "out"
    BY <1>5, <2>1
  <2> QED
    BY <1>3, <2>2 DEF SlabCalls
<1>10. ~Slabs!LoadMap(u)
  <2> SUFFICES ASSUME Slabs!LoadMap(u) PROVE FALSE
    OBVIOUS
  <2>1. PICK m, j : Slabs!Step(u, "load", [slab_call[u] EXCEPT !.at = "store", !.word = m, !.unit = j])
    BY DEF Slabs!LoadMap
  <2>2. u = t /\ [slab_call[u] EXCEPT !.at = "store", !.word = m, !.unit = j].at = "out"
    BY <1>5, <2>1
  <2> QED
    BY <1>3, <2>2 DEF SlabCalls
<1>11. ~Slabs!LoadCount(u)
  <2> SUFFICES ASSUME Slabs!LoadCount(u) PROVE FALSE
    OBVIOUS
  <2>1. PICK n : Slabs!Step(u, "load", [slab_call[u] EXCEPT !.at = "store", !.count = n])
    BY DEF Slabs!LoadCount
  <2>2. u = t /\ [slab_call[u] EXCEPT !.at = "store", !.count = n].at = "out"
    BY <1>5, <2>1
  <2> QED
    BY <1>3, <2>2 DEF SlabCalls
<1>14. ~Slabs!LoadLast(u)
  <2> SUFFICES ASSUME Slabs!LoadLast(u) PROVE FALSE
    OBVIOUS
  <2>1. PICK p : Slabs!Step(u, "load", [slab_call[u] EXCEPT !.at = "store", !.prev = p])
    BY DEF Slabs!LoadLast
  <2>2. u = t /\ [slab_call[u] EXCEPT !.at = "store", !.prev = p].at = "out"
    BY <1>5, <2>1
  <2> QED
    BY <1>3, <2>2 DEF SlabCalls
<1>15. ~Slabs!LoadBeside(u)
  <2> SUFFICES ASSUME Slabs!LoadBeside(u) PROVE FALSE
    OBVIOUS
  <2>1. PICK n, p : Slabs!Step(u, "load", [slab_call[u] EXCEPT !.at = "store", !.next = n, !.prev = p])
    BY DEF Slabs!LoadBeside
  <2>2. u = t /\ [slab_call[u] EXCEPT !.at = "store", !.next = n, !.prev = p].at = "out"
    BY <1>5, <2>1
  <2> QED
    BY <1>3, <2>2 DEF SlabCalls
<1>12. ~Slabs!NoBit(u)
  <2> SUFFICES ASSUME Slabs!NoBit(u) PROVE FALSE
    OBVIOUS
  <2>1. /\ slab_call[u].field = "map" /\ slab_map[slab_call[u].slab] = SlabUnit
        /\ Slabs!Step(u, "load", Slabs!None)
    BY SlabConstants DEF Slabs!NoBit
  <2>2. u = t /\ slab_call[t].at = "load"
    BY <1>5, <2>1
  <2>3. Chosen(slab_call[t])
    BY <1>1, <1>4, <2>2 DEF SlabsSafe, InHand
  <2> QED
    BY <2>1, <2>2, <2>3 DEF Chosen, Undisturbed, NotHit, Slabs!Spared
<1>13. Slabs!CreateFails(u)
  BY <1>7, <1>8, <1>9, <1>10, <1>11, <1>12, <1>14, <1>15 DEF Slabs!TaskStep
<1> QED
  BY <1>5, <1>13 DEF Slabs!CreateFails

\* Tasks in kmalloc and kfree, with the disk's interrupt freeing objects between any two of
\* their loads and stores: no object is given twice, none that somebody has lies in a slab
\* that was given back, the counters are off on the one side only, and no page is lost
\* (memory.c:366, 401, 676, 690).
THEOREM SlabsStaySound == AllSpec => []SlabsSound
<1> DEFINE Remains == part = "slabs" => SlabsIInv
<1>1. AllInit => Remains
  BY SlabsBegin DEF AllInit
<1>2. Remains /\ [AllNext]_allVars => Remains'
  <2>1. SUFFICES ASSUME Remains, [AllNext]_allVars, part' = "slabs" PROVE SlabsIInv'
    OBVIOUS
  <2>2. part = "slabs" /\ [Slabs!Next]_slabVars
    BY <2>1 DEF AllNext, PagesNext, SlabsNext, SpacesNext, allVars
  <2> QED
    BY <2>1, <2>2, SlabsStep
<1>3. Remains => SlabsSound
  BY SlabsAreSound DEF SlabsSound
<1> QED
  BY <1>1, <1>2, <1>3, PTL DEF AllSpec

\* kmalloc returns NULL only when there is no page and no free object: the slab that it
\* takes by total_free and free_count has a clear bit (memory.c:366, 397).
THEOREM KmallocFound == AllSpec => KmallocFinds
<1> DEFINE Remains == part = "slabs" => SlabsIInv
           A == part = "slabs" => Slabs!NullMeansNone
<1>1. AllInit => Remains
  BY SlabsBegin DEF AllInit
<1>2. Remains /\ [AllNext]_allVars => Remains' /\ [A]_slabVars
  <2>1. SUFFICES ASSUME Remains, [AllNext]_allVars PROVE Remains' /\ [A]_slabVars
    OBVIOUS
  <2>2. part' = part /\ (part = "slabs" => [Slabs!Next]_slabVars)
    BY <2>1 DEF AllNext, PagesNext, SlabsNext, SpacesNext, allVars
  <2>3. Remains'
    BY <2>1, <2>2, SlabsStep
  <2>4. A
    BY <2>1, <2>2, NullMeansThat
  <2> QED
    BY <2>3, <2>4
<1> HIDE DEF A
<1>3. AllSpec => [][A]_slabVars
  BY <1>1, <1>2, PTL DEF AllSpec
<1> QED
  BY <1>3 DEF KmallocFinds, A
=============================================================================
