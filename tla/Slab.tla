-------------------------------- MODULE Slab --------------------------------
(***************************************************************************)
(* kmalloc and kfree, memory.c, on the slabs of one size.  Tasks call them *)
(* with interrupts on and without a lock, so that every load and store of  *)
(* a colour map, of the counters that decide on anything and of the list   *)
(* is a step; the two loads of a statement of list_delete are one, because *)
(* an interrupt that changes one of the two pointers leaves the other.     *)
(* The disk's interrupt frees an object in one step (disk.c).  A slab is   *)
(* named by its page.  kfree's search for its slab is part of its first    *)
(* step: a slab that is unlinked under it still leads on.  For the sizes   *)
(* from 1024 bytes on, the slab's descriptor and map are objects of        *)
(* smaller sizes: there each of these is a call of the same functions, on  *)
(* other slabs than these.                                                 *)
(***************************************************************************)
EXTENDS Integers, FiniteSets, LinkedList

CONSTANTS Task,       \* the tasks that allocate
          Page,       \* the pages slabs are made of
          First,      \* the page of cache_pool, which is never given back
          Colors      \* color_count, the objects of a slab
SlabAssumption ==
  /\ First \in Page /\ IsFiniteSet(Page) /\ Colors \in 1 .. 64

VARIABLES
  list,       \* the pointers of the slabs' lists
  pool,       \* history: the slabs that have been added and not been deleted
  map,        \* the bits that are set in each color_map
  using,      \* using_count of each slab
  free,       \* free_count of each slab
  total,      \* total_free of the size
  pages,      \* the pages that alloc_pages can give
  owners,     \* how often each object has been given and not been taken back
  call,       \* each task's call
  struck      \* history: what an interrupt or a second task has come between
vars == <<list, pool, map, using, free, total, pages, owners, call, struck>>

Unit == 0 .. Colors - 1
Object == Page \X Unit

\* Outside; before the choice of a slab; at a slab of the list, and at one that is full;
\* before kmalloc_create; before the load and the store of a field; before kfree gives a
\* slab back, and before free_pages.
Places == {"out", "choose", "walk", "full", "create", "load", "store", "check", "page"}
\* The map and the counters; total_free is also changed by a whole slab.
Fields == {"map", "using", "free", "total", "size", "drop"}
\* What the stores of list_add_before and of list_delete change.
Links == {"add1", "add2", "add3", "add4", "del1", "del2"}

Calls == [at : Places, job : {"take", "give"}, field : Fields \cup Links, slab : Page,
          unit : Unit, word : SUBSET Unit, count : Int, next : Page, prev : Page]
None == [at |-> "out", job |-> "take", field |-> "map", slab |-> First,
         unit |-> 0, word |-> {}, count |-> 0, next |-> First, prev |-> First]

TypeOK ==
  /\ list \in ListMemory(Page) /\ pool \subseteq Page
  /\ map \in [Page -> SUBSET Unit]
  /\ using \in [Page -> Int] /\ free \in [Page -> Int] /\ total \in Int
  /\ pages \subseteq Page
  /\ owners \in [Object -> Nat]
  /\ call \in [Task -> Calls]
  /\ struck \subseteq Fields \cup {"slab", "list", "walk", "shared"}

\* slab_init: one empty slab.
Init ==
  /\ list = [next |-> [p \in Page |-> p], prev |-> [p \in Page |-> p]]
  /\ pool = {First}
  /\ map = [p \in Page |-> {}]
  /\ using = [p \in Page |-> 0]
  /\ free = [p \in Page |-> IF p = First THEN Colors ELSE 0]
  /\ total = Colors
  /\ pages = Page \ {First}
  /\ owners = [o \in Object |-> 0]
  /\ call = [t \in Task |-> None]
  /\ struck = {}

-----------------------------------------------------------------------------
\* Task t's call goes from a place to what it is afterwards.
Step(t, from, after) ==
  /\ call[t].at = from
  /\ call' = [call EXCEPT ![t] = after]
  /\ struck' = struck \cup
       (IF \E u \in Task \ {t} : call[u].at # "out" THEN {"shared"} ELSE {})

Kmalloc(t) ==
  /\ Step(t, "out", [None EXCEPT !.at = "choose"])
  /\ UNCHANGED <<list, pool, map, using, free, total, pages, owners>>

Choose(t) ==
  /\ Step(t, "choose", [call[t] EXCEPT !.at = IF total # 0 THEN "walk" ELSE "create"])
  /\ UNCHANGED <<list, pool, map, using, free, total, pages, owners>>

\* Mutant: a slab is taken whether it has a free object or not.
AbleAlways(s) == TRUE

\* The first slab with free_count other than 0 ...
Able(s) == free[s] # 0
Walk(t) ==
  /\ Step(t, "walk", [call[t] EXCEPT !.at = IF Able(call[t].slab) THEN "load" ELSE "full"])
  /\ UNCHANGED <<list, pool, map, using, free, total, pages, owners>>

\* ... or again the first of all.
Pass(t) ==
  /\ LET next == list.next[call[t].slab]
     IN  Step(t, "full", [call[t] EXCEPT !.slab = next,
                                         !.at = IF next = First THEN "load" ELSE "walk"])
  /\ UNCHANGED <<list, pool, map, using, free, total, pages, owners>>

\* kmalloc_create: a new slab, known to nobody yet.
Create(t) ==
  /\ \E p \in pages :
       /\ Step(t, "create", [call[t] EXCEPT !.at = "load", !.field = "size", !.slab = p])
       /\ pages' = pages \ {p}
       /\ list' = ListInit(list, p)
       /\ map' = [map EXCEPT ![p] = {}]
       /\ using' = [using EXCEPT ![p] = 0]
       /\ free' = [free EXCEPT ![p] = Colors]
  /\ UNCHANGED <<pool, total, owners>>

\* There is no page, and kmalloc returns NULL.
CreateFails(t) ==
  /\ pages = {}
  /\ Step(t, "create", None)
  /\ UNCHANGED <<list, pool, map, using, free, total, pages, owners>>

\* The loads of list_add_before(First, slab) ...
LoadLast(t) ==
  /\ call[t].field \in {"add1", "add2"}
  /\ Step(t, "load", [call[t] EXCEPT !.at = "store", !.prev = list.prev[First]])
  /\ UNCHANGED <<list, pool, map, using, free, total, pages, owners>>

\* ... and of list_delete(slab).
LoadBeside(t) ==
  /\ call[t].field \in {"del1", "del2"}
  /\ LET s == call[t].slab
     IN  Step(t, "load", [call[t] EXCEPT !.at = "store", !.next = list.next[s],
                                         !.prev = list.prev[s]])
  /\ UNCHANGED <<list, pool, map, using, free, total, pages, owners>>

\* The map has no clear bit, whatever the counters said: kmalloc returns NULL.
NoBit(t) ==
  /\ call[t].field = "map" /\ call[t].job = "take"
  /\ map[call[t].slab] = Unit
  /\ Step(t, "load", None)
  /\ UNCHANGED <<list, pool, map, using, free, total, pages, owners>>

\* The search for the first clear bit ends with the load of its word.
LoadMap(t) ==
  /\ call[t].field = "map"
  /\ LET s == call[t].slab
         clear == Unit \ map[s]
     IN  \E j \in IF call[t].job = "take" THEN clear ELSE {call[t].unit} :
           /\ call[t].job = "take" => \A k \in clear : j <= k
           /\ Step(t, "load", [call[t] EXCEPT !.at = "store", !.word = map[s],
                                             !.unit = j])
  /\ UNCHANGED <<list, pool, map, using, free, total, pages, owners>>

\* Where the call goes on after the store of a field.
After(c) ==
  LET to(field) == [c EXCEPT !.at = "load", !.field = field, !.word = {}, !.count = 0,
                             !.next = First, !.prev = First]
  IN  CASE c.field = "map"   -> to(IF c.job = "take" THEN "using" ELSE "free")
        [] c.field = "using" -> to(IF c.job = "take" THEN "free" ELSE "total")
        [] c.field = "free"  -> to(IF c.job = "take" THEN "total" ELSE "using")
        [] c.field = "size"  -> to("add1")
        [] c.field = "add1"  -> to("add2")
        [] c.field = "add2"  -> [to("add3") EXCEPT !.at = "store"]
        [] c.field = "add3"  -> [to("add4") EXCEPT !.at = "store"]
        [] c.field = "add4"  -> to("map")
        [] c.field = "total" -> IF c.job = "take" THEN None
                                ELSE [to("map") EXCEPT !.at = "check"]
        [] c.field = "del1"  -> to("del2")
        [] c.field = "del2"  -> to("drop")
        [] c.field = "drop"  -> [to("map") EXCEPT !.at = "page"]

\* kmalloc sets the bit; kfree flips it.
Marked(c) ==
  IF c.job = "take" \/ c.unit \notin c.word THEN c.word \cup {c.unit}
                                           ELSE c.word \ {c.unit}

StoreMap(t) ==
  /\ call[t].field = "map"
  /\ map' = [map EXCEPT ![call[t].slab] = Marked(call[t])]
  /\ Step(t, "store", After(call[t]))
  /\ UNCHANGED <<list, pool, using, free, total, pages, owners>>

\* The stores of list_add_before and list_delete.
Linked(c) ==
  CASE c.field = "add1" -> [list EXCEPT !.next[c.prev] = c.slab]
    [] c.field = "add2" -> [list EXCEPT !.prev[c.slab] = c.prev]
    [] c.field = "add3" -> [list EXCEPT !.prev[First] = c.slab]
    [] c.field = "add4" -> [list EXCEPT !.next[c.slab] = First]
    [] c.field = "del1" -> [list EXCEPT !.prev[c.next] = c.prev]
    [] c.field = "del2" -> [list EXCEPT !.next[c.prev] = c.next]

StoreLink(t) ==
  /\ call[t].field \in Links
  /\ LET c == call[t]
     IN  /\ Step(t, "store", After(c))
         /\ list' = Linked(c)
         /\ pool' = IF c.field = "add4" THEN pool \cup {c.slab}
                    ELSE IF c.field = "del2" THEN pool \ {c.slab} ELSE pool
  /\ UNCHANGED <<map, using, free, total, pages, owners>>

LoadCount(t) ==
  /\ call[t].field \in Fields \ {"map"}
  /\ LET s == call[t].slab
     IN  Step(t, "load", [call[t] EXCEPT !.at = "store", !.count =
                CASE call[t].field = "using" -> using[s]
                  [] call[t].field = "free"  -> free[s]
                  [] OTHER                   -> total])
  /\ UNCHANGED <<list, pool, map, using, free, total, pages, owners>>

\* What is stored.
Counted(c) ==
  c.count + CASE c.field = "using" -> IF c.job = "take" THEN 1 ELSE -1
              [] c.field = "size"  -> Colors
              [] c.field = "drop"  -> -Colors
              [] OTHER             -> IF c.job = "take" THEN -1 ELSE 1

\* The store of a counter.  The last one of kmalloc is its return.
StoreCount(t) ==
  /\ call[t].field \in Fields \ {"map"}
  /\ LET c == call[t]
         returns == c.field = "total" /\ c.job = "take"
     IN  /\ Step(t, "store", After(c))
         /\ using' = IF c.field = "using" THEN [using EXCEPT ![c.slab] = Counted(c)]
                                          ELSE using
         /\ free' = IF c.field = "free" THEN [free EXCEPT ![c.slab] = Counted(c)]
                                        ELSE free
         /\ total' = IF c.field \in {"total", "size", "drop"} THEN Counted(c) ELSE total
         /\ owners' = IF returns THEN [owners EXCEPT ![<<c.slab, c.unit>>] = @ + 1]
                                 ELSE owners
  /\ UNCHANGED <<list, pool, map, pages>>

\* free_pages.
FreePage(t) ==
  /\ Step(t, "page", None)
  /\ pages' = pages \cup {call[t].slab}
  /\ UNCHANGED <<list, pool, map, using, free, total, owners>>

\* kfree of an object that somebody has: it finds the slab.
Kfree(t) ==
  /\ \E o \in Object :
       /\ owners[o] > 0
       /\ owners' = [owners EXCEPT ![o] = @ - 1]
       /\ Step(t, "out", [None EXCEPT !.at = "load", !.job = "give",
                                      !.slab = o[1], !.unit = o[2]])
  /\ UNCHANGED <<list, pool, map, using, free, total, pages>>

\* Mutant: the slab's last object may still be used.
SpareBut(s, used, all) == used <= 1 /\ all >= (Colors * 3) \div 2 /\ s # First

\* A slab is given back when nothing in it is used and there are enough others.
Spare(s, used, all) == used = 0 /\ all >= (Colors * 3) \div 2 /\ s # First

Check(t) ==
  /\ LET s == call[t].slab
     IN  /\ Step(t, "check", IF Spare(s, using[s], total)
                             THEN [call[t] EXCEPT !.at = "load", !.field = "del1"]
                             ELSE None)
  /\ UNCHANGED <<list, pool, map, using, free, total, pages, owners>>

\* What an interrupt comes between when it changes the fields of slab s.
Hit(s) ==
  {f \in Fields : \E t \in Task :
     /\ call[t].at = "store" /\ call[t].field = f
     /\ call[t].slab = s \/ f \in {"total", "size", "drop"}}

\* What it comes between when it gives slab s back: a call has the slab in hand, or
\* walks along the list; or it has loaded a pointer to s in order to add or delete a
\* slab beside it, and has not made the other pointer of the two lead past s.
InHand(t, s) == call[t].at \notin {"out", "choose", "create"} /\ call[t].slab = s
Beside(t, s) ==
  LET c == call[t]
  IN  \/ c.field = "add1" /\ c.at = "store" /\ s = list.prev[First]
      \/ c.field = "add2" /\ s = list.prev[First]
      \/ c.field = "del1" /\ c.at = "store" /\ s \in {list.next[c.slab], list.prev[c.slab]}
      \/ c.field = "del2" /\ s \in {list.next[c.slab], list.prev[c.slab]}
GivenBack(s) ==
  {kind \in {"slab", "list", "walk"} : \E t \in Task :
     \/ kind = "slab" /\ InHand(t, s)
     \/ kind = "list" /\ Beside(t, s)
     \/ kind = "walk" /\ call[t].at \in {"walk", "full"}}

\* kfree in end_request: a whole call.
InterruptFrees ==
  /\ \E o \in Object :
       LET s == o[1]
           used == using[s] - 1
           spare == Spare(s, used, total + 1)
       IN  /\ owners[o] > 0
           /\ owners' = [owners EXCEPT ![o] = @ - 1]
           /\ map' = [map EXCEPT ![s] = IF o[2] \in @ THEN @ \ {o[2]} ELSE @ \cup {o[2]}]
           /\ using' = [using EXCEPT ![s] = used]
           /\ free' = [free EXCEPT ![s] = @ + 1]
           /\ total' = total + 1 - (IF spare THEN Colors ELSE 0)
           /\ list' = IF spare THEN ListDelete(list, s) ELSE list
           /\ pool' = IF spare THEN pool \ {s} ELSE pool
           /\ pages' = IF spare THEN pages \cup {s} ELSE pages
           /\ struck' = struck \cup Hit(s) \cup (IF spare THEN GivenBack(s) ELSE {})
  /\ UNCHANGED call

TaskStep(t) == \/ Kmalloc(t) \/ Choose(t) \/ Walk(t) \/ Pass(t) \/ Create(t)
               \/ CreateFails(t) \/ LoadLast(t) \/ LoadBeside(t) \/ StoreLink(t)
               \/ NoBit(t) \/ LoadMap(t) \/ StoreMap(t) \/ LoadCount(t)
               \/ StoreCount(t) \/ FreePage(t) \/ Kfree(t) \/ Check(t)
Next == InterruptFrees \/ \E t \in Task : TaskStep(t)
Spec == Init /\ [][Next]_vars

-----------------------------------------------------------------------------
Quiet == \A t \in Task : call[t].at = "out"
Spared(what) == struck \cap what = {}

\* One task at a time is in the allocator, however long it is preempted there, and no
\* interrupt has given back the slab that the task had in hand, or one beside which it
\* was changing the list; the model goes no further than the step that ends this.
Sane == Spared({"slab", "list", "shared"})

Owned(s) == {j \in Unit : owners[<<s, j>>] > 0}

\* No object has two owners, and none that has one is marked free, whatever loads
\* and stores of kmalloc and kfree (memory.c:401, 676) an interrupt comes between.
NoObjectTwice ==
  Sane => \A o \in Object : owners[o] > 0 => owners[o] = 1 /\ o[2] \in map[o[1]]

\* No object that somebody has is in a page that has been given back
\* (memory.c:681): using_count may get too high, never too low.
ObjectsLive ==
  Sane => \A s \in Page : Owned(s) # {} => s \in pool /\ s \notin pages

\* Between calls the counters agree with the maps and the maps with the owners; an
\* interrupt between a load and a store (memory.c:402, 677) leaves using_count too
\* high or free_count too low, and the slabs as they are otherwise.
CountsAgree ==
  Sane /\ Quiet =>
    \A s \in pool :
      /\ Owned(s) \subseteq map[s] /\ (Spared({"map"}) => Owned(s) = map[s])
      /\ Cardinality(Owned(s)) <= using[s]
      /\ Spared({"using"}) => using[s] = Cardinality(Owned(s))
      /\ free[s] <= Colors - Cardinality(Owned(s))
      /\ Spared({"free"}) => free[s] = Colors - Cardinality(Owned(s))

\* Between calls total_free counts the objects of all slabs that nobody has, unless an
\* interrupt met one of its own stores (memory.c:405, 691).
TotalAgrees ==
  Sane /\ Quiet /\ Spared({"total", "size", "drop"}) =>
    total = Cardinality({o \in pool \X Unit : owners[o] = 0})

\* kmalloc returns NULL only when there is no page and no free object: the slab it
\* takes by total_free and free_count (memory.c:366) does have a free bit, unless an
\* interrupt has given back a slab while kmalloc walked along the list to it.
NullMeansNone ==
  \A t \in Task :
    /\ call[t].job = "take" /\ call[t].at \in {"create", "load"}
    /\ call'[t].at = "out" /\ Sane'
    /\ Spared({"map", "free", "total", "size", "drop", "walk"})
    => pages = {} /\ call[t].at = "create"

\* A page that was taken for a slab is in the list of slabs or with a call: none is
\* lost (memory.c:390, 690).
PagesKept ==
  Sane => \A p \in Page :
    \/ p \in pages \/ p \in pool
    \/ \E t \in Task : /\ call[t].slab = p
                       /\ call[t].at = "page" \/ call[t].field \in {"size", "drop"} \cup Links

\* Between calls the pointers lead from First to every slab that has been added and not
\* been deleted, and back, both ways, although interrupts delete slabs between the stores
\* of list_add_before and list_delete (lib.h:47, lib.h:55).
ListAgrees == Sane /\ Quiet => WellLinked(list, pool, First)

\* The slabs between any stores of one task and whole calls of an interrupt: objects
\* that are given once, counters that allow it, no page lost (memory.c:366, 676).
Sound == /\ TypeOK /\ NoObjectTwice /\ ObjectsLive
         /\ CountsAgree /\ TotalAgrees /\ PagesKept /\ ListAgrees
=============================================================================
