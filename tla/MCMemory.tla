------------------------------ MODULE MCMemory ------------------------------
(***************************************************************************)
(* The three layers of memory, each on the promise of the one below: the   *)
(* pages, the slabs of one size, the address spaces of the user tasks.     *)
(* `part` says which of them a behaviour is of; the variables of the others*)
(* keep their first values, or hold nothing.                               *)
(***************************************************************************)
EXTENDS PageAlloc, TLC

CONSTANTS FirstTask,   \* the task that runs init.bin; the others are its children
          SlabPage, FirstSlab, Colors,
          Frames, PageUnits, Align, Sizes, MaxHeap
VARIABLES part,
  slab_list, slab_pool, slab_map, slab_using, slab_free, slab_total, slab_pages, slab_owners,
  slab_call, slab_struck,
  space_live, space_mm, space_code, space_heap, space_endBrk, space_taken,
  space_wiped, space_lib, space_call, space_blocks, space_raced

Slabs == INSTANCE Slab WITH
  Page <- SlabPage, First <- FirstSlab,
  list <- slab_list, pool <- slab_pool, map <- slab_map, using <- slab_using, free <- slab_free,
  total <- slab_total, pages <- slab_pages, owners <- slab_owners, call <- slab_call,
  struck <- slab_struck
Spaces == INSTANCE AddressSpace WITH
  Task <- Task \cup {FirstTask},
  live <- space_live, mm <- space_mm, code <- space_code, heap <- space_heap,
  endBrk <- space_endBrk, taken <- space_taken, wiped <- space_wiped, lib <- space_lib,
  call <- space_call, blocks <- space_blocks, raced <- space_raced
ASSUME LayersAssumption == Slabs!SlabAssumption /\ Spaces!SpaceAssumption

slabVars == <<slab_list, slab_pool, slab_map, slab_using, slab_free, slab_total,
              slab_pages, slab_owners, slab_call, slab_struck>>
spaceVars == <<space_live, space_mm, space_code, space_heap, space_endBrk,
               space_taken, space_wiped, space_lib, space_call, space_blocks,
               space_raced>>
allVars == <<part, vars, slabVars, spaceVars>>

Nothing == "nothing"
NoSlabs == /\ slab_list = Nothing /\ slab_pool = Nothing /\ slab_map = Nothing /\ slab_using = Nothing
           /\ slab_free = Nothing /\ slab_total = Nothing /\ slab_pages = Nothing
           /\ slab_owners = Nothing /\ slab_call = Nothing /\ slab_struck = Nothing
NoSpaces == /\ space_live = Nothing /\ space_mm = Nothing /\ space_code = Nothing
            /\ space_heap = Nothing /\ space_endBrk = Nothing /\ space_taken = Nothing
            /\ space_wiped = Nothing /\ space_lib = Nothing /\ space_call = Nothing
            /\ space_blocks = Nothing /\ space_raced = Nothing

AllInit ==
  /\ Init
  /\ \/ part = "pages" /\ NoSlabs /\ NoSpaces
     \/ part = "slabs" /\ Slabs!Init /\ NoSpaces
     \/ part = "spaces" /\ NoSlabs /\ Spaces!Init
PagesNext == part = "pages" /\ Next /\ UNCHANGED <<part, slabVars, spaceVars>>
SlabsNext == part = "slabs" /\ Slabs!Next /\ UNCHANGED <<part, vars, spaceVars>>
SpacesNext == part = "spaces" /\ Spaces!Next /\ UNCHANGED <<part, vars, slabVars>>
AllNext == PagesNext \/ SlabsNext \/ SpacesNext
AllSpec == AllInit /\ [][AllNext]_allVars

\* kmalloc and kfree between the stores of which an interrupt comes: what Slab says of
\* them (memory.c:366, 676).
SlabsSound == part = "slabs" => Slabs!Sound

\* kmalloc returns NULL only when there is no page and no free object (memory.c:366).
KmallocFinds == [][part = "slabs" => Slabs!NullMeansNone]_slabVars

\* The tasks' memory over fork, vfork, brk and malloc: what AddressSpace says of it
\* (task.c:162, malloc.c:17).
SpacesSound == part = "spaces" => Spaces!Sound

\* The models go no further than the step that brings a second task into an allocator;
\* the counters of the slabs drift with each store that an interrupt comes before, and
\* the bounds leave room for such stores of one kind.
Within ==
  /\ Alone
  /\ part = "slabs" =>
       /\ Slabs!Sane
       /\ Cardinality(slab_struck) <= 1 /\ slab_total >= -1
       /\ \A p \in SlabPage : slab_using[p] <= 3 /\ slab_free[p] >= -1

Symmetric == Permutations(Task) \cup Permutations(SlabPage \ {FirstSlab})
=============================================================================
