---------------------------- MODULE AddressSpace ----------------------------
(***************************************************************************)
(* The address spaces of the user tasks: the code page and the heap of     *)
(* each, over fork, vfork, brk and the malloc of the user library.         *)
(* Addresses count from start_brk, in units of which PageUnits make a page *)
(* of 2 MB; frame 0 is the first page of memory, where the kernel lies.    *)
(* malloc is user code and brk a system call: both can lose the processor  *)
(* at any step, to a task in the same address space too.                   *)
(***************************************************************************)
EXTENDS Integers, FiniteSets

CONSTANTS Task,       \* the tasks that there may be
          FirstTask,  \* the one that runs init.bin
          Frames,     \* physical pages, the kernel's and that of init.bin included
          PageUnits,  \* units of memory in a page
          Align,      \* SIZE_ALIGN
          Sizes,      \* what is asked of malloc
          MaxHeap     \* bound: the end of the heap
SpaceAssumption ==
  /\ FirstTask \in Task
  /\ Frames \in Nat \ {0, 1} /\ PageUnits \in Nat \ {0} /\ Align \in Nat
  /\ Sizes \subseteq Nat \ {0} /\ MaxHeap \in Nat

VARIABLES
  live,    \* the tasks that there are
  mm,      \* the address space of each, named for the task it was made for
  code,    \* the frame of the code page of each space
  heap,    \* the frame of each page of the heap that is mapped
  endBrk,  \* end_brk of each space
  taken,   \* the frames whose bit is set in bits_map
  wiped,   \* the Page structs, the zones and the first slabs are zero
  lib,     \* malloc's variables, in the memory of each space
  call,    \* the call of each task
  blocks,  \* history: what malloc has returned in each space
  raced    \* history: the spaces two tasks were in malloc at once in
vars == <<live, mm, code, heap, endBrk, taken, wiped, lib, call, blocks, raced>>
library == <<lib, blocks, raced>>
memory == <<code, heap, endBrk, taken, wiped>>
tasks == <<live, mm>>

Frame == 0 .. Frames - 1
Address == 0 .. MaxHeap
Pages == 0 .. MaxHeap \div PageUnits
NoFrame == -1
Libs == [started : BOOLEAN, used : Address, end : Address]
Out == [at |-> "out", size |-> 0, arg |-> 0, next |-> 0, frame |-> NoFrame]

TypeOK ==
  /\ live \subseteq Task /\ raced \subseteq Task
  /\ mm \in [Task -> Task]
  /\ code \in [Task -> Frame \cup {NoFrame}]
  /\ heap \in [Task -> [Pages -> Frame \cup {NoFrame}]]
  /\ endBrk \in [Task -> Address]
  /\ taken \subseteq Frame /\ wiped \in BOOLEAN
  /\ lib \in [Task -> Libs]
  /\ \A t \in Task : \A b \in blocks[t] : b.from \in Address /\ b.size \in Sizes
  /\ \A t \in Task : call[t].at \in {"out", "start", "test", "brk", "page",
                                     "map", "end", "take", "bump", "fault"}
  /\ \A t \in Task : call[t].arg % PageUnits = 0 /\ call[t].next \in Address

\* do_execve gives init.bin a page for its code and an empty heap.
Init ==
  /\ live = {FirstTask} /\ raced = {}
  /\ mm = [t \in Task |-> t]
  /\ code = [t \in Task |-> IF t = FirstTask THEN 1 ELSE NoFrame]
  /\ heap = [t \in Task |-> [p \in Pages |-> NoFrame]]
  /\ endBrk = [t \in Task |-> 0]
  /\ taken = {0, 1} /\ wiped = FALSE
  /\ lib = [t \in Task |-> [started |-> FALSE, used |-> 0, end |-> 0]]
  /\ call = [t \in Task |-> Out]
  /\ blocks = [t \in Task |-> {}]

-----------------------------------------------------------------------------
At(t, place) == t \in live /\ call[t].at = place
Goes(t, change) == call' = [call EXCEPT ![t] = change]
To(t, place) == Goes(t, [call[t] EXCEPT !.at = place])
Space(t) == mm[t]
InMalloc(t) == t \in live /\ call[t].at \notin {"out", "fault"}

\* PAGE_2M_ALIGN, and the same in malloc.
RoundUp(n) == ((n + PageUnits - 1) \div PageUnits) * PageUnits

\* A NULL pointer is followed in the kernel: do_page_fault keeps the task.
Fault(t) == Goes(t, [Out EXCEPT !.at = "fault"])

\* malloc, called with some size.
Malloc(t) ==
  /\ At(t, "out")
  /\ \E n \in Sizes :
       Goes(t, [Out EXCEPT !.size = n,
                 !.at = IF lib[Space(t)].started THEN "test" ELSE "start"])
  /\ raced' = IF \E u \in Task : InMalloc(u) /\ Space(u) = Space(t)
              THEN raced \cup {Space(t)} ELSE raced
  /\ UNCHANGED <<tasks, memory, lib, blocks>>

\* The first call asks brk(0) where the heap starts.
Start(t) ==
  /\ At(t, "start")
  /\ lib' = [lib EXCEPT ![Space(t)] = [started |-> TRUE, used |-> 0, end |-> 0]]
  /\ To(t, "test")
  /\ UNCHANGED <<tasks, memory, blocks, raced>>

\* Mutant: the size is not counted in.
FitsFirst(l, n) == l.end > l.used + Align

\* Does the block fit below brk_end_address?
Fits(l, n) == l.end > l.used + Align + n

\* It fits, or brk is asked for as many pages as the block would fill.
Test(t) ==
  /\ At(t, "test")
  /\ LET l == lib[Space(t)]
         n == call[t].size
     IN  IF Fits(l, n) THEN To(t, "take")
         ELSE /\ l.end + RoundUp(n + Align) <= MaxHeap
              /\ Goes(t, [call[t] EXCEPT !.at = "brk",
                            !.arg = l.end + RoundUp(n + Align)])
  /\ UNCHANGED <<tasks, memory, library>>

\* sys_brk and the bounds of do_brk's loop, from end_brk to the new end.
Brk(t) ==
  /\ At(t, "brk")
  /\ Goes(t, [call[t] EXCEPT !.at = "page", !.next = endBrk[Space(t)]])
  /\ UNCHANGED <<tasks, memory, library>>

\* One round of the loop: a page that is mapped is left alone, for another
\* alloc_pages is asked, which finds no zone once the zones are wiped.
Page(t) ==
  /\ At(t, "page") /\ call[t].next < call[t].arg
  /\ LET p == call[t].next \div PageUnits
         free == Frame \ taken
     IN  IF heap[Space(t)][p] # NoFrame
         THEN /\ Goes(t, [call[t] EXCEPT !.next = @ + PageUnits])
              /\ UNCHANGED taken
         ELSE IF wiped \/ free = {}
         THEN Fault(t) /\ UNCHANGED taken
         ELSE \E f \in free :
                /\ \A g \in free : f <= g
                /\ taken' = taken \cup {f}
                /\ Goes(t, [call[t] EXCEPT !.at = "map", !.frame = f])
  /\ UNCHANGED <<tasks, code, heap, endBrk, wiped, library>>

\* The frame that do_brk maps: its memset clears the Page struct, not the page,
\* so that p_address is 0.
Mapped(f) == 0

\* What is set from that Page struct on is gone for good.
Map(t) ==
  /\ At(t, "map")
  /\ wiped' = TRUE
  /\ heap' = [heap EXCEPT ![Space(t)][call[t].next \div PageUnits]
                = Mapped(call[t].frame)]
  /\ Goes(t, [call[t] EXCEPT !.at = "page", !.next = @ + PageUnits])
  /\ UNCHANGED <<tasks, code, endBrk, taken, library>>

\* The loop ends and end_brk is set, twice; a smaller end changes nothing.
BrkEnds(t) ==
  /\ At(t, "page") /\ call[t].next >= call[t].arg
  /\ endBrk' = [endBrk EXCEPT ![Space(t)] = call[t].next]
  /\ To(t, "end")
  /\ UNCHANGED <<tasks, code, heap, taken, wiped, library>>

\* malloc keeps what brk returns.
SetEnd(t) ==
  /\ At(t, "end")
  /\ lib' = [lib EXCEPT ![Space(t)].end = call[t].next]
  /\ To(t, "take")
  /\ UNCHANGED <<tasks, memory, blocks, raced>>

\* The address is read ...
Take(t) ==
  /\ At(t, "take")
  /\ Goes(t, [call[t] EXCEPT !.at = "bump", !.next = lib[Space(t)].used])
  /\ UNCHANGED <<tasks, memory, library>>

\* ... and brk_used_address moved on.
Bump(t) ==
  /\ At(t, "bump")
  /\ lib[Space(t)].used + call[t].size + Align <= MaxHeap
  /\ lib' = [lib EXCEPT ![Space(t)].used = @ + call[t].size + Align]
  /\ blocks' = [blocks EXCEPT ![Space(t)] =
                  @ \cup {[from |-> call[t].next, size |-> call[t].size]}]
  /\ Goes(t, Out)
  /\ UNCHANGED <<tasks, memory, raced>>

-----------------------------------------------------------------------------
\* kmalloc reads the slabs, which are wiped with the Page structs.
NoKmalloc == wiped

\* fork or vfork finds no memory, or only zeros where memory is accounted for.
ForkFaults(t) ==
  /\ At(t, "out") /\ live # Task
  /\ NoKmalloc \/ taken = Frame
  /\ Fault(t)
  /\ UNCHANGED <<tasks, memory, library>>

\* copy_mem without CLONE_VM: a new page table with a copy of the code page.  The
\* copy of a heap is never reached, since a heap means that kmalloc faults.
Fork(t) ==
  /\ At(t, "out") /\ ~NoKmalloc
  /\ \E u \in Task \ live, f \in Frame \ taken :
       /\ \A g \in Frame \ taken : f <= g
       /\ live' = live \cup {u}
       /\ mm' = [mm EXCEPT ![u] = u]
       /\ code' = [code EXCEPT ![u] = f]
       /\ taken' = taken \cup {f}
       /\ endBrk' = [endBrk EXCEPT ![u] = endBrk[Space(t)]]
       /\ lib' = [lib EXCEPT ![u] = lib[Space(t)]]
       /\ blocks' = [blocks EXCEPT ![u] = blocks[Space(t)]]
       /\ raced' = IF Space(t) \in raced THEN raced \cup {u} ELSE raced
  /\ UNCHANGED <<heap, wiped, call>>

\* copy_mem with CLONE_VM: the child has the parent's mm; the parent runs on.
Vfork(t) ==
  /\ At(t, "out") /\ ~NoKmalloc
  /\ \E u \in Task \ live :
       /\ live' = live \cup {u}
       /\ mm' = [mm EXCEPT ![u] = Space(t)]
  /\ UNCHANGED <<memory, call, library>>

TaskStep(t) ==
  \/ Malloc(t) \/ Start(t) \/ Test(t) \/ Brk(t) \/ Page(t) \/ Map(t)
  \/ BrkEnds(t) \/ SetEnd(t) \/ Take(t) \/ Bump(t)
  \/ ForkFaults(t) \/ Fork(t) \/ Vfork(t)
Next == \E t \in Task : TaskStep(t)
Spec == Init /\ [][Next]_vars

-----------------------------------------------------------------------------
\* No address space reaches the code of another: no two have one frame for their
\* code, and no heap lies in a frame of code (task.c:162, memory.c:862).
SpacesApart ==
  \A t, u \in {mm[x] : x \in live} :
    /\ t # u => code[t] # code[u]
    /\ \A p \in Pages : heap[t][p] # code[u] \/ heap[t][p] = NoFrame

\* As long as no two tasks that vfork has left in one space are in malloc at once,
\* the blocks do not overlap, with SIZE_ALIGN between them, and lie in pages that
\* are mapped, whatever forks and calls of brk are between them (malloc.c:17-22).
BlocksSound ==
  \A t \in live : mm[t] \notin raced =>
    \A b \in blocks[mm[t]] :
      /\ \A c \in blocks[mm[t]] :
           c = b \/ b.from + b.size + Align <= c.from \/ c.from + c.size + Align <= b.from
      /\ \A a \in b.from .. b.from + b.size - 1 :
           heap[mm[t]][a \div PageUnits] # NoFrame

\* The kernel and the library then agree on where the heap ends whenever nobody is
\* inside malloc (sys.c:216, malloc.c:19).
EndsAgree ==
  \A t \in live :
    mm[t] \notin raced /\ (\A u \in live : mm[u] = mm[t] => ~InMalloc(u)) =>
      lib[mm[t]].end = endBrk[mm[t]]

\* No fork meets a heap: the half of copy_mem that would copy one (task.c:166), five
\* pages whatever the heap's length, is never reached.
NoHeapToCopy == \A t \in live : endBrk[mm[t]] # 0 => NoKmalloc

\* The spaces are apart and the blocks in each, the kernel and the library agree on
\* them, and no heap is ever copied (task.c:162, malloc.c:17).
Sound == TypeOK /\ SpacesApart /\ BlocksSound /\ EndsAgree /\ NoHeapToCopy
=============================================================================
