----------------------------- MODULE PageAlloc ------------------------------
(***************************************************************************)
(* The physical page allocator, memory.c: alloc_pages(ZONE_NORMAL, n, ..)  *)
(* and free_pages on the one zone that ZONE_NORMAL selects.  Tasks call    *)
(* them with interrupts on and without a lock, so that every load and      *)
(* store of a word of bits_map and of page_free_count is a step; the       *)
(* disk's interrupt frees a page, through kfree, in one.  What the code    *)
(* only writes (page_using_count) or never decides on in these calls (the  *)
(* pages' attributes and reference counts) is left out.                    *)
(***************************************************************************)
EXTENDS Integers, FiniteSets

CONSTANTS Task,       \* the tasks that use the allocator
          WordBits,   \* bits in a word of bits_map
          FirstPage,  \* zone_start_address >> PAGE_2M_SHIFT
          EndPage,    \* zone_end_address >> PAGE_2M_SHIFT
          BootPage,   \* the last page that is used at boot: page_free_count, which
                      \* is unsigned, is not taken below 0 for these pages
          Numbers     \* the numbers of pages that are asked for
ASSUME PageAssumption ==
  /\ WordBits \in Nat \ {0} /\ FirstPage \in {0, 1}
  /\ EndPage \in Nat /\ BootPage \in FirstPage .. EndPage - FirstPage - 1
  /\ Numbers \subseteq 1 .. WordBits - 1

VARIABLES
  clear,      \* the pages of the zone whose bit in bits_map is 0
  freeCount,  \* page_free_count
  owners,     \* how often each page has been given and not been taken back
  call,       \* each task's call of the allocator
  struck,     \* history: which stores an interrupt has come before
  shared      \* history: two tasks were inside the allocator at once
vars == <<clear, freeCount, owners, call, struck, shared>>

Zone == FirstPage .. EndPage - 1

\* Outside; before the look at the counter; in the search; before the load and
\* the store of the word of the next page, and of the counter.
Places == {"out", "scan", "search", "load", "store", "loadCount", "storeCount"}

\* Where a call is, what it does ("take" pages or "give" one back), with how many,
\* the first page, how many are dealt with, and what it has loaded and still needs.
Calls == [at : Places, job : {"take", "give"}, number : Nat, page : Zone,
          done : Nat, word : SUBSET Zone, count : Int]
None == [at |-> "out", job |-> "take", number |-> 0, page |-> FirstPage,
         done |-> 0, word |-> {}, count |-> 0]

TypeOK ==
  /\ clear \subseteq Zone
  /\ freeCount \in Int
  /\ owners \in [Zone -> Nat]
  /\ call \in [Task -> Calls]
  /\ struck \subseteq {"store", "storeCount"}
  /\ shared \in BOOLEAN

\* init_memory and slab_init: pages 0 to BootPage are marked, and each of them
\* is taken off the zone's counter, page 0 also when the zone begins behind it.
Init ==
  /\ clear = Zone \ (0 .. BootPage)
  /\ freeCount = Cardinality(Zone) - (BootPage + 1)
  /\ owners = [p \in Zone |-> 0]
  /\ call = [t \in Task |-> None]
  /\ struck = {} /\ shared = FALSE

-----------------------------------------------------------------------------
\* Mutant: the search goes on by a word from wherever it is.
NextStartByWord(j, n) == j + WordBits

\* Where the search goes on after the word that j is in: a step that takes an
\* unaligned j to the next word only when n is 1 and j is.
NextStart(j, n) ==
  j + (IF j % WordBits # 0 THEN WordBits - (n % WordBits) ELSE WordBits)

\* The values the loop variable j of alloc_pages takes.
Starts(n) ==
  LET j[i \in 0 .. EndPage] ==
        IF i = 0 THEN FirstPage ELSE NextStart(j[i - 1], n)
  IN  {j[i] : i \in 0 .. EndPage} \cap (0 .. EndPage)

\* The pages at which a run of n is looked for: from each j to the end of its word.
Candidates(n) ==
  {p \in Zone : \E j \in Starts(n) : p >= j /\ p \div WordBits = j \div WordBits}

Run(p, n) == p .. p + n - 1
Found(n, pages) == {p \in Candidates(n) : Run(p, n) \subseteq pages}

WordOf(p) == {q \in Zone : q \div WordBits = p \div WordBits}

\* Task t's call goes from a place to what it is afterwards.
Step(t, from, after) ==
  /\ call[t].at = from
  /\ call' = [call EXCEPT ![t] = after]
  /\ shared' = (shared \/ \E u \in Task \ {t} : call[u].at # "out")

Request(t) ==
  /\ \E n \in Numbers :
       Step(t, "out", [None EXCEPT !.at = "scan", !.number = n])
  /\ UNCHANGED <<clear, freeCount, owners, struck>>

Enough(t) == freeCount >= call[t].number

\* What the search begins with.
Look(t) ==
  /\ Enough(t)
  /\ Step(t, "scan", [call[t] EXCEPT !.at = "search", !.word = clear])
  /\ UNCHANGED <<clear, freeCount, owners, struck>>

\* The first run: an interrupt during the search may have cleared more, at pages
\* that had been passed or at pages that had not.
Find(t) ==
  /\ \E p \in Found(call[t].number, clear) :
       /\ \A q \in Found(call[t].number, call[t].word) : p <= q
       /\ Step(t, "search", [call[t] EXCEPT !.at = "load", !.page = p, !.word = {}])
  /\ UNCHANGED <<clear, freeCount, owners, struck>>

\* alloc_pages returns NULL.
FailCount(t) ==
  /\ ~Enough(t)
  /\ Step(t, "scan", None)
  /\ UNCHANGED <<clear, freeCount, owners, struck>>

FailSearch(t) ==
  /\ Found(call[t].number, call[t].word) = {}
  /\ Step(t, "search", None)
  /\ UNCHANGED <<clear, freeCount, owners, struck>>

\* free_pages with one page, as all its callers have it.
Release(t) ==
  /\ \E p \in Zone :
       /\ owners[p] > 0
       /\ owners' = [owners EXCEPT ![p] = @ - 1]
       /\ Step(t, "out", [None EXCEPT !.at = "load", !.job = "give",
                                      !.number = 1, !.page = p])
  /\ UNCHANGED <<clear, freeCount, struck>>

This(t) == call[t].page + call[t].done
Pages(t) == Run(call[t].page, call[t].number)

Load(t) ==
  /\ Step(t, "load", [call[t] EXCEPT !.at = "store",
                                    !.word = clear \cap WordOf(This(t))])
  /\ UNCHANGED <<clear, freeCount, owners, struck>>

\* Mutant: the word is not written back.
StoreNot(t) ==
  /\ Step(t, "store", [call[t] EXCEPT !.at = "loadCount", !.word = {}])
  /\ UNCHANGED <<clear, freeCount, owners, struck>>

Store(t) ==
  /\ Step(t, "store", [call[t] EXCEPT !.at = "loadCount", !.word = {}])
  /\ clear' = (clear \ WordOf(This(t))) \cup
              (IF call[t].job = "take" THEN call[t].word \ {This(t)}
                                       ELSE call[t].word \cup {This(t)})
  /\ UNCHANGED <<freeCount, owners, struck>>

LoadCount(t) ==
  /\ Step(t, "loadCount", [call[t] EXCEPT !.at = "storeCount", !.count = freeCount])
  /\ UNCHANGED <<clear, freeCount, owners, struck>>

\* Mutant: the counter goes up by one, whatever the call does.
CountedUp(t) == call[t].count + 1

Counted(t) == IF call[t].job = "take" THEN call[t].count - 1 ELSE call[t].count + 1

\* The next page of the run.
StoreCount(t) ==
  /\ call[t].done + 1 < call[t].number
  /\ Step(t, "storeCount", [call[t] EXCEPT !.at = "load", !.done = @ + 1, !.count = 0])
  /\ freeCount' = Counted(t)
  /\ UNCHANGED <<clear, owners, struck>>

\* After the last page the call returns, and a run that was taken has an owner.
Return(t) ==
  /\ call[t].done + 1 = call[t].number
  /\ Step(t, "storeCount", None)
  /\ freeCount' = Counted(t)
  /\ owners' = [p \in Zone |-> IF call[t].job = "take" /\ p \in Pages(t)
                               THEN owners[p] + 1 ELSE owners[p]]
  /\ UNCHANGED <<clear, struck>>

\* kfree in end_request, when it gives a page back.
InterruptFrees ==
  /\ \E p \in Zone :
       /\ owners[p] > 0
       /\ owners' = [owners EXCEPT ![p] = @ - 1]
       /\ clear' = clear \cup {p}
  /\ freeCount' = freeCount + 1
  /\ struck' = struck \cup ({"store", "storeCount"} \cap {call[t].at : t \in Task})
  /\ UNCHANGED <<call, shared>>

TaskStep(t) == \/ Request(t) \/ Look(t) \/ Find(t) \/ FailCount(t)
               \/ FailSearch(t) \/ Release(t)
               \/ Load(t) \/ Store(t) \/ LoadCount(t)
               \/ StoreCount(t) \/ Return(t)
Next == InterruptFrees \/ \E t \in Task : TaskStep(t)
Spec == Init /\ [][Next]_vars

-----------------------------------------------------------------------------
\* One task at a time is in the allocator, however long it is preempted there;
\* the model goes no further than the step that ends this.
Alone == ~shared

Quiet == \A t \in Task : call[t].at = "out"
\* The interrupt has freed no page between the load and the store of a word, or
\* of the counter.
BitsSpared == "store" \notin struck
CountSpared == "storeCount" \notin struck

\* No page has two owners, and none that has one is marked free, whatever
\* loads and stores of alloc_pages and free_pages (memory.c:259, 655) an
\* interrupt that frees pages comes between.
NoPageTwice ==
  Alone => \A p \in Zone : owners[p] > 0 => owners[p] = 1 /\ p \notin clear

\* Between calls page_free_count agrees with bits_map except for page 0, which
\* init_memory takes off the zone's counter and which the zone need not have
\* (memory.c:171).  An interrupt before the store of a word (memory.c:259, 655)
\* leaves the counter too high, one before the store of the counter
\* (memory.c:261, 657) too low.
CountKept ==
  LET known == Cardinality(clear) - (IF 0 \in Zone THEN 0 ELSE 1)
  IN  Alone /\ Quiet => /\ BitsSpared => freeCount <= known
                        /\ CountSpared => freeCount >= known

\* One page of a zone that begins behind page 0 is never given to anybody, for
\* the counter is looked at before the bits (memory.c:231), unless an
\* interrupt's store to the bits was lost.
OnePageKept == Alone /\ BitsSpared /\ 0 \notin Zone => clear # {}

\* Each page has one owner or is marked free (memory.c:259, 655).
PagesSafe == TypeOK /\ NoPageTwice

\* The counter stays near the bits, and keeps one page (memory.c:171, 231, 261).
PagesCounted == CountKept /\ OnePageKept

Fails(t) == call[t].at \in {"scan", "search"} /\ call'[t].at = "out"
Seen(t) == IF call[t].at = "scan" THEN clear ELSE call[t].word

\* A request for a single page fails only when the page that is always kept was
\* all that was left: the search of memory.c:244 misses no page.
SinglePageFound ==
  [][\A t \in Task :
       Fails(t) /\ call[t].number = 1 /\ Alone' /\ CountSpared =>
         Cardinality(Seen(t)) <= 1]_vars

\* "no page can alloc" (memory.c:269) is what alloc_pages prints when there is
\* no run of the length that was asked for: the counter lets the request pass
\* and the search finds none.
NoneMeansNone ==
  [][\A t \in Task :
       Fails(t) /\ call[t].at = "search" /\ Alone' =>
         ~\E p \in Zone : Run(p, call[t].number) \subseteq call[t].word]_vars
=============================================================================
