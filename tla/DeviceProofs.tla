---------------------------- MODULE DeviceProofs ----------------------------
(***************************************************************************)
(* Proofs about the drivers, for any number of tasks.  Of the disk's:      *)
(* whatever store of add_request or cmd_out the disk's interrupt falls     *)
(* between, but for the two it must not, the list leads along the requests *)
(* in the order of the calls.  Of the keyboard's: wherever its interrupt   *)
(* falls, but for the places that Keyboard names, the readers get the      *)
(* codes in their order, the count is that of the codes not read, and no   *)
(* reader sleeps beside a code.                                            *)
(***************************************************************************)
EXTENDS MCDevices, LinkedListProofs

\* The requests that wait, in the order of the calls: the disk works on the first of
\* them all.
Rest == IF in_using = None THEN order ELSE Tail(order)

\* Where a task's request is in the queue, or just taken from it.
Listed == {"load", "store", "check", "pick", "unlink", "uncount", "issue", "mark"}

\* Whoever has the CPU may run, or is about to give it up; who is in disk_transfer
\* before wait_for_finish may run; who has an unfinished request is in one of the
\* two places, or sleeps.
Scheduled ==
  /\ cpu \in Task => cpu \in running \/ pc[cpu] = "sched"
  /\ \A t \in Task : pc[t] \in Submitting \cup {"mark"} => t \in running
  /\ \A t \in ToSet(order) :
       pc[t] \in Listed \/ (pc[t] \in {"sched", "out"} /\ t \notin running)

\* One task at a time submits.
OneSubmits ==
  \A t, u \in Task : pc[t] \in Submitting /\ pc[u] \in Submitting => t = u

\* The disk works on the oldest request, and on none only if there is none or its
\* task is about to look.
OldestFirst ==
  /\ in_using # None => order # <<>> /\ in_using = Head(order)
  /\ in_using = None /\ order # <<>> =>
       \E t \in Task : order = <<t>> /\ pc[t] \in {"load", "store", "check", "pick"}

\* The list when the stores still to be made are made.
ListFollows ==
  /\ (\A t \in Task : pc[t] \notin {"add2", "add3", "add4", "unlink"}) =>
       Follows(list, QHead, Rest)
  /\ \A t \in Task :
       /\ pc[t] = "add2" => HalfLinked(list, QHead, Rest, t)
       /\ pc[t] = "add3" =>
            Follows(Completed(list, QHead, t, TRUE), QHead, Append(Rest, t))
       /\ pc[t] = "add4" =>
            Follows(Completed(list, QHead, t, FALSE), QHead, Append(Rest, t))
       /\ pc[t] = "unlink" => Follows(list, QHead, <<t>>)

\* block_request_count, and what is loaded from it.
Counted ==
  /\ (\A t \in Task : pc[t] \notin {"load", "store", "unlink", "uncount"}) =>
       blockCount = Len(Rest)
  /\ \A t \in Task :
       /\ pc[t] \in {"load", "store"} => blockCount = Len(Rest) - 1
       /\ pc[t] = "store" => loaded[t] = blockCount
       /\ pc[t] \in {"unlink", "uncount"} => blockCount = 1

\* What a task that submits knows of its own request.
Own ==
  \A t \in Task :
    /\ pc[t] \in Listed => t \in ToSet(order)
    /\ pc[t] \in {"load", "store"} => Rest # <<>> /\ Rest[Len(Rest)] = t
    /\ pc[t] = "pick" => in_using = None
    /\ pc[t] \in {"unlink", "uncount", "issue"} => order = <<t>> /\ in_using = t

\* The controller executes the request in_using, or is about to be given it.
Given ==
  IF \E t \in Task : pc[t] \in {"unlink", "uncount", "issue"}
  THEN device = None ELSE device = in_using

Sound == /\ ~wild /\ OneSubmits /\ OldestFirst /\ ListFollows /\ Counted /\ Own
         /\ Given

IInv == TypeOK /\ Scheduled /\ (Undisturbed => Sound)

-----------------------------------------------------------------------------
\* Nothing is queued and nothing is under way at the start.
LEMMA DiskInitially == Init => IInv
<1> SUFFICES ASSUME Init PROVE IInv
  OBVIOUS
<1>1. TypeOK
  <2>1. list \in ListMemory(Cell)
    BY DEF Init, ListMemory
  <2>2. order \in Seq(Task) /\ IsInjective(order)
    BY DEF Init, IsInjective
  <2>3. pc \in [Task -> Places] /\ left \in [Task -> Nat] /\ loaded \in [Task -> Int]
    BY DEF Init, Places
  <2>4. /\ in_using = None /\ blockCount = 0 /\ device = None /\ cpu = Idle
        /\ running = Task /\ struck = {}
        /\ wild = FALSE /\ shared = FALSE /\ early = FALSE
    BY DEF Init
  <2>5. /\ in_using \in Task \cup {None} /\ blockCount \in Int
        /\ device \in Task \cup {None}
        /\ cpu \in Task \cup {Idle} /\ running \subseteq Task /\ struck \subseteq Adding
    BY <2>4
  <2>6. wild \in BOOLEAN /\ shared \in BOOLEAN /\ early \in BOOLEAN
    BY <2>4, Zenon
  <2> QED
    BY <2>1, <2>2, <2>3, <2>5, <2>6, Zenon DEF TypeOK
<1>2. Scheduled
  BY DEF Init, Scheduled, ToSet, Submitting, Adding
<1>3. Rest = <<>>
  BY DEF Init, Rest
<1>4. Follows(list, QHead, Rest)
  BY <1>3 DEF Init, Follows, NodeAt, Cell
<1>5. Sound
  BY <1>3, <1>4 DEF Init, Sound, OneSubmits, OldestFirst, ListFollows, Counted, Own,
                    Given, Submitting, Adding, Listed
<1> QED
  BY <1>1, <1>2, <1>5 DEF IInv

\* A step of task t, on the tasks and places.
LEMMA StepMoves ==
  ASSUME TypeOK, Scheduled, NEW t \in Task, NEW from, NEW to \in Places,
         Step(t, from, to)
  PROVE  /\ ~wild /\ cpu = t /\ t # Idle /\ pc[t] = from
         /\ from # "sched" => t \in running
         /\ pc' \in [Task -> Places] /\ pc'[t] = to
         /\ \A u \in Task \ {t} : pc'[u] = pc[u]
         /\ shared' \in BOOLEAN
         /\ ~shared' => /\ ~shared
                        /\ \A u \in Task \ {t} : pc[u] \notin Submitting
BY DiskAssumption DEF TypeOK, Scheduled, Step

\* A step within submit keeps to what a task that has the CPU may do.
LEMMA StepScheduled ==
  ASSUME TypeOK, Scheduled, NEW t \in Task, NEW from, from # "sched",
         NEW to \in Submitting \cup {"mark"}, Step(t, from, to),
         UNCHANGED sched, ToSet(order') \subseteq ToSet(order) \cup {t},
         t \in ToSet(order') => to \in Listed
  PROVE  Scheduled'
<1>1. to \in Places
  BY DEF Places
<1>2. /\ cpu = t /\ t \in running
      /\ pc' \in [Task -> Places] /\ pc'[t] = to
      /\ \A u \in Task \ {t} : pc'[u] = pc[u]
  BY <1>1, StepMoves
<1>3. cpu' = cpu /\ running' = running
  BY DEF sched
<1>4. \A u \in ToSet(order') : u \in Task /\ u # t => u \in ToSet(order)
  OBVIOUS
<1>5. ToSet(order) \subseteq Task
  BY DEF TypeOK, ToSet
<1> QED
  BY <1>2, <1>3, <1>4, <1>5 DEF Scheduled

\* Types, and the agreement of the ready tasks with their places, hold with any number of tasks in the driver.
LEMMA TypesStep == TypeOK /\ Scheduled /\ [Next]_vars => TypeOK' /\ Scheduled'
<1> SUFFICES ASSUME TypeOK, Scheduled, [Next]_vars PROVE TypeOK' /\ Scheduled'
  OBVIOUS
<1> USE DEF queue, sched
<1>a. /\ Submitting \cup {"mark", "sched", "out"} = Places
      /\ Listed \subseteq Submitting \cup {"mark"}
      /\ \A p \in {"add1", "add2", "add3", "add4"} : p \notin Listed
      /\ "sched" \notin Submitting /\ "out" \notin Submitting
  BY DEF Places, Submitting, Adding, Listed
<1>b. ToSet(order) \subseteq Task
  BY DEF TypeOK, ToSet
<1>1. CASE UNCHANGED vars
  BY <1>1 DEF vars, TypeOK, Scheduled
<1>2. CASE Switch
  <2>1. /\ cpu' \in running \cup {Idle} /\ running \subseteq Task
        /\ UNCHANGED <<list, in_using, blockCount, left, device, running, pc, loaded,
                       order, wild, struck, shared, early>>
    BY <1>2 DEF Switch, TypeOK
  <2>2. TypeOK'
    BY <2>1 DEF TypeOK
  <2>3. Scheduled'
    BY <2>1, DiskAssumption DEF Scheduled
  <2> QED
    BY <2>2, <2>3
<1>3. ASSUME NEW t \in Task, MakeRequest(t) PROVE TypeOK' /\ Scheduled'
  <2> USE <1>3 DEF MakeRequest
  <2>1. "add1" \in Places /\ "add1" \in Submitting
    BY DEF Places, Submitting, Adding
  <2>2. t \in running /\ pc' \in [Task -> Places] /\ pc[t] = "out"
        /\ shared' \in BOOLEAN
    BY <2>1, StepMoves
  <2>3. list' \in ListMemory(Cell)
    BY DEF TypeOK, ListMemory, ListInit, Cell
  <2>4. left' \in [Task -> Nat]
    BY DiskAssumption DEF TypeOK
  <2>5. TypeOK'
    BY <2>2, <2>3, <2>4 DEF TypeOK
  <2>6. t \notin ToSet(order)
    BY <2>2, <1>a DEF Scheduled
  <2> QED
    BY <2>1, <2>5, <2>6, StepScheduled
<1>4. ASSUME NEW t \in Task, Store1(t) \/ Store2(t) \/ Store3(t)
      PROVE  TypeOK' /\ Scheduled'
  <2> USE DEF Store1, Store2, Store3
  <2>1. PICK from \in {"add1", "add2", "add3"}, to \in {"add2", "add3", "add4"} :
          Step(t, from, to)
    BY <1>4
  <2>2. /\ to \in Places /\ to \in Submitting /\ from # "sched" /\ from \notin Listed
        /\ from # "out"
    BY DEF Places, Submitting, Adding, Listed
  <2>3. pc' \in [Task -> Places] /\ pc[t] = from /\ shared' \in BOOLEAN
    BY <2>1, <2>2, StepMoves
  <2>4. t \in Cell /\ QHead \in Cell
    BY DEF Cell
  <2>5. list' \in ListMemory(Cell)
    <3>1. list \in ListMemory(Cell)
      BY DEF TypeOK
    <3>2. list.prev[QHead] \in Cell
      BY <2>4, <3>1 DEF ListMemory
    <3> QED
      BY <1>4, <2>4, <3>1, <3>2 DEF ListMemory
  <2>6. TypeOK'
    BY <1>4, <2>3, <2>5 DEF TypeOK
  <2>7. t \notin ToSet(order)
    BY <2>2, <2>3 DEF Scheduled
  <2> QED
    BY <1>4, <2>1, <2>2, <2>6, <2>7, StepScheduled
<1>5. ASSUME NEW t \in Task, Store4(t) PROVE TypeOK' /\ Scheduled'
  <2> USE <1>5 DEF Store4
  <2>1. "load" \in Places /\ "load" \in Submitting /\ "load" \in Listed
    BY DEF Places, Submitting, Adding, Listed
  <2>2. pc' \in [Task -> Places] /\ pc[t] = "add4" /\ shared' \in BOOLEAN
    BY <2>1, StepMoves
  <2>3. list' \in ListMemory(Cell)
    <3>1. list \in ListMemory(Cell) /\ t \in Cell /\ QHead \in Cell
      BY DEF TypeOK, Cell
    <3> QED
      BY <3>1 DEF ListMemory
  <2>4. t \notin ToSet(order)
    BY <2>2, <1>a DEF Scheduled
  <2>5. order' \in Seq(Task) /\ IsInjective(order')
        /\ ToSet(order') = ToSet(order) \cup {t}
    BY <2>4, AppendMembers DEF TypeOK
  <2>6. TypeOK'
    BY <2>2, <2>3, <2>5 DEF TypeOK
  <2> QED
    BY <2>1, <2>5, <2>6, StepScheduled
<1>6. ASSUME NEW t \in Task, LoadCount(t) \/ StoreCount(t) \/ Check(t) \/ Pick(t)
                             \/ Unlink(t) \/ Uncount(t) \/ Issue(t)
      PROVE  TypeOK' /\ Scheduled'
  <2> USE DEF LoadCount, StoreCount, Check, Pick, Unlink, Uncount, Issue
  <2>1. PICK from \in Submitting, to \in Listed : Step(t, from, to)
    BY <1>6 DEF Submitting, Adding, Listed
  <2>2. /\ to \in Places /\ to \in Submitting \cup {"mark"} /\ from # "sched"
    BY <1>a DEF Listed, Submitting, Adding
  <2>3. pc' \in [Task -> Places] /\ shared' \in BOOLEAN
    BY <2>1, <2>2, StepMoves
  <2>4. list' \in ListMemory(Cell)
    <3>1. list \in ListMemory(Cell)
      BY DEF TypeOK
    <3>2. CASE Unlink(t) /\ in_using # None
      <4>1. in_using \in Cell
        BY <3>2 DEF TypeOK, Cell
      <4> QED
        BY <3>1, <3>2, <4>1, DeleteFields
    <3> QED
      BY <1>6, <3>1, <3>2
  <2>5. in_using' \in Task \cup {None} /\ wild' \in BOOLEAN
    <3>1. QHead \in Cell /\ list.next \in [Cell -> Cell]
      BY DEF TypeOK, ListMemory, Cell
    <3>2. FirstRequest # QHead => FirstRequest \in Task
      BY <3>1 DEF FirstRequest, Cell
    <3> QED
      BY <1>6, <3>2 DEF TypeOK
  <2>6. blockCount' \in Int /\ loaded' \in [Task -> Int]
    BY <1>6 DEF TypeOK
  <2>7. device' \in Task \cup {None}
    BY <1>6 DEF TypeOK
  <2>8. /\ UNCHANGED <<cpu, running, order, left, struck, early>>
    BY <1>6
  <2>9. TypeOK'
    BY <2>3, <2>4, <2>5, <2>6, <2>7, <2>8 DEF TypeOK
  <2>10. order' = order /\ UNCHANGED sched
    BY <2>8
  <2> QED
    BY <2>1, <2>2, <2>9, <2>10, StepScheduled
<1>7. ASSUME NEW t \in Task, Mark(t) PROVE TypeOK' /\ Scheduled'
  <2> USE <1>7 DEF Mark
  <2>1. /\ pc[t] = "mark" /\ pc' \in [Task -> Places] /\ pc'[t] = "sched" /\ cpu = t
        /\ \A u \in Task \ {t} : pc'[u] = pc[u]
        /\ shared' \in BOOLEAN
    BY <1>a, StepMoves
  <2>2. TypeOK'
    BY <2>1 DEF TypeOK
  <2>3. Scheduled'
    BY <1>a, <1>b, <2>1 DEF Scheduled
  <2> QED
    BY <2>2, <2>3
<1>8. ASSUME NEW t \in Task, Sleep(t) PROVE TypeOK' /\ Scheduled'
  <2> USE <1>8 DEF Sleep
  <2>1. /\ pc[t] = "sched" /\ pc' \in [Task -> Places] /\ pc'[t] = "out" /\ cpu = t
        /\ \A u \in Task \ {t} : pc'[u] = pc[u]
        /\ shared' \in BOOLEAN
    BY <1>a, StepMoves
  <2>2. TypeOK'
    BY <2>1 DEF TypeOK
  <2>3. cpu' \in Task => cpu' \in running
    BY DiskAssumption
  <2>4. UNCHANGED <<running, order>> /\ "out" \notin Submitting \cup {"mark"}
    BY DEF Submitting, Adding
  <2>5. \A u \in Task : pc'[u] \in Submitting \cup {"mark"} => u \in running
    BY <2>1, <2>4 DEF Scheduled
  <2>6. \A u \in ToSet(order) :
          pc'[u] \in Listed \/ (pc'[u] \in {"sched", "out"} /\ u \notin running)
    <3>1. ToSet(order) \subseteq Task
      BY DEF TypeOK, ToSet
    <3>2. t \in ToSet(order) => t \notin running
      BY <2>1 DEF Scheduled, Listed
    <3> QED
      BY <2>1, <3>1, <3>2 DEF Scheduled
  <2>7. Scheduled'
    BY <2>3, <2>4, <2>5, <2>6 DEF Scheduled
  <2> QED
    BY <2>2, <2>7
<1>9. CASE NextSector
  <2>1. left' \in [Task -> Nat]
    BY <1>9 DEF NextSector, TypeOK
  <2> QED
    BY <1>9, <2>1 DEF NextSector, TypeOK, Scheduled
<1>10. CASE EndRequest
  <2> USE <1>10 DEF EndRequest
  <2>1. in_using \in Task
    BY DEF TypeOK
  <2>2. order' \in Seq(Task) /\ IsInjective(order')
        /\ ToSet(order') = ToSet(order) \ {in_using}
    BY RemoveFirstMembers DEF TypeOK
  <2>3. list' \in ListMemory(Cell) /\ blockCount' \in Int
    <3>1. list \in ListMemory(Cell) /\ QHead \in Cell /\ blockCount \in Int
      BY DEF TypeOK, Cell
    <3>2. FirstRequest \in Cell
      BY <3>1 DEF FirstRequest, ListMemory
    <3>3. ListDelete(list, FirstRequest) \in ListMemory(Cell)
      BY <3>1, <3>2, DeleteFields
    <3> QED
      BY <3>1, <3>3
  <2>4. in_using' \in Task \cup {None} /\ device' \in Task \cup {None}
    BY DEF TypeOK, ListMemory, FirstRequest, Cell
  <2>5. left' \in [Task -> Nat] /\ wild' \in BOOLEAN /\ early' \in BOOLEAN
    BY DEF TypeOK
  <2>6. struck' \subseteq Adding /\ running' \subseteq Task
        /\ UNCHANGED <<cpu, pc, loaded, shared>>
    BY <2>1 DEF TypeOK
  <2>7. TypeOK'
    BY <2>2, <2>3, <2>4, <2>5, <2>6 DEF TypeOK
  <2>8. running' = running \cup {in_using}
    OBVIOUS
  <2>9. \A u \in ToSet(order') : u \in ToSet(order) /\ u # in_using
    BY <2>2
  <2>10. Scheduled'
    BY <1>b, <2>6, <2>8, <2>9 DEF Scheduled
  <2> QED
    BY <2>7, <2>10
<1> QED
  BY <1>1, <1>2, <1>3, <1>4, <1>5, <1>6, <1>7, <1>8, <1>9, <1>10
     DEF Next, Interrupt, Transfer, Submit

-----------------------------------------------------------------------------
\* The requests that wait are distinct tasks' requests.
LEMMA RestTypes ==
  ASSUME TypeOK, OldestFirst
  PROVE  /\ Rest \in Seq(Task) /\ Rest \in Seq(Cell) /\ IsInjective(Rest)
         /\ Distinct(QHead, Rest)
         /\ ToSet(Rest) = ToSet(order) \ {in_using} /\ ToSet(Rest) \subseteq Task
         /\ Task \subseteq Cell /\ QHead \in Cell /\ QHead \notin Task
<1>1. order \in Seq(Task) /\ IsInjective(order) /\ None \notin Task /\ QHead \notin Task
  BY DiskAssumption DEF TypeOK
<1>2. ToSet(order) \subseteq Task
  BY <1>1 DEF ToSet
<1>3. /\ Rest \in Seq(Task) /\ IsInjective(Rest)
      /\ ToSet(Rest) = ToSet(order) \ {in_using}
  <2>1. CASE in_using = None
    BY <1>1, <1>2, <2>1 DEF Rest
  <2>2. CASE in_using # None
    <3>1. order # <<>> /\ in_using = Head(order)
      BY <2>2 DEF OldestFirst
    <3>2. Rest = RemoveFirst(order, in_using)
      BY <1>1, <2>2, <3>1, RemoveFirstHead DEF Rest
    <3> QED
      BY <1>1, <3>2, RemoveFirstMembers
  <2> QED
    BY <2>1, <2>2
<1>4. Task \subseteq Cell /\ QHead \in Cell
  BY DEF Cell
<1>5. QHead \notin ToSet(Rest) /\ Rest \in Seq(Cell) /\ ToSet(Rest) \subseteq Task
  <2>1. ToSet(Rest) \subseteq Task
    BY <1>2, <1>3
  <2>2. Rest \in Seq(Cell)
    BY <1>3, <1>4
  <2> QED
    BY <1>1, <2>1, <2>2
<1> QED
  BY <1>1, <1>3, <1>4, <1>5 DEF Distinct

-----------------------------------------------------------------------------
\* What has happened once stays known.
LEMMA StaysDisturbed == TypeOK /\ [Next]_vars /\ Undisturbed' => Undisturbed
BY DEF Next, vars, Switch, Interrupt, NextSector, EndRequest, MakeRequest, Transfer,
       Submit, Store1, Store2, Store3, Store4, LoadCount, StoreCount, Check, Pick,
       Unlink, Uncount, Issue, Mark, Sleep, Step, Undisturbed, TypeOK, queue, sched

\* The only task that submits is the one that takes a step.
LEMMA StepAlone ==
  ASSUME TypeOK, Scheduled, NEW t \in Task, NEW from, NEW to \in Places,
         Step(t, from, to), Undisturbed'
  PROVE  /\ ~wild /\ cpu = t /\ pc[t] = from /\ pc'[t] = to
         /\ pc' \in [Task -> Places]
         /\ \A u \in Task \ {t} : pc'[u] = pc[u] /\ pc[u] \notin Submitting
BY StepMoves DEF Undisturbed

\* What makes the driver sound once only task t may be inside submit.
LEMMA SoundAt ==
  ASSUME TypeOK', NEW t \in Task,
         ~wild', OldestFirst',
         \A u \in Task \ {t} :
           /\ pc'[u] \notin Submitting
           /\ pc'[u] = "mark" => u \in ToSet(order'),
         pc'[t] \notin {"add2", "add3", "add4", "unlink"} =>
           Follows(list', QHead, Rest'),
         pc'[t] = "add2" => HalfLinked(list', QHead, Rest', t),
         pc'[t] = "add3" =>
           Follows(Completed(list', QHead, t, TRUE), QHead, Append(Rest', t)),
         pc'[t] = "add4" =>
           Follows(Completed(list', QHead, t, FALSE), QHead, Append(Rest', t)),
         pc'[t] = "unlink" => Follows(list', QHead, <<t>>),
         IF pc'[t] \in {"load", "store"}
         THEN /\ blockCount' = Len(Rest') - 1
              /\ Rest' # <<>> /\ Rest'[Len(Rest')] = t
              /\ pc'[t] = "store" => loaded'[t] = blockCount'
         ELSE blockCount' = IF pc'[t] \in {"unlink", "uncount"} THEN 1
                            ELSE Len(Rest'),
         pc'[t] \in Listed => t \in ToSet(order'),
         pc'[t] = "pick" => in_using' = None,
         IF pc'[t] \in {"unlink", "uncount", "issue"}
         THEN order' = <<t>> /\ in_using' = t /\ device' = None
         ELSE device' = in_using'
  PROVE  Sound'
<1>1. /\ {"add2", "add3", "add4", "unlink", "load", "store", "uncount", "pick",
          "issue"} \subseteq Submitting
      /\ Listed \subseteq Submitting \cup {"mark"}
  BY DEF Submitting, Adding, Listed
<1>2. OneSubmits'
  BY DEF OneSubmits
<1>3. ListFollows'
  BY <1>1 DEF ListFollows
<1>4. Counted'
  BY <1>1 DEF Counted
<1>5. Own'
  BY <1>1 DEF Own
<1>6. Given'
  BY <1>1 DEF Given
<1> QED
  BY <1>2, <1>3, <1>4, <1>5, <1>6 DEF Sound

-----------------------------------------------------------------------------
\* The stores of list_add_before.
LEMMA SoundMakeRequest ==
  ASSUME TypeOK, TypeOK', Scheduled, Sound, Undisturbed', NEW t \in Task,
         MakeRequest(t)
  PROVE  Sound'
<1> USE DEF MakeRequest, queue, sched
<1>1. "add1" \in Places
  BY DEF Places, Submitting, Adding
<1>2. /\ ~wild /\ pc[t] = "out" /\ pc'[t] = "add1" /\ t \in running
      /\ \A u \in Task \ {t} : pc'[u] = pc[u] /\ pc[u] \notin Submitting
  BY <1>1, StepAlone, StepMoves
<1>3. \A u \in Task : pc[u] \notin Submitting
  BY <1>2 DEF Submitting, Adding
<1>4. OldestFirst /\ ListFollows /\ Counted /\ Own /\ Given
  BY DEF Sound
<1>5. Follows(list, QHead, Rest) /\ blockCount = Len(Rest) /\ device = in_using
  BY <1>3, <1>4 DEF ListFollows, Counted, Given, Submitting, Adding
<1>6. t \notin ToSet(order)
  BY <1>2 DEF Scheduled, Listed, Submitting, Adding
<1>7. /\ UNCHANGED <<in_using, blockCount, device, order, wild>>
      /\ list' = ListInit(list, t)
  OBVIOUS
<1>8. Rest' = Rest
  BY <1>7 DEF Rest
<1>9. Follows(list', QHead, Rest)
  <2>1. \A m \in ToSet(Rest) \cup {QHead} : m # t /\ m \in Cell
    BY <1>4, <1>6, RestTypes
  <2>2. \A m \in Cell \ {t} : list'.next[m] = list.next[m] /\ list'.prev[m] = list.prev[m]
    BY <1>7 DEF TypeOK, ListMemory, ListInit
  <2> QED
    BY <1>4, <1>5, <2>1, <2>2, RestTypes, FollowsElsewhere
<1>10. OldestFirst'
  BY <1>3, <1>4, <1>7 DEF OldestFirst, Submitting, Adding
<1>a. UNCHANGED <<in_using, blockCount, device, order, wild>>
  BY <1>7
<1>11. \A u \in Task \ {t} : pc'[u] = "mark" => u \in ToSet(order')
  BY <1>2, <1>4, <1>7 DEF Own, Listed
<1> HIDE DEF MakeRequest, Store1, Store2, Store3, Store4
<1> QED
  BY <1>2, <1>5, <1>7, <1>8, <1>9, <1>10, <1>11, SoundAt DEF Listed

\* First store of list_add_before: the last node leads to the new one, which leads nowhere yet.
LEMMA SoundStore1 ==
  ASSUME TypeOK, TypeOK', Scheduled, Sound, Undisturbed', NEW t \in Task, Store1(t)
  PROVE  Sound'
<1> USE DEF Store1, sched
<1>1. "add2" \in Places
  BY DEF Places, Submitting, Adding
<1>2. /\ ~wild /\ pc[t] = "add1" /\ pc'[t] = "add2"
      /\ \A u \in Task \ {t} : pc'[u] = pc[u] /\ pc[u] \notin Submitting
  BY <1>1, StepAlone
<1>3. OldestFirst /\ ListFollows /\ Counted /\ Own /\ Given
  BY DEF Sound
<1>4. Follows(list, QHead, Rest) /\ blockCount = Len(Rest) /\ device = in_using
  BY <1>2, <1>3 DEF ListFollows, Counted, Given, Submitting, Adding
<1>5. /\ UNCHANGED <<in_using, blockCount, device, order, wild>>
      /\ list' = [list EXCEPT !.next[list.prev[QHead]] = t]
  OBVIOUS
<1>6. Rest' = Rest
  BY <1>5 DEF Rest
<1>7. HalfLinked(list', QHead, Rest, t)
  <2>1. /\ list \in ListMemory(Cell) /\ QHead \in Cell /\ t \in Cell
        /\ Rest \in Seq(Cell) /\ Follows(list, QHead, Rest)
    BY <1>3, <1>4, RestTypes DEF TypeOK
  <2> QED
    BY <1>5, <2>1, FirstStore
<1>8. OldestFirst'
  BY <1>2, <1>3, <1>5 DEF OldestFirst, Submitting, Adding
<1>9. \A u \in Task \ {t} : pc'[u] = "mark" => u \in ToSet(order')
  BY <1>2, <1>3, <1>5 DEF Own, Listed
<1> HIDE DEF MakeRequest, Store1, Store2, Store3, Store4
<1> QED
  BY <1>2, <1>4, <1>5, <1>6, <1>7, <1>8, <1>9, SoundAt DEF Listed

\* Second store: the new node's prev.
LEMMA SoundStore2 ==
  ASSUME TypeOK, TypeOK', Scheduled, Sound, Undisturbed', NEW t \in Task, Store2(t)
  PROVE  Sound'
<1> USE DEF Store2, sched
<1>1. "add3" \in Places
  BY DEF Places, Submitting, Adding
<1>2. /\ ~wild /\ pc[t] = "add2" /\ pc'[t] = "add3"
      /\ \A u \in Task \ {t} : pc'[u] = pc[u] /\ pc[u] \notin Submitting
  BY <1>1, StepAlone
<1>3. OldestFirst /\ ListFollows /\ Counted /\ Own /\ Given
  BY DEF Sound
<1>4. /\ HalfLinked(list, QHead, Rest, t)
      /\ blockCount = Len(Rest) /\ device = in_using
  BY <1>2, <1>3 DEF ListFollows, Counted, Given, Submitting, Adding
<1>5. /\ UNCHANGED <<in_using, blockCount, device, order, wild>>
      /\ list' = [list EXCEPT !.prev[t] = list.prev[QHead]]
  OBVIOUS
<1>6. Rest' = Rest
  BY <1>5 DEF Rest
<1>7. Follows(Completed(list', QHead, t, TRUE), QHead, Append(Rest, t))
  <2>1. t \notin ToSet(order)
    BY <1>2 DEF Scheduled, Listed
  <2>2. t \notin ToSet(Rest) /\ t # QHead
    BY <1>3, <2>1, RestTypes
  <2> QED
    BY <1>3, <1>4, <1>5, <2>2, RestTypes, SecondStore DEF TypeOK
<1>8. OldestFirst'
  BY <1>2, <1>3, <1>5 DEF OldestFirst, Submitting, Adding
<1>9. \A u \in Task \ {t} : pc'[u] = "mark" => u \in ToSet(order')
  BY <1>2, <1>3, <1>5 DEF Own, Listed
<1> HIDE DEF MakeRequest, Store1, Store2, Store3, Store4
<1> QED
  BY <1>2, <1>4, <1>5, <1>6, <1>7, <1>8, <1>9, SoundAt DEF Listed

\* Third store: the head's prev is the new node.
LEMMA SoundStore3 ==
  ASSUME TypeOK, TypeOK', Scheduled, Sound, Undisturbed', NEW t \in Task, Store3(t)
  PROVE  Sound'
<1> USE DEF Store3, sched
<1>1. "add4" \in Places
  BY DEF Places, Submitting, Adding
<1>2. /\ ~wild /\ pc[t] = "add3" /\ pc'[t] = "add4"
      /\ \A u \in Task \ {t} : pc'[u] = pc[u] /\ pc[u] \notin Submitting
  BY <1>1, StepAlone
<1>3. OldestFirst /\ ListFollows /\ Counted /\ Own /\ Given
  BY DEF Sound
<1>4. /\ Follows(Completed(list, QHead, t, TRUE), QHead, Append(Rest, t))
      /\ blockCount = Len(Rest) /\ device = in_using
  BY <1>2, <1>3 DEF ListFollows, Counted, Given, Submitting, Adding
<1>5. /\ UNCHANGED <<in_using, blockCount, device, order, wild>>
      /\ list' = [list EXCEPT !.prev[QHead] = t]
  OBVIOUS
<1>6. Rest' = Rest
  BY <1>5 DEF Rest
<1>7. Follows(Completed(list', QHead, t, FALSE), QHead, Append(Rest, t))
  BY <1>3, <1>4, <1>5, RestTypes, ThirdStore DEF TypeOK
<1>8. OldestFirst'
  BY <1>2, <1>3, <1>5 DEF OldestFirst, Submitting, Adding
<1>9. \A u \in Task \ {t} : pc'[u] = "mark" => u \in ToSet(order')
  BY <1>2, <1>3, <1>5 DEF Own, Listed
<1> HIDE DEF MakeRequest, Store1, Store2, Store3, Store4
<1> QED
  BY <1>2, <1>4, <1>5, <1>6, <1>7, <1>8, <1>9, SoundAt DEF Listed

\* Fourth store: the new node's next; the request is in the queue.
LEMMA SoundStore4 ==
  ASSUME TypeOK, TypeOK', Scheduled, Sound, Undisturbed', NEW t \in Task, Store4(t)
  PROVE  Sound'
<1> USE DEF Store4, sched
<1>1. "load" \in Places
  BY DEF Places, Submitting, Adding
<1>2. /\ ~wild /\ pc[t] = "add4" /\ pc'[t] = "load"
      /\ \A u \in Task \ {t} : pc'[u] = pc[u] /\ pc[u] \notin Submitting
  BY <1>1, StepAlone
<1>3. OldestFirst /\ ListFollows /\ Counted /\ Own /\ Given
  BY DEF Sound
<1>4. /\ Follows(Completed(list, QHead, t, FALSE), QHead, Append(Rest, t))
      /\ blockCount = Len(Rest) /\ device = in_using
  BY <1>2, <1>3 DEF ListFollows, Counted, Given, Submitting, Adding
<1>5. /\ UNCHANGED <<in_using, blockCount, device, wild>>
      /\ order' = Append(order, t)
      /\ list' = Completed(list, QHead, t, FALSE)
  BY DEF Completed
<1>6. order \in Seq(Task) /\ Rest \in Seq(Task)
  BY <1>3, RestTypes DEF TypeOK
<1>7. Rest' = Append(Rest, t)
  BY <1>3, <1>5, <1>6 DEF Rest, OldestFirst
<1>8. in_using = None => order = <<>>
  BY <1>2, <1>3 DEF OldestFirst, Submitting, Adding
<1>9. OldestFirst'
  <2>1. in_using = None => order' = <<t>>
    BY <1>5, <1>8
  <2>2. in_using # None => order' # <<>> /\ Head(order') = in_using
    BY <1>3, <1>5, <1>6 DEF OldestFirst
  <2> QED
    BY <1>2, <1>5, <2>1, <2>2 DEF OldestFirst
<1>10. ToSet(order') = ToSet(order) \cup {t}
  <2>1. t \notin ToSet(order)
    BY <1>2 DEF Scheduled, Listed
  <2> QED
    BY <1>5, <1>6, <2>1, AppendMembers DEF TypeOK
<1>11. \A u \in Task \ {t} : pc'[u] = "mark" => u \in ToSet(order')
  BY <1>2, <1>3, <1>10 DEF Own, Listed
<1>12. /\ blockCount' = Len(Rest') - 1
       /\ Rest' # <<>> /\ Rest'[Len(Rest')] = t
  BY <1>4, <1>5, <1>6, <1>7
<1> HIDE DEF MakeRequest, Store1, Store2, Store3, Store4
<1> QED
  BY <1>2, <1>4, <1>5, <1>7, <1>9, <1>10, <1>11, <1>12, SoundAt

-----------------------------------------------------------------------------
\* The two halves of block_request_count++, and the test for an idle disk.
LEMMA SoundLoadCount ==
  ASSUME TypeOK, TypeOK', Scheduled, Sound, Undisturbed', NEW t \in Task, LoadCount(t)
  PROVE  Sound'
<1> USE DEF LoadCount, queue, sched
<1>1. "store" \in Places
  BY DEF Places, Submitting, Adding
<1>2. /\ ~wild /\ pc[t] = "load" /\ pc'[t] = "store"
      /\ \A u \in Task \ {t} : pc'[u] = pc[u] /\ pc[u] \notin Submitting
  BY <1>1, StepAlone
<1>3. OldestFirst /\ ListFollows /\ Counted /\ Own /\ Given
  BY DEF Sound
<1>4. /\ Follows(list, QHead, Rest) /\ device = in_using
      /\ blockCount = Len(Rest) - 1 /\ Rest # <<>> /\ Rest[Len(Rest)] = t
      /\ t \in ToSet(order)
  BY <1>2, <1>3 DEF ListFollows, Counted, Given, Own, Submitting, Adding, Listed
<1>5. /\ UNCHANGED <<list, in_using, blockCount, device, order, wild>>
      /\ loaded' = [loaded EXCEPT ![t] = blockCount]
  OBVIOUS
<1>6. Rest' = Rest
  BY <1>5 DEF Rest
<1>7. loaded'[t] = blockCount
  BY <1>5 DEF TypeOK
<1>8. OldestFirst'
  BY <1>2, <1>3, <1>5 DEF OldestFirst, Submitting, Adding
<1>9. \A u \in Task \ {t} : pc'[u] = "mark" => u \in ToSet(order')
  BY <1>2, <1>3, <1>5 DEF Own, Listed
<1> HIDE DEF LoadCount
<1> QED
  BY <1>2, <1>4, <1>5, <1>6, <1>7, <1>8, <1>9, SoundAt

\* The counter is written back: it has counted the request.
LEMMA SoundStoreCount ==
  ASSUME TypeOK, TypeOK', Scheduled, Sound, Undisturbed', NEW t \in Task, StoreCount(t)
  PROVE  Sound'
<1> USE DEF StoreCount, queue, sched
<1>1. "check" \in Places
  BY DEF Places, Submitting, Adding
<1>2. /\ ~wild /\ pc[t] = "store" /\ pc'[t] = "check"
      /\ \A u \in Task \ {t} : pc'[u] = pc[u] /\ pc[u] \notin Submitting
  BY <1>1, StepAlone
<1>3. OldestFirst /\ ListFollows /\ Counted /\ Own /\ Given
  BY DEF Sound
<1>4. /\ Follows(list, QHead, Rest) /\ device = in_using
      /\ loaded[t] = Len(Rest) - 1 /\ t \in ToSet(order)
  BY <1>2, <1>3 DEF ListFollows, Counted, Given, Own, Submitting, Adding, Listed
<1>5. /\ UNCHANGED <<list, in_using, device, order, wild>>
      /\ blockCount' = loaded[t] + 1
  OBVIOUS
<1>6. Rest' = Rest
  BY <1>5 DEF Rest
<1>7. blockCount' = Len(Rest)
  BY <1>3, <1>4, <1>5, RestTypes
<1>8. OldestFirst'
  BY <1>2, <1>3, <1>5 DEF OldestFirst, Submitting, Adding
<1>9. \A u \in Task \ {t} : pc'[u] = "mark" => u \in ToSet(order')
  BY <1>2, <1>3, <1>5 DEF Own, Listed
<1> HIDE DEF StoreCount
<1> QED
  BY <1>2, <1>4, <1>5, <1>6, <1>7, <1>8, <1>9, SoundAt

\* submit looks whether a request is at the controller.
LEMMA SoundCheck ==
  ASSUME TypeOK, TypeOK', Scheduled, Sound, Undisturbed', NEW t \in Task, Check(t)
  PROVE  Sound'
<1> USE DEF Check, queue, sched
<1> DEFINE to == IF in_using = None THEN "pick" ELSE "mark"
<1>1. to \in Places
  BY DEF Places, Submitting, Adding
<1>2. /\ ~wild /\ pc[t] = "check" /\ pc'[t] = to
      /\ \A u \in Task \ {t} : pc'[u] = pc[u] /\ pc[u] \notin Submitting
  BY <1>1, StepAlone
<1>3. OldestFirst /\ ListFollows /\ Counted /\ Own /\ Given
  BY DEF Sound
<1>4. /\ Follows(list, QHead, Rest) /\ device = in_using
      /\ blockCount = Len(Rest) /\ t \in ToSet(order)
  BY <1>2, <1>3 DEF ListFollows, Counted, Given, Own, Submitting, Adding, Listed
<1>5. /\ UNCHANGED <<list, in_using, blockCount, device, order, wild>>
  OBVIOUS
<1>6. Rest' = Rest
  BY <1>5 DEF Rest
<1>7. OldestFirst'
  BY <1>2, <1>3, <1>5 DEF OldestFirst, Submitting, Adding
<1>8. \A u \in Task \ {t} : pc'[u] = "mark" => u \in ToSet(order')
  BY <1>2, <1>3, <1>5 DEF Own, Listed
<1>9. CASE in_using = None
  <2>1. pc'[t] = "pick" /\ in_using' = None
    BY <1>2, <1>5, <1>9
  <2> HIDE DEF Check
  <2> QED
    BY <1>2, <1>4, <1>5, <1>6, <1>7, <1>8, <2>1, SoundAt
<1>10. CASE in_using # None
  <2>1. pc'[t] = "mark"
    BY <1>2, <1>10
  <2> HIDE DEF Check
  <2> QED
    BY <1>2, <1>4, <1>5, <1>6, <1>7, <1>8, <2>1, SoundAt
<1> QED
  BY <1>9, <1>10

-----------------------------------------------------------------------------
\* cmd_out, called by the task that found the disk idle: its own request is the only
\* one.
LEMMA SoundPick ==
  ASSUME TypeOK, TypeOK', Scheduled, Sound, Undisturbed', NEW t \in Task, Pick(t)
  PROVE  Sound'
<1> USE DEF Pick, queue, sched
<1>1. "unlink" \in Places
  BY DEF Places, Submitting, Adding
<1>2. /\ ~wild /\ pc[t] = "pick" /\ pc'[t] = "unlink"
      /\ \A u \in Task \ {t} : pc'[u] = pc[u] /\ pc[u] \notin Submitting
  BY <1>1, StepAlone
<1>3. OldestFirst /\ ListFollows /\ Counted /\ Own /\ Given
  BY DEF Sound
<1>4. /\ Follows(list, QHead, Rest) /\ device = in_using
      /\ blockCount = Len(Rest) /\ t \in ToSet(order) /\ in_using = None
  BY <1>2, <1>3 DEF ListFollows, Counted, Given, Own, Submitting, Adding, Listed
<1>5. order # <<>>
  BY <1>4 DEF ToSet
<1>6. order = <<t>>
  BY <1>2, <1>3, <1>4, <1>5 DEF OldestFirst, Submitting, Adding
<1>7. Rest = <<t>>
  BY <1>4, <1>6 DEF Rest
<1>8. FirstRequest = t /\ t # QHead
  <2>1. Rest \in Seq(Cell) /\ QHead \in Cell /\ QHead \notin Task
    BY <1>3, RestTypes
  <2>2. Rest # <<>> /\ Follows(list, QHead, Rest)
    BY <1>4, <1>7
  <2>3. list.next[QHead] = Head(Rest)
    BY <2>1, <2>2, FollowsEnds
  <2> QED
    BY <1>7, <2>1, <2>3 DEF FirstRequest
<1>9. /\ UNCHANGED <<list, blockCount, device, order, wild>>
      /\ in_using' = t
  BY <1>8
<1>10. OldestFirst'
  BY <1>6, <1>9, DiskAssumption DEF OldestFirst
<1>11. \A u \in Task \ {t} : pc'[u] = "mark" => u \in ToSet(order')
  BY <1>2, <1>3, <1>9 DEF Own, Listed
<1>12. blockCount' = 1 /\ device' = None /\ order' = <<t>> /\ ~wild'
  BY <1>2, <1>4, <1>6, <1>7, <1>9
<1>13. Follows(list', QHead, <<t>>)
  BY <1>4, <1>7, <1>9
<1>14. t \in ToSet(order')
  BY <1>4, <1>9
<1> HIDE DEF Pick
<1> QED
  BY <1>2, <1>9, <1>10, <1>11, <1>12, <1>13, <1>14, SoundAt

\* cmd_out unlinks the request it has taken.
LEMMA SoundUnlink ==
  ASSUME TypeOK, TypeOK', Scheduled, Sound, Undisturbed', NEW t \in Task, Unlink(t)
  PROVE  Sound'
<1> USE DEF Unlink, queue, sched
<1>1. "uncount" \in Places
  BY DEF Places, Submitting, Adding
<1>2. /\ ~wild /\ pc[t] = "unlink" /\ pc'[t] = "uncount"
      /\ \A u \in Task \ {t} : pc'[u] = pc[u] /\ pc[u] \notin Submitting
  BY <1>1, StepAlone
<1>3. OldestFirst /\ ListFollows /\ Counted /\ Own /\ Given
  BY DEF Sound
<1>4. /\ Follows(list, QHead, <<t>>) /\ device = None
      /\ blockCount = 1 /\ order = <<t>> /\ in_using = t /\ t \in ToSet(order)
  BY <1>2, <1>3 DEF ListFollows, Counted, Given, Own, Submitting, Adding, Listed
<1>5. /\ UNCHANGED <<in_using, blockCount, device, order, wild>>
      /\ list' = ListDelete(list, t)
  BY <1>4, DiskAssumption
<1>6. Rest' = <<>>
  BY <1>4, <1>5, DiskAssumption DEF Rest
<1>7. Follows(list', QHead, <<>>)
  <2> DEFINE s == <<t>>
  <2>1. s \in Seq(Cell) /\ Len(s) = 1 /\ s[1] = t /\ QHead \in Cell
    BY <1>3, RestTypes
  <2>2. Distinct(QHead, s)
    BY DiskAssumption DEF Distinct, IsInjective, ToSet
  <2>3. RemoveAt(s, 1) = <<>>
    BY DEF RemoveAt
  <2>4. list \in ListMemory(Cell)
    BY DEF TypeOK
  <2>5. Follows(list, QHead, s)
    BY <1>4
  <2> HIDE DEF s
  <2>6. 1 \in 1 .. Len(s)
    BY <2>1
  <2>7. Follows(ListDelete(list, s[1]), QHead, RemoveAt(s, 1))
    BY <2>1, <2>2, <2>4, <2>5, <2>6, FollowsRemove
  <2> QED
    BY <1>5, <2>1, <2>3, <2>7
<1>8. OldestFirst'
  BY <1>4, <1>5, DiskAssumption DEF OldestFirst
<1>9. \A u \in Task \ {t} : pc'[u] = "mark" => u \in ToSet(order')
  BY <1>2, <1>3, <1>5 DEF Own, Listed
<1> HIDE DEF Unlink
<1> QED
  BY <1>2, <1>4, <1>5, <1>6, <1>7, <1>8, <1>9, SoundAt

\* cmd_out counts the request off.
LEMMA SoundUncount ==
  ASSUME TypeOK, TypeOK', Scheduled, Sound, Undisturbed', NEW t \in Task, Uncount(t)
  PROVE  Sound'
<1> USE DEF Uncount, queue, sched
<1>1. "issue" \in Places
  BY DEF Places, Submitting, Adding
<1>2. /\ ~wild /\ pc[t] = "uncount" /\ pc'[t] = "issue"
      /\ \A u \in Task \ {t} : pc'[u] = pc[u] /\ pc[u] \notin Submitting
  BY <1>1, StepAlone
<1>3. OldestFirst /\ ListFollows /\ Counted /\ Own /\ Given
  BY DEF Sound
<1>4. /\ Follows(list, QHead, Rest) /\ device = None
      /\ blockCount = 1 /\ order = <<t>> /\ in_using = t /\ t \in ToSet(order)
  BY <1>2, <1>3 DEF ListFollows, Counted, Given, Own, Submitting, Adding, Listed
<1>5. /\ UNCHANGED <<list, in_using, device, order, wild>> /\ blockCount' = 0
  BY <1>4
<1>6. Rest' = Rest /\ Rest = <<>>
  BY <1>4, <1>5, DiskAssumption DEF Rest
<1>7. OldestFirst'
  BY <1>4, <1>5, DiskAssumption DEF OldestFirst
<1>8. \A u \in Task \ {t} : pc'[u] = "mark" => u \in ToSet(order')
  BY <1>2, <1>3, <1>5 DEF Own, Listed
<1> HIDE DEF Uncount
<1> QED
  BY <1>2, <1>4, <1>5, <1>6, <1>7, <1>8, SoundAt

\* cmd_out hands the request to the controller.
LEMMA SoundIssue ==
  ASSUME TypeOK, TypeOK', Scheduled, Sound, Undisturbed', NEW t \in Task, Issue(t)
  PROVE  Sound'
<1> USE DEF Issue, queue, sched
<1>1. "mark" \in Places
  BY DEF Places, Submitting, Adding
<1>2. /\ ~wild /\ pc[t] = "issue" /\ pc'[t] = "mark"
      /\ \A u \in Task \ {t} : pc'[u] = pc[u] /\ pc[u] \notin Submitting
  BY <1>1, StepAlone
<1>3. OldestFirst /\ ListFollows /\ Counted /\ Own /\ Given
  BY DEF Sound
<1>4. /\ Follows(list, QHead, Rest)
      /\ blockCount = Len(Rest) /\ order = <<t>> /\ in_using = t /\ t \in ToSet(order)
  BY <1>2, <1>3 DEF ListFollows, Counted, Given, Own, Submitting, Adding, Listed
<1>5. /\ UNCHANGED <<list, in_using, blockCount, order, wild>> /\ device' = in_using
  OBVIOUS
<1>6. Rest' = Rest
  BY <1>5 DEF Rest
<1>7. OldestFirst'
  BY <1>4, <1>5, DiskAssumption DEF OldestFirst
<1>8. \A u \in Task \ {t} : pc'[u] = "mark" => u \in ToSet(order')
  BY <1>2, <1>3, <1>5 DEF Own, Listed
<1> HIDE DEF Issue
<1> QED
  BY <1>2, <1>4, <1>5, <1>6, <1>7, <1>8, SoundAt

-----------------------------------------------------------------------------
\* wait_for_finish, sched() and the sectors before the last leave the queue alone.
LEMMA SoundWait ==
  ASSUME TypeOK, TypeOK', Scheduled, Sound, Undisturbed', NEW t \in Task,
         Mark(t) \/ Sleep(t)
  PROVE  Sound'
<1> USE DEF Mark, Sleep, queue, sched
<1>1. PICK from \in {"mark", "sched"}, to \in {"sched", "out"} : Step(t, from, to)
  OBVIOUS
<1>2. /\ ~wild /\ pc[t] = from /\ pc'[t] = to
      /\ \A u \in Task \ {t} : pc'[u] = pc[u] /\ pc[u] \notin Submitting
  <2>1. to \in Places
    BY DEF Places
  <2> QED
    BY <1>1, <2>1, StepAlone
<1>3. OldestFirst /\ ListFollows /\ Counted /\ Own /\ Given
  BY DEF Sound
<1>4. /\ Follows(list, QHead, Rest) /\ blockCount = Len(Rest) /\ device = in_using
  BY <1>2, <1>3 DEF ListFollows, Counted, Given, Submitting, Adding
<1>5. /\ UNCHANGED <<list, in_using, blockCount, device, order, wild>>
  OBVIOUS
<1>6. Rest' = Rest
  BY <1>5 DEF Rest
<1>7. OldestFirst'
  BY <1>2, <1>3, <1>5 DEF OldestFirst, Submitting, Adding
<1>8. \A u \in Task \ {t} : pc'[u] = "mark" => u \in ToSet(order')
  BY <1>2, <1>3, <1>5 DEF Own, Listed
<1>9. /\ pc'[t] \notin {"add2", "add3", "add4", "unlink", "load", "store", "uncount",
                        "pick", "issue"}
      /\ pc'[t] \notin Listed
  BY <1>2 DEF Listed
<1> HIDE DEF Mark, Sleep
<1> QED
  BY <1>2, <1>4, <1>5, <1>6, <1>7, <1>8, <1>9, SoundAt

\* A step that leaves the driver's own memory alone leaves it sound.
LEMMA SoundElsewhere ==
  ASSUME Sound,
         UNCHANGED <<list, in_using, blockCount, device, pc, loaded, order, wild>>
  PROVE  Sound'
<1>1. Rest' = Rest
  BY DEF Rest
<1> QED
  BY <1>1 DEF Sound, OneSubmits, OldestFirst, ListFollows, Counted, Own, Given

-----------------------------------------------------------------------------
\* Where the interrupt that ends a request finds the tasks, if it comes in no wrong
\* place.
LEMMA EndRequestMeets ==
  ASSUME TypeOK, Scheduled, Sound, Undisturbed', EndRequest
  PROVE  /\ in_using \in Task /\ order # <<>> /\ in_using = Head(order)
         /\ Rest = Tail(order) /\ order' = Tail(order) /\ device = in_using
         /\ pc[in_using] \in {"sched", "out"}
         /\ \A u \in Task : pc[u] \notin {"add2", "store", "pick", "unlink", "uncount",
                                          "issue"}
<1> USE DEF EndRequest, queue, sched
<1>1. OldestFirst /\ Own /\ Given
  BY DEF Sound
<1>2. /\ in_using \in Task /\ order # <<>> /\ in_using = Head(order)
      /\ Rest = Tail(order)
  BY <1>1 DEF TypeOK, OldestFirst, Rest
<1>3. order' = Tail(order)
  BY <1>2, RemoveFirstHead DEF TypeOK
<1>4. pc[in_using] \in {"sched", "out"} /\ in_using \notin running
  <2>1. in_using \notin running
    BY <1>2 DEF Undisturbed, TypeOK
  <2>2. in_using \in ToSet(order)
    BY <1>2 DEF TypeOK, ToSet
  <2> QED
    BY <1>2, <2>1, <2>2 DEF Scheduled, Listed, Submitting, Adding
<1>5. \A u \in Task : pc[u] \notin {"pick", "unlink", "uncount", "issue"}
  BY <1>1, <1>2, <1>4, DiskAssumption DEF Own
<1>6. \A u \in Task : pc[u] \notin {"add2", "store"}
  <2> SUFFICES ASSUME NEW u \in Task, pc[u] \in {"add2", "store"} PROVE FALSE
    OBVIOUS
  <2>1. u \in running /\ pc[u] \in Adding /\ pc[u] \in Fragile
    BY DEF Scheduled, Submitting, Adding, Fragile
  <2>2. pc[u] \in Met
    BY <2>1 DEF Met
  <2>3. struck' \cap Fragile = {} /\ struck' = struck \cup (Met \cap Adding)
    BY DEF Undisturbed
  <2> QED
    BY <2>1, <2>2, <2>3
<1>7. device = in_using
  BY <1>1, <1>5 DEF Given
<1> QED
  BY <1>2, <1>3, <1>4, <1>5, <1>6, <1>7

\* ... and who submits, if anyone.
LEMMA SoundEndRequest ==
  ASSUME TypeOK, TypeOK', Scheduled, Sound, Undisturbed', EndRequest
  PROVE  Sound'
<1>1. /\ in_using \in Task /\ order # <<>> /\ in_using = Head(order)
      /\ Rest = Tail(order) /\ order' = Tail(order) /\ device = in_using
      /\ pc[in_using] \in {"sched", "out"}
      /\ \A u \in Task : pc[u] \notin {"add2", "store", "pick", "unlink", "uncount",
                                       "issue"}
  BY EndRequestMeets
<1>2. PICK t \in Task : \A u \in Task \ {t} : pc[u] \notin Submitting
  <2>1. OneSubmits
    BY DEF Sound
  <2>2. CASE \E t \in Task : pc[t] \in Submitting
    BY <2>1, <2>2 DEF OneSubmits
  <2>3. CASE ~\E t \in Task : pc[t] \in Submitting
    BY <1>1, <2>3
  <2> QED
    BY <2>2, <2>3
<1>3. /\ ~wild /\ OldestFirst /\ ListFollows /\ Counted /\ Own /\ Given
  BY DEF Sound
<1>4. order \in Seq(Task) /\ IsInjective(order) /\ Rest \in Seq(Task) /\ Rest \in Seq(Cell)
  BY <1>3, RestTypes DEF TypeOK
<1>5. pc' = pc /\ loaded' = loaded
  BY DEF EndRequest
<1>6. /\ pc[t] \notin {"add3", "add4"} => Follows(list, QHead, Rest)
      /\ pc[t] = "add3" =>
           Follows(Completed(list, QHead, t, TRUE), QHead, Append(Rest, t))
      /\ pc[t] = "add4" =>
           Follows(Completed(list, QHead, t, FALSE), QHead, Append(Rest, t))
  BY <1>1, <1>2, <1>3 DEF ListFollows, Submitting, Adding
<1>7. IF pc[t] = "load"
      THEN blockCount = Len(Rest) - 1 /\ Rest # <<>> /\ Rest[Len(Rest)] = t
      ELSE blockCount = Len(Rest)
  BY <1>1, <1>2, <1>3 DEF Counted, Own, Submitting, Adding
<1>8. ToSet(order') = ToSet(order) \ {in_using}
  BY <1>1, <1>4, RemoveFirstHead, RemoveFirstMembers
<1>9. \A u \in Task : pc'[u] \in Listed => u \in ToSet(order')
  BY <1>1, <1>3, <1>5, <1>8 DEF Own, Listed
<1>10. CASE blockCount = 0
  <2>1. /\ in_using' = None /\ device' = None
        /\ UNCHANGED <<list, blockCount, wild>>
    BY <1>10 DEF EndRequest
  <2>2. Rest' = Rest
    BY <1>1, <2>1 DEF Rest
  <2>3. OldestFirst'
    <3>1. CASE pc[t] = "load"
      <4>1. Len(Rest) = 1 /\ Rest[1] = t
        <5>1. Len(Rest) \in Nat /\ blockCount = Len(Rest) - 1 /\ Rest[Len(Rest)] = t
          BY <1>4, <1>7, <3>1
        <5>2. Len(Rest) = 1
          BY <1>10, <5>1
        <5> QED
          BY <5>1, <5>2
      <4>2. Rest = <<t>>
        BY <1>4, <4>1
      <4> QED
        BY <1>1, <1>5, <2>1, <3>1, <4>2 DEF OldestFirst
    <3>2. CASE pc[t] # "load"
      <4>1. Rest = <<>>
        BY <1>4, <1>7, <1>10, <3>2
      <4> QED
        BY <1>1, <2>1, <4>1 DEF OldestFirst
    <3> QED
      BY <3>1, <3>2
  <2>4. \A u \in Task \ {t} : pc'[u] \notin Submitting /\ (pc'[u] = "mark" => u \in ToSet(order'))
    BY <1>2, <1>5, <1>9 DEF Listed
  <2>5. pc'[t] = pc[t] /\ list' = list
    BY <1>5, <2>1
  <2>6. pc'[t] \notin {"add2", "store", "pick", "unlink", "uncount", "issue"}
    BY <1>1, <1>5
  <2>7. /\ pc'[t] \notin {"add2", "add3", "add4", "unlink"} => Follows(list', QHead, Rest')
        /\ pc'[t] = "add3" =>
             Follows(Completed(list', QHead, t, TRUE), QHead, Append(Rest', t))
        /\ pc'[t] = "add4" =>
             Follows(Completed(list', QHead, t, FALSE), QHead, Append(Rest', t))
    BY <1>6, <2>2, <2>5
  <2>8. IF pc'[t] \in {"load", "store"}
        THEN /\ blockCount' = Len(Rest') - 1
             /\ Rest' # <<>> /\ Rest'[Len(Rest')] = t
        ELSE blockCount' = Len(Rest')
    BY <1>7, <2>1, <2>2, <2>5, <2>6
  <2> QED
    BY <1>3, <1>9, <2>1, <2>3, <2>4, <2>6, <2>7, <2>8, SoundAt
<1>11. CASE blockCount # 0
  <2>1. Rest # <<>> /\ (pc[t] = "load" => Len(Rest) >= 2)
    <3>1. Len(Rest) \in Nat /\ (Rest = <<>> <=> Len(Rest) = 0)
      BY <1>4
    <3>2. CASE pc[t] = "load"
      <4>1. blockCount = Len(Rest) - 1 /\ Rest # <<>>
        BY <1>7, <3>2
      <4>2. Len(Rest) >= 2
        BY <1>11, <3>1, <4>1
      <4> QED
        BY <4>1, <4>2
    <3>3. CASE pc[t] # "load"
      BY <1>7, <1>11, <3>1, <3>3
    <3> QED
      BY <3>2, <3>3
  <2>2. /\ Distinct(QHead, Rest) /\ QHead \in Cell /\ t \in Cell /\ t # QHead
        /\ list \in ListMemory(Cell) /\ ToSet(Rest) \subseteq Task
        /\ ToSet(Rest) \subseteq ToSet(order)
    BY <1>3, RestTypes DEF TypeOK
  <2> DEFINE d == ListDelete(list, Head(Rest))
  <2>3. pc[t] \in {"add3", "add4"} => t \notin ToSet(Rest)
    BY <2>2 DEF Scheduled, Listed
  <2>4. /\ pc[t] \notin {"add3", "add4"} =>
             list.next[QHead] = Head(Rest) /\ Follows(d, QHead, Tail(Rest))
    <3> SUFFICES ASSUME pc[t] \notin {"add3", "add4"}
                 PROVE  list.next[QHead] = Head(Rest) /\ Follows(d, QHead, Tail(Rest))
      OBVIOUS
    <3>1. Follows(list, QHead, Rest) /\ 1 \in 1 .. Len(Rest) /\ Head(Rest) = Rest[1]
          /\ RemoveAt(Rest, 1) = Tail(Rest)
      BY <1>4, <1>6, <2>1 DEF RemoveAt
    <3>2. list.next[QHead] = Head(Rest)
      BY <1>4, <2>1, <2>2, <3>1, FollowsEnds
    <3>3. Follows(ListDelete(list, Rest[1]), QHead, RemoveAt(Rest, 1))
      BY <1>4, <2>2, <3>1, FollowsRemove
    <3> QED
      BY <3>1, <3>2, <3>3
  <2>5. ASSUME NEW both \in BOOLEAN, pc[t] = IF both THEN "add3" ELSE "add4"
        PROVE  /\ list.next[QHead] = Head(Rest)
               /\ Follows(Completed(d, QHead, t, both), QHead, Append(Tail(Rest), t))
    <3>1. t \notin ToSet(Rest)
      BY <2>3, <2>5
    <3>2. Follows(Completed(list, QHead, t, both), QHead, Append(Rest, t))
      <4>1. CASE both = TRUE
        BY <1>6, <2>5, <4>1
      <4>2. CASE both = FALSE
        BY <1>6, <2>5, <4>2
      <4> QED
        BY <4>1, <4>2
    <3> QED
      BY <1>4, <2>1, <2>2, <3>1, <3>2, DeleteCommutes
  <2>6. /\ pc[t] = "add3" =>
             /\ list.next[QHead] = Head(Rest)
             /\ Follows(Completed(d, QHead, t, TRUE), QHead, Append(Tail(Rest), t))
        /\ pc[t] = "add4" =>
             /\ list.next[QHead] = Head(Rest)
             /\ Follows(Completed(d, QHead, t, FALSE), QHead, Append(Tail(Rest), t))
    <3> HIDE DEF d
    <3>1. (TRUE \in BOOLEAN) /\ (FALSE \in BOOLEAN)
      OBVIOUS
    <3>2. ("add3" = IF TRUE THEN "add3" ELSE "add4")
          /\ ("add4" = IF FALSE THEN "add3" ELSE "add4")
      OBVIOUS
    <3> QED
      BY <2>5, <3>1, <3>2
  <2>7. /\ FirstRequest = Head(Rest) /\ Head(Rest) \in Task /\ Head(Rest) # QHead
    <3>1. list.next[QHead] = Head(Rest)
      BY <2>4, <2>6
    <3> QED
      BY <1>4, <2>1, <3>1, DiskAssumption DEF FirstRequest
  <2>8. /\ in_using' = Head(Rest) /\ device' = in_using' /\ wild' = wild
        /\ list' = d /\ blockCount' = blockCount - 1
    BY <1>11, <2>7 DEF EndRequest
  <2>9. Rest' = Tail(Rest)
    BY <1>1, <2>7, <2>8, DiskAssumption DEF Rest
  <2>10. OldestFirst'
    BY <1>1, <2>1, <2>7, <2>8, DiskAssumption DEF OldestFirst
  <2>11. \A u \in Task \ {t} : pc'[u] \notin Submitting /\ (pc'[u] = "mark" => u \in ToSet(order'))
    BY <1>2, <1>5, <1>9 DEF Listed
  <2>12. pc'[t] \notin {"add2", "store", "pick", "unlink", "uncount", "issue"}
    BY <1>1, <1>5
  <2>13. /\ pc'[t] \notin {"add2", "add3", "add4", "unlink"} => Follows(list', QHead, Rest')
         /\ pc'[t] = "add3" =>
              Follows(Completed(list', QHead, t, TRUE), QHead, Append(Rest', t))
         /\ pc'[t] = "add4" =>
              Follows(Completed(list', QHead, t, FALSE), QHead, Append(Rest', t))
    <3> HIDE DEF d
    <3> QED
      BY <1>5, <2>4, <2>5, <2>6, <2>8, <2>9
  <2>14. IF pc'[t] \in {"load", "store"}
         THEN /\ blockCount' = Len(Rest') - 1
              /\ Rest' # <<>> /\ Rest'[Len(Rest')] = t
         ELSE blockCount' = Len(Rest')
    <3>1. Len(Tail(Rest)) = Len(Rest) - 1 /\ Len(Rest) \in Nat
      BY <1>4, <2>1
    <3>2. Len(Rest) >= 2 =>
            Tail(Rest) # <<>> /\ Tail(Rest)[Len(Tail(Rest))] = Rest[Len(Rest)]
      <4> SUFFICES ASSUME Len(Rest) >= 2
                   PROVE  Tail(Rest) # <<>> /\ Tail(Rest)[Len(Tail(Rest))] = Rest[Len(Rest)]
        OBVIOUS
      <4>1. \A i \in 1 .. Len(Rest) - 1 : Tail(Rest)[i] = Rest[i + 1]
        BY <1>4, <2>1
      <4>2. Len(Rest) - 1 \in 1 .. Len(Rest) - 1 /\ (Len(Rest) - 1) + 1 = Len(Rest)
        BY <3>1
      <4>3. Len(Tail(Rest)) # 0
        BY <1>4, <2>1, <3>1
      <4> QED
        BY <3>1, <4>1, <4>2, <4>3
    <3>3. CASE pc[t] = "load"
      BY <1>5, <1>7, <2>1, <2>8, <2>9, <3>1, <3>2, <3>3
    <3>4. CASE pc[t] # "load"
      BY <1>5, <1>7, <2>8, <2>9, <2>12, <3>1, <3>4
    <3> QED
      BY <3>3, <3>4
  <2> QED
    BY <1>3, <1>9, <2>8, <2>10, <2>11, <2>12, <2>13, <2>14, SoundAt
<1> QED
  BY <1>10, <1>11

\* Every step of a task, of the controller and of the scheduler keeps the driver sound.
LEMMA SoundStep ==
  ASSUME TypeOK, TypeOK', Scheduled, Sound, Undisturbed', [Next]_vars
  PROVE  Sound'
<1>1. ASSUME NEW t \in Task, Transfer(t) PROVE Sound'
  BY <1>1, SoundStore1, SoundStore2, SoundStore3, SoundStore4, SoundLoadCount,
     SoundStoreCount, SoundCheck, SoundPick, SoundUnlink, SoundUncount, SoundIssue,
     SoundWait DEF Transfer, Submit
<1>2. CASE NextSector
  BY <1>2, SoundElsewhere DEF NextSector, queue, sched
<1>3. CASE Switch
  BY <1>3, SoundElsewhere DEF Switch, queue
<1>4. CASE UNCHANGED vars
  BY <1>4, SoundElsewhere DEF vars, queue
<1> QED
  BY <1>1, <1>2, <1>3, <1>4, SoundMakeRequest, SoundEndRequest DEF Next, Interrupt

-----------------------------------------------------------------------------
\* What the invariant says when no task is inside submit, or wherever.
LEMMA IInvSound == IInv => DiskSound
<1> SUFFICES ASSUME IInv PROVE DiskSound
  OBVIOUS
<1>1. TypeOK /\ (Undisturbed => Sound)
  BY DEF IInv
<1>2. NeverWild
  BY <1>1 DEF NeverWild, Sound
<1>3. ASSUME Undisturbed, NoSubmit
      PROVE  /\ WellLinked(list, Waiting \cup {QHead}, QHead)
             /\ blockCount = Cardinality(Waiting)
             /\ in_using = None => order = <<>>
             /\ device = in_using
  <2>1. OldestFirst /\ ListFollows /\ Counted /\ Own /\ Given
    BY <1>1, <1>3 DEF Sound
  <2>2. \A t \in Task : pc[t] \notin Submitting
    BY <1>3 DEF NoSubmit
  <2>3. Follows(list, QHead, Rest) /\ blockCount = Len(Rest) /\ device = in_using
    BY <2>1, <2>2 DEF ListFollows, Counted, Given, Submitting, Adding
  <2>4. in_using = None => order = <<>>
    BY <2>1, <2>2 DEF OldestFirst, Submitting, Adding
  <2>5. Waiting = ToSet(Rest)
    BY <1>1, <2>1, RestTypes DEF Waiting
  <2>6. WellLinked(list, ToSet(Rest) \cup {QHead}, QHead)
    BY <1>1, <2>1, <2>3, RestTypes, FollowsWellLinked DEF TypeOK
  <2>7. Cardinality(ToSet(Rest)) = Len(Rest)
    BY <1>1, <2>1, RestTypes, MembersCounted
  <2> QED
    BY <2>3, <2>4, <2>5, <2>6, <2>7
<1> QED
  BY <1>1, <1>2, <1>3 DEF DiskSound, QueueIntact

\* The list grows at its end and shrinks at its head.
LEMMA IInvServes ==
  ASSUME IInv, [Next]_vars, Len(order') < Len(order), Undisturbed'
  PROVE  order' = Tail(order)
<1>1. TypeOK /\ Scheduled /\ Sound
  BY StaysDisturbed DEF IInv
<1>2. order \in Seq(Task)
  BY <1>1 DEF TypeOK
<1>3. CASE EndRequest
  BY <1>1, <1>3, EndRequestMeets
<1>4. ASSUME NEW t \in Task, Store4(t) PROVE FALSE
  BY <1>2, <1>4 DEF Store4
<1>5. order' # order
  BY <1>2
<1> QED
  BY <1>3, <1>4, <1>5
     DEF Next, vars, Switch, Interrupt, NextSector, MakeRequest, Transfer, Submit,
         Store1, Store2, Store3, LoadCount, StoreCount, Check, Pick, Unlink, Uncount,
         Issue, Mark, Sleep

\* The inductive invariant holds in every reachable state.
LEMMA DiskInvariant == Spec => []IInv
<1>1. Init => IInv
  BY DiskInitially
<1>2. IInv /\ [Next]_vars => IInv'
  <2> SUFFICES ASSUME IInv, [Next]_vars PROVE IInv'
    OBVIOUS
  <2>1. TypeOK /\ Scheduled /\ TypeOK' /\ Scheduled'
    BY TypesStep DEF IInv
  <2>2. Undisturbed' => Sound'
    BY <2>1, StaysDisturbed, SoundStep DEF IInv
  <2> QED
    BY <2>1, <2>2 DEF IInv
<1> QED
  BY <1>1, <1>2, PTL DEF Spec

\* The list, the counter and the controller agree, whatever store of add_request or
\* cmd_out the disk's interrupt falls between (disk.c:14, 72, 205).
THEOREM DiskSoundAlways == Spec => []DiskSound
<1>1. IInv => DiskSound
  BY IInvSound
<1> QED
  BY <1>1, DiskInvariant, PTL

\* Requests are ended in the order of the calls (disk.c:13, 155).
THEOREM DiskServesInOrder == Spec => ServedInOrder
<1>1. IInv /\ [Next]_vars =>
        [Len(order') < Len(order) /\ Undisturbed' => order' = Tail(order)]_vars
  BY IInvServes
<1> QED
  BY <1>1, DiskInvariant, PTL DEF Spec, ServedInOrder
-----------------------------------------------------------------------------
\* Of the keyboard's: where its readers are, in this module's words.
KeyPlaces == {"out", "mark", "list", "sched", "compare", "take", "copy", "move", "load",
              "store", "fault", "tail", "count", "clear"}
KeyResets == {"tail", "count", "clear"}
KeyTaken == {"move", "load", "store"}   \* the codes are copied, the count is as before

\* The driver's type invariant, in this module's words.
KeysTyped ==
  /\ kb_head \in 0 .. Size /\ kb_tail \in Int /\ kb_count \in Int
  /\ kb_buf \in [0 .. Size - 1 -> 0 .. MaxTyped]
  /\ kb_waiters \in Seq(Reader) /\ IsInjective(kb_waiters)
  /\ kb_cpu \in Reader \cup {Idle} /\ kb_running \subseteq Reader
  /\ kb_pc \in [Reader -> KeyPlaces]
  /\ kb_want \in [Reader -> Wants \cup {0}]
  /\ kb_counter \in [Reader -> Int] /\ kb_loaded \in [Reader -> Int]
  /\ kb_typed \in 0 .. MaxTyped /\ kb_got \in Seq(0 .. MaxTyped)
  /\ kb_struck \subseteq KeyPlaces
  /\ kb_shared \in BOOLEAN /\ kb_early \in BOOLEAN

\* A task between two accesses to the ring is ready; one that is marked is not, and has the
\* CPU only as long as nothing takes it; one in the queue sleeps.
Inside(t) == kb_pc[t] \in KeyPlaces \ {"out", "list", "sched", "compare"}
Held ==
  /\ \A t \in Reader : Inside(t) => t \in kb_running
  /\ \A t \in Reader : kb_pc[t] = "list" => t \notin kb_running
  /\ kb_cpu \in Reader \ kb_running => kb_pc[kb_cpu] \in {"list", "sched"}
  /\ \A i \in DOMAIN kb_waiters :
       kb_waiters[i] \notin kb_running /\ kb_pc[kb_waiters[i]] \in {"sched", "compare"}

\* As long as it is calm one task at most is between two accesses.
KeyCalm == ~kb_shared /\ ~kb_early
OneInside == KeyCalm => \A t, u \in Reader : Inside(t) /\ Inside(u) => t = u

\* A reader has asked for something and has not been given more.
Asked ==
  \A t \in Reader :
    /\ kb_pc[t] \notin {"out"} \cup KeyResets => kb_want[t] > 0
    /\ kb_pc[t] \notin {"copy", "move", "load", "store", "fault"} => kb_counter[t] = 0
Fits ==
  KeyCalm /\ "take" \notin kb_struck =>
    \A t \in Reader : /\ kb_counter[t] <= kb_want[t]
                      /\ kb_pc[t] = "take" => kb_count < kb_want[t]

\* The count is what is typed and not copied, or less by what met the store of a count; it
\* falls behind while a reader is between its copy and its store.
Counts ==
  /\ (\A t \in Reader : kb_pc[t] \notin KeyResets \cup KeyTaken) =>
       /\ 0 <= kb_count /\ kb_count <= kb_typed - Len(kb_got)
       /\ "store" \notin kb_struck => kb_count = kb_typed - Len(kb_got)
  /\ \A t \in Reader :
       /\ kb_pc[t] \in KeyTaken =>
            /\ 0 <= kb_counter[t] /\ kb_counter[t] <= kb_count
            /\ kb_count <= kb_typed - Len(kb_got) + kb_counter[t]
            /\ "store" \notin kb_struck =>
                 kb_count = kb_typed - Len(kb_got) + kb_counter[t]
       /\ kb_pc[t] = "copy" => 0 <= kb_counter[t] /\ kb_counter[t] <= kb_count
       /\ kb_pc[t] = "store" =>
            /\ kb_counter[t] <= kb_loaded[t] /\ kb_loaded[t] <= kb_count
            /\ "store" \notin kb_struck => kb_loaded[t] = kb_count
       /\ kb_pc[t] \in KeyResets => kb_head = 0 /\ kb_typed = 0 /\ kb_got = <<>>
       /\ kb_pc[t] \in {"count", "clear"} => kb_tail = 0
       /\ kb_pc[t] = "clear" => kb_count = 0

\* Before the ring is full for the first time its pointers and its bytes are those of a
\* queue without end.
Laid ==
  kb_typed <= Size =>
    /\ kb_head = kb_typed /\ \A i \in 0 .. Size - 1 : i < kb_typed => kb_buf[i] = i + 1
    /\ \A i \in DOMAIN kb_got : kb_got[i] = i
    /\ (\A t \in Reader : kb_pc[t] \notin {"tail", "move"}) => kb_tail = Len(kb_got)
    /\ \A t \in Reader : kb_pc[t] = "move" => kb_tail = Len(kb_got) - kb_counter[t]
KeyRing == KeyCalm /\ kb_struck \cap KeyResets = {} => Counts /\ Laid

\* A task that goes to sleep has seen no codes; while any sleeps, the codes there are are
\* those that the one awake is about to take, or two are awake and it will not stay calm.
Falls(t) ==
  \/ kb_pc[t] \in {"mark", "tail", "count", "fault"}
  \/ kb_pc[t] \in {"sched", "compare", "take"} /\ kb_count <= 1
  \/ kb_pc[t] \in {"copy", "move", "load"} /\ kb_count <= kb_counter[t]
  \/ kb_pc[t] = "store" /\ kb_loaded[t] <= kb_counter[t]
  \/ kb_pc[t] = "clear" /\ kb_count <= 0
Awake(t) == t \in kb_running /\ kb_pc[t] # "out"
Sleeping ==
  KeyCalm /\ kb_struck \cap {"mark", "list"} = {} =>
    /\ \A t \in Reader :
         kb_pc[t] = "mark" \/ (kb_pc[t] = "list" /\ kb_cpu = t) => kb_count <= 0
    /\ kb_waiters # <<>> =>
         \/ \E t, u \in Reader : t # u /\ Awake(t) /\ Awake(u)
         \/ (\A t \in Reader : ~Awake(t)) /\ kb_count <= 0
         \/ \E t \in Reader : Awake(t) /\ Falls(t)

KeysIInv == KeysTyped /\ Held /\ OneInside /\ Asked /\ Fits /\ KeyRing /\ Sleeping
-----------------------------------------------------------------------------
\* The assumption in plain words.
LEMMA RingConstants ==
  Idle \notin Reader /\ Size \in Nat \ {0} /\ MaxTyped \in Nat /\ Wants \subseteq Nat \ {0}
BY RingAssumption DEF Keys!KeyboardAssumption

\* KeysTyped is the module's own TypeOK, with the instance's operators written out.
LEMMA KeyTypes == Keys!TypeOK <=> KeysTyped
BY DEF Keys!TypeOK, KeysTyped, Keys!IsInjective, IsInjective, Keys!Places, Keys!Resetting,
       KeyPlaces

\* The ring is empty and nobody reads at the start.
LEMMA KeysBegin ==
  ASSUME Keys!Init
  PROVE  KeysIInv
<1>1. /\ kb_head = 0 /\ kb_tail = 0 /\ kb_count = 0 /\ kb_waiters = <<>>
      /\ kb_cpu = Idle /\ kb_running = Reader /\ kb_typed = 0 /\ kb_got = <<>>
      /\ kb_struck = {} /\ kb_shared = FALSE /\ kb_early = FALSE
      /\ kb_buf \in [0 .. Size - 1 -> 0 .. MaxTyped]
  BY RingConstants DEF Keys!Init, Keys!Empty
<1>2. /\ kb_pc \in [Reader -> KeyPlaces] /\ \A t \in Reader : kb_pc[t] = "out"
  BY DEF Keys!Init, KeyPlaces
<1>3. /\ kb_want \in [Reader -> Wants \cup {0}]
      /\ kb_counter \in [Reader -> Int] /\ kb_loaded \in [Reader -> Int]
      /\ \A t \in Reader : kb_want[t] = 0 /\ kb_counter[t] = 0
  BY DEF Keys!Init, Keys!Zero
<1>4. KeysTyped
  <2>1. kb_waiters \in Seq(Reader) /\ IsInjective(kb_waiters) /\ kb_got \in Seq(0 .. MaxTyped)
    BY <1>1 DEF IsInjective
  <2>2. kb_head \in 0 .. Size /\ kb_tail \in Int /\ kb_count \in Int /\ kb_typed \in 0 .. MaxTyped
    BY <1>1, RingConstants
  <2> QED
    BY <1>1, <1>2, <1>3, <2>1, <2>2 DEF KeysTyped
<1>5. Held /\ OneInside
  BY <1>1, <1>2, RingConstants DEF Held, OneInside, Inside
<1>6. Asked /\ Fits
  BY <1>2, <1>3 DEF Asked, Fits
<1>7. KeyRing
  <2>1. Len(kb_got) = 0 /\ DOMAIN kb_got = {}
    BY <1>1
  <2>2. \A t \in Reader : kb_pc[t] \notin {"tail", "count", "clear", "move", "load", "store", "copy"}
    BY <1>2
  <2>3. Counts
    <3>1. /\ 0 <= kb_count /\ kb_count <= kb_typed - Len(kb_got)
          /\ kb_count = kb_typed - Len(kb_got)
      <4>1. kb_count = 0 /\ kb_typed = 0
        BY <1>1
      <4> QED
        BY <2>1, <4>1
    <3> QED
      BY <2>2, <3>1 DEF Counts, KeyTaken, KeyResets
  <2>4. Laid
    BY <1>1, <2>1, <2>2, RingConstants DEF Laid
  <2> QED
    BY <2>3, <2>4 DEF KeyRing
<1>8. Sleeping
  BY <1>1, <1>2 DEF Sleeping
<1> QED
  BY <1>4, <1>5, <1>6, <1>7, <1>8 DEF KeysIInv

\* A step of task t in the driver: where it goes, and who else is there when it stays calm.
Goes(t, from, to) ==
  /\ kb_cpu = t /\ kb_pc[t] = from /\ kb_pc'[t] = to
  /\ \A u \in Reader : u # t => kb_pc'[u] = kb_pc[u]
  /\ kb_pc' \in [Reader -> KeyPlaces] /\ kb_shared' \in BOOLEAN
  /\ ~kb_shared' => ~kb_shared /\ \A u \in kb_running : u # t => kb_pc[u] = "out"

\* A Step of a task changes its place and nothing of the others'.
LEMMA StepGoes ==
  ASSUME KeysTyped, NEW t \in Reader, NEW from, NEW to \in KeyPlaces, Keys!Step(t, from, to)
  PROVE  Goes(t, from, to)
<1>1. /\ kb_cpu = t /\ kb_pc[t] = from /\ kb_pc' = [kb_pc EXCEPT ![t] = to]
      /\ kb_shared' = (kb_shared \/ \E u \in kb_running \ {t} : kb_pc[u] # "out")
  BY DEF Keys!Step
<1>2. /\ kb_pc'[t] = to /\ \A u \in Reader : u # t => kb_pc'[u] = kb_pc[u]
      /\ kb_pc' \in [Reader -> KeyPlaces]
  BY <1>1 DEF KeysTyped
<1>3. kb_shared' \in BOOLEAN
  BY <1>1 DEF KeysTyped
<1> QED
  BY <1>1, <1>2, <1>3 DEF Goes
-----------------------------------------------------------------------------
\* A step between two accesses: the others are outside, or it does not stay calm.
LEMMA AtWork ==
  ASSUME KeysIInv, NEW t \in Reader, NEW from, from \in KeyPlaces \ {"list", "sched"},
         NEW to, to \in KeyPlaces \ {"list", "sched"}, Goes(t, from, to),
         UNCHANGED <<kb_waiters, kb_cpu, kb_running, kb_early>>
  PROVE  /\ Held' /\ OneInside' /\ t \in kb_running
         /\ KeyCalm' => /\ KeyCalm
                        /\ \A u \in Reader : u # t => /\ ~Inside(u) /\ ~Inside(u)'
                                                      /\ ~Awake(u) /\ ~Awake(u)'
<1>1. t \in kb_running
  BY DEF KeysIInv, Held, Goes
<1>2. Held'
  <2>1. \A i \in DOMAIN kb_waiters : kb_waiters[i] \in Reader /\ kb_waiters[i] # t
    BY <1>1 DEF KeysIInv, KeysTyped, Held
  <2> QED
    BY <1>1, <2>1 DEF KeysIInv, Held, Goes, Inside
<1>3. KeyCalm' => /\ KeyCalm
                  /\ \A u \in Reader : u # t => /\ ~Inside(u) /\ ~Inside(u)'
                                                /\ ~Awake(u) /\ ~Awake(u)'
  BY DEF KeysIInv, Held, Goes, Inside, Awake, KeyCalm
<1>4. OneInside'
  BY <1>3 DEF OneInside
<1> QED
  BY <1>1, <1>2, <1>3, <1>4

\* What a task in the driver knows of the sleepers ...
LEMMA SleptSoFar ==
  ASSUME KeysIInv, NEW t \in Reader, t \in kb_running,
         KeyCalm, \A u \in Reader : u # t => ~Awake(u),
         kb_struck \cap {"mark", "list"} = {}
  PROVE  /\ kb_pc[t] = "mark" => kb_count <= 0
         /\ kb_waiters # <<>> => IF kb_pc[t] = "out" THEN kb_count <= 0 ELSE Falls(t)
<1>1. Awake(t) <=> kb_pc[t] # "out"
  BY DEF Awake
<1>2. kb_pc[t] = "mark" => kb_count <= 0
  BY DEF KeysIInv, Sleeping
<1>3. ASSUME kb_waiters # <<>>
      PROVE  IF kb_pc[t] = "out" THEN kb_count <= 0 ELSE Falls(t)
  <2>1. \/ (\A u \in Reader : ~Awake(u)) /\ kb_count <= 0
        \/ \E u \in Reader : Awake(u) /\ Falls(u)
    BY <1>3 DEF KeysIInv, Sleeping
  <2> QED
    BY <1>1, <2>1
<1> QED
  BY <1>2, <1>3

\* ... and has to see to.
LEMMA SleepsOn ==
  ASSUME KeysIInv, NEW t \in Reader, NEW from, from \in KeyPlaces \ {"list", "sched"},
         NEW to, to \in KeyPlaces \ {"list", "sched"}, Goes(t, from, to),
         UNCHANGED <<kb_waiters, kb_cpu, kb_running, kb_early>>,
         KeyCalm' /\ kb_struck' \cap {"mark", "list"} = {} =>
           /\ to = "mark" => kb_count' <= 0
           /\ kb_waiters # <<>> => IF to = "out" THEN kb_count' <= 0 ELSE Falls(t)'
  PROVE  Sleeping'
<1> SUFFICES ASSUME KeyCalm', kb_struck' \cap {"mark", "list"} = {} PROVE Sleeping'
  BY DEF Sleeping
<1>1. /\ t \in kb_running
      /\ \A u \in Reader : u # t => ~Inside(u)' /\ ~Awake(u)'
  BY AtWork
<1>2. ASSUME NEW u \in Reader, kb_pc'[u] = "mark" \/ (kb_pc'[u] = "list" /\ kb_cpu' = u)
      PROVE  kb_count' <= 0
  <2>1. u = t
    BY <1>1, <1>2 DEF Inside, KeyPlaces, Goes
  <2> QED
    BY <1>2, <2>1 DEF Goes
<1>3. ASSUME kb_waiters' # <<>>
      PROVE  \/ (\A u \in Reader : ~Awake(u)') /\ kb_count' <= 0
             \/ \E u \in Reader : Awake(u)' /\ Falls(u)'
  <2>1. CASE to = "out"
    <3>1. ~Awake(t)'
      BY <2>1 DEF Goes, Awake
    <3> QED
      BY <1>1, <1>3, <2>1, <3>1
  <2>2. CASE to # "out"
    <3>1. Awake(t)' /\ Falls(t)'
      BY <1>1, <1>3, <2>2 DEF Goes, Awake
    <3> QED
      BY <3>1
  <2> QED
    BY <2>1, <2>2
<1> QED
  BY <1>2, <1>3 DEF Sleeping

\* keyboard_read begins.
LEMMA ReadKeeps ==
  ASSUME KeysIInv, NEW t \in Reader, Keys!Read(t)
  PROVE  KeysIInv'
<1> DEFINE to == IF kb_count = 0 THEN "mark" ELSE "compare"
<1>1. /\ Goes(t, "out", to) /\ to \in KeyPlaces \ {"list", "sched"}
      /\ "out" \in KeyPlaces \ {"list", "sched"}
  BY StepGoes DEF KeysIInv, Keys!Read, KeyPlaces
<1>2. UNCHANGED <<kb_head, kb_tail, kb_count, kb_buf, kb_waiters, kb_cpu, kb_running,
                  kb_counter, kb_loaded, kb_typed, kb_got, kb_struck, kb_early>>
  BY DEF Keys!Read, Keys!ring
<1>3. PICK n \in Wants : kb_want' = [kb_want EXCEPT ![t] = n]
  BY DEF Keys!Read
<1>4. /\ Held' /\ OneInside' /\ t \in kb_running
      /\ KeyCalm' => /\ KeyCalm
                     /\ \A u \in Reader : u # t => /\ ~Inside(u) /\ ~Inside(u)'
                                                   /\ ~Awake(u) /\ ~Awake(u)'
  BY <1>1, <1>2, AtWork
<1> HIDE DEF to
<1>5. /\ kb_want' \in [Reader -> Wants \cup {0}] /\ kb_want'[t] > 0
      /\ kb_want'[t] \in Nat
      /\ \A u \in Reader : u # t => kb_want'[u] = kb_want[u]
  BY <1>3, RingConstants DEF KeysIInv, KeysTyped
<1>6. KeysTyped'
  BY <1>1, <1>2, <1>5 DEF KeysIInv, KeysTyped, Goes
<1>7. Asked'
  BY <1>1, <1>2, <1>5 DEF KeysIInv, Asked, Goes, to, KeyResets
<1>8. Fits'
  <2>1. \A u \in Reader : u # t /\ kb_pc'[u] = "take" => kb_pc[u] = "take"
    BY <1>1 DEF Goes
  <2>2. kb_pc'[t] # "take" /\ kb_counter[t] = 0
    BY <1>1 DEF KeysIInv, Asked, Goes, to
  <2>3. KeyCalm' => KeyCalm
    BY <1>4
  <2> QED
    BY <1>2, <1>5, <2>1, <2>2, <2>3 DEF KeysIInv, Fits
<1>9. KeyRing'
  <2>1. kb_pc[t] = "out" /\ kb_pc'[t] \in {"mark", "compare"}
        /\ \A u \in Reader : u # t => kb_pc'[u] = kb_pc[u]
    BY <1>1 DEF Goes, to
  <2>2. KeyCalm' => KeyCalm
    BY <1>4
  <2>3. Counts => Counts'
    BY <1>2, <2>1 DEF Counts, KeyResets, KeyTaken
  <2>4. Laid => Laid'
    BY <1>2, <2>1 DEF Laid
  <2> QED
    BY <1>2, <2>2, <2>3, <2>4 DEF KeysIInv, KeyRing
<1>10. Sleeping'
  <2>1. ASSUME KeyCalm', kb_struck' \cap {"mark", "list"} = {}
        PROVE  /\ to = "mark" => kb_count' <= 0
               /\ kb_waiters # <<>> => IF to = "out" THEN kb_count' <= 0 ELSE Falls(t)'
    <3>1. kb_waiters # <<>> => kb_count <= 0
      BY <1>1, <1>2, <1>4, <2>1, SleptSoFar DEF Goes
    <3>2. kb_count \in Int
      BY DEF KeysIInv, KeysTyped
    <3> QED
      BY <1>1, <1>2, <3>1, <3>2 DEF to, Falls, Goes
  <2> QED
    BY <1>1, <1>2, <2>1, SleepsOn
<1> QED
  BY <1>4, <1>6, <1>7, <1>8, <1>9, <1>10 DEF KeysIInv

\* The two loads of keyboard.c:143.
LEMMA CompareKeeps ==
  ASSUME KeysIInv, NEW t \in Reader, Keys!Compare(t)
  PROVE  KeysIInv'
<1> DEFINE enough == kb_count < 0 \/ kb_count >= kb_want[t]
           to == IF enough THEN "copy" ELSE "take"
<1>1. /\ Goes(t, "compare", to) /\ to \in KeyPlaces \ {"list", "sched"}
      /\ "compare" \in KeyPlaces \ {"list", "sched"}
  BY StepGoes DEF KeysIInv, Keys!Compare, Keys!Enough, KeyPlaces
<1>2. /\ UNCHANGED <<kb_head, kb_tail, kb_count, kb_buf, kb_waiters, kb_cpu, kb_running,
                     kb_want, kb_loaded, kb_typed, kb_got, kb_struck, kb_early>>
      /\ kb_counter' = [kb_counter EXCEPT ![t] = IF enough THEN kb_want[t] ELSE 0]
  BY DEF Keys!Compare, Keys!ring, Keys!Enough
<1>3. /\ Held' /\ OneInside' /\ t \in kb_running
      /\ KeyCalm' => /\ KeyCalm
                     /\ \A u \in Reader : u # t => /\ ~Inside(u) /\ ~Inside(u)'
                                                   /\ ~Awake(u) /\ ~Awake(u)'
  BY <1>1, <1>2, AtWork
<1>4. /\ kb_pc[t] = "compare" /\ kb_pc'[t] = to
      /\ \A u \in Reader : u # t => kb_pc'[u] = kb_pc[u]
  BY <1>1 DEF Goes
<1>5. /\ kb_want[t] \in Nat /\ kb_want[t] > 0 /\ kb_count \in Int
      /\ kb_counter' \in [Reader -> Int]
      /\ kb_counter'[t] = IF enough THEN kb_want[t] ELSE 0
      /\ \A u \in Reader : u # t => kb_counter'[u] = kb_counter[u]
  <2>1. kb_want[t] \in Wants \cup {0} /\ kb_count \in Int /\ kb_counter \in [Reader -> Int]
    BY DEF KeysIInv, KeysTyped
  <2>2. kb_want[t] > 0
    BY <1>4 DEF KeysIInv, Asked, KeyResets
  <2>3. kb_want[t] \in Nat
    <3>1. CASE kb_want[t] = 0
      BY <3>1
    <3>2. CASE kb_want[t] \in Wants
      BY <3>2, RingConstants
    <3> QED
      BY <2>1, <3>1, <3>2
  <2> QED
    BY <1>2, <2>1, <2>2, <2>3
<1>6. KeysTyped'
  BY <1>1, <1>2, <1>5 DEF KeysIInv, KeysTyped, Goes
<1>7. Asked'
  BY <1>2, <1>4, <1>5 DEF KeysIInv, Asked, KeyResets
<1>8. Fits'
  BY <1>2, <1>3, <1>4, <1>5 DEF KeysIInv, Fits
<1>9. KeyRing'
  <2>1. SUFFICES ASSUME KeyCalm', kb_struck \cap KeyResets = {} PROVE Counts' /\ Laid'
    BY <1>2 DEF KeyRing
  <2>2. Counts /\ Laid /\ KeyCalm
    BY <1>3, <2>1 DEF KeysIInv, KeyRing
  <2>3. \A u \in Reader : u # t => kb_pc[u] \in {"out", "list", "sched", "compare"}
    BY <1>3, <2>1 DEF Inside, KeysIInv, KeysTyped
  <2>4. 0 <= kb_count
    BY <1>4, <2>2, <2>3 DEF Counts, KeyResets, KeyTaken
  <2>5. Counts'
    BY <1>2, <1>4, <1>5, <2>2, <2>3, <2>4 DEF Counts, KeyResets, KeyTaken
  <2>6. Laid'
    BY <1>2, <1>4, <2>2, <2>3 DEF Laid
  <2> QED
    BY <2>5, <2>6
<1>10. Sleeping'
  <2>1. ASSUME KeyCalm', kb_struck' \cap {"mark", "list"} = {}
        PROVE  /\ to = "mark" => kb_count' <= 0
               /\ kb_waiters # <<>> => IF to = "out" THEN kb_count' <= 0 ELSE Falls(t)'
    <3>1. kb_waiters # <<>> => kb_count <= 1
      BY <1>2, <1>3, <1>4, <2>1, SleptSoFar DEF Falls
    <3> QED
      BY <1>2, <1>4, <1>5, <3>1 DEF Falls
  <2> HIDE DEF to
  <2> QED
    BY <1>1, <1>2, <2>1, SleepsOn
<1> QED
  BY <1>3, <1>6, <1>7, <1>8, <1>9, <1>10 DEF KeysIInv

\* The same line reads the count again.
LEMMA TakeKeeps ==
  ASSUME KeysIInv, NEW t \in Reader, Keys!Take(t)
  PROVE  KeysIInv'
<1>1. /\ Goes(t, "take", "copy") /\ "copy" \in KeyPlaces \ {"list", "sched"}
      /\ "take" \in KeyPlaces \ {"list", "sched"}
  BY StepGoes DEF KeysIInv, Keys!Take, KeyPlaces
<1>2. /\ UNCHANGED <<kb_head, kb_tail, kb_count, kb_buf, kb_waiters, kb_cpu, kb_running,
                     kb_want, kb_loaded, kb_typed, kb_got, kb_struck, kb_early>>
      /\ kb_counter' = [kb_counter EXCEPT ![t] = kb_count]
  BY DEF Keys!Take, Keys!ring
<1>3. /\ Held' /\ OneInside' /\ t \in kb_running
      /\ KeyCalm' => /\ KeyCalm
                     /\ \A u \in Reader : u # t => /\ ~Inside(u) /\ ~Inside(u)'
                                                   /\ ~Awake(u) /\ ~Awake(u)'
  BY <1>1, <1>2, AtWork
<1>4. /\ kb_pc[t] = "take" /\ kb_pc'[t] = "copy"
      /\ \A u \in Reader : u # t => kb_pc'[u] = kb_pc[u]
  BY <1>1 DEF Goes
<1>5. /\ kb_want[t] \in Nat /\ kb_count \in Int
      /\ kb_counter' \in [Reader -> Int] /\ kb_counter'[t] = kb_count
      /\ \A u \in Reader : u # t => kb_counter'[u] = kb_counter[u]
  <2>1. kb_want[t] \in Wants \cup {0} /\ kb_count \in Int /\ kb_counter \in [Reader -> Int]
    BY DEF KeysIInv, KeysTyped
  <2>2. kb_want[t] \in Nat
    <3>1. CASE kb_want[t] = 0
      BY <3>1
    <3>2. CASE kb_want[t] \in Wants
      BY <3>2, RingConstants
    <3> QED
      BY <2>1, <3>1, <3>2
  <2> QED
    BY <1>2, <2>1, <2>2
<1>6. KeysTyped'
  BY <1>1, <1>2, <1>5 DEF KeysIInv, KeysTyped, Goes
<1>7. Asked'
  BY <1>2, <1>4, <1>5 DEF KeysIInv, Asked, KeyResets
<1>8. Fits'
  BY <1>2, <1>3, <1>4, <1>5 DEF KeysIInv, Fits
<1>9. KeyRing'
  <2>1. SUFFICES ASSUME KeyCalm', kb_struck \cap KeyResets = {} PROVE Counts' /\ Laid'
    BY <1>2 DEF KeyRing
  <2>2. Counts /\ Laid /\ KeyCalm
    BY <1>3, <2>1 DEF KeysIInv, KeyRing
  <2>3. \A u \in Reader : u # t => kb_pc[u] \in {"out", "list", "sched", "compare"}
    BY <1>3, <2>1 DEF Inside, KeysIInv, KeysTyped
  <2>4. 0 <= kb_count
    BY <1>4, <2>2, <2>3 DEF Counts, KeyResets, KeyTaken
  <2>5. Counts'
    BY <1>2, <1>4, <1>5, <2>2, <2>3, <2>4 DEF Counts, KeyResets, KeyTaken
  <2>6. Laid'
    BY <1>2, <1>4, <2>2, <2>3 DEF Laid
  <2> QED
    BY <2>5, <2>6
<1>10. Sleeping'
  <2>1. Falls(t)'
    BY <1>2, <1>4, <1>5 DEF Falls
  <2> QED
    BY <1>1, <1>2, <2>1, SleepsOn
<1> QED
  BY <1>3, <1>6, <1>7, <1>8, <1>9, <1>10 DEF KeysIInv

\* The load of the count before it is stored.
LEMMA LoadKeeps ==
  ASSUME KeysIInv, NEW t \in Reader, Keys!Load(t)
  PROVE  KeysIInv'
<1>1. /\ Goes(t, "load", "store") /\ "store" \in KeyPlaces \ {"list", "sched"}
      /\ "load" \in KeyPlaces \ {"list", "sched"}
  BY StepGoes DEF KeysIInv, Keys!Load, KeyPlaces
<1>2. /\ UNCHANGED <<kb_head, kb_tail, kb_count, kb_buf, kb_waiters, kb_cpu, kb_running,
                     kb_want, kb_counter, kb_typed, kb_got, kb_struck, kb_early>>
      /\ kb_loaded' = [kb_loaded EXCEPT ![t] = kb_count]
  BY DEF Keys!Load, Keys!ring
<1>3. /\ Held' /\ OneInside' /\ t \in kb_running
      /\ KeyCalm' => /\ KeyCalm
                     /\ \A u \in Reader : u # t => /\ ~Inside(u) /\ ~Inside(u)'
                                                   /\ ~Awake(u) /\ ~Awake(u)'
  BY <1>1, <1>2, AtWork
<1>4. /\ kb_pc[t] = "load" /\ kb_pc'[t] = "store"
      /\ \A u \in Reader : u # t => kb_pc'[u] = kb_pc[u]
  BY <1>1 DEF Goes
<1>5. /\ kb_count \in Int /\ kb_counter[t] \in Int
      /\ kb_loaded' \in [Reader -> Int] /\ kb_loaded'[t] = kb_count
  BY <1>2 DEF KeysIInv, KeysTyped
<1>6. KeysTyped'
  BY <1>1, <1>2, <1>5 DEF KeysIInv, KeysTyped, Goes
<1>7. Asked'
  BY <1>2, <1>4 DEF KeysIInv, Asked, KeyResets
<1>8. Fits'
  BY <1>2, <1>3, <1>4 DEF KeysIInv, Fits
<1>9. KeyRing'
  <2>1. SUFFICES ASSUME KeyCalm', kb_struck \cap KeyResets = {} PROVE Counts' /\ Laid'
    BY <1>2 DEF KeyRing
  <2>2. Counts /\ Laid /\ KeyCalm
    BY <1>3, <2>1 DEF KeysIInv, KeyRing
  <2>3. \A u \in Reader : u # t => kb_pc[u] \in {"out", "list", "sched", "compare"}
    BY <1>3, <2>1 DEF Inside, KeysIInv, KeysTyped
  <2>5. Counts'
    BY <1>2, <1>4, <1>5, <2>2, <2>3 DEF Counts, KeyResets, KeyTaken
  <2>6. Laid'
    BY <1>2, <1>4, <2>2, <2>3 DEF Laid
  <2> QED
    BY <2>5, <2>6
<1>10. Sleeping'
  <2>1. ASSUME KeyCalm', kb_struck' \cap {"mark", "list"} = {}, kb_waiters # <<>>
        PROVE  Falls(t)'
    <3>1. kb_count <= kb_counter[t]
      BY <1>2, <1>3, <1>4, <2>1, SleptSoFar DEF Falls
    <3> QED
      BY <1>2, <1>4, <1>5, <3>1 DEF Falls
  <2> QED
    BY <1>1, <1>2, <2>1, SleepsOn
<1> QED
  BY <1>3, <1>6, <1>7, <1>8, <1>9, <1>10 DEF KeysIInv

\* The store: what met the task since the load is lost from the count.
LEMMA StoreKeeps ==
  ASSUME KeysIInv, NEW t \in Reader, Keys!Store(t)
  PROVE  KeysIInv'
<1>1. /\ Goes(t, "store", "out") /\ "out" \in KeyPlaces \ {"list", "sched"}
      /\ "store" \in KeyPlaces \ {"list", "sched"}
  BY StepGoes DEF KeysIInv, Keys!Store, KeyPlaces
<1>2. /\ UNCHANGED <<kb_head, kb_tail, kb_buf, kb_waiters, kb_cpu, kb_running,
                     kb_typed, kb_got, kb_struck, kb_early>>
      /\ kb_count' = kb_loaded[t] - kb_counter[t]
      /\ kb_want' = [kb_want EXCEPT ![t] = 0]
      /\ kb_counter' = [kb_counter EXCEPT ![t] = 0]
      /\ kb_loaded' = [kb_loaded EXCEPT ![t] = 0]
  BY DEF Keys!Store
<1>3. /\ Held' /\ OneInside' /\ t \in kb_running
      /\ KeyCalm' => /\ KeyCalm
                     /\ \A u \in Reader : u # t => /\ ~Inside(u) /\ ~Inside(u)'
                                                   /\ ~Awake(u) /\ ~Awake(u)'
  BY <1>1, <1>2, AtWork
<1>4. /\ kb_pc[t] = "store" /\ kb_pc'[t] = "out"
      /\ \A u \in Reader : u # t => kb_pc'[u] = kb_pc[u]
  BY <1>1 DEF Goes
<1>5. /\ kb_count \in Int /\ kb_counter[t] \in Int /\ kb_loaded[t] \in Int
      /\ kb_count' \in Int /\ kb_want' \in [Reader -> Wants \cup {0}]
      /\ kb_counter' \in [Reader -> Int] /\ kb_loaded' \in [Reader -> Int]
      /\ kb_want'[t] = 0 /\ kb_counter'[t] = 0
      /\ \A u \in Reader : u # t => /\ kb_want'[u] = kb_want[u]
                                    /\ kb_counter'[u] = kb_counter[u]
  BY <1>2 DEF KeysIInv, KeysTyped
<1>6. KeysTyped'
  BY <1>1, <1>2, <1>5 DEF KeysIInv, KeysTyped, Goes
<1>7. Asked'
  BY <1>4, <1>5 DEF KeysIInv, Asked, KeyResets
<1>8. Fits'
  <2>1. KeyCalm' => \A u \in Reader : kb_pc'[u] # "take"
    BY <1>3, <1>4 DEF Inside, KeyPlaces
  <2> QED
    BY <1>2, <1>3, <1>5, <2>1 DEF KeysIInv, Fits
<1>9. KeyRing'
  <2>1. SUFFICES ASSUME KeyCalm', kb_struck \cap KeyResets = {} PROVE Counts' /\ Laid'
    BY <1>2 DEF KeyRing
  <2>2. Counts /\ Laid /\ KeyCalm
    BY <1>3, <2>1 DEF KeysIInv, KeyRing
  <2>3. \A u \in Reader : u # t => kb_pc[u] \in {"out", "list", "sched", "compare"}
    BY <1>3, <2>1 DEF Inside, KeysIInv, KeysTyped
  <2>4. /\ kb_counter[t] <= kb_loaded[t] /\ kb_loaded[t] <= kb_count
        /\ kb_count <= kb_typed - Len(kb_got) + kb_counter[t]
        /\ "store" \notin kb_struck =>
             /\ kb_loaded[t] = kb_count
             /\ kb_count = kb_typed - Len(kb_got) + kb_counter[t]
    BY <1>4, <2>2 DEF Counts, KeyTaken
  <2>5. kb_typed \in Int /\ Len(kb_got) \in Int
    BY DEF KeysIInv, KeysTyped
  <2>6. /\ 0 <= kb_count' /\ kb_count' <= kb_typed - Len(kb_got)
        /\ "store" \notin kb_struck => kb_count' = kb_typed - Len(kb_got)
    BY <1>2, <1>5, <2>4, <2>5
  <2>7. Counts'
    BY <1>2, <1>4, <2>3, <2>6 DEF Counts, KeyResets, KeyTaken
  <2>8. Laid'
    BY <1>2, <1>4, <2>2, <2>3 DEF Laid
  <2> QED
    BY <2>7, <2>8
<1>10. Sleeping'
  <2>1. ASSUME KeyCalm', kb_struck' \cap {"mark", "list"} = {}, kb_waiters # <<>>
        PROVE  kb_count' <= 0
    <3>1. kb_loaded[t] <= kb_counter[t]
      BY <1>2, <1>3, <1>4, <2>1, SleptSoFar DEF Falls
    <3> QED
      BY <1>2, <1>5, <3>1
  <2> QED
    BY <1>1, <1>2, <2>1, SleepsOn
<1> QED
  BY <1>3, <1>6, <1>7, <1>8, <1>9, <1>10 DEF KeysIInv

\* What is copied: as many bytes as the counter says, none when it is negative.
LEMMA Piece ==
  ASSUME NEW S, NEW c \in Int, NEW f, f \in [1 .. c -> S]
  PROVE  f \in Seq(S) /\ Len(f) = IF c < 0 THEN 0 ELSE c
<1>1. CASE c >= 0
  BY <1>1
<1>2. CASE c < 0
  <2>1. 1 .. c = 1 .. 0
    BY <1>2
  <2>2. f \in Seq(S) /\ Len(f) = 0
    BY <2>1
  <2> QED
    BY <1>2, <2>2
<1> QED
  BY <1>1, <1>2

\* The copy gives the next codes in their order, as long as the ring has not been full.
LEMMA CopyKeeps ==
  ASSUME KeysIInv, NEW t \in Reader, Keys!Copy(t)
  PROVE  KeysIInv'
<1> DEFINE c == kb_counter[t]
           room == Size - kb_tail
<1>1. PICK to \in {"move", "fault"} :
        /\ Goes(t, "copy", to)
        /\ UNCHANGED <<kb_head, kb_tail, kb_count, kb_buf, kb_waiters, kb_cpu, kb_running,
                       kb_want, kb_counter, kb_loaded, kb_typed, kb_struck, kb_early>>
        /\ to = "fault" => kb_got' = kb_got /\ c > room
        /\ to = "move" =>
             \/ kb_got' = kb_got \o [i \in 1 .. c |-> Keys!Cell(kb_tail + i - 1)] /\ c <= room
             \/ /\ c > room
                /\ kb_got' = kb_got \o
                     [i \in 1 .. c |-> IF i <= c - room THEN Keys!Cell(kb_head + i - 1)
                                       ELSE IF i <= room THEN Keys!Cell(kb_tail + i - 1)
                                       ELSE 0]
  BY StepGoes DEF KeysIInv, Keys!Copy, Keys!Room, Keys!ring, Keys!locals, KeyPlaces
<1>2. /\ to \in KeyPlaces \ {"list", "sched"} /\ "copy" \in KeyPlaces \ {"list", "sched"}
  BY DEF KeyPlaces
<1>3. /\ Held' /\ OneInside' /\ t \in kb_running
      /\ KeyCalm' => /\ KeyCalm
                     /\ \A u \in Reader : u # t => /\ ~Inside(u) /\ ~Inside(u)'
                                                   /\ ~Awake(u) /\ ~Awake(u)'
  BY <1>1, <1>2, AtWork
<1>4. /\ kb_pc[t] = "copy" /\ kb_pc'[t] = to
      /\ \A u \in Reader : u # t => kb_pc'[u] = kb_pc[u]
  BY <1>1 DEF Goes
<1>5. /\ c \in Int /\ kb_count \in Int /\ kb_tail \in Int /\ kb_typed \in 0 .. MaxTyped
      /\ Len(kb_got) \in Nat /\ kb_got \in Seq(0 .. MaxTyped)
      /\ kb_buf \in [0 .. Size - 1 -> 0 .. MaxTyped]
  BY DEF KeysIInv, KeysTyped
<1>6. \A i \in Int : Keys!Cell(i) \in 0 .. MaxTyped
                     /\ (i \in 0 .. Size - 1 => Keys!Cell(i) = kb_buf[i])
  BY <1>5, RingConstants DEF Keys!Cell
<1>7. PICK f \in [1 .. c -> 0 .. MaxTyped] :
        /\ to = "move" => kb_got' = kb_got \o f
        /\ to = "move" /\ c <= room => \A i \in 1 .. c : f[i] = Keys!Cell(kb_tail + i - 1)
  <2> DEFINE g == [i \in 1 .. c |-> Keys!Cell(kb_tail + i - 1)]
             h == [i \in 1 .. c |-> IF i <= c - room THEN Keys!Cell(kb_head + i - 1)
                                    ELSE IF i <= room THEN Keys!Cell(kb_tail + i - 1)
                                    ELSE 0]
  <2>1. \A i \in 1 .. c : /\ kb_tail + i - 1 \in Int /\ kb_head + i - 1 \in Int
                          /\ 0 \in 0 .. MaxTyped
    BY <1>5, RingConstants DEF KeysIInv, KeysTyped
  <2>2. g \in [1 .. c -> 0 .. MaxTyped]
    BY <1>6, <2>1
  <2>3. h \in [1 .. c -> 0 .. MaxTyped]
    BY <1>6, <2>1
  <2>4. CASE to = "move" /\ c <= room
    <3>0. ~(c > room) /\ to # "fault"
      BY <1>5, <2>4, RingConstants
    <3>1. kb_got' = kb_got \o g
      <4> HIDE DEF c, room
      <4> QED
        BY <1>1, <2>4, <3>0
    <3>2. \A i \in 1 .. c : g[i] = Keys!Cell(kb_tail + i - 1)
      OBVIOUS
    <3> QED
      BY <2>2, <3>1, <3>2
  <2>5. CASE to = "move" /\ ~(c <= room)
    <3>1. kb_got' = kb_got \o h
      BY <1>1, <2>5
    <3> QED
      BY <2>3, <2>5, <3>1
  <2>6. CASE to = "fault"
    BY <2>2, <2>6
  <2> QED
    BY <2>4, <2>5, <2>6
<1>8. f \in Seq(0 .. MaxTyped) /\ Len(f) = IF c < 0 THEN 0 ELSE c
  BY <1>5, <1>7, Piece
<1>9. /\ kb_got' \in Seq(0 .. MaxTyped)
      /\ to = "fault" => kb_got' = kb_got
      /\ to = "move" => /\ Len(kb_got') = Len(kb_got) + Len(f)
                        /\ \A i \in DOMAIN kb_got : kb_got'[i] = kb_got[i]
                        /\ \A i \in 1 .. Len(f) : kb_got'[Len(kb_got) + i] = f[i]
                        /\ DOMAIN kb_got' = 1 .. Len(kb_got) + Len(f)
  <2>1. CASE to = "fault"
    BY <1>1, <1>5, <2>1
  <2>2. CASE to = "move"
    <3> DEFINE s == kb_got \o f
    <3>1. s \in Seq(0 .. MaxTyped) /\ Len(s) = Len(kb_got) + Len(f)
      BY <1>5, <1>8
    <3>2. \A i \in DOMAIN kb_got : s[i] = kb_got[i]
      BY <1>5, <1>8
    <3>3. \A i \in 1 .. Len(f) : s[Len(kb_got) + i] = f[i]
      BY <1>5, <1>8
    <3>4. DOMAIN s = 1 .. Len(kb_got) + Len(f)
      BY <3>1
    <3> HIDE DEF s
    <3>5. kb_got' = s
      BY <1>7, <2>2 DEF s
    <3> QED
      BY <2>2, <3>1, <3>2, <3>3, <3>4, <3>5
  <2> QED
    BY <2>1, <2>2
<1>10. KeysTyped'
  BY <1>1, <1>9 DEF KeysIInv, KeysTyped, Goes
<1>11. Asked'
  BY <1>1, <1>4 DEF KeysIInv, Asked, KeyResets
<1>12. Fits'
  BY <1>1, <1>3, <1>4 DEF KeysIInv, Fits
<1>13. KeyRing'
  <2>1. SUFFICES ASSUME KeyCalm', kb_struck \cap KeyResets = {} PROVE Counts' /\ Laid'
    BY <1>1 DEF KeyRing
  <2>2. Counts /\ Laid /\ KeyCalm
    BY <1>3, <2>1 DEF KeysIInv, KeyRing
  <2>3. \A u \in Reader : u # t => kb_pc[u] \in {"out", "list", "sched", "compare"}
    BY <1>3, <2>1 DEF Inside, KeysIInv, KeysTyped
  <2>4. /\ 0 <= c /\ c <= kb_count
        /\ 0 <= kb_count /\ kb_count <= kb_typed - Len(kb_got)
        /\ "store" \notin kb_struck => kb_count = kb_typed - Len(kb_got)
    BY <1>4, <2>2, <2>3 DEF Counts, KeyResets, KeyTaken
  <2>5. CASE to = "fault"
    <3>1. Counts'
      BY <1>1, <1>4, <1>9, <2>3, <2>4, <2>5 DEF Counts, KeyResets, KeyTaken
    <3>2. Laid'
      BY <1>1, <1>4, <1>9, <2>2, <2>3, <2>5 DEF Laid
    <3> QED
      BY <3>1, <3>2
  <2>6. CASE to = "move"
    <3>1. Len(f) = c /\ Len(kb_got') = Len(kb_got) + c /\ DOMAIN kb_got' = 1 .. Len(kb_got) + c
      BY <1>5, <1>8, <1>9, <2>4, <2>6
    <3>2. /\ kb_count <= kb_typed - Len(kb_got') + c
          /\ "store" \notin kb_struck => kb_count = kb_typed - Len(kb_got') + c
      BY <1>5, <2>4, <3>1
    <3>3. Counts'
      BY <1>1, <1>4, <2>3, <2>4, <2>6, <3>2 DEF Counts, KeyResets, KeyTaken
    <3>4. ASSUME kb_typed <= Size
          PROVE  /\ kb_tail = Len(kb_got') - c
                 /\ \A i \in DOMAIN kb_got' : kb_got'[i] = i
      <4>1. kb_tail = Len(kb_got) /\ \A i \in DOMAIN kb_got : kb_got[i] = i
        BY <1>4, <2>2, <2>3, <3>4 DEF Laid
      <4>2. c <= room
        BY <1>5, <2>4, <3>4, <4>1, RingConstants
      <4>3. ASSUME NEW i \in 1 .. c PROVE kb_got'[Len(kb_got) + i] = Len(kb_got) + i
        <5>1. /\ Len(kb_got) + i - 1 \in 0 .. Size - 1 /\ Len(kb_got) + i - 1 < kb_typed
              /\ kb_tail + i - 1 = Len(kb_got) + i - 1
              /\ (Len(kb_got) + i - 1) + 1 = Len(kb_got) + i
          BY <1>5, <2>4, <3>4, <4>1, RingConstants
        <5>2. kb_buf[Len(kb_got) + i - 1] = (Len(kb_got) + i - 1) + 1
          BY <2>2, <3>4, <5>1 DEF Laid
        <5>3. PICK k \in 0 .. Size - 1 : k = Len(kb_got) + i - 1
          BY <5>1
        <5>4. k \in Int /\ Keys!Cell(k) = kb_buf[k]
          <6>1. k \in Int
            BY <5>3, RingConstants
          <6> QED
            BY <1>6, <6>1
        <5>5. f[i] = Keys!Cell(kb_tail + i - 1)
          BY <1>7, <2>6, <4>2
        <5>6. f[i] = kb_buf[k]
          BY <5>1, <5>3, <5>4, <5>5
        <5>7. kb_got'[Len(kb_got) + i] = f[i]
          BY <1>9, <2>6, <3>1
        <5> QED
          BY <5>1, <5>2, <5>3, <5>6, <5>7
      <4>4. ASSUME NEW i \in DOMAIN kb_got' PROVE kb_got'[i] = i
        <5>1. CASE i \in DOMAIN kb_got
          BY <1>9, <2>6, <4>1, <5>1
        <5>2. CASE i \notin DOMAIN kb_got
          <6>1. i - Len(kb_got) \in 1 .. c /\ Len(kb_got) + (i - Len(kb_got)) = i
            BY <1>5, <3>1, <5>2
          <6> QED
            BY <4>3, <6>1
        <5> QED
          BY <5>1, <5>2
      <4> QED
        BY <1>5, <3>1, <4>1, <4>4
    <3>5. Laid'
      BY <1>1, <1>4, <2>2, <2>3, <2>6, <3>4 DEF Laid
    <3> QED
      BY <3>3, <3>5
  <2> QED
    BY <2>5, <2>6
<1>14. Sleeping'
  <2>1. ASSUME KeyCalm', kb_struck' \cap {"mark", "list"} = {}, kb_waiters # <<>>
        PROVE  Falls(t)'
    <3>1. kb_count <= kb_counter[t]
      BY <1>1, <1>3, <1>4, <2>1, SleptSoFar DEF Falls
    <3> QED
      BY <1>1, <1>4, <3>1 DEF Falls
  <2> QED
    BY <1>1, <1>2, <2>1, SleepsOn
<1> QED
  BY <1>3, <1>10, <1>11, <1>12, <1>13, <1>14 DEF KeysIInv

\* The tail follows the copy.
LEMMA MoveKeeps ==
  ASSUME KeysIInv, NEW t \in Reader, Keys!Move(t)
  PROVE  KeysIInv'
<1> DEFINE c == kb_counter[t]
           room == Size - kb_tail
<1>1. /\ Goes(t, "move", "load") /\ "load" \in KeyPlaces \ {"list", "sched"}
      /\ "move" \in KeyPlaces \ {"list", "sched"}
  BY StepGoes DEF KeysIInv, Keys!Move, KeyPlaces
<1>2. /\ UNCHANGED <<kb_head, kb_count, kb_buf, kb_waiters, kb_cpu, kb_running, kb_want,
                     kb_counter, kb_loaded, kb_typed, kb_got, kb_struck, kb_early>>
      /\ kb_tail' = IF c <= room THEN kb_tail + c ELSE kb_head + c - room
  BY DEF Keys!Move, Keys!Room, Keys!locals
<1>3. /\ Held' /\ OneInside' /\ t \in kb_running
      /\ KeyCalm' => /\ KeyCalm
                     /\ \A u \in Reader : u # t => /\ ~Inside(u) /\ ~Inside(u)'
                                                   /\ ~Awake(u) /\ ~Awake(u)'
  BY <1>1, <1>2, AtWork
<1>4. /\ kb_pc[t] = "move" /\ kb_pc'[t] = "load"
      /\ \A u \in Reader : u # t => kb_pc'[u] = kb_pc[u]
  BY <1>1 DEF Goes
<1>5. /\ c \in Int /\ kb_count \in Int /\ kb_tail \in Int /\ kb_typed \in Int
      /\ kb_head \in Int /\ Len(kb_got) \in Nat /\ kb_tail' \in Int
  <2>1. /\ c \in Int /\ kb_count \in Int /\ kb_tail \in Int /\ kb_typed \in Int
        /\ kb_head \in Int /\ Len(kb_got) \in Nat
    BY DEF KeysIInv, KeysTyped
  <2> QED
    BY <1>2, <2>1, RingConstants
<1>6. KeysTyped'
  BY <1>1, <1>2, <1>5 DEF KeysIInv, KeysTyped, Goes
<1>7. Asked'
  BY <1>2, <1>4 DEF KeysIInv, Asked, KeyResets
<1>8. Fits'
  BY <1>2, <1>3, <1>4 DEF KeysIInv, Fits
<1>9. KeyRing'
  <2>1. SUFFICES ASSUME KeyCalm', kb_struck \cap KeyResets = {} PROVE Counts' /\ Laid'
    BY <1>2 DEF KeyRing
  <2>2. Counts /\ Laid /\ KeyCalm
    BY <1>3, <2>1 DEF KeysIInv, KeyRing
  <2>3. \A u \in Reader : u # t => kb_pc[u] \in {"out", "list", "sched", "compare"}
    BY <1>3, <2>1 DEF Inside, KeysIInv, KeysTyped
  <2>4. 0 <= c /\ c <= kb_count /\ kb_count <= kb_typed - Len(kb_got) + c
    BY <1>4, <2>2 DEF Counts, KeyTaken
  <2>5. Counts'
    BY <1>2, <1>4, <2>2, <2>3 DEF Counts, KeyResets, KeyTaken
  <2>6. kb_typed <= Size => kb_tail' = Len(kb_got)
    <3>1. kb_typed <= Size => kb_tail = Len(kb_got) - c
      BY <1>4, <2>2 DEF Laid
    <3> QED
      BY <1>2, <1>5, <2>4, <3>1, RingConstants
  <2>7. Laid'
    BY <1>2, <1>4, <2>2, <2>3, <2>6 DEF Laid
  <2> QED
    BY <2>5, <2>7
<1>10. Sleeping'
  <2>1. ASSUME KeyCalm', kb_struck' \cap {"mark", "list"} = {}, kb_waiters # <<>>
        PROVE  Falls(t)'
    <3>1. kb_count <= kb_counter[t]
      BY <1>2, <1>3, <1>4, <2>1, SleptSoFar DEF Falls
    <3> QED
      BY <1>2, <1>4, <3>1 DEF Falls
  <2> QED
    BY <1>1, <1>2, <2>1, SleepsOn
<1> QED
  BY <1>3, <1>6, <1>7, <1>8, <1>9, <1>10 DEF KeysIInv

\* A reset empties the ring and begins the histories.
LEMMA ResetHeadKeeps ==
  ASSUME KeysIInv, NEW t \in Reader, Keys!ResetHead(t)
  PROVE  KeysIInv'
<1>1. /\ Goes(t, "out", "tail") /\ "tail" \in KeyPlaces \ {"list", "sched"}
      /\ "out" \in KeyPlaces \ {"list", "sched"}
  BY StepGoes DEF KeysIInv, Keys!ResetHead, KeyPlaces
<1>2. /\ UNCHANGED <<kb_tail, kb_count, kb_buf, kb_waiters, kb_cpu, kb_running, kb_want,
                     kb_counter, kb_loaded, kb_early>>
      /\ kb_head' = 0 /\ kb_typed' = 0 /\ kb_got' = <<>> /\ kb_struck' = {}
  BY DEF Keys!ResetHead, Keys!locals
<1>3. /\ Held' /\ OneInside' /\ t \in kb_running
      /\ KeyCalm' => /\ KeyCalm
                     /\ \A u \in Reader : u # t => /\ ~Inside(u) /\ ~Inside(u)'
                                                   /\ ~Awake(u) /\ ~Awake(u)'
  BY <1>1, <1>2, AtWork
<1>4. /\ kb_pc[t] = "out" /\ kb_pc'[t] = "tail"
      /\ \A u \in Reader : u # t => kb_pc'[u] = kb_pc[u]
  BY <1>1 DEF Goes
<1>5. KeysTyped'
  <2>1. kb_got' \in Seq(0 .. MaxTyped) /\ kb_head' \in 0 .. Size /\ kb_typed' \in 0 .. MaxTyped
        /\ kb_struck' \subseteq KeyPlaces
    BY <1>2, RingConstants
  <2> QED
    BY <1>1, <1>2, <2>1 DEF KeysIInv, KeysTyped, Goes
<1>6. Asked'
  BY <1>2, <1>4 DEF KeysIInv, Asked, KeyResets
<1>7. Fits'
  <2>1. SUFFICES ASSUME KeyCalm', NEW u \in Reader
                 PROVE  /\ kb_counter[u] <= kb_want[u] /\ kb_pc'[u] # "take"
    BY <1>2 DEF Fits
  <2>2. kb_pc'[u] # "take" /\ kb_pc[u] \notin {"copy", "move", "load", "store", "fault"}
    BY <1>3, <1>4, <2>1 DEF Inside, KeyPlaces
  <2>3. kb_counter[u] = 0
    BY <2>2 DEF KeysIInv, Asked
  <2>4. kb_want[u] \in Nat
    <3>1. CASE kb_want[u] = 0
      BY <3>1
    <3>2. CASE kb_want[u] \in Wants
      BY <3>2, RingConstants
    <3> QED
      BY <3>1, <3>2 DEF KeysIInv, KeysTyped
  <2> QED
    BY <2>2, <2>3, <2>4
<1>8. KeyRing'
  <2>1. SUFFICES ASSUME KeyCalm' PROVE Counts' /\ Laid'
    BY DEF KeyRing
  <2>2. \A u \in Reader : u # t => kb_pc'[u] \in {"out", "list", "sched", "compare"}
    BY <1>3, <1>4, <2>1 DEF Inside, KeysIInv, KeysTyped
  <2>3. Counts'
    BY <1>2, <1>4, <2>2 DEF Counts, KeyResets, KeyTaken
  <2>4. DOMAIN kb_got' = {}
    BY <1>2
  <2>5. Laid'
    BY <1>2, <1>4, <2>2, <2>4, RingConstants DEF Laid
  <2> QED
    BY <2>3, <2>5
<1>9. Sleeping'
  <2>1. Falls(t)'
    BY <1>4 DEF Falls
  <2> QED
    BY <1>1, <1>2, <2>1, SleepsOn
<1> QED
  BY <1>3, <1>5, <1>6, <1>7, <1>8, <1>9 DEF KeysIInv

\* Its other stores: the tail, the count, the bytes.
LEMMA ResetKeeps ==
  ASSUME KeysIInv, NEW t \in Reader, Keys!Reset(t)
  PROVE  KeysIInv'
<1>1. PICK from \in KeyResets, to \in {"count", "clear", "out"} :
        /\ Goes(t, from, to)
        /\ UNCHANGED <<kb_head, kb_waiters, kb_cpu, kb_running, kb_want, kb_counter,
                       kb_loaded, kb_typed, kb_got, kb_struck, kb_early>>
        /\ kb_tail' = IF from = "tail" THEN 0 ELSE kb_tail
        /\ kb_count' = IF from = "count" THEN 0 ELSE kb_count
        /\ kb_buf' = IF from = "clear" THEN Keys!Empty ELSE kb_buf
        /\ from = "tail" => to = "count"
        /\ from = "count" => to = "clear"
        /\ from = "clear" => to = "out"
  <2>1. CASE Keys!ResetTail(t)
    <3>1. Goes(t, "tail", "count")
      BY <2>1, StepGoes DEF KeysIInv, Keys!ResetTail, KeyPlaces
    <3> QED
      BY <2>1, <3>1 DEF Keys!ResetTail, Keys!locals, KeyResets
  <2>2. CASE Keys!ResetCount(t)
    <3>1. Goes(t, "count", "clear")
      BY <2>2, StepGoes DEF KeysIInv, Keys!ResetCount, KeyPlaces
    <3> QED
      BY <2>2, <3>1 DEF Keys!ResetCount, Keys!locals, KeyResets
  <2>3. CASE Keys!ResetBuf(t)
    <3>1. Goes(t, "clear", "out")
      BY <2>3, StepGoes DEF KeysIInv, Keys!ResetBuf, KeyPlaces
    <3> QED
      BY <2>3, <3>1 DEF Keys!ResetBuf, Keys!locals, KeyResets
  <2> QED
    BY <2>1, <2>2, <2>3 DEF Keys!Reset
<1>2. from \in KeyPlaces \ {"list", "sched"} /\ to \in KeyPlaces \ {"list", "sched"}
  BY DEF KeyPlaces, KeyResets
<1>3. /\ Held' /\ OneInside' /\ t \in kb_running
      /\ KeyCalm' => /\ KeyCalm
                     /\ \A u \in Reader : u # t => /\ ~Inside(u) /\ ~Inside(u)'
                                                   /\ ~Awake(u) /\ ~Awake(u)'
  BY <1>1, <1>2, AtWork
<1>4. /\ kb_pc[t] = from /\ kb_pc'[t] = to
      /\ \A u \in Reader : u # t => kb_pc'[u] = kb_pc[u]
  BY <1>1 DEF Goes
<1>5. KeysTyped'
  <2>1. Keys!Empty \in [0 .. Size - 1 -> 0 .. MaxTyped]
    BY RingConstants DEF Keys!Empty
  <2>2. kb_tail' \in Int /\ kb_count' \in Int /\ kb_buf' \in [0 .. Size - 1 -> 0 .. MaxTyped]
    BY <1>1, <2>1 DEF KeysIInv, KeysTyped
  <2> QED
    BY <1>1, <2>2 DEF KeysIInv, KeysTyped, Goes
<1>6. Asked'
  BY <1>1, <1>4 DEF KeysIInv, Asked, KeyResets
<1>7. Fits'
  <2>1. SUFFICES ASSUME KeyCalm', "take" \notin kb_struck, NEW u \in Reader
                 PROVE  /\ kb_counter[u] <= kb_want[u] /\ kb_pc'[u] # "take"
    BY <1>1 DEF Fits
  <2>2. kb_pc'[u] # "take"
    BY <1>1, <1>3, <1>4, <2>1 DEF Inside, KeyPlaces
  <2> QED
    BY <1>3, <2>1, <2>2 DEF KeysIInv, Fits
<1>8. KeyRing'
  <2>1. SUFFICES ASSUME KeyCalm', kb_struck \cap KeyResets = {} PROVE Counts' /\ Laid'
    BY <1>1 DEF KeyRing
  <2>2. Counts /\ Laid /\ KeyCalm
    BY <1>3, <2>1 DEF KeysIInv, KeyRing
  <2>3. \A u \in Reader : u # t => kb_pc[u] \in {"out", "list", "sched", "compare"}
    BY <1>3, <2>1 DEF Inside, KeysIInv, KeysTyped
  <2>4. /\ kb_head = 0 /\ kb_typed = 0 /\ kb_got = <<>> /\ Len(kb_got) = 0 /\ DOMAIN kb_got = {}
        /\ kb_tail' = 0
        /\ from # "tail" => kb_count' = 0
    BY <1>1, <1>4, <2>2 DEF Counts, KeyResets
  <2>5. Counts'
    <3>1. to = "out" => /\ 0 <= kb_count' /\ kb_count' <= kb_typed - Len(kb_got)
                        /\ kb_count' = kb_typed - Len(kb_got)
      BY <1>1, <2>4 DEF KeyResets
    <3>2. to = "clear" => kb_count' = 0
      BY <1>1, <2>4 DEF KeyResets
    <3>3. \A u \in Reader : u # t => kb_pc'[u] \in {"out", "list", "sched", "compare"}
      BY <1>4, <2>3
    <3> QED
      BY <1>1, <1>4, <2>4, <3>1, <3>2, <3>3 DEF Counts, KeyResets, KeyTaken
  <2>6. Laid'
    BY <1>1, <1>4, <2>3, <2>4, RingConstants DEF Laid
  <2> QED
    BY <2>5, <2>6
<1>9. Sleeping'
  <2>1. ASSUME KeyCalm', kb_struck' \cap {"mark", "list"} = {}, kb_waiters # <<>>
        PROVE  IF to = "out" THEN kb_count' <= 0 ELSE Falls(t)'
    <3>1. from = "clear" => kb_count <= 0
      BY <1>1, <1>3, <1>4, <2>1, SleptSoFar DEF Falls
    <3> QED
      BY <1>1, <1>4, <3>1 DEF Falls, KeyResets
  <2> QED
    BY <1>1, <1>2, <2>1, SleepsOn
<1> QED
  BY <1>3, <1>5, <1>6, <1>7, <1>8, <1>9 DEF KeysIInv
-----------------------------------------------------------------------------
\* What depends only on the ring and on where the readers are among its accesses.
LEMMA RingAsBefore ==
  ASSUME KeysIInv, KeyCalm' => KeyCalm,
         UNCHANGED <<kb_head, kb_tail, kb_count, kb_buf, kb_want, kb_counter, kb_loaded,
                     kb_typed, kb_got, kb_struck>>,
         NEW moved \in SUBSET Reader,
         \A u \in Reader \ moved : kb_pc'[u] = kb_pc[u],
         \A u \in moved : /\ kb_pc[u] \in {"mark", "list", "sched"}
                          /\ kb_pc'[u] \in {"list", "sched", "compare"}
  PROVE  Asked' /\ Fits' /\ KeyRing'
<1>1. Asked'
  BY DEF KeysIInv, Asked, KeyResets
<1>2. Fits'
  BY DEF KeysIInv, Fits
<1>3. Counts => Counts'
  BY DEF Counts, KeyResets, KeyTaken
<1>4. Laid => Laid'
  BY DEF Laid
<1> QED
  BY <1>1, <1>2, <1>3, <1>4 DEF KeysIInv, KeyRing

\* sleep_on's mark takes the reader out of the run queue.
LEMMA MarkKeeps ==
  ASSUME KeysIInv, NEW t \in Reader, Keys!Mark(t)
  PROVE  KeysIInv'
<1>1. Goes(t, "mark", "list")
  BY StepGoes DEF KeysIInv, Keys!Mark, KeyPlaces
<1>2. /\ UNCHANGED <<kb_head, kb_tail, kb_count, kb_buf, kb_waiters, kb_cpu, kb_want,
                     kb_counter, kb_loaded, kb_typed, kb_got, kb_struck, kb_early>>
      /\ kb_running' = kb_running \ {t}
  BY DEF Keys!Mark, Keys!ring, Keys!locals
<1>3. /\ kb_pc[t] = "mark" /\ kb_pc'[t] = "list" /\ kb_cpu = t
      /\ \A u \in Reader : u # t => kb_pc'[u] = kb_pc[u]
  BY <1>1 DEF Goes
<1>4. KeysTyped'
  BY <1>1, <1>2 DEF KeysIInv, KeysTyped, Goes
<1>5. t \in kb_running
  BY <1>3 DEF KeysIInv, Held, Inside, KeyPlaces
<1>6. Held'
  <2>1. \A i \in DOMAIN kb_waiters : kb_waiters[i] \in Reader /\ kb_waiters[i] # t
    BY <1>5 DEF KeysIInv, KeysTyped, Held
  <2> QED
    BY <1>2, <1>3, <2>1 DEF KeysIInv, Held, Inside
<1>7. KeyCalm' => KeyCalm /\ \A u \in Reader : ~Awake(u)' /\ kb_pc'[u] # "mark"
  BY <1>1, <1>2, <1>3 DEF KeysIInv, KeysTyped, KeyCalm, Goes, Awake, Held, Inside, KeyPlaces
<1>8. OneInside'
  BY <1>3, <1>7 DEF KeysIInv, OneInside, Inside
<1>9. Asked' /\ Fits' /\ KeyRing'
  <2>1. PICK moved \in SUBSET Reader : moved = {t}
    OBVIOUS
  <2> QED
    BY <1>2, <1>3, <1>7, <2>1, RingAsBefore
<1>10. Sleeping'
  <2>1. KeyCalm' /\ kb_struck' \cap {"mark", "list"} = {} => kb_count' <= 0
    BY <1>2, <1>3, <1>7 DEF KeysIInv, Sleeping
  <2> QED
    BY <1>7, <2>1 DEF Sleeping
<1> QED
  BY <1>4, <1>6, <1>8, <1>9, <1>10 DEF KeysIInv

\* sleep_on's list: it goes to the end of the queue.
LEMMA EnlistKeeps ==
  ASSUME KeysIInv, NEW t \in Reader, Keys!Enlist(t)
  PROVE  KeysIInv'
<1>1. Goes(t, "list", "sched")
  BY StepGoes DEF KeysIInv, Keys!Enlist, KeyPlaces
<1>2. /\ UNCHANGED <<kb_head, kb_tail, kb_count, kb_buf, kb_cpu, kb_running, kb_want,
                     kb_counter, kb_loaded, kb_typed, kb_got, kb_struck, kb_early>>
      /\ kb_waiters' = Append(kb_waiters, t)
  BY DEF Keys!Enlist, Keys!ring, Keys!locals
<1>3. /\ kb_pc[t] = "list" /\ kb_pc'[t] = "sched" /\ kb_cpu = t
      /\ \A u \in Reader : u # t => kb_pc'[u] = kb_pc[u]
  BY <1>1 DEF Goes
<1>4. /\ \A i \in DOMAIN kb_waiters : kb_waiters[i] \in Reader /\ kb_waiters[i] # t
      /\ t \notin kb_running /\ kb_waiters \in Seq(Reader) /\ IsInjective(kb_waiters)
  <2>1. kb_waiters \in Seq(Reader) /\ IsInjective(kb_waiters) /\ t \notin kb_running
    BY <1>3 DEF KeysIInv, KeysTyped, Held
  <2>2. \A i \in DOMAIN kb_waiters : kb_waiters[i] \in Reader
    BY <2>1
  <2>3. \A i \in DOMAIN kb_waiters : kb_waiters[i] # t
    BY <1>3 DEF KeysIInv, Held
  <2> QED
    BY <2>1, <2>2, <2>3
<1>5. /\ kb_waiters' \in Seq(Reader) /\ Len(kb_waiters') = Len(kb_waiters) + 1
      /\ \A i \in DOMAIN kb_waiters' :
           IF i \in DOMAIN kb_waiters THEN kb_waiters'[i] = kb_waiters[i]
           ELSE i = Len(kb_waiters) + 1 /\ kb_waiters'[i] = t
  BY <1>2, <1>4
<1>6. IsInjective(kb_waiters')
  BY <1>4, <1>5 DEF IsInjective
<1>7. KeysTyped'
  BY <1>1, <1>2, <1>5, <1>6 DEF KeysIInv, KeysTyped, Goes
<1>8. Held'
  <2>1. ASSUME NEW i \in DOMAIN kb_waiters'
        PROVE  kb_waiters'[i] \notin kb_running' /\ kb_pc'[kb_waiters'[i]] \in {"sched", "compare"}
    <3>1. CASE i \in DOMAIN kb_waiters
      BY <1>2, <1>3, <1>4, <1>5, <3>1 DEF KeysIInv, Held
    <3>2. CASE i \notin DOMAIN kb_waiters
      BY <1>2, <1>3, <1>4, <1>5, <3>2
    <3> QED
      BY <3>1, <3>2
  <2>2. \A u \in Reader : Inside(u)' => u \in kb_running'
    BY <1>2, <1>3 DEF KeysIInv, Held, Inside
  <2>3. \A u \in Reader : kb_pc'[u] = "list" => u \notin kb_running'
    BY <1>2, <1>3 DEF KeysIInv, Held
  <2> QED
    BY <1>2, <1>3, <2>1, <2>2, <2>3 DEF Held
<1>9. KeyCalm' => KeyCalm /\ \A u \in Reader : ~Awake(u)' /\ kb_pc'[u] # "mark"
  BY <1>1, <1>2, <1>3, <1>4 DEF KeysIInv, KeysTyped, KeyCalm, Goes, Awake, Held, Inside, KeyPlaces
<1>10. OneInside'
  BY <1>3, <1>9 DEF KeysIInv, OneInside, Inside
<1>11. Asked' /\ Fits' /\ KeyRing'
  <2>1. PICK moved \in SUBSET Reader : moved = {t}
    OBVIOUS
  <2> QED
    BY <1>2, <1>3, <1>9, <2>1, RingAsBefore
<1>12. Sleeping'
  <2>1. KeyCalm' /\ kb_struck' \cap {"mark", "list"} = {} => kb_count' <= 0
    BY <1>2, <1>3, <1>9 DEF KeysIInv, Sleeping
  <2> QED
    BY <1>9, <2>1 DEF Sleeping
<1> QED
  BY <1>7, <1>8, <1>10, <1>11, <1>12 DEF KeysIInv

\* schedule() gives the CPU away, and the reader is to go on at the comparison; and an
\* interrupt's return gives it away with the reader where it is.
LEMMA GivesCpuKeeps ==
  ASSUME KeysIInv, (\E t \in Reader : Keys!Sleep(t)) \/ Keys!Switch
  PROVE  KeysIInv'
<1>1. /\ UNCHANGED <<kb_head, kb_tail, kb_count, kb_buf, kb_waiters, kb_running, kb_want,
                     kb_counter, kb_loaded, kb_typed, kb_got, kb_struck, kb_early>>
      /\ kb_cpu' \in kb_running \cup {Idle}
      /\ kb_pc' \in [Reader -> KeyPlaces] /\ kb_shared' \in BOOLEAN
      /\ ~kb_shared' => ~kb_shared
  <2>1. CASE Keys!Switch
    <3>1. kb_pc' = kb_pc /\ kb_shared' = kb_shared
      BY <2>1 DEF Keys!Switch
    <3>2. kb_pc' \in [Reader -> KeyPlaces] /\ kb_shared' \in BOOLEAN
      BY <3>1 DEF KeysIInv, KeysTyped
    <3> QED
      BY <2>1, <3>1, <3>2 DEF Keys!Switch, Keys!ring, Keys!locals
  <2>2. CASE \E t \in Reader : Keys!Sleep(t)
    <3>1. PICK t \in Reader : Keys!Sleep(t)
      BY <2>2
    <3>2. Goes(t, "sched", "compare")
      BY <3>1, StepGoes DEF KeysIInv, Keys!Sleep, KeyPlaces
    <3>3. kb_pc' \in [Reader -> KeyPlaces] /\ kb_shared' \in BOOLEAN
      BY <3>2 DEF Goes
    <3>4. ~kb_shared' => ~kb_shared
      BY <3>2 DEF Goes
    <3> QED
      BY <3>1, <3>3, <3>4 DEF Keys!Sleep, Keys!ring, Keys!locals
  <2> QED
    BY <2>1, <2>2
<1>20. \E moved \in SUBSET Reader :
        /\ \A u \in Reader \ moved : kb_pc'[u] = kb_pc[u]
        /\ \A u \in moved : kb_pc[u] = "sched" /\ kb_pc'[u] = "compare"
  <2>1. CASE Keys!Switch
    <3>1. \A u \in Reader \ {} : kb_pc'[u] = kb_pc[u]
      BY <2>1 DEF Keys!Switch
    <3> WITNESS {} \in SUBSET Reader
    <3> QED
      BY <3>1
  <2>2. CASE \E t \in Reader : Keys!Sleep(t)
    <3>1. PICK t \in Reader : Keys!Sleep(t)
      BY <2>2
    <3>2. Goes(t, "sched", "compare")
      BY <3>1, StepGoes DEF KeysIInv, Keys!Sleep, KeyPlaces
    <3> WITNESS {t} \in SUBSET Reader
    <3> QED
      BY <3>2 DEF Goes
  <2> QED
    BY <2>1, <2>2
<1>2. PICK moved \in SUBSET Reader :
        /\ \A u \in Reader \ moved : kb_pc'[u] = kb_pc[u]
        /\ \A u \in moved : kb_pc[u] = "sched" /\ kb_pc'[u] = "compare"
  BY <1>20
<1>3. KeysTyped'
  BY <1>1 DEF KeysIInv, KeysTyped
<1>4. KeyCalm' => KeyCalm
  BY <1>1 DEF KeyCalm
<1>5. Held'
  <2>1. \A i \in DOMAIN kb_waiters : kb_waiters[i] \in Reader
    BY DEF KeysIInv, KeysTyped
  <2>2. \A u \in Reader : /\ Inside(u)' <=> Inside(u)
                          /\ kb_pc'[u] = "list" <=> kb_pc[u] = "list"
                          /\ kb_pc[u] \in {"sched", "compare"} =>
                               kb_pc'[u] \in {"sched", "compare"}
    BY <1>2 DEF Inside
  <2>3. kb_cpu' \notin Reader \ kb_running
    BY <1>1, RingConstants
  <2> QED
    BY <1>1, <2>1, <2>2, <2>3 DEF KeysIInv, Held
<1>6. OneInside'
  BY <1>2, <1>4 DEF KeysIInv, OneInside, Inside
<1>7. Asked' /\ Fits' /\ KeyRing'
  BY <1>1, <1>2, <1>4, RingAsBefore
<1>8. Sleeping'
  <2>1. \A u \in Reader : /\ Awake(u)' <=> Awake(u)
                          /\ Falls(u) => Falls(u)'
                          /\ kb_pc'[u] = "mark" <=> kb_pc[u] = "mark"
    <3>1. ASSUME NEW u \in moved
          PROVE  /\ Awake(u)' <=> Awake(u)
                 /\ Falls(u) => Falls(u)'
                 /\ kb_pc'[u] = "mark" <=> kb_pc[u] = "mark"
      BY <1>1, <1>2 DEF Awake, Falls
    <3>2. ASSUME NEW u \in Reader \ moved
          PROVE  /\ Awake(u)' <=> Awake(u)
                 /\ Falls(u) => Falls(u)'
                 /\ kb_pc'[u] = "mark" <=> kb_pc[u] = "mark"
      BY <1>1, <1>2 DEF Awake, Falls
    <3> QED
      BY <3>1, <3>2
  <2>2. \A u \in Reader : ~(kb_pc'[u] = "list" /\ kb_cpu' = u)
    <3>1. \A u \in Reader : kb_pc'[u] = "list" => u \notin kb_running /\ u # Idle
      BY <1>2, RingConstants DEF KeysIInv, Held
    <3> QED
      BY <1>1, <3>1
  <2> QED
    BY <1>1, <1>4, <2>1, <2>2 DEF KeysIInv, Sleeping
<1> QED
  BY <1>3, <1>5, <1>6, <1>7, <1>8 DEF KeysIInv

\* The handler: a code more in the ring, and the first waiter woken.
LEMMA KeyKeeps ==
  ASSUME KeysIInv, Keys!Key
  PROVE  KeysIInv'
<1> DEFINE at == IF kb_head = Size THEN 0 ELSE kb_head
<1>1. /\ UNCHANGED <<kb_tail, kb_cpu, kb_pc, kb_want, kb_counter, kb_loaded, kb_got, kb_shared>>
      /\ kb_typed < MaxTyped /\ kb_typed' = kb_typed + 1
      /\ kb_buf' = [kb_buf EXCEPT ![at] = kb_typed']
      /\ kb_head' = at + 1 /\ kb_count' = kb_count + 1
      /\ kb_struck' = kb_struck \cup Keys!Met /\ Keys!Wakeup
  BY DEF Keys!Key, Keys!locals
<1>2. /\ kb_typed \in Nat /\ kb_count \in Int /\ kb_head \in Nat /\ Len(kb_got) \in Nat
      /\ kb_typed' \in 0 .. MaxTyped /\ kb_count' \in Int /\ at \in 0 .. Size - 1
      /\ kb_head' \in 0 .. Size /\ Size \in Nat
  BY <1>1, RingConstants DEF KeysIInv, KeysTyped
<1>3. /\ kb_buf' \in [0 .. Size - 1 -> 0 .. MaxTyped] /\ kb_buf'[at] = kb_typed + 1
      /\ \A i \in 0 .. Size - 1 : i # at => kb_buf'[i] = kb_buf[i]
  <2>1. kb_buf \in [0 .. Size - 1 -> 0 .. MaxTyped]
    BY DEF KeysIInv, KeysTyped
  <2> HIDE DEF at
  <2> QED
    BY <1>1, <1>2, <2>1
<1> HIDE DEF at
<1>4. \A u \in kb_running : kb_pc[u] \in kb_struck'
  BY <1>1 DEF Keys!Met
<1>5. \A u \in Reader : Inside(u) => u \in kb_running /\ kb_pc[u] \in kb_struck'
  BY <1>4 DEF KeysIInv, Held
<1>6. kb_struck \subseteq kb_struck' /\ kb_struck' \subseteq KeyPlaces
  <2>1. Keys!Met \subseteq KeyPlaces
    <3>1. kb_running \cup ({kb_cpu} \ {Idle}) \subseteq Reader
      BY DEF KeysIInv, KeysTyped
    <3> QED
      BY <3>1 DEF Keys!Met, KeysIInv, KeysTyped
  <2> QED
    BY <1>1, <2>1 DEF KeysIInv, KeysTyped
<1>7. kb_cpu \in Reader => kb_pc[kb_cpu] \in kb_struck'
  BY <1>1, RingConstants DEF Keys!Met
<1>8. /\ kb_early' \in BOOLEAN /\ (kb_early => kb_early')
      /\ kb_running \subseteq kb_running' /\ kb_running' \subseteq Reader
      /\ kb_waiters' \in Seq(Reader) /\ IsInjective(kb_waiters')
      /\ \A u \in kb_running' \ kb_running : kb_pc[u] \in {"sched", "compare"}
      /\ \A i \in DOMAIN kb_waiters' : /\ kb_waiters'[i] \notin kb_running'
                                       /\ kb_pc[kb_waiters'[i]] \in {"sched", "compare"}
      /\ kb_waiters # <<>> =>
           \E h \in Reader : /\ h \notin kb_running /\ h \in kb_running'
                             /\ kb_pc[h] \in {"sched", "compare"}
      /\ kb_waiters = <<>> => kb_waiters' = <<>>
  <2>1. /\ kb_waiters \in Seq(Reader) /\ IsInjective(kb_waiters) /\ kb_running \subseteq Reader
        /\ kb_early \in BOOLEAN
        /\ \A i \in DOMAIN kb_waiters : /\ kb_waiters[i] \notin kb_running
                                        /\ kb_pc[kb_waiters[i]] \in {"sched", "compare"}
    BY DEF KeysIInv, KeysTyped, Held
  <2>2. CASE kb_waiters = <<>>
    <3>1. UNCHANGED <<kb_waiters, kb_running, kb_early>>
      BY <1>1, <2>2 DEF Keys!Wakeup
    <3> QED
      BY <2>1, <2>2, <3>1
  <2>3. CASE kb_waiters # <<>>
    <3>1. /\ 1 \in DOMAIN kb_waiters /\ Head(kb_waiters) = kb_waiters[1]
          /\ kb_waiters[1] \in Reader
      BY <2>1, <2>3
    <3>2. /\ kb_waiters' = Tail(kb_waiters)
          /\ kb_running' = kb_running \cup {kb_waiters[1]}
          /\ kb_early' = (kb_early \/ kb_waiters[1] = kb_cpu)
      BY <1>1, <2>1, <2>3, <3>1 DEF Keys!Wakeup
    <3>3. /\ kb_waiters' \in Seq(Reader)
          /\ \A i \in DOMAIN kb_waiters' : /\ i + 1 \in DOMAIN kb_waiters /\ i + 1 # 1
                                           /\ i \in Int
                                           /\ kb_waiters'[i] = kb_waiters[i + 1]
      BY <2>1, <2>3, <3>2
    <3>4. IsInjective(kb_waiters')
      <4>1. SUFFICES ASSUME NEW i \in DOMAIN kb_waiters', NEW j \in DOMAIN kb_waiters',
                            kb_waiters'[i] = kb_waiters'[j]
                     PROVE  i = j
        BY DEF IsInjective
      <4>2. i + 1 = j + 1
        BY <2>1, <3>3, <4>1 DEF IsInjective
      <4> QED
        BY <3>3, <4>2
    <3>5. \A i \in DOMAIN kb_waiters' : /\ kb_waiters'[i] \notin kb_running'
                                        /\ kb_pc[kb_waiters'[i]] \in {"sched", "compare"}
      <4>1. TAKE i \in DOMAIN kb_waiters'
      <4>2. kb_waiters[i + 1] # kb_waiters[1]
        BY <2>1, <3>1, <3>3 DEF IsInjective
      <4> QED
        BY <2>1, <3>2, <3>3, <4>2
    <3>6. kb_waiters[1] \notin kb_running /\ kb_pc[kb_waiters[1]] \in {"sched", "compare"}
      BY <2>1, <3>1
    <3>7. kb_early' \in BOOLEAN /\ (kb_early => kb_early')
      BY <2>1, <3>2
    <3>8. kb_running \subseteq kb_running' /\ kb_running' \subseteq Reader
          /\ kb_waiters[1] \in kb_running'
      BY <2>1, <3>1, <3>2
    <3>9. \A u \in kb_running' \ kb_running : kb_pc[u] \in {"sched", "compare"}
      BY <3>2, <3>6
    <3> QED
      BY <2>3, <3>1, <3>3, <3>4, <3>5, <3>6, <3>7, <3>8, <3>9
  <2> QED
    BY <2>2, <2>3
<1>9. KeysTyped'
  BY <1>1, <1>2, <1>3, <1>6, <1>8 DEF KeysIInv, KeysTyped
<1>10. Held'
  <2>1. \A u \in Reader : Inside(u)' => u \in kb_running'
    BY <1>1, <1>5, <1>8 DEF Inside
  <2>2. \A u \in Reader : kb_pc'[u] = "list" => u \notin kb_running'
    BY <1>1, <1>8 DEF KeysIInv, Held
  <2>3. kb_cpu' \in Reader \ kb_running' => kb_pc'[kb_cpu'] \in {"list", "sched"}
    BY <1>1, <1>8 DEF KeysIInv, Held
  <2> QED
    BY <1>1, <1>8, <2>1, <2>2, <2>3 DEF Held
<1>11. KeyCalm' => KeyCalm
  BY <1>1, <1>8 DEF KeyCalm
<1>12. OneInside'
  BY <1>1, <1>11 DEF KeysIInv, OneInside, Inside
<1>13. Asked'
  BY <1>1 DEF KeysIInv, Asked
<1>14. Fits'
  <2>1. "take" \notin kb_struck' => \A u \in Reader : kb_pc[u] # "take"
    BY <1>5 DEF Inside, KeyPlaces
  <2> QED
    BY <1>1, <1>6, <1>11, <2>1 DEF KeysIInv, Fits
<1>15. KeyRing'
  <2>0. kb_count' = kb_count + 1 /\ kb_typed' = kb_typed + 1 /\ Len(kb_got') = Len(kb_got)
    BY <1>1
  <2>1. SUFFICES ASSUME KeyCalm', kb_struck' \cap KeyResets = {} PROVE Counts' /\ Laid'
    BY DEF KeyRing
  <2>2. Counts /\ Laid
    BY <1>6, <1>11, <2>1 DEF KeysIInv, KeyRing
  <2>3. \A u \in Reader : kb_pc[u] \notin KeyResets
    BY <1>5, <2>1 DEF Inside, KeyPlaces, KeyResets
  <2>4. "store" \notin kb_struck' => "store" \notin kb_struck
                                     /\ \A u \in Reader : kb_pc[u] # "store"
    BY <1>5, <1>6 DEF Inside, KeyPlaces
  <2>5. \A u \in Reader : kb_counter[u] \in Int /\ kb_loaded[u] \in Int
    BY DEF KeysIInv, KeysTyped
  <2>6. Counts'
    <3>1. ASSUME \A u \in Reader : kb_pc'[u] \notin KeyResets \cup KeyTaken
          PROVE  /\ 0 <= kb_count' /\ kb_count' <= kb_typed' - Len(kb_got')
                 /\ "store" \notin kb_struck' => kb_count' = kb_typed' - Len(kb_got')
      <4>1. /\ 0 <= kb_count /\ kb_count <= kb_typed - Len(kb_got)
            /\ "store" \notin kb_struck => kb_count = kb_typed - Len(kb_got)
        BY <1>1, <2>2, <3>1 DEF Counts
      <4>2. 0 <= kb_count + 1 /\ kb_count + 1 <= kb_typed + 1 - Len(kb_got)
        BY <1>2, <4>1
      <4>3. "store" \notin kb_struck' => kb_count + 1 = kb_typed + 1 - Len(kb_got)
        BY <1>2, <2>4, <4>1
      <4> QED
        BY <1>2, <2>0, <4>2, <4>3
    <3>2. ASSUME NEW u \in Reader, kb_pc[u] \in KeyTaken
          PROVE  /\ 0 <= kb_counter[u] /\ kb_counter[u] <= kb_count'
                 /\ kb_count' <= kb_typed' - Len(kb_got) + kb_counter[u]
                 /\ "store" \notin kb_struck' =>
                      kb_count' = kb_typed' - Len(kb_got) + kb_counter[u]
      <4>1. /\ 0 <= kb_counter[u] /\ kb_counter[u] <= kb_count
            /\ kb_count <= kb_typed - Len(kb_got) + kb_counter[u]
            /\ "store" \notin kb_struck => kb_count = kb_typed - Len(kb_got) + kb_counter[u]
        BY <2>2, <3>2 DEF Counts
      <4>2. /\ kb_counter[u] <= kb_count + 1
            /\ kb_count + 1 <= kb_typed + 1 - Len(kb_got) + kb_counter[u]
        BY <1>2, <2>5, <4>1
      <4>3. "store" \notin kb_struck' =>
              kb_count + 1 = kb_typed + 1 - Len(kb_got) + kb_counter[u]
        BY <1>2, <2>4, <2>5, <4>1
      <4> QED
        BY <1>2, <2>0, <2>5, <4>1, <4>2, <4>3
    <3>3. ASSUME NEW u \in Reader, kb_pc[u] = "copy"
          PROVE  0 <= kb_counter[u] /\ kb_counter[u] <= kb_count'
      <4>1. 0 <= kb_counter[u] /\ kb_counter[u] <= kb_count
        BY <2>2, <3>3 DEF Counts
      <4> QED
        BY <1>1, <1>2, <2>5, <4>1
    <3>4. ASSUME NEW u \in Reader, kb_pc[u] = "store"
          PROVE  /\ kb_counter[u] <= kb_loaded[u] /\ kb_loaded[u] <= kb_count'
                 /\ "store" \in kb_struck'
      <4>1. kb_counter[u] <= kb_loaded[u] /\ kb_loaded[u] <= kb_count
        BY <2>2, <3>4 DEF Counts
      <4>2. kb_loaded[u] <= kb_count'
        BY <1>1, <1>2, <2>5, <4>1
      <4> QED
        BY <2>4, <3>4, <4>1, <4>2
    <3>5. \A u \in Reader : kb_pc[u] \notin {"count", "clear"}
      BY <2>3 DEF KeyResets
    <3> QED
      BY <1>1, <2>3, <3>1, <3>2, <3>3, <3>4, <3>5 DEF Counts
  <2>7. Laid'
    <3>1. SUFFICES ASSUME kb_typed + 1 <= Size PROVE Laid'
      BY <1>1 DEF Laid
    <3>2. kb_typed <= Size /\ kb_typed < Size
      BY <1>2, <3>1
    <3>3. kb_head = kb_typed /\ at = kb_typed /\ kb_head' = kb_typed'
      <4>1. kb_head = kb_typed
        BY <2>2, <3>2 DEF Laid
      <4> QED
        BY <1>1, <1>2, <3>2, <4>1 DEF at
    <3>4. ASSUME NEW i \in 0 .. Size - 1, i < kb_typed' PROVE kb_buf'[i] = i + 1
      <4>1. CASE i = at
        BY <1>3, <3>3, <4>1
      <4>2. CASE i # at
        <5>1. i < kb_typed
          BY <1>1, <1>2, <3>3, <3>4, <4>2
        <5> QED
          BY <1>3, <2>2, <3>2, <4>2, <5>1 DEF Laid
      <4> QED
        BY <4>1, <4>2
    <3> QED
      BY <1>1, <2>2, <3>2, <3>3, <3>4 DEF Laid
  <2> QED
    BY <2>6, <2>7
<1>16. Sleeping'
  <2>1. SUFFICES ASSUME KeyCalm', kb_struck' \cap {"mark", "list"} = {} PROVE Sleeping'
    BY DEF Sleeping
  <2>2. \A u \in Reader : kb_pc'[u] # "mark" /\ ~(kb_pc'[u] = "list" /\ kb_cpu' = u)
    BY <1>1, <1>5, <1>7, <2>1 DEF Inside, KeyPlaces
  <2>3. ASSUME kb_waiters' # <<>>
        PROVE  \/ \E t, u \in Reader : t # u /\ Awake(t)' /\ Awake(u)'
               \/ \E t \in Reader : Awake(t)' /\ Falls(t)'
    <3>1. PICK h \in Reader : /\ h \notin kb_running /\ h \in kb_running'
                              /\ kb_pc[h] \in {"sched", "compare"}
      BY <1>8, <2>3
    <3>2. \A u \in Reader : Awake(u) => Awake(u)' /\ u # h
      BY <1>1, <1>8, <3>1 DEF Awake
    <3>3. Awake(h)'
      BY <1>1, <3>1 DEF Awake
    <3>4. CASE \E u \in Reader : Awake(u)
      BY <3>2, <3>3, <3>4
    <3>5. CASE \A u \in Reader : ~Awake(u)
      <4>1. kb_count <= 0
        <5>1. KeyCalm /\ kb_struck \cap {"mark", "list"} = {} /\ kb_waiters # <<>>
          BY <1>6, <1>8, <1>11, <2>1, <2>3
        <5> QED
          BY <3>5, <5>1 DEF KeysIInv, Sleeping
      <4>2. Falls(h)'
        BY <1>1, <1>2, <3>1, <4>1 DEF Falls
      <4> QED
        BY <3>3, <4>2
    <3> QED
      BY <3>4, <3>5
  <2> QED
    BY <2>2, <2>3 DEF Sleeping
<1> QED
  BY <1>9, <1>10, <1>12, <1>13, <1>14, <1>15, <1>16 DEF KeysIInv
-----------------------------------------------------------------------------
\* Every step of the driver keeps the invariant.
LEMMA KeysStep ==
  ASSUME KeysIInv, Keys!Next \/ UNCHANGED kbVars
  PROVE  KeysIInv'
<1>1. CASE UNCHANGED kbVars
  <2>1. KeysTyped'
    BY <1>1 DEF kbVars, KeysIInv, KeysTyped
  <2>2. Held' /\ OneInside'
    BY <1>1 DEF kbVars, KeysIInv, Held, OneInside, KeyCalm, Inside
  <2>3. Asked' /\ Fits'
    BY <1>1 DEF kbVars, KeysIInv, Asked, Fits, KeyCalm
  <2>4. KeyRing'
    BY <1>1 DEF kbVars, KeysIInv, KeyRing, Counts, Laid, KeyCalm
  <2>5. Sleeping'
    BY <1>1 DEF kbVars, KeysIInv, Sleeping, KeyCalm, Awake, Falls
  <2> QED
    BY <2>1, <2>2, <2>3, <2>4, <2>5 DEF KeysIInv
<1>2. CASE Keys!Switch \/ \E t \in Reader : Keys!Sleep(t)
  BY <1>2, GivesCpuKeeps
<1>3. CASE Keys!Key
  BY <1>3, KeyKeeps
<1>4. ASSUME NEW t \in Reader,
             Keys!Read(t) \/ Keys!Reading(t) \/ Keys!ResetHead(t) \/ Keys!Reset(t),
             ~Keys!Sleep(t)
      PROVE  KeysIInv'
  BY <1>4, ReadKeeps, MarkKeeps, EnlistKeeps, CompareKeeps, TakeKeeps, CopyKeeps, MoveKeeps,
     LoadKeeps, StoreKeeps, ResetHeadKeeps, ResetKeeps DEF Keys!Reading
<1> QED
  BY <1>1, <1>2, <1>3, <1>4 DEF Keys!Next

\* What the invariant says of the calls.
LEMMA KeysSound ==
  ASSUME KeysIInv
  PROVE  KeysKept
<1>1. Keys!TypeOK
  BY KeyTypes DEF KeysIInv
<1>2. /\ Keys!Calm <=> KeyCalm
      /\ Keys!Resetting = KeyResets
  BY DEF Keys!Calm, KeyCalm, Keys!Resetting, KeyResets
<1>3. kb_typed \in Nat /\ Len(kb_got) \in Nat /\ kb_count \in Int
      /\ \A t \in Reader : kb_counter[t] \in Int /\ kb_loaded[t] \in Int
  BY RingConstants DEF KeysIInv, KeysTyped
<1>4. Keys!KeysInOrder
  <2>1. SUFFICES ASSUME KeyCalm, kb_typed <= Size, kb_struck \cap KeyResets = {}
                 PROVE  Len(kb_got) <= kb_typed /\ \A i \in DOMAIN kb_got : kb_got[i] = i
    BY <1>2 DEF Keys!KeysInOrder
  <2>2. Counts /\ Laid
    BY <2>1 DEF KeysIInv, KeyRing
  <2>3. Len(kb_got) <= kb_typed
    <3>1. CASE \A t \in Reader : kb_pc[t] \notin KeyResets \cup KeyTaken
      <4>1. 0 <= kb_count /\ kb_count <= kb_typed - Len(kb_got)
        BY <2>2, <3>1 DEF Counts
      <4> QED
        BY <1>3, <4>1
    <3>2. ASSUME NEW t \in Reader, kb_pc[t] \in KeyTaken
          PROVE  Len(kb_got) <= kb_typed
      <4>1. kb_counter[t] <= kb_count /\ kb_count <= kb_typed - Len(kb_got) + kb_counter[t]
        BY <2>2, <3>2 DEF Counts
      <4> QED
        BY <1>3, <4>1
    <3>3. ASSUME NEW t \in Reader, kb_pc[t] \in KeyResets
          PROVE  Len(kb_got) <= kb_typed
      <4>1. kb_got = <<>>
        BY <2>2, <3>3 DEF Counts
      <4>2. Len(kb_got) = 0
        BY <4>1
      <4> QED
        BY <1>3, <4>2
    <3> QED
      BY <3>1, <3>2, <3>3
  <2> QED
    BY <2>1, <2>2, <2>3 DEF Laid
<1>5. Keys!Quiet => \A t \in Reader : ~Inside(t) /\ ~Awake(t)
  BY DEF Keys!Quiet, KeysIInv, Held, Inside, Awake
<1>6. Keys!CountIsUnread
  <2>1. SUFFICES ASSUME KeyCalm, Keys!Quiet, kb_struck \cap (KeyResets \cup {"store"}) = {}
                 PROVE  kb_count = kb_typed - Len(kb_got)
    BY <1>2 DEF Keys!CountIsUnread
  <2>2. Counts
    BY <2>1 DEF KeysIInv, KeyRing
  <2>3. \A t \in Reader : kb_pc[t] \notin KeyResets \cup KeyTaken
    BY <1>5, <2>1 DEF Inside, KeyPlaces, KeyResets, KeyTaken
  <2> QED
    BY <2>1, <2>2, <2>3 DEF Counts
<1>7. Keys!SleepsOnlyWhenEmpty
  BY <1>2, <1>5 DEF Keys!SleepsOnlyWhenEmpty, KeysIInv, Sleeping
<1>8. Keys!BufferFits
  BY <1>2 DEF Keys!BufferFits, KeysIInv, Fits
<1> QED
  BY <1>1, <1>4, <1>6, <1>7, <1>8 DEF KeysKept, Keys!RingSound

\* What tasks read is what was typed, in order and no more than they have room for, and none
\* sleeps beside a code (keyboard.c:40, 139, 143, 157): for every ring, every number of
\* readers and every number of codes.
THEOREM KeysStayKept == AllSpec => []KeysKept
<1>1. AllInit => KeysIInv
  BY KeysBegin DEF AllInit
<1>2. KeysIInv /\ [AllNext]_allVars => KeysIInv'
  BY KeysStep DEF AllNext, DiskNext, KeyboardNext, allVars
<1>3. KeysIInv => KeysKept
  BY KeysSound
<1> QED
  BY <1>1, <1>2, <1>3, PTL DEF AllSpec
=============================================================================
