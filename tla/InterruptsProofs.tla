-------------------------- MODULE InterruptsProofs --------------------------
(***************************************************************************)
(* For any lines and any depth of nesting: every interrupt is ended, no    *)
(* device waits in vain and an open line has its descriptor.  The          *)
(* invariant follows a call through its stores, says that only the top of  *)
(* the stack has not been acknowledged and is the highest in service, and  *)
(* that whatever is requested finds its descriptor or is known to be late. *)
(*                                                                         *)
(* For any timers and any number of activations of do_softirq: the list of *)
(* timers is whole when none is in do_timer's loop.  That invariant        *)
(* follows the list as it was built: deleting a timer twice, or putting a  *)
(* deleted one back, moves the head about in a front part of it, and       *)
(* somebody goes on until the list is empty.                               *)
(*                                                                         *)
(* For any screen of more than one column: what color_printk does to the   *)
(* cursor and the cells.  Characters are shown before the cursor only, and *)
(* the spaces a tab still needs take it to a stop.                         *)
(***************************************************************************)
EXTENDS MCHandlers, LinkedListProofs

\* A call to register a line finds it masked, and one to unregister it masks it first.
Staged ==
  /\ call.op = "register" =>
       /\ call.irq \in masked
       /\ call.at = "begin" => desc[call.irq] # Field
       /\ call.at \in {"install", "enable"} => desc[call.irq] = Field
  /\ call.op = "unregister" /\ call.at # "begin" => call.irq \in masked

\* The interrupt of a line finds its handler and its controler, or the line was or is
\* being unregistered.
Sound(i) ==
  \/ desc[i] = Field
  \/ i \in late
  \/ call.op = "unregister" /\ call.irq = i /\ "controler" \in desc[i]
Requested == \A i \in requested : Sound(i)

\* Only the top of the stack may be to be acknowledged; it is the highest in service, and
\* what else is in service will not be ended.
Serving == stack # <<>> /\ Top.at # "soft"
Served ==
  /\ \A k \in 1 .. Len(stack) - 1 : stack[k].at = "soft"
  /\ Serving => /\ Top.irq \in inService /\ Sound(Top.irq)
                /\ \A j \in inService \ {Top.irq} : j \in late /\ j < Top.irq
  /\ ~Serving => inService \subseteq late

\* A device that waits has its request or its handler on the way.
Announced ==
  \A i \in raised \ lost : i \in requested \/ (Serving /\ Top.at = "handler" /\ Top.irq = i)

Typed == TypeOK /\ stack \in Seq(Frames)
IInv == Typed /\ OpenIsReady /\ Staged /\ Requested /\ Served /\ Announced

-----------------------------------------------------------------------------
\* A higher class is a higher vector.
LEMMA ClassOrder ==
  ASSUME NEW i \in Nat, NEW j \in Nat, Class(i) > Class(j)
  PROVE  j < i
<1> DEFINE p == PerClass
           a == i \div p
           b == j \div p
<1>1. p \in Nat /\ p > 0
  BY InterruptsAssumption
<1>2. a \in Nat /\ b \in Nat /\ a >= b + 1
  BY <1>1 DEF Class
<1>3. i >= a * p /\ j < (b + 1) * p
  BY <1>1
<1>4. a * p >= (b + 1) * p
  BY <1>1, <1>2
<1>5. a * p \in Nat /\ (b + 1) * p \in Nat
  BY <1>1, <1>2
<1> QED
  BY <1>3, <1>4, <1>5

\* The top frame is a frame, and what replaces it or is put on it becomes the top.
LEMMA TopIsFrame ==
  ASSUME Typed, stack # <<>>
  PROVE  /\ Len(stack) \in Nat /\ Len(stack) >= 1 /\ Top \in Frames
         /\ \A f \in Frames :
              /\ Replaced(f) \in Seq(Frames) /\ Replaced(f) # <<>>
              /\ Len(Replaced(f)) = Len(stack) /\ Replaced(f)[Len(stack)] = f
              /\ \A k \in 1 .. Len(stack) - 1 : Replaced(f)[k] = stack[k]
  BY DEF Typed, Top, Replaced

\* All lines are closed and nothing is requested at the start.
LEMMA InitIInv == Init => IInv
<1> SUFFICES ASSUME Init PROVE IInv
  OBVIOUS
<1>1. stack \in Seq(Frames) /\ DOMAIN stack = {} /\ Len(stack) <= Depth
  BY InterruptsAssumption DEF Init
<1>2. desc \in [Irq -> SUBSET Field]
  BY DEF Init
<1>3. Typed
  BY <1>1, <1>2 DEF Init, Typed, TypeOK
<1> QED
  BY <1>3 DEF IInv, Init, OpenIsReady, Staged, Requested, Served, Serving, Announced, Idle

-----------------------------------------------------------------------------
\* The calls: they are made while nothing is being served.
LEMMA CallsKeepIInv ==
  ASSUME IInv, NEW i \in Irq, Calls(i)
  PROVE  IInv'
<1> USE DEF IInv
<1>1. Typed'
  BY DEF Calls, Typed, TypeOK, Idle, apic, history
<1>2. OpenIsReady'
  BY DEF Calls, OpenIsReady, apic, history
<1>3. Staged'
  <2>1. desc[i] = {} => i \in masked
    BY DEF OpenIsReady, Field
  <2> QED
    BY <2>1 DEF Calls, Staged, apic, Field
<1>4. Requested'
  BY DEF Calls, Requested, Sound, apic, history, Idle
<1>5. Served' /\ Announced'
  BY DEF Calls, Served, Serving, Top, Announced, apic, history
<1> QED
  BY <1>1, <1>2, <1>3, <1>4, <1>5

\* What a step of a call does to the descriptors and to the mask.
LEMMA CallStepMoves ==
  ASSUME IInv, CallStep
  PROVE  /\ stack = <<>> /\ call.irq \in Irq
         /\ desc' \in [Irq -> SUBSET Field] /\ masked' \subseteq Irq
         /\ Typed' /\ OpenIsReady' /\ Staged'
<1> USE DEF IInv
<1>1. stack = <<>> /\ call # Idle
  BY DEF CallStep, Register, Unregister, Doing, Idle
<1>2. /\ call.irq \in Irq /\ call.op \in {"register", "unregister"}
      /\ call \in [op : {"register", "unregister"}, irq : Irq,
                   at : {"begin", "handler", "install", "enable", "uninstall",
                         "clear", "forget"}]
  BY <1>1 DEF Typed, TypeOK
<1>3. desc \in [Irq -> SUBSET Field] /\ masked \subseteq Irq
  BY DEF Typed, TypeOK
<1>4. CASE Register
  <2>1. desc' \in [Irq -> SUBSET Field] /\ masked' \subseteq Irq
    BY <1>2, <1>3, <1>4 DEF Register, Fields, Field
  <2>2. call' \in {Idle} \cup [op : {"register", "unregister"}, irq : Irq,
                   at : {"begin", "handler", "install", "enable", "uninstall",
                         "clear", "forget"}]
    BY <1>2, <1>4 DEF Register, Goes, Returns
  <2>3. Typed'
    BY <2>1, <2>2, <1>3 DEF Typed, TypeOK, CallStep
  <2>4. call.irq \in masked
    BY <1>4 DEF Register, Doing, Staged
  <2>5. OpenIsReady'
    BY <1>2, <1>3, <1>4, <2>4 DEF Register, Doing, Staged, Fields, OpenIsReady
  <2>6. Staged'
    BY <1>2, <1>3, <1>4, <2>4 DEF Register, Doing, Staged, Fields, Goes, Returns, Idle
  <2> QED
    BY <1>1, <1>2, <2>1, <2>3, <2>5, <2>6
<1>5. CASE Unregister
  <2>1. desc' \in [Irq -> SUBSET Field] /\ masked' \subseteq Irq
    BY <1>2, <1>3, <1>5 DEF Unregister, Fields, Field
  <2>2. call' \in {Idle} \cup [op : {"register", "unregister"}, irq : Irq,
                   at : {"begin", "handler", "install", "enable", "uninstall",
                         "clear", "forget"}]
    BY <1>2, <1>5 DEF Unregister, Goes, Returns
  <2>3. Typed'
    BY <2>1, <2>2, <1>3 DEF Typed, TypeOK, CallStep
  <2>4. OpenIsReady'
    BY <1>2, <1>3, <1>5 DEF Unregister, Doing, Staged, Fields, OpenIsReady
  <2>5. Staged'
    BY <1>2, <1>3, <1>5 DEF Unregister, Doing, Staged, Fields, Goes, Returns, Idle
  <2> QED
    BY <1>1, <1>2, <2>1, <2>3, <2>4, <2>5
<1> QED
  BY <1>4, <1>5 DEF CallStep

\* A line that loses its descriptor takes its request with it into "late".
LEMMA CallStepKeepsIInv ==
  ASSUME IInv, CallStep
  PROVE  IInv'
<1> USE DEF IInv
<1>1. Requested'
  <2> SUFFICES ASSUME NEW i \in requested PROVE Sound(i)'
    BY DEF Requested, CallStep
  <2>0. /\ i \in Irq /\ desc \in [Irq -> SUBSET Field] /\ call.irq \in Irq
        /\ Sound(i) /\ late \subseteq late'
    BY CallStepMoves DEF Typed, TypeOK, Requested, CallStep
  <2>1. CASE desc[i] # {} /\ desc'[i] = {}
    BY <2>1 DEF Sound, CallStep
  <2>2. CASE i \in late
    BY <2>0, <2>2 DEF Sound
  <2>3. CASE i # call.irq /\ desc[i] = Field
    <3>1. desc'[i] = desc[i]
      BY <2>0, <2>3 DEF CallStep, Register, Unregister, Fields
    <3> QED
      BY <2>3, <3>1 DEF Sound
  <2>4. CASE /\ i = call.irq /\ desc[i] # {} /\ desc'[i] # {} /\ i \notin late
    <3>1. CASE Register
      <4>1. call.at # "begin"
        BY <2>0, <2>4, <3>1 DEF Sound, Staged, Register, Doing
      <4>2. desc'[i] = Field
        BY <2>0, <2>4, <3>1, <4>1 DEF Register, Doing, Fields, Staged
      <4> QED
        BY <4>2 DEF Sound
    <3>2. CASE Unregister
      <4>1. call.at # "forget" /\ call.op = "unregister"
        BY <2>0, <2>4, <3>2 DEF Unregister, Doing, Fields
      <4>2. call'.op = "unregister" /\ call'.irq = i
        BY <2>0, <2>4, <3>2, <4>1 DEF Unregister, Doing, Goes, Typed, TypeOK, Idle
      <4>3. desc'[i] = desc[i] \/ desc'[i] = {"controler"}
        BY <2>0, <2>4, <3>2, <4>1 DEF Unregister, Doing, Fields
      <4> QED
        BY <2>0, <2>4, <4>2, <4>3 DEF Sound, Field
    <3> QED
      BY <3>1, <3>2 DEF CallStep
  <2> QED
    BY <2>0, <2>1, <2>2, <2>3, <2>4 DEF Sound, Field
<1>2. Served'
  BY CallStepMoves DEF CallStep, Served, Serving
<1>3. Announced'
  BY CallStepMoves DEF CallStep, Announced, Serving
<1> QED
  BY CallStepMoves, <1>1, <1>2, <1>3

\* Raising the soft interrupt's flag touches neither lines nor stack.
LEMMA FlagKeepsIInv ==
  ASSUME IInv, Flag
  PROVE  IInv'
<1>1. Typed'
  BY DEF IInv, Flag, Typed, TypeOK, apic, history
<1> QED
  BY <1>1 DEF IInv, Flag, OpenIsReady, Staged, Requested, Sound, Served, Serving, Top,
              Announced, apic, history

-----------------------------------------------------------------------------
\* An open line has its descriptor when the edge comes.
LEMMA EdgeKeepsIInv ==
  ASSUME IInv, NEW i \in Irq, Edge(i)
  PROVE  IInv'
<1> USE DEF IInv
<1>1. Typed'
  BY DEF Edge, Typed, TypeOK
<1>2. OpenIsReady' /\ Staged'
  BY DEF Edge, OpenIsReady, Staged
<1>3. Requested'
  BY DEF Edge, Requested, Sound, OpenIsReady
<1>4. Served'
  BY DEF Edge, Served, Serving, Top, Sound
<1>5. Announced'
  BY DEF Edge, Announced, Serving, Top
<1> QED
  BY <1>1, <1>2, <1>3, <1>4, <1>5

\* What is delivered is above all that is in service.
LEMMA DeliverKeepsIInv ==
  ASSUME IInv, NEW i \in Irq, Deliver(i)
  PROVE  IInv'
<1> USE DEF IInv
<1> DEFINE f == [irq |-> i, at |-> "handler"]
<1>1. ~Serving /\ inService \subseteq late
  BY DEF Deliver, Open, Serving, Served
<1>2. f \in Frames /\ stack \in Seq(Frames) /\ stack' = Append(stack, f)
  BY DEF Frames, Deliver, Typed
<1>3. /\ stack' \in Seq(Frames) /\ Len(stack') = Len(stack) + 1 /\ stack' # <<>>
      /\ Len(stack) \in Nat /\ stack'[Len(stack')] = f
      /\ \A k \in 1 .. Len(stack) : stack'[k] = stack[k]
      /\ DOMAIN stack' = 1 .. Len(stack')
  BY <1>2
<1>4. Top' = f /\ Serving'
  BY <1>3 DEF Top, Serving
<1>5. Typed'
  <2>1. Len(stack') <= Depth /\ \A k \in DOMAIN stack' : stack'[k] \in Frames
    BY <1>3, InterruptsAssumption DEF Deliver
  <2> QED
    BY <1>3, <2>1 DEF Deliver, Typed, TypeOK, history
<1>6. OpenIsReady' /\ Staged' /\ Requested'
  BY DEF Deliver, OpenIsReady, Staged, Requested, Sound, history
<1>7. Served'
  <2>1. \A k \in 1 .. Len(stack') - 1 : stack'[k].at = "soft"
    <3> SUFFICES ASSUME NEW k \in 1 .. Len(stack) PROVE stack[k].at = "soft"
      BY <1>3
    <3>1. CASE k = Len(stack)
      BY <1>1, <1>3, <3>1 DEF Serving, Top
    <3>2. CASE k # Len(stack)
      BY <1>3, <3>2 DEF Served
    <3> QED
      BY <3>1, <3>2
  <2>2. Sound(i)' /\ i \in inService'
    BY DEF Deliver, Requested, Sound, history
  <2>3. \A j \in inService : j < i
    BY ClassOrder, InterruptsAssumption DEF Deliver, Typed, TypeOK
  <2>4. \A j \in inService' \ {i} : j \in late' /\ j < i
    BY <1>1, <2>3 DEF Deliver, history
  <2>5. Sound(Top.irq)'
    BY <1>4, <2>2 DEF Sound
  <2> QED
    BY <1>4, <2>1, <2>2, <2>4, <2>5 DEF Served
<1>8. Announced'
  BY <1>1, <1>4 DEF Deliver, Announced, history
<1> QED
  BY <1>5, <1>6, <1>7, <1>8

-----------------------------------------------------------------------------
\* A step of do_INT changes where the top of the stack is.
LEMMA TopMoves ==
  ASSUME Typed, stack # <<>>, NEW place \in {"handler", "ack", "soft"},
         stack' = Replaced([Top EXCEPT !.at = place])
  PROVE  /\ stack' \in Seq(Frames) /\ stack' # <<>> /\ Len(stack') = Len(stack)
         /\ \A k \in DOMAIN stack' : stack'[k] \in Frames
         /\ Top'.irq = Top.irq /\ Top'.at = place
         /\ \A k \in 1 .. Len(stack') - 1 : stack'[k] = stack[k]
<1> DEFINE f == [Top EXCEPT !.at = place]
<1>1. f \in Frames /\ f.irq = Top.irq /\ f.at = place
  BY TopIsFrame DEF Frames
<1>2. /\ stack' \in Seq(Frames) /\ stack' # <<>> /\ Len(stack') = Len(stack)
      /\ stack'[Len(stack)] = f
      /\ \A k \in 1 .. Len(stack) - 1 : stack'[k] = stack[k]
  BY <1>1, TopIsFrame
<1>3. Top' = f
  BY <1>2 DEF Top
<1> QED
  BY <1>1, <1>2, <1>3

\* A line without a handler is or was being unregistered.
LEMMA HandlerKeepsIInv ==
  ASSUME IInv, Handler
  PROVE  IInv'
<1> USE DEF IInv
<1>1. Serving /\ stack # <<>> /\ Sound(Top.irq) /\ Top \in Frames
  BY TopIsFrame DEF Handler, Serving, Served
<1>2. /\ stack' \in Seq(Frames) /\ stack' # <<>> /\ Len(stack') = Len(stack)
      /\ \A k \in DOMAIN stack' : stack'[k] \in Frames
      /\ Top'.irq = Top.irq /\ Top'.at = "ack"
      /\ \A k \in 1 .. Len(stack') - 1 : stack'[k] = stack[k]
  BY TopMoves DEF Handler
<1>3. Typed'
  BY <1>1, <1>2 DEF Handler, Typed, TypeOK, Frames, apic
<1>4. OpenIsReady' /\ Staged' /\ Requested'
  BY DEF Handler, OpenIsReady, Staged, Requested, Sound, apic
<1>5. Served'
  <2>1. Sound(Top.irq)'
    BY <1>1, <1>2 DEF Sound, Handler
  <2> QED
    BY <1>1, <1>2, <2>1 DEF Served, Serving, Handler, apic
<1>6. Announced'
  <2> SUFFICES ASSUME NEW i \in raised', i \notin lost' PROVE i \in requested
    BY DEF Announced, Handler, apic
  <2>1. i \in raised \ lost
    BY DEF Handler
  <2>2. CASE i = Top.irq
    BY <1>1, <2>1, <2>2 DEF Handler, Sound, Field
  <2>3. CASE i # Top.irq
    BY <2>1, <2>3 DEF Announced
  <2> QED
    BY <2>2, <2>3
<1> QED
  BY <1>3, <1>4, <1>5, <1>6

\* What is ended is the top of the stack, if it has a controler; else it is late.
LEMMA AckKeepsIInv ==
  ASSUME IInv, Ack
  PROVE  IInv'
<1> USE DEF IInv
<1>1. /\ Serving /\ stack # <<>> /\ Sound(Top.irq) /\ Top \in Frames
      /\ Top.irq \in inService
      /\ \A j \in inService \ {Top.irq} : j \in late /\ j < Top.irq
  BY TopIsFrame DEF Ack, Serving, Served
<1>2. /\ stack' \in Seq(Frames) /\ stack' # <<>> /\ Len(stack') = Len(stack)
      /\ \A k \in DOMAIN stack' : stack'[k] \in Frames
      /\ Top'.irq = Top.irq /\ Top'.at = "soft"
      /\ \A k \in 1 .. Len(stack') - 1 : stack'[k] = stack[k]
  BY TopMoves DEF Ack
<1>3. Typed'
  BY <1>2 DEF Ack, Typed, TypeOK, Ended, history
<1>4. OpenIsReady' /\ Staged' /\ Requested'
  BY DEF Ack, OpenIsReady, Staged, Requested, Sound, history
<1>5. inService' \subseteq late
  <2>1. inService \subseteq Nat
    BY InterruptsAssumption DEF Typed, TypeOK
  <2>2. CASE "controler" \in desc[Top.irq]
    BY <1>1, <2>1, <2>2 DEF Ack, Ended
  <2>3. CASE "controler" \notin desc[Top.irq]
    BY <1>1, <2>3 DEF Ack, Sound, Field
  <2> QED
    BY <2>2, <2>3
<1>6. Served'
  BY <1>2, <1>5 DEF Served, Serving, Ack, history
<1>7. Announced'
  BY <1>2 DEF Announced, Ack, history
<1> QED
  BY <1>3, <1>4, <1>6, <1>7

\* What was interrupted is not serving.
LEMMA ReturnKeepsIInv ==
  ASSUME IInv, Return
  PROVE  IInv'
<1> USE DEF IInv
<1>1. ~Serving /\ stack \in Seq(Frames) /\ Len(stack) \in Nat /\ Len(stack) >= 1
  BY TopIsFrame DEF Return, Serving, Typed
<1>2. /\ stack' \in Seq(Frames) /\ Len(stack') = Len(stack) - 1
      /\ \A k \in 1 .. Len(stack') : stack'[k] = stack[k]
      /\ DOMAIN stack' = 1 .. Len(stack')
  <2> DEFINE n == Len(stack) - 1
  <2>1. 1 \in Int /\ n \in Int /\ n >= 0 /\ \A k \in 1 .. n : stack[k] \in Frames
    BY <1>1
  <2>2. /\ SubSeq(stack, 1, n) \in Seq(Frames)
        /\ Len(SubSeq(stack, 1, n)) = IF 1 <= n THEN n - 1 + 1 ELSE 0
        /\ \A k \in 1 .. n - 1 + 1 : SubSeq(stack, 1, n)[k] = stack[1 + k - 1]
    BY <2>1, SubSeqProperties
  <2>3. stack' = SubSeq(stack, 1, n)
    BY DEF Return
  <2>4. stack' \in Seq(Frames) /\ Len(stack') = n
    BY <2>1, <2>2, <2>3
  <2>5. \A k \in 1 .. n : stack'[k] = stack[k]
    <3> SUFFICES ASSUME NEW k \in 1 .. n PROVE stack'[k] = stack[k]
      OBVIOUS
    <3>1. k \in 1 .. n - 1 + 1 /\ 1 + k - 1 = k
      BY <2>1
    <3> QED
      BY <2>2, <2>3, <3>1
  <2> QED
    BY <2>4, <2>5
<1>3. \A k \in 1 .. Len(stack') : stack'[k].at = "soft"
  BY <1>1, <1>2 DEF Served
<1>4. ~Serving'
  BY <1>2, <1>3 DEF Serving, Top
<1>5. Typed'
  <2>1. Len(stack') <= Depth /\ \A k \in DOMAIN stack' : stack'[k] \in Frames
    BY <1>1, <1>2, InterruptsAssumption DEF Typed, TypeOK
  <2> QED
    BY <1>2, <2>1 DEF Return, Typed, TypeOK, apic, history
<1>6. OpenIsReady' /\ Staged' /\ Requested'
  BY DEF Return, OpenIsReady, Staged, Requested, Sound, apic, history
<1>7. Served'
  <2>1. \A k \in 1 .. Len(stack') - 1 : stack'[k].at = "soft"
    BY <1>1, <1>2, <1>3
  <2>2. inService' \subseteq late'
    BY <1>1 DEF Served, Return, apic, history
  <2> QED
    BY <1>4, <2>1, <2>2 DEF Served
<1>8. Announced'
  BY <1>1 DEF Announced, Return, apic, history
<1> QED
  BY <1>5, <1>6, <1>7, <1>8

-----------------------------------------------------------------------------
\* The inductive invariant.
THEOREM Invariant == AllSpec => []IInv
<1>1. IInv /\ [Next]_vars => IInv'
  <2> SUFFICES ASSUME IInv, [Next]_vars PROVE IInv'
    OBVIOUS
  <2>1. ASSUME NEW i \in Irq, Calls(i) PROVE IInv'
    BY <2>1, CallsKeepIInv
  <2>2. ASSUME NEW i \in Irq, Edge(i) PROVE IInv'
    BY <2>2, EdgeKeepsIInv
  <2>3. ASSUME NEW i \in Irq, Deliver(i) PROVE IInv'
    BY <2>3, DeliverKeepsIInv
  <2>4. CASE CallStep
    BY <2>4, CallStepKeepsIInv
  <2>5. CASE Flag
    BY <2>5, FlagKeepsIInv
  <2>6. CASE Handler
    BY <2>6, HandlerKeepsIInv
  <2>7. CASE Ack
    BY <2>7, AckKeepsIInv
  <2>8. CASE Return
    BY <2>8, ReturnKeepsIInv
  <2>9. CASE UNCHANGED vars
    BY <2>9 DEF vars, IInv, Typed, TypeOK, OpenIsReady, Staged, Requested, Sound, Served,
                Serving, Top, Announced
  <2> QED
    BY <2>1, <2>2, <2>3, <2>4, <2>5, <2>6, <2>7, <2>8, <2>9 DEF Next
<1>2. AllInit => Init
  BY DEF AllInit
<1>3. [AllNext]_allVars => [Next]_vars
  BY DEF AllNext, InterruptsNext, TimersNext, ScreenNext, allVars
<1> QED
  BY <1>1, <1>2, <1>3, InitIInv, PTL DEF AllSpec

\* The state keeps its types, and at most Depth handlers are on the stack.
THEOREM TypeCorrect == AllSpec => []TypeOK
<1>1. IInv => TypeOK
  BY DEF IInv, Typed
<1> QED
  BY <1>1, Invariant, PTL

\* A line is open only while its descriptor is whole (interrupt.c:136).
THEOREM OpenLinesReady == AllSpec => []OpenIsReady
<1>1. IInv => OpenIsReady
  BY DEF IInv
<1> QED
  BY <1>1, Invariant, PTL

\* do_INT ends every interrupt it is called for, nested ones in their order, but those
\* requested before their line was unregistered (APIC.c:480).
THEOREM EveryOneEnded == AllSpec => []EachIsEnded
<1>1. IInv => EachIsEnded
  <2> SUFFICES ASSUME IInv PROVE EachIsEnded
    OBVIOUS
  <2>1. stack \in Seq(Frames) /\ Len(stack) \in Nat /\ DOMAIN stack = 1 .. Len(stack)
    BY DEF IInv, Typed
  <2>2. \A k \in DOMAIN stack : stack[k].at # "soft" => Serving /\ stack[k] = Top
    BY <2>1 DEF IInv, Served, Serving, Top
  <2>3. UnderWay \subseteq inService
    BY <2>2 DEF UnderWay, IInv, Served
  <2>4. Serving => Top.irq \in UnderWay
    BY <2>1 DEF Serving, Top, UnderWay
  <2>5. inService \ late \subseteq UnderWay
    BY <2>4 DEF IInv, Served
  <2> QED
    BY <2>3, <2>5 DEF EachIsEnded
<1> QED
  BY <1>1, Invariant, PTL

\* A device that raised an open line is served, or its line is unregistered under way.
THEOREM NobodyForgotten == AllSpec => []NobodyWaitsInVain
<1>1. IInv => NobodyWaitsInVain
  <2> SUFFICES ASSUME IInv, NEW i \in raised \ lost, i \notin requested
               PROVE  \E k \in DOMAIN stack : stack[k].at = "handler" /\ stack[k].irq = i
    BY DEF NobodyWaitsInVain
  <2>1. Serving /\ Top.at = "handler" /\ Top.irq = i
    BY DEF IInv, Announced
  <2>2. Len(stack) \in DOMAIN stack
    BY <2>1 DEF IInv, Typed, Serving
  <2> QED
    BY <2>1, <2>2 DEF Top
<1> QED
  BY <1>1, Invariant, PTL

\* What the interrupt code keeps, in one: open lines are ready, every interrupt is
\* ended, and no device waits in vain.
THEOREM InterruptsStaySafe == AllSpec => []InterruptsSafe
BY TypeCorrect, EveryOneEnded, NobodyForgotten, OpenLinesReady, PTL DEF InterruptsSafe
-----------------------------------------------------------------------------
\* The soft interrupts and the timers.

Cells == Timer \cup {QHead}
Linked == timer_added \cup {QHead}
Running(a) == timer_at[a] \in {"test", "unlink", "relink", "call", "advance"}
Emptying(a) == timer_at[a] \in {"unlink", "relink", "call", "advance"}

\* del_timer has pointed the node back at the head: what comes before it was deleted.
Behind(n) == timer_list.prev[n] = QHead
AllDue == \A u \in timer_added : timer_expire[u] <= timer_jiffies

\* What types the parts of the state have, in this module's words.
TimersTyped ==
  /\ timer_added \subseteq Timer
  /\ timer_list \in ListMemory(Cells)
  /\ timer_expire \in [Timer -> 1 .. MaxJiffies]
  /\ timer_jiffies \in 0 .. MaxJiffies
  /\ timer_pending \in BOOLEAN
  /\ timer_at \in [Activation -> {"off", "enter", "first", "clear", "test", "unlink",
                                  "relink", "call", "advance"}]
  /\ timer_tmp \in [Activation -> Cells]
  /\ timer_fired \in [Timer -> Nat]
  /\ timer_overlap \in BOOLEAN

\* Before the first tick nothing is called; what was not added never is.
Quiet ==
  /\ timer_jiffies = 0 =>
       ~timer_pending /\ \A a \in Activation : timer_at[a] = "off"
  /\ \A t \in Timer \ timer_added : timer_fired[t] = 0

\* l is the list as it was added, the first one due last; the timers keep their successors.
Built(l) ==
  /\ WellLinked(l, Linked, QHead)
  /\ l.next[QHead] # QHead =>
       \A u \in timer_added : timer_expire[u] <= timer_expire[l.next[QHead]]
  /\ \A t \in timer_added : timer_list.next[t] = l.next[t]

\* The timers deleted are all those up to some place of l, and all timers are due; each of
\* them has been called, or is on its way; and one activation or another goes on until
\* the list is empty.  The head leads to a node whose predecessors are deleted, which
\* may be deleted itself.
Emptied(l) ==
  /\ \A n \in Linked : timer_list.prev[n] \in {l.prev[n], QHead}
  /\ timer_list.next[QHead] \in Linked /\ Behind(timer_list.next[QHead])
  /\ \A t \in timer_added : Behind(l.next[t]) =>
       /\ Behind(t) /\ AllDue
       /\ \/ timer_fired[t] > 0
          \/ \E a \in Activation : timer_tmp[a] = t /\ timer_at[a] \in {"relink", "call"}
       /\ \/ timer_list.next[QHead] = QHead
          \/ \E a \in Activation :
               Emptying(a) \/ (timer_at[a] = "test" /\ timer_tmp[a] # QHead)
  /\ \A t \in timer_added : timer_fired[t] > 0 => Behind(l.next[t])
  /\ timer_list.next[QHead] # l.next[QHead] => \E t \in timer_added : Behind(l.next[t])

\* An activation has a timer whose predecessors are deleted.
Holding(l) ==
  \A a \in Activation :
    /\ Running(a) => timer_tmp[a] \in Linked /\ Behind(timer_tmp[a])
    /\ Emptying(a) => timer_tmp[a] # QHead /\ AllDue
    /\ timer_at[a] \in {"relink", "call", "advance"} => Behind(l.next[timer_tmp[a]])

\* An activation that no other met in the loop takes the timers in their order.
Alone(l) ==
  ~timer_overlap =>
    /\ \A a, b \in Activation : Running(a) /\ Running(b) => a = b
    /\ \A t \in timer_added : timer_fired[t] <= 1
    /\ \A t \in timer_added :
         t = timer_list.next[QHead] /\ Behind(l.next[t]) =>
           \E a \in Activation : timer_at[a] = "relink" /\ timer_tmp[a] = t
    /\ \A a \in Activation :
         /\ timer_at[a] \in {"test", "unlink", "relink"} =>
              timer_tmp[a] = timer_list.next[QHead]
         /\ timer_at[a] \in {"relink", "call"} => timer_fired[timer_tmp[a]] = 0
         /\ timer_at[a] = "relink" /\ l.next[timer_tmp[a]] # QHead =>
              ~Behind(l.next[l.next[timer_tmp[a]]])

Keeps(l) == /\ TimersTyped /\ Quiet
            /\ Built(l) /\ Emptied(l) /\ Holding(l) /\ Alone(l)
TimersIInv == \E l \in ListMemory(Cells) : Keeps(l)
-----------------------------------------------------------------------------
\* The list operators that Timer reaches are those of LinkedList.
LEMMA SameTimerLists ==
  /\ \A N : Timers!ListMemory(N) = ListMemory(N)
  /\ \A l, h, n : Timers!ListAddBehind(l, h, n) = ListAddBehind(l, h, n)
  /\ \A l, h, B : Timers!WalkEnd(l, h, B) = WalkEnd(l, h, B)
  /\ \A l, h : Timers!ListIsEmpty(l, h) <=> ListIsEmpty(l, h)
  /\ \A l, L, h : Timers!WellLinked(l, L, h) <=> WellLinked(l, L, h)
<1>1. \A N : Timers!ListMemory(N) = ListMemory(N)
  BY DEF Timers!ListMemory, ListMemory
<1>2. \A l, h, n : Timers!ListAddBehind(l, h, n) = ListAddBehind(l, h, n)
  BY DEF Timers!ListAddBehind, ListAddBehind
<1>3. \A l, h, B : Timers!WalkEnd(l, h, B) = WalkEnd(l, h, B)
  BY DEF Timers!WalkEnd, WalkEnd, Timers!Visited, Visited, Timers!WalkClosed, WalkClosed
<1>4. \A l, h : Timers!ListIsEmpty(l, h) <=> ListIsEmpty(l, h)
  BY DEF Timers!ListIsEmpty, ListIsEmpty
<1>5. \A l, L, h : Timers!WellLinked(l, L, h) <=> WellLinked(l, L, h)
  BY DEF Timers!WellLinked, WellLinked, Timers!Ring, Ring, Timers!OneCycle, OneCycle
<1> QED
  BY <1>1, <1>2, <1>3, <1>4, <1>5

\* In a well-formed list the successor of a member is another one, and no two share it.
LEMMA Successors ==
  ASSUME NEW l, NEW L, NEW h, WellLinked(l, L, h)
  PROVE  /\ l.next[h] \in L /\ l.prev[l.next[h]] = h
         /\ \A n \in L \ {h} :
              /\ l.next[n] \in L /\ l.next[n] # n
              /\ l.prev[l.next[n]] = n /\ l.next[n] # l.next[h]
              /\ \A m \in L \ {h} : l.next[n] = l.next[m] => n = m
         /\ \A n \in L : n = l.next[h] \/ \E m \in L \ {h} : n = l.next[m]
<1>1. Ring(l, L) /\ h \in L
  BY DEF WellLinked
<1>2. ASSUME NEW n \in L \ {h}, l.next[n] = n PROVE FALSE
  <2>1. {n} \in SUBSET (L \ {h}) /\ \A m \in {n} : l.next[m] \in {n}
    BY <1>2
  <2> QED
    BY <2>1 DEF WellLinked, OneCycle
<1> QED
  BY <1>1, <1>2 DEF Ring

\* A search that goes on from the first node to the end, or stops at once.
LEMMA SearchEndsEarly ==
  ASSUME NEW N, NEW l \in ListMemory(N), NEW L \in SUBSET N, NEW h,
         WellLinked(l, L, h), NEW B, h \notin B,
         l.next[h] \in B => L \ {h} \subseteq B
  PROVE  WalkEnd(l, h, B) = IF l.next[h] \in B THEN h ELSE l.next[h]
<1> DEFINE V == Visited(l, h, B)
<1>1. WalkEnds(l, h, B) /\ WalkEnd(l, h, B) \in L \ B
  BY WalkInList
<1>2. ASSUME l.next[h] \notin B PROVE WalkEnd(l, h, B) = l.next[h]
  <2>1. l.next[h] \in N /\ l.next \in [N -> N]
    BY DEF ListMemory, WellLinked, Ring
  <2>2. WalkClosed(l, h, B, {l.next[h]})
    BY <1>2 DEF WalkClosed
  <2>3. V \subseteq {l.next[h]}
    BY <2>1, <2>2 DEF Visited
  <2>4. WalkEnd(l, h, B) \in V
    BY <1>1 DEF WalkEnd, WalkEnds
  <2> QED
    BY <2>3, <2>4
<1> QED
  BY <1>1, <1>2

\* list_add_behind with a node outside the list.
LEMMA AddBehindLinks ==
  ASSUME NEW N, NEW l \in ListMemory(N), NEW L \in SUBSET N, NEW h,
         WellLinked(l, L, h), NEW s \in L, NEW t \in N \ L
  PROVE  /\ ListAddBehind(l, s, t) \in ListMemory(N)
         /\ WellLinked(ListAddBehind(l, s, t), L \cup {t}, h)
         /\ ListAddBehind(l, s, t).next[h] = IF s = h THEN t ELSE l.next[h]
<1>1. l.next \in [N -> N] /\ l.prev \in [N -> N] /\ h \in L
  BY DEF WellLinked, ListMemory
<1>2. l.next[s] \in L /\ l.prev[l.next[s]] = s /\ t # s
  BY DEF WellLinked, Ring
<1>3. ListAddBehind(l, s, t) = ListAddBefore(l, l.next[s], t)
  BY <1>1, <1>2 DEF ListAddBehind, ListAddBefore
<1>4. WellLinked(ListAddBefore(l, l.next[s], t), L \cup {t}, h)
  BY <1>2, AddBeforeWellLinked
<1>5. ListAddBehind(l, s, t) \in ListMemory(N)
  BY <1>1, <1>2 DEF ListAddBehind, ListMemory
<1>6. ListAddBehind(l, s, t).next[h] = IF s = h THEN t ELSE l.next[h]
  BY <1>1, <1>2 DEF ListAddBehind
<1> QED
  BY <1>3, <1>4, <1>5, <1>6
-----------------------------------------------------------------------------
\* Timer's type invariant, in this module's words.
LEMMA TimerTypes == Timers!TypeOK <=> TimersTyped
BY SameTimerLists DEF Timers!TypeOK, TimersTyped, Timers!Cell, Cells, Timers!Places,
                      Timers!InLoop

\* Before the first timer is added the list is as it was built, empty.
LEMMA TimersBegin ==
  ASSUME Timers!Init
  PROVE  TimersIInv
<1> DEFINE l == [next |-> [n \in Cells |-> n], prev |-> [n \in Cells |-> n]]
<1>1. timer_list = l /\ l \in ListMemory(Cells)
  BY DEF Timers!Init, Timers!NoTimers, Timers!Cell, Cells, ListMemory
<1>2. l.next[QHead] = QHead /\ l.prev[QHead] = QHead
  BY DEF Cells
<1> HIDE DEF l
<1>3. timer_added = {} /\ timer_jiffies = 0 /\ Linked = {QHead}
  BY DEF Timers!Init, Linked
<1>4. /\ \A a \in Activation : timer_at[a] = "off"
      /\ \A t \in Timer : timer_fired[t] = 0
      /\ timer_pending = FALSE
  BY DEF Timers!Init
<1>5. TimersTyped
  <2>1. timer_tmp \in [Activation -> Cells] /\ timer_fired \in [Timer -> Nat]
    BY DEF Timers!Init, Cells
  <2>2. timer_expire \in [Timer -> 1 .. MaxJiffies] /\ timer_jiffies \in 0 .. MaxJiffies
    BY PartsAssumption DEF Timers!Init, Timers!TimerAssumption
  <2>3. timer_pending \in BOOLEAN /\ timer_overlap \in BOOLEAN
    BY DEF Timers!Init
  <2>4. timer_at \in [Activation -> {"off", "enter", "first", "clear", "test", "unlink",
                                     "relink", "call", "advance"}]
    BY DEF Timers!Init
  <2> QED
    BY <1>1, <1>3, <2>1, <2>2, <2>3, <2>4 DEF TimersTyped
<1>6. Quiet
  BY <1>4 DEF Quiet
<1>7. Built(l)
  BY <1>2, <1>3 DEF Built, WellLinked, Ring, OneCycle
<1>8. Emptied(l) /\ Holding(l) /\ Alone(l)
  BY <1>1, <1>2, <1>3, <1>4 DEF Emptied, Holding, Alone, Running, Emptying, Behind
<1> QED
  BY <1>1, <1>5, <1>6, <1>7, <1>8 DEF TimersIInv, Keeps

\* What Keeps says of the nodes, for the proofs of the steps.
LEMMA NodesOfTimers ==
  ASSUME NEW l \in ListMemory(Cells), Keeps(l)
  PROVE  /\ TimersTyped /\ QHead \notin Timer /\ Linked \subseteq Cells /\ QHead \notin timer_added
         /\ MaxJiffies \in Nat
         /\ l.next[QHead] \in Linked /\ l.prev[l.next[QHead]] = QHead
         /\ \A n \in timer_added :
              /\ l.next[n] \in Linked /\ l.next[n] # n
              /\ l.prev[l.next[n]] = n /\ l.next[n] # l.next[QHead]
              /\ \A m \in timer_added : l.next[n] = l.next[m] => n = m
         /\ \A n \in Linked : n = l.next[QHead] \/ \E m \in timer_added : n = l.next[m]
<1>1. TimersTyped /\ QHead \notin Timer /\ MaxJiffies \in Nat
  BY PartsAssumption DEF Keeps, Timers!TimerAssumption
<1>2. WellLinked(l, Linked, QHead) /\ QHead \notin timer_added
      /\ timer_added = Linked \ {QHead}
  BY <1>1 DEF Keeps, Built, Linked, TimersTyped
<1> QED
  BY <1>1, <1>2, Successors DEF Linked, Cells, TimersTyped

\* A node whose predecessors are deleted is due no earlier than every timer, when it is due.
LEMMA LastOneDue ==
  ASSUME NEW l \in ListMemory(Cells), Keeps(l), NEW n \in timer_added, Behind(n),
         timer_expire[n] <= timer_jiffies
  PROVE  AllDue
<1>1. CASE n = l.next[QHead]
  <2>1. \A u \in timer_added : timer_expire[u] <= timer_expire[n]
    BY <1>1, NodesOfTimers DEF Keeps, Built
  <2>2. \A u \in timer_added : timer_expire[u] \in Nat /\ timer_jiffies \in Nat
    BY NodesOfTimers DEF TimersTyped
  <2> QED
    BY <2>1, <2>2 DEF AllDue
<1>2. ASSUME NEW m \in timer_added, n = l.next[m] PROVE AllDue
  BY <1>2 DEF Keeps, Emptied
<1> QED
  BY <1>1, <1>2, NodesOfTimers DEF Linked

\* Before the first tick the list is as it was added: add_timer extends it.
LEMMA AddKeeps ==
  ASSUME NEW l \in ListMemory(Cells), Keeps(l), NEW t \in Timer, Timers!Add(t)
  PROVE  \E k \in ListMemory(Cells) : Keeps(k)'
<1> DEFINE B == {u \in Timer : timer_expire[u] < timer_expire[t]}
<1>1. /\ timer_jiffies = 0 /\ timer_jiffies' = 0 /\ t \notin timer_added
      /\ timer_added' = timer_added \cup {t}
      /\ timer_list' = ListAddBehind(timer_list, WalkEnd(timer_list, QHead, B), t)
      /\ timer_expire' = timer_expire /\ timer_pending' = timer_pending
      /\ timer_at' = timer_at /\ timer_tmp' = timer_tmp /\ timer_fired' = timer_fired
      /\ timer_overlap' = timer_overlap
  BY SameTimerLists DEF Timers!Add, Timers!AddTimer
<1>2. /\ \A a \in Activation : timer_at[a] = "off"
      /\ timer_pending = FALSE
  BY <1>1, NodesOfTimers DEF Keeps, Quiet, TimersTyped
<1>3. \A u \in timer_added : ~Behind(l.next[u])
  <2>1. \A u \in timer_added : ~(timer_expire[u] <= timer_jiffies)
    BY <1>1, NodesOfTimers DEF TimersTyped
  <2>2. \A u \in timer_added : Behind(l.next[u]) => AllDue
    BY DEF Keeps, Emptied
  <2> QED
    BY <2>1, <2>2 DEF AllDue
<1>4. /\ \A n \in Linked : timer_list.prev[n] = l.prev[n]
      /\ timer_list.next[QHead] = l.next[QHead]
      /\ \A u \in timer_added : timer_list.next[u] = l.next[u] /\ timer_fired[u] = 0
  <2>1. \A u \in timer_added : timer_fired[u] = 0
    BY <1>3, NodesOfTimers DEF Keeps, Emptied, TimersTyped
  <2>2. timer_list.next[QHead] = l.next[QHead]
    BY <1>3 DEF Keeps, Emptied
  <2>3. \A n \in Linked : timer_list.prev[n] = l.prev[n]
    BY <1>3, NodesOfTimers DEF Keeps, Emptied, Behind
  <2> QED
    BY <2>1, <2>2, <2>3 DEF Keeps, Built
<1>5. WellLinked(timer_list, Linked, QHead)
  <2>1. \A n \in Linked : timer_list.next[n] = l.next[n] /\ timer_list.prev[n] = l.prev[n]
    BY <1>4 DEF Linked
  <2>2. WellLinked(l, Linked, QHead)
    BY DEF Keeps, Built
  <2>3. Ring(timer_list, Linked)
    BY <2>1, <2>2 DEF WellLinked, Ring
  <2>4. OneCycle(timer_list, Linked, QHead)
    BY <2>1, <2>2 DEF WellLinked, OneCycle
  <2> QED
    BY <2>2, <2>3, <2>4 DEF WellLinked
<1>6. timer_list.next[QHead] \in B => timer_added \subseteq B
  <2>1. SUFFICES ASSUME timer_list.next[QHead] \in B, NEW u \in timer_added
                 PROVE  u \in B
    OBVIOUS
  <2>2. l.next[QHead] # QHead /\ l.next[QHead] \in timer_added
    BY <1>4, <2>1, NodesOfTimers DEF Linked
  <2>3. timer_expire[u] <= timer_expire[l.next[QHead]]
    BY <2>2 DEF Keeps, Built
  <2>4. /\ timer_expire[u] \in Nat /\ timer_expire[t] \in Nat
        /\ timer_expire[l.next[QHead]] \in Nat /\ u \in Timer
    BY <2>2, NodesOfTimers DEF TimersTyped
  <2> QED
    BY <1>4, <2>1, <2>3, <2>4
<1>7. PICK k : k = ListAddBehind(timer_list, WalkEnd(timer_list, QHead, B), t)
  OBVIOUS
<1>8. /\ k \in ListMemory(Cells) /\ WellLinked(k, Linked \cup {t}, QHead)
      /\ \/ l.next[QHead] \in B \cup {QHead} /\ k.next[QHead] = t
         \/ l.next[QHead] \notin B \cup {QHead} /\ k.next[QHead] = l.next[QHead]
  <2>1. /\ timer_list \in ListMemory(Cells) /\ Linked \in SUBSET Cells
        /\ QHead \notin B /\ t \in Cells \ Linked
        /\ WellLinked(timer_list, Linked, QHead)
    BY <1>1, <1>5, NodesOfTimers DEF TimersTyped, Cells, Linked
  <2> HIDE DEF B
  <2> QED
    <3>1. timer_list.next[QHead] \in B => Linked \ {QHead} \subseteq B
      BY <1>6 DEF Linked
    <3>2. WalkEnd(timer_list, QHead, B) =
            IF timer_list.next[QHead] \in B THEN QHead ELSE timer_list.next[QHead]
      BY <2>1, <3>1, SearchEndsEarly
    <3>3. WalkEnd(timer_list, QHead, B) \in Linked
      BY <1>4, <3>2, NodesOfTimers DEF Linked
    <3>4. /\ k \in ListMemory(Cells) /\ WellLinked(k, Linked \cup {t}, QHead)
          /\ k.next[QHead] = IF WalkEnd(timer_list, QHead, B) = QHead THEN t
                             ELSE timer_list.next[QHead]
      <4>1. PICK s \in Linked : s = WalkEnd(timer_list, QHead, B)
        BY <3>3
      <4>2. /\ ListAddBehind(timer_list, s, t) \in ListMemory(Cells)
            /\ WellLinked(ListAddBehind(timer_list, s, t), Linked \cup {t}, QHead)
            /\ ListAddBehind(timer_list, s, t).next[QHead] =
                 IF s = QHead THEN t ELSE timer_list.next[QHead]
        BY <2>1, AddBehindLinks
      <4> QED
        BY <1>7, <4>1, <4>2
    <3> QED
      BY <1>4, <3>2, <3>4
<1>9. timer_list' = k /\ Linked' = Linked \cup {t}
  BY <1>1, <1>7 DEF Linked
<1>10. TimersTyped'
  BY <1>1, <1>8, <1>9, NodesOfTimers DEF TimersTyped
<1>11. Quiet'
  BY <1>1, <1>2 DEF Keeps, Quiet
<1>12. Built(k)'
  <2>1. ASSUME k.next[QHead] # QHead, NEW u \in timer_added \cup {t}
        PROVE  timer_expire[u] <= timer_expire[k.next[QHead]]
    <3>1. /\ \A v \in Timer : timer_expire[v] \in Nat
          /\ timer_added \subseteq Timer
      BY NodesOfTimers DEF TimersTyped
    <3>2. l.next[QHead] \in timer_added =>
            \A v \in timer_added : timer_expire[v] <= timer_expire[l.next[QHead]]
      BY NodesOfTimers DEF Keeps, Built
    <3>3. CASE l.next[QHead] = QHead
      <4>1. timer_added = {}
        <5>1. timer_added \in SUBSET (Linked \ {QHead}) /\ timer_added \subseteq Linked
          BY NodesOfTimers DEF Linked
        <5>2. \A v \in timer_added : l.next[v] \in timer_added
          BY <3>3, NodesOfTimers DEF Linked
        <5> QED
          BY <5>1, <5>2 DEF Keeps, Built, WellLinked, OneCycle
      <4> QED
        BY <1>8, <3>1, <3>3, <4>1
    <3>4. CASE l.next[QHead] \in B
      BY <1>4, <1>6, <1>8, <3>1, <3>4
    <3>5. CASE l.next[QHead] \notin B /\ l.next[QHead] # QHead
      <4>1. k.next[QHead] = l.next[QHead] /\ l.next[QHead] \in timer_added
        BY <1>8, <3>5, NodesOfTimers DEF Linked
      <4>2. timer_expire[t] <= timer_expire[l.next[QHead]]
        BY <3>1, <3>5, <4>1
      <4> QED
        BY <3>2, <4>1, <4>2
    <3> QED
      BY <3>3, <3>4, <3>5
  <2> QED
    BY <1>1, <1>8, <1>9, <2>1 DEF Built
<1>13. /\ k.next[QHead] \in Linked' /\ k.prev[k.next[QHead]] = QHead
       /\ \A u \in timer_added' : k.prev[k.next[u]] = u /\ u # QHead
  <2>1. QHead \notin timer_added \cup {t}
    BY NodesOfTimers
  <2>2. timer_added \cup {t} = (Linked \cup {t}) \ {QHead}
    BY <2>1 DEF Linked
  <2>3. /\ k.next[QHead] \in Linked \cup {t}
        /\ k.prev[k.next[QHead]] = QHead
        /\ \A u \in timer_added \cup {t} : k.prev[k.next[u]] = u
    BY <1>8, <2>2, Successors
  <2> QED
    BY <1>1, <1>9, <2>1, <2>3
<1>14. Emptied(k)'
  <2>1. \A u \in timer_added' : ~(timer_list.prev[k.next[u]] = QHead)'
    BY <1>9, <1>13
  <2>2. \A u \in timer_added' : timer_fired'[u] = 0
    BY <1>1, <1>4 DEF Keeps, Quiet
  <2> QED
    BY <1>9, <1>13, <2>1, <2>2 DEF Emptied, Behind
<1>15. Holding(k)' /\ Alone(k)'
  <2>1. \A u \in timer_added' : timer_fired'[u] = 0 /\ ~(timer_list.prev[k.next[u]] = QHead)'
    BY <1>1, <1>4, <1>9, <1>13 DEF Keeps, Quiet
  <2> QED
    BY <1>1, <1>2, <2>1 DEF Holding, Alone, Running, Emptying, Behind
<1> QED
  BY <1>8, <1>10, <1>11, <1>12, <1>14, <1>15 DEF Keeps
-----------------------------------------------------------------------------
\* What is said of the list as it was built stays while the timers keep their successors.
LEMMA BuiltStays ==
  ASSUME NEW l, Built(l), timer_added' = timer_added, timer_expire' = timer_expire,
         \A t \in timer_added : timer_list'.next[t] = timer_list.next[t]
  PROVE  Built(l)' /\ Linked' = Linked
BY DEF Built, Linked

\* A step outside the loop of do_timer.
Outside ==
  /\ UNCHANGED <<timer_added, timer_list, timer_expire, timer_tmp, timer_fired, timer_overlap>>
  /\ \A b \in Activation :
       timer_at'[b] # timer_at[b] => ~Running(b) /\ ~Running(b)'
  /\ \A n \in Nat : n <= timer_jiffies => n <= timer_jiffies'

\* Such a step keeps what is said of the list and of those in the loop.
LEMMA OutsideKeeps ==
  ASSUME NEW l \in ListMemory(Cells), Keeps(l), Outside
  PROVE  Built(l)' /\ Emptied(l)' /\ Holding(l)' /\ Alone(l)'
<1>1. /\ timer_added' = timer_added /\ timer_list' = timer_list
      /\ timer_expire' = timer_expire /\ timer_tmp' = timer_tmp
      /\ timer_fired' = timer_fired /\ timer_overlap' = timer_overlap
  BY DEF Outside
<1>2. \A b \in Activation :
        /\ Running(b)' <=> Running(b)
        /\ Emptying(b)' <=> Emptying(b)
        /\ \A p \in {"test", "unlink", "relink", "call", "advance"} :
             timer_at'[b] = p <=> timer_at[b] = p
  BY DEF Outside, Running, Emptying
<1>3. Built(l)' /\ Linked' = Linked
  BY <1>1, BuiltStays DEF Keeps
<1>4. \A n : Behind(n)' <=> Behind(n)
  BY <1>1 DEF Behind
<1>5. AllDue => AllDue'
  <2>1. \A u \in timer_added : timer_expire[u] \in Nat
    BY NodesOfTimers DEF TimersTyped
  <2> QED
    BY <1>1, <2>1 DEF AllDue, Outside
<1>6. Emptied(l)'
  BY <1>1, <1>2, <1>3, <1>4, <1>5 DEF Keeps, Emptied
<1>7. Holding(l)'
  BY <1>1, <1>2, <1>3, <1>4, <1>5 DEF Keeps, Holding
<1>8. Alone(l)'
  BY <1>1, <1>2, <1>3, <1>4 DEF Keeps, Alone
<1> QED
  BY <1>3, <1>6, <1>7, <1>8

\* HPET_handler and every other interrupt: the clock goes on, and one more activation may
\* begin.
LEMMA ClockKeeps ==
  ASSUME NEW l \in ListMemory(Cells), Keeps(l), Timers!Tick \/ Timers!Interrupt
  PROVE  Keeps(l)'
<1>1. /\ UNCHANGED <<timer_added, timer_list, timer_expire, timer_tmp, timer_fired,
                     timer_overlap>>
      /\ \/ timer_at' = timer_at
         \/ /\ timer_pending'
            /\ \E a \in Activation : /\ timer_at[a] = "off"
                                     /\ timer_at' = [timer_at EXCEPT ![a] = "enter"]
  <2>1. ASSUME NEW p, Timers!Return(p)
        PROVE  /\ UNCHANGED <<timer_added, timer_list, timer_expire, timer_tmp, timer_fired,
                              timer_overlap>>
               /\ \/ timer_at' = timer_at
                  \/ /\ timer_pending'
                     /\ \E a \in Activation :
                          /\ timer_at[a] = "off"
                          /\ timer_at' = [timer_at EXCEPT ![a] = "enter"]
    BY <2>1 DEF Timers!Return
  <2> QED
    BY <2>1 DEF Timers!Tick, Timers!Interrupt
<1>2. \A b \in Activation :
        timer_at'[b] # timer_at[b] => timer_at[b] = "off" /\ timer_at'[b] = "enter"
  BY <1>1, NodesOfTimers DEF TimersTyped
<1>3. timer_jiffies \in Nat /\ timer_jiffies' \in 0 .. MaxJiffies
      /\ timer_jiffies <= timer_jiffies'
  BY NodesOfTimers DEF TimersTyped, Timers!Tick, Timers!Interrupt
<1>4. Outside
  BY <1>1, <1>2, <1>3 DEF Outside, Running
<1>5. timer_pending' \in BOOLEAN
  BY NodesOfTimers DEF TimersTyped, Timers!Tick, Timers!Interrupt, Timers!Return
<1>6. timer_jiffies' = 0 => ~timer_pending'
  <2>1. SUFFICES ASSUME timer_jiffies' = 0 PROVE ~timer_pending'
    OBVIOUS
  <2>2. timer_jiffies = 0 /\ timer_pending = FALSE
    BY <1>3, <2>1, NodesOfTimers DEF Keeps, Quiet, TimersTyped
  <2>3. CASE Timers!Interrupt
    BY <2>2, <2>3 DEF Timers!Interrupt, Timers!Return
  <2>4. CASE Timers!Tick
    <3>1. ~(Timers!Due(timer_list.next[QHead], timer_expire) <= 0)
      <4>1. timer_list.next[QHead] = QHead \/ timer_list.next[QHead] \in timer_added
        BY DEF Keeps, Emptied, Linked
      <4>2. \A u \in timer_added : ~(timer_expire[u] <= 0)
        BY NodesOfTimers DEF TimersTyped
      <4>3. ~(MaxJiffies + 1 <= 0)
        BY NodesOfTimers
      <4> QED
        BY <4>1, <4>2, <4>3, NodesOfTimers DEF Timers!Due, Timers!Never
    <3> QED
      BY <2>1, <2>2, <2>4, <3>1 DEF Timers!Tick, Timers!Return
  <2> QED
    BY <2>3, <2>4
<1>7. Quiet'
  <2>1. timer_jiffies' = 0 => \A a \in Activation : timer_at'[a] = "off"
    BY <1>1, <1>3, <1>6 DEF Keeps, Quiet
  <2> QED
    BY <1>1, <1>6, <2>1 DEF Keeps, Quiet
<1>8. TimersTyped'
  BY <1>1, <1>3, <1>5, NodesOfTimers DEF TimersTyped
<1> QED
  BY <1>4, <1>7, <1>8, OutsideKeeps DEF Keeps

\* do_softirq begins, and ends.
LEMMA EnterClearKeeps ==
  ASSUME NEW l \in ListMemory(Cells), Keeps(l), NEW a \in Activation,
         Timers!Enter(a) \/ Timers!Clear(a)
  PROVE  Keeps(l)'
<1>1. /\ UNCHANGED <<timer_added, timer_list, timer_expire, timer_jiffies, timer_tmp,
                     timer_fired, timer_overlap>>
      /\ timer_at[a] \in {"enter", "clear"}
      /\ \/ timer_at' = [timer_at EXCEPT ![a] = "first"]
         \/ timer_at' = [timer_at EXCEPT ![a] = "off"]
      /\ timer_pending' \in BOOLEAN
  BY NodesOfTimers DEF Timers!Enter, Timers!Clear, Timers!Go, TimersTyped
<1>2. \A b \in Activation :
        timer_at'[b] # timer_at[b] =>
          timer_at[b] \in {"enter", "clear"} /\ timer_at'[b] \in {"first", "off"}
  BY <1>1, NodesOfTimers DEF TimersTyped
<1>3. Outside
  BY <1>1, <1>2 DEF Outside, Running
<1>4. timer_jiffies # 0
  BY <1>1 DEF Keeps, Quiet
<1>5. Quiet'
  BY <1>1, <1>4 DEF Keeps, Quiet
<1>6. TimersTyped'
  BY <1>1, NodesOfTimers DEF TimersTyped
<1> QED
  BY <1>3, <1>5, <1>6, OutsideKeeps DEF Keeps
-----------------------------------------------------------------------------
\* A step of an activation in the loop, and what it says of the others.
Moves(a, p) == timer_at' = [timer_at EXCEPT ![a] = p]

\* What every step in the loop keeps.
LEMMA LoopSteps ==
  ASSUME NEW l \in ListMemory(Cells), Keeps(l), NEW a \in Activation,
         timer_at[a] # "off", NEW p, Moves(a, p),
         p \in {"clear", "test", "unlink", "relink", "call", "advance"},
         UNCHANGED <<timer_added, timer_expire, timer_jiffies, timer_pending>>,
         \A t \in timer_added : timer_list'.next[t] = timer_list.next[t],
         timer_list' \in ListMemory(Cells), timer_tmp' \in [Activation -> Cells],
         timer_fired' \in [Timer -> Nat], timer_overlap' \in BOOLEAN,
         \A t \in Timer \ timer_added : timer_fired'[t] = timer_fired[t]
  PROVE  /\ TimersTyped' /\ Quiet' /\ Built(l)' /\ Linked' = Linked /\ AllDue' = AllDue
         /\ timer_added' = timer_added
         /\ timer_at'[a] = p /\ \A b \in Activation \ {a} : timer_at'[b] = timer_at[b]
<1>1. /\ timer_at'[a] = p
      /\ \A b \in Activation \ {a} : timer_at'[b] = timer_at[b]
      /\ timer_at' \in [Activation -> {"off", "enter", "first", "clear", "test", "unlink",
                                       "relink", "call", "advance"}]
  BY NodesOfTimers DEF TimersTyped, Moves
<1>2. TimersTyped'
  BY <1>1, NodesOfTimers DEF TimersTyped
<1>3. Quiet'
  BY DEF Keeps, Quiet
<1>4. Built(l)' /\ Linked' = Linked
  BY BuiltStays DEF Keeps
<1>5. AllDue' = AllDue
  BY DEF AllDue
<1> QED
  BY <1>1, <1>2, <1>3, <1>4, <1>5

\* do_timer takes the first of the list, at its start and after each call.
LEMMA FirstKeeps ==
  ASSUME NEW l \in ListMemory(Cells), Keeps(l), NEW a \in Activation, Timers!First(a)
  PROVE  Keeps(l)'
<1>1. /\ timer_at[a] = "first" /\ Moves(a, "test")
      /\ timer_tmp' = [timer_tmp EXCEPT ![a] = timer_list.next[QHead]]
      /\ timer_overlap' = (timer_overlap \/ \E b \in Activation \ {a} : Running(b))
      /\ UNCHANGED <<timer_added, timer_list, timer_expire, timer_jiffies, timer_pending,
                     timer_fired>>
  BY DEF Timers!First, Timers!Go, Timers!InLoop, Moves, Running
<1>2. timer_list.next[QHead] \in Linked /\ Behind(timer_list.next[QHead])
  BY DEF Keeps, Emptied
<1>3. timer_tmp' \in [Activation -> Cells] /\ timer_overlap' \in BOOLEAN
  BY <1>1, <1>2, NodesOfTimers DEF TimersTyped
<1>4. /\ TimersTyped' /\ Quiet' /\ Built(l)' /\ Linked' = Linked /\ AllDue' = AllDue
      /\ timer_added' = timer_added
      /\ timer_at'[a] = "test" /\ \A b \in Activation \ {a} : timer_at'[b] = timer_at[b]
  BY <1>1, <1>3, NodesOfTimers, LoopSteps DEF TimersTyped
<1>5. /\ timer_tmp'[a] = timer_list.next[QHead]
      /\ \A b \in Activation \ {a} : timer_tmp'[b] = timer_tmp[b]
  BY <1>1, NodesOfTimers DEF TimersTyped
<1>6. \A n : Behind(n)' <=> Behind(n)
  BY <1>1 DEF Behind
<1>7. \A b \in Activation \ {a} : /\ Running(b)' <=> Running(b)
                                  /\ Emptying(b)' <=> Emptying(b)
  BY <1>4 DEF Running, Emptying
<1>8. Running(a)' /\ ~Emptying(a)' /\ ~Running(a) /\ ~Emptying(a)
  BY <1>1, <1>4 DEF Running, Emptying
<1>9. Emptied(l)'
  BY <1>1, <1>4, <1>5, <1>6, <1>7, <1>8 DEF Keeps, Emptied
<1>10. Holding(l)'
  BY <1>1, <1>2, <1>4, <1>5, <1>6, <1>7, <1>8 DEF Keeps, Holding
<1>11. Alone(l)'
  <2>1. CASE timer_overlap'
    BY <2>1 DEF Alone
  <2>2. CASE ~timer_overlap'
    <3>1. ~timer_overlap /\ \A b \in Activation \ {a} : ~Running(b)
      BY <1>1, <2>2
    <3>2. \A b \in Activation \ {a} :
            timer_at[b] \notin {"test", "unlink", "relink", "call", "advance"}
      BY <3>1 DEF Running
    <3> QED
      BY <1>1, <1>4, <1>5, <1>6, <1>7, <1>8, <3>1, <3>2 DEF Keeps, Alone
  <2> QED
    BY <2>1, <2>2
<1> QED
  BY <1>4, <1>9, <1>10, <1>11 DEF Keeps

\* ... and again after a call.
LEMMA AdvanceKeeps ==
  ASSUME NEW l \in ListMemory(Cells), Keeps(l), NEW a \in Activation, Timers!Advance(a)
  PROVE  Keeps(l)'
<1>1. /\ timer_at[a] = "advance" /\ Moves(a, "test")
      /\ timer_tmp' = [timer_tmp EXCEPT ![a] = timer_list.next[QHead]]
      /\ UNCHANGED <<timer_added, timer_list, timer_expire, timer_jiffies, timer_pending,
                     timer_fired, timer_overlap>>
  BY DEF Timers!Advance, Timers!Go, Moves
<1>2. timer_list.next[QHead] \in Linked /\ Behind(timer_list.next[QHead])
  BY DEF Keeps, Emptied
<1>3. timer_tmp' \in [Activation -> Cells]
  BY <1>1, <1>2, NodesOfTimers DEF TimersTyped
<1>4. /\ TimersTyped' /\ Quiet' /\ Built(l)' /\ Linked' = Linked /\ AllDue' = AllDue
      /\ timer_added' = timer_added
      /\ timer_at'[a] = "test" /\ \A b \in Activation \ {a} : timer_at'[b] = timer_at[b]
  BY <1>1, <1>3, NodesOfTimers, LoopSteps DEF TimersTyped
<1>5. /\ timer_tmp'[a] = timer_list.next[QHead]
      /\ \A b \in Activation \ {a} : timer_tmp'[b] = timer_tmp[b]
  BY <1>1, NodesOfTimers DEF TimersTyped
<1>6. \A n : Behind(n)' <=> Behind(n)
  BY <1>1 DEF Behind
<1>7. \A b \in Activation \ {a} : /\ Running(b)' <=> Running(b)
                                  /\ Emptying(b)' <=> Emptying(b)
  BY <1>4 DEF Running, Emptying
<1>8. Running(a)' /\ ~Emptying(a)' /\ Running(a) /\ Emptying(a)
  BY <1>1, <1>4 DEF Running, Emptying
<1>9. Emptied(l)'
  BY <1>1, <1>4, <1>5, <1>6, <1>7, <1>8 DEF Keeps, Emptied
<1>10. Holding(l)'
  BY <1>1, <1>2, <1>4, <1>5, <1>6, <1>7, <1>8 DEF Keeps, Holding
<1>11. Alone(l)'
  BY <1>1, <1>4, <1>5, <1>6, <1>7, <1>8 DEF Keeps, Alone
<1> QED
  BY <1>4, <1>9, <1>10, <1>11 DEF Keeps

\* The loop goes on while the first one is due, which is the last to be, and stops at the
\* empty list or at its head.
LEMMA TestKeeps ==
  ASSUME NEW l \in ListMemory(Cells), Keeps(l), NEW a \in Activation, Timers!Test(a)
  PROVE  Keeps(l)'
<1> DEFINE goes == /\ ~ListIsEmpty(timer_list, QHead)
                   /\ Timers!Due(timer_tmp[a], timer_expire) <= timer_jiffies
           p == IF goes THEN "unlink" ELSE "clear"
<1>1. /\ timer_at[a] = "test" /\ Moves(a, p)
      /\ UNCHANGED <<timer_added, timer_list, timer_expire, timer_jiffies, timer_pending,
                     timer_tmp, timer_fired, timer_overlap>>
  BY SameTimerLists DEF Timers!Test, Timers!Go, Moves
<1>2. timer_tmp[a] \in Linked /\ Behind(timer_tmp[a])
  BY <1>1 DEF Keeps, Holding, Running
<1>3. goes => timer_tmp[a] # QHead /\ AllDue
  <2>1. SUFFICES ASSUME goes PROVE timer_tmp[a] # QHead /\ AllDue
    OBVIOUS
  <2>2. ~(MaxJiffies + 1 <= timer_jiffies)
    BY NodesOfTimers DEF TimersTyped
  <2>3. timer_tmp[a] # QHead
    BY <2>1, <2>2 DEF Timers!Due, Timers!Never
  <2>4. timer_tmp[a] \in timer_added /\ timer_expire[timer_tmp[a]] <= timer_jiffies
    BY <1>2, <2>1, <2>3 DEF Timers!Due, Linked
  <2> QED
    BY <1>2, <2>3, <2>4, LastOneDue
<1>4. timer_tmp[a] # QHead /\ timer_list.next[QHead] # QHead /\ AllDue => goes
  <2>1. SUFFICES ASSUME timer_tmp[a] # QHead, timer_list.next[QHead] # QHead, AllDue
                 PROVE  goes
    OBVIOUS
  <2>2. timer_tmp[a] \in timer_added
    BY <1>2, <2>1 DEF Linked
  <2> QED
    BY <2>1, <2>2 DEF AllDue, Timers!Due, ListIsEmpty
<1> HIDE DEF goes
<1>5. /\ TimersTyped' /\ Quiet' /\ Built(l)' /\ Linked' = Linked /\ AllDue' = AllDue
      /\ timer_added' = timer_added
      /\ timer_at'[a] = p /\ \A b \in Activation \ {a} : timer_at'[b] = timer_at[b]
  BY <1>1, NodesOfTimers, LoopSteps DEF TimersTyped
<1>6. \A n : Behind(n)' <=> Behind(n)
  BY <1>1 DEF Behind
<1>7. \A b \in Activation \ {a} : /\ Running(b)' <=> Running(b)
                                  /\ Emptying(b)' <=> Emptying(b)
  BY <1>5 DEF Running, Emptying
<1>8. /\ Running(a) /\ ~Emptying(a)
      /\ Running(a)' <=> goes
      /\ Emptying(a)' <=> goes
  BY <1>1, <1>5 DEF Running, Emptying
<1>9. Emptied(l)'
  <2>1. ASSUME NEW t \in timer_added, Behind(l.next[t]), timer_list.next[QHead] # QHead
        PROVE  \E b \in Activation :
                 Emptying(b)' \/ (timer_at'[b] = "test" /\ timer_tmp'[b] # QHead)
    <3>1. AllDue
      BY <2>1 DEF Keeps, Emptied
    <3>2. PICK b \in Activation :
            Emptying(b) \/ (timer_at[b] = "test" /\ timer_tmp[b] # QHead)
      BY <2>1 DEF Keeps, Emptied
    <3>3. CASE b = a
      BY <1>4, <1>8, <2>1, <3>1, <3>2, <3>3
    <3>4. CASE b # a
      BY <1>1, <1>5, <1>7, <3>2, <3>4
    <3> QED
      BY <3>3, <3>4
  <2>2. ASSUME NEW t \in timer_added,
               \E b \in Activation : timer_tmp[b] = t /\ timer_at[b] \in {"relink", "call"}
        PROVE  \E b \in Activation :
                 timer_tmp'[b] = t /\ timer_at'[b] \in {"relink", "call"}
    BY <1>1, <1>5, <2>2
  <2>3. \A t \in timer_added : Behind(l.next[t]) =>
          /\ Behind(t) /\ AllDue
          /\ \/ timer_fired[t] > 0
             \/ \E b \in Activation :
                  timer_tmp'[b] = t /\ timer_at'[b] \in {"relink", "call"}
    BY <2>2 DEF Keeps, Emptied
  <2> QED
    BY <1>1, <1>5, <1>6, <2>1, <2>3 DEF Keeps, Emptied
<1>10. Holding(l)'
  BY <1>1, <1>2, <1>3, <1>5, <1>6, <1>7, <1>8 DEF Keeps, Holding
<1>11. Alone(l)'
  BY <1>1, <1>5, <1>6, <1>7, <1>8 DEF Keeps, Alone
<1> QED
  BY <1>5, <1>9, <1>10, <1>11 DEF Keeps

\* del_timer's first store: the successor of the timer is pointed at the head.
LEMMA UnlinkKeeps ==
  ASSUME NEW l \in ListMemory(Cells), Keeps(l), NEW a \in Activation, Timers!Unlink(a)
  PROVE  Keeps(l)'
<1> DEFINE t == timer_tmp[a]
<1>1. /\ timer_at[a] = "unlink" /\ Moves(a, "relink")
      /\ timer_list' =
           [timer_list EXCEPT !.prev[timer_list.next[t]] = timer_list.prev[t]]
      /\ UNCHANGED <<timer_added, timer_expire, timer_jiffies, timer_pending,
                     timer_tmp, timer_fired, timer_overlap>>
  BY DEF Timers!Unlink, Timers!Go, Moves
<1>2. t \in timer_added /\ Behind(t) /\ AllDue
  BY <1>1 DEF Keeps, Holding, Running, Emptying, Linked
<1>3. timer_list.next[t] = l.next[t] /\ timer_list.prev[t] = QHead
  BY <1>2 DEF Keeps, Built, Behind
<1>4. /\ timer_list' \in ListMemory(Cells)
      /\ \A n \in Cells : /\ timer_list'.next[n] = timer_list.next[n]
                          /\ timer_list'.prev[n] = IF n = l.next[t] THEN QHead
                                                   ELSE timer_list.prev[n]
  BY <1>1, <1>2, <1>3, NodesOfTimers DEF TimersTyped, ListMemory, Cells
<1>5. PICK s \in Linked : s = l.next[t]
  BY <1>2, NodesOfTimers
<1>6. \A n \in Linked : Behind(n)' <=> Behind(n) \/ n = s
  BY <1>4, <1>5, NodesOfTimers DEF Behind
<1>7. \A u \in timer_added : timer_list'.next[u] = timer_list.next[u]
  BY <1>4, NodesOfTimers DEF Linked
<1>8. /\ TimersTyped' /\ Quiet' /\ Built(l)' /\ Linked' = Linked /\ AllDue' = AllDue
      /\ timer_added' = timer_added
      /\ timer_at'[a] = "relink" /\ \A b \in Activation \ {a} : timer_at'[b] = timer_at[b]
  BY <1>1, <1>4, <1>7, NodesOfTimers, LoopSteps DEF TimersTyped
<1>9. \A b \in Activation \ {a} : /\ Running(b)' <=> Running(b)
                                  /\ Emptying(b)' <=> Emptying(b)
  BY <1>8 DEF Running, Emptying
<1>10. Running(a)' /\ Emptying(a)' /\ Running(a) /\ Emptying(a)
  BY <1>1, <1>8 DEF Running, Emptying
<1>11. timer_list'.next[QHead] = timer_list.next[QHead] /\ timer_list.next[QHead] \in Linked
  BY <1>4 DEF Keeps, Emptied, Cells
<1>12. \A u \in timer_added :
         /\ l.next[u] \in Linked /\ u \in Linked
         /\ Behind(l.next[u])' <=> Behind(l.next[u]) \/ u = t
  BY <1>2, <1>5, <1>6, NodesOfTimers DEF Linked
<1>13. Emptied(l)'
  <2>1. \A n \in Linked : timer_list'.prev[n] \in {l.prev[n], QHead}
    BY <1>4, NodesOfTimers DEF Keeps, Emptied
  <2>2. timer_list'.next[QHead] \in Linked /\ Behind(timer_list.next[QHead])'
    BY <1>6, <1>11 DEF Keeps, Emptied
  <2>3. ASSUME NEW u \in timer_added, Behind(l.next[u])'
        PROVE  /\ Behind(u)' /\ AllDue
               /\ \/ timer_fired[u] > 0
                  \/ \E b \in Activation :
                       timer_tmp[b] = u /\ timer_at'[b] \in {"relink", "call"}
    <3>1. CASE u = t
      BY <1>2, <1>6, <1>8, <1>12, <3>1
    <3>2. CASE u # t
      <4>1. Behind(l.next[u])
        BY <1>12, <2>3, <3>2
      <4> QED
        BY <1>1, <1>6, <1>8, <1>12, <4>1 DEF Keeps, Emptied
    <3> QED
      BY <3>1, <3>2
  <2>4. \A u \in timer_added : timer_fired[u] > 0 => Behind(l.next[u])'
    BY <1>12 DEF Keeps, Emptied
  <2> QED
    BY <1>1, <1>2, <1>8, <1>10, <1>11, <1>12, <2>1, <2>2, <2>3, <2>4 DEF Emptied
<1>14. Holding(l)'
  <2>1. \A b \in Activation : Running(b) => timer_tmp[b] \in Linked /\ Behind(timer_tmp[b])'
    BY <1>1, <1>6 DEF Keeps, Holding
  <2>2. \A b \in Activation \ {a} :
          timer_at[b] \in {"relink", "call", "advance"} => Behind(l.next[timer_tmp[b]])'
    <3>1. \A b \in Activation :
            timer_at[b] \in {"relink", "call", "advance"} =>
              timer_tmp[b] \in timer_added /\ Behind(l.next[timer_tmp[b]])
      BY DEF Keeps, Holding, Running, Emptying, Linked
    <3> QED
      BY <1>1, <1>12, <3>1
  <2>3. Behind(l.next[t])'
    BY <1>1, <1>2, <1>12
  <2> QED
    BY <1>1, <1>2, <1>8, <1>9, <1>10, <2>1, <2>2, <2>3 DEF Keeps, Holding
<1>15. Alone(l)'
  <2>1. SUFFICES ASSUME ~timer_overlap PROVE Alone(l)'
    BY <1>1 DEF Alone
  <2>2. /\ \A b \in Activation : Running(b) => b = a
        /\ t = timer_list.next[QHead]
    BY <1>1, <1>10, <2>1 DEF Keeps, Alone
  <2>3. ~Behind(l.next[t])
    BY <1>1, <1>2, <2>1, <2>2 DEF Keeps, Alone, Running
  <2>4. timer_fired[t] = 0
    BY <1>2, <2>3, NodesOfTimers DEF Keeps, Emptied, TimersTyped
  <2>5. ASSUME s # QHead PROVE ~Behind(l.next[s])'
    <3>1. s \in timer_added /\ s # t
      BY <1>2, <1>5, <2>5, NodesOfTimers DEF Linked
    <3> QED
      BY <1>5, <1>12, <2>3, <3>1 DEF Keeps, Emptied
  <2>6. \A b \in Activation : Running(b)' => b = a
    BY <1>9, <2>2
  <2>7. \A b \in Activation : b # a =>
          timer_at'[b] \notin {"test", "unlink", "relink", "call", "advance"}
    BY <2>6 DEF Running
  <2>8. \A u \in timer_added : timer_fired[u] <= 1
    BY <2>1 DEF Keeps, Alone
  <2> QED
    BY <1>1, <1>5, <1>8, <1>11, <2>2, <2>4, <2>5, <2>6, <2>7, <2>8 DEF Alone
<1> QED
  BY <1>8, <1>13, <1>14, <1>15 DEF Keeps

\* Its second store: the head is pointed at the successor, an earlier one perhaps than
\* another activation has reached.
LEMMA RelinkKeeps ==
  ASSUME NEW l \in ListMemory(Cells), Keeps(l), NEW a \in Activation, Timers!Relink(a)
  PROVE  Keeps(l)'
<1> DEFINE t == timer_tmp[a]
<1>1. /\ timer_at[a] = "relink" /\ Moves(a, "call")
      /\ timer_list' =
           [timer_list EXCEPT !.next[timer_list.prev[t]] = timer_list.next[t]]
      /\ UNCHANGED <<timer_added, timer_expire, timer_jiffies, timer_pending,
                     timer_tmp, timer_fired, timer_overlap>>
  BY DEF Timers!Relink, Timers!Go, Moves
<1>2. t \in timer_added /\ Behind(t) /\ Behind(l.next[t]) /\ AllDue
  BY <1>1 DEF Keeps, Holding, Running, Emptying, Linked
<1>3. timer_list.next[t] = l.next[t] /\ timer_list.prev[t] = QHead
  BY <1>2 DEF Keeps, Built, Behind
<1>4. /\ timer_list' \in ListMemory(Cells)
      /\ timer_list'.prev = timer_list.prev
      /\ \A n \in Cells : timer_list'.next[n] = IF n = QHead THEN l.next[t]
                                                ELSE timer_list.next[n]
  BY <1>1, <1>2, <1>3, NodesOfTimers DEF TimersTyped, ListMemory, Cells
<1>5. \A u \in timer_added : timer_list'.next[u] = timer_list.next[u]
  BY <1>4, NodesOfTimers DEF Linked
<1>6. \A n : Behind(n)' <=> Behind(n)
  BY <1>4 DEF Behind
<1>7. timer_list'.next[QHead] = l.next[t] /\ l.next[t] \in Linked
  BY <1>2, <1>4, NodesOfTimers DEF Cells
<1>8. /\ TimersTyped' /\ Quiet' /\ Built(l)' /\ Linked' = Linked /\ AllDue' = AllDue
      /\ timer_added' = timer_added
      /\ timer_at'[a] = "call" /\ \A b \in Activation \ {a} : timer_at'[b] = timer_at[b]
  BY <1>1, <1>4, <1>5, NodesOfTimers, LoopSteps DEF TimersTyped
<1>9. \A b \in Activation \ {a} : /\ Running(b)' <=> Running(b)
                                  /\ Emptying(b)' <=> Emptying(b)
  BY <1>8 DEF Running, Emptying
<1>10. Running(a)' /\ Emptying(a)' /\ Running(a) /\ Emptying(a)
  BY <1>1, <1>8 DEF Running, Emptying
<1>11. Emptied(l)'
  <2>1. \A u \in timer_added : Behind(l.next[u]) =>
          /\ Behind(u) /\ AllDue
          /\ \/ timer_fired[u] > 0
             \/ \E b \in Activation :
                  timer_tmp'[b] = u /\ timer_at'[b] \in {"relink", "call"}
    BY <1>1, <1>8 DEF Keeps, Emptied
  <2>2. /\ \A n \in Linked : timer_list'.prev[n] \in {l.prev[n], QHead}
        /\ \A u \in timer_added : timer_fired[u] > 0 => Behind(l.next[u])
    BY <1>4 DEF Keeps, Emptied
  <2> QED
    BY <1>1, <1>2, <1>6, <1>7, <1>8, <1>10, <2>1, <2>2 DEF Emptied
<1>12. Holding(l)'
  BY <1>1, <1>2, <1>6, <1>8, <1>9, <1>10 DEF Keeps, Holding
<1>13. Alone(l)'
  <2>1. SUFFICES ASSUME ~timer_overlap PROVE Alone(l)'
    BY <1>1 DEF Alone
  <2>2. \A b \in Activation : Running(b) => b = a
    BY <1>10, <2>1 DEF Keeps, Alone
  <2>3. /\ timer_fired[t] = 0
        /\ l.next[t] # QHead => ~Behind(l.next[l.next[t]])
    BY <1>1, <2>1 DEF Keeps, Alone
  <2>4. \A b \in Activation : Running(b)' => b = a
    BY <1>9, <2>2
  <2>5. \A b \in Activation : b # a =>
          timer_at'[b] \notin {"test", "unlink", "relink", "call", "advance"}
    BY <2>4 DEF Running
  <2>6. \A u \in timer_added : timer_fired[u] <= 1
    BY <2>1 DEF Keeps, Alone
  <2>7. \A u \in timer_added : u # QHead
    BY NodesOfTimers
  <2> QED
    BY <1>1, <1>6, <1>7, <1>8, <2>3, <2>4, <2>5, <2>6, <2>7 DEF Alone
<1> QED
  BY <1>8, <1>11, <1>12, <1>13 DEF Keeps

\* The timer's function is called.
LEMMA CallKeeps ==
  ASSUME NEW l \in ListMemory(Cells), Keeps(l), NEW a \in Activation, Timers!Call(a)
  PROVE  Keeps(l)'
<1> DEFINE t == timer_tmp[a]
<1>1. /\ timer_at[a] = "call" /\ Moves(a, "advance")
      /\ timer_fired' = [timer_fired EXCEPT ![t] = @ + 1]
      /\ UNCHANGED <<timer_added, timer_list, timer_expire, timer_jiffies, timer_pending,
                     timer_tmp, timer_overlap>>
  BY DEF Timers!Call, Timers!Go, Moves
<1>2. t \in timer_added /\ Behind(l.next[t])
  BY <1>1 DEF Keeps, Holding, Running, Emptying, Linked
<1>3. /\ timer_fired' \in [Timer -> Nat]
      /\ timer_fired'[t] = timer_fired[t] + 1 /\ timer_fired'[t] > 0
      /\ \A u \in Timer : u # t => timer_fired'[u] = timer_fired[u]
  BY <1>1, <1>2, NodesOfTimers DEF TimersTyped
<1>4. timer_added \subseteq Timer
  BY NodesOfTimers DEF TimersTyped
<1>5. /\ TimersTyped' /\ Quiet' /\ Built(l)' /\ Linked' = Linked /\ AllDue' = AllDue
      /\ timer_added' = timer_added
      /\ timer_at'[a] = "advance" /\ \A b \in Activation \ {a} : timer_at'[b] = timer_at[b]
  BY <1>1, <1>2, <1>3, NodesOfTimers, LoopSteps DEF TimersTyped
<1>6. \A n : Behind(n)' <=> Behind(n)
  BY <1>1 DEF Behind
<1>7. \A b \in Activation \ {a} : /\ Running(b)' <=> Running(b)
                                  /\ Emptying(b)' <=> Emptying(b)
  BY <1>5 DEF Running, Emptying
<1>8. Running(a)' /\ Emptying(a)' /\ Running(a) /\ Emptying(a)
  BY <1>1, <1>5 DEF Running, Emptying
<1>9. Emptied(l)'
  <2>1. ASSUME NEW u \in timer_added, Behind(l.next[u])
        PROVE  \/ timer_fired'[u] > 0
               \/ \E b \in Activation :
                    timer_tmp'[b] = u /\ timer_at'[b] \in {"relink", "call"}
    <3>1. CASE u = t
      BY <1>3, <3>1
    <3>2. CASE u # t
      <4>1. \/ timer_fired[u] > 0
            \/ \E b \in Activation : timer_tmp[b] = u /\ timer_at[b] \in {"relink", "call"}
        BY <2>1 DEF Keeps, Emptied
      <4> QED
        BY <1>1, <1>3, <1>4, <1>5, <3>2, <4>1
    <3> QED
      BY <3>1, <3>2
  <2>2. \A u \in timer_added : timer_fired'[u] > 0 => Behind(l.next[u])
    BY <1>2, <1>3, <1>4 DEF Keeps, Emptied
  <2>3. \A u \in timer_added : Behind(l.next[u]) => Behind(u) /\ AllDue
    BY DEF Keeps, Emptied
  <2> QED
    BY <1>1, <1>5, <1>6, <1>8, <2>1, <2>2, <2>3 DEF Keeps, Emptied
<1>10. Holding(l)'
  BY <1>1, <1>5, <1>6, <1>7, <1>8 DEF Keeps, Holding
<1>11. Alone(l)'
  <2>1. SUFFICES ASSUME ~timer_overlap PROVE Alone(l)'
    BY <1>1 DEF Alone
  <2>2. \A b \in Activation : Running(b) => b = a
    BY <1>8, <2>1 DEF Keeps, Alone
  <2>3. timer_fired[t] = 0
    BY <1>1, <2>1 DEF Keeps, Alone
  <2>4. \A b \in Activation : Running(b)' => b = a
    BY <1>7, <2>2
  <2>5. \A b \in Activation : b # a =>
          timer_at'[b] \notin {"test", "unlink", "relink", "call", "advance"}
    BY <2>4 DEF Running
  <2>6. \A u \in timer_added : timer_fired'[u] <= 1
    BY <1>3, <1>4, <2>1, <2>3 DEF Keeps, Alone
  <2>7. \A u \in timer_added : u = timer_list.next[QHead] => ~Behind(l.next[u])
    <3>1. \A b \in Activation : timer_at[b] # "relink"
      BY <1>1, <2>2 DEF Running
    <3> QED
      BY <2>1, <3>1 DEF Keeps, Alone
  <2> QED
    BY <1>1, <1>5, <1>6, <2>4, <2>5, <2>6, <2>7 DEF Alone
<1> QED
  BY <1>5, <1>9, <1>10, <1>11 DEF Keeps

-----------------------------------------------------------------------------
\* Every step of Timer keeps the invariant ...
LEMMA TimersStep ==
  ASSUME TimersIInv, Timers!Next
  PROVE  TimersIInv'
<1>1. PICK l \in ListMemory(Cells) : Keeps(l)
  BY DEF TimersIInv
<1>2. ASSUME NEW t \in Timer, Timers!Add(t) PROVE TimersIInv'
  BY <1>1, <1>2, AddKeeps DEF TimersIInv
<1>3. CASE Timers!Tick \/ Timers!Interrupt
  BY <1>1, <1>3, ClockKeeps DEF TimersIInv
<1>4. ASSUME NEW a \in Activation, Timers!DoSoftirq(a) PROVE Keeps(l)'
  BY <1>1, <1>4, EnterClearKeeps, FirstKeeps, TestKeeps, UnlinkKeeps, RelinkKeeps,
     CallKeeps, AdvanceKeeps DEF Timers!DoSoftirq
<1> QED
  BY <1>1, <1>2, <1>3, <1>4 DEF Timers!Next, TimersIInv

\* ... and so does every step of the other parts.
LEMMA TimersStutter ==
  ASSUME TimersIInv, UNCHANGED timerVars
  PROVE  TimersIInv'
<1>1. PICK l \in ListMemory(Cells) : Keeps(l)
  BY DEF TimersIInv
<1>2. Outside
  BY <1>1 DEF timerVars, Outside
<1>3. Built(l)' /\ Emptied(l)' /\ Holding(l)' /\ Alone(l)'
  BY <1>1, <1>2, OutsideKeeps
<1>4. TimersTyped' /\ Quiet'
  BY <1>1 DEF timerVars, Keeps, TimersTyped, Quiet
<1> QED
  BY <1>3, <1>4 DEF TimersIInv, Keeps

\* When no do_timer is in its loop the list holds exactly the timers not called.
LEMMA EmptyOrBuilt ==
  ASSUME NEW l \in ListMemory(Cells), Keeps(l), \A a \in Activation : ~Running(a)
  PROVE  WellLinked(timer_list, {t \in timer_added : timer_fired[t] = 0} \cup {QHead}, QHead)
<1> DEFINE S == {t \in timer_added : ~Behind(l.next[t])}
           U == {t \in timer_added : timer_fired[t] = 0}
<1>1. \A a \in Activation :
        ~Emptying(a) /\ timer_at[a] \notin {"test", "unlink", "relink", "call", "advance"}
  BY DEF Running, Emptying
<1>2. \A t \in timer_added : timer_fired[t] \in Nat
  BY NodesOfTimers DEF TimersTyped
<1>3. \A t \in timer_added : Behind(l.next[t]) <=> timer_fired[t] > 0
  BY <1>1 DEF Keeps, Emptied
<1>4. CASE \E t \in timer_added : Behind(l.next[t])
  <2>1. timer_list.next[QHead] = QHead /\ timer_list.prev[QHead] = QHead
    BY <1>1, <1>4 DEF Keeps, Emptied, Behind
  <2>2. ASSUME NEW t \in S PROVE l.next[t] \in S
    <3>1. l.next[t] \in timer_added
      BY <2>1, <2>2, NodesOfTimers DEF Linked, Behind
    <3> QED
      BY <2>2, <3>1 DEF Keeps, Emptied
  <2>3. S = {}
    <3>1. S \in SUBSET (Linked \ {QHead})
      BY NodesOfTimers DEF Linked
    <3>2. OneCycle(l, Linked, QHead)
      BY DEF Keeps, Built, WellLinked
    <3> QED
      BY <2>2, <3>1, <3>2 DEF OneCycle
  <2>4. U = {}
    BY <1>2, <1>3, <2>3
  <2> HIDE DEF U
  <2>5. WellLinked(timer_list, U \cup {QHead}, QHead)
    BY <2>1, <2>4 DEF WellLinked, Ring, OneCycle
  <2> QED
    BY <2>5 DEF U
<1>5. CASE \A t \in timer_added : ~Behind(l.next[t])
  <2>1. U = timer_added
    BY <1>2, <1>3, <1>5
  <2>2. \A n \in Linked : timer_list.next[n] = l.next[n]
    BY <1>5 DEF Keeps, Emptied, Built, Linked
  <2>3. \A n \in Linked : timer_list.prev[n] = l.prev[n]
    BY <1>5, NodesOfTimers DEF Keeps, Emptied, Behind
  <2>4. WellLinked(l, Linked, QHead)
    BY DEF Keeps, Built
  <2>5. Ring(timer_list, Linked)
    BY <2>2, <2>3, <2>4 DEF WellLinked, Ring
  <2>6. OneCycle(timer_list, Linked, QHead)
    BY <2>2, <2>3, <2>4 DEF WellLinked, OneCycle
  <2>7. WellLinked(timer_list, Linked, QHead)
    BY <2>4, <2>5, <2>6 DEF WellLinked
  <2> QED
    BY <2>1, <2>7 DEF Linked
<1> QED
  BY <1>4, <1>5

\* The invariant says that the timers are sound.
LEMMA KeepsSound ==
  ASSUME TimersIInv
  PROVE  TimersSound
<1>1. PICK l \in ListMemory(Cells) : Keeps(l)
  BY DEF TimersIInv
<1>2. Timers!TypeOK
  BY <1>1, TimerTypes DEF Keeps
<1>3. Timers!OnceOnly
  <2>1. \A t \in Timer \ timer_added : timer_fired[t] = 0
    BY <1>1 DEF Keeps, Quiet
  <2> QED
    BY <1>1, <2>1 DEF Timers!OnceOnly, Keeps, Alone
<1>4. Timers!WaitForTheLast
  BY <1>1 DEF Timers!WaitForTheLast, Keeps, Emptied, AllDue
<1>5. Timers!ListKept
  <2>1. SUFFICES ASSUME \A a \in Activation : ~Running(a)
                 PROVE  Timers!WellLinked(timer_list,
                          {t \in timer_added : timer_fired[t] = 0} \cup {QHead}, QHead)
    BY DEF Timers!ListKept, Timers!InLoop, Running
  <2> QED
    BY <1>1, <2>1, EmptyOrBuilt, SameTimerLists
<1> QED
  BY <1>2, <1>3, <1>4, <1>5 DEF TimersSound, Timers!Sound

\* However many runs of do_timer overlap, the list of timers is whole when none is in its
\* loop, no function is called before all are due, and none twice but by runs that overlap
\* (softirq.c:32, time.c:36, 67).
THEOREM TimersStaySound == AllSpec => []TimersSound
<1>1. AllInit => TimersIInv
  BY TimersBegin DEF AllInit
<1>2. TimersIInv /\ [AllNext]_allVars => TimersIInv'
  BY TimersStep, TimersStutter
     DEF AllNext, InterruptsNext, TimersNext, ScreenNext, allVars
<1>3. TimersIInv => TimersSound
  BY KeepsSound
<1> QED
  BY <1>1, <1>2, <1>3, PTL DEF AllSpec
-----------------------------------------------------------------------------
\* Division, from the definition of the quotient.
LEMMA Divided ==
  ASSUME NEW d \in Nat \ {0}, NEW a \in Nat
  PROVE  a \div d \in Nat /\ a % d \in 0 .. d - 1 /\ a = d * (a \div d) + (a % d)
OBVIOUS

\* A multiple of more is more.
LEMMA Grows ==
  ASSUME NEW d \in Nat, NEW q \in Int, NEW r \in Int, q <= r
  PROVE  d * q <= d * r
<1>1. d * (r - q) >= 0
  <2>1. r - q \in Nat
    OBVIOUS
  <2> QED
    BY <2>1
<1> QED
  BY <1>1

\* A number divides in one way.
LEMMA OneQuotient ==
  ASSUME NEW d \in Nat \ {0}, NEW a \in Nat, NEW q \in Nat, NEW r \in 0 .. d - 1,
         a = d * q + r
  PROVE  a \div d = q /\ a % d = r
<1> DEFINE e == a \div d
           s == a % d
<1>1. e \in Nat /\ s \in 0 .. d - 1 /\ a = d * e + s
  BY Divided
<1> HIDE DEF e, s
<1>2. ~(e + 1 <= q)
  <2>1. e + 1 <= q => d * (e + 1) <= d * q
    BY <1>1, Grows
  <2> QED
    BY <1>1, <2>1
<1>3. ~(q + 1 <= e)
  <2>1. q + 1 <= e => d * (q + 1) <= d * e
    BY <1>1, Grows
  <2> QED
    BY <1>1, <2>1
<1>4. e = q
  BY <1>1, <1>2, <1>3
<1>5. s = r
  BY <1>1, <1>4
<1> QED
  BY <1>4, <1>5 DEF e, s

\* The sizes are numbers, and there is more than one column.
LEMMA ScreenSizes ==
  /\ Columns \in Nat \ {0} /\ Rows \in Nat \ {0} /\ XCharSize \in Nat \ {0}
  /\ YCharSize \in Nat \ {0} /\ TabStop \in Nat \ {0}
  /\ Columns > 1 /\ XCharSize > 1 /\ XCharSize <= YCharSize
  /\ Blank \notin Glyph /\ Screen!Torn \notin Glyph
BY PartsAssumption DEF Screen!ConsoleAssumption

\* What putchar touches inside the right edge is one cell.
LEMMA TouchesOne ==
  ASSUME NEW a \in 0 .. Columns - 1, NEW b \in Nat
  PROVE  Screen!Touched(a, b) = {<<a, b>>}
<1>1. a \div Columns = 0 /\ a % Columns = a
  <2>1. a = Columns * 0 + a
    BY ScreenSizes
  <2> QED
    BY <2>1, OneQuotient, ScreenSizes
<1> DEFINE top == b * YCharSize
<1>2. top \in Nat /\ top = YCharSize * b + 0
  BY ScreenSizes
<1>3. top \div YCharSize = b
  BY <1>2, OneQuotient, ScreenSizes
<1>4. (top + YCharSize - 1) \div YCharSize = b
  <2>1. top + YCharSize - 1 \in Nat /\ top + YCharSize - 1 = YCharSize * b + (YCharSize - 1)
    BY <1>2, ScreenSizes
  <2>2. YCharSize - 1 \in 0 .. YCharSize - 1
    BY ScreenSizes
  <2> HIDE DEF top
  <2> QED
    BY <2>1, <2>2, OneQuotient, ScreenSizes
<1>5. b * YCharSize + a \div Columns = top
  BY <1>1, <1>2
<1> HIDE DEF top
<1>6. Screen!Touched(a, b) = {<<a, row>> : row \in {b, b}}
  BY <1>1, <1>3, <1>4, <1>5 DEF Screen!Touched
<1> QED
  BY <1>6

\* A backspace at the left edge takes the last column's first pixel for the column.
EdgePixel == (Columns - 1) * XCharSize
EdgeColumn == EdgePixel % Columns

\* It lies beyond the right edge by fewer lines of pixels than a character has.
LEMMA BeyondTheEdge ==
  /\ EdgePixel \in Nat /\ EdgePixel >= Columns
  /\ EdgeColumn \in 0 .. Columns - 1
  /\ EdgePixel \div Columns \in 1 .. YCharSize - 1
<1> DEFINE e == EdgePixel \div Columns
<1>1. EdgePixel \in Nat
  BY ScreenSizes DEF EdgePixel
<1>2. EdgePixel >= Columns
  <2>1. (Columns - 1) * 2 <= (Columns - 1) * XCharSize
    BY Grows, ScreenSizes
  <2> QED
    BY <2>1, ScreenSizes DEF EdgePixel
<1>3. e \in Nat /\ EdgeColumn \in 0 .. Columns - 1 /\ EdgePixel = Columns * e + EdgeColumn
  BY <1>1, Divided, ScreenSizes DEF EdgeColumn
<1>4. EdgePixel = Columns * XCharSize - XCharSize
  BY ScreenSizes DEF EdgePixel
<1> HIDE DEF e
<1>5. e # 0
  <2>1. e = 0 => Columns * e = 0
    BY ScreenSizes
  <2> QED
    BY <1>2, <1>3, <2>1, ScreenSizes
<1>6. ~(XCharSize <= e)
  <2>1. XCharSize <= e => Columns * XCharSize <= Columns * e
    BY <1>3, Grows, ScreenSizes
  <2> QED
    BY <1>3, <1>4, <2>1, ScreenSizes
<1> QED
  BY <1>1, <1>2, <1>3, <1>5, <1>6, ScreenSizes DEF e

\* So what putchar touches there is two cells, one below the other.
LEMMA TouchesTwo ==
  ASSUME NEW b \in Nat
  PROVE  Screen!Touched(EdgePixel, b) = {<<EdgeColumn, b>>, <<EdgeColumn, b + 1>>}
<1> DEFINE e == EdgePixel \div Columns
           top == b * YCharSize + e
<1>1. e \in 1 .. YCharSize - 1
  BY BeyondTheEdge
<1> HIDE DEF e
<1>2. top \in Nat /\ top = YCharSize * b + e
  BY <1>1, ScreenSizes
<1>3. e \in 0 .. YCharSize - 1 /\ e - 1 \in 0 .. YCharSize - 1
  BY <1>1, ScreenSizes
<1>4. top + YCharSize - 1 \in Nat /\ top + YCharSize - 1 = YCharSize * (b + 1) + (e - 1)
  BY <1>1, <1>2, ScreenSizes
<1> HIDE DEF top
<1>5. top \div YCharSize = b
  BY <1>2, <1>3, OneQuotient, ScreenSizes
<1>6. (top + YCharSize - 1) \div YCharSize = b + 1
  <2>1. PICK t \in Nat : t = top + YCharSize - 1
    BY <1>4
  <2>2. PICK r \in 0 .. YCharSize - 1 : r = e - 1
    BY <1>3
  <2>3. b + 1 \in Nat /\ t = YCharSize * (b + 1) + r
    BY <1>4, <2>1, <2>2
  <2>4. t \div YCharSize = b + 1
    BY <2>3, OneQuotient, ScreenSizes
  <2> QED
    BY <2>1, <2>4
<1>7. Screen!Touched(EdgePixel, b) = {<<EdgeColumn, row>> : row \in {b, b + 1}}
  BY <1>5, <1>6 DEF Screen!Touched, top, e, EdgeColumn
<1> QED
  BY <1>7
-----------------------------------------------------------------------------
\* Before the cursor, in the order of the text.
Before(p, a, b) == p[2] < b \/ (p[2] = b /\ p[1] < a)

\* Characters are shown before the cursor only.
Fresh(s, a, b) == \A p \in Screen!Cell : s[p] \in Glyph => Before(p, a, b)

\* A tab of n more spaces comes to a stop, or goes on behind the right edge.
Due(a, n) ==
  \/ a + n = (a \div TabStop + 1) * TabStop
  \/ Columns % TabStop # 0 /\ a + n < TabStop

ScreenIInv ==
  /\ Screen!TypeOK
  /\ Fresh(con_screen, con_x, con_y)
  /\ con_line > 0 => con_at = "chars" /\ Due(con_x, con_line)

\* What StaysInFrame, ShownStays and TabStops say of a step.
InFrame == con_wild' /\ ~con_wild => con_x = 0 /\ con_y = 0 /\ con_screen' = Screen!Clear
Shown ==
  \/ con_screen' = Screen!Clear
  \/ \A p \in Screen!Cell :
       con_screen[p] \in Glyph /\ con_screen'[p] # con_screen[p] =>
         IF con_x > 0 THEN p = <<con_x - 1, con_y>> /\ con_x' = con_x - 1 /\ con_screen'[p] = Blank
         ELSE con_screen'[p] = Screen!Torn /\ p[1] = EdgeColumn
AtStop ==
  con_line > 0 /\ con_line' = 0 /\ Screen!Begun =>
    con_x' % TabStop = 0 \/ (Columns % TabStop # 0 /\ con_x' < TabStop)
ScreenStep == ScreenIInv' /\ InFrame /\ Shown /\ AtStop

Shows == [Screen!Cell -> Glyph \cup {Blank, Screen!Torn}]

\* A character inside the right edge is one cell.
LEMMA PutInside ==
  ASSUME Screen!TypeOK, NEW a \in 0 .. Columns - 1, NEW b \in 0 .. Rows - 1,
         NEW c \in Glyph \cup {Blank}
  PROVE  /\ Screen!Putchar(a, b, c) \in Shows
         /\ \A p \in Screen!Cell :
              Screen!Putchar(a, b, c)[p] = IF p = <<a, b>> THEN c ELSE con_screen[p]
<1>1. Screen!Touched(a, b) = {<<a, b>>}
  BY TouchesOne, ScreenSizes
<1>2. Screen!Putchar(a, b, c) =
        [p \in Screen!Cell |-> IF p = <<a, b>> THEN c ELSE con_screen[p]]
  BY <1>1 DEF Screen!Putchar
<1>3. con_screen \in Shows
  BY DEF Screen!TypeOK, Shows
<1> QED
  BY <1>2, <1>3 DEF Shows

\* At the right edge it is the halves of two.
LEMMA PutBeyond ==
  ASSUME Screen!TypeOK, NEW b \in Nat
  PROVE  /\ Screen!Putchar(EdgePixel, b, Blank) \in Shows
         /\ \A p \in Screen!Cell :
              Screen!Putchar(EdgePixel, b, Blank)[p] =
                IF p \in {<<EdgeColumn, b>>, <<EdgeColumn, b + 1>>} THEN Screen!Torn
                ELSE con_screen[p]
<1> DEFINE two == {<<EdgeColumn, b>>, <<EdgeColumn, b + 1>>}
<1>1. Screen!Touched(EdgePixel, b) = two
  BY TouchesTwo
<1>2. \A p : two # {p}
  <2>1. <<EdgeColumn, b>> # <<EdgeColumn, b + 1>>
    OBVIOUS
  <2>2. <<EdgeColumn, b>> \in two /\ <<EdgeColumn, b + 1>> \in two
    OBVIOUS
  <2> HIDE DEF two
  <2> QED
    BY <2>1, <2>2
<1> HIDE DEF two
<1>3. Screen!Putchar(EdgePixel, b, Blank) =
        [p \in Screen!Cell |-> IF p \in two THEN Screen!Torn ELSE con_screen[p]]
  BY <1>1, <1>2 DEF Screen!Putchar
<1>4. con_screen \in Shows
  BY DEF Screen!TypeOK, Shows
<1>5. Screen!Putchar(EdgePixel, b, Blank) \in Shows
  BY <1>3, <1>4 DEF Shows
<1>6. \A p \in Screen!Cell :
        Screen!Putchar(EdgePixel, b, Blank)[p] = IF p \in two THEN Screen!Torn ELSE con_screen[p]
  BY <1>3
<1> QED
  BY <1>5, <1>6 DEF two

\* Behind the edge the cursor is in the next line, and behind the last line the screen is
\* cleared: characters stay before it.
LEMMA Settled ==
  ASSUME NEW a \in Nat, NEW b \in Nat, NEW s \in Shows, Fresh(s, a, b), Screen!Settle(a, b, s)
  PROVE  /\ con_x' \in 0 .. Columns - 1 /\ con_y' \in 0 .. Rows - 1 /\ con_screen' \in Shows
         /\ Fresh(con_screen, con_x, con_y)'
         /\ con_x' = IF a >= Columns THEN 0 ELSE a
         /\ con_screen' \in {Screen!Clear, s}
<1> PICK row \in Nat : row = IF a >= Columns THEN b + 1 ELSE b
  BY ScreenSizes
<1>1. /\ con_x' = IF a >= Columns THEN 0 ELSE a
      /\ con_y' = IF row >= Rows THEN 0 ELSE row
      /\ con_screen' = IF row >= Rows THEN Screen!Clear ELSE s
  BY DEF Screen!Settle
<1>2. con_x' \in 0 .. Columns - 1 /\ con_y' \in 0 .. Rows - 1
  BY <1>1, ScreenSizes
<1>3. Screen!Clear \in Shows /\ \A p \in Screen!Cell : Screen!Clear[p] \notin Glyph
  BY ScreenSizes DEF Screen!Clear, Shows
<1>4. con_screen' \in Shows
  BY <1>1, <1>3
<1>5. \A p \in Screen!Cell : con_screen'[p] \in Glyph => Before(p, con_x', con_y')
  <2> SUFFICES ASSUME NEW p \in Screen!Cell, con_screen'[p] \in Glyph
               PROVE  Before(p, con_x', con_y')
    OBVIOUS
  <2>1. row < Rows /\ con_screen' = s
    BY <1>1, <1>3, ScreenSizes
  <2>2. p[2] < b \/ (p[2] = b /\ p[1] < a)
    BY <2>1 DEF Fresh, Before
  <2>3. p[1] \in Nat /\ p[2] \in Nat
    BY DEF Screen!Cell
  <2>4. con_y' = row
    BY <1>1, <2>1, ScreenSizes
  <2> QED
    BY <1>1, <2>2, <2>3, <2>4, ScreenSizes DEF Before
<1>6. Screen!Cell' = Screen!Cell
  BY DEF Screen!Cell
<1>7. Fresh(con_screen, con_x, con_y)'
  BY <1>5, <1>6 DEF Fresh, Before
<1> QED
  BY <1>1, <1>2, <1>4, <1>7

\* Whatever settles keeps the rest of the types.
LEMMA SettledTypes ==
  ASSUME Screen!TypeOK, con_x' \in 0 .. Columns - 1, con_y' \in 0 .. Rows - 1,
         con_screen' \in Shows, con_line' \in 0 .. TabStop, con_wild' \in BOOLEAN, Screen!Keeps
  PROVE  Screen!TypeOK'
BY DEF Screen!TypeOK, Screen!Keeps, Shows, Screen!Cell

\* The cell under the cursor shows no character.
LEMMA FreeCell ==
  ASSUME ScreenIInv
  PROVE  <<con_x, con_y>> \in Screen!Cell => con_screen[<<con_x, con_y>>] \notin Glyph
<1>1. ~Before(<<con_x, con_y>>, con_x, con_y)
  BY DEF ScreenIInv, Screen!TypeOK, Before
<1> QED
  BY <1>1 DEF ScreenIInv, Fresh

\* A character at the cursor.
LEMMA PutsAtCursor ==
  ASSUME ScreenIInv, NEW c \in Glyph \cup {Blank},
         Screen!Settle(con_x + 1, con_y, Screen!Putchar(con_x, con_y, c))
  PROVE  /\ con_x' \in 0 .. Columns - 1 /\ con_y' \in 0 .. Rows - 1 /\ con_screen' \in Shows
         /\ Fresh(con_screen, con_x, con_y)'
         /\ con_x' = IF con_x + 1 >= Columns THEN 0 ELSE con_x + 1
         /\ Shown
<1> PICK a \in 0 .. Columns - 1, b \in 0 .. Rows - 1 : a = con_x /\ b = con_y
  BY DEF ScreenIInv, Screen!TypeOK
<1> PICK s : s = Screen!Putchar(a, b, c)
  OBVIOUS
<1>1. /\ s \in Shows
      /\ \A p \in Screen!Cell : s[p] = IF p = <<a, b>> THEN c ELSE con_screen[p]
  BY PutInside DEF ScreenIInv
<1>2. Screen!Settle(a + 1, b, s)
  BY DEF Screen!Settle
<1>3. Fresh(s, a + 1, b)
  <2> SUFFICES ASSUME NEW p \in Screen!Cell, s[p] \in Glyph
               PROVE  Before(p, a + 1, b)
    BY DEF Fresh
  <2>1. CASE p = <<a, b>>
    BY <2>1, ScreenSizes DEF Before
  <2>2. CASE p # <<a, b>>
    <3>1. Before(p, a, b)
      BY <1>1, <2>2 DEF ScreenIInv, Fresh
    <3>2. p[1] \in Nat /\ p[2] \in Nat
      BY DEF Screen!Cell
    <3> QED
      BY <3>1, <3>2, ScreenSizes DEF Before
  <2> QED
    BY <2>1, <2>2
<1>4. a + 1 \in Nat /\ b \in Nat
  BY ScreenSizes
<1>5. /\ con_x' \in 0 .. Columns - 1 /\ con_y' \in 0 .. Rows - 1 /\ con_screen' \in Shows
      /\ Fresh(con_screen, con_x, con_y)'
      /\ con_x' = IF a + 1 >= Columns THEN 0 ELSE a + 1
      /\ con_screen' \in {Screen!Clear, s}
  BY <1>1, <1>2, <1>3, <1>4, Settled
<1>6. Shown
  <2>1. \A p \in Screen!Cell : con_screen[p] \in Glyph => s[p] = con_screen[p]
    BY <1>1, FreeCell
  <2> QED
    BY <1>5, <2>1 DEF Shown
<1> QED
  BY <1>5, <1>6

\* One space less to go, and as far from the stop as before; behind the edge, too.
LEMMA DueNext ==
  ASSUME NEW a \in 0 .. Columns - 1, NEW n \in Nat \ {0}, Due(a, n)
  PROVE  LET k == IF a + 1 >= Columns THEN 0 ELSE a + 1
         IN  IF n = 1 THEN k % TabStop = 0 \/ (Columns % TabStop # 0 /\ k < TabStop)
             ELSE Due(k, n - 1)
<1> DEFINE e == a \div TabStop
<1>1. e \in Nat /\ a % TabStop \in 0 .. TabStop - 1 /\ a = TabStop * e + (a % TabStop)
  <2>1. a \in Nat
    BY ScreenSizes
  <2> QED
    BY <2>1, Divided, ScreenSizes
<1>2. PICK r \in 0 .. TabStop - 1 : a = TabStop * e + r
  BY <1>1
<1>3. (e + 1) * TabStop = TabStop * e + TabStop
  BY <1>1, ScreenSizes
<1>4. \/ a + n = TabStop * e + TabStop
      \/ Columns % TabStop # 0 /\ a + n < TabStop
  BY <1>3 DEF Due
<1>5. 0 % TabStop = 0
  <2>1. 0 = TabStop * 0 + 0 /\ 0 \in 0 .. TabStop - 1
    BY ScreenSizes
  <2> QED
    BY <2>1, OneQuotient, ScreenSizes
<1> HIDE DEF e
<1>6. CASE a + 1 >= Columns
  <2>1. a + 1 = Columns
    BY <1>6, ScreenSizes
  <2>2. n = 1 => 0 % TabStop = 0
    BY <1>5
  <2>3. n # 1 => Due(0, n - 1)
    <3> SUFFICES ASSUME n # 1
                 PROVE  Columns % TabStop # 0 /\ 0 + (n - 1) < TabStop
      BY DEF Due
    <3>1. CASE a + n = TabStop * e + TabStop
      <4>1. n - 1 < TabStop
        BY <1>1, <1>2, <3>1, ScreenSizes
      <4>2. r + 1 \in 0 .. TabStop - 1 /\ Columns = TabStop * e + (r + 1)
        BY <1>1, <1>2, <2>1, <3>1, ScreenSizes
      <4>3. PICK u \in 0 .. TabStop - 1 : u = r + 1
        BY <4>2
      <4>4. Columns % TabStop = u
        <5>1. Columns = TabStop * e + u /\ Columns \in Nat
          BY <4>2, <4>3, ScreenSizes
        <5> QED
          BY <1>1, <5>1, OneQuotient, ScreenSizes
      <4> QED
        BY <4>1, <4>3, <4>4, ScreenSizes
    <3>2. CASE Columns % TabStop # 0 /\ a + n < TabStop
      BY <3>2, ScreenSizes
    <3> QED
      BY <1>4, <3>1, <3>2
  <2> QED
    BY <1>6, <2>2, <2>3
<1>7. CASE ~(a + 1 >= Columns)
  <2>1. CASE n = 1
    <3>1. CASE a + n = TabStop * e + TabStop
      <4>1. a + 1 = TabStop * (e + 1) + 0 /\ 0 \in 0 .. TabStop - 1
        BY <1>1, <2>1, <3>1, ScreenSizes
      <4>2. PICK k \in Nat, q \in Nat : k = a + 1 /\ q = e + 1
        BY <1>1, ScreenSizes
      <4>3. k % TabStop = 0
        BY <4>1, <4>2, OneQuotient, ScreenSizes
      <4> QED
        BY <1>7, <2>1, <4>2, <4>3
    <3>2. CASE Columns % TabStop # 0 /\ a + n < TabStop
      BY <1>7, <2>1, <3>2
    <3> QED
      BY <1>4, <3>1, <3>2
  <2>2. CASE n # 1
    <3>1. CASE a + n = TabStop * e + TabStop
      <4>1. r + 1 \in 0 .. TabStop - 1 /\ a + 1 = TabStop * e + (r + 1)
        BY <1>1, <1>2, <2>2, <3>1, ScreenSizes
      <4>2. PICK k \in Nat, u \in 0 .. TabStop - 1 : k = a + 1 /\ u = r + 1
        BY <4>1, ScreenSizes
      <4>3. k \div TabStop = e
        BY <1>1, <4>1, <4>2, OneQuotient, ScreenSizes
      <4>4. k + (n - 1) = (k \div TabStop + 1) * TabStop
        <5>1. k + (n - 1) = (e + 1) * TabStop
          <6>1. k + (n - 1) = a + n
            BY <4>2, ScreenSizes
          <6> QED
            BY <1>3, <3>1, <6>1
        <5> QED
          BY <4>3, <5>1
      <4> QED
        BY <1>7, <2>2, <4>2, <4>4 DEF Due
    <3>2. CASE Columns % TabStop # 0 /\ a + n < TabStop
      <4>1. Due(a + 1, n - 1)
        BY <3>2, ScreenSizes DEF Due
      <4> QED
        BY <1>7, <2>2, <4>1
    <3> QED
      BY <1>4, <3>1, <3>2
  <2> QED
    BY <2>1, <2>2
<1> QED
  BY <1>6, <1>7

\* The first space of a tab.
LEMMA TabBegins ==
  ASSUME NEW a \in Nat
  PROVE  LET n == (a \div TabStop + 1) * TabStop - a
         IN  n \in 1 .. TabStop /\ Due(a, n)
<1> DEFINE e == a \div TabStop
<1>1. e \in Nat /\ a % TabStop \in 0 .. TabStop - 1 /\ a = TabStop * e + (a % TabStop)
  BY Divided, ScreenSizes
<1>2. PICK r \in 0 .. TabStop - 1 : a = TabStop * e + r
  BY <1>1
<1>3. (e + 1) * TabStop = TabStop * e + TabStop
  BY <1>1, ScreenSizes
<1> DEFINE n == (e + 1) * TabStop - a
<1>4. n = TabStop - r
  BY <1>1, <1>2, <1>3, ScreenSizes
<1>5. a + n = (e + 1) * TabStop
  BY <1>1, <1>3, ScreenSizes
<1>6. n \in 1 .. TabStop
  BY <1>4, ScreenSizes
<1> QED
  BY <1>5, <1>6 DEF Due

-----------------------------------------------------------------------------
\* A character.
LEMMA CharStep ==
  ASSUME ScreenIInv, NEW c \in Glyph, Screen!Char(c)
  PROVE  ScreenStep
<1>1. con_line = 0 /\ con_line' = 0 /\ con_wild' = con_wild /\ Screen!Keeps
  BY DEF Screen!Char, Screen!Printing
<1>2. /\ con_x' \in 0 .. Columns - 1 /\ con_y' \in 0 .. Rows - 1 /\ con_screen' \in Shows
      /\ Fresh(con_screen, con_x, con_y)' /\ Shown
  BY PutsAtCursor DEF Screen!Char
<1>3. Screen!TypeOK'
  <2>1. con_line' \in 0 .. TabStop /\ con_wild' \in BOOLEAN
    BY <1>1, ScreenSizes DEF ScreenIInv, Screen!TypeOK
  <2> QED
    BY <1>1, <1>2, <2>1, SettledTypes DEF ScreenIInv
<1>4. ScreenIInv'
  BY <1>1, <1>2, <1>3 DEF ScreenIInv
<1> QED
  BY <1>1, <1>2, <1>4 DEF ScreenStep, InFrame, AtStop, ScreenIInv, Screen!TypeOK

\* A space of a tab.
LEMMA SpaceStep ==
  ASSUME ScreenIInv, NEW n \in 1 .. TabStop, Due(con_x, n), con_at = "chars",
         con_line \in {0, n}, Screen!Space(n)
  PROVE  ScreenStep
<1>1. con_line' = n - 1 /\ con_wild' = con_wild /\ Screen!Keeps
  BY DEF Screen!Space
<1>2. /\ con_x' \in 0 .. Columns - 1 /\ con_y' \in 0 .. Rows - 1 /\ con_screen' \in Shows
      /\ Fresh(con_screen, con_x, con_y)' /\ Shown
      /\ con_x' = IF con_x + 1 >= Columns THEN 0 ELSE con_x + 1
  BY PutsAtCursor DEF Screen!Space
<1>3. Screen!TypeOK'
  <2>1. con_line' \in 0 .. TabStop /\ con_wild' \in BOOLEAN
    BY <1>1, ScreenSizes DEF ScreenIInv, Screen!TypeOK
  <2> QED
    BY <1>1, <1>2, <2>1, SettledTypes DEF ScreenIInv
<1> PICK a \in 0 .. Columns - 1 : a = con_x
  BY DEF ScreenIInv, Screen!TypeOK
<1> PICK k \in 0 .. Columns - 1 : k = con_x'
  BY <1>2
<1>4. IF n = 1 THEN k % TabStop = 0 \/ (Columns % TabStop # 0 /\ k < TabStop)
      ELSE Due(k, n - 1)
  <2>1. n \in Nat \ {0} /\ Due(a, n)
    BY ScreenSizes
  <2>2. k = IF a + 1 >= Columns THEN 0 ELSE a + 1
    BY <1>2
  <2> QED
    BY <2>1, <2>2, DueNext
<1>5. con_line' > 0 => con_at' = "chars" /\ Due(con_x, con_line)'
  <2> SUFFICES ASSUME con_line' > 0
               PROVE  con_at' = "chars" /\ Due(con_x', con_line')
    BY DEF Due
  <2>1. n # 1
    BY <1>1, ScreenSizes
  <2> QED
    BY <1>1, <1>4, <2>1 DEF Screen!Keeps
<1>6. AtStop
  <2> SUFFICES ASSUME con_line > 0, con_line' = 0
               PROVE  con_x' % TabStop = 0 \/ (Columns % TabStop # 0 /\ con_x' < TabStop)
    BY DEF AtStop
  <2>1. n = 1
    BY <1>1, ScreenSizes
  <2> QED
    BY <1>4, <2>1
<1>7. ScreenIInv'
  BY <1>2, <1>3, <1>5 DEF ScreenIInv
<1>8. InFrame
  BY <1>1 DEF InFrame, ScreenIInv, Screen!TypeOK
<1> QED
  BY <1>2, <1>6, <1>7, <1>8 DEF ScreenStep

\* The first space of a tab and the further ones.
LEMMA TabStep ==
  ASSUME ScreenIInv, Screen!Tab \/ Screen!MoreTab
  PROVE  ScreenStep
<1>1. CASE Screen!Tab
  <2> PICK a \in 0 .. Columns - 1 : a = con_x
    BY DEF ScreenIInv, Screen!TypeOK
  <2> PICK n : n = (a \div TabStop + 1) * TabStop - a
    OBVIOUS
  <2>1. n \in 1 .. TabStop /\ Due(a, n)
    <3>1. a \in Nat
      BY ScreenSizes
    <3> QED
      BY <3>1, TabBegins
  <2>2. Screen!Space(n) /\ con_line = 0 /\ con_at = "chars"
    BY <1>1 DEF Screen!Tab, Screen!Printing
  <2> QED
    BY <2>1, <2>2, SpaceStep
<1>2. CASE Screen!MoreTab
  <2> PICK n \in 1 .. TabStop : n = con_line
    BY <1>2, ScreenSizes DEF Screen!MoreTab, ScreenIInv, Screen!TypeOK
  <2>1. Screen!Space(n) /\ con_at = "chars"
    BY <1>2 DEF Screen!MoreTab
  <2>2. Due(con_x, n)
    BY <1>2 DEF Screen!MoreTab, ScreenIInv
  <2> QED
    BY <2>1, <2>2, SpaceStep
<1> QED
  BY <1>1, <1>2

\* A new line.
LEMMA NewlineStep ==
  ASSUME ScreenIInv, Screen!Newline
  PROVE  ScreenStep
<1>1. con_line = 0 /\ con_line' = 0 /\ con_wild' = con_wild /\ Screen!Keeps
  BY DEF Screen!Newline, Screen!Printing
<1> PICK b \in Nat : b = con_y + 1
  BY ScreenSizes DEF ScreenIInv, Screen!TypeOK
<1> PICK s \in Shows : s = con_screen
  BY DEF ScreenIInv, Screen!TypeOK, Shows
<1>2. Fresh(s, 0, b)
  <2> SUFFICES ASSUME NEW p \in Screen!Cell, s[p] \in Glyph
               PROVE  Before(p, 0, b)
    BY DEF Fresh
  <2>1. Before(p, con_x, con_y)
    BY DEF ScreenIInv, Fresh
  <2>2. p[2] \in Nat /\ con_y \in Nat
    BY ScreenSizes DEF Screen!Cell, ScreenIInv, Screen!TypeOK
  <2> QED
    BY <2>1, <2>2 DEF Before
<1>3. Screen!Settle(0, b, s)
  BY DEF Screen!Newline, Screen!Settle
<1>4. /\ con_x' \in 0 .. Columns - 1 /\ con_y' \in 0 .. Rows - 1 /\ con_screen' \in Shows
      /\ Fresh(con_screen, con_x, con_y)' /\ con_screen' \in {Screen!Clear, s}
  <2>1. 0 \in Nat
    OBVIOUS
  <2> QED
    BY <1>2, <1>3, <2>1, Settled
<1>5. Screen!TypeOK'
  <2>1. con_line' \in 0 .. TabStop /\ con_wild' \in BOOLEAN
    BY <1>1, ScreenSizes DEF ScreenIInv, Screen!TypeOK
  <2> QED
    BY <1>1, <1>4, <2>1, SettledTypes DEF ScreenIInv
<1>6. ScreenIInv'
  BY <1>1, <1>4, <1>5 DEF ScreenIInv
<1>7. Shown
  BY <1>4 DEF Shown
<1> QED
  BY <1>1, <1>6, <1>7 DEF ScreenStep, InFrame, AtStop, ScreenIInv, Screen!TypeOK

\* A backspace inside a line takes the character before the cursor; in the first column
\* it tears two cells, and in the first line it leaves the frame and clears the screen.
LEMMA BackspaceStep ==
  ASSUME ScreenIInv, Screen!Backspace
  PROVE  ScreenStep
<1>1. con_line = 0 /\ con_line' = 0 /\ Screen!Keeps
  BY DEF Screen!Backspace, Screen!Printing
<1>2. con_wild' = (con_wild \/ Screen!Strays) /\ con_wild \in BOOLEAN
  BY DEF Screen!Backspace, ScreenIInv, Screen!TypeOK
<1> PICK x \in 0 .. Columns - 1, y \in 0 .. Rows - 1 : x = con_x /\ y = con_y
  BY DEF ScreenIInv, Screen!TypeOK
<1> PICK a, b : a = Screen!BackTo[1] /\ b = Screen!BackTo[2]
  OBVIOUS
<1> PICK s : s = Screen!Putchar(a, b, Blank)
  OBVIOUS
<1>3. Screen!Settle(a, b, s)
  BY DEF Screen!Backspace, Screen!Settle
<1>4. Screen!Strays <=> ~(Screen!Touched(a, b) \subseteq Screen!Cell)
  BY DEF Screen!Strays
<1>5. \A p \in Screen!Cell : con_screen[p] \in Glyph => Before(p, x, y)
  BY DEF ScreenIInv, Fresh
<1>6. ASSUME con_x' \in 0 .. Columns - 1, con_y' \in 0 .. Rows - 1, con_screen' \in Shows,
             Fresh(con_screen, con_x, con_y)'
      PROVE  ScreenIInv'
  <2>1. con_line' \in 0 .. TabStop /\ con_wild' \in BOOLEAN
    BY <1>1, <1>2, ScreenSizes
  <2>2. Screen!TypeOK'
    BY <1>1, <1>6, <2>1, SettledTypes DEF ScreenIInv
  <2> QED
    BY <1>1, <1>6, <2>2 DEF ScreenIInv
<1>7. AtStop
  BY <1>1 DEF AtStop
<1>8. CASE x > 0
  <2>1. a = x - 1 /\ b = y /\ a \in 0 .. Columns - 1 /\ a \in Nat /\ b \in Nat
    BY <1>8, ScreenSizes DEF Screen!BackTo
  <2>2. /\ s \in Shows
        /\ \A p \in Screen!Cell : s[p] = IF p = <<a, b>> THEN Blank ELSE con_screen[p]
    BY <2>1, PutInside DEF ScreenIInv
  <2>3. Fresh(s, a, b)
    <3> SUFFICES ASSUME NEW p \in Screen!Cell, s[p] \in Glyph
                 PROVE  Before(p, a, b)
      BY DEF Fresh
    <3>1. p # <<a, b>> /\ Before(p, x, y)
      BY <1>5, <2>2, ScreenSizes
    <3>2. PICK i \in Nat, j \in Nat : p = <<i, j>>
      BY DEF Screen!Cell
    <3> QED
      BY <2>1, <3>1, <3>2, ScreenSizes DEF Before
  <2>4. /\ con_x' \in 0 .. Columns - 1 /\ con_y' \in 0 .. Rows - 1 /\ con_screen' \in Shows
        /\ Fresh(con_screen, con_x, con_y)'
        /\ con_x' = IF a >= Columns THEN 0 ELSE a
        /\ con_screen' \in {Screen!Clear, s}
    BY <1>3, <2>1, <2>2, <2>3, Settled
  <2>5. ~Screen!Strays
    <3>1. Screen!Touched(a, b) = {<<a, b>>}
      BY <2>1, TouchesOne
    <3> QED
      BY <1>4, <2>1, <3>1 DEF Screen!Cell
  <2>6. con_x' = a
    BY <2>1, <2>4, ScreenSizes
  <2>7. Shown
    BY <1>8, <2>1, <2>2, <2>4, <2>6 DEF Shown
  <2>8. InFrame
    BY <1>2, <2>5 DEF InFrame
  <2> QED
    BY <1>6, <1>7, <2>4, <2>7, <2>8 DEF ScreenStep
<1>9. CASE x = 0 /\ y > 0
  <2>1. a = EdgePixel /\ b = y - 1 /\ b \in Nat
    BY <1>9, ScreenSizes DEF Screen!BackTo, EdgePixel
  <2>2. /\ s \in Shows
        /\ \A p \in Screen!Cell :
             s[p] = IF p \in {<<EdgeColumn, b>>, <<EdgeColumn, b + 1>>} THEN Screen!Torn
                    ELSE con_screen[p]
    BY <2>1, PutBeyond DEF ScreenIInv
  <2>3. Fresh(s, a, b)
    <3> SUFFICES ASSUME NEW p \in Screen!Cell, s[p] \in Glyph
                 PROVE  Before(p, a, b)
      BY DEF Fresh
    <3>1. Before(p, x, y)
      BY <1>5, <2>2, ScreenSizes
    <3>2. PICK i \in 0 .. Columns - 1, j \in Nat : p = <<i, j>>
      BY DEF Screen!Cell
    <3>3. a \in Nat /\ a >= Columns
      BY <2>1, BeyondTheEdge
    <3> QED
      BY <1>9, <2>1, <3>1, <3>2, <3>3, ScreenSizes DEF Before
  <2>4. /\ con_x' \in 0 .. Columns - 1 /\ con_y' \in 0 .. Rows - 1 /\ con_screen' \in Shows
        /\ Fresh(con_screen, con_x, con_y)'
        /\ con_screen' \in {Screen!Clear, s}
    <3>1. a \in Nat
      BY <2>1, BeyondTheEdge
    <3> QED
      BY <1>3, <2>1, <2>2, <2>3, <3>1, Settled
  <2>5. ~Screen!Strays
    <3>1. Screen!Touched(a, b) = {<<EdgeColumn, b>>, <<EdgeColumn, b + 1>>}
      BY <2>1, TouchesTwo
    <3>2. EdgeColumn \in 0 .. Columns - 1 /\ b \in 0 .. Rows - 1 /\ b + 1 \in 0 .. Rows - 1
      BY <1>9, <2>1, BeyondTheEdge, ScreenSizes
    <3> QED
      BY <1>4, <3>1, <3>2 DEF Screen!Cell
  <2>6. Shown
    <3>1. \A p \in Screen!Cell : s[p] # con_screen[p] => s[p] = Screen!Torn /\ p[1] = EdgeColumn
      BY <2>2
    <3> QED
      BY <1>9, <2>4, <3>1, ScreenSizes DEF Shown
  <2>7. InFrame
    BY <1>2, <2>5 DEF InFrame
  <2> QED
    BY <1>6, <1>7, <2>4, <2>6, <2>7 DEF ScreenStep
<1>10. CASE x = 0 /\ y = 0
  <2>1. a = EdgePixel /\ b = (Rows - 1) * YCharSize
    BY <1>10, ScreenSizes DEF Screen!BackTo, EdgePixel
  <2>2. a \in Nat /\ a >= Columns
    BY <2>1, BeyondTheEdge
  <2>3. b \in Nat /\ b + 1 >= Rows
    <3>1. (Rows - 1) * 1 <= (Rows - 1) * YCharSize
      BY Grows, ScreenSizes
    <3> QED
      BY <2>1, <3>1, ScreenSizes
  <2>4. con_x' = 0 /\ con_y' = 0 /\ con_screen' = Screen!Clear
    BY <1>3, <2>2, <2>3 DEF Screen!Settle
  <2>5. Screen!Clear \in Shows /\ \A p \in Screen!Cell : Screen!Clear[p] \notin Glyph
    BY ScreenSizes DEF Screen!Clear, Shows
  <2>6. Fresh(con_screen, con_x, con_y)'
    BY <2>4, <2>5 DEF Fresh, Screen!Cell
  <2>7. con_x' \in 0 .. Columns - 1 /\ con_y' \in 0 .. Rows - 1 /\ con_screen' \in Shows
    BY <2>4, <2>5, ScreenSizes
  <2>8. ScreenIInv'
    BY <1>6, <2>6, <2>7
  <2>9. Shown /\ InFrame
    BY <1>10, <2>4 DEF Shown, InFrame
  <2> QED
    BY <1>7, <2>8, <2>9 DEF ScreenStep
<1> QED
  BY <1>8, <1>9, <1>10, ScreenSizes

\* The lock, the formatting and an exception touch neither cursor nor screen.
LEMMA OtherStep ==
  ASSUME ScreenIInv,
         Screen!Lock \/ Screen!Format \/ Screen!Unlock \/ Screen!Exception
  PROVE  ScreenStep
<1>1. UNCHANGED <<con_x, con_y, con_screen, con_wild>> /\ con_line = 0 /\ con_line' = 0
  BY DEF Screen!Lock, Screen!Format, Screen!Unlock, Screen!Exception, Screen!Printing,
         ScreenIInv, Screen!TypeOK
<1>2. /\ con_at' \in {"out", "format", "chars", "halt"}
      /\ con_locked' \in BOOLEAN /\ con_reported' \in BOOLEAN
      /\ con_fault' \in {"none", "outside", "inside"}
  BY DEF Screen!Lock, Screen!Format, Screen!Unlock, Screen!Exception, Screen!Printing,
         ScreenIInv, Screen!TypeOK
<1>3. Screen!TypeOK'
  BY <1>1, <1>2, ScreenSizes DEF ScreenIInv, Screen!TypeOK, Screen!Cell
<1>4. Fresh(con_screen, con_x, con_y)'
  BY <1>1 DEF ScreenIInv, Fresh, Screen!Cell
<1>5. ScreenIInv'
  BY <1>1, <1>3, <1>4 DEF ScreenIInv
<1>6. InFrame /\ Shown /\ AtStop
  BY <1>1 DEF InFrame, Shown, AtStop, ScreenIInv, Screen!TypeOK
<1> QED
  BY <1>5, <1>6 DEF ScreenStep

\* The other parts leave the screen alone.
LEMMA ScreenStutter ==
  ASSUME ScreenIInv, UNCHANGED conVars
  PROVE  ScreenStep
<1>1. ScreenIInv'
  BY DEF conVars, ScreenIInv, Screen!TypeOK, Screen!Cell, Fresh, Due, Before
<1>2. InFrame /\ Shown /\ AtStop
  BY DEF conVars, InFrame, Shown, AtStop, ScreenIInv, Screen!TypeOK
<1> QED
  BY <1>1, <1>2 DEF ScreenStep

\* The screen is clear at first.
LEMMA ScreenBegins ==
  ASSUME Screen!Init
  PROVE  ScreenIInv
<1>1. con_screen \in Shows /\ \A p \in Screen!Cell : con_screen[p] \notin Glyph
  BY ScreenSizes DEF Screen!Init, Screen!Clear, Shows
<1>2. Screen!TypeOK
  <2>1. 0 \in 0 .. Columns - 1 /\ 0 \in 0 .. Rows - 1 /\ 0 \in 0 .. TabStop
    BY ScreenSizes
  <2> QED
    BY <1>1, <2>1 DEF Screen!Init, Screen!TypeOK, Shows
<1>3. Fresh(con_screen, con_x, con_y)
  BY <1>1 DEF Fresh
<1> QED
  BY <1>2, <1>3 DEF Screen!Init, ScreenIInv

\* Every step of the whole.
LEMMA ScreenSteps ==
  ASSUME ScreenIInv, [AllNext]_allVars
  PROVE  ScreenStep
<1>1. CASE Screen!Next
  <2>1. \/ \E c \in Glyph : Screen!Char(c)
        \/ Screen!Newline \/ Screen!Backspace \/ Screen!Tab \/ Screen!MoreTab
        \/ Screen!Lock \/ Screen!Format \/ Screen!Unlock \/ Screen!Exception
    BY <1>1 DEF Screen!Next, Screen!Loop
  <2> QED
    BY <2>1, CharStep, NewlineStep, BackspaceStep, TabStep, OtherStep
<1>2. CASE UNCHANGED conVars
  BY <1>2, ScreenStutter
<1> QED
  BY <1>1, <1>2 DEF AllNext, InterruptsNext, TimersNext, ScreenNext, allVars

\* For any number of columns and lines and any stops of tabs: the cursor stays on the
\* screen, what is shown stays but for what a backspace takes, putchar leaves the frame
\* only for a backspace at the very first place, and a tab ends at a stop
\* (printk.c:690, 693, 699).
THEOREM ScreenStaysKept == AllSpec => ScreenKept
<1>1. AllInit => ScreenIInv
  BY ScreenBegins DEF AllInit
<1>2. ScreenIInv /\ [AllNext]_allVars => ScreenIInv'
  BY ScreenSteps DEF ScreenStep
<1>3. ScreenIInv => Screen!TypeOK
  BY DEF ScreenIInv
<1>4. ScreenIInv /\ [AllNext]_allVars =>
        [con_wild' /\ ~con_wild => con_x = 0 /\ con_y = 0 /\ con_screen' = Screen!Clear]_Screen!vars
  BY ScreenSteps DEF ScreenStep, InFrame
<1>5. ScreenIInv /\ [AllNext]_allVars =>
        [\/ con_screen' = Screen!Clear
         \/ \A p \in Screen!Cell :
              con_screen[p] \in Glyph /\ con_screen'[p] # con_screen[p] =>
                IF con_x > 0 THEN p = <<con_x - 1, con_y>> /\ con_x' = con_x - 1 /\ con_screen'[p] = Blank
                ELSE con_screen'[p] = Screen!Torn /\ p[1] = (Columns - 1) * XCharSize % Columns]_Screen!vars
  BY ScreenSteps DEF ScreenStep, Shown, EdgeColumn, EdgePixel
<1>6. ScreenIInv /\ [AllNext]_allVars =>
        [con_line > 0 /\ con_line' = 0 /\ Screen!Begun =>
           con_x' % TabStop = 0 \/ (Columns % TabStop # 0 /\ con_x' < TabStop)]_Screen!vars
  BY ScreenSteps DEF ScreenStep, AtStop
<1> QED
  BY <1>1, <1>2, <1>3, <1>4, <1>5, <1>6, PTL
     DEF AllSpec, ScreenKept, Screen!ScreenKept, Screen!StaysInFrame, Screen!ShownStays,
         Screen!TabStops
=============================================================================
