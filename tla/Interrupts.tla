----------------------------- MODULE Interrupts -----------------------------
(***************************************************************************)
(* Interrupts from a device's edge to the end of interrupt: the            *)
(* descriptors that register_irq and unregister_irq (interrupt.c) fill     *)
(* store by store, do_INT and the controller (APIC.c).                     *)
(*                                                                         *)
(* The IO APIC and the local APIC are external: an edge on a masked line   *)
(* is lost; one on another is requested, once, until the processor takes   *)
(* it, which it does with interrupts on and for a class above those it has *)
(* not ended.  A device raises its line and not again before its handler   *)
(* has served it.                                                          *)
(***************************************************************************)
EXTENDS Integers, Sequences

CONSTANTS Irq,      \* the lines, by their vectors
          PerClass, \* the vectors of a class: 16
          Depth     \* bound: handlers and soft interrupts on the stack
ASSUME InterruptsAssumption ==
  Irq \subseteq Nat /\ PerClass \in Nat \ {0} /\ Depth \in Nat \ {0}

VARIABLES
  desc,     \* interrupt_desc: which of its fields are set
  masked,   \* the lines the IO APIC masks
  requested, inService,  \* the local APIC's registers
  raised,   \* the devices that wait for their handler
  stack,    \* what has interrupted the call, and each other
  enabled,  \* the interrupt flag of the code that makes the call
  call,     \* the call of register_irq or unregister_irq
  late,     \* history: the lines unregistered with a request under way
  lost      \* history: the lines whose edge nobody was to see
vars == <<desc, masked, requested, inService, raised, stack, enabled, call, late, lost>>
apic == <<masked, requested, inService>>
history == <<late, lost>>

Field == {"controler", "handler"}
Idle == [op |-> "none", irq |-> 0, at |-> "out"]
Class(i) == i \div PerClass
Frames == [irq : Irq, at : {"handler", "ack", "soft"}]

TypeOK ==
  /\ desc \in [Irq -> SUBSET Field]
  /\ masked \subseteq Irq /\ requested \subseteq Irq /\ inService \subseteq Irq
  /\ raised \subseteq Irq
  /\ Len(stack) <= Depth /\ \A k \in DOMAIN stack : stack[k] \in Frames
  /\ enabled \in BOOLEAN
  /\ call \in {Idle} \cup [op : {"register", "unregister"}, irq : Irq,
                           at : {"begin", "handler", "install", "enable", "uninstall",
                                 "clear", "forget"}]
  /\ late \subseteq Irq /\ lost \subseteq Irq

Init ==
  /\ desc = [i \in Irq |-> {}]
  /\ masked = Irq /\ requested = {} /\ inService = {} /\ raised = {}
  /\ stack = <<>> /\ enabled = FALSE /\ call = Idle
  /\ late = {} /\ lost = {}
-----------------------------------------------------------------------------
\* The calls, while no handler runs.
Goes(place) == call' = [call EXCEPT !.at = place]
Returns == call' = Idle
Fields(i, set) == desc' = [desc EXCEPT ![i] = set]
Doing(op, place) == stack = <<>> /\ call.op = op /\ call.at = place

Calls(i) ==
  /\ stack = <<>> /\ call = Idle
  /\ call' = [op |-> IF desc[i] = {} THEN "register" ELSE "unregister", irq |-> i,
              at |-> "begin"]
  /\ UNCHANGED <<desc, apic, raised, stack, enabled, history>>

\* register_irq: the descriptor, the line as it is given (masked), and its opening.
Register ==
  \/ /\ Doing("register", "begin") /\ Goes("handler")
     /\ Fields(call.irq, {"controler"}) /\ UNCHANGED masked
  \/ /\ Doing("register", "handler") /\ Goes("install")
     /\ Fields(call.irq, Field) /\ UNCHANGED masked
  \/ /\ Doing("register", "install") /\ Goes("enable")
     /\ masked' = masked \cup {call.irq} /\ UNCHANGED desc
  \/ /\ Doing("register", "enable") /\ Returns
     /\ masked' = masked \ {call.irq} /\ UNCHANGED desc

\* unregister_irq, backwards.
Unregister ==
  \/ /\ Doing("unregister", "begin") /\ Goes("uninstall")
     /\ masked' = masked \cup {call.irq} /\ UNCHANGED desc
  \/ /\ Doing("unregister", "uninstall") /\ Goes("clear")
     /\ masked' = masked \cup {call.irq} /\ UNCHANGED desc
  \/ /\ Doing("unregister", "clear") /\ Goes("forget")
     /\ Fields(call.irq, {"controler"}) /\ UNCHANGED masked
  \/ /\ Doing("unregister", "forget") /\ Returns
     /\ Fields(call.irq, {}) /\ UNCHANGED masked

CallStep ==
  /\ Register \/ Unregister
  /\ late' = late \cup {i \in requested : desc[i] # {} /\ desc'[i] = {}}
  /\ UNCHANGED <<requested, inService, raised, stack, enabled, lost>>

\* cli and sti, around or between the calls.
Flag ==
  /\ stack = <<>> /\ enabled' = ~enabled
  /\ UNCHANGED <<desc, apic, raised, stack, call, history>>

-----------------------------------------------------------------------------
\* A device raises its line.
Edge(i) ==
  /\ i \notin raised
  /\ raised' = raised \cup {i}
  /\ requested' = IF i \in masked THEN requested ELSE requested \cup {i}
  /\ lost' = IF i \in masked THEN lost \cup {i} ELSE lost
  /\ UNCHANGED <<desc, masked, inService, stack, enabled, call, late>>

\* Interrupts are off in a handler; a soft interrupt turns them on.
Top == stack[Len(stack)]
Open == IF stack = <<>> THEN enabled ELSE Top.at = "soft"
Replaced(frame) == [stack EXCEPT ![Len(stack)] = frame]

\* The processor takes the highest request.
Deliver(i) ==
  /\ i \in requested /\ \A j \in requested : j <= i
  /\ \A j \in inService : Class(i) > Class(j)
  /\ Open /\ Len(stack) < Depth
  /\ requested' = requested \ {i} /\ inService' = inService \cup {i}
  /\ stack' = Append(stack, [irq |-> i, at |-> "handler"])
  /\ UNCHANGED <<desc, masked, raised, enabled, call, history>>

\* do_INT calls the handler, if there is one ...
Handler ==
  /\ stack # <<>> /\ Top.at = "handler"
  /\ IF "handler" \in desc[Top.irq]
     THEN raised' = raised \ {Top.irq} /\ UNCHANGED lost
     ELSE /\ lost' = IF Top.irq \in late \/ (call.op = "unregister" /\ call.irq = Top.irq)
                     THEN lost \cup ({Top.irq} \cap raised) ELSE lost
          /\ UNCHANGED raised
  /\ stack' = Replaced([Top EXCEPT !.at = "ack"])
  /\ UNCHANGED <<desc, apic, enabled, call, late>>

\* The end of interrupt: the local APIC ends the highest in service.
Ended == {i \in inService : \E j \in inService : j > i}

\* Mutant: nothing is acknowledged without a handler.
AckHandled ==
  /\ stack # <<>> /\ Top.at = "ack"
  /\ inService' = IF desc[Top.irq] = Field THEN Ended ELSE inService
  /\ stack' = Replaced([Top EXCEPT !.at = "soft"])
  /\ UNCHANGED <<desc, masked, requested, raised, enabled, call, history>>

\* ... and has the controller acknowledge it, if there is one.
Ack ==
  /\ stack # <<>> /\ Top.at = "ack"
  /\ inService' = IF "controler" \in desc[Top.irq] THEN Ended ELSE inService
  /\ stack' = Replaced([Top EXCEPT !.at = "soft"])
  /\ UNCHANGED <<desc, masked, requested, raised, enabled, call, history>>

\* ret_from_intr, after soft interrupts or without.
Return ==
  /\ stack # <<>> /\ Top.at = "soft"
  /\ stack' = SubSeq(stack, 1, Len(stack) - 1)
  /\ UNCHANGED <<desc, apic, raised, enabled, call, history>>

Next ==
  \/ \E i \in Irq : Calls(i) \/ Edge(i) \/ Deliver(i)
  \/ CallStep \/ Flag \/ Handler \/ Ack \/ Return
Spec == Init /\ [][Next]_vars
-----------------------------------------------------------------------------
\* The interrupts whose handler is under way.
UnderWay == {stack[k].irq : k \in {l \in DOMAIN stack : stack[l].at # "soft"}}

\* What is in service is in its handler, unless it was requested when the line was
\* unregistered: then nobody acknowledges it, and its class and those below it stay
\* shut (APIC.c:480).
EachIsEnded == inService \ late \subseteq UnderWay /\ UnderWay \subseteq inService

\* A device that waits has its request or its handler on the way, unless it raised its
\* line while this was masked, or while it was unregistered: then it waits for ever, as
\* the keyboard does when a key comes before register_irq (keyboard.c:85,
\* interrupt.c:136).
NobodyWaitsInVain ==
  raised \ lost \subseteq
    requested \cup {stack[k].irq : k \in {l \in DOMAIN stack : stack[l].at = "handler"}}

\* A line that is open has its whole descriptor (interrupt.c:136, interrupt.c:144).
OpenIsReady == \A i \in Irq \ masked : desc[i] = Field

\* Interrupts come to their end, the devices that wait are heard, and open lines have
\* a handler, but for what the histories excuse (interrupt.c:136, APIC.c:480).
InterruptsSafe == TypeOK /\ EachIsEnded /\ NobodyWaitsInVain /\ OpenIsReady
=============================================================================
