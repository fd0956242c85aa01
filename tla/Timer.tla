------------------------------- MODULE Timer --------------------------------
(***************************************************************************)
(* Soft interrupts and kernel timers, softirq.c and time.c.  The clock     *)
(* interrupt raises TIMER_S_IRQ when the first timer of the list is due,   *)
(* and the return from any interrupt runs do_softirq, with interrupts on   *)
(* (softirq.c:32): so a second interrupt can start do_softirq again on top *)
(* of the first, or in another task.  Each run of do_softirq is one of the *)
(* Activations; they interleave freely.  TIMER_S_IRQ is the only soft      *)
(* interrupt the kernel registers.                                         *)
(***************************************************************************)
EXTENDS Integers, LinkedList

CONSTANTS Timer,        \* struct timer_list objects
          QHead,        \* timer_list_head
          Activation,   \* bounds how many runs of do_softirq overlap
          MaxJiffies    \* a bound of the model: jiffies stops here
TimerAssumption == QHead \notin Timer /\ MaxJiffies \in Nat

VARIABLES
  added,     \* the timers there are: all are added before the first tick
  list,      \* the list of timers
  expire,    \* expire_jiffies
  jiffies,
  pending,   \* softirq_status & TIMER_S_IRQ
  at,        \* where each activation is
  tmp,       \* do_timer's local
  fired,     \* how often each timer's function has been called
  overlap    \* history: do_timer began while another was in its loop
vars == <<added, list, expire, jiffies, pending, at, tmp, fired, overlap>>

Cell == Timer \cup {QHead}
Never == MaxJiffies + 1   \* expire_jiffies of the head, -1UL

\* Not running; before softirq.c:37; before time.c:35, 36; before the two
\* stores of 38; before 39 and 40; before softirq.c:40.
InLoop == {"test", "unlink", "relink", "call", "advance"}
Places == {"off", "enter", "first", "clear"} \cup InLoop

TypeOK ==
  /\ added \subseteq Timer
  /\ list \in ListMemory(Cell)
  /\ expire \in [Timer -> 1 .. MaxJiffies]
  /\ jiffies \in 0 .. MaxJiffies
  /\ pending \in BOOLEAN
  /\ at \in [Activation -> Places]
  /\ tmp \in [Activation -> Cell]
  /\ fired \in [Timer -> Nat]
  /\ overlap \in BOOLEAN

Due(t, e) == IF t = QHead THEN Never ELSE e[t]

\* add_timer: behind the first timer that is not due earlier, or the head.
AddTimer(l, e, t) ==
  ListAddBehind(l, WalkEnd(l, QHead, {u \in Timer : e[u] < e[t]}), t)

NoTimers == [next |-> [n \in Cell |-> n], prev |-> [n \in Cell |-> n]]

\* timer_init, for any times.
Init ==
  /\ expire \in [Timer -> 1 .. MaxJiffies]
  /\ added = {} /\ list = NoTimers
  /\ jiffies = 0
  /\ pending = FALSE
  /\ at = [a \in Activation |-> "off"]
  /\ tmp = [a \in Activation |-> QHead]
  /\ fired = [t \in Timer |-> 0]
  /\ overlap = FALSE

\* Any timers in any order, before the clock starts.
Add(t) ==
  /\ jiffies = 0 /\ t \notin added
  /\ added' = added \cup {t}
  /\ list' = AddTimer(list, expire, t)
  /\ UNCHANGED <<expire, jiffies, pending, at, tmp, fired, overlap>>

-----------------------------------------------------------------------------
\* ret_from_intr with a soft interrupt pending or not.
Return(p) ==
  /\ pending' = p
  /\ IF p
     THEN \E a \in Activation : /\ at[a] = "off"
                                /\ at' = [at EXCEPT ![a] = "enter"]
     ELSE UNCHANGED at
  /\ UNCHANGED <<added, list, expire, tmp, fired, overlap>>

\* HPET_handler; at MaxJiffies the clock stands still and keeps ticking.
Tick ==
  /\ jiffies' = IF jiffies < MaxJiffies THEN jiffies + 1 ELSE MaxJiffies
  /\ Return(pending \/ Due(list.next[QHead], expire) <= jiffies')

\* Any other interrupt.
Interrupt == Return(pending) /\ UNCHANGED jiffies

Go(a, from, to) == at[a] = from /\ at' = [at EXCEPT ![a] = to]

\* softirq.c:35, 37
Enter(a) ==
  /\ Go(a, "enter", IF pending THEN "first" ELSE "off")
  /\ UNCHANGED <<added, list, expire, jiffies, pending, tmp, fired, overlap>>

First(a) ==
  /\ Go(a, "first", "test")
  /\ tmp' = [tmp EXCEPT ![a] = list.next[QHead]]
  /\ overlap' = (overlap \/ \E b \in Activation \ {a} : at[b] \in InLoop)
  /\ UNCHANGED <<added, list, expire, jiffies, pending, fired>>

\* Mutant: a timer is due only on the tick itself.
TestExact(a) ==
  /\ Go(a, "test", IF ~ListIsEmpty(list, QHead) /\ Due(tmp[a], expire) = jiffies
                   THEN "unlink" ELSE "clear")
  /\ UNCHANGED <<added, list, expire, jiffies, pending, tmp, fired, overlap>>

Test(a) ==
  /\ Go(a, "test", IF ~ListIsEmpty(list, QHead) /\ Due(tmp[a], expire) <= jiffies
                   THEN "unlink" ELSE "clear")
  /\ UNCHANGED <<added, list, expire, jiffies, pending, tmp, fired, overlap>>

\* del_timer, store by store.
Unlink(a) ==
  /\ Go(a, "unlink", "relink")
  /\ list' = [list EXCEPT !.prev[list.next[tmp[a]]] = list.prev[tmp[a]]]
  /\ UNCHANGED <<added, expire, jiffies, pending, tmp, fired, overlap>>

\* Mutant: the timer stays where the list begins.
RelinkNot(a) ==
  /\ Go(a, "relink", "call")
  /\ UNCHANGED <<added, list, expire, jiffies, pending, tmp, fired, overlap>>

Relink(a) ==
  /\ Go(a, "relink", "call")
  /\ list' = [list EXCEPT !.next[list.prev[tmp[a]]] = list.next[tmp[a]]]
  /\ UNCHANGED <<added, expire, jiffies, pending, tmp, fired, overlap>>

Call(a) ==
  /\ Go(a, "call", "advance")
  /\ fired' = [fired EXCEPT ![tmp[a]] = @ + 1]
  /\ UNCHANGED <<added, list, expire, jiffies, pending, tmp, overlap>>

Advance(a) ==
  /\ Go(a, "advance", "test")
  /\ tmp' = [tmp EXCEPT ![a] = list.next[QHead]]
  /\ UNCHANGED <<added, list, expire, jiffies, pending, fired, overlap>>

\* softirq.c:40, also when the clock has raised the interrupt meanwhile.
Clear(a) ==
  /\ Go(a, "clear", "off")
  /\ pending' = FALSE
  /\ UNCHANGED <<added, list, expire, jiffies, tmp, fired, overlap>>

DoSoftirq(a) == \/ Enter(a) \/ First(a) \/ Test(a) \/ Unlink(a) \/ Relink(a)
                \/ Call(a) \/ Advance(a) \/ Clear(a)
Next ==
  \/ \E t \in Timer : Add(t)
  \/ Tick \/ Interrupt
  \/ \E a \in Activation : DoSoftirq(a)

\* The clock keeps ticking and every run of do_softirq goes on: the scheduler
\* gives each task the CPU again and again.
Fairness == WF_vars(Tick) /\ \A a \in Activation : WF_vars(DoSoftirq(a))
Spec == Init /\ [][Next]_vars /\ Fairness

-----------------------------------------------------------------------------
\* A timer's function is called once, unless do_timer was started on top of a
\* do_timer that was in its loop (softirq.c:32, time.c:36-41).
OnceOnly == ~overlap => \A t \in Timer : fired[t] <= 1

\* add_timer (time.c:67) puts a timer behind one that is due no earlier, or in
\* front of all: the first of the list is due last, and nothing is called
\* before that one is due.
WaitForTheLast ==
  \A t, u \in added : fired[t] > 0 => expire[u] <= jiffies

\* Whenever no do_timer is in its loop the list is in order and holds exactly
\* the timers not called yet: even after two runs of do_timer have deleted the
\* same timer (time.c:38) and put deleted ones back.
ListKept ==
  (\A a \in Activation : at[a] \notin InLoop) =>
    WellLinked(list, {t \in added : fired[t] = 0} \cup {QHead}, QHead)

\* The list between runs of do_softirq, and the calls, of which none is made twice or
\* before all are due (softirq.c:32, time.c:38, 67).
Sound == TypeOK /\ OnceOnly /\ WaitForTheLast /\ ListKept

\* Every timer's function is called, although softirq.c:40 may clear an
\* interrupt that the clock has just raised.
EveryTimerFires == \A t \in Timer : t \in added ~> fired[t] > 0
=============================================================================
