----------------------------- MODULE MCHandlers -----------------------------
(***************************************************************************)
(* What interrupts and exceptions set off: the descriptors and the         *)
(* controller, the soft interrupts with the kernel timers, and the         *)
(* messages on the screen.  `part` says which of the three a behaviour is  *)
(* of; the variables of the others keep their first values.                *)
(***************************************************************************)
EXTENDS Interrupts

CONSTANTS Timer, QHead, Activation, MaxJiffies,
          Columns, Rows, XCharSize, YCharSize, TabStop, Glyph, Blank
VARIABLES part,
  timer_added, timer_list, timer_expire, timer_jiffies, timer_pending, timer_at,
  timer_tmp, timer_fired, timer_overlap,
  con_x, con_y, con_screen, con_line, con_at, con_locked, con_fault, con_reported,
  con_wild

Timers == INSTANCE Timer WITH
  added <- timer_added, list <- timer_list, expire <- timer_expire,
  jiffies <- timer_jiffies, pending <- timer_pending, at <- timer_at,
  tmp <- timer_tmp, fired <- timer_fired, overlap <- timer_overlap
Screen == INSTANCE Console WITH
  x <- con_x, y <- con_y, screen <- con_screen, line <- con_line, at <- con_at,
  locked <- con_locked, fault <- con_fault, reported <- con_reported, wild <- con_wild
ASSUME PartsAssumption == Timers!TimerAssumption /\ Screen!ConsoleAssumption

timerVars == <<timer_added, timer_list, timer_expire, timer_jiffies, timer_pending,
               timer_at, timer_tmp, timer_fired, timer_overlap>>
conVars == <<con_x, con_y, con_screen, con_line, con_at, con_locked, con_fault,
             con_reported, con_wild>>
allVars == <<part, vars, timerVars, conVars>>

AllInit ==
  /\ part \in {"interrupts", "timers", "screen"}
  /\ Init /\ Timers!Init /\ Screen!Init
  /\ part # "timers" => timer_expire = [t \in Timer |-> 1]
InterruptsNext == part = "interrupts" /\ Next /\ UNCHANGED <<part, timerVars, conVars>>
TimersNext == part = "timers" /\ Timers!Next /\ UNCHANGED <<part, vars, conVars>>
ScreenNext == part = "screen" /\ Screen!Next /\ UNCHANGED <<part, vars, timerVars>>
AllNext == InterruptsNext \/ TimersNext \/ ScreenNext
AllSpec == AllInit /\ [][AllNext]_allVars

\* The timers and the screen under the fairness that their own modules ask for.
AllLiveSpec == /\ AllSpec
               /\ part = "timers" => Timers!Fairness
               /\ part = "screen" => Screen!Fairness

\* Soft interrupts that overlap keep the list of timers, and call none of them twice or
\* early: what Timer says of it (softirq.c:32, time.c:36).
TimersSound == Timers!Sound

\* Every timer's function is called (softirq.c:40).
EveryTimerFires == part = "timers" => Timers!EveryTimerFires

\* What is shown stays and what is printed goes where it should: what Console says of
\* the cursor (printk.c:690, 699).
ScreenKept == Screen!ScreenKept

\* A message comes to its end, and an exception's is not kept waiting, unless it
\* is color_printk's own (printk.c:672, trap.c:234).
MessagesEnd == part = "screen" => Screen!TabEnds /\ Screen!FaultShown
=============================================================================
