----------------------------- MODULE MCDevices ------------------------------
(***************************************************************************)
(* The two device drivers that tasks wait for, the disk's and the          *)
(* keyboard's, each with interchangeable tasks.  `part` says which of them *)
(* a behaviour is of; the variables of the other keep their first values.  *)
(***************************************************************************)
EXTENDS Disk, TLC

CONSTANTS Reader,    \* the tasks that use the keyboard
          Size, Wants, MaxTyped
VARIABLES part,
  kb_head, kb_tail, kb_count, kb_buf, kb_waiters, kb_cpu, kb_running, kb_pc, kb_want,
  kb_counter, kb_loaded, kb_typed, kb_got, kb_struck, kb_shared, kb_early

Keys == INSTANCE Keyboard WITH
  Task <- Reader,
  head <- kb_head, tail <- kb_tail, count <- kb_count, buf <- kb_buf,
  waiters <- kb_waiters, cpu <- kb_cpu, running <- kb_running, pc <- kb_pc,
  want <- kb_want, counter <- kb_counter, loaded <- kb_loaded, typed <- kb_typed,
  got <- kb_got, struck <- kb_struck, shared <- kb_shared, early <- kb_early
ASSUME RingAssumption == Keys!KeyboardAssumption

kbVars == <<kb_head, kb_tail, kb_count, kb_buf, kb_waiters, kb_cpu, kb_running, kb_pc,
            kb_want, kb_counter, kb_loaded, kb_typed, kb_got, kb_struck, kb_shared,
            kb_early>>
allVars == <<part, vars, kbVars>>

AllInit == part \in {"disk", "keyboard"} /\ Init /\ Keys!Init
DiskNext == part = "disk" /\ Next /\ UNCHANGED <<part, kbVars>>
KeyboardNext == part = "keyboard" /\ Keys!Next /\ UNCHANGED <<part, vars>>
AllNext == DiskNext \/ KeyboardNext
AllSpec == AllInit /\ [][AllNext]_allVars

\* Each driver under the fairness that its own module asks for.
AllLiveSpec == /\ AllSpec
               /\ part = "disk" => Fairness
               /\ part = "keyboard" => Keys!Fairness

\* What tasks read is what was typed, and none sleeps beside a code: what Keyboard
\* says of the ring (keyboard.c:40, 139, 157).
KeysKept == Keys!RingSound

\* Every code is read, but for those that meet a reader where nothing keeps them apart
\* (keyboard.c:139, waitqueue.c:16).
EveryCodeRead == Keys!EveryCodeRead

\* The models go no further than the step that ends what the drivers rely on.
Within == Undisturbed /\ Keys!Calm
Symmetric == Permutations(Task) \cup Permutations(Reader)
=============================================================================
