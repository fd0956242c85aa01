------------------------------ MODULE Console -------------------------------
(***************************************************************************)
(* color_printk (printk.c) on a screen of characters: the cursor, the      *)
(* cells that putchar fills, and the lock, which the handlers of trap.c    *)
(* take again when they report an exception.  Interrupts are off while     *)
(* the lock is held, so that only an exception comes between two steps.    *)
(* What is printed is chosen character by character; vsprintf is one step, *)
(* which may meet a pointer that leads nowhere.                            *)
(***************************************************************************)
EXTENDS Integers, FiniteSets

CONSTANTS Columns, Rows,  \* XResolution / XCharSize, YResolution / YCharSize
          XCharSize, YCharSize,
          TabStop,        \* 8
          Glyph, Blank    \* the characters, and the space
Torn == "torn"   \* a cell half of which has been overwritten

\* A character is 8 by 16 pixels (printk.c:333), a line many of them.
ConsoleAssumption ==
  /\ {Columns, Rows, XCharSize, YCharSize, TabStop} \subseteq Nat \ {0}
  /\ Columns > 1 /\ XCharSize > 1 /\ XCharSize <= YCharSize
  /\ Glyph \cap {Blank, Torn} = {}

VARIABLES
  x, y,      \* Pos.XPosition, Pos.YPosition
  screen,    \* what each cell shows
  line,      \* color_printk's count of the spaces a tab still needs
  at,        \* where the call of color_printk is
  locked,    \* Pos.printk_lock
  fault,     \* an exception has come: "none", "outside" the lock or "inside"
  reported,  \* its handler has printed
  wild       \* putchar has written outside the frame buffer
vars == <<x, y, screen, line, at, locked, fault, reported, wild>>

Cell == (0 .. Columns - 1) \X (0 .. Rows - 1)

TypeOK ==
  /\ x \in 0 .. Columns - 1 /\ y \in 0 .. Rows - 1
  /\ screen \in [Cell -> Glyph \cup {Blank, Torn}]
  /\ line \in 0 .. TabStop
  /\ at \in {"out", "format", "chars", "halt"}
  /\ locked \in BOOLEAN /\ reported \in BOOLEAN /\ wild \in BOOLEAN
  /\ fault \in {"none", "outside", "inside"}

Clear == [c \in Cell |-> Blank]

Init ==
  /\ x = 0 /\ y = 0 /\ screen = Clear /\ line = 0
  /\ at = "out" /\ locked = FALSE
  /\ fault = "none" /\ reported = FALSE /\ wild = FALSE
-----------------------------------------------------------------------------
\* putchar at column a of line b: its pixels lie a \div Columns lines of pixels lower
\* when a is beyond the right edge, and then in two lines of characters.
Touched(a, b) ==
  LET top == b * YCharSize + a \div Columns
  IN  {<<a % Columns, row>> : row \in {top \div YCharSize, (top + YCharSize - 1) \div YCharSize}}

Putchar(a, b, c) ==
  LET cells == Touched(a, b)
  IN  [p \in Cell |-> IF p \notin cells THEN screen[p]
                      ELSE IF cells = {p} THEN c ELSE Torn]

\* Behind each character: the right edge, and the last line.
Settle(a, b, s) ==
  LET edge == a >= Columns
      row  == IF edge THEN b + 1 ELSE b
  IN  /\ x' = IF edge THEN 0 ELSE a
      /\ y' = IF row >= Rows THEN 0 ELSE row
      /\ screen' = IF row >= Rows THEN Clear ELSE s

Printing == at = "chars" /\ line = 0
Keeps == UNCHANGED <<at, locked, fault, reported>>

Char(c) ==
  /\ Printing
  /\ Settle(x + 1, y, Putchar(x, y, c))
  /\ UNCHANGED <<line, wild>> /\ Keeps

Newline ==
  /\ Printing
  /\ Settle(0, y + 1, screen)
  /\ UNCHANGED <<line, wild>> /\ Keeps

\* Where a backspace puts its space.  At the left edge the column becomes that of the
\* last one's first pixel, and in the first line the line likewise.
BackTo ==
  IF x > 0 THEN <<x - 1, y>>
  ELSE <<(Columns - 1) * XCharSize, IF y > 0 THEN y - 1 ELSE (Rows - 1) * YCharSize>>
Strays == ~(Touched(BackTo[1], BackTo[2]) \subseteq Cell)

Backspace ==
  /\ Printing
  /\ Settle(BackTo[1], BackTo[2], Putchar(BackTo[1], BackTo[2], Blank))
  /\ wild' = (wild \/ Strays)
  /\ UNCHANGED line /\ Keeps

\* Mutant: the spaces are not counted down.
SpaceAgain(n) ==
  /\ Settle(x + 1, y, Putchar(x, y, Blank))
  /\ line' = n
  /\ UNCHANGED wild /\ Keeps

\* A space of a tab, of which n were to come.
Space(n) ==
  /\ Settle(x + 1, y, Putchar(x, y, Blank))
  /\ line' = n - 1
  /\ UNCHANGED wild /\ Keeps

\* Mutant: a tab is always as wide.
TabWhole == Printing /\ Space(TabStop)

\* A tab, and the further turns of the loop that it takes.
Tab == Printing /\ Space((x \div TabStop + 1) * TabStop - x)
MoreTab == at = "chars" /\ line > 0 /\ Space(line)
-----------------------------------------------------------------------------
\* local_irq_save and spinlock_lock; whoever finds the lock taken waits for ever.
Lock ==
  /\ at = "out" /\ ~locked
  /\ locked' = TRUE /\ at' = "format"
  /\ UNCHANGED <<x, y, screen, line, fault, reported, wild>>

\* vsprintf, behind which the loop begins anew.
Format ==
  /\ at = "format" /\ at' = "chars" /\ line' = 0
  /\ UNCHANGED <<x, y, screen, locked, fault, reported, wild>>

\* spinlock_unlock, and the end of the handler, which halts.
Unlock ==
  /\ Printing
  /\ locked' = FALSE
  /\ at' = IF fault = "none" THEN "out" ELSE "halt"
  /\ reported' = (fault # "none")
  /\ UNCHANGED <<x, y, screen, line, fault, wild>>

\* An exception outside color_printk, on an argument of vsprintf, or on a store of
\* putchar outside the frame buffer, which may as well hit other memory.
Exception ==
  /\ fault = "none"
  /\ at \in {"out", "format"} \/ (Printing /\ Strays)
  /\ fault' = IF at = "out" THEN "outside" ELSE "inside"
  /\ at' = "out"
  /\ UNCHANGED <<x, y, screen, line, locked, reported, wild>>

Loop ==
  \/ \E c \in Glyph : Char(c)
  \/ Newline \/ Backspace \/ Tab \/ MoreTab
Next == Loop \/ Lock \/ Format \/ Unlock \/ Exception
Spec == Init /\ [][Next]_vars

\* A message ends, the kernel goes on, and the handler's print is not kept waiting.
Fairness == /\ WF_vars(MoreTab) /\ SF_vars(Unlock) /\ WF_vars(Format)
            /\ WF_vars(fault # "none" /\ Lock)
-----------------------------------------------------------------------------
Begun == at = "chars"

\* putchar leaves the frame buffer for a backspace in the first column of the first
\* line only (printk.c:693).
StaysInFrame ==
  [][wild' /\ ~wild => x = 0 /\ y = 0 /\ screen' = Clear]_vars

\* What is shown stays until the screen is cleared, but for what a backspace takes
\* back: the character before the cursor, or, in the first column, halves of two cells
\* of the one column that putchar strays to (printk.c:690).
ShownStays ==
  [][\/ screen' = Clear
     \/ \A p \in Cell :
          screen[p] \in Glyph /\ screen'[p] # screen[p] =>
            IF x > 0 THEN p = <<x - 1, y>> /\ x' = x - 1 /\ screen'[p] = Blank
            ELSE screen'[p] = Torn /\ p[1] = (Columns - 1) * XCharSize % Columns]_vars

\* A tab ends at a stop; where the lines are no multiple of it, also behind the right
\* edge, as far from it as the next stop was (printk.c:699).
TabStops ==
  [][line > 0 /\ line' = 0 /\ Begun =>
       x' % TabStop = 0 \/ (Columns % TabStop # 0 /\ x' < TabStop)]_vars

\* The cursor stays on the screen, and what is printed goes where it should and takes
\* nothing else away, but for the strays above (printk.c:690, 693, 699).
ScreenKept == []TypeOK /\ StaysInFrame /\ ShownStays /\ TabStops

\* color_printk comes to the end of a tab, which takes more turns than there are
\* characters (printk.c:672).
TabEnds == line > 0 ~> line = 0

\* An exception outside color_printk is reported (trap.c:234).
FaultShown == fault = "outside" ~> reported
=============================================================================
