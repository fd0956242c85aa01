CONSTANTS
  Irq = {33, 34, 50}
  PerClass = 16
  Depth = 2
  Timer = {u1, u2, u3}
  QHead = head
  Activation = {a1, a2}
  MaxJiffies = 3
  Columns = 5
  Rows = 2
  XCharSize = 2
  YCharSize = 4
  TabStop = 3
  Glyph = {a, b}
  Blank = blank
SPECIFICATION AllSpec
CHECK_DEADLOCK FALSE
INVARIANTS
  InterruptsSafe
  TimersSound
PROPERTY
  ScreenKept
