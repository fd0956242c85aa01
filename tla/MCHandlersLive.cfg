CONSTANTS
  Irq = {33}
  PerClass = 16
  Depth = 1
  Timer = {u1, u2}
  QHead = head
  Activation = {a1, a2}
  MaxJiffies = 3
  Columns = 5
  Rows = 2
  XCharSize = 2
  YCharSize = 4
  TabStop = 3
  Glyph = {a}
  Blank = blank
SPECIFICATION AllLiveSpec
CHECK_DEADLOCK FALSE
PROPERTIES
  EveryTimerFires
  MessagesEnd
