CONSTANTS
  Task = {t1, t2}
  WordBits = 4
  FirstPage = 1
  EndPage = 9
  BootPage = 2
  Numbers = {1, 2}
  FirstTask = t0
  SlabPage = {p0, p1, p2}
  FirstSlab = p0
  Colors = 2
  Frames = 5
  PageUnits = 6
  Align = 1
  Sizes = {1, 6}
  MaxHeap = 12
SPECIFICATION AllSpec
SYMMETRY Symmetric
CONSTRAINT Within
CHECK_DEADLOCK FALSE
INVARIANTS
  PagesSafe
  PagesCounted
  SlabsSound
  SpacesSound
PROPERTIES
  SinglePageFound
  KmallocFinds
