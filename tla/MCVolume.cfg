CONSTANTS
  Task = {t1, t2}
  File = {f1, f2}
  NoFile = NoFile
  Last = 5
  NumFATs = 2
  Bytes = 2
  Counts = {1, 3}
  MaxSize = 6
  MaxCalls = 7
SPECIFICATION AllSpec
SYMMETRY Symmetric
CONSTRAINT Sane
CHECK_DEADLOCK FALSE
INVARIANTS
  ChainsSound
  DiskAgrees
  NamesSound
  NamesFound
PROPERTIES
  OthersSpared
  RightPlace
