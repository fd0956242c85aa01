CONSTANTS
  Task = {t1, t2, t3}
  Idle = idle
  QHead = head
  None = none
  Sectors = {1, 2}
  Reader = {r1, r2}
  Size = 2
  Wants = {1, 2}
  MaxTyped = 4
SPECIFICATION AllSpec
SYMMETRY Symmetric
CONSTRAINT Within
CHECK_DEADLOCK FALSE
INVARIANTS
  
  KeysKept
PROPERTY
  ServedInOrder
