CONSTANTS
  Task = {t1, t2}
  Idle = idle
  QHead = head
  None = none
  Sectors = {1, 2}
  Reader = {r1}
  Size = 2
  Wants = {1}
  MaxTyped = 3
SPECIFICATION AllLiveSpec
CONSTRAINT Within
CHECK_DEADLOCK FALSE
PROPERTIES
  
  EveryCodeRead
