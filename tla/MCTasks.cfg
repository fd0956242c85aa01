CONSTANTS
  Task = {idle, t1, t2, t3}
  Idle = idle
  QHead = head
  MaxVruntime = 4
SPECIFICATION AllSpec
SYMMETRY TaskSymmetry
CONSTRAINT UpToEarly
CHECK_DEADLOCK FALSE
INVARIANTS
  QueueSafe
  SleepSafe
  
  WaitSound
PROPERTIES
  LeastVruntimeRuns
  OddSliceIsTheLast
  FairSpec
  WakesInOrder
