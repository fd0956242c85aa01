CONSTANTS
  Task = {t1, t2, t3, t4}
  QueueHead = queue
  Count = 2
  Node = {n1, n2, n3, n4}
  HeadNode = head
SPECIFICATION AllSpec
CHECK_DEADLOCK FALSE
INVARIANTS
  
  ListSound
PROPERTIES
  OrderedSetSpec
  
