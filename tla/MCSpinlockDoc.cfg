CONSTANTS
  CPU = {c1, c2, c3}
  Trying = {c3}
SPECIFICATION LockSpec
PROPERTY
  TryTakesFreeLock
