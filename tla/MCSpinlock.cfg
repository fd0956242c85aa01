CONSTANTS
  CPU = {c1, c2, c3}
  Trying = {c2, c3}
SPECIFICATION LockSpec
INVARIANTS
  LockSafe
  PreemptOffInside
PROPERTY
  SomebodyGetsIt
