CONSTANTS
  Task = {t1, t2}
  FirstTask = t1
  Name = {f1, kb}
  Keyboard = kb
  Fds = 2
  Slots = 3
  MaxPosition = 1
  DecodedKeys = {"a", "lshift", "rctrl", "home", "print", "pause"}
  MaxCodes = 6
  MaxTyped = 2
SPECIFICATION AllSpec
CHECK_DEADLOCK FALSE
INVARIANTS
  DescriptorsSound
  KeysRead
  WordsSplit
