SPECIFICATION Spec
CONSTANTS
  Us = 1
  Wrap = 10
  SlotTime = 4
  FiTimes = {1}
  Durations = {1, 2, 3}
  MaxSize = 2
  MaxDelay = 5
  Chain = {c1, c2}
INVARIANT OnlyOwnSlot
CHECK_DEADLOCK FALSE
