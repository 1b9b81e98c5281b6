SPECIFICATION Spec
CONSTANTS
  Us = 3
  Wrap = 30
  SlotTime = 9
  FiTimes = {3, 4, 5, 13}
  Durations = {2, 3, 5}
  MaxSize = 2
  MaxDelay = 10
  Chain = {c1, c2}
INVARIANTS TypeOK BudgetKept NoStraddle ChainsDoNotPileUp LowPathKeepsItsSlot SizeExact OldestFirst
CHECK_DEADLOCK FALSE
