SPECIFICATION Spec
CONSTANTS
  Node = {1, 2, 3}
  MaxLen = 4
  FrameLens = {4}
  Life = 2
  CountHops = FALSE
  CountCap = 0
  FrameLen = 4
  AdjEna = FALSE
  AdjFrameEna = FALSE
  LowerBound = 4
  UpperBound = 4
  AdjThreshold = 1
  ThresholdOf <- SameThreshold
  C3HThreshold = 2
  SlotMemory = {1, 2, 3}
  RandomBch = TRUE
  SingleMoves = TRUE
  BchLock = 2
  MaxBackoff = 1
  InitCandidates <- NoSlot
  InitLocks = {2}
  InitSingleSlot = {FALSE}
  PhyCollisions = TRUE
  MaxLoss = 0
  InitLink <- Line
  Topologies <- Nowhere
  MaxMoves = 0
INVARIANT ReceivedAsSent
