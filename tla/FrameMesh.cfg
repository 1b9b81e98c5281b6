SPECIFICATION Spec
CONSTANTS
  Node = {1, 2, 3}
  MaxLen = 4
  FrameLens = {2, 4}
  Life = 2
  CountHops = TRUE
  CountCap = 4
  FrameLen = 4
  AdjEna = TRUE
  AdjFrameEna = TRUE
  LowerBound = 2
  UpperBound = 4
  AdjThreshold = 1
  ThresholdOf <- SameThreshold
  C3HThreshold = 2
  SlotMemory = {1, 2, 3}
  RandomBch = TRUE
  SingleMoves = TRUE
  BchLock = 1
  MaxBackoff = 1
  InitCandidates <- NoSlot
  InitLocks = {1}
  InitSingleSlot = {FALSE}
  PhyCollisions = TRUE
  MaxLoss = 0
  InitLink <- Mesh
  Topologies <- Nowhere
  MaxMoves = 0
INVARIANT FiNamesSender
