SPECIFICATION FairSpec
CONSTANTS
  Node = {1, 2, 3}
  MaxLen = 4
  FrameLens = {4}
  Life = 3
  CountHops = FALSE
  CountCap = 0
  FrameLen = 4
  AdjEna = FALSE
  AdjFrameEna = FALSE
  LowerBound = 4
  UpperBound = 4
  AdjThreshold = 1
  ThresholdOf <- SameThreshold
  C3HThreshold = 2
  SlotMemory = {1, 2, 3}
  RandomBch = TRUE
  SingleMoves = FALSE
  BchLock = 0
  MaxBackoff = 0
  InitCandidates <- NoSlot
  InitLocks = {0}
  InitSingleSlot = {FALSE}
  PhyCollisions = TRUE
  MaxLoss = 1
  InitLink <- Mesh
  Topologies <- ThreeLeaves
  MaxMoves = 1
PROPERTY DepartedForgotten
PROPERTY SettledStays
