SPECIFICATION FairSpec
CONSTANTS
  Node = {1, 2}
  MaxLen = 2
  FrameLens = {2}
  Life = 2
  CountHops = FALSE
  CountCap = 0
  FrameLen = 2
  AdjEna = FALSE
  AdjFrameEna = FALSE
  LowerBound = 2
  UpperBound = 2
  AdjThreshold = 1
  ThresholdOf <- SameThreshold
  C3HThreshold = 2
  SlotMemory = {1}
  RandomBch = FALSE
  SingleMoves = TRUE
  BchLock = 1
  MaxBackoff = 1
  InitCandidates <- AnySlot
  InitLocks = {1}
  InitSingleSlot = {FALSE, TRUE}
  PhyCollisions = FALSE
  MaxLoss = 1
  InitLink <- Mesh
  Topologies <- Apart
  MaxMoves = 1
PROPERTY EveryoneWorks
PROPERTY RecordKept
