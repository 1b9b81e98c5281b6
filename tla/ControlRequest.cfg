SPECIFICATION Spec
CONSTANTS
  MaxLen = 4
  AddrSpace = 5
  FrameLens = {2, 4}
  FrameLen = 4
  LowerBound = 4
  UpperBound = 4
  CutFree <- Cut
  ExpandFree <- Expand
  AdjFree <- Adj
  Settings <- PlainOnly
  SingleLock = 2
  SecondEnds = {1}
  MaxChanges <- FewChanges
  MaxEvents <- TwoEvents
PROPERTY
  RequestHeedsClaims
