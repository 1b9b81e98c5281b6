SPECIFICATION FairSpec
CONSTANTS
  MaxLen = 4
  AddrSpace = 5
  FrameLens = {2, 4}
  FrameLen = 4
  LowerBound = 2
  UpperBound = 4
  CutFree <- Cut
  ExpandFree <- Expand
  AdjFree <- Adj
  Settings <- AllSettings
  SingleLock = 2
  SecondEnds = {1}
  MaxChanges <- Changes
  MaxEvents <- Events
INVARIANTS
  TypeOK
  WorkInFrame
  ClaimsKnown
PROPERTIES
  SendsUncontested
  QuietAirWorks
  ImplementsAccess
