SPECIFICATION Spec
CONSTANTS
  Vars <- TwoNames
  NoName = NoName
  MaxDepth = 3
  MaxCalls = 3
INVARIANTS
  OwnStopReadsInnermost
  OnlyFramesAlreadyLeftAreMissed
  CallStackIsWhole
CHECK_DEADLOCK FALSE
