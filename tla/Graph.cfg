SPECIFICATION Spec
CONSTANTS
  Functions <- TwoFunctions
  NoFunction <- Nameless
  Special <- SignalFrame
  MaxFrames = 3
  MaxUpdates = 3
INVARIANTS
  NodesHaveOneOwner
  OutermostFunctionArrives
  FlatFormIsReadBack
PROPERTIES
  GraphIsACallTree
CHECK_DEADLOCK FALSE
