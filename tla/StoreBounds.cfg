SPECIFICATION Spec
CONSTANTS
  StoreSize = 2
  Indexes <- AllIndexes
  StackDepth = 3
  MaxMeasurements = 2
INVARIANTS
  StoresStayInBounds
CHECK_DEADLOCK FALSE
