SPECIFICATION FairSpec
CONSTANTS
  StoreSize = 2
  Indexes <- AllIndexes
  StackDepth = 4
  MaxMeasurements = 3
INVARIANTS
  CrashesAreExplained
PROPERTIES
  StoreImplementsLog
  LoadsAreAnswered
CHECK_DEADLOCK FALSE
