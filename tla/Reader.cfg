SPECIFICATION Spec
CONSTANTS
  Chars <- MCChars
  Texts <- MCTexts
  MaxToken = 4
  MaxText = 6
INVARIANTS
  OverrunNeedsLongToken
  CrashNeedsLastTick
  ReadsAsDefined
  LayoutDoesNotMatter
PROPERTIES
  EveryStepCounts
CHECK_DEADLOCK FALSE
