SPECIFICATION Spec
CONSTANTS
  Garbage <- ExpectedOrElse
  Missing = Missing
INVARIANTS
  AssertionsHold
CHECK_DEADLOCK FALSE
