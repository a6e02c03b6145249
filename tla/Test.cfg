SPECIFICATION Spec
CONSTANTS
  Garbage <- ExpectedOrElse
  Missing = Missing
INVARIANTS
  PassingTestsReleased
  LateRequestsPass
CHECK_DEADLOCK FALSE
