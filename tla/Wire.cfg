SPECIFICATION FairSpec
CONSTANTS
  FrameSize = 3
  Pieces <- AnyPiece
  RequestSizes = {1, 2, 3, 4}
  ResponseSizes = {1, 2, 3, 4}
  MaxRequests = 3
INVARIANTS
  CrashesAreExplained
PROPERTIES
  WireImplementsService
  RequestsAreAnswered
  SessionsEnd
CHECK_DEADLOCK FALSE
