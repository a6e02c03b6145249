SPECIFICATION Spec
CONSTANTS
  HookIndex = 0
  Base <- MCBase
  Leaves <- MCLeaves
  Arity <- MCArity
  MaxDepth = 2
INVARIANTS
  RequestsAreReadBack
  TypedRequestsSucceed
  ErrorsEndTheRequest
  ArgumentsAreLastResults
CHECK_DEADLOCK FALSE
