SPECIFICATION Spec
CONSTANTS
  p1 = p1
  p2 = p2
  l1 = l1
  l2 = l2
  nowhere = nowhere
  sys1 = sys1
  NoPid = NoPid
  NoLoc = NoLoc
  NoEvent = NoEvent
  Pids = {p1, p2}
  Locs = {l1, l2}
  BadLocs = {}
  Syscalls = {}
  Calls <- ReachCalls
  Requests <- ReachRequests
  MaxHooks = 3
  MaxRequests = 4
  Signals = FALSE
INVARIANTS
  ContextAgreesWithGdb
  MeasuringIsHarmless
  HooksMatchBreakpoints
  CaughtHitsRunAHook
PROPERTIES
  CrashesNeedACause
  HookRunsAtItsPlace
CHECK_DEADLOCK FALSE
