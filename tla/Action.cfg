SPECIFICATION Spec
CONSTANTS
  p1 = p1
  p2 = p2
  l1 = l1
  l2 = l2
  nowhere = nowhere
  sys1 = sys1
  NoPid = NoPid
  NoLoc = NoLoc
  NoEvent = NoEvent
  Pids = {p1}
  Locs = {l1}
  BadLocs = {nowhere}
  Syscalls = {sys1}
  Calls <- ActionCalls
  Requests <- ActionRequests
  MaxHooks = 2
  MaxRequests = 4
  Signals = TRUE
INVARIANTS
  HangsOnlyInAction
  NoServiceAfterQuit
  TargetRunsBetweenRequests
  HarmIsExplained
  StrayInterruptNeedsLostStop
PROPERTIES
  CrashesNeedACause
  HooksAreAService
CHECK_DEADLOCK FALSE
