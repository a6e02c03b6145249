SPECIFICATION FairSpec
CONSTANTS
  p1 = p1
  p2 = p2
  l1 = l1
  l2 = l2
  nowhere = nowhere
  sys1 = sys1
  NoPid = NoPid
  NoLoc = NoLoc
  NoEvent = NoEvent
  Pids = {p1}
  Locs = {l1}
  BadLocs = {nowhere}
  Syscalls = {}
  Calls <- TimedCalls
  Requests <- TimedRequests
  MaxHooks = 2
  MaxRequests = 3
  Signals = FALSE
PROPERTIES
  RequestsAreAnswered
  TimedHooksRun
CHECK_DEADLOCK FALSE
