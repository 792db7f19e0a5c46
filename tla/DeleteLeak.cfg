CONSTANTS
  NULL = NULL
  Wakers = {w1}
  IPs = {i1}
  Faults = {}
  MaxFaults = 0
  ReadyBelowStale = TRUE
  Handlers = {"deleter"}
SPECIFICATION Spec
INVARIANT DeleteLeavesNoCompute
