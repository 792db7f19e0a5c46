CONSTANTS
  NULL = NULL
  Wakers = {w1, w2}
  IPs = {i1}
  Faults = {}
  MaxFaults = 0
  ReadyBelowStale = FALSE
  Handlers = {}
SPECIFICATION Spec
INVARIANT SingleOwner
