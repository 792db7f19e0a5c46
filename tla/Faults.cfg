CONSTANTS
  NULL = NULL
  Wakers = {w1}
  IPs = {i1, i2}
  Faults = {"call", "lost", "cancel", "slow", "ready", "wake", "ctl", "pod", "crash"}
  MaxFaults = 2
  ReadyBelowStale = FALSE
  Handlers = {"debug"}
SPECIFICATION Spec
SYMMETRY Symmetry
INVARIANTS TypeOK FreshAddress
