CONSTANTS
  NULL = NULL
  Wakers = {w1}
  IPs = {i1}
  Faults = {"call", "lost", "cancel", "slow", "ready", "wake", "ctl", "pod", "crash"}
  MaxFaults = 2
  ReadyBelowStale = FALSE
  Handlers = {"deleter"}
SPECIFICATION FairSpec
PROPERTIES Responsive CallsDrain
