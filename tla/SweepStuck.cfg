CONSTANTS
  NULL = NULL
  Wakers = {w1}
  IPs = {i1}
  Faults = {"call"}
  MaxFaults = 1
  ReadyBelowStale = TRUE
  Handlers = {}
SPECIFICATION FairSpec
PROPERTY SweepRetries
