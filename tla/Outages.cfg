CONSTANTS
  NULL = NULL
  Nothing = Nothing
  Endpoints = {e1, e2}
  Wakers = {w1}
  IPs = {i1, i2}
  ReadyBelowStale = FALSE
  MaxRetries = 1
  Faults = {"call", "lost", "pod", "crash", "hang", "db", "ready", "reuse", "slow", "wake"}
  MaxFaults = 1
SPECIFICATION FairSpec
PROPERTIES IdleIsSwept WakesGoOn
