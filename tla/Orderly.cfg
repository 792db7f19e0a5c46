CONSTANTS
  NULL = NULL
  Wakers = {w1, w2}
  IPs = {i1, i2}
  Faults = {"ctl"}
  MaxFaults = 1
  ReadyBelowStale = TRUE
  Handlers = {}
SPECIFICATION FairSpec
INVARIANTS SingleOwner RunningIsServed NoGhost OrderlyInv
PROPERTIES ImplementsMachine ScaleToZero Responsive
