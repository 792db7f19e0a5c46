CONSTANTS
  NULL = NULL
  Nothing = Nothing
  Endpoints = {e1, e2}
  Wakers = {w1, w2}
  IPs = {i1, i2}
  ReadyBelowStale = TRUE
  MaxRetries = 1
  Faults = {"wake", "hang"}
  MaxFaults = 1
SPECIFICATION Spec
SYMMETRY Symmetry
INVARIANT FleetInv
PROPERTY RightCompute
