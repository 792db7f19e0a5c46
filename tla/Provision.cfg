CONSTANTS
  Reqs = {r1, r2}
  Branches = {main, b1, b2}
  Main = main
  Names = {x, y}
  MainName = x
  NoBranch = NoBranch
  Faults = {"call", "lost", "cancel", "wait"}
  MaxFaults = 2
SPECIFICATION FairSpec
INVARIANTS CreatedIsKept RacesAgree ProvisioningInv RacesInv
PROPERTIES RowOutlivesStorage DeleteSucceeds ReadsAnswer ImplementsBranches
CHECK_DEADLOCK FALSE
