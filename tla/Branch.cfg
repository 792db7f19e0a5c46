CONSTANTS
  Half = 2
  NoLsn = NoLsn
  Members = 3
  Faults = {"call", "bad", "lost", "wait", "cancel"}
  MaxFaults = 2
SPECIFICATION FairSpec
INVARIANTS BranchComplete BranchInv BranchIngested
PROPERTY BranchHappens
