CONSTANTS
  Half = 2
  NoLsn = NoLsn
  Members = 2
  Faults = {"call"}
  MaxFaults = 1
SPECIFICATION Spec
INVARIANT AnyMemberIsAuthoritative
