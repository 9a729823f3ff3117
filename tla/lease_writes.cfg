CONSTANTS
  f1 = f1
  f2 = f2
  Procs = {f1, f2}
  Operators = {}
  Lease <- EqualLeases
  UnrecordedLease = 1
  MaxClaims = 2
  MaxRenewals = 1
  MaxCrashes = 0
SPECIFICATION Spec
PROPERTY WritesUnderLiveDatabaseLease
CHECK_DEADLOCK FALSE
