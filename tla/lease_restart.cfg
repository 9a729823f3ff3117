CONSTANTS
  f1 = f1
  f2 = f2
  Procs = {f1}
  Operators = {f1}
  Lease <- EqualLeases
  UnrecordedLease = 2
  MaxClaims = 2
  MaxRenewals = 1
  MaxCrashes = 1
SPECIFICATION FairSpec
PROPERTY LeasesEnd
CHECK_DEADLOCK FALSE
