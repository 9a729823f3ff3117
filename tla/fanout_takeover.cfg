SPECIFICATION FanSpec
CONSTANTS
  w1 = w1
  w2 = w2
  f1 = f1
  f2 = f2
  f3 = f3
  c1 = c1
  c2 = c2
  Nobody = Nobody
  Frontends = {w1, w2}
  Fanouts = {f1}
  Coins = {c1, c2}
  SelfPaying = {}
  Deep = 2
  ScanBlocks = 1
  MaxHeight = 2
  MaxReorgs = 1
  MaxFaults = 1
SYMMETRY Interchangeable
INVARIANTS LocksRecorded SignedCoinProtected OneChild ScanNeverPasses
PROPERTY DeepIsFinal
CHECK_DEADLOCK FALSE
