SPECIFICATION LiveSpec
CONSTANTS
  a = a  level = level  high = high  o1 = o1  NoTip = NoTip
  w1 = w1  f1 = f1  f2 = f2  c1 = c1  Nobody = Nobody
  Tips = {a, level, high}
  Work <- TipWork
  Height <- TipHeight
  StartTip = a
  Observers = {o1}
  MaxMoves = 3
  MaxBumps = 1
  Frontends = {w1}
  Fanouts = {f1, f2}
  Coins = {c1}
  SelfPaying = {f2}
  Deep = 1
  ScanBlocks = 1
  MaxHeight = 1
  MaxReorgs = 0
  MaxFaults = 0
INVARIANT OneFanoutPerCoin
PROPERTIES MoreWorkIsAccepted DueIsClaimed
CHECK_DEADLOCK FALSE
