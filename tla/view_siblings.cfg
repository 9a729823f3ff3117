CONSTANTS
  high = high
  a = a
  b = b
  o1 = o1
  o2 = o2
  NoTip = NoTip
  Tips = {a, b, high}
  Work <- TipWork
  Height <- TipHeight
  StartTip = a
  Observers = {o1, o2}
  MaxMoves = 2
  MaxBumps = 1
SPECIFICATION ViewSpec
SYMMETRY Frontends
INVARIANTS NoFlipFlop EpochNamesTip
PROPERTIES NoReversal AuthoritySpec
CHECK_DEADLOCK FALSE
