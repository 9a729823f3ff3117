SPECIFICATION OutboxSpec
CONSTANTS
  b1 = b1
  p = p  a = a  a2 = a2  a3 = a3  x = x  x3 = x3
  NoToken = NoToken
  NoBlock = NoBlock
  Tips = {p, a, x}
  StartTip = p
  Work <- WorkOf
  View <- ViewOf
  Rank <- RankOf
  Blocks = {b1}
  Leased = {}
  Captured = {}
  CaptureOn = TRUE
  Rebuildable = {b1}
  Unreadable = {b1}
  Frontends = {f1}
  Operators = {op}
  Elsewhere = {b1}
  CarryPaying = {}
  MaxRetries = 1
  MaxFaults = 2
  MaxRevision = 2
  Tokens = {t1, t2, t3}
SYMMETRY Interchangeable
INVARIANTS OfferedAtMostOnce OfferColumns
PROPERTY ParkedStaysParked
