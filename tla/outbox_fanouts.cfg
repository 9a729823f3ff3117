SPECIFICATION OutboxSpec
CONSTANTS
  b1 = b1
  p = p  a = a  a2 = a2  a3 = a3  x = x  x3 = x3
  NoToken = NoToken
  NoBlock = NoBlock
  Tips = {p, a, x}
  StartTip = p
  Work <- WorkOf
  View <- ViewOf
  Rank <- RankOf
  Blocks = {b1}
  Leased = {}
  Captured = {b1}
  CaptureOn = TRUE
  Rebuildable = {b1}
  Unreadable = {}
  Frontends = {f1}
  Operators = {}
  Elsewhere = {}
  CarryPaying = {}
  MaxRetries = 1
  MaxFaults = 0
  MaxRevision = 6
  Tokens = {t1, t2}
INVARIANT
  ConfirmedFanoutsLive
