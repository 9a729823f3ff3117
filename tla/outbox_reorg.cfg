SPECIFICATION LiveOutboxSpec
CONSTANTS
  b1 = b1
  p = p  a = a  a2 = a2  a3 = a3  x = x  x3 = x3
  NoToken = NoToken
  NoBlock = NoBlock
  Tips = {p, a, a2, a3, x3}
  StartTip = p
  Work <- WorkOf
  View <- ViewOf
  Rank <- RankOf
  Blocks = {b1}
  Leased = {b1}
  Captured = {b1}
  CaptureOn = TRUE
  Rebuildable = {b1}
  Unreadable = {}
  Frontends = {f1}
  Operators = {}
  Elsewhere = {}
  CarryPaying = {}
  MaxRetries = 1
  MaxFaults = 1
  MaxRevision = 3
  Tokens = {t1, t2}
INVARIANTS CreditFollowsConfirmation MatureIsFinal
PROPERTIES ConfirmedOnAcceptedChain OrphanedOnlyWhenBuried BalancesMoveRevision BlocksAreSettled
CHECK_DEADLOCK FALSE
