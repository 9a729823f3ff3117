SPECIFICATION OwnLiveSpec
CONSTANTS
  h1 = h1
  h2 = h2
  Plans <- AllPlans
  Headers = {h1, h2}
  Ids = {i1}
  MaxSeq = 5
  MaxSync = 2
  BatchRows = 1
  SyncLimit = 1
  MaxFails = 1
  MaxRestores = 1
  MaxCrashes = 1
  AppendsFirst = FALSE
INVARIANTS  CursorsCover HeaderCreditedOnce WindowsHeld ConfirmedMeansHeld FoldedOnce 
PROPERTY PairConverges
CHECK_DEADLOCK FALSE
