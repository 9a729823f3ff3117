SPECIFICATION CarrySpec
CONSTANTS
  ReleaseDepth = 2
  Margin = 1
  Scenes <- AllScenes
INVARIANTS OnePayer WorkFollowsGate PaidOnce
CHECK_DEADLOCK FALSE
