SPECIFICATION FairSpec
CONSTANTS
  Positions = {0, 3}
  Home = 1
  HomeTime = 2
  Speed = 1
  MaxLag = 2
  MaxClock = 3
  MaxCalls = 4
INVARIANTS
  TrajOrdered
  InHull
  RunningHasLoop
PROPERTIES
  JumpBounded
  Arrives
CHECK_DEADLOCK FALSE
