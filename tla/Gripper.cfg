SPECIFICATION FairSpec
CONSTANTS
  app = app
  w1 = w1
  App = app
  Workers = {w1}
  MaxPos = 2
  Contact = 1
  MaxCalls = 4
INVARIANTS
  ClosedIsOff
PROPERTIES
  QuietOnceDisabled
  ForceReleased
CHECK_DEADLOCK FALSE
