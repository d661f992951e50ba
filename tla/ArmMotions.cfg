SPECIFICATION FairSpec
CONSTANTS
  app = app
  operator = operator
  Threads = {app, operator}
  NumJoints = 1
  Menu <- Motions
  OpenOnly = {}
  ClosedOnly = {}
  Faults = {"feedback", "send", "timeout"}
  MaxPoints = 1
  MaxCalls = 3
INVARIANTS
  RunningHasMotion
  FaultPowerOff
PROPERTIES
  CallsReturn
CHECK_DEADLOCK FALSE
