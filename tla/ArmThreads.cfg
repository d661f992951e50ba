SPECIFICATION Spec
CONSTANTS
  app = app
  operator = operator
  Threads = {app, operator}
  NumJoints = 1
  Menu <- MoveAndStop
  OpenOnly = {}
  ClosedOnly = {"connect"}
  Faults = {"open", "add", "feedback", "mode", "send", "enable", "disable", "status", "timeout"}
  MaxPoints = 2
  MaxCalls = 3
INVARIANTS
  AbortStopsMotion
PROPERTIES
  RuntimeSpec
CHECK_DEADLOCK FALSE
