SPECIFICATION Spec
CONSTANTS
  app = app
  operator = operator
  Threads = {app}
  NumJoints = 1
  Menu <- OneCaller
  OpenOnly = {}
  ClosedOnly = {}
  Faults = {"disable"}
  MaxPoints = 1
  MaxCalls = 4
PROPERTIES
  EstopEndsInFault
CHECK_DEADLOCK FALSE
