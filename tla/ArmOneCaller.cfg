SPECIFICATION Spec
CONSTANTS
  app = app
  operator = operator
  Threads = {app}
  NumJoints = 2
  Menu <- OneCaller
  OpenOnly = {"estop"}
  ClosedOnly = {}
  Faults = {}
  MaxPoints = 2
  MaxCalls = 12
INVARIANTS
  TypeOK
  PowerTracksRun
  CacheTracksRun
  SetpointMeetsMode
  SessionMatchesRun
CHECK_DEADLOCK FALSE
