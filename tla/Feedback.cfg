SPECIFICATION Spec
CONSTANTS
  app = app
  loop = loop
  Threads = {app, loop}
  Loop = loop
  NumJoints = 1
  MaxCount = 2
  WindowSize = 3
  MaxReadings = 2
  MaxClock = 2
  MaxCalls <- Calls
INVARIANTS
  Fresh
  OverloadTrips
  FpsHonest
  WriteFailsOnlyUnderClose
CHECK_DEADLOCK FALSE
