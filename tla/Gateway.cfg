SPECIFICATION FairSpec
CONSTANTS
  c1 = c1
  c2 = c2
  t1 = t1
  t2 = t2
  a = a
  Clients = {c1, c2}
  Fragile = {c2}
  Tasks = {t1, t2}
  NoTask = NoTask
  Ids = {a}
  MaxWaypoints = 1
  NumPoints = 2
  MaxRequests = 4
INVARIANTS
  OneMotionUnlessOverlap
  StatusTellsTruth
PROPERTIES
  StopHalts
  EveryMotionEnds
CHECK_DEADLOCK FALSE
