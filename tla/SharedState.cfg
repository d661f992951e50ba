SPECIFICATION FairSpec
CONSTANTS
  w1 = w1
  w2 = w2
  r1 = r1
  Writers = {w1, w2}
  Readers = {r1}
  NumJoints = 2
  MaxTries = 2
  MaxWrites = 2
  MaxSegments = 2
INVARIANTS
  NoTornReadUnlessLate
PROPERTIES
  TicksGoOn
  RegisterSpec
  ReadsReturn
\* Once a write was cut short with the lock held, a reader really is stuck.
CHECK_DEADLOCK FALSE
