SPECIFICATION FairSpec
CONSTANTS
  c1 = c1
  c2 = c2
  Callers = {c1, c2}
  MaxLoops = 3
INVARIANTS
  OneLoopUnlessGivenUp
  RunningHasLoop
PROPERTIES
  StoppedLoopsEnd
