SPECIFICATION Spec
CONSTANTS
  BufferSize = 2
  NumWords = 2
  MaxPuts = 5
  MaxGets = 3
  MaxClears = 1
INVARIANTS
  CursorsOrdered
  FifoUnlessRaced
PROPERTIES
  QueueSpec
