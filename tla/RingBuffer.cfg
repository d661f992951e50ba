SPECIFICATION Spec
CONSTANTS
  Readers = {r1}
  BufferSize = 2
  NumWords = 2
  MaxRetries = 2
  MaxPuts = 5
  MaxClears = 1
INVARIANTS
  ReturnsWhole
PROPERTIES
  GetIsLatest
  RetryMeansProgress
  LogSpec
