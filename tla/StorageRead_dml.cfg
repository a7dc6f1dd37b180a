SPECIFICATION ReadSpec
CONSTANTS
  Readers = {r1}
  Schemas = {A}
  Matching <- EvenRows
  Requests <- Two
  Fractions <- Half
  kMaxStreamCount = 3
  kReadRowsBatchSize = 2
  MaxRows = 3
  MaxRewrites = 1
  MaxSessions = 1
  MaxSplits = 0
  MaxCancels = 0
CHECK_DEADLOCK FALSE
INVARIANT NoRowSkipped
