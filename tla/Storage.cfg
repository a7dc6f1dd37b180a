SPECIFICATION StorageSpec
CONSTANTS
  Tables = {1}
  Views = {2}
  Window = 1
  MaxTime = 2
  MaxMade = 3
  MaxFaults = 1
  TravelWindow = 2
  MaxClock = 4
  MaxMutations = 3
  MaxFailures = 1
  NoFile = NoFile
  Torn = Torn
  Readers = {r1}
  Schemas = {A}
  Matching <- EvenRows
  Requests <- StreamCounts
  Fractions <- Third
  kMaxStreamCount = 3
  kReadRowsBatchSize = 1
  MaxRows = 4
  MaxRewrites = 1
  MaxSessions = 1
  MaxSplits = 2
  MaxCancels = 1
CHECK_DEADLOCK FALSE
INVARIANTS  NoMixedTable StoresWellFormed TimeTravelExact StreamsTile ReadExact
