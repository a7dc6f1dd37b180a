SPECIFICATION VersionSpec
CONSTANTS
  TravelWindow = 2
  MaxClock = 4
  MaxMutations = 3
  MaxFailures = 2
  NoFile = NoFile
  Torn = Torn
INVARIANTS InWindowReadable
CHECK_DEADLOCK FALSE
