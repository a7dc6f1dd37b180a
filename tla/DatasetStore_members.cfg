SPECIFICATION Spec
CONSTANTS
  Tables = {1}
  Views = {2}
  Window = 1
  MaxTime = 1
  MaxMade = 2
  MaxFaults = 0
CHECK_DEADLOCK FALSE
INVARIANT MembersOnly
