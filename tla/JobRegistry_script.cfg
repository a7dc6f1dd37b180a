SPECIFICATION Spec
CONSTANTS
  h1 = h1
  h2 = h2
  p1 = p1
  j1 = j1
  Handlers <- OneHandler
  Projects <- OneProject
  CallerIds <- OneCallerId
  Scripts <- OnlyEngine
  StateFilters <- Filters
  PageSizes <- Pages
  defaultListMaxResults = 1
  MaxJobs = 3
  MaxCancels = 1
  MaxDeletes = 1
INVARIANT OneRoundTrip
CHECK_DEADLOCK FALSE
