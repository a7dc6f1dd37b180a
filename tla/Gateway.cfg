SPECIFICATION GatewaySpec
CONSTANTS
  h1 = h1
  h2 = h2
  p1 = p1
  j1 = j1
  Handlers <- TwoHandlers
  Projects <- OneProject
  CallerIds <- OneCallerId
  Scripts <- AllScripts
  StateFilters <- Filters
  PageSizes <- Pages
  defaultListMaxResults = 1
  MaxJobs = 3
  MaxCancels = 1
  MaxDeletes = 1
  LoadFiles <- MCLoadFiles
  ResultSets <- MCResultSets
  Requests <- TwoHandlers
  MaxTableJobs = 2
  Callers <- TwoHandlers
  MaxCalls = 4
  RowCount = 3
  Width = 6
SYMMETRY HandlerSymmetry
INVARIANTS JobsConsistent AnswersFinal  PartsMakeTheWhole OverlapsLoseNothing RunsBelongToConfig EngineEndsWithGateway
 
CHECK_DEADLOCK FALSE
