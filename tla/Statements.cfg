SPECIFICATION Spec
CONSTANTS
  s1 = s1
  s2 = s2
  ViewPaths <- MCViewPaths
  Sessions = {s1, s2}
  MaxViewOps = 5
  RoutinePaths <- MCRoutinePaths
  RoutineKinds = {"FUNCTION", "PROCEDURE"}
  RSessions = {s1, s2}
  MaxRoutineOps = 3
  GTables = {"t"}
  GPolicies <- MCPolicies
  GranteeSets = {"alice", "bob"}
  MaxGovOps = 6
  StTables = {"t", "u"}
  StSessions = {s1, s2}
  MaxStatements = 2
  ScriptNames = {"x", "y"}
  Procedures <- MCProcedures
  MaxScriptSteps = 3
  MaxScopes = 3
  MaxScriptText = 5
  DmlCells = {1}
  MaxDmlRows = 2
  UdfThreads = {s1, s2}
  UdfPackages <- MCUdfPackages
  OnHost <- MCOnHost
  Provisions <- MCProvisions
  MaxUdfOps = 3
SYMMETRY Symmetric
INVARIANTS  ScriptsKeepTheirState MutationsAsWritten PythonCallsServed
PROPERTIES ReadsWholePolicyList  CallsTouchTheirArgument 
CHECK_DEADLOCK FALSE
