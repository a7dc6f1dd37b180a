---------------------------- MODULE MCJobRegistry ----------------------------
(* JobRegistry for TLC: one script for each path.                          *)
EXTENDS JobRegistry, TLC

CONSTANTS h1, h2, p1, j1

TwoHandlers == {h1, h2}

OneHandler == {h1}

OneProject == {p1}

OneCallerId == {j1}

\* DECLARE; SELECT; SELECT: on the engine path, the first query is run again.
EngineScript ==
  [stmts |-> <<"declare", "query", "query">>, begin |-> FALSE,
   control |-> FALSE]

\* BEGIN DECLARE; IF ... SELECT ... END: one child job.
ControlScript ==
  [stmts |-> <<"declare", "query">>, begin |-> TRUE, control |-> TRUE]

\* SET; SELECT: on the split path.
SplitScript ==
  [stmts |-> <<"set", "query">>, begin |-> FALSE, control |-> FALSE]

AllScripts == {EngineScript, ControlScript, SplitScript}

OnlyEngine == {EngineScript}

\* Only finished jobs: while a client pages, jobs both arrive and begin to match.
Filters == {{"done"}}

Pages == {0}

HandlerSymmetry == Permutations(TwoHandlers)
=============================================================================
