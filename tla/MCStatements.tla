----------------------------- MODULE MCStatements -----------------------------
(***************************************************************************)
(* The statement-level components on small instances.  They share no state, *)
(* so a behaviour is one component's: `focus` says whose, and the state     *)
(* spaces add up instead of multiplying.                                   *)
(***************************************************************************)
EXTENDS ViewCatalog, RoutineCatalog, Governance, TableStatements, Scripts, RowMutation,
        PythonUdfs, TLC

CONSTANTS s1, s2     \* two sessions, interchangeable

VARIABLE focus

\* Two views that share a name across datasets, and a relation to select from.
MCViewPaths == <<<<"d1", "a">>, <<"d1", "b">>, <<"d2", "a">>>>

\* One routine name in two datasets.
MCRoutinePaths == <<<<"d1", "f">>, <<"d2", "f">>>>

MCPolicies == <<"p", "q">>

\* Procedures that assign their formal and then run a statement the library
\* executor has to run itself, one that fails, or dynamic SQL.
MCProcedures ==
    {[formal |-> "y", mode |-> m,
      body |-> <<[do |-> "set", name |-> "y", expr |-> Lit(Number(1))], b>>] :
        m \in {"IN", "INOUT"},
        b \in {[do |-> "dml"], [do |-> "query", expr |-> Div, table |-> FALSE],
               [do |-> "immediate", expr |-> Var("y")]}}

\* Functions without packages, with two that are spelled like a third's one,
\* and with a dotted name and its parent, which the host has.
MCUdfPackages ==
    [f |-> <<>>, h |-> <<<<"a">>, <<"b">>>>, i |-> <<<<"a", "b">>>>,
     j |-> <<<<"a", ".", "d">>, <<"a">>>>]

MCOnHost == {<<"a">>, <<"a", ".", "d">>}
MCProvisions == {MCOnHost, {<<"b">>}}

Init ==
    /\ focus \in {"views", "routines", "governance", "tables", "scripts", "rows", "udfs"}
    /\ ViewInit /\ RoutineInit /\ GovInit /\ StInit /\ ScriptInit /\ DmlInit /\ UdfInit
    /\ focus # "tables" => \A t \in StTables : ~stored[t].there

Next ==
    /\ UNCHANGED focus
    /\ \/ /\ focus = "views" /\ ViewNext
          /\ UNCHANGED <<routineVars, govVars, stVars, scriptVars, dml, udfVars>>
       \/ /\ focus = "routines" /\ RoutineNext
          /\ UNCHANGED <<viewVars, govVars, stVars, scriptVars, dml, udfVars>>
       \/ /\ focus = "governance" /\ GovNext
          /\ UNCHANGED <<viewVars, routineVars, stVars, scriptVars, dml, udfVars>>
       \/ /\ focus = "tables" /\ StNext
          /\ UNCHANGED <<viewVars, routineVars, govVars, scriptVars, dml, udfVars>>
       \/ /\ focus = "scripts" /\ ScriptNext
          /\ UNCHANGED <<viewVars, routineVars, govVars, stVars, dml, udfVars>>
       \/ /\ focus = "rows" /\ DmlNext
          /\ UNCHANGED <<viewVars, routineVars, govVars, stVars, scriptVars, udfVars>>
       \/ /\ focus = "udfs" /\ UdfNext
          /\ UNCHANGED <<viewVars, routineVars, govVars, stVars, scriptVars, dml>>

Spec ==
    Init /\ [][Next]_<<focus, viewVars, routineVars, govVars, stVars, scriptVars, dml, udfVars>>

Symmetric == Permutations({s1, s2})


===============================================================================
