------------------------------- MODULE MCQueries -------------------------------
(* What becomes of a query, one call at a time: the tables its names stand   *)
(* for, the route it takes and the SQL its tree becomes, and the semantic    *)
(* executor's evaluators of expressions, casts, string functions,            *)
(* aggregates, windows and relations; and the way a cell takes into the      *)
(* store and back, and out of DuckDB's result vectors.                       *)
EXTENDS Transpiler, RouteClassifier, CatalogTables, SqlStrings, SqlCasts, SqlWindows, SqlRelations,
        StoredCells, ResultCells

VARIABLE focus    \* the part whose calls a behaviour makes

Init ==
    /\ focus \in {"transpiler", "routes", "names", "expressions", "strings", "casts",
                  "aggregates", "windows", "relations", "stored", "results"}
    /\ eval = NoCall

Of(part) == focus = part /\ UNCHANGED focus

Next ==
    \/ Of("transpiler") /\ TranspileNext
    \/ Of("routes") /\ RouteNext
    \/ Of("names") /\ CatalogNext
    \/ Of("expressions") /\ ExpressionNext
    \/ Of("strings") /\ StringNext
    \/ Of("casts") /\ CastNext
    \/ Of("aggregates") /\ AggregateNext
    \/ Of("windows") /\ WindowNext
    \/ Of("relations") /\ RelationNext
    \/ Of("stored") /\ StoredNext
    \/ Of("results") /\ ResultNext
    \/ Return /\ UNCHANGED focus

Spec == Init /\ [][Next]_<<focus, eval>>

================================================================================
