---------------------------- MODULE RowMutation ----------------------------
(***************************************************************************)
(* What UPDATE, DELETE and MERGE do to the rows of a table: the local DML  *)
(* executor of backend/engine/semantic/dml and the MERGE path of the       *)
(* DuckDB executor.  Both read the whole table, compute the rows it will   *)
(* hold and hand them to Storage::OverwriteRows; what is modelled here is  *)
(* that computation, as operators on sequences of rows.                    *)
(*                                                                         *)
(* A row is a pair <<key, val>> of cells, 0 being SQL NULL.  An expression *)
(* of the statement is what it evaluates to on a bound row: "true",        *)
(* "false", "null" or "error".  The variable dml holds one call and its    *)
(* result, so that a run covers every call over the bounded inputs.        *)
(***************************************************************************)
EXTENDS Integers, Sequences, FiniteSets, SequencesExt

CONSTANTS DmlCells,      \* the non-NULL cell values
          MaxDmlRows     \* bound on the rows of a table in one call

VARIABLE dml

NULL == 0
Cells == DmlCells \cup {NULL}
DmlRows == Cells \X Cells
DmlTables == SeqOf(DmlRows, MaxDmlRows)

(***************************************************************************)
(* Expressions, by what they evaluate to.                                  *)
(***************************************************************************)
CellsEqual(a, b) == IF a = NULL \/ b = NULL THEN "null" ELSE IF a = b THEN "true" ELSE "false"

\* An expression over a target row t and a source row s.
DmlExprs == {"always", "keys", "first", "fails"}
EvalOn(e, t, s) ==
  CASE e = "always" -> "true"
    [] e = "keys"   -> CellsEqual(t[1], s[1])
    [] e = "first"  -> CellsEqual(s[2], 1)
    [] e = "fails"  -> IF s[2] = NULL THEN "error" ELSE "true"

\* UPDATE and DELETE: an error aborts, anything but TRUE is not a match.
EvalWherePredicate(e, t, s) ==
  IF EvalOn(e, t, s) = "error" THEN "error" ELSE IF EvalOn(e, t, s) = "true" THEN "yes" ELSE "no"

\* MERGE: an error is not a match either, and goes no further.
EvalBoolExpr(e, t, s) == EvalOn(e, t, s) = "true"

DmlFailed(rows) == [ok |-> FALSE, rows |-> rows, inserted |-> 0, updated |-> 0, deleted |-> 0, returned |-> <<>>]
Done(rows, i, u, d) == [ok |-> TRUE, rows |-> rows, inserted |-> i, updated |-> u, deleted |-> d, returned |-> <<>>]

(***************************************************************************)
(* ASSERT_ROWS_MODIFIED n; -1 stands for a statement without the clause.   *)
(* It is checked after the rows are computed and before they are written.  *)
(***************************************************************************)
CheckAssertRowsModified(expected, actual) == expected \in {-1, actual}

\* THEN RETURN: no clause, the rows touched, or a list with an expression that
\* fails on a row whose value is NULL.
Returnings == {"none", "rows", "fails"}

ProjectReturningRow(returning, rows) ==
  [ok |-> returning # "fails" \/ \A r \in ToSet(rows) : r[2] # NULL,
   rows |-> IF returning = "none" THEN <<>> ELSE rows]

\* UPDATE and DELETE project the returned rows when the table is overwritten
\* already: FinalizeMutateWithReturning.
WriteThenReturn(returning, after, touched, result) ==
  LET r == ProjectReturningRow(returning, touched)
  IN  IF r.ok THEN [result EXCEPT !.returned = r.rows] ELSE DmlFailed(after)

(***************************************************************************)
(* INSERT: the columns named get the values, the others NULL.  RETURNING   *)
(* comes before the rows are appended.                                     *)
(***************************************************************************)
InsertColumns == {<<1, 2>>, <<2, 1>>, <<1>>}

BuildInsertRow(columns, values) ==
  [c \in 1..2 |-> IF c \in ToSet(columns) THEN values[CHOOSE i \in DOMAIN columns : columns[i] = c] ELSE NULL]

ExecuteInsert(rows, columns, values, expected, returning) ==
  LET new == [i \in DOMAIN values |-> BuildInsertRow(columns, values[i])]
  IN  IF ~CheckAssertRowsModified(expected, Len(values)) \/ ~ProjectReturningRow(returning, new).ok
      THEN DmlFailed(rows)
      ELSE [Done(rows \o new, Len(values), 0, 0) EXCEPT !.returned = ProjectReturningRow(returning, new).rows]

\* DELETE: a row is bound to itself on both sides of the predicate.
ExecuteDelete(rows, where, expected, returning) ==
  LET verdict(r) == EvalWherePredicate(where, r, r)
      kept       == SelectSeq(rows, LAMBDA r : verdict(r) = "no")
      gone       == SelectSeq(rows, LAMBDA r : verdict(r) = "yes")
      n          == Len(gone)
  IN  IF \/ \E r \in ToSet(rows) : verdict(r) = "error"
         \/ ~CheckAssertRowsModified(expected, n)
      THEN DmlFailed(rows)
      ELSE IF n = 0 THEN Done(rows, 0, 0, 0)
      ELSE WriteThenReturn(returning, kept, gone, Done(kept, 0, 0, n))

(***************************************************************************)
(* UPDATE ... FROM: the source rows a target row matches, more than one    *)
(* being an error.  Without FROM the row itself is the only candidate.  A  *)
(* SET list assigns columns in turn; its expressions read the row as bound *)
(* before the first of them.                                               *)
(***************************************************************************)
CountFromScanMatches(t, from, where) ==
  SelectSeq(from, LAMBDA s : EvalWherePredicate(where, t, s) = "yes")

SetLists == {<<[col |-> 2, from |-> "source", read |-> 2]>>,
             <<[col |-> 1, from |-> "target", read |-> 2], [col |-> 2, from |-> "target", read |-> 1]>>}

ApplyUpdateSets(sets, t, s) ==
  FoldLeft(LAMBDA row, a : [row EXCEPT ![a.col] = IF a.from = "source" THEN s[a.read] ELSE t[a.read]], t, sets)

ExecuteUpdate(rows, from, hasFrom, where, sets, expected, returning) ==
  LET candidates(t) == IF hasFrom THEN from ELSE <<t>>
      matched(t)    == CountFromScanMatches(t, candidates(t), where)
      broken(t)     == \/ \E s \in ToSet(candidates(t)) : EvalWherePredicate(where, t, s) = "error"
                       \/ Len(matched(t)) > 1
      set(t)        == ApplyUpdateSets(sets, t, Last(matched(t)))
      rewritten     == [i \in 1..Len(rows) |->
                          IF matched(rows[i]) = <<>> THEN rows[i] ELSE set(rows[i])]
      touched       == SelectSeq(rows, LAMBDA t : matched(t) # <<>>)
      n             == Len(touched)
  IN  IF (\E t \in ToSet(rows) : broken(t)) \/ ~CheckAssertRowsModified(expected, n)
      THEN DmlFailed(rows)
      ELSE IF n = 0 THEN Done(rows, 0, 0, 0)
      ELSE WriteThenReturn(returning, rewritten, [i \in 1..n |-> set(touched[i])], Done(rewritten, 0, n, 0))

(***************************************************************************)
(* DELETE inside an array column: each statement of the list marks the     *)
(* elements it matches, by value or by offset, and the array is rebuilt    *)
(* once at the end, so that offsets are those of the array as it was.      *)
(***************************************************************************)
NestedDeletes == [by : {"offset", "element"}, is : 0..1]

ApplyNestedArrayDeleteItem(array, deletes) ==
  LET matches(d, i) == IF d.by = "offset" THEN i - 1 = d.is ELSE array[i] # NULL /\ array[i] = d.is
      marked == FoldLeft(LAMBDA acc, d : acc \cup {i \in DOMAIN array \ acc : matches(d, i)}, {}, deletes)
      keep == SelectSeq([i \in DOMAIN array |-> <<i, array[i]>>], LAMBDA x : x[1] \notin marked)
  IN  [i \in DOMAIN keep |-> keep[i][2]]

(***************************************************************************)
(* MERGE.  A clause is a match type, a condition and an action.  The state *)
(* of a target is its row, the source row it was last bound to, and        *)
(* whether a clause has acted on it; that of a source is the same without  *)
(* a row.                                                                  *)
(***************************************************************************)
Clauses == [match : {"MATCHED", "NOT_MATCHED_BY_SOURCE"}, cond : {"always", "first"}, action : {"UPDATE", "DELETE"}]
           \cup [match : {"NOT_MATCHED_BY_TARGET"}, cond : {"always", "first", "fails"}, action : {"INSERT"}]

CorrelateTargets(targets, sources, on) ==
  [i \in 1..Len(targets) |->
     LET hits == SelectSeq(sources, LAMBDA s : EvalBoolExpr(on, targets[i], s))
     IN  [row |-> targets[i], matches |-> Len(hits), acted |-> FALSE, deleted |-> FALSE,
          bind |-> IF hits = <<>> THEN targets[i] ELSE Last(hits)]]

CorrelateSources(targets, sources, on) ==
  [j \in 1..Len(sources) |->
     [row |-> sources[j], acted |-> FALSE,
      matched |-> \E t \in ToSet(targets) : EvalBoolExpr(on, t, sources[j])]]

\* Mutant: two source rows may match one target row.
AcceptsMultiMatch(clauses, ts) == TRUE

\* The check looks at the clauses there are, not at the ones that would act.
CheckMatchedTargetMultiMatch(clauses, ts) ==
  (\E c \in ToSet(clauses) : c.match = "MATCHED") => \A i \in DOMAIN ts : ts[i].matches <= 1

\* ApplyMatchedMergeWhen and ApplyNotMatchedBySourceMergeWhen: the two
\* clauses that act on targets.
Takes(c, st) ==
  /\ ~st.acted /\ ~st.deleted
  /\ c.match = IF st.matches > 0 THEN "MATCHED" ELSE "NOT_MATCHED_BY_SOURCE"
  /\ EvalBoolExpr(c.cond, st.row, st.bind)

ApplyToTarget(c, st) ==
  IF ~Takes(c, st) THEN st
  ELSE [st EXCEPT !.acted = TRUE, !.deleted = (c.action = "DELETE"),
                  !.row = IF c.action = "DELETE" THEN st.row ELSE <<st.row[1], st.bind[2]>>]

\* ApplyNotMatchedByTargetMergeWhen: the one clause that acts on sources.
Inserts(c, src) ==
  c.match = "NOT_MATCHED_BY_TARGET" /\ ~src.matched /\ ~src.acted /\ EvalBoolExpr(c.cond, src.row, src.row)

ApplyMergeWhenClause(c, m) ==
  [targets |-> [i \in DOMAIN m.targets |-> ApplyToTarget(c, m.targets[i])],
   sources |-> [j \in DOMAIN m.sources |->
                  [m.sources[j] EXCEPT !.acted = @ \/ Inserts(c, m.sources[j])]],
   inserts |-> m.inserts \o SelectSeq(m.sources, LAMBDA s : Inserts(c, s))]

ApplyMergeWhenClauses(clauses, m) ==
  FoldLeft(LAMBDA acc, c : ApplyMergeWhenClause(c, acc), m, clauses)

BuildMergeFinalRows(m) ==
  LET kept == SelectSeq(m.targets, LAMBDA st : ~st.deleted)
  IN  [i \in DOMAIN kept |-> kept[i].row] \o [i \in DOMAIN m.inserts |-> m.inserts[i].row]

ExecuteMerge(targets, sources, on, clauses) ==
  LET start == [targets |-> CorrelateTargets(targets, sources, on),
                sources |-> CorrelateSources(targets, sources, on), inserts |-> <<>>]
      end   == ApplyMergeWhenClauses(clauses, start)
      gone  == Cardinality({i \in DOMAIN end.targets : end.targets[i].deleted})
      acted == Cardinality({i \in DOMAIN end.targets : end.targets[i].acted})
  IN  IF ~CheckMatchedTargetMultiMatch(clauses, start.targets)
      THEN DmlFailed(targets)
      ELSE Done(BuildMergeFinalRows(end), Len(end.inserts), acted - gone, gone)

(***************************************************************************)
(* The DuckDB executor's MERGE has DuckDB change the rows and recovers the *)
(* statistics from the rows before and after, keyed on the first column;   *)
(* of two rows with one key the later one stands for both.                 *)
(***************************************************************************)

ByPrimaryKey(rows) ==
  [k \in {rows[i][1] : i \in DOMAIN rows} |-> Last(SelectSeq(rows, LAMBDA r : r[1] = k))]

DiffByPrimaryKey(before, after) ==
  LET b == ByPrimaryKey(before)
      a == ByPrimaryKey(after)
  IN  [inserted |-> Cardinality(DOMAIN a \ DOMAIN b),
       updated  |-> Cardinality({k \in DOMAIN a \cap DOMAIN b : a[k] # b[k]}),
       deleted  |-> Cardinality(DOMAIN b \ DOMAIN a)]

(***************************************************************************)
(* Behaviours: one call at a time.                                         *)
(***************************************************************************)
NoDml == [op |-> "none"]

CallInsert ==
  \E rows \in DmlTables, columns \in InsertColumns, n \in -1..1, ret \in Returnings :
    \E values \in SeqOf([DOMAIN columns -> Cells], 2) :
      dml' = [op |-> "insert", before |-> rows, columns |-> columns, values |-> values, expected |-> n,
              returning |-> ret, result |-> ExecuteInsert(rows, columns, values, n, ret)]

CallDelete ==
  \E rows \in DmlTables, e \in DmlExprs, n \in -1..1, ret \in Returnings :
    dml' = [op |-> "delete", before |-> rows, where |-> e, expected |-> n, returning |-> ret,
            result |-> ExecuteDelete(rows, e, n, ret)]

CallUpdate ==
  \E rows, from \in DmlTables, hasFrom \in BOOLEAN, e \in DmlExprs, sets \in SetLists, n \in -1..1, ret \in Returnings :
    /\ from # <<>> => hasFrom
    /\ ret = "rows" => n = -1
    /\ dml' = [op |-> "update", before |-> rows, from |-> from, hasFrom |-> hasFrom, where |-> e, sets |-> sets,
               expected |-> n, returning |-> ret, result |-> ExecuteUpdate(rows, from, hasFrom, e, sets, n, ret)]

CallNestedDelete ==
  \E array \in SeqOf(Cells, 3), deletes \in SeqOf(NestedDeletes, 2) :
    dml' = [op |-> "array", before |-> array, deletes |-> deletes,
            result |-> ApplyNestedArrayDeleteItem(array, deletes)]

CallMerge ==
  \E rows, sources \in DmlTables, clauses \in SeqOf(Clauses, 2) :
    dml' = [op |-> "merge", before |-> rows, from |-> sources, clauses |-> clauses,
            result |-> ExecuteMerge(rows, sources, "keys", clauses)]

DmlInit == dml = NoDml
DmlNext == \/ dml = NoDml /\ (CallInsert \/ CallDelete \/ CallUpdate \/ CallNestedDelete \/ CallMerge)
           \/ dml # NoDml /\ dml' = NoDml

(***************************************************************************)
(* Properties.                                                             *)
(***************************************************************************)
Unique(rows) == \A i, j \in DOMAIN rows : rows[i][1] = rows[j][1] => i = j
Keyed(rows) == Unique(rows) /\ \A i \in DOMAIN rows : rows[i][1] # NULL
BagOf(s) == [x \in ToSet(s) |-> Cardinality({i \in DOMAIN s : s[i] = x})]

\* A statement that succeeds does not depend on the order in which its
\* source rows were read: UPDATE ... FROM and MERGE refuse a target row that
\* two source rows match instead of keeping the last one.
OrderOfSourcesIrrelevant ==
  /\ dml.op = "update" =>
       dml.result = ExecuteUpdate(dml.before, Reverse(dml.from), dml.hasFrom, dml.where, dml.sets, dml.expected, dml.returning)
  /\ dml.op = "merge" =>
       LET other == ExecuteMerge(dml.before, Reverse(dml.from), "keys", dml.clauses)
       IN  other.ok = dml.result.ok /\ BagOf(other.rows) = BagOf(dml.result.rows)

\* What MERGE means, row by row: the first clause whose match type and
\* condition fit a row decides what happens to it, and no row is acted on
\* twice.  The clause loop of the code computes exactly these rows.
FirstClause(clauses, kind, t, s) ==
  LET fits == {i \in DOMAIN clauses : clauses[i].match = kind /\ EvalBoolExpr(clauses[i].cond, t, s)}
  IN  IF fits = {} THEN "NONE" ELSE clauses[CHOOSE i \in fits : \A j \in fits : i <= j].action
MergeByFirstClause ==
  dml.op = "merge" /\ dml.result.ok =>
    LET hits(t) == SelectSeq(dml.from, LAMBDA s : CellsEqual(t[1], s[1]) = "true")
        fate(t) == IF hits(t) = <<>> THEN FirstClause(dml.clauses, "NOT_MATCHED_BY_SOURCE", t, t)
                   ELSE FirstClause(dml.clauses, "MATCHED", t, Last(hits(t)))
        value(t) == IF fate(t) = "UPDATE" /\ hits(t) # <<>> THEN <<t[1], Last(hits(t))[2]>> ELSE t
        kept == SelectSeq(dml.before, LAMBDA t : fate(t) # "DELETE")
        new  == SelectSeq(dml.from, LAMBDA s :
                  /\ \A t \in ToSet(dml.before) : CellsEqual(t[1], s[1]) # "true"
                  /\ FirstClause(dml.clauses, "NOT_MATCHED_BY_TARGET", s, s) = "INSERT")
    IN  BagOf(dml.result.rows) = BagOf([i \in DOMAIN kept |-> value(kept[i])] \o new)

\* The statistics a client is told add up with the rows it then finds.
StatsAccountForRows ==
  dml.op \in {"insert", "delete", "update", "merge"} /\ dml.result.ok =>
    /\ Len(dml.result.rows) = Len(dml.before) + dml.result.inserted - dml.result.deleted
    /\ dml.result.updated <= Len(dml.before) - dml.result.deleted

\* The two executors of MERGE agree on a table with a key: recovering the
\* statistics from the rows before and after gives the counts of the clause
\* loop, except for updates that wrote the value already there.
DiffAgreesWithClauses ==
  dml.op = "merge" /\ dml.result.ok /\ Keyed(dml.before) /\ Keyed(dml.result.rows) =>
    LET d == DiffByPrimaryKey(dml.before, dml.result.rows)
    IN  /\ d.inserted = dml.result.inserted
        /\ d.deleted = dml.result.deleted
        /\ d.updated <= dml.result.updated

\* A statement that reports an error leaves the rows of its table alone.  The
\* exception is an UPDATE or DELETE whose RETURNING list fails: it is evaluated
\* when OverwriteRows has already run.
FailureLeavesRows ==
  dml.op \in {"insert", "delete", "update", "merge"} /\ ~dml.result.ok =>
    \/ dml.result.rows = dml.before
    \/ dml.op \in {"delete", "update"} /\ dml.returning = "fails"

\* A SET list is one simultaneous assignment, and the deletes of an array
\* column mark elements of the array as it was: the order in which a statement
\* lists them makes no difference.
ListsAreSimultaneous ==
  /\ dml.op = "update" =>
       dml.result = ExecuteUpdate(dml.before, dml.from, dml.hasFrom, dml.where, Reverse(dml.sets),
                                  dml.expected, dml.returning)
  /\ dml.op = "array" =>
       dml.result = ApplyNestedArrayDeleteItem(dml.before, Reverse(dml.deletes))

\* INSERT, UPDATE, DELETE and MERGE do to the rows what the statement says,
\* whatever order its sources and lists come in, or nothing, and count it right.
MutationsAsWritten ==
  /\ OrderOfSourcesIrrelevant
  /\ MergeByFirstClause
  /\ StatsAccountForRows
  /\ DiffAgreesWithClauses
  /\ FailureLeavesRows
  /\ ListsAreSimultaneous
=============================================================================
