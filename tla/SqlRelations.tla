---------------------------- MODULE SqlRelations ----------------------------
(***************************************************************************)
(* The scans of a query in the semantic executor (backend/engine/semantic: *)
(* scan_eval*.cc, array_struct/array_scan.cc, outer_row_eval.cc,           *)
(* eval_tvf.cc, executor.cc).  A scan is a record of the analyzer's tree   *)
(* that lists the columns it puts out; a row binds column ids to values;   *)
(* MaterializeScanImpl computes the rows of a scan, or an error, in a      *)
(* context: the bindings of the enclosing rows, WITH tables, parameters    *)
(* and arguments.  Grouping and windows are in SqlAggregates, SqlWindows.  *)
(*                                                                         *)
(* A column's name stands for the name qualified by its table; the code    *)
(* binds the bare name as well.                                            *)
(***************************************************************************)
EXTENDS SqlAggregates

CONSTANT MaxScanRows    \* bound on the rows of a table

-----------------------------------------------------------------------------
(* Rows and contexts.                                                        *)

Ref(id, name, type) == [node |-> "column", id |-> id, name |-> name, type |-> type]

IsRows(r) == "rows" \in DOMAIN r

Some(rows) == [rows |-> rows]

\* What comes of rows, or of values, unless they are an error.
OverRows(r, F(_)) == IF IsRows(r) THEN F(r.rows) ELSE r

OverValues(vs, F(_)) == IF \A i \in DOMAIN vs : Ok(vs[i]) THEN F(vs) ELSE FirstError(vs)

\* The loop over rows: the first error, or the rows of all the steps.
Collect(rs) ==
    IF \E i \in DOMAIN rs : ~IsRows(rs[i])
    THEN rs[CHOOSE i \in DOMAIN rs : ~IsRows(rs[i]) /\ \A j \in 1 .. i - 1 : IsRows(rs[j])]
    ELSE Some(FlattenSeq([i \in DOMAIN rs |-> rs[i].rows]))

NoScope == NoContext @@ [with_tables |-> Unbound, relations |-> Unbound]

Ids(cols) == {cols[i].id : i \in DOMAIN cols}

NullRow(cols) == [id \in Ids(cols) |-> NullOfType("INT64")]

\* The names of the columns a row binds; a later column of a name wins.
NamesOf(cols, row) ==
    LET bound == SelectSeq(cols, LAMBDA c : c.id \in DOMAIN row)
    IN  [n \in {bound[i].name : i \in DOMAIN bound} |->
           row[bound[CHOOSE i \in DOMAIN bound : bound[i].name = n /\ \A j \in i + 1 .. Len(bound) : bound[j].name # n].id]]

\* A projection adds the names of its input, which win.
RECURSIVE AppendColumnNameBindings(_, _)
AppendColumnNameBindings(scan, row) ==
    IF scan.scan = "project" THEN AppendColumnNameBindings(scan.input, row) @@ NamesOf(scan.cols, row)
    ELSE NamesOf(scan.cols, row)

\* Filters and projections see the row over the enclosing rows, by id, but the
\* names of the enclosing rows over those of the row.
RowContext(scan, row, ctx) ==
    LET merged == row @@ ctx.columns
    IN  [ctx EXCEPT !.columns = merged, !.by_name = @ @@ AppendColumnNameBindings(scan, merged)]

MakeOuterRowFrame(ctx, row, cols) ==
    LET merged == row @@ ctx.columns
    IN  [ctx EXCEPT !.columns = merged, !.by_name = NamesOf(cols, merged) @@ @]

RECURSIVE RefsInExpr(_)
RefsInExpr(e) ==
    CASE e.node = "column" -> {e}
      [] e.node = "call" -> UNION {RefsInExpr(e.args[i]) : i \in DOMAIN e.args}
      [] OTHER -> {}

Inputs(scan) ==
    CASE scan.scan \in {"filter", "project", "order", "limit"} -> {scan.input}
      [] scan.scan \in {"join"} -> {scan.left, scan.right}
      [] OTHER -> {}

RECURSIVE RefsInScan(_)
RefsInScan(scan) ==
    UNION ({RefsInScan(s) : s \in Inputs(scan)}
             \cup {RefsInExpr(e) : e \in CASE scan.scan = "filter" -> {scan.expr}
                                            [] scan.scan = "project" -> {scan.exprs[i].expr : i \in DOMAIN scan.exprs}
                                            [] OTHER -> {}})

LookupOuterValue(ref, ctx) == LookupColumnRef(ref, ctx)

\* Columns of the inner scan that no row binds yet take the value that the
\* enclosing row has under their name.
BindCorrelatedColumnRefs(scan, ctx) ==
    LET free == {r \in RefsInScan(scan) : r.id \notin DOMAIN ctx.columns /\ r.name \in DOMAIN ctx.by_name}
        bind == [id \in {r.id : r \in free} |-> LookupOuterValue(CHOOSE r \in free : r.id = id, ctx)]
    IN  [ctx EXCEPT !.columns = @ @@ bind]

-----------------------------------------------------------------------------
(* Filters, order, pages.                                                    *)

AsBool(v) ==
    CASE ~Ok(v) -> v
      [] Ok(v) /\ v.null -> [holds |-> FALSE]
      [] Ok(v) /\ ~v.null -> IF v.kind = "BOOL" THEN [holds |-> v.v = 1] ELSE Invalid

EvalBoolExpr(e, ctx) == AsBool(EvalExpr(e, ctx))

Keep(ok, row) == IF "holds" \in DOMAIN ok THEN Some(IF ok.holds THEN <<row>> ELSE <<>>) ELSE ok

MaterializeFilterScan(scan, rows, ctx) ==
    Collect([i \in DOMAIN rows |-> Keep(EvalBoolExpr(scan.expr, RowContext(scan.input, rows[i], ctx)), rows[i])])

\* The input row and the enclosing ones stay; an id they bind is not bound again.
ProjectOneInputRow(scan, row, ctx) ==
    LET merged == row @@ ctx.columns
        expr(id) == {e \in Range(scan.exprs) : e.id = id}
        bind(v) == Some(<<merged @@ [id \in Ids(scan.cols) |-> v[CHOOSE i \in DOMAIN v : scan.cols[i].id = id]]>>)
    IN  OverValues([i \in DOMAIN scan.cols |->
                      IF expr(scan.cols[i].id) # {}
                      THEN EvalExpr((CHOOSE e \in expr(scan.cols[i].id) : TRUE).expr, RowContext(scan.input, row, ctx))
                      ELSE Lookup(merged, scan.cols[i].id)], bind)

ProjectRows(scan, rows, ctx) == Collect([i \in DOMAIN rows |-> ProjectOneInputRow(scan, rows[i], ctx)])

MaterializeOrderByScanRows(scan, rows) == Some(StableSort(rows, LAMBDA a, b : OrderSpecLess(scan.items, a, b)))

\* The offset is looked at first; past the last row the limit is not.
MaterializeLimitOffsetScan(scan, rows, ctx) ==
    LET page(offset, limit) ==
            CASE ~Ok(offset) -> offset
              [] Ok(offset) /\ (offset.null \/ offset.v < 0) -> Invalid
              [] Ok(offset) /\ ~offset.null /\ offset.v >= Len(rows) -> Some(<<>>)
              [] OTHER -> IF ~Ok(limit) THEN limit
                          ELSE IF limit.null \/ limit.v < 0 THEN Invalid
                          ELSE Some(SubSeq(rows, offset.v + 1, Min({Len(rows), offset.v + limit.v})))
        asked(of) == page(of.offset, of.limit)
    IN  asked([bound \in {"offset", "limit"} |-> EvalExpr(scan[bound], ctx)])

-----------------------------------------------------------------------------
(* Joins.                                                                    *)

HashableJoinKeyType(type) == type \in {"INT64", "STRING", "BOOL", "NUMERIC", "BIGNUMERIC"}

RECURSIVE FlattenAndConjuncts(_)
FlattenAndConjuncts(e) ==
    IF e.node = "call" /\ e.fn = "$and" THEN FlattenSeq([i \in DOMAIN e.args |-> FlattenAndConjuncts(e.args[i])])
    ELSE <<e>>

\* The equalities between hashable columns of the two sides, as pairs of ids.
EquiKey(join, e) ==
    LET hashable(x) == x.node = "column" /\ HashableJoinKeyType(x.type)
        sides(l, r) == l.id \in Ids(join.left.cols) /\ r.id \in Ids(join.right.cols)
    IN  CASE e.node # "call" \/ e.fn # "$equal" -> <<>>
          [] ~hashable(e.args[1]) \/ ~hashable(e.args[2]) -> <<>>
          [] sides(e.args[1], e.args[2]) -> <<<<e.args[1].id, e.args[2].id>>>>
          [] sides(e.args[2], e.args[1]) -> <<<<e.args[2].id, e.args[1].id>>>>
          [] OTHER -> <<>>

PlanEquiJoin(join) ==
    LET conjuncts == IF join.on = <<>> THEN <<>> ELSE FlattenAndConjuncts(join.on[1])
    IN  [keys |-> FlattenSeq([i \in DOMAIN conjuncts |-> EquiKey(join, conjuncts[i])]),
         residual |-> SelectSeq(conjuncts, LAMBDA e : EquiKey(join, e) = <<>>)]

\* One left row against the right rows it may match.
JoinOneRow(join, lrow, matches, Include(_)) ==
    LET padded(rows) == Some(IF rows = <<>> /\ join.type = "LEFT" THEN <<lrow @@ NullRow(join.right.cols)>> ELSE rows)
    IN  OverRows(Collect([i \in DOMAIN matches |-> Keep(Include(lrow @@ matches[i]), lrow @@ matches[i])]), padded)


JoinKeyFingerprint(row, ids) ==
    LET key == [i \in DOMAIN ids |-> row[ids[i]]] IN [null |-> AnyNull(key), key |-> key]

\* The residual conjuncts in turn, up to the first that does not hold.
RECURSIVE ResidualHolds(_, _)
ResidualHolds(residual, ctx) ==
    IF residual = <<>> THEN [holds |-> TRUE]
    ELSE LET rest(ok) == IF "holds" \in DOMAIN ok /\ ok.holds THEN ResidualHolds(Tail(residual), ctx) ELSE ok
         IN  rest(EvalBoolExpr(Head(residual), ctx))

MaterializeHashEquiJoinRows(join, plan, left, right, ctx) ==
    LET lids == [k \in DOMAIN plan.keys |-> plan.keys[k][1]]
        rids == [k \in DOMAIN plan.keys |-> plan.keys[k][2]]
        matches(lrow) == LET lkey == JoinKeyFingerprint(lrow, lids)
                         IN  SelectSeq(right, LAMBDA rrow : LET rkey == JoinKeyFingerprint(rrow, rids)
                                                            IN  ~lkey.null /\ ~rkey.null /\ lkey.key = rkey.key)
    IN  Collect([i \in DOMAIN left |-> JoinOneRow(join, left[i], matches(left[i]),
                                                  LAMBDA row : ResidualHolds(plan.residual, [ctx EXCEPT !.columns = row]))])

ShouldIncludeJoinRow(join, row, ctx) ==
    IF join.on = <<>> THEN [holds |-> TRUE] ELSE EvalBoolExpr(join.on[1], [ctx EXCEPT !.columns = row])

MaterializeNestedLoopJoinRows(join, left, right, ctx) ==
    Collect([i \in DOMAIN left |-> JoinOneRow(join, left[i], right, LAMBDA row : ShouldIncludeJoinRow(join, row, ctx))])

-----------------------------------------------------------------------------
(* Set operations, over rows that bind the columns of the operation.         *)

RemapSetOperationRow(op, arm, row) ==
    [id \in Ids(op.cols) |->
       LET j == CHOOSE j \in DOMAIN op.cols : op.cols[j].id = id
       IN  IF j <= Len(arm.cols) /\ arm.cols[j].id \in DOMAIN row THEN row[arm.cols[j].id] ELSE NullOfType("INT64")]

CountOf(rows, row) == Cardinality({i \in DOMAIN rows : rows[i] = row})

Dedupe(rows) == SelectSeq([i \in DOMAIN rows |-> [row |-> rows[i], first |-> \A j \in 1 .. i - 1 : rows[j] # rows[i]]],
                          LAMBDA e : e.first)

DedupeSetOperationRowsPreserveOrder(rows) == LET d == Dedupe(rows) IN [i \in DOMAIN d |-> d[i].row]

\* The rows by fingerprint, each as often as counted.
ExpandSetOperationCounts(op, rows, Count(_)) ==
    LET less(a, b) == KeyLess([j \in DOMAIN op.cols |-> a[op.cols[j].id]], [j \in DOMAIN op.cols |-> b[op.cols[j].id]])
        sorted == StableSort(DedupeSetOperationRowsPreserveOrder(rows), less)
    IN  FlattenSeq([i \in DOMAIN sorted |-> [n \in 1 .. Count(sorted[i]) |-> sorted[i]]])

ApplyExceptAll(op, left, right) ==
    ExpandSetOperationCounts(op, left, LAMBDA row : Max({0, CountOf(left, row) - CountOf(right, row)}))

ApplyIntersectAllArms(op, arms) ==
    ExpandSetOperationCounts(op, arms[1], LAMBDA row : Min({CountOf(arms[a], row) : a \in DOMAIN arms}))

ApplyIntersectDistinctArms(op, arms) ==
    ExpandSetOperationCounts(op, arms[1], LAMBDA row : IF \A a \in DOMAIN arms : CountOf(arms[a], row) > 0 THEN 1 ELSE 0)

ApplyExceptDistinctArms(op, arms) ==
    ExpandSetOperationCounts(op, arms[1], LAMBDA row : IF \E a \in 2 .. Len(arms) : CountOf(arms[a], row) > 0 THEN 0 ELSE 1)

MaterializeSetOperationScan(op, arms) ==
    Some(CASE op.op = "UNION_ALL" -> FlattenSeq(arms)
           [] op.op = "UNION_DISTINCT" -> DedupeSetOperationRowsPreserveOrder(FlattenSeq(arms))
           [] op.op = "INTERSECT_ALL" -> ApplyIntersectAllArms(op, arms)
           [] op.op = "INTERSECT_DISTINCT" -> ApplyIntersectDistinctArms(op, arms)
           [] op.op = "EXCEPT_ALL" -> FoldLeft(LAMBDA acc, arm : ApplyExceptAll(op, acc, arm), arms[1], Tail(arms))
           [] op.op = "EXCEPT_DISTINCT" -> ApplyExceptDistinctArms(op, arms))

-----------------------------------------------------------------------------
(* UNNEST of one array or of several side by side.                           *)

ArrayOf(elements) == [kind |-> "ARRAY", null |-> FALSE, v |-> elements]

SizeOf(array) == IF array.null THEN 0 ELSE Len(array.v)

ComputeZipRowCount(mode, sizes) == IF mode = "PAD" THEN Max(Range(sizes)) ELSE Min(Range(sizes))

\* The column ids under which an enclosing scan knows the elements.
AliasUnnestPublicColumnIds(scan, row) ==
    row @@ [id \in {scan.cols[i].id : i \in 1 .. Min({Len(scan.cols), Len(scan.elems)})} |->
              row[scan.elems[CHOOSE i \in DOMAIN scan.elems : scan.cols[i].id = id].id]]

OffsetOf(scan, v) == [id \in Ids(scan.offset) |-> v]

BuildOuterUnnestNullRow(scan) ==
    AliasUnnestPublicColumnIds(scan, NullRow(scan.elems) @@ OffsetOf(scan, NullOfType("INT64")))

BuildUnnestRowAtIndex(scan, arrays, idx) ==
    LET at(i) == IF idx <= SizeOf(arrays[i]) THEN arrays[i].v[idx] ELSE NullOfType("INT64")
        elements == [id \in Ids(scan.elems) |-> at(CHOOSE i \in DOMAIN scan.elems : scan.elems[i].id = id)]
    IN  AliasUnnestPublicColumnIds(scan, elements @@ OffsetOf(scan, Val("INT64", idx - 1)))

BuildUnnestRows(scan, count, arrays) ==
    IF count = 0 /\ scan.outer THEN <<BuildOuterUnnestNullRow(scan)>>
    ELSE [idx \in 1 .. count |-> BuildUnnestRowAtIndex(scan, arrays, idx)]

UnnestArrays(scan, arrays) ==
    LET sizes == [i \in DOMAIN arrays |-> SizeOf(arrays[i])]
    IN  IF (\E i \in DOMAIN arrays : arrays[i].kind # "ARRAY") \/ (scan.mode = "STRICT" /\ Cardinality(Range(sizes)) > 1)
        THEN Invalid
        ELSE Some(BuildUnnestRows(scan, ComputeZipRowCount(scan.mode, sizes), arrays))

EvaluateArrayScan(scan, ctx) ==
    IF Len(scan.arrays) > 1 /\ scan.offset # <<>> THEN Invalid
    ELSE OverValues([i \in DOMAIN scan.arrays |-> EvalExpr(scan.arrays[i], ctx)], LAMBDA arrays : UnnestArrays(scan, arrays))

\* The elements beside their left row, those the ON condition keeps if there is one.
ArrayRowsOf(scan, lrow, elements, ctx) ==
    LET outer(rows) == Some(IF rows = <<>> /\ scan.outer
                            THEN <<lrow @@ NullRow(scan.elems) @@ OffsetOf(scan, NullOfType("INT64"))>> ELSE rows)
        pair(i) == lrow @@ elements[i]
    IN  IF scan.on = <<>> THEN Some([i \in DOMAIN elements |-> pair(i)])
        ELSE OverRows(Collect([i \in DOMAIN elements |->
                                 Keep(EvalBoolExpr(scan.on[1], [ctx EXCEPT !.columns = pair(i)]), pair(i))]), outer)

\* MaterializeArrayScanWithJoinExpr and MaterializeArrayScanFromLeftInput; a
\* scan without an input is over one empty row.
MaterializeArrayScanFromLeftInput(scan, left, ctx) ==
    LET frame(lrow) == IF scan.input = <<>> THEN ctx ELSE MakeOuterRowFrame(ctx, lrow, scan.input[1].cols)
    IN  Collect([i \in DOMAIN left |-> OverRows(EvaluateArrayScan(scan, frame(left[i])),
                                               LAMBDA elements : IF scan.input = <<>> THEN Some(elements)
                                                                 ELSE ArrayRowsOf(scan, left[i], elements, ctx))])

-----------------------------------------------------------------------------
(* TABLESAMPLE.  The draws of the random numbers, in percent, are part of    *)
(* the scan: any draw may come.                                              *)

EvalSampleWeight(scan, row) == LET w == row[scan.weight[1].id] IN IF w.null THEN 0 ELSE w.v

BuildStratumMaxWeights(scan, rows, key) ==
    Max({0} \cup {EvalSampleWeight(scan, rows[i]) : i \in {i \in DOMAIN rows : KeyOf(rows[i], scan.by) = key}})

KeepBernoulliRow(scan, rows, i, percent) ==
    IF percent = 100 \/ scan.weight = <<>> THEN scan.draws[i] < percent
    ELSE LET max == BuildStratumMaxWeights(scan, rows, KeyOf(rows[i], scan.by))
         IN  IF max = 0 THEN scan.draws[i] < percent ELSE scan.draws[i] * max < percent * EvalSampleWeight(scan, rows[i])

MaterializeSampleScan(scan, rows, ctx) ==
    LET sample(percent) ==
            IF ~Ok(percent) THEN percent
            ELSE IF percent.null \/ percent.v \notin 0 .. 100 THEN Invalid
            ELSE Some(FlattenSeq([i \in DOMAIN rows |-> IF KeepBernoulliRow(scan, rows, i, percent.v) THEN <<rows[i]>> ELSE <<>>]))
    IN  CASE rows = <<>> -> Some(<<>>)
          [] rows # <<>> /\ scan.unit # "PERCENT" -> MakeSemanticError("kNotImplemented")
          [] OTHER -> sample(EvalExpr(scan.percent, ctx))

-----------------------------------------------------------------------------
(* Scans that name other scans, subqueries, and the scan of any kind.        *)

TableOf(cols, rows) == [scan |-> "table", cols |-> cols, rows |-> rows]

CteTable(scan, rows) == [rows |-> rows, ids |-> [i \in DOMAIN scan.cols |-> scan.cols[i].id]]

\* Column by column, by position.
RemapColumns(table, cols) ==
    IF Len(table.ids) # Len(cols) THEN Internal
    ELSE Some([r \in DOMAIN table.rows |->
                 [id \in Ids(cols) |-> table.rows[r][table.ids[CHOOSE i \in DOMAIN cols : cols[i].id = id]]]])

MaterializeWithRefScan(scan, ctx) ==
    IF scan.name \in DOMAIN ctx.with_tables THEN RemapColumns(ctx.with_tables[scan.name], scan.cols) ELSE Invalid

MaterializeRelationArgumentScan(scan, ctx) ==
    IF scan.name \in DOMAIN ctx.relations THEN RemapColumns(ctx.relations[scan.name], scan.cols) ELSE Invalid

\* MaterializeArrayScan: without an input the arrays stand beside one empty row.
ArrayInput(scan) == IF scan.input = <<>> THEN TableOf(<<>>, <<Unbound>>) ELSE scan.input[1]

RECURSIVE MaterializeScanImpl(_, _)

\* The entries in turn, each with the tables of those before it.  The tables of
\* an enclosing WITH are not among them.
OverTables(acc, F(_)) == IF "error" \in DOMAIN acc THEN acc ELSE F(acc.tables)

MaterializeWithScanBody(scan, ctx) ==
    LET added(e, r, tables) == IF IsRows(r) THEN [tables |-> (e.name :> CteTable(e.query, r.rows)) @@ tables] ELSE r
        scope(tables) == [ctx EXCEPT !.with_tables = tables]
    IN  OverTables(FoldLeft(LAMBDA acc, e : OverTables(acc, LAMBDA ts : added(e, MaterializeScanImpl(e.query, scope(ts)), ts)),
                            [tables |-> Unbound], scan.entries),
                   LAMBDA ts : MaterializeScanImpl(scan.query, scope(ts)))

\* Scalars go to a frame of their own, tables to the relations of the body.
BindTvfArguments(scan, ctx) ==
    LET tables == {i \in DOMAIN scan.args : "scan" \in DOMAIN scan.args[i]}
        bind(S, V(_)) == [n \in {scan.names[i] : i \in S} |-> V(CHOOSE i \in S : scan.names[i] = n)]
        bound(vs) ==
            IF \E i \in DOMAIN vs : "error" \in DOMAIN vs[i] THEN vs[Min({i \in DOMAIN vs : "error" \in DOMAIN vs[i]})]
            ELSE [arguments |-> bind(DOMAIN vs \ tables, LAMBDA i : vs[i]),
                  relations |-> bind(tables, LAMBDA i : CteTable(scan.args[i], vs[i].rows))]
    IN  IF Len(scan.names) # Len(scan.args) THEN Invalid
        ELSE bound([i \in DOMAIN scan.args |-> IF i \in tables THEN MaterializeScanImpl(scan.args[i], ctx)
                                               ELSE EvalExpr(scan.args[i], ctx)])

\* A templated function's body is evaluated in the context of its caller.
MaterializeTvfScan(scan, ctx) ==
    LET body(scope) == OverRows(MaterializeScanImpl(scan.body, scope),
                                LAMBDA rows : RemapColumns(CteTable(scan.body, rows), scan.cols))
        called(bound) == IF "error" \in DOMAIN bound THEN bound
                         ELSE body([ctx EXCEPT !.arguments = bound.arguments, !.relations = bound.relations])
    IN  IF scan.templated THEN body(ctx) ELSE called(BindTvfArguments(scan, ctx))

MaterializeLateralJoinRows(join, left, ctx) ==
    LET frame(lrow) == BindCorrelatedColumnRefs(join.right, MakeOuterRowFrame(ctx, lrow, join.left.cols))
    IN  Collect([i \in DOMAIN left |->
                   OverRows(MaterializeScanImpl(join.right, frame(left[i])),
                            LAMBDA rows : MaterializeNestedLoopJoinRows(join, <<left[i]>>, rows, ctx))])

JoinByPlan(join, plan, left, right, ctx) ==
    IF plan.keys # <<>> THEN MaterializeHashEquiJoinRows(join, plan, left, right, ctx)
    ELSE MaterializeNestedLoopJoinRows(join, left, right, ctx)

MaterializeJoinScan(join, left, ctx) ==
    IF join.lateral THEN MaterializeLateralJoinRows(join, left, ctx)
    ELSE OverRows(MaterializeScanImpl(join.right, ctx),
                  LAMBDA right : JoinByPlan(join, PlanEquiJoin(join), left, right, ctx))

MaterializeUnary(scan, rows, ctx) ==
    CASE scan.scan = "filter" -> MaterializeFilterScan(scan, rows, ctx)
      [] scan.scan = "project" -> ProjectRows(scan, rows, ctx)
      [] scan.scan = "order" -> MaterializeOrderByScanRows(scan, rows)
      [] scan.scan = "limit" -> MaterializeLimitOffsetScan(scan, rows, ctx)
      [] scan.scan = "sample" -> MaterializeSampleScan(scan, rows, ctx)
      [] scan.scan = "join" -> MaterializeJoinScan(scan, rows, ctx)
      [] scan.scan = "array" -> MaterializeArrayScanFromLeftInput(scan, rows, ctx)

\* A scan with an input, a left side or arms has those materialized first.
MaterializeScanImpl(scan, ctx) ==
    LET input == CASE scan.scan = "join" -> scan.left
                   [] scan.scan = "array" -> ArrayInput(scan)
                   [] OTHER -> scan.input
        remap(a, rows) == [r \in DOMAIN rows |-> RemapSetOperationRow(scan, scan.arms[a], rows[r])]
    IN  CASE scan.scan = "table" -> Some(scan.rows)
          [] scan.scan = "single" -> Some(<<NullRow(scan.cols)>>)
          [] scan.scan = "join" /\ ~scan.lateral /\ scan.type \in {"RIGHT", "FULL"} -> MakeSemanticError("kNotImplemented")
          [] scan.scan = "with" -> MaterializeWithScanBody(scan, ctx)
          [] scan.scan = "with_ref" -> MaterializeWithRefScan(scan, ctx)
          [] scan.scan = "relation" -> MaterializeRelationArgumentScan(scan, ctx)
          [] scan.scan = "tvf" -> MaterializeTvfScan(scan, ctx)
          [] scan.scan = "set" ->
               OverRows(Collect([a \in DOMAIN scan.arms |->
                                   OverRows(MaterializeScanImpl(scan.arms[a], ctx), LAMBDA rows : Some(<<remap(a, rows)>>))]),
                        LAMBDA arms : MaterializeSetOperationScan(scan, arms))
          [] OTHER -> OverRows(MaterializeScanImpl(input, ctx), LAMBDA rows : MaterializeUnary(scan, rows, ctx))

\* The projection whose first expression is taken for the value of a subquery.
RECURSIVE FindOutputProjectScan(_)
FindOutputProjectScan(scan) ==
    CASE scan.scan = "project" -> <<scan>>
      [] scan.scan \in {"order", "filter", "limit"} -> FindOutputProjectScan(scan.input)
      [] scan.scan = "with" -> FindOutputProjectScan(scan.query)
      [] OTHER -> <<>>

ResolveSubqueryValueColumnId(scan) ==
    LET project == FindOutputProjectScan(scan)
    IN  IF project = <<>> THEN scan.cols[1].id
        ELSE IF project[1].exprs # <<>> THEN project[1].exprs[1].id ELSE project[1].cols[1].id

EvalScalarSubquery(values) ==
    CASE Len(values) = 0 -> NullOfType("INT64") [] Len(values) = 1 -> values[1] [] OTHER -> Invalid

\* A NULL among the values is passed over.
EvalInSubquery(lhs, values) ==
    CASE ~Ok(lhs) -> lhs
      [] Ok(lhs) /\ lhs.null -> NullBool
      [] OTHER -> Bool(\E i \in DOMAIN values : ~values[i].null /\ Equals(lhs, values[i]))

\* Like(v, w) is LIKE, NULL when either is.
EvalLikeAnyAllSubquery(type, lhs, values, Like(_, _)) ==
    LET any == \E i \in DOMAIN values : IsTrue(Like(lhs, values[i]))
        all == \A i \in DOMAIN values : IsTrue(Like(lhs, values[i]))
    IN  CASE lhs.null -> NullBool
          [] ~lhs.null /\ values = <<>> -> Bool(type \in {"LIKE_ALL", "NOT_LIKE_ANY"})
          [] OTHER -> Bool(CASE type = "LIKE_ANY" -> any [] type = "LIKE_ALL" -> all
                             [] type = "NOT_LIKE_ANY" -> ~any [] type = "NOT_LIKE_ALL" -> ~all)

\* The parameters of a subquery are its references to the rows around it.
BindCorrelatedSubqueryColumns(q, ctx) ==
    IF ctx.columns = Unbound THEN ctx ELSE BindCorrelatedColumnRefs(q.scan, ctx)

EvalSubqueryExpr(q, ctx) ==
    LET over(values, lhs) ==
            CASE q.type = "EXISTS" -> Bool(values # <<>>)
              [] q.type = "SCALAR" -> EvalScalarSubquery(values)
              [] q.type = "ARRAY" -> ArrayOf(values)
              [] q.type = "IN" -> EvalInSubquery(lhs, values)
              [] OTHER -> EvalLikeAnyAllSubquery(q.type, lhs, values, LAMBDA v, w : IF v.null \/ w.null THEN NullBool ELSE Bool(Equals(v, w)))
    IN  OverRows(MaterializeScanImpl(q.scan, BindCorrelatedSubqueryColumns(q, ctx)),
                 LAMBDA rows : over([i \in DOMAIN rows |-> rows[i][ResolveSubqueryValueColumnId(q.scan)]], EvalExpr(q.lhs, ctx)))

\* Parameters are all named, the last of a name winning, or all positional.
BuildParameterBindings(params) ==
    LET named == SelectSeq(params, LAMBDA p : p.name # "")
    IN  IF named # <<>> /\ Len(named) < Len(params) THEN Invalid
        ELSE Some([n \in {named[i].name : i \in DOMAIN named} |->
                     named[Max({i \in DOMAIN named : named[i].name = n})].val])

\* What the row binds goes out; what it does not is computed now.
ProjectOneRow(outs, exprs, row, ctx) ==
    OverValues([i \in DOMAIN outs |-> IF outs[i].id \in DOMAIN row THEN row[outs[i].id]
                                      ELSE IF \E e \in Range(exprs) : e.id = outs[i].id
                                      THEN EvalExpr((CHOOSE e \in Range(exprs) : e.id = outs[i].id).expr, [ctx EXCEPT !.columns = row])
                                      ELSE Internal],
               LAMBDA v : Some(<<v>>))

ExecuteResolvedQueryStmt(outs, scan, params) ==
    LET project == FindOutputProjectScan(scan)
        exprs == IF project = <<>> THEN <<>> ELSE project[1].exprs
        scope(bound) == [NoScope EXCEPT !.parameters = bound]
    IN  OverRows(BuildParameterBindings(params),
                 LAMBDA bound : OverRows(MaterializeScanImpl(scan, scope(bound)),
                                         LAMBDA rows : Collect([i \in DOMAIN rows |->
                                                                  ProjectOneRow(outs, exprs, rows[i], scope(bound))])))

-----------------------------------------------------------------------------
(* The calls.                                                                *)

X == Ref(1, "t.x", "INT64")
Y == Ref(2, "t.y", "INT64")
Z == Ref(3, "u.z", "INT64")
W == Ref(4, "u.w", "INT64")

\* Rows of two columns, the first of them perhaps NULL.
Pairs(a, b, max) ==
    LET row(p) == (a :> p[1]) @@ (b :> p[2])
    IN  SeqOf({row(p) : p \in AggInts({1}) \X {Val("INT64", 1), Val("INT64", 2)}}, max)

Is(fn, a, b) == Call(fn, <<a, b>>, "BOOL", FALSE)
Integer(n) == Literal(Val("INT64", n))

\* Raises where y is 1.
Raises == Is("$equal", Call("div", <<Integer(1), Call("$subtract", <<Y, Integer(1)>>, "INT64", FALSE)>>, "INT64", FALSE), Integer(1))

Ons ==
    {<<>>, <<Is("$equal", X, Z)>>, <<Is("$equal", Z, X)>>, <<Is("$less", Y, W)>>,
     <<Is("$and", Is("$less", Y, W), Is("$and", Is("$equal", X, Z), Is("$equal", Y, W)))>>,
     <<Is("$and", Is("$equal", Z, X), Is("$less", Y, W))>>, <<Is("$and", Is("$equal", X, Z), Raises)>>}

\* A right side that asks for the rows with w = y stands in a LATERAL join.
JoinCalls ==
    LET u(rrows) == TableOf(<<Z, W>>, rrows)
        right(rrows, correlated) ==
            IF correlated THEN [scan |-> "filter", cols |-> <<Z, W>>, input |-> u(rrows), expr |-> Is("$equal", W, Y)] ELSE u(rrows)
    IN  {[op |-> "join", correlated |-> form = "correlated",
          scan |-> [scan |-> "join", cols |-> <<X, Y, Z, W>>, left |-> TableOf(<<X, Y>>, lrows),
                    right |-> right(rrows, form = "correlated"), type |-> type, lateral |-> form # "plain", on |-> on]] :
           lrows \in Pairs(1, 2, MaxScanRows), rrows \in Pairs(3, 4, MaxScanRows),
           form \in {"plain", "lateral", "correlated"}, type \in {"INNER", "LEFT", "FULL"}, on \in Ons}

SetOperationCalls ==
    {[op |-> "set", scan |-> [scan |-> "set", op |-> op, cols |-> <<Z>>, arms |-> [a \in 1 .. 3 |-> TableOf(<<X>>, arms[a])]]] :
       arms \in [1 .. 3 -> SeqOf({[i \in {1} |-> v] : v \in AggInts({1, 2})}, MaxScanRows)],
       op \in {"UNION_ALL", "UNION_DISTINCT", "INTERSECT_ALL", "INTERSECT_DISTINCT", "EXCEPT_ALL", "EXCEPT_DISTINCT"}}

PageCalls ==
    LET order(rows, desc, nulls) ==
            [scan |-> "order", cols |-> <<X, Y>>, input |-> TableOf(<<X, Y>>, rows), items |-> <<Item(1, desc, nulls)>>]
    IN  {[op |-> "page", rows |-> rows,
          scan |-> [scan |-> "limit", cols |-> <<X, Y>>, input |-> order(rows, desc, nulls),
                    limit |-> Literal(limit), offset |-> Literal(offset)]] :
           rows \in Pairs(1, 2, MaxScanRows + 1), desc \in BOOLEAN, nulls \in {"default", "first"},
           limit, offset \in {NullOfType("INT64")} \cup {Val("INT64", n) : n \in -1 .. 3}}

Arrays == {[ArrayOf(<<>>) EXCEPT !.null = TRUE]} \cup {ArrayOf(s) : s \in SeqOf(AggInts({1, 2}), 2)}

\* Over no input, or over the rows of a table whose column 1 is the first array.
UnnestCalls ==
    LET left(arrays) == TableOf(<<X, Y>>, <<(1 :> arrays[1]) @@ (2 :> Val("INT64", 1))>>)
        unnest(arrays, mode, outer, offset, input) ==
            [scan |-> "array", cols |-> <<Ref(5, "a", "INT64")>>, elems |-> SubSeq(<<Z, W>>, 1, Len(arrays)),
             arrays |-> [i \in DOMAIN arrays |-> IF i = 1 /\ input # "none" THEN X ELSE Literal(arrays[i])],
             offset |-> IF offset THEN <<Ref(6, "o", "INT64")>> ELSE <<>>, mode |-> mode, outer |-> outer,
             input |-> IF input = "none" THEN <<>> ELSE <<left(arrays)>>,
             on |-> IF input = "joined" THEN <<Is("$equal", Z, Y)>> ELSE <<>>]
        calls == {[op |-> "unnest", scan |-> unnest(arrays, mode, outer, offset, input), given |-> arrays] :
                    arrays \in [1 .. 1 -> Arrays] \cup [1 .. 2 -> Arrays], mode \in {"PAD", "TRUNCATE", "STRICT"},
                    outer, offset \in BOOLEAN, input \in {"none", "left", "joined"}}
    IN  {call \in calls : call.scan.mode # "PAD" => Len(call.given) = 2}

SampleCalls ==
    {[op |-> "sample", rows |-> rows,
      scan |-> [scan |-> "sample", cols |-> <<X, Y>>, input |-> TableOf(<<X, Y>>, rows), percent |-> Literal(percent), unit |-> unit,
                draws |-> draws, weight |-> IF weighted THEN <<X>> ELSE <<>>, by |-> IF stratified THEN <<2>> ELSE <<>>]] :
       rows \in Pairs(1, 2, MaxScanRows), draws \in [1 .. MaxScanRows -> {0, 49, 99}],
       percent \in {NullOfType("INT64")} \cup {Val("INT64", n) : n \in {-1, 0, 50, 100, 101}},
       weighted, stratified \in BOOLEAN, unit \in {"PERCENT", "ROWS"}}

\* A subquery over u that looks at the row of t around it, in a filter or in
\* the condition of a join; or one that is ordered by an expression.
Subqueries(rrows) ==
    LET u == TableOf(<<Z, W>>, rrows)
        out(s) == [scan |-> "project", cols |-> <<Z>>, exprs |-> <<>>, input |-> s]
        one == [scan |-> "single", cols |-> <<>>]
        key == Ref(7, "k", "INT64")
        keyed == [scan |-> "project", cols |-> <<Z, key>>, input |-> u,
                  exprs |-> <<[id |-> 7, expr |-> Call("$add", <<W, Integer(1)>>, "INT64", FALSE)]>>]
    IN  {out([scan |-> "filter", cols |-> <<Z, W>>, input |-> u, expr |-> Is("$equal", W, X)]),
         out([scan |-> "join", cols |-> <<Z, W>>, left |-> u, right |-> one, type |-> "INNER", lateral |-> FALSE,
              on |-> <<Is("$equal", W, X)>>]),
         [scan |-> "order", cols |-> <<Z>>, input |-> keyed, items |-> <<Item(7, FALSE, "default")>>]}

CallSubquery ==
    \E rrows \in Pairs(3, 4, MaxScanRows), x \in AggInts({1, 2}), lhs \in AggInts({1, 2}),
       type \in {"EXISTS", "SCALAR", "ARRAY", "IN", "LIKE_ANY", "LIKE_ALL", "NOT_LIKE_ANY", "NOT_LIKE_ALL"} :
      \E scan \in Subqueries(rrows) :
        LET ctx == [NoScope EXCEPT !.columns = 1 :> x, !.by_name = "t.x" :> x]
            q == [type |-> type, lhs |-> Literal(lhs), scan |-> scan]
        IN  eval' = [op |-> "subquery", q |-> q, x |-> x, rows |-> rrows, result |-> EvalSubqueryExpr(q, ctx)]

\* WITH a AS (rows of t where x is 1), b AS (a) over a join of the two, in which
\* the second may stand in a WITH of its own; and a function f(n, r TABLE) that
\* returns the rows of r where y is n, once or applied to its own result.
WithPlan(rows, nested) ==
    LET a == [scan |-> "filter", cols |-> <<X, Y>>, input |-> TableOf(<<X, Y>>, rows), expr |-> Is("$equal", X, Integer(1))]
        ref(name, cols) == [scan |-> "with_ref", name |-> name, cols |-> cols]
        inner == [scan |-> "with", cols |-> <<Z, W>>, entries |-> <<[name |-> "c", query |-> a]>>, query |-> ref("a", <<Z, W>>)]
        right == IF nested THEN inner ELSE ref("b", <<Z, W>>)
    IN  [scan |-> "with", cols |-> <<X, Y, Z, W>>,
         entries |-> <<[name |-> "a", query |-> a], [name |-> "b", query |-> ref("a", <<Ref(8, "a.x", "INT64"), Ref(9, "a.y", "INT64")>>)]>>,
         query |-> [scan |-> "join", cols |-> <<X, Y, Z, W>>, left |-> ref("a", <<X, Y>>), right |-> right,
                    type |-> "INNER", lateral |-> FALSE, on |-> <<Is("$equal", Y, W)>>]]

TvfPlan(rows, n, twice) ==
    LET body == [scan |-> "filter", cols |-> <<Z, W>>, input |-> [scan |-> "relation", name |-> "r", cols |-> <<Z, W>>],
                 expr |-> Is("$equal", W, Argument("n"))]
        f(arg, table) == [scan |-> "tvf", cols |-> <<X, Y>>, names |-> <<"n", "r">>, args |-> <<arg, table>>, body |-> body, templated |-> FALSE]
        once == f(n, TableOf(<<X, Y>>, rows))
    IN  IF twice THEN f(Integer(1), once) ELSE once

TvfCaller == [NoScope EXCEPT !.arguments = "n" :> Val("INT64", 2)]

NamedCalls ==
    {[op |-> "with", rows |-> rows, nested |-> nested, scan |-> WithPlan(rows, nested)] :
       rows \in Pairs(1, 2, MaxScanRows), nested \in BOOLEAN}
    \cup {[op |-> "tvf", rows |-> rows, n |-> n, twice |-> twice, scan |-> TvfPlan(rows, n, twice)] :
            rows \in Pairs(1, 2, MaxScanRows), n \in {Integer(1), Argument("n"), Argument("m")}, twice \in BOOLEAN}

ScanCalls(kind) ==
    CASE kind = "join" -> JoinCalls
      [] kind = "set" -> SetOperationCalls
      [] kind = "page" -> PageCalls
      [] kind = "unnest" -> UnnestCalls
      [] kind = "sample" -> SampleCalls
      [] kind = "named" -> NamedCalls

\* A scan of any kind is materialized.
CallScan ==
    \E kind \in {"join", "set", "page", "unnest", "sample", "named"} : \E call \in ScanCalls(kind) :
      eval' = [result |-> MaterializeScanImpl(call.scan, IF call.op = "tvf" THEN TvfCaller ELSE NoScope)] @@ call

CallStatement ==
    \E rows \in Pairs(1, 2, MaxScanRows),
       params \in SeqOf({[name |-> "p", val |-> Val("INT64", 1)], [name |-> "p", val |-> Val("INT64", 2)],
                         [name |-> "", val |-> Val("INT64", 1)]}, 2) :
      LET sum == Call("$add", <<Y, Integer(1)>>, "INT64", FALSE)
          filter == [scan |-> "filter", cols |-> <<X, Y>>, input |-> TableOf(<<X, Y>>, rows), expr |-> Is("$equal", Y, Parameter("p"))]
          scan == [scan |-> "project", cols |-> <<X, Z>>, exprs |-> <<[id |-> 3, expr |-> sum]>>, input |-> filter]
      IN  eval' = [op |-> "statement", rows |-> rows, params |-> params, result |-> ExecuteResolvedQueryStmt(<<Z, X>>, scan, params)]

RelationNext ==
    \/ eval = NoCall /\ CallScan
    \/ eval = NoCall /\ CallSubquery
    \/ eval = NoCall /\ CallStatement

-----------------------------------------------------------------------------
(* Properties.                                                               *)

\* "Same inclusion semantics either way": whatever the nested loop would
\* return, the hash join returns, in the same order, and so does a LATERAL join
\* whose right side asks for the rows with w = y when that is made part of the
\* condition (MaterializeJoinScan, PlanEquiJoin).
JoinsAgree ==
    eval.op = "join" /\ (eval.scan.lateral \/ eval.scan.type # "FULL") =>
      LET join == eval.scan
          u == IF eval.correlated THEN join.right.input ELSE join.right
          on == CASE ~eval.correlated -> join.on
                  [] eval.correlated /\ join.on = <<>> -> <<Is("$equal", W, Y)>>
                  [] OTHER -> <<Is("$and", Is("$equal", W, Y), join.on[1])>>
          plain == [join EXCEPT !.right = u, !.on = on]
          same(loop) == IsRows(loop) => eval.result = loop
      IN  same(MaterializeNestedLoopJoinRows(plain, join.left.rows, u.rows, NoScope))

Occurs(rows, v) == Cardinality({i \in DOMAIN rows : \E id \in DOMAIN rows[i] : rows[i][id] = v})

\* A set operation is the one on bags, NULL being equal to NULL: UNION adds,
\* INTERSECT takes the least, EXCEPT subtracts what the other arms hold, and
\* DISTINCT leaves one of each (MaterializeSetOperationScan).
SetOperationsOnBags ==
    eval.op = "set" =>
      \A v \in AggInts({1, 2}) :
        LET n(a) == Occurs(eval.scan.arms[a].rows, v)
            op == eval.scan.op
            least(m) == IF m > 0 THEN 1 ELSE 0
        IN  Occurs(eval.result.rows, v) =
              CASE op = "UNION_ALL" -> n(1) + n(2) + n(3)
                [] op = "UNION_DISTINCT" -> least(n(1) + n(2) + n(3))
                [] op = "INTERSECT_ALL" -> Min({n(1), n(2), n(3)})
                [] op = "INTERSECT_DISTINCT" -> least(Min({n(1), n(2), n(3)}))
                [] op = "EXCEPT_ALL" -> Max({0, n(1) - n(2) - n(3)})
                [] op = "EXCEPT_DISTINCT" -> IF n(1) > 0 /\ n(2) = 0 /\ n(3) = 0 THEN 1 ELSE 0

\* A page holds the rows that between OFFSET and OFFSET + LIMIT others precede:
\* consecutive pages share no row and leave none out, rows with the same key
\* keeping the order they were read in (MaterializeLimitOffsetScan over
\* MaterializeOrderByScanRows).
PagesPartition ==
    eval.op = "page" /\ IsRows(eval.result) =>
      LET rows == eval.rows
          items == eval.scan.input.items
          off == eval.scan.offset.val.v
          before(i) == Cardinality({j \in DOMAIN rows :
                          OrderSpecLess(items, rows[j], rows[i]) \/ (j < i /\ ~OrderSpecLess(items, rows[i], rows[j]))})
          page == {i \in DOMAIN rows : off <= before(i) /\ before(i) < off + eval.scan.limit.val.v}
      IN  /\ Len(eval.result.rows) = Cardinality(page)
          /\ \A i \in page : eval.result.rows[before(i) - off + 1] = rows[i]

\* UNNEST of several arrays pairs their elements by position, as many as the
\* longest has or, truncating, the shortest; arrays that must match and do not
\* are an error; an outer UNNEST is never empty; a NULL array is an empty one
\* (EvaluateArrayScan, MaterializeArrayScanWithJoinExpr).
UnnestZips ==
    eval.op = "unnest" /\ ~(Len(eval.given) = 2 /\ eval.scan.offset # <<>>) =>
      LET scan == eval.scan
          len(i) == SizeOf(eval.given[i])
          count == IF scan.mode = "PAD" THEN Max({len(i) : i \in DOMAIN eval.given}) ELSE Min({len(i) : i \in DOMAIN eval.given})
          at(i, p) == IF p < len(i) THEN eval.given[i].v[p + 1] ELSE NullOfType("INT64")
          kept == {p \in 0 .. count - 1 : scan.on # <<>> => ~at(1, p).null /\ at(1, p).v = 1}
          nth(p) == Cardinality({q \in kept : q < p}) + 1
          rows == eval.result.rows
      IN  IF scan.mode = "STRICT" /\ len(1) # len(2) THEN ~IsRows(eval.result)
          ELSE IF kept = {} THEN /\ Len(rows) = (IF scan.outer THEN 1 ELSE 0)
                                 /\ scan.outer => \A i \in DOMAIN eval.given : rows[1][scan.elems[i].id].null
          ELSE /\ Len(rows) = Cardinality(kept)
               /\ \A p \in kept : /\ \A i \in DOMAIN eval.given : rows[nth(p)][scan.elems[i].id] = at(i, p)
                                  /\ scan.offset # <<>> => rows[nth(p)][6].v = p

\* A sample of 100 percent is the table and one of none is empty; between them
\* the rows keep their order, and a row without weight is never drawn as long
\* as its stratum has one with weight (BernoulliPercentSample).
SampleByWeight ==
    eval.op = "sample" /\ IsRows(eval.result) =>
      LET rows == eval.rows
          out == eval.result.rows
          percent == eval.scan.percent.val.v
          stratum(i) == {j \in DOMAIN rows : eval.scan.by = <<>> \/ rows[j][2] = rows[i][2]}
          light(i) == eval.scan.weight # <<>> /\ rows[i][1].null /\ \E j \in stratum(i) : ~rows[j][1].null
      IN  /\ percent = 100 => out = rows
          /\ percent = 0 => out = <<>>
          /\ percent = 50 => \E kept \in SUBSET DOMAIN rows :
               /\ \A i \in kept : ~light(i)
               /\ out = LET ids == SetToSortSeq(kept, <) IN [k \in DOMAIN ids |-> rows[ids[k]]]

Matching == {i \in DOMAIN eval.rows : ~eval.x.null /\ eval.rows[i][4] = eval.x}

\* A subquery sees the row it stands in: whether its condition is a filter or
\* belongs to a join, its rows are those of u with w equal to that row's x, and
\* EXISTS, the scalar, the array and LIKE ANY or ALL are over them
\* (EvalSubqueryExpr, BindCorrelatedSubqueryColumns).
SubqueriesSeeTheirRow ==
    eval.op = "subquery" /\ eval.q.scan.scan = "project" =>
      LET ids == SetToSortSeq(Matching, <)
          values == [k \in DOMAIN ids |-> eval.rows[ids[k]][3]]
          same(v) == ~v.null /\ v.v = eval.q.lhs.val.v
          any == \E k \in DOMAIN values : same(values[k])
          all == \A k \in DOMAIN values : same(values[k])
          truth(b) == IF eval.q.lhs.val.null THEN eval.result = NullBool ELSE eval.result = Bool(b)
      IN  CASE eval.q.type = "EXISTS" -> eval.result = Bool(Matching # {})
            [] eval.q.type = "SCALAR" -> CASE Len(values) = 0 -> eval.result = NullOfType("INT64")
                                           [] Len(values) = 1 -> eval.result = values[1]
                                           [] OTHER -> ~Ok(eval.result)
            [] eval.q.type = "ARRAY" -> eval.result = ArrayOf(values)
            [] eval.q.type = "LIKE_ANY" -> truth(any)
            [] eval.q.type = "LIKE_ALL" -> truth(all)
            [] eval.q.type = "NOT_LIKE_ANY" -> truth(~any)
            [] OTHER -> TRUE

\* "The ARRAY function returns an ARRAY with one element for each row in a
\* subquery": the element is the row's column, not the key it is ordered by
\* (ResolveSubqueryValueColumnId).
ArrayHoldsTheColumn ==
    eval.op = "subquery" /\ eval.q.type = "ARRAY" /\ eval.q.scan.scan = "order" =>
      \A k \in DOMAIN eval.result.v : \E i \in DOMAIN eval.rows : eval.result.v[k] = eval.rows[i][3]

\* IN over a subquery is the IN of a list: NULL when there is no match and a
\* NULL among the values, FALSE over no values (EvalInSubquery).
InSubqueryThreeValued ==
    eval.op = "subquery" /\ eval.q.type = "IN" /\ eval.q.scan.scan = "project" =>
      LET values == {eval.rows[i][3] : i \in Matching}
          lhs == eval.q.lhs.val
      IN  eval.result = CASE values = {} -> Bool(FALSE)
                          [] values # {} /\ ~lhs.null /\ lhs \in values -> Bool(TRUE)
                          [] OTHER -> IF lhs.null \/ \E v \in values : v.null THEN NullBool ELSE Bool(FALSE)

\* The name of a WITH table, of a function's argument or of a parameter stands
\* for what was bound to it: a query over names is the query with the rows and
\* the values in their place, an inner call's n not being the outer call's
\* (MaterializeWithScanBody, BindTvfArguments, BuildParameterBindings).
NamesStandForValues ==
    LET rows == eval.rows
        ones == SelectSeq(rows, LAMBDA r : ~r[1].null)
        n == CASE eval.n.node = "literal" -> 1 [] eval.n.name = "n" -> 2 [] OTHER -> 0
        last == eval.params[Len(eval.params)].val
    IN  CASE eval.op = "with" /\ ~eval.nested ->
               /\ IsRows(eval.result)
               /\ eval.result.rows = FlattenSeq([i \in DOMAIN ones |->
                    LET same == SelectSeq(ones, LAMBDA r : r[2] = ones[i][2])
                    IN  [k \in DOMAIN same |-> ones[i] @@ (3 :> same[k][1]) @@ (4 :> same[k][2])]])
          [] eval.op = "tvf" ->
               IF n = 0 THEN ~IsRows(eval.result)
               ELSE IsRows(eval.result) /\ eval.result.rows = SelectSeq(rows, LAMBDA r : r[2].v = n /\ (eval.twice => r[2].v = 1))
          [] eval.op = "statement" ->
               IF \E i, j \in DOMAIN eval.params : eval.params[i].name # eval.params[j].name THEN ~IsRows(eval.result)
               ELSE IsRows(eval.result) /\ eval.params # <<>> /\ eval.params[1].name = "p" =>
                 LET kept == SelectSeq(rows, LAMBDA r : r[2] = last)
                 IN  eval.result.rows = [i \in DOMAIN kept |-> <<Val("INT64", kept[i][2].v + 1), kept[i][1]>>]
          [] OTHER -> TRUE

\* A WITH table can be named anywhere in the query, in a WITH within it as well
\* (MaterializeWithScanBody).
OuterTablesVisible == eval.op = "with" /\ eval.nested => IsRows(eval.result)

=============================================================================
