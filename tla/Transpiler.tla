----------------------------- MODULE Transpiler ------------------------------
(***************************************************************************)
(* Names in the SQL the DuckDB transpiler writes                           *)
(* (backend/engine/duckdb/transpiler).                                     *)
(*                                                                         *)
(* The analyzer identifies a column by its id; several columns of a query  *)
(* may have one name.  The transpiler writes nested SELECTs in which a     *)
(* column is found by name, and tells equal names apart by renaming the    *)
(* columns of a join to __bq_j_<id>.  Which of the two spellings a scan    *)
(* exposes, whether it carries the row stamp __bq_input_rn, and which      *)
(* order the outermost SELECT must restore are members of the Transpiler   *)
(* object that every Emit method reads and writes (transpiler.h).          *)
(*                                                                         *)
(* An emitted SELECT is the list of columns it exposes, each with the id   *)
(* of the column it really holds, and whether every name in it binds.  An  *)
(* expression is the set of columns it refers to, with a subquery perhaps. *)
(* Functions, literals and types are the subject of RouteClassifier.       *)
(***************************************************************************)
EXTENDS SqlValues

\* Spellings of a column in the emitted text.
Named(n) == <<n, 0>>

JoinColumnIdAlias(id) == <<"__bq_j_", id>>

WithScanColumnAnchor(i) == <<"_cte_", i>>

InputRn == <<"__bq_input_rn", 0>>

RnId == 0

Missing == -2

Wrong == -1

OutItem(ref, name, id) == [ref |-> ref, name |-> name, id |-> id]

NoSql == [cols |-> <<>>, binds |-> TRUE, right |-> TRUE, rnText |-> FALSE, lowered |-> FALSE]

\* DuckDB's binder: a name is the first column of the input that bears it.
Bind(rel, name) ==
    LET first(hits) == IF hits = <<>> THEN Missing ELSE hits[1].id
    IN first(SelectSeq(rel.cols, LAMBDA c : c.name = name))

Pass(rel, ref, name) == OutItem(ref, name, Bind(rel, ref))

\* SELECT items FROM (rel).
Select(rel, items) ==
    [rel EXCEPT !.cols = items,
                !.binds = @ /\ \A i \in DOMAIN items : items[i].id # Missing,
                !.rnText = @ \/ \E i \in DOMAIN items : items[i].name = InputRn]

\* A clause (WHERE, ORDER BY, ON) that refers to columns; fits is what Fit says.
Clause(sql, fit) ==
    [sql EXCEPT !.binds = @ /\ fit # "missing", !.right = @ /\ fit # "wrong"]

Worst(S) == CASE "missing" \in S -> "missing" [] "wrong" \in S -> "wrong" [] OTHER -> "fits"

FitOf(bound, id) == IF bound = Missing THEN "missing" ELSE IF bound = id THEN "fits" ELSE "wrong"

Fit(rel, name, id) ==
    FitOf(Bind(rel, name), id)

\* SELECT *, row_number() OVER () AS "__bq_input_rn" FROM (rel).
StampRows(rel) == Select(rel, Append(rel.cols, OutItem(InputRn, InputRn, RnId)))

Range2(s) == {s[i] : i \in DOMAIN s}

NamesIn(cols) == {cols[i].name : i \in DOMAIN cols}

IdsIn(cols) == {cols[i].id : i \in DOMAIN cols}

\* The members of the object, as constructed and as each statement resets them.
NewTranspiler ==
    [uses |-> FALSE,        \* join_output_uses_id_aliases_
     inQuery |-> FALSE,     \* join_id_aliases_in_query_
     columns |-> FALSE,     \* join_output_columns_use_id_aliases_
     hasRn |-> FALSE,       \* input_has_rn_column_
     rnOrder |-> FALSE,     \* input_rn_ordering_
     outRn |-> FALSE,       \* output_includes_input_rn_
     suppress |-> FALSE,    \* suppress_rn_in_project_
     order |-> <<>>,        \* output_order_items_, output_order_column_ids_
     outs |-> {},           \* query_output_column_names_
     ctes |-> <<>>,         \* what DuckDB knows of the CTEs emitted so far
     rec |-> <<>>]          \* recursive_cte_stack_

Emitted(sql, t) == [sql |-> sql, t |-> t]

CannotLower(t) == Emitted(NoSql, t)

\* What is made of an emitted scan, if it could be lowered.
Wrap(r, F(_)) == IF r.sql.lowered THEN F(r) ELSE r

RECURSIVE EmitScan(_, _)

-----------------------------------------------------------------------------
(* Expressions.                                                            *)

EmitColumnRef(col, t) == IF t.uses THEN JoinColumnIdAlias(col.id) ELSE Named(col.name)

FitRefs(rel, cols, t) == Worst({Fit(rel, EmitColumnRef(c, t), c.id) : c \in cols})

\* A subquery is emitted with the row stamp and the pending order set aside;
\* the join spellings are not.
EmitSubqueryScan(scan, t) ==
    LET back(r) == Emitted(r.sql, [r.t EXCEPT !.hasRn = t.hasRn, !.rnOrder = t.rnOrder, !.outRn = t.outRn,
                                              !.suppress = t.suppress, !.order = t.order])
    IN back(EmitScan(scan, [t EXCEPT !.hasRn = FALSE, !.rnOrder = FALSE, !.outRn = FALSE,
                                     !.suppress = TRUE, !.order = <<>>]))

\* Scalar and EXISTS subqueries refer to nothing outside; the left side of IN
\* is emitted after the subquery.  The result: how the references fit, the
\* object afterwards, and whether there is any SQL.
EmitSubqueryExpr(e, rel, t) ==
    LET inner(sql) == IF ~sql.binds THEN "missing" ELSE IF ~sql.right THEN "wrong" ELSE "fits"
        with(r) == [fit |-> Worst({inner(r.sql), FitRefs(rel, e.refs, r.t)}), t |-> r.t, lowered |-> r.sql.lowered]
    IN with(EmitSubqueryScan(e.sub, t))

EmitExpr(e, rel, t) ==
    IF "sub" \in DOMAIN e THEN EmitSubqueryExpr(e, rel, t)
    ELSE [fit |-> FitRefs(rel, e.refs, t), t |-> t, lowered |-> TRUE]

\* What a computed column holds.
Holding(fit, id) == CASE fit = "fits" -> id [] fit = "wrong" -> Wrong [] OTHER -> Missing

\* <expr> AS name, one after the other: each may leave the object changed.
EmitComputedColumn(c, rel, acc) ==
    LET add(e) == [items |-> Append(acc.items, OutItem(<<"expr", c.col.id>>, Named(c.col.name),
                                                       Holding(e.fit, c.col.id))),
                   t |-> e.t, lowered |-> acc.lowered /\ e.lowered]
    IN add(EmitExpr(c.expr, rel, acc.t))

-----------------------------------------------------------------------------
(* Table, filter, limit, sample and project scans.                         *)

EmitTableScan(n, t) ==
    Emitted([NoSql EXCEPT !.cols = [i \in DOMAIN n.cols |->
                              OutItem(Named(n.cols[i].name), Named(n.cols[i].name), n.cols[i].id)],
                          !.lowered = TRUE], t)

EmitSingleRowScan(t) ==
    Emitted([NoSql EXCEPT !.cols = <<OutItem(<<"1", 0>>, <<"1", 0>>, Wrong)>>, !.lowered = TRUE], t)

EmitFilterScan(n, t) ==
    LET where(r, e) == IF e.lowered THEN Emitted(Clause(r.sql, e.fit), e.t) ELSE CannotLower(e.t)
    IN Wrap(EmitScan(n.input, t), LAMBDA r : where(r, EmitExpr(n.expr, r.sql, r.t)))

EmitLimitOffsetScan(n, t) == EmitScan(n.input, t)

EmitSampleScan(n, t) ==
    IF n.weighted \/ <<n.method, n.unit>> \notin {<<"system", "PERCENT">>,
                                                   <<"bernoulli", "PERCENT">>,
                                                   <<"reservoir", "ROWS">>}
    THEN CannotLower(t)
    ELSE EmitScan(n.input, t)

IsNoOpProjectScan(n) ==
    n.exprs = <<>> /\ Len(n.cols) = Len(n.input.cols) /\ IdsIn(n.cols) \subseteq IdsIn(n.input.cols)

EmitProjectScanColumn(n, idAliases, rel, acc, col) ==
    LET matches == {c \in Range2(n.exprs) : c.col.id = col.id}
        shadowed == \E c \in Range2(n.exprs) : c.col.name = col.name
        alias == JoinColumnIdAlias(col.id)
    IN IF matches # {} THEN EmitComputedColumn(CHOOSE c \in matches : TRUE, rel, acc)
       ELSE IF shadowed THEN acc
       ELSE [acc EXCEPT !.items = Append(@,
               IF ~idAliases THEN Pass(rel, Named(col.name), Named(col.name))
               ELSE Pass(rel, alias, IF n.exprs # <<>> THEN Named(col.name) ELSE alias))]

BuildProjectScanProjections(n, idAliases, rel, t) ==
    FoldLeft(LAMBDA acc, col : EmitProjectScanColumn(n, idAliases, rel, acc, col),
             [items |-> <<>>, t |-> t, lowered |-> TRUE], n.cols)

\* An item is "already there" when its text is: a renamed column's is not.
AddOnce(items, item) ==
    IF \E i \in DOMAIN items : items[i].ref = item.ref /\ items[i].name = item.ref THEN items
    ELSE Append(items, item)

AppendProjectScanOrderColumns(items, rel, idAliases, t) ==
    LET spell(o) == IF idAliases /\ o.id >= 0 THEN JoinColumnIdAlias(o.id) ELSE o.name
        keys == SelectSeq(t.order, LAMBDA o : o.name # InputRn)
        stamp(ordered) == IF t.hasRn /\ ~t.suppress THEN AddOnce(ordered, Pass(rel, InputRn, InputRn)) ELSE ordered
    IN stamp(FoldLeft(LAMBDA acc, o : AddOnce(acc, Pass(rel, spell(o), spell(o))), items, keys))

EmitProjectScan(n, t) ==
    LET flags(p, aliases) ==
            IF ~aliases THEN p.t
            ELSE [p.t EXCEPT !.uses = n.exprs = <<>>, !.columns = @ /\ n.exprs = <<>>]
        select(sql, items, after) ==
            Emitted(IF items = <<>> THEN sql ELSE Select(sql, items), [after EXCEPT !.outRn = @ \/ after.rnOrder])
        finish(r, p, after) == select(r.sql, AppendProjectScanOrderColumns(p.items, r.sql, r.t.uses, after), after)
        project(r, p) == IF p.lowered THEN finish(r, p, flags(p, r.t.uses)) ELSE CannotLower(p.t)
    IN IF IsNoOpProjectScan(n) /\ ~t.suppress THEN EmitScan(n.input, t)
       ELSE Wrap(EmitScan(n.input, t),
                 LAMBDA r : project(r, BuildProjectScanProjections(n, r.t.uses, r.sql, r.t)))

-----------------------------------------------------------------------------
(* Joins.                                                                  *)

RECURSIVE AppendScanColumnIds(_)

AppendScanColumnIds(n) ==
    IdsIn(n.cols) \cup
    CASE n.kind \in {"project", "filter", "order", "limit"} -> AppendScanColumnIds(n.input)
      [] n.kind = "join" -> AppendScanColumnIds(n.left) \cup AppendScanColumnIds(n.right)
      [] n.kind = "with" -> AppendScanColumnIds(n.query)
      [] OTHER -> {}

\* One side of a join: its SELECT, the ids it accounts for, its spelling.
SideOf(r, scan) == [rel |-> r.sql, ids |-> AppendScanColumnIds(scan), aliases |-> r.t.uses]

InSide(side, col) == IF side.aliases THEN JoinColumnIdAlias(col.id) ELSE Named(col.name)

EmitJoinQualifiedColumnRef(col, l, r) ==
    IF col.id \in l.ids THEN Bind(l.rel, InSide(l, col))
    ELSE IF col.id \in r.ids THEN Bind(r.rel, InSide(r, col))
    ELSE Missing

EmitJoinOutputProjections(n, l, r) ==
    LET proj(col) == OutItem(JoinColumnIdAlias(col.id), JoinColumnIdAlias(col.id),
                          EmitJoinQualifiedColumnRef(col, l, r))
        cols == [i \in DOMAIN n.cols |-> proj(n.cols[i])]
        rn(side) == Append(cols, Pass(side.rel, InputRn, InputRn))
    IN IF l.rel.rnText THEN rn(l) ELSE IF r.rel.rnText THEN rn(r) ELSE cols

BothSides(l, r) ==
    [cols |-> <<>>, binds |-> l.rel.binds /\ r.rel.binds, right |-> l.rel.right /\ r.rel.right,
     rnText |-> l.rel.rnText \/ r.rel.rnText, lowered |-> TRUE]

\* USING: the shared columns once, then the rest of either side.
JoinUsing(n, l, r) ==
    LET keys == {Named(c.name) : c \in n.on}
        rest(rel) == SelectSeq(rel.cols, LAMBDA c : c.name \notin keys)
        shared == SelectSeq(l.rel.cols, LAMBDA c : c.name \in keys)
        found == \A k \in keys : Bind(l.rel, k) # Missing /\ Bind(r.rel, k) # Missing
    IN [BothSides(l, r) EXCEPT !.cols = shared \o rest(l.rel) \o rest(r.rel), !.binds = @ /\ found]

\* ON is a conjunction of equalities between columns of the two sides.
JoinOn(n, l, r) ==
    LET fit(c) == FitOf(EmitJoinQualifiedColumnRef(c, l, r), c.id)
    IN Clause(Select(BothSides(l, r), EmitJoinOutputProjections(n, l, r)), Worst({fit(c) : c \in n.on}))

EmitJoinScan(n, t) ==
    LET join(l, r, after) ==
            IF n.using THEN Emitted(JoinUsing(n, l, r), [after EXCEPT !.uses = FALSE])
            ELSE IF \E c \in Range2(n.cols) : c.id \notin l.ids \cup r.ids
            THEN CannotLower([after EXCEPT !.uses = FALSE])
            ELSE Emitted(JoinOn(n, l, r), [after EXCEPT !.uses = TRUE, !.inQuery = TRUE, !.columns = TRUE])
        both(left, right) == join(SideOf(left, n.left), SideOf(right, n.right), right.t)
    IN Wrap(EmitScan(n.left, [t EXCEPT !.uses = FALSE]),
            LAMBDA left : Wrap(EmitScan(n.right, [left.t EXCEPT !.uses = FALSE]),
                               LAMBDA right : both(left, right)))

-----------------------------------------------------------------------------
(* ORDER BY and set operations.                                            *)

EmitOrderByScan(n, t) ==
    LET passthrough(after) ==
            /\ after.uses \/ after.inQuery
            /\ n.input.kind = "join" \/ (n.input.kind = "project" /\ n.input.exprs = <<>>)
        alias(c) == JoinColumnIdAlias(c.id)
        items(sql) == [i \in DOMAIN n.input.cols |-> Pass(sql, alias(n.input.cols[i]), alias(n.input.cols[i]))]
        by(r, renamed) ==
            Emitted(Clause(IF renamed THEN Select(r.sql, items(r.sql)) ELSE r.sql, FitRefs(r.sql, n.refs, r.t)),
                    [r.t EXCEPT !.order = <<>>, !.rnOrder = FALSE, !.uses = @ \/ renamed])
    IN Wrap(EmitScan(n.input, t), LAMBDA r : by(r, passthrough(r.t)))

\* The id a column of an arm has becomes the id of the operation's column.
Renumber(id, from, to) ==
    IF id = from.id THEN to.id ELSE IF id = Missing THEN Missing ELSE Wrong

EmitSetOperationItem(arm, n, t) ==
    LET spell(c, after) == IF after.columns THEN JoinColumnIdAlias(c.id) ELSE Named(c.name)
        item(sql, from, to, ref) == OutItem(ref, Named(to.name), Renumber(Bind(sql, ref), from, to))
        items(r) == [i \in DOMAIN n.cols |-> item(r.sql, arm.cols[i], n.cols[i], spell(arm.cols[i], r.t))]
    IN Wrap(EmitScan(arm.scan, t), LAMBDA r : Emitted(Select(r.sql, items(r)), r.t))

EmitSetOperationArm(acc, arm, n) ==
    LET t == acc.t
        back(after) == [after EXCEPT !.hasRn = @ \/ t.hasRn, !.rnOrder = @ \/ t.rnOrder, !.outRn = @ \/ t.outRn,
                                     !.order = IF @ = <<>> THEN t.order ELSE @]
        add(s) == [t |-> back(s.t), lowered |-> s.sql.lowered, arms |-> Append(acc.arms, s.sql)]
    IN IF ~acc.lowered THEN acc
       ELSE add(EmitSetOperationItem(arm, n, [t EXCEPT !.hasRn = FALSE, !.rnOrder = FALSE, !.outRn = FALSE,
                                                       !.columns = FALSE, !.order = <<>>]))

\* DuckDB names a set operation's columns after the first arm; a column is
\* right when it is right in every arm.
Union(arms, n) ==
    LET held(i) == {arms[k].cols[i].id : k \in DOMAIN arms}
        id(i) == IF Missing \in held(i) THEN Missing
                 ELSE IF held(i) = {n.cols[i].id} THEN n.cols[i].id ELSE Wrong
    IN [cols |-> [i \in DOMAIN n.cols |-> OutItem(Named(n.cols[i].name), Named(n.cols[i].name), id(i))],
        binds |-> \A k \in DOMAIN arms : arms[k].binds,
        right |-> \A k \in DOMAIN arms : arms[k].right,
        rnText |-> \E k \in DOMAIN arms : arms[k].rnText, lowered |-> TRUE]

EmitSetOperationScan(n, t) ==
    LET union(r) == IF r.lowered THEN Emitted(Union(r.arms, n), [r.t EXCEPT !.columns = FALSE, !.uses = FALSE])
                    ELSE CannotLower(r.t)
    IN IF Len(n.arms) < 2 THEN CannotLower(t)
       ELSE union(FoldLeft(LAMBDA acc, arm : EmitSetOperationArm(acc, arm, n),
                           [t |-> t, lowered |-> TRUE, arms |-> <<>>], n.arms))

-----------------------------------------------------------------------------
(* UNNEST.  The rows carry the element's ordinal as their stamp.           *)

Aliased(t) == [t EXCEPT !.uses = TRUE, !.inQuery = TRUE, !.columns = TRUE, !.hasRn = TRUE]

\* Several arrays: a cross product that exposes the elements by id.
EmitUnnestCrossProductScan(n, t) ==
    LET alias(c) == JoinColumnIdAlias(c.id)
        id(c) == IF c.id \in IdsIn(n.elems) THEN c.id ELSE Missing
        cols == [i \in DOMAIN n.cols |-> OutItem(alias(n.cols[i]), alias(n.cols[i]), id(n.cols[i]))]
    IN Emitted(Select([NoSql EXCEPT !.lowered = TRUE], Append(cols, OutItem(InputRn, InputRn, RnId))),
               Aliased(t))

EmitCorrelatedArrayScan(n, r) ==
    LET elem == n.elems[1]
        side == SideOf(r, n.input)
        ref(c) == IF c.id \in side.ids THEN Bind(r.sql, InSide(side, c))
                  ELSE IF c.id = elem.id THEN elem.id ELSE Missing
        cols == [i \in DOMAIN n.cols |->
                   OutItem(JoinColumnIdAlias(n.cols[i].id), JoinColumnIdAlias(n.cols[i].id), ref(n.cols[i]))]
    IN Clause(Select(r.sql, Append(cols, OutItem(InputRn, InputRn, RnId))),
              Fit(r.sql, InSide(side, n.array), n.array.id))

EmitArrayScan(n, t) ==
    LET elem == n.elems[1]
    IN IF Len(n.elems) > 1 /\ n.input.kind = "single" THEN EmitUnnestCrossProductScan(n, t)
       ELSE IF Len(n.elems) > 1 THEN CannotLower(t)
       ELSE IF n.input.kind # "single"
            THEN Wrap(EmitScan(n.input, t), LAMBDA r : Emitted(EmitCorrelatedArrayScan(n, r), Aliased(r.t)))
       ELSE Emitted(Select([NoSql EXCEPT !.lowered = TRUE],
                           <<OutItem(Named(elem.name), Named(elem.name), elem.id),
                             OutItem(InputRn, InputRn, RnId)>>),
                    [t EXCEPT !.hasRn = TRUE])

-----------------------------------------------------------------------------
(* GROUP BY.                                                               *)

AggregateScanNeedsInputRn(n) == \E a \in Range2(n.aggs) : a.fn \in {"list", "concat"}

\* ARRAY_AGG keeps the input's order when there is one to keep;
\* ARRAY_CONCAT_AGG always refers to the stamp.
AggregateFit(a, rel, t) ==
    LET byRn == a.fn = "concat" \/ (a.fn = "list" /\ t.rnOrder)
    IN Worst({FitRefs(rel, a.refs, t), IF byRn THEN Fit(rel, InputRn, RnId) ELSE "fits"})

BuildAggregateScanParts(n, rel, t) ==
    LET item(c, fit) == OutItem(<<"expr", c.col.id>>, Named(c.col.name), Holding(fit, c.col.id))
    IN [i \in DOMAIN n.groups |-> item(n.groups[i], FitRefs(rel, n.groups[i].refs, t))]
       \o [i \in DOMAIN n.aggs |-> item(n.aggs[i], AggregateFit(n.aggs[i], rel, t))]

FinalizeAggregateScanState(items, t) ==
    IF items = <<>> THEN t
    ELSE [t EXCEPT !.order = SelectSeq(@, LAMBDA o : o.name \in NamesIn(items)),
                   !.rnOrder = FALSE, !.outRn = FALSE, !.hasRn = FALSE, !.columns = FALSE]

EmitAggregateScan(n, t) ==
    LET input(r) == IF AggregateScanNeedsInputRn(n) /\ ~r.t.hasRn THEN StampRows(r.sql) ELSE r.sql
        group(rel, items, after) ==
            Emitted(IF items = <<>> THEN rel ELSE Select(rel, items),
                    [FinalizeAggregateScanState(items, after) EXCEPT !.uses = FALSE, !.hasRn = FALSE])
        over(rel, after) == group(rel, BuildAggregateScanParts(n, rel, after), after)
    IN Wrap(EmitScan(n.input, t), LAMBDA r : over(input(r), r.t))

-----------------------------------------------------------------------------
(* WITH.  A CTE exposes _cte_<i>; a reference renames them to its columns. *)

RECURSIVE ScanTreeContainsAnalytic(_)

ScanTreeContainsAnalytic(n) ==
    CASE n.kind = "analytic" -> TRUE
      [] n.kind \in {"project", "filter", "order", "limit", "aggregate"} ->
            ScanTreeContainsAnalytic(n.input)
      [] n.kind = "join" -> ScanTreeContainsAnalytic(n.left) \/ ScanTreeContainsAnalytic(n.right)
      [] n.kind = "setop" -> \E a \in Range2(n.arms) : ScanTreeContainsAnalytic(a.scan)
      [] n.kind = "with" -> ScanTreeContainsAnalytic(n.query)
      [] OTHER -> FALSE

\* The i-th column of a CTE, counted from 1 here.
AnchorsByName(entry, needsRn, t) ==
    LET cols(sql) == [i \in DOMAIN entry.scan.cols |->
                        Pass(sql, Named(entry.scan.cols[i].name), WithScanColumnAnchor(i))]
        cte(r) == [sql |-> IF r.sql.lowered THEN Select(r.sql, cols(r.sql)) ELSE r.sql, t |-> r.t, hasRn |-> FALSE]
    IN cte(EmitScan(entry.scan, t))

EmitNonRecursiveWithEntry(entry, needsRn, t) ==
    LET stamped == needsRn /\ entry.scan.kind = "setop" /\ entry.scan.op = "UNION ALL"
        src(c, uses) == IF uses THEN JoinColumnIdAlias(c.id) ELSE Named(c.name)
        cols(rel, uses) == [i \in DOMAIN entry.scan.cols |->
                              Pass(rel, src(entry.scan.cols[i], uses), WithScanColumnAnchor(i))]
        stamp(rel) == IF stamped THEN <<Pass(rel, InputRn, InputRn)>> ELSE <<>>
        select(rel, uses) == Select(rel, cols(rel, uses) \o stamp(rel))
        body(r) == IF r.sql.lowered THEN select(IF stamped THEN StampRows(r.sql) ELSE r.sql, r.t.uses) ELSE r.sql
        cte(r) == [sql |-> body(r), t |-> r.t, hasRn |-> stamped]
    IN cte(EmitScan(entry.scan, t))

\* One arm of a recursive CTE: its columns are read by name.
BuildRecursiveScanArm(n, arm, r) ==
    [i \in DOMAIN n.cols |->
        OutItem(Named(arm.cols[i].name), WithScanColumnAnchor(i),
             Renumber(Bind(r.sql, Named(arm.cols[i].name)), arm.cols[i], n.cols[i]))]

EmitRecursiveScan(n, t) ==
    LET arm(which, r) == Select(r.sql, BuildRecursiveScanArm(n, which, r))
        anchored(sql) == [sql EXCEPT !.cols = [i \in DOMAIN n.cols |-> [@[i] EXCEPT !.name = WithScanColumnAnchor(i)]]]
        join(a, b) == IF a.sql.lowered /\ b.sql.lowered
                      THEN Emitted(anchored(Union(<<arm(n.anchor, a), arm(n.step, b)>>, n)), b.t)
                      ELSE CannotLower(b.t)
        both(a) == join(a, EmitScan(n.step.scan, a.t))
    IN both(EmitScan(n.anchor.scan, t))

\* A reference to a relation whose columns are cols, by position.
ReadAnchors(rel, cols, n) ==
    [i \in DOMAIN n.cols |->
        OutItem(WithScanColumnAnchor(i), Named(n.cols[i].name),
             Renumber(Bind(rel, WithScanColumnAnchor(i)), cols[i], n.cols[i]))]

EmitRecursiveRefScan(n, t) ==
    LET top == t.rec[Len(t.rec)]
        rel == [NoSql EXCEPT !.lowered = TRUE,
                             !.cols = [i \in DOMAIN top |->
                                OutItem(<<"", 0>>, WithScanColumnAnchor(i), top[i].id)]]
    IN Emitted(Select(rel, ReadAnchors(rel, top, n)), t)

EmitWithRefScan(n, t) ==
    LET stamp(sql) == IF t.rnOrder THEN <<Pass(sql, InputRn, InputRn)>> ELSE <<>>
        read(cte) == Emitted(Select(cte.sql, ReadAnchors(cte.sql, cte.cols, n) \o stamp(cte.sql)), t)
    IN read(Last(SelectSeq(t.ctes, LAMBDA c : c.name = n.name)))

\* A name is looked up when the CTE is emitted: its columns are known then.
EmitWithEntry(acc, entry, needsRn) ==
    LET clean == [acc.t EXCEPT !.rnOrder = FALSE, !.hasRn = FALSE, !.uses = FALSE,
                               !.columns = FALSE, !.order = <<>>]
        recursive(r) == [sql |-> r.sql, t |-> [r.t EXCEPT !.rec = clean.rec], hasRn |-> FALSE]
        known(sql) == [name |-> entry.name, cols |-> entry.scan.cols, sql |-> sql]
        add(e) == [t |-> [e.t EXCEPT !.rnOrder = acc.t.rnOrder, !.hasRn = acc.t.hasRn, !.uses = acc.t.uses,
                                     !.columns = acc.t.columns, !.ctes = Append(@, known(e.sql))],
                   lowered |-> e.sql.lowered, hasRn |-> acc.hasRn \/ e.hasRn]
    IN IF ~acc.lowered THEN acc
       ELSE add(IF entry.scan.kind = "recursive"
                THEN recursive(EmitRecursiveScan(entry.scan, [clean EXCEPT !.rec = Append(@, entry.scan.cols)]))
                ELSE EmitNonRecursiveWithEntry(entry, needsRn, clean))

EmitWithScan(n, t) ==
    LET start == [t EXCEPT !.rnOrder = FALSE, !.hasRn = FALSE, !.uses = FALSE, !.columns = FALSE]
        needsRn == ScanTreeContainsAnalytic(n.query)
        back(body) == Emitted(body.sql, [body.t EXCEPT !.rnOrder = @ \/ t.rnOrder, !.hasRn = @ \/ t.hasRn,
                                                       !.uses = @ \/ t.uses, !.columns = @ \/ t.columns])
        query(es) == IF ~es.lowered THEN CannotLower(es.t)
                     ELSE back(EmitScan(n.query, [es.t EXCEPT !.hasRn = FALSE, !.uses = FALSE, !.columns = FALSE,
                                                              !.rnOrder = es.hasRn, !.order = t.order]))
    IN query(FoldLeft(LAMBDA acc, entry : EmitWithEntry(acc, entry, needsRn),
                      [t |-> start, lowered |-> TRUE, hasRn |-> FALSE], n.entries))

-----------------------------------------------------------------------------
(* Window functions.                                                       *)

\* Only an OVER that has an ORDER BY of its own gets the stamp appended.
AppendsInputRn(n) == n.order # <<>> /\ ~n.range /\ \E f \in Range2(n.fns) : f.fn = "navigation"

OrderKey(c, t) == [name |-> EmitColumnRef(c, t), id |-> c.id]

CapturePartitionOutputOrder(n, t) ==
    LET kept == SelectSeq(n.part, LAMBDA c : t.outs = {} \/ c.name \in t.outs \/ n.order = <<>>)
    IN [i \in DOMAIN kept |-> OrderKey(kept[i], t)]

CaptureOrderByOutputOrder(n, t) == [i \in DOMAIN n.order |-> OrderKey(n.order[i], t)]

CaptureAnalyticOutputOrder(n, t) ==
    IF t.order # <<>> THEN t
    ELSE [t EXCEPT !.order = CapturePartitionOutputOrder(n, t) \o CaptureOrderByOutputOrder(n, t)
                             \o <<[name |-> InputRn, id |-> -1]>>]

MaybeNormalizeAnalyticJoinAliases(n, sql, t) ==
    LET own == {f.col.id : f \in Range2(n.fns)}
        proj(c) == Pass(sql, IF c.id \in own THEN Named(c.name) ELSE JoinColumnIdAlias(c.id), Named(c.name))
        stamp == IF t.hasRn THEN <<Pass(sql, InputRn, InputRn)>> ELSE <<>>
        rename(o, as) == IF as = <<>> THEN o ELSE [o EXCEPT !.name = Named(as[1].name)]
        named(o) == rename(o, SelectSeq(n.cols, LAMBDA x : x.id = o.id))
    IN Emitted(Select(sql, [i \in DOMAIN n.cols |-> proj(n.cols[i])] \o stamp),
               [t EXCEPT !.order = [i \in DOMAIN @ |-> named(@[i])], !.uses = FALSE, !.columns = FALSE])

\* PARTITION BY and ORDER BY of the OVER clause.
BuildOrderClause(n, rel, t) ==
    Worst({FitRefs(rel, Range2(n.part) \cup Range2(n.order), t),
           IF AppendsInputRn(n) THEN Fit(rel, InputRn, RnId) ELSE "fits"})

BuildAnalyticProjection(n, f, rel, t) ==
    OutItem(<<"expr", f.col.id>>, Named(f.col.name),
         Holding(Worst({BuildOrderClause(n, rel, t), FitRefs(rel, f.refs, t)}), f.col.id))

EmitAnalyticScan(n, t) ==
    LET stamped(r) == IF r.t.hasRn THEN r.sql ELSE StampRows(r.sql)
        sql(rel, u) == Select(rel, rel.cols \o [i \in DOMAIN n.fns |-> BuildAnalyticProjection(n, n.fns[i], rel, u)])
        finish(s, after) == IF after.uses \/ after.columns THEN MaybeNormalizeAnalyticJoinAliases(n, s, after)
                            ELSE Emitted(s, after)
        over(rel, u) == finish(sql(rel, u), CaptureAnalyticOutputOrder(n, u))
    IN Wrap(EmitScan(n.input, t), LAMBDA r : over(stamped(r), [r.t EXCEPT !.hasRn = TRUE, !.rnOrder = TRUE]))

-----------------------------------------------------------------------------
(* PIVOT and UNPIVOT expose the analyzer's names.                          *)

Grouped(c, fit) == OutItem(<<"expr", c.col.id>>, Named(c.col.name), Holding(fit, c.col.id))

\* for and the grouping columns are references; the pivoted columns aggregate.
CollectPivotScanParts(n, rel, t) ==
    LET for == FitRefs(rel, n.for, t)
    IN [i \in DOMAIN n.groups |-> Grouped(n.groups[i], FitRefs(rel, n.groups[i].refs, t))]
       \o [i \in DOMAIN n.pivots |-> Grouped(n.pivots[i], Worst({for, FitRefs(rel, n.pivots[i].refs, t)}))]

EmitPivotScan(n, t) ==
    Wrap(EmitScan(n.input, t), LAMBDA r : Emitted(Select(r.sql, CollectPivotScanParts(n, r.sql, r.t)), r.t))

CollectUnpivotScanParts(n, rel) ==
    LET byName(cols) == Worst({Fit(rel, Named(c.name), c.id) : c \in cols})
    IN [i \in DOMAIN n.kept |-> Grouped(n.kept[i], byName(n.kept[i].refs))]
       \o <<Grouped(n.value, byName(n.value.refs)), Grouped(n.label, "fits")>>

EmitUnpivotScan(n, t) ==
    Wrap(EmitScan(n.input, t), LAMBDA r : Emitted(Select(r.sql, CollectUnpivotScanParts(n, r.sql)), r.t))

EmitScan(n, t) ==
    CASE n.kind = "table" -> EmitTableScan(n, t)
      [] n.kind = "single" -> EmitSingleRowScan(t)
      [] n.kind = "filter" -> EmitFilterScan(n, t)
      [] n.kind = "limit" -> EmitLimitOffsetScan(n, t)
      [] n.kind = "sample" -> EmitSampleScan(n, t)
      [] n.kind = "project" -> EmitProjectScan(n, t)
      [] n.kind = "join" -> EmitJoinScan(n, t)
      [] n.kind = "order" -> EmitOrderByScan(n, t)
      [] n.kind = "setop" -> EmitSetOperationScan(n, t)
      [] n.kind = "array" -> EmitArrayScan(n, t)
      [] n.kind = "aggregate" -> EmitAggregateScan(n, t)
      [] n.kind = "with" -> EmitWithScan(n, t)
      [] n.kind = "withref" -> EmitWithRefScan(n, t)
      [] n.kind = "recref" -> EmitRecursiveRefScan(n, t)
      [] n.kind = "analytic" -> EmitAnalyticScan(n, t)
      [] n.kind = "pivot" -> EmitPivotScan(n, t)
      [] n.kind = "unpivot" -> EmitUnpivotScan(n, t)

-----------------------------------------------------------------------------
(* Statements: the outermost SELECT.                                       *)

EmitOutputColumn(out, rel, t) ==
    Pass(rel, IF t.columns THEN JoinColumnIdAlias(out.col.id) ELSE Named(out.col.name), Named(out.as))

FilterOutputOrderForQueryStmt(order, outs) ==
    SelectSeq(order, LAMBDA o : \E i \in DOMAIN outs : o.name = Named(outs[i].col.name))

\* The order of the rows a window function saw is kept where it can be; no
\* clause of the query asks for it, so its items only have to bind.  ORDER BY
\* sees the names of its SELECT list and those of its FROM.
OrderFit(items, rel, name) ==
    IF name \in NamesIn(items) \/ Bind(rel, name) # Missing THEN "fits" ELSE "missing"

AppendQueryOrderByClause(rel, items, outs, order, t) ==
    LET wrap(o) == IF t.inQuery /\ o.id >= 0 THEN [o EXCEPT !.name = JoinColumnIdAlias(o.id)] ELSE o
        out(o) == \E i \in DOMAIN outs : o.name = Named(outs[i].col.name)
        sorted(wide, keys) ==
            Clause(Select(rel, wide), Worst({OrderFit(wide, rel, o.name) : o \in Range2(keys)}))
        trim(inner) == Select(inner, [i \in DOMAIN outs |-> Pass(inner, Named(outs[i].as), Named(outs[i].as))])
        by(keys, extra) ==
            IF extra = <<>> THEN sorted(items, keys)
            ELSE trim(sorted(items \o [i \in DOMAIN extra |-> Pass(rel, extra[i].name, extra[i].name)], keys))
        with(keys) == by(keys, SelectSeq(keys, LAMBDA o : ~out(o)))
    IN IF order = <<>>
       THEN Clause(Select(rel, items), IF t.rnOrder THEN Fit(rel, InputRn, RnId) ELSE "fits")
       ELSE with([i \in DOMAIN order |-> wrap(order[i])])

\* The list of a statement's outermost SELECT.
OutputList(outs, r) == [i \in DOMAIN outs |-> EmitOutputColumn(outs[i], r.sql, r.t)]

EmitQueryStmt(q) ==
    LET stmt(r) == AppendQueryOrderByClause(r.sql, OutputList(q.outs, r), q.outs,
                                            FilterOutputOrderForQueryStmt(r.t.order, q.outs), r.t)
        lower(r) == IF r.sql.lowered THEN stmt(r) ELSE NoSql
    IN lower(EmitScan(q.scan, [NewTranspiler EXCEPT !.outs = {q.outs[i].col.name : i \in DOMAIN q.outs}]))

\* CREATE TABLE AS and INSERT write the rows; only INSERT keeps an order.
EmitCtasSelect(q) ==
    LET lower(r) == IF r.sql.lowered THEN Select(r.sql, OutputList(q.outs, r)) ELSE NoSql
    IN lower(EmitScan(q.scan, [NewTranspiler EXCEPT !.outs = {q.outs[i].as : i \in DOMAIN q.outs}]))

EmitInsertSelect(q) ==
    LET targets == [i \in DOMAIN q.outs |-> [q.outs[i] EXCEPT !.as = q.outs[i].col.name]]
        fit(items, r) ==
            IF r.t.order # <<>> THEN Worst({OrderFit(items, r.sql, o.name) : o \in Range2(r.t.order)})
            ELSE IF r.t.rnOrder THEN Fit(r.sql, InputRn, RnId) ELSE "fits"
        write(items, r) == Clause(Select(r.sql, items), fit(items, r))
        lower(r) == IF r.sql.lowered THEN write(OutputList(targets, r), r) ELSE NoSql
    IN lower(EmitScan(q.scan, [NewTranspiler EXCEPT !.outs = {q.outs[i].col.name : i \in DOMAIN q.outs}]))

-----------------------------------------------------------------------------
(* Queries as the analyzer resolves them.  Tables t, u and v have the      *)
(* columns k and x; depth d numbers the columns it makes from 10 * d.      *)

Col(name, id) == [name |-> name, id |-> id]

Table(first) == [kind |-> "table", cols |-> <<Col("k", first), Col("x", first + 1)>>]

First(s) == s.cols[1]

LastCol(s) == s.cols[Len(s.cols)]

Refs(cols) == [refs |-> cols]

JoinOf(l, r, using) ==
    [kind |-> "join", left |-> l, right |-> r, using |-> using, on |-> {First(l), First(r)},
     cols |-> l.cols \o (IF using THEN Tail(r.cols) ELSE r.cols)]

Joinable(l, r) == First(l).name = First(r).name

FilterOf(s, e) == [kind |-> "filter", input |-> s, expr |-> e, cols |-> s.cols]

\* k IN (SELECT v.k FROM ...).
Within(s, sub) == [refs |-> {First(s)}, sub |-> [kind |-> "project", input |-> sub,
                                                 exprs |-> <<>>, cols |-> <<First(sub)>>]]

ProjectOf(s, cols, exprs) == [kind |-> "project", input |-> s, cols |-> cols, exprs |-> exprs]

Narrow(s) == ProjectOf(s, <<LastCol(s)>>, <<>>)

\* The alias a query of depth d gives to what it computes.
Alias(d) == IF d = 2 THEN "y" ELSE "z"

\* SELECT *, f(last) AS name.
Compute(s, name, d) ==
    LET c == Col(name, 10 * d)
    IN ProjectOf(s, Append(s.cols, c), <<[col |-> c, expr |-> Refs({LastCol(s)})]>>)

OrderOf(s, col) == [kind |-> "order", input |-> s, refs |-> {col}, cols |-> s.cols]

SampleOf(s) ==
    [kind |-> "sample", input |-> s, cols |-> s.cols, weighted |-> FALSE, method |-> "system",
     unit |-> "PERCENT"]

GroupOf(s, fn, d) ==
    LET g == Col(First(s).name, 10 * d)
        a == Col(Alias(d), 10 * d + 1)
    IN [kind |-> "aggregate", input |-> s, cols |-> <<g, a>>,
        groups |-> <<[col |-> g, refs |-> {First(s)}]>>,
        aggs |-> <<[col |-> a, refs |-> {LastCol(s)}, fn |-> fn]>>]

WindowOf(s, part, order, fn, d) ==
    LET a == Col(Alias(d), 10 * d)
    IN [kind |-> "analytic", input |-> s, cols |-> Append(s.cols, a), part |-> part, order |-> order,
        range |-> FALSE, fns |-> <<[col |-> a, refs |-> {LastCol(s)}, fn |-> fn]>>]

UnnestOf(s, d) ==
    LET e == Col("e", 10 * d)
    IN [kind |-> "array", input |-> s, elems |-> <<e>>, array |-> LastCol(s), cols |-> Append(s.cols, e)]

SingleRow == [kind |-> "single", cols |-> <<>>]

\* FROM UNNEST([...]) AS e, UNNEST([...]) AS k: one array or two.
ArraysOf(elems) ==
    [kind |-> "array", input |-> SingleRow, elems |-> elems, array |-> elems[1], cols |-> elems]

Fresh(s, d) == [i \in DOMAIN s.cols |-> Col(s.cols[i].name, 10 * d + i)]

SetOpOf(s, other, op, d) ==
    [kind |-> "setop", op |-> op, cols |-> [i \in 1..2 |-> Col(s.cols[i].name, 10 * d + i)],
     arms |-> <<[scan |-> s, cols |-> SubSeq(s.cols, 1, 2)], [scan |-> other, cols |-> other.cols]>>]

RefOf(name, s, d) == [kind |-> "withref", name |-> name, cols |-> Fresh(s, d)]

WithOf(name, s, body) ==
    [kind |-> "with", entries |-> <<[name |-> name, scan |-> s]>>, query |-> body, cols |-> body.cols]

\* WITH RECURSIVE r AS (s UNION ALL SELECT ... FROM r) SELECT * FROM r.
RecursionOf(name, s, d) ==
    LET cte == [i \in 1..2 |-> Col(s.cols[i].name, 10 * d + i)]
        again == [kind |-> "recref", cols |-> [i \in 1..2 |-> Col(s.cols[i].name, 10 * d + 3 + i)]]
        rec == [kind |-> "recursive", cols |-> cte,
                anchor |-> [scan |-> s, cols |-> SubSeq(s.cols, 1, 2)],
                step |-> [scan |-> again, cols |-> again.cols]]
    IN WithOf(name, rec, [kind |-> "withref", name |-> name,
                          cols |-> [i \in 1..2 |-> Col(s.cols[i].name, 10 * d + 6 + i)]])

PivotOf(s, d) ==
    LET g == Col(First(s).name, 10 * d)
        p == Col("p", 10 * d + 1)
    IN [kind |-> "pivot", input |-> s, for |-> {LastCol(s)}, cols |-> <<g, p>>,
        groups |-> <<[col |-> g, refs |-> {First(s)}]>>,
        pivots |-> <<[col |-> p, refs |-> {LastCol(s)}]>>]

UnpivotOf(s, d) ==
    LET cs == <<Col(First(s).name, 10 * d), Col("val", 10 * d + 1), Col("lab", 10 * d + 2)>>
    IN [kind |-> "unpivot", input |-> s, cols |-> cs,
        kept |-> <<[col |-> cs[1], refs |-> {First(s)}]>>,
        value |-> [col |-> cs[2], refs |-> {LastCol(s)}], label |-> [col |-> cs[3], refs |-> {}]]

\* One more operator on top of s.  A window over a GROUP BY never gets here:
\* the classifier keeps it from DuckDB.
Around(s, d) ==
    {FilterOf(s, Refs({LastCol(s)})), Narrow(s), Compute(s, "x", d), Compute(s, Alias(d), d),
     OrderOf(s, LastCol(s)), SampleOf(s), GroupOf(s, "sum", d), GroupOf(s, "list", d),
     UnnestOf(s, d), PivotOf(s, d), UnpivotOf(s, d),
     WithOf(<<"w", d>>, s, RefOf(<<"w", d>>, s, d)),
     FilterOf(s, Within(s, Table(7))), FilterOf(s, Within(s, JoinOf(Table(7), Table(9), FALSE)))}
    \cup (IF s.kind = "aggregate" THEN {}
          ELSE {WindowOf(s, <<First(s)>>, <<LastCol(s)>>, "navigation", d),
                WindowOf(s, <<>>, <<>>, "ranking", d)})
    \cup (IF Joinable(s, Table(5)) THEN {JoinOf(s, Table(5), FALSE), JoinOf(s, Table(5), TRUE)} ELSE {})
    \cup (IF Len(s.cols) < 2 THEN {}
          ELSE {SetOpOf(s, Table(5), "UNION ALL", d), SetOpOf(s, Table(5), "EXCEPT", d),
                RecursionOf(<<"r", d>>, s, d)})

Bases == {Table(1), JoinOf(Table(1), Table(3), FALSE), ArraysOf(<<Col("e", 1)>>),
          ArraysOf(<<Col("e", 1), Col("k", 2)>>)}

CONSTANT MaxScanDepth

RECURSIVE Scans(_)

Scans(d) == IF d = 1 THEN Bases ELSE LET prev == Scans(d - 1) IN prev \cup UNION {Around(s, d) : s \in prev}

OutputNames == <<"c1", "c2", "c3", "c4", "c5", "c6", "c7", "c8", "c9", "c10">>

QueryOf(s) ==
    [scan |-> s, outs |-> [i \in DOMAIN s.cols |-> [col |-> s.cols[i], as |-> OutputNames[i]]]]

CallTranspile ==
    \E s \in Scans(MaxScanDepth), stmt \in {"query", "ctas", "insert"} :
        eval' = [op |-> "transpile", stmt |-> stmt, query |-> QueryOf(s),
                 sql |-> CASE stmt = "query" -> EmitQueryStmt(QueryOf(s))
                           [] stmt = "ctas" -> EmitCtasSelect(QueryOf(s))
                           [] OTHER -> EmitInsertSelect(QueryOf(s))]

\* WITH w AS (s) b, where b does not refer to w, beside b alone.
CallBesideCte ==
    \E s, b \in Scans(2) :
        eval' = [op |-> "beside", query |-> QueryOf(b), alone |-> EmitQueryStmt(QueryOf(b)),
                 sql |-> EmitQueryStmt(QueryOf(WithOf(<<"w", 9>>, s, b)))]

TranspileInit == eval = NoCall

TranspileNext ==
    \/ eval = NoCall /\ CallTranspile
    \/ eval = NoCall /\ CallBesideCte

-----------------------------------------------------------------------------
(* What the emitted SQL means.                                             *)

\* Every name binds, and every output column holds the column it stands for.
Correct(sql, q) ==
    /\ sql.lowered /\ sql.binds /\ sql.right
    /\ \A i \in DOMAIN q.outs : sql.cols[i].id = q.outs[i].col.id

Distinct(cols) == Cardinality(NamesIn(cols)) = Len(cols)

RECURSIVE ScansIn(_)

ScansIn(s) ==
    {s} \cup
    CASE s.kind \in {"table", "single", "withref", "recref"} -> {}
      [] s.kind = "join" -> ScansIn(s.left) \cup ScansIn(s.right)
      [] s.kind = "setop" -> UNION {ScansIn(a.scan) : a \in Range2(s.arms)}
      [] s.kind = "recursive" -> ScansIn(s.anchor.scan)
      [] s.kind = "with" -> ScansIn(s.query) \cup ScansIn(s.entries[1].scan)
      [] s.kind = "filter" -> ScansIn(s.input) \cup (IF "sub" \in DOMAIN s.expr THEN ScansIn(s.expr.sub) ELSE {})
      [] OTHER -> ScansIn(s.input)

Has(s, kind) == \E n \in ScansIn(s) : n.kind = kind

\* A join on a condition, an UNNEST beside a table, several UNNESTs.
Renames(s) ==
    \E n \in ScansIn(s) : \/ n.kind = "join" /\ ~n.using
                          \/ n.kind = "array" /\ (n.input.kind # "single" \/ Len(n.elems) > 1)

Collects(s) == \E n \in ScansIn(s) : n.kind = "aggregate" /\ AggregateScanNeedsInputRn(n)

\* The fragment within which the members of the object never mislead a scan
\* n of the query s.
InFragment(n, s) ==
    CASE n.kind = "project" -> n.exprs # <<>> => Distinct(n.cols)
      [] n.kind = "filter" -> "sub" \in DOMAIN n.expr => ~Renames(n)
      [] n.kind = "with" -> Distinct(n.cols) /\ (n.entries[1].scan.kind = "recursive" => ~Renames(n))
      [] n.kind = "join" -> ~Collects(n) /\ (n.using => ~Renames(n) /\ Distinct(n.cols))
      [] n.kind = "setop" -> Distinct(n.cols) /\ ~Has(n, "analytic") /\ ~Has(n, "array")
      [] n.kind \in {"pivot", "unpivot"} -> ~Renames(n) /\ ~Has(n, "analytic") /\ ~Has(n, "array")
      [] n.kind = "analytic" -> ~Renames(s)
      [] OTHER -> TRUE

\* A query of the fragment, a CREATE TABLE AS of it and an INSERT of it: each
\* name of the emitted SQL binds, and to the column the analyzer meant, however
\* its scans are nested (EmitQueryStmt, EmitCtasSelect, EmitInsertSelect).
FragmentBinds ==
    eval.op = "transpile" /\ (\A n \in ScansIn(eval.query.scan) : InFragment(n, eval.query.scan))
        => Correct(eval.sql, eval.query)

\* A WITH entry the query does not use does not change whether the query's own
\* SQL is right (EmitWithScan, EmitWithEntry).
UnusedCteHarmless == eval.op = "beside" => (Correct(eval.alone, eval.query) => Correct(eval.sql, eval.query))
=============================================================================
