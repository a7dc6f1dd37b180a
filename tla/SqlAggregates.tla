--------------------------- MODULE SqlAggregates ---------------------------
(***************************************************************************)
(* Aggregation in the semantic executor: the aggregate functions           *)
(* (functions/aggregate_*.cc), the list aggregates, GROUP BY, HAVING MAX   *)
(* and MIN, multi-level aggregates and SQL UDAFs (scan_eval_agg*.cc,       *)
(* scan_eval_measure_multi_level*.cc, eval_udaf*.cc).                      *)
(*                                                                         *)
(* A row is a sequence of values; an argument, a key and a sort item name  *)
(* a column of it.  A fingerprint is the value itself: FingerprintLess is  *)
(* the order of the printed values, under which NULL comes last.           *)
(***************************************************************************)
EXTENDS SqlExpressions

CONSTANT MaxGroupRows       \* rows given to an aggregate

-----------------------------------------------------------------------------

ValueEqual(a, b) == a.null = b.null /\ a.v = b.v

ValueLess(a, b) == IF a.null \/ b.null THEN a.null /\ ~b.null ELSE a.v < b.v

FingerprintLess(a, b) == IF a.null \/ b.null THEN b.null /\ ~a.null ELSE a.v < b.v

Cells(rows, c) == [i \in DOMAIN rows |-> rows[i][c]]

Rows(rows, ids) == [i \in DOMAIN ids |-> rows[ids[i]]]

AllRows(rows) == [i \in DOMAIN rows |-> i]

NonNull(cells) == SelectSeq(cells, LAMBDA v : ~v.null)

StableSort(s, Less(_, _)) ==
    FoldLeft(LAMBDA acc, x : InsertAt(acc, 1 + Cardinality({i \in DOMAIN acc : ~Less(x, acc[i])}), x), <<>>, s)

Prefix(s, n) == SubSeq(s, 1, IF n < Len(s) THEN n ELSE Len(s))

\* An ORDER BY item: its column, its direction, where its NULLs go.
Item(c, desc, nulls) == [col |-> c, desc |-> desc, nulls |-> nulls]

NullsFirst(item) == IF item.nulls = "default" THEN ~item.desc ELSE item.nulls = "first"

CompareOrderByItem(item, a, b) ==
    CASE ValueEqual(a, b) -> 0
      [] a.null /\ ~b.null -> IF NullsFirst(item) THEN -1 ELSE 1
      [] ~a.null /\ b.null -> IF NullsFirst(item) THEN 1 ELSE -1
      [] OTHER -> IF ValueLess(a, b) # item.desc THEN -1 ELSE 1

OrderSpecLess(spec, a, b) ==
    \E i \in DOMAIN spec :
       /\ CompareOrderByItem(spec[i], a[spec[i].col], b[spec[i].col]) = -1
       /\ \A j \in 1 .. i - 1 : CompareOrderByItem(spec[j], a[spec[j].col], b[spec[j].col]) = 0

-----------------------------------------------------------------------------
(* The functions.                                                            *)

Accumulate(k, cells, Coerce(_)) ==
    LET plus(acc, x) == IF Ok(x) THEN Checked(k, acc.v + x.v) ELSE x
        add(acc, c) == IF ~Ok(acc) \/ c.null THEN acc ELSE plus(acc, Coerce(c))
    IN  FoldLeft(add, NullOfType(k), cells)

\* The total wraps: its additions are not checked.
AccumulateUnchecked(cells, Coerce(_)) ==
    LET plus(acc, x) == IF Ok(x) THEN Val("INT64", Signed((acc.v + x.v) % 2 ^ Bits)) ELSE x
        add(acc, c) == IF ~Ok(acc) \/ c.null THEN acc ELSE plus(acc, Coerce(c))
    IN  FoldLeft(add, NullOfType("INT64"), cells)

SameType(k, c) == IF c.kind = k THEN c ELSE Invalid

SumOfNumerics(cells) ==
    Accumulate("NUMERIC", cells,
               LAMBDA c : IF c.kind = "FLOAT64" THEN Checked("NUMERIC", c.v) ELSE CoerceToNumeric("NUMERIC", c))

Typed(type, total) == IF Ok(total) /\ total.null THEN NullOfType(type) ELSE total

SumAggregate(type, cells) ==
    IF cells = <<>> THEN NullOfType(type)
    ELSE LET k == cells[1].kind
         IN  Typed(type,
                   IF type = "NUMERIC" THEN SumOfNumerics(cells)
                   ELSE IF k \in {"INT64", "FLOAT64", "NUMERIC"}
                        THEN Accumulate(k, cells, LAMBDA c : SameType(k, c))
                        ELSE MakeSemanticError("kNotImplemented"))

AvgInt64Cells(type, cells) ==
    LET mean(total, n) ==
            IF ~Ok(total) THEN total
            ELSE IF n = 0 THEN NullOfType(type) ELSE Val("FLOAT64", RoundDiv(total.v * Unit, n))
    IN  mean(AccumulateUnchecked(cells, LAMBDA c : SameType("INT64", c)), Len(NonNull(cells)))

\* AvgDoubleCells, AvgNumericCells and AvgBigNumericCells.
AvgDecimalCells(k, type, cells) ==
    LET mean(total, n) ==
            IF ~Ok(total) THEN total
            ELSE IF n = 0 THEN NullOfType(type) ELSE Checked(k, RoundDiv(total.v, n))
    IN  mean(Accumulate(k, cells, LAMBDA c : SameType(k, c)), Len(NonNull(cells)))

AvgAggregate(type, cells) ==
    CASE cells = <<>> -> NullOfType(type)
      [] cells # <<>> /\ cells[1].kind = "INT64" -> AvgInt64Cells(type, cells)
      [] cells # <<>> /\ cells[1].kind \in {"FLOAT64", "NUMERIC", "BIGNUMERIC"} ->
           AvgDecimalCells(cells[1].kind, type, cells)
      [] OTHER -> MakeSemanticError("kNotImplemented")

NaN == Val("FLOAT64", 9000)

\* A NaN wins; otherwise the first of the best.
MinMaxAggregate(type, cells, pick_max) ==
    LET better(best, v) ==
            CASE ~Ok(best) \/ v.null \/ best = NaN -> best
              [] v = NaN \/ best.null -> v
              [] OTHER -> IF best.kind # v.kind THEN Invalid
                          ELSE IF (IF pick_max THEN best.v < v.v ELSE v.v < best.v) THEN v ELSE best
    IN  Typed(type, FoldLeft(better, NullOfType(type), cells))

CountAggregate(distinct, cells) ==
    Val("INT64", IF distinct THEN Cardinality({c.v : c \in Range(NonNull(cells))}) ELSE Len(NonNull(cells)))

CountIfAggregate(cells) == Val("INT64", Len(SelectSeq(cells, IsTrue)))

AnyValueAggregate(type, cells) == IF NonNull(cells) = <<>> THEN NullOfType(type) ELSE NonNull(cells)[1]

Total(s) == FoldLeft(LAMBDA acc, x : acc + x, 0, s)

\* In squares of sixtieths, times one less than the number of the values.
SquaredDeviations(vals) ==
    LET around(mean, xs) == Total([i \in DOMAIN xs |-> (xs[i] - mean) * (xs[i] - mean)])
        from(xs) == around(RoundDiv(Total(xs), Len(xs)), xs)
    IN  from([i \in DOMAIN vals |-> IF vals[i].kind = "INT64" THEN vals[i].v * Unit ELSE vals[i].v])

\* VAR_SAMP; STDDEV is its root, which is left to the library.
VarSampAggregate(cells) ==
    LET of(vals) ==
            IF \E i \in DOMAIN vals : vals[i].kind \notin {"INT64", "FLOAT64"} THEN Invalid
            ELSE IF Len(vals) < 2 THEN NullOfType("FLOAT64")
            ELSE Val("FLOAT64", RoundDiv(SquaredDeviations(vals), Len(vals) - 1))
    IN  of(NonNull(cells))

StddevAggregate(cells) == VarSampAggregate(cells)

ApproxCountDistinct(cells) == CountAggregate(TRUE, cells)

SortedNumericValues(cells, distinct) ==
    LET vals == SelectSeq(cells, LAMBDA v : ~v.null /\ v.kind \in {"INT64", "FLOAT64"})
        kept == {i \in DOMAIN vals : ~distinct \/ \A j \in 1 .. i - 1 : vals[j].v # vals[i].v}
    IN  StableSort([i \in 1 .. Cardinality(kept) |->
                       vals[CHOOSE j \in kept : Cardinality(kept \cap 1 .. j) = i]], ValueLess)

\* Element i of 0 .. n, the NULLs first; a fraction is cut off.
BuildApproxQuantileElements(n, vals, nulls) ==
    [i \in 1 .. n + 1 |-> LET at == ((i - 1) * (nulls + Len(vals) - 1)) \div n
                          IN  IF nulls + Len(vals) = 0 \/ at < nulls THEN NullOfType("INT64")
                              ELSE LET x == vals[at - nulls + 1]
                                   IN  Val("INT64", IF x.kind = "INT64" THEN x.v ELSE Quot(x.v, Unit))]

ApproxQuantiles(call, cells) ==
    LET nulls == IF ~call.respect THEN 0
                 ELSE LET k == Len(cells) - Len(NonNull(cells)) IN IF call.distinct /\ k > 0 THEN 1 ELSE k
    IN  [kind |-> "ARRAY", null |-> FALSE,
         v |-> BuildApproxQuantileElements(IF call.k.null THEN 2 ELSE call.k.v,
                                           SortedNumericValues(cells, call.distinct), nulls)]

\* APPROX_TOP_COUNT and APPROX_TOP_SUM: one entry a key, NULL being a key.
Entries(keys, weights) ==
    {[key |-> k,
      sum |-> Total([i \in DOMAIN keys |-> IF keys[i] = k /\ ~weights[i].null THEN weights[i].v ELSE 0]),
      weighed |-> \E i \in DOMAIN keys : keys[i] = k /\ ~weights[i].null] : k \in Range(keys)}

EntryLess(a, b) ==
    CASE a.sum # b.sum -> a.sum > b.sum
      [] a.weighed # b.weighed -> a.weighed
      [] OTHER -> FingerprintLess(a.key, b.key)

SortTopEntries(entries, k) == Prefix(SetToSortSeq(entries, EntryLess), k)

ApproxTop(call, keys, weights) ==
    LET entry(e) == <<e.key, IF e.weighed THEN Val("INT64", e.sum) ELSE NullOfType("INT64")>>
        array(top) == [kind |-> "ARRAY", null |-> FALSE, v |-> [i \in DOMAIN top |-> entry(top[i])]]
    IN  array(SortTopEntries(Entries(keys, weights), IF call.k.null THEN 2 ELSE call.k.v))

ArrayConcatAgg(cells) ==
    [kind |-> "ARRAY", null |-> FALSE, v |-> FlattenSeq([i \in DOMAIN NonNull(cells) |-> NonNull(cells)[i].v])]

LogicalOr(cells) == Bool(\E i \in DOMAIN cells : IsTrue(cells[i]))

LogicalAnd(cells) == Bool(cells # <<>> /\ \A i \in DOMAIN cells : IsTrue(cells[i]))

\* SAFE spares the caller an overflow and a division by zero, no other error.
MaybeWrapSafeAggregate(call, r) ==
    IF call.safe /\ ~Ok(r) /\ r.error \in {"kOverflow", "kDivisionByZero"} THEN NullOfType(call.type) ELSE r

One(n) == [i \in 1 .. n |-> Val("INT64", 1)]

EvalAggregateBuiltin(fn, type, cells) ==
    CASE fn = "sum" -> SumAggregate(type, cells)
      [] fn = "avg" -> AvgAggregate(type, cells)
      [] fn \in {"min", "max"} -> MinMaxAggregate(type, cells, fn = "max")
      [] OTHER -> MakeSemanticError("kNotImplemented")

\* args: one sequence of cells for each argument.
EvalAggregateCall(call, args) ==
    LET fn == call.fn
    IN  MaybeWrapSafeAggregate(call,
          CASE fn \in {"sum", "avg", "min", "max"} -> EvalAggregateBuiltin(fn, call.type, args[1])
            [] fn = "count" -> CountAggregate(call.distinct, args[1])
            [] fn = "countif" -> CountIfAggregate(args[1])
            [] fn = "any_value" -> AnyValueAggregate(call.type, args[1])
            [] fn = "stddev" -> StddevAggregate(args[1])
            [] fn = "var_samp" -> VarSampAggregate(args[1])
            [] fn = "approx_count_distinct" -> ApproxCountDistinct(args[1])
            [] fn = "approx_quantiles" -> ApproxQuantiles(call, args[1])
            [] fn \in {"approx_top_count", "approx_top_sum"} ->
                 ApproxTop(call, args[1], IF fn = "approx_top_count" THEN One(Len(args[1])) ELSE args[2])
            [] fn = "array_concat_agg" -> ArrayConcatAgg(args[1])
            [] fn = "logical_or" -> LogicalOr(args[1])
            [] fn = "logical_and" -> LogicalAnd(args[1])
            [] OTHER -> MakeSemanticError("kNotImplemented"))

-----------------------------------------------------------------------------
(* ARRAY_AGG and STRING_AGG.                                                 *)

\* What reading past the end of a vector may do: anything.
Undefined == MakeSemanticError("undefined")

\* CollectOrderedAggRows walks the rows it is given and reads the cell of the
\* same number, whether or not there is one.
CollectOrderedAggRows(call, cells, rows) ==
    SelectSeq([i \in DOMAIN rows |-> [val |-> cells[i], row |-> rows[i]]],
              LAMBDA r : ~(call.ignore /\ r.val.null))

DedupAggRows(aggs) ==
    FoldLeft(LAMBDA acc, r : IF \E i \in DOMAIN acc : ValueEqual(acc[i].val, r.val) THEN acc ELSE Append(acc, r),
             <<>>, aggs)

SortAggRows(call, aggs) == StableSort(aggs, LAMBDA a, b : OrderSpecLess(call.order, a.row, b.row))


OrderedAggRows(call, cells, rows) ==
    LET sorted(all) == SortAggRows(call, IF call.distinct THEN DedupAggRows(all) ELSE all)
        limited(kept) == IF call.limit = <<>> THEN kept ELSE Prefix(kept, call.limit[1].v)
    IN  IF Len(rows) > Len(cells) THEN Undefined
        ELSE IF call.limit # <<>> /\ (call.limit[1].null \/ call.limit[1].v < 0) THEN Invalid
        ELSE [rows |-> limited(sorted(CollectOrderedAggRows(call, cells, rows)))]

EvalArrayAgg(call, args, rows) ==
    LET array(r) ==
            IF "rows" \notin DOMAIN r THEN r
            ELSE [kind |-> "ARRAY", null |-> FALSE, v |-> [i \in DOMAIN r.rows |-> r.rows[i].val]]
    IN  array(OrderedAggRows(call, args[1], rows))

\* The pieces of the text and the delimiter between them; "," when not given.
EvalStringAgg(call, args, rows) ==
    LET delimiter == IF Len(args) > 1 THEN args[2][1] ELSE Val("STRING", 0)
        join(all, pieces) ==
            IF (all = <<>> /\ call.ignore) \/ (all # <<>> /\ pieces = <<>>) THEN NullOfType("STRING")
            ELSE [kind |-> "STRING", null |-> FALSE, v |-> [pieces |-> pieces, delimiter |-> delimiter.v]]
        text(r) == IF "rows" \notin DOMAIN r THEN r
                   ELSE join(r.rows, NonNull([i \in DOMAIN r.rows |-> r.rows[i].val]))
    IN  IF Len(args) > 1 /\ args[2] = <<>> THEN Invalid
        ELSE IF delimiter.null THEN NullOfType("STRING")
        ELSE text(OrderedAggRows(call, args[1], rows))

-----------------------------------------------------------------------------
(* SQL UDAFs.  A body computes its listed aggregates over the rows, then an  *)
(* expression over their results and over the non-aggregate arguments.       *)

Internal == MakeSemanticError("INTERNAL")

\* DeclareOuterNonAggregateArgs: of the first row.
OuterArgument(cells, ids) ==
    IF cells = <<>> THEN Invalid
    ELSE LET at == IF ids = <<>> THEN 1 ELSE ids[1] IN IF at > Len(cells) THEN Internal ELSE cells[at]

\* EvalUdafInnerAggregate: BindUdafRowFrame refuses a row that has no cell.
EvalUdafInnerAggregate(agg, cells, ids) ==
    IF \E i \in DOMAIN ids : ids[i] > Len(cells) THEN Internal
    ELSE EvalAggregateCall(agg, <<Rows(cells, ids)>>)

\* The context of the body's expression, all being the cells of the arguments
\* and then those of the listed aggregates.
UdafContext(body, all) ==
    LET n == Len(body.names)
    IN  [NoContext EXCEPT !.columns = SubSeq(all, n + 1, Len(all)),
                          !.arguments = [x \in {body.names[i] : i \in (1 .. n) \ body.aggregate} |->
                                           all[CHOOSE i \in 1 .. n : body.names[i] = x]]]

FinishUdafBody(body, all) ==
    IF \E i \in DOMAIN all : ~Ok(all[i]) THEN FirstError(all) ELSE EvalExpr(body.expr, UdafContext(body, all))

EvalSqlUdafBody(body, args, ids) ==
    FinishUdafBody(body,
        [i \in DOMAIN body.names |->
            IF i \in body.aggregate THEN NullOfType("INT64") ELSE OuterArgument(args[i], ids)]
          \o [i \in DOMAIN body.aggs |->
                EvalUdafInnerAggregate(body.aggs[i], args[body.aggs[i].args[1]], ids)])

-----------------------------------------------------------------------------
(* Groups.                                                                   *)

\* HAVING MAX x or MIN x: the rows whose x is the best that is not NULL.
FilterRowsByHavingModifier(call, rows, ids) ==
    IF call.having = <<>> THEN ids
    ELSE LET h == call.having[1]
             x(i) == rows[i][h.col]
             beaten(i) == \E j \in Range(ids) : ~x(j).null /\ (IF h.max THEN x(i).v < x(j).v ELSE x(j).v < x(i).v)
         IN  SelectSeq(ids, LAMBDA i : ~x(i).null /\ ~beaten(i))

KeyLess(a, b) ==
    \E i \in DOMAIN a : FingerprintLess(a[i], b[i]) /\ \A j \in 1 .. i - 1 : a[j] = b[j]

KeyOf(row, by) == [g \in DOMAIN by |-> row[by[g]]]

\* The groups in the order of their fingerprints: [key, ids].
GroupRows(by, rows, ids) ==
    LET keys == SetToSortSeq({KeyOf(rows[ids[i]], by) : i \in DOMAIN ids}, KeyLess)
    IN  [g \in DOMAIN keys |-> [key |-> keys[g], ids |-> SelectSeq(ids, LAMBDA i : KeyOf(rows[i], by) = keys[g])]]

\* FinishAggregateFromArgColumns: rows are whatever the caller hands over.
FinishAggregateFromArgColumns(call, args, rows) ==
    CASE call.fn = "$count_star" -> Val("INT64", IF args = <<>> THEN 0 ELSE Len(args[1]))
      [] call.fn = "array_agg" -> EvalArrayAgg(call, args, rows)
      [] call.fn = "string_agg" -> EvalStringAgg(call, args, rows)
      [] call.fn = "udaf" -> EvalSqlUdafBody(call.body, args, AllRows(rows))
      [] OTHER -> EvalAggregateCall(call, args)

ArgColumns(call, rows) == [a \in DOMAIN call.args |-> Cells(rows, call.args[a])]

RECURSIVE EvalAggregateForRows(_, _, _)

\* An ANY_VALUE that locks the grain of a measure computes the outer aggregate.
EvalGrainLockInnerWithOuterAggregate(call, inner, rows, ids) ==
    FinishAggregateFromArgColumns(call, ArgColumns(inner, Rows(rows, ids)), [i \in DOMAIN ids |-> <<>>])

EvalMultiLevelInnerGroup(call, rows, group) ==
    group.key \o [i \in DOMAIN call.inner |->
                    IF call.inner[i].fn = "any_value" /\ call.inner[i].grain_lock
                    THEN EvalGrainLockInnerWithOuterAggregate(call, call.inner[i], rows, group.ids)
                    ELSE EvalAggregateForRows(call.inner[i], rows, group.ids)]

\* The rows of the groups one after the other, or the first error.
RowsOrError(out) ==
    LET failed == {g \in DOMAIN out : \E i \in DOMAIN out[g] : ~Ok(out[g][i])}
    IN  IF failed # {} THEN FirstError(out[Min(failed)]) ELSE [rows |-> out]

\* The outer aggregate over the rows of the groups that pass the inner HAVING.
FinishOuterAggregate(call, kept) == FinishAggregateFromArgColumns(call, ArgColumns(call, kept), kept)

OverInnerRows(call, r) ==
    IF "rows" \notin DOMAIN r THEN r
    ELSE FinishOuterAggregate(call, SelectSeq(r.rows, LAMBDA row : call.inner_having = <<>> \/ IsTrue(row[call.inner_having[1]])))

EvalMultiLevelAggregateForRows(call, rows, ids) ==
    LET groups == GroupRows(call.group_by, rows, FilterRowsByHavingModifier(call, rows, ids))
    IN  OverInnerRows(call, RowsOrError([g \in DOMAIN groups |-> EvalMultiLevelInnerGroup(call, rows, groups[g])]))

\* The arguments are those of the group's rows, the rows those of the scan.
EvalAggregateForRows(call, rows, ids) ==
    LET effective == FilterRowsByHavingModifier(call, rows, ids)
    IN  IF call.group_by # <<>> THEN EvalMultiLevelAggregateForRows(call, rows, effective)
        ELSE IF call.fn = "$count_star" THEN Val("INT64", Len(effective))
        ELSE FinishAggregateFromArgColumns(call, ArgColumns(call, Rows(rows, effective)), rows)

\* A deferred column turns an error into NULL and a message beside it.
DeferredColumns(call, r) ==
    IF ~call.deferred THEN <<r>>
    ELSE IF Ok(r) THEN <<r, NullOfType("BYTES")>> ELSE <<NullOfType(call.type), Val("BYTES", 1)>>

MaterializeAggregateGroup(calls, rows, group) ==
    group.key \o FlattenSeq([i \in DOMAIN calls |->
                               DeferredColumns(calls[i], EvalAggregateForRows(calls[i], rows, group.ids))])

MaterializeAggregateScan(by, calls, rows) ==
    LET groups == IF by = <<>> THEN <<[key |-> <<>>, ids |-> AllRows(rows)]>> ELSE GroupRows(by, rows, AllRows(rows))
    IN  RowsOrError([g \in DOMAIN groups |-> MaterializeAggregateGroup(calls, rows, groups[g])])

-----------------------------------------------------------------------------
(* The calls.                                                                *)

Agg(fn, args, type) ==
    [fn |-> fn, args |-> args, type |-> type, distinct |-> FALSE, ignore |-> FALSE, respect |-> FALSE,
     order |-> <<>>, limit |-> <<>>, having |-> <<>>, safe |-> FALSE, deferred |-> FALSE,
     k |-> NullOfType("INT64"), group_by |-> <<>>, inner |-> <<>>, inner_having |-> <<>>,
     grain_lock |-> FALSE, body |-> <<>>]

AggInts(vs) == {NullOfType("INT64")} \cup {Val("INT64", n) : n \in vs}

AggCells ==
    SeqOf(AggInts({-(2 ^ (Bits - 1)), -1, 3, 2 ^ (Bits - 1) - 1}), MaxGroupRows)
       \cup SeqOf({NullOfType("FLOAT64"), NaN, Val("FLOAT64", 90), Val("FLOAT64", -30)}, 2)
       \cup SeqOf({NullOfType("NUMERIC"), Val("NUMERIC", NumericMax * Unit), Val("NUMERIC", -30)}, MaxGroupRows)

CallNumbers ==
    \E cells \in AggCells, fn \in {"sum", "avg", "min", "max", "count", "any_value", "var_samp", "approx_count_distinct"},
       distinct, safe \in BOOLEAN :
      /\ NaN \in Range(cells) => fn \in {"min", "max", "count"}
      /\ LET call == [Agg(fn, <<1>>, "INT64") EXCEPT !.distinct = distinct, !.safe = safe]
         IN  eval' = [op |-> "numbers", call |-> call, cells |-> cells, result |-> EvalAggregateCall(call, <<cells>>)]

CallQuantiles ==
    \E cells \in SeqOf(AggInts({1, 2, 5}), MaxGroupRows + 1), n \in AggInts({1, 2, 3}), distinct, respect \in BOOLEAN :
      LET call == [Agg("approx_quantiles", <<1>>, "ARRAY") EXCEPT !.distinct = distinct, !.respect = respect, !.k = n]
      IN  eval' = [op |-> "quantiles", call |-> call, cells |-> cells, result |-> EvalAggregateCall(call, <<cells>>)]

CallTop ==
    \E n \in 0 .. MaxGroupRows : \E keys \in [1 .. n -> AggInts({1, 2})], weights \in [1 .. n -> AggInts({-1, 0, 2})] :
    \E fn \in {"approx_top_count", "approx_top_sum"}, k \in AggInts({1, 2}) :
      LET call == [Agg(fn, <<1, 2>>, "ARRAY") EXCEPT !.k = k]
      IN  eval' = [op |-> "top", call |-> call, keys |-> keys, weights |-> weights,
                   result |-> EvalAggregateCall(call, <<keys, weights>>)]

\* Column 1 is the key, 2 the value, 3 what HAVING MAX and ORDER BY look at.
AggRows == SeqOf(AggInts({1}) \X AggInts({1, 2}) \X {Val("INT64", 1), Val("INT64", 2)}, MaxGroupRows - 1)

Having == {<<>>, <<[max |-> TRUE, col |-> 3]>>, <<[max |-> FALSE, col |-> 2]>>}

Lists ==
    {[Agg(fn, <<2>>, "ARRAY") EXCEPT !.distinct = d, !.ignore = i, !.order = o, !.limit = l] :
       fn \in {"array_agg", "string_agg"}, d \in BOOLEAN, i \in BOOLEAN,
       o \in {<<>>, <<Item(3, FALSE, "default")>>, <<Item(2, TRUE, "first"), Item(3, FALSE, "default")>>},
       l \in {<<>>, <<Val("INT64", 1)>>, <<Val("INT64", -1)>>, <<NullOfType("INT64")>>}}
      \cup {Agg("string_agg", <<2, 1>>, "STRING")}

CallLists ==
    \E rows \in SeqOf({Val("INT64", 1)} \X AggInts({1, 2}) \X {Val("INT64", 1), Val("INT64", 2)}, MaxGroupRows),
       call \in Lists :
      eval' = [op |-> "lists", call |-> call, rows |-> rows,
               result |-> FinishAggregateFromArgColumns(call, ArgColumns(call, rows), rows)]

\* A UDAF of an aggregate argument x and of an argument p that is not one.
SumPlus ==
    [names |-> <<"x", "p">>, aggregate |-> {1}, aggs |-> <<Agg("sum", <<1>>, "INT64")>>,
     expr |-> Call("$add", <<Column(1, "s"), Argument("p")>>, "INT64", FALSE)]

ScalarAggs ==
    {[Agg(fn, <<2>>, "INT64") EXCEPT !.having = h, !.deferred = d] :
       fn \in {"$count_star", "count", "sum", "max", "any_value"}, h \in Having, d \in BOOLEAN}

Levels ==
    {[Agg(f[1], <<2>>, "INT64") EXCEPT !.group_by = <<1>>, !.inner = <<[Agg(f[2], <<2>>, "INT64") EXCEPT !.grain_lock = g]>>,
                                       !.having = h] :
       f \in {<<"sum", "sum">>, <<"max", "max">>, <<"sum", "count">>, <<"sum", "any_value">>}, g \in {TRUE}, h \in Having}

\* The list aggregates and the UDAFs look at the rows of the scan.
RowAggs == {Agg("array_agg", <<2>>, "ARRAY"), [Agg("udaf", <<3, 3>>, "INT64") EXCEPT !.body = SumPlus]}

CallGroups ==
    \E rows \in AggRows, by \in {<<>>, <<1>>, <<1, 3>>}, op \in {"groups", "group_lists", "levels"} :
    \E call \in CASE op = "groups" -> ScalarAggs [] op = "group_lists" -> RowAggs [] op = "levels" -> Levels :
      /\ op = "levels" => by = <<>>
      /\ eval' = [op |-> op, by |-> by, call |-> call, rows |-> rows,
                  result |-> MaterializeAggregateScan(by, <<call>>, rows)]

AggregateInit == eval = NoCall

AggregateNext ==
    \/ eval = NoCall /\ CallNumbers
    \/ eval = NoCall /\ CallQuantiles
    \/ eval = NoCall /\ CallTop
    \/ eval = NoCall /\ CallLists
    \/ eval = NoCall /\ CallGroups

-----------------------------------------------------------------------------
(* Properties.                                                               *)

Vals(cells) == [i \in DOMAIN NonNull(cells) |-> NonNull(cells)[i].v]

Fits(k, vs) == \A n \in 0 .. Len(vs) : InRange(k, Total(Prefix(vs, n)))

\* SUM adds the values that are not NULL, in their type and without wrapping:
\* it is exact as long as every partial sum fits, raises (or is NULL under
\* SAFE) when one does not, and is NULL over no value (SumAggregate).  AVG,
\* MIN, MAX, COUNT and VAR_SAMP agree with their definitions over the same
\* values; AVG of INT64 only when its partial sums fit.
AggregatesExact ==
    eval.op = "numbers" =>
      LET vs == Vals(eval.cells)
          k  == IF eval.cells = <<>> THEN "INT64" ELSE eval.cells[1].kind
          r  == eval.result
          fn == eval.call.fn
      IN  CASE fn = "count" \/ fn = "approx_count_distinct" ->
                 r = Val("INT64", IF fn # "count" \/ eval.call.distinct THEN Cardinality(Range(vs)) ELSE Len(vs))
            [] fn # "count" /\ vs = <<>> -> Ok(r) /\ r.null
            [] fn = "sum" /\ vs # <<>> ->
                 IF Fits(k, vs) THEN r = Val(k, Total(vs))
                 ELSE IF eval.call.safe THEN r = NullOfType("INT64") ELSE r = MakeSemanticError("kOverflow")
            [] fn = "avg" /\ vs # <<>> ->
                 Fits(k, vs) => r.v * Len(vs) = Total(vs) * (IF k = "INT64" THEN Unit ELSE 1)
            [] fn \in {"min", "max"} /\ vs # <<>> ->
                 IF NaN.v \in Range(vs) THEN r = NaN
                 ELSE /\ r.kind = k /\ r.v \in Range(vs)
                      /\ \A v \in Range(vs) : IF fn = "min" THEN r.v <= v ELSE v <= r.v
            [] fn = "any_value" /\ vs # <<>> -> r.v \in Range(vs)
            [] fn = "var_samp" /\ k = "INT64" /\ Len(vs) > 1 ->
                 r.v * Len(vs) * (Len(vs) - 1)
                   = Unit * Unit * (Len(vs) * Total([i \in DOMAIN vs |-> vs[i] * vs[i]]) - Total(vs) * Total(vs))
            [] OTHER -> TRUE

\* "Returns the average of non-NULL values": an average lies between the
\* smallest and the largest of them (AvgInt64Cells adds without a check).
AverageBetweenBounds ==
    eval.op = "numbers" /\ eval.call.fn = "avg" /\ Ok(eval.result) /\ ~eval.result.null =>
      LET scale == IF eval.cells[1].kind = "INT64" THEN Unit ELSE 1
      IN  \E lo, hi \in Range(Vals(eval.cells)) : lo * scale <= eval.result.v /\ eval.result.v <= hi * scale

\* APPROX_QUANTILES runs from the smallest value to the largest, never goes
\* down, and puts the NULLs it respects in front (BuildApproxQuantileElements).
QuantilesBracket ==
    eval.op = "quantiles" =>
      LET q  == eval.result.v
          vs == Range(Vals(eval.cells))
          nulls == {i \in DOMAIN eval.cells : eval.cells[i].null}
      IN  /\ Len(q) = (IF eval.call.k.null THEN 2 ELSE eval.call.k.v) + 1
          /\ vs = {} => \A i \in DOMAIN q : q[i].null
          /\ vs # {} =>
               /\ q[1].null = (eval.call.respect /\ nulls # {})
               /\ ~q[1].null => \A v \in vs : q[1].v <= v
               /\ ~q[Len(q)].null /\ \A v \in vs : v <= q[Len(q)].v
               /\ \A i, j \in DOMAIN q : i < j /\ ~q[i].null => ~q[j].null /\ q[i].v <= q[j].v
               /\ \A i \in DOMAIN q : ~q[i].null => q[i].v \in vs

\* APPROX_TOP_COUNT and APPROX_TOP_SUM list min(k, keys) keys, each with its
\* count or the sum of its weights, and no key left out outweighs one that is
\* listed (SortTopEntries).
TopAreHeaviest ==
    eval.op = "top" =>
      LET q == eval.result.v
          keys == Range(eval.keys)
          weight(k) ==
              LET of == {i \in DOMAIN eval.keys : eval.keys[i] = k}
              IN  IF eval.call.fn = "approx_top_count" THEN Cardinality(of)
                  ELSE Total([i \in DOMAIN eval.keys |-> IF i \in of THEN eval.weights[i].v ELSE 0])
          listed == {q[i][1] : i \in DOMAIN q}
          k == IF eval.call.k.null THEN 2 ELSE eval.call.k.v
      IN  /\ Len(q) = Cardinality(listed)
          /\ Len(q) = IF k < Cardinality(keys) THEN k ELSE Cardinality(keys)
          /\ \A i \in DOMAIN q : q[i][2].v = weight(q[i][1])
          /\ \A a \in listed, b \in keys \ listed : weight(a) >= weight(b)

\* ARRAY_AGG and STRING_AGG keep one row for each value they are to keep, in
\* the order asked for, rows that compare equal in the order of the input, and
\* take the limit from the front of that order (OrderedAggRows).
ListsInOrder ==
    eval.op = "lists" /\ Ok(eval.result) /\ ~eval.result.null =>
      LET call == eval.call
          out  == IF call.fn = "array_agg" THEN eval.result.v ELSE eval.result.v.pieces
          wanted(i) == ~((call.ignore \/ call.fn = "string_agg") /\ eval.rows[i][2].null)
          first(i) == ~call.distinct \/ \A j \in 1 .. i - 1 : ~ValueEqual(eval.rows[j][2], eval.rows[i][2])
          pool == {i \in DOMAIN eval.rows : wanted(i) /\ first(i)}
          before(i, j) == OrderSpecLess(call.order, eval.rows[i], eval.rows[j])
                            \/ (i < j /\ ~OrderSpecLess(call.order, eval.rows[j], eval.rows[i]))
          place(i) == Cardinality({j \in pool : before(j, i)}) + 1
      IN  /\ call.limit = <<>> => Len(out) = Cardinality(pool)
          /\ call.limit # <<>> => Len(out) <= call.limit[1].v
          /\ call.fn = "array_agg" \/ call.limit = <<>> =>
               \A i \in pool : place(i) <= Len(out) => out[place(i)] = eval.rows[i][2]

\* Whether each group of the result is what its rows alone give, and there is
\* one group for each key, NULL being a key; without GROUP BY there is one row.
GroupByGroup(e) ==
    LET keys == IF e.by = <<>> THEN {<<>>} ELSE {KeyOf(e.rows[i], e.by) : i \in DOMAIN e.rows}
        part(key, r) == "rows" \in DOMAIN r /\ key \o r.rows[1] \in Range(e.result.rows)
        agrees(key, r) == IF "rows" \in DOMAIN e.result THEN part(key, r) ELSE r = e.result
        enough(good) ==
            IF "rows" \in DOMAIN e.result THEN Len(e.result.rows) = Cardinality(keys) /\ good = keys
            ELSE good # {}
    IN  enough({key \in keys :
                  agrees(key, MaterializeAggregateScan(<<>>, <<e.call>>, SelectSeq(e.rows, LAMBDA r : KeyOf(r, e.by) = key)))})

\* Under GROUP BY every aggregate sees the rows of its group, those HAVING MAX
\* or MIN keeps, and no other (MaterializeAggregateScan, EvalAggregateForRows).
GroupsAreIndependent == eval.op = "groups" => GroupByGroup(eval)

\* The same of ARRAY_AGG, STRING_AGG and SQL UDAFs, which "summarize the rows
\* of a group into a single value" as any other.
GroupsReadTheirOwnRows == eval.op = "group_lists" => GroupByGroup(eval)

\* Aggregating inner groups and then their results gives what one level gives,
\* for the functions of which that is true (EvalMultiLevelAggregateForRows);
\* so does a grain lock.
LevelsCompose ==
    eval.op = "levels" =>
      LET fn   == IF eval.call.inner[1].fn \in {"count"} THEN "count" ELSE eval.call.fn
          kept == FilterRowsByHavingModifier(eval.call, eval.rows, AllRows(eval.rows))
          whole == eval.result.rows[1][1]
          composed(r) == Ok(r) => IF fn = "count" /\ kept = <<>> THEN whole.null ELSE whole = r
      IN  "rows" \in DOMAIN eval.result => composed(EvalAggregateCall(Agg(fn, <<2>>, "INT64"), <<Cells(Rows(eval.rows, kept), 2)>>))

=============================================================================
