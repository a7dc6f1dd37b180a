----------------------------- MODULE SqlWindows -----------------------------
(***************************************************************************)
(* Analytic functions of the semantic executor                             *)
(* (scan_eval_analytic_*.cc): partitions and their order, frames,          *)
(* aggregates over frames, the numbering and navigation functions,         *)
(* PERCENTILE_CONT.  Rows are those of SqlAggregates: column 1 partitions, *)
(* 2 orders, 3 is the argument.                                            *)
(***************************************************************************)
EXTENDS SqlAggregates

CONSTANT MaxWindowRows      \* rows given to an analytic function

-----------------------------------------------------------------------------

\* Partitions in ascending order of their keys, NULLs last.
PartitionKeysLess(a, b) ==
    \E i \in DOMAIN a :
       /\ ~ValueEqual(a[i], b[i]) /\ \A j \in 1 .. i - 1 : ValueEqual(a[j], b[j])
       /\ IF a[i].null # b[i].null THEN b[i].null ELSE ValueLess(a[i], b[i])

BuildAnalyticGroupLayout(by, order, rows) ==
    LET key(i) == KeyOf(rows[i], by)
        less(i, j) == IF key(i) # key(j) THEN PartitionKeysLess(key(i), key(j))
                      ELSE OrderSpecLess(order, rows[i], rows[j])
        sorted == StableSort(AllRows(rows), less)
        place(i) == CHOOSE p \in DOMAIN sorted : sorted[p] = i
    IN  [fps |-> [i \in DOMAIN rows |-> key(i)], sorted |-> sorted,
         rn |-> [i \in DOMAIN rows |-> Cardinality({p \in 1 .. place(i) : key(sorted[p]) = key(i)})]]

OrderKeysEqual(order, a, b) == \A i \in DOMAIN order : ValueEqual(a[order[i].col], b[order[i].col])

\* BuildPartitionOrder: the rows of a partition by their numbers.
PartitionOrder(layout, i) == SelectSeq(layout.sorted, LAMBDA j : layout.fps[j] = layout.fps[i])

-----------------------------------------------------------------------------
(* Frames.                                                                   *)

Bound(b, off) == [b |-> b, off |-> off]

IsOffset(b) == b.b \in {"OFFSET_PRECEDING", "OFFSET_FOLLOWING"}

IsUnbounded(b) == b.b \in {"UNBOUNDED_PRECEDING", "UNBOUNDED_FOLLOWING"}

\* Mutant: an offset counts from the row before the current one.
StartsOneEarly(b, cur, max) ==
    CASE b.b = "UNBOUNDED_PRECEDING" -> 1
      [] b.b = "UNBOUNDED_FOLLOWING" -> max
      [] b.b = "CURRENT_ROW" -> cur
      [] b.b = "OFFSET_PRECEDING" -> IF cur - b.off.v < 2 THEN 1 ELSE cur - b.off.v - 1
      [] b.b = "OFFSET_FOLLOWING" -> IF cur + b.off.v > max THEN max ELSE cur + b.off.v

\* Both ends are kept within the partition.
RowsBoundRn(b, cur, max) ==
    CASE b.b = "UNBOUNDED_PRECEDING" -> 1
      [] b.b = "UNBOUNDED_FOLLOWING" -> max
      [] b.b = "CURRENT_ROW" -> cur
      [] b.b = "OFFSET_PRECEDING" -> IF cur - b.off.v < 1 THEN 1 ELSE cur - b.off.v
      [] b.b = "OFFSET_FOLLOWING" -> IF cur + b.off.v > max THEN max ELSE cur + b.off.v

ResolveRowsFrame(call, layout, ordered, i) ==
    LET lo == RowsBoundRn(call.lo, layout.rn[i], Len(ordered))
        hi == RowsBoundRn(call.hi, layout.rn[i], Len(ordered))
    IN  IF \E b \in {call.lo, call.hi} : IsOffset(b) /\ b.off.null THEN Invalid
        ELSE [ids |-> SelectSeq(ordered, LAMBDA j : lo <= layout.rn[j] /\ layout.rn[j] <= hi)]

\* A bound of NULL is no bound.  The process dies on the offset of a NULL key.
FrameBoundValue(b, cur) ==
    CASE IsUnbounded(b) -> NullOfType("INT64")
      [] b.b = "CURRENT_ROW" -> cur
      [] IsOffset(b) -> IF b.off.null THEN Invalid
                        ELSE IF cur.null THEN MakeSemanticError("abort")
                        ELSE Val("INT64", IF b.b = "OFFSET_PRECEDING" THEN cur.v - b.off.v ELSE cur.v + b.off.v)

ResolveRangeValueOffsetFrame(call, order, rows, ordered, i) ==
    LET x(j) == rows[j][order[1].col]
        lo == FrameBoundValue(call.lo, x(i))
        hi == FrameBoundValue(call.hi, x(i))
    IN  IF ~Ok(lo) THEN lo ELSE IF ~Ok(hi) THEN hi
        ELSE [ids |-> SelectSeq(ordered, LAMBDA j : ~x(j).null /\ (lo.null \/ lo.v <= x(j).v) /\ (hi.null \/ x(j).v <= hi.v))]

\* The default frame ends with the peers of the current row.
ResolvePeerRangeFrame(call, order, rows, ordered, i) ==
    LET at == CHOOSE p \in DOMAIN ordered : ordered[p] = i
        peers == {p \in DOMAIN ordered :
                    \A q \in (IF p < at THEN p .. at ELSE at .. p) : OrderKeysEqual(order, rows[ordered[q]], rows[i])}
        lo == IF call.unit = "none" \/ IsUnbounded(call.lo) THEN 1 ELSE Min(peers)
        hi == IF call.unit # "none" /\ call.hi.b = "UNBOUNDED_FOLLOWING" THEN Len(ordered) ELSE Max(peers)
    IN  [ids |-> SubSeq(ordered, lo, hi)]

ResolveWindowFrameRows(call, order, rows, layout, i) ==
    LET frame(ordered) ==
            CASE order = <<>> -> [ids |-> ordered]
              [] order # <<>> /\ call.unit = "ROWS" -> ResolveRowsFrame(call, layout, ordered, i)
              [] order # <<>> /\ call.unit = "RANGE" /\ (IsOffset(call.lo) \/ IsOffset(call.hi)) ->
                   ResolveRangeValueOffsetFrame(call, order, rows, ordered, i)
              [] OTHER -> ResolvePeerRangeFrame(call, order, rows, ordered, i)
    IN  frame(PartitionOrder(layout, i))

ApplyAnalyticAggregate(call, order, rows, layout, i) ==
    LET fold(cells) == IF call.fn = "count" THEN CountAggregate(call.distinct, cells)
                       ELSE EvalAggregateBuiltin(call.fn, "INT64", cells)
        within(frame) == IF "ids" \notin DOMAIN frame THEN frame
                         ELSE IF call.fn = "$count_star" THEN Val("INT64", Len(frame.ids))
                         ELSE fold(Cells(Rows(rows, frame.ids), 3))
    IN  within(ResolveWindowFrameRows(call, order, rows, layout, i))

-----------------------------------------------------------------------------
(* Numbering and navigation.                                                 *)

ApplyAnalyticNtile(call, layout, i) ==
    LET s == Len(PartitionOrder(layout, i))
        n == call.n.v
        q == s \div n
        long == s % n
        rn == layout.rn[i]
    IN  IF call.n.null \/ n <= 0 THEN Invalid
        ELSE Val("INT64", IF q = 0 THEN rn
                          ELSE IF rn <= long * (q + 1) THEN (rn - 1) \div (q + 1) + 1
                          ELSE long + (rn - long * (q + 1) - 1) \div q + 1)

\* A rank changes where a row and the one before it have different keys.
ApplyAnalyticRank(dense, order, rows, layout, i) ==
    LET ordered == PartitionOrder(layout, i)
        breaks == {p \in 1 .. layout.rn[i] : p = 1 \/ ~OrderKeysEqual(order, rows[ordered[p]], rows[ordered[p - 1]])}
    IN  Val("INT64", IF dense THEN Cardinality(breaks) ELSE Max(breaks))

ApplyAnalyticLagLead(call, direction, rows, layout, i) ==
    LET ordered == PartitionOrder(layout, i)
        target  == layout.rn[i] + direction * (IF call.n.kind = "none" THEN 1 ELSE call.n.v)
    IN  IF call.n.kind # "none" /\ (call.n.null \/ call.n.v <= 0) THEN Invalid
        ELSE IF target \in DOMAIN ordered THEN rows[ordered[target]][3]
        ELSE IF call.default # <<>> THEN call.default[1] ELSE NullOfType("INT64")

\* The percentile, in quarters, is that of the partition's first row; the
\* result counts sixtieths.
ApplyAnalyticPercentileCont(call, rows, layout, i) ==
    LET ordered == SelectSeq(AllRows(rows), LAMBDA j : layout.fps[j] = layout.fps[i])
        s    == StableSort(NonNull(Cells(Rows(rows, ordered), 3)), ValueLess)
        rank == call.n.v * (Len(s) - 1)
        lo   == rank \div 4 + 1
        hi   == Min({lo + 1, Len(s)})
    IN  IF call.n.null \/ s = <<>> THEN NullOfType("FLOAT64")
        ELSE Val("FLOAT64", s[lo].v * Unit + ((rank % 4) * (s[hi].v - s[lo].v) * Unit) \div 4)

ApplyAnalyticFunction(call, order, rows, layout, i) ==
    CASE call.fn = "row_number" -> Val("INT64", layout.rn[i])
      [] call.fn = "percentile_cont" -> ApplyAnalyticPercentileCont(call, rows, layout, i)
      [] call.fn = "ntile" -> ApplyAnalyticNtile(call, layout, i)
      [] call.fn = "rank" -> ApplyAnalyticRank(FALSE, order, rows, layout, i)
      [] call.fn = "dense_rank" -> ApplyAnalyticRank(TRUE, order, rows, layout, i)
      [] call.fn = "lag" -> ApplyAnalyticLagLead(call, -1, rows, layout, i)
      [] call.fn = "lead" -> ApplyAnalyticLagLead(call, 1, rows, layout, i)
      [] call.fn \in {"sum", "avg", "min", "max", "count", "$count_star"} ->
           ApplyAnalyticAggregate(call, order, rows, layout, i)
      [] OTHER -> MakeSemanticError("kNotImplemented")

\* The rows with one more column each, in the order of the partitions.
MaterializeAnalyticScan(call, by, order, rows) ==
    LET widen(col, sorted) ==
            IF \E i \in DOMAIN col : ~Ok(col[i]) THEN FirstError(col)
            ELSE [rows |-> [p \in DOMAIN rows |-> Append(rows[sorted[p]], col[sorted[p]])]]
        over(layout) ==
            widen([i \in DOMAIN rows |-> ApplyAnalyticFunction(call, order, rows, layout, i)], layout.sorted)
    IN  over(BuildAnalyticGroupLayout(by, order, rows))

-----------------------------------------------------------------------------
(* MATCH_RECOGNIZE (PATTERN (A B STAR)), A the rows of value 1 and B those of *)
(* value 2, in scan_eval_match_recognize.cc.                                  *)

EvalPatternVariableRow(row) == {v \in {"A", "B"} : ~row[3].null /\ row[3].v = IF v = "A" THEN 1 ELSE 2}

\* The matcher of the library, fed the variables of one row after the other:
\* the matches it reports, none of whose rows are in two.
Matcher(vars) ==
    LET starts == SetToSortSeq({i \in DOMAIN vars : "A" \in vars[i]}, <)
        end(i) == Max({j \in i .. Len(vars) : \A k \in i + 1 .. j : "B" \in vars[k]})
    IN  [m \in DOMAIN starts |->
           [start |-> starts[m], vars |-> [o \in 1 .. end(starts[m]) - starts[m] + 1 |-> IF o = 1 THEN "A" ELSE "B"]]]

RunPartitionMatching(rows) == Matcher([i \in DOMAIN rows |-> EvalPatternVariableRow(rows[i])])

\* The rows of a match with their variables.
BuildMatchRowContexts(rows, match) ==
    [o \in DOMAIN match.vars |-> [row |-> rows[match.start + o - 1], classifier |-> match.vars[o]]]

\* A measure is over the rows of its variable, or over all.
EvalMatchMeasureGroup(measure, contexts) ==
    LET of == SelectSeq(contexts, LAMBDA c : measure.var = "" \/ c.classifier = measure.var)
        rows == [i \in DOMAIN of |-> of[i].row]
    IN  EvalAggregateForRows(measure.call, rows, AllRows(rows))

\* What is not measured comes from the first row of the match.
EvalMatchMeasures(measures, contexts) ==
    <<contexts[1].row[1]>> \o [g \in DOMAIN measures |-> EvalMatchMeasureGroup(measures[g], contexts)]

MatchPartition(scan, sorted, matches) ==
    [m \in DOMAIN matches |-> EvalMatchMeasures(scan.measures, BuildMatchRowContexts(sorted, matches[m]))]

SortPartition(scan, rows) == StableSort(rows, LAMBDA a, b : OrderSpecLess(scan.order, a, b))

MatchRows(scan, sorted) == MatchPartition(scan, sorted, RunPartitionMatching(sorted))

MatchGroups(scan, rows, groups) ==
    FlattenSeq([g \in DOMAIN groups |-> MatchRows(scan, SortPartition(scan, Rows(rows, groups[g].ids)))])

MaterializeMatchRecognizeScan(scan, rows) ==
    IF scan.longest \/ scan.skip = "NEXT_ROW" THEN MakeSemanticError("kNotImplemented")
    ELSE [rows |-> MatchGroups(scan, rows, GroupRows(<<1>>, rows, AllRows(rows)))]

-----------------------------------------------------------------------------
(* The calls.                                                                *)

Analytic(fn) ==
    [fn |-> fn, distinct |-> FALSE, unit |-> "none", lo |-> Bound("none", Val("INT64", 0)), hi |-> Bound("none", Val("INT64", 0)),
     n |-> NullOfType("none"), default |-> <<>>]

AnalyticRows ==
    UNION {{[i \in 1 .. n |-> <<p[i], o[i], Val("INT64", i)>>] :
              p \in [1 .. n -> AggInts({1})], o \in [1 .. n -> AggInts({1, 3})]} : n \in 0 .. MaxWindowRows}

Orders == {<<>>, <<Item(2, FALSE, "default")>>, <<Item(2, TRUE, "default")>>}

Side(b) == CASE b.b = "UNBOUNDED_PRECEDING" -> -9 [] b.b = "OFFSET_PRECEDING" -> -b.off.v [] b.b = "CURRENT_ROW" -> 0
             [] b.b = "OFFSET_FOLLOWING" -> b.off.v [] OTHER -> 9

Bounds ==
    {Bound(b, Val("INT64", 0)) : b \in {"UNBOUNDED_PRECEDING", "CURRENT_ROW", "UNBOUNDED_FOLLOWING"}}
      \cup {Bound(b, Val("INT64", n)) : b \in {"OFFSET_PRECEDING", "OFFSET_FOLLOWING"}, n \in {1, 2}}

CallFrames ==
    \E rows \in AnalyticRows, order \in Orders, fn \in {"sum", "count", "min"}, unit \in {"none", "ROWS", "RANGE"}, lo, hi \in Bounds :
      /\ Side(lo) <= Side(hi) /\ Side(lo) < 9 /\ Side(hi) > -9
      /\ unit = "none" => lo.b = "UNBOUNDED_PRECEDING" /\ hi.b = "CURRENT_ROW"
      /\ order = <<>> => unit # "RANGE"
      /\ fn # "sum" \/ order # <<Item(2, FALSE, "default")>> => {lo.off.v, hi.off.v} \subseteq {0, 1}
      /\ fn # "sum" => order = <<Item(2, FALSE, "default")>> /\ unit = "ROWS"
      /\ LET call == [Analytic(fn) EXCEPT !.unit = unit, !.lo = lo, !.hi = hi]
         IN  eval' = [op |-> "frames", call |-> call, order |-> order, rows |-> rows,
                      result |-> MaterializeAnalyticScan(call, <<1>>, order, rows)]

CallNumbering ==
    \E rows \in AnalyticRows, order \in Orders,
       fn \in {"row_number", "rank", "dense_rank", "ntile", "lag", "lead", "percentile_cont"},
       n \in {NullOfType("none"), NullOfType("INT64")} \cup {Val("INT64", i) : i \in 0 .. 4},
       default \in {<<>>, <<Val("INT64", 0)>>} :
      /\ fn \in {"ntile", "percentile_cont"} => n.kind # "none"
      /\ fn \in {"row_number", "rank", "dense_rank"} => n.kind = "none"
      /\ fn \notin {"lag", "lead"} \/ n.v \in {0, 3, 4} => default = <<>>
      /\ fn \in {"lag", "lead"} => n.v # 4
      /\ LET call == [Analytic(fn) EXCEPT !.n = n, !.default = default]
         IN  eval' = [op |-> "numbering", call |-> call, order |-> order, rows |-> rows,
                      result |-> MaterializeAnalyticScan(call, <<1>>, order, rows)]

CallMatch ==
    \E rows \in SeqOf(AggInts({1}) \X {Val("INT64", 1), Val("INT64", 2)} \X AggInts({1, 2}), MaxWindowRows),
       longest \in BOOLEAN, skip \in {"PAST_LAST_ROW", "NEXT_ROW"} :
      /\ longest => skip = "PAST_LAST_ROW"
      /\ LET scan == [order |-> <<Item(2, FALSE, "default")>>, longest |-> longest, skip |-> skip,
                      measures |-> <<[var |-> "", call |-> Agg("$count_star", <<>>, "INT64")],
                                     [var |-> "B", call |-> Agg("count", <<3>>, "INT64")]>>]
         IN  eval' = [op |-> "match", scan |-> scan, rows |-> rows, result |-> MaterializeMatchRecognizeScan(scan, rows)]

WindowInit == eval = NoCall

WindowNext ==
    \/ eval = NoCall /\ CallFrames
    \/ eval = NoCall /\ CallNumbering
    \/ eval = NoCall /\ CallMatch

-----------------------------------------------------------------------------
(* Properties.  A row of the result is known by its third column.            *)

Partition(e, i) == {j \in DOMAIN e.rows : ValueEqual(e.rows[j][1], e.rows[i][1])}

Precedes(e, i, j) ==
    OrderSpecLess(e.order, e.rows[i], e.rows[j]) \/ (i < j /\ ~OrderSpecLess(e.order, e.rows[j], e.rows[i]))

Position(e, i) == Cardinality({j \in Partition(e, i) : Precedes(e, j, i)}) + 1

Computed(e, i) == LET p == CHOOSE p \in DOMAIN e.result.rows : e.result.rows[p][3].v = i IN e.result.rows[p][4]

\* The rows within the bounds of a frame, as the SQL reference has it.
FrameOf(e, i) ==
    LET part == Partition(e, i)
        at == [j \in part |-> Position(e, j)]
        x(j) == e.rows[j][2].v
        in(j) == CASE e.order = <<>> -> TRUE
                   [] e.order # <<>> /\ e.call.unit = "ROWS" ->
                        at[i] + Side(e.call.lo) <= at[j] /\ at[j] <= at[i] + Side(e.call.hi)
                   [] e.order # <<>> /\ e.call.unit = "RANGE" /\ (IsOffset(e.call.lo) \/ IsOffset(e.call.hi)) ->
                        x(i) + Side(e.call.lo) <= x(j) /\ x(j) <= x(i) + Side(e.call.hi)
                   [] OTHER ->
                        /\ Side(e.call.lo) = -9 \/ ~OrderSpecLess(e.order, e.rows[j], e.rows[i])
                        /\ Side(e.call.hi) = 9 \/ ~OrderSpecLess(e.order, e.rows[i], e.rows[j])
    IN  {j \in part : in(j)}

AggregateOf(e, ids) ==
    CASE e.call.fn = "count" -> Val("INT64", Cardinality(ids))
      [] ids = {} -> NullOfType("INT64")
      [] e.call.fn = "min" /\ ids # {} -> Val("INT64", Min(ids))
      [] e.call.fn = "sum" /\ ids # {} -> Val("INT64", MapThenSumSet(LAMBDA j : j, ids))

OffsetRange(e) == e.call.unit = "RANGE" /\ (IsOffset(e.call.lo) \/ IsOffset(e.call.hi))

\* An aggregate is over the rows of its frame, within the partition: by
\* position under ROWS, by peers or by key under RANGE, up to the peers of the
\* current row without a frame clause (ResolveWindowFrameRows).  Left to the
\* two properties after this one: ROWS frames that hold no row; offsets of
\* keys that are NULL or in descending order.
FramesAsDefined ==
    eval.op = "frames" /\ "rows" \in DOMAIN eval.result =>
      \A i \in DOMAIN eval.rows :
         \/ eval.call.unit = "ROWS" /\ FrameOf(eval, i) = {}
         \/ OffsetRange(eval) /\ (eval.order # <<>> => eval.order[1].desc \/ \E j \in Partition(eval, i) : eval.rows[j][2].null)
         \/ Computed(eval, i) = AggregateOf(eval, FrameOf(eval, i))

\* "ROWS: computes the window frame based on physical offsets from the current
\* row": a frame that ends before the first row or starts after the last one
\* holds no row (RowsBoundRn moves both ends into the partition).
EmptyFramesStayEmpty ==
    eval.op = "frames" /\ "rows" \in DOMAIN eval.result /\ eval.call.unit = "ROWS" =>
      \A i \in DOMAIN eval.rows : Computed(eval, i) = AggregateOf(eval, FrameOf(eval, i))

\* Every input row comes back once, partition by partition; ROW_NUMBER, RANK,
\* DENSE_RANK, LAG and LEAD count within the partition in the order asked for;
\* NTILE deals the rows into buckets as even as possible, the longer ones
\* first; PERCENTILE_CONT runs from the smallest value over the median to the
\* largest (ApplyAnalyticFunction).
NumbersWithinPartition ==
    eval.op = "numbering" /\ "rows" \in DOMAIN eval.result =>
      LET e == eval
          fn == e.call.fn
          n == e.call.n.v
          got(i) == Computed(e, i)
          keys(i) == {e.rows[j][2] : j \in {j \in Partition(e, i) : OrderSpecLess(e.order, e.rows[j], e.rows[i])}}
          at(i, p) == {j \in Partition(e, i) : Position(e, j) = p}
          bucket(i, b) == {j \in Partition(e, i) : got(j).v = b}
          away == (IF fn = "lag" THEN -1 ELSE 1) * (IF e.call.n.kind = "none" THEN 1 ELSE n)
      IN  /\ {e.result.rows[p][3].v : p \in DOMAIN e.result.rows} = DOMAIN e.rows
          /\ Len(e.result.rows) = Len(e.rows)
          /\ \A i \in DOMAIN e.rows :
               LET s == Cardinality(Partition(e, i))
               IN  CASE fn = "row_number" -> got(i).v = Position(e, i)
                     [] fn = "rank" ->
                          got(i).v = 1 + Cardinality({j \in Partition(e, i) : OrderSpecLess(e.order, e.rows[j], e.rows[i])})
                     [] fn = "dense_rank" -> got(i).v = 1 + Cardinality(keys(i))
                     [] fn = "ntile" ->
                          /\ got(i).v \in 1 .. n
                          /\ \A j \in Partition(e, i) : Position(e, j) < Position(e, i) => got(j).v <= got(i).v
                          /\ \A b \in 1 .. n - 1 : Cardinality(bucket(i, b)) - Cardinality(bucket(i, b + 1)) \in {0, 1}
                          /\ Cardinality(bucket(i, 1)) - Cardinality(bucket(i, n)) \in {0, 1}
                     [] fn \in {"lag", "lead"} ->
                          LET from == at(i, Position(e, i) + away)
                          IN  IF from = {} THEN got(i) = IF e.call.default = <<>> THEN NullOfType("INT64") ELSE e.call.default[1]
                              ELSE {got(i).v} = from
                     [] fn = "percentile_cont" ->
                          \/ e.call.n.null /\ got(i).null
                          \/ /\ n = 0 => got(i).v = Unit * Min(Partition(e, i))
                             /\ n = 4 => got(i).v = Unit * Max(Partition(e, i))
                             /\ n = 2 => IF s = 2 THEN 2 * got(i).v = Unit * Total(SetToSeq(Partition(e, i)))
                                         ELSE Cardinality({j \in Partition(e, i) : Unit * j <= got(i).v}) = (s + 1) \div 2
                     [] OTHER -> TRUE

\* A match lies within one partition and follows its order: there is one for
\* every A, it holds the run of Bs after it, and its measures are over its own
\* rows, all or those of one variable (MaterializeMatchRecognizeScan).
MatchesWithinPartition ==
    eval.op = "match" /\ "rows" \in DOMAIN eval.result =>
      LET e == [rows |-> eval.rows, order |-> eval.scan.order]
          is(i, v) == ~e.rows[i][3].null /\ e.rows[i][3].v = v
          run(i) == {j \in Partition(e, i) : Precedes(e, i, j)
                       /\ \A k \in Partition(e, i) : Precedes(e, i, k) /\ ~Precedes(e, j, k) => is(k, 2)}
          heads == {i \in DOMAIN e.rows : is(i, 1)}
          expected == [i \in heads |-> <<e.rows[i][1], Val("INT64", 1 + Cardinality(run(i))), Val("INT64", Cardinality(run(i)))>>]
          times(S, r) == Cardinality({i \in DOMAIN S : S[i] = r})
      IN  /\ Len(eval.result.rows) = Cardinality(heads)
          /\ \A p \in DOMAIN eval.result.rows :
               times(eval.result.rows, eval.result.rows[p]) = times(expected, eval.result.rows[p])

\* What a window or a pattern computes for a row depends on the row's partition,
\* in its order, and on nothing else: frames, numbering and navigation, and
\* matches (scan_eval_analytic_*.cc, scan_eval_match_recognize.cc).
WindowsWithinPartition ==
    /\ FramesAsDefined
    /\ NumbersWithinPartition
    /\ MatchesWithinPartition
=============================================================================
