--------------------------- MODULE RouteClassifier ---------------------------
(***************************************************************************)
(* Which executor a statement goes to, and whether that executor can run   *)
(* it.  Two pieces of code decide independently.                           *)
(*                                                                         *)
(* The route classifier (backend/engine/coordinator/route_classifier*.cc)  *)
(* walks the resolved tree of a statement and keeps the worst disposition  *)
(* it meets: a row of node_dispositions.yaml per node class, a row of      *)
(* functions.yaml per function, and hand-written promotions for shapes of  *)
(* a node DuckDB cannot run.                                               *)
(*                                                                         *)
(* The transpiler (backend/engine/duckdb/transpiler/) then turns a tree    *)
(* routed to DuckDB into SQL, and answers the empty string for what it     *)
(* cannot lower.  Nothing falls back to the semantic executor after the    *)
(* route is chosen, so every shape the transpiler refuses has to be        *)
(* promoted by the classifier.  The text of the SQL is left out: an        *)
(* expression is lowered to "sql", to the empty string "empty", or by the  *)
(* generic call of its table row although its own emitter passed, "misfit".*)
(*                                                                         *)
(* A node of the tree carries its class, the function (or the part, or the *)
(* subquery type) it names, its type, the set of its modifiers and its     *)
(* children.                                                               *)
(***************************************************************************)
EXTENDS SqlValues

Node(class, fn, type, mods, kids) ==
    [class |-> class, fn |-> fn, type |-> type, mods |-> mods, kids |-> kids]

ColRef(type) == Node("ColumnRef", "", type, {}, <<>>)
Lit(type, part, mods) == Node("Literal", part, type, mods, <<>>)
Fn(fn, type, kids) == Node("FunctionCall", fn, type, {}, kids)

-----------------------------------------------------------------------------
(* The disposition tables.                                                 *)

RouteClassifierPriority(d) ==
    CHOOSE p \in 0..6 :
        d = <<"duckdb_native", "duckdb_rewrite", "duckdb_udf", "control_op",
              "semantic_executor", "local_stub", "unsupported">>[p + 1]

OnDuckdb == {"duckdb_native", "duckdb_rewrite", "duckdb_udf"}

(* The rows of functions.yaml the inputs below reach; a function without a *)
(* row has the disposition "".  No row is marked planned.                  *)
LookupFunction(fn) ==
    CASE fn \in {"$extract", "date_add", "timestamp_add", "timestamp_sub"} ->
            "duckdb_udf"
      [] fn \in {"array_agg", "string_agg", "$subscript"} -> "duckdb_rewrite"
      [] fn \in {"rpad", "json_value"} -> "semantic_executor"
      [] fn = "keys.new_keyset" -> "local_stub"
      [] fn = "array_transform" -> "unsupported"
      [] fn \in {"array_concat_agg", "$count_star", "$case_no_value",
                 "$make_array", "sql_udf"} -> ""
      [] OTHER -> "duckdb_native"

(* The rows of node_dispositions.yaml.                                     *)
LookupNodeDisposition(class) ==
    CASE class \in {"InsertStmt", "UpdateStmt", "DeleteStmt", "MergeStmt",
                    "CallStmt", "TVFScan"} -> "semantic_executor"
      [] class \in {"MakeStruct", "GetStructField", "GetJsonField",
                    "PivotScan"} -> "duckdb_rewrite"
      [] class \in {"CreateTableStmt", "TruncateStmt"} -> "control_op"
      [] class = "CreateModelStmt" -> "local_stub"
      [] class \in {"ExplainStmt", "GraphTableScan"} -> "unsupported"
      [] class \in {"InsertRow", "ComputedColumn"} -> ""
      [] OTHER -> "duckdb_native"

-----------------------------------------------------------------------------
(* Dates and intervals: shapes both sides have to agree on.                *)

DateParts == {"DAY", "MONTH", "HOUR"}

(* A literal whose value is a part: an enum, its number or its name.       *)
TryIntervalPartEnum(e) == IF e.class = "Literal" THEN e.fn ELSE ""

(* The part and the position of the amount of an $interval call; <<>> when *)
(* none or both of its arguments read as a part.                           *)
TryDecomposeIntervalArgs(e) ==
    LET part(i) == TryIntervalPartEnum(e.kids[i])
    IN  IF e.class # "FunctionCall" \/ e.fn # "$interval" \/ Len(e.kids) # 2
        THEN <<>>
        ELSE IF part(1) # "" /\ part(2) = "" THEN <<part(1), 2>>
        ELSE IF part(1) = "" /\ part(2) # "" THEN <<part(2), 1>>
        ELSE <<>>

IsFixedWidthTimestampPart(part) == part \in {"DAY", "HOUR"}

(* An INTERVAL literal without months and without nanoseconds.             *)
TryLiteralIntervalMicros(e) ==
    e.class = "Literal" /\ e.type = "INTERVAL"
        /\ e.mods \cap {"null", "months", "nanos"} = {}

(* Leaves the three-argument form out.                                     *)

(* Forgets the width of the part.                                          *)
LowersAnyPart(e) ==
    \/ Len(e.kids) = 3 /\ TryIntervalPartEnum(e.kids[3]) # ""
    \/ /\ Len(e.kids) = 2
       /\ \/ TryLiteralIntervalMicros(e.kids[2])
          \/ TryDecomposeIntervalArgs(e.kids[2]) # <<>>

CanLowerTimestampAddSub(e) ==
    CASE Len(e.kids) = 3 ->
            IsFixedWidthTimestampPart(TryIntervalPartEnum(e.kids[3]))
      [] Len(e.kids) = 2 ->
            LET iv == TryDecomposeIntervalArgs(e.kids[2])
            IN  \/ TryLiteralIntervalMicros(e.kids[2])
                \/ iv # <<>> /\ IsFixedWidthTimestampPart(iv[1])
      [] OTHER -> FALSE

-----------------------------------------------------------------------------
(* The classifier.  A visitor holds the worst disposition so far and the   *)
(* node that brought it.                                                   *)

NewVisitor == [disposition |-> "duckdb_native", offending |-> ""]

Promotion(d, name) == [disposition |-> d, offending |-> name]

(* The last promotion wins.                                                *)

MaybePromote(v, p) ==
    IF p.disposition # "" /\ RouteClassifierPriority(p.disposition)
                              > RouteClassifierPriority(v.disposition)
    THEN p ELSE v

DecimalTypes == {"NUMERIC", "BIGNUMERIC"}

DecimalArithmeticNeedsSemantic(fn, type) ==
    \/ fn = "$divide" /\ type \in DecimalTypes
    \/ fn \in {"$add", "$subtract", "$multiply"} /\ type = "BIGNUMERIC"

InListArgTypeIsDuckdbSafe(type) ==
    type \in {"INT64", "BOOL", "DOUBLE", "STRING", "BYTES", "DATE", "TIMESTAMP"}

InListNeedsSemantic(e) ==
    \E i \in DOMAIN e.kids : ~InListArgTypeIsDuckdbSafe(e.kids[i].type)

(* The disposition a call's function asks for; "" is no promotion.         *)
CheckFunction(e) ==
    IF e.fn = "sql_udf" THEN "semantic_executor"
    ELSE IF LookupFunction(e.fn) = "" THEN ""
    ELSE IF \/ /\ e.fn = "avg"
               /\ e.class = "AggregateFunctionCall"
               /\ \E i \in DOMAIN e.kids : e.kids[i].type \in DecimalTypes
            \/ /\ e.class = "FunctionCall"
               /\ DecimalArithmeticNeedsSemantic(e.fn, e.type)
            \/ /\ e.class = "FunctionCall"
               /\ e.fn \in {"timestamp_add", "timestamp_sub"}
               /\ ~CanLowerTimestampAddSub(e)
            \/ e.class = "FunctionCall" /\ e.fn = "$in" /\ InListNeedsSemantic(e)
    THEN "semantic_executor"
    ELSE LookupFunction(e.fn)

(* A RANGE frame with a numeric offset over a DATE or TIMESTAMP order: the *)
(* window's order type is the type of the scan node.                       *)
AnalyticScanHasDateTimestampNumericRangeFrame(e) ==
    e.type \in {"DATE", "TIMESTAMP"} /\ "range_offset" \in e.mods

IsScalarOnlySelect(e) ==
    e.kids[1].class = "ProjectScan" /\ e.kids[1].kids[1].class = "SingleRowScan"

(* A MERGE with clauses DuckDB cannot run; fn lists the clauses.           *)
MergeRequiresSemanticExecutor(e) ==
    "by_source" \in e.mods \/ "repeated" \in e.mods

ArrayExprReferencesNamedConstant(e) == e.class \in {"ArgumentRef", "Constant"}

(* The modifiers of a node that keep it from DuckDB.                       *)
ExtendedModifiers(class) ==
    CASE class = "AggregateFunctionCall" -> {"having", "multi_level", "safe"}
      [] class = "SampleScan" -> {"weight", "partition"}
      [] class = "JoinScan" -> {"lateral"}
      [] class = "ArrayScan" -> {"offset", "outer", "zip", "join_expr"}
      [] class = "Cast" -> {"format", "time_zone", "extended", "type_modifiers"}
      [] class = "OrderByScan" -> {"collation"}
      [] class = "QueryStmt" -> {"value_table"}
      [] class = "SubqueryExpr" -> {"correlated"}
      [] class = "UpdateStmt" -> {"returning", "from"}
      [] class \in {"InsertStmt", "DeleteStmt"} -> {"returning"}
      [] OTHER -> {}

(* The shapes of a node that keep it from DuckDB.                          *)
NeedsSemantic(e) ==
    \/ e.mods \cap ExtendedModifiers(e.class) # {}
    \/ e.class = "QueryStmt" /\ IsScalarOnlySelect(e)
    \/ /\ e.class = "AnalyticFunctionCall"
       /\ \E i \in DOMAIN e.kids : e.kids[i].class = "AggregateFunctionCall"
    \/ /\ e.class = "AnalyticScan"
       /\ \/ e.kids[1].class = "AggregateScan"
          \/ AnalyticScanHasDateTimestampNumericRangeFrame(e)
    \/ /\ e.class = "SubqueryExpr"
       /\ \/ e.fn = "LIKE_ANY"
          \/ e.fn = "IN" /\ e.kids[1].class = "ArrayScan"
    \/ e.class = "ArrayScan" /\ ArrayExprReferencesNamedConstant(e.kids[1])
    \/ e.class = "MergeStmt" /\ MergeRequiresSemanticExecutor(e)

IsCall(e) ==
    e.class \in {"FunctionCall", "AggregateFunctionCall", "AnalyticFunctionCall"}

(* What one node adds to the walk, in the order its visitor asks for it.   *)
Promotions(e) ==
    (IF IsCall(e) THEN <<Promotion(CheckFunction(e), e.fn)>> ELSE <<>>)
    \o (IF e.class = "TVFScan"
        THEN <<Promotion(LookupFunction(e.fn), e.fn)>> ELSE <<>>)
    \o (IF NeedsSemantic(e)
        THEN <<Promotion("semantic_executor", e.class)>> ELSE <<>>)

CheckNodeClass(e) == Promotion(LookupNodeDisposition(e.class), e.class)

(* The promotions a walk of e asks for, one after the other.               *)
RECURSIVE DefaultVisit(_)

Accept(v, e) == FoldLeft(MaybePromote, v, DefaultVisit(e))

(* INSERT ... SELECT takes the disposition of its query when DuckDB can    *)
(* run it, instead of the semantic executor of its own class.              *)
VisitResolvedInsertStmt(e) ==
    LET select(inner) ==
            IF e.kids[1].class # "InsertRow" /\ inner \in OnDuckdb
            THEN <<Promotion(inner, "InsertStmt(SELECT)")>>
            ELSE <<CheckNodeClass(e)>> \o DefaultVisit(e.kids[1])
    IN  Promotions(e) \o select(Accept(NewVisitor, e.kids[1]).disposition)

DefaultVisit(e) ==
    IF e.class = "InsertStmt" THEN VisitResolvedInsertStmt(e)
    ELSE Promotions(e) \o <<CheckNodeClass(e)>>
         \o FlattenSeq([i \in DOMAIN e.kids |-> DefaultVisit(e.kids[i])])

DmlRootNeedsClassifierWalk(class) ==
    class \in {"InsertStmt", "UpdateStmt", "DeleteStmt"}

Classify(stmt) ==
    LET root == LookupNodeDisposition(stmt.class)
    IN  IF \/ root \in {"control_op", "local_stub", "unsupported"}
           \/ /\ root = "semantic_executor"
              /\ ~DmlRootNeedsClassifierWalk(stmt.class)
        THEN Promotion(root, stmt.class)
        ELSE Accept(NewVisitor, stmt)

-----------------------------------------------------------------------------
(* The transpiler's gates.                                                 *)

When(ok) == IF ok THEN "sql" ELSE "empty"

TryEmitInternalOperator(fn, n) ==
    CASE fn \in {"$not", "$is_null"} -> n = 1
      [] fn \in {"$in", "$and"} -> n >= 2
      [] fn = "$interval" -> FALSE
      [] OTHER -> n = 2

TryEmitSubscript(e) ==
    \/ e.kids[2].type = "INT64"
    \/ "JSON" \in {e.kids[1].type, e.type}

(* LPAD and RPAD; the STRING form of LPAD with a pattern has no branch.    *)
TryEmitPadFunction(e) ==
    IF e.kids[1].type = "BYTES" THEN Len(e.kids) \in {2, 3}
    ELSE Len(e.kids) = 2 \/ (e.fn = "rpad" /\ Len(e.kids) = 3)

(* "pass" leaves the call to its row of the table.                         *)
TryEmitBuiltinSpecialCase(e) ==
    CASE e.fn = "$make_array" -> "sql"
      [] e.fn = "$case_no_value" -> When(Len(e.kids) % 2 = 1)
      [] e.fn = "generate_array" -> When(Len(e.kids) \in {2, 3})
      [] e.fn = "date" /\ Len(e.kids) = 3 -> "sql"
      [] e.fn = "sqrt" /\ e.kids[1].type \in DecimalTypes -> "empty"
      [] e.fn \in {"lpad", "rpad"} ->
            IF TryEmitPadFunction(e) THEN "sql"
            ELSE IF e.fn = "lpad" \/ e.kids[1].type = "BYTES" THEN "empty"
            ELSE "pass"
      [] e.fn = "right" /\ e.kids[1].type = "BYTES" -> "sql"
      [] e.fn = "$subscript" /\ Len(e.kids) = 2 /\ TryEmitSubscript(e) -> "sql"
      [] OTHER -> "pass"

(* The call by its row: an operator, or the DuckDB name applied to the     *)
(* arguments.  $interval and $subscript have no such DuckDB function.      *)
EmitDispositionFunctionCall(e) ==
    IF LookupFunction(e.fn) \notin OnDuckdb THEN "empty"
    ELSE IF e.fn \in {"$interval", "$subscript"} THEN "misfit"
    ELSE IF e.fn \in {"$not", "$is_null", "$in", "$and", "$add", "$divide"}
    THEN IF TryEmitInternalOperator(e.fn, Len(e.kids)) THEN "sql" ELSE "misfit"
    ELSE "sql"

IsCastTargetSupported(type) == type \notin {"GEOGRAPHY", "RANGE", "ENUM"}

CastHasUnsupportedFeatures(e) ==
    \/ e.mods \cap {"format", "time_zone", "extended", "type_modifiers"} # {}
    \/ ~IsCastTargetSupported(e.type)

SupportsOrderedAggregateModifiers(fn) ==
    fn \in {"array_agg", "string_agg", "array_concat_agg"}

SupportsAnalyticNullHandling(fn) ==
    fn \in {"first_value", "last_value", "nth_value"}

RejectUnsupportedAggregateModifiers(e) ==
    \/ e.mods \cap {"having", "multi_level", "safe"} # {}
    \/ /\ ~SupportsOrderedAggregateModifiers(e.fn)
       /\ e.mods \cap {"order", "limit", "ignore_nulls", "respect_nulls"} # {}
    \/ SupportsOrderedAggregateModifiers(e.fn) /\ "respect_nulls" \in e.mods

RECURSIVE LowerExpr(_)

EmitsAll(kids) == \A i \in DOMAIN kids : LowerExpr(kids[i]) # "empty"

(* EXTRACT: exactly one argument reads as the part.                        *)
TryEmitExtractCall(e) ==
    LET part(i) == TryIntervalPartEnum(e.kids[i]) # ""
        value == IF part(1) THEN 2 ELSE 1
    IN  IF part(1) # part(2) /\ LowerExpr(e.kids[value]) # "empty"
        THEN "sql" ELSE "pass"

TryEmitDateAddCall(e) ==
    LET iv == TryDecomposeIntervalArgs(e.kids[2])
    IN  IF \/ /\ Len(e.kids) = 3
              /\ EmitsAll(SubSeq(e.kids, 1, 2))
              /\ TryIntervalPartEnum(e.kids[3]) # ""
           \/ /\ Len(e.kids) = 2
              /\ LowerExpr(e.kids[1]) # "empty"
              /\ iv # <<>>
              /\ LowerExpr(e.kids[2].kids[iv[2]]) # "empty"
        THEN "sql" ELSE "pass"

TryEmitIntervalCall(e) ==
    LET iv == TryDecomposeIntervalArgs(e)
    IN  IF iv # <<>> /\ LowerExpr(e.kids[iv[2]]) # "empty" THEN "sql" ELSE "pass"

(* Never passes: the generic call would have the wrong number of arguments.*)
EmitTimestampAddSubCall(e) ==
    LET iv == TryDecomposeIntervalArgs(e.kids[2])
        byCall == /\ iv # <<>>
                  /\ IsFixedWidthTimestampPart(iv[1])
                  /\ LowerExpr(e.kids[2].kids[iv[2]]) # "empty"
    IN  CASE Len(e.kids) = 3 ->
                When(/\ EmitsAll(SubSeq(e.kids, 1, 2))
                     /\ IsFixedWidthTimestampPart(TryIntervalPartEnum(e.kids[3])))
          [] Len(e.kids) = 2 ->
                When(/\ LowerExpr(e.kids[1]) # "empty"
                     /\ TryLiteralIntervalMicros(e.kids[2]) \/ byCall)
          [] OTHER -> "empty"

TryEmitDateTimeFunctionCall(e) ==
    CASE e.fn = "$extract" -> TryEmitExtractCall(e)
      [] e.fn = "date_add" -> TryEmitDateAddCall(e)
      [] e.fn \in {"timestamp_add", "timestamp_sub"} -> EmitTimestampAddSubCall(e)
      [] e.fn = "$interval" -> TryEmitIntervalCall(e)
      [] OTHER -> "pass"

(* A date function whose emitter passed is called with arguments its macro *)
(* does not take.                                                          *)
EmitFunctionCall(e) ==
    LET dated == TryEmitDateTimeFunctionCall(e)
        special == TryEmitBuiltinSpecialCase(e)
        generic == EmitDispositionFunctionCall(e)
    IN  IF "safe" \in e.mods THEN "empty"
        ELSE IF dated # "pass" THEN dated
        ELSE IF ~EmitsAll(e.kids) THEN "empty"
        ELSE IF special # "pass" THEN special
        ELSE IF e.fn \in {"$extract", "date_add"} THEN "misfit"
        ELSE generic

(* STRING_AGG(DISTINCT) needs an order or a limit.                         *)
EmitAggregateFunctionCall(e) ==
    When(/\ ~RejectUnsupportedAggregateModifiers(e)
         /\ EmitsAll(e.kids)
         /\ ~(/\ e.fn = "string_agg" /\ "distinct" \in e.mods
              /\ e.mods \cap {"order", "limit"} = {})
         /\ \/ e.fn \in {"$count_star", "array_concat_agg"}
            \/ LookupFunction(e.fn) \in OnDuckdb)

EmitAnalyticFunctionCall(e) ==
    When(/\ "safe" \notin e.mods
         /\ \/ e.mods \cap {"ignore_nulls", "respect_nulls"} = {}
            \/ e.fn = "percentile_disc"
            \/ SupportsAnalyticNullHandling(e.fn)
         /\ EmitsAll(e.kids)
         /\ e.fn = "$count_star" \/ LookupFunction(e.fn) \in OnDuckdb)

EmitCast(e) == When(~CastHasUnsupportedFeatures(e) /\ EmitsAll(e.kids))

(* A typed parameter takes a slot; an untyped one has no placeholder.      *)
EmitParameter(e) == When("untyped" \notin e.mods)

EmitMakeStruct(e) == When(EmitsAll(e.kids))

EmitGetJsonField(e) == When(EmitsAll(e.kids))

(* WITH(name AS value, ...) body becomes a scalar subquery.                *)
EmitWithExpr(e) == When(Len(e.kids) > 1 /\ EmitsAll(e.kids))

LowerExpr(e) ==
    CASE e.class \in {"Literal", "ColumnRef"} -> "sql"
      [] e.class = "FunctionCall" ->
            IF e.fn = "sql_udf" THEN LowerExpr(e.kids[1]) ELSE EmitFunctionCall(e)
      [] e.class = "AggregateFunctionCall" -> EmitAggregateFunctionCall(e)
      [] e.class = "AnalyticFunctionCall" -> EmitAnalyticFunctionCall(e)
      [] e.class = "Cast" -> EmitCast(e)
      [] e.class = "Parameter" -> EmitParameter(e)
      [] e.class = "MakeStruct" -> EmitMakeStruct(e)
      [] e.class = "GetJsonField" -> EmitGetJsonField(e)
      [] e.class = "WithExpr" -> EmitWithExpr(e)
      [] OTHER -> "empty"

-----------------------------------------------------------------------------
(* Expressions the analyzer produces.                                      *)

Day == Lit("ENUM", "DAY", {})
Amounts == {Lit("INT64", "", {}),       \* a number that is no part
            Lit("INT64", "DAY", {}),    \* the number of a part
            ColRef("INT64")}
PartLits == {Lit("ENUM", p, {}) : p \in DateParts}
Intervals ==
    {Lit("INTERVAL", "", m) : m \in {{}, {"months"}, {"nanos"}, {"null"}}}
    \union {Fn("$interval", "INTERVAL", <<a, p>>) : a \in Amounts, p \in PartLits}
    \union {ColRef("INTERVAL")}

Dated ==
    {Fn(f, "TIMESTAMP", <<ColRef("TIMESTAMP"), a, p>>) :
        f \in {"timestamp_add", "timestamp_sub"}, a \in Amounts, p \in PartLits}
    \union {Fn(f, "TIMESTAMP", <<ColRef("TIMESTAMP"), i>>) :
        f \in {"timestamp_add", "timestamp_sub"}, i \in Intervals}
    \union {Fn("date_add", "DATE", <<ColRef("DATE"), a, p>>) :
        a \in Amounts, p \in PartLits}
    \union {Fn("$extract", "INT64", <<ColRef("DATE"), p>>) : p \in PartLits}

Plain ==
    {Fn(f, t, <<ColRef(t), ColRef(t)>>) :
        f \in {"$add", "$divide"}, t \in {"INT64", "NUMERIC", "BIGNUMERIC"}}
    \union {Fn("$in", "BOOL", <<ColRef(t), ColRef(t)>>) :
        t \in {"INT64", "STRING", "NUMERIC", "STRUCT"}}
    \union {Fn("sqrt", t, <<ColRef(t)>>) : t \in {"DOUBLE", "NUMERIC"}}
    \union {Fn(f, t, <<ColRef(t), ColRef("INT64")>>) :
        f \in {"lpad", "rpad", "right"}, t \in {"STRING", "BYTES"}}
    \union {Fn(f, t, <<ColRef(t), ColRef("INT64"), ColRef(t)>>) :
        f \in {"lpad", "rpad"}, t \in {"STRING", "BYTES"}}
    \union {Fn("$subscript", "JSON", <<ColRef("JSON"), ColRef(t)>>) :
        t \in {"INT64", "STRING"}}
    \union {Fn("$subscript", "INT64", <<ColRef("ARRAY"), ColRef("INT64")>>),
            Fn("$make_array", "ARRAY", <<ColRef("INT64")>>),
            Fn("generate_array", "ARRAY", <<ColRef("INT64"), ColRef("INT64")>>),
            Fn("$not", "BOOL", <<ColRef("BOOL")>>),
            Fn("$case_no_value", "INT64", <<ColRef("BOOL"), ColRef("INT64"), ColRef("INT64")>>),
            Fn("json_value", "STRING", <<ColRef("JSON")>>),
            Fn("keys.new_keyset", "BYTES", <<ColRef("STRING")>>),
            Fn("array_transform", "ARRAY", <<ColRef("ARRAY")>>),
            Node("GetJsonField", "k", "JSON", {}, <<ColRef("JSON")>>),
            Node("Parameter", "p", "INT64", {}, <<>>),
            Node("Parameter", "p", "INT64", {"untyped"}, <<>>)}
    \union {Node("Cast", "", t, m, <<ColRef("STRING")>>) :
        t \in {"INT64", "GEOGRAPHY"}, m \in {{}, {"format"}, {"type_modifiers"}}}

Safely(e) == [e EXCEPT !.mods = @ \union {"safe"}]

(* One operation, and one operation inside another.                        *)
Scalars1 ==
    Dated \union Plain
    \union {Safely(Fn("$add", "INT64", <<ColRef("INT64"), ColRef("INT64")>>))}

Wrapped(e) ==
    {Fn("$is_null", "BOOL", <<e>>),
     Fn("sql_udf", "INT64", <<e>>),
     Node("MakeStruct", "", "STRUCT", {}, <<ColRef("INT64"), e>>),
     Node("Cast", "", "STRING", {}, <<e>>),
     Node("WithExpr", "", e.type, {}, <<e, ColRef(e.type)>>),
     Fn("timestamp_add", "TIMESTAMP", <<ColRef("TIMESTAMP"), e, Day>>),
     Fn("timestamp_add", "TIMESTAMP",
        <<ColRef("TIMESTAMP"), Fn("$interval", "INTERVAL", <<e, Day>>)>>),
     Fn("date_add", "DATE", <<ColRef("DATE"), e, Day>>)}

ScalarCalls == Scalars1 \union UNION {Wrapped(e) : e \in Scalars1}

NullModes == {{}, {"ignore_nulls"}, {"respect_nulls"}}

Aggregates ==
    {Node("AggregateFunctionCall", f, t, m \union n, <<ColRef(t)>>) :
        f \in {"sum", "avg", "array_agg", "string_agg", "array_concat_agg"},
        t \in {"INT64", "NUMERIC"},
        m \in SUBSET {"distinct", "order"} \union {{"limit"}, {"having"}, {"safe"}},
        n \in NullModes}
    \union {Node("AggregateFunctionCall", "$count_star", "INT64", {}, <<>>)}

Windows ==
    {Node("AnalyticFunctionCall", f, "INT64", m \union n, <<ColRef("INT64")>>) :
        f \in {"sum", "first_value", "percentile_disc", "lag"},
        m \in {{}, {"safe"}}, n \in NullModes}

Tab == Node("TableScan", "", "", {}, <<>>)
Project(input, e) == Node("ProjectScan", "", "", {}, <<input, e>>)
Query(scan) == Node("QueryStmt", "", "", {}, <<scan>>)

-----------------------------------------------------------------------------
(* Calls.                                                                  *)

(* Routes one expression of a query over a table and lowers it.            *)
RouteResult(stmt, e) ==
    [op |-> "route", stmt |-> stmt, expr |-> e,
     route |-> Classify(stmt), emitted |-> LowerExpr(e)]

CallRouteScalar ==
    \E e \in ScalarCalls : eval' = RouteResult(Query(Project(Tab, e)), e)

CallRouteAggregate ==
    \E e \in Aggregates :
        eval' = RouteResult(
            Query(Node("AggregateScan", "", "", {}, <<Tab, e>>)), e)

CallRouteWindow ==
    \E e \in Windows, order \in {"INT64", "DATE"}, m \in {{}, {"range_offset"}} :
        eval' = RouteResult(
            Query(Node("AnalyticScan", "", order, m, <<Tab, e>>)), e)

(* INSERT ... SELECT e FROM t, with or without RETURNING.                  *)
CallRouteInsert ==
    \E e \in Scalars1, m \in {{}, {"returning"}} :
        eval' = RouteResult(
            Node("InsertStmt", "", "", m, <<Project(Tab, e)>>), e)

(* Statements whose scans or classes decide.                               *)
CallRouteStatement ==
    \E e \in {ColRef("INT64")}
            \union {Fn(f, "INT64", <<ColRef("INT64")>>) :
                        f \in {"keys.new_keyset", "array_transform"}} :
    \E scan \in {Project(Node("SingleRowScan", "", "", {}, <<>>), e),
                 Project(Node("TVFScan", "json_value", "", {}, <<>>), e),
                 Project(Node("PivotScan", "", "", {}, <<Tab>>), e)}
            \union {Node("JoinScan", "", "", m, <<Tab, Tab, e>>) :
                        m \in {{}, {"lateral"}}}
            \union {Node("SampleScan", "", "", m, <<Tab>>) :
                        m \in {{}, {"weight"}, {"partition"}}}
            \union {Node("ArrayScan", "", "", m, <<a, e>>) :
                        m \in {{}, {"offset"}, {"outer"}},
                        a \in {ColRef("ARRAY"), Node("Constant", "v", "ARRAY", {}, <<>>)}} :
    \E stmt \in {Query(scan), [Query(scan) EXCEPT !.mods = {"value_table"}]}
            \union {Node(c, "", "", m, <<scan>>) :
                        c \in {"InsertStmt", "UpdateStmt", "DeleteStmt",
                               "CreateTableStmt", "CreateModelStmt",
                               "ExplainStmt", "CallStmt"},
                        m \in {{}, {"returning"}}}
            \union {Node("MergeStmt", "", "", m, <<Tab, scan>>) :
                        m \in {{}, {"by_source"}, {"repeated"}}} :
        eval' = [op |-> "stmt", stmt |-> stmt, route |-> Classify(stmt)]

RouteInit == eval = NoCall

RouteNext ==
    \/ eval = NoCall /\ CallRouteScalar
    \/ eval = NoCall /\ CallRouteAggregate
    \/ eval = NoCall /\ CallRouteWindow
    \/ eval = NoCall /\ CallRouteInsert
    \/ eval = NoCall /\ CallRouteStatement

-----------------------------------------------------------------------------
(* Properties.                                                             *)

RECURSIVE NodesOf(_)
NodesOf(e) == {e} \union UNION {NodesOf(e.kids[i]) : i \in DOMAIN e.kids}

Routed == eval.op = "route" /\ eval.route.disposition \in OnDuckdb

(* The shapes the transpiler refuses although no promotion names them:     *)
(* SAFE. on a scalar or a window function, SQRT over a decimal, LPAD of    *)
(* strings with a pattern, an order, a limit or a treatment of NULLs on a  *)
(* function that does not support it, DISTINCT in STRING_AGG, a cast to a  *)
(* type DuckDB has not, an untyped parameter.                              *)
Gap(e) ==
    \/ "safe" \in e.mods /\ e.class \in {"FunctionCall", "AnalyticFunctionCall"}
    \/ e.fn = "sqrt" /\ e.kids[1].type \in DecimalTypes
    \/ e.fn = "lpad" /\ Len(e.kids) = 3 /\ e.kids[1].type # "BYTES"
    \/ /\ e.class = "AggregateFunctionCall"
       /\ \/ /\ e.mods \cap {"order", "limit", "ignore_nulls"} # {}
             /\ ~SupportsOrderedAggregateModifiers(e.fn)
          \/ "respect_nulls" \in e.mods
          \/ e.fn = "string_agg" /\ "distinct" \in e.mods
    \/ e.class = "AnalyticFunctionCall" /\ e.mods # {}
    \/ e.class = "Cast" /\ e.type = "GEOGRAPHY"
    \/ "untyped" \in e.mods

(* What the classifier sends to DuckDB the transpiler lowers: apart from   *)
(* the named gaps, no shape it refuses gets past the classifier, at any    *)
(* depth and in any statement (route_classifier_functions.cc: "the DuckDB  *)
(* executor has no fallback once routed").                                 *)
RoutedIsLowered ==
    Routed => \/ eval.emitted = "sql"
              \/ \E e \in NodesOf(eval.expr) : Gap(e)

(* The classifier's copy of the accepted TIMESTAMP_ADD / TIMESTAMP_SUB     *)
(* shapes refuses nothing the emitter would have lowered: a promotion to   *)
(* the semantic executor for the shape of an interval is needed.           *)
TimestampShapesMirror ==
    eval.op = "route" /\ eval.expr.fn \in {"timestamp_add", "timestamp_sub"}
        /\ eval.emitted = "sql"
        => CanLowerTimestampAddSub(eval.expr)

(* The worst node decides, wherever it stands in the statement: a routed   *)
(* statement holds no node whose own row, function or shape asks for more  *)
(* than its route, and a node that asks for a route exists (ENGINE_POLICY  *)
(* rule 2).  Roots that decide alone, and INSERT ... SELECT, which drops   *)
(* its own row, are the exceptions.                                        *)
WorstNodeDecides ==
    eval.op \in {"route", "stmt"} =>
    LET own(e) == {LookupNodeDisposition(e.class)}
                  \union {Promotions(e)[i].disposition : i \in DOMAIN Promotions(e)}
        all == UNION {own(e) : e \in NodesOf(eval.stmt)} \ {""}
        inner == UNION {own(e) : e \in NodesOf(eval.stmt.kids[1])} \ {""}
        asked == IF eval.stmt.class = "InsertStmt" /\ inner \subseteq OnDuckdb
                 THEN inner \union {Promotions(eval.stmt)[i].disposition :
                                      i \in DOMAIN Promotions(eval.stmt)}
                 ELSE all
        worst == CHOOSE d \in asked : \A c \in asked :
                     RouteClassifierPriority(c) <= RouteClassifierPriority(d)
    IN  \/ eval.route.disposition = worst
        \/ /\ eval.route.disposition = LookupNodeDisposition(eval.stmt.class)
           /\ ~DmlRootNeedsClassifierWalk(eval.stmt.class)
           /\ eval.route.disposition \notin OnDuckdb

\* The route a statement takes can serve it: what the classifier sends to DuckDB
\* the transpiler lowers, shape by shape, and the least capable engine any
\* node asks for decides for the whole statement (RouteClassifier::Classify).
RoutesSound ==
    /\ RoutedIsLowered
    /\ TimestampShapesMirror
    /\ WorstNodeDecides
=============================================================================
