--------------------------- MODULE SqlExpressions ---------------------------
(***************************************************************************)
(* The row-at-a-time expression evaluator of the semantic executor         *)
(* (backend/engine/semantic/eval_expr*.cc, functions/operator_*.cc): what  *)
(* EvalExpr returns for an expression of the analyzer, with its values,    *)
(* its NULLs and its errors.                                               *)
(***************************************************************************)
EXTENDS SqlValues

CONSTANT MaxLike         \* longest string and pattern given to LIKE

-----------------------------------------------------------------------------
(* Arithmetic: eval_expr_operators.cc and eval_expr_numeric.cc.              *)

\* AddInt64, SubInt64, MulInt64 and WrapNumeric: exact or kOverflow.
Checked(k, n) == IF InRange(k, n) THEN Val(k, n) ELSE MakeSemanticError("kOverflow")

EitherKind(a, b, k) == k \in {a.kind, b.kind}

CoerceToNumeric(k, a) ==
    CASE a.kind = k -> a
      [] a.kind = "NUMERIC" /\ k = "BIGNUMERIC" -> Val(k, a.v)
      [] a.kind = "INT64" -> Val(k, a.v * Unit)
      [] OTHER -> Invalid

\* TryPromotedNumeric*: BIGNUMERIC wins over NUMERIC; neither takes a FLOAT64.
PromotedKind(a, b) ==
    IF EitherKind(a, b, "BIGNUMERIC") THEN "BIGNUMERIC"
    ELSE IF EitherKind(a, b, "NUMERIC") THEN "NUMERIC"
    ELSE IF a.kind = b.kind /\ a.kind \in {"INT64", "FLOAT64"} THEN a.kind ELSE "none"

Arithmetic(a, b, Op(_, _, _)) ==
    LET of(k, x, y) == IF Ok(x) /\ Ok(y) THEN Op(k, x.v, y.v) ELSE Invalid
        as(k) == IF k = "none" THEN Invalid ELSE of(k, CoerceToNumeric(k, a), CoerceToNumeric(k, b))
    IN  as(PromotedKind(a, b))

Plus(k, x, y) == Checked(k, x + y)

Minus(k, x, y) == Checked(k, x - y)

Times(k, x, y) == Checked(k, IF k = "INT64" THEN x * y ELSE RoundDiv(x * y, Unit))

Over(k, x, y) ==
    IF k = "INT64" THEN Invalid
    ELSE IF y = 0 THEN MakeSemanticError("kDivisionByZero")
    ELSE Checked(k, RoundDiv(x * Unit, y))

\* What a date, a datetime or a timestamp may be moved by, and to what: dates
\* count days, the others half days.
AddTable ==
    [DATE_INT64 |-> "DATE", DATE_INTERVAL |-> "DATETIME",
     DATETIME_INTERVAL |-> "DATETIME", TIMESTAMP_INTERVAL |-> "TIMESTAMP"]

SubTable ==
    [DATE_INT64 |-> "DATE", DATE_DATE |-> "INTERVAL", DATETIME_DATETIME |-> "INTERVAL",
     TIMESTAMP_TIMESTAMP |-> "INTERVAL", DATETIME_INTERVAL |-> "DATETIME",
     TIMESTAMP_INTERVAL |-> "TIMESTAMP"]

Pair(a, b) ==
    CASE a.kind = "DATE" /\ b.kind = "INT64" -> "DATE_INT64"
      [] a.kind = "DATE" /\ b.kind = "DATE" -> "DATE_DATE"
      [] a.kind = "DATE" /\ b.kind = "INTERVAL" -> "DATE_INTERVAL"
      [] a.kind = "DATETIME" /\ b.kind = "DATETIME" -> "DATETIME_DATETIME"
      [] a.kind = "DATETIME" /\ b.kind = "INTERVAL" -> "DATETIME_INTERVAL"
      [] a.kind = "TIMESTAMP" /\ b.kind = "TIMESTAMP" -> "TIMESTAMP_TIMESTAMP"
      [] a.kind = "TIMESTAMP" /\ b.kind = "INTERVAL" -> "TIMESTAMP_INTERVAL"
      [] OTHER -> "none"

HalfDays(a, to) == IF a.kind = "DATE" /\ to # "DATE" THEN 2 * a.v ELSE a.v

ArithmeticAdd(a, b) ==
    LET moved(to) == Val(to, HalfDays(a, to) + b.v)
    IN  IF Pair(a, b) \in DOMAIN AddTable THEN moved(AddTable[Pair(a, b)]) ELSE Arithmetic(a, b, Plus)

ArithmeticSub(a, b) ==
    LET moved(to) == Val(to, HalfDays(a, to) - HalfDays(b, to))
    IN  IF Pair(a, b) \in DOMAIN SubTable THEN moved(SubTable[Pair(a, b)]) ELSE Arithmetic(a, b, Minus)

ArithmeticMul(a, b) == Arithmetic(a, b, Times)

ArithmeticDiv(a, b) == Arithmetic(a, b, Over)

UnaryMinus(a) ==
    IF a.kind \in {"INT64", "FLOAT64", "NUMERIC", "BIGNUMERIC"} THEN Checked(a.kind, -a.v) ELSE Invalid

\* ABS negates an INT64 without a check: the smallest one wraps to itself.
DispatchAbs(a) ==
    CASE a.kind = "INT64" -> Val("INT64", IF -a.v \in Int64 THEN Abs(a.v) ELSE a.v)
      [] a.kind \in {"FLOAT64", "NUMERIC", "BIGNUMERIC"} -> Checked(a.kind, Abs(a.v))
      [] OTHER -> Invalid

-----------------------------------------------------------------------------
(* The integer and rounding functions of operator_math_funcs.cc.             *)

\* DIV and MOD of the smallest INT64 by -1 have no check in front of the
\* machine's division, which traps.
Traps(a, b) == -a.v \notin Int64 /\ b.v = -1

Div(a, b) ==
    IF a.kind # "INT64" \/ b.kind # "INT64" THEN Invalid
    ELSE IF b.v = 0 THEN MakeSemanticError("kDivisionByZero")
    ELSE IF Traps(a, b) THEN MakeSemanticError("trap")
    ELSE Val("INT64", Quot(a.v, b.v))

FloorRemainder(x, y) ==
    LET signed(r) == IF (r < 0 /\ y > 0) \/ (r > 0 /\ y < 0) THEN r + y ELSE r IN signed(Rem(x, y))

ModDecimal(k, x, y) ==
    IF y = 0 THEN MakeSemanticError("kDivisionByZero") ELSE Checked(k, Rem(x, y))

Mod(a, b) ==
    IF EitherKind(a, b, "NUMERIC") \/ EitherKind(a, b, "BIGNUMERIC") THEN Arithmetic(a, b, ModDecimal)
    ELSE IF a.kind # "INT64" \/ b.kind # "INT64" THEN Invalid
    ELSE IF b.v = 0 THEN MakeSemanticError("kDivisionByZero")
    ELSE IF Traps(a, b) THEN MakeSemanticError("trap")
    ELSE Val("INT64", FloorRemainder(a.v, b.v))

Sign(a) == Val("INT64", IF a.v = 0 THEN 0 ELSE IF a.v > 0 THEN 1 ELSE -1)

\* NumericArgToDouble, in sixtieths.
NumericArgToDouble(a) == IF a.kind = "INT64" THEN a.v * Unit ELSE a.v

Floor(a) ==
    LET x == NumericArgToDouble(a)
    IN  Checked(IF a.kind = "INT64" THEN "FLOAT64" ELSE a.kind, (x \div Unit) * Unit)

Ceil(a) ==
    LET x == NumericArgToDouble(a)
    IN  Checked(IF a.kind = "INT64" THEN "FLOAT64" ELSE a.kind, -((-x) \div Unit) * Unit)

\* The step that a precision leaves: tenths, ones or tens.
Step(digits) == CASE digits = 1 -> Unit \div 10 [] digits = 0 -> Unit [] digits = -1 -> Unit * 10

Trunc(a, digits) ==
    Val(IF a.kind = "INT64" THEN "FLOAT64" ELSE a.kind,
        Quot(NumericArgToDouble(a), Step(digits)) * Step(digits))

\* floor(x + 1/2) at and above zero, ceil(x - 1/2) below.
RoundHalfAwayFromZero(x, digits) ==
    LET s == Step(digits)
    IN  IF x >= 0 THEN ((2 * x + s) \div (2 * s)) * s ELSE -((s - 2 * x) \div (2 * s)) * s

Round(a, digits) == Val("FLOAT64", RoundHalfAwayFromZero(NumericArgToDouble(a), digits))

-----------------------------------------------------------------------------
(* Bits: operator_funcs.cc and numeric_edges.cc.                             *)

Unsigned(n) == n % (2 ^ Bits)

Signed(n) == IF n >= 2 ^ (Bits - 1) THEN n - 2 ^ Bits ELSE n

BitAt(n, i) == (Unsigned(n) \div (2 ^ i)) % 2

FromBits(B(_)) == Signed(FoldLeft(LAMBDA acc, i : acc + B(i - 1) * 2 ^ (i - 1), 0, [i \in 1 .. Bits |-> i]))

BitCount(a) == Val("INT64", Cardinality({i \in 0 .. Bits - 1 : BitAt(a.v, i) = 1}))

DispatchBitwise(name, a, b) ==
    LET shifted == CASE b.v < 0 -> Invalid
                     [] b.v >= Bits -> Val("INT64", 0)
                     [] name = "$bitwise_left_shift" -> Val("INT64", Signed(Unsigned(Unsigned(a.v) * 2 ^ b.v)))
                     [] OTHER -> Val("INT64", Signed(Unsigned(a.v) \div 2 ^ b.v))
    IN  CASE a.kind # "INT64" \/ b.kind # "INT64" -> Invalid
          [] name = "$bitwise_and" -> Val("INT64", FromBits(LAMBDA i : BitAt(a.v, i) * BitAt(b.v, i)))
          [] name = "$bitwise_or" -> Val("INT64", FromBits(LAMBDA i : IF BitAt(a.v, i) + BitAt(b.v, i) > 0 THEN 1 ELSE 0))
          [] name = "$bitwise_xor" -> Val("INT64", FromBits(LAMBDA i : (BitAt(a.v, i) + BitAt(b.v, i)) % 2))
          [] OTHER -> shifted

DispatchBitwiseNot(a) ==
    IF a.kind = "INT64" THEN Val("INT64", FromBits(LAMBDA i : 1 - BitAt(a.v, i))) ELSE Invalid

-----------------------------------------------------------------------------
(* Comparison and three-valued logic: eval_expr_dispatch.cc, operator_in.cc  *)
(* and operator_funcs.cc.                                                    *)

Equals(a, b) == a.kind = b.kind /\ a.v = b.v

LessThan(a, b) == a.kind = b.kind /\ a.v < b.v

AtMost(a, b) == LessThan(a, b) \/ Equals(a, b)

Compare(name, a, b) ==
    CASE name = "$equal" -> Equals(a, b)
      [] name = "$not_equal" -> ~Equals(a, b)
      [] name = "$less" -> LessThan(a, b)
      [] name = "$less_or_equal" -> AtMost(a, b)
      [] name = "$greater" -> LessThan(b, a)
      [] name = "$greater_or_equal" -> AtMost(b, a)

Comparisons == {"$equal", "$not_equal", "$less", "$less_or_equal", "$greater", "$greater_or_equal"}

DispatchAnd(args) ==
    IF \E i \in DOMAIN args : ~args[i].null /\ args[i].v = 0 THEN Bool(FALSE)
    ELSE IF AnyNull(args) THEN NullBool ELSE Bool(TRUE)

DispatchOr(args) ==
    IF \E i \in DOMAIN args : ~args[i].null /\ args[i].v = 1 THEN Bool(TRUE)
    ELSE IF AnyNull(args) THEN NullBool ELSE Bool(FALSE)

DispatchNot(a) == IF a.null THEN NullBool ELSE Bool(a.v = 0)

\* IN with no candidate left is an error; a NULL on the left decides before
\* the candidates are looked at.
DispatchIn(name, args) ==
    LET found == \E i \in 2 .. Len(args) : ~args[i].null /\ Equals(args[1], args[i])
    IN  IF Len(args) < 2 THEN Invalid
        ELSE IF args[1].null THEN NullBool
        ELSE IF ~found /\ AnyNull(Tail(args)) THEN NullBool
        ELSE Bool(found = (name = "$in"))

DispatchBetween(name, a, low, high) ==
    IF AnyNull(<<a, low, high>>) THEN NullBool
    ELSE IF a.kind # low.kind \/ a.kind # high.kind THEN Invalid
    ELSE Bool((AtMost(low, a) /\ AtMost(a, high)) = (name = "$between"))

\* IS TRUE and IS FALSE keep a NULL, IS NOT TRUE and IS NOT FALSE do not.
DispatchIsTrue(name, a) ==
    CASE a.kind # "BOOL" -> Invalid
      [] a.null -> IF name \in {"$is_not_true", "$is_not_false"} THEN Bool(TRUE) ELSE NullBool
      [] OTHER -> Bool((a.v = 1) = (name \in {"$is_true", "$is_not_false"}))

DispatchIsDistinctFrom(name, a, b) ==
    LET same == IF a.null \/ b.null THEN a.null /\ b.null ELSE Equals(a, b)
    IN  Bool(same = (name = "$is_not_distinct_from"))

\* SqlLikeMatch: one pass with a single point to come back to, the last '%'.
\* A character of the pattern that equals the value's is taken literally
\* before '%' is looked at.
RECURSIVE LikeLoop(_, _, _, _, _, _)

LikeLoop(value, pattern, vi, pi, starV, starP) ==
    LET here(c) == pi <= Len(pattern) /\ pattern[pi] = c
    IN  IF vi > Len(value)
        THEN \A i \in pi .. Len(pattern) : pattern[i] = "%"
        ELSE IF here(value[vi]) \/ here("_") THEN LikeLoop(value, pattern, vi + 1, pi + 1, starV, starP)
        ELSE IF here("%") THEN LikeLoop(value, pattern, vi, pi + 1, vi, pi)
        ELSE IF starP > 0 THEN LikeLoop(value, pattern, starV + 1, starP + 1, starV + 1, starP)
        ELSE FALSE

SqlLikeMatch(value, pattern) == LikeLoop(value, pattern, 1, 1, 0, 0)

-----------------------------------------------------------------------------
(* Calls by name: eval_expr_fn_dispatch.cc and functions/dispatch.cc.  The   *)
(* strict forms of the conditionals are modelled with the rest; a call takes *)
(* the lazy forms further down.                                              *)

SafeBuiltins == {"safe_add", "safe_subtract", "safe_multiply", "safe_divide", "safe_negate"}

\* WrapSafe: SAFE_ADD and its kin turn only these two reasons into NULL.
WrapSafe(name, r, type) ==
    IF name \notin SafeBuiltins \/ Ok(r) \/ r.error \notin {"kOverflow", "kDivisionByZero"} THEN r
    ELSE NullOfType(type)

\* The kind of NULL a function gives back when an argument is NULL.
NullKind(name, args, type) ==
    CASE name \in {"floor", "ceil", "trunc", "mod"} -> args[1].kind
      [] name = "round" -> "FLOAT64"
      [] name \in {"div", "sign", "bit_count", "$bitwise_not"} -> "INT64"
      [] OTHER -> type

Strict(name, args, type, r) == IF AnyNull(args) THEN NullOfType(NullKind(name, args, type)) ELSE r

BinaryMath ==
    {"$add", "$subtract", "$multiply", "$divide", "safe_add", "safe_subtract",
     "safe_multiply", "safe_divide", "div", "mod"}

DispatchBinary(name, a, b) ==
    CASE name \in {"$add", "safe_add"} -> ArithmeticAdd(a, b)
      [] name \in {"$subtract", "safe_subtract"} -> ArithmeticSub(a, b)
      [] name \in {"$multiply", "safe_multiply"} -> ArithmeticMul(a, b)
      [] name \in {"$divide", "safe_divide"} -> ArithmeticDiv(a, b)
      [] name = "div" -> Div(a, b)
      [] name = "mod" -> Mod(a, b)

UnaryMath == {"$unary_minus", "abs", "sign", "floor", "ceil", "bit_count", "$bitwise_not"}

DispatchUnary(name, a) ==
    CASE name = "$unary_minus" -> UnaryMinus(a)
      [] name = "abs" -> DispatchAbs(a)
      [] name = "sign" -> Sign(a)
      [] name = "floor" -> Floor(a)
      [] name = "ceil" -> Ceil(a)
      [] name = "bit_count" -> BitCount(a)
      [] name = "$bitwise_not" -> DispatchBitwiseNot(a)

Bitwise2 == {"$bitwise_and", "$bitwise_or", "$bitwise_xor", "$bitwise_left_shift", "$bitwise_right_shift"}

\* DispatchCaseNoValue: cond, then, cond, then, ..., else.
RECURSIVE DispatchCaseNoValue(_)
DispatchCaseNoValue(args) ==
    IF Len(args) = 1 THEN args[1]
    ELSE IF IsTrue(args[1]) THEN args[2] ELSE DispatchCaseNoValue(SubSeq(args, 3, Len(args)))

\* DispatchCaseWithValue: a NULL on either side is no match.
RECURSIVE DispatchCaseWithValue(_, _)
DispatchCaseWithValue(input, args) ==
    IF Len(args) = 1 THEN args[1]
    ELSE IF ~input.null /\ ~args[1].null /\ Equals(input, args[1]) THEN args[2]
    ELSE DispatchCaseWithValue(input, SubSeq(args, 3, Len(args)))

DispatchConditional(name, args, type) ==
    CASE name = "if" -> IF IsTrue(args[1]) THEN args[2] ELSE args[3]
      [] name = "ifnull" -> IF args[1].null THEN args[2] ELSE args[1]
      [] name = "coalesce" ->
            IF \A i \in DOMAIN args : args[i].null THEN NullOfType(type)
            ELSE args[CHOOSE i \in DOMAIN args : ~args[i].null /\ \A j \in 1 .. i - 1 : args[j].null]
      [] name = "nullif" ->
            IF ~AnyNull(args) /\ Equals(args[1], args[2]) THEN NullOfType(type) ELSE args[1]
      [] name = "$case_no_value" -> DispatchCaseNoValue(args)
      [] name = "$case_with_value" -> DispatchCaseWithValue(args[1], Tail(args))

Conditionals == {"if", "ifnull", "coalesce", "nullif", "$case_no_value", "$case_with_value"}

DispatchFunctionByName(name, args, type) ==
    CASE name \in BinaryMath ->
            WrapSafe(name, Strict(name, args, type, DispatchBinary(name, args[1], args[2])), type)
      [] name = "safe_negate" -> WrapSafe(name, Strict(name, args, type, UnaryMinus(args[1])), type)
      [] name \in UnaryMath -> Strict(name, args, type, DispatchUnary(name, args[1]))
      [] name \in Bitwise2 -> Strict(name, args, "INT64", DispatchBitwise(name, args[1], args[2]))
      [] name = "round" -> Strict(name, args, type, Round(args[1], args[2].v))
      [] name = "trunc" -> Strict(name, args, type, Trunc(args[1], args[2].v))
      [] name \in Comparisons -> IF AnyNull(args) THEN NullBool ELSE Bool(Compare(name, args[1], args[2]))
      [] name \in {"$in", "$not_in"} -> DispatchIn(name, args)
      [] name \in {"$between", "$not_between"} -> DispatchBetween(name, args[1], args[2], args[3])
      [] name = "$and" -> DispatchAnd(args)
      [] name = "$or" -> DispatchOr(args)
      [] name = "$not" -> DispatchNot(args[1])
      [] name = "$is_null" -> Bool(args[1].null)
      [] name \in {"$is_true", "$is_not_true", "$is_false", "$is_not_false"} -> DispatchIsTrue(name, args[1])
      [] name \in {"$is_distinct_from", "$is_not_distinct_from"} ->
            DispatchIsDistinctFrom(name, args[1], args[2])
      [] name \in Conditionals -> DispatchConditional(name, args, type)
      [] name = "error" -> Invalid
      [] OTHER -> MakeSemanticError("kNotImplemented")

-----------------------------------------------------------------------------
(* Expressions: eval_expr.cc and eval_expr_calls.cc.  A context holds the    *)
(* bindings of the row's columns, by id and by name, of the parameters and   *)
(* of the arguments of the SQL function whose body is being evaluated.       *)

Literal(v) == [node |-> "literal", val |-> v]

Column(id, name) == [node |-> "column", id |-> id, name |-> name]

Parameter(name) == [node |-> "parameter", name |-> name]

Argument(name) == [node |-> "argument", name |-> name]

Call(fn, args, type, safe) == [node |-> "call", fn |-> fn, args |-> args, type |-> type, safe |-> safe]

With(id, name, bound, body) == [node |-> "with", id |-> id, name |-> name, bound |-> bound, body |-> body]

Udf(names, body, args) == [node |-> "udf", names |-> names, body |-> body, args |-> args]

Unbound == [n \in {} |-> 0]

NoContext == [columns |-> Unbound, by_name |-> Unbound, parameters |-> Unbound, arguments |-> Unbound]

Lookup(bindings, name) == IF name \in DOMAIN bindings THEN bindings[name] ELSE Invalid

\* LookupColumnRef: by column id, then by name.
LookupColumnRef(e, ctx) ==
    IF e.id \in DOMAIN ctx.columns THEN ctx.columns[e.id] ELSE Lookup(ctx.by_name, e.name)

LazyBuiltins == {"if", "ifnull", "$case_no_value", "$case_with_value", "error"}

FirstError(rs) == rs[CHOOSE i \in DOMAIN rs : ~Ok(rs[i]) /\ \A j \in 1 .. i - 1 : Ok(rs[j])]

Forgiven(e, r) ==
    IF e.safe /\ ~Ok(r) /\ r.error \in {"kOverflow", "kDivisionByZero", "kInvalidArgument"}
    THEN NullOfType(e.type) ELSE r

\* SAFE mode forgives a failing argument as well as a failing function.
SafeMode(e, rs) ==
    IF \A i \in DOMAIN rs : Ok(rs[i]) THEN Forgiven(e, DispatchFunctionByName(e.fn, rs, e.type))
    ELSE IF e.safe /\ StatusCode(FirstError(rs)) = "INVALID_ARGUMENT" THEN NullOfType(e.type)
    ELSE FirstError(rs)

RECURSIVE EvalExpr(_, _)
RECURSIVE EvalCaseNoValueLazy(_, _)
RECURSIVE EvalCaseWithValueLazy(_, _, _)

EvalCaseNoValueLazy(args, ctx) ==
    LET decided(cond) ==
            IF Len(args) = 1 \/ ~Ok(cond) THEN cond
            ELSE IF IsTrue(cond) THEN EvalExpr(args[2], ctx)
            ELSE EvalCaseNoValueLazy(SubSeq(args, 3, Len(args)), ctx)
    IN  decided(EvalExpr(args[1], ctx))

EvalCaseWithValueLazy(input, args, ctx) ==
    LET decided(when) ==
            IF Len(args) = 1 \/ ~Ok(when) THEN when
            ELSE IF ~input.null /\ ~when.null /\ Equals(input, when) THEN EvalExpr(args[2], ctx)
            ELSE EvalCaseWithValueLazy(input, SubSeq(args, 3, Len(args)), ctx)
    IN  decided(EvalExpr(args[1], ctx))

\* EvalLazyBuiltinByName: the first argument, then the branch it asks for.
EvalLazy(e, ctx) ==
    LET branch(first) ==
            CASE ~Ok(first) -> first
              [] e.fn = "if" /\ Ok(first) -> EvalExpr(e.args[IF IsTrue(first) THEN 2 ELSE 3], ctx)
              [] e.fn = "ifnull" /\ Ok(first) -> IF first.null THEN EvalExpr(e.args[2], ctx) ELSE first
              [] e.fn = "$case_with_value" /\ Ok(first) -> EvalCaseWithValueLazy(first, Tail(e.args), ctx)
              [] OTHER -> Invalid   \* ERROR(first)
    IN  IF e.fn = "$case_no_value" THEN EvalCaseNoValueLazy(e.args, ctx) ELSE branch(EvalExpr(e.args[1], ctx))


EvalFunctionCall(e, ctx) ==
    IF e.fn \in LazyBuiltins THEN EvalLazy(e, ctx)
    ELSE SafeMode(e, [i \in DOMAIN e.args |-> EvalExpr(e.args[i], ctx)])

\* EvalSqlUdfBody: the arguments are evaluated where the call stands, the body
\* with a frame of its own that holds nothing else.
EvalSqlUdfBody(e, ctx) ==
    LET frame(rs) == [n \in ToSet(e.names) |-> rs[CHOOSE i \in DOMAIN e.names : e.names[i] = n]]
        call(rs) == IF \E i \in DOMAIN rs : ~Ok(rs[i]) THEN FirstError(rs)
                    ELSE EvalExpr(e.body, [ctx EXCEPT !.arguments = frame(rs)])
    IN  IF Len(e.names) # Len(e.args) THEN Invalid ELSE call([i \in DOMAIN e.args |-> EvalExpr(e.args[i], ctx)])

\* EvalResolvedWithExpr: one more column for the body; an id already bound by
\* the row keeps its value.
EvalResolvedWithExpr(e, ctx) ==
    LET body(v) == IF Ok(v) THEN EvalExpr(e.body, [ctx EXCEPT !.columns = @ @@ (e.id :> v), !.by_name = e.name :> v])
                   ELSE v
    IN  body(EvalExpr(e.bound, ctx))

EvalExpr(e, ctx) ==
    CASE e.node = "literal" -> e.val
      [] e.node = "column" -> LookupColumnRef(e, ctx)
      [] e.node = "parameter" -> Lookup(ctx.parameters, e.name)
      [] e.node = "argument" -> Lookup(ctx.arguments, e.name)
      [] e.node = "call" -> EvalFunctionCall(e, ctx)
      [] e.node = "udf" -> EvalSqlUdfBody(e, ctx)
      [] e.node = "with" -> EvalResolvedWithExpr(e, ctx)

-----------------------------------------------------------------------------
(* The calls TLC makes.                                                      *)

Ints == {Val("INT64", n) : n \in Int64} \cup {NullOfType("INT64")}

Numerics ==
    {Val("NUMERIC", n) : n \in {0, 1, -Unit, Unit, NumericMax * Unit, -(NumericMax * Unit)}}

Trools == {Bool(TRUE), Bool(FALSE), NullBool}

CallArithmetic ==
    \E name \in BinaryMath \cup Bitwise2 :
        \E operands \in (Ints \X Ints) \cup (IF name \in Bitwise2 THEN {} ELSE Numerics \X Numerics) :
            eval' = [op |-> "arithmetic", name |-> name, args |-> operands,
                     result |-> DispatchFunctionByName(name, operands, operands[1].kind)]

CallLogic ==
    \E name \in {"$and", "$or", "$in", "$not_in"}, n \in 2 .. 3 : \E args \in [1 .. n -> Trools] :
        eval' = [op |-> "logic", name |-> name, args |-> args,
                 result |-> DispatchFunctionByName(name, args, "BOOL")]

CallLike ==
    \E value \in SeqOf({"a", "b"}, MaxLike), pattern \in SeqOf({"a", "%", "_"}, MaxLike) :
        eval' = [op |-> "like", value |-> value, pattern |-> pattern, result |-> SqlLikeMatch(value, pattern)]

Leaves ==
    {Literal(NullOfType("INT64")), Literal(Val("INT64", 1)), Literal(Val("INT64", 2 ^ (Bits - 1) - 1)),
     Argument("x")}

Simple(leaves, safe) ==
    leaves \cup {Call(fn, args, "INT64", s) : fn \in {"$add", "div"}, args \in leaves \X leaves, s \in safe}

Bodies == Simple({Argument("x"), Argument("y"), Literal(Val("INT64", 1))}, {FALSE})

Caller(n) == [NoContext EXCEPT !.arguments = "x" :> Val("INT64", n)]

Lazy ==
    {Call("if", <<Literal(c), a, b>>, "INT64", FALSE) :
        c \in Trools, a \in Simple(Leaves, {FALSE}), b \in Simple(Leaves, {FALSE})}
    \cup {Call("ifnull", <<a, b>>, "INT64", FALSE) : a \in Simple(Leaves, {FALSE}), b \in Simple(Leaves, {FALSE})}
    \cup {Call("$case_with_value", <<a, a, b, Literal(Val("INT64", 1)), a, b>>, "INT64", FALSE) :
            a \in Simple(Leaves, {FALSE}), b \in Leaves}

Safe ==
    {Call(fn, args, "INT64", TRUE) :
        fn \in {"$add", "$multiply", "div", "nothing"},
        args \in Simple(Leaves, BOOLEAN) \X Simple(Leaves, {FALSE})}

Udfs ==
    {Udf(<<"x", "y">>, body, args) :
        body \in Bodies, args \in Simple(Leaves, {FALSE}) \X Leaves}
    \cup {With("c", "c", bound, Call("$add", <<Column("c", "c"), Argument("x")>>, "INT64", FALSE)) :
            bound \in Simple(Leaves, {FALSE})}

CallExpr ==
    \E kind \in {"lazy", "safe", "udf"}, n \in {0, 1} :
        \E e \in (CASE kind = "lazy" -> Lazy [] kind = "safe" -> Safe [] OTHER -> Udfs) :
            eval' = [op |-> kind, expr |-> e, ctx |-> Caller(n), result |-> EvalExpr(e, Caller(n))]

ExpressionInit == eval = NoCall

ExpressionNext ==
    \/ eval = NoCall /\ (CallArithmetic \/ CallLogic \/ CallLike \/ CallExpr)

-----------------------------------------------------------------------------
(* Properties.                                                               *)

\* What an operator means over the integers (or sixtieths), before any bound.
Meaning(name, x, y) ==
    CASE name \in {"$add", "safe_add"} -> x + y
      [] name \in {"$subtract", "safe_subtract"} -> x - y
      [] OTHER -> x * y

\* AddInt64, SubInt64, MulInt64 and the NUMERIC operators never answer with a
\* wrapped or clamped number: the result is the mathematical one, or kOverflow
\* when that does not fit (NULL for the SAFE_ form).  DIV and MOD leave a
\* quotient and a remainder of the same division, and a left shift is a
\* multiplication modulo the width.
ArithmeticExact ==
    eval.op = "arithmetic" /\ ~AnyNull(eval.args) =>
        LET x == eval.args[1].v
            y == eval.args[2].v
            k == eval.args[1].kind
            r == eval.result
        IN  CASE eval.name \in {"$add", "$subtract", "safe_add", "safe_subtract"}
                     \/ (eval.name \in {"$multiply", "safe_multiply"} /\ k = "INT64") ->
                    IF InRange(k, Meaning(eval.name, x, y)) THEN r = Val(k, Meaning(eval.name, x, y))
                    ELSE r = IF eval.name \in SafeBuiltins THEN NullOfType(k) ELSE MakeSemanticError("kOverflow")
              [] eval.name = "div" /\ k = "INT64" /\ Ok(r) ->
                    Abs(x) - Abs(y) < Abs(y * r.v) /\ Abs(y * r.v) <= Abs(x) /\ x * y * r.v >= 0
              [] eval.name = "mod" /\ k = "INT64" /\ Ok(r) -> (x - r.v) % Abs(y) = 0 /\ Abs(r.v) < Abs(y)
              [] eval.name = "$bitwise_left_shift" /\ Ok(r) -> (r.v - x * 2 ^ y) % 2 ^ Bits = 0 /\ r.v \in Int64
              [] OTHER -> TRUE

\* The truth of a BOOL: FALSE, NULL, TRUE as 0, 1, 2.
Truth(r) == IF r.null THEN 1 ELSE 2 * r.v

\* The n-ary AND and OR of the evaluator are the minimum and the maximum of
\* three-valued logic in whatever order the NULLs come, and IN is the OR of
\* the equalities it abbreviates (DispatchIn); NOT IN is its negation.
LogicThreeValued ==
    eval.op = "logic" =>
        LET truths == {Truth(eval.args[i]) : i \in DOMAIN eval.args}
            equal(i) == IF eval.args[1].null \/ eval.args[i].null THEN 1
                        ELSE IF eval.args[1].v = eval.args[i].v THEN 2 ELSE 0
            in == Max({equal(i) : i \in 2 .. Len(eval.args)})
        IN  Truth(eval.result) = CASE eval.name = "$and" -> Min(truths)
                                   [] eval.name = "$or" -> Max(truths)
                                   [] eval.name = "$in" -> in
                                   [] OTHER -> 2 - in

RECURSIVE Matches(_, _)
Matches(value, pattern) ==
    IF pattern = <<>> THEN value = <<>>
    ELSE IF pattern[1] = "%" THEN \E i \in 0 .. Len(value) : Matches(SubSeq(value, i + 1, Len(value)), Tail(pattern))
    ELSE value # <<>> /\ pattern[1] \in {"_", value[1]} /\ Matches(Tail(value), Tail(pattern))

\* SqlLikeMatch, which remembers one '%' only, agrees with the definition of
\* LIKE that may try every split, for values without a '%' of their own.
LikeMatches == eval.op = "like" => eval.result = Matches(eval.value, eval.pattern)

Results(e, ctx) == [i \in DOMAIN e.args |-> EvalExpr(e.args[i], ctx)]

\* The arguments that IF, IFNULL and CASE need, of which rs are the results.
TakenBranches(fn, rs) ==
    CASE fn = "if" -> IF IsTrue(rs[1]) THEN {1, 2} ELSE {1, 3}
      [] fn = "ifnull" -> IF Ok(rs[1]) /\ ~rs[1].null THEN {1} ELSE {1, 2}
      [] OTHER -> DOMAIN rs

LazyAsStrict(e, rs, result) ==
    /\ (\A i \in DOMAIN rs : Ok(rs[i])) => result = DispatchFunctionByName(e.fn, rs, e.type)
    /\ (\A i \in TakenBranches(e.fn, rs) : Ok(rs[i])) => Ok(result)
    /\ ~Ok(rs[1]) => result = rs[1]

\* IF, IFNULL and CASE evaluate lazily (EvalLazyBuiltinByName): where nothing
\* fails they agree with the strict forms of the dispatch table, and a branch
\* that is not taken may fail without the expression failing.
UntakenBranchesSilent ==
    eval.op = "lazy" => LazyAsStrict(eval.expr, Results(eval.expr, eval.ctx), eval.result)

\* A SAFE. call answers with a value or NULL whatever its arguments do, except
\* where the function is not implemented (EvalFunctionCall).
SafeNeverRaises ==
    eval.op = "safe" /\ ~Ok(eval.result) => eval.result.error \in {"kNotImplemented", "trap"}

RECURSIVE Substitute(_, _, _)
Substitute(e, names, args) ==
    CASE e.node = "argument" -> args[CHOOSE i \in DOMAIN names : names[i] = e.name]
      [] e.node = "call" -> [e EXCEPT !.args = [i \in DOMAIN @ |-> Substitute(@[i], names, args)]]
      [] OTHER -> e

\* Calling an SQL function is substituting its arguments in its body
\* (EvalSqlUdfBody): the names of the caller's own frame neither leak into the
\* body nor get lost in the arguments.  An argument that fails fails the call.
CallsInlined ==
    eval.op = "udf" /\ eval.expr.node = "udf" =>
            IF \A i \in DOMAIN eval.expr.args : Ok(EvalExpr(eval.expr.args[i], eval.ctx))
            THEN eval.result = EvalExpr(Substitute(eval.expr.body, eval.expr.names, eval.expr.args), eval.ctx)
            ELSE ~Ok(eval.result)

\* What the documentation of the SAFE. prefix says: it "only prevents errors
\* from the prefixed function itself".  The evaluator also forgives errors of
\* the arguments (EvalFunctionCall), so this does not hold.
SafeSparesArguments ==
    eval.op = "safe" =>
        LET rs == Results(eval.expr, eval.ctx) IN (\E i \in DOMAIN rs : ~Ok(rs[i])) => ~Ok(eval.result)

=============================================================================
