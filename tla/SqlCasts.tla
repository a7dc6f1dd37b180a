------------------------------- MODULE SqlCasts -------------------------------
(***************************************************************************)
(* CAST and SAFE_CAST of the semantic executor                             *)
(* (backend/engine/semantic/eval_expr_cast*.cc): from and to text, between *)
(* the numeric types, dates and times with FORMAT and AT TIME ZONE, arrays *)
(* and structs, and the type modifiers of the target.                      *)
(*                                                                         *)
(* A text is a sequence of characters; a date, a time of day and an offset *)
(* are one character each.  A day has four moments, every second of them a *)
(* fraction of a second.  FLOAT64 prints one decimal (six digits in the    *)
(* code).  Casts the analyzer hands to its own library (extended_cast) are *)
(* left out.                                                               *)
(***************************************************************************)
EXTENDS SqlValues

CONSTANTS MaxNumeral    \* bound: characters of a text cast to INT64

ASSUME NumeralAssumption == MaxNumeral \in Nat

PlusSign == 43
MinusSign == 45
Dot == 46
Zero == 48
SpaceChar == 32
HexMark == 120
BadByte == 255
Word(b) == IF b = 1 THEN 500 ELSE 501
DateChar(d) == 1000 + d
TimeChar(t) == 2000 + t
OffsetChar(z) == 3000 + z

IsDate(c) == c \in 1000 .. 1999
IsTime(c) == c \in 2000 .. 2999
IsOffsetChar(c) == c \in 3000 .. 3999
IsDigit(c) == c \in Zero .. Zero + 9

DayLength == 4

NotImplemented == MakeSemanticError("kNotImplemented")
Overflow == MakeSemanticError("kOverflow")
NoResult == [absent |-> TRUE]

\* NullOfType; texts, arrays and structs are sequences.
NullOf(k) == [kind |-> k, null |-> TRUE,
              v |-> IF k \in {"STRING", "BYTES", "ARRAY", "STRUCT"} THEN <<>> ELSE 0]

Type(k) == [kind |-> k]
ArrayType(t) == [kind |-> "ARRAY", elem |-> t]
StructType(ts, ns) == [kind |-> "STRUCT", fields |-> ts, names |-> ns]

-----------------------------------------------------------------------------
(* Text.                                                                     *)

DigitsOf[n \in Nat] == IF n < 10 THEN <<Zero + n>> ELSE Append(DigitsOf[n \div 10], Zero + (n % 10))

WithSign(n, text) == IF n < 0 THEN <<MinusSign>> \o text ELSE text

IntText(n) == WithSign(n, DigitsOf[Abs(n)])

\* ToString of a decimal, for multiples of a twentieth.
DecimalText(n) ==
    LET f == ((Abs(n) % Unit) * 100) \div Unit
    IN  WithSign(n, DigitsOf[Abs(n) \div Unit]
                  \o (CASE f = 0 -> <<>>
                        [] f % 10 = 0 -> <<Dot, Zero + (f \div 10)>>
                        [] OTHER -> <<Dot, Zero + (f \div 10), Zero + (f % 10)>>))

\* absl::StrCat keeps a bounded number of digits.
FloatText(n) == DecimalText(RoundDiv(n, 6) * 6)

Moment(m) == m % DayLength

DatetimeText(m) == <<DateChar(m \div DayLength), SpaceChar, TimeChar(Moment(m))>>

ToTheSecond(m) == m - (m % 2)

Number(digits) == FoldLeft(LAMBDA n, c : 10 * n + (c - Zero), 0, digits)

AllDigits(s) == \A i \in DOMAIN s : IsDigit(s[i])

HasSign(s) == s # <<>> /\ s[1] \in {PlusSign, MinusSign}

WithoutSign(s) == IF HasSign(s) THEN Tail(s) ELSE s

Negate(s, n) == IF HasSign(s) /\ s[1] = MinusSign THEN -n ELSE n

\* absl::SimpleAtoi: one sign, digits, in range.
SimpleAtoi(s) ==
    LET n == Negate(s, Number(WithoutSign(s)))
    IN  IF WithoutSign(s) # <<>> /\ AllDigits(WithoutSign(s)) /\ n \in Int64 THEN Val("INT64", n)
        ELSE Invalid

\* A decimal numeral of kind k: absl::SimpleAtod and the library's FromString.
ParseDecimal(k, s) ==
    LET u == WithoutSign(s)
        split(i) == IF i = 0 THEN <<u, <<>>>> ELSE <<SubSeq(u, 1, i - 1), SubSeq(u, i + 1, Len(u))>>
        within(n) == IF InRange(k, n) THEN Val(k, n) ELSE Invalid
        read(whole, part) ==
            IF AllDigits(whole \o part) /\ whole \o part # <<>>
            THEN within(Negate(s, Number(whole) * Unit + (Number(part) * Unit) \div (10 ^ Len(part))))
            ELSE Invalid
        parts(p) == read(p[1], p[2])
    IN  parts(split(SelectInSeq(u, LAMBDA c : c = Dot)))

ParseDate(s) == IF Len(s) = 1 /\ IsDate(s[1]) THEN Val("DATE", s[1] - 1000) ELSE Invalid

\* A date and a time, with a fraction when `fine`.
IsDatetime(s, fine) ==
    /\ Len(s) = 3 /\ IsDate(s[1]) /\ s[2] = SpaceChar /\ IsTime(s[3])
    /\ fine \/ (s[3] - 2000) % 2 = 0

DatetimeIn(s) == DayLength * (s[1] - 1000) + (s[3] - 2000)

\* ParseTimestampWireString: a date, or date and time with or without an
\* offset; without one they are UTC.
ParseTimestampWireString(s) ==
    IF Len(s) = 1 /\ IsDate(s[1]) THEN Val("TIMESTAMP", DayLength * (s[1] - 1000))
    ELSE IF IsDatetime(s, TRUE) THEN Val("TIMESTAMP", DatetimeIn(s))
    ELSE IF Len(s) = 4 /\ IsDatetime(SubSeq(s, 1, 3), TRUE) /\ IsOffsetChar(s[4])
    THEN Val("TIMESTAMP", DatetimeIn(s) - (s[4] - 3000))
    ELSE Invalid

-----------------------------------------------------------------------------
(* One target kind each.  A cast c is [to, safe, mod, format, zone, default]: *)
(* format and zone are "none", "column" or the text of a literal, default is *)
(* the session's time zone.                                                  *)

Numbers == {"FLOAT64", "INT64", "NUMERIC"}

CastToDouble(a) ==
    CASE a.kind = "STRING" -> ParseDecimal("FLOAT64", a.v)
      [] a.kind \in Numbers -> Val("FLOAT64", IF a.kind = "INT64" THEN a.v * Unit ELSE a.v)
      [] OTHER -> Invalid

SafeConvertBytes(a) == IF BadByte \in Range(a.v) THEN Invalid ELSE Val("STRING", a.v)

CastToString(a) ==
    CASE a.kind = "INT64" -> Val("STRING", IntText(a.v))
      [] a.kind = "BOOL" -> Val("STRING", <<Word(a.v)>>)
      [] a.kind = "FLOAT64" -> Val("STRING", FloatText(a.v))
      [] a.kind \in {"NUMERIC", "BIGNUMERIC"} -> Val("STRING", DecimalText(a.v))
      [] a.kind = "DATE" -> Val("STRING", <<DateChar(a.v)>>)
      [] a.kind = "DATETIME" -> Val("STRING", DatetimeText(ToTheSecond(a.v)))
      [] a.kind = "BYTES" -> SafeConvertBytes(a)
      [] OTHER -> NotImplemented

CastToDate(a) ==
    CASE a.kind = "DATE" -> a
      [] a.kind = "STRING" -> ParseDate(a.v)
      [] OTHER -> NotImplemented

CastToDatetime(a) ==
    CASE a.kind = "DATETIME" -> a
      [] a.kind = "DATE" -> Val("DATETIME", DayLength * a.v)
      [] a.kind = "STRING" -> IF IsDatetime(a.v, FALSE) THEN Val("DATETIME", DatetimeIn(a.v))
                              ELSE Invalid
      [] OTHER -> NotImplemented

CastToBool(a) ==
    CASE a.kind = "BOOL" -> a
      [] a.kind = "STRING" -> IF a.v \in {<<Word(0)>>, <<Word(1)>>} THEN Bool(a.v = <<Word(1)>>)
                              ELSE Invalid
      [] OTHER -> NotImplemented

CastToTimestamp(a, default) ==
    CASE a.kind = "TIMESTAMP" -> a
      [] a.kind = "DATE" -> Val("TIMESTAMP", DayLength * a.v - default)
      [] a.kind = "STRING" -> ParseTimestampWireString(a.v)
      [] OTHER -> NotImplemented

\* An INT64 from the low bits.
FromLowBits(n) == LET u == n % (2 ^ Bits) IN IF u \in Int64 THEN u ELSE u - 2 ^ Bits

CastHexStringToInt64(s) ==
    LET digits == SubSeq(s, 3, Len(s))
    IN  IF AllDigits(digits)
        THEN Val("INT64", FromLowBits(FoldLeft(LAMBDA n, c : 16 * n + (c - Zero), 0, digits)))
        ELSE Invalid

\* What is left after the leading zeros, of which the last stays.
WithoutZeros(s) ==
    LET i == SelectInSeq(s, LAMBDA c : c # Zero)
    IN  CASE s = <<>> -> s
          [] i = 0 -> <<Zero>>
          [] OTHER -> SubSeq(s, i, Len(s))

\* The sign is taken off here, and SimpleAtoi accepts another one.
CastDecimalStringToInt64(s) ==
    LET u == WithoutZeros(WithoutSign(s))
        n == IF u = <<>> THEN Val("INT64", 0) ELSE SimpleAtoi(u)
    IN  IF Ok(n) THEN Val("INT64", FromLowBits(Negate(s, n.v))) ELSE n

IsHex(s) == Len(s) >= 2 /\ s[1] = Zero /\ s[2] = HexMark

CastToInt64(a) ==
    CASE a.kind = "INT64" -> a
      [] a.kind \in {"FLOAT64", "NUMERIC"} -> Val("INT64", Quot(a.v, Unit))   \* undefined beyond INT64
      [] a.kind = "STRING" -> IF IsHex(a.v) THEN CastHexStringToInt64(a.v)
                              ELSE CastDecimalStringToInt64(a.v)
      [] OTHER -> NotImplemented

\* FromDouble and ToNumericValue: the closest decimal, or out of range.
ToDecimal(k, n) == IF InRange(k, n) THEN Val(k, n) ELSE Overflow

CastToDecimal(k, a) ==
    CASE a.kind = k -> a
      [] a.kind = "INT64" -> Val(k, a.v * Unit)
      [] a.kind \in {"NUMERIC", "BIGNUMERIC", "FLOAT64"} -> ToDecimal(k, a.v)
      [] a.kind = "STRING" -> ParseDecimal(k, a.v)
      [] OTHER -> NotImplemented

CastByTargetKind(a, k, default) ==
    CASE k = "FLOAT64" -> CastToDouble(a)
      [] k = "STRING" -> CastToString(a)
      [] k = "BYTES" /\ a.kind = "STRING" -> Val("BYTES", a.v)
      [] k = "DATE" -> CastToDate(a)
      [] k = "DATETIME" -> CastToDatetime(a)
      [] k = "TIMESTAMP" -> CastToTimestamp(a, default)
      [] k = "BOOL" -> CastToBool(a)
      [] k = "INT64" -> CastToInt64(a)
      [] k \in {"NUMERIC", "BIGNUMERIC"} -> CastToDecimal(k, a)
      [] OTHER -> NotImplemented

-----------------------------------------------------------------------------
(* FORMAT and AT TIME ZONE.  The library's formats are one that it can print *)
(* and read and one that it refuses; likewise for zones.                     *)

IsLiteral(x) == x \notin {"none", "column"}

\* MakeTimeZone, in moments ahead of UTC.
OffsetIn(zone) == IF zone = "EAST" THEN 2 ELSE 0

ZoneOf(c) == IF c.zone = "none" THEN c.default ELSE OffsetIn(c.zone)

Good(c) == c.format # "bad" /\ c.zone # "bad"

\* An error is NULL under SAFE_CAST.
SafeOrNull(safe, k, r) == IF r # NoResult /\ ~Ok(r) /\ safe THEN NullOf(k) ELSE r

OrNull(c, r) == SafeOrNull(c.safe, c.to.kind, r)

FormatTimestampToString(c, a) ==
    CASE c.zone = "column" -> NotImplemented
      [] OTHER -> OrNull(c, IF Good(c) THEN Val("STRING", DatetimeText(a.v + ZoneOf(c)))
                            ELSE Invalid)

ParseStringToTimestampValue(c, s) ==
    CASE c.zone = "column" -> NotImplemented
      [] OTHER -> OrNull(c, IF Good(c) /\ IsDatetime(s, TRUE)
                            THEN Val("TIMESTAMP", DatetimeIn(s) - ZoneOf(c)) ELSE Invalid)

FormatDateToString(c, a) ==
    OrNull(c, IF c.format # "bad" THEN Val("STRING", <<DateChar(a.v)>>) ELSE Invalid)

FormatDatetimeToString(c, a) ==
    OrNull(c, IF c.format # "bad" THEN Val("STRING", DatetimeText(a.v)) ELSE Invalid)

ParseStringToDateValue(c, s) == OrNull(c, IF c.format # "bad" THEN ParseDate(s) ELSE Invalid)

ParseStringToDatetimeValue(c, s) ==
    OrNull(c, IF c.format # "bad" /\ IsDatetime(s, TRUE) THEN Val("DATETIME", DatetimeIn(s))
              ELSE Invalid)

TryEvalCastFormatToString(c, a) ==
    IF c.format = "none" \/ c.to.kind # "STRING" THEN NoResult
    ELSE IF a.null THEN NullOf("STRING")
    ELSE IF ~IsLiteral(c.format) THEN NotImplemented
    ELSE CASE a.kind = "DATETIME" -> FormatDatetimeToString(c, a)
           [] a.kind = "DATE" -> FormatDateToString(c, a)
           [] a.kind = "TIMESTAMP" -> FormatTimestampToString(c, a)
           [] OTHER -> NoResult

TryEvalCastFormatFromString(c, a) ==
    IF c.format = "none" \/ a.kind # "STRING" THEN NoResult
    ELSE IF a.null THEN NullOf(c.to.kind)
    ELSE IF ~IsLiteral(c.format) THEN NotImplemented
    ELSE CASE c.to.kind = "DATE" -> ParseStringToDateValue(c, a.v)
           [] c.to.kind = "DATETIME" -> ParseStringToDatetimeValue(c, a.v)
           [] c.to.kind = "TIMESTAMP" -> ParseStringToTimestampValue(c, a.v)
           [] OTHER -> NoResult

TimestampToStringInZone(c, a) ==
    LET z == OffsetIn(c.zone)
    IN  Val("STRING", Append(DatetimeText(ToTheSecond(a.v + z)), OffsetChar(z)))

TimestampToDatetimeInZone(c, a) == Val("DATETIME", a.v + OffsetIn(c.zone))

TryEvalCastTimestampTimezone(c, a) ==
    IF c.format # "none" \/ c.zone = "none" \/ a.kind # "TIMESTAMP"
       \/ c.to.kind \notin {"STRING", "DATETIME"} THEN NoResult
    ELSE IF a.null THEN NullOf(c.to.kind)
    ELSE IF ~IsLiteral(c.zone) THEN NotImplemented
    ELSE OrNull(c, CASE c.zone = "bad" -> Invalid
                     [] c.to.kind = "STRING" -> TimestampToStringInZone(c, a)
                     [] OTHER -> TimestampToDatetimeInZone(c, a))

\* Of casts tried in turn, the first that applies.
Else(r, next) == IF r # NoResult THEN r ELSE next

TryEvalCastFormatAndTimezone(c, a) ==
    Else(TryEvalCastFormatToString(c, a),
         Else(TryEvalCastFormatFromString(c, a), TryEvalCastTimestampTimezone(c, a)))

-----------------------------------------------------------------------------
(* Casts tried before the scalar ones, on elements too.                      *)

TryCastStringBytesPair(a, to, safe) ==
    LET k == to.kind
    IN  SafeOrNull(safe, k,
               CASE k = "BYTES" /\ a.kind = "STRING" -> Val("BYTES", a.v)
                 [] k = "STRING" /\ a.kind = "BYTES" -> SafeConvertBytes(a)
                 [] k = "STRING" /\ a.kind = "INT64" -> Val("STRING", IntText(a.v))
                 [] k = "DATE" /\ a.kind = "STRING" -> ParseDate(a.v)
                 [] OTHER -> NoResult)

StructTypesCompatibleByPosition(from, to) == from.fields = to.fields

TryCastStructFields(a, from, to, safe) ==
    CASE to.kind # "STRUCT" \/ a.kind # "STRUCT" -> NoResult
      [] OTHER -> IF StructTypesCompatibleByPosition(from, to) THEN Val("STRUCT", a.v)
                  ELSE IF safe THEN NullOf("STRUCT") ELSE NotImplemented

\* TryCastValueToType of anything but an array.
TryCastElement(a, from, to, safe) ==
    CASE from = to -> a
      [] from # to /\ a.null -> NullOf(to.kind)
      [] OTHER -> Else(TryCastStringBytesPair(a, to, safe), TryCastStructFields(a, from, to, safe))

\* Element by element, up to the first that has no such cast or fails.
ArrayOrError(es) ==
    LET i == SelectInSeq(es, LAMBDA e : ~Ok(e)) IN IF i = 0 THEN Val("ARRAY", es) ELSE es[i]

TryCastArrayElements(a, from, to, safe) ==
    IF to.kind # "ARRAY" \/ a.kind # "ARRAY" THEN NoResult
    ELSE ArrayOrError([i \in DOMAIN a.v |-> TryCastElement(a.v[i], from.elem, to.elem, safe)])

TryCastValueToType(a, from, to, safe) ==
    CASE from = to -> a
      [] from # to /\ a.null -> NullOf(to.kind)
      [] OTHER -> IF a.kind = "ARRAY" /\ to.kind = "ARRAY"
                  THEN TryCastArrayElements(a, from, to, safe)
                  ELSE TryCastElement(a, from, to, safe)

-----------------------------------------------------------------------------
(* Type modifiers: [is |-> "none"], [is |-> "string", max |-> _],            *)
(* [is |-> "numeric", p |-> _, s |-> _] or [is |-> "other"].                 *)

ApplyNumericPrecisionScale(n, p, s) ==
    LET step == Unit \div (10 ^ s)
        out == IF n % Unit = 0 THEN n ELSE RoundDiv(n, step) * step
    IN  IF Abs(out) > ((10 ^ p - 1) * Unit) \div (10 ^ s) THEN MakeSemanticError("kOutOfRange")
        ELSE Val("NUMERIC", out)

ApplyBignumericPrecisionScale(n, s) ==
    LET step == Unit \div (10 ^ s)
    IN  Val("BIGNUMERIC", IF n % Unit = 0 THEN n ELSE RoundDiv(n, step) * step)

ApplyStringMaxLength(a, max) == IF max < Len(a.v) THEN MakeSemanticError("kOutOfRange") ELSE a

\* ApplyNumericTypeModifiers and the string case; other kinds keep their value.
Modified(a, mod) ==
    CASE mod.is = "string" /\ a.kind = "STRING" -> ApplyStringMaxLength(a, mod.max)
      [] mod.is = "numeric" /\ a.kind = "NUMERIC" ->
           ApplyNumericPrecisionScale(a.v, mod.p, mod.s)
      [] mod.is = "numeric" /\ a.kind = "BIGNUMERIC" ->
           ApplyBignumericPrecisionScale(a.v, mod.s)
      [] OTHER -> a


ApplyCastTypeModifiers(a, mod, safe) ==
    CASE mod.is = "none" \/ a.null -> a
      [] mod.is = "other" /\ ~a.null -> NotImplemented
      [] OTHER -> SafeOrNull(safe, a.kind, Modified(a, mod))

EvalResolvedCast(c, a, from) ==
    LET modified(r) == IF Ok(r) THEN ApplyCastTypeModifiers(r, c.mod, c.safe) ELSE r
    IN  modified(Else(TryEvalCastFormatAndTimezone(c, a),
                      Else(TryCastValueToType(a, from, c.to, c.safe),
                           OrNull(c, CastByTargetKind(a, c.to.kind, c.default)))))

-----------------------------------------------------------------------------
(* Calls.                                                                    *)

NoModifier == [is |-> "none"]

Cast(to, safe) ==
    [to |-> to, safe |-> safe, mod |-> NoModifier, format |-> "none", zone |-> "none",
     default |-> 0]

CastResult(c, a, from) == [op |-> "cast", cast |-> c, in |-> a, from |-> from,
                           res |-> EvalResolvedCast(c, a, from)]

Decimal == {-57, -54, -30, -3, 0, 3, 30, 54, 57, 60, 93}

CastTexts ==
    {<<>>, <<MinusSign, Zero + 8>>, <<Zero + 1, Dot, Zero + 5>>, <<Dot>>, <<Word(0)>>, <<Word(1)>>,
     <<DateChar(1)>>}
    \cup {DatetimeText(m) : m \in {0, 5}}
    \cup {Append(DatetimeText(5), OffsetChar(z)) : z \in {0, 2}}

\* What a column of a kind may hold; FLOAT64 within INT64's range.
ValuesOf(k) ==
    CASE k = "INT64" -> Int64
      [] k = "FLOAT64" -> Decimal \cup {-7, 29}
      [] k \in {"NUMERIC", "BIGNUMERIC"} -> Decimal
      [] k = "BOOL" -> {0, 1}
      [] k = "DATE" -> {0, 1}
      [] k \in {"DATETIME", "TIMESTAMP"} -> 0 .. 2 * DayLength - 1
      [] k = "STRING" -> CastTexts
      [] k = "BYTES" -> {<<>>, <<Zero>>, <<Zero, BadByte>>}

CastKinds == {"INT64", "FLOAT64", "NUMERIC", "BIGNUMERIC", "BOOL", "DATE", "DATETIME", "TIMESTAMP",
              "STRING", "BYTES"}

CastInputs(k) == {Val(k, n) : n \in ValuesOf(k)} \cup {NullOf(k)}

Modifiers ==
    {NoModifier, [is |-> "other"], [is |-> "string", max |-> 1]}
    \cup {[is |-> "numeric", p |-> p, s |-> s] : p \in 1 .. 2, s \in 0 .. 1}

\* Scalars to scalars, with the modifiers of the target.
CallCast ==
    /\ eval = NoCall
    /\ \E k, to \in CastKinds, safe \in BOOLEAN, mod \in Modifiers, default \in {0, 2} :
          /\ mod.is = "string" => to \in {"STRING", "BYTES"}
          /\ mod.is = "numeric" => to \in {"NUMERIC", "BIGNUMERIC"}
          /\ \E a \in CastInputs(k) :
                eval' = CastResult([Cast(Type(to), safe) EXCEPT !.mod = mod, !.default = default],
                                   a, Type(k))

\* Texts to INT64.
CallReadInteger ==
    /\ eval = NoCall
    /\ \E n \in 0 .. MaxNumeral, safe \in BOOLEAN :
       \E s \in [1 .. n -> {PlusSign, MinusSign, Zero, Zero + 1, Zero + 8, HexMark}] :
          eval' = CastResult(Cast(Type("INT64"), safe), Val("STRING", s), Type("STRING"))

\* FORMAT and AT TIME ZONE between times and texts.
CallFormat ==
    /\ eval = NoCall
    /\ \E k, to \in {"STRING", "DATE", "DATETIME", "TIMESTAMP"}, safe \in BOOLEAN,
          format \in {"none", "column", "iso", "bad"},
          zone \in {"none", "column", "UTC", "EAST", "bad"}, default \in {0, 2} :
       \E a \in CastInputs(k) :
          eval' = CastResult([Cast(Type(to), safe) EXCEPT !.format = format, !.zone = zone,
                                                          !.default = default], a, Type(k))

\* Arrays element by element, structs by position.
CallCastNested ==
    /\ eval = NoCall
    /\ \E safe \in BOOLEAN, mod \in {NoModifier, [is |-> "other"]} :
       \/ \E k, to \in {"STRING", "INT64", "BYTES", "DATE"}, n \in 0 .. 2 :
          \E es \in [1 .. n -> {Val(k, v) : v \in ValuesOf(k)} \cup {NullOf(k)}] :
             eval' = CastResult([Cast(ArrayType(Type(to)), safe) EXCEPT !.mod = mod],
                                Val("ARRAY", es), ArrayType(Type(k)))
       \/ \E ks \in {<<"INT64", "STRING">>, <<"STRING", "INT64">>, <<"INT64">>}, names \in {"x", "y"} :
             eval' = CastResult(
                 [Cast(StructType(ks, names), safe) EXCEPT !.mod = mod],
                 Val("STRUCT", <<Val("INT64", 1), Val("STRING", <<Zero>>)>>),
                 StructType(<<"INT64", "STRING">>, "x"))

CastNext == CallCast \/ CallReadInteger \/ CallFormat \/ CallCastNested

CastInit == eval = NoCall

-----------------------------------------------------------------------------

IsCast == eval.op = "cast"

Plainly(e) == EvalResolvedCast([e.cast EXCEPT !.safe = FALSE], e.in, e.from)

\* Refused whatever the value: what the executor does not implement outside
\* the casts of one kind to another.
Unsupported(c) == c.format = "column" \/ c.zone = "column" \/ c.mod.is = "other"

\* SAFE_CAST answers what CAST does and NULL where CAST fails, through formats,
\* zones and type modifiers (return_null_on_error in each of those paths); an
\* array keeps the elements that could be cast.
SafeCastIsCastOrNull ==
    LET asCast(plain) ==
            IF Ok(plain) THEN eval.res = plain
            ELSE /\ Ok(eval.res) /\ eval.res.kind = eval.cast.to.kind
                 /\ eval.res.null \/ eval.res.kind = "ARRAY"
    IN  IsCast /\ eval.cast.safe /\ ~Unsupported(eval.cast) => asCast(Plainly(eval))

\* What a text cannot bring back: the smallest INT64, whose digits alone are out
\* of range; FLOAT64 digits that StrCat drops; fractions of a second.
Unwritten(a) ==
    \/ a.kind = "INT64" /\ a.v = -(2 ^ (Bits - 1))
    \/ a.kind = "FLOAT64" /\ a.v % 6 # 0
    \/ a.kind \in {"DATETIME", "TIMESTAMP"} /\ a.v % 2 # 0

\* A value cast to STRING and back is the value (CastToString against the
\* readers of each kind, AT TIME ZONE included).
TextRoundTrips ==
    IsCast /\ eval.cast.to.kind = "STRING" /\ eval.from.kind \in CastKinds
    /\ eval.cast.format = "none" /\ eval.cast.mod = NoModifier
    /\ Ok(eval.res) /\ ~eval.res.null /\ ~Unwritten(eval.in) =>
        EvalResolvedCast([eval.cast EXCEPT !.to = eval.from, !.zone = "none"], eval.res,
                         Type("STRING")) = eval.in

\* With FORMAT, a moment printed and read under the same clause is the moment,
\* fractions included: both directions take the same zone, the clause's or the
\* session's (FormatTimestampToString, ParseStringToTimestampValue).
FormatsInvert ==
    IsCast /\ eval.cast.to.kind = "STRING" /\ eval.cast.format = "iso"
    /\ Ok(eval.res) /\ ~eval.res.null /\ eval.in.kind # "STRING" =>
        EvalResolvedCast([eval.cast EXCEPT !.to = eval.from], eval.res, Type("STRING")) = eval.in

IsNumeral(s) == WithoutSign(s) # <<>> /\ AllDigits(WithoutSign(s))

\* Accepted beside the numerals: nothing after the sign, or a second sign.
Lenient(s) ==
    LET u == WithoutZeros(WithoutSign(s)) IN u = <<>> \/ (HasSign(u) /\ Ok(SimpleAtoi(u)))

\* A numeral is read as its number when that fits, the smallest INT64 apart, and
\* refused when it does not; other texts are refused but for the ones the code
\* is lenient about and hexadecimal (CastDecimalStringToInt64).
IntegersReadExactly ==
    IsCast /\ ~eval.cast.safe /\ eval.cast.to.kind = "INT64" /\ eval.in.kind = "STRING"
    /\ ~eval.in.null /\ ~IsHex(eval.in.v) =>
        LET s == eval.in.v
            n == Negate(s, Number(WithoutSign(s)))
        IN  IF IsNumeral(s) THEN IF Abs(n) \in Int64 THEN eval.res = Val("INT64", n) ELSE ~Ok(eval.res)
            ELSE Ok(eval.res) => Lenient(s)

\* A modifier is met by every value that passes it: the closest value with s
\* decimals, within p digits, no longer than max characters.  BIGNUMERIC(p, s)
\* is rounded and not bounded, BYTES(max) is not looked at.
ModifiersHold ==
    IsCast /\ Ok(eval.res) /\ ~eval.res.null =>
        LET mod == eval.cast.mod
            plain == EvalResolvedCast([eval.cast EXCEPT !.mod = NoModifier], eval.in, eval.from)
        IN  /\ mod.is = "string" /\ eval.res.kind = "STRING" => Len(eval.res.v) <= mod.max
            /\ mod.is = "numeric" =>
                 /\ eval.res.v % (Unit \div (10 ^ mod.s)) = 0
                 /\ 2 * Abs(eval.res.v - plain.v) <= Unit \div (10 ^ mod.s)
                 /\ eval.res.kind = "NUMERIC" =>
                      Abs(eval.res.v) <= ((10 ^ mod.p - 1) * Unit) \div (10 ^ mod.s)

\* An array that is cast has in every place what its element is cast to alone,
\* the SAFE of the cast included (TryCastArrayElements).  Where the element's
\* cast is not one of those tried, SAFE_CAST gives up the whole array.
ArraysCastElementwise ==
    IsCast /\ eval.in.kind = "ARRAY" /\ Ok(eval.res) /\ ~eval.res.null =>
        /\ Len(eval.res.v) = Len(eval.in.v)
        /\ \A i \in DOMAIN eval.in.v :
              eval.res.v[i] = EvalResolvedCast(Cast(eval.cast.to.elem, eval.cast.safe), eval.in.v[i],
                                               eval.from.elem)

\* FLOAT64 and NUMERIC become the closest INT64, halves away from zero.  The code
\* cuts the fraction off.
CastsToClosestInteger ==
    IsCast /\ eval.cast.to.kind = "INT64" /\ eval.in.kind \in {"FLOAT64", "NUMERIC"}
    /\ Ok(eval.res) /\ ~eval.res.null => eval.res.v = RoundDiv(eval.in.v, Unit)

=============================================================================
