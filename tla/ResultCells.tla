------------------------------ MODULE ResultCells ------------------------------
(***************************************************************************)
(* A query's result on its way out of DuckDB (backend/engine/duckdb/       *)
(* arrow_to_bq*.cc): every cell of a result vector is read by the type the *)
(* analyzer gave its column, dates and moments are put on the calendar,    *)
(* decimals get their point, wide integers are narrowed, and arrays and    *)
(* structs are read through their child vectors.  FormatTimestampUtc of    *)
(* semantic/value.cc prints the same moments on the other route.           *)
(*                                                                         *)
(* INT64 has Bits bits and HUGEINT twice as many; a second has             *)
(* TicksPerSecond ticks in place of a million microseconds.                *)
(***************************************************************************)
EXTENDS SqlValues, SequencesExt

CONSTANTS
    TicksPerSecond,   \* 10^6 in the code
    MaxScale,         \* decimal places
    MaxVectorRows     \* rows of a result vector

-----------------------------------------------------------------------------
(* The calendar. *)

Date(y, m, d) == [year |-> y, month |-> m, day |-> d]

FormatDate(days) ==
    LET inMonth(y, doy, mp) ==
            LET m == IF mp < 10 THEN mp + 3 ELSE mp - 9
            IN  Date(IF m <= 2 THEN y + 1 ELSE y, m, doy - ((153 * mp + 2) \div 5) + 1)
        inYear(y, doy) == inMonth(y, doy, (5 * doy + 2) \div 153)
        inEra(era, doe, yoe) == inYear(yoe + era * 400, doe - (365 * yoe + (yoe \div 4) - (yoe \div 100)))
        from(era, doe) ==
            inEra(era, doe, (doe - (doe \div 1460) + (doe \div 36524) - (doe \div 146096)) \div 365)
        civil(z, era) == from(era, z - era * 146097)
    IN  civil(days + 719468, Quot(IF days + 719468 >= 0 THEN days + 719468 ELSE days + 719468 - 146096, 146097))

TicksPerDay == 86400 * TicksPerSecond

FormatTimeMicros(ticks) ==
    LET t == IF ticks < 0 THEN 0 ELSE ticks
        seconds == t \div TicksPerSecond
    IN  [hh |-> (seconds \div 3600) % 24, mm |-> (seconds \div 60) % 60, ss |-> seconds % 60,
         frac |-> t % TicksPerSecond]

FormatTimestampMicros(ticks) ==
    LET day == Quot(ticks, TicksPerDay)
        rem == ticks - day * TicksPerDay
        back == IF rem < 0 THEN 1 ELSE 0
    IN  [date |-> FormatDate(day - back), time |-> FormatTimeMicros(rem + back * TicksPerDay)]

\* The semantic route: absl's civil second of the moment, and a fraction that
\* is taken from the magnitude of the count.
ToCivilSecond(ticks) ==
    LET seconds == ticks \div TicksPerSecond
    IN  FormatTimestampMicros(seconds * TicksPerSecond)

FormatTimestampUtc(ticks) ==
    [ToCivilSecond(ticks) EXCEPT !.time.frac = Abs(ticks) % TicksPerSecond]

-----------------------------------------------------------------------------
(* Integers and decimals. *)

Half == 2^Bits

\* DuckDB's HUGEINT: a signed upper word and an unsigned lower one.
Hugeint(upper, lower) == [upper |-> upper, lower |-> lower]

HugeintValue(h) == h.upper * Half + h.lower

\* static_cast<int64_t> of an unsigned word.
ToSigned(n) == IF n >= Half \div 2 THEN n - Half ELSE n

MinInt64 == -(Half \div 2)

MaxInt64 == (Half \div 2) - 1

OutOfRange == <<"error", "OutOfRange">>

HugeintCellToInt64(h) ==
    CASE h.upper = 0 -> IF h.lower > MaxInt64 THEN OutOfRange ELSE <<"Int64", h.lower>>
      [] h.upper = -1 -> <<"Int64", ToSigned(h.lower)>>
      [] OTHER -> OutOfRange

Int64ToDuckdbHugeint(n) == Hugeint(IF n < 0 THEN -1 ELSE 0, n % Half)

\* The decimal digits of a natural number, at least one.
RECURSIVE DecimalDigits(_)
DecimalDigits(n) == IF n < 10 THEN <<n>> ELSE Append(DecimalDigits(n \div 10), n % 10)

Zeros(n) == [i \in 1 .. n |-> 0]

PrintedDecimal(neg, whole, part) == [negative |-> neg, integer |-> whole, fractional |-> part]

FormatDecimalFromDigits(digits, negative, scale) ==
    LET padded == IF Len(digits) <= scale THEN Zeros(scale + 1 - Len(digits)) \o digits ELSE digits
    IN  PrintedDecimal(negative, SubSeq(padded, 1, Len(padded) - scale),
                SubSeq(padded, Len(padded) - scale + 1, Len(padded)))

\* The magnitude as an unsigned word: -(v + 1) does not overflow at the minimum.
Magnitude(v) == IF v < 0 THEN -(v + 1) + 1 ELSE v

FormatDecimalInt64(v, scale) == FormatDecimalFromDigits(DecimalDigits(Magnitude(v)), v < 0, scale)

FormatDecimalHugeint(h, scale) ==
    FormatDecimalFromDigits(DecimalDigits(Magnitude(HugeintValue(h))), HugeintValue(h) < 0, scale)

\* duckdb_decimal_to_double: the value over ten to the scale.
ReadDecimalCellAsDouble(x, internal, scale) ==
    LET h == IF internal = "HUGEINT" THEN x ELSE Int64ToDuckdbHugeint(x)
    IN  <<"Float64", HugeintValue(h), scale>>
-----------------------------------------------------------------------------
(* Vectors: a type, which rows are valid, the raw data of the rows, and the *)
(* child vectors of a LIST or STRUCT.  A text is a sequence of characters,  *)
(* or the numeral <<"numeral", n>>.                                         *)

Vector(t, valid, data, children) ==
    [type |-> t, valid |-> valid, data |-> data, children |-> children, internal |-> t, scale |-> 0]

DecimalVector(internal, scale, valid, data) ==
    [Vector("DECIMAL", valid, data, <<>>) EXCEPT !.internal = internal, !.scale = scale]

ResultColumn(t, m, fs) == [type |-> t, mode |-> m, fields |-> fs]

NullResult == <<"Null">>

Unimplemented == <<"error", "Unimplemented">>

FailedPrecondition == <<"error", "FailedPrecondition">>

InvalidText == <<"error", "InvalidArgument">>

IsFailure(v) == v[1] = "error"

\* What reading memory as another type gives: anything.
Garbage == <<"garbage">>

ExactIntegers == {"TINYINT", "SMALLINT", "INTEGER", "BIGINT", "UTINYINT", "USMALLINT", "UINTEGER"}

\* std::strtoll: out of range it gives the nearest end.
Strtoll(n) == IF n > MaxInt64 THEN MaxInt64 ELSE IF n < MinInt64 THEN MinInt64 ELSE n

ReadInt64Cell(vector, row) ==
    LET x == vector.data[row]
    IN  CASE vector.type \in ExactIntegers -> <<"Int64", x>>
          [] vector.type = "UBIGINT" -> <<"Int64", ToSigned(x)>>
          [] vector.type = "HUGEINT" -> HugeintCellToInt64(x)
          [] vector.type = "VARCHAR" ->
                IF x[1] = "numeral" THEN <<"Int64", Strtoll(x[2])>> ELSE InvalidText
          [] OTHER -> Unimplemented

ReadFloat64Cell(vector, row) ==
    CASE vector.type \in {"FLOAT", "DOUBLE"} -> <<"Float64", vector.data[row], 0>>
      [] vector.type = "DECIMAL" ->
            ReadDecimalCellAsDouble(vector.data[row], vector.internal, vector.scale)
      [] OTHER -> Unimplemented

ReadDecimalCell(vector, row) ==
    LET x == vector.data[row]
    IN  CASE vector.type = "VARCHAR" -> <<"String", x>>
          [] vector.type = "DECIMAL" ->
                <<"String", IF vector.internal = "HUGEINT" THEN FormatDecimalHugeint(x, vector.scale)
                            ELSE FormatDecimalInt64(x, vector.scale)>>
          [] OTHER -> Unimplemented

HexDigits == {"6", "1"}

\* absl::HexStringToBytes.
HexStringToBytes(hex) ==
    IF Len(hex) % 2 = 0 /\ \A i \in DOMAIN hex : hex[i] \in HexDigits
    THEN <<"Bytes", [i \in 1 .. Len(hex) \div 2 |-> <<hex[2 * i - 1], hex[2 * i]>>]>>
    ELSE InvalidText

DecodeDuckDbBlobText(s) ==
    LET quoted == Len(s) >= 3 /\ s[1] = "X" /\ s[2] = "'" /\ s[Len(s)] = "'"
        bare == Len(s) > 1 /\ s[1] = "x" /\ (Len(s) - 1) % 2 = 0
        hex == IF quoted THEN SubSeq(s, 3, Len(s) - 1) ELSE Tail(s)
    IN  IF quoted THEN HexStringToBytes(hex)
        ELSE IF bare /\ ~IsFailure(HexStringToBytes(hex)) THEN HexStringToBytes(hex)
        ELSE <<"Bytes", s>>

\* BOOL, text and calendar types are read without a look at the vector's type.
ReadAs(types, vector, value) == IF vector.type \in types THEN value ELSE Garbage

ReadScalarResult(vector, row, column) ==
    LET x == vector.data[row]
    IN  CASE column.type = "BOOL" -> ReadAs({"BOOLEAN"}, vector, <<"Bool", x>>)
          [] column.type = "INT64" -> ReadInt64Cell(vector, row)
          [] column.type = "FLOAT64" -> ReadFloat64Cell(vector, row)
          [] column.type = "STRING" -> ReadAs({"VARCHAR", "BLOB"}, vector, <<"String", x>>)
          [] column.type = "BYTES" ->
                IF vector.type = "BLOB" THEN <<"Bytes", x>>
                ELSE IF vector.type = "VARCHAR" THEN DecodeDuckDbBlobText(x) ELSE Garbage
          [] column.type = "DATE" ->
                IF vector.type = "DATE" THEN <<"String", FormatDate(x)>> ELSE Garbage
          [] column.type = "TIME" ->
                IF vector.type = "TIME" THEN <<"String", FormatTimeMicros(x)>> ELSE Garbage
          [] column.type = "TIMESTAMP" ->
                IF vector.type = "TIMESTAMP" THEN <<"String", FormatTimestampMicros(x)>> ELSE Garbage
          [] column.type = "NUMERIC" -> ReadDecimalCell(vector, row)
          [] OTHER -> FailedPrecondition

\* The first failure of a sequence of results, or the results.
Gathered(kind, vs) ==
    LET bad == {i \in DOMAIN vs : IsFailure(vs[i])}
    IN  IF bad = {} THEN <<kind, vs>> ELSE vs[CHOOSE i \in bad : \A j \in bad : i <= j]

RECURSIVE DispatchReadCellFromVector(_, _, _)

ReadArrayCell(vector, row, column) ==
    LET entry == vector.data[row]
        element == IF column.type = "ARRAY" /\ column.fields # <<>> THEN column.fields[1]
                   ELSE [column EXCEPT !.mode = "NULLABLE"]
    IN  Gathered("Array", [i \in 1 .. entry.length |->
                              DispatchReadCellFromVector(vector.children[1], entry.offset + i, element)])

ReadStructResult(vector, row, column) ==
    Gathered("Struct", [i \in DOMAIN column.fields |->
                           DispatchReadCellFromVector(vector.children[i], row, column.fields[i])])

DispatchReadCellFromVector(vector, row, column) ==
    IF ~vector.valid[row] THEN NullResult
    ELSE IF column.mode = "REPEATED" \/ column.type = "ARRAY" \/ vector.type = "LIST"
    THEN IF vector.type # "LIST" THEN FailedPrecondition ELSE ReadArrayCell(vector, row, column)
    ELSE IF column.type = "STRUCT" \/ vector.type = "STRUCT"
    THEN IF vector.type # "STRUCT" THEN FailedPrecondition ELSE ReadStructResult(vector, row, column)
    ELSE ReadScalarResult(vector, row, column)

ChunkRowToCells(chunk, row, schema) ==
    IF Len(chunk) # Len(schema) THEN InvalidText
    ELSE Gathered("Row", [c \in DOMAIN chunk |-> DispatchReadCellFromVector(chunk[c], row, schema[c])])
-----------------------------------------------------------------------------
(* DuckDB's layout of result values: what the vectors hold. *)

Flat(t) == ResultColumn(t, "NULLABLE", <<>>)

RepeatedOf(c) == [c EXCEPT !.mode = "REPEATED"]

Bytes == {<<>>, <<<<"6", "1">>>>}

\* The values a column's rows have, other than NULL.
RECURSIVE ResultValues(_)
ResultValues(c) ==
    LET OrNull(d) == {NullResult} \cup ResultValues(d)
    IN  CASE c.mode = "REPEATED" ->
                {<<"Array", s>> : s \in UNION {[1 .. n -> OrNull([c EXCEPT !.mode = "NULLABLE"])] : n \in 0 .. 2}}
          [] c.type = "ARRAY" ->
                {<<"Array", s>> : s \in UNION {[1 .. n -> OrNull(c.fields[1])] : n \in 0 .. 2}}
          [] c.type = "STRUCT" ->
                {<<"Struct", <<a, b>>>> : a \in OrNull(c.fields[1]), b \in OrNull(c.fields[2])}
          [] c.type = "BOOL" -> {<<"Bool", TRUE>>}
          [] c.type = "INT64" -> {<<"Int64", 2>>}
          [] c.type = "BYTES" -> {<<"Bytes", b>> : b \in Bytes}

\* The vector types that may back a scalar column.
Backing(c) ==
    CASE c.type = "BOOL" -> {"BOOLEAN"}
      [] c.type = "INT64" -> {"BIGINT", "UBIGINT", "HUGEINT", "VARCHAR"}
      [] c.type = "BYTES" -> {"BLOB", "VARCHAR"}
      [] OTHER -> {"BIGINT"}

HexText(bytes) == <<"X", "'">> \o FlattenSeq(bytes) \o <<"'">>

RawData(v, t) ==
    CASE v = NullResult -> <<>>
      [] t = "HUGEINT" -> Int64ToDuckdbHugeint(v[2])
      [] t = "VARCHAR" -> IF v[1] = "Int64" THEN <<"numeral", v[2]>> ELSE HexText(v[2])
      [] OTHER -> v[2]

\* The rows' lists lie one after the other behind some unused elements.
RECURSIVE Layout(_, _, _, _)
Layout(c, t, vs, unused) ==
    LET valid == [r \in DOMAIN vs |-> vs[r] # NullResult]
        list(r) == IF valid[r] THEN vs[r][2] ELSE <<>>
        before(r) == FlattenSeq([q \in 1 .. r - 1 |-> list(q)])
        element == IF c.type = "ARRAY" THEN c.fields[1] ELSE [c EXCEPT !.mode = "NULLABLE"]
        leftover == [i \in 1 .. unused |-> NullResult]
    IN  IF c.mode = "REPEATED" \/ c.type = "ARRAY"
        THEN Vector("LIST", valid,
                    [r \in DOMAIN vs |-> [offset |-> unused + Len(before(r)), length |-> Len(list(r))]],
                    <<Layout(element, t, leftover \o before(Len(vs) + 1), unused)>>)
        ELSE IF c.type = "STRUCT"
        THEN Vector("STRUCT", valid, <<>>,
                    [i \in DOMAIN c.fields |->
                        Layout(c.fields[i], IF t \in Backing(c.fields[i]) THEN t ELSE "BOOLEAN",
                               [r \in DOMAIN vs |-> IF valid[r] THEN vs[r][2][i] ELSE NullResult],
                               unused)])
        ELSE Vector(t, valid, [r \in DOMAIN vs |-> RawData(vs[r], t)], <<>>)

-----------------------------------------------------------------------------

ResultColumns ==
    {Flat("BOOL"), Flat("INT64"), Flat("BYTES"), RepeatedOf(Flat("INT64")), RepeatedOf(Flat("BYTES")),
     ResultColumn("ARRAY", "NULLABLE", <<Flat("INT64")>>),
     ResultColumn("STRUCT", "NULLABLE", <<Flat("INT64"), RepeatedOf(Flat("INT64"))>>),
     RepeatedOf(ResultColumn("STRUCT", "NULLABLE", <<Flat("INT64"), Flat("BOOL")>>))}

\* Around leap years, a century that is none, one that is, and the year 0.
CalendarDays ==
    UNION {y * 365 + (y \div 4) - 719528 - 800 .. y * 365 + (y \div 4) - 719528 + 800 :
              y \in {1, 4, 1900, 1970, 2000, 2100}}

Moments == {d * TicksPerDay + sec * TicksPerSecond + t :
                d \in -2 .. 1, sec \in {0, 59, 60, 3599, 3600, 86399}, t \in 0 .. TicksPerSecond - 1}

Hugeints == [upper : MinInt64 .. MaxInt64, lower : 0 .. Half - 1]

ReadOne(vector, column) == ChunkRowToCells(<<vector>>, 1, <<column>>)

CallDate(day) ==
    eval' = [op |-> "date", day |-> day,
             res |-> ReadOne(Vector("DATE", <<TRUE>>, <<day>>, <<>>), Flat("DATE"))[2][1][2],
             next |-> FormatDate(day + 1)]

CallMoment(ticks) ==
    eval' = [op |-> "moment", ticks |-> ticks,
             res |-> ReadOne(Vector("TIMESTAMP", <<TRUE>>, <<ticks>>, <<>>), Flat("TIMESTAMP"))[2][1][2],
             semantic |-> FormatTimestampUtc(ticks)]

CallDecimal(internal, x, scale) ==
    LET vector == DecimalVector(internal, scale, <<TRUE>>, <<x>>)
    IN  eval' = [op |-> "decimal", scale |-> scale,
                 value |-> IF internal = "HUGEINT" THEN HugeintValue(x) ELSE x,
                 text |-> ReadOne(vector, Flat("NUMERIC"))[2][1][2],
                 double |-> ReadOne(vector, Flat("FLOAT64"))[2][1]]

CallNarrow(t, x) ==
    eval' = [op |-> "narrow", type |-> t,
             value |-> CASE t = "HUGEINT" -> HugeintValue(x) [] t = "VARCHAR" -> x[2] [] OTHER -> x,
             res |-> ReadInt64Cell(Vector(t, <<TRUE>>, <<x>>, <<>>), 1)]

CallRead(c, t, vs, unused) ==
    eval' = [op |-> "vector", cells |-> vs,
             res |-> [r \in DOMAIN vs |-> ChunkRowToCells(<<Layout(c, t, vs, unused)>>, r, <<c>>)]]

\* The analyzer's column and DuckDB's vector are of different types.
CallDisagree(c, d) ==
    LET t == CHOOSE k \in Backing(d) : TRUE
        v == CHOOSE w \in ResultValues(d) : TRUE
    IN  eval' = [op |-> "disagree", column |-> c, type |-> Layout(d, t, <<v>>, 0).type,
                 res |-> DispatchReadCellFromVector(Layout(d, t, <<v>>, 0), 1, c)]

ResultNext ==
    \/ eval = NoCall /\ \E day \in CalendarDays : CallDate(day)
    \/ eval = NoCall /\ \E ticks \in Moments : CallMoment(ticks)
    \/ eval = NoCall /\ \E scale \in 0 .. MaxScale, h \in Hugeints : CallDecimal("HUGEINT", h, scale)
    \/ eval = NoCall /\ \E scale \in 0 .. MaxScale, n \in Int64 : CallDecimal("BIGINT", n, scale)
    \/ eval = NoCall /\ \E h \in Hugeints : CallNarrow("HUGEINT", h)
    \/ eval = NoCall /\ \E n \in 0 .. Half - 1 : CallNarrow("UBIGINT", n)
    \/ eval = NoCall /\ \E n \in -Half .. Half : CallNarrow("VARCHAR", <<"numeral", n>>)
    \/ /\ eval = NoCall
       /\ \E c \in ResultColumns, unused \in 0 .. 1 :
             \E t \in IF c.type \in {"BOOL", "INT64", "BYTES"} THEN Backing(c) ELSE {"BIGINT"},
                vs \in UNION {[1 .. n -> {NullResult} \cup ResultValues(c)] : n \in 1 .. MaxVectorRows} :
                   CallRead(c, t, vs, unused)
    \/ /\ eval = NoCall
       /\ \E c \in ResultColumns \cup {Flat("DATE"), Flat("NUMERIC"), Flat("FLOAT64")}, d \in ResultColumns :
             CallDisagree(c, d)
-----------------------------------------------------------------------------
(* Properties. *)

IsLeap(y) == y % 4 = 0 /\ (y % 100 # 0 \/ y % 400 = 0)

DaysIn(y, m) ==
    CASE m = 2 -> IF IsLeap(y) THEN 29 ELSE 28 [] m \in {4, 6, 9, 11} -> 30 [] OTHER -> 31

DayAfter(d) ==
    IF d.day < DaysIn(d.year, d.month) THEN [d EXCEPT !.day = @ + 1]
    ELSE IF d.month < 12 THEN Date(d.year, d.month + 1, 1)
    ELSE Date(d.year + 1, 1, 1)

\* FormatDate's arithmetic on eras, years and months of March-based years is
\* the Gregorian calendar: day 0 is 1 January 1970, and the day after a date
\* is its successor, at leap days, at centuries that have none and before
\* the year 1.
CalendarExact ==
    eval.op = "date" => /\ eval.next = DayAfter(eval.res)
                        /\ eval.day = 0 => eval.res = Date(1970, 1, 1)

\* The ticks a printed moment stands for; its date is within days of 1970.
TicksOf(p) ==
    LET day == CHOOSE d \in -4 .. 4 : FormatDate(d) = p.date
    IN  day * TicksPerDay
        + (p.time.hh * 3600 + p.time.mm * 60 + p.time.ss) * TicksPerSecond + p.time.frac

\* A TIMESTAMP printed by FormatTimestampMicros reads back as the same moment,
\* before 1970 as well, where C++ division rounds towards zero; the semantic
\* route prints every whole second and every moment from 1970 on alike.
MomentsPrintExactly ==
    eval.op = "moment" =>
        /\ TicksOf(eval.res) = eval.ticks
        /\ eval.ticks >= 0 \/ eval.ticks % TicksPerSecond = 0 => eval.semantic = eval.res

\* The comment on FormatTimestampUtc says that the gateway sees the same
\* envelope whatever the route.  Before 1970 a fraction is printed as its
\* distance from the next second.  Violated.
RoutesPrintAlike == eval.op = "moment" => eval.semantic = eval.res

DigitsValue(s) == FoldLeft(LAMBDA acc, d : 10 * acc + d, 0, s)

\* A decimal is printed with its scale's places, at least one digit before
\* the point, no other leading zero, and the value and sign it has, for the
\* least value of its width as well; read as FLOAT64 it is the same value.
DecimalsKeepTheirPoint ==
    eval.op = "decimal" =>
        LET d == eval.text
            magnitude == DigitsValue(d.integer \o d.fractional)
        IN  /\ Len(d.fractional) = eval.scale
            /\ d.integer # <<>> /\ (Len(d.integer) > 1 => d.integer[1] # 0)
            /\ eval.value = IF d.negative THEN -magnitude ELSE magnitude
            /\ eval.double = <<"Float64", eval.value, eval.scale>>

\* Values that wrap or stop at the end of the range in place of an error: a
\* HUGEINT whose upper word is -1, an unsigned BIGINT, a numeral.
NarrowsSilently ==
    CASE eval.type = "HUGEINT" -> eval.value \in -Half .. -1
      [] OTHER -> TRUE

\* A SUM or COUNT that DuckDB computed as HUGEINT is answered as the INT64 it
\* is, or not at all.
NarrowedExactly ==
    eval.op = "narrow" =>
        \/ eval.res = <<"Int64", eval.value>>
        \/ eval.value \notin Int64 /\ (IsFailure(eval.res) \/ NarrowsSilently)

\* The comment on HugeintCellToInt64 says that a value is narrowed when it
\* fits the range exactly.  An upper word of -1 is taken for a sign and the
\* lower word returned whatever it is.  Violated.
WideIntegersRefused ==
    eval.op = "narrow" /\ eval.type = "HUGEINT" /\ eval.value \notin Int64 => IsFailure(eval.res)

\* Every row of a result vector reads as the value DuckDB put there: NULLs at
\* every level, empty lists, lists behind unused elements, lists in structs
\* and structs in lists, whatever vector type backs the column.
VectorsReadBack ==
    eval.op = "vector" =>
        \A r \in DOMAIN eval.cells : eval.res[r] = <<"Row", <<eval.cells[r]>>>>

\* Columns whose vector is read unseen, and the one reading that suits both:
\* a list or struct is read as such when only DuckDB says it is one.
ReadUnseen(c) == c.mode = "NULLABLE" /\ c.type \in {"BOOL", "BYTES", "DATE"}

\* Where the analyzer and DuckDB disagree on a column's type, a container or
\* a number is refused; it is never read from memory laid out for another.
DisagreementsSurface ==
    eval.op = "disagree" /\ ~ReadUnseen(eval.column) => eval.res # Garbage

\* A cell of a DuckDB result vector is answered as the value it is, whatever the
\* vector's layout, type, sign or scale.
ResultCellsExact ==
    /\ CalendarExact
    /\ MomentsPrintExactly
    /\ DecimalsKeepTheirPoint
    /\ NarrowedExactly
    /\ VectorsReadBack
    /\ DisagreementsSurface
=============================================================================
