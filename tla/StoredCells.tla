------------------------------ MODULE StoredCells ------------------------------
(***************************************************************************)
(* A cell's way into the store and back: the wire cell becomes a           *)
(* storage::Value (frontend/handlers/catalog.cc), the value a SQL literal  *)
(* (duckdb_storage_literals.cc), the literal a cell of the table's file,   *)
(* and the file's cell a value again (duckdb_storage_rows.cc), arrays and  *)
(* structs by way of the text DuckDB prints them as                        *)
(* (duckdb_storage_list_literals.cc).  CLONE, an ALTER TABLE that rebuilds *)
(* the table and every DML rewrite send untouched rows all the way round.  *)
(*                                                                         *)
(* A text is a sequence of pieces: punctuation, a letter, the word NULL, a *)
(* numeral, an ISO date, a time.  Values, literals and cells are tuples    *)
(* that begin with their kind.  DATETIME and TIME behave as TIMESTAMP      *)
(* without the reading of digits, NUMERIC as INT64 given as text, FLOAT64  *)
(* as INT64; JSON and GEOGRAPHY are STRING.                                *)
(***************************************************************************)
EXTENDS SqlValues, TLC

CONSTANTS
    MaxCellText,    \* length of a STRING or BYTES cell
    MaxElements     \* length of an array

-----------------------------------------------------------------------------
(* Columns and what a file holds for them. *)

ColumnOf(n, t, m, fs) == [name |-> n, type |-> t, mode |-> m, fields |-> fs]

Scalar(n, t) == ColumnOf(n, t, "NULLABLE", <<>>)

Repeated(c) == [c EXCEPT !.mode = "REPEATED"]

ElementOf(c) == [c EXCEPT !.mode = "NULLABLE"]

PieceSeqs(pieces) == UNION {[1 .. n -> pieces] : n \in 0 .. MaxCellText}

CellInts == {-1, 2}

Days == {3}

StoredNull == <<"null">>

\* The printable letter and the byte that is not.
BytePieces == {"a", "hi"}

StringPieces == {"a", ",", " ", "'", "NULL"}

\* The cells a column can hold.
RECURSIVE CellsOf(_)
CellsOf(c) ==
    {StoredNull} \cup
    CASE c.mode = "REPEATED" ->
            {<<"list", s>> : s \in UNION {[1 .. n -> CellsOf(ElementOf(c))] : n \in 0 .. MaxElements}}
      [] c.type = "BOOL" -> {<<"bool", b>> : b \in BOOLEAN}
      [] c.type = "INT64" -> {<<"int", n>> : n \in CellInts}
      [] c.type = "STRING" -> {<<"text", s>> : s \in PieceSeqs(StringPieces)}
      [] c.type = "BYTES" -> {<<"blob", s>> : s \in PieceSeqs(BytePieces)}
      [] c.type = "DATE" -> {<<"date", d>> : d \in Days}
      [] c.type = "TIMESTAMP" -> {<<"time", d>> : d \in Days}
      [] c.type = "STRUCT" ->
            {<<"struct", s>> :
                s \in {f \in [DOMAIN c.fields -> UNION {CellsOf(c.fields[i]) : i \in DOMAIN c.fields}] :
                          \A i \in DOMAIN f : f[i] \in CellsOf(c.fields[i])}}

Failed == <<"error">>

IsError(x) == x[1] = "error"

OrFail(v, F(_)) == IF IsError(v) THEN Failed ELSE F(v)

AnyError(s) == \E i \in DOMAIN s : IsError(s[i])

-----------------------------------------------------------------------------
(* DuckDB's own text forms, as the code reads them: a quote inside a quoted *)
(* string is doubled.                                                       *)

Numeral(n) == <<ToString(n)>>

IsoDate(d) == <<"day" \o ToString(d)>>

IsoTime(d) == <<"time" \o ToString(d)>>

Joined(texts) ==
    FoldLeftDomain(LAMBDA acc, i : acc \o (IF i = 1 THEN <<>> ELSE <<",", " ">>) \o texts[i],
                   <<>>, texts)

Quoted(s) == <<"'">> \o FoldLeft(LAMBDA acc, p : acc \o (IF p = "'" THEN <<"'", "'">> ELSE <<p>>),
                                 <<>>, s) \o <<"'">>

\* Inside an array or struct a string is quoted only where it must be.
NeedsQuotes(s) ==
    \/ s = <<>> \/ s = <<"NULL">>
    \/ s[1] = " " \/ s[Len(s)] = " "
    \/ \E i \in DOMAIN s : s[i] \in {",", "'", "[", "]", "{", "}", ":"}

PrintedBytes(s) == [i \in DOMAIN s |-> IF s[i] = "hi" THEN "\\xHI" ELSE s[i]]

RECURSIVE Printed(_, _)
Printed(x, c) ==
    CASE x = StoredNull -> <<"NULL">>
      [] x[1] = "bool" -> <<IF x[2] THEN "true" ELSE "false">>
      [] x[1] = "int" -> Numeral(x[2])
      [] x[1] = "text" -> IF NeedsQuotes(x[2]) THEN Quoted(x[2]) ELSE x[2]
      [] x[1] = "blob" -> PrintedBytes(x[2])
      [] x[1] = "date" -> IsoDate(x[2])
      [] x[1] = "time" -> IsoTime(x[2])
      [] x[1] = "list" ->
            <<"[">> \o Joined([i \in DOMAIN x[2] |-> Printed(x[2][i], ElementOf(c))]) \o <<"]">>
      [] x[1] = "struct" ->
            <<"{">> \o Joined([i \in DOMAIN x[2] |->
                                  <<"'", c.fields[i].name, "'", ":", " ">>
                                  \o Printed(x[2][i], c.fields[i])]) \o <<"}">>

\* duckdb_value_varchar: the bare text of a string, nothing for NULL.
Varchar(x, c) ==
    CASE x = StoredNull -> <<>>
      [] x[1] = "text" -> x[2]
      [] OTHER -> Printed(x, c)

\* What a text is worth when a type is asked of it.
TextAs(type, s) ==
    CASE type = "BOOL" ->
            IF s \in {<<"true">>, <<"TRUE">>} THEN <<"bool", TRUE>>
            ELSE IF s = <<"false">> THEN <<"bool", FALSE>> ELSE Failed
      [] type = "INT64" ->
            IF \E n \in CellInts : s = Numeral(n)
            THEN <<"int", CHOOSE n \in CellInts : s = Numeral(n)>> ELSE Failed
      [] type = "DATE" ->
            IF \E d \in Days : s = IsoDate(d)
            THEN <<"date", CHOOSE d \in Days : s = IsoDate(d)>> ELSE Failed
      [] type = "TIMESTAMP" ->
            IF \E d \in Days : s = IsoTime(d)
            THEN <<"time", CHOOSE d \in Days : s = IsoTime(d)>> ELSE Failed
      [] OTHER -> <<"text", s>>

\* A literal of the INSERT, evaluated.  Raw text is SQL: a bare word is no value.
RECURSIVE Evaluated(_, _)
Evaluated(lit, c) ==
    CASE lit[1] \in {"bool", "int", "blob", "text"} -> lit
      [] lit[1] = "NULL" -> StoredNull
      [] lit[1] = "typed" -> TextAs(c.type, lit[2])
      [] lit[1] = "list" ->
            LET es == [i \in DOMAIN lit[2] |-> Evaluated(lit[2][i], ElementOf(c))]
            IN  IF AnyError(es) THEN Failed ELSE <<"list", es>>
      [] lit[1] = "struct" ->
            LET es == [i \in DOMAIN lit[2] |-> Evaluated(lit[2][i], c.fields[i])]
            IN  IF AnyError(es) THEN Failed ELSE <<"struct", es>>
      [] lit[1] = "raw" ->
            LET same == {x \in CellsOf(c) : /\ x # StoredNull
                                            /\ \A i \in DOMAIN x[2] : x[2][i][1] \in {"null", "bool", "int"}
                                            /\ Printed(x, c) = lit[2]}
            IN  IF same = {} THEN Failed ELSE CHOOSE x \in same : TRUE

-----------------------------------------------------------------------------
(* storage::Value, and the literal it is written as. *)

Value(k, v) == <<k, v>>

NullValue == <<"Null">>

\* The accessors: a value of another kind reads as the kind's zero.
StringValue(v) == IF v[1] \in {"String", "Bytes"} THEN v[2] ELSE <<>>

Int64Value(v) == IF v[1] = "Int64" THEN v[2] ELSE 0

BoolValue(v) == IF v[1] = "Bool" THEN v[2] ELSE FALSE

\* Nothing but digits is a day number in a DATE column, and microseconds in a TIMESTAMP one.
IsDigits(s) == \E n \in Days : s = Numeral(n)

DayOf(s) == CHOOSE n \in Days : s = Numeral(n)

TryFormatPackedDateString(s) == IF IsDigits(s) THEN IsoDate(DayOf(s)) ELSE s

TryFormatMicrosTimestampString(s) == IF IsDigits(s) THEN IsoTime(DayOf(s)) ELSE s

TrimAsciiSpace(s) ==
    LET solid == {i \in DOMAIN s : s[i] # " "}
    IN  IF solid = {} THEN <<>>
        ELSE SubSeq(s, CHOOSE i \in solid : \A j \in solid : i <= j,
                       CHOOSE i \in solid : \A j \in solid : j <= i)

Begins(s, p) == s # <<>> /\ s[1] = p

\* RenderCellLiteral of the store; the executor has its own.
RECURSIVE CellLiteral(_, _)

RenderStructLiteral(v, c) ==
    LET text == TrimAsciiSpace(StringValue(v))
    IN  IF v[1] = "String" /\ Begins(text, "{") THEN <<"raw", text>>
        ELSE IF v[1] # "Struct" THEN Failed
        ELSE IF Len(v[2]) # Len(c.fields) THEN Failed
        ELSE LET ls == [i \in DOMAIN v[2] |-> CellLiteral(v[2][i], c.fields[i])]
             IN  IF AnyError(ls) THEN Failed ELSE <<"struct", ls>>

RenderScalarLiteral(v, c) ==
    CASE c.type = "BOOL" ->
            IF v[1] = "String" THEN <<"typed", v[2]>> ELSE <<"bool", BoolValue(v)>>
      [] c.type = "INT64" ->
            IF v[1] = "String" THEN <<"typed", v[2]>> ELSE <<"int", Int64Value(v)>>
      [] c.type = "STRING" -> <<"text", StringValue(v)>>
      [] c.type = "BYTES" -> <<"blob", StringValue(v)>>
      [] c.type = "DATE" -> <<"typed", TryFormatPackedDateString(StringValue(v))>>
      [] c.type = "TIMESTAMP" ->
            <<"typed", TryFormatMicrosTimestampString(
                           IF v[1] = "Int64" THEN Numeral(v[2]) ELSE StringValue(v))>>
      [] c.type = "STRUCT" -> RenderStructLiteral(v, c)

CellLiteral(v, c) ==
    IF v = NullValue THEN <<"NULL">>
    ELSE IF c.mode # "REPEATED" THEN RenderScalarLiteral(v, c)
    ELSE IF v[1] # "Array" THEN Failed
    ELSE LET ls == [i \in DOMAIN v[2] |-> CellLiteral(v[2][i], ElementOf(c))]
         IN  IF AnyError(ls) THEN Failed ELSE <<"list", ls>>

-----------------------------------------------------------------------------
(* The text of an array or a struct, read back. *)

Drop(s, n) == SubSeq(s, n + 1, Len(s))

\* The first place at which the pieces ps follow one another, or 0.
FindIn(s, ps) ==
    LET at == {i \in 1 .. Len(s) - Len(ps) + 1 : SubSeq(s, i, i + Len(ps) - 1) = ps}
    IN  IF at = {} THEN 0 ELSE CHOOSE i \in at : \A j \in at : i <= j

\* What follows the opening quote: the string, and the rest after its closing quote.
RECURSIVE AfterQuote(_, _)
AfterQuote(s, out) ==
    IF s = <<>> THEN Failed
    ELSE IF s[1] # "'" THEN AfterQuote(Tail(s), Append(out, s[1]))
    ELSE IF Begins(Tail(s), "'") THEN AfterQuote(Drop(s, 2), Append(out, "'"))
    ELSE <<"token", out, Tail(s)>>


ParseQuotedStringToken(s) == IF Begins(s, "'") THEN AfterQuote(Tail(s), <<>>) ELSE Failed

ParseListElementToken(token, c) ==
    LET t == TrimAsciiSpace(token)
        quoted == ParseQuotedStringToken(t)
    IN  CASE t = <<>> \/ t = <<"NULL">> -> NullValue
          [] Begins(t, "'") -> IF IsError(quoted) THEN Failed ELSE Value("String", quoted[2])
          [] c.type = "BOOL" /\ t \in {<<"true">>, <<"false">>} -> Value("Bool", t = <<"true">>)
          [] c.type = "INT64" /\ ~IsError(TextAs("INT64", t)) ->
                Value("Int64", TextAs("INT64", t)[2])
          [] c.type \notin {"BOOL", "INT64"} -> Value("String", t)
          [] OTHER -> Failed

AppendQuotedListElement(body, c) ==
    OrFail(ParseQuotedStringToken(body), LAMBDA parsed : <<"next", Value("String", parsed[2]), parsed[3]>>)

AppendTokenListElement(body, c) ==
    LET comma == FindIn(body, <<",">>)
        token == IF comma = 0 THEN body ELSE SubSeq(body, 1, comma - 1)
        rest == IF comma = 0 THEN <<>> ELSE Drop(body, comma)
    IN  OrFail(ParseListElementToken(TrimAsciiSpace(token), c), LAMBDA v : <<"next", v, rest>>)

AfterComma(s) == LET t == TrimAsciiSpace(s) IN IF Begins(t, ",") THEN Tail(t) ELSE t

RECURSIVE ListElements(_, _, _)
ListElements(text, c, elements) ==
    LET body == TrimAsciiSpace(text)
    IN  IF body = <<>> THEN Value("Array", elements)
        ELSE OrFail(IF Begins(body, "'") THEN AppendQuotedListElement(body, c) ELSE AppendTokenListElement(body, c),
                    LAMBDA step : ListElements(AfterComma(step[3]), c, Append(elements, step[2])))

Enclosed(s, open, close) == Len(s) >= 2 /\ s[1] = open /\ s[Len(s)] = close

Inside(s) == SubSeq(s, 2, Len(s) - 1)

ParseDuckDBListVarchar(text, c) ==
    LET body == TrimAsciiSpace(text)
    IN  IF body = <<>> \/ body = <<"NULL">> THEN NullValue
        ELSE IF ~Enclosed(body, "[", "]") THEN Failed
        ELSE ListElements(Inside(body), c, <<>>)

\* One field of a struct's text: its name, its value's text, the rest.
ParseNextStructField(text) ==
    LET key == ParseQuotedStringToken(text)
        colon == TrimAsciiSpace(key[3])
        body == TrimAsciiSpace(Tail(colon))
        quoted == ParseQuotedStringToken(body)
        next == FindIn(body, <<",", " ", "'">>)
    IN  CASE IsError(key) -> Failed
          [] ~IsError(key) /\ ~Begins(colon, ":") -> Failed
          [] OTHER ->
                IF Begins(body, "'")
                THEN IF IsError(quoted) THEN Failed ELSE <<"field", key[2], quoted[2], quoted[3]>>
                ELSE IF next = 0 THEN <<"field", key[2], TrimAsciiSpace(body), <<>>>>
                ELSE <<"field", key[2], TrimAsciiSpace(SubSeq(body, 1, next - 1)), Drop(body, next + 1)>>

RECURSIVE ParseDuckDBStructVarchar(_, _)

\* A field's text, by the field's type; its mode is not looked at.
ParseStructFieldLiteral(raw, c) ==
    LET t == TrimAsciiSpace(raw)
    IN  CASE t = <<>> \/ t = <<"NULL">> -> NullValue
          [] c.type = "BOOL" ->
                IF IsError(TextAs("BOOL", t)) THEN Value("String", t)
                ELSE Value("Bool", TextAs("BOOL", t)[2])
          [] c.type = "INT64" ->
                IF IsError(TextAs("INT64", t)) THEN Value("String", t)
                ELSE Value("Int64", TextAs("INT64", t)[2])
          [] c.type = "STRUCT" -> ParseDuckDBStructVarchar(t, c)
          [] OTHER -> Value("String", t)

\* The fields with one more assigned; an unknown name assigns none.
AssignStructFieldValue(key, raw, c, fields) ==
    LET at == {i \in DOMAIN c.fields : <<c.fields[i].name>> = key}
        i == CHOOSE j \in at : \A k \in at : j <= k
    IN  IF at = {} THEN <<"fields", fields>>
        ELSE OrFail(ParseStructFieldLiteral(raw, c.fields[i]), LAMBDA v : <<"fields", [fields EXCEPT ![i] = v]>>)

RECURSIVE StructFields(_, _, _)
StructFields(text, c, fields) ==
    LET body == TrimAsciiSpace(text)
    IN  IF body = <<>> THEN Value("Struct", fields)
        ELSE OrFail(ParseNextStructField(body),
                    LAMBDA step : OrFail(AssignStructFieldValue(step[2], step[3], c, fields),
                                         LAMBDA assigned : StructFields(AfterComma(step[4]), c, assigned[2])))

ParseDuckDBStructVarchar(text, c) ==
    LET body == TrimAsciiSpace(text)
    IN  IF body = <<>> \/ body = <<"NULL">> THEN NullValue
        ELSE IF ~Enclosed(body, "{", "}") THEN Failed
        ELSE StructFields(Inside(body), c, [i \in DOMAIN c.fields |-> NullValue])

ReadRepeatedCell(x, c) == ParseDuckDBListVarchar(Varchar(x, c), ElementOf(c))

ReadStructCell(x, c) ==
    IF Varchar(x, c) = <<>> THEN NullValue ELSE ParseDuckDBStructVarchar(Varchar(x, c), c)

ReadVarcharCell(x, c) == Value("String", Varchar(x, c))

ReadScalarCell(x, c) ==
    CASE c.type = "BOOL" -> Value("Bool", x[2])
      [] c.type = "INT64" -> Value("Int64", x[2])
      [] c.type = "BYTES" -> Value("Bytes", x[2])
      [] OTHER -> ReadVarcharCell(x, c)

ReadCell(x, c) ==
    IF c.mode = "REPEATED" THEN ReadRepeatedCell(x, c)
    ELSE IF x = StoredNull THEN NullValue
    ELSE IF c.type = "STRUCT" THEN ReadStructCell(x, c)
    ELSE ReadScalarCell(x, c)

-----------------------------------------------------------------------------
(* The wire's cells: strings, nulls, arrays and structs of cells. *)

RECURSIVE CellToValue(_)
CellToValue(w) ==
    CASE w[1] = "string" -> Value("String", w[2])
      [] w[1] = "array" -> Value("Array", [i \in DOMAIN w[2] |-> CellToValue(w[2][i])])
      [] w[1] = "struct" -> Value("Struct", [i \in DOMAIN w[2] |-> CellToValue(w[2][i])])
      [] OTHER -> NullValue

WireNull == <<"null">>

PrimitiveToCell(v) ==
    CASE v[1] = "Null" -> WireNull
      [] v[1] = "Bool" -> <<"string", <<IF v[2] THEN "true" ELSE "false">>>>
      [] v[1] = "Int64" -> <<"string", Numeral(v[2])>>
      [] OTHER -> <<"string", v[2]>>

RECURSIVE ValueToCell(_)
ValueToCell(v) ==
    CASE v[1] = "Array" -> <<"array", [i \in DOMAIN v[2] |-> ValueToCell(v[2][i])]>>
      [] v[1] = "Struct" -> <<"struct", [i \in DOMAIN v[2] |-> ValueToCell(v[2][i])]>>
      [] OTHER -> PrimitiveToCell(v)

\* A row's cell through AppendRows, and through ListRows.
Appended(v, c) ==
    OrFail(CellLiteral(v, c), LAMBDA lit : Evaluated(lit, c))

Listed(x, c) == OrFail(ReadCell(x, c), ValueToCell)

Rebuilt(x, c) == OrFail(ReadCell(x, c), LAMBDA v : Appended(v, c))

-----------------------------------------------------------------------------

ScalarColumns == {Scalar("k1", t) : t \in {"BOOL", "INT64", "STRING", "BYTES", "DATE", "TIMESTAMP"}}

StructOf(f1, f2) ==
    ColumnOf("k1", "STRUCT", "NULLABLE", <<[f1 EXCEPT !.name = "k1"], [f2 EXCEPT !.name = "k2"]>>)

OneField(f) == ColumnOf("k1", "STRUCT", "NULLABLE", <<f>>)

FieldOf(t) == Scalar("k1", t)

\* Scalars, arrays, structs, and one level of each inside the other.
StoredColumns ==
    ScalarColumns \cup {Repeated(c) : c \in ScalarColumns}
    \cup {StructOf(FieldOf("STRING"), FieldOf("INT64")), StructOf(FieldOf("BOOL"), FieldOf("STRING")),
          StructOf(FieldOf("DATE"), FieldOf("TIMESTAMP")), OneField(FieldOf("BYTES")),
          StructOf(OneField(FieldOf("INT64")), FieldOf("INT64")),
          StructOf(StructOf(FieldOf("INT64"), FieldOf("BOOL")), FieldOf("INT64")),
          StructOf(FieldOf("INT64"), StructOf(FieldOf("INT64"), FieldOf("BOOL"))),
          OneField(Repeated(FieldOf("INT64"))), Repeated(OneField(FieldOf("INT64"))),
          Repeated(StructOf(FieldOf("INT64"), FieldOf("BOOL")))}

\* What a client sends: any text, or the wrong shape, for a scalar column.
WireCells ==
    {WireNull} \cup
    {<<"string", s>> : s \in {<<"true">>, <<"TRUE">>, <<"2">>, <<"-1">>, <<"3">>, <<"a">>, <<"NULL">>,
                              <<"day3">>, <<"time3">>, <<>>, <<"'">>, <<" ", "a">>}}
    \cup {<<"array", <<<<"string", <<"2">>>>>>>>, <<"struct", <<WireNull>>>>}

CallRebuild(c, x) ==
    eval' = [op |-> "rebuild", column |-> c, cell |-> x, res |-> Rebuilt(x, c),
             again |-> OrFail(Listed(x, c), LAMBDA w : Appended(CellToValue(w), c))]

CallInsert(c, w) ==
    LET outcome(x) == [op |-> "insert", column |-> c, cell |-> w, stored |-> x,
                       res |-> OrFail(x, LAMBDA y : Listed(y, c))]
    IN  eval' = outcome(Appended(CellToValue(w), c))

StoredNext ==
    \/ eval = NoCall /\ \E c \in StoredColumns : \E x \in CellsOf(c) : CallRebuild(c, x)
    \/ eval = NoCall /\ \E c \in ScalarColumns, w \in WireCells : CallInsert(c, w)

-----------------------------------------------------------------------------
(* Properties. *)

\* Strings that a struct's text cannot carry: a field's text is trimmed and
\* compared with NULL after its quotes are gone.
LostInStruct(s) == s = <<>> \/ s = <<"NULL">> \/ TrimAsciiSpace(s) # s

Unprintable(s) == \E i \in DOMAIN s : s[i] = "hi"

\* The cells the text forms lose, all of them inside an array or a struct:
\* bytes that are not printable, such strings, an array in a struct, and a
\* struct of several fields inside another or inside an array.
TextLoses(x, c) ==
    LET Lost(y, d) == \/ y[1] = "list"
                      \/ y[1] = "struct" /\ Len(d.fields) > 1
                      \/ y[1] = "text" /\ LostInStruct(y[2])
                      \/ y[1] = "blob" /\ (y[2] = <<>> \/ Unprintable(y[2]))
    IN  \/ /\ x[1] = "struct"
           /\ \E i \in DOMAIN x[2] : Lost(x[2][i], c.fields[i])
        \/ /\ x[1] = "list"
           /\ \E i \in DOMAIN x[2] :
                 x[2][i][1] \in {"blob", "struct"} /\ Lost(x[2][i], ElementOf(c))

\* CLONE, ALTER TABLE and DML read a table's rows and write them again: a row
\* they do not touch has the same cells afterwards, NULLs, empty arrays and
\* strings that look like syntax included.
CellsSurviveRebuild ==
    eval.op = "rebuild" /\ ~TextLoses(eval.cell, eval.column) => eval.res = eval.cell

\* The rows tabledata.list answers can be sent to insertAll as they are, and
\* give the same cells.
ListedRowsInsertBack ==
    eval.op = "rebuild" /\ ~TextLoses(eval.cell, eval.column) => eval.again = eval.cell

Denotes(type, s) ==
    CASE type = "BOOL" -> s \in {<<"true">>, <<"TRUE">>, <<"false">>}
      [] type = "INT64" -> \E n \in CellInts : s = Numeral(n)
      [] type = "DATE" -> s \in {<<"day3">>, <<"3">>}
      [] type = "TIMESTAMP" -> s \in {<<"time3">>, <<"3">>}
      [] OTHER -> TRUE

\* A text that is no value of its column is refused, and one that is comes
\* back as it was sent, but for the spelling of TRUE and for a count of days
\* or microseconds.
MalformedTextRefused ==
    eval.op = "insert" /\ eval.cell[1] = "string" =>
        LET text == eval.cell[2]
        IN  /\ Denotes(eval.column.type, text) <=> ~IsError(eval.stored)
            /\ Denotes(eval.column.type, text)
                  => \/ eval.res = eval.cell
                     \/ text = <<"TRUE">> /\ eval.res = <<"string", <<"true">>>>
                     \/ text = <<"3">> /\ eval.res[2] \in {<<"day3">>, <<"time3">>}

\* The comment on RenderScalarLiteral says that a malformed value surfaces as
\* a failure and is never silently stored as zero.  That is so of texts; an
\* array or struct sent for a scalar column is read with the accessor of
\* another kind, and 0, FALSE or the empty string is stored.  Violated.
MismatchedShapesRefused ==
    eval.op = "insert" /\ eval.cell[1] \in {"array", "struct"} => IsError(eval.stored)

\* A cell that is stored, read and stored again is the same cell, along every
\* path the engine takes with it, and a text that is no value never gets in.
StoredCellsSurvive ==
    /\ CellsSurviveRebuild
    /\ ListedRowsInsertBack
    /\ MalformedTextRefused
=============================================================================
