----------------------------- MODULE SqlStrings -----------------------------
(***************************************************************************)
(* The string functions of the semantic executor                           *)
(* (backend/engine/semantic/functions/string_*.cc, contains_substr.cc).    *)
(*                                                                         *)
(* A STRING is a sequence of code points, a BYTES value a sequence of      *)
(* bytes.  What GoogleSQL's library does with one kind per character it    *)
(* does with the other per byte, so most functions are one definition over *)
(* sequences; UTF-8 is spelled out where this code mixes the two.          *)
(***************************************************************************)
EXTENDS SqlValues

CONSTANTS
    Letters,        \* code points that the strings given to the functions use
    MaxText,        \* longest such string
    BigMax,         \* largest BIGNUMERIC of PARSE_BIGNUMERIC
    MaxExponent     \* largest exponent given to it

ASSUME StringAssumption == Letters \subseteq 1 .. 2047 /\ MaxText \in Nat /\ BigMax \in Nat

-----------------------------------------------------------------------------
(* Texts.                                                                    *)

NullText(k) == [kind |-> k, null |-> TRUE, v |-> <<>>]

IsText(v) == v.kind \in {"STRING", "BYTES"}

Encode(c) == IF c < 128 THEN <<c>> ELSE <<192 + c \div 64, 128 + (c % 64)>>

Utf8(s) == FlattenSeq([i \in DOMAIN s |-> Encode(s[i])])

\* AsStringOrBytes: the bytes behind a text of either kind.
AsStringOrBytes(a) == IF a.kind = "BYTES" THEN a.v ELSE Utf8(a.v)

\* A prefix of the bytes that can be read back as characters.
ValidUtf8(bytes) ==
    \A i \in DOMAIN bytes :
        /\ bytes[i] >= 192 => i < Len(bytes) /\ bytes[i + 1] \in 128 .. 191
        /\ bytes[i] \in 128 .. 191 => i > 1 /\ bytes[i - 1] >= 192

Decode(bytes) ==
    LET starts == SelectSeq([i \in DOMAIN bytes |-> i], LAMBDA i : bytes[i] \notin 128 .. 191)
        at(i) == IF bytes[i] < 128 THEN bytes[i] ELSE (bytes[i] - 192) * 64 + bytes[i + 1] - 128
    IN  [j \in DOMAIN starts |-> at(starts[j])]

StringOrBytesFromView(like, bytes) ==
    Val(like.kind, IF like.kind = "BYTES" THEN bytes ELSE Decode(bytes))

OfKind(like, s) == Val(like.kind, s)

OccursAt(s, sub, i) == i + Len(sub) - 1 <= Len(s) /\ SubSeq(s, i, i + Len(sub) - 1) = sub

FirstAt(s, sub) ==
    LET at == {i \in 1 .. Len(s) - Len(sub) + 1 : OccursAt(s, sub, i)}
    IN  IF at = {} THEN 0 ELSE CHOOSE i \in at : \A j \in at : i <= j

-----------------------------------------------------------------------------
(* string_extra_core.cc and string_extra_substr.cc.  The NULL that a         *)
(* function answers with is a STRING in some and of its argument's kind in   *)
(* others.                                                                   *)

Length(args) == IF args[1].null THEN NullOfType("INT64") ELSE Val("INT64", Len(args[1].v))

ByteLength(args) ==
    IF args[1].null THEN NullOfType("INT64") ELSE Val("INT64", Len(AsStringOrBytes(args[1])))

\* The library refuses a first character beyond ASCII, but not a first byte.
Ascii(args) ==
    LET s == args[1].v
    IN  CASE args[1].null -> NullOfType("INT64")
          [] s = <<>> -> Val("INT64", 0)
          [] args[1].kind = "STRING" /\ s[1] > 127 -> Invalid
          [] OTHER -> Val("INT64", s[1])

Unicode(args) ==
    IF args[1].null THEN NullOfType("INT64")
    ELSE Val("INT64", IF args[1].v = <<>> THEN 0 ELSE args[1].v[1])

Chr(args) ==
    CASE args[1].null -> NullText("STRING")
      [] args[1].kind # "INT64" \/ args[1].v < 0 -> Invalid
      [] OTHER -> Val("STRING", IF args[1].v = 0 THEN <<>> ELSE <<args[1].v>>)

\* Always a STRING, of BYTES too.
Concat(args) ==
    IF AnyNull(args) THEN NullText("STRING")
    ELSE Val("STRING", Decode(FlattenSeq([i \in DOMAIN args |-> AsStringOrBytes(args[i])])))

UpperOf(c) == IF c \in 97 .. 122 \/ c \in 224 .. 254 THEN c - 32 ELSE c

LowerOf(c) == IF c \in 65 .. 90 \/ c \in 192 .. 222 THEN c + 32 ELSE c

Cased(args, Of(_)) ==
    LET fold(c) == IF args[1].kind = "BYTES" /\ c > 127 THEN c ELSE Of(c)
    IN  IF args[1].null THEN NullText("STRING")
        ELSE OfKind(args[1], [i \in DOMAIN args[1].v |-> fold(args[1].v[i])])

Lower(args) == Cased(args, LowerOf)

Upper(args) == Cased(args, UpperOf)

Outside(s, chars) == {i \in DOMAIN s : s[i] \notin chars}

Trimmed(name, s, chars) ==
    LET keep == Outside(s, chars)
        first == CHOOSE i \in keep : \A j \in keep : i <= j
        last == CHOOSE i \in keep : \A j \in keep : i >= j
    IN  IF keep = {} THEN <<>>
        ELSE SubSeq(s, IF name = "rtrim" THEN 1 ELSE first, IF name = "ltrim" THEN Len(s) ELSE last)

Space == 32

TrimFamily(name, args) ==
    CASE AnyNull(args) -> NullText("STRING")
      [] Len(args) = 1 /\ args[1].kind = "BYTES" -> MakeSemanticError("kNotImplemented")
      [] Len(args) = 1 -> Val("STRING", Trimmed(name, args[1].v, {Space}))
      [] OTHER -> OfKind(args[1], Trimmed(name, args[1].v, {args[2].v[i] : i \in DOMAIN args[2].v}))

RECURSIVE Replaced(_, _, _)
Replaced(s, from, to) ==
    LET i == FirstAt(s, from)
    IN  IF from = <<>> \/ i = 0 THEN s
        ELSE SubSeq(s, 1, i - 1) \o to \o Replaced(SubSeq(s, i + Len(from), Len(s)), from, to)

Replace(args) ==
    IF AnyNull(args) THEN NullText(args[1].kind)
    ELSE OfKind(args[1], Replaced(args[1].v, args[2].v, args[3].v))

\* Characters that have no counterpart are dropped; one listed twice is an error.
Translate(args) ==
    LET from == args[2].v
        to == args[3].v
        at(c) == {i \in DOMAIN from : from[i] = c}
        image(c) == IF at(c) = {} THEN <<c>>
                    ELSE LET i == CHOOSE i \in at(c) : TRUE IN IF i > Len(to) THEN <<>> ELSE <<to[i]>>
    IN  CASE AnyNull(args) -> NullText(args[1].kind)
          [] \E i, j \in DOMAIN from : i # j /\ from[i] = from[j] -> Invalid
          [] OTHER -> OfKind(args[1], FlattenSeq([i \in DOMAIN args[1].v |-> image(args[1].v[i])]))

ReverseText(args) == IF args[1].null THEN NullText(args[1].kind) ELSE OfKind(args[1], Reverse(args[1].v))

StartsWith(args) == IF AnyNull(args) THEN NullBool ELSE Bool(IsPrefix(args[2].v, args[1].v))

EndsWith(args) == IF AnyNull(args) THEN NullBool ELSE Bool(IsSuffix(args[2].v, args[1].v))

Least(a, b) == IF a < b THEN a ELSE b

Left(args) ==
    CASE AnyNull(args) -> NullText(args[1].kind)
      [] args[2].v < 0 -> Invalid
      [] OTHER -> OfKind(args[1], SubSeq(args[1].v, 1, Least(args[2].v, Len(args[1].v))))

Right(args) ==
    CASE AnyNull(args) -> NullText(args[1].kind)
      [] args[2].v < 0 -> Invalid
      [] OTHER -> OfKind(args[1], SubSeq(args[1].v, Len(args[1].v) - Least(args[2].v, Len(args[1].v)) + 1,
                                         Len(args[1].v)))

\* Position 0 counts as 1, a negative one from the end; before the start it is 1.
Substr(args) ==
    LET s == args[1].v
        p == args[2].v
        from == IF p > 0 THEN p ELSE IF p = 0 \/ -p > Len(s) THEN 1 ELSE Len(s) + p + 1
    IN  CASE AnyNull(args) -> NullText(args[1].kind)
          [] Len(args) = 3 /\ args[3].v < 0 -> Invalid
          [] OTHER -> OfKind(args[1], SubSeq(s, from, IF Len(args) = 2 THEN Len(s)
                                                      ELSE Least(from + args[3].v - 1, Len(s))))

Strpos(args) == IF AnyNull(args) THEN NullOfType("INT64") ELSE Val("INT64", FirstAt(args[1].v, args[2].v))

RECURSIVE Parts(_, _)
Parts(s, delim) ==
    LET i == FirstAt(s, delim)
    IN  IF delim = <<>> \/ i = 0 THEN <<s>>
        ELSE <<SubSeq(s, 1, i - 1)>> \o Parts(SubSeq(s, i + Len(delim), Len(s)), delim)

Comma == 44

\* An empty delimiter splits into single characters.
Split(args) ==
    LET s == args[1].v
        delim == IF Len(args) = 2 THEN args[2].v ELSE <<Comma>>
        parts == IF delim = <<>> /\ s # <<>> THEN [i \in DOMAIN s |-> <<s[i]>>] ELSE Parts(s, delim)
    IN  IF AnyNull(args) THEN NullText("ARRAY")
        ELSE Val("ARRAY", [i \in DOMAIN parts |-> OfKind(args[1], parts[i])])

-----------------------------------------------------------------------------
(* LPAD and RPAD: string_extra_pad_helpers.cc.                               *)

\* PadPatternForArgs: an empty pattern is refused even when nothing is padded.
PadPattern(args) == IF Len(args) = 3 THEN args[3].v ELSE <<Space>>

\* Copies of the pattern until they are long enough, cut to what is needed.
BuildPadding(pad, needed) ==
    SubSeq(FlattenSeq([i \in 1 .. (needed + Len(pad) - 1) \div Len(pad) |-> pad]), 1, needed)

PadValue(args, left) ==
    LET s == args[1].v
        target == args[2].v
        padding == BuildPadding(PadPattern(args), target - Len(s))
    IN  CASE AnyNull(args) -> NullText(args[1].kind)
          [] PadPattern(args) = <<>> -> Invalid
          [] Len(s) >= target -> Left(<<args[1], args[2]>>)
          [] OTHER -> OfKind(args[1], IF left THEN padding \o s ELSE s \o padding)

-----------------------------------------------------------------------------
(* INSTR: string_funcs.cc.  Its positions count bytes, where those of STRPOS *)
(* count characters.                                                         *)

InstrEmptySubvalueResult(len, position) ==
    LET start == IF position > 0 THEN position ELSE len + position + 1
    IN  IF start < 1 THEN 1 ELSE IF start > len + 1 THEN len + 1 ELSE start

RECURSIVE Walk(_, _, _, _, _)
Walk(value, sub, i, step, occurrence) ==
    CASE i < 0 \/ i + (IF step = 1 THEN Len(sub) ELSE 0) > Len(value) -> 0
      [] OccursAt(value, sub, i + 1) ->
            IF occurrence = 1 THEN i + 1 ELSE Walk(value, sub, i + step, step, occurrence - 1)
      [] OTHER -> Walk(value, sub, i + step, step, occurrence)

InstrSearchForward(value, sub, position, occurrence) ==
    IF position - 1 >= Len(value) THEN 0 ELSE Walk(value, sub, position - 1, 1, occurrence)

InstrSearchBackward(value, sub, position, occurrence) ==
    IF Len(value) + position < 0 THEN 0 ELSE Walk(value, sub, Len(value) + position, -1, occurrence)

Instr(args) ==
    LET value == AsStringOrBytes(args[1])
        sub == AsStringOrBytes(args[2])
        position == IF Len(args) >= 3 THEN args[3].v ELSE 1
        occurrence == IF Len(args) = 4 THEN args[4].v ELSE 1
    IN  CASE AnyNull(args) -> NullOfType("INT64")
          [] args[1].kind # "STRING" \/ args[2].kind # "STRING" -> Invalid
          [] position = 0 \/ occurrence <= 0 -> Invalid
          [] sub = <<>> -> Val("INT64", InstrEmptySubvalueResult(Len(value), position))
          [] position > 0 -> Val("INT64", InstrSearchForward(value, sub, position, occurrence))
          [] OTHER -> Val("INT64", InstrSearchBackward(value, sub, position, occurrence))

-----------------------------------------------------------------------------
(* SOUNDEX.                                                                  *)

Codes == <<<<66, 70, 80, 86>>, <<67, 71, 74, 75, 81, 83, 88, 90>>, <<68, 84>>, <<76>>, <<77, 78>>, <<82>>>>

\* The digit of an upper-case letter; 0 for vowels and Y, H, W; -1 otherwise.
SoundexCode(c) ==
    IF \E d \in DOMAIN Codes : c \in ToSet(Codes[d])
    THEN CHOOSE d \in DOMAIN Codes : c \in ToSet(Codes[d])
    ELSE IF c \in 65 .. 90 THEN 0 ELSE -1

IsAlpha(c) == c \in 65 .. 90 \/ c \in 97 .. 122

RECURSIVE SoundexRest(_, _, _)
SoundexRest(s, prev, out) ==
    IF s = <<>> \/ Len(out) = 4 THEN out
    ELSE LET c == UpperOf(s[1])
             d == SoundexCode(c)
         IN  CASE ~IsAlpha(s[1]) -> SoundexRest(Tail(s), prev, out)
               [] d = 0 -> SoundexRest(Tail(s), IF c \in {72, 87} THEN prev ELSE 0, out)
               [] OTHER -> SoundexRest(Tail(s), d, IF d # prev THEN Append(out, 48 + d) ELSE out)

\* The first letter is kept as it is written, and so has no code in lower case.
Soundex(args) ==
    LET at == {i \in DOMAIN args[1].v : IsAlpha(args[1].v[i])}
        start == CHOOSE i \in at : \A j \in at : i <= j
        s == SubSeq(args[1].v, start, Len(args[1].v))
        out == SoundexRest(Tail(s), SoundexCode(s[1]), <<s[1]>>)
    IN  CASE args[1].null -> NullText("STRING")
          [] args[1].kind # "STRING" -> Invalid
          [] at = {} -> Val("STRING", <<>>)
          [] OTHER -> Val("STRING", out \o [i \in 1 .. 4 - Len(out) |-> 48])

-----------------------------------------------------------------------------
(* Encodings.  A base 32 digit is its value, '=' is Padding.                 *)

Padding == 61 + 1000

\* Five bits a digit, the last digit filled with zeros, '=' up to eight digits.
EncodeBase32(input) ==
    LET bits == FlattenSeq([i \in DOMAIN input |-> [b \in 1 .. 8 |-> (input[i] \div 2 ^ (8 - b)) % 2]])
        filled == bits \o [b \in 1 .. (-Len(bits)) % 5 |-> 0]
        value(ds) == FoldSeq(LAMBDA d, acc : 2 * acc + d, 0, Reverse(ds))
        out == [j \in 1 .. Len(filled) \div 5 |-> value(SubSeq(filled, 5 * j - 4, 5 * j))]
    IN  out \o [j \in 1 .. (-Len(out)) % 8 |-> Padding]

RECURSIVE DecodeLoop(_, _, _, _)
DecodeLoop(input, buffer, bits, out) ==
    IF input = <<>> \/ input[1] = Padding THEN Val("BYTES", out)
    ELSE IF input[1] \notin 0 .. 31 THEN Invalid
    ELSE LET b == (buffer * 32 + input[1]) % 2 ^ 16
             n == bits + 5
         IN  IF n >= 8 THEN DecodeLoop(Tail(input), b, n - 8, Append(out, (b \div 2 ^ (n - 8)) % 256))
             ELSE DecodeLoop(Tail(input), b, n, out)

\* Stops at the first '=', whatever follows it.
DecodeBase32(input) == DecodeLoop(input, 0, 0, <<>>)

\* CODE_POINTS_TO_STRING leaves zeros out.
CodePointsToString(cps) ==
    IF AnyNull(cps.v) THEN NullText("STRING")
    ELSE IF \E i \in DOMAIN cps.v : cps.v[i].v < 0 THEN Invalid
    ELSE LET all == [i \in DOMAIN cps.v |-> cps.v[i].v] IN Val("STRING", SelectSeq(all, LAMBDA c : c # 0))

CodePointsToBytes(cps) ==
    IF AnyNull(cps.v) THEN NullText("BYTES")
    ELSE IF \E i \in DOMAIN cps.v : cps.v[i].v \notin 0 .. 255 THEN Invalid
    ELSE Val("BYTES", [i \in DOMAIN cps.v |-> cps.v[i].v])

\* A NULL has no code points: the array is empty, not NULL.
ToCodePoints(a) ==
    Val("ARRAY", IF a.null THEN <<>> ELSE [i \in DOMAIN a.v |-> Val("INT64", a.v[i])])

SafeConvertBytesToString(args) ==
    IF args[1].null THEN NullText("STRING")
    ELSE IF ValidUtf8(args[1].v) THEN Val("STRING", Decode(args[1].v))
    ELSE Val("STRING", [i \in DOMAIN args[1].v |-> IF args[1].v[i] < 128 THEN args[1].v[i] ELSE 65533])

-----------------------------------------------------------------------------
(* CONTAINS_SUBSTR: contains_substr.cc.                                      *)

\* NFKC with case folding, as far as the letters go.
NormalizeForContainsSubstr(s) == [i \in DOMAIN s |-> LowerOf(s[i])]

ScalarToPlainText(a) ==
    CASE a.kind = "BOOL" -> IF a.v = 1 THEN <<116>> ELSE <<102>>
      [] a.kind = "INT64" -> <<48 + a.v>>
      [] OTHER -> a.v

RECURSIVE ContainsSubstrRecursive(_, _)

\* A match anywhere wins over a NULL anywhere.
SearchComposite(children, needle) ==
    LET found == [i \in DOMAIN children |-> ContainsSubstrRecursive(children[i], needle)]
    IN  IF \E i \in DOMAIN found : found[i] = "kTrue" THEN "kTrue"
        ELSE IF \E i \in DOMAIN found : found[i] = "kNullFromNullPath" THEN "kNullFromNullPath"
        ELSE "kFalse"

ContainsSubstrRecursive(a, needle) ==
    CASE a.null -> "kNullFromNullPath"
      [] a.kind \in {"ARRAY", "STRUCT"} -> SearchComposite(a.v, needle)
      [] a.kind = "BYTES" /\ ~ValidUtf8(a.v) -> "kFalse"
      [] OTHER ->
            LET text == IF a.kind = "BYTES" THEN Decode(a.v) ELSE ScalarToPlainText(a)
            IN  IF needle = <<>> \/ FirstAt(NormalizeForContainsSubstr(text), needle) > 0 THEN "kTrue" ELSE "kFalse"

ContainsSubstr(args) ==
    IF args[2].null THEN Invalid
    ELSE IF args[1].null THEN NullBool
    ELSE LET found == ContainsSubstrRecursive(args[1], NormalizeForContainsSubstr(args[2].v))
         IN  IF found = "kNullFromNullPath" THEN NullBool ELSE Bool(found = "kTrue")

-----------------------------------------------------------------------------
(* Regular expressions: string_extra_regex_format.cc, over patterns that are *)
(* literal texts.  Matches do not overlap.                                   *)

RECURSIVE MatchStarts(_, _, _)
MatchStarts(s, pattern, from) ==
    LET i == FirstAt(SubSeq(s, from, Len(s)), pattern)
    IN  IF from > Len(s) \/ i = 0 THEN <<>>
        ELSE <<from + i - 1>> \o MatchStarts(s, pattern, from + i - 1 + Len(pattern))

ArgOr(args, i, default) == IF Len(args) >= i THEN args[i].v ELSE default

RegexpContains(args) ==
    IF AnyNull(args) THEN NullBool ELSE Bool(MatchStarts(args[1].v, args[2].v, 1) # <<>>)

\* Positions count characters of a STRING.
RegexpExtract(args) ==
    LET position == ArgOr(args, 3, 1)
        occurrence == ArgOr(args, 4, 1)
    IN  CASE AnyNull(args) -> NullText("STRING")
          [] position <= 0 \/ occurrence <= 0 -> Invalid
          [] Len(MatchStarts(args[1].v, args[2].v, position)) < occurrence -> NullText("STRING")
          [] OTHER -> OfKind(args[1], args[2].v)

\* Positions count bytes here, a NULL position is the default one, and a NULL
\* value has no matches.
RegexpExtractAll(args) ==
    LET position == IF Len(args) >= 3 /\ ~args[3].null THEN args[3].v ELSE 1
        value == AsStringOrBytes(args[1])
    IN  IF args[1].null \/ args[2].null THEN Val("ARRAY", <<>>)
        ELSE LET starts == MatchStarts(value, AsStringOrBytes(args[2]), position)
             IN  Val("ARRAY", [i \in DOMAIN starts |-> OfKind(args[1], args[2].v)])

RegexpReplace(args) ==
    IF AnyNull(args) THEN NullText(args[1].kind)
    ELSE OfKind(args[1], Replaced(args[1].v, args[2].v, args[3].v))


RegexpInstr(args) ==
    LET starts == MatchStarts(args[1].v, args[2].v, ArgOr(args, 3, 1))
        n == ArgOr(args, 4, 1)
    IN  IF AnyNull(args) THEN NullOfType("INT64")
        ELSE IF ArgOr(args, 3, 1) <= 0 \/ n <= 0 THEN Invalid
        ELSE Val("INT64", IF Len(starts) < n THEN 0
                          ELSE IF ArgOr(args, 5, 0) = 0 THEN starts[n] ELSE starts[n] + Len(args[2].v))

-----------------------------------------------------------------------------
(* PARSE_BIGNUMERIC: string_extra_unicode.cc.  A literal is two digits, with *)
(* `dot' of them behind a decimal point (-1: no point) and an exponent.      *)
(* Values count thousandths; the library refuses those above BigMax.         *)

Decimals(x) == IF x.dot = -1 THEN 0 ELSE x.dot

Scaled(digits, exponent) == digits * 10 ^ (exponent + 3)

LibraryParse(n) == IF n > Scaled(BigMax, 0) THEN Invalid ELSE Val("BIGNUMERIC", n)

\* Without a point a negative exponent is forgotten.
ExpandScientificNotation(x) ==
    IF x.dot = -1 THEN Scaled(x.digits, IF x.e >= 0 THEN x.e ELSE 0) ELSE Scaled(x.digits, x.e - x.dot)

TryParseBignumericCandidates(x) == LibraryParse(ExpandScientificNotation(x))

\* The digits in front of the point are counted twice.
TryParseBignumericNormalizedScientific(x) ==
    LET before == 2 - Decimals(x) - (IF x.dot = -1 THEN 0 ELSE 1)
        zeros == IF x.digits < 10 THEN 1 ELSE 0
    IN  LibraryParse(Scaled(x.digits, x.e + before - zeros))

\* The mantissa keeps its decimals while the exponent already pays for them.
TryParseBignumericScaledMantissa(x) == LibraryParse(Scaled(x.digits, x.e - 2 * Decimals(x)))

TryParseBignumericScientific(x) ==
    CASE Ok(TryParseBignumericCandidates(x)) -> TryParseBignumericCandidates(x)
      [] Ok(TryParseBignumericNormalizedScientific(x)) -> TryParseBignumericNormalizedScientific(x)
      [] OTHER -> TryParseBignumericScaledMantissa(x)

ParseBignumeric(x) ==
    LET literal == LibraryParse(Scaled(x.digits, x.e - Decimals(x)))
    IN  IF Ok(literal) THEN literal ELSE TryParseBignumericScientific(x)

-----------------------------------------------------------------------------
(* The names under which functions/dispatch.cc finds these functions.        *)

DispatchStringFamily(name, args) ==
    CASE name = "length" -> Length(args)
      [] name = "byte_length" -> ByteLength(args)
      [] name = "ascii" -> Ascii(args)
      [] name = "unicode" -> Unicode(args)
      [] name = "concat" -> Concat(args)
      [] name = "lower" -> Lower(args)
      [] name = "upper" -> Upper(args)
      [] name \in {"trim", "ltrim", "rtrim"} -> TrimFamily(name, args)
      [] name = "replace" -> Replace(args)
      [] name = "translate" -> Translate(args)
      [] name = "reverse" -> ReverseText(args)
      [] name = "starts_with" -> StartsWith(args)
      [] name = "ends_with" -> EndsWith(args)
      [] name = "left" -> Left(args)
      [] name = "right" -> Right(args)
      [] name = "substr" -> Substr(args)
      [] name = "strpos" -> Strpos(args)
      [] name = "split" -> Split(args)
      [] name = "lpad" -> PadValue(args, TRUE)
      [] name = "rpad" -> PadValue(args, FALSE)
      [] name = "instr" -> Instr(args)
      [] name = "soundex" -> Soundex(args)

DispatchHashAndRegexp(name, args) ==
    CASE name = "regexp_contains" -> RegexpContains(args)
      [] name = "regexp_extract" -> RegexpExtract(args)
      [] name = "regexp_extract_all" -> RegexpExtractAll(args)
      [] name = "regexp_replace" -> RegexpReplace(args)
      [] name = "regexp_instr" -> RegexpInstr(args)

-----------------------------------------------------------------------------

Spellings(n) == UNION {[1 .. k -> Letters] : k \in 0 .. n}

Strings == {Val("STRING", s) : s \in Spellings(MaxText)} \cup {NullText("STRING")}

Needles == {Val("STRING", s) : s \in Spellings(2)} \cup {NullText("STRING")}

Texts == Strings \cup {Val("BYTES", Utf8(s.v)) : s \in Needles \ {NullText("STRING")}} \cup {NullText("BYTES")}

SmallInts == {Val("INT64", n) : n \in -MaxText - 1 .. MaxText + 1}

Like(a, k) == Val(k, IF k = "BYTES" THEN Utf8(a) ELSE a)

CallSlices ==
    \E s \in Texts, n \in SmallInts, name \in {"left", "right", "substr", "reverse", "lower", "upper"} :
        LET args == IF name \in {"left", "right", "substr"} THEN <<s, n>> ELSE <<s>>
        IN  eval' = [op |-> "slice", name |-> name, args |-> args, result |-> DispatchStringFamily(name, args)]

CallSearch ==
    \E s \in Texts, t \in Spellings(1), name \in {"starts_with", "ends_with", "strpos", "split", "trim", "ltrim",
                                                  "rtrim", "concat", "soundex", "replace", "translate"} :
        LET d == Like(t, s.kind)
            args == CASE name = "soundex" -> <<s>>
                      [] name \in {"replace", "translate"} -> <<s, d, d>>
                      [] OTHER -> <<s, d>>
        IN  eval' = [op |-> "search", name |-> name, args |-> args, result |-> DispatchStringFamily(name, args)]

CallPad ==
    \E s \in Texts, n \in SmallInts, t \in Spellings(2), name \in {"lpad", "rpad"}, default \in BOOLEAN :
        LET args == IF default THEN <<s, n>> ELSE <<s, n, Like(t, s.kind)>>
        IN  eval' = [op |-> "pad", name |-> name, args |-> args, result |-> DispatchStringFamily(name, args)]

CallInstr ==
    \E s \in Strings, t \in Needles, p \in SmallInts, n \in 0 .. 2 :
        LET args == <<s, t, p, Val("INT64", n)>>
        IN  eval' = [op |-> "instr", args |-> args, result |-> DispatchStringFamily("instr", args)]

CallRegexp ==
    \E s \in Texts, t \in Spellings(1) \ {<<>>}, p \in 0 .. MaxText + 1, n \in 0 .. 2 :
        LET base == <<s, Like(t, s.kind), Val("INT64", p)>>
            args == Append(base, Val("INT64", n))
        IN  eval' = [op |-> "regexp", args |-> args,
                     contains |-> DispatchHashAndRegexp("regexp_contains", SubSeq(args, 1, 2)),
                     extract |-> DispatchHashAndRegexp("regexp_extract", args),
                     all |-> DispatchHashAndRegexp("regexp_extract_all", SubSeq(args, 1, 2)),
                     start |-> DispatchHashAndRegexp("regexp_instr", args),
                     end |-> DispatchHashAndRegexp("regexp_instr", Append(args, Val("INT64", 1)))]

CallEncode ==
    \/ \E n \in 0 .. 6, x, y \in {0, 37, 255} :
           LET b == [i \in 1 .. n |-> IF i % 2 = 0 THEN x ELSE y]
           IN  eval' = [op |-> "base32", input |-> b, encoded |-> EncodeBase32(b),
                        result |-> DecodeBase32(EncodeBase32(b))]
    \/ \E s \in Texts :
           eval' = [op |-> "codepoints", input |-> s,
                    result |-> IF s.kind = "BYTES" THEN CodePointsToBytes(ToCodePoints(s))
                               ELSE CodePointsToString(ToCodePoints(s))]

Scalars == Needles \cup {Val("BYTES", <<195>>), Val("INT64", 1), NullOfType("INT64")}

Composites ==
    LET pairs == {Val(k, <<a, b>>) : k \in {"ARRAY", "STRUCT"}, a \in Scalars, b \in Scalars}
    IN  Scalars \cup pairs \cup {Val("STRUCT", <<a, b>>) : a \in Scalars, b \in {p \in pairs : p.kind = "ARRAY"}}

CallContains ==
    \E a \in Composites, t \in Spellings(1) :
        eval' = [op |-> "contains", value |-> a, needle |-> t, result |-> ContainsSubstr(<<a, Val("STRING", t)>>)]

CallParse ==
    \E d \in 0 .. 99, p \in {-1, 1}, e \in -1 .. MaxExponent :
        LET x == [digits |-> d, dot |-> p, e |-> e]
        IN  eval' = [op |-> "parse", literal |-> x, result |-> ParseBignumeric(x)]

StringInit == eval = NoCall

StringNext ==
    \/ eval = NoCall /\ CallSlices
    \/ eval = NoCall /\ CallSearch
    \/ eval = NoCall /\ CallPad
    \/ eval = NoCall /\ CallInstr
    \/ eval = NoCall /\ CallRegexp
    \/ eval = NoCall /\ CallEncode
    \/ eval = NoCall /\ CallContains
    \/ eval = NoCall /\ CallParse

-----------------------------------------------------------------------------

\* LEFT, SUBSTR and RIGHT cut a text without losing or repeating a character:
\* LEFT(s, n) and SUBSTR(s, n + 1) make up s, RIGHT is LEFT of the reverse, and
\* the parts of SPLIT joined by its delimiter are the text again.
SlicesFitTogether ==
    LET s == eval.args[1]
        n == eval.args[2].v
        joined == FoldSeq(LAMBDA part, acc : part.v \o (IF acc = <<-1>> THEN <<>> ELSE eval.args[2].v \o acc),
                          <<-1>>, eval.result.v)
    IN  /\ eval.op = "slice" /\ eval.name = "left" /\ Ok(eval.result) /\ ~s.null =>
               eval.result.v \o DispatchStringFamily("substr", <<s, Val("INT64", n + 1)>>).v = s.v
        /\ eval.op = "slice" /\ eval.name = "right" /\ Ok(eval.result) =>
               eval.result = ReverseText(<<Left(<<ReverseText(<<s>>), eval.args[2]>>)>>)
        /\ eval.op = "search" /\ eval.name = "split" /\ ~s.null /\ eval.args[2].v # <<>> => joined = s.v

\* LPAD and RPAD return exactly as many characters (of BYTES, bytes) as asked
\* for: the text cut to that length, or the whole text with copies of the
\* pattern in front or behind (PadValue).
PaddingExact ==
    eval.op = "pad" /\ Ok(eval.result) /\ ~AnyNull(eval.args) =>
        LET s == eval.args[1].v
            out == eval.result.v
            n == eval.args[2].v
            pad == PadPattern(eval.args)
            shift == IF eval.name = "lpad" THEN 0 ELSE Len(s)
            rest == IF eval.name = "lpad" THEN n - Len(s) ELSE 0
        IN  /\ Len(out) = n /\ eval.result.kind = eval.args[1].kind
            /\ n <= Len(s) => IsPrefix(out, s)
            /\ n > Len(s) => /\ SubSeq(out, rest + 1, rest + Len(s)) = s
                             /\ \A i \in 1 .. n - Len(s) : out[shift + i] = pad[((i - 1) % Len(pad)) + 1]

\* INSTR returns the n-th occurrence counted from the start position to the
\* right, or from the one counted from the end to the left, and 0 when there
\* are fewer (InstrSearchForward, InstrSearchBackward).  Positions are bytes.
InstrNthMatch ==
    eval.op = "instr" /\ Ok(eval.result) /\ ~AnyNull(eval.args) /\ eval.args[2].v # <<>> =>
        LET value == Utf8(eval.args[1].v)
            sub == Utf8(eval.args[2].v)
            p == eval.args[3].v
            eligible == {i \in 1 .. Len(value) : OccursAt(value, sub, i)
                                              /\ IF p > 0 THEN i >= p ELSE i <= Len(value) + p + 1}
            rank(i) == Cardinality({j \in eligible : IF p > 0 THEN j <= i ELSE j >= i})
            nth == {i \in eligible : rank(i) = eval.args[4].v}
        IN  IF nth = {} THEN eval.result.v = 0 ELSE eval.result.v \in nth

\* The regular expression functions agree with each other: a match exists for
\* all or for none, REGEXP_EXTRACT finds the occurrence REGEXP_INSTR points at,
\* and the text between the start and the end it reports is that match.
RegexpFunctionsAgree ==
    eval.op = "regexp" /\ ~AnyNull(eval.args) =>
        LET s == eval.args[1].v
        IN  /\ IsTrue(eval.contains) <=> eval.all.v # <<>>
            /\ Ok(eval.extract) <=> Ok(eval.start)
            /\ Ok(eval.start) =>
                   /\ eval.extract.null <=> eval.start.v = 0
                   /\ eval.start.v > 0 => SubSeq(s, eval.start.v, eval.end.v - 1) = eval.extract.v

\* What the encoders write the decoders read back: BASE32 of any bytes in whole
\* groups of eight digits, and the code points of any text.
EncodingsRoundTrip ==
    /\ eval.op = "base32" => eval.result = Val("BYTES", eval.input) /\ Len(eval.encoded) % 8 = 0
    /\ eval.op = "codepoints" /\ ~eval.input.null => eval.result = eval.input

RECURSIVE LeavesOf(_)
LeavesOf(a) == IF ~a.null /\ a.kind \in {"ARRAY", "STRUCT"} THEN UNION {LeavesOf(a.v[i]) : i \in DOMAIN a.v} ELSE {a}

\* CONTAINS_SUBSTR is the three-valued OR over the leaves of its value: TRUE if
\* a leaf contains the text in any case, else NULL if a leaf is NULL.
ContainsIsThreeValued ==
    eval.op = "contains" =>
        LET holds(a) == ~a.null /\ ContainsSubstr(<<a, Val("STRING", eval.needle)>>) = Bool(TRUE)
            leaves == LeavesOf(eval.value)
        IN  eval.result = IF \E a \in leaves : holds(a) THEN Bool(TRUE)
                          ELSE IF \E a \in leaves : a.null THEN NullBool ELSE Bool(FALSE)

\* What the documentation of PARSE_BIGNUMERIC says: a literal "must not exceed
\* the maximum precision or range" of the type, "or an error occurs".  The last
\* attempt of TryParseBignumericScientific divides by the decimals twice, so a
\* literal that is too large comes back as a smaller number.
LargeLiteralsRefused ==
    eval.op = "parse" /\ Ok(eval.result) =>
        eval.result.v = Scaled(eval.literal.digits, eval.literal.e - Decimals(eval.literal))

=============================================================================
