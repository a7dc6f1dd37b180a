------------------------------ MODULE SqlValues ------------------------------
(***************************************************************************)
(* Values, NULLs and errors of the semantic executor                       *)
(* (backend/engine/semantic/value.cc, error.cc), shared by the modules     *)
(* that model its functions.  Those modules describe pure code: the one    *)
(* variable holds the last call and its result, so that TLC runs every     *)
(* function over every input of the bounded sets.                          *)
(*                                                                         *)
(* INT64 keeps its width (Bits).  NUMERIC, BIGNUMERIC and FLOAT64 count    *)
(* sixtieths, so that halves, tenths and the quotients met here are exact; *)
(* NUMERIC is symmetric around zero, BIGNUMERIC is not, FLOAT64 has no     *)
(* bound.  A string is a sequence of characters of a small set.            *)
(***************************************************************************)
EXTENDS Integers, Sequences, FiniteSets, SequencesExt

CONSTANTS
    Bits,           \* width of INT64
    NumericMax      \* largest NUMERIC; BIGNUMERIC reaches twice as far

ASSUME WidthAssumption == Bits \in Nat \ {0, 1} /\ NumericMax >= 2 ^ (Bits - 1)

VARIABLE eval

NoCall == [op |-> "none"]

Return == eval # NoCall /\ eval' = NoCall

-----------------------------------------------------------------------------

Unit == 60

Val(k, n) == [kind |-> k, null |-> FALSE, v |-> n]

NullOfType(k) == [kind |-> k, null |-> TRUE, v |-> 0]

MakeSemanticError(reason) == [error |-> reason]

Invalid == MakeSemanticError("kInvalidArgument")

Ok(r) == "kind" \in DOMAIN r

\* The status code under which a reason travels.
StatusCode(r) ==
    IF r.error = "kNotImplemented" THEN "UNIMPLEMENTED" ELSE "INVALID_ARGUMENT"

Bool(b) == Val("BOOL", IF b THEN 1 ELSE 0)

NullBool == NullOfType("BOOL")

IsTrue(r) == Ok(r) /\ r.kind = "BOOL" /\ ~r.null /\ r.v = 1

AnyNull(args) == \E i \in DOMAIN args : args[i].null

Int64 == -(2 ^ (Bits - 1)) .. 2 ^ (Bits - 1) - 1

InRange(k, n) ==
    CASE k = "INT64" -> n \in Int64
      [] k = "NUMERIC" -> n \in -(NumericMax * Unit) .. NumericMax * Unit
      [] k = "BIGNUMERIC" -> n \in -(2 * NumericMax * Unit) - 1 .. 2 * NumericMax * Unit
      [] OTHER -> TRUE

Abs(n) == IF n < 0 THEN -n ELSE n

\* Division of C++: towards zero.
Quot(a, b) == LET q == Abs(a) \div Abs(b) IN IF (a < 0) # (b < 0) THEN -q ELSE q

Rem(a, b) == a - b * Quot(a, b)

\* The library's decimal division: half away from zero.
RoundDiv(a, b) ==
    LET q == (2 * Abs(a) + Abs(b)) \div (2 * Abs(b)) IN IF (a < 0) # (b < 0) THEN -q ELSE q

=============================================================================
