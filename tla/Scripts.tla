------------------------------- MODULE Scripts -------------------------------
(***************************************************************************)
(* Multi-statement scripts in the engine: the variable environment         *)
(* (FrameStack), the loop that analyses one statement after the other      *)
(* (ExecuteScriptViaAnalyzeNext), the hand-over to the analyzer library's   *)
(* ScriptExecutor once a statement needs control flow, and the evaluator   *)
(* the library calls back (EmulatorStatementEvaluator).                    *)
(*                                                                         *)
(* A script is not fixed in advance: every step picks its next statement,  *)
(* so all scripts of at most MaxScriptSteps steps are explored.            *)
(*   frames     the ScriptDriver's FrameStack                              *)
(*   constants  the constants registered on the request's catalog, by      *)
(*              which the analyzer resolves a variable's name in a query   *)
(*   scopes     the environment the author of the script means: one        *)
(*              record per open block or call.  While the library runs the *)
(*              script they are the ScriptExecutor's own (external)        *)
(*   phase      which executor runs, or how the script ended               *)
(*   rows       final_rows: the query whose rows answer the script         *)
(***************************************************************************)
EXTENDS Integers, Sequences, FiniteSets, SequencesExt

CONSTANTS
    ScriptNames,        \* names of variables and of procedure arguments
    Procedures,         \* records [formal, mode, body]
    MaxScriptSteps,     \* statements of one script
    MaxScopes,          \* blocks and calls open at once
    MaxScriptText       \* tokens of a script's text

VARIABLES phase, frames, constants, scopes, rows, ran, split

scriptVars == <<phase, frames, constants, scopes, rows, ran, split>>

(***************************************************************************)
(* Values and expressions.  A variable holds a number or an array; an      *)
(* expression is a literal, a variable or a division by zero.              *)
(***************************************************************************)
Number(n) == [type |-> "INT64", v |-> n]
List(n) == [type |-> "ARRAY", v |-> n]
NullOf(type) == [type |-> type, v |-> -1]
Lit(value) == [op |-> "literal", value |-> value]
Var(name) == [op |-> "variable", name |-> name]
Div == [op |-> "div"]
Exprs == {Lit(Number(0)), Lit(Number(1)), Lit(List(0)), Div}
           \cup {Var(n) : n \in ScriptNames}

Failed(e) == "error" \in DOMAIN e
Error(kind) == [error |-> kind]
NoBindings == [n \in {} |-> Number(0)]
NoQuery == [by |-> "none"]

(***************************************************************************)
(* FrameStack.                                                             *)
(***************************************************************************)
FrameStack == <<NoBindings>>
PushFrame(f) == Append(f, NoBindings)
Has(f, name) == \E i \in DOMAIN f : name \in DOMAIN f[i]
Innermost(f, name) ==
    CHOOSE i \in DOMAIN f : /\ name \in DOMAIN f[i]
                            /\ \A j \in (i + 1)..Len(f) : name \notin DOMAIN f[j]
Lookup(f, name) == f[Innermost(f, name)][name]
SetVariable(f, name, value) ==
    LET i == Innermost(f, name)
    IN  [f EXCEPT ![i] = [f[i] EXCEPT ![name] = value]]
DeclareVariable(f, name, value) ==
    [f EXCEPT ![Len(f)] = (name :> value) @@ f[Len(f)]]
VisibleBindings(f) == [n \in UNION {DOMAIN f[i] : i \in DOMAIN f} |-> Lookup(f, n)]

\* A constant that already has the name is kept, whatever its type or value.
RegisterScriptVariablesOnCatalog(consts, f) == consts @@ VisibleBindings(f)

(***************************************************************************)
(* Reading an expression.  A statement resolves a name to the catalog's    *)
(* constant, a SET or a condition to an expression column of the driver.   *)
(***************************************************************************)

EvalResolvedConstant(name, bindings, consts) ==
    IF name \in DOMAIN bindings THEN bindings[name] ELSE consts[name]

EvalExprIn(e, bindings, consts) ==
    CASE e.op = "literal" -> e.value
      [] e.op = "div" -> Error("division")
      [] e.op = "variable" ->
           IF e.name \in DOMAIN consts
           THEN EvalResolvedConstant(e.name, bindings, consts)
           ELSE Error("analysis")

EvalExpressionScalar(e, f, consts) ==
    IF e.op = "variable" /\ Has(f, e.name) THEN Lookup(f, e.name)
    ELSE EvalExprIn(e, VisibleBindings(f), consts)

(***************************************************************************)
(* ExecuteOneScriptStatement over a state [frames, constants, rows, error].*)
(* "inLoop" tells whether request.sql is still the text of the whole       *)
(* script, which ExecuteDml and ExecuteDdl analyse as one statement.       *)
(***************************************************************************)
Good(f, consts, r) == [frames |-> f, constants |-> consts, rows |-> r, error |-> "none"]
Bad(st, kind) == [st EXCEPT !.error = kind]

ExecuteDeclare(st, name, e) ==
    LET v == EvalExprIn(e, VisibleBindings(st.frames), st.constants)
    IN  IF Failed(v) THEN Bad(st, v.error)
        ELSE IF name \in DOMAIN Last(st.frames) THEN Bad(st, "exists")
        ELSE [st EXCEPT !.frames = DeclareVariable(st.frames, name, v)]

ExecuteProcedureSet(st, name, e) ==
    LET v == EvalExpressionScalar(e, st.frames, st.constants)
    IN  IF Failed(v) THEN Bad(st, v.error)
        ELSE IF ~ Has(st.frames, name) THEN Bad(st, "unassignable")
        ELSE [st EXCEPT !.frames = SetVariable(st.frames, name, v)]

\* The predicate's context has no script variables; here it compares with zero.
ExecuteAssert(st, e) ==
    LET v == EvalExprIn(e, NoBindings, st.constants)
    IN  IF Failed(v) THEN Bad(st, v.error)
        ELSE IF v.v # 0 THEN Bad(st, "assertion") ELSE st

\* A query over a table is lowered to DuckDB, which has no text for a constant.
RunScriptQuery(st, q) ==
    LET v == EvalExprIn(q.expr, VisibleBindings(st.frames), st.constants)
    IN  IF Failed(v) /\ v.error = "analysis" THEN Bad(st, "analysis")
        ELSE IF q.table /\ q.expr.op = "variable" THEN Bad(st, "unlowered")
        ELSE IF Failed(v) THEN Bad(st, v.error)
        ELSE [st EXCEPT !.rows = [by |-> "query", value |-> v]]

\* The text comes from the literal or from the constant, never from the driver;
\* the statement in it succeeds here and its rows are dropped.
ExecuteExecuteImmediate(st, e) ==
    LET text == EvalExprIn(e, NoBindings, st.constants)
    IN  IF Failed(text) /\ text.error = "analysis" THEN Bad(st, "analysis")
        ELSE IF Failed(text) \/ text.v = -1 THEN Bad(st, "invalid")
        ELSE [st EXCEPT !.constants =
                 RegisterScriptVariablesOnCatalog(st.constants, st.frames)]

Plainly(st, s, inLoop) ==
    CASE s.do = "declare" -> ExecuteDeclare(st, s.name, s.expr)
      [] s.do = "assert" -> ExecuteAssert(st, s.expr)
      [] s.do = "query" -> RunScriptQuery(st, s)
      [] s.do \in {"dml", "ddl"} -> IF inLoop THEN Bad(st, "syntax") ELSE st
      [] s.do = "immediate" -> ExecuteExecuteImmediate(st, s.expr)
      [] s.do = "set" -> ExecuteProcedureSet(st, s.name, s.expr)
      [] OTHER -> Bad(st, "unimplemented")

\* The body's statements share the caller's catalog and drop their rows.
ExecuteProcedureBody(st, body) ==
    LET entered == [st EXCEPT !.constants =
                        RegisterScriptVariablesOnCatalog(st.constants, st.frames)]
        step(acc, s) ==
            IF acc.error # "none" THEN acc
            ELSE [Plainly(acc, s, FALSE) EXCEPT !.rows = acc.rows]
    IN  FoldLeft(step, entered, body)

\* Mutant: arguments are copied back although the body failed.
CopiesBackAnyway(st, p, arg) ==
    LET entry == DeclareVariable(PushFrame(FrameStack), p.formal,
                     EvalExprIn(arg, VisibleBindings(st.frames), st.constants))
        done == ExecuteProcedureBody([st EXCEPT !.frames = entry], p.body)
    IN  IF arg.op = "variable" /\ Has(st.frames, arg.name)
        THEN [done EXCEPT !.frames =
                 SetVariable(st.frames, arg.name, Lookup(done.frames, p.formal))]
        ELSE Bad(st, "analysis")

\* The end of ExecuteCallStmt: the caller's frames again, with what the formal
\* ended as in the variable that was passed, unless the body failed.
CopyBack(st, p, arg, done) ==
    LET back == [done EXCEPT !.frames = st.frames]
    IN  IF done.error # "none" \/ arg.op # "variable" THEN back
        ELSE IF ~ Has(st.frames, arg.name) THEN Bad(back, "unassignable")
        ELSE [back EXCEPT !.frames =
                 SetVariable(st.frames, arg.name, Lookup(done.frames, p.formal))]

\* Every argument that is a variable is copied back, whatever its mode.
ExecuteCallStmt(st, p, arg) ==
    LET byName == arg.op = "variable"
        seed == IF ~ byName THEN EvalExprIn(arg, VisibleBindings(st.frames), st.constants)
                ELSE IF Has(st.frames, arg.name) THEN Lookup(st.frames, arg.name)
                ELSE NullOf("INT64")
        entry == DeclareVariable(PushFrame(FrameStack), p.formal, seed)
    IN  IF byName /\ arg.name \notin DOMAIN st.constants THEN Bad(st, "analysis")
        ELSE IF Failed(seed) THEN Bad(st, seed.error)
        ELSE CopyBack(st, p, arg, ExecuteProcedureBody([st EXCEPT !.frames = entry], p.body))

(***************************************************************************)
(* The library's ScriptExecutor (external): blocks, handlers and calls.    *)
(* Only the variables of the innermost call's blocks are current.          *)
(***************************************************************************)
Scope(kind, vars, handler, back) ==
    [kind |-> kind, vars |-> vars, handler |-> handler, back |-> back]
NoBack == [formal |-> "none", caller |-> "none"]

FrameBase(sc) ==
    CHOOSE i \in DOMAIN sc : /\ i = 1 \/ sc[i].kind = "call"
                             /\ \A j \in (i + 1)..Len(sc) : sc[j].kind # "call"
GetCurrentVariables(sc) ==
    LET live == SubSeq(sc, FrameBase(sc), Len(sc))
    IN  FoldLeft(LAMBDA acc, s : s.vars @@ acc, NoBindings, live)
Assigned(sc, name, value) ==
    LET i == CHOOSE i \in FrameBase(sc)..Len(sc) : name \in DOMAIN sc[i].vars
    IN  [sc EXCEPT ![i] = [sc[i] EXCEPT !.vars = [sc[i].vars EXCEPT ![name] = value]]]
AddedTo(sc, name, value) ==
    [sc EXCEPT ![Len(sc)] =
        [sc[Len(sc)] EXCEPT !.vars = (name :> value) @@ sc[Len(sc)].vars]]

\* The innermost block with a handler, whose own variables are gone by then.
Handlers(sc) == {i \in DOMAIN sc : sc[i].handler}
Unwound(sc) ==
    LET i == CHOOSE i \in Handlers(sc) : \A j \in Handlers(sc) : j <= i
    IN  Append(SubSeq(sc, 1, i - 1),
               [sc[i] EXCEPT !.vars = NoBindings, !.handler = FALSE])

(***************************************************************************)
(* EmulatorStatementEvaluator.                                             *)
(***************************************************************************)
SyncDriverFromExecutor(f, current) ==
    LET known == {n \in DOMAIN current : Has(f, n)}
        set == [i \in DOMAIN f |->
                  [n \in DOMAIN f[i] |->
                     IF n \in known /\ i = Innermost(f, n) THEN current[n] ELSE f[i][n]]]
        fresh == [n \in DOMAIN current \ known |-> current[n]]
    IN  [set EXCEPT ![Len(f)] = fresh @@ set[Len(f)]]

Uncatchable == {"unimplemented", "internal"}

\* Mutant: only errors with a semantic reason become script exceptions.
OnlyWithReason(kind) == kind \in {"division", "assertion", "invalid", "unassignable"}

AttachScriptExceptionIfCatchable(kind) == kind \notin Uncatchable

ExecuteStatement(s) ==
    LET f == SyncDriverFromExecutor(frames, GetCurrentVariables(scopes))
        consts == RegisterScriptVariablesOnCatalog(constants, f)
    IN  Plainly(Good(f, consts, rows), s, FALSE)

\* The rows of a FOR loop's query become final_rows too, and are drained.
RowSourceToEvaluatorIterator == [by |-> "drained"]
ExecuteQueryWithResult(s) ==
    LET st == ExecuteStatement(s)
    IN  IF st.error = "none" THEN [st EXCEPT !.rows = RowSourceToEvaluatorIterator] ELSE st

EvaluateScalarExpression(e) ==
    LET f == SyncDriverFromExecutor(frames, GetCurrentVariables(scopes))
    IN  [frames |-> f, value |-> EvalExpressionScalar(e, f, constants)]

\* The tail is re-parsed with one DECLARE per visible binding in front of it;
\* "DECLARE a ARRAY" lacks its element type and does not parse.
AugmentScriptWithDriverDeclares(f) ==
    LET b == VisibleBindings(f)
    IN  IF \E n \in DOMAIN b : b[n].type = "ARRAY" THEN Error("syntax") ELSE b

(***************************************************************************)
(* Steps.                                                                  *)
(***************************************************************************)
Running(mode) == phase.mode = mode /\ ran < MaxScriptSteps
Block(vars) == Scope("block", vars, FALSE, NoBack)
Fails(kind, by) == [mode |-> "failed", error |-> kind, by |-> by]

\* NeedsScriptStatementLoop holds; the first word decides who runs the script.
StartScript ==
    /\ phase.mode = "idle" /\ split = <<>>
    /\ \E mode \in {"loop", "library"} : phase' = [mode |-> mode]
    /\ frames' = FrameStack /\ constants' = NoBindings
    /\ scopes' = <<Block(NoBindings)>> /\ rows' = NoQuery
    /\ UNCHANGED <<ran, split>>

LoopStatements ==
    {[do |-> "declare", name |-> n, expr |-> e] : n \in ScriptNames, e \in Exprs}
      \cup {[do |-> "assert", expr |-> Var(n)] : n \in ScriptNames}
      \cup {[do |-> "query", expr |-> e, table |-> t] : e \in Exprs, t \in BOOLEAN}
      \cup {[do |-> d] : d \in {"dml", "ddl", "other"}}

Finish(st) ==
    /\ frames' = st.frames /\ constants' = st.constants /\ rows' = st.rows
    /\ ran' = ran + 1 /\ UNCHANGED split

Registered == RegisterScriptVariablesOnCatalog(constants, frames)

\* ExecuteAnalyzeNextLoopStep for a statement the analyzer knows.
LoopStatement(s) ==
    LET st == Plainly(Good(frames, Registered, rows), s, TRUE)
    IN  /\ Running("loop")
        /\ Finish(st)
        /\ phase' = IF st.error = "none" THEN phase ELSE Fails(st.error, "loop")
        /\ scopes' = IF st.error = "none" /\ s.do = "declare"
                     THEN AddedTo(scopes, s.name, Lookup(st.frames, s.name)) ELSE scopes

\* TryExecuteLeadingSetStatement takes a leading SET before the analyzer sees it.
LoopSet(name, e) ==
    LET st == ExecuteProcedureSet(Good(frames, Registered, rows), name, e)
    IN  /\ Running("loop")
        /\ Finish(st)
        /\ phase' = IF st.error = "none" THEN phase ELSE Fails(st.error, "loop")
        /\ scopes' = IF st.error = "none"
                     THEN Assigned(scopes, name, Lookup(st.frames, name)) ELSE scopes

\* What the loop does with a call's outcome.
LoopReturns(st, arg) ==
    /\ Finish(st)
    /\ phase' = IF st.error = "none" THEN phase ELSE Fails(st.error, "call")
    /\ scopes' = IF st.error = "none" /\ arg.op = "variable"
                 THEN Assigned(scopes, arg.name, Lookup(st.frames, arg.name))
                 ELSE scopes

LoopCall(p, arg) ==
    /\ Running("loop")
    /\ arg.op = "variable" \/ p.mode = "IN"
    /\ LoopReturns(ExecuteCallStmt(Good(frames, Registered, rows), p, arg), arg)

\* ExecuteControlFlowTailIfNeeded: the rest of the script goes to the library.
HandOver ==
    LET b == AugmentScriptWithDriverDeclares(frames)
    IN  /\ Running("loop")
        /\ ran' = ran + 1
        /\ IF Failed(b)
           THEN phase' = Fails("syntax", "handover") /\ UNCHANGED scopes
           ELSE phase' = [mode |-> "library"] /\ scopes' = <<Block(b)>>
        /\ constants' = Registered
        /\ rows' = NoQuery
        /\ UNCHANGED <<frames, split>>

\* What the library does with the status of a callback: the innermost handler
\* runs if the status carries a script exception, else the script ends.
Raised(kind, by, catchable) ==
    IF kind = "none" THEN UNCHANGED <<phase, scopes>>
    ELSE IF catchable /\ Handlers(scopes) # {}
    THEN scopes' = Unwound(scopes) /\ UNCHANGED phase
    ELSE phase' = Fails(kind, by) /\ UNCHANGED scopes

LibraryStatements ==
    {s \in LoopStatements : s.do # "declare"}

\* What the library executor does with a statement's outcome.
LibraryReturns(st) ==
    /\ Finish(st)
    /\ Raised(st.error, "statement", AttachScriptExceptionIfCatchable(st.error))

LibraryStatement(s) ==
    Running("library") /\ LibraryReturns(ExecuteStatement(s))

LibraryFor(s) ==
    /\ Running("library") /\ s.do = "query"
    /\ LibraryReturns(ExecuteQueryWithResult(s))

\* The callback for a scalar returns the bare status of the evaluation.
Scalar(e, after(_)) ==
    LET r == EvaluateScalarExpression(e)
    IN  /\ Running("library")
        /\ frames' = r.frames
        /\ ran' = ran + 1
        /\ IF Failed(r.value) THEN Raised(r.value.error, "scalar", FALSE)
           ELSE scopes' = after(r.value) /\ UNCHANGED phase
        /\ UNCHANGED <<constants, rows, split>>

LibraryDeclare(name, e) ==
    /\ name \notin DOMAIN GetCurrentVariables(scopes)
    /\ Scalar(e, LAMBDA v : AddedTo(scopes, name, v))

LibrarySet(name, e) ==
    /\ name \in DOMAIN GetCurrentVariables(scopes)
    /\ Scalar(e, LAMBDA v : Assigned(scopes, name, v))

\* The condition of IF, WHILE or REPEAT, and the operands of CASE.
LibraryCondition(e) == Scalar(e, LAMBDA v : scopes)

\* LoadProcedure; the library binds the argument and copies back by mode.
LibraryCall(p, arg) ==
    /\ Len(scopes) < MaxScopes
    /\ \/ p.mode = "IN"
       \/ arg.op = "variable" /\ arg.name \in DOMAIN GetCurrentVariables(scopes)
    /\ Scalar(arg, LAMBDA v :
          Append(scopes, Scope("call",
              p.formal :> (IF p.mode = "OUT" THEN NullOf("INT64") ELSE v), FALSE,
              IF p.mode = "IN" THEN NoBack
              ELSE [formal |-> p.formal, caller |-> arg.name])))

LibraryBegin(handler) ==
    /\ Running("library") /\ Len(scopes) < MaxScopes
    /\ scopes' = Append(scopes, Scope("block", NoBindings, handler, NoBack))
    /\ ran' = ran + 1
    /\ UNCHANGED <<phase, frames, constants, rows, split>>

LibraryEnd ==
    LET top == Last(scopes)
    IN  /\ phase.mode = "library" /\ Len(scopes) > 1
        /\ scopes' = IF top.back = NoBack THEN Front(scopes)
                     ELSE Assigned(Front(scopes), top.back.caller, top.vars[top.back.formal])
        /\ UNCHANGED <<phase, frames, constants, rows, ran, split>>

\* The end of either executor; the library's values reach names the driver has.
EndScript ==
    /\ \/ phase.mode = "loop" /\ UNCHANGED frames
       \/ /\ phase.mode = "library" /\ Len(scopes) = 1
          /\ LET cur == GetCurrentVariables(scopes)
             IN  frames' = SyncDriverFromExecutor(frames,
                              [n \in {n \in DOMAIN cur : Has(frames, n)} |-> cur[n]])
    /\ phase' = [mode |-> "done"]
    /\ UNCHANGED <<constants, scopes, rows, ran, split>>

(***************************************************************************)
(* The text of a script, one token for a run of letters: the three scans   *)
(* for the next ";" that is not inside single quotes.                      *)
(***************************************************************************)
Tokens == {"space", "quote", ";", "word", "BEGIN", "END"}
Quoted(sql, i) == Cardinality({j \in 1..(i - 1) : sql[j] = "quote"}) % 2 = 1
Separators(sql) == {i \in DOMAIN sql : sql[i] = ";" /\ ~ Quoted(sql, i)}
StripAsciiWhitespace(sql) ==
    LET kept == {i \in DOMAIN sql : sql[i] # "space"}
    IN  IF kept = {} THEN <<>> ELSE SubSeq(sql, Min(kept), Max(kept))

LeadingScriptStatement(sql) ==
    LET ends == Separators(sql)
    IN  StripAsciiWhitespace(SubSeq(sql, 1, IF ends = {} THEN Len(sql) ELSE Min(ends) - 1))

SplitSemicolonStatements(sql) ==
    LET stops == SetToSortSeq(Separators(sql), <) \o <<Len(sql) + 1>>
        part(i) == StripAsciiWhitespace(
                       SubSeq(sql, IF i = 1 THEN 1 ELSE stops[i - 1] + 1, stops[i] - 1))
    IN  SelectSeq([i \in DOMAIN stops |-> part(i)], LAMBDA s : s # <<>>)

StripBeginEnd(sql) ==
    LET t == StripAsciiWhitespace(sql)
        u == IF t # <<>> /\ t[1] = "BEGIN" THEN StripAsciiWhitespace(Tail(t)) ELSE t
    IN  IF u # <<>> /\ Last(u) = "END" THEN StripAsciiWhitespace(Front(u)) ELSE u

\* Without a ";" the bytes before the statement are not counted as consumed.
ExtractFirstStatementChunk(sql) ==
    LET ends == Separators(sql)
        start == Min({i \in DOMAIN sql : sql[i] # "space"} \cup {Len(sql) + 1})
    IN  [sql |-> LeadingScriptStatement(sql),
         consumed |-> IF ends = {} THEN Len(sql) - start + 1 ELSE Min(ends)]

SplitText ==
    /\ phase.mode = "idle" /\ split = <<>>
    /\ \E sql \in SeqOf(Tokens, MaxScriptText) : sql # <<>> /\ split' = sql
    /\ UNCHANGED <<phase, frames, constants, scopes, rows, ran>>

ForgetText ==
    /\ split # <<>> /\ split' = <<>>
    /\ UNCHANGED <<phase, frames, constants, scopes, rows, ran>>

(***************************************************************************)
(* Specification.                                                          *)
(***************************************************************************)
NextRequest ==
    /\ phase.mode \in {"done", "failed"}
    /\ phase' = [mode |-> "idle"] /\ ran' = 0
    /\ frames' = FrameStack /\ constants' = NoBindings
    /\ scopes' = <<Block(NoBindings)>> /\ rows' = NoQuery
    /\ UNCHANGED split

ScriptInit ==
    /\ phase = [mode |-> "idle"] /\ ran = 0 /\ split = <<>>
    /\ frames = FrameStack /\ constants = NoBindings
    /\ scopes = <<Block(NoBindings)>> /\ rows = NoQuery

ScriptNext ==
    \/ StartScript
    \/ \E s \in LoopStatements : LoopStatement(s)
    \/ \E n \in ScriptNames, e \in Exprs : LoopSet(n, e)
    \/ \E p \in Procedures, e \in Exprs : LoopCall(p, e)
    \/ HandOver
    \/ \E s \in LibraryStatements : LibraryStatement(s) \/ LibraryFor(s)
    \/ \E n \in ScriptNames, e \in Exprs : LibraryDeclare(n, e) \/ LibrarySet(n, e)
    \/ \E e \in Exprs : LibraryCondition(e)
    \/ \E p \in Procedures, e \in Exprs : LibraryCall(p, e)
    \/ \E h \in BOOLEAN : LibraryBegin(h)
    \/ LibraryEnd
    \/ EndScript
    \/ NextRequest
    \/ SplitText
    \/ ForgetText

ScriptSpec == ScriptInit /\ [][ScriptNext]_scriptVars

(***************************************************************************)
(* Properties.                                                             *)
(***************************************************************************)
Live == phase.mode \in {"loop", "library"}
Synced == IF phase.mode = "library"
          THEN SyncDriverFromExecutor(frames, GetCurrentVariables(scopes)) ELSE frames

\* A query of a script reads, for every variable in scope, the value it holds
\* at that moment: through assignments, calls, caught errors and the hand-over
\* to the library, although the constant the analyzer resolved keeps the first
\* value (script_executor_internal.cc:71, eval_expr.cc:166).
QueriesReadCurrentValues ==
    Live => LET cur == GetCurrentVariables(scopes)
                consts == RegisterScriptVariablesOnCatalog(constants, Synced)
            IN  \A n \in DOMAIN cur :
                    EvalExprIn(Var(n), VisibleBindings(Synced), consts) = cur[n]

\* A statement that fails inside a block with a handler never ends the script,
\* unless the engine says that it does not implement it
\* (AttachScriptExceptionIfCatchable).
StatementErrorsReachHandlers ==
    phase.mode = "failed" /\ phase.by = "statement" /\ phase.error \notin Uncatchable
        => Handlers(scopes) = {}

\* A CALL changes no variable of its caller but the one passed to it, and not
\* even that one when it fails: arguments are copied back only when the whole
\* body has run (ExecuteCallStmt).
CallsTouchTheirArgument ==
    [][\A p \in Procedures, e \in Exprs : LoopCall(p, e) =>
          \A n \in DOMAIN VisibleBindings(frames) :
              \/ Lookup(frames', n) = Lookup(frames, n)
              \/ phase'.mode = "loop" /\ e = Var(n)]_scriptVars

\* The scans that route a script, split a procedure's body and cut a SET
\* statement see the same first statement in every text.
SplittersAgree ==
    LeadingScriptStatement(split) # <<>>
        => /\ SplitSemicolonStatements(split)[1] = LeadingScriptStatement(split)
           /\ ExtractFirstStatementChunk(split).sql =
                  SplitSemicolonStatements(split)[1]

\* Wrapping a list of statements in BEGIN ... END, the form a procedure's body
\* is stored in, and stripping it again yields the same statements
\* (StripBeginEnd, SplitSemicolonStatements).
BodiesUnwrapped ==
    LET body == <<"BEGIN", "space">> \o split \o <<";", "space", "END">>
    IN  ~ Quoted(split, Len(split) + 1)
            => SplitSemicolonStatements(StripBeginEnd(body)) = SplitSemicolonStatements(split)

\* A variable passed for an IN argument keeps its value through the CALL.
InArgumentsUnchanged ==
    [][\A p \in Procedures, n \in ScriptNames :
          p.mode = "IN" /\ LoopCall(p, Var(n)) /\ phase'.mode = "loop" /\ Has(frames, n)
              => Lookup(frames', n) = Lookup(frames, n)]_scriptVars

\* A script's state is what its statements made it: queries read the current
\* values, errors reach the handlers, and the scanners that cut the text into
\* statements cut it alike.
ScriptsKeepTheirState ==
    /\ QueriesReadCurrentValues
    /\ StatementErrorsReachHandlers
    /\ SplittersAgree
    /\ BodiesUnwrapped
=============================================================================
