----------------------------- MODULE RoutineCatalog -----------------------------
(***************************************************************************)
(* The routines of one project: the in-memory registries of functions       *)
(* (kept per dataset), of JavaScript and Python bodies, table functions and *)
(* procedures (kept per bare name), the rows of main.__bqemu_routines, and  *)
(* the rehydration of the former from the latter at process start.         *)
(*                                                                         *)
(* SQL DDL registers a routine and then persists it; the REST routines      *)
(* surface (CatalogService.UpsertRoutine) persists it and then registers    *)
(* it.  A routine's text is abstracted to the number of the statement that  *)
(* wrote it, its language, and the one function its body may call.          *)
(***************************************************************************)
EXTENDS Naturals, Sequences, FiniteSets, SequencesExt

CONSTANTS
    RoutinePaths,  \* the <<dataset, name>> paths in play, in ORDER BY order
    RoutineKinds,  \* subset of {"FUNCTION", "TVF", "PROCEDURE"} to exercise
    RSessions,     \* concurrent requests
    MaxRoutineOps  \* bound: statements and calls, over all restarts

NoSchema == ""
NoRoutinePath == <<"", "">>
RPaths == Range(RoutinePaths)
RSchemas == {p[1] : p \in RPaths}
RNames == {p[2] : p \in RPaths}
Languages == {"SQL", "EXTERNAL"}     \* EXTERNAL: JavaScript or Python
Bodies == 1..MaxRoutineOps
NoRoutine == [kind |-> "NONE", lang |-> "SQL", body |-> 0, calls |-> NoRoutinePath]
IdleRequest == [op |-> "idle", path |-> NoRoutinePath, rec |-> NoRoutine]

ASSUME RoutineAssumption ==
    /\ RoutinePaths \in Seq(STRING \X STRING) /\ IsInjective(RoutinePaths)
    /\ RoutineKinds \subseteq {"FUNCTION", "TVF", "PROCEDURE"}
    /\ MaxRoutineOps \in Nat

VARIABLES
    functions,     \* g_project_udfs: Seq([ds, name, lang, body])
    external,      \* name -> body in the JavaScript / Python registry, 0: none
    byName,        \* [TVF, PROCEDURE] -> name -> body, 0: none
    routineRows,   \* path -> row of main.__bqemu_routines
    request,       \* the second half of a request still to run, per session
    routineEngine, \* "up" or "down"
    settled,       \* no request ran since the last successful start
    ackedRoutine,  \* history: path -> routine last acknowledged there
    usedAs,        \* history: name -> <<dataset, kind>> pairs it was used as
    crowded,       \* history: names used as two things, or by two requests at once
    badStart,      \* some start of the process ended in EXIT_FAILURE
    routineOps

registries == <<functions, external, byName>>
routineVars == <<functions, external, byName, routineRows, request, routineEngine, settled,
                 ackedRoutine, usedAs, crowded, badStart, routineOps>>

--------------------------------------------------------------------------------
\* The registries.  R bundles them: [fn, ext, named].

\* The first entry a call of (ds, name) accepts, 0 when there is none.
FindProjectFunction(fn, ds, name) ==
    SelectInSeq(fn, LAMBDA e : /\ e.name = name
                               /\ e.ds = ds \/ ds = NoSchema \/ e.ds = NoSchema)

\* A function replaces the first entry it collides with.
RegisterProjectFunction(fn, entry) ==
    LET old == FindProjectFunction(fn, entry.ds, entry.name)
    IN  Append(IF old = 0 THEN fn ELSE RemoveAt(fn, old), entry)

\* A body analyzes if the function it calls is registered.
Analyzes(R, rec) ==
    rec.calls # NoRoutinePath => FindProjectFunction(R.fn, rec.calls[1], rec.calls[2]) # 0

\* RegisterProjectProcedure (and its TVF counterpart): keyed by bare name.
RegisterByName(R, kind, name, body) == [R EXCEPT !.named[kind][name] = body]

\* RegisterResolvedRoutine / ExecuteCreate...Ddl: functions by dataset and name,
\* the body of an external-language one, a TVF and a procedure by name alone.
RegisterRoutine(R, ds, name, rec) ==
    IF rec.kind = "FUNCTION"
    THEN [R EXCEPT !.fn = RegisterProjectFunction(R.fn,
                        [ds |-> ds, name |-> name, lang |-> rec.lang, body |-> rec.body]),
                   !.ext[name] = IF rec.lang = "EXTERNAL" THEN rec.body ELSE @]
    ELSE RegisterByName(R, rec.kind, name, rec.body)

HasFunction(R, name) == \E i \in DOMAIN R.fn : R.fn[i].name = name

\* DropProjectFunction takes the first entry of that bare name, and the
\* external body with it.
DropProjectFunction(R, name) ==
    [R EXCEPT !.fn = RemoveAt(R.fn, SelectInSeq(R.fn, LAMBDA e : e.name = name)),
              !.ext[name] = 0]

\* DROP FUNCTION and DROP PROCEDURE try a function and then a procedure, DROP
\* TABLE FUNCTION a TVF, the RPC a function, a TVF and then a procedure.
DropByName(R, order, name) ==
    LET hits == SelectSeq(order, LAMBDA k : IF k = "FUNCTION" THEN HasFunction(R, name)
                                            ELSE R.named[k][name] # 0)
    IN  IF hits = <<>> THEN R
        ELSE IF Head(hits) = "FUNCTION" THEN DropProjectFunction(R, name)
        ELSE [R EXCEPT !.named[Head(hits)][name] = 0]

\* The body a call of the qualified name runs (EvalFunctionCall,
\* FindProjectProcedure), 0 when it fails to resolve.
Called(R, kind, p) ==
    IF kind = "FUNCTION"
    THEN LET i == FindProjectFunction(R.fn, p[1], p[2]) IN
         IF i = 0 THEN 0
         ELSE IF R.fn[i].lang = "EXTERNAL" THEN R.ext[p[2]] ELSE R.fn[i].body
    ELSE R.named[kind][p[2]]

Registries == [fn |-> functions, ext |-> external, named |-> byName]

SetRegistries(R) ==
    /\ functions' = R.fn /\ external' = R.ext /\ byName' = R.named

EmptyRegistries ==
    [fn |-> <<>>, ext |-> [n \in RNames |-> 0],
     named |-> [k \in {"TVF", "PROCEDURE"} |-> [n \in RNames |-> 0]]]


\* RehydrateRoutineRecord: analyze the stored DDL, register what it defines.
RehydrateRoutineRecord(acc, p, rec) ==
    IF Analyzes(acc.R, rec)
    THEN [acc EXCEPT !.R = RegisterRoutine(acc.R, p[1], p[2], rec)]
    ELSE [acc EXCEPT !.ok = FALSE]

\* RehydrateRoutinesFromStorage: rows in path order, up to the first failure.
RehydrateRoutines ==
    FoldLeft(LAMBDA acc, p :
               IF ~acc.ok \/ routineRows[p] = NoRoutine THEN acc
               ELSE RehydrateRoutineRecord(acc, p, routineRows[p]),
             [ok |-> TRUE, R |-> EmptyRegistries], RoutinePaths)

\* What PersistRoutineDdl still has to store: nothing for a path without a
\* dataset, which answers OK.
PersistRoutineDdl(ds, name, rec) ==
    IF ds = NoSchema THEN IdleRequest
    ELSE [op |-> "persist", path |-> <<ds, name>>, rec |-> rec]

--------------------------------------------------------------------------------
RoutineInit ==
    /\ functions = <<>>
    /\ external = EmptyRegistries.ext
    /\ byName = EmptyRegistries.named
    /\ routineRows = [p \in RPaths |-> NoRoutine]
    /\ request = [s \in RSessions |-> IdleRequest]
    /\ routineEngine = "up" /\ settled = TRUE
    /\ ackedRoutine = [p \in RPaths |-> NoRoutine]
    /\ usedAs = [n \in RNames |-> {}]
    /\ crowded = {} /\ badStart = FALSE
    /\ routineOps = 0

Accept(s) ==
    /\ routineEngine = "up" /\ request[s] = IdleRequest
    /\ routineOps < MaxRoutineOps
    /\ routineOps' = routineOps + 1
    /\ settled' = FALSE
    /\ UNCHANGED <<routineEngine, badStart>>

\* History: session s names the routine <<ds, name>> as a `kind`.
UseName(s, ds, name, kind) ==
    /\ usedAs' = [usedAs EXCEPT ![name] = @ \cup {<<ds, kind>>}]
    /\ crowded' = IF \/ Cardinality(usedAs'[name]) > 1
                     \/ \E t \in RSessions \ {s} : request[t].path[2] = name
                  THEN crowded \cup {name} ELSE crowded

NewRoutines == {[kind |-> k, lang |-> l, body |-> routineOps + 1, calls |-> c] :
                   k \in RoutineKinds, l \in Languages, c \in RPaths \cup {NoRoutinePath}}

WellFormed(rec) ==
    /\ rec.kind # "FUNCTION" => rec.lang = "SQL" /\ rec.calls = NoRoutinePath
    /\ rec.lang = "EXTERNAL" => rec.calls = NoRoutinePath

\* CREATE OR REPLACE FUNCTION / TABLE FUNCTION / PROCEDURE, first half: analyze,
\* register.  A path without a dataset is registered and never persisted.
CreateRoutineRegister(s) ==
    \E name \in RNames, ds \in RSchemas \cup {NoSchema}, rec \in NewRoutines :
       /\ Accept(s)
       /\ WellFormed(rec) /\ Analyzes(Registries, rec)
       /\ ds # NoSchema => <<ds, name>> \in RPaths
       /\ SetRegistries(RegisterRoutine(Registries, ds, name, rec))
       /\ UseName(s, ds, name, rec.kind)
       /\ request' = [request EXCEPT ![s] = PersistRoutineDdl(ds, name, rec)]
       /\ UNCHANGED <<routineRows, ackedRoutine>>

\* Second half: PersistRoutineDdl.  No check that the dataset exists.
CreateRoutinePersist(s) ==
    /\ routineEngine = "up" /\ request[s].op = "persist"
    /\ routineRows' = [routineRows EXCEPT ![request[s].path] = request[s].rec]
    /\ ackedRoutine' = [ackedRoutine EXCEPT ![request[s].path] = request[s].rec]
    /\ request' = [request EXCEPT ![s] = IdleRequest]
    /\ UNCHANGED <<registries, routineEngine, settled, usedAs, crowded, badStart, routineOps>>

\* CatalogService.UpsertRoutine, first half: the row is stored.
UpsertRoutineStore(s) == \E p \in RPaths, rec \in NewRoutines :
    /\ Accept(s)
    /\ WellFormed(rec)
    /\ routineRows' = [routineRows EXCEPT ![p] = rec]
    /\ ackedRoutine' = [ackedRoutine EXCEPT ![p] = NoRoutine]
    /\ UseName(s, p[1], p[2], rec.kind)
    /\ request' = [request EXCEPT ![s] = [op |-> "register", path |-> p, rec |-> rec]]
    /\ UNCHANGED registries

\* Second half: RehydrateRoutineRecord.  A body that does not analyze fails the
\* call and leaves the row.
UpsertRoutineRegister(s) ==
    /\ routineEngine = "up" /\ request[s].op = "register"
    /\ LET p == request[s].path
           rec == request[s].rec
       IN  IF Analyzes(Registries, rec)
           THEN /\ SetRegistries(RegisterRoutine(Registries, p[1], p[2], rec))
                /\ ackedRoutine' = [ackedRoutine EXCEPT ![p] = rec]
           ELSE UNCHANGED <<registries, ackedRoutine>>
    /\ request' = [request EXCEPT ![s] = IdleRequest]
    /\ UNCHANGED <<routineRows, routineEngine, settled, usedAs, crowded, badStart, routineOps>>

\* DROP ..., first half: the registry entry, which must exist (IF EXISTS answers
\* OK and leaves the row).
DropRoutineRegistry(s) == \E p \in RPaths, kind \in RoutineKinds :
    /\ Accept(s)
    /\ LET order == IF kind = "TVF" THEN <<"TVF">> ELSE <<"FUNCTION", "PROCEDURE">>
       IN  /\ DropByName(Registries, order, p[2]) # Registries
           /\ SetRegistries(DropByName(Registries, order, p[2]))
    /\ UseName(s, p[1], p[2], kind)
    /\ request' = [request EXCEPT ![s] = [op |-> "delete", path |-> p, rec |-> NoRoutine]]
    /\ UNCHANGED <<routineRows, ackedRoutine>>

\* CatalogService.DeleteRoutine, first half: whatever has that name, or nothing.
DeleteRoutineRegistry(s) == \E p \in RPaths :
    /\ Accept(s)
    /\ SetRegistries(DropByName(Registries, <<"FUNCTION", "TVF", "PROCEDURE">>, p[2]))
    /\ UseName(s, p[1], p[2], routineRows[p].kind)
    /\ request' = [request EXCEPT ![s] = [op |-> "delete", path |-> p, rec |-> NoRoutine]]
    /\ UNCHANGED <<routineRows, ackedRoutine>>

\* Second half of both: DeletePersistedRoutine.
DropRoutinePersist(s) ==
    /\ routineEngine = "up" /\ request[s].op = "delete"
    /\ routineRows' = [routineRows EXCEPT ![request[s].path] = NoRoutine]
    /\ ackedRoutine' = [ackedRoutine EXCEPT ![request[s].path] = NoRoutine]
    /\ request' = [request EXCEPT ![s] = IdleRequest]
    /\ UNCHANGED <<registries, routineEngine, settled, usedAs, crowded, badStart, routineOps>>

RoutineCrash ==
    /\ routineEngine = "up"
    /\ routineEngine' = "down"
    /\ SetRegistries(EmptyRegistries)
    /\ request' = [s \in RSessions |-> IdleRequest]
    /\ ackedRoutine' = [p \in RPaths |-> IF \E s \in RSessions : request[s].path = p
                                         THEN NoRoutine ELSE ackedRoutine[p]]
    /\ settled' = FALSE
    /\ UNCHANGED <<routineRows, usedAs, crowded, badStart, routineOps>>

RoutineStart ==
    /\ routineEngine = "down"
    /\ IF RehydrateRoutines.ok
       THEN /\ SetRegistries(RehydrateRoutines.R)
            /\ routineEngine' = "up" /\ settled' = TRUE /\ badStart' = badStart
       ELSE badStart' = TRUE /\ UNCHANGED <<registries, routineEngine, settled>>
    /\ UNCHANGED <<routineRows, request, ackedRoutine, usedAs, crowded, routineOps>>

RoutineNext ==
    \/ \E s \in RSessions :
          \/ CreateRoutineRegister(s) \/ CreateRoutinePersist(s)
          \/ UpsertRoutineStore(s) \/ UpsertRoutineRegister(s)
          \/ DropRoutineRegistry(s) \/ DeleteRoutineRegistry(s) \/ DropRoutinePersist(s)
    \/ RoutineCrash \/ RoutineStart

--------------------------------------------------------------------------------
\* Type correctness; a pending request is always about a complete path.
RoutineTypeOK ==
    /\ \A i \in DOMAIN functions :
          functions[i] \in [ds : RSchemas \cup {NoSchema}, name : RNames, lang : Languages,
                            body : Bodies]
    /\ external \in [RNames -> Bodies \cup {0}]
    /\ byName \in [{"TVF", "PROCEDURE"} -> [RNames -> Bodies \cup {0}]]
    /\ \A s \in RSessions : /\ request[s].op \in {"idle", "persist", "register", "delete"}
                            /\ request[s].path \in RPaths \cup {NoRoutinePath}
    /\ routineEngine \in {"up", "down"} /\ settled \in BOOLEAN
    /\ routineOps \in 0..MaxRoutineOps

\* A call by qualified name runs the body that was last acknowledged for that
\* routine, before and after restarts, however it was written (DDL registers and
\* persists, the REST surface persists and registers).  It holds for names used
\* for one routine by one request at a time: external-language bodies, table
\* functions and procedures are shared by every dataset of the project, and every
\* drop goes by bare name.
CallRunsAckedBody ==
    routineEngine = "up" =>
       \A p \in RPaths :
          /\ p[2] \notin crowded
          /\ \A s \in RSessions : request[s].path # p
          /\ ackedRoutine[p] # NoRoutine
          => Called(Registries, ackedRoutine[p].kind, p) = ackedRoutine[p].body

\* After a restart a SQL function of one dataset is never answered by a
\* same-named function of another: rehydration keeps functions apart by dataset
\* even for names that several datasets use.
FunctionsKeptApart ==
    routineEngine = "up" /\ settled =>
       \A p \in RPaths : routineRows[p].kind = "FUNCTION" /\ routineRows[p].lang = "SQL" =>
          Called(Registries, "FUNCTION", p) = routineRows[p].body

\* The process refuses to start only when a stored body calls a function that is
\* not stored under an earlier path; a store of self-contained routines always
\* opens, although UpsertRoutine stores bodies before it knows they analyze.
StartFailsOnlyOverCalls ==
    badStart' # badStart => \E p \in RPaths : routineRows[p].calls # NoRoutinePath

================================================================================
