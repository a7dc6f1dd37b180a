------------------------------- MODULE TableJobs -------------------------------
(***************************************************************************)
(* The gateway's table traffic: load, copy, query-destination and extract  *)
(* jobs, tables.insert / patch / delete and tabledata.insertAll.  Every    *)
(* one is a sequence of Catalog RPCs to the engine with nothing held       *)
(* between two of them.  A request carries its plan, the names of the RPCs *)
(* it has still to make; one action performs the head of a plan, and may   *)
(* shorten or extend what is left when the code branches on the reply.     *)
(*                                                                         *)
(* A cell is "null", a text, or "list", the value of a REPEATED column.    *)
(***************************************************************************)
EXTENDS Naturals, Sequences, FiniteSets, TLC

CONSTANTS LoadFiles,    \* the files a load job may bring
          ResultSets,   \* the results a query with a destination may bring
          Requests,     \* requests served at once
          MaxTableJobs  \* bound: requests taken

VARIABLES tab,      \* the engine's tables
          req,      \* the requests being served
          accepted, \* how many requests were taken
          ledger    \* history: the rows t must have if all jobs only append
jobVars == <<tab, req, accepted, ledger>>

Col(n, mode) == [name |-> n, mode |-> mode]
JTables == {"t", "u"}
NoTab == [there |-> FALSE, cols |-> <<>>, rows |-> <<>>]
Tab(cols, rows) == [there |-> TRUE, cols |-> cols, rows |-> rows]
K == Col("k", "REQUIRED")
KLoose == Col("k", "NULLABLE")
X == Col("x", "NULLABLE")
A == Col("a", "REPEATED")

\* What a job brings, a parsed file or a query result; given says that its
\* schema came with it rather than from the destination.
Incoming(cols, rows) == [cols |-> cols, rows |-> rows, given |-> TRUE]
Narrow == Incoming(<<KLoose>>, <<[k |-> "two"]>>)
Wide == Incoming(<<K, X>>, <<[k |-> "two", x |-> "v"]>>)
Listed == Incoming(<<KLoose, A>>, <<[k |-> "two", a |-> "list"]>>)
Empty == Incoming(<<KLoose, X>>, <<>>)
Untold == [Narrow EXCEPT !.given = FALSE]
\* The tables a run may start from.
StartTabs == {Tab(<<K>>, <<<<"one">>>>), Tab(<<K, A>>, <<<<"one", "list">>>>)}
Dispositions == {"WRITE_APPEND", "WRITE_TRUNCATE", "WRITE_EMPTY"}
Options == {{}, {"ALLOW_FIELD_ADDITION"}, {"ALLOW_FIELD_ADDITION", "ALLOW_FIELD_RELAXATION"}}

(***************************************************************************)
(* Schemas and rows                                                        *)
(***************************************************************************)
fieldIndex(cols, n) == {i \in DOMAIN cols : cols[i].name = n}
applySchemaFieldAdditions(cols, load, opts) ==
  LET new == SelectSeq(load, LAMBDA f : fieldIndex(cols, f.name) = {})
      nullable(f) == IF f.mode = "REQUIRED" THEN Col(f.name, "NULLABLE") ELSE f
  IN IF "ALLOW_FIELD_ADDITION" \in opts
     THEN cols \o [i \in DOMAIN new |-> nullable(new[i])] ELSE cols
loadKeepsFieldRequired(load, n) == \E i \in fieldIndex(load, n) : load[i].mode = "REQUIRED"
applySchemaRelaxation(cols, load, opts) ==
  [i \in DOMAIN cols |->
     IF "ALLOW_FIELD_RELAXATION" \in opts /\ cols[i].mode = "REQUIRED"
        /\ ~loadKeepsFieldRequired(load, cols[i].name)
     THEN Col(cols[i].name, "NULLABLE") ELSE cols[i]]
validatePatchAgainstExisting(cols, patch) ==
  \A i \in DOMAIN patch : \A e \in fieldIndex(cols, patch[i].name) :
     patch[i].mode = "REQUIRED" => cols[e].mode = "REQUIRED"
mergeSchemas(cols, load, opts) ==
  applySchemaRelaxation(applySchemaFieldAdditions(cols, load, opts), load, opts)

\* Only a text survives a row's trip through a map: a list reads as "".
protoCellToAny(cell) == IF cell = "list" THEN "" ELSE cell
protoRowToMap(cols, row) ==
  [n \in {cols[i].name : i \in DOMAIN cols} |->
     LET i == CHOOSE i \in fieldIndex(cols, n) : TRUE
     IN IF i > Len(row) THEN "null" ELSE protoCellToAny(row[i])]
rowToProto(cols, row) ==
  [i \in DOMAIN cols |-> IF cols[i].name \in DOMAIN row THEN row[cols[i].name] ELSE "null"]
rowsToProto(cols, rows) == [i \in DOMAIN rows |-> rowToProto(cols, rows[i])]

\* The engine's AppendRows: the width is checked, a REPEATED column takes
\* a list or NULL, and a list given to a plain column is stored as "".
ValidateRowsShape(cols, rows) == \A i \in DOMAIN rows : Len(rows[i]) = Len(cols)
RenderCellLiteral(col, cell) == IF col.mode # "REPEATED" /\ cell = "list" THEN "" ELSE cell
Renders(cols, rows) ==
  \A i \in DOMAIN rows : \A j \in DOMAIN cols :
     cols[j].mode = "REPEATED" => rows[i][j] \in {"null", "list"}
AppendRows(t, rows) ==
  Tab(t.cols, t.rows \o [i \in DOMAIN rows |->
                           [j \in DOMAIN t.cols |-> RenderCellLiteral(t.cols[j], rows[i][j])]])
InsertFits(t, rows) ==
  rows = <<>> \/ (t.there /\ ValidateRowsShape(t.cols, rows) /\ Renders(t.cols, rows))

Rebuild == <<"list", "drop", "register", "reinsert">>
ApplySchemaUpdate(opts) == IF opts = {} THEN <<"describe">> ELSE <<"update">> \o Rebuild
resolveDestinationSchema(wd, opts) ==
  IF wd = "WRITE_APPEND" /\ opts # {} THEN <<"exists", "updateFound">> \o Rebuild ELSE <<>>
applyWriteDisposition(wd) ==
  CASE wd = "WRITE_TRUNCATE" -> <<"exists", "dropFound", "register">>
    [] wd = "WRITE_EMPTY" -> <<"exists", "failFound", "register">>
    [] OTHER -> <<"exists", "registerMissing">>
existingDestinationSchema(j) == IF j.in.given THEN <<>> ELSE <<"existing">>
LoadExecute(j) ==
  existingDestinationSchema(j) \o resolveDestinationSchema(j.wd, j.opts) \o applyWriteDisposition(j.wd) \o <<"insert">>
AppendResults(j) ==
  IF j.wd # "WRITE_APPEND" THEN applyWriteDisposition(j.wd) \o <<"insert">>
  ELSE IF j.in.rows = <<>> /\ j.opts = {} THEN <<>>
  ELSE applyWriteDisposition(j.wd) \o ApplySchemaUpdate(j.opts) \o <<"insert">>
checkCreateDisposition(j) == IF j.never THEN <<"mustExist">> ELSE <<>>
buildCopySQL(wd) ==
  CASE wd = "WRITE_TRUNCATE" -> <<"attach", "sqlDrop", "sqlCreate", "sqlAppend">>
    [] wd = "WRITE_EMPTY" -> <<"attach", "sqlCreate", "sqlAppend">>
    [] OTHER -> <<"attach", "sqlAppend">>
SqlSteps == {"neverSQL", "attach", "sqlDrop", "sqlCreate", "sqlAppend", "count"}
executeSQLCopy(j) ==
  (IF j.never THEN <<"neverSQL">> ELSE <<>>) \o buildCopySQL(j.wd) \o <<"count">>
executeCatalogCopy(j) == <<"readSource", "listSource">> \o applyWriteDisposition(j.wd) \o <<"insert">>
CopyExecute(j) == checkCreateDisposition(j) \o executeSQLCopy(j)
syncPatchedTableSchema == <<"patchDescribe", "update">> \o Rebuild

JobPlan(j) ==
  CASE j.op = "load" -> LoadExecute(j)
    [] j.op = "query" -> AppendResults(j)
    [] j.op = "copy" -> CopyExecute(j)
    [] j.op = "patch" -> syncPatchedTableSchema
    [] j.op = "insertAll" -> <<"describe", "insert">>
    [] j.op = "extract" -> <<"describe", "list">>
    [] j.op = "insertTable" -> <<"register">>
    [] OTHER -> <<"drop">>

TableJob(op, in, wd, opts, never) ==
  [op |-> op, tgt |-> "t", src |-> "u", in |-> in, wd |-> wd, opts |-> opts, never |-> never]
Plain(op, in) == TableJob(op, in, "WRITE_APPEND", {}, FALSE)
TablePatchSchemaOptions == {"ALLOW_FIELD_ADDITION", "ALLOW_FIELD_RELAXATION"}
Data(op) == IF op = "load" THEN LoadFiles ELSE ResultSets
Jobs ==
       UNION {{TableJob(op, f, wd, {}, FALSE) : f \in Data(op), wd \in Dispositions} : op \in {"load", "query"}}
  \cup UNION {{TableJob(op, f, "WRITE_APPEND", o, FALSE) : f \in Data(op), o \in Options} : op \in {"load", "query"}}
  \cup {TableJob("copy", Narrow, wd, {}, never) : wd \in Dispositions, never \in BOOLEAN}
  \cup {TableJob("patch", f, "WRITE_APPEND", TablePatchSchemaOptions, FALSE) : f \in ResultSets}
  \cup {Plain(op, Narrow) : op \in {"insertAll", "extract", "insertTable", "deleteTable"}}

(***************************************************************************)
(* Requests.  cols is the schema the code holds for the rows it will       *)
(* insert, seen the one it last described, found the last answer of        *)
(* tableExists, saved the rows it listed.                                  *)
(* alone says that no other request has changed a table since this one     *)
(* began, old is the tables then.                                          *)
(***************************************************************************)
Free(status) == [job |-> Plain("none", Narrow), plan |-> <<>>, cols |-> <<>>, seen |-> <<>>,
                 found |-> FALSE, saved |-> <<>>, rows |-> <<>>, status |-> status, alone |-> FALSE,
                 old |-> [t \in JTables |-> NoTab]]
OnlyAppends(j) ==
  \/ j.op \in {"insertAll", "extract"}
  \/ j.op \in {"load", "query", "copy"} /\ j.wd = "WRITE_APPEND" /\ j.opts = {}
NoLedger == 99
Landed(j) == CASE j.op = "copy" -> Len(tab[j.src].rows)
               [] j.op = "extract" -> 0
               [] OTHER -> Len(j.in.rows)
Running(r) == req[r].plan # <<>>
Accept(r) ==
  /\ ~Running(r) /\ accepted < MaxTableJobs
  /\ \E j \in Jobs :
       /\ JobPlan(j) # <<>>
       /\ ledger' = IF OnlyAppends(j) THEN ledger ELSE NoLedger
       /\ req' = [req EXCEPT ![r] =
            [job |-> j, plan |-> JobPlan(j), cols |-> j.in.cols, seen |-> <<>>, found |-> FALSE,
             saved |-> <<>>, rows |-> j.in.rows, status |-> "running",
             alone |-> \A q \in Requests : ~Running(q), old |-> tab]]
  /\ accepted' = accepted + 1
  /\ UNCHANGED tab

At(r, step) == Running(r) /\ Head(req[r].plan) = step
Tgt(r) == tab[req[r].job.tgt]
Src(r) == tab[req[r].job.src]
\* Nobody else's tables moved, or they did.
Overtaken(q, now) == IF now = tab THEN req[q] ELSE [req[q] EXCEPT !.alone = FALSE]
Reply(r, s, now) ==
  /\ tab' = now
  /\ req' = [q \in Requests |-> IF q = r THEN s ELSE Overtaken(q, now)]
  /\ ledger' = IF s.status = "ok" /\ ledger # NoLedger THEN ledger + Landed(req[r].job) ELSE ledger
  /\ UNCHANGED accepted
\* The RPC succeeded: on to the next one, skipping some.
ProceedPast(r, skipped, changes, now) ==
  LET rest == SubSeq(req[r].plan, 2 + skipped, Len(req[r].plan))
  IN Reply(r, IF rest = <<>> THEN Free("ok") ELSE changes @@ [plan |-> rest] @@ req[r], now)
Proceed(r, changes, now) == ProceedPast(r, 0, changes, now)
Keeping(r) == [status |-> "running"]
\* The RPC failed: so does the job, unless it was part of a copy by SQL.
FailOr(r, ok) ==
  /\ ~ok
  /\ Reply(r, IF Head(req[r].plan) \in SqlSteps
              THEN [req[r] EXCEPT !.plan = executeCatalogCopy(req[r].job)]
              ELSE Free("error"), tab)
SetTgt(r, t) == [tab EXCEPT ![req[r].job.tgt] = t]

(***************************************************************************)
(* One action per RPC                                                      *)
(***************************************************************************)
Exists(r) ==
  \/ At(r, "exists") /\ Proceed(r, [found |-> Tgt(r).there], tab)
  \/ /\ At(r, "mustExist") \/ At(r, "neverSQL")
     /\ FailOr(r, Tgt(r).there) \/ (Tgt(r).there /\ Proceed(r, Keeping(r), tab))
  \/ /\ At(r, "failFound")
     /\ FailOr(r, ~req[r].found) \/ (~req[r].found /\ Proceed(r, Keeping(r), tab))
DescribeTable(r) ==
  \/ /\ At(r, "describe")
     /\ FailOr(r, Tgt(r).there) \/ (Tgt(r).there /\ Proceed(r, [cols |-> Tgt(r).cols], tab))
  \/ /\ At(r, "existing")
     /\ Proceed(r, [cols |-> IF Tgt(r).there THEN Tgt(r).cols ELSE req[r].cols], tab)
\* The merged schema; when it is the old one the four steps of Rebuild fall away.
UpdateSchema(r) ==
  /\ At(r, "update") \/ (At(r, "updateFound") /\ req[r].found)
  /\ LET merged == mergeSchemas(Tgt(r).cols, req[r].cols, req[r].job.opts)
     IN \/ FailOr(r, Tgt(r).there)
        \/ /\ Tgt(r).there
           /\ ProceedPast(r, IF merged = Tgt(r).cols THEN 4 ELSE 0, [cols |-> merged, seen |-> Tgt(r).cols], tab)
NothingToUpdate(r) == At(r, "updateFound") /\ ~req[r].found /\ ProceedPast(r, 4, Keeping(r), tab)
PatchDescribe(r) ==
  /\ At(r, "patchDescribe")
  /\ LET cols == Tgt(r).cols
         merged == mergeSchemas(cols, req[r].cols, req[r].job.opts)
         ok == Tgt(r).there /\ validatePatchAgainstExisting(cols, req[r].cols)
     IN \/ FailOr(r, ok)
        \/ ok /\ ProceedPast(r, IF merged = cols THEN 5 ELSE 0, [cols |-> merged], tab)
\* listAllRows reads the rows against the schema described before.
ListRows(r) ==
  /\ At(r, "list")
  /\ FailOr(r, Tgt(r).there)
     \/ (Tgt(r).there /\ Proceed(r, [saved |-> [i \in DOMAIN Tgt(r).rows |->
                                       protoRowToMap(req[r].seen, Tgt(r).rows[i])]], tab))
DropTable(r) ==
  \/ /\ At(r, "drop") \/ (At(r, "dropFound") /\ req[r].found)
     /\ FailOr(r, Tgt(r).there) \/ (Tgt(r).there /\ Proceed(r, Keeping(r), SetTgt(r, NoTab)))
  \/ At(r, "dropFound") /\ ~req[r].found /\ Proceed(r, Keeping(r), tab)
  \/ At(r, "sqlDrop") /\ Proceed(r, Keeping(r), SetTgt(r, NoTab))
RegisterTable(r) ==
  LET made == SetTgt(r, Tab(req[r].cols, <<>>))
  IN \/ /\ At(r, "register") \/ At(r, "sqlCreate")
        /\ FailOr(r, ~Tgt(r).there) \/ (~Tgt(r).there /\ Proceed(r, Keeping(r), made))
     \/ /\ At(r, "registerMissing")
        /\ Proceed(r, Keeping(r), IF req[r].found \/ Tgt(r).there THEN tab ELSE made)
Inserting(r, rows) ==
  FailOr(r, InsertFits(Tgt(r), rows))
  \/ (InsertFits(Tgt(r), rows)
      /\ Proceed(r, Keeping(r), IF rows = <<>> THEN tab ELSE SetTgt(r, AppendRows(Tgt(r), rows))))
InsertRows(r) ==
  \/ At(r, "insert") /\ Inserting(r, rowsToProto(req[r].cols, req[r].rows))
  \/ At(r, "reinsert") /\ Inserting(r, rowsToProto(req[r].cols, req[r].saved))
  \/ At(r, "sqlAppend") /\ Inserting(r, req[r].saved)

\* The statement is analyzed and its source read.
Queried(cols) == [i \in DOMAIN cols |-> IF cols[i].mode = "REPEATED" THEN cols[i] ELSE Col(cols[i].name, "NULLABLE")]
SameShape(a, b) ==
  Len(a) = Len(b) /\ \A i \in DOMAIN a : (a[i].mode = "REPEATED") <=> (b[i].mode = "REPEATED")
ReadSource(r) ==
  \/ /\ At(r, "attach")
     /\ LET ok == Src(r).there /\ (req[r].job.wd = "WRITE_APPEND" =>
                    Tgt(r).there /\ SameShape(Src(r).cols, Tgt(r).cols))
        IN FailOr(r, ok) \/ (ok /\ Proceed(r, [cols |-> Queried(Src(r).cols), saved |-> Src(r).rows], tab))
  \/ /\ At(r, "readSource")
     /\ FailOr(r, Src(r).there) \/ (Src(r).there /\ Proceed(r, [cols |-> Src(r).cols], tab))
  \/ /\ At(r, "listSource")
     /\ FailOr(r, Src(r).there)
        \/ (Src(r).there /\ Proceed(r, [rows |-> [i \in DOMAIN Src(r).rows |->
                                          protoRowToMap(req[r].cols, Src(r).rows[i])]], tab))
  \/ /\ At(r, "count")
     /\ FailOr(r, Tgt(r).there) \/ (Tgt(r).there /\ Proceed(r, Keeping(r), tab))

JobInit ==
  /\ tab \in {[t |-> t, u |-> u] : t \in StartTabs \cup {NoTab}, u \in StartTabs}
  /\ req = [r \in Requests |-> Free("ok")]
  /\ accepted = 0
  /\ ledger = Len(tab["t"].rows)
JobStep(r) == \/ Accept(r) \/ Exists(r) \/ DescribeTable(r) \/ UpdateSchema(r) \/ NothingToUpdate(r)
              \/ PatchDescribe(r) \/ ListRows(r) \/ DropTable(r) \/ RegisterTable(r)
              \/ InsertRows(r) \/ ReadSource(r)
JobNext == \E r \in Requests : JobStep(r)

(***************************************************************************)
(* Properties                                                              *)
(***************************************************************************)
\* Every row of a table has one cell per column and a REPEATED column holds
\* lists or NULL (what AppendRows validates), whatever the jobs race.
RowsFitColumns ==
  \A t \in JTables : \A i \in DOMAIN tab[t].rows :
     /\ Len(tab[t].rows[i]) = Len(tab[t].cols)
     /\ \A c \in DOMAIN tab[t].cols :
          tab[t].rows[i][c] \in IF tab[t].cols[c].mode = "REPEATED" THEN {"null", "list"}
                                ELSE {"null", "", "one", "two", "v"}

Cell(t, i, n) ==
  IF fieldIndex(t.cols, n) = {} THEN "null" ELSE t.rows[i][CHOOSE c \in fieldIndex(t.cols, n) : TRUE]
Kept(old, new) ==
  /\ new.there /\ Len(new.rows) >= Len(old.rows)
  /\ \A i \in DOMAIN old.rows : \A c \in DOMAIN old.cols :
        Cell(new, i, old.cols[c].name) = old.rows[i][c]
NoLists(t) == \A i \in DOMAIN t.rows : \A c \in DOMAIN t.cols : t.rows[i][c] # "list"
Replaces(j) == j.op = "deleteTable" \/ j.wd = "WRITE_TRUNCATE"
EndsAlone(r) == Running(r) /\ req[r].alone /\ req'[r].plan = <<>>

\* A job that ran with nobody else changing tables leaves every row its
\* destination had, under the same names, unless it succeeded in replacing
\* the table: the list, drop, register, re-insert of a schema update and
\* the way back from a failed copy by SQL lose nothing.  Tables with
\* REPEATED values are left to SchemaUpdatePreservesRows.
RowsOutliveJobs ==
    \A r \in Requests :
       LET j == req[r].job
           old == req[r].old
       IN EndsAlone(r) /\ old[j.tgt].there /\ NoLists(old[j.tgt]) /\ NoLists(old[j.src])
          /\ (req'[r].status = "error" \/ ~Replaces(j))
          => Kept(old[j.tgt], tab'[j.tgt])

Names(cols) == {cols[i].name : i \in DOMAIN cols}
ByName(t) == [i \in DOMAIN t.rows |-> [n \in Names(t.cols) |-> Cell(t, i, n)]]
Brought(j, old) ==
  CASE j.op = "copy" -> ByName(old[j.src])
    [] j.op \in {"load", "query", "insertAll"} -> j.in.rows
    [] OTHER -> <<>>
Holds(t, rows) ==
  /\ t.there /\ Len(t.rows) = Len(rows)
  /\ \A i \in DOMAIN rows : \A n \in Names(t.cols) :
        Cell(t, i, n) = IF n \in DOMAIN rows[i] THEN rows[i][n] ELSE "null"
\* Loads and copies that append without a schema update lay their rows out
\* by their own columns, not the destination's.
SameColumns(j, old) ==
  LET cols == IF j.op = "copy" THEN old[j.src].cols ELSE j.in.cols
  IN j.op \in {"load", "copy"} /\ j.wd = "WRITE_APPEND" /\ j.opts = {} /\ old[j.tgt].there /\ j.in.given
     => [i \in DOMAIN cols |-> cols[i].name] = [i \in DOMAIN old[j.tgt].cols |-> old[j.tgt].cols[i].name]
\* A job that ran with nobody else changing tables and succeeded did what
\* its writeDisposition says: the destination holds the rows the job
\* brought, after the ones it had for WRITE_APPEND, and every value is
\* under the column it came with.  A load or copy that appends rows with
\* other columns than the destination's is left to LoadedUnderTheirNames.
DoneAsAsked ==
    \A r \in Requests :
       LET j == req[r].job
           old == req[r].old
           before == IF Replaces(j) THEN <<>> ELSE ByName(old[j.tgt])
       IN EndsAlone(r) /\ req'[r].status = "ok" /\ j.op # "deleteTable" /\ SameColumns(j, old)
          => Holds(tab'[j.tgt], before \o Brought(j, old))

\* Jobs that only append never undo each other: when they are all done the
\* destination has the rows it had and those of every job that succeeded,
\* also when several of them found it missing and created it.
AppendsAddUp ==
  (ledger # NoLedger /\ \A r \in Requests : ~Running(r)) => Len(tab["t"].rows) = ledger

\* The comments of ApplySchemaUpdate and resolveDestinationSchema: "existing
\* rows are preserved via drop-and-recreate".
SchemaUpdatePreservesRows ==
  [][\A r \in Requests :
       LET j == req[r].job
           old == req[r].old[j.tgt]
       IN EndsAlone(r) /\ j.opts # {} /\ old.there => Kept(old, tab'[j.tgt])]_jobVars

\* The comment of the applier's InsertRows: it "lays each map-shaped row out
\* positionally against the table's schema", so that a value lands under
\* its own column or nowhere.
LoadedUnderTheirNames ==
  [][\A r \in Requests :
       LET j == req[r].job
           old == req[r].old[j.tgt]
       IN EndsAlone(r) /\ req'[r].status = "ok" /\ j.op = "load" /\ j.wd = "WRITE_APPEND"
          => Holds(tab'[j.tgt], ByName(old) \o j.in.rows)]_jobVars

=============================================================================
