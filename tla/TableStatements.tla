-------------------------- MODULE TableStatements --------------------------
(***************************************************************************)
(* DDL and DML statements as the engine runs them: the handlers of         *)
(* backend/engine/control, the local DML executor and the DuckDB           *)
(* executor's INSERT ... SELECT.  Every call of Storage takes the          *)
(* storage's lock by itself, and a statement is several such calls, so     *)
(* what one statement does is a sequence of steps between which the        *)
(* statements of other sessions may run and the engine may die.            *)
(*                                                                         *)
(* A statement carries its plan, the storage calls it still has to make,   *)
(* and the rows it has in memory.  One action per storage call performs    *)
(* the head of the plan; a call that fails ends the statement with the     *)
(* rest of its plan undone, as the early returns of the handlers do.       *)
(*                                                                         *)
(* A row is a sequence of cells, one per column; 0 is SQL NULL.            *)
(***************************************************************************)
EXTENDS Integers, Sequences, FiniteSets, SequencesExt

CONSTANTS StTables,       \* table names of the one dataset
          StSessions,     \* sessions running statements
          MaxStatements   \* bound on the statements started

VARIABLES dataset,        \* whether the dataset directory exists
          stored,         \* table |-> its columns and rows, or NoTable
          sess,           \* session |-> the statement it is running
          object,         \* the object of one gs:// URI, as the bucket holds it
          cacheFile,      \* the file of that URI under external/gcs-cache
          started

stVars == <<dataset, stored, sess, object, cacheFile, started>>

NoTable == [cols |-> <<>>, rows |-> <<>>, there |-> FALSE]
Table(cols, rows) == [cols |-> cols, rows |-> rows, there |-> TRUE]
NoFile == [rows |-> <<>>, there |-> FALSE]
File(rows) == [rows |-> rows, there |-> TRUE]

(***************************************************************************)
(* Statements.                                                             *)
(***************************************************************************)
Modes == {"DEFAULT", "IF_NOT_EXISTS", "OR_REPLACE"}
Stmt(op, t, s, m, acts) == [op |-> op, tgt |-> t, src |-> s, mode |-> m, acts |-> acts]

Add(c) == [kind |-> "ADD", col |-> c, to |-> c]
Drop(c) == [kind |-> "DROP", col |-> c, to |-> c]
Rename(c, d) == [kind |-> "RENAME", col |-> c, to |-> d]
AlterLists == {<<Add("c")>>, <<Drop("b")>>, <<Rename("b", "d")>>, <<Drop("b"), Add("c")>>}

Statements ==
  {Stmt(op, t, t, m, <<>>) : op \in {"CREATE"}, t \in StTables, m \in Modes}
  \cup {Stmt(op, t, s, m, <<>>) : op \in {"CTAS", "CLONE"}, t \in StTables, s \in StTables, m \in Modes}
  \cup {Stmt(op, t, s, "DEFAULT", <<>>) : op \in {"CLONE_DATA", "INSERT_SELECT", "MERGE"}, t \in StTables, s \in StTables}
  \cup {Stmt(op, t, t, "DEFAULT", <<>>) :
          op \in {"DROP", "TRUNCATE", "INSERT", "UPDATE", "DELETE", "EXPORT", "DROP_SCHEMA"}, t \in StTables}
  \cup {Stmt("LOAD", t, t, m, <<>>) : t \in StTables, m \in {"DEFAULT", "OR_REPLACE"}}
  \cup {Stmt("ALTER", t, t, "DEFAULT", acts) : t \in StTables, acts \in AlterLists}

Declared == <<"a", "b">>     \* the column list of a CREATE TABLE and of a file
Loaded(r) == <<r, r>>

(***************************************************************************)
(* ALTER TABLE: the actions applied in order to the schema just read.      *)
(***************************************************************************)
ApplyAlterAction(cols, act) ==
  CASE act.kind = "ADD"    -> Append(cols, act.col)
    [] act.kind = "DROP"   -> SelectSeq(cols, LAMBDA c : c # act.col)
    [] act.kind = "RENAME" -> [i \in DOMAIN cols |-> IF cols[i] = act.col THEN act.to ELSE cols[i]]

\* ADD needs a new name; DROP and RENAME one that is there.
ActionApplies(cols, act) == (act.kind = "ADD") # (act.col \in ToSet(cols))
NewColumns(cols, acts) == FoldLeft(LAMBDA acc, a : ApplyAlterAction(acc, a), cols, acts)
ActionsApply(cols, acts) ==
  \A i \in DOMAIN acts : ActionApplies(NewColumns(cols, SubSeq(acts, 1, i - 1)), acts[i])
Added(acts) == SelectSeq(acts, LAMBDA a : a.kind = "ADD")

\* Rows of a table rebuilt without new columns: cells are found by name.
CopyRowsWithSchema(rows, old, new) ==
  LET cell(r, c) == IF c \in ToSet(old) THEN r[CHOOSE i \in DOMAIN old : old[i] = c] ELSE 0
  IN  [k \in DOMAIN rows |-> [j \in DOMAIN new |-> cell(rows[k], new[j])]]

\* Rows of a table rebuilt with new columns: a NULL per added column.
CopyRowsForAlter(rows, acts) ==
  [k \in DOMAIN rows |-> rows[k] \o [j \in 1..Len(Added(acts)) |-> 0]]

RowsForAlter(x, rows) ==
  IF Added(x.stmt.acts) = <<>> THEN CopyRowsWithSchema(rows, x.cols, NewColumns(x.cols, x.stmt.acts))
  ELSE CopyRowsForAlter(rows, x.stmt.acts)

(***************************************************************************)
(* What the DML statements compute: UPDATE SET a = 2 WHERE a = 1, DELETE   *)
(* WHERE a = 1, and a MERGE that inserts the source rows with a new key.   *)
(***************************************************************************)
Mutated(op, rows) ==
  CASE op = "UPDATE" -> [k \in DOMAIN rows |-> IF rows[k][1] = 1 THEN [rows[k] EXCEPT ![1] = 2] ELSE rows[k]]
    [] op = "DELETE" -> SelectSeq(rows, LAMBDA r : r[1] # 1)
    [] OTHER -> rows
Merged(rows, source) ==
  rows \o SelectSeq(source, LAMBDA r : \A k \in DOMAIN rows : rows[k][1] # r[1])

\* INSERT and MERGE name the first column; the others are NULL.
Padded(rows, width) == [k \in DOMAIN rows |-> [i \in 1..width |-> IF i = 1 THEN rows[k][1] ELSE 0]]

(***************************************************************************)
(* The plans: the storage calls of each handler, in its order.             *)
(***************************************************************************)
OnReplace(x, steps) == IF x.mode = "OR_REPLACE" THEN steps ELSE <<>>

RunCreateTable(x) == <<"EnsureDataset">> \o OnReplace(x, <<"DropIfThere">>) \o <<"CreateTable">>
RunCreateTableAsSelect(x) ==
  <<"EnsureDataset", "Attach">> \o OnReplace(x, <<"DropIfThere">>) \o <<"Query", "CreateTable", "Append">>
MaterializeCloneIntoTarget(x) ==
  <<"EnsureDataset", "GetSchema">> \o OnReplace(x, <<"DropIfThere">>)
    \o <<"CreateTable", "Attach", "OverwriteUnlessEmpty">>

RunCloneData == <<"GetSchema", "Attach", "Overwrite">>
RunTruncateTable == <<"GetSchema", "Overwrite">>
RunAlterTable == <<"GetSchema", "Scan", "DropTable", "CreateTable", "Append">>


RunLoadData(x) ==
  <<"EnsureDataset", "GetSchema", "ReadFile">>
    \o (IF x.mode = "OR_REPLACE" THEN <<"DropIfThere", "CreateTable">> ELSE <<"CreateIfMissing">>)
    \o <<"Append">>
RunExportData == <<"ReadFile", "Attach", "Upload">>
RunDropSchema(x) == <<"ListTables", "DropDataset">>
DmlPlan(op) ==
  CASE op = "INSERT" -> <<"Append">>
    [] op = "INSERT_SELECT" -> <<"Attach", "Append">>
    [] op = "MERGE" -> <<"Scan", "Attach", "Overwrite">>
    [] OTHER -> <<"Scan", "Overwrite">>

Plan(x) ==
  CASE x.op = "CREATE" -> RunCreateTable(x)
    [] x.op = "CTAS" -> RunCreateTableAsSelect(x)
    [] x.op = "CLONE" -> MaterializeCloneIntoTarget(x)
    [] x.op = "CLONE_DATA" -> RunCloneData
    [] x.op = "DROP" -> <<"DropTable">>
    [] x.op = "TRUNCATE" -> RunTruncateTable
    [] x.op = "ALTER" -> RunAlterTable
    [] x.op = "LOAD" -> RunLoadData(x)
    [] x.op = "EXPORT" -> RunExportData
    [] x.op = "DROP_SCHEMA" -> RunDropSchema(x)
    [] OTHER -> DmlPlan(x.op)

(***************************************************************************)
(* Sessions.  cols is the schema the statement works with: the analyzed    *)
(* one, then the one GetSchema returned; old is the tables as the analysis *)
(* found them; alone says that no other session has changed one since.     *)
(***************************************************************************)
NoStmt == Stmt("NONE", CHOOSE t \in StTables : TRUE, CHOOSE t \in StTables : TRUE, "DEFAULT", <<>>)
Idle(status) == [stmt |-> NoStmt, plan |-> <<>>, cols |-> <<>>, buf |-> <<>>, status |-> status,
             alone |-> FALSE, old |-> [t \in StTables |-> NoTable]]

\* The analyzer resolves the tables the statement names before it runs.
Analyzable(x) ==
  /\ x.op \in {"CTAS", "CLONE", "CLONE_DATA", "INSERT_SELECT", "MERGE", "EXPORT"} => stored[x.src].there
  /\ x.op \in {"CLONE_DATA", "TRUNCATE", "INSERT", "INSERT_SELECT", "UPDATE", "DELETE", "MERGE"} => stored[x.tgt].there

\* The schema a statement works with before it has read one: the declared
\* columns, or those of the table its analysis resolved.
AnalyzedCols(x) ==
  IF x.op \in {"CREATE", "LOAD", "DROP", "DROP_SCHEMA", "ALTER"} THEN Declared
  ELSE IF x.op = "INSERT" THEN stored[x.tgt].cols ELSE stored[x.src].cols

Begin(s) ==
  /\ sess[s].plan = <<>> /\ started < MaxStatements
  /\ \E x \in Statements :
       /\ Analyzable(x)
       /\ sess' = [sess EXCEPT ![s] =
            [stmt |-> x, plan |-> Plan(x), cols |-> AnalyzedCols(x), status |-> "running", alone |-> TRUE, old |-> stored,
             buf |-> IF x.op = "INSERT" THEN <<[i \in DOMAIN AnalyzedCols(x) |-> 1]>> ELSE <<>>]]
  /\ started' = started + 1
  /\ UNCHANGED <<dataset, stored, object, cacheFile>>

At(s, step) == sess[s].plan # <<>> /\ Head(sess[s].plan) = step

\* The session goes on to the next call with these columns and rows, or is
\* done; the other sessions see the tables change.
Others(s, changed) ==
  [r \in StSessions |-> IF r # s /\ changed THEN [sess[r] EXCEPT !.alone = FALSE] ELSE sess[r]]
Proceed(s, cols, buf, changed) ==
  LET rest == Tail(sess[s].plan)
  IN  sess' = [Others(s, changed) EXCEPT ![s] =
                 IF rest = <<>> THEN Idle("ok") ELSE [sess[s] EXCEPT !.plan = rest, !.cols = cols, !.buf = buf]]
Fail(s) == sess' = [sess EXCEPT ![s] = Idle("error")] /\ UNCHANGED stored
Keep(s, changed) == Proceed(s, sess[s].cols, sess[s].buf, changed)
SetTable(t, v) == stored' = [stored EXCEPT ![t] = v]
Tgt(s) == sess[s].stmt.tgt
Src(s) == sess[s].stmt.src

(***************************************************************************)
(* Storage calls.                                                          *)
(***************************************************************************)
EnsureDatasetExists(s) ==
  /\ At(s, "EnsureDataset")
  /\ dataset' = TRUE
  /\ Keep(s, FALSE)
  /\ UNCHANGED <<stored, object, cacheFile, started>>

\* GetSchema of the table the statement takes its columns from.  ALTER
\* applies its actions here; LOAD has a column list of its own.
SchemaSource(x) == IF x.op \in {"CLONE", "CLONE_DATA"} THEN x.src ELSE x.tgt
GetSchema(s) ==
  LET x == sess[s].stmt
      t == stored[SchemaSource(x)]
  IN  /\ At(s, "GetSchema")
      /\ IF x.op = "LOAD" THEN Keep(s, FALSE) /\ UNCHANGED stored
         ELSE IF ~t.there \/ (x.op = "ALTER" /\ ~ActionsApply(t.cols, x.acts)) THEN Fail(s)
         ELSE Proceed(s, t.cols, sess[s].buf, FALSE) /\ UNCHANGED stored
      /\ UNCHANGED <<dataset, object, cacheFile, started>>

\* ScanRows of the target.  A row narrower than the schema the statement
\* works with is an error; UPDATE and DELETE end here if no row matches.
Untouched(op, rows) == op \in {"UPDATE", "DELETE"} /\ \A k \in DOMAIN rows : rows[k][1] # 1
ScanRows(s) ==
  LET x == sess[s]
      t == stored[Tgt(s)]
      known == IF x.stmt.op = "ALTER" THEN x.cols ELSE x.old[Tgt(s)].cols
  IN  /\ At(s, "Scan")
      /\ IF ~t.there \/ \E k \in DOMAIN t.rows : Len(t.rows[k]) < Len(known) THEN Fail(s)
         ELSE /\ IF Untouched(x.stmt.op, t.rows) THEN sess' = [sess EXCEPT ![s] = Idle("ok")]
                 ELSE IF x.stmt.op = "ALTER" THEN Proceed(s, NewColumns(x.cols, x.stmt.acts), RowsForAlter(x, t.rows), FALSE)
                 ELSE Proceed(s, x.cols, Mutated(x.stmt.op, t.rows), FALSE)
              /\ UNCHANGED stored
      /\ UNCHANGED <<dataset, object, cacheFile, started>>

\* AttachStorageTableAt copies the source rows into a private connection;
\* the file must have the columns of the analyzed schema.
AttachStorageTableAt(s) ==
  LET x == sess[s]
      t == stored[Src(s)]
      rows == CASE x.stmt.op = "MERGE" -> Merged(x.buf, Padded(t.rows, Len(x.old[Tgt(s)].cols)))
                [] x.stmt.op = "INSERT_SELECT" -> Padded(t.rows, Len(x.old[Tgt(s)].cols))
                [] OTHER -> t.rows
  IN  /\ At(s, "Attach")
      /\ IF ~t.there \/ Len(t.cols) # Len(x.old[Src(s)].cols) THEN Fail(s)
         ELSE Proceed(s, x.cols, rows, FALSE) /\ UNCHANGED stored
      /\ UNCHANGED <<dataset, object, cacheFile, started>>

\* DuckDB runs the query of a CTAS, or rejects it.
RunQuery(s) ==
  /\ At(s, "Query")
  /\ (Keep(s, FALSE) /\ UNCHANGED stored) \/ Fail(s)
  /\ UNCHANGED <<dataset, object, cacheFile, started>>

DropTableCall(s) ==
  /\ At(s, "DropTable") \/ At(s, "DropIfThere")
  /\ IF At(s, "DropTable") /\ ~stored[Tgt(s)].there THEN Fail(s)
     ELSE Keep(s, stored[Tgt(s)].there) /\ SetTable(Tgt(s), NoTable)
  /\ UNCHANGED <<dataset, object, cacheFile, started>>

\* CreateTable under the statement's mode: ApplyCreateMode turns "already
\* exists" into success for IF NOT EXISTS, and the plan goes on.
CreateTableCall(s) ==
  /\ At(s, "CreateTable")
  /\ IF ~dataset \/ (stored[Tgt(s)].there /\ sess[s].stmt.mode # "IF_NOT_EXISTS") THEN Fail(s)
     ELSE IF stored[Tgt(s)].there THEN Keep(s, FALSE) /\ UNCHANGED stored
     ELSE Keep(s, TRUE) /\ SetTable(Tgt(s), Table(sess[s].cols, <<>>))
  /\ UNCHANGED <<dataset, object, cacheFile, started>>

\* LOAD DATA INTO: GetSchema, and CreateTable as a second call if there was
\* no table.
CreateIfMissing(s) ==
  /\ At(s, "CreateIfMissing")
  /\ IF stored[Tgt(s)].there THEN Keep(s, FALSE)
     ELSE sess' = [sess EXCEPT ![s].plan = <<"CreateTable">> \o Tail(@)]
  /\ UNCHANGED <<dataset, stored, object, cacheFile, started>>

Fits(t, rows) == t.there /\ \A k \in DOMAIN rows : Len(rows[k]) = Len(t.cols)

\* AppendRows: callers with no rows do not call it.
AppendRows(s) ==
  LET t == stored[Tgt(s)]
  IN  /\ At(s, "Append")
      /\ IF sess[s].buf = <<>> THEN Keep(s, FALSE) /\ UNCHANGED stored
         ELSE IF ~Fits(t, sess[s].buf) THEN Fail(s)
         ELSE Keep(s, TRUE) /\ SetTable(Tgt(s), Table(t.cols, t.rows \o sess[s].buf))
      /\ UNCHANGED <<dataset, object, cacheFile, started>>

\* OverwriteRows; CLONE does not call it for an empty source.
OverwriteRows(s) ==
  LET t == stored[Tgt(s)]
  IN  /\ At(s, "Overwrite") \/ At(s, "OverwriteUnlessEmpty")
      /\ IF At(s, "OverwriteUnlessEmpty") /\ sess[s].buf = <<>> THEN Keep(s, FALSE) /\ UNCHANGED stored
         ELSE IF ~Fits(t, sess[s].buf) THEN Fail(s)
         ELSE Keep(s, TRUE) /\ SetTable(Tgt(s), Table(t.cols, sess[s].buf))
      /\ UNCHANGED <<dataset, object, cacheFile, started>>

(***************************************************************************)
(* Files.  A gs:// URI is read through a file of the data directory that,  *)
(* once fetched, is never fetched again; EXPORT DATA resolves its          *)
(* destination through the same path before it writes, and uploads the     *)
(* rows without touching the cached file.                                  *)
(***************************************************************************)
LocalPathFromUri(s) ==
  LET file == IF cacheFile.there THEN cacheFile ELSE object
      load == sess[s].stmt.op = "LOAD"
  IN  /\ At(s, "ReadFile")
      /\ cacheFile' = file
      /\ IF ~file.there \/ (load /\ \E k \in DOMAIN file.rows : Len(file.rows[k]) # Len(sess[s].cols)) THEN Fail(s)
         ELSE Proceed(s, sess[s].cols, IF load THEN file.rows ELSE <<>>, FALSE) /\ UNCHANGED stored
      /\ UNCHANGED <<dataset, object, started>>

UploadGCSObjectFromFile(s) ==
  /\ At(s, "Upload")
  /\ \/ object' = File(sess[s].buf) /\ Keep(s, FALSE) /\ UNCHANGED stored
     \/ UNCHANGED object /\ Fail(s)
  /\ UNCHANGED <<dataset, cacheFile, started>>

\* A client replaces the object in the bucket.
PutObject ==
  /\ started < MaxStatements
  /\ object' = File(<<Loaded(IF object.there THEN 2 ELSE 1)>>)
  /\ started' = started + 1
  /\ UNCHANGED <<dataset, stored, sess, cacheFile>>

(***************************************************************************)
(* DROP SCHEMA without CASCADE: the check and the drop are two calls, and  *)
(* the drop takes whatever the dataset holds by then.                      *)
(***************************************************************************)
ListTables(s) ==
  /\ At(s, "ListTables")
  /\ IF ~dataset \/ \E t \in StTables : stored[t].there THEN Fail(s) ELSE Keep(s, FALSE) /\ UNCHANGED stored
  /\ UNCHANGED <<dataset, object, cacheFile, started>>

DropDatasetCall(s) ==
  /\ At(s, "DropDataset")
  /\ IF ~dataset THEN Fail(s) ELSE Keep(s, TRUE) /\ stored' = [t \in StTables |-> NoTable]
  /\ dataset' = FALSE
  /\ UNCHANGED <<object, cacheFile, started>>

\* The engine dies: the statements under way are gone, the files stay.
StCrash ==
  /\ \E s \in StSessions : sess[s].plan # <<>>
  /\ sess' = [s \in StSessions |-> Idle("lost")]
  /\ UNCHANGED <<dataset, stored, object, cacheFile, started>>

StInit ==
  /\ dataset = TRUE
  /\ stored \in {[t \in StTables |-> IF t \in there THEN Table(Declared, <<Loaded(1)>>) ELSE NoTable] : there \in SUBSET StTables}
  /\ sess = [s \in StSessions |-> Idle("ok")]
  /\ object = NoFile /\ cacheFile = NoFile
  /\ started = 0

StStep(s) ==
  \/ EnsureDatasetExists(s) \/ GetSchema(s) \/ ScanRows(s) \/ AttachStorageTableAt(s) \/ RunQuery(s)
  \/ DropTableCall(s) \/ CreateTableCall(s) \/ CreateIfMissing(s) \/ AppendRows(s) \/ OverwriteRows(s)
  \/ LocalPathFromUri(s) \/ UploadGCSObjectFromFile(s) \/ ListTables(s) \/ DropDatasetCall(s)

StNext == (\E s \in StSessions : Begin(s) \/ StStep(s)) \/ PutObject \/ StCrash

(***************************************************************************)
(* Properties.                                                             *)
(***************************************************************************)

Finishes(s, status) == sess[s].plan # <<>> /\ sess'[s].plan = <<>> /\ sess'[s].status = status
Creates(x) == x.op \in {"CREATE", "CTAS", "CLONE"}
Renames(x) == \E i \in DOMAIN x.acts : x.acts[i].kind = "RENAME"

\* The statements whose result is not what they say even when they run
\* alone: IF NOT EXISTS on a table that exists, a table replaced by a clone
\* of itself, and the renaming of a column.
Lossy(x, old) ==
  \/ x.op \in {"CTAS", "CLONE"} /\ x.mode = "IF_NOT_EXISTS" /\ old[x.tgt].there
  \/ x.op = "CLONE" /\ x.mode = "OR_REPLACE" /\ x.src = x.tgt
  \/ Renames(x)

\* What a statement means for its target, in one step.
Meaning(x, old, file) ==
  LET t == old[x.tgt]
      u == old[x.src]
  IN  CASE x.op = "CREATE" -> IF t.there /\ x.mode = "IF_NOT_EXISTS" THEN t ELSE Table(Declared, <<>>)
        [] x.op \in {"CTAS", "CLONE"} -> u
        [] x.op = "CLONE_DATA" -> Table(t.cols, u.rows)
        [] x.op = "DROP" \/ x.op = "DROP_SCHEMA" -> NoTable
        [] x.op = "TRUNCATE" -> Table(t.cols, <<>>)
        [] x.op = "LOAD" -> IF t.there /\ x.mode # "OR_REPLACE" THEN Table(t.cols, t.rows \o file) ELSE Table(Declared, file)
        [] x.op = "INSERT" -> Table(t.cols, Append(t.rows, [i \in DOMAIN t.cols |-> 1]))
        [] x.op = "INSERT_SELECT" -> Table(t.cols, t.rows \o Padded(u.rows, Len(t.cols)))
        [] x.op = "MERGE" -> Table(t.cols, Merged(t.rows, Padded(u.rows, Len(t.cols))))
        [] x.op = "ALTER" -> LET new == NewColumns(t.cols, x.acts)
                             IN  Table(new, CopyRowsWithSchema(t.rows, t.cols, new))
        [] OTHER -> Table(t.cols, Mutated(x.op, t.rows))

\* A statement acknowledged without another session having changed a table
\* meanwhile did in its several storage calls what it means in one step.
AloneMeansAtomic ==
  \A s \in StSessions :
    Finishes(s, "ok") /\ sess[s].alone /\ ~Lossy(sess[s].stmt, sess[s].old) /\ sess[s].stmt.op # "EXPORT" =>
      stored'[Tgt(s)] = Meaning(sess[s].stmt, sess[s].old, sess[s].buf)

\* The statements that drop the old table before they can know that they
\* will succeed: OR REPLACE with a query DuckDB may reject, and an ALTER
\* that adds and drops columns at once, whose rows no longer fit.
DropsTooEarly(x) ==
  \/ x.op = "CTAS" /\ x.mode = "OR_REPLACE"
  \/ x.op = "ALTER" /\ Len(x.acts) > 1

\* A statement that reports an error, having run alone, left every table as it found it.
FailureChangesNothing ==
  \A s \in StSessions :
    Finishes(s, "error") /\ sess[s].alone /\ ~DropsTooEarly(sess[s].stmt) =>
      stored' = sess[s].old


\* "IF NOT EXISTS: If any table exists with the same name, the CREATE
\* statement has no effect."
IfNotExistsHasNoEffect ==
  [][\A s \in StSessions :
       Finishes(s, "ok") /\ sess[s].alone /\ Creates(sess[s].stmt) /\ sess[s].stmt.mode = "IF_NOT_EXISTS"
         /\ sess[s].old[Tgt(s)].there => stored'[Tgt(s)] = sess[s].old[Tgt(s)]]_stVars
=============================================================================
