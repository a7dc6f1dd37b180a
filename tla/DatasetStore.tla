---------------------------- MODULE DatasetStore ----------------------------
(***************************************************************************)
(* One dataset of the DuckDB-backed store on disk: its directory, the      *)
(* sidecar that marks it as a dataset, the DuckDB schema that mirrors it,  *)
(* its tables and views, and the tombstones that DropTable and DropDataset *)
(* move things to and RestoreDataset brings them back from                 *)
(* (duckdb_storage_catalog.cc, duckdb_storage_views.cc,                    *)
(* duckdb_storage_version_log_tombstone.cc,                                *)
(* duckdb_storage_tombstone_registry.cc).                                  *)
(*                                                                         *)
(* Operations hold the store's mutex, so one is in progress at a time.     *)
(* Each is a series of file-system calls and SQL statements; the engine    *)
(* may stop between any two of them, and one may fail.  A file that is     *)
(* written aside and renamed is written in one step.                       *)
(*                                                                         *)
(* The content of a file is the number of the incarnation it belongs to:   *)
(* every CreateDataset, CreateTable, UpsertView and UpsertRoutine takes a  *)
(* fresh number.  Names are numbers because the code visits the tables of  *)
(* a dataset in the order of their ids.  Tables have columns, and so a     *)
(* parquet file.  Row-access policies and column governance are left out.  *)
(***************************************************************************)
EXTENDS Integers, Sequences, FiniteSetsExt

CONSTANTS
  Tables,     \* ids used for tables
  Views,      \* ids used for logical views
  Window,     \* kTimeTravelWindowMs
  MaxTime,    \* bound: the clock
  MaxMade,    \* bound: incarnations
  MaxFaults   \* bound: failed calls and engine stops

ASSUME NamesAssumption ==
  /\ Tables \subseteq Nat
  /\ Views \subseteq Nat
  /\ Tables \cap Views = {}

ASSUME DatasetBounds ==
  /\ Window \in Nat
  /\ MaxTime \in Nat
  /\ MaxMade \in Nat
  /\ MaxFaults \in Nat

VARIABLES
  now,       \* absl::Now() in milliseconds
  dir,       \* the dataset directory exists
  sidecar,   \* incarnation in _dataset.meta.json, 0 when there is no file
  schema,    \* the DuckDB schema exists
  live,      \* files of each name in the dataset directory
  registry,  \* rows of the dataset in catalog.duckdb
  tomb,      \* files of each name in .tombstones/<dataset>/<name>/<ms>
  tombDirs,  \* the directories that exist there
  dtomb,     \* .tombstones/__dataset__/<dataset>/<ms>
  op,        \* the operation in progress, with its locals
  made,      \* incarnations so far
  dropped,   \* history: the dataset as the last DropDataset found it
  clash,     \* history: two drops of one name met in one tombstone directory
  faults     \* failures and stops so far

disk == <<dir, sidecar, schema, live, registry, tomb, tombDirs, dtomb>>

vars == <<now, disk, op, made, dropped, clash, faults>>

-----------------------------------------------------------------------------

Names == Tables \cup Views

Stamps == 0..MaxTime

Incs == 0..MaxMade

Artifacts == {"meta", "parquet", "index", "versions"}

\* MoveTableToTombstone and RestoreTableFromTombstone move them in this order.
MoveOrder == <<"meta", "parquet", "index", "versions">>

Empty == [a \in Artifacts |-> 0]

Registry == [views : [Views -> Incs], routine : Incs]

NoRows == [views |-> [v \in Views |-> 0], routine |-> 0]

DatasetTombstone ==
  [dir : BOOLEAN, sidecar : Incs, listed : BOOLEAN, manifest : SUBSET Names,
   rows : Registry]

NoTombstone ==
  [dir |-> FALSE, sidecar |-> 0, listed |-> FALSE, manifest |-> {},
   rows |-> NoRows]

Operation ==
  [pc : {"idle", "sidecar", "schema", "parquet", "index", "viewrow",
         "viewdel", "snapshot", "snaproutine", "tombmeta", "manifest",
         "move", "purge", "purgeroutine", "rmdir", "dropschema", "relive",
         "return", "rerow", "rmtomb", "reschema"},
   ts : Stamps, n : Names, todo : SUBSET Names, art : 1..4, ds : BOOLEAN]

Idle ==
  [pc |-> "idle", ts |-> 0, n |-> Min(Names), todo |-> {}, art |-> 1,
   ds |-> FALSE]

At(pc) == [op EXCEPT !.pc = pc]

Dropped == [sidecar : Incs, live : [Names -> [Artifacts -> Incs]],
            rows : Registry]

(* Every file holds one incarnation or does not exist, and the locals of   *)
(* the operation in progress range over the names and stamps of the store. *)
TypeOK ==
  /\ now \in Stamps
  /\ dir \in BOOLEAN
  /\ sidecar \in Incs
  /\ schema \in BOOLEAN
  /\ live \in [Names -> [Artifacts -> Incs]]
  /\ registry \in Registry
  /\ tomb \in [Names \X Stamps -> [Artifacts -> Incs]]
  /\ tombDirs \subseteq Names \X Stamps
  /\ dtomb \in [Stamps -> DatasetTombstone]
  /\ op \in Operation
  /\ made \in Incs
  /\ dropped \in Dropped
  /\ clash \in BOOLEAN
  /\ faults \in 0..MaxFaults

Init ==
  /\ now = 0
  /\ dir = FALSE
  /\ sidecar = 0
  /\ schema = FALSE
  /\ live = [n \in Names |-> Empty]
  /\ registry = NoRows
  /\ tomb = [d \in Names \X Stamps |-> Empty]
  /\ tombDirs = {}
  /\ dtomb = [s \in Stamps |-> NoTombstone]
  /\ op = Idle
  /\ made = 0
  /\ dropped = [sidecar |-> 0, live |-> [n \in Names |-> Empty],
                rows |-> NoRows]
  /\ clash = FALSE
  /\ faults = 0

\* An operation reads the clock as it begins and not again, so a tick in the
\* middle of one is no different from a tick right after it.
Tick ==
  /\ op.pc = "idle"
  /\ now < MaxTime
  /\ now' = now + 1
  /\ UNCHANGED <<disk, op, made, dropped, clash, faults>>

HasMeta(n) == live[n]["meta"] # 0

Fresh == made < MaxMade /\ made' = made + 1

-----------------------------------------------------------------------------
(* CreateDataset: the directory, the sidecar, the DuckDB schema.           *)

CreateDataset ==
  /\ op.pc = "idle"
  /\ ~dir
  /\ Fresh
  /\ dir' = TRUE
  /\ op' = At("sidecar")
  /\ UNCHANGED <<now, sidecar, schema, live, registry, tomb, tombDirs, dtomb,
                 dropped, clash, faults>>

WriteDatasetMeta ==
  /\ op.pc = "sidecar"
  /\ sidecar' = made
  /\ op' = At("schema")
  /\ UNCHANGED <<now, dir, schema, live, registry, tomb, tombDirs, dtomb, made,
                 dropped, clash, faults>>

CreateSchema ==
  /\ op.pc \in {"schema", "reschema"}
  /\ schema' = TRUE
  /\ op' = Idle
  /\ UNCHANGED <<now, dir, sidecar, live, registry, tomb, tombDirs, dtomb,
                 made, dropped, clash, faults>>

-----------------------------------------------------------------------------
(* CreateTable looks for the directory only, writes the table's sidecar,   *)
(* an empty parquet file and the version index.  AppendRows archives the   *)
(* parquet file it replaces in the versions directory.                     *)

CreateTable(t) ==
  /\ op.pc = "idle"
  /\ dir
  /\ ~HasMeta(t)
  /\ Fresh
  /\ live' = [live EXCEPT ![t]["meta"] = made + 1]
  /\ op' = [At("parquet") EXCEPT !.n = t]
  /\ UNCHANGED <<now, dir, sidecar, schema, registry, tomb, tombDirs, dtomb,
                 dropped, clash, faults>>

WriteEmptyParquet_KeepExisting ==
  /\ op.pc = "parquet"
  /\ live' = IF live[op.n]["parquet"] # 0 THEN live
             ELSE [live EXCEPT ![op.n]["parquet"] = made]
  /\ op' = At("index")
  /\ UNCHANGED <<now, dir, sidecar, schema, registry, tomb, tombDirs, dtomb,
                 made, dropped, clash, faults>>

WriteEmptyParquet ==
  /\ op.pc = "parquet"
  /\ live' = [live EXCEPT ![op.n]["parquet"] = made]
  /\ op' = At("index")
  /\ UNCHANGED <<now, dir, sidecar, schema, registry, tomb, tombDirs, dtomb,
                 made, dropped, clash, faults>>

InitVersionIndex ==
  /\ op.pc = "index"
  /\ live' = [live EXCEPT ![op.n]["index"] = made]
  /\ op' = Idle
  /\ UNCHANGED <<now, dir, sidecar, schema, registry, tomb, tombDirs, dtomb,
                 made, dropped, clash, faults>>

AppendRows(t) ==
  /\ op.pc = "idle"
  /\ dir
  /\ HasMeta(t)
  /\ live[t]["parquet"] # 0
  /\ live' = [live EXCEPT ![t]["versions"] = live[t]["parquet"],
                          ![t]["index"] = live[t]["parquet"]]
  /\ UNCHANGED <<now, dir, sidecar, schema, registry, tomb, tombDirs, dtomb,
                 op, made, dropped, clash, faults>>

-----------------------------------------------------------------------------
(* Views are a sidecar and a row; a routine is a row.                      *)

UpsertView(v) ==
  /\ op.pc = "idle"
  /\ dir
  /\ Fresh
  /\ live' = [live EXCEPT ![v]["meta"] = made + 1]
  /\ op' = [At("viewrow") EXCEPT !.n = v]
  /\ UNCHANGED <<now, dir, sidecar, schema, registry, tomb, tombDirs, dtomb,
                 dropped, clash, faults>>

UpsertViewRow ==
  /\ op.pc = "viewrow"
  /\ registry' = [registry EXCEPT !.views[op.n] = made]
  /\ op' = Idle
  /\ UNCHANGED <<now, dir, sidecar, schema, live, tomb, tombDirs, dtomb, made,
                 dropped, clash, faults>>

DeleteView(v) ==
  /\ op.pc = "idle"
  /\ live' = [live EXCEPT ![v]["meta"] = 0]
  /\ op' = [At("viewdel") EXCEPT !.n = v]
  /\ UNCHANGED <<now, dir, sidecar, schema, registry, tomb, tombDirs, dtomb,
                 made, dropped, clash, faults>>

DeleteViewRow ==
  /\ op.pc = "viewdel"
  /\ registry' = [registry EXCEPT !.views[op.n] = 0]
  /\ op' = Idle
  /\ UNCHANGED <<now, dir, sidecar, schema, live, tomb, tombDirs, dtomb, made,
                 dropped, clash, faults>>

UpsertRoutine ==
  /\ op.pc = "idle"
  /\ Fresh
  /\ registry' = [registry EXCEPT !.routine = made + 1]
  /\ UNCHANGED <<now, dir, sidecar, schema, live, tomb, tombDirs, dtomb, op,
                 dropped, clash, faults>>

DeleteRoutine ==
  /\ op.pc = "idle"
  /\ registry' = [registry EXCEPT !.routine = 0]
  /\ UNCHANGED <<now, dir, sidecar, schema, live, tomb, tombDirs, dtomb, op,
                 made, dropped, clash, faults>>

-----------------------------------------------------------------------------
(* DropTable, and the tables of DropDataset: each file is renamed into the *)
(* tombstone directory of the table and the millisecond.  A file there is  *)
(* replaced, but a directory cannot be renamed over a non-empty one.       *)
(* tables.delete also reaches DropTable with the id of a view.             *)

DropTable(n) ==
  /\ op.pc = "idle"
  /\ dir
  /\ HasMeta(n)
  /\ op' = [Idle EXCEPT !.pc = "move", !.ts = now, !.todo = {n}]
  /\ UNCHANGED <<now, disk, made, dropped, clash, faults>>

\* The operation's locals after the current file has been dealt with.
Advance ==
  IF op.art < Len(MoveOrder)
    THEN [op EXCEPT !.art = op.art + 1]
    ELSE [op EXCEPT !.art = 1, !.todo = op.todo \ {Min(op.todo)}]

MoveTableToTombstone ==
  /\ op.pc = "move"
  /\ op.todo # {}
  /\ LET n == Min(op.todo)
         a == MoveOrder[op.art]
         d == <<n, op.ts>>
     IN  /\ tombDirs' = tombDirs \cup {d}
         /\ clash' = (clash \/ (op.art = 1 /\ d \in tombDirs))
         /\ IF live[n][a] = 0
              THEN op' = Advance /\ UNCHANGED <<live, tomb>>
            ELSE IF a = "versions" /\ tomb[d][a] # 0
              THEN op' = Idle /\ UNCHANGED <<live, tomb>>
            ELSE /\ op' = Advance
                 /\ live' = [live EXCEPT ![n][a] = 0]
                 /\ tomb' = [tomb EXCEPT ![d][a] = live[n][a]]
  /\ UNCHANGED <<now, dir, sidecar, schema, registry, dtomb, made, dropped,
                 faults>>

TablesMoved ==
  /\ op.pc = "move"
  /\ op.todo = {}
  /\ op' = IF op.ds THEN At("purge") ELSE Idle
  /\ UNCHANGED <<now, disk, made, dropped, clash, faults>>

-----------------------------------------------------------------------------
(* DropDataset: registry snapshot, tombstone sidecar, manifest, tables,    *)
(* rows, directory, DuckDB schema, in this order.                          *)

HasTables == \E n \in Names : HasMeta(n) \/ live[n]["parquet"] # 0

DropDataset(delete_contents) ==
  /\ op.pc = "idle"
  /\ dir
  /\ delete_contents \/ ~HasTables
  /\ sidecar # 0
  /\ dtomb' = [dtomb EXCEPT ![now].dir = TRUE]
  /\ dropped' = [sidecar |-> sidecar, live |-> live, rows |-> registry]
  /\ op' = [Idle EXCEPT !.pc = "snapshot", !.ts = now, !.ds = TRUE]
  /\ UNCHANGED <<now, dir, sidecar, schema, live, registry, tomb, tombDirs,
                 made, clash, faults>>

SnapshotViews ==
  /\ op.pc = "snapshot"
  /\ dtomb' = [dtomb EXCEPT ![op.ts].rows.views = registry.views]
  /\ op' = At("snaproutine")
  /\ UNCHANGED <<now, dir, sidecar, schema, live, registry, tomb, tombDirs,
                 made, dropped, clash, faults>>

SnapshotRoutine ==
  /\ op.pc = "snaproutine"
  /\ dtomb' = [dtomb EXCEPT ![op.ts].rows.routine = registry.routine]
  /\ op' = At("tombmeta")
  /\ UNCHANGED <<now, dir, sidecar, schema, live, registry, tomb, tombDirs,
                 made, dropped, clash, faults>>

WriteTombstoneMeta ==
  /\ op.pc = "tombmeta"
  /\ dtomb' = [dtomb EXCEPT ![op.ts].sidecar = sidecar]
  /\ op' = At("manifest")
  /\ UNCHANGED <<now, dir, sidecar, schema, live, registry, tomb, tombDirs,
                 made, dropped, clash, faults>>

ListTableIdsInDatasetDir == {n \in Names : HasMeta(n)}

WriteManifest ==
  /\ op.pc = "manifest"
  /\ dtomb' = [dtomb EXCEPT ![op.ts].listed = TRUE,
                            ![op.ts].manifest = ListTableIdsInDatasetDir]
  /\ op' = [At("move") EXCEPT !.todo = ListTableIdsInDatasetDir]
  /\ UNCHANGED <<now, dir, sidecar, schema, live, registry, tomb, tombDirs,
                 made, dropped, clash, faults>>

PurgeViews ==
  /\ op.pc = "purge"
  /\ registry' = [registry EXCEPT !.views = NoRows.views]
  /\ op' = At("purgeroutine")
  /\ UNCHANGED <<now, dir, sidecar, schema, live, tomb, tombDirs, dtomb, made,
                 dropped, clash, faults>>

PurgeRoutine ==
  /\ op.pc = "purgeroutine"
  /\ registry' = [registry EXCEPT !.routine = 0]
  /\ op' = At("rmdir")
  /\ UNCHANGED <<now, dir, sidecar, schema, live, tomb, tombDirs, dtomb, made,
                 dropped, clash, faults>>

\* remove_all of the dataset directory takes what is in it, in any order,
\* and then the directory.
RemoveDatasetMeta ==
  /\ op.pc = "rmdir"
  /\ sidecar # 0
  /\ sidecar' = 0
  /\ UNCHANGED <<now, dir, schema, live, registry, tomb, tombDirs, dtomb, op,
                 made, dropped, clash, faults>>

RemoveLeftovers ==
  /\ op.pc = "rmdir"
  /\ \E n \in Names :
       /\ live[n] # Empty
       /\ live' = [live EXCEPT ![n] = Empty]
  /\ UNCHANGED <<now, dir, sidecar, schema, registry, tomb, tombDirs, dtomb,
                 op, made, dropped, clash, faults>>

RemoveDatasetDir_KeepSchema ==
  /\ op.pc = "rmdir"
  /\ sidecar = 0
  /\ live = [n \in Names |-> Empty]
  /\ dir' = FALSE
  /\ op' = Idle
  /\ UNCHANGED <<now, sidecar, schema, live, registry, tomb, tombDirs, dtomb,
                 made, dropped, clash, faults>>

RemoveDatasetDir ==
  /\ op.pc = "rmdir"
  /\ sidecar = 0
  /\ live = [n \in Names |-> Empty]
  /\ dir' = FALSE
  /\ op' = At("dropschema")
  /\ UNCHANGED <<now, sidecar, schema, live, registry, tomb, tombDirs, dtomb,
                 made, dropped, clash, faults>>

DropSchema ==
  /\ op.pc = "dropschema"
  /\ schema' = FALSE
  /\ op' = Idle
  /\ UNCHANGED <<now, dir, sidecar, live, registry, tomb, tombDirs, dtomb,
                 made, dropped, clash, faults>>

-----------------------------------------------------------------------------
(* RestoreDataset of the newest tombstone in the retention window.         *)

Retained == {s \in Stamps : dtomb[s].dir /\ s >= now - Window}


LatestDatasetTombstone == Max(Retained)

RestoreDataset ==
  /\ op.pc = "idle"
  /\ sidecar = 0
  /\ Retained # {}
  /\ LET d == dtomb[LatestDatasetTombstone]
     IN  /\ d.sidecar # 0
         /\ d.listed
         /\ op' = [Idle EXCEPT !.pc = "relive", !.ts = LatestDatasetTombstone,
                               !.todo = d.manifest]
  /\ dir' = TRUE
  /\ UNCHANGED <<now, sidecar, schema, live, registry, tomb, tombDirs, dtomb,
                 made, dropped, clash, faults>>

WriteLiveMeta ==
  /\ op.pc = "relive"
  /\ sidecar' = dtomb[op.ts].sidecar
  /\ op' = At("return")
  /\ UNCHANGED <<now, dir, schema, live, registry, tomb, tombDirs, dtomb, made,
                 dropped, clash, faults>>

\* The table is there already, or its tombstone is not.
CannotRestore(n, d) == op.art = 1 /\ (HasMeta(n) \/ d \notin tombDirs)

RestoreTableFromTombstone ==
  /\ op.pc = "return"
  /\ op.todo # {}
  /\ LET n == Min(op.todo)
         a == MoveOrder[op.art]
         d == <<n, op.ts>>
         left == [tomb[d] EXCEPT ![a] = 0]
     IN  IF \/ CannotRestore(n, d)
            \/ a = "versions" /\ tomb[d][a] # 0 /\ live[n][a] # 0
           THEN op' = Idle /\ UNCHANGED <<live, tomb, tombDirs>>
           ELSE /\ op' = Advance
                /\ live' = IF tomb[d][a] = 0 THEN live
                           ELSE [live EXCEPT ![n][a] = tomb[d][a]]
                /\ tomb' = [tomb EXCEPT ![d] = left]
                /\ tombDirs' = IF op.art = Len(MoveOrder) /\ left = Empty
                                 THEN tombDirs \ {d} ELSE tombDirs
  /\ UNCHANGED <<now, dir, sidecar, schema, registry, dtomb, made, dropped,
                 clash, faults>>

TablesRestored ==
  /\ op.pc = "return"
  /\ op.todo = {}
  /\ op' = [At("rerow") EXCEPT
              !.todo = {v \in Views : dtomb[op.ts].rows.views[v] # 0}]
  /\ UNCHANGED <<now, disk, made, dropped, clash, faults>>

\* UpsertViewLocked writes the view's sidecar anew, and then its row.
RestoreViewSidecar ==
  /\ op.pc = "rerow"
  /\ op.todo # {}
  /\ op.art = 1
  /\ LET v == Min(op.todo)
     IN  live' = [live EXCEPT ![v]["meta"] = dtomb[op.ts].rows.views[v]]
  /\ op' = [op EXCEPT !.art = 2]
  /\ UNCHANGED <<now, dir, sidecar, schema, registry, tomb, tombDirs, dtomb,
                 made, dropped, clash, faults>>

RestoreViewRow ==
  /\ op.pc = "rerow"
  /\ op.todo # {}
  /\ op.art = 2
  /\ LET v == Min(op.todo)
     IN  /\ registry' =
              [registry EXCEPT !.views[v] = dtomb[op.ts].rows.views[v]]
         /\ op' = [op EXCEPT !.art = 1, !.todo = op.todo \ {v}]
  /\ UNCHANGED <<now, dir, sidecar, schema, live, tomb, tombDirs, dtomb, made,
                 dropped, clash, faults>>

RestoreRoutine ==
  /\ op.pc = "rerow"
  /\ op.todo = {}
  /\ LET routine == dtomb[op.ts].rows.routine
     IN  registry' = IF routine = 0 THEN registry
                     ELSE [registry EXCEPT !.routine = routine]
  /\ op' = At("rmtomb")
  /\ UNCHANGED <<now, dir, sidecar, schema, live, tomb, tombDirs, dtomb, made,
                 dropped, clash, faults>>

RemoveDatasetTombstone ==
  /\ op.pc = "rmtomb"
  /\ dtomb' = [dtomb EXCEPT ![op.ts] = NoTombstone]
  /\ op' = At("reschema")
  /\ UNCHANGED <<now, dir, sidecar, schema, live, registry, tomb, tombDirs,
                 made, dropped, clash, faults>>

-----------------------------------------------------------------------------
(* A call fails and the operation returns its error: CreateDataset and     *)
(* CreateTable remove what they made when one of their own writes fails,   *)
(* nothing else is undone.  Or the engine stops; it is not back within the *)
(* same millisecond.                                                       *)

Fault == faults < MaxFaults /\ faults' = faults + 1

FailCreateDataset ==
  /\ Fault
  /\ op.pc \in {"sidecar", "schema"}
  /\ dir' = FALSE
  /\ sidecar' = 0
  /\ live' = [n \in Names |-> Empty]
  /\ op' = Idle
  /\ UNCHANGED <<now, schema, registry, tomb, tombDirs, dtomb, made, dropped,
                 clash>>

\* The parquet file stays when the failure comes before it is written.
FailCreateTable ==
  /\ Fault
  /\ op.pc = "parquet"
  /\ \E left \in {0, live[op.n]["parquet"]} :
       live' = [live EXCEPT ![op.n]["meta"] = 0, ![op.n]["parquet"] = left]
  /\ op' = Idle
  /\ UNCHANGED <<now, dir, sidecar, schema, registry, tomb, tombDirs, dtomb,
                 made, dropped, clash>>

Fail ==
  /\ Fault
  /\ op.pc \notin {"idle", "sidecar", "schema", "parquet"}
  /\ op' = Idle
  /\ UNCHANGED <<now, disk, made, dropped, clash>>

Stop ==
  /\ Fault
  /\ now < MaxTime
  /\ now' = now + 1
  /\ op' = Idle
  /\ UNCHANGED <<disk, made, dropped, clash>>

-----------------------------------------------------------------------------

Create == CreateDataset \/ WriteDatasetMeta \/ CreateSchema

Contents ==
  \/ \E t \in Tables : CreateTable(t) \/ AppendRows(t)
  \/ WriteEmptyParquet
  \/ InitVersionIndex
  \/ \E v \in Views : UpsertView(v) \/ DeleteView(v)
  \/ UpsertViewRow
  \/ DeleteViewRow
  \/ UpsertRoutine
  \/ DeleteRoutine

Drop ==
  \/ \E n \in Names : DropTable(n)
  \/ MoveTableToTombstone
  \/ TablesMoved
  \/ \E delete_contents \in BOOLEAN : DropDataset(delete_contents)
  \/ SnapshotViews
  \/ SnapshotRoutine
  \/ WriteTombstoneMeta
  \/ WriteManifest
  \/ PurgeViews
  \/ PurgeRoutine
  \/ RemoveDatasetMeta
  \/ RemoveLeftovers
  \/ RemoveDatasetDir
  \/ DropSchema

Undelete ==
  \/ RestoreDataset
  \/ WriteLiveMeta
  \/ RestoreTableFromTombstone
  \/ TablesRestored
  \/ RestoreViewSidecar
  \/ RestoreViewRow
  \/ RestoreRoutine
  \/ RemoveDatasetTombstone

Next ==
  \/ Tick
  \/ Create
  \/ Contents
  \/ Drop
  \/ Undelete
  \/ FailCreateDataset
  \/ FailCreateTable
  \/ Fail
  \/ Stop

Spec == Init /\ [][Next]_vars

-----------------------------------------------------------------------------

\* What the dropped dataset had: a view is what its row says, if it has one.
Captured(n, a) ==
  IF n \in Views /\ a = "meta" /\ dropped.rows.views[n] # 0
    THEN dropped.rows.views[n] ELSE dropped.live[n][a]


(* Between operations, the parquet file under a table's sidecar is of the   *)
(* incarnation the sidecar describes: no sequence of create, drop, undelete *)
(* and one failure or stop pairs the schema of one table with the rows of   *)
(* another of the same name.                                                *)
NoMixedTable ==
  op.pc = "idle" =>
    \A t \in Tables : HasMeta(t) /\ live[t]["parquet"] # 0 =>
      live[t]["parquet"] = live[t]["meta"]

(* As long as nothing failed, between operations the dataset's directory,   *)
(* its sidecar and its DuckDB schema exist together or not at all, also     *)
(* when DropDataset gave up because a versions directory was in its way.    *)
DatasetConsistent ==
  op.pc = "idle" /\ faults = 0 => (dir = (sidecar # 0)) /\ (dir = schema)

(* datasets.undelete restores member tables and views captured at delete    *)
(* time: a view that was no member of the dataset when it was dropped is    *)
(* not one after the undelete.                                              *)
MembersOnly ==
  op.pc = "rmtomb" =>
    \A v \in Views : dropped.live[v]["meta"] = 0 => ~HasMeta(v)
=============================================================================
