----------------------------- MODULE VersionLog -----------------------------
(***************************************************************************)
(* Time travel over one table of the DuckDB-backed store: CreateTable,     *)
(* AppendRows and OverwriteRows keep the parquet files that a mutation     *)
(* replaces, with an index of the moments they became current              *)
(* (backend/storage/duckdb/duckdb_storage_version_log.cc), and             *)
(* ParquetSnapshotPathAt picks the file for a past moment.                 *)
(*                                                                         *)
(* The store's mutex makes the operations of one table sequential, so one  *)
(* operation is in progress at a time; but each is a series of file-system *)
(* calls, and the engine may stop, or a call may fail, between any two of  *)
(* them.  The path that ParquetSnapshotPathAt returns is read after the    *)
(* mutex is released, so a reader interleaves with everything.             *)
(*                                                                         *)
(* The content of a parquet file is the number of the mutation that wrote  *)
(* it, 0 for the empty file CreateTable writes.  The clock, in             *)
(* milliseconds, never goes back, and may stand still across mutations.    *)
(* Entries of the index with equal valid_from_ms name the same file, so    *)
(* the sorted vector is a set of stamps.  Index and sidecar are replaced   *)
(* by rename and are never seen half written; a copy is.                   *)
(***************************************************************************)
EXTENDS Integers, FiniteSetsExt

CONSTANTS
  TravelWindow, \* kTimeTravelWindowMs
  MaxClock,     \* bound: the clock
  MaxMutations, \* bound: mutations started
  MaxFailures,  \* bound: failed calls and engine stops
  NoFile,       \* the content of a path where there is no file
  Torn          \* the content of a file whose writing did not finish

ASSUME VersionBounds ==
  /\ TravelWindow \in Nat
  /\ MaxClock \in Nat
  /\ MaxMutations \in Nat
  /\ MaxFailures \in Nat

ASSUME FileAssumption ==
  /\ NoFile # Torn
  /\ NoFile \notin 0..MaxMutations
  /\ Torn \notin 0..MaxMutations

VARIABLES
  clock,        \* absl::Now() in milliseconds
  meta,         \* whether the table's sidecar exists
  liveFile,     \* content of <table>.parquet
  index,        \* <table>.versions.json
  files,        \* content of <table>.versions/<stamp>.parquet
  work,         \* the operation that holds the store's mutex, with its locals
  reader,       \* a query that resolves a past moment, then reads the path
  muts,         \* mutations started so far
  truth,        \* history: the content in effect at each millisecond
  began,        \* history: the stamp at which each content took effect
  acked,        \* history: CreateTable returned OK
  failures      \* failures and stops so far

tableFiles == <<meta, liveFile, index, files>>

history == <<truth, began, acked>>

versionVars == <<clock, tableFiles, work, reader, muts, history, failures>>

-----------------------------------------------------------------------------

Moments == 0..MaxClock

Versions == 0..MaxMutations

Files == Versions \cup {NoFile, Torn}

VersionIndex ==
  [onDisk : BOOLEAN, created : Moments, current : Moments,
   versions : SUBSET Moments]

NoIndex == [onDisk |-> FALSE, created |-> 0, current |-> 0, versions |-> {}]

Paths == [at : {"live", "error"}] \cup [at : {"archive"}, stamp : Moments]

Live == [at |-> "live"]

Invalid == [at |-> "error"]

Archive(s) == [at |-> "archive", stamp |-> s]

Work ==
  [pc : {"idle", "parquet", "parquetEnd", "init", "load", "copy", "copyEnd",
         "prune", "rename"},
   ts : Moments, new : Versions, ix : VersionIndex]

NoWork == [pc |-> "idle", ts |-> 0, new |-> 0, ix |-> NoIndex]

Reader ==
  [pc : {"idle"}]
    \cup [pc : {"resolved"}, as_of : Moments, path : Paths]
    \cup [pc : {"done"}, path : Paths, got : Files, want : Files]

NoReader == [pc |-> "idle"]

(* The sidecar, the parquet files, the index and the locals of the         *)
(* operation in progress hold what the code stores in them.                *)
VersionTypeOK ==
  /\ clock \in Moments
  /\ meta \in BOOLEAN
  /\ liveFile \in Files
  /\ index \in VersionIndex
  /\ files \in [Moments -> Files]
  /\ work \in Work
  /\ reader \in Reader
  /\ muts \in Versions
  /\ truth \in [Moments -> Files]
  /\ began \in [Versions -> Moments]
  /\ acked \in BOOLEAN
  /\ failures \in 0..MaxFailures

VersionInit ==
  /\ clock = 0
  /\ meta = FALSE
  /\ liveFile = NoFile
  /\ index = NoIndex
  /\ files = [s \in Moments |-> NoFile]
  /\ work = NoWork
  /\ reader = NoReader
  /\ muts = 0
  /\ truth = [s \in Moments |-> NoFile]
  /\ began = [c \in Versions |-> 0]
  /\ acked = FALSE
  /\ failures = 0

ClockTicks ==
  /\ clock < MaxClock
  /\ clock' = clock + 1
  /\ UNCHANGED <<tableFiles, work, reader, muts, history, failures>>

\* Content c is what the table holds from stamp s on.
TakesEffect(c, s) ==
  /\ truth' = [t \in Moments |-> IF t >= s THEN c ELSE truth[t]]
  /\ began' = [began EXCEPT ![c] = s]

WorkAt(pc) == [work EXCEPT !.pc = pc]

-----------------------------------------------------------------------------
(* CreateTable: the sidecar, an empty parquet file, the version index.     *)
(* The parquet file is written in place.                                   *)

WriteTableMeta ==
  /\ work.pc = "idle"
  /\ ~meta
  /\ meta' = TRUE
  /\ work' = WorkAt("parquet")
  /\ UNCHANGED <<clock, liveFile, index, files, reader, muts, history, failures>>

StartEmptyParquet ==
  /\ work.pc = "parquet"
  /\ liveFile' = Torn
  /\ work' = WorkAt("parquetEnd")
  /\ UNCHANGED <<clock, meta, index, files, reader, muts, history, failures>>

FinishEmptyParquet ==
  /\ work.pc = "parquetEnd"
  /\ liveFile' = 0
  /\ TakesEffect(0, clock)
  /\ work' = WorkAt("init")
  /\ UNCHANGED <<clock, meta, index, files, reader, muts, acked, failures>>

WriteFirstIndex ==
  /\ work.pc = "init"
  /\ index' = [onDisk |-> TRUE, created |-> clock, current |-> clock,
               versions |-> {}]
  /\ began' = [began EXCEPT ![0] = clock]
  /\ acked' = TRUE
  /\ work' = NoWork
  /\ UNCHANGED <<clock, meta, liveFile, files, reader, muts, truth, failures>>

-----------------------------------------------------------------------------
(* AppendRows and OverwriteRows.  Both stage the new content in a scratch  *)
(* table, stamp the mutation, archive the live file and rename the new one *)
(* over it.  AppendRows carries the old rows over, and so needs a live     *)
(* file that can be read (or none).                                        *)

Stage ==
  /\ work.pc = "idle"
  /\ meta
  /\ muts < MaxMutations
  /\ muts' = muts + 1
  /\ work' = [pc |-> "load", ts |-> clock, new |-> muts + 1, ix |-> NoIndex]
  /\ UNCHANGED <<clock, tableFiles, reader, history, failures>>

AppendMutation == liveFile # Torn /\ Stage

OverwriteMutation == Stage

LoadVersionIndexOrInit ==
  IF index.onDisk THEN index
  ELSE [onDisk |-> FALSE, created |-> clock, current |-> clock, versions |-> {}]

\* ArchiveParquetBeforeReplace: with no live file only the stamp moves.
LoadIndex ==
  /\ work.pc = "load"
  /\ work' = IF liveFile = NoFile
             THEN [WorkAt("prune") EXCEPT
                     !.ix = [LoadVersionIndexOrInit EXCEPT !.current = work.ts]]
             ELSE [WorkAt("copy") EXCEPT !.ix = LoadVersionIndexOrInit]
  /\ UNCHANGED <<clock, tableFiles, reader, muts, history, failures>>

\* The archive of the live file is named for the moment it became current.
ArchiveStamp(o) == o.ix.current

\* copy_file truncates the target and then fills it.
StartCopy ==
  /\ work.pc = "copy"
  /\ files' = [files EXCEPT ![ArchiveStamp(work)] = Torn]
  /\ work' = WorkAt("copyEnd")
  /\ UNCHANGED <<clock, meta, liveFile, index, reader, muts, history, failures>>

FinishCopy ==
  /\ work.pc = "copyEnd"
  /\ files' = [files EXCEPT ![ArchiveStamp(work)] = liveFile]
  /\ work' = [WorkAt("prune") EXCEPT
              !.ix = [work.ix EXCEPT
                        !.versions = work.ix.versions \cup {ArchiveStamp(work)},
                        !.current = work.ts]]
  /\ UNCHANGED <<clock, meta, liveFile, index, reader, muts, history, failures>>

Expired_AtCutoff(o) == {v \in o.ix.versions : v <= o.ts - TravelWindow}

\* The entries PruneOldVersions drops; it is given the mutation's stamp.
Expired(o) == {v \in o.ix.versions : v < o.ts - TravelWindow}

PruneOldVersions ==
  /\ work.pc = "prune"
  /\ Expired(work) # {}
  /\ LET v == Min(Expired(work))
     IN  /\ files' = [files EXCEPT ![v] = NoFile]
         /\ work' = [work EXCEPT !.ix = [work.ix EXCEPT
                                       !.versions = work.ix.versions \ {v}]]
  /\ UNCHANGED <<clock, meta, liveFile, index, reader, muts, history, failures>>

\* PruneOldVersions moves created_ts_ms up to the cutoff.
CreatedAfterPrune(o) == Max({o.ix.created, o.ts - TravelWindow})

WriteVersionIndex ==
  /\ work.pc = "prune"
  /\ Expired(work) = {}
  /\ index' = [onDisk |-> TRUE,
               created |-> CreatedAfterPrune(work),
               current |-> work.ix.current,
               versions |-> work.ix.versions]
  /\ work' = WorkAt("rename")
  /\ UNCHANGED <<clock, meta, liveFile, files, reader, muts, history, failures>>

SnapshotTempTableToParquet ==
  /\ work.pc = "rename"
  /\ liveFile' = work.new
  /\ TakesEffect(work.new, work.ts)
  /\ work' = NoWork
  /\ UNCHANGED <<clock, meta, index, files, reader, muts, acked, failures>>

-----------------------------------------------------------------------------
(* A call fails, or the engine stops.  CreateTable removes what it made    *)
(* when the parquet file cannot be written; nothing else is undone.        *)

CallFails ==
  /\ work.pc # "idle"
  /\ failures < MaxFailures
  /\ failures' = failures + 1
  /\ work' = NoWork
  /\ IF work.pc \in {"parquet", "parquetEnd"}
       THEN meta' = FALSE /\ liveFile' = NoFile
       ELSE UNCHANGED <<meta, liveFile>>
  /\ UNCHANGED <<clock, index, files, reader, muts, history>>

EngineStops ==
  /\ failures < MaxFailures
  /\ failures' = failures + 1
  /\ work' = NoWork
  /\ reader' = NoReader
  /\ UNCHANGED <<clock, tableFiles, muts, history>>

-----------------------------------------------------------------------------
(* A query over the table FOR SYSTEM_TIME AS OF t.                         *)

Older(ix, t) == {v \in ix.versions : v <= t}

\* ResolveParquetSnapshotAt: the path to read for moment t.
Resolve(t) ==
  LET ix == LoadVersionIndexOrInit
  IN  IF t > clock \/ t < clock - TravelWindow THEN Invalid
      ELSE IF ~index.onDisk /\ liveFile # NoFile THEN Live
      ELSE IF t < ix.created THEN Invalid
      ELSE IF t >= ix.current THEN (IF liveFile = NoFile THEN Invalid ELSE Live)
      ELSE IF Older(ix, t) = {} \/ files[Max(Older(ix, t))] = NoFile
             THEN Invalid
             ELSE Archive(Max(Older(ix, t)))

ContentAt(path) ==
  IF path.at = "live" THEN liveFile ELSE files[path.stamp]

ParquetSnapshotPathAt(t) ==
  /\ work.pc = "idle"
  /\ meta
  /\ reader.pc # "resolved"
  /\ Resolve(t) # Invalid
  /\ reader' = [pc |-> "resolved", as_of |-> t, path |-> Resolve(t)]
  /\ UNCHANGED <<clock, tableFiles, work, muts, history, failures>>

\* AttachParquetTableAt: read_parquet of the resolved path.
AttachParquetTable ==
  /\ reader.pc = "resolved"
  /\ reader' = [pc |-> "done", path |-> reader.path,
                got |-> ContentAt(reader.path), want |-> truth[reader.as_of]]
  /\ UNCHANGED <<clock, tableFiles, work, muts, history, failures>>

TableCreation ==
  \/ WriteTableMeta
  \/ StartEmptyParquet
  \/ FinishEmptyParquet
  \/ WriteFirstIndex

Mutate ==
  \/ AppendMutation
  \/ OverwriteMutation
  \/ LoadIndex
  \/ StartCopy
  \/ FinishCopy
  \/ PruneOldVersions
  \/ WriteVersionIndex
  \/ SnapshotTempTableToParquet

Query ==
  \/ \E t \in Moments : ParquetSnapshotPathAt(t)
  \/ AttachParquetTable

VersionNext ==
  ClockTicks \/ TableCreation \/ Mutate \/ Query \/ CallFails \/ EngineStops

VersionSpec == VersionInit /\ [][VersionNext]_versionVars

-----------------------------------------------------------------------------

Quiescent == acked /\ work.pc = "idle"

(* For a table whose CreateTable returned OK, whatever mutations failed or *)
(* were cut short and however many share a millisecond, a moment that      *)
(* ResolveParquetSnapshotAt accepts gives the content that was in effect   *)
(* at that moment, never a later, an earlier or a half-written one.        *)
TimeTravelSound ==
  Quiescent =>
    \A t \in Moments :
      Resolve(t) # Invalid => ContentAt(Resolve(t)) = truth[t]

(* A version that took effect inside the time-travel window can still be   *)
(* read at every moment it was in effect: PruneOldVersions, a failed       *)
(* mutation or a stop never loses it.                                      *)
RecentVersionsReadable ==
  Quiescent =>
    \A t \in Moments :
      /\ t <= clock
      /\ truth[t] # NoFile
      /\ began[truth[t]] >= clock - TravelWindow
      /\ began[truth[t]] <= t
      => Resolve(t) # Invalid

(* A query that was given the path of an archived version and reads it     *)
(* after the store's mutex was released either finds no file, because the  *)
(* version was pruned meanwhile, or finds the content of the moment it     *)
(* asked for: archived files are never rewritten while they can be         *)
(* resolved.                                                               *)
ArchivedReadSound ==
  (acked /\ reader.pc = "done" /\ reader.path.at = "archive") =>
    reader.got \in {NoFile, reader.want}

(* The header says a moment is refused "when the timestamp is out of       *)
(* window or before readable history": one inside both resolves.           *)
InWindowReadable ==
  Quiescent =>
    \A t \in Moments :
      (t <= clock /\ t >= clock - TravelWindow /\ t >= index.created)
        => Resolve(t) # Invalid

\* Time travel tells the truth: a moment that resolves reads what was live then,
\* a version of the window resolves, and an archive opened after it was resolved
\* is that version or is gone, through failed calls, stops and pruning.
TimeTravelExact ==
  /\ TimeTravelSound
  /\ RecentVersionsReadable
  /\ ArchivedReadSound
=============================================================================
