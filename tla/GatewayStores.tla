----------------------------- MODULE GatewayStores -----------------------------
(***************************************************************************)
(* What the gateway keeps besides jobs: the connection registry, a JSON    *)
(* file rewritten on every change; resumable upload sessions; transfer     *)
(* configs and their runs; the cached rows of a query, read page by page;  *)
(* and the engine subprocess the gateway starts and stops.  The five share *)
(* no state.  A lock of the code is a single step; what the code does      *)
(* between two locks, or to the file, is a step of its own.                *)
(***************************************************************************)
EXTENDS Integers, Sequences, FiniteSets

CONSTANTS Callers,      \* requests served at once
          MaxCalls,     \* bound: requests taken by each of the five
          RowCount,     \* rows of the cached query result
          Width         \* where the unsigned row arithmetic wraps, for 2^64

VARIABLES taken,        \* requests taken so far
          byName, disk, saving, mayHold, savesCrossed,          \* connections
          sess, put, client, loaded, putsCrossed,               \* uploads
          configs, runs, executing, serial,                     \* transfers
          paging,                                                 \* result pages
          proc                                                  \* lifecycle
connVars == <<byName, disk, saving, mayHold, savesCrossed>>
uploadVars == <<sess, put, client, loaded, putsCrossed>>
transferVars == <<configs, runs, executing, serial>>
storeVars == <<taken, connVars, uploadVars, transferVars, paging, proc>>

Taken == taken < MaxCalls /\ taken' = taken + 1
NoRequest == [pc |-> "idle"]

(***************************************************************************)
(* The connection registry                                                 *)
(***************************************************************************)
\* Two directory entries, connections.json and its .tmp, name files by their
\* number; 0 is no file.  A file is what was last written to it: "cut" after
\* O_TRUNC, "torn" when a shorter text was written over a longer one.
Conns == {"c1", "c2"}
Version == {"none", "created", "patched"}
NoConns == [n \in Conns |-> "none"]
Text(m) == [kind |-> "text", of |-> m]
Cut == [kind |-> "cut", of |-> NoConns]
Torn == [kind |-> "torn", of |-> NoConns]
TextSize(m) == Cardinality({n \in Conns : m[n] # "none"})

Recovered(d) == IF d.path = 0 THEN NoConns ELSE d.file[d.path].of
ConnInit ==
  /\ byName = NoConns /\ disk = [path |-> 0, tmp |-> 0, file |-> <<>>]
  /\ saving = [c \in Callers |-> NoRequest]
  /\ mayHold = [n \in Conns |-> {"none"}] /\ savesCrossed = FALSE

Saves(c, n, v) ==
  /\ Taken /\ saving[c].pc = "idle"
  /\ saving' = [saving EXCEPT ![c] = [pc |-> "change", name |-> n, value |-> v]]
  /\ savesCrossed' = (savesCrossed \/ \E d \in Callers : saving[d].pc # "idle")
  /\ UNCHANGED <<byName, disk, mayHold>>
CreateConnection(c, n) == byName[n] = "none" /\ Saves(c, n, "created")
UpdateConnection(c, n) == byName[n] # "none" /\ Saves(c, n, "patched")
DeleteConnection(c, n) == byName[n] # "none" /\ Saves(c, n, "none")

PutOrDelete(c) ==
  /\ saving[c].pc = "change"
  /\ LET n == saving[c].name
         v == saving[c].value
     IN /\ byName' = [byName EXCEPT ![n] = v]
        /\ mayHold' = [mayHold EXCEPT ![n] = @ \cup {v}]
  /\ saving' = [saving EXCEPT ![c].pc = "snapshot"]
  /\ UNCHANGED <<taken, disk, savesCrossed>>
SnapshotConns(c) ==
  /\ saving[c].pc = "snapshot"
  /\ saving' = [saving EXCEPT ![c] = [pc |-> "open", name |-> @.name, value |-> @.value,
                                      items |-> byName]]
  /\ UNCHANGED <<taken, byName, disk, mayHold, savesCrossed>>
OpenTmp(d) ==
  IF d.tmp = 0 THEN [d EXCEPT !.tmp = Len(d.file) + 1, !.file = Append(@, Cut)]
  ELSE [d EXCEPT !.file[d.tmp] = Cut]
OpenTmpFile(c) ==
  /\ saving[c].pc = "open"
  /\ disk' = OpenTmp(disk)
  /\ saving' = [saving EXCEPT ![c] = [pc |-> "write", name |-> @.name, value |-> @.value,
                                      items |-> @.items, fd |-> disk'.tmp]]
  /\ UNCHANGED <<taken, byName, mayHold, savesCrossed>>
WriteOver(old, m) ==
  IF old.kind = "torn" \/ TextSize(old.of) > TextSize(m) THEN Torn ELSE Text(m)
WriteTmpFile(c) ==
  /\ saving[c].pc = "write"
  /\ disk' = [disk EXCEPT !.file[saving[c].fd] = WriteOver(@, saving[c].items)]
  /\ saving' = [saving EXCEPT ![c].pc = "rename"]
  /\ UNCHANGED <<taken, byName, mayHold, savesCrossed>>
\* The write fails, or the rename finds that another request has renamed the
\* .tmp: the caller is refused, the connection stays as it was changed.
PersistFails(c) ==
  /\ \/ saving[c].pc = "write"
     \/ saving[c].pc = "rename" /\ disk.tmp = 0
  /\ saving' = [saving EXCEPT ![c] = NoRequest]
  /\ UNCHANGED <<taken, byName, disk, mayHold, savesCrossed>>
RenameTmpFile(c) ==
  /\ saving[c].pc = "rename" /\ disk.tmp # 0
  /\ disk' = [disk EXCEPT !.path = disk.tmp, !.tmp = 0]
  /\ mayHold' = [mayHold EXCEPT ![saving[c].name] = {saving[c].value}]
  /\ saving' = [saving EXCEPT ![c] = NoRequest]
  /\ UNCHANGED <<taken, byName, savesCrossed>>
\* A restart; a file that does not parse is moved away and nothing is loaded.
OpenStore ==
  /\ Taken
  /\ byName' = Recovered(disk)
  /\ disk' = IF disk.path # 0 /\ disk.file[disk.path].kind # "text"
             THEN [disk EXCEPT !.path = 0] ELSE disk
  /\ saving' = [c \in Callers |-> NoRequest]
  /\ mayHold' = [n \in Conns |-> {byName'[n]}]
  /\ UNCHANGED savesCrossed
ConnNext ==
  \/ \E c \in Callers, n \in Conns :
       CreateConnection(c, n) \/ UpdateConnection(c, n) \/ DeleteConnection(c, n)
  \/ \E c \in Callers : \/ PutOrDelete(c) \/ SnapshotConns(c) \/ OpenTmpFile(c)
                        \/ WriteTmpFile(c) \/ PersistFails(c) \/ RenameTmpFile(c)
  \/ OpenStore


(***************************************************************************)
(* Resumable uploads                                                       *)
(***************************************************************************)
\* One session, the two bytes of File, and a client that keeps to the
\* protocol: it sends from where the last answer said the gateway is, or asks
\* where that is, and after a timeout does either again while the gateway may
\* still be serving the request it gave up on.
File == <<"a", "b">>
Gap == "zero"
UploadInit ==
  /\ sess = [there |-> TRUE, data |-> <<>>] /\ put = [c \in Callers |-> NoRequest]
  /\ client \in [at : {0}, waits : {"none"}, done : {FALSE}, knowsTotal : BOOLEAN]
  /\ loaded = <<>> /\ putsCrossed = FALSE

InService(p) == p.pc \notin {"idle", "reply"}
\* Without a Content-Range the body is the whole file.
SendPut(c, n, ranged) ==
  /\ Taken /\ client.waits = "none" /\ ~client.done /\ put[c].pc = "idle"
  /\ client.at + n <= Len(File) /\ (~ranged => client.at = 0 /\ n = Len(File))
  /\ put' = [put EXCEPT ![c] = [pc |-> "get", ranged |-> ranged, start |-> client.at,
                                body |-> SubSeq(File, client.at + 1, client.at + n)]]
  /\ client' = [client EXCEPT !.waits = c]
  /\ putsCrossed' = (putsCrossed \/ \E d \in Callers : InService(put[d]))
  /\ UNCHANGED <<sess, loaded>>
Answer(c, what, at) == put' = [put EXCEPT ![c] = [pc |-> "reply", what |-> what, at |-> at]]
\* store.Get, then a range with an empty body is answered at once.
handleJobInsertUploadPut(c) ==
  /\ put[c].pc = "get"
  /\ IF ~sess.there THEN Answer(c, "notFound", 0)
     ELSE IF put[c].body = <<>> THEN Answer(c, "resume", Len(sess.data))
     ELSE put' = [put EXCEPT ![c].pc = "append"]
  /\ UNCHANGED <<taken, sess, client, loaded, putsCrossed>>
AppendBytes(data, start, chunk) ==
  LET size == IF Len(data) > start + Len(chunk) THEN Len(data) ELSE start + Len(chunk)
  IN [i \in 1 .. size |-> IF i > start /\ i <= start + Len(chunk) THEN chunk[i - start]
                          ELSE IF i <= Len(data) THEN data[i] ELSE Gap]
appendResumableRange(c) ==
  /\ put[c].pc = "append"
  /\ IF sess.there
     THEN /\ sess' = [sess EXCEPT !.data = AppendBytes(@, put[c].start, put[c].body)]
          /\ put' = [put EXCEPT ![c].pc = "received"]
     ELSE Answer(c, "notFound", 0) /\ UNCHANGED sess
  /\ UNCHANGED <<taken, client, loaded, putsCrossed>>
\* ReceivedBytes is 0 once the session is gone; without a total in the range
\* any chunk is the last.
ReceivedBytes(s) == IF s.there THEN Len(s.data) ELSE 0
CheckReceived(c) ==
  /\ put[c].pc = "received"
  /\ IF put[c].ranged /\ client.knowsTotal /\ ReceivedBytes(sess) < Len(File)
     THEN Answer(c, "resume", ReceivedBytes(sess))
     ELSE put' = [put EXCEPT ![c].pc = "media"]
  /\ UNCHANGED <<taken, sess, client, loaded, putsCrossed>>
\* The second Get is used unchecked: a nil session ends the request in a panic.
TakeMedia(c) ==
  /\ put[c].pc = "media"
  /\ IF sess.there THEN put' = [put EXCEPT ![c] = [pc |-> "delete", media |-> sess.data]]
     ELSE Answer(c, "panic", 0)
  /\ UNCHANGED <<taken, sess, client, loaded, putsCrossed>>
DeleteSession(s) == [s EXCEPT !.there = FALSE]
DeleteUpload(c) ==
  /\ put[c].pc = "delete"
  /\ sess' = DeleteSession(sess)
  /\ put' = [put EXCEPT ![c].pc = "run"]
  /\ UNCHANGED <<taken, client, loaded, putsCrossed>>
runUploadedLoadJob(c) ==
  /\ put[c].pc = "run"
  /\ loaded' = Append(loaded, put[c].media)
  /\ Answer(c, "job", 0)
  /\ UNCHANGED <<taken, sess, client, putsCrossed>>
\* The answer reaches the client unless it has given up on the request.
ClientHears(c) ==
  /\ put[c].pc = "reply"
  /\ client' = IF client.waits # c THEN client
               ELSE IF put[c].what = "resume" THEN [client EXCEPT !.waits = "none", !.at = put[c].at]
               ELSE [client EXCEPT !.waits = "none", !.done = put[c].what # "panic"]
  /\ put' = [put EXCEPT ![c] = NoRequest]
  /\ UNCHANGED <<taken, sess, loaded, putsCrossed>>
ClientTimesOut ==
  /\ client.waits # "none" /\ client' = [client EXCEPT !.waits = "none"]
  /\ UNCHANGED <<taken, sess, put, loaded, putsCrossed>>
SessionExpires ==
  /\ Taken /\ sess.there /\ sess' = [sess EXCEPT !.there = FALSE]
  /\ UNCHANGED <<put, client, loaded, putsCrossed>>
UploadNext ==
  \/ \E c \in Callers : \/ \E n \in 0 .. Len(File), ranged \in BOOLEAN : SendPut(c, n, ranged)
                        \/ handleJobInsertUploadPut(c) \/ appendResumableRange(c)
                        \/ CheckReceived(c) \/ TakeMedia(c) \/ DeleteUpload(c)
                        \/ runUploadedLoadJob(c) \/ ClientHears(c)
  \/ ClientTimesOut \/ SessionExpires

\* Whatever chunks a client resends after timeouts, a job started by an upload
\* whose chunks carry the total loads the file's bytes, each once and in order.
UploadsLoadedWhole == client.knowsTotal => \A i \in DOMAIN loaded : loaded[i] = File
\* A session starts at most one load job, the last chunk being resent or not,
\* unless the gateway was still serving one of its PUTs when the next arrived.
UploadsRunOnce == putsCrossed \/ Len(loaded) <= 1

(***************************************************************************)
(* Transfer configs and their runs                                         *)
(***************************************************************************)
\* A config is its creation and its latest version, both drawn from serial;
\* a run remembers the creation it was copied under, and `deleted` whether
\* that config was deleted while its query was running.
Configs == {"f1"}
NoConfig == [born |-> 0, version |-> 0]
TransferInit ==
  /\ configs = [n \in Configs |-> NoConfig] /\ runs = {} /\ serial = 0
  /\ executing = [c \in Callers |-> NoRequest]
RunOf(n, cfg, state, deleted) ==
  [config |-> n, of |-> cfg, id |-> serial', state |-> state, deleted |-> deleted]

\* A scheduled query's first run is recorded under the lock that creates it.
finishCreateTransferConfig(n, state) ==
  /\ Taken /\ configs[n] = NoConfig /\ serial' = serial + 1
  /\ configs' = [configs EXCEPT ![n] = [born |-> serial', version |-> serial']]
  /\ runs' = runs \cup {RunOf(n, configs'[n], state, FALSE)}
  /\ UNCHANGED executing
handlePatchConfig(n) ==
  /\ Taken /\ configs[n] # NoConfig /\ serial' = serial + 1
  /\ configs' = [configs EXCEPT ![n].version = serial']
  /\ UNCHANGED <<runs, executing>>
KeepsRuns(n) == runs
RunsAfterDelete(n) == {r \in runs : r.config # n}
handleDeleteConfig(n) ==
  /\ Taken /\ configs[n] # NoConfig
  /\ configs' = [configs EXCEPT ![n] = NoConfig]
  /\ runs' = RunsAfterDelete(n)
  /\ executing' = [c \in Callers |-> IF executing[c].pc = "runs" /\ executing[c].config = n
                                      THEN [executing[c] EXCEPT !.deleted = TRUE] ELSE executing[c]]
  /\ UNCHANGED serial
\* handleCreateRun and handleStartManualRuns copy the config, run its query
\* unlocked, and record the run without looking at the config again.
handleCreateRun(c, n) ==
  /\ Taken /\ executing[c].pc = "idle" /\ configs[n] # NoConfig
  /\ executing' = [executing EXCEPT ![c] = [pc |-> "runs", config |-> n, cfg |-> configs[n],
                                            deleted |-> FALSE]]
  /\ UNCHANGED <<configs, runs, serial>>
RecordRun(c, state) ==
  /\ executing[c].pc = "runs" /\ serial' = serial + 1
  /\ runs' = runs \cup {RunOf(executing[c].config, executing[c].cfg, state, executing[c].deleted)}
  /\ executing' = [executing EXCEPT ![c] = NoRequest]
  /\ UNCHANGED <<taken, configs>>
TransferNext ==
  \/ \E n \in Configs, state \in {"SUCCEEDED", "FAILED"} :
       \/ finishCreateTransferConfig(n, state)
       \/ \E c \in Callers : RecordRun(c, state)
  \/ \E n \in Configs : \/ handlePatchConfig(n) \/ handleDeleteConfig(n)
                        \/ \E c \in Callers : handleCreateRun(c, n)

\* The runs listed under a config are runs of that creation of it, never of a
\* namesake deleted before, and of a version it has had; the exception is a
\* run whose query was still executing when the config was deleted.
RunsBelongToConfig ==
  \A r \in runs : ~r.deleted => /\ r.of.born = configs[r.config].born
                               /\ r.of.version <= configs[r.config].version

(***************************************************************************)
(* The cached rows of a query, page by page                                *)
(***************************************************************************)
\* A client reads from startIndex and follows page tokens; rows counts what
\* it has been given, last is the state of its latest request.
WalkInit == paging \in [start : 0 .. Width - 1, at : {0}, rows : {<<>>}, last : {"begun"}]
TokenPastPage(end) == end + 1
PageToken(end) == end
paginateResults(maxResults) ==
  LET from == IF paging.last = "begun" THEN paging.start ELSE paging.at
      sum == (from + maxResults) % Width
      end == IF sum < RowCount THEN sum ELSE RowCount
  IN /\ Taken /\ paging.last \in {"begun", "more"}
     /\ paging' = IF maxResults = 0 THEN [paging EXCEPT !.last = "asked for none"]
                ELSE IF from >= RowCount THEN [paging EXCEPT !.last = "end"]
                ELSE IF end < from THEN [paging EXCEPT !.last = "panic"]
                ELSE [paging EXCEPT !.rows = @ \o [i \in 1 .. end - from |-> from + i],
                                  !.at = IF end < RowCount THEN PageToken(end) ELSE 0,
                                  !.last = IF end < RowCount THEN "more" ELSE "end"]
WalkNext == \E maxResults \in 0 .. Width - 1 : paginateResults(maxResults)

\* Pages of any sizes, asked for by token until there is none, are together
\* the rows from startIndex on, each once and in order; a position and page
\* size whose sum wraps end the walk in a panic, never in a shortened result.
PagesCoverResult ==
  /\ \A i \in DOMAIN paging.rows : paging.rows[i] = paging.start + i
  /\ paging.last = "end" /\ paging.start < RowCount => Len(paging.rows) = RowCount - paging.start

(***************************************************************************)
(* The engine subprocess                                                   *)
(***************************************************************************)
\* at is where Run is; ready says whether the engine was awaited with success.
ProcInit == proc \in [at : {"prestart"}, engine : {"none"}, ready : {FALSE},
                      http : {FALSE}, binary : BOOLEAN]
PreStartHook ==
  /\ Taken /\ proc.at = "prestart"
  /\ \E next \in {"start", "returned"} : proc' = [proc EXCEPT !.at = next]
startEngine ==
  /\ proc.at = "start" /\ UNCHANGED taken
  /\ \/ proc' = [proc EXCEPT !.at = IF proc.binary THEN "wait" ELSE "hook",
                             !.engine = IF proc.binary THEN "starting" ELSE "none"]
     \/ proc.binary /\ proc' = [proc EXCEPT !.at = "returned"]
EngineServes ==
  /\ proc.engine = "starting" /\ proc' = [proc EXCEPT !.engine = "serving"] /\ UNCHANGED taken
EngineExits ==
  /\ proc.engine \in {"starting", "serving"} /\ proc' = [proc EXCEPT !.engine = "gone"]
  /\ UNCHANGED taken
\* Dial or WaitForReady fails: Run returns and nobody stops the process.
connectAndWaitForEngine ==
  /\ proc.at = "wait" /\ UNCHANGED taken
  /\ \/ proc.engine = "serving" /\ proc' = [proc EXCEPT !.at = "hook", !.ready = TRUE]
     \/ proc' = [proc EXCEPT !.at = "returned"]
ForgetsEngine(next) == IF next = "failed" THEN "returned" ELSE next
OnHookError(next) == IF next = "failed" THEN "stop" ELSE next
postEngineHook ==
  /\ proc.at = "hook" /\ UNCHANGED taken
  /\ \E next \in {"grpc", "failed"} : proc' = [proc EXCEPT !.at = OnHookError(next)]
startStorageGRPC ==
  /\ proc.at = "grpc" /\ UNCHANGED taken
  /\ \/ proc' = [proc EXCEPT !.at = "serve", !.http = TRUE]
     \/ proc' = [proc EXCEPT !.at = "stop"]
waitForShutdown ==
  /\ proc.at = "serve" /\ UNCHANGED taken /\ proc' = [proc EXCEPT !.at = "stop", !.http = FALSE]
\* Interrupt, five seconds of grace, then Kill, and the wait for the exit.
stopEngine ==
  /\ proc.at = "stop" /\ UNCHANGED taken
  /\ proc' = [proc EXCEPT !.at = IF proc.engine = "none" THEN "returned" ELSE "grace"]
GraceEnds ==
  /\ proc.at = "grace" /\ UNCHANGED taken
  /\ \/ proc.engine = "gone" /\ proc' = [proc EXCEPT !.at = "returned"]
     \/ proc.engine # "gone" /\ proc' = [proc EXCEPT !.engine = "gone"]
ProcNext == \/ PreStartHook \/ startEngine \/ EngineServes \/ EngineExits
            \/ connectAndWaitForEngine \/ postEngineHook \/ startStorageGRPC
            \/ waitForShutdown \/ stopEngine \/ GraceEnds

\* The gateway serves HTTP only after its engine has answered a health check,
\* and when Run returns no engine it had waited for is left running.
EngineEndsWithGateway ==
  /\ proc.http /\ proc.binary => proc.ready
  /\ proc.at = "returned" /\ proc.ready => proc.engine = "gone"

\* What a client hands over or fetches in parts is whole at the end: the chunks
\* of an upload in the one load job it starts (appendResumableRange), and the
\* rows of a result over its pages (paginateResults).
PartsMakeTheWhole == UploadsLoadedWhole /\ UploadsRunOnce /\ PagesCoverResult

StoreInit == taken = 0 /\ ConnInit /\ UploadInit /\ TransferInit /\ WalkInit /\ ProcInit

================================================================================
