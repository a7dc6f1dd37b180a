---------------------------- MODULE StorageWrite ----------------------------
(***************************************************************************)
(* The engine's Storage Write service (frontend/handlers/storage_write*.cc *)
(* and .h): write streams, the bidirectional AppendRows call, FlushRows,   *)
(* FinalizeWriteStream and BatchCommitWriteStreams, running over the       *)
(* DuckDB-backed table store.                                              *)
(*                                                                         *)
(* A client c stands for one gRPC handler thread.  Every step below is one *)
(* critical section of the service (StorageWriteService::mu_) or one call  *)
(* into the store (DuckDBStorage::mu_); whatever happens between two       *)
(* critical sections of a handler may interleave with any other handler.   *)
(* A call that is refused before it changes any state is a stuttering step *)
(* and has no action.                                                      *)
(*                                                                         *)
(* Rows are opaque tokens that say which stream they were sent on.  A      *)
(* schema is abstracted to its shape, the number of top-level columns,     *)
(* which is all the shape checks look at.                                  *)
(***************************************************************************)
EXTENDS Integers, Sequences, FiniteSets

CONSTANTS
  Clients,      \* handler threads
  Tables,       \* table ids
  Shapes,       \* column counts a table may have
  MaxStreams,   \* bound: streams minted between two restarts
  MaxBatch,     \* bound: rows in one AppendRows request
  MaxRows,      \* bound: rows sent on one stream name
  MaxCommits,   \* bound: streams listed in one BatchCommitWriteStreams
  MaxTableRows, \* bound: a table this long takes no further batch commit
  MaxDrops,     \* bound: table drops
  MaxCrashes    \* bound: engine restarts

ASSUME ShapesAssumption == Shapes # {}

ASSUME BoundsAssumption ==
  /\ MaxStreams \in Nat
  /\ MaxBatch \in Nat
  /\ MaxRows \in Nat
  /\ MaxCommits \in Nat
  /\ MaxTableRows \in Nat
  /\ MaxDrops \in Nat
  /\ MaxCrashes \in Nat

VARIABLES
  streams,      \* streams_: stream name -> StreamState, Absent when not a key
  nextStreamId, \* next_stream_id_
  tables,       \* the store: table -> existence, shape and rows
  call,         \* the RPC each handler thread is executing, with its locals
  sent,         \* rows sent so far on each stream name (freshness of tokens)
  results,      \* history: the AppendResults computed so far
  closed,       \* history: streams finalized, and the rows sent to them before
  drops,        \* table drops so far
  crashes       \* engine restarts so far

vars == <<streams, nextStreamId, tables, call, sent, results, closed, drops,
          crashes>>

-----------------------------------------------------------------------------

DefaultId == 0

StreamNames == Tables \X (0..MaxStreams)

IsDefault(nm) == nm[2] = DefaultId

TableOf(nm) == nm[1]

StreamTypes == {"COMMITTED", "BUFFERED", "PENDING"}

BufferingTypes == {"BUFFERED", "PENDING"}

Row == [st : StreamNames, ep : Nat, k : Nat]

StreamState ==
  [type : StreamTypes \cup {"ABSENT"}, shape : Shapes,
   committed_rows : Nat, buffered_rows : Seq(Row), flushed_rows : Nat,
   finalized : BOOLEAN]

NewStream(type, shape) ==
  [type |-> type, shape |-> shape, committed_rows |-> 0,
   buffered_rows |-> <<>>, flushed_rows |-> 0, finalized |-> FALSE]

AnyShape == CHOOSE sh \in Shapes : TRUE

Absent == NewStream("ABSENT", AnyShape)

Exists(nm) == streams[nm].type # "ABSENT"

\* One entry of the `commits` vector of BatchCommitWriteStreams.
PendingCommit == [st : StreamNames, shape : Shapes, rows : Seq(Row)]

Call ==
  [pc : {"idle"}]
    \cup [pc : {"mint"}, table : Tables, type : StreamTypes, shape : Shapes]
    \cup [pc : {"open"}, st : StreamNames]
    \cup [pc : {"ensure"}, st : StreamNames, schema : Shapes, shape : Shapes,
          batch : Seq(Row)]
    \cup [pc : {"load"}, st : StreamNames, shape : Shapes, batch : Seq(Row)]
    \cup [pc : {"buffer", "store", "count"}, st : StreamNames, shape : Shapes,
          batch : Seq(Row)]
    \cup [pc : {"commit"}, commits : Seq(PendingCommit), next : Nat]

Idle == [pc |-> "idle"]

Open(nm) == [pc |-> "open", st |-> nm]

Table == [exists : BOOLEAN, shape : Shapes, rows : Seq(Row)]

TypeOK ==
  /\ streams \in [StreamNames -> StreamState]
  /\ nextStreamId \in 1..(MaxStreams + 1)
  /\ tables \in [Tables -> Table]
  /\ call \in [Clients -> Call]
  /\ sent \in [StreamNames -> Nat]
  /\ results \subseteq [st : StreamNames, ep : Nat, off : Nat, rows : Seq(Row)]
  /\ closed \subseteq [st : StreamNames, ep : Nat, sent : Nat, count : Nat]
  /\ drops \in Nat
  /\ crashes \in Nat

Init ==
  /\ streams = [nm \in StreamNames |-> Absent]
  /\ nextStreamId = 1
  /\ tables = [t \in Tables |->
                 [exists |-> TRUE, shape |-> AnyShape, rows |-> <<>>]]
  /\ call = [c \in Clients |-> Idle]
  /\ sent = [nm \in StreamNames |-> 0]
  /\ results = {}
  /\ closed = {}
  /\ drops = 0
  /\ crashes = 0

-----------------------------------------------------------------------------
(* The store, as the service sees it.  An append either lands the whole    *)
(* batch behind the rows already there or changes nothing, because the new *)
(* parquet file is written aside and renamed over the old one.  It may     *)
(* fail at any time: the table is gone, its shape no longer matches, or    *)
(* DuckDB or the file system reports an error.                             *)

CanAppend(t, shape) == tables[t].exists /\ tables[t].shape = shape

AppendToTable(t, rows) ==
  tables' = [tables EXCEPT ![t].rows = @ \o rows]

\* DropTable and CreateTable reach the store from other handlers.
DropTable(t) ==
  /\ drops < MaxDrops
  /\ tables[t].exists
  /\ tables' = [tables EXCEPT ![t].exists = FALSE, ![t].rows = <<>>]
  /\ drops' = drops + 1
  /\ UNCHANGED <<streams, nextStreamId, call, sent, results, closed, crashes>>

CreateTable(t, shape) ==
  /\ ~tables[t].exists
  /\ tables' = [tables EXCEPT ![t] = [exists |-> TRUE, shape |-> shape,
                                      rows |-> <<>>]]
  /\ UNCHANGED <<streams, nextStreamId, call, sent, results, closed, drops,
                 crashes>>

-----------------------------------------------------------------------------
(* CreateWriteStream: the schema is fetched from the store first, the      *)
(* stream is minted under the service's lock afterwards.                   *)

Goto(c, next) == call' = [call EXCEPT ![c] = next]

Minting == {c \in Clients : call[c].pc = "mint"}

CreateWriteStream(c, t, type) ==
  /\ call[c] = Idle
  /\ nextStreamId + Cardinality(Minting) <= MaxStreams
  /\ tables[t].exists
  /\ Goto(c, [pc |-> "mint", table |-> t, type |-> type,
              shape |-> tables[t].shape])
  /\ UNCHANGED <<streams, nextStreamId, tables, sent, results, closed, drops,
                 crashes>>

MintStream(c) ==
  /\ call[c].pc = "mint"
  /\ nextStreamId <= MaxStreams
  /\ streams' = [streams EXCEPT ![<<call[c].table, nextStreamId>>] =
                   NewStream(call[c].type, call[c].shape)]
  /\ nextStreamId' = nextStreamId + 1
  /\ Goto(c, Idle)
  /\ UNCHANGED <<tables, sent, results, closed, drops, crashes>>

-----------------------------------------------------------------------------
(* AppendRows: one call stays bound to one stream and handles requests one *)
(* after another.  For each request it binds (minting the `_default`       *)
(* stream on first use), snapshots the stream's session under the lock,    *)
(* checks the batch's shape, and commits the batch under a second lock.    *)

Batch(nm, n) ==
  [i \in 1..n |-> [st |-> nm, ep |-> crashes, k |-> sent[nm] + i]]

\* Takes the rows of a request off the client's supply.
Send(nm, n) ==
  /\ sent[nm] + n <= MaxRows
  /\ sent' = [sent EXCEPT ![nm] = @ + n]

\* The call accepts a request for nm: it is not yet bound, or bound to nm.
MayBind(c, nm) == call[c] = Idle \/ call[c] = Open(nm)

BindWriteStream(c, nm, n, shape) ==
  /\ MayBind(c, nm)
  /\ ~IsDefault(nm) \/ call[c] = Open(nm)
  /\ Send(nm, n)
  /\ Goto(c, [pc |-> "load", st |-> nm, shape |-> shape,
              batch |-> Batch(nm, n)])
  /\ UNCHANGED <<streams, nextStreamId, tables, results, closed, drops,
                 crashes>>

\* A request that names the `_default` stream: GetSchema, then the lock.
BindDefaultStream(c, nm, n, shape) ==
  /\ MayBind(c, nm)
  /\ IsDefault(nm)
  /\ tables[TableOf(nm)].exists
  /\ Send(nm, n)
  /\ Goto(c, [pc |-> "ensure", st |-> nm, schema |-> tables[TableOf(nm)].shape,
              shape |-> shape, batch |-> Batch(nm, n)])
  /\ UNCHANGED <<streams, nextStreamId, tables, results, closed, drops,
                 crashes>>

\* Mutant: the stream is minted without looking whether it is there.
DefaultStream_NoLookup(nm, schema) == NewStream("COMMITTED", schema)

DefaultStream(nm, schema) ==
  IF Exists(nm) THEN streams[nm] ELSE NewStream("COMMITTED", schema)

EnsureDefaultStream(c) ==
  /\ call[c].pc = "ensure"
  /\ streams' = [streams EXCEPT ![call[c].st] =
                   DefaultStream(call[c].st, call[c].schema)]
  /\ Goto(c, [pc |-> "load", st |-> call[c].st, shape |-> call[c].shape,
              batch |-> call[c].batch])
  /\ UNCHANGED <<nextStreamId, tables, sent, results, closed, drops, crashes>>

\* The call ends: the client half-closed or went away, a rebind was
\* attempted, or the `_default` stream's table is gone.
CloseAppendRows(c) ==
  /\ call[c].pc = "open"
  /\ Goto(c, Idle)
  /\ UNCHANGED <<streams, nextStreamId, tables, sent, results, closed, drops,
                 crashes>>

ShapeError(c) == call[c].batch # <<>> /\ call[c].shape # streams[call[c].st].shape

\* The call ends with NOT_FOUND or FAILED_PRECONDITION.
Refused(nm) == ~Exists(nm) \/ streams[nm].finalized

LoadStreamSession(c) ==
  /\ call[c].pc = "load"
  /\ LET s == streams[call[c].st] IN
     \/ /\ Refused(call[c].st)
        /\ Goto(c, Idle)
     \/ /\ ~Refused(call[c].st)
        /\ ShapeError(c)
        /\ Goto(c, Open(call[c].st))
     \/ /\ ~Refused(call[c].st)
        /\ ~ShapeError(c)
        /\ Goto(c, [pc |-> IF s.type \in BufferingTypes THEN "buffer"
                           ELSE "store",
                    st |-> call[c].st, shape |-> s.shape,
                    batch |-> call[c].batch])
  /\ UNCHANGED <<streams, nextStreamId, tables, sent, results, closed, drops,
                 crashes>>

\* Mutant: the offset is read after the cursor has moved.
PriorOffset_AfterBatch(nm, rows) == streams[nm].committed_rows + Len(rows)

PriorOffset(nm, rows) == streams[nm].committed_rows

\* Mutant: the cursor counts requests instead of rows.
Advanced_PerRequest(s, rows) == [s EXCEPT !.committed_rows = @ + 1]

Advanced(s, rows) == [s EXCEPT !.committed_rows = @ + Len(rows)]

Buffered(s, rows) ==
  [Advanced(s, rows) EXCEPT !.buffered_rows = s.buffered_rows \o rows]

\* The AppendResult of a batch: the stream's cursor before the batch.  (The
\* history leaves out empty batches, whose result names no row.)
Answer(c) ==
  /\ results' = results \cup
       {r \in {[st |-> call[c].st, ep |-> crashes,
                off |-> PriorOffset(call[c].st, call[c].batch),
                rows |-> call[c].batch]} : r.rows # <<>>}
  /\ Goto(c, Open(call[c].st))

\* BUFFERED and PENDING.  The finalized flag is not looked at again.
CommitBufferedAppendRows(c) ==
  /\ call[c].pc = "buffer"
  /\ streams' = [streams EXCEPT ![call[c].st] =
                   Buffered(streams[call[c].st], call[c].batch)]
  /\ Answer(c)
  /\ UNCHANGED <<nextStreamId, tables, sent, closed, drops, crashes>>

\* Mutant: the store's status is not looked at.
StoreImmediateAppendRows_Unchecked(c) ==
  /\ call[c].pc = "store"
  /\ \/ /\ CanAppend(TableOf(call[c].st), call[c].shape)
        /\ AppendToTable(TableOf(call[c].st), call[c].batch)
     \/ UNCHANGED tables
  /\ Goto(c, [call[c] EXCEPT !.pc = "count"])
  /\ UNCHANGED <<streams, nextStreamId, sent, results, closed, drops, crashes>>

\* COMMITTED and `_default`, first half: the store, without the lock.
StoreImmediateAppendRows(c) ==
  /\ call[c].pc = "store"
  /\ LET t == TableOf(call[c].st) IN
     \/ /\ call[c].batch = <<>> \/ CanAppend(t, call[c].shape)
        /\ AppendToTable(t, call[c].batch)
        /\ Goto(c, [pc |-> "count", st |-> call[c].st, shape |-> call[c].shape,
                    batch |-> call[c].batch])
     \/ \* wrong shape: answered in the envelope, the call goes on
        /\ call[c].batch # <<>>
        /\ tables[t].exists /\ tables[t].shape # call[c].shape
        /\ Goto(c, Open(call[c].st))
        /\ UNCHANGED tables
     \/ \* no table, or an I/O error: the call ends
        /\ call[c].batch # <<>>
        /\ Goto(c, Idle)
        /\ UNCHANGED tables
  /\ UNCHANGED <<streams, nextStreamId, sent, results, closed, drops, crashes>>

\* Second half: the cursor, under the lock.
CountImmediateAppendRows(c) ==
  /\ call[c].pc = "count"
  /\ streams' = [streams EXCEPT ![call[c].st] =
                   Advanced(streams[call[c].st], call[c].batch)]
  /\ Answer(c)
  /\ UNCHANGED <<nextStreamId, tables, sent, closed, drops, crashes>>

-----------------------------------------------------------------------------
(* FlushRows holds the service's lock across the store's append.           *)

\* Mutant: a flush starts from the first buffered row again.
Unflushed_FromStart(s, offset) == SubSeq(s.buffered_rows, 1, offset + 1)

\* Mutant: a flush stores the rest of the buffer, whatever the offset.
Unflushed_ToEnd(s, offset) ==
  SubSeq(s.buffered_rows, s.flushed_rows + 1, Len(s.buffered_rows))

Unflushed(s, offset) ==
  SubSeq(s.buffered_rows, s.flushed_rows + 1, offset + 1)

FlushRows(nm, offset) ==
  LET s == streams[nm] IN
  /\ s.type = "BUFFERED"
  /\ ~s.finalized
  /\ offset \in 0..(Len(s.buffered_rows) - 1)
  /\ offset >= s.flushed_rows
  /\ CanAppend(TableOf(nm), s.shape)
  /\ AppendToTable(TableOf(nm), Unflushed(s, offset))
  /\ streams' = [streams EXCEPT ![nm].flushed_rows = offset + 1]
  /\ UNCHANGED <<nextStreamId, call, sent, results, closed, drops, crashes>>

RowCount(s) ==
  CASE s.type = "BUFFERED" -> s.flushed_rows
    [] s.type = "PENDING"  -> Len(s.buffered_rows)
    [] OTHER               -> s.committed_rows

FinalizeWriteStream(nm) ==
  /\ Exists(nm)
  /\ ~streams[nm].finalized
  /\ streams' = [streams EXCEPT ![nm].finalized = TRUE]
  /\ closed' = closed \cup
       {[st |-> nm, ep |-> crashes, sent |-> sent[nm],
         count |-> RowCount(streams[nm])]}
  /\ UNCHANGED <<nextStreamId, tables, call, sent, results, drops, crashes>>

-----------------------------------------------------------------------------
(* BatchCommitWriteStreams: all listed streams are checked and their       *)
(* buffers copied under one lock; the copies are appended to the store one *)
(* by one after the lock is released.                                      *)

\* Mutant: a stream may be committed before it is finalized.
Committable_Unfinalized(nm) == streams[nm].type = "PENDING"

Committable(nm) == streams[nm].type = "PENDING" /\ streams[nm].finalized

BatchCommitWriteStreams(c, names) ==
  /\ call[c] = Idle
  /\ names # <<>>
  /\ \A i \in DOMAIN names :
       /\ Committable(names[i])
       /\ Len(tables[TableOf(names[i])].rows) <= MaxTableRows
  /\ Goto(c, [pc |-> "commit", next |-> 1,
              commits |-> [i \in DOMAIN names |->
                             [st |-> names[i],
                              shape |-> streams[names[i]].shape,
                              rows |-> streams[names[i]].buffered_rows]]])
  /\ UNCHANGED <<streams, nextStreamId, tables, sent, results, closed, drops,
                 crashes>>

\* Mutant: an empty stream is skipped without moving on.
NextCommit_StuckOnEmpty(r) ==
  IF r.commits[r.next].rows = <<>> THEN r
  ELSE IF r.next = Len(r.commits) THEN Idle
  ELSE [r EXCEPT !.next = @ + 1]

NextCommit(r) ==
  IF r.next = Len(r.commits) THEN Idle ELSE [r EXCEPT !.next = @ + 1]

CommitNext(c) ==
  /\ call[c].pc = "commit"
  /\ LET p == call[c].commits[call[c].next]
     IN \/ /\ p.rows = <<>> \/ CanAppend(TableOf(p.st), p.shape)
           /\ AppendToTable(TableOf(p.st), p.rows)
           /\ Goto(c, NextCommit(call[c]))
        \/ \* the store refuses: the call returns the error
           /\ p.rows # <<>>
           /\ Goto(c, Idle)
           /\ UNCHANGED tables
  /\ UNCHANGED <<streams, nextStreamId, sent, results, closed, drops, crashes>>

-----------------------------------------------------------------------------
(* An engine restart: streams and calls live in memory, the tables on      *)
(* disk; stream ids are minted from 1 again.                               *)

Restart ==
  /\ crashes < MaxCrashes
  /\ crashes' = crashes + 1
  /\ streams' = [nm \in StreamNames |-> Absent]
  /\ nextStreamId' = 1
  /\ call' = [c \in Clients |-> Idle]
  /\ UNCHANGED <<tables, sent, results, closed, drops>>

-----------------------------------------------------------------------------

AppendRowsStep(c) ==
  \/ EnsureDefaultStream(c)
  \/ LoadStreamSession(c)
  \/ CommitBufferedAppendRows(c)
  \/ StoreImmediateAppendRows(c)
  \/ CountImmediateAppendRows(c)

Next ==
  \/ \E c \in Clients :
       \/ \E t \in Tables, type \in StreamTypes : CreateWriteStream(c, t, type)
       \/ MintStream(c)
       \/ \E nm \in StreamNames, n \in 0..MaxBatch, shape \in Shapes :
            BindWriteStream(c, nm, n, shape) \/ BindDefaultStream(c, nm, n, shape)
       \/ AppendRowsStep(c)
       \/ CloseAppendRows(c)
       \/ \E k \in 1..MaxCommits : \E names \in [1..k -> StreamNames] :
            BatchCommitWriteStreams(c, names)
       \/ CommitNext(c)
  \/ \E nm \in StreamNames :
       \/ \E offset \in 0..MaxRows : FlushRows(nm, offset)
       \/ FinalizeWriteStream(nm)
  \/ \E t \in Tables :
       \/ DropTable(t)
       \/ \E shape \in Shapes : CreateTable(t, shape)
  \/ Restart

Spec == Init /\ [][Next]_vars

\* A handler that has started keeps running: gRPC gives each call a thread.
Fairness ==
  \A c \in Clients : WF_vars(MintStream(c) \/ AppendRowsStep(c) \/ CommitNext(c))

FairSpec == Spec /\ Fairness

-----------------------------------------------------------------------------
(* Properties.                                                             *)

\* The rows of stream nm, as minted since the last restart, that a reader of
\* its table sees, in table order.
Visible(nm) ==
  LET ofStream(r) == r.st = nm /\ r.ep = crashes
  IN SelectSeq(tables[TableOf(nm)].rows, ofStream)

\* flushed_rows is exact: what readers see of a BUFFERED stream is its first
\* flushed_rows buffered rows, in order and once each, whatever FlushRows
\* calls are repeated, fail or race with appends.  Rows flushed before the
\* table was dropped are missing from the front, and only those.
FlushedPrefix ==
  \A nm \in StreamNames : streams[nm].type = "BUFFERED" =>
    \E m \in 0..streams[nm].flushed_rows :
      /\ Visible(nm) = SubSeq(streams[nm].buffered_rows, m + 1,
                              streams[nm].flushed_rows)
      /\ drops = 0 => m = 0

\* A PENDING stream stays invisible until it is finalized and batch
\* committed, and a commit publishes only rows the stream buffered.
PendingInvisible ==
  \A t \in Tables : \A i \in 1..Len(tables[t].rows) :
    LET r == tables[t].rows[i] IN
    (r.ep = crashes /\ streams[r.st].type = "PENDING") =>
      /\ streams[r.st].finalized
      /\ \E j \in 1..Len(streams[r.st].buffered_rows) :
           streams[r.st].buffered_rows[j] = r

\* The offsets answered on one stream never overlap and never run past the
\* stream's cursor, even when several calls append to it at once; on a
\* buffering stream the offset is the position of the batch in the buffer.
OffsetsTile ==
  /\ \A a \in results : a.ep = crashes =>
       /\ a.off + Len(a.rows) <= streams[a.st].committed_rows
       /\ streams[a.st].type \in BufferingTypes =>
            \A i \in 1..Len(a.rows) :
              streams[a.st].buffered_rows[a.off + i] = a.rows[i]
  /\ \A a, b \in results :
       (a.ep = b.ep /\ a.st = b.st /\ a # b) =>
         a.off + Len(a.rows) <= b.off \/ b.off + Len(b.rows) <= a.off

RowsOf(seq) == {seq[i] : i \in DOMAIN seq}

\* Rows of stream nm that are in the store but not yet in its cursor.
Uncounted(nm) ==
  UNION {RowsOf(call[c].batch) :
           c \in {d \in Clients : call[d].pc = "count" /\ call[d].st = nm}}

\* The cursor of a COMMITTED or `_default` stream is never ahead of the store:
\* it counts the rows in the table except those whose append has landed but
\* whose handler has not taken the lock again.
CursorTracksStore ==
  \A nm \in StreamNames : streams[nm].type = "COMMITTED" =>
    LET behind == Len(Visible(nm)) - Cardinality(Uncounted(nm))
    IN IF drops = 0 THEN streams[nm].committed_rows = behind
       ELSE streams[nm].committed_rows >= behind

\* An acknowledged row is durable: once an AppendResult has been computed for
\* a batch on a committing stream, the batch is in the table, contiguous and
\* once, until the table is dropped; an engine restart does not lose it.
AckedDurable ==
  drops = 0 =>
    \A a \in results :
      (IsDefault(a.st) \/ (a.ep = crashes /\ streams[a.st].type = "COMMITTED")) =>
        LET rows == tables[TableOf(a.st)].rows IN
        Cardinality({i \in 1..(Len(rows) - Len(a.rows) + 1) :
                       SubSeq(rows, i, i + Len(a.rows) - 1) = a.rows}) = 1

\* FinalizeWriteStream answers a row count no larger than what the stream
\* ends up with, and closes the stream to requests that arrive after it:
\* every row that is buffered, or in the table, was sent before.  (A batch
\* whose session was loaded before may still land.)
ClosedToLaterRows ==
  \A f \in closed : f.ep = crashes =>
    LET s == streams[f.st] IN
    /\ f.count <= RowCount(s)
    /\ \A i \in 1..Len(s.buffered_rows) : s.buffered_rows[i].k <= f.sent
    /\ \A i \in 1..Len(Visible(f.st)) : Visible(f.st)[i].k <= f.sent

\* The service's books are right: its state is well-formed, a cursor never runs
\* ahead of the store, and a finalized stream holds what it was answered to hold
\* and nothing sent later.
RowsAccountedFor == TypeOK /\ CursorTracksStore /\ ClosedToLaterRows

\* A stream may go from state s to state t while the engine runs.
Grown(s, t) ==
  /\ t.type = s.type
  /\ t.shape = s.shape
  /\ t.committed_rows >= s.committed_rows
  /\ t.flushed_rows >= s.flushed_rows
  /\ Len(t.buffered_rows) >= Len(s.buffered_rows)
  /\ \A i \in 1..Len(s.buffered_rows) : t.buffered_rows[i] = s.buffered_rows[i]
  /\ s.finalized => t.finalized

\* Between restarts a stream is never replaced, re-opened or shortened: its
\* pinned type and schema stay, its cursors and its buffer only grow, and
\* finalized is final.  In particular a second `_default` append does not
\* mint the stream again.
StreamsOnlyGrow ==
  [][crashes' = crashes =>
       \A nm \in StreamNames : Exists(nm) => Grown(streams[nm], streams'[nm])]_vars

\* Every handler that has started a step sequence gets back to answering or
\* ending its call; BatchCommitWriteStreams reaches the end of its list.
CallsReturn ==
  \A c \in Clients :
    call[c].pc \notin {"idle", "open"} ~> call[c].pc \in {"idle", "open"}

-----------------------------------------------------------------------------
(* The service as an implementation of WritePromise.  A batch counts as    *)
(* accepted from the moment its session was loaded until it is buffered or *)
(* stored; the step that only moves the cursor is invisible there.         *)

Held(r) ==
  IF r.pc \in {"buffer", "store"} THEN {[st |-> r.st, rows |-> r.batch]} ELSE {}

Promise == INSTANCE WritePromise WITH
  Ids <- 0..MaxStreams,
  Writers <- Clients,
  kind <- [nm \in StreamNames |-> streams[nm].type],
  sealed <- [nm \in StreamNames |-> streams[nm].finalized],
  log <- [nm \in StreamNames |-> streams[nm].buffered_rows],
  shown <- [nm \in StreamNames |-> streams[nm].flushed_rows],
  accepted <- [c \in Clients |-> Held(call[c])],
  table <- [t \in Tables |-> tables[t].rows]

\* The handlers, whose steps interleave between the service's lock and the
\* store's, behave as if every call took effect at one moment: a batch is
\* taken once and whole or not at all, a flush or a commit adds to the table
\* exactly a slice of one stream's buffer, and nothing else adds to a table.
ImplementsPromise == Promise!Spec

-----------------------------------------------------------------------------
(* What the service's interface comments promise and the code does not     *)
(* keep.                                                                   *)

\* proto/storage_write.proto: "BatchCommitWriteStreams atomically commits a
\* set of PENDING streams": no reader ever sees the rows of one listed stream
\* without those of the others.  The streams are appended one by one, and a
\* failure leaves the earlier ones in the table.
BatchCommitAtomic ==
  \A c \in Clients : call[c].pc = "commit" =>
    LET landed == {i \in 1..(call[c].next - 1) : call[c].commits[i].rows # <<>>}
        due == {i \in call[c].next..Len(call[c].commits) :
                  call[c].commits[i].rows # <<>>}
    IN landed = {} \/ due = {}
=============================================================================
