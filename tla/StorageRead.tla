----------------------------- MODULE StorageRead -----------------------------
(***************************************************************************)
(* The Storage Read service of the engine: sessions, their streams, reads  *)
(* that are resumed with an offset, and stream splits                      *)
(* (storage_read.cc, storage_read_streams.cc,                              *)
(* duckdb_storage_read_stream.cc).                                         *)
(*                                                                         *)
(* A session remembers the schema and the number of rows of the table.     *)
(* Its streams are ranges of row positions; the rows themselves are read   *)
(* from the table's live file by each ReadRows, under the store's mutex,   *)
(* and then sent in pages.  Meanwhile rows are appended, DML rewrites the  *)
(* table, and the table is dropped and created again.                      *)
(*                                                                         *)
(* There is one table.  A row is its id and the schema it was written      *)
(* with; Matching are the ids that satisfy the row restriction.  All       *)
(* schemas have the same number of columns: a row with another number ends *)
(* the read with an error.                                                 *)
(***************************************************************************)
EXTENDS Integers, SequencesExt, FiniteSetsExt, TLC

CONSTANTS
  Readers,          \* clients
  Schemas,          \* schema shapes the table may have
  Matching,         \* ids of the rows that satisfy the row restriction
  Requests,         \* values of max_stream_count
  Fractions,        \* split fractions, as <<numerator, denominator>>
  kMaxStreamCount,
  kReadRowsBatchSize,
  MaxRows,          \* bound: rows ever written
  MaxRewrites,      \* bound: DML rewrites and drops
  MaxSessions,      \* bound: sessions
  MaxSplits,        \* bound: splits of a session
  MaxCancels        \* bound: reads a client gives up

ASSUME ReadConstants ==
  /\ Requests \subseteq Int
  /\ kMaxStreamCount \in Nat \ {0}
  /\ kReadRowsBatchSize \in Nat \ {0}
  /\ \A f \in Fractions : f[1] \in Nat \ {0} /\ f[2] \in Nat /\ f[1] < f[2]
  /\ MaxRows \in Nat
  /\ MaxRewrites \in Nat
  /\ MaxSessions \in Nat
  /\ MaxSplits \in Nat
  /\ MaxCancels \in Nat

VARIABLES
  table,     \* the table's sidecar and live file
  written,   \* rows ever written
  rewrites,  \* rewrites and drops so far
  sessions,  \* sessions_, in the order of their ids
  calls,     \* each client's call in progress, with its locals
  got,       \* what each client has received from each stream
  cancels    \* reads given up so far

readVars == <<table, written, rewrites, sessions, calls, got, cancels>>

-----------------------------------------------------------------------------

Row == [id : 1..MaxRows, schema : Schemas]

Rows == UNION {[1..n -> Row] : n \in 0..MaxRows}

Table == [exists : BOOLEAN, schema : Schemas, rows : Rows]

\* Names of streams: the streams of a new session, and the two a split makes.
StreamNames ==
  {<<"stream", i>> : i \in 0..(kMaxStreamCount - 1)}
    \cup ({"p", "r"} \X (0..(MaxSplits - 1)))

Partition == [row_start : 0..MaxRows, row_end : 0..MaxRows]

Receipt == [rows : Rows, drained : BOOLEAN]

Nothing == [rows |-> <<>>, drained |-> FALSE]

NoCall == [pc |-> "idle"]

Streams == UNION {{s} \X DOMAIN sessions[s].streams : s \in DOMAIN sessions}

(* Sessions, calls and receipts are built from the rows, schemas and        *)
(* stream names of the model; every stream is a range of row positions.     *)
ReadTypeOK ==
  /\ table \in Table
  /\ written \in 0..MaxRows
  /\ rewrites \in 0..MaxRewrites
  /\ cancels \in 0..MaxCancels
  /\ Len(sessions) <= MaxSessions
  /\ \A s \in DOMAIN sessions :
       /\ sessions[s].schema \in Schemas
       /\ sessions[s].where \in BOOLEAN
       /\ sessions[s].snapshot \in Rows
       /\ sessions[s].epoch \in 0..MaxRewrites
       /\ DOMAIN sessions[s].streams \subseteq StreamNames
       /\ \A n \in DOMAIN sessions[s].streams :
            sessions[s].streams[n] \in Partition
       /\ \A k \in DOMAIN sessions[s].splits :
            sessions[s].splits[k] \in StreamNames
  /\ \A c \in Readers :
       /\ calls[c].pc \in {"idle", "count", "mint", "schema", "scan", "pages"}
       /\ \A st \in DOMAIN got[c] : got[c][st] \in Receipt

ReadInit ==
  /\ table \in {[exists |-> TRUE, schema |-> sch, rows |-> <<>>] :
                  sch \in Schemas}
  /\ written = 0
  /\ rewrites = 0
  /\ sessions = <<>>
  /\ calls = [c \in Readers |-> NoCall]
  /\ got = [c \in Readers |-> <<>>]
  /\ cancels = 0

-----------------------------------------------------------------------------
(* What happens to the table meanwhile (DuckDBStorage::AppendRows,         *)
(* OverwriteRows, DropTable, CreateTable).                                 *)

RowsAppended ==
  /\ table.exists
  /\ written < MaxRows
  /\ written' = written + 1
  /\ table' = [table EXCEPT !.rows =
                 Append(@, [id |-> written + 1, schema |-> table.schema])]
  /\ UNCHANGED <<rewrites, sessions, calls, got, cancels>>

\* DELETE of one row.
OverwriteRows ==
  /\ table.exists
  /\ rewrites < MaxRewrites
  /\ rewrites' = rewrites + 1
  /\ \E i \in DOMAIN table.rows :
       table' = [table EXCEPT !.rows = RemoveAt(table.rows, i)]
  /\ UNCHANGED <<written, sessions, calls, got, cancels>>

TableDropped ==
  /\ table.exists
  /\ rewrites < MaxRewrites
  /\ rewrites' = rewrites + 1
  /\ table' = [table EXCEPT !.exists = FALSE, !.rows = <<>>]
  /\ UNCHANGED <<written, sessions, calls, got, cancels>>

TableCreated ==
  /\ ~table.exists
  /\ \E sch \in Schemas :
       table' = [exists |-> TRUE, schema |-> sch, rows |-> <<>>]
  /\ UNCHANGED <<written, rewrites, sessions, calls, got, cancels>>

-----------------------------------------------------------------------------
(* CreateReadSession: the schema, the count and the session are taken      *)
(* under three separate locks.  The snapshot (the rows that are counted)   *)
(* and the epoch (the rewrites so far) are history.                        *)

CreateReadSession(c, max_stream_count, where) ==
  /\ calls[c].pc = "idle"
  /\ Len(sessions) < MaxSessions
  /\ table.exists
  /\ calls' = [calls EXCEPT ![c] =
       [pc |-> "count", schema |-> table.schema, where |-> where,
        max_stream_count |-> max_stream_count]]
  /\ UNCHANGED <<table, written, rewrites, sessions, got, cancels>>

CountRows(c) ==
  /\ calls[c].pc = "count"
  /\ calls' = [calls EXCEPT ![c] =
       IF ~table.exists THEN NoCall
       ELSE [pc |-> "mint", schema |-> calls[c].schema,
             where |-> calls[c].where,
             max_stream_count |-> calls[c].max_stream_count,
             snapshot |-> table.rows, epoch |-> rewrites]]
  /\ UNCHANGED <<table, written, rewrites, sessions, got, cancels>>

NegotiateStreamCount(requested, total_rows) ==
  IF requested <= 0 \/ total_rows <= 0 THEN 1
  ELSE Min({requested, kMaxStreamCount, total_rows})

BuildPartitions(stream_count, total_rows) ==
  [n \in {<<"stream", i>> : i \in 0..(stream_count - 1)} |->
    [row_start |-> (total_rows * n[2]) \div stream_count,
     row_end |-> (total_rows * (n[2] + 1)) \div stream_count]]

MintSession(c) ==
  /\ calls[c].pc = "mint"
  /\ Len(sessions) < MaxSessions
  /\ LET total_rows == Len(calls[c].snapshot)
         count == NegotiateStreamCount(calls[c].max_stream_count, total_rows)
     IN  sessions' = Append(sessions,
           [schema |-> calls[c].schema, where |-> calls[c].where,
            streams |-> BuildPartitions(count, total_rows),
            splits |-> <<>>, snapshot |-> calls[c].snapshot,
            epoch |-> calls[c].epoch,
            requested |-> calls[c].max_stream_count])
  /\ calls' = [calls EXCEPT ![c] = NoCall]
  /\ UNCHANGED <<table, written, rewrites, got, cancels>>

-----------------------------------------------------------------------------
(* ReadRows: the stream, the schema check and the scan are again three     *)
(* locks; the scan reads all rows of the stream, and pages of them are     *)
(* sent until none is left or the client goes away.  A client that comes   *)
(* back asks for the rows after the ones it has.                           *)

Received(c, st) == IF st \in DOMAIN got[c] THEN got[c][st] ELSE Nothing

ReadRows(c, st) ==
  /\ calls[c].pc = "idle"
  /\ ~Received(c, st).drained
  /\ calls' = [calls EXCEPT ![c] =
       [pc |-> "schema", st |-> st, offset |-> Len(Received(c, st).rows)]]
  /\ UNCHANGED <<table, written, rewrites, sessions, got, cancels>>

CheckSchema(c) ==
  /\ calls[c].pc = "schema"
  /\ calls' = [calls EXCEPT ![c] =
       IF table.exists /\ table.schema = sessions[calls[c].st[1]].schema
         THEN [pc |-> "scan", st |-> calls[c].st, offset |-> calls[c].offset]
         ELSE NoCall]
  /\ UNCHANGED <<table, written, rewrites, sessions, got, cancels>>

\* file_row_number counts from 0; the restriction applies before the offset.
InRange(rows, part, where) ==
  SelectSeq(SubSeq(rows, part.row_start + 1, Min({part.row_end, Len(rows)})),
            LAMBDA row : where => row.id \in Matching)

ReadStreamRows_OffsetFirst(rows, part, where, offset) ==
  InRange(rows, [part EXCEPT !.row_start = @ + offset], where)

ReadStreamRows(rows, part, where, offset) ==
  LET all == InRange(rows, part, where)
  IN  SubSeq(all, offset + 1, Len(all))

CreateReadStream(c) ==
  /\ calls[c].pc = "scan"
  /\ LET st == calls[c].st
         session == sessions[st[1]]
     IN  calls' = [calls EXCEPT ![c] =
           IF ~table.exists THEN NoCall
           ELSE [pc |-> "pages", st |-> st,
                 rows |-> ReadStreamRows(table.rows, session.streams[st[2]],
                                         session.where, calls[c].offset)]]
  /\ UNCHANGED <<table, written, rewrites, sessions, got, cancels>>

StreamRowsToWriter(c) ==
  /\ calls[c].pc = "pages"
  /\ LET st == calls[c].st
         n == Min({kReadRowsBatchSize, Len(calls[c].rows)})
         left == SubSeq(calls[c].rows, n + 1, Len(calls[c].rows))
         receipt == [rows |-> Received(c, st).rows
                                \o SubSeq(calls[c].rows, 1, n),
                     drained |-> left = <<>>]
     IN  /\ got' = [got EXCEPT ![c] = (st :> receipt) @@ got[c]]
         /\ calls' = [calls EXCEPT ![c] =
              IF left = <<>> THEN NoCall
              ELSE [pc |-> "pages", st |-> st, rows |-> left]]
  /\ UNCHANGED <<table, written, rewrites, sessions, cancels>>

Cancel(c) ==
  /\ calls[c].pc = "pages"
  /\ cancels < MaxCancels
  /\ cancels' = cancels + 1
  /\ calls' = [calls EXCEPT ![c] = NoCall]
  /\ UNCHANGED <<table, written, rewrites, sessions, got>>

-----------------------------------------------------------------------------
(* SplitReadStream adds two streams; the one that is split stays.          *)

SplitAt(part, fraction) ==
  part.row_start
    + (((part.row_end - part.row_start) * fraction[1]) \div fraction[2])

CanSplit_Unchecked(part, fraction) == part.row_end - part.row_start > 1

CanSplit(part, fraction) ==
  /\ part.row_end - part.row_start > 1
  /\ SplitAt(part, fraction) > part.row_start
  /\ SplitAt(part, fraction) < part.row_end

SplitStreams(part, at, id) ==
  <<"p", id>> :> [row_start |-> part.row_start, row_end |-> at]
    @@ <<"r", id>> :> [row_start |-> at, row_end |-> part.row_end]

SplitReadStream(c, st, fraction) ==
  LET s == st[1]
      part == sessions[s].streams[st[2]]
      next_split_id == Len(sessions[s].splits)
  IN  /\ calls[c].pc = "idle"
      /\ next_split_id < MaxSplits
      /\ CanSplit(part, fraction)
      /\ sessions' = [sessions EXCEPT
           ![s].streams = @ @@ SplitStreams(part, SplitAt(part, fraction),
                                            next_split_id),
           ![s].splits = Append(@, st[2])]
      /\ UNCHANGED <<table, written, rewrites, calls, got, cancels>>

-----------------------------------------------------------------------------

Write == RowsAppended \/ OverwriteRows \/ TableDropped \/ TableCreated

Call(c) ==
  \/ \E n \in Requests, where \in BOOLEAN : CreateReadSession(c, n, where)
  \/ CountRows(c)
  \/ MintSession(c)
  \/ \E st \in Streams : ReadRows(c, st)
  \/ CheckSchema(c)
  \/ CreateReadStream(c)
  \/ StreamRowsToWriter(c)
  \/ Cancel(c)
  \/ \E st \in Streams, f \in Fractions : SplitReadStream(c, st, f)

ReadNext == Write \/ \E c \in Readers : Call(c)

ReadSpec == ReadInit /\ [][ReadNext]_readVars

-----------------------------------------------------------------------------

Positions(part) == part.row_start..(part.row_end - 1)

Initial(session) ==
  {n \in DOMAIN session.streams : n[1] = "stream"}

(* The streams CreateReadSession returns cover every row position counted   *)
(* exactly once, are no more than were asked for, and each has a row as     *)
(* long as the table has one (NegotiateStreamCount and BuildPartitions).    *)
PartitionsTile ==
  \A s \in DOMAIN sessions :
    LET session == sessions[s]
        Part(n) == session.streams[n]
        total_rows == Len(session.snapshot)
    IN  /\ UNION {Positions(Part(n)) : n \in Initial(session)}
             = 0..(total_rows - 1)
        /\ \A m, n \in Initial(session) :
             m # n => Positions(Part(m)) \cap Positions(Part(n)) = {}
        /\ Cardinality(Initial(session)) <= Max({1, session.requested})
        /\ total_rows > 0 =>
             \A n \in Initial(session) : Positions(Part(n)) # {}

(* The two streams of a split share out the rows of the stream they were    *)
(* made from, and neither is empty, whatever was split before, also when    *)
(* the parent is itself a child (SplitReadStream).                          *)
SplitsTile ==
  \A s \in DOMAIN sessions : \A k \in DOMAIN sessions[s].splits :
    LET streams == sessions[s].streams
        p == Positions(streams[<<"p", k - 1>>])
        r == Positions(streams[<<"r", k - 1>>])
    IN  /\ p \cup r = Positions(streams[sessions[s].splits[k]])
        /\ p \cap r = {}
        /\ p # {}
        /\ r # {}

(* While the table is only appended to, what a client receives from a       *)
(* stream over any number of interrupted and resumed reads is a prefix of   *)
(* the stream's share of the rows counted, and all of it once the read      *)
(* ends: no row is repeated, skipped or new (ReadRows' offset, applied      *)
(* after the restriction, and the range's fixed end).                       *)
ReadExact ==
  \A c \in Readers : \A st \in DOMAIN got[c] :
    LET session == sessions[st[1]]
        share == InRange(session.snapshot, session.streams[st[2]],
                         session.where)
    IN  session.epoch = rewrites =>
          /\ IsPrefix(got[c][st].rows, share)
          /\ got[c][st].drained => got[c][st].rows = share

(* storage_read.proto: of the streams of a session, "any single row in      *)
(* `table` appears in exactly one stream": a client that has read them all  *)
(* has each row that was in the table when they were made and is still      *)
(* there.                                                                   *)
NoRowSkipped ==
  \A c \in Readers, s \in DOMAIN sessions :
    LET mine == {<<s, n>> : n \in Initial(sessions[s])}
        rows == UNION {ToSet(got[c][st].rows) : st \in mine}
    IN  ~sessions[s].where /\ (\A st \in mine : Received(c, st).drained) =>
          ToSet(sessions[s].snapshot) \cap ToSet(table.rows) \subseteq rows

\* The streams of a session share its rows out: those CreateReadSession makes
\* tile the snapshot, and those a split makes tile the stream they replace.
StreamsTile == PartitionsTile /\ SplitsTile
=============================================================================
