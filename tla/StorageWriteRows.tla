--------------------------- MODULE StorageWriteRows ---------------------------
(***************************************************************************)
(* Where every row of the Storage Write service comes from: the invariant  *)
(* that follows rows from a request through buffers and commit lists into  *)
(* a table, and how a step keeps its parts about streams and handlers.     *)
(***************************************************************************)
EXTENDS StorageWriteProofs

\* Stream ids that were not minted since the last restart denote no stream.
FreshAbsent ==
  \A nm \in StreamNames : nm[2] >= nextStreamId => ~Exists(nm)

\* The cursor of a BUFFERED or PENDING stream is the length of its buffer.
CursorIsLength ==
  \A nm \in StreamNames : streams[nm].type \in BufferingTypes =>
    streams[nm].committed_rows = Len(streams[nm].buffered_rows)

\* r is a row sent on stream nm in epoch ep (between two restarts).
Own(r, nm, ep) == r.st = nm /\ r.ep = ep

BuffersOwn ==
  \A nm \in StreamNames : \A i \in 1..Len(streams[nm].buffered_rows) :
    Own(streams[nm].buffered_rows[i], nm, crashes)

WithBatch == {"ensure", "load", "buffer", "store", "count"}

BatchesOwn ==
  \A c \in Clients : call[c].pc \in WithBatch =>
    \A i \in 1..Len(call[c].batch) : Own(call[c].batch[i], call[c].st, crashes)

\* Only the reserved stream of a table is minted by an append.
DefaultsOnly ==
  \A c \in Clients : call[c].pc = "ensure" => IsDefault(call[c].st)

\* A batch is on the path of its stream's type.
Routed ==
  \A c \in Clients :
    /\ call[c].pc = "buffer" => streams[call[c].st].type \in BufferingTypes
    /\ call[c].pc \in {"store", "count"} =>
         streams[call[c].st].type = "COMMITTED"

\* r is a row that a stream in state s has buffered.
InBuffer(r, s) ==
  \E j \in 1..Len(s.buffered_rows) : s.buffered_rows[j] = r

\* One entry of a commit list is a copy from a finalized PENDING stream.
Copied(p, s, ep) ==
  /\ s.type = "PENDING"
  /\ s.finalized
  /\ \A i \in 1..Len(p.rows) : Own(p.rows[i], p.st, ep) /\ InBuffer(p.rows[i], s)

CommitsCopied ==
  \A c \in Clients : call[c].pc = "commit" =>
    \A k \in 1..Len(call[c].commits) :
      Copied(call[c].commits[k], streams[call[c].commits[k].st], crashes)

\* A row in a table is from an earlier run of the engine, or from a stream
\* that exists and, if that is a PENDING one, was finalized.
Traced(r, s, ep) ==
  /\ r.ep <= ep
  /\ r.ep = ep => /\ s.type # "ABSENT"
                  /\ s.type = "PENDING" => s.finalized /\ InBuffer(r, s)

RowsTraced ==
  \A t \in Tables : \A i \in 1..Len(tables[t].rows) :
    Traced(tables[t].rows[i], streams[tables[t].rows[i].st], crashes)

\* An answer given since the last restart names rows its stream has taken.
Answered(a, s, ep) ==
  /\ a.ep <= ep
  /\ a.ep = ep =>
       /\ s.type # "ABSENT"
       /\ a.off + Len(a.rows) <= s.committed_rows
       /\ s.type \in BufferingTypes =>
            \A i \in 1..Len(a.rows) : s.buffered_rows[a.off + i] = a.rows[i]

Disjoint(a, b) ==
  a.off + Len(a.rows) <= b.off \/ b.off + Len(b.rows) <= a.off

ResultsTiled ==
  /\ \A a \in results : Answered(a, streams[a.st], crashes)
  /\ \A a, b \in results :
       (a.ep = b.ep /\ a.st = b.st /\ a # b) => Disjoint(a, b)

SafeInv ==
  /\ FreshAbsent
  /\ CursorIsLength
  /\ BuffersOwn
  /\ BatchesOwn
  /\ DefaultsOnly
  /\ Routed
  /\ CommitsCopied
  /\ RowsTraced
  /\ ResultsTiled

\* Between restarts every stream grows.
LEMMA StreamsGrow ==
  ASSUME TypeInv, FreshAbsent, [Next]_vars, crashes' = crashes,
         NEW nm \in StreamNames, Exists(nm)
  PROVE  Grown(streams[nm], streams'[nm])
<1> USE DEF TypeInv
<1>0. streams[nm] \in StreamState /\ Grown(streams[nm], streams[nm])
  BY GrownSelf DEF TypeOK
<1>u. CASE UNCHANGED streams
  BY <1>0, <1>u
<1>1. ASSUME NEW c \in Clients, MintStream(c)
      PROVE  Grown(streams[nm], streams'[nm])
  <2>1. nm # <<call[c].table, nextStreamId>>
    BY DEF FreshAbsent, TypeOK
  <2>2. streams'[nm] = streams[nm]
    BY <1>1, <2>1 DEF MintStream, TypeOK
  <2> QED
    BY <1>0, <2>2
<1>2. ASSUME NEW c \in Clients, EnsureDefaultStream(c)
      PROVE  Grown(streams[nm], streams'[nm])
  <2>1. streams'[nm] = streams[nm]
    BY <1>2 DEF EnsureDefaultStream, DefaultStream, TypeOK
  <2> QED
    BY <1>0, <2>1
<1>3. ASSUME NEW c \in Clients, CommitBufferedAppendRows(c)
      PROVE  Grown(streams[nm], streams'[nm])
  <2>1. call[c].batch \in Seq(Row)
    BY <1>3, CallTypes DEF CommitBufferedAppendRows
  <2>2. \/ streams'[nm] = streams[nm]
        \/ streams'[nm] = Buffered(streams[nm], call[c].batch)
    BY <1>3 DEF CommitBufferedAppendRows, TypeOK
  <2> QED
    BY <1>0, <2>1, <2>2, GrownAdvanced
<1>4. ASSUME NEW c \in Clients, CountImmediateAppendRows(c)
      PROVE  Grown(streams[nm], streams'[nm])
  <2>1. call[c].batch \in Seq(Row)
    BY <1>4, CallTypes DEF CountImmediateAppendRows
  <2>2. \/ streams'[nm] = streams[nm]
        \/ streams'[nm] = Advanced(streams[nm], call[c].batch)
    BY <1>4 DEF CountImmediateAppendRows, TypeOK
  <2> QED
    BY <1>0, <2>1, <2>2, GrownAdvanced
<1>5. ASSUME NEW n \in StreamNames, NEW offset \in 0..MaxRows, FlushRows(n, offset)
      PROVE  Grown(streams[nm], streams'[nm])
  <2>1. \/ streams'[nm] = streams[nm]
        \/ /\ nm = n
           /\ streams'[nm] = [streams[nm] EXCEPT !.flushed_rows = offset + 1]
    BY <1>5 DEF FlushRows, TypeOK
  <2>2. nm = n => offset + 1 >= streams[nm].flushed_rows
    BY <1>0, <1>5, BoundsAssumption DEF FlushRows, StreamState
  <2> QED
    BY <1>0, <2>1, <2>2 DEF Grown, StreamState
<1>6. ASSUME NEW n \in StreamNames, FinalizeWriteStream(n)
      PROVE  Grown(streams[nm], streams'[nm])
  <2>1. \/ streams'[nm] = streams[nm]
        \/ streams'[nm] = [streams[nm] EXCEPT !.finalized = TRUE]
    BY <1>6, Zenon DEF FinalizeWriteStream, TypeOK
  <2> QED
    BY <1>0, <2>1 DEF Grown, StreamState
<1>7. ~Restart
  BY DEF Restart, TypeOK
<1> QED
  BY <1>u, <1>1, <1>2, <1>3, <1>4, <1>5, <1>6, <1>7, StreamSteps


-----------------------------------------------------------------------------
(* Streams: names, cursors and buffers.                                    *)

\* BatchCommitWriteStreams goes on with its list or returns.
LEMMA NextCommitPc ==
  ASSUME TypeInv, NEW c \in Clients, call[c].pc = "commit"
  PROVE  \/ NextCommit(call[c]) = Idle
         \/ /\ NextCommit(call[c]).pc = "commit"
            /\ NextCommit(call[c]).commits = call[c].commits
<1>1. call[c] \in [pc : {"commit"}, commits : Seq(PendingCommit), next : Nat]
  BY Zenon DEF TypeInv, TypeOK, Call
<1> QED
  BY <1>1 DEF NextCommit

\* An append that mints a stream stays bound to a reserved name.
LEMMA DefaultsNext ==
  ASSUME TypeInv, DefaultsOnly, [Next]_vars
  PROVE  DefaultsOnly'
<1> SUFFICES ASSUME NEW c \in Clients, call'[c].pc = "ensure"
             PROVE  IsDefault(call'[c].st)
  BY DEF DefaultsOnly
<1>0. call \in [Clients -> Call]
  BY DEF TypeInv, TypeOK
<1>1. CASE call'[c] = call[c]
  BY <1>1 DEF DefaultsOnly
<1>2. ASSUME NEW nm \in StreamNames, NEW n \in 0..MaxBatch, NEW shape \in Shapes,
             BindWriteStream(c, nm, n, shape) \/ BindDefaultStream(c, nm, n, shape)
      PROVE  IsDefault(call'[c].st)
  BY <1>0, <1>2 DEF BindWriteStream, BindDefaultStream, Goto
<1>3. CASE EnsureDefaultStream(c)
  BY <1>0, <1>3 DEF EnsureDefaultStream, Goto
<1>4. CASE LoadStreamSession(c)
  BY <1>0, <1>4 DEF LoadStreamSession, Goto, Idle, Open
<1>5. CASE StoreImmediateAppendRows(c)
  BY <1>0, <1>5 DEF StoreImmediateAppendRows, Goto, Idle, Open
<1>6. ASSUME NEW k \in 1..MaxCommits, NEW names \in [1..k -> StreamNames],
             BatchCommitWriteStreams(c, names)
      PROVE  IsDefault(call'[c].st)
  BY <1>0, <1>6, SMTT(30) DEF BatchCommitWriteStreams, Goto
<1>7. CASE CommitNext(c)
  BY <1>0, <1>7, NextCommitPc DEF CommitNext, Goto, Idle
<1> QED
  BY <1>1, <1>2, <1>3, <1>4, <1>5, <1>6, <1>7, CallSteps

\* Except for a stream that is minted, a step keeps a stream's type.
LEMMA TypeKept ==
  ASSUME TypeInv, [Next]_vars, NEW nm \in StreamNames,
         \A c \in Clients : ~MintStream(c) /\ ~EnsureDefaultStream(c),
         crashes' = crashes
  PROVE  streams'[nm].type = streams[nm].type
<1> USE DEF TypeInv
<1>0. streams \in [StreamNames -> StreamState] /\ streams[nm] \in StreamState
  BY DEF TypeOK
<1>1. ASSUME NEW c \in Clients, CommitBufferedAppendRows(c)
      PROVE  streams'[nm].type = streams[nm].type
  <2>1. call[c].batch \in Seq(Row)
    BY <1>1, CallTypes DEF CommitBufferedAppendRows
  <2>2. Grown(streams[nm], Buffered(streams[nm], call[c].batch))
    BY <1>0, <2>1, GrownAdvanced
  <2> QED
    BY <1>0, <1>1, <2>2 DEF CommitBufferedAppendRows, Grown
<1>2. ASSUME NEW c \in Clients, CountImmediateAppendRows(c)
      PROVE  streams'[nm].type = streams[nm].type
  <2>1. call[c].batch \in Seq(Row)
    BY <1>2, CallTypes DEF CountImmediateAppendRows
  <2>2. Grown(streams[nm], Advanced(streams[nm], call[c].batch))
    BY <1>0, <2>1, GrownAdvanced
  <2> QED
    BY <1>0, <1>2, <2>2 DEF CountImmediateAppendRows, Grown
<1>3. ASSUME NEW n \in StreamNames, NEW offset \in 0..MaxRows, FlushRows(n, offset)
      PROVE  streams'[nm].type = streams[nm].type
  BY <1>0, <1>3 DEF FlushRows, StreamState
<1>4. ASSUME NEW n \in StreamNames, FinalizeWriteStream(n)
      PROVE  streams'[nm].type = streams[nm].type
  BY <1>0, <1>4 DEF FinalizeWriteStream, StreamState
<1>5. ~Restart
  BY DEF Restart, TypeOK
<1> QED
  BY <1>1, <1>2, <1>3, <1>4, <1>5, StreamSteps

\* An id is given to a stream only when the counter moves past it.
LEMMA FreshNext ==
  ASSUME TypeInv, FreshAbsent, DefaultsOnly, [Next]_vars
  PROVE  FreshAbsent'
<1> USE DEF TypeInv
<1>0. /\ streams \in [StreamNames -> StreamState]
      /\ nextStreamId \in Nat /\ nextStreamId >= 1
      /\ \A nm \in StreamNames : nm[2] \in Nat
  BY BoundsAssumption DEF TypeOK, StreamNames
<1>1. ASSUME NEW c \in Clients, MintStream(c)
      PROVE  FreshAbsent'
  <2> SUFFICES ASSUME NEW nm \in StreamNames, nm[2] >= nextStreamId + 1
               PROVE  streams'[nm].type = "ABSENT"
    BY <1>1 DEF FreshAbsent, Exists, MintStream
  <2>1. nm # <<call[c].table, nextStreamId>>
    BY <1>0
  <2>2. streams'[nm] = streams[nm]
    BY <1>0, <1>1, <2>1 DEF MintStream
  <2> QED
    BY <1>0, <2>2 DEF FreshAbsent, Exists
<1>2. ASSUME NEW c \in Clients, EnsureDefaultStream(c)
      PROVE  FreshAbsent'
  <2> SUFFICES ASSUME NEW nm \in StreamNames, nm[2] >= nextStreamId
               PROVE  streams'[nm].type = "ABSENT"
    BY <1>2 DEF FreshAbsent, Exists, EnsureDefaultStream
  <2>1. nm # call[c].st
    BY <1>0, <1>2 DEF EnsureDefaultStream, DefaultsOnly, IsDefault, DefaultId
  <2>2. streams'[nm] = streams[nm]
    BY <1>0, <1>2, <2>1 DEF EnsureDefaultStream
  <2> QED
    BY <2>2 DEF FreshAbsent, Exists
<1>3. CASE Restart
  BY <1>3 DEF Restart, FreshAbsent, Exists, Absent, NewStream
<1>4. CASE crashes' = crashes /\ \A c \in Clients : ~MintStream(c) /\ ~EnsureDefaultStream(c)
  <2>1. nextStreamId' = nextStreamId
    BY <1>4, StreamSteps
    DEF Restart, CommitBufferedAppendRows, CountImmediateAppendRows, FlushRows,
        FinalizeWriteStream, TypeOK
  <2> QED
    BY <1>4, <2>1, TypeKept DEF FreshAbsent, Exists
<1>5. Restart \/ crashes' = crashes
  BY EpochSteps
<1> QED
  BY <1>1, <1>2, <1>3, <1>4, <1>5


\* How the cursor and the buffer of one stream may change in a step.
LEMMA StreamCases ==
  ASSUME TypeInv, FreshAbsent, [Next]_vars, crashes' = crashes,
         NEW nm \in StreamNames
  PROVE  \/ /\ streams'[nm].type = streams[nm].type
            /\ streams'[nm].committed_rows = streams[nm].committed_rows
            /\ streams'[nm].buffered_rows = streams[nm].buffered_rows
         \/ /\ ~Exists(nm)
            /\ streams'[nm].committed_rows = 0
            /\ streams'[nm].buffered_rows = <<>>
         \/ \E c \in Clients : /\ CommitBufferedAppendRows(c)
                               /\ call[c].st = nm
                               /\ streams'[nm] = Buffered(streams[nm], call[c].batch)
         \/ \E c \in Clients : /\ CountImmediateAppendRows(c)
                               /\ call[c].st = nm
                               /\ streams'[nm] = Advanced(streams[nm], call[c].batch)
<1> DEFINE Kept == /\ streams'[nm].type = streams[nm].type
                   /\ streams'[nm].committed_rows = streams[nm].committed_rows
                   /\ streams'[nm].buffered_rows = streams[nm].buffered_rows
           Minted == /\ ~Exists(nm)
                     /\ streams'[nm].committed_rows = 0
                     /\ streams'[nm].buffered_rows = <<>>
<1>0. streams \in [StreamNames -> StreamState] /\ streams[nm] \in StreamState
  BY DEF TypeInv, TypeOK
<1>1. ASSUME NEW c \in Clients, MintStream(c)
      PROVE  Kept \/ Minted
  <2>1. nm = <<call[c].table, nextStreamId>> => ~Exists(nm)
    BY DEF FreshAbsent, TypeInv, TypeOK
  <2> QED
    BY <1>0, <1>1, <2>1 DEF MintStream, NewStream
<1>2. ASSUME NEW c \in Clients, EnsureDefaultStream(c)
      PROVE  Kept \/ Minted
  BY <1>0, <1>2 DEF EnsureDefaultStream, DefaultStream, NewStream
<1>3. ASSUME NEW c \in Clients, CommitBufferedAppendRows(c)
      PROVE  \/ Kept
             \/ call[c].st = nm /\ streams'[nm] = Buffered(streams[nm], call[c].batch)
  BY <1>0, <1>3 DEF CommitBufferedAppendRows
<1>4. ASSUME NEW c \in Clients, CountImmediateAppendRows(c)
      PROVE  \/ Kept
             \/ call[c].st = nm /\ streams'[nm] = Advanced(streams[nm], call[c].batch)
  BY <1>0, <1>4 DEF CountImmediateAppendRows
<1>5. ASSUME NEW n \in StreamNames, NEW offset \in 0..MaxRows, FlushRows(n, offset)
      PROVE  Kept
  BY <1>0, <1>5 DEF FlushRows, StreamState
<1>6. ASSUME NEW n \in StreamNames, FinalizeWriteStream(n)
      PROVE  Kept
  BY <1>0, <1>6 DEF FinalizeWriteStream, StreamState
<1>7. ~Restart
  BY DEF Restart, TypeInv, TypeOK
<1>8. UNCHANGED <<streams, nextStreamId>> => Kept
  OBVIOUS
<1> HIDE DEF Kept, Minted
<1>9. \/ Kept
      \/ Minted
      \/ \E c \in Clients : /\ CommitBufferedAppendRows(c)
                            /\ call[c].st = nm
                            /\ streams'[nm] = Buffered(streams[nm], call[c].batch)
      \/ \E c \in Clients : /\ CountImmediateAppendRows(c)
                            /\ call[c].st = nm
                            /\ streams'[nm] = Advanced(streams[nm], call[c].batch)
  BY <1>1, <1>2, <1>3, <1>4, <1>5, <1>6, <1>7, <1>8, StreamSteps, Zenon
<1> QED
  BY <1>9, Zenon DEF Kept, Minted

\* The fields of a stream that took a batch.
LEMMA BufferedFields ==
  ASSUME NEW s \in StreamState, NEW rows \in Seq(Row)
  PROVE  /\ Buffered(s, rows).type = s.type
         /\ Buffered(s, rows).committed_rows = s.committed_rows + Len(rows)
         /\ Buffered(s, rows).buffered_rows = s.buffered_rows \o rows
         /\ Advanced(s, rows).type = s.type
         /\ Advanced(s, rows).committed_rows = s.committed_rows + Len(rows)
         /\ Advanced(s, rows).buffered_rows = s.buffered_rows
<1>1. /\ Advanced(s, rows) \in StreamState
      /\ Advanced(s, rows) =
           [s EXCEPT !.committed_rows = s.committed_rows + Len(rows)]
  BY BufferedType
<1>2. /\ Advanced(s, rows).type = s.type
      /\ Advanced(s, rows).committed_rows = s.committed_rows + Len(rows)
      /\ Advanced(s, rows).buffered_rows = s.buffered_rows
  BY <1>1 DEF StreamState
<1>3. /\ Buffered(s, rows).type = s.type
      /\ Buffered(s, rows).committed_rows = s.committed_rows + Len(rows)
      /\ Buffered(s, rows).buffered_rows = s.buffered_rows \o rows
  BY <1>1, <1>2 DEF Buffered, StreamState
<1> QED
  BY <1>2, <1>3

\* Cursor and buffer of a buffering stream move together.
LEMMA CursorNext ==
  ASSUME TypeInv, FreshAbsent, Routed, CursorIsLength, [Next]_vars,
         crashes' = crashes
  PROVE  CursorIsLength'
<1> SUFFICES ASSUME NEW nm \in StreamNames, streams'[nm].type \in BufferingTypes
             PROVE  streams'[nm].committed_rows = Len(streams'[nm].buffered_rows)
  BY DEF CursorIsLength
<1>0. streams[nm] \in StreamState /\ Len(streams[nm].buffered_rows) \in Nat
  BY LenProperties DEF TypeInv, TypeOK, StreamState
<1>1. ASSUME NEW c \in Clients, CommitBufferedAppendRows(c), call[c].st = nm,
             streams'[nm] = Buffered(streams[nm], call[c].batch)
      PROVE  streams'[nm].committed_rows = Len(streams'[nm].buffered_rows)
  <2>1. call[c].batch \in Seq(Row) /\ call[c].pc = "buffer"
    BY <1>1, CallTypes DEF CommitBufferedAppendRows, TypeInv
  <2>2. streams[nm].committed_rows = Len(streams[nm].buffered_rows)
    BY <1>1, <2>1 DEF Routed, CursorIsLength
  <2> DEFINE new == Buffered(streams[nm], call[c].batch)
  <2>3. /\ new.committed_rows = streams[nm].committed_rows + Len(call[c].batch)
        /\ new.buffered_rows = streams[nm].buffered_rows \o call[c].batch
    BY <1>0, <2>1, BufferedFields, Zenon
  <2>4. streams[nm].buffered_rows \in Seq(Row)
    BY <1>0 DEF StreamState
  <2>5. Len(streams[nm].buffered_rows \o call[c].batch) =
          Len(streams[nm].buffered_rows) + Len(call[c].batch)
    BY <2>1, <2>4, ConcatProperties
  <2>6. new.committed_rows = Len(new.buffered_rows)
    BY <2>2, <2>3, <2>5
  <2> QED
    BY <1>1, <2>6, Zenon
<1>2. ASSUME NEW c \in Clients, CountImmediateAppendRows(c), call[c].st = nm,
             streams'[nm] = Advanced(streams[nm], call[c].batch)
      PROVE  FALSE
  <2>1. call[c].batch \in Seq(Row) /\ call[c].pc = "count"
    BY <1>2, CallTypes DEF CountImmediateAppendRows, TypeInv
  <2>2. streams'[nm].type = "COMMITTED"
    BY <1>0, <1>2, <2>1, BufferedFields DEF Routed
  <2> QED
    BY <2>2 DEF BufferingTypes
<1>3. Len(<<>>) = 0
  OBVIOUS
<1> QED
  BY <1>1, <1>2, <1>3, StreamCases DEF CursorIsLength

\* A buffer takes only rows of requests bound to its stream.
LEMMA BuffersNext ==
  ASSUME TypeInv, FreshAbsent, BatchesOwn, BuffersOwn, [Next]_vars,
         crashes' = crashes
  PROVE  BuffersOwn'
<1> SUFFICES ASSUME NEW nm \in StreamNames,
                    NEW i \in 1..Len(streams'[nm].buffered_rows)
             PROVE  Own(streams'[nm].buffered_rows[i], nm, crashes)
  BY DEF BuffersOwn
<1>0. streams[nm] \in StreamState /\ Len(streams[nm].buffered_rows) \in Nat
  BY LenProperties DEF TypeInv, TypeOK, StreamState
<1>1. ASSUME NEW c \in Clients, CommitBufferedAppendRows(c), call[c].st = nm,
             streams'[nm] = Buffered(streams[nm], call[c].batch)
      PROVE  Own(streams'[nm].buffered_rows[i], nm, crashes)
  <2>1. call[c].batch \in Seq(Row) /\ call[c].pc = "buffer"
    BY <1>1, CallTypes DEF CommitBufferedAppendRows, TypeInv
  <2>2. \A j \in 1..Len(call[c].batch) : Own(call[c].batch[j], nm, crashes)
    BY <1>1, <2>1 DEF BatchesOwn, WithBatch
  <2>3. \A j \in 1..Len(streams[nm].buffered_rows) : Own(streams[nm].buffered_rows[j], nm, crashes)
    BY DEF BuffersOwn
  <2> DEFINE old == streams[nm].buffered_rows
             new == call[c].batch
  <2>3a. Buffered(streams[nm], call[c].batch).buffered_rows = old \o new
    BY <1>0, <2>1, BufferedFields, Zenon
  <2>4. streams'[nm].buffered_rows = old \o new
    BY <1>1, <2>3a, Zenon
  <2>5. old \in Seq(Row) /\ new \in Seq(Row)
    BY <1>0, <2>1 DEF StreamState
  <2> HIDE DEF old, new
  <2>6. /\ i \in 1..(Len(old) + Len(new))
        /\ (old \o new)[i] = IF i <= Len(old) THEN old[i] ELSE new[i - Len(old)]
        /\ Len(old) \in Nat
        /\ Len(new) \in Nat
    BY <2>4, <2>5, ConcatProperties, LenProperties
  <2>7. i <= Len(old) => i \in 1..Len(old)
    BY <2>6
  <2>8. ~(i <= Len(old)) => i - Len(old) \in 1..Len(new)
    BY <2>6
  <2>9. /\ \A j \in 1..Len(new) : Own(new[j], nm, crashes)
        /\ \A j \in 1..Len(old) : Own(old[j], nm, crashes)
    BY <2>2, <2>3 DEF old, new
  <2> QED
    BY <2>4, <2>6, <2>7, <2>8, <2>9
<1>2. ASSUME NEW c \in Clients, CountImmediateAppendRows(c), call[c].st = nm,
             streams'[nm] = Advanced(streams[nm], call[c].batch)
      PROVE  Own(streams'[nm].buffered_rows[i], nm, crashes)
  <2>1. call[c].batch \in Seq(Row)
    BY <1>2, CallTypes DEF CountImmediateAppendRows, TypeInv
  <2>2. streams'[nm].buffered_rows = streams[nm].buffered_rows
    BY <1>0, <1>2, <2>1, BufferedFields
  <2> QED
    BY <2>2 DEF BuffersOwn
<1>3. Len(<<>>) = 0
  OBVIOUS
<1> QED
  BY <1>1, <1>2, <1>3, StreamCases DEF BuffersOwn


-----------------------------------------------------------------------------
(* What a handler has in hand.                                             *)

\* The rows of a request carry its stream's name and the current epoch.
LEMMA BatchRows ==
  ASSUME NEW nm \in StreamNames, NEW n \in Nat
  PROVE  /\ Len(Batch(nm, n)) = n
         /\ \A i \in 1..n : Own(Batch(nm, n)[i], nm, crashes)
  BY SMTT(30) DEF Batch, Own

\* A handler carries its request's rows from step to step unchanged.
LEMMA BatchesNext ==
  ASSUME TypeInv, BatchesOwn, [Next]_vars, crashes' = crashes
  PROVE  BatchesOwn'
<1> SUFFICES ASSUME NEW c \in Clients, call'[c].pc \in WithBatch
             PROVE  \A i \in 1..Len(call'[c].batch) : Own(call'[c].batch[i], call'[c].st, crashes)
  BY DEF BatchesOwn, WithBatch
<1>g. \A x : Goto(c, x) => call'[c] = x
  BY DEF Goto, TypeInv, TypeOK
<1>0. ASSUME call[c].pc \in WithBatch, call'[c].batch = call[c].batch,
             call'[c].st = call[c].st
      PROVE  \A i \in 1..Len(call'[c].batch) : Own(call'[c].batch[i], call'[c].st, crashes)
  BY <1>0 DEF BatchesOwn
<1>1. ASSUME NEW nm \in StreamNames, NEW n \in 0..MaxBatch, NEW shape \in Shapes,
             BindWriteStream(c, nm, n, shape) \/ BindDefaultStream(c, nm, n, shape)
      PROVE  \A i \in 1..Len(call'[c].batch) : Own(call'[c].batch[i], call'[c].st, crashes)
  <2>1. call'[c].batch = Batch(nm, n) /\ call'[c].st = nm
    BY <1>1, <1>g DEF BindWriteStream, BindDefaultStream
  <2>2. n \in Nat
    BY BoundsAssumption
  <2> QED
    BY <2>1, <2>2, BatchRows, SMTT(30)
<1>2. ASSUME EnsureDefaultStream(c) \/ LoadStreamSession(c) \/ StoreImmediateAppendRows(c)
      PROVE  \A i \in 1..Len(call'[c].batch) : Own(call'[c].batch[i], call'[c].st, crashes)
  <2>1. CASE EnsureDefaultStream(c)
    BY <1>0, <1>g, <2>1, SMTT(30) DEF EnsureDefaultStream, WithBatch
  <2>2. CASE LoadStreamSession(c)
    BY <1>0, <1>g, <2>2 DEF LoadStreamSession, WithBatch, Idle, Open
  <2>3. CASE StoreImmediateAppendRows(c)
    <3>1. /\ call[c].pc = "store"
          /\ \/ Goto(c, [pc |-> "count", st |-> call[c].st, shape |-> call[c].shape,
                         batch |-> call[c].batch])
             \/ Goto(c, Open(call[c].st))
             \/ Goto(c, Idle)
      BY <2>3, Zenon DEF StoreImmediateAppendRows
    <3>2. /\ call[c].pc \in WithBatch
          /\ call'[c].batch = call[c].batch /\ call'[c].st = call[c].st
      BY <1>g, <3>1 DEF WithBatch, Idle, Open
    <3> QED
      BY <1>0, <3>2
  <2> QED
    BY <1>2, <2>1, <2>2, <2>3
<1>3. ASSUME NEW k \in 1..MaxCommits, NEW names \in [1..k -> StreamNames],
             BatchCommitWriteStreams(c, names)
      PROVE  FALSE
  BY <1>3, <1>g, SMTT(30) DEF BatchCommitWriteStreams, WithBatch
<1>4. ~CommitNext(c)
  BY <1>g, NextCommitPc DEF CommitNext, Idle, WithBatch
<1>5. call'[c].pc \notin {"idle", "open", "mint"}
  BY DEF WithBatch
<1>6. call'[c] = call[c] => call[c].pc \in WithBatch
  OBVIOUS
<1> QED
  BY <1>0, <1>1, <1>2, <1>3, <1>4, <1>5, <1>6, CallSteps, SMTT(30)

\* The type of a stream, once it exists, stays.
LEMMA TypeStays ==
  ASSUME TypeInv, FreshAbsent, [Next]_vars, crashes' = crashes,
         NEW nm \in StreamNames, Exists(nm)
  PROVE  streams'[nm].type = streams[nm].type
  BY StreamsGrow DEF Grown

\* The session snapshot stays true of the stream: its type never changes.
LEMMA RoutedNext ==
  ASSUME TypeInv, FreshAbsent, Routed, [Next]_vars, crashes' = crashes
  PROVE  Routed'
<1> SUFFICES ASSUME NEW c \in Clients
             PROVE  /\ call'[c].pc = "buffer" =>
                         streams'[call'[c].st].type \in BufferingTypes
                    /\ call'[c].pc \in {"store", "count"} =>
                         streams'[call'[c].st].type = "COMMITTED"
  BY DEF Routed
<1> DEFINE Goal == /\ call'[c].pc = "buffer" =>
                         streams'[call'[c].st].type \in BufferingTypes
                   /\ call'[c].pc \in {"store", "count"} =>
                         streams'[call'[c].st].type = "COMMITTED"
<1>g. \A x : Goto(c, x) => call'[c] = x
  BY DEF Goto, TypeInv, TypeOK
<1>0. CASE call'[c] = call[c]
  <2>1. CASE call[c].pc \in {"buffer", "store", "count"}
    <3>1. call[c].st \in StreamNames
      BY <2>1, CallTypes DEF TypeInv
    <3>2. Exists(call[c].st)
      BY <2>1 DEF Routed, Exists, BufferingTypes
    <3>3. streams'[call[c].st].type = streams[call[c].st].type
      BY <3>1, <3>2, TypeStays
    <3> QED
      BY <1>0, <3>3 DEF Routed
  <2>2. CASE call[c].pc \notin {"buffer", "store", "count"}
    BY <1>0, <2>2, SMTT(30)
  <2> QED
    BY <2>1, <2>2
<1>1. ASSUME NEW nm \in StreamNames, NEW n \in 0..MaxBatch, NEW shape \in Shapes,
             BindWriteStream(c, nm, n, shape) \/ BindDefaultStream(c, nm, n, shape)
      PROVE  Goal
  BY <1>1, <1>g, SMTT(30) DEF BindWriteStream, BindDefaultStream
<1>2. CASE EnsureDefaultStream(c)
  BY <1>g, <1>2, SMTT(30) DEF EnsureDefaultStream
<1>3. CASE LoadStreamSession(c)
  <2>1. call[c].pc = "load" /\ call[c].st \in StreamNames /\ streams' = streams
    BY <1>3, CallTypes DEF LoadStreamSession, TypeInv
  <2>2. streams[call[c].st].type \in StreamTypes \cup {"ABSENT"}
    BY <2>1 DEF TypeInv, TypeOK, StreamState
  <2>3. CASE call'[c] \in {Idle, Open(call[c].st)}
    BY <2>3 DEF Idle, Open
  <2>4. CASE /\ ~Refused(call[c].st)
             /\ call'[c].st = call[c].st
             /\ call'[c].pc = IF streams[call[c].st].type \in BufferingTypes
                              THEN "buffer" ELSE "store"
    BY <2>1, <2>2, <2>4 DEF Refused, Exists, StreamTypes, BufferingTypes
  <2> QED
    BY <1>3, <1>g, <2>3, <2>4, SMTT(30) DEF LoadStreamSession
<1>4. CASE StoreImmediateAppendRows(c)
  <2>1. call[c].pc = "store" /\ streams' = streams
    BY <1>4, SMTT(30) DEF StoreImmediateAppendRows
  <2>2. \/ call'[c].pc = "count" /\ call'[c].st = call[c].st
        \/ call'[c].pc \in {"idle", "open"}
    BY <1>4, <1>g, SMTT(30) DEF StoreImmediateAppendRows, Idle, Open
  <2> QED
    BY <2>1, <2>2 DEF Routed
<1>5. ASSUME NEW k \in 1..MaxCommits, NEW names \in [1..k -> StreamNames],
             BatchCommitWriteStreams(c, names)
      PROVE  Goal
  BY <1>5, <1>g, SMTT(30) DEF BatchCommitWriteStreams
<1>6. CASE CommitNext(c)
  BY <1>6, <1>g, NextCommitPc DEF CommitNext, Idle
<1>7. CASE call'[c].pc \in {"idle", "open", "mint"}
  BY <1>7
<1> HIDE DEF Goal
<1>8. Goal
  BY <1>0, <1>1, <1>2, <1>3, <1>4, <1>5, <1>6, <1>7, CallSteps, Zenon DEF Goal
<1> QED
  BY <1>8 DEF Goal


\* A row in a buffer stays there.
LEMMA BufferGrows ==
  ASSUME NEW s \in StreamState, NEW t \in StreamState, Grown(s, t),
         NEW r, InBuffer(r, s)
  PROVE  InBuffer(r, t)
<1>1. PICK j \in 1..Len(s.buffered_rows) : s.buffered_rows[j] = r
  BY DEF InBuffer
<1>2. Len(s.buffered_rows) \in Nat /\ Len(t.buffered_rows) \in Nat
  BY LenProperties DEF StreamState
<1>3. j \in 1..Len(t.buffered_rows) /\ t.buffered_rows[j] = r
  BY <1>1, <1>2 DEF Grown
<1> QED
  BY <1>3 DEF InBuffer

\* A copy of a finalized buffer stays a copy while the stream grows.
LEMMA CopiedStays ==
  ASSUME NEW s \in StreamState, NEW t \in StreamState, Grown(s, t),
         NEW p, NEW ep, Copied(p, s, ep)
  PROVE  Copied(p, t, ep)
<1>1. t.type = "PENDING"
  BY DEF Grown, Copied
<1>2. t.finalized
  BY Zenon DEF Grown, Copied
<1>3. \A i \in 1..Len(p.rows) : Own(p.rows[i], p.st, ep) /\ InBuffer(p.rows[i], s)
  BY Zenon DEF Copied
<1>4. \A i \in 1..Len(p.rows) : InBuffer(p.rows[i], t)
  BY <1>3, BufferGrows
<1> QED
  BY <1>1, <1>2, <1>3, <1>4, Zenon DEF Copied

\* Where a stream that exists stands before and after a step.
LEMMA StreamStep ==
  ASSUME TypeInv, FreshAbsent, [Next]_vars, crashes' = crashes,
         NEW nm \in StreamNames, streams[nm].type # "ABSENT"
  PROVE  /\ streams[nm] \in StreamState
         /\ streams'[nm] \in StreamState
         /\ Grown(streams[nm], streams'[nm])
<1>1. TypeOK /\ TypeOK'
  BY TypeNext DEF TypeInv
<1>2. Grown(streams[nm], streams'[nm])
  BY StreamsGrow DEF Exists
<1> QED
  BY <1>1, <1>2 DEF TypeOK

\* A commit list holds only copies of finalized buffers.
LEMMA CommitsNext ==
  ASSUME TypeInv, FreshAbsent, BuffersOwn, CommitsCopied, [Next]_vars,
         crashes' = crashes
  PROVE  CommitsCopied'
<1> SUFFICES ASSUME NEW c \in Clients, call'[c].pc = "commit",
                    NEW k \in 1..Len(call'[c].commits),
                    NEW p, p = call'[c].commits[k]
             PROVE  Copied(p, streams'[p.st], crashes)
  BY DEF CommitsCopied
<1>g. \A x : Goto(c, x) => call'[c] = x
  BY SMTT(30) DEF Goto, TypeInv, TypeOK
<1>1. ASSUME call[c].pc = "commit", call'[c].commits = call[c].commits
      PROVE  Copied(p, streams'[p.st], crashes)
  <2>1. call[c].commits \in Seq(PendingCommit)
    BY <1>1, CallTypes DEF TypeInv
  <2>2. p \in PendingCommit
    BY <1>1, <2>1, LenProperties
  <2>3. p.st \in StreamNames
    BY <2>2 DEF PendingCommit
  <2>4. Copied(p, streams[p.st], crashes)
    BY <1>1, SMTT(30) DEF CommitsCopied
  <2>5. streams[p.st].type # "ABSENT"
    BY <2>4 DEF Copied
  <2> QED
    BY <2>3, <2>4, <2>5, StreamStep, CopiedStays
<1>2. ASSUME NEW n \in 1..MaxCommits, NEW names \in [1..n -> StreamNames],
             BatchCommitWriteStreams(c, names)
      PROVE  Copied(p, streams'[p.st], crashes)
  <2> DEFINE copies == [i \in DOMAIN names |->
                          [st |-> names[i],
                           shape |-> streams[names[i]].shape,
                           rows |-> streams[names[i]].buffered_rows]]
  <2>0. Goto(c, [pc |-> "commit", next |-> 1, commits |-> copies]) /\ streams' = streams
    BY <1>2, Zenon DEF BatchCommitWriteStreams
  <2>1. call'[c].commits = copies
    <3> HIDE DEF copies
    <3> QED BY <1>g, <2>0, SMTT(30)
  <2>2. \A i \in 1..n : Committable(names[i])
    BY <1>2 DEF BatchCommitWriteStreams
  <2>3. Len(call'[c].commits) = n /\ k \in 1..n
    BY <2>1, BoundsAssumption
  <2>4. /\ p.st = names[k]
        /\ p.rows = streams[names[k]].buffered_rows
        /\ names[k] \in StreamNames
        /\ Committable(names[k])
    BY <2>1, <2>2, <2>3, SMTT(30)
  <2>5. \A i \in 1..Len(p.rows) : /\ Own(p.rows[i], p.st, crashes)
                                  /\ InBuffer(p.rows[i], streams[p.st])
    BY <2>4, SMTT(30) DEF BuffersOwn, InBuffer
  <2> QED
    BY <2>0, <2>4, <2>5, Zenon DEF Copied, Committable
<1>3. ASSUME CommitNext(c)
      PROVE  Copied(p, streams'[p.st], crashes)
  <2>1. call[c].pc = "commit" /\ (call'[c] = NextCommit(call[c]) \/ call'[c] = Idle)
    BY <1>3, <1>g DEF CommitNext
  <2>2. call'[c].commits = call[c].commits
    BY <2>1, NextCommitPc, SMTT(30) DEF Idle
  <2> QED
    BY <1>1, <2>1, <2>2, SMTT(30)
<1>4. ASSUME NEW nm \in StreamNames, NEW n \in 0..MaxBatch, NEW shape \in Shapes,
             BindWriteStream(c, nm, n, shape) \/ BindDefaultStream(c, nm, n, shape)
      PROVE  FALSE
  BY <1>4, <1>g, SMTT(30) DEF BindWriteStream, BindDefaultStream
<1>5. ~EnsureDefaultStream(c)
  BY <1>g, SMTT(30) DEF EnsureDefaultStream
<1>6. ~LoadStreamSession(c)
  BY <1>g, SMTT(30) DEF LoadStreamSession, Idle, Open
<1>7. ~StoreImmediateAppendRows(c)
  BY <1>g DEF StoreImmediateAppendRows, Idle, Open
<1>8. call'[c].pc \notin {"idle", "open", "mint"}
  OBVIOUS
<1>9. call'[c] = call[c] => Copied(p, streams'[p.st], crashes)
  BY <1>1
<1> QED
  BY <1>2, <1>3, <1>4, <1>5, <1>6, <1>7, <1>8, <1>9, CallSteps, Zenon

===============================================================================
