-------------------------- MODULE StorageWriteSafety --------------------------
(***************************************************************************)
(* The safety theorems of StorageWrite, from the invariant that follows    *)
(* every row: its parts about tables and answers, and what it implies.     *)
(***************************************************************************)
EXTENDS StorageWriteRows

-----------------------------------------------------------------------------
(* What is in a table.                                                     *)

\* How the rows of one table may change in a step: a suffix appended by a
\* committing stream's append, by a flush or by a batch commit; or none left.
LEMMA TableSteps ==
  ASSUME TypeInv, [Next]_vars, NEW t \in Tables
  PROVE  \/ tables'[t].rows = tables[t].rows
         \/ tables'[t].rows = <<>>
         \/ \E c \in Clients : /\ call[c].pc = "store"
                               /\ streams' = streams
                               /\ tables'[t].rows = tables[t].rows \o call[c].batch
         \/ \E nm \in StreamNames, offset \in 0..MaxRows :
              /\ FlushRows(nm, offset)
              /\ tables'[t].rows =
                   tables[t].rows \o Unflushed(streams[nm], offset)
         \/ \E c \in Clients :
              /\ call[c].pc = "commit"
              /\ streams' = streams
              /\ tables'[t].rows =
                   tables[t].rows \o call[c].commits[call[c].next].rows
<1> DEFINE Same == tables'[t].rows = tables[t].rows
           Grew(rows) == tables'[t].rows = tables[t].rows \o rows
<1>0. tables \in [Tables -> Table]
  BY DEF TypeInv, TypeOK
<1>a. ASSUME NEW u, NEW rows, AppendToTable(u, rows)
      PROVE  Same \/ Grew(rows)
  BY <1>0, <1>a, Zenon DEF AppendToTable, Table
<1>1. ASSUME NEW c \in Clients, StoreImmediateAppendRows(c)
      PROVE  Same \/ (call[c].pc = "store" /\ streams' = streams /\ Grew(call[c].batch))
  <2>1. call[c].pc = "store" /\ streams' = streams
    BY <1>1 DEF StoreImmediateAppendRows
  <2>2. UNCHANGED tables \/ AppendToTable(TableOf(call[c].st), call[c].batch)
    BY <1>1 DEF StoreImmediateAppendRows
  <2> QED
    BY <1>a, <2>1, <2>2, Zenon
<1>2. ASSUME NEW nm \in StreamNames, NEW offset \in 0..MaxRows, FlushRows(nm, offset)
      PROVE  Same \/ Grew(Unflushed(streams[nm], offset))
  <2>1. AppendToTable(TableOf(nm), Unflushed(streams[nm], offset))
    BY <1>2, Zenon DEF FlushRows
  <2> QED
    BY <1>a, <2>1, Zenon
<1>3. ASSUME NEW c \in Clients, CommitNext(c)
      PROVE  \/ Same
             \/ /\ call[c].pc = "commit"
                /\ streams' = streams
                /\ Grew(call[c].commits[call[c].next].rows)
  <2>1. call[c].pc = "commit" /\ streams' = streams
    BY <1>3 DEF CommitNext
  <2>2. \/ UNCHANGED tables
        \/ AppendToTable(TableOf(call[c].commits[call[c].next].st),
                         call[c].commits[call[c].next].rows)
    BY <1>3, Zenon DEF CommitNext
  <2> QED
    BY <1>a, <2>1, <2>2, Zenon
<1>4. \A u \in Tables : DropTable(u) => Same \/ tables'[t].rows = <<>>
  BY <1>0 DEF DropTable, Table
<1>5. \A u \in Tables, shape \in Shapes :
        CreateTable(u, shape) => Same \/ tables'[t].rows = <<>>
  BY <1>0 DEF CreateTable, Table
<1>6. \A c \in Clients, u \in Tables, type \in StreamTypes :
        CreateWriteStream(c, u, type) => Same
  BY DEF CreateWriteStream
<1>7. \A c \in Clients, nm \in StreamNames, n \in 0..MaxBatch, shape \in Shapes :
        BindWriteStream(c, nm, n, shape) \/ BindDefaultStream(c, nm, n, shape) => Same
  BY SMTT(30) DEF BindWriteStream, BindDefaultStream
<1>8. \A c \in Clients : \/ MintStream(c)
                         \/ EnsureDefaultStream(c)
                         \/ LoadStreamSession(c)
                         \/ CommitBufferedAppendRows(c)
                         \/ CountImmediateAppendRows(c)
                         \/ CloseAppendRows(c)
                         => Same
  BY DEF MintStream, EnsureDefaultStream, LoadStreamSession,
         CommitBufferedAppendRows, CountImmediateAppendRows, CloseAppendRows
<1>9. \A c \in Clients, k \in 1..MaxCommits : \A names \in [1..k -> StreamNames] :
        BatchCommitWriteStreams(c, names) => Same
  BY DEF BatchCommitWriteStreams
<1>10. \A nm \in StreamNames : FinalizeWriteStream(nm) => Same
  BY DEF FinalizeWriteStream
<1>11. Restart \/ UNCHANGED vars => Same
  BY DEF Restart, vars
<1> HIDE DEF Same, Grew
<1>12. \/ Same
       \/ tables'[t].rows = <<>>
       \/ \E c \in Clients :
            call[c].pc = "store" /\ streams' = streams /\ Grew(call[c].batch)
       \/ \E nm \in StreamNames, offset \in 0..MaxRows :
            FlushRows(nm, offset) /\ Grew(Unflushed(streams[nm], offset))
       \/ \E c \in Clients : /\ call[c].pc = "commit"
                             /\ streams' = streams
                             /\ Grew(call[c].commits[call[c].next].rows)
  BY <1>1, <1>2, <1>3, <1>4, <1>5, <1>6, <1>7, <1>8, <1>9, <1>10, <1>11, Zenon
     DEF Next, AppendRowsStep
<1> QED
  BY <1>12, Zenon DEF Same, Grew


\* A traced row stays traced while its stream grows.
LEMMA TracedStays ==
  ASSUME NEW s \in StreamState, NEW t \in StreamState, NEW r, NEW ep,
         s.type # "ABSENT" => Grown(s, t), Traced(r, s, ep)
  PROVE  Traced(r, t, ep)
<1> SUFFICES ASSUME r.ep = ep
             PROVE  /\ t.type # "ABSENT"
                    /\ t.type = "PENDING" => t.finalized /\ InBuffer(r, t)
  BY Zenon DEF Traced
<1>1. s.type # "ABSENT" /\ (s.type = "PENDING" => s.finalized /\ InBuffer(r, s))
  BY Zenon DEF Traced
<1>2. t.type = s.type /\ (s.finalized => t.finalized)
  BY <1>1, Zenon DEF Grown
<1>3. s.type = "PENDING" => InBuffer(r, t)
  BY <1>1, BufferGrows
<1> QED
  BY <1>1, <1>2, <1>3, Zenon

\* Rows appended to a table whose rows are all traced.
LEMMA TracedAppend ==
  ASSUME TypeInv, NEW t \in Tables, NEW rows \in Seq(Row),
         tables'[t].rows = tables[t].rows \o rows,
         \A i \in 1..Len(tables[t].rows) :
           Traced(tables[t].rows[i], streams'[tables[t].rows[i].st], crashes),
         \A i \in 1..Len(rows) : Traced(rows[i], streams'[rows[i].st], crashes)
  PROVE  \A i \in 1..Len(tables'[t].rows) :
           Traced(tables'[t].rows[i], streams'[tables'[t].rows[i].st], crashes)
<1> DEFINE old == tables[t].rows
<1>1. old \in Seq(Row)
  BY DEF TypeInv, TypeOK, Table
<1>2. tables'[t].rows = old \o rows
  OBVIOUS
<1>3. \A i \in 1..Len(old) : Traced(old[i], streams'[old[i].st], crashes)
  OBVIOUS
<1> HIDE DEF old
<1>4. ASSUME NEW i \in 1..Len(old \o rows)
      PROVE  Traced((old \o rows)[i], streams'[(old \o rows)[i].st], crashes)
  <2>1. /\ i \in 1..(Len(old) + Len(rows))
        /\ (old \o rows)[i] = IF i <= Len(old) THEN old[i] ELSE rows[i - Len(old)]
        /\ Len(old) \in Nat
        /\ Len(rows) \in Nat
    BY <1>1, ConcatProperties, LenProperties
  <2>2. CASE i <= Len(old)
    BY <1>3, <2>1, <2>2
  <2>3. CASE ~(i <= Len(old))
    <3>1. i - Len(old) \in 1..Len(rows)
      BY <2>1, <2>3
    <3> QED
      BY <2>1, <2>3, <3>1
  <2> QED
    BY <2>2, <2>3
<1> QED
  BY <1>2, <1>4

\* Every row a step puts into a table is traced.
LEMMA RowsNext ==
  ASSUME TypeInv, FreshAbsent, BuffersOwn, BatchesOwn, Routed, CommitsCopied,
         RowsTraced, [Next]_vars, crashes' = crashes
  PROVE  RowsTraced'
<1> SUFFICES ASSUME NEW t \in Tables
             PROVE  \A i \in 1..Len(tables'[t].rows) :
                      Traced(tables'[t].rows[i], streams'[tables'[t].rows[i].st], crashes)
  BY DEF RowsTraced
<1> DEFINE Goal == \A i \in 1..Len(tables'[t].rows) :
                     Traced(tables'[t].rows[i], streams'[tables'[t].rows[i].st], crashes)
<1>0. tables[t].rows \in Seq(Row) /\ streams \in [StreamNames -> StreamState]
      /\ streams' \in [StreamNames -> StreamState] /\ crashes \in Nat
  <2>1. TypeOK /\ TypeOK'
    BY TypeNext DEF TypeInv
  <2> QED
    BY <2>1 DEF TypeOK, Table
<1>1. ASSUME NEW i \in 1..Len(tables[t].rows)
      PROVE  Traced(tables[t].rows[i], streams'[tables[t].rows[i].st], crashes)
  <2> DEFINE r == tables[t].rows[i]
  <2>0. r \in Row
    BY <1>0, LenProperties
  <2>1. r.st \in StreamNames
    BY <2>0 DEF Row
  <2>2. Traced(r, streams[r.st], crashes)
    BY SMTT(30) DEF RowsTraced
  <2>3. streams[r.st].type # "ABSENT" => Grown(streams[r.st], streams'[r.st])
    BY <2>1, StreamStep
  <2> HIDE DEF r
  <2>4. Traced(r, streams'[r.st], crashes)
    BY <1>0, <2>1, <2>2, <2>3, TracedStays
  <2> QED
    BY <2>4 DEF r
<1>2. ASSUME NEW c \in Clients, call[c].pc = "store", streams' = streams,
             tables'[t].rows = tables[t].rows \o call[c].batch
      PROVE  Goal
  <2>1. call[c].batch \in Seq(Row) /\ call[c].st \in StreamNames
    BY <1>2, CallTypes DEF TypeInv
  <2>2. streams[call[c].st].type = "COMMITTED"
    BY <1>2, SMTT(30) DEF Routed
  <2>3. ASSUME NEW i \in 1..Len(call[c].batch)
        PROVE  Traced(call[c].batch[i], streams'[call[c].batch[i].st], crashes)
    <3>1. Own(call[c].batch[i], call[c].st, crashes)
      BY <1>2 DEF BatchesOwn, WithBatch
    <3> QED
      BY <1>0, <1>2, <2>2, <3>1 DEF Own, Traced
  <2> HIDE DEF Goal
  <2>4. Goal
    BY <1>1, <1>2, <2>1, <2>3, TracedAppend, Zenon DEF Goal
  <2> QED
    BY <2>4
<1>3. ASSUME NEW nm \in StreamNames, NEW offset \in 0..MaxRows, FlushRows(nm, offset),
             tables'[t].rows = tables[t].rows \o Unflushed(streams[nm], offset)
      PROVE  Goal
  <2> DEFINE buf == streams[nm].buffered_rows
             fl == streams[nm].flushed_rows
             rows == Unflushed(streams[nm], offset)
  <2>1. /\ streams[nm].type = "BUFFERED"
        /\ offset \in 0..(Len(buf) - 1)
        /\ offset >= fl
    BY <1>3, Zenon DEF FlushRows
  <2>2. buf \in Seq(Row) /\ fl \in Nat /\ Len(buf) \in Nat
    BY <1>0, LenProperties DEF StreamState
  <2>3. rows = SubSeq(buf, fl + 1, offset + 1)
    BY DEF Unflushed
  <2>4. \A i \in 1..Len(buf) : Own(buf[i], nm, crashes)
    BY DEF BuffersOwn
  <2>5. streams'[nm].type = "BUFFERED"
    BY <2>1, StreamStep DEF Grown
  <2> HIDE DEF buf, fl, rows
  <2>6. /\ rows \in Seq(Row)
        /\ Len(rows) = offset + 1 - fl
        /\ \A i \in 1..Len(rows) : rows[i] = buf[fl + i]
    <3>1. /\ fl + 1 \in 1..Len(buf)
          /\ offset + 1 \in fl..Len(buf)
      BY <2>1, <2>2
    <3> QED
      BY <2>1, <2>2, <2>3, <3>1, SubSeqProperties, LenProperties
  <2>7. ASSUME NEW i \in 1..Len(rows)
        PROVE  Traced(rows[i], streams'[rows[i].st], crashes)
    <3>1. fl + i \in 1..Len(buf)
      BY <2>1, <2>2, <2>6
    <3>2. Own(rows[i], nm, crashes)
      BY <2>4, <2>6, <3>1
    <3> QED
      BY <1>0, <2>5, <3>2 DEF Own, Traced
  <2>8. tables'[t].rows = tables[t].rows \o rows
    BY <1>3, SMTT(30) DEF rows
  <2> HIDE DEF Goal
  <2>9. Goal
    BY <1>1, <2>6, <2>7, <2>8, TracedAppend, Zenon DEF Goal
  <2> QED
    BY <2>9
<1>4. ASSUME NEW c \in Clients, call[c].pc = "commit", streams' = streams,
             tables'[t].rows = tables[t].rows \o call[c].commits[call[c].next].rows
      PROVE  Goal
  <2> DEFINE p == call[c].commits[call[c].next]
  <2>1. /\ call[c].commits \in Seq(PendingCommit)
        /\ call[c].next \in 1..Len(call[c].commits)
    BY <1>4, CallTypes DEF TypeInv, CommitInRange
  <2>2. p \in PendingCommit
    BY <2>1, LenProperties
  <2>3. Copied(p, streams[p.st], crashes)
    BY <1>4, <2>1, Zenon DEF CommitsCopied
  <2>4. tables'[t].rows = tables[t].rows \o p.rows
    BY <1>4
  <2> HIDE DEF p
  <2>5. p.rows \in Seq(Row) /\ p.st \in StreamNames
    BY <2>2, SMTT(30) DEF PendingCommit
  <2>6. ASSUME NEW i \in 1..Len(p.rows)
        PROVE  Traced(p.rows[i], streams'[p.rows[i].st], crashes)
    <3>1. Own(p.rows[i], p.st, crashes) /\ InBuffer(p.rows[i], streams[p.st])
      BY <2>3, Zenon DEF Copied
    <3>2. streams[p.st].finalized /\ streams[p.st].type = "PENDING"
      BY <2>3, Zenon DEF Copied
    <3>3. p.rows[i].ep = crashes /\ p.rows[i].st = p.st
      BY <3>1 DEF Own
    <3>4. p.rows[i].ep <= crashes /\ streams[p.st].type # "ABSENT"
      BY <1>0, <3>2, <3>3
    <3>5. Traced(p.rows[i], streams[p.st], crashes)
      BY <3>1, <3>2, <3>4, Zenon DEF Traced
    <3> QED
      BY <1>4, <3>3, <3>5
  <2> HIDE DEF Goal
  <2>7. Goal
    BY <1>1, <2>4, <2>5, <2>6, TracedAppend, Zenon DEF Goal
  <2> QED
    BY <2>7
<1>5. tables'[t].rows = tables[t].rows => Goal
  BY <1>1
<1>6. tables'[t].rows = <<>> => Goal
  OBVIOUS
<1> HIDE DEF Goal
<1>7. Goal
  BY <1>2, <1>3, <1>4, <1>5, <1>6, TableSteps, Zenon
<1> QED
  BY <1>7 DEF Goal


-----------------------------------------------------------------------------
(* What was answered.                                                      *)

\* A step adds at most the answer of one batch: the cursor before it.
LEMMA ResultSteps ==
  ASSUME [Next]_vars
  PROVE  \/ results' = results
         \/ \E c \in Clients :
              /\ CommitBufferedAppendRows(c) \/ CountImmediateAppendRows(c)
              /\ results' \subseteq results \cup
                   {[st |-> call[c].st, ep |-> crashes,
                     off |-> streams[call[c].st].committed_rows,
                     rows |-> call[c].batch]}
<1> DEFINE Same == results' = results
           New(c) == [st |-> call[c].st, ep |-> crashes,
                      off |-> streams[call[c].st].committed_rows,
                      rows |-> call[c].batch]
<1>1. \A c \in Clients, t \in Tables, type \in StreamTypes :
        CreateWriteStream(c, t, type) => Same
  BY DEF CreateWriteStream
<1>2. \A c \in Clients, nm \in StreamNames, n \in 0..MaxBatch, shape \in Shapes :
        BindWriteStream(c, nm, n, shape) \/ BindDefaultStream(c, nm, n, shape) => Same
  BY SMTT(30) DEF BindWriteStream, BindDefaultStream
<1>3. \A c \in Clients : \/ MintStream(c)
                         \/ EnsureDefaultStream(c)
                         \/ LoadStreamSession(c)
                         \/ StoreImmediateAppendRows(c)
                         \/ CloseAppendRows(c)
                         \/ CommitNext(c)
                         => Same
  BY DEF MintStream, EnsureDefaultStream, LoadStreamSession,
         StoreImmediateAppendRows, CloseAppendRows, CommitNext
<1>4. \A c \in Clients, k \in 1..MaxCommits : \A names \in [1..k -> StreamNames] :
        BatchCommitWriteStreams(c, names) => Same
  BY DEF BatchCommitWriteStreams
<1>5. \A t \in Tables : DropTable(t) \/ (\E shape \in Shapes : CreateTable(t, shape)) => Same
  BY DEF DropTable, CreateTable
<1>6. \A nm \in StreamNames :
        (\E offset \in 0..MaxRows : FlushRows(nm, offset)) \/ FinalizeWriteStream(nm) => Same
  BY DEF FlushRows, FinalizeWriteStream
<1>7. Restart \/ UNCHANGED vars => Same
  BY DEF Restart, vars
<1>8. ASSUME NEW c \in Clients,
             CommitBufferedAppendRows(c) \/ CountImmediateAppendRows(c)
      PROVE  results' \subseteq results \cup {New(c)}
  <2>1. Answer(c)
    BY <1>8 DEF CommitBufferedAppendRows, CountImmediateAppendRows
  <2>2. results' = results \cup {r \in {New(c)} : r.rows # <<>>}
    BY <2>1 DEF Answer, PriorOffset
  <2> HIDE DEF New
  <2> QED
    BY <2>2
<1> HIDE DEF Same, New
<1>9. \/ Same
      \/ \E c \in Clients :
           /\ CommitBufferedAppendRows(c) \/ CountImmediateAppendRows(c)
           /\ results' \subseteq results \cup {New(c)}
  BY <1>1, <1>2, <1>3, <1>4, <1>5, <1>6, <1>7, <1>8, Zenon DEF Next, AppendRowsStep
<1> QED
  BY <1>9, Zenon DEF Same, New

Result == [st : StreamNames, ep : Nat, off : Nat, rows : Seq(Row)]

\* An answer stays true while its stream grows.
LEMMA AnsweredStays ==
  ASSUME NEW s \in StreamState, NEW t \in StreamState, NEW a \in Result, NEW ep,
         s.type # "ABSENT" => Grown(s, t),
         s.type \in BufferingTypes => s.committed_rows = Len(s.buffered_rows),
         Answered(a, s, ep)
  PROVE  Answered(a, t, ep)
<1> SUFFICES ASSUME a.ep = ep
             PROVE  /\ t.type # "ABSENT"
                    /\ a.off + Len(a.rows) <= t.committed_rows
                    /\ t.type \in BufferingTypes =>
                         \A i \in 1..Len(a.rows) :
                           t.buffered_rows[a.off + i] = a.rows[i]
  BY DEF Answered
<1>1. /\ s.type # "ABSENT"
      /\ a.off + Len(a.rows) <= s.committed_rows
      /\ s.type \in BufferingTypes =>
           \A i \in 1..Len(a.rows) : s.buffered_rows[a.off + i] = a.rows[i]
  BY DEF Answered
<1>2. /\ t.type = s.type
      /\ t.committed_rows >= s.committed_rows
      /\ \A i \in 1..Len(s.buffered_rows) : t.buffered_rows[i] = s.buffered_rows[i]
  BY <1>1 DEF Grown
<1>3. /\ a.off \in Nat /\ Len(a.rows) \in Nat
      /\ s.committed_rows \in Nat /\ t.committed_rows \in Nat
  BY LenProperties DEF Result, StreamState
<1>4. ASSUME s.type \in BufferingTypes, NEW i \in 1..Len(a.rows)
      PROVE  t.buffered_rows[a.off + i] = a.rows[i]
  <2>1. a.off + i \in 1..Len(s.buffered_rows)
    BY <1>1, <1>3, <1>4
  <2> QED
    BY <1>1, <1>2, <1>4, <2>1
<1>5. a.off + Len(a.rows) <= t.committed_rows
  BY <1>1, <1>2, <1>3
<1> QED
  BY <1>1, <1>2, <1>4, <1>5

\* The answer of a batch, once its stream has taken the batch.
LEMMA AnsweredNew ==
  ASSUME NEW s \in StreamState, NEW nm \in StreamNames, NEW rows \in Seq(Row),
         NEW ep \in Nat, NEW t \in StreamState,
         s.type # "ABSENT",
         \/ /\ s.type \in BufferingTypes
            /\ s.committed_rows = Len(s.buffered_rows)
            /\ t = Buffered(s, rows)
         \/ /\ s.type \notin BufferingTypes
            /\ t = Advanced(s, rows)
  PROVE  Answered([st |-> nm, ep |-> ep, off |-> s.committed_rows, rows |-> rows],
                  t, ep)
<1> DEFINE a == [st |-> nm, ep |-> ep, off |-> s.committed_rows, rows |-> rows]
<1>1. a.ep = ep /\ a.off = s.committed_rows /\ a.rows = rows
  OBVIOUS
<1>2. t.type = s.type /\ t.committed_rows = s.committed_rows + Len(rows)
  BY BufferedFields
<1>3. s.committed_rows \in Nat /\ Len(rows) \in Nat
  BY LenProperties DEF StreamState
<1>4. ASSUME s.type \in BufferingTypes, NEW i \in 1..Len(rows)
      PROVE  t.buffered_rows[s.committed_rows + i] = rows[i]
  <2> DEFINE old == s.buffered_rows
  <2>0. Buffered(s, rows).buffered_rows = s.buffered_rows \o rows
    BY BufferedFields
  <2>1. t.buffered_rows = old \o rows /\ s.committed_rows = Len(old)
    BY <1>4, <2>0
  <2>2. old \in Seq(Row)
    BY DEF StreamState
  <2> HIDE DEF old
  <2>3. Len(old) \in Nat /\ Len(rows) \in Nat
    BY <2>2, LenProperties
  <2>4. Len(old) + i \in 1..(Len(old) + Len(rows)) /\ ~(Len(old) + i <= Len(old))
        /\ (Len(old) + i) - Len(old) = i
    BY <2>3
  <2>5. (old \o rows)[Len(old) + i] = rows[(Len(old) + i) - Len(old)]
    BY <2>2, <2>4, ConcatProperties
  <2> QED
    BY <2>1, <2>4, <2>5
<1> HIDE DEF a
<1>5. Answered(a, t, ep)
  BY <1>1, <1>2, <1>3, <1>4 DEF Answered
<1> QED
  BY <1>5 DEF a


\* A new answer starts where all earlier ones on its stream have ended.
LEMMA ResultsNext ==
  ASSUME TypeInv, FreshAbsent, CursorIsLength, Routed, ResultsTiled, [Next]_vars,
         crashes' = crashes
  PROVE  ResultsTiled'
<1>0. /\ streams \in [StreamNames -> StreamState]
      /\ streams' \in [StreamNames -> StreamState]
      /\ crashes \in Nat
      /\ results \subseteq Result
  <2>1. TypeOK /\ TypeOK'
    BY TypeNext DEF TypeInv
  <2> QED
    BY <2>1 DEF TypeOK, Result
<1>1. ASSUME NEW a \in results
      PROVE  Answered(a, streams'[a.st], crashes)
  <2>1. a \in Result /\ a.st \in StreamNames
    BY <1>0 DEF Result
  <2>2. Answered(a, streams[a.st], crashes)
    BY DEF ResultsTiled
  <2>3. streams[a.st].type # "ABSENT" => Grown(streams[a.st], streams'[a.st])
    BY <2>1, StreamStep
  <2>4. streams[a.st].type \in BufferingTypes =>
          streams[a.st].committed_rows = Len(streams[a.st].buffered_rows)
    BY <2>1 DEF CursorIsLength
  <2> QED
    BY <1>0, <2>1, <2>2, <2>3, <2>4, AnsweredStays
<1>2. CASE results' = results
  BY <1>1, <1>2 DEF ResultsTiled
<1>3. ASSUME NEW c \in Clients,
             CommitBufferedAppendRows(c) \/ CountImmediateAppendRows(c),
             NEW new, new = [st |-> call[c].st, ep |-> crashes,
                             off |-> streams[call[c].st].committed_rows,
                             rows |-> call[c].batch],
             results' \subseteq results \cup {new}
      PROVE  ResultsTiled'
  <2> DEFINE nm == call[c].st
  <2>1. /\ call[c].pc \in {"buffer", "count"}
        /\ nm \in StreamNames
        /\ call[c].batch \in Seq(Row)
    BY <1>3, CallTypes DEF CommitBufferedAppendRows, CountImmediateAppendRows, TypeInv
  <2>2. streams[nm].type # "ABSENT"
    BY <2>1, SMTT(30) DEF Routed, BufferingTypes
  <2>3. \/ /\ streams[nm].type \in BufferingTypes
           /\ streams[nm].committed_rows = Len(streams[nm].buffered_rows)
           /\ streams'[nm] = Buffered(streams[nm], call[c].batch)
        \/ /\ streams[nm].type \notin BufferingTypes
           /\ streams'[nm] = Advanced(streams[nm], call[c].batch)
    <3>1. CASE CommitBufferedAppendRows(c)
      <4>1. call[c].pc = "buffer"
            /\ streams' = [streams EXCEPT ![nm] = Buffered(streams[nm], call[c].batch)]
        BY <3>1, Zenon DEF CommitBufferedAppendRows
      <4>2. streams'[nm] = Buffered(streams[nm], call[c].batch)
        BY <1>0, <2>1, <4>1, SMTT(30)
      <4> QED
        BY <2>1, <4>1, <4>2 DEF Routed, CursorIsLength
    <3>2. CASE CountImmediateAppendRows(c)
      <4>1. call[c].pc = "count"
            /\ streams' = [streams EXCEPT ![nm] = Advanced(streams[nm], call[c].batch)]
        BY <3>2, Zenon DEF CountImmediateAppendRows
      <4>2. streams'[nm] = Advanced(streams[nm], call[c].batch)
        BY <1>0, <2>1, <4>1
      <4> QED
        BY <4>1, <4>2 DEF Routed, BufferingTypes
    <3> QED
      BY <1>3, <3>1, <3>2, SMTT(30)
  <2>4. new.st = nm /\ new.ep = crashes /\ new.off = streams[nm].committed_rows
    BY <1>3, SMTT(30)
  <2>5. Answered(new, streams'[new.st], crashes)
    <3>1. streams[nm] \in StreamState /\ streams'[nm] \in StreamState
      BY <1>0, <2>1, SMTT(30)
    <3> HIDE DEF nm
    <3>2. Answered([st |-> nm, ep |-> crashes, off |-> streams[nm].committed_rows,
                    rows |-> call[c].batch], streams'[nm], crashes)
      BY <1>0, <2>1, <2>2, <2>3, <3>1, AnsweredNew, SMTT(30)
    <3> QED
      BY <1>3, <2>4, <3>2 DEF nm
  <2>6. ASSUME NEW a \in results, a.ep = new.ep, a.st = new.st
        PROVE  Disjoint(a, new) /\ Disjoint(new, a)
    <3>1. a.off + Len(a.rows) <= streams[nm].committed_rows
      BY <2>4, <2>6 DEF ResultsTiled, Answered
    <3> QED
      BY <2>4, <3>1 DEF Disjoint
  <2>7. \A a \in results' : Answered(a, streams'[a.st], crashes)
    BY <1>1, <1>3, <2>5, SMTT(30)
  <2>8. ASSUME NEW a \in results', NEW b \in results',
               a.ep = b.ep, a.st = b.st, a # b
        PROVE  Disjoint(a, b)
    <3>1. CASE a \in results /\ b \in results
      BY <2>8, <3>1 DEF ResultsTiled
    <3>2. CASE a \in results /\ b = new
      BY <2>6, <2>8, <3>2
    <3>3. CASE a = new /\ b \in results
      BY <2>6, <2>8, <3>3
    <3> QED
      BY <1>3, <2>8, <3>1, <3>2, <3>3
  <2> QED
    BY <2>7, <2>8, SMTT(30) DEF ResultsTiled
<1> QED
  BY <1>2, <1>3, ResultSteps, Zenon

-----------------------------------------------------------------------------
(* The invariant and the theorems.                                         *)

\* The invariant holds when the engine starts with empty tables.
LEMMA SafeInit == Init => SafeInv
<1> SUFFICES ASSUME Init PROVE SafeInv
  OBVIOUS
<1>1. \A nm \in StreamNames : streams[nm] = Absent
  BY DEF Init
<1>2. Absent.type = "ABSENT" /\ Absent.buffered_rows = <<>>
  BY DEF Absent, NewStream
<1>3. \A c \in Clients : call[c].pc = "idle"
  BY DEF Init, Idle
<1>4. FreshAbsent /\ CursorIsLength /\ BuffersOwn
  BY <1>1, <1>2 DEF FreshAbsent, Exists, CursorIsLength, BuffersOwn, BufferingTypes
<1>5. BatchesOwn /\ DefaultsOnly /\ Routed /\ CommitsCopied
  BY <1>3 DEF BatchesOwn, DefaultsOnly, Routed, CommitsCopied, WithBatch
<1>6. RowsTraced /\ ResultsTiled
  BY DEF Init, RowsTraced, ResultsTiled
<1> QED
  BY <1>4, <1>5, <1>6 DEF SafeInv

\* A restart empties the service; what was stored or answered before it
\* belongs to an earlier epoch.
LEMMA SafeRestart ==
  ASSUME TypeInv, SafeInv, Restart
  PROVE  SafeInv'
<1>0. /\ crashes \in Nat /\ crashes' = crashes + 1
      /\ tables' = tables /\ results' = results
      /\ results \subseteq Result
      /\ tables \in [Tables -> Table]
  BY DEF Restart, TypeInv, TypeOK, Result
<1>1. \A nm \in StreamNames : streams'[nm] = Absent
  BY DEF Restart
<1>2. Absent.type = "ABSENT" /\ Absent.buffered_rows = <<>>
  BY DEF Absent, NewStream
<1>3. \A c \in Clients : call'[c].pc = "idle"
  BY DEF Restart, Idle
<1>4. (FreshAbsent /\ CursorIsLength /\ BuffersOwn)'
  BY <1>1, <1>2, SMTT(30) DEF FreshAbsent, Exists, CursorIsLength, BuffersOwn, BufferingTypes
<1>5. (BatchesOwn /\ DefaultsOnly /\ Routed /\ CommitsCopied)'
  BY <1>3 DEF BatchesOwn, DefaultsOnly, Routed, CommitsCopied, WithBatch
<1>6. ASSUME NEW t \in Tables, NEW i \in 1..Len(tables[t].rows)
      PROVE  Traced(tables[t].rows[i], streams'[tables[t].rows[i].st], crashes')
  <2> DEFINE r == tables[t].rows[i]
  <2>1. tables[t].rows \in Seq(Row)
    BY <1>0 DEF Table
  <2>2. r \in Row
    BY <2>1, LenProperties
  <2>3. r.ep \in Nat
    BY <2>2 DEF Row
  <2>4. Traced(r, streams[r.st], crashes)
    BY DEF SafeInv, RowsTraced
  <2> HIDE DEF r
  <2>5. r.ep <= crashes
    BY <2>4, Zenon DEF Traced
  <2>6. r.ep <= crashes' /\ r.ep # crashes'
    BY <1>0, <2>3, <2>5
  <2>7. Traced(r, streams'[r.st], crashes')
    BY <2>6, Zenon DEF Traced
  <2> QED
    BY <2>7 DEF r
<1>7. ASSUME NEW a \in results
      PROVE  Answered(a, streams'[a.st], crashes')
  <2>1. a.ep \in Nat /\ a.ep <= crashes
    BY <1>0, SMTT(30) DEF SafeInv, ResultsTiled, Answered, Result
  <2> QED
    BY <1>0, <2>1 DEF Answered
<1>8. RowsTraced' /\ ResultsTiled'
  BY <1>0, <1>6, <1>7 DEF RowsTraced, ResultsTiled, SafeInv
<1> QED
  BY <1>4, <1>5, <1>8 DEF SafeInv

\* Every step of the service keeps the invariant.
LEMMA SafeNext ==
  ASSUME TypeInv, SafeInv, [Next]_vars
  PROVE  SafeInv'
<1>1. CASE Restart
  BY <1>1, SafeRestart
<1>2. CASE crashes' = crashes
  BY <1>2, FreshNext, CursorNext, BuffersNext, BatchesNext, DefaultsNext,
     RoutedNext, CommitsNext, RowsNext, ResultsNext DEF SafeInv
<1> QED
  BY <1>1, <1>2, EpochSteps

\* The inductive invariant behind the theorems below.
LEMMA SafeInvariant == Spec => [](TypeInv /\ SafeInv)
<1>1. Init => TypeInv /\ SafeInv
  BY TypeInit, SafeInit
<1>2. TypeInv /\ SafeInv /\ [Next]_vars => (TypeInv /\ SafeInv)'
  BY TypeNext, SafeNext
<1> QED
  BY <1>1, <1>2, PTL DEF Spec

\* No row of a PENDING stream is in a table before the stream is finalized,
\* and every such row is one the stream buffered: BatchCommitWriteStreams
\* publishes copies of finalized buffers and nothing else stores them.
THEOREM PendingInvisibleAlways == Spec => []PendingInvisible
<1>1. SafeInv => PendingInvisible
  <2> SUFFICES ASSUME SafeInv, NEW t \in Tables, NEW i \in 1..Len(tables[t].rows),
                      tables[t].rows[i].ep = crashes,
                      streams[tables[t].rows[i].st].type = "PENDING"
               PROVE  /\ streams[tables[t].rows[i].st].finalized
                      /\ InBuffer(tables[t].rows[i], streams[tables[t].rows[i].st])
    BY Zenon DEF PendingInvisible, InBuffer
  <2>1. Traced(tables[t].rows[i], streams[tables[t].rows[i].st], crashes)
    BY DEF SafeInv, RowsTraced
  <2> QED
    BY <2>1, Zenon DEF Traced
<1> QED
  BY <1>1, SafeInvariant, PTL

\* The offsets answered on one stream do not overlap and stay below its
\* cursor, and on a buffering stream each is the position of its batch,
\* however many AppendRows calls interleave.
THEOREM OffsetsTileAlways == Spec => []OffsetsTile
<1>1. SafeInv => OffsetsTile
  BY DEF SafeInv, ResultsTiled, Answered, Disjoint, OffsetsTile
<1> QED
  BY <1>1, SafeInvariant, PTL

\* Between restarts a write stream keeps its type and schema, its cursors
\* and its buffer only grow, and finalizing it is final.
THEOREM StreamsOnlyGrowAlways == Spec => StreamsOnlyGrow
<1>1. TypeInv /\ SafeInv /\ [Next]_vars =>
        (crashes' = crashes =>
           \A nm \in StreamNames : Exists(nm) => Grown(streams[nm], streams'[nm]))
  BY StreamsGrow DEF SafeInv
<1> QED
  BY <1>1, SafeInvariant, PTL DEF Spec, StreamsOnlyGrow
=============================================================================
