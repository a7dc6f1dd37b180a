------------------------- MODULE StorageWriteProofs -------------------------
(***************************************************************************)
(* Theorems about StorageWrite, for any number of handler threads, tables, *)
(* shapes, streams, rows, drops and restarts.                              *)
(***************************************************************************)
EXTENDS StorageWrite, TLAPS, SequenceTheorems

\* A running BatchCommitWriteStreams points at an entry of its list.
CommitInRange ==
  \A c \in Clients : call[c].pc = "commit" =>
    call[c].next \in 1..Len(call[c].commits)

TypeInv == TypeOK /\ CommitInRange

\* There is a shape to give to an absent stream.
LEMMA AnyShapeType == AnyShape \in Shapes
  BY ShapesAssumption DEF AnyShape

\* A stream is minted well typed.
LEMMA NewStreamType ==
  ASSUME NEW type \in StreamTypes \cup {"ABSENT"}, NEW shape \in Shapes
  PROVE  NewStream(type, shape) \in StreamState
  BY EmptySeq DEF NewStream, StreamState

\* Writing one field of a stream keeps it well typed.
LEMMA StreamUpdateType ==
  ASSUME NEW s \in StreamState, NEW n \in Nat, NEW rows \in Seq(Row)
  PROVE  /\ [s EXCEPT !.flushed_rows = n] \in StreamState
         /\ [s EXCEPT !.committed_rows = n] \in StreamState
         /\ [s EXCEPT !.buffered_rows = rows] \in StreamState
         /\ [s EXCEPT !.finalized = TRUE] \in StreamState
  BY Zenon DEF StreamState

\* What an append does to the state of its stream.
LEMMA BufferedType ==
  ASSUME NEW s \in StreamState, NEW rows \in Seq(Row)
  PROVE  /\ Advanced(s, rows) \in StreamState
         /\ Advanced(s, rows) =
              [s EXCEPT !.committed_rows = s.committed_rows + Len(rows)]
         /\ Buffered(s, rows) \in StreamState
         /\ Buffered(s, rows).buffered_rows = s.buffered_rows \o rows
<1>1. Advanced(s, rows) = [s EXCEPT !.committed_rows = s.committed_rows + Len(rows)]
  BY DEF Advanced
<1>2. s.committed_rows + Len(rows) \in Nat /\ s.buffered_rows \o rows \in Seq(Row)
  BY LenProperties, ConcatProperties DEF StreamState
<1>3. Advanced(s, rows) \in StreamState
  BY <1>1, <1>2, StreamUpdateType, Zenon
<1>4. Buffered(s, rows) \in StreamState
  BY <1>2, <1>3, StreamUpdateType, Zenon DEF Buffered
<1>5. Buffered(s, rows).buffered_rows = s.buffered_rows \o rows
  BY <1>3 DEF Buffered, StreamState
<1> QED
  BY <1>1, <1>3, <1>4, <1>5

\* The value for a name that is no key of streams_ is well typed.
LEMMA AbsentType == Absent \in StreamState
  BY AnyShapeType, NewStreamType DEF Absent

\* The rows of a request are rows.
LEMMA BatchType ==
  ASSUME TypeOK, NEW nm \in StreamNames, NEW n \in Nat
  PROVE  /\ Batch(nm, n) \in Seq(Row)
         /\ Len(Batch(nm, n)) = n
         /\ \A i \in 1..n : Batch(nm, n)[i] =
              [st |-> nm, ep |-> crashes, k |-> sent[nm] + i]
<1>1. \A i \in 1..n : [st |-> nm, ep |-> crashes, k |-> sent[nm] + i] \in Row
  BY DEF TypeOK, Row
<1>2. Batch(nm, n) \in [1..n -> Row]
  BY <1>1 DEF Batch
<1>3. Batch(nm, n) \in Seq(Row)
  BY <1>2, SeqDef
<1> QED
  BY <1>2, <1>3, LenProperties DEF Batch

\* The types of a handler's locals, by the point it has reached.
LEMMA CallTypes ==
  ASSUME TypeOK, NEW c \in Clients
  PROVE  /\ call[c].pc = "mint" =>
              /\ call[c].table \in Tables
              /\ call[c].type \in StreamTypes
              /\ call[c].shape \in Shapes
         /\ call[c].pc \in {"ensure", "load", "buffer", "store", "count"} =>
              /\ call[c].st \in StreamNames
              /\ call[c].shape \in Shapes
              /\ call[c].batch \in Seq(Row)
         /\ call[c].pc = "ensure" => call[c].schema \in Shapes
         /\ call[c].pc = "open" => call[c].st \in StreamNames
         /\ call[c].pc = "commit" => /\ call[c].commits \in Seq(PendingCommit)
                                     /\ call[c].next \in Nat
  BY DEF TypeOK, Call

\* The engine starts well typed.
LEMMA TypeInit == Init => TypeInv
<1> SUFFICES ASSUME Init PROVE TypeInv
  OBVIOUS
<1>1. Idle \in Call
  BY DEF Idle, Call
<1>2. [exists |-> TRUE, shape |-> AnyShape, rows |-> <<>>] \in Table
  BY AnyShapeType, EmptySeq DEF Table
<1> QED
  BY <1>1, <1>2, AbsentType, BoundsAssumption
  DEF Init, TypeInv, TypeOK, CommitInRange, Idle

\* Appending rows to a table keeps the store well typed.
LEMMA AppendToTableType ==
  ASSUME TypeOK, NEW t \in Tables, NEW rows \in Seq(Row), AppendToTable(t, rows)
  PROVE  tables' \in [Tables -> Table]
<1>1. tables[t].rows \o rows \in Seq(Row)
  BY ConcatProperties DEF TypeOK, Table
<1> QED
  BY <1>1, Zenon DEF TypeOK, Table, AppendToTable

\* Every step keeps the types.
LEMMA TypeNext == TypeInv /\ [Next]_vars => TypeInv'
<1> SUFFICES ASSUME TypeInv, [Next]_vars PROVE TypeInv'
  OBVIOUS
<1> USE DEF TypeInv
<1>a. Idle \in Call /\ \A nm \in StreamNames : Open(nm) \in Call
  BY DEF Idle, Open, Call
<1>1. ASSUME NEW c \in Clients, NEW t \in Tables, NEW type \in StreamTypes,
             CreateWriteStream(c, t, type)
      PROVE  TypeInv'
  <2>1. [pc |-> "mint", table |-> t, type |-> type, shape |-> tables[t].shape] \in Call
    BY DEF Call, TypeOK, Table
  <2> QED
    BY <1>1, <2>1 DEF CreateWriteStream, Goto, TypeOK, CommitInRange
<1>2. ASSUME NEW c \in Clients, MintStream(c)
      PROVE  TypeInv'
  <2>1. /\ <<call[c].table, nextStreamId>> \in StreamNames
        /\ NewStream(call[c].type, call[c].shape) \in StreamState
    BY <1>2, CallTypes, NewStreamType DEF MintStream, TypeOK, StreamNames
  <2>2. streams' \in [StreamNames -> StreamState]
    BY <1>2, <2>1 DEF MintStream, TypeOK
  <2>3. nextStreamId' \in 1..(MaxStreams + 1)
    BY <1>2, BoundsAssumption DEF MintStream, TypeOK
  <2> QED
    BY <1>2, <1>a, <2>2, <2>3 DEF MintStream, Goto, TypeOK, CommitInRange, Idle
<1>3. ASSUME NEW c \in Clients, NEW nm \in StreamNames, NEW n \in 0..MaxBatch,
             NEW shape \in Shapes, BindWriteStream(c, nm, n, shape)
      PROVE  TypeInv'
  <2>1. n \in Nat /\ Batch(nm, n) \in Seq(Row)
    BY BatchType, BoundsAssumption
  <2>2. [pc |-> "load", st |-> nm, shape |-> shape, batch |-> Batch(nm, n)] \in Call
    BY <2>1 DEF Call
  <2>3. sent' \in [StreamNames -> Nat]
    BY <1>3, <2>1, SMTT(30) DEF BindWriteStream, Send, TypeOK
  <2> QED
    BY <1>3, <2>2, <2>3 DEF BindWriteStream, Goto, TypeOK, CommitInRange
<1>4. ASSUME NEW c \in Clients, NEW nm \in StreamNames, NEW n \in 0..MaxBatch,
             NEW shape \in Shapes, BindDefaultStream(c, nm, n, shape)
      PROVE  TypeInv'
  <2>1. n \in Nat /\ Batch(nm, n) \in Seq(Row)
    BY BatchType, BoundsAssumption
  <2>0. tables[TableOf(nm)].shape \in Shapes
    BY DEF TypeOK, Table, TableOf, StreamNames
  <2>2. [pc |-> "ensure", st |-> nm, schema |-> tables[TableOf(nm)].shape,
         shape |-> shape, batch |-> Batch(nm, n)] \in Call
    BY <2>0, <2>1 DEF Call
  <2>3. sent' \in [StreamNames -> Nat]
    BY <1>4, <2>1 DEF BindDefaultStream, Send, TypeOK
  <2> QED
    BY <1>4, <2>2, <2>3 DEF BindDefaultStream, Goto, TypeOK, CommitInRange
<1>5. ASSUME NEW c \in Clients, EnsureDefaultStream(c)
      PROVE  TypeInv'
  <2>1. /\ call[c].st \in StreamNames
        /\ DefaultStream(call[c].st, call[c].schema) \in StreamState
    BY <1>5, CallTypes, NewStreamType
    DEF EnsureDefaultStream, DefaultStream, StreamTypes, TypeOK
  <2>2. [pc |-> "load", st |-> call[c].st, shape |-> call[c].shape,
         batch |-> call[c].batch] \in Call
    BY <1>5, CallTypes, SMTT(30) DEF EnsureDefaultStream, Call
  <2> QED
    BY <1>5, <2>1, <2>2 DEF EnsureDefaultStream, Goto, TypeOK, CommitInRange
<1>6. ASSUME NEW c \in Clients, LoadStreamSession(c)
      PROVE  TypeInv'
  <2>1. call[c].st \in StreamNames /\ call[c].batch \in Seq(Row)
    BY <1>6, CallTypes DEF LoadStreamSession
  <2>2. \A pc \in {"buffer", "store"} :
          [pc |-> pc, st |-> call[c].st, shape |-> streams[call[c].st].shape,
           batch |-> call[c].batch] \in Call
    BY <2>1 DEF Call, TypeOK, StreamState
  <2>3. call' \in [Clients -> Call]
    BY <1>6, <1>a, <2>1, <2>2 DEF LoadStreamSession, Goto, TypeOK
  <2>4. CommitInRange'
    <3>1. call'[c].pc # "commit"
      BY <1>6 DEF LoadStreamSession, Goto, TypeOK, Idle, Open
    <3>2. \A d \in Clients \ {c} : call'[d] = call[d]
      BY <1>6 DEF LoadStreamSession, Goto, TypeOK
    <3> QED
      BY <3>1, <3>2 DEF CommitInRange
  <2> QED
    BY <1>6, <2>3, <2>4 DEF LoadStreamSession, TypeOK
<1>7. ASSUME NEW c \in Clients, CommitBufferedAppendRows(c)
      PROVE  TypeInv'
  <2>1. call[c].st \in StreamNames /\ call[c].batch \in Seq(Row)
    BY <1>7, CallTypes DEF CommitBufferedAppendRows
  <2>2. /\ Len(call[c].batch) \in Nat
        /\ streams[call[c].st].buffered_rows \o call[c].batch \in Seq(Row)
    BY <2>1, LenProperties, ConcatProperties DEF TypeOK, StreamState
  <2>3. streams' \in [StreamNames -> StreamState]
    <3>1. Buffered(streams[call[c].st], call[c].batch) \in StreamState
      BY <2>1, <2>2, BufferedType, SMTT(30) DEF TypeOK
    <3> QED
      BY <1>7, <3>1, Zenon DEF CommitBufferedAppendRows, TypeOK
  <2>4. results' \subseteq [st : StreamNames, ep : Nat, off : Nat, rows : Seq(Row)]
    BY <1>7, <2>1
    DEF CommitBufferedAppendRows, Answer, PriorOffset, TypeOK, StreamState
  <2>5. call' \in [Clients -> Call]
    BY <1>7, <1>a, <2>1 DEF CommitBufferedAppendRows, Answer, Goto, TypeOK
  <2>6. CommitInRange'
    BY <1>7 DEF CommitBufferedAppendRows, Answer, Goto, Open, TypeOK, CommitInRange
  <2> QED
    BY <1>7, <2>3, <2>4, <2>5, <2>6 DEF CommitBufferedAppendRows, TypeOK
<1>8. ASSUME NEW c \in Clients, StoreImmediateAppendRows(c)
      PROVE  TypeInv'
  <2>1. /\ call[c].st \in StreamNames /\ call[c].batch \in Seq(Row)
        /\ TableOf(call[c].st) \in Tables
    BY <1>8, CallTypes, SMTT(30) DEF StoreImmediateAppendRows, TableOf, StreamNames
  <2>2. [pc |-> "count", st |-> call[c].st, shape |-> call[c].shape,
         batch |-> call[c].batch] \in Call
    BY <1>8, CallTypes, SMTT(30) DEF StoreImmediateAppendRows, Call
  <2>3. tables' \in [Tables -> Table]
    BY <1>8, <2>1, AppendToTableType DEF StoreImmediateAppendRows, TypeOK
  <2>4. call' \in [Clients -> Call]
    BY <1>8, <1>a, <2>1, <2>2, Zenon DEF StoreImmediateAppendRows, Goto, TypeOK
  <2>6. CommitInRange'
    <3>1. call'[c].pc # "commit"
      BY <1>8 DEF StoreImmediateAppendRows, Goto, TypeOK, Idle, Open
    <3>2. \A d \in Clients \ {c} : call'[d] = call[d]
      BY <1>8 DEF StoreImmediateAppendRows, Goto, TypeOK
    <3> QED
      BY <3>1, <3>2 DEF CommitInRange
  <2> QED
    BY <1>8, <2>3, <2>4, <2>6, SMTT(30) DEF StoreImmediateAppendRows, TypeOK
<1>9. ASSUME NEW c \in Clients, CountImmediateAppendRows(c)
      PROVE  TypeInv'
  <2>1. call[c].st \in StreamNames /\ call[c].batch \in Seq(Row)
    BY <1>9, CallTypes DEF CountImmediateAppendRows
  <2>2. Len(call[c].batch) \in Nat
    BY <2>1, LenProperties
  <2>3. streams' \in [StreamNames -> StreamState]
    <3>1. Advanced(streams[call[c].st], call[c].batch) \in StreamState
      BY <2>1, <2>2, BufferedType DEF TypeOK
    <3> QED
      BY <1>9, <3>1, Zenon DEF CountImmediateAppendRows, TypeOK
  <2>4. results' \subseteq [st : StreamNames, ep : Nat, off : Nat, rows : Seq(Row)]
    BY <1>9, <2>1
    DEF CountImmediateAppendRows, Answer, PriorOffset, TypeOK, StreamState
  <2>5. call' \in [Clients -> Call]
    BY <1>9, <1>a, <2>1 DEF CountImmediateAppendRows, Answer, Goto, TypeOK
  <2>6. CommitInRange'
    BY <1>9 DEF CountImmediateAppendRows, Answer, Goto, Open, TypeOK, CommitInRange
  <2> QED
    BY <1>9, <2>3, <2>4, <2>5, <2>6 DEF CountImmediateAppendRows, TypeOK
<1>10. ASSUME NEW c \in Clients, CloseAppendRows(c)
       PROVE  TypeInv'
  BY <1>10, <1>a DEF CloseAppendRows, Goto, Idle, TypeOK, CommitInRange
<1>11. ASSUME NEW c \in Clients, NEW k \in 1..MaxCommits,
              NEW names \in [1..k -> StreamNames],
              BatchCommitWriteStreams(c, names)
       PROVE  TypeInv'
  <2> DEFINE entry(i) == [st |-> names[i], shape |-> streams[names[i]].shape,
                          rows |-> streams[names[i]].buffered_rows]
             commits == [i \in DOMAIN names |-> entry(i)]
  <2>1. k \in Nat \ {0} /\ DOMAIN names = 1..k
    BY BoundsAssumption
  <2>2. \A i \in 1..k : entry(i) \in PendingCommit
    BY DEF TypeOK, StreamState, PendingCommit
  <2>3. commits \in [1..k -> PendingCommit]
    BY <2>1, <2>2
  <2>4. commits \in Seq(PendingCommit)
    BY <2>1, <2>3, SeqDef
  <2>5. Len(commits) = k
    BY <2>1, <2>3, <2>4, LenProperties
  <2>6. call' = [call EXCEPT ![c] = [pc |-> "commit", next |-> 1,
                                     commits |-> commits]]
    BY <1>11, SMTT(30) DEF BatchCommitWriteStreams, Goto
  <2>7. [pc |-> "commit", next |-> 1, commits |-> commits] \in Call
    BY <2>4 DEF Call
  <2>8. call' \in [Clients -> Call]
    BY <2>6, <2>7 DEF TypeOK
  <2>9. CommitInRange'
    BY <2>1, <2>5, <2>6, SMTT(30) DEF CommitInRange, TypeOK
  <2> QED
    BY <1>11, <2>8, <2>9, SMTT(30) DEF BatchCommitWriteStreams, TypeOK
<1>12. ASSUME NEW c \in Clients, CommitNext(c)
       PROVE  TypeInv'
  <2>1. /\ call[c].pc = "commit"
        /\ call[c].commits \in Seq(PendingCommit)
        /\ call[c].next \in Nat
        /\ call[c].next \in 1..Len(call[c].commits)
    BY <1>12, CallTypes, Zenon DEF CommitNext, CommitInRange
  <2>2. Len(call[c].commits) \in Nat
    BY <2>1, LenProperties
  <2>3. call[c].commits[call[c].next] \in PendingCommit
    BY <2>1, ElementOfSeq, SMTT(30)
  <2>4. tables' \in [Tables -> Table]
    BY <1>12, <2>3, AppendToTableType, SMTT(30)
    DEF CommitNext, PendingCommit, TableOf, StreamNames, TypeOK
  <2>5. call[c] \in [pc : {"commit"}, commits : Seq(PendingCommit), next : Nat]
    BY <2>1, Zenon DEF TypeOK, Call
  <2>6. /\ NextCommit(call[c]) \in Call
        /\ NextCommit(call[c]).pc = "commit" =>
             NextCommit(call[c]).next \in 1..Len(NextCommit(call[c]).commits)
    BY <1>a, <2>1, <2>2, <2>5 DEF NextCommit, Call, Idle
  <2>7. call' \in [Clients -> Call]
    BY <1>12, <1>a, <2>6 DEF CommitNext, Goto, TypeOK
  <2>8. CommitInRange'
    <3>1. call'[c].pc = "commit" => call'[c].next \in 1..Len(call'[c].commits)
      BY <1>12, <2>6, SMTT(30) DEF CommitNext, Goto, TypeOK, Idle
    <3>2. \A d \in Clients \ {c} : call'[d] = call[d]
      BY <1>12 DEF CommitNext, Goto, TypeOK
    <3> QED
      BY <3>1, <3>2, SMTT(30) DEF CommitInRange
  <2> QED
    BY <1>12, <2>4, <2>7, <2>8 DEF CommitNext, TypeOK
<1>13. ASSUME NEW nm \in StreamNames, NEW offset \in 0..MaxRows,
              FlushRows(nm, offset)
       PROVE  TypeInv'
  <2>1. /\ streams[nm].buffered_rows \in Seq(Row)
        /\ streams[nm].flushed_rows \in Nat
        /\ Len(streams[nm].buffered_rows) \in Nat
        /\ offset \in Nat
    BY BoundsAssumption, LenProperties DEF TypeOK, StreamState
  <2>2. \A i \in (streams[nm].flushed_rows + 1)..(offset + 1) :
          streams[nm].buffered_rows[i] \in Row
    BY <1>13, <2>1, ElementOfSeq DEF FlushRows
  <2>3. Unflushed(streams[nm], offset) \in Seq(Row)
    BY <2>1, <2>2, SubSeqProperties DEF Unflushed
  <2>4. tables' \in [Tables -> Table]
    BY <1>13, <2>3, AppendToTableType DEF FlushRows, TableOf, StreamNames
  <2>5. streams' \in [StreamNames -> StreamState]
    <3>1. streams' = [streams EXCEPT ![nm] =
                        [streams[nm] EXCEPT !.flushed_rows = offset + 1]]
      BY <1>13 DEF FlushRows
    <3>0. streams[nm] \in StreamState /\ offset + 1 \in Nat
      BY <2>1 DEF TypeOK
    <3>2. [streams[nm] EXCEPT !.flushed_rows = offset + 1] \in StreamState
      BY <2>1, <3>0, StreamUpdateType, Zenon
    <3> QED
      BY <3>1, <3>2 DEF TypeOK
  <2> QED
    BY <1>13, <2>4, <2>5 DEF FlushRows, TypeOK, CommitInRange
<1>14. ASSUME NEW nm \in StreamNames, FinalizeWriteStream(nm)
       PROVE  TypeInv'
  <2>1. RowCount(streams[nm]) \in Nat
    BY LenProperties DEF RowCount, TypeOK, StreamState
  <2>2. streams' \in [StreamNames -> StreamState]
    BY <1>14, Zenon DEF FinalizeWriteStream, TypeOK, StreamState
  <2> QED
    BY <1>14, <2>1, <2>2 DEF FinalizeWriteStream, TypeOK, CommitInRange
<1>15. ASSUME NEW t \in Tables, DropTable(t)
       PROVE  TypeInv'
  <2>1. tables' \in [Tables -> Table]
    BY <1>15, EmptySeq, Zenon DEF DropTable, TypeOK, Table
  <2> QED
    BY <1>15, <2>1 DEF DropTable, TypeOK, CommitInRange
<1>16. ASSUME NEW t \in Tables, NEW shape \in Shapes, CreateTable(t, shape)
       PROVE  TypeInv'
  <2>1. tables' \in [Tables -> Table]
    BY <1>16, EmptySeq DEF CreateTable, TypeOK, Table
  <2> QED
    BY <1>16, <2>1 DEF CreateTable, TypeOK, CommitInRange
<1>17. CASE Restart
  BY <1>17, <1>a, AbsentType, BoundsAssumption
  DEF Restart, TypeOK, CommitInRange, Idle
<1>18. CASE UNCHANGED vars
  BY <1>18 DEF vars, TypeOK, CommitInRange
<1> QED
  BY <1>1, <1>2, <1>3, <1>4, <1>5, <1>6, <1>7, <1>8, <1>9, <1>10, <1>11, <1>12,
     <1>13, <1>14, <1>15, <1>16, <1>17, <1>18
  DEF Next, AppendRowsStep

\* The state of the Storage Write service stays well typed.
THEOREM TypeCorrect == Spec => []TypeOK
<1>1. Spec => []TypeInv
  BY TypeInit, TypeNext, PTL DEF Spec
<1> QED
  BY <1>1, PTL DEF TypeInv

-----------------------------------------------------------------------------
(* What a step does to a stream.                                           *)

\* Standing still is a way to grow.
LEMMA GrownSelf ==
  ASSUME NEW s \in StreamState
  PROVE  Grown(s, s)
  BY LenProperties DEF Grown, StreamState

\* The cursor moves on; the buffer takes rows at its end.
LEMMA GrownAdvanced ==
  ASSUME NEW s \in StreamState, NEW rows \in Seq(Row)
  PROVE  /\ Grown(s, Advanced(s, rows))
         /\ Grown(s, Buffered(s, rows))
<1>1. /\ Len(rows) \in Nat
      /\ Advanced(s, rows) \in StreamState
      /\ Advanced(s, rows) =
           [s EXCEPT !.committed_rows = s.committed_rows + Len(rows)]
  BY BufferedType, LenProperties
<1>2. Grown(s, Advanced(s, rows))
  BY <1>1, LenProperties DEF Grown, StreamState
<1>3. /\ Buffered(s, rows).type = s.type
      /\ Buffered(s, rows).shape = s.shape
      /\ Buffered(s, rows).committed_rows = s.committed_rows + Len(rows)
      /\ Buffered(s, rows).flushed_rows = s.flushed_rows
      /\ Buffered(s, rows).finalized = s.finalized
      /\ Buffered(s, rows).buffered_rows = s.buffered_rows \o rows
  BY <1>1 DEF Buffered, StreamState
<1>4. /\ Len(s.buffered_rows \o rows) = Len(s.buffered_rows) + Len(rows)
      /\ Len(s.buffered_rows) \in Nat
      /\ \A i \in 1..Len(s.buffered_rows) :
           (s.buffered_rows \o rows)[i] = s.buffered_rows[i]
  BY <1>1, ConcatProperties, LenProperties DEF StreamState
<1>5. s.committed_rows + Len(rows) >= s.committed_rows /\ s.flushed_rows >= s.flushed_rows
  BY <1>1 DEF StreamState
<1>6. Grown(s, Buffered(s, rows))
  BY <1>1, <1>3, <1>4, <1>5 DEF Grown
<1> QED
  BY <1>2, <1>6

\* The steps that touch streams_; all others leave it and the id counter alone.
LEMMA StreamSteps ==
  ASSUME [Next]_vars
  PROVE  \/ UNCHANGED <<streams, nextStreamId>>
         \/ \E c \in Clients : \/ MintStream(c)
                              \/ EnsureDefaultStream(c)
                              \/ CommitBufferedAppendRows(c)
                              \/ CountImmediateAppendRows(c)
         \/ \E nm \in StreamNames, offset \in 0..MaxRows : FlushRows(nm, offset)
         \/ \E nm \in StreamNames : FinalizeWriteStream(nm)
         \/ Restart
<1> DEFINE Same == UNCHANGED <<streams, nextStreamId>>
<1>1. \A c \in Clients, t \in Tables, type \in StreamTypes :
        CreateWriteStream(c, t, type) => Same
  BY DEF CreateWriteStream
<1>2. \A c \in Clients, nm \in StreamNames, n \in 0..MaxBatch, shape \in Shapes :
        BindWriteStream(c, nm, n, shape) \/ BindDefaultStream(c, nm, n, shape) => Same
  BY SMTT(30) DEF BindWriteStream, BindDefaultStream
<1>3. \A c \in Clients : \/ LoadStreamSession(c)
                         \/ StoreImmediateAppendRows(c)
                         \/ CloseAppendRows(c)
                         \/ CommitNext(c)
                         => Same
  BY DEF LoadStreamSession, StoreImmediateAppendRows, CloseAppendRows, CommitNext
<1>4. \A c \in Clients, k \in 1..MaxCommits : \A names \in [1..k -> StreamNames] :
        BatchCommitWriteStreams(c, names) => Same
  BY DEF BatchCommitWriteStreams
<1>5. \A t \in Tables : DropTable(t) \/ (\E shape \in Shapes : CreateTable(t, shape)) => Same
  BY DEF DropTable, CreateTable
<1>6. UNCHANGED vars => Same
  BY DEF vars
<1> HIDE DEF Same
<1>7. \/ Same
      \/ \E c \in Clients : \/ MintStream(c)
                           \/ EnsureDefaultStream(c)
                           \/ CommitBufferedAppendRows(c)
                           \/ CountImmediateAppendRows(c)
      \/ \E nm \in StreamNames, offset \in 0..MaxRows : FlushRows(nm, offset)
      \/ \E nm \in StreamNames : FinalizeWriteStream(nm)
      \/ Restart
  BY <1>1, <1>2, <1>3, <1>4, <1>5, <1>6, Zenon DEF Next, AppendRowsStep
<1> QED
  BY <1>7 DEF Same

\* Only a restart begins a new epoch.
LEMMA EpochSteps ==
  ASSUME [Next]_vars
  PROVE  Restart \/ crashes' = crashes
<1>1. \A c \in Clients, t \in Tables, type \in StreamTypes :
        CreateWriteStream(c, t, type) => crashes' = crashes
  BY SMTT(30) DEF CreateWriteStream
<1>2. \A c \in Clients, nm \in StreamNames, n \in 0..MaxBatch, shape \in Shapes :
        BindWriteStream(c, nm, n, shape) \/ BindDefaultStream(c, nm, n, shape)
          => crashes' = crashes
  BY DEF BindWriteStream, BindDefaultStream
<1>3. \A c \in Clients : \/ MintStream(c)
                         \/ AppendRowsStep(c)
                         \/ CloseAppendRows(c)
                         \/ CommitNext(c)
                         => crashes' = crashes
  BY Zenon DEF MintStream, AppendRowsStep, EnsureDefaultStream, LoadStreamSession,
         CommitBufferedAppendRows, StoreImmediateAppendRows,
         CountImmediateAppendRows, CloseAppendRows, CommitNext
<1>4. \A c \in Clients, k \in 1..MaxCommits : \A names \in [1..k -> StreamNames] :
        BatchCommitWriteStreams(c, names) => crashes' = crashes
  BY DEF BatchCommitWriteStreams
<1>5. ASSUME \/ \E nm \in StreamNames :
                  \/ \E offset \in 0..MaxRows : FlushRows(nm, offset)
                  \/ FinalizeWriteStream(nm)
             \/ \E t \in Tables :
                  \/ DropTable(t)
                  \/ \E shape \in Shapes : CreateTable(t, shape)
             \/ UNCHANGED vars
      PROVE  crashes' = crashes
  BY <1>5, Zenon DEF FlushRows, FinalizeWriteStream, DropTable, CreateTable, vars
<1> QED
  BY <1>1, <1>2, <1>3, <1>4, <1>5, Zenon DEF Next

-----------------------------------------------------------------------------
(* What a step does to a call.                                             *)

\* A thread's call stays, ends, waits for a request, or takes its next step.
LEMMA CallSteps ==
  ASSUME TypeInv, [Next]_vars, NEW c \in Clients
  PROVE  \/ call'[c] = call[c]
         \/ call'[c].pc \in {"idle", "open", "mint"}
         \/ \E nm \in StreamNames, n \in 0..MaxBatch, shape \in Shapes :
              BindWriteStream(c, nm, n, shape) \/ BindDefaultStream(c, nm, n, shape)
         \/ EnsureDefaultStream(c)
         \/ LoadStreamSession(c)
         \/ StoreImmediateAppendRows(c)
         \/ \E k \in 1..MaxCommits : \E names \in [1..k -> StreamNames] :
              BatchCommitWriteStreams(c, names)
         \/ CommitNext(c)
<1> DEFINE Steps(d) ==
             \/ \E nm \in StreamNames, n \in 0..MaxBatch, shape \in Shapes :
                  BindWriteStream(d, nm, n, shape) \/ BindDefaultStream(d, nm, n, shape)
             \/ EnsureDefaultStream(d)
             \/ LoadStreamSession(d)
             \/ StoreImmediateAppendRows(d)
             \/ \E k \in 1..MaxCommits : \E names \in [1..k -> StreamNames] :
                  BatchCommitWriteStreams(d, names)
             \/ CommitNext(d)
           Done(d) == call'[d].pc \in {"idle", "open", "mint"}
           Others(d) == \A e \in Clients : e # d => call'[e] = call[e]
<1>0. call \in [Clients -> Call]
  BY DEF TypeInv, TypeOK
<1>g. \A d \in Clients : \A x : Goto(d, x) => Others(d) /\ call'[d] = x
  BY <1>0 DEF Goto
<1> HIDE DEF Others
<1>1. \A d \in Clients, t \in Tables, type \in StreamTypes :
        CreateWriteStream(d, t, type) => Done(d) /\ Others(d)
  BY <1>g DEF CreateWriteStream
<1>2. \A d \in Clients : \/ MintStream(d)
                         \/ CommitBufferedAppendRows(d)
                         \/ CountImmediateAppendRows(d)
                         \/ CloseAppendRows(d)
                         => Done(d) /\ Others(d)
  <2>1. \A d \in Clients : MintStream(d) \/ CloseAppendRows(d) => Done(d) /\ Others(d)
    BY <1>g DEF MintStream, CloseAppendRows, Idle
  <2>2. \A d \in Clients : CommitBufferedAppendRows(d) => Done(d) /\ Others(d)
    BY <1>g DEF CommitBufferedAppendRows, Answer, Idle, Open
  <2>3. \A d \in Clients : CountImmediateAppendRows(d) => Done(d) /\ Others(d)
    BY <1>g DEF CountImmediateAppendRows, Answer, Idle, Open
  <2> QED
    BY <2>1, <2>2, <2>3, Zenon
<1>3. \A d \in Clients : Steps(d) => Others(d)
  <2>1. \A d \in Clients, nm \in StreamNames, n \in 0..MaxBatch, shape \in Shapes :
          BindWriteStream(d, nm, n, shape) \/ BindDefaultStream(d, nm, n, shape)
            => Others(d)
    BY <1>g, SMTT(30) DEF BindWriteStream, BindDefaultStream
  <2>2. \A d \in Clients : EnsureDefaultStream(d) \/ LoadStreamSession(d) => Others(d)
    BY <1>g, SMTT(30) DEF EnsureDefaultStream, LoadStreamSession
  <2>3. \A d \in Clients : StoreImmediateAppendRows(d) \/ CommitNext(d) => Others(d)
    BY <1>g, SMTT(30) DEF StoreImmediateAppendRows, CommitNext
  <2>4. \A d \in Clients, k \in 1..MaxCommits : \A names \in [1..k -> StreamNames] :
          BatchCommitWriteStreams(d, names) => Others(d)
    BY <1>g DEF BatchCommitWriteStreams
  <2> QED
    BY <2>1, <2>2, <2>3, <2>4, Zenon DEF Steps
<1>4. ASSUME \/ \E nm \in StreamNames :
                  \/ \E offset \in 0..MaxRows : FlushRows(nm, offset)
                  \/ FinalizeWriteStream(nm)
             \/ \E t \in Tables :
                  \/ DropTable(t)
                  \/ \E shape \in Shapes : CreateTable(t, shape)
             \/ UNCHANGED vars
      PROVE  call'[c] = call[c]
  BY <1>4, Zenon DEF FlushRows, FinalizeWriteStream, DropTable, CreateTable, vars
<1>5. Restart => Done(c)
  BY DEF Restart, Idle
<1> HIDE DEF Done
<1>6. ASSUME NEW d \in Clients, (Done(d) \/ Steps(d)) /\ Others(d)
      PROVE  call'[c] = call[c] \/ Done(c) \/ Steps(c)
  <2> HIDE DEF Steps
  <2>1. CASE d = c
    BY <1>6, <2>1
  <2>2. CASE d # c
    BY <1>6, <2>2 DEF Others
  <2> QED
    BY <2>1, <2>2
<1>7. \/ \E d \in Clients : (Done(d) \/ Steps(d)) /\ Others(d)
      \/ call'[c] = call[c]
      \/ Done(c)
  BY <1>1, <1>2, <1>3, <1>4, <1>5, Zenon DEF Next, AppendRowsStep
<1>8. call'[c] = call[c] \/ Done(c) \/ Steps(c)
  BY <1>6, <1>7, Zenon
<1> QED
  BY <1>8, Zenon DEF Done


=============================================================================
