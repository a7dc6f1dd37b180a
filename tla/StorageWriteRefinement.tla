----------------------- MODULE StorageWriteRefinement -----------------------
(***************************************************************************)
(* StorageWrite implements WritePromise, for every set of clients, tables  *)
(* and shapes and every bound.                                             *)
(***************************************************************************)
EXTENDS StorageWriteSafety

\* The rows of an entry of a commit list lead the buffer they were copied
\* from, which may have grown since.
Leads(p, s) ==
  /\ Len(p.rows) <= Len(s.buffered_rows)
  /\ \A i \in 1..Len(p.rows) : s.buffered_rows[i] = p.rows[i]

CommitsLead ==
  \A c \in Clients : call[c].pc = "commit" =>
    \A k \in 1..Len(call[c].commits) :
      Leads(call[c].commits[k], streams[call[c].commits[k].st])

\* The state WritePromise sees.
Kind == [nm \in StreamNames |-> streams[nm].type]
Sealed == [nm \in StreamNames |-> streams[nm].finalized]
Log == [nm \in StreamNames |-> streams[nm].buffered_rows]
Shown == [nm \in StreamNames |-> streams[nm].flushed_rows]
Accepted == [c \in Clients |-> Held(call[c])]
Seen == [t \in Tables |-> tables[t].rows]

-----------------------------------------------------------------------------

\* A prefix stays a prefix while the stream grows.
LEMMA LeadsStays ==
  ASSUME NEW s \in StreamState, NEW t \in StreamState, Grown(s, t),
         NEW p \in PendingCommit, Leads(p, s)
  PROVE  Leads(p, t)
<1>1. /\ Len(s.buffered_rows) \in Nat
      /\ Len(t.buffered_rows) \in Nat
      /\ Len(p.rows) \in Nat
  BY LenProperties DEF StreamState, PendingCommit
<1> QED
  BY <1>1 DEF Leads, Grown

\* A commit list keeps leading the buffers: late batches land behind.
LEMMA LeadNext ==
  ASSUME TypeInv, FreshAbsent, CommitsCopied, CommitsLead, [Next]_vars,
         crashes' = crashes
  PROVE  CommitsLead'
<1> SUFFICES ASSUME NEW c \in Clients, call'[c].pc = "commit",
                    NEW k \in 1..Len(call'[c].commits),
                    NEW p, p = call'[c].commits[k]
             PROVE  Leads(p, streams'[p.st])
  BY DEF CommitsLead
<1>g. \A x : Goto(c, x) => call'[c] = x
  BY SMTT(30) DEF Goto, TypeInv, TypeOK
<1>1. ASSUME call[c].pc = "commit", call'[c].commits = call[c].commits
      PROVE  Leads(p, streams'[p.st])
  <2>1. call[c].commits \in Seq(PendingCommit)
    BY <1>1, CallTypes DEF TypeInv
  <2>2. p \in PendingCommit
    BY <1>1, <2>1, LenProperties
  <2>3. p.st \in StreamNames
    BY <2>2 DEF PendingCommit
  <2>4. Leads(p, streams[p.st])
    BY <1>1 DEF CommitsLead
  <2>5. Copied(p, streams[p.st], crashes)
    BY <1>1, SMTT(30) DEF CommitsCopied
  <2>6. streams[p.st].type # "ABSENT"
    BY <2>5 DEF Copied
  <2> QED
    BY <2>2, <2>3, <2>4, <2>6, StreamStep, LeadsStays
<1>2. ASSUME NEW n \in 1..MaxCommits, NEW names \in [1..n -> StreamNames],
             BatchCommitWriteStreams(c, names)
      PROVE  Leads(p, streams'[p.st])
  <2> DEFINE copies == [i \in DOMAIN names |->
                          [st |-> names[i],
                           shape |-> streams[names[i]].shape,
                           rows |-> streams[names[i]].buffered_rows]]
  <2>0. Goto(c, [pc |-> "commit", next |-> 1, commits |-> copies]) /\ streams' = streams
    BY <1>2, Zenon DEF BatchCommitWriteStreams
  <2>1. call'[c].commits = copies
    <3> HIDE DEF copies
    <3> QED BY <1>g, <2>0
  <2>3. Len(call'[c].commits) = n /\ k \in 1..n
    BY <2>1, BoundsAssumption
  <2>4. /\ p.st = names[k]
        /\ p.rows = streams[names[k]].buffered_rows
        /\ names[k] \in StreamNames
    BY <2>1, <2>3
  <2>5. Len(p.rows) \in Nat
    BY <2>4, LenProperties DEF TypeInv, TypeOK, StreamState
  <2> QED
    BY <2>0, <2>4, <2>5 DEF Leads
<1>3. ASSUME CommitNext(c)
      PROVE  Leads(p, streams'[p.st])
  <2>1. call[c].pc = "commit" /\ (call'[c] = NextCommit(call[c]) \/ call'[c] = Idle)
    BY <1>3, <1>g DEF CommitNext
  <2>2. call'[c].commits = call[c].commits
    BY <2>1, NextCommitPc DEF Idle
  <2> QED
    BY <1>1, <2>1, <2>2, SMTT(30)
<1>4. ASSUME NEW nm \in StreamNames, NEW n \in 0..MaxBatch, NEW shape \in Shapes,
             BindWriteStream(c, nm, n, shape) \/ BindDefaultStream(c, nm, n, shape)
      PROVE  FALSE
  BY <1>4, <1>g DEF BindWriteStream, BindDefaultStream
<1>5. ~EnsureDefaultStream(c)
  BY <1>g DEF EnsureDefaultStream
<1>6. ~LoadStreamSession(c)
  BY <1>g DEF LoadStreamSession, Idle, Open
<1>7. ~StoreImmediateAppendRows(c)
  BY <1>g DEF StoreImmediateAppendRows, Idle, Open
<1>8. call'[c].pc \notin {"idle", "open", "mint"}
  OBVIOUS
<1>9. call'[c] = call[c] => Leads(p, streams'[p.st])
  BY <1>1
<1> QED
  BY <1>2, <1>3, <1>4, <1>5, <1>6, <1>7, <1>8, <1>9, CallSteps, Zenon

\* The invariant of the refinement.
LEMMA LeadInvariant == Spec => [](TypeInv /\ SafeInv /\ CommitsLead)
<1>1. Init => CommitsLead
  BY DEF Init, Idle, CommitsLead
<1>2. TypeInv /\ SafeInv /\ CommitsLead /\ [Next]_vars => CommitsLead'
  <2> SUFFICES ASSUME TypeInv, SafeInv, CommitsLead, [Next]_vars
               PROVE  CommitsLead'
    OBVIOUS
  <2>1. CASE Restart
    BY <2>1 DEF Restart, Idle, CommitsLead
  <2>2. CASE crashes' = crashes
    BY <2>2, LeadNext DEF SafeInv
  <2> QED
    BY <2>1, <2>2, EpochSteps
<1> QED
  BY <1>1, <1>2, SafeInvariant, PTL DEF Spec

-----------------------------------------------------------------------------
(* What a step looks like to WritePromise.                                 *)

\* A thread goes on: only its own batch can become, or cease to be, accepted.
LEMMA HeldGoto ==
  ASSUME TypeInv, NEW c \in Clients, NEW x, Goto(c, x)
  PROVE  /\ Accepted' = [Accepted EXCEPT ![c] = Held(x)]
         /\ Held(x) = Held(call[c]) => Accepted' = Accepted
<1>1. call \in [Clients -> Call]
  BY DEF TypeInv, TypeOK
<1>2. \A d \in Clients : call'[d] = IF d = c THEN x ELSE call[d]
  BY <1>1 DEF Goto
<1>3. Accepted' = [d \in Clients |-> Held(call'[d])]
  BY DEF Accepted
<1> QED
  BY <1>2, <1>3, Zenon DEF Accepted

\* Streams that keep their state look the same.
LEMMA StreamsSame ==
  ASSUME streams' = streams
  PROVE  Kind' = Kind /\ Sealed' = Sealed /\ Log' = Log /\ Shown' = Shown
  BY DEF Kind, Sealed, Log, Shown

\* One stream changes: the four views change at its name only.
LEMMA StreamsAt ==
  ASSUME TypeInv, NEW nm \in StreamNames, NEW s,
         streams' = [streams EXCEPT ![nm] = s]
  PROVE  /\ Kind' = [Kind EXCEPT ![nm] = s.type]
         /\ Sealed' = [Sealed EXCEPT ![nm] = s.finalized]
         /\ Log' = [Log EXCEPT ![nm] = s.buffered_rows]
         /\ Shown' = [Shown EXCEPT ![nm] = s.flushed_rows]
<1>1. streams \in [StreamNames -> StreamState]
  BY DEF TypeInv, TypeOK
<1>2. \A n \in StreamNames : streams'[n] = IF n = nm THEN s ELSE streams[n]
  BY <1>1
<1>3. \A n \in StreamNames :
        /\ Kind'[n] = [Kind EXCEPT ![nm] = s.type][n]
        /\ Log'[n] = [Log EXCEPT ![nm] = s.buffered_rows][n]
        /\ Shown'[n] = [Shown EXCEPT ![nm] = s.flushed_rows][n]
  BY <1>2 DEF Kind, Log, Shown
<1>4. ASSUME NEW n \in StreamNames
      PROVE  Sealed'[n] = [Sealed EXCEPT ![nm] = s.finalized][n]
  <2>1. Sealed'[n] = streams'[n].finalized /\ Sealed[n] = streams[n].finalized
    BY Zenon DEF Sealed
  <2>2. DOMAIN Sealed = StreamNames
    BY Zenon DEF Sealed
  <2>3. CASE n = nm
    <3>1. streams'[n] = s
      BY <1>2, <2>3
    <3> QED
      BY <2>1, <2>2, <2>3, <3>1, Zenon
  <2>4. CASE n # nm
    <3>1. streams'[n] = streams[n]
      BY <1>2, <2>4
    <3> QED
      BY <2>1, <2>2, <2>4, <3>1, Zenon
  <2> QED
    BY <2>3, <2>4
<1>5. Kind' = [Kind EXCEPT ![nm] = s.type]
  BY <1>3, Zenon DEF Kind
<1>6. Log' = [Log EXCEPT ![nm] = s.buffered_rows]
  BY <1>3, Zenon DEF Log
<1>7. Shown' = [Shown EXCEPT ![nm] = s.flushed_rows]
  BY <1>3, Zenon DEF Shown
<1>8. Sealed' = [Sealed EXCEPT ![nm] = s.finalized]
  BY <1>4, Zenon DEF Sealed
<1> QED
  BY <1>5, <1>6, <1>7, <1>8

\* An append to one table is seen there.
LEMMA SeenAppend ==
  ASSUME TypeInv, NEW t \in Tables, NEW rows \in Seq(Row), AppendToTable(t, rows)
  PROVE  /\ Seen' = [Seen EXCEPT ![t] = Seen[t] \o rows]
         /\ rows = <<>> => Seen' = Seen
<1>1. tables \in [Tables -> Table]
  BY DEF TypeInv, TypeOK
<1>2. \A u \in Tables :
        tables'[u].rows = IF u = t THEN tables[u].rows \o rows ELSE tables[u].rows
  BY <1>1 DEF AppendToTable, Table
<1>3. \A u \in Tables : tables[u].rows \o <<>> = tables[u].rows
  BY <1>1, ConcatEmptySeq DEF Table
<1>4. Seen' = [u \in Tables |-> tables'[u].rows]
  BY DEF Seen
<1> QED
  BY <1>2, <1>3, <1>4, Zenon DEF Seen

\* WritePromise sees nothing of a step.
Unseen ==
  /\ Kind' = Kind /\ Sealed' = Sealed /\ Log' = Log /\ Shown' = Shown
  /\ Accepted' = Accepted
  /\ Seen' = Seen

\* The steps on the way to a lock change nothing WritePromise sees.
LEMMA QuietSteps ==
  ASSUME TypeInv, NEW c \in Clients,
         \/ \E t \in Tables, type \in StreamTypes : CreateWriteStream(c, t, type)
         \/ \E nm \in StreamNames, n \in 0..MaxBatch, shape \in Shapes :
              BindWriteStream(c, nm, n, shape) \/ BindDefaultStream(c, nm, n, shape)
         \/ CloseAppendRows(c)
         \/ \E k \in 1..MaxCommits : \E names \in [1..k -> StreamNames] :
              BatchCommitWriteStreams(c, names)
  PROVE  Unseen
<1> DEFINE Quiet == /\ UNCHANGED <<streams, tables>>
                    /\ Held(call[c]) = {}
                    /\ \E x : Goto(c, x) /\ Held(x) = {}
<1>1. ASSUME NEW t \in Tables, NEW type \in StreamTypes, CreateWriteStream(c, t, type)
      PROVE  Quiet
  BY <1>1, SMTT(30) DEF CreateWriteStream, Held, Idle
<1>2. ASSUME NEW nm \in StreamNames, NEW n \in 0..MaxBatch, NEW shape \in Shapes,
             BindWriteStream(c, nm, n, shape)
      PROVE  Quiet
  BY <1>2, SMTT(30) DEF BindWriteStream, MayBind, Held, Idle, Open
<1>3. ASSUME NEW nm \in StreamNames, NEW n \in 0..MaxBatch, NEW shape \in Shapes,
             BindDefaultStream(c, nm, n, shape)
      PROVE  Quiet
  BY <1>3, SMTT(30) DEF BindDefaultStream, MayBind, Held, Idle, Open
<1>4. CloseAppendRows(c) => Quiet
  BY SMTT(30) DEF CloseAppendRows, Held, Idle
<1>5. ASSUME NEW k \in 1..MaxCommits, NEW names \in [1..k -> StreamNames],
             BatchCommitWriteStreams(c, names)
      PROVE  Quiet
  BY <1>5 DEF BatchCommitWriteStreams, Held, Idle
<1> HIDE DEF Quiet
<1>6. Quiet
  BY <1>1, <1>2, <1>3, <1>4, <1>5
<1>7. Accepted' = Accepted
  BY <1>6, HeldGoto, Zenon DEF Quiet
<1>8. Seen' = Seen
  BY <1>6 DEF Quiet, Seen
<1> QED
  BY <1>6, <1>7, <1>8, StreamsSame DEF Quiet, Unseen

\* Minting a stream, for a caller or for a first `_default` append.
LEMMA CreateSteps ==
  ASSUME TypeInv, SafeInv, NEW c \in Clients,
         MintStream(c) \/ EnsureDefaultStream(c)
  PROVE  \/ Unseen
         \/ \E s \in Promise!Streams :
              \E k \in {"COMMITTED", "BUFFERED", "PENDING"} : Promise!Create(s, k)
<1> DEFINE Made(nm, k) ==
             /\ nm \in StreamNames
             /\ k \in StreamTypes
             /\ streams[nm].type = "ABSENT"
             /\ \E sh : streams' = [streams EXCEPT ![nm] = NewStream(k, sh)]
<1>a. Accepted' = Accepted /\ Seen' = Seen
  <2>1. Held(call[c]) = {} /\ tables' = tables
    BY DEF MintStream, EnsureDefaultStream, Held
  <2>2. \E x : Goto(c, x) /\ Held(x) = {}
    BY DEF MintStream, EnsureDefaultStream, Held, Idle
  <2> QED
    BY <2>1, <2>2, HeldGoto DEF Seen
<1>1. ASSUME MintStream(c)
      PROVE  Made(<<call[c].table, nextStreamId>>, call[c].type)
  <2>1. call[c].table \in Tables /\ call[c].type \in StreamTypes
    BY <1>1, SMTT(30) DEF MintStream, TypeInv, TypeOK, Call
  <2>2. nextStreamId \in 0..MaxStreams
    BY <1>1, BoundsAssumption DEF MintStream, TypeInv, TypeOK
  <2>3. <<call[c].table, nextStreamId>> \in StreamNames
    BY <2>1, <2>2 DEF StreamNames
  <2>4. streams[<<call[c].table, nextStreamId>>].type = "ABSENT"
    BY <2>2, <2>3 DEF SafeInv, FreshAbsent, Exists
  <2> QED
    BY <1>1, <2>1, <2>3, <2>4, Zenon DEF MintStream
<1>2. ASSUME EnsureDefaultStream(c)
      PROVE  streams' = streams \/ Made(call[c].st, "COMMITTED")
  <2>1. call[c].st \in StreamNames
    BY <1>2, CallTypes DEF EnsureDefaultStream, TypeInv
  <2>2. streams \in [StreamNames -> StreamState]
    BY DEF TypeInv, TypeOK
  <2>3. streams' = [streams EXCEPT ![call[c].st] =
                      DefaultStream(call[c].st, call[c].schema)]
    BY <1>2 DEF EnsureDefaultStream
  <2>4. CASE Exists(call[c].st)
    BY <2>1, <2>2, <2>3, <2>4 DEF DefaultStream
  <2>5. CASE ~Exists(call[c].st)
    BY <2>1, <2>3, <2>5, Zenon DEF DefaultStream, Exists, StreamTypes
  <2> QED
    BY <2>4, <2>5, SMTT(30)
<1>3. ASSUME NEW nm, NEW k, Made(nm, k)
      PROVE  nm \in Promise!Streams /\ Promise!Create(nm, k)
  <2>1. PICK sh : streams' = [streams EXCEPT ![nm] = NewStream(k, sh)]
    BY <1>3, Zenon
  <2>2. /\ Kind' = [Kind EXCEPT ![nm] = k]
        /\ Sealed' = [Sealed EXCEPT ![nm] = FALSE]
        /\ Log' = [Log EXCEPT ![nm] = <<>>]
        /\ Shown' = [Shown EXCEPT ![nm] = 0]
    <3>1. /\ NewStream(k, sh).type = k
          /\ NewStream(k, sh).finalized = FALSE
          /\ NewStream(k, sh).buffered_rows = <<>>
          /\ NewStream(k, sh).flushed_rows = 0
      BY DEF NewStream
    <3>2. nm \in StreamNames
      BY <1>3
    <3>3. /\ Kind' = [Kind EXCEPT ![nm] = NewStream(k, sh).type]
          /\ Sealed' = [Sealed EXCEPT ![nm] = NewStream(k, sh).finalized]
          /\ Log' = [Log EXCEPT ![nm] = NewStream(k, sh).buffered_rows]
          /\ Shown' = [Shown EXCEPT ![nm] = NewStream(k, sh).flushed_rows]
      <4> DEFINE new == NewStream(k, sh)
      <4>1. streams' = [streams EXCEPT ![nm] = new]
        BY <2>1
      <4> HIDE DEF new
      <4>2. /\ Kind' = [Kind EXCEPT ![nm] = new.type]
            /\ Sealed' = [Sealed EXCEPT ![nm] = new.finalized]
            /\ Log' = [Log EXCEPT ![nm] = new.buffered_rows]
            /\ Shown' = [Shown EXCEPT ![nm] = new.flushed_rows]
        BY <3>2, <4>1, StreamsAt, Zenon
      <4> QED
        BY <4>2 DEF new
    <3> QED
      BY <3>1, <3>3, Zenon
  <2>3. nm \in StreamNames /\ Kind[nm] = "ABSENT"
    BY <1>3 DEF Kind
  <2> QED
    BY <1>a, <2>2, <2>3, Zenon
    DEF Promise!Create, Promise!Streams, StreamNames, Kind, Sealed, Log, Shown,
        Accepted, Seen
<1> HIDE DEF Made
<1>4. streams' = streams => Unseen
  BY <1>a, StreamsSame DEF Unseen
<1>5. \A nm, k : Made(nm, k) => k \in {"COMMITTED", "BUFFERED", "PENDING"}
  BY DEF Made, StreamTypes
<1> QED
  BY <1>1, <1>2, <1>3, <1>4, <1>5

\* A batch whose session is loaded is accepted; a refused one is not seen.
LEMMA AcceptStep ==
  ASSUME TypeInv, NEW c \in Clients, LoadStreamSession(c)
  PROVE  Unseen \/ Promise!Accept(c)
<1>1. /\ call[c].pc = "load"
      /\ call[c].st \in StreamNames
      /\ UNCHANGED <<streams, tables>>
  BY CallTypes DEF LoadStreamSession, TypeInv
<1>2. Held(call[c]) = {}
  BY <1>1 DEF Held
<1>3. Kind' = Kind /\ Sealed' = Sealed /\ Log' = Log /\ Shown' = Shown /\ Seen' = Seen
  BY <1>1, StreamsSame DEF Seen
<1>4. ASSUME NEW x, Goto(c, x), Held(x) = {}
      PROVE  Unseen
  BY <1>2, <1>3, <1>4, HeldGoto DEF Unseen
<1>5. ASSUME NEW x, Goto(c, x), ~Refused(call[c].st),
             Held(x) = {[st |-> call[c].st, rows |-> call[c].batch]}
      PROVE  Promise!Accept(c)
  <2> DEFINE b == [st |-> call[c].st, rows |-> call[c].batch]
  <2>1. b.st = call[c].st
    OBVIOUS
  <2>2. Accepted' = [Accepted EXCEPT ![c] = {b}]
    BY <1>5, HeldGoto
  <2> HIDE DEF b
  <2>3. Accepted[c] = {} /\ b \in Accepted'[c]
    BY <1>2, <2>2 DEF Accepted
  <2>4. Kind[b.st] # "ABSENT"
    BY <1>1, <1>5, <2>1 DEF Refused, Exists, Kind
  <2>5. ~Sealed[b.st]
    BY <1>1, <1>5, <2>1, Zenon DEF Refused, Sealed
  <2> QED
    BY <1>3, <2>2, <2>3, <2>4, <2>5, Zenon
    DEF Promise!Accept, Kind, Sealed, Log, Shown, Accepted, Seen
<1>6. \/ \E x : Goto(c, x) /\ Held(x) = {}
      \/ \E x : /\ Goto(c, x)
                /\ ~Refused(call[c].st)
                /\ Held(x) = {[st |-> call[c].st, rows |-> call[c].batch]}
  <2>1. \/ Goto(c, Idle)
        \/ Goto(c, Open(call[c].st))
        \/ /\ ~Refused(call[c].st)
           /\ Goto(c, [pc |-> IF streams[call[c].st].type \in BufferingTypes
                              THEN "buffer" ELSE "store",
                       st |-> call[c].st, shape |-> streams[call[c].st].shape,
                       batch |-> call[c].batch])
    BY Zenon DEF LoadStreamSession
  <2>2. Held(Idle) = {} /\ \A nm : Held(Open(nm)) = {}
    BY DEF Held, Idle, Open
  <2>3. \A q \in {"buffer", "store"} : \A st, sh, batch :
          Held([pc |-> q, st |-> st, shape |-> sh, batch |-> batch])
            = {[st |-> st, rows |-> batch]}
    BY DEF Held
  <2> QED
    BY <2>1, <2>2, <2>3
<1> QED
  BY <1>4, <1>5, <1>6

\* What a stream that takes a batch keeps.
LEMMA KeptFields ==
  ASSUME NEW s \in StreamState, NEW rows \in Seq(Row)
  PROVE  /\ Buffered(s, rows).flushed_rows = s.flushed_rows
         /\ Buffered(s, rows).finalized = s.finalized
<1>1. /\ Advanced(s, rows) \in StreamState
      /\ Advanced(s, rows) =
           [s EXCEPT !.committed_rows = s.committed_rows + Len(rows)]
  BY BufferedType
<1> QED
  BY <1>1 DEF Buffered, StreamState

\* CommitBufferedAppendRows puts the accepted batch at the end of the log.
LEMMA BufferStep ==
  ASSUME TypeInv, SafeInv, NEW c \in Clients, CommitBufferedAppendRows(c)
  PROVE  Promise!Buffer(c)
<1> DEFINE st == call[c].st
           new == Buffered(streams[st], call[c].batch)
           b == [st |-> st, rows |-> call[c].batch]
<1>1. /\ call[c].pc = "buffer"
      /\ st \in StreamNames
      /\ call[c].batch \in Seq(Row)
      /\ streams[st] \in StreamState
  BY CallTypes DEF CommitBufferedAppendRows, TypeInv, TypeOK
<1>2. /\ new.type = streams[st].type
      /\ new.flushed_rows = streams[st].flushed_rows
      /\ new.buffered_rows = streams[st].buffered_rows \o call[c].batch
  BY <1>1, BufferedFields, KeptFields, Zenon
<1>3. new.finalized = streams[st].finalized
  BY <1>1, KeptFields
<1>4. streams' = [streams EXCEPT ![st] = new] /\ tables' = tables
  BY SMTT(30) DEF CommitBufferedAppendRows
<1>5. Goto(c, Open(st))
  BY DEF CommitBufferedAppendRows, Answer
<1>6. streams[st].type \in BufferingTypes
  BY <1>1 DEF SafeInv, Routed
<1> HIDE DEF new, st
<1>7. /\ Kind' = [Kind EXCEPT ![st] = new.type]
      /\ Sealed' = [Sealed EXCEPT ![st] = new.finalized]
      /\ Log' = [Log EXCEPT ![st] = new.buffered_rows]
      /\ Shown' = [Shown EXCEPT ![st] = new.flushed_rows]
  BY <1>1, <1>4, StreamsAt, Zenon
<1>8. Kind' = Kind /\ Shown' = Shown
  BY <1>1, <1>2, <1>7, Zenon DEF Kind, Shown
<1>9. Sealed' = Sealed
  <2>1. \A n \in StreamNames : Sealed'[n] = Sealed[n]
    BY <1>1, <1>3, <1>7, Zenon DEF Sealed
  <2> QED
    BY <2>1, Zenon DEF Sealed
<1>10. Log' = [Log EXCEPT ![b.st] = Log[b.st] \o b.rows]
  BY <1>1, <1>2, <1>7 DEF Log
<1>11. Accepted' = [Accepted EXCEPT ![c] = {}]
  <2>1. Held(Open(st)) = {}
    BY DEF Held, Open
  <2>2. Accepted' = [Accepted EXCEPT ![c] = Held(Open(st))]
    BY <1>5, HeldGoto
  <2> QED
    BY <2>1, <2>2
<1>12. b \in Accepted[c]
  BY <1>1 DEF Accepted, Held, st
<1>13. Kind[b.st] \in {"BUFFERED", "PENDING"}
  BY <1>1, <1>6 DEF Kind, BufferingTypes
<1>14. Seen' = Seen
  BY <1>4 DEF Seen
<1> HIDE DEF b
<1> QED
  BY <1>8, <1>9, <1>10, <1>11, <1>12, <1>13, <1>14, Zenon
  DEF Promise!Buffer, Kind, Sealed, Log, Shown, Accepted, Seen

\* Moving the cursor is not seen.
LEMMA CountStep ==
  ASSUME TypeInv, NEW c \in Clients, CountImmediateAppendRows(c)
  PROVE  Unseen
<1> DEFINE st == call[c].st
           new == Advanced(streams[st], call[c].batch)
<1>1. /\ call[c].pc = "count"
      /\ st \in StreamNames
      /\ call[c].batch \in Seq(Row)
      /\ streams[st] \in StreamState
  BY CallTypes, SMTT(30) DEF CountImmediateAppendRows, TypeInv, TypeOK
<1>2. /\ new.type = streams[st].type
      /\ new.flushed_rows = streams[st].flushed_rows
      /\ new.buffered_rows = streams[st].buffered_rows
      /\ new.finalized = streams[st].finalized
  BY <1>1 DEF Advanced, StreamState
<1>3. streams' = [streams EXCEPT ![st] = new] /\ tables' = tables
  BY SMTT(30) DEF CountImmediateAppendRows
<1>4. Goto(c, Open(st))
  BY SMTT(30) DEF CountImmediateAppendRows, Answer
<1>5. Held(call[c]) = {} /\ Held(Open(st)) = {}
  BY <1>1 DEF Held, Open
<1> HIDE DEF new, st
<1>6. /\ Kind' = [Kind EXCEPT ![st] = new.type]
      /\ Sealed' = [Sealed EXCEPT ![st] = new.finalized]
      /\ Log' = [Log EXCEPT ![st] = new.buffered_rows]
      /\ Shown' = [Shown EXCEPT ![st] = new.flushed_rows]
  BY <1>1, <1>3, StreamsAt, Zenon
<1>7. Kind' = Kind /\ Shown' = Shown /\ Log' = Log
  BY <1>1, <1>2, <1>6, Zenon DEF Kind, Shown, Log
<1>8. Sealed' = Sealed
  <2>1. \A n \in StreamNames : Sealed'[n] = Sealed[n]
    BY <1>1, <1>2, <1>6, Zenon DEF Sealed
  <2> QED
    BY <2>1, Zenon DEF Sealed
<1>9. Accepted' = Accepted
  BY <1>4, <1>5, HeldGoto
<1>10. Seen' = Seen
  BY <1>3 DEF Seen
<1> QED
  BY <1>7, <1>8, <1>9, <1>10, SMTT(30) DEF Unseen

\* CommitImmediateAppendRows stores the accepted batch whole or drops it.
LEMMA StoreStep ==
  ASSUME TypeInv, SafeInv, NEW c \in Clients, StoreImmediateAppendRows(c)
  PROVE  Promise!Store(c) \/ Promise!Abandon(c)
<1> DEFINE st == call[c].st
           b == [st |-> st, rows |-> call[c].batch]
<1>1. /\ call[c].pc = "store"
      /\ st \in StreamNames
      /\ call[c].batch \in Seq(Row)
      /\ UNCHANGED streams
  BY CallTypes DEF StoreImmediateAppendRows, TypeInv
<1>2. Kind' = Kind /\ Sealed' = Sealed /\ Log' = Log /\ Shown' = Shown
  BY <1>1, StreamsSame
<1>3. TableOf(st) \in Tables /\ Promise!TableOf(st) = TableOf(st)
  BY <1>1 DEF TableOf, StreamNames, Promise!TableOf
<1>4. streams[st].type = "COMMITTED"
  BY <1>1, SMTT(30) DEF SafeInv, Routed
<1>5. /\ UNCHANGED tables \/ AppendToTable(TableOf(st), call[c].batch)
      /\ \E x : Goto(c, x) /\ x.pc \in {"count", "open", "idle"}
  BY DEF StoreImmediateAppendRows, Idle, Open
<1>6. Accepted' = [Accepted EXCEPT ![c] = {}]
  <2>1. PICK x : Goto(c, x) /\ x.pc \in {"count", "open", "idle"}
    BY <1>5
  <2>2. Held(x) = {}
    BY <2>1 DEF Held
  <2>3. Accepted' = [Accepted EXCEPT ![c] = Held(x)]
    BY <2>1, HeldGoto
  <2> QED
    BY <2>2, <2>3
<1>7. b \in Accepted[c]
  BY <1>1 DEF Accepted, Held
<1>8. Kind[b.st] = "COMMITTED"
  BY <1>1, <1>4 DEF Kind
<1>9. CASE UNCHANGED tables
  <2>1. Seen' = Seen
    BY <1>9 DEF Seen
  <2> QED
    BY <1>2, <1>6, <2>1, Zenon
    DEF Promise!Abandon, Kind, Sealed, Log, Shown, Accepted, Seen
<1>10. CASE AppendToTable(TableOf(st), call[c].batch)
  <2>1. Seen' = [Seen EXCEPT ![TableOf(st)] = Seen[TableOf(st)] \o call[c].batch]
    BY <1>1, <1>3, <1>10, SeenAppend, Zenon
  <2>2. Seen' = [Seen EXCEPT ![Promise!TableOf(b.st)] =
                   Seen[Promise!TableOf(b.st)] \o b.rows]
    BY <1>3, <2>1, Zenon
  <2> HIDE DEF b
  <2> QED
    BY <1>2, <1>6, <1>7, <1>8, <2>2, Zenon
    DEF Promise!Store, Kind, Sealed, Log, Shown, Accepted, Seen
<1> QED
  BY <1>5, <1>9, <1>10, SMTT(30)

\* FlushRows adds the next rows of the log to the table.
LEMMA FlushStep ==
  ASSUME TypeInv, NEW nm \in StreamNames, NEW offset \in 0..MaxRows,
         FlushRows(nm, offset)
  PROVE  \E n \in 0..Len(Log[nm]) : Promise!Flush(nm, n)
<1> DEFINE s == streams[nm]
           new == [s EXCEPT !.flushed_rows = offset + 1]
           rows == SubSeq(s.buffered_rows, s.flushed_rows + 1, offset + 1)
<1>1. /\ streams \in [StreamNames -> StreamState]
      /\ s \in StreamState
      /\ s.flushed_rows \in Nat
      /\ s.buffered_rows \in Seq(Row)
      /\ Len(s.buffered_rows) \in Nat
      /\ offset \in Nat
  BY LenProperties, BoundsAssumption DEF TypeInv, TypeOK, StreamState
<1>2. /\ s.type = "BUFFERED"
      /\ offset \in 0..(Len(s.buffered_rows) - 1)
      /\ offset >= s.flushed_rows
      /\ AppendToTable(TableOf(nm), rows)
      /\ UNCHANGED call
  BY DEF FlushRows, Unflushed
<1>3. ~s.finalized
  BY Zenon DEF FlushRows
<1>4. streams' = [streams EXCEPT ![nm] = new]
  BY <1>1 DEF FlushRows
<1>5. rows \in Seq(Row)
  BY <1>1, <1>2, SubSeqProperties
<1>6. TableOf(nm) \in Tables /\ Promise!TableOf(nm) = TableOf(nm)
  BY DEF TableOf, StreamNames, Promise!TableOf
<1>7. /\ new.type = s.type
      /\ new.finalized = s.finalized
      /\ new.buffered_rows = s.buffered_rows
      /\ new.flushed_rows = offset + 1
  BY <1>1 DEF StreamState
<1>8. /\ Log[nm] = s.buffered_rows
      /\ Shown[nm] = s.flushed_rows
      /\ Kind[nm] = s.type
  BY DEF Log, Shown, Kind
<1>9. Sealed[nm] = s.finalized
  BY Zenon DEF Sealed
<1> HIDE DEF new
<1>10. /\ Kind' = [Kind EXCEPT ![nm] = new.type]
       /\ Sealed' = [Sealed EXCEPT ![nm] = new.finalized]
       /\ Log' = [Log EXCEPT ![nm] = new.buffered_rows]
       /\ Shown' = [Shown EXCEPT ![nm] = new.flushed_rows]
  BY <1>4, StreamsAt, Zenon
<1>11. Kind' = Kind /\ Log' = Log /\ Shown' = [Shown EXCEPT ![nm] = offset + 1]
  BY <1>7, <1>10, Zenon DEF Kind, Log
<1>12. Sealed' = Sealed
  <2>1. \A n \in StreamNames : Sealed'[n] = Sealed[n]
    BY <1>7, <1>10, Zenon DEF Sealed
  <2> QED
    BY <2>1, Zenon DEF Sealed
<1>13. Accepted' = Accepted
  BY <1>2 DEF Accepted
<1>14. Seen' = [Seen EXCEPT ![Promise!TableOf(nm)] =
                  Seen[Promise!TableOf(nm)]
                    \o SubSeq(Log[nm], Shown[nm] + 1, offset + 1)]
  <2>1. Seen' = [Seen EXCEPT ![TableOf(nm)] = Seen[TableOf(nm)] \o rows]
    <3> HIDE DEF rows
    <3> QED BY <1>2, <1>5, <1>6, SeenAppend
  <2> QED
    BY <1>6, <1>8, <2>1, SMTT(30)
<1>15. /\ Shown[nm] < offset + 1
       /\ offset + 1 <= Len(Log[nm])
       /\ offset + 1 \in 0..Len(Log[nm])
  BY <1>1, <1>2, <1>8
<1>16. Kind[nm] = "BUFFERED" /\ ~Sealed[nm]
  BY <1>2, <1>3, <1>8, <1>9, Zenon
<1>17. Promise!Flush(nm, offset + 1)
  BY <1>11, <1>12, <1>13, <1>14, <1>15, <1>16, Zenon
  DEF Promise!Flush, Kind, Sealed, Log, Shown, Accepted, Seen
<1> QED
  BY <1>15, <1>17

\* FinalizeWriteStream closes the stream.
LEMMA CloseStep ==
  ASSUME TypeInv, NEW nm \in StreamNames, FinalizeWriteStream(nm)
  PROVE  Promise!Close(nm)
<1> DEFINE s == streams[nm]
           new == [s EXCEPT !.finalized = TRUE]
<1>1. streams \in [StreamNames -> StreamState] /\ s \in StreamState
  BY DEF TypeInv, TypeOK
<1>2. /\ s.type # "ABSENT"
      /\ UNCHANGED <<call, tables>>
      /\ streams' = [streams EXCEPT ![nm] = new]
  BY <1>1 DEF FinalizeWriteStream, Exists
<1>3. ~s.finalized
  BY Zenon DEF FinalizeWriteStream
<1>4. /\ new.type = s.type
      /\ new.flushed_rows = s.flushed_rows
      /\ new.buffered_rows = s.buffered_rows
      /\ new.finalized = TRUE
  BY <1>1 DEF StreamState
<1> HIDE DEF new
<1>5. /\ Kind' = [Kind EXCEPT ![nm] = new.type]
      /\ Sealed' = [Sealed EXCEPT ![nm] = new.finalized]
      /\ Log' = [Log EXCEPT ![nm] = new.buffered_rows]
      /\ Shown' = [Shown EXCEPT ![nm] = new.flushed_rows]
  BY <1>2, StreamsAt, Zenon
<1>6. Kind' = Kind /\ Log' = Log /\ Shown' = Shown
  BY <1>4, <1>5, Zenon DEF Kind, Log, Shown
<1>7. Sealed' = [Sealed EXCEPT ![nm] = TRUE]
  BY <1>4, <1>5, Zenon
<1>8. Accepted' = Accepted /\ Seen' = Seen
  BY <1>2 DEF Accepted, Seen
<1>9. Kind[nm] # "ABSENT"
  BY <1>2 DEF Kind
<1>10. ~Sealed[nm]
  BY <1>3, Zenon DEF Sealed
<1> QED
  BY <1>6, <1>7, <1>8, <1>9, <1>10, Zenon
  DEF Promise!Close, Kind, Sealed, Log, Shown, Accepted, Seen

\* A sequence that leads another is a SubSeq of it.
LEMMA LeadsIsSubSeq ==
  ASSUME NEW r \in Seq(Row), NEW q \in Seq(Row), Len(r) <= Len(q),
         \A i \in 1..Len(r) : q[i] = r[i]
  PROVE  SubSeq(q, 1, Len(r)) = r
<1>1. Len(r) \in Nat /\ Len(q) \in Nat
  BY LenProperties, SMTT(30)
<1>2. /\ SubSeq(q, 1, Len(r)) \in Seq(Row)
      /\ Len(SubSeq(q, 1, Len(r))) = Len(r)
      /\ \A i \in 1..Len(r) : SubSeq(q, 1, Len(r))[i] = q[i]
  BY <1>1, SubSeqProperties
<1> QED
  BY <1>1, <1>2, SeqEqual

\* BatchCommitWriteStreams publishes a prefix of a closed log per stream.
LEMMA PublishStep ==
  ASSUME TypeInv, SafeInv, CommitsLead, NEW c \in Clients, CommitNext(c)
  PROVE  \/ Unseen
         \/ \E s \in StreamNames : \E n \in 0..Len(Log[s]) : Promise!Publish(s, n)
<1> DEFINE p == call[c].commits[call[c].next]
           s == streams[p.st]
<1>1. call[c].pc = "commit" /\ UNCHANGED streams
  BY SMTT(30) DEF CommitNext
<1>2. /\ call[c].commits \in Seq(PendingCommit)
      /\ call[c].next \in 1..Len(call[c].commits)
  BY <1>1, CallTypes DEF TypeInv, CommitInRange
<1>3. p \in PendingCommit
  BY <1>2, LenProperties
<1>4. /\ p.st \in StreamNames
      /\ p.rows \in Seq(Row)
      /\ s \in StreamState
      /\ s.buffered_rows \in Seq(Row)
      /\ Len(p.rows) \in Nat
      /\ Len(s.buffered_rows) \in Nat
  BY <1>3, LenProperties, Zenon DEF PendingCommit, TypeInv, TypeOK, StreamState
<1>5. Leads(p, s)
  BY <1>1, <1>2, SMTT(30) DEF CommitsLead
<1>6. Copied(p, s, crashes)
  BY <1>1, <1>2 DEF SafeInv, CommitsCopied
<1>7. /\ UNCHANGED tables \/ AppendToTable(TableOf(p.st), p.rows)
      /\ Goto(c, NextCommit(call[c])) \/ Goto(c, Idle)
  BY Zenon DEF CommitNext
<1>8. Accepted' = Accepted
  <2>1. Held(call[c]) = {} /\ Held(Idle) = {} /\ Held(NextCommit(call[c])) = {}
    BY <1>1, NextCommitPc, SMTT(30) DEF Held, Idle
  <2> QED
    BY <1>7, <2>1, HeldGoto, SMTT(30)
<1>9. Kind' = Kind /\ Sealed' = Sealed /\ Log' = Log /\ Shown' = Shown
  BY <1>1, StreamsSame
<1>10. CASE UNCHANGED tables
  BY <1>8, <1>9, <1>10 DEF Unseen, Seen
<1>11. CASE AppendToTable(TableOf(p.st), p.rows)
  <2>1. TableOf(p.st) \in Tables /\ Promise!TableOf(p.st) = TableOf(p.st)
    BY <1>4, Zenon DEF TableOf, StreamNames, Promise!TableOf
  <2>2. Log[p.st] = s.buffered_rows /\ Kind[p.st] = s.type
    BY <1>4, Zenon DEF Log, Kind
  <2>3. Sealed[p.st] = s.finalized
    BY <1>4, Zenon DEF Sealed
  <2>4. Kind[p.st] = "PENDING" /\ Sealed[p.st]
    BY <1>6, <2>2, <2>3, Zenon DEF Copied
  <2>5. SubSeq(Log[p.st], 1, Len(p.rows)) = p.rows
    <3>1. /\ Len(p.rows) <= Len(s.buffered_rows)
          /\ \A i \in 1..Len(p.rows) : s.buffered_rows[i] = p.rows[i]
      BY <1>5, Zenon DEF Leads
    <3> HIDE DEF p, s
    <3>2. SubSeq(s.buffered_rows, 1, Len(p.rows)) = p.rows
      BY <1>4, <3>1, LeadsIsSubSeq, Zenon
    <3> QED
      BY <2>2, <3>2, Zenon
  <2>6. Len(p.rows) <= Len(Log[p.st]) /\ Len(p.rows) \in 0..Len(Log[p.st])
    <3>1. Len(p.rows) <= Len(s.buffered_rows)
      BY <1>5, Zenon DEF Leads
    <3>2. Len(p.rows) \in Nat /\ Len(Log[p.st]) \in Nat
      BY <1>4, <2>2, Zenon
    <3> HIDE DEF p
    <3>3. Len(p.rows) <= Len(Log[p.st])
      BY <2>2, <3>1, SMTT(30)
    <3> QED
      BY <3>2, <3>3
  <2>7. Seen' = [Seen EXCEPT ![TableOf(p.st)] = Seen[TableOf(p.st)] \o p.rows]
    <3> HIDE DEF p
    <3> QED BY <1>4, <1>11, <2>1, SeenAppend, Zenon
  <2>8. Seen' = [Seen EXCEPT ![Promise!TableOf(p.st)] =
                   Seen[Promise!TableOf(p.st)] \o SubSeq(Log[p.st], 1, Len(p.rows))]
    BY <2>1, <2>5, <2>7, Zenon
  <2>9. PICK st \in StreamNames : st = p.st
    BY <1>4, Zenon
  <2>10. PICK n \in Nat : n = Len(p.rows)
    BY <1>4, Zenon
  <2> HIDE DEF p
  <2>11. /\ Kind[st] = "PENDING"
         /\ Sealed[st]
         /\ n <= Len(Log[st])
         /\ Seen' = [Seen EXCEPT ![Promise!TableOf(st)] =
                       Seen[Promise!TableOf(st)] \o SubSeq(Log[st], 1, n)]
    BY <2>4, <2>6, <2>8, <2>9, <2>10, Zenon
  <2>12. Promise!Publish(st, n)
    BY <1>8, <1>9, <2>11, Zenon
    DEF Promise!Publish, Kind, Sealed, Log, Shown, Accepted, Seen
  <2>13. n \in 0..Len(Log[st])
    BY <2>6, <2>9, <2>10
  <2> QED
    BY <2>12, <2>13
<1> QED
  BY <1>7, <1>10, <1>11, SMTT(30)

\* A dropped table, and a new one, are empty.
LEMMA ClearStep ==
  ASSUME TypeInv, NEW t \in Tables,
         DropTable(t) \/ \E shape \in Shapes : CreateTable(t, shape)
  PROVE  Promise!Clear(t)
<1>1. tables \in [Tables -> Table] /\ UNCHANGED <<streams, call>>
  BY DEF TypeInv, TypeOK, DropTable, CreateTable
<1>2. \A u \in Tables : tables'[u].rows = IF u = t THEN <<>> ELSE tables[u].rows
  BY <1>1 DEF DropTable, CreateTable, Table
<1>3. Seen' = [u \in Tables |-> tables'[u].rows]
  BY DEF Seen
<1>4. Seen' = [Seen EXCEPT ![t] = <<>>]
  BY <1>2, <1>3, Zenon DEF Seen
<1>5. /\ Kind' = Kind /\ Sealed' = Sealed /\ Log' = Log /\ Shown' = Shown
      /\ Accepted' = Accepted
  BY <1>1, StreamsSame DEF Accepted
<1> QED
  BY <1>4, <1>5, Zenon
  DEF Promise!Clear, Kind, Sealed, Log, Shown, Accepted, Seen

\* What WritePromise sees of a stream that does not exist and an idle thread.
LEMMA FreshViews ==
  /\ Absent.type = "ABSENT"
  /\ Absent.finalized = FALSE
  /\ Absent.buffered_rows = <<>>
  /\ Absent.flushed_rows = 0
  /\ Held(Idle) = {}
  BY DEF Absent, NewStream, Held, Idle

\* A restart loses streams and calls, and no table.
LEMMA CrashStep ==
  ASSUME Restart
  PROVE  Promise!Crash
<1>1. /\ \A nm \in StreamNames : streams'[nm] = Absent
      /\ \A c \in Clients : call'[c] = Idle
      /\ tables' = tables
  BY DEF Restart
<1>2. /\ \A nm \in StreamNames : streams'[nm].type = "ABSENT"
      /\ \A nm \in StreamNames : streams'[nm].buffered_rows = <<>>
      /\ \A nm \in StreamNames : streams'[nm].flushed_rows = 0
      /\ \A c \in Clients : Held(call'[c]) = {}
  BY <1>1, FreshViews
<1>3. \A nm \in StreamNames : streams'[nm].finalized = FALSE
  BY <1>1, FreshViews, Zenon
<1> QED
  BY <1>1, <1>2, <1>3, Zenon DEF Promise!Crash, Promise!Streams, StreamNames

\* The service starts as WritePromise does.
LEMMA InitStep == Init => Promise!Init
<1> SUFFICES ASSUME Init
             PROVE  Promise!Init
  OBVIOUS
<1>1. /\ \A nm \in StreamNames : streams[nm] = Absent
      /\ \A c \in Clients : call[c] = Idle
      /\ \A t \in Tables : tables[t].rows = <<>>
  BY DEF Init
<1>2. /\ \A nm \in StreamNames : streams[nm].type = "ABSENT"
      /\ \A nm \in StreamNames : streams[nm].buffered_rows = <<>>
      /\ \A nm \in StreamNames : streams[nm].flushed_rows = 0
      /\ \A c \in Clients : Held(call[c]) = {}
  BY <1>1, FreshViews
<1>3. \A nm \in StreamNames : streams[nm].finalized = FALSE
  BY <1>1, FreshViews, Zenon
<1> QED
  BY <1>1, <1>2, <1>3, Zenon DEF Promise!Init, Promise!Streams, StreamNames

\* Every step of the service is a step of WritePromise, or not seen there.
LEMMA NextStep ==
  ASSUME TypeInv, SafeInv, CommitsLead, [Next]_vars
  PROVE  [Promise!Next]_(Promise!vars)
<1> DEFINE Step == Promise!Next
<1>0. Unseen => UNCHANGED Promise!vars
  BY Zenon DEF Unseen, Promise!vars, Kind, Sealed, Log, Shown, Accepted, Seen
<1>n. Promise!Streams = StreamNames
  BY DEF Promise!Streams, StreamNames
<1>1. \A c \in Clients : \/ Promise!Accept(c)
                         \/ Promise!Buffer(c)
                         \/ Promise!Store(c)
                         \/ Promise!Abandon(c)
                         => Step
  BY Zenon DEF Promise!Next
<1>2. \A s \in StreamNames :
        /\ Promise!Close(s) => Step
        /\ (\E k \in {"COMMITTED", "BUFFERED", "PENDING"} : Promise!Create(s, k)) => Step
        /\ (\E n \in 0..Len(Log[s]) : Promise!Flush(s, n) \/ Promise!Publish(s, n))
             => Step
  BY <1>n, Zenon DEF Promise!Next, Log
<1>3. \A t \in Tables : Promise!Clear(t) => Step
  BY Zenon DEF Promise!Next
<1>4. Promise!Crash => Step
  BY Zenon DEF Promise!Next
<1> HIDE DEF Step
<1>5. \A c \in Clients :
        /\ (\E t \in Tables, type \in StreamTypes : CreateWriteStream(c, t, type)) => Unseen
        /\ (\E nm \in StreamNames, n \in 0..MaxBatch, shape \in Shapes :
              BindWriteStream(c, nm, n, shape) \/ BindDefaultStream(c, nm, n, shape))
             => Unseen
        /\ CloseAppendRows(c) => Unseen
        /\ (\E k \in 1..MaxCommits : \E names \in [1..k -> StreamNames] :
              BatchCommitWriteStreams(c, names)) => Unseen
  BY QuietSteps
<1>6. \A c \in Clients : AppendRowsStep(c) \/ MintStream(c) => Unseen \/ Step
  BY <1>1, <1>2, <1>n, CreateSteps, AcceptStep, BufferStep, CountStep, StoreStep
  DEF AppendRowsStep
<1>7. \A c \in Clients : CommitNext(c) => Unseen \/ Step
  BY <1>2, PublishStep
<1>8. \A nm \in StreamNames :
        /\ (\E offset \in 0..MaxRows : FlushRows(nm, offset)) => Step
        /\ FinalizeWriteStream(nm) => Step
  BY <1>2, FlushStep, CloseStep
<1>9. \A t \in Tables :
        DropTable(t) \/ (\E shape \in Shapes : CreateTable(t, shape)) => Step
  BY <1>3, ClearStep
<1>10. Restart => Step
  BY <1>4, CrashStep, SMTT(30)
<1>11. UNCHANGED vars => Unseen
  BY DEF vars, Unseen, Kind, Sealed, Log, Shown, Accepted, Seen
<1>12. Unseen \/ Step
  BY <1>5, <1>6, <1>7, <1>8, <1>9, <1>10, <1>11, Zenon DEF Next
<1> QED
  BY <1>0, <1>12 DEF Step

\* The Storage Write service implements WritePromise: whatever handler steps
\* interleave, a batch takes effect once and whole or not at all, and a table
\* only ever gains the batch of a committing stream, the next rows of a
\* BUFFERED log, or a prefix of a closed PENDING log.
THEOREM Implementation == Spec => ImplementsPromise
<1>1. TypeInv /\ SafeInv /\ CommitsLead /\ [Next]_vars => [Promise!Next]_(Promise!vars)
  BY NextStep
<1> QED
  BY <1>1, InitStep, LeadInvariant, PTL DEF Spec, ImplementsPromise, Promise!Spec
=============================================================================
