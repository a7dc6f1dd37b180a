---------------------------- MODULE WritePromise ----------------------------
(***************************************************************************)
(* What the Storage Write service promises its callers, with every call an *)
(* atomic step on append-only logs.                                        *)
(*                                                                         *)
(* A stream belongs to one table.  A BUFFERED or PENDING stream keeps a    *)
(* log of the rows it took; a COMMITTED one hands its rows straight to the *)
(* table.  A batch is accepted while its stream is open and takes effect   *)
(* once, whole, at a later moment, or never.  Rows of a BUFFERED log reach *)
(* the table in order and once each; rows of a PENDING log reach it only   *)
(* after the stream was closed, as a prefix of the log per commit.         *)
(***************************************************************************)
EXTENDS Integers, Sequences

CONSTANTS
  Tables,   \* tables
  Ids,      \* stream ids within a table
  Writers   \* callers, each with at most one batch under way

VARIABLES
  kind,     \* the type of each stream, "ABSENT" when there is none
  sealed,   \* whether the stream was closed
  log,      \* the rows a buffering stream has taken
  shown,    \* how many rows of a BUFFERED log are in the table
  accepted, \* the batch each writer has under way: at most one
  table     \* the rows readers of each table see

vars == <<kind, sealed, log, shown, accepted, table>>

Streams == Tables \X Ids

TableOf(s) == s[1]

Init ==
  /\ kind = [s \in Streams |-> "ABSENT"]
  /\ sealed = [s \in Streams |-> FALSE]
  /\ log = [s \in Streams |-> <<>>]
  /\ shown = [s \in Streams |-> 0]
  /\ accepted = [w \in Writers |-> {}]
  /\ table = [t \in Tables |-> <<>>]

Create(s, k) ==
  /\ kind[s] = "ABSENT"
  /\ kind' = [kind EXCEPT ![s] = k]
  /\ sealed' = [sealed EXCEPT ![s] = FALSE]
  /\ log' = [log EXCEPT ![s] = <<>>]
  /\ shown' = [shown EXCEPT ![s] = 0]
  /\ UNCHANGED <<accepted, table>>

\* A writer's batch passes the checks of an open stream.
Accept(w) ==
  /\ accepted[w] = {}
  /\ \E b \in accepted'[w] :
       /\ kind[b.st] # "ABSENT"
       /\ ~sealed[b.st]
       /\ accepted' = [accepted EXCEPT ![w] = {b}]
  /\ UNCHANGED <<kind, sealed, log, shown, table>>

\* The batch takes effect, even if its stream was closed in between.
Buffer(w) ==
  /\ \E b \in accepted[w] :
       /\ kind[b.st] \in {"BUFFERED", "PENDING"}
       /\ log' = [log EXCEPT ![b.st] = log[b.st] \o b.rows]
  /\ accepted' = [accepted EXCEPT ![w] = {}]
  /\ UNCHANGED <<kind, sealed, shown, table>>

Store(w) ==
  /\ \E b \in accepted[w] :
       /\ kind[b.st] = "COMMITTED"
       /\ table' = [table EXCEPT ![TableOf(b.st)] =
                      table[TableOf(b.st)] \o b.rows]
  /\ accepted' = [accepted EXCEPT ![w] = {}]
  /\ UNCHANGED <<kind, sealed, log, shown>>

\* The batch fails and leaves no trace.
Abandon(w) ==
  /\ accepted' = [accepted EXCEPT ![w] = {}]
  /\ UNCHANGED <<kind, sealed, log, shown, table>>

Flush(s, n) ==
  /\ kind[s] = "BUFFERED"
  /\ ~sealed[s]
  /\ shown[s] < n
  /\ n <= Len(log[s])
  /\ table' = [table EXCEPT ![TableOf(s)] =
                 table[TableOf(s)] \o SubSeq(log[s], shown[s] + 1, n)]
  /\ shown' = [shown EXCEPT ![s] = n]
  /\ UNCHANGED <<kind, sealed, log, accepted>>

Close(s) ==
  /\ kind[s] # "ABSENT"
  /\ ~sealed[s]
  /\ sealed' = [sealed EXCEPT ![s] = TRUE]
  /\ UNCHANGED <<kind, log, shown, accepted, table>>

Publish(s, n) ==
  /\ kind[s] = "PENDING"
  /\ sealed[s]
  /\ n <= Len(log[s])
  /\ table' = [table EXCEPT ![TableOf(s)] =
                 table[TableOf(s)] \o SubSeq(log[s], 1, n)]
  /\ UNCHANGED <<kind, sealed, log, shown, accepted>>

\* The table is dropped, or created anew.
Clear(t) ==
  /\ table' = [table EXCEPT ![t] = <<>>]
  /\ UNCHANGED <<kind, sealed, log, shown, accepted>>

\* The service restarts: streams and calls are gone, tables stay.
Crash ==
  /\ kind' = [s \in Streams |-> "ABSENT"]
  /\ sealed' = [s \in Streams |-> FALSE]
  /\ log' = [s \in Streams |-> <<>>]
  /\ shown' = [s \in Streams |-> 0]
  /\ accepted' = [w \in Writers |-> {}]
  /\ UNCHANGED table

Next ==
  \/ \E s \in Streams :
       \/ \E k \in {"COMMITTED", "BUFFERED", "PENDING"} : Create(s, k)
       \/ Close(s)
       \/ \E n \in 0..Len(log[s]) : Flush(s, n) \/ Publish(s, n)
  \/ \E w \in Writers : Accept(w) \/ Buffer(w) \/ Store(w) \/ Abandon(w)
  \/ \E t \in Tables : Clear(t)
  \/ Crash

Spec == Init /\ [][Next]_vars
=============================================================================
