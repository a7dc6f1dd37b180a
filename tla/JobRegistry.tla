----------------------------- MODULE JobRegistry -----------------------------
(***************************************************************************)
(* The gateway's in-memory record of jobs (gateway/jobs/registry.go) and   *)
(* the HTTP handlers that work on it: jobs.query, jobs.insert, scripts     *)
(* with one child job per statement, jobs.cancel, jobs.delete and the      *)
(* pages of jobs.list (handlers/jobs.go, queries.go, script_runner.go,     *)
(* script_runner_engine.go).                                               *)
(*                                                                         *)
(* The registry's mutex guards its map and its list of ids.  The jobs in   *)
(* it are pointers, which the handler that made a job goes on writing      *)
(* without the mutex.  So a job is an object of the heap, the map takes an *)
(* id to an object, and every write of a handler is a step of its own.     *)
(*                                                                         *)
(* A query is reduced to the engine's answer, success or failure; a script *)
(* to the kinds of its statements.  jobs.get and jobs.getQueryResults      *)
(* change nothing: Lookup is what they find.                               *)
(***************************************************************************)
EXTENDS Integers, SequencesExt, FiniteSetsExt

CONSTANTS
  Handlers,       \* request goroutines of the HTTP server
  Projects,
  CallerIds,      \* job ids that callers choose
  Scripts,        \* scripts that callers send
  StateFilters,   \* values of the repeated parameter stateFilter
  PageSizes,      \* values of maxResults
  defaultListMaxResults,
  MaxJobs,        \* bound: jobs ever made
  MaxCancels,     \* bound: calls of jobs.cancel
  MaxDeletes      \* bound: calls of jobs.delete

StatementKinds == {"declare", "set", "call", "query"}

Script == [stmts : Seq(StatementKinds), begin : BOOLEAN, control : BOOLEAN]

ASSUME JobConstants ==
  /\ \A s \in Scripts : s \in Script
  /\ Projects # {}
  /\ CallerIds \cap ({"job", "none"} \X Nat) = {}
  /\ PageSizes \subseteq Nat
  /\ defaultListMaxResults \in Nat \ {0}
  /\ MaxJobs \in Nat
  /\ MaxCancels \in Nat
  /\ MaxDeletes \in Nat

VARIABLES
  heap,     \* the jobs made so far
  jobs,     \* Registry.jobs: from the ids it holds to objects of the heap
  order,    \* Registry.order
  counter,  \* Registry.counter
  call,     \* each handler's request in progress
  walk,     \* one client's walk through the pages of jobs.list
  cancels,  \* calls of jobs.cancel so far
  deletes   \* calls of Registry.Delete so far

vars == <<heap, jobs, order, counter, call, walk, cancels, deletes>>

-----------------------------------------------------------------------------

NoId == <<"none", 0>>

Minted == {"job"} \X (Nat \ {0})

Ids == CallerIds \cup Minted

States == {"PENDING", "DONE"}

\* A job: numChildJobs is -1 until the parent of a script has it.
Job ==
  [id : Ids, project : Projects, state : States, cancelRequested : BOOLEAN,
   error : BOOLEAN, result : BOOLEAN, parent : Ids \cup {NoId},
   numChildJobs : Nat \cup {-1}]

\* What becomes of a statement of a script: the engine runs it again, it gets
\* the script's result, or it is run by itself.
ChildKinds == {"rerun", "final", "set", "query"}

\* A request in progress: the program counter, the job and the child job
\* the handler holds, the statements that still get a child job and the one
\* that has it now, the number of child jobs completed, what the engine
\* answered for the job and for the child, whether there are rows for the
\* job, and the number of calls of ExecuteQuery.
Call ==
  [pc : {"idle", "execute", "children", "stamp", "childExecute", "childState",
         "childOutcome", "state", "outcome", "cancel", "delete"},
   kind : {"none", "query", "insert", "engine", "split", "cancel", "delete"},
   project : Projects, id : Ids \cup {NoId}, job : Nat, child : Nat,
   todo : Seq(ChildKinds), stmt : ChildKinds, made : Nat, ok : BOOLEAN,
   childOk : BOOLEAN, rows : BOOLEAN, calls : Nat]

AnyProject == CHOOSE p \in Projects : TRUE

Idle ==
  [pc |-> "idle", kind |-> "none", project |-> AnyProject, id |-> NoId,
   job |-> 0, child |-> 0, todo |-> <<>>, stmt |-> "final", made |-> 0,
   ok |-> TRUE, childOk |-> TRUE, rows |-> FALSE, calls |-> 0]

NoWalk ==
  [pc |-> "none", project |-> AnyProject, filter |-> {}, size |-> 0,
   token |-> 0, seen |-> <<>>, start |-> {}, deletes |-> 0]

Init ==
  /\ heap = <<>>
  /\ jobs = <<>>
  /\ order = <<>>
  /\ counter = 0
  /\ call = [h \in Handlers |-> Idle]
  /\ walk = NoWalk
  /\ cancels = 0
  /\ deletes = 0

\* Jobs that handler h will still make.
Outstanding(h) ==
  Len(call[h].todo) + (IF call[h].kind = "query" THEN 1 ELSE 0)

\* There is room for n more jobs; a request starts only if it can be ended.
Room(n) == Len(heap) + MapThenSumSet(Outstanding, Handlers) + n <= MaxJobs

-----------------------------------------------------------------------------
(* The registry.                                                           *)

\* The id minted when the counter is n.
NewJobID(n) == <<"job", n + 1>>

Register(o, id) ==
  IF id \in DOMAIN jobs THEN UNCHANGED <<jobs, order>>
  ELSE /\ jobs' = [i \in DOMAIN jobs \cup {id} |-> IF i = id THEN o ELSE jobs[i]]
       /\ order' = Append(order, id)

NewJob(id, p, state) ==
  [id |-> id, project |-> p, state |-> state, cancelRequested |-> FALSE,
   error |-> FALSE, result |-> state = "DONE", parent |-> NoId,
   numChildJobs |-> -1]

\* A new job under the caller's id, or under a minted one if that is NoId.
Make(id, p, state) ==
  LET used == IF id = NoId THEN NewJobID(counter) ELSE id IN
  /\ counter' = IF id = NoId THEN counter + 1 ELSE counter
  /\ heap' = Append(heap, NewJob(used, p, state))
  /\ Register(Len(heap) + 1, used)

newPendingJob(id, p) == Make(id, p, "PENDING")

CompleteQueryWithResult(p) == Make(NoId, p, "DONE")

\* What jobs.get and jobs.getQueryResults find, 0 for nothing.
Lookup(p, id) ==
  IF id \in DOMAIN jobs /\ heap[jobs[id]].project = p THEN jobs[id] ELSE 0

-----------------------------------------------------------------------------
(* jobs.query and jobs.insert of one statement.                            *)

Start(h, kind, p, o, todo) ==
  call' = [call EXCEPT ![h] =
             [Idle EXCEPT !.pc = IF kind = "split" THEN "children" ELSE "execute",
                          !.kind = kind, !.project = p, !.job = o,
                          !.todo = todo]]

Goto(h, pc) == call' = [call EXCEPT ![h].pc = pc]

Finish(h) == call' = [call EXCEPT ![h] = Idle]

QueryRun(h, p) ==
  /\ call[h] = Idle
  /\ Room(1)
  /\ Start(h, "query", p, 0, <<>>)
  /\ UNCHANGED <<heap, jobs, order, counter, walk, cancels, deletes>>

JobInsert(h, p, id) ==
  /\ call[h] = Idle
  /\ Room(1)
  /\ newPendingJob(id, p)
  /\ Start(h, "insert", p, Len(heap) + 1, <<>>)
  /\ UNCHANGED <<walk, cancels, deletes>>

\* jobs.query: the engine answers.  There is a job only from here on, and
\* only if the query succeeded.
runQueryExecute(h, ok) ==
  /\ call[h].pc = "execute" /\ call[h].kind = "query"
  /\ IF ok THEN CompleteQueryWithResult(call[h].project)
     ELSE UNCHANGED <<heap, jobs, order, counter>>
  /\ Finish(h)
  /\ UNCHANGED <<walk, cancels, deletes>>

\* jobs.insert, and the one call that runs a whole script: the engine
\* answers.  A script that succeeded goes on to its child jobs.
runSyncQueryInsert(h, ok) ==
  /\ call[h].pc = "execute" /\ call[h].kind # "query"
  /\ call' = [call EXCEPT
       ![h].pc = IF call[h].kind = "engine" /\ ok THEN "children" ELSE "state",
       ![h].todo = IF ok THEN @ ELSE <<>>,
       ![h].ok = ok, ![h].rows = ok, ![h].calls = @ + 1]
  /\ UNCHANGED <<heap, jobs, order, counter, walk, cancels, deletes>>

\* Mutant: a job that is DONE already, because it was cancelled, is left alone.
FinalizeState_UnlessDone(h) ==
  /\ \/ call[h].pc = "state"
     \/ call[h].pc = "children" /\ call[h].todo = <<>>
  /\ heap' = [heap EXCEPT ![call[h].job].state = "DONE"]
  /\ IF heap[call[h].job].state = "DONE" THEN Finish(h) ELSE Goto(h, "outcome")
  /\ UNCHANGED <<jobs, order, counter, walk, cancels, deletes>>

\* finalizeDoneJob, finalizeFailedJob and finalizeScriptParentJob write the
\* state first, without the mutex ...
FinalizeState(h) ==
  /\ \/ call[h].pc = "state"
     \/ call[h].pc = "children" /\ call[h].todo = <<>>
  /\ heap' = [heap EXCEPT ![call[h].job].state = "DONE"]
  /\ Goto(h, "outcome")
  /\ UNCHANGED <<jobs, order, counter, walk, cancels, deletes>>

\* ... and the result or the error later.
FinalizeOutcome(h) ==
  /\ call[h].pc = "outcome"
  /\ heap' = [heap EXCEPT
       ![call[h].job].error = ~call[h].ok,
       ![call[h].job].result = call[h].ok /\ call[h].rows,
       ![call[h].job].numChildJobs =
         IF call[h].ok /\ call[h].kind \in {"engine", "split"}
         THEN call[h].made ELSE @]
  /\ Finish(h)
  /\ UNCHANGED <<jobs, order, counter, walk, cancels, deletes>>

-----------------------------------------------------------------------------
(* Scripts.  The engine path runs the whole script in one call and then    *)
(* makes the child jobs, for most of which it runs the statement again;    *)
(* the split path runs the statements one by one.                          *)

needsEngineScriptExecution(s) ==
  s.begin \/ \E i \in DOMAIN s.stmts : s.stmts[i] \in {"declare", "call"}

Queries(s) == {i \in DOMAIN s.stmts : s.stmts[i] = "query"}

\* What registerEngineScriptChildJobs does with the statements.
EngineStatements(s) ==
  [i \in DOMAIN s.stmts |->
     CASE s.stmts[i] \in {"declare", "call"} -> "skip"
       [] s.stmts[i] = "set"                 -> "rerun"
       [] i \in Queries(s)                   ->
            IF i = Max(Queries(s)) THEN "final" ELSE "rerun"]

\* The child jobs of a script on the engine path; one with control flow has a
\* single child, for its result.
EngineChildren(s) ==
  IF s.control
  THEN IF Queries(s) = {} THEN <<>> ELSE <<"final">>
  ELSE SelectSeq(EngineStatements(s), LAMBDA k : k # "skip")

ChildrenOf(s) == IF needsEngineScriptExecution(s) THEN EngineChildren(s) ELSE s.stmts

\* jobs.insert (id may be the caller's) or jobs.query (it is minted).
RunScript(h, p, id, s) ==
  /\ call[h] = Idle
  /\ Room(1 + Len(ChildrenOf(s)))
  /\ newPendingJob(id, p)
  /\ Start(h, IF needsEngineScriptExecution(s) THEN "engine" ELSE "split", p,
           Len(heap) + 1, ChildrenOf(s))
  /\ UNCHANGED <<walk, cancels, deletes>>

NewChildJob(h) ==
  /\ call[h].pc = "children"
  /\ call[h].todo # <<>>
  /\ newPendingJob(NoId, call[h].project)
  /\ call' = [call EXCEPT ![h].pc = "stamp", ![h].child = Len(heap) + 1,
                          ![h].stmt = Head(call[h].todo), ![h].todo = Tail(@),
                          ![h].childOk = TRUE]
  /\ UNCHANGED <<walk, cancels, deletes>>

\* The child is in the registry before its parent is written into it.
stampChildJobParent(h) ==
  /\ call[h].pc = "stamp"
  /\ heap' = [heap EXCEPT ![call[h].child].parent = heap[call[h].job].id]
  /\ Goto(h, IF call[h].stmt = "final" THEN "childState" ELSE "childExecute")
  /\ UNCHANGED <<jobs, order, counter, walk, cancels, deletes>>

\* On the split path a failure ends the script; the child is left as it is.
AfterChild(h, ok) ==
  IF ok \/ call[h].kind = "engine" THEN "childState" ELSE "state"

executeScriptStatement(h, ok) ==
  /\ call[h].pc = "childExecute"
  /\ LET ends == AfterChild(h, ok) = "state" IN
     call' = [call EXCEPT
       ![h].pc = AfterChild(h, ok), ![h].childOk = ok, ![h].calls = @ + 1,
       ![h].ok = ~ends, ![h].todo = IF ends THEN <<>> ELSE @,
       ![h].rows = @ \/ (ok /\ call[h].stmt = "query")]
  /\ UNCHANGED <<heap, jobs, order, counter, walk, cancels, deletes>>

FinalizeChildState(h) ==
  /\ call[h].pc = "childState"
  /\ heap' = [heap EXCEPT ![call[h].child].state = "DONE"]
  /\ Goto(h, "childOutcome")
  /\ UNCHANGED <<jobs, order, counter, walk, cancels, deletes>>

Counted(c) == c.made + 1

FinalizeChildOutcome(h) ==
  /\ call[h].pc = "childOutcome"
  /\ heap' = [heap EXCEPT ![call[h].child].error = ~call[h].childOk,
                          ![call[h].child].result = call[h].childOk]
  /\ call' = [call EXCEPT ![h].pc = "children", ![h].child = 0,
                          ![h].made = Counted(call[h])]
  /\ UNCHANGED <<jobs, order, counter, walk, cancels, deletes>>

-----------------------------------------------------------------------------
(* jobs.cancel and jobs.delete look the job up for the project, and act on *)
(* the id in a second critical section.                                    *)

JobCancel(h, p, id) ==
  /\ call[h] = Idle
  /\ cancels < MaxCancels
  /\ Lookup(p, id) # 0
  /\ cancels' = cancels + 1
  /\ call' = [call EXCEPT ![h] = [Idle EXCEPT !.pc = "cancel",
                                  !.kind = "cancel", !.id = id]]
  /\ UNCHANGED <<heap, jobs, order, counter, walk, deletes>>

Cancel(h) ==
  /\ call[h].pc = "cancel"
  /\ heap' = IF call[h].id \notin DOMAIN jobs THEN heap
             ELSE [heap EXCEPT ![jobs[call[h].id]].cancelRequested = TRUE,
                               ![jobs[call[h].id]].state = "DONE"]
  /\ Finish(h)
  /\ UNCHANGED <<jobs, order, counter, walk, cancels, deletes>>

JobDelete(h, p, id) ==
  /\ call[h] = Idle
  /\ deletes + Cardinality({g \in Handlers : call[g].pc = "delete"}) < MaxDeletes
  /\ Lookup(p, id) # 0
  /\ call' = [call EXCEPT ![h] = [Idle EXCEPT !.pc = "delete",
                                  !.kind = "delete", !.id = id]]
  /\ UNCHANGED <<heap, jobs, order, counter, walk, cancels, deletes>>

\* The job and, when it is in the registry, the jobs it is the parent of.
Cascade(id) ==
  IF id \notin DOMAIN jobs THEN {}
  ELSE {id} \cup {i \in ToSet(order) : heap[jobs[i]].parent = id}

\* Mutant: the children leave the map and stay in the list.
removeLocked_ListKeepsChildren(ids, id) ==
  /\ jobs' = Restrict(jobs, DOMAIN jobs \ ids)
  /\ order' = SelectSeq(order, LAMBDA i : i # id)

removeLocked(ids, id) ==
  /\ jobs' = Restrict(jobs, DOMAIN jobs \ ids)
  /\ order' = SelectSeq(order, LAMBDA i : i \notin ids)

Delete(h) ==
  /\ call[h].pc = "delete"
  /\ removeLocked(Cascade(call[h].id), call[h].id)
  /\ deletes' = deletes + 1
  /\ Finish(h)
  /\ UNCHANGED <<heap, counter, walk, cancels>>

-----------------------------------------------------------------------------
(* jobs.list.  A page token is the number of matching jobs consumed so     *)
(* far, newest first; 0 is the empty token.  Of the filters, the project   *)
(* and the state are modelled; the others are fixed when a job is made.    *)

stateFilterAliases == [pending |-> "PENDING", running |-> "RUNNING", done |-> "DONE"]

\* Spellings that are not known are dropped; no filter is {}.
normalizeStateFilters(in) ==
  {stateFilterAliases[raw] : raw \in in \cap DOMAIN stateFilterAliases}

jobMatchesProject(o, p, filters) ==
  /\ heap[o].project = p
  /\ filters # {} => heap[o].state \in filters

MatchingJobs(p, in) ==
  SelectSeq([i \in DOMAIN order |-> jobs[Reverse(order)[i]]],
            LAMBDA o : jobMatchesProject(o, p, normalizeStateFilters(in)))

\* Mutant: the token counts one job more than the page holds.
NextToken_PastPage(total, from, page) ==
  IF total > from + page THEN from + page + 1 ELSE 0

NextToken(total, from, page) == IF total > from + page THEN from + page ELSE 0

ListByProject(p, in, maxResults, from) ==
  LET size == IF maxResults = 0 THEN defaultListMaxResults ELSE maxResults
      all  == MatchingJobs(p, in)
      page == SubSeq(all, from + 1, Min({from + size, Len(all)}))
  IN  [jobs |-> page, next |-> NextToken(Len(all), from, Len(page))]

\* A client asks for the first page ...
JobList(p, in, size) ==
  /\ walk.pc = "none"
  /\ LET r == ListByProject(p, in, size, 0) IN
     walk' = [pc |-> IF r.next = 0 THEN "end" ELSE "more", project |-> p,
              filter |-> in, size |-> size, token |-> r.next, seen |-> r.jobs,
              start |-> ToSet(MatchingJobs(p, in)), deletes |-> deletes]
  /\ UNCHANGED <<heap, jobs, order, counter, call, cancels, deletes>>

\* ... and for the next one, until there is no token.
JobListNext ==
  /\ walk.pc = "more"
  /\ LET r == ListByProject(walk.project, walk.filter, walk.size, walk.token) IN
     walk' = [walk EXCEPT !.pc = IF r.next = 0 THEN "end" ELSE "more",
                          !.token = r.next, !.seen = @ \o r.jobs]
  /\ UNCHANGED <<heap, jobs, order, counter, call, cancels, deletes>>

-----------------------------------------------------------------------------

Handle(h) ==
  \/ \E ok \in BOOLEAN :
       \/ runQueryExecute(h, ok)
       \/ runSyncQueryInsert(h, ok)
       \/ executeScriptStatement(h, ok)
  \/ FinalizeState(h)
  \/ FinalizeOutcome(h)
  \/ NewChildJob(h)
  \/ stampChildJobParent(h)
  \/ FinalizeChildState(h)
  \/ FinalizeChildOutcome(h)
  \/ Cancel(h)
  \/ Delete(h)

Next ==
  \/ \E h \in Handlers, p \in Projects :
       \/ QueryRun(h, p)
       \/ \E id \in CallerIds \cup {NoId} :
            \/ JobInsert(h, p, id)
            \/ \E s \in Scripts : RunScript(h, p, id, s)
       \/ \E id \in DOMAIN jobs : JobCancel(h, p, id) \/ JobDelete(h, p, id)
  \/ \E h \in Handlers : Handle(h)
  \/ \E p \in Projects, in \in StateFilters, size \in PageSizes :
       JobList(p, in, size)
  \/ JobListNext

Spec == Init /\ [][Next]_vars

-----------------------------------------------------------------------------
(* Properties.                                                             *)

TypeOK ==
  /\ \A o \in DOMAIN heap : heap[o] \in Job
  /\ DOMAIN jobs \subseteq Ids
  /\ \A i \in DOMAIN jobs : jobs[i] \in DOMAIN heap
  /\ \A i \in DOMAIN order : order[i] \in Ids
  /\ counter \in Nat
  /\ call \in [Handlers -> Call]
  /\ walk.pc \in {"none", "more", "end"}
  /\ cancels \in 0..MaxCancels
  /\ deletes \in Nat

(* The list of ids and the map always agree: each id of the map is in the   *)
(* list once, and the entry of an id is a job with that id.  ListByProject  *)
(* dereferences the map's entry of every id of the list without a check.    *)
RegistryConsistent ==
  /\ \A i \in DOMAIN jobs : heap[jobs[i]].id = i
  /\ ToSet(order) = DOMAIN jobs
  /\ IsInjective(order)

(* A job under a minted id is never hidden by another one: the id leads to  *)
(* it or, once it was deleted, to nothing (NewJobID, Register).             *)
MintedOwned ==
  \A o \in DOMAIN heap :
    heap[o].id \in Minted \cap DOMAIN jobs => jobs[heap[o].id] = o

Held(o) == \E h \in Handlers : o \in {call[h].job, call[h].child}

\* A child of a script that failed.
LeftBehind(o) ==
  \E q \in DOMAIN heap : heap[q].id = heap[o].parent /\ heap[q].error

(* When a handler has answered, its job is DONE and carries its outcome, a  *)
(* result, an error or a number of child jobs, also if the job was          *)
(* cancelled or deleted meanwhile; so has every child job, except the one   *)
(* whose failure ended a script on the split path.                          *)
AnsweredDone ==
  \A o \in DOMAIN heap :
    \/ Held(o)
    \/ LeftBehind(o)
    \/ /\ heap[o].state = "DONE"
       /\ heap[o].result \/ heap[o].error \/ heap[o].numChildJobs >= 0

(* As long as nothing is deleted, numChildJobs of a script's parent is the  *)
(* number of jobs that jobs.get finds under that parent, failed statements  *)
(* included.  (Under an id of the caller's choice two scripts may share     *)
(* their children.)                                                         *)
ChildrenCounted ==
  deletes = 0 =>
    \A q \in DOMAIN heap :
      (heap[q].id \in Minted /\ heap[q].numChildJobs >= 0) =>
        heap[q].numChildJobs =
          Cardinality({i \in DOMAIN jobs : Lookup(heap[q].project, i) # 0
                                           /\ heap[jobs[i]].parent = heap[q].id})

(* A walk through the pages of jobs.list during which nothing is deleted    *)
(* shows every job that matched when it began, however many jobs are made   *)
(* and finished meanwhile; with a filter on PENDING jobs leave the list, so *)
(* that walk is excepted.                                                   *)
NoJobSkipped ==
  (/\ walk.pc = "end"
   /\ walk.deletes = deletes
   /\ "pending" \notin walk.filter) => walk.start \subseteq ToSet(walk.seen)

(* docs/ENGINE_POLICY.md: the "Gateway sends DECLARE/SET/CALL scripts in    *)
(* one engine ExecuteQuery round-trip".                                     *)
OneRoundTrip ==
  \A h \in Handlers : call[h].kind = "engine" => call[h].calls <= 1

\* The registry is one set of jobs, however its calls interleave: the map, the
\* order list and the ids agree, and a minted id is nobody else's (Register,
\* removeLocked, NewJobID).
JobsConsistent ==
  /\ TypeOK
  /\ RegistryConsistent
  /\ MintedOwned

\* What a finished request leaves in the registry is final: a job that is DONE
\* with a result, an error or children, and as many children as it says.
AnswersFinal == AnsweredDone /\ ChildrenCounted
=============================================================================
