------------------------------ MODULE ViewCatalog ------------------------------
(***************************************************************************)
(* The logical views of one project: the in-memory registry the analyzer   *)
(* consults (view_registry.cc), what CREATE VIEW and DROP VIEW persist (a   *)
(* `.meta.json` sidecar and a row of main.__bqemu_views), the datasets and  *)
(* tables they live among, soft deletion of datasets, and the rehydration   *)
(* of the registry when the engine process starts.                         *)
(*                                                                         *)
(* A CREATE VIEW is two steps, because the registry and the storage engine  *)
(* have a lock each: the view is registered first and persisted second.     *)
(* DROP VIEW likewise.  A view's text is abstracted to the path of the one  *)
(* relation it selects from.                                               *)
(***************************************************************************)
EXTENDS Naturals, Sequences, FiniteSets, SequencesExt

CONSTANTS
    ViewPaths,   \* the <<dataset, name>> paths in play, in ORDER BY order
    Sessions,    \* concurrent DDL requests
    MaxViewOps   \* bound: statements and catalog calls, over all restarts

NoDataset == ""                    \* an unqualified name with no default dataset
NoPath == <<"", "">>
Paths == Range(ViewPaths)
Schemas == {p[1] : p \in Paths}
Names == {p[2] : p \in Paths}

ASSUME ViewPathsAssumption ==
    /\ ViewPaths \in Seq(STRING \X STRING) /\ IsInjective(ViewPaths)
    /\ NoDataset \notin Schemas
    /\ MaxViewOps \in Nat

VARIABLES
    dirs,        \* datasets that exist on disk
    sidecar,     \* path -> [kind, from]: what <name>.meta.json says
    viewRows,    \* path -> the relation the main.__bqemu_views row selects from
    registry,    \* g_project_views of the project: Seq([ds, name, from])
    cached,      \* physical tables the long-lived registration catalog holds
    graveyard,   \* dataset -> stack of soft-deleted states, newest last
    session,     \* the second half of a statement still to run, per session
    viewEngine,  \* "up" or "down"
    startFailed, \* some start of the process ended in EXIT_FAILURE
    fresh,       \* no statement ran since the last successful start
    ackedView,   \* history: path -> source of the view last acknowledged there
    homes,       \* history: name -> datasets a view of that name was created in
    contested,   \* history: names used in two datasets, or by two requests at once
    degraded,    \* history: datasets whose undelete answered with an error
    viewOps

viewStore == <<dirs, sidecar, viewRows, graveyard>>
viewVars == <<dirs, sidecar, viewRows, registry, cached, graveyard, session,
              viewEngine, startFailed, fresh, ackedView, homes, contested,
              degraded, viewOps>>

NoSidecar == [kind |-> "NONE", from |-> NoPath]
TableSidecar == [kind |-> "TABLE", from |-> NoPath]
ViewSidecar(from) == [kind |-> "VIEW", from |-> from]
IdleSession == [op |-> "idle", path |-> NoPath, from |-> NoPath]

--------------------------------------------------------------------------------
\* The registry.


\* The first entry a lookup of (ds, name) accepts: same name, and the datasets
\* agree unless the caller or the entry has none.  0 when there is no entry.
FindProjectView(reg, ds, name) ==
    SelectInSeq(reg, LAMBDA e : /\ e.name = name
                                /\ e.ds = ds \/ ds = NoDataset \/ e.ds = NoDataset)

\* CREATE [OR REPLACE] VIEW: the entry of the same name and dataset (any
\* dataset when the statement names none) is retired, the new one appended.
RegisterProjectView(reg, ds, name, from) ==
    LET old == SelectInSeq(reg, LAMBDA e : e.name = name /\ (ds = NoDataset \/ e.ds = ds))
        rest == IF old = 0 THEN reg ELSE RemoveAt(reg, old)
    IN  Append(rest, [ds |-> ds, name |-> name, from |-> from])

\* DROP VIEW looks the entry up by its bare name.
DropProjectView(reg, name) ==
    RemoveAt(reg, SelectInSeq(reg, LAMBDA e : e.name = name))

\* GoogleSqlCatalog::FindTable for a qualified path: what the catalog object
\* cached, then a registered view, then a physical table of the store.
FindTable(reg, cache, cars, path) ==
    \/ path \in cache
    \/ FindProjectView(reg, path[1], path[2]) # 0
    \/ cars[path].kind = "TABLE"

\* A physical table FindTable had to read from the store stays cached.
CacheAfter(reg, cache, cars, path) ==
    IF FindProjectView(reg, path[1], path[2]) = 0 /\ cars[path].kind = "TABLE"
    THEN cache \cup {path} ELSE cache

--------------------------------------------------------------------------------
\* Persistence.

\* ListAllViews: the rows, and the VIEW sidecars that have no row.
PersistedView(rows, cars, p) ==
    IF rows[p] # NoPath THEN rows[p]
    ELSE IF cars[p].kind = "VIEW" THEN cars[p].from ELSE NoPath

\* The row UpsertView writes: INSERT ... ON CONFLICT DO UPDATE.
UpsertViewRow(rows, p, from) == [rows EXCEPT ![p] = from]

\* RehydrateView: analyze the definition, register it.
RehydrateView(acc, cars, p, from) ==
    IF ~FindTable(acc.reg, acc.cache, cars, from)
    THEN [acc EXCEPT !.ok = FALSE]
    ELSE [ok |-> TRUE,
          reg |-> RegisterProjectView(acc.reg, p[1], p[2], from),
          cache |-> CacheAfter(acc.reg, acc.cache, cars, from)]

\* One pass of RehydrateViewsFromStorage over the datasets of `scope`: every
\* persisted definition in path order, up to the first failure.
RehydrateViews(rows, cars, start, scope) ==
    FoldLeft(LAMBDA acc, p :
               LET from == PersistedView(rows, cars, p) IN
               IF ~acc.ok \/ p[1] \notin scope \/ from = NoPath THEN acc
               ELSE RehydrateView(acc, cars, p, from),
             start, ViewPaths)

\* What PersistViewDdl still has to write for the session; nothing for an
\* unqualified name, which answers OK.
PersistViewDdl(ds, name, from) ==
    IF ds = NoDataset THEN IdleSession
    ELSE [op |-> "create", path |-> <<ds, name>>, from |-> from]

--------------------------------------------------------------------------------
ViewInit ==
    /\ dirs = {}
    /\ sidecar = [p \in Paths |-> NoSidecar]
    /\ viewRows = [p \in Paths |-> NoPath]
    /\ registry = <<>>
    /\ cached = {}
    /\ graveyard = [d \in Schemas |-> <<>>]
    /\ session = [s \in Sessions |-> IdleSession]
    /\ viewEngine = "up"
    /\ startFailed = FALSE
    /\ fresh = TRUE
    /\ ackedView = [p \in Paths |-> NoPath]
    /\ homes = [n \in Names |-> {}]
    /\ contested = {}
    /\ degraded = {}
    /\ viewOps = 0

Serve ==
    /\ viewEngine = "up"
    /\ viewOps < MaxViewOps
    /\ viewOps' = viewOps + 1
    /\ fresh' = FALSE

\* History: session s starts a statement about name in dataset ds.
Contest(s, ds, name) ==
    /\ homes' = [homes EXCEPT ![name] = @ \cup {ds}]
    /\ contested' = IF \/ homes'[name] # {ds}
                       \/ \E t \in Sessions \ {s} : session[t].path[2] = name
                    THEN contested \cup {name} ELSE contested

\* CREATE OR REPLACE VIEW, first half: analyzed with the registration catalog,
\* then registered.  An unqualified name is not persisted: PersistViewDdl
\* answers OK without writing anything.
CreateViewRegister(s) == \E name \in Names, ds \in Schemas \cup {NoDataset}, from \in Paths :
    /\ Serve
    /\ session[s] = IdleSession
    /\ ds # NoDataset => <<ds, name>> \in Paths
    /\ FindTable(registry, {}, sidecar, from)
    /\ registry' = RegisterProjectView(registry, ds, name, from)
    /\ cached' = CacheAfter(registry, cached, sidecar, from)
    /\ Contest(s, ds, name)
    /\ session' = [session EXCEPT ![s] = PersistViewDdl(ds, name, from)]
    /\ UNCHANGED <<viewStore, viewEngine, startFailed, ackedView, degraded>>

\* Second half, DuckDBStorage::UpsertView: the sidecar, then the row.  A dataset
\* that is gone by now fails the statement; the registry keeps the view.
CreateViewPersist(s) ==
    /\ viewEngine = "up"
    /\ session[s].op = "create"
    /\ session' = [session EXCEPT ![s] = IdleSession]
    /\ LET p == session[s].path IN
       IF p[1] \in dirs
       THEN /\ sidecar' = [sidecar EXCEPT ![p] = ViewSidecar(session[s].from)]
            /\ viewRows' = UpsertViewRow(viewRows, p, session[s].from)
            /\ ackedView' = [ackedView EXCEPT ![p] = session[s].from]
       ELSE UNCHANGED <<sidecar, viewRows, ackedView>>
    /\ UNCHANGED <<dirs, registry, cached, graveyard, viewEngine, startFailed, fresh,
                   homes, contested, degraded, viewOps>>

\* DROP VIEW, first half: the first registry entry with that bare name goes.
DropViewRegistry(s) == \E p \in Paths :
    /\ Serve
    /\ session[s] = IdleSession
    /\ \E i \in DOMAIN registry : registry[i].name = p[2]
    /\ registry' = DropProjectView(registry, p[2])
    /\ session' = [session EXCEPT ![s] = [op |-> "drop", path |-> p, from |-> NoPath]]
    /\ Contest(s, p[1], p[2])
    /\ UNCHANGED <<viewStore, cached, viewEngine, startFailed, ackedView, degraded>>

\* Second half, DuckDBStorage::DeleteView: the sidecar (whatever its kind), then
\* the row of the named path.
DropViewPersist(s) ==
    /\ viewEngine = "up"
    /\ session[s].op = "drop"
    /\ session' = [session EXCEPT ![s] = IdleSession]
    /\ sidecar' = [sidecar EXCEPT ![session[s].path] = NoSidecar]
    /\ viewRows' = [viewRows EXCEPT ![session[s].path] = NoPath]
    /\ ackedView' = [ackedView EXCEPT ![session[s].path] = NoPath]
    /\ UNCHANGED <<dirs, registry, cached, graveyard, viewEngine, startFailed, fresh,
                   homes, contested, degraded, viewOps>>

--------------------------------------------------------------------------------
\* The catalog calls views live among.

CreateDataset == \E d \in Schemas \ dirs :
    /\ Serve
    /\ dirs' = dirs \cup {d}
    /\ UNCHANGED <<sidecar, viewRows, registry, cached, graveyard, session, viewEngine,
                   startFailed, ackedView, homes, contested, degraded>>

CreateTable == \E p \in Paths :
    /\ Serve
    /\ p[1] \in dirs /\ sidecar[p].kind = "NONE"
    /\ sidecar' = [sidecar EXCEPT ![p] = TableSidecar]
    /\ UNCHANGED <<dirs, viewRows, registry, cached, graveyard, session, viewEngine,
                   startFailed, ackedView, homes, contested, degraded>>

\* tables.delete: removes the sidecar of a table or a view, and neither the
\* view's row nor its registry entry.
DropTable == \E p \in Paths :
    /\ Serve
    /\ sidecar[p].kind # "NONE"
    /\ sidecar' = [sidecar EXCEPT ![p] = NoSidecar]
    /\ ackedView' = [ackedView EXCEPT ![p] = NoPath]
    /\ UNCHANGED <<dirs, viewRows, registry, cached, graveyard, session, viewEngine,
                   startFailed, homes, contested, degraded>>

\* DropDataset with delete_contents: what it held goes to a tombstone and its
\* registry rows are purged.  The in-memory registry is left alone.
DropDataset == \E d \in dirs :
    /\ Serve
    /\ dirs' = dirs \ {d}
    /\ LET mine == {p \in Paths : p[1] = d} IN
       /\ graveyard' = [graveyard EXCEPT ![d] =
              Append(@, [cars |-> [p \in mine |-> sidecar[p]],
                         rows |-> [p \in mine |-> viewRows[p]],
                         acked |-> [p \in mine |-> ackedView[p]]])]
       /\ sidecar' = [p \in Paths |-> IF p \in mine THEN NoSidecar ELSE sidecar[p]]
       /\ viewRows' = [p \in Paths |-> IF p \in mine THEN NoPath ELSE viewRows[p]]
       /\ ackedView' = [p \in Paths |-> IF p \in mine THEN NoPath ELSE ackedView[p]]
    /\ degraded' = degraded \ {d}
    /\ UNCHANGED <<registry, cached, session, viewEngine, startFailed, homes, contested>>

\* UndeleteDataset: the newest tombstone comes back (UpsertViewLocked rewrites
\* the sidecar of every view it carries), then that dataset's views are
\* rehydrated; a view that fails to analyze fails the call after the restore.
UndeleteDataset == \E d \in Schemas \ dirs :
    /\ Serve
    /\ graveyard[d] # <<>>
    /\ LET t == Last(graveyard[d])
           mine == {p \in Paths : p[1] = d}
           cars == [p \in Paths |-> IF p \notin mine THEN sidecar[p]
                                    ELSE IF t.rows[p] # NoPath THEN ViewSidecar(t.rows[p])
                                    ELSE t.cars[p]]
           rows == [p \in Paths |-> IF p \in mine THEN t.rows[p] ELSE viewRows[p]]
           done == RehydrateViews(rows, cars, [ok |-> TRUE, reg |-> registry,
                                               cache |-> cached], {d})
       IN  /\ sidecar' = cars /\ viewRows' = rows
           /\ registry' = done.reg /\ cached' = done.cache
           /\ ackedView' = [p \in Paths |-> IF p \in mine THEN t.acked[p] ELSE ackedView[p]]
           /\ degraded' = IF done.ok THEN degraded ELSE degraded \cup {d}
    /\ dirs' = dirs \cup {d}
    /\ graveyard' = [graveyard EXCEPT ![d] = Front(@)]
    /\ contested' = contested \cup {session[s].path[2] : s \in {t \in Sessions : session[t].path[1] = d}}
    /\ UNCHANGED <<session, viewEngine, startFailed, homes>>

--------------------------------------------------------------------------------
\* Crash and restart.

\* The process dies.  A statement in the middle of its second half leaves the
\* sidecar written (or removed) and the row as it was.
EngineCrash == \E half \in SUBSET {s \in Sessions : session[s].op # "idle"} :
    /\ viewEngine = "up"
    /\ Cardinality(half) <= 1
    /\ viewEngine' = "down"
    /\ registry' = <<>>
    /\ cached' = {}
    /\ session' = [s \in Sessions |-> IdleSession]
    /\ sidecar' = [p \in Paths |->
           IF \E s \in half : session[s].path = p /\ (session[s].op = "create" => p[1] \in dirs)
           THEN LET s == CHOOSE x \in half : TRUE IN
                IF session[s].op = "create" THEN ViewSidecar(session[s].from) ELSE NoSidecar
           ELSE sidecar[p]]
    /\ ackedView' = [p \in Paths |-> IF \E s \in Sessions : session[s].op # "idle"
                                                        /\ session[s].path = p
                                     THEN NoPath ELSE ackedView[p]]
    /\ fresh' = FALSE
    /\ UNCHANGED <<dirs, viewRows, graveyard, startFailed, homes, contested, degraded, viewOps>>

\* main: open the storage, rehydrate, serve; a view that does not analyze ends
\* the process with EXIT_FAILURE.
EngineStart ==
    /\ viewEngine = "down"
    /\ LET done == RehydrateViews(viewRows, sidecar,
                                  [ok |-> TRUE, reg |-> <<>>, cache |-> {}], Schemas)
       IN  IF done.ok
           THEN /\ viewEngine' = "up" /\ fresh' = TRUE
                /\ registry' = done.reg /\ cached' = done.cache
                /\ startFailed' = startFailed
           ELSE /\ startFailed' = TRUE
                /\ UNCHANGED <<viewEngine, fresh, registry, cached>>
    /\ degraded' = {}
    /\ UNCHANGED <<viewStore, session, ackedView, homes, contested, viewOps>>

ViewNext ==
    \/ \E s \in Sessions : \/ CreateViewRegister(s) \/ CreateViewPersist(s)
                           \/ DropViewRegistry(s) \/ DropViewPersist(s)
    \/ CreateDataset \/ CreateTable \/ DropTable \/ DropDataset \/ UndeleteDataset
    \/ EngineCrash \/ EngineStart

--------------------------------------------------------------------------------
\* Type correctness; a pending statement is always about a complete path.
ViewTypeOK ==
    /\ dirs \subseteq Schemas
    /\ sidecar \in [Paths -> [kind : {"NONE", "TABLE", "VIEW"}, from : Paths \cup {NoPath}]]
    /\ viewRows \in [Paths -> Paths \cup {NoPath}]
    /\ \A i \in DOMAIN registry :
          registry[i] \in [ds : Schemas \cup {NoDataset}, name : Names, from : Paths]
    /\ cached \subseteq Paths
    /\ session \in [Sessions -> [op : {"idle", "create", "drop"},
                                path : Paths \cup {NoPath}, from : Paths \cup {NoPath}]]
    /\ viewEngine \in {"up", "down"} /\ startFailed \in BOOLEAN /\ fresh \in BOOLEAN
    /\ ackedView \in [Paths -> Paths \cup {NoPath}]
    /\ viewOps \in 0..MaxViewOps

\* A CREATE VIEW that was acknowledged stays persisted with exactly that
\* definition until a DROP VIEW, a tables.delete or the dataset's deletion takes
\* it away, and an undelete of the dataset brings the same definition back;
\* crashes between the sidecar and the row included.
AckedViewsDurable == \A p \in Paths :
    ackedView[p] # NoPath => PersistedView(viewRows, sidecar, p) = ackedView[p]

\* Once the process has started, before any further statement, every
\* acknowledged view resolves to its own definition: same-named views of other
\* datasets do not capture the lookup.
ViewsSurviveRestart ==
    viewEngine = "up" /\ fresh =>
       \A p \in Paths : ackedView[p] # NoPath =>
          LET i == FindProjectView(registry, p[1], p[2])
          IN  i # 0 /\ registry[i].from = ackedView[p]

\* The registry agrees with the store: when no statement about it is in flight,
\* a persisted view of a live dataset resolves to its persisted definition.  It
\* holds for names that only ever lived in one dataset and were never the
\* subject of two requests at once: DropProjectView and the two-step CREATE
\* VIEW break it for the others.
RegistryAgreesWithStore ==
    viewEngine = "up" =>
       \A p \in Paths :
          /\ p[2] \notin contested
          /\ \A s \in Sessions : session[s].path # p
          /\ p[1] \in dirs \ degraded
          /\ PersistedView(viewRows, sidecar, p) # NoPath
          => LET i == FindProjectView(registry, p[1], p[2])
             IN  i # 0 /\ registry[i].from = PersistedView(viewRows, sidecar, p)

\* The process refuses to start only over views that do not select from a
\* physical table: a store whose views are all defined on tables always opens.
StartFailsOnlyOverViews ==
    startFailed' # startFailed =>
        \E p \in Paths : LET from == PersistedView(viewRows, sidecar, p)
                         IN  from # NoPath /\ sidecar[from].kind # "TABLE"

================================================================================
