------------------------------- MODULE Governance -------------------------------
(***************************************************************************)
(* Row-access policies and column governance of the tables of one dataset:  *)
(* the rows of main.__bqemu_row_access_policies and                         *)
(* main.__bqemu_column_governance, how a policy list is saved (DELETE, then *)
(* one INSERT per policy, each committed by itself), what a crash in the    *)
(* middle leaves, and the JSON snapshot a soft-deleted dataset carries.     *)
(***************************************************************************)
EXTENDS Naturals, Sequences, FiniteSets, SequencesExt

CONSTANTS
    GTables,     \* table names of the dataset
    GPolicies,   \* policy ids, a sequence in ORDER BY order
    GranteeSets, \* the grantee lists a request may carry
    MaxGovOps    \* bound: calls, over all restarts

ASSUME GovernanceAssumption ==
    /\ IsInjective(GPolicies)
    /\ MaxGovOps \in Nat

VARIABLES
    gTables,     \* tables that exist
    gDataset,    \* does the dataset exist
    policies,    \* table -> set of [id, grantees]
    columnMask,  \* table -> the governance of its one governed column
    saving,      \* SaveRowAccessPolicies in progress: [table, todo]
    gSnapshots,  \* tombstones, newest last
    intended,    \* history: table -> policies the acknowledged calls amount to
    torn,        \* history: tables whose save a crash interrupted
    lastRead,    \* what the last GetTableGovernance answered: [table, list]
    recovered,   \* history: [table -> policies] the last undelete had to restore
    govOps

govVars == <<gTables, gDataset, policies, columnMask, saving, gSnapshots, intended, torn,
             lastRead, recovered, govOps>>

NotSaving == [table |-> "", todo |-> <<>>]
PolicyIds == Range(GPolicies)
PolicySpace == [id : PolicyIds, grantees : GranteeSets]
NoMask == [tags |-> {}, mask |-> "NONE"]
Masks == [tags : {{}, {"pii"}}, mask : {"NONE", "NULLIFY"}]

--------------------------------------------------------------------------------
\* The snapshot.  Only the brackets of the JSON text decide how it is read back,
\* so a text is the sequence of its bracket characters, an opening brace carrying
\* the record the object renders.

Open(x) == [ch |-> "{", what |-> x]
Char(c) == [ch |-> c, what |-> "none"]

\* RenderGovernanceSnapshotJson, one array of a table's entry: every object holds
\* `arrays` nested arrays (a policy its grantees; a column its tags and grantees).
RenderArray(items, arrays) ==
    <<Char("[")>>
    \o FlattenSeq([i \in 1..Len(items) |->
          <<Open(items[i])>>
          \o FlattenSeq([j \in 1..arrays |-> <<Char("["), Char("]")>>])
          \o <<Char("}")>>])
    \o <<Char("]")>>

\* From the key's '[' to the first ']'.
JsonArraySlice(text) == SubSeq(text, 1, SelectInSeq(text, LAMBDA t : t.ch = "]"))

\* ExtractBalancedObject: the end of the object that opens at i, 0 when the text
\* ends first.
ObjectEnd(text, i) ==
    LET depth[j \in 1..Len(text)] ==
            (IF j = 1 THEN 0 ELSE depth[j - 1])
            + (IF text[j].ch = "{" THEN 1 ELSE 0) - (IF text[j].ch = "}" THEN 1 ELSE 0)
        ends == {j \in i..Len(text) : text[j].ch = "}" /\ depth[j] + 1 = depth[i]}
    IN  IF ends = {} THEN 0 ELSE CHOOSE j \in ends : \A k \in ends : j <= k

\* SplitTopLevelJsonObjects: the objects of the array, up to the first that does
\* not close.
SplitTopLevelJsonObjects(text) ==
    LET starts == SelectSeq([i \in 1..Len(text) |-> i], LAMBDA i : text[i].ch = "{")
        bad == SelectInSeq(starts, LAMBDA i : ObjectEnd(text, i) = 0)
        good == IF bad = 0 THEN starts ELSE SubSeq(starts, 1, bad - 1)
    IN  {text[good[k]].what : k \in DOMAIN good}

\* LoadTableGovernance: ORDER BY policy_id.
PolicyList(set) ==
    SetToSortSeq(set, LAMBDA a, b :
        SelectInSeq(GPolicies, LAMBDA x : x = a.id) < SelectInSeq(GPolicies, LAMBDA x : x = b.id))

RestoredPolicies(set) ==
    SplitTopLevelJsonObjects(JsonArraySlice(RenderArray(PolicyList(set), 1)))

RestoredMask(mask) ==
    IF mask \in SplitTopLevelJsonObjects(JsonArraySlice(RenderArray(<<mask>>, 2)))
    THEN mask ELSE NoMask

--------------------------------------------------------------------------------
GovInit ==
    /\ gTables = {} /\ gDataset = TRUE
    /\ policies = [t \in GTables |-> {}]
    /\ columnMask = [t \in GTables |-> NoMask]
    /\ saving = NotSaving
    /\ gSnapshots = <<>>
    /\ intended = policies
    /\ torn = {}
    /\ lastRead = [table |-> "", list |-> {}]
    /\ recovered = policies
    /\ govOps = 0

\* Every storage call holds mu_: none starts while a save is in progress.
Locked ==
    /\ saving = NotSaving
    /\ govOps < MaxGovOps
    /\ govOps' = govOps + 1

GovCreateTable == \E t \in GTables \ gTables :
    /\ Locked /\ gDataset
    /\ gTables' = gTables \cup {t}
    /\ UNCHANGED <<gDataset, policies, columnMask, saving, gSnapshots, intended, torn, lastRead,
                   recovered>>

\* DropTable leaves the table's governance rows: a table created later under the
\* same name has them.
GovDropTable == \E t \in gTables :
    /\ Locked
    /\ gTables' = gTables \ {t}
    /\ UNCHANGED <<gDataset, policies, columnMask, saving, gSnapshots, intended, torn, lastRead,
                   recovered>>

\* SaveRowAccessPolicies: the DELETE commits; the INSERTs follow.
SaveRowAccessPolicies(t, list) ==
    /\ policies' = [policies EXCEPT ![t] = {}]
    /\ saving' = [table |-> t, todo |-> list]
    /\ intended' = [intended EXCEPT ![t] = Range(list)]
    /\ torn' = torn \ {t}

\* The loaded list with p in the place of the policy of its id, or at the end.
WithPolicy(list, p) ==
    LET i == SelectInSeq(list, LAMBDA q : q.id = p.id)
    IN  IF i = 0 THEN Append(list, p) ELSE ReplaceAt(list, i, p)

\* rowAccessPolicies.insert and .update both upsert.
UpsertRowAccessPolicy == \E t \in gTables, p \in PolicySpace :
    /\ Locked
    /\ SaveRowAccessPolicies(t, WithPolicy(PolicyList(policies[t]), p))
    /\ UNCHANGED <<gTables, gDataset, columnMask, gSnapshots, lastRead, recovered>>

DeleteRowAccessPolicy == \E t \in gTables, id \in PolicyIds :
    /\ Locked
    /\ \E q \in policies[t] : q.id = id
    /\ SaveRowAccessPolicies(t, SelectSeq(PolicyList(policies[t]), LAMBDA q : q.id # id))
    /\ UNCHANGED <<gTables, gDataset, columnMask, gSnapshots, lastRead, recovered>>

\* The next INSERT, or the end of the save and the release of mu_.
SaveNext ==
    /\ saving # NotSaving
    /\ IF saving.todo = <<>>
       THEN saving' = NotSaving /\ UNCHANGED policies
       ELSE /\ policies' = [policies EXCEPT ![saving.table] = @ \cup {Head(saving.todo)}]
            /\ saving' = [saving EXCEPT !.todo = Tail(@)]
    /\ UNCHANGED <<gTables, gDataset, columnMask, gSnapshots, intended, torn, lastRead, recovered,
                   govOps>>

\* SetColumnGovernance: one INSERT OR REPLACE.
SetColumnGovernance == \E t \in gTables, m \in Masks :
    /\ Locked
    /\ columnMask' = [columnMask EXCEPT ![t] = m]
    /\ UNCHANGED <<gTables, gDataset, policies, saving, gSnapshots, intended, torn, lastRead,
                   recovered>>

\* The reader does not wait for mu_.
ReadsUnlocked == \E t \in gTables :
    /\ lastRead' = [table |-> t, list |-> policies[t]]
    /\ UNCHANGED <<gTables, gDataset, policies, columnMask, saving, gSnapshots, intended, torn,
                   recovered, govOps>>

\* ListRowAccessPolicies, and the planner of a query over the table.
GetTableGovernance == \E t \in gTables :
    /\ saving = NotSaving
    /\ lastRead' = [table |-> t, list |-> policies[t]]
    /\ UNCHANGED <<gTables, gDataset, policies, columnMask, saving, gSnapshots, intended, torn,
                   recovered, govOps>>

\* The process dies, perhaps between a DELETE and its INSERTs.
GovCrash ==
    /\ saving # NotSaving
    /\ saving' = NotSaving
    /\ torn' = torn \cup {saving.table}
    /\ UNCHANGED <<gTables, gDataset, policies, columnMask, gSnapshots, intended, lastRead,
                   recovered, govOps>>

\* DropDataset: tables with any governance are rendered into governance.json,
\* every governance row of the dataset is purged.
GovDropDataset ==
    /\ Locked /\ gDataset
    /\ gDataset' = FALSE
    /\ gSnapshots' = Append(gSnapshots, [tables |-> gTables,
                                         rap |-> [t \in gTables |-> policies[t]],
                                         col |-> [t \in gTables |-> columnMask[t]]])
    /\ gTables' = {}
    /\ policies' = [t \in GTables |-> {}]
    /\ columnMask' = [t \in GTables |-> NoMask]
    /\ intended' = [t \in GTables |-> {}]
    /\ torn' = {}
    /\ UNCHANGED <<saving, lastRead, recovered>>

CreateDatasetAgain ==
    /\ Locked /\ ~gDataset
    /\ gDataset' = TRUE
    /\ UNCHANGED <<gTables, policies, columnMask, saving, gSnapshots, intended, torn, lastRead,
                   recovered>>

\* RestoreDataset, and RestoreGovernanceFromSnapshotLocked for every entry.
GovUndelete ==
    /\ Locked /\ ~gDataset /\ gSnapshots # <<>>
    /\ LET s == Last(gSnapshots) IN
       /\ gTables' = s.tables
       /\ policies' = [t \in GTables |-> IF t \in s.tables THEN RestoredPolicies(s.rap[t]) ELSE {}]
       /\ columnMask' = [t \in GTables |-> IF t \in s.tables THEN RestoredMask(s.col[t]) ELSE NoMask]
       /\ intended' = policies'
       /\ recovered' = [t \in GTables |-> IF t \in s.tables THEN s.rap[t] ELSE {}]
    /\ gDataset' = TRUE
    /\ gSnapshots' = Front(gSnapshots)
    /\ UNCHANGED <<saving, torn, lastRead>>

GovNext ==
    \/ GovCreateTable \/ GovDropTable \/ UpsertRowAccessPolicy \/ DeleteRowAccessPolicy \/ SaveNext
    \/ SetColumnGovernance \/ GetTableGovernance \/ GovCrash \/ GovDropDataset
    \/ CreateDatasetAgain \/ GovUndelete

--------------------------------------------------------------------------------
\* A reader is never answered from the middle of a save: what GetTableGovernance
\* returns is the list the acknowledged inserts, updates and deletes amount to,
\* across drops of the table and of the dataset, unless a crash tore a save of
\* that table.  What an undelete brought back counts as acknowledged here.
ReadsWholePolicyList ==
    [][lastRead' # lastRead => \/ lastRead'.list = intended[lastRead'.table]
                               \/ lastRead'.table \in torn]_govVars

\* docs/REST_API.md: datasets.undelete "Restores member tables, views, routines,
\* row-access policies" captured at delete time.
UndeleteRestoresPolicies ==
    [][recovered' # recovered => policies' = recovered']_govVars

================================================================================
