------------------------------ MODULE MCStorage ------------------------------
(* The dataset store, the version log of one table and the Storage Read     *)
(* service on small instances.  Each of the three has tables of its own, so *)
(* a behaviour is about one of them, as `focus` says.                       *)
EXTENDS DatasetStore, VersionLog, MCStorageRead

VARIABLE focus

StorageInit ==
  /\ focus \in {"datasets", "versions", "reads"}
  /\ Init
  /\ VersionInit
  /\ ReadInit

StorageNext ==
  \/ focus = "datasets" /\ Next /\ UNCHANGED <<focus, versionVars, readVars>>
  \/ focus = "versions" /\ VersionNext /\ UNCHANGED <<focus, vars, readVars>>
  \/ focus = "reads" /\ ReadNext /\ UNCHANGED <<focus, vars, versionVars>>

StorageSpec == StorageInit /\ [][StorageNext]_<<focus, vars, versionVars, readVars>>

\* The three stores keep their shape: every variable its type, and a dataset its
\* directory, its sidecar and its schema together as long as nothing has failed
\* (CreateDataset and DropDataset change them one after the other).
StoresWellFormed ==
  /\ TypeOK /\ VersionTypeOK /\ ReadTypeOK
  /\ DatasetConsistent
==============================================================================
