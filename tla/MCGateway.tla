------------------------------ MODULE MCGateway ------------------------------
(***************************************************************************)
(* The gateway on a small instance: the registry of jobs, what load, copy, *)
(* query-destination and streaming requests do to a table, and the         *)
(* gateway's other stores.  No two of these parts share state, so a        *)
(* behaviour is about one of them, as `focus` says; one about the registry *)
(* has either calls of jobs.cancel or a client that pages through          *)
(* jobs.list.                                                              *)
(***************************************************************************)
EXTENDS MCJobRegistry, TableJobs, GatewayStores

VARIABLE focus

\* A file with a REPEATED column, one without a schema, a result set with a
\* column that is REQUIRED, and an empty one.
MCLoadFiles == {Listed, Untold}
MCResultSets == {Wide, Empty}

Parts == {"registry", "listing", "tables", "connections", "uploads", "transfers", "pages", "process"}

\* The parts a behaviour is not about start in one state each.
GatewayInit ==
    /\ focus \in Parts
    /\ Init /\ JobInit /\ StoreInit
    /\ focus # "tables" => ~tab["t"].there
    /\ Len(tab["t"].cols) # 2 => Len(tab["u"].cols) = 1
    /\ focus # "uploads" => client.knowsTotal
    /\ focus # "pages" => paging.start = 0
    /\ focus # "process" => proc.binary

GatewayNext ==
    /\ UNCHANGED focus
    /\ \/ /\ focus \in {"registry", "listing"} /\ Next
          /\ focus = "registry" => UNCHANGED walk
          /\ focus = "listing" => UNCHANGED cancels
          /\ UNCHANGED <<jobVars, storeVars>>
       \/ focus = "tables" /\ JobNext /\ UNCHANGED <<vars, storeVars>>
       \/ /\ focus = "connections" /\ ConnNext
          /\ UNCHANGED <<vars, jobVars, uploadVars, transferVars, paging, proc>>
       \/ /\ focus = "uploads" /\ UploadNext
          /\ UNCHANGED <<vars, jobVars, connVars, transferVars, paging, proc>>
       \/ /\ focus = "transfers" /\ TransferNext
          /\ UNCHANGED <<vars, jobVars, connVars, uploadVars, paging, proc>>
       \/ /\ focus = "pages" /\ WalkNext
          /\ UNCHANGED <<vars, jobVars, connVars, uploadVars, transferVars, proc>>
       \/ /\ focus = "process" /\ ProcNext
          /\ UNCHANGED <<vars, jobVars, connVars, uploadVars, transferVars, paging>>

GatewaySpec == GatewayInit /\ [][GatewayNext]_<<focus, vars, jobVars, storeVars>>

\* Requests that overlap leave out nothing: a client paging through jobs.list
\* meets every job that was there, while others are made and finished, and
\* requests that append to one table at once each add all of their rows, every
\* row of them fitting the table's columns (ListByProject, InsertRows).
OverlapsLoseNothing == NoJobSkipped /\ AppendsAddUp /\ RowsFitColumns
==============================================================================
