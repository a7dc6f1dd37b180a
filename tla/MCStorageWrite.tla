--------------------------- MODULE MCStorageWrite ---------------------------
(***************************************************************************)
(* TLC instances of StorageWrite.  Clients are interchangeable.            *)
(***************************************************************************)
EXTENDS StorageWrite, TLC

CONSTANTS c1, c2, t1, t2

MCClients == {c1, c2}
MCOneClient == {c1}
MCOneTable == {t1}
MCOneShape == {1}
MCTwoShapes == {1, 2}
MCClientSymmetry == Permutations(MCClients)
=============================================================================
