--------------------------- MODULE MCStorageRead ---------------------------
(* StorageRead for TLC: every second row satisfies the row restriction.    *)
EXTENDS StorageRead

EvenRows == {i \in 1..MaxRows : i % 2 = 0}

Third == {<<1, 3>>}

Half == {<<1, 2>>}

StreamCounts == {-1, 4}

Two == {2}
=============================================================================
