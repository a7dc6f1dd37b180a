--------------------------- MODULE MCDatasetStore ---------------------------
(* DatasetStore for TLC.                                                   *)
EXTENDS DatasetStore
=============================================================================
