--------------------------- MODULE MCSyncManager ---------------------------
(* Instances of ingestion for TLC. *)
EXTENDS SyncManager, TLC

Symmetry == Permutations(Syncers)
=============================================================================
