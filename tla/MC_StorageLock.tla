--------------------------- MODULE MC_StorageLock ---------------------------
(* Instances of StorageLock for TLC: a process may die at any point. *)
EXTENDS StorageLock, TLC

AnyPoint == Points \ {"idle", "dead"}
=============================================================================
