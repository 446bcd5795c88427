--------------------------- MODULE MC_LocalBroker ---------------------------
(* Instances of LocalBroker for TLC. *)
EXTENDS LocalBroker, TLC

CONSTANTS p1, p2
============================================================================
