--------------------------- MODULE MC_WatchQueue ---------------------------
(* Instances of WatchQueue for TLC. *)
EXTENDS WatchQueue, TLC

CONSTANTS k1, i1

NoTombstones == {}

(* The key was seen before under the id i1 by an older version. *)
OwnTombstone == {[key |-> k1, id |-> i1]}
=============================================================================
