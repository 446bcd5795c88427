-------------------------- MODULE MC_HandoffQueue --------------------------
(* Instances of HandoffQueue for TLC. *)
EXTENDS HandoffQueue, TLC

CONSTANTS w1, w2

WorkerSymmetry == Permutations({w1, w2})

(* Every service route of an event renders the same body: webhooks. *)
SharedDigest == [r \in Events \X Service |-> r[1]]
============================================================================
