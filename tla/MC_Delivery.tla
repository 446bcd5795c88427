---------------------------- MODULE MC_Delivery ----------------------------
(* Model of NotificationDelivery for TLC: two workers are interchangeable.   *)
EXTENDS NotificationDelivery, TLC

WorkerSymmetry == Permutations(Workers)
=============================================================================
