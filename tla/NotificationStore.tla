-------------------------- MODULE NotificationStore --------------------------
(***************************************************************************)
(* The Notification Store of services/notification-delivery: the outbox     *)
(* row and what each repository operation does to it.  A row is one entry   *)
(* of the PostgreSQL table `notifications'; every operation below runs in   *)
(* one transaction under the row's lock, so an operation is a function from *)
(* the row it locked to the row it writes.                                  *)
(*                                                                         *)
(* Data left out: payload, vendor, reasons and error codes.  The lease id   *)
(* is a random 128-bit string in the code; here it is the version the claim *)
(* writes, a value no other claim of the same row ever gets.  The lease's   *)
(* actor is left out because every worker runs as the actor "worker-1"      *)
(* (cmd/server/main.go), so that part of ValidateLease never tells two      *)
(* workers apart.                                                          *)
(***************************************************************************)
EXTENDS Integers

CONSTANTS MaxAttempts,         \* attempts of one delivery cycle
          MaxAge,              \* life of one delivery cycle
          HTTPHardTimeout,     \* an HTTP exchange never lasts longer
          ResultCommitMargin,  \* time reserved for writing the result
          DeadlineClaimBudget, \* time reserved for the preflight checks
          LeaseTTL             \* life of a lease

(* Config.Validate refuses every other configuration. *)
ASSUME ConfigAssumption ==
    /\ MaxAttempts \in Nat \ {0}
    /\ MaxAge \in Nat \ {0}
    /\ HTTPHardTimeout \in Nat \ {0}
    /\ ResultCommitMargin \in Nat \ {0}
    /\ DeadlineClaimBudget \in Nat \ {0}
    /\ LeaseTTL \in Nat \ {0}
    /\ DeadlineClaimBudget < HTTPHardTimeout + ResultCommitMargin
    /\ LeaseTTL >= HTTPHardTimeout + ResultCommitMargin + DeadlineClaimBudget

NoTime  == -1  \* a NULL timestamp
NoLease == 0   \* a NULL lease id; versions of rows start at 1

States == {"absent", "pending", "in_flight", "delivered", "dead"}

Row == [state        : States,
        version      : Nat,
        attempts     : Nat,
        cycleStart   : Nat,
        nextAt       : Nat \cup {NoTime},
        leaseId      : Nat,
        leaseExpires : Nat \cup {NoTime},
        replays      : Nat,
        replayedAt   : Nat \cup {NoTime}]

(* What a runner asks Transition to write: succeed, retry or die, whether   *)
(* the result counts as an attempt, and the time of the next attempt.       *)
Request == [kind    : {"succeed", "retry", "die"},
            counted : {0, 1},
            nextAt  : Nat \cup {NoTime}]

AbsentRow == [state |-> "absent", version |-> 0, attempts |-> 0,
              cycleStart |-> 0, nextAt |-> NoTime, leaseId |-> NoLease,
              leaseExpires |-> NoTime, replays |-> 0, replayedAt |-> NoTime]

-----------------------------------------------------------------------------
(* Intake *)

(* Mutant: delivery_cycle_started_at is left NULL. *)
IntakeRow_NoCycle(t) == [AbsentRow EXCEPT !.state = "pending", !.version = 1,
                                          !.cycleStart = NoTime]
IntakeRow(t) == [AbsentRow EXCEPT !.state = "pending", !.version = 1,
                                  !.cycleStart = t]

-----------------------------------------------------------------------------
(* ClaimNext *)

Eligible(r, t) == r.state = "pending" /\ r.nextAt <= t

ClaimRow(r, t) == [r EXCEPT !.state = "in_flight",
                            !.version = r.version + 1,
                            !.leaseId = r.version + 1,
                            !.leaseExpires = t + LeaseTTL]

-----------------------------------------------------------------------------
(* Transition *)

(* Mutant: the optimistic version check is dropped. *)
ValidateVersion_Unchecked(r, version) == TRUE
ValidateVersion(r, version) == r.version = version

ValidateLease(r, leaseId, t) ==
    /\ r.leaseId # NoLease
    /\ r.leaseId = leaseId
    /\ r.leaseExpires > t

DecideTransition(r, version) ==
    /\ ValidateVersion(r, version)
    /\ r.state = "in_flight"

NewState(kind) == CASE kind = "succeed" -> "delivered"
                    [] kind = "retry"   -> "pending"
                    [] kind = "die"     -> "dead"

(* updateNotification writes replayed_at = NULL unless it applies a replay. *)
TransitionRow(r, req) ==
    [r EXCEPT !.state        = NewState(req.kind),
              !.version      = r.version + 1,
              !.attempts     = r.attempts + req.counted,
              !.nextAt       = IF req.kind = "retry" THEN req.nextAt ELSE NoTime,
              !.leaseId      = NoLease,
              !.leaseExpires = NoTime,
              !.replayedAt   = NoTime]

DecideReplay(r, version) ==
    /\ ValidateVersion(r, version)
    /\ r.state = "dead"

ReplayRow(r, t) ==
    [r EXCEPT !.state      = "pending",
              !.version    = r.version + 1,
              !.attempts   = 0,
              !.cycleStart = t,
              !.nextAt     = NoTime,
              !.replays    = r.replays + 1,
              !.replayedAt = t]

-----------------------------------------------------------------------------
(* RecoverExpiredLeases *)

(* Mutant: the sweep looks for expired leases among pending rows. *)
Expired_WrongState(r, t) == r.state = "pending" /\ r.leaseId # NoLease /\ r.leaseExpires <= t
Expired(r, t) == r.state = "in_flight" /\ r.leaseExpires <= t

(* Mutant: an unknown result is not counted as an attempt. *)
RecoverRow_Uncounted(r, t) ==
    [r EXCEPT !.state = "pending", !.version = r.version + 1, !.nextAt = t,
              !.leaseId = NoLease, !.leaseExpires = NoTime, !.replayedAt = NoTime]
RecoverRow(r, t) ==
    [r EXCEPT !.state        = "pending",
              !.version      = r.version + 1,
              !.attempts     = r.attempts + 1,
              !.nextAt       = t,
              !.leaseId      = NoLease,
              !.leaseExpires = NoTime,
              !.replayedAt   = NoTime]
=============================================================================
