------------------------ MODULE NotificationDelivery ------------------------
(***************************************************************************)
(* The delivery side of services/notification-delivery: the goroutines of   *)
(* the worker pool that run Runner.RunOnce, the lease recovery loop, the    *)
(* operator's replay commands and the callers' intake, all sharing the      *)
(* Notification Store.                                                     *)
(*                                                                         *)
(* Time is one discrete clock for the database and every process.  A store  *)
(* transaction reads its clock when it begins and locks its row later, so   *)
(* claims and result commits each take two steps; from the row lock to the  *)
(* commit nobody else can touch the row, which is one step.                 *)
(***************************************************************************)
EXTENDS NotificationStore, FiniteSets

CONSTANTS Notifications,   \* rows, one per (caller, idempotency key)
          Workers,         \* goroutines that run RunOnce
          RecoveryBatch,   \* rows one recovery transaction may take
          RetryBaseDelay, RetryDelayCap, RetryAfterCap,
          SendDelay,       \* longest pause between the last cutoff check and the send
          MaxReplays,      \* bound: replays of one notification
          MaxAbandons,     \* bound: attempts that end without a commit
          LastIntake,      \* bound: last instant of an intake
          LastReplay,      \* bound: last instant of a replay
          MaxTime          \* bound: the clock stops here

ASSUME BoundsAssumption ==
    /\ Notifications # {}
    /\ RecoveryBatch \in Nat \ {0}
    /\ RetryBaseDelay \in Nat \ {0}
    /\ RetryDelayCap \in Nat
    /\ RetryAfterCap \in Nat
    /\ SendDelay \in Nat
    /\ SendDelay <= ResultCommitMargin
    /\ MaxReplays \in Nat
    /\ MaxAbandons \in Nat
    /\ LastIntake \in Nat
    /\ LastReplay \in Nat
    /\ MaxTime \in Nat

VARIABLES
    now,        \* the clock
    rows,       \* the notifications table
    pc,         \* stage of RunOnce in each worker
    claim,      \* LeaseClaim each worker holds
    at,         \* when the worker's open transaction, last check, send or ack was; else 0
    req,        \* the transition the worker is about to request
    approvals,  \* <<notification, version>> pairs an operator saw dead in a preview
    sends,      \* history: HTTP requests of the current delivery cycle
    acked,      \* history: notifications acknowledged in the current cycle
    abandons    \* number of abandoned attempts

workerVars == <<pc, claim, at, req>>
vars == <<now, rows, pc, claim, at, req, approvals, sends, acked, abandons>>

Stages == {"idle", "claiming", "claimed", "preflight", "recheck", "ready",
           "sending", "commit", "committing"}

Claim == [n : Notifications, version : Nat, attempts : Nat,
          cycleStart : Nat, leaseExpires : Nat]

NoClaim == [n |-> CHOOSE n \in Notifications : TRUE, version |-> 0,
            attempts |-> 0, cycleStart |-> 0, leaseExpires |-> 0]

NoRequest == [kind |-> "die", counted |-> 0, nextAt |-> NoTime]

Init ==
    /\ now = 0
    /\ rows = [n \in Notifications |-> AbsentRow]
    /\ pc = [w \in Workers |-> "idle"]
    /\ claim = [w \in Workers |-> NoClaim]
    /\ at = [w \in Workers |-> 0]
    /\ req = [w \in Workers |-> NoRequest]
    /\ approvals = {}
    /\ sends = [n \in Notifications |-> 0]
    /\ acked = {}
    /\ abandons = 0

-----------------------------------------------------------------------------
(* Callers: the intake of a key the store has not seen.  A repeated intake  *)
(* of a stored key writes nothing, whatever its fingerprint.               *)

Intake(n) ==
    /\ now <= LastIntake
    /\ rows[n].state = "absent"
    /\ rows' = [rows EXCEPT ![n] = IntakeRow(now)]
    /\ UNCHANGED <<now, workerVars, approvals, sends, acked, abandons>>

-----------------------------------------------------------------------------
(* Cutoffs and backoff *)

CycleSendCutoff(c) == c.cycleStart + MaxAge - HTTPHardTimeout - ResultCommitMargin

(* Mutant: the lease budget reserves no time for the HTTP exchange. *)
PreflightCutoff_NoHTTPBudget(c) == c.leaseExpires - ResultCommitMargin
(* Mutant: the lease budget reserves no time for writing the result. *)
PreflightCutoff_NoCommitBudget(c) == c.leaseExpires - HTTPHardTimeout
PreflightCutoff(c) == c.leaseExpires - HTTPHardTimeout - ResultCommitMargin

(* Every delay FullJitter may draw: below min(cap, base * 2^attempts). *)
FullJitter(attempts) ==
    {0} \cup {j \in 0..RetryDelayCap : j < RetryDelayCap /\ j < RetryBaseDelay * 2^attempts}

(* Every result of NextAttemptTime before the cutoff; hints holds the       *)
(* Retry-After values the answer may carry, 0 for none.                    *)
NextAttemptTimes(c, hints) ==
    { t \in now..CycleSendCutoff(c) :
        \E j \in FullJitter(c.attempts), h \in hints :
            LET candidate == IF h > j THEN h ELSE j
            IN  t = IF now + candidate > CycleSendCutoff(c)
                      THEN CycleSendCutoff(c) ELSE now + candidate }

(* A policy termination does not count as an attempt; a result does. *)
PolicyDie == [kind |-> "die", counted |-> 0, nextAt |-> NoTime]
ResultDie == [kind |-> "die", counted |-> 1, nextAt |-> NoTime]
Succeed   == [kind |-> "succeed", counted |-> 1, nextAt |-> NoTime]

(* The requests a retryable failure may lead to: a retry, or, at the cycle  *)
(* cutoff, the death of the notification (ApplyB01Cutoff, transitionRetry). *)
RetryRequests(c, hints) ==
    IF now < CycleSendCutoff(c)
      THEN {[kind |-> "retry", counted |-> 1, nextAt |-> t] : t \in NextAttemptTimes(c, hints)}
      ELSE {ResultDie}

-----------------------------------------------------------------------------
(* Workers *)

GoTo(w, stage) == pc' = [pc EXCEPT ![w] = stage]

GoIdle(w) ==
    /\ GoTo(w, "idle")
    /\ claim' = [claim EXCEPT ![w] = NoClaim]
    /\ at' = [at EXCEPT ![w] = 0]
    /\ req' = [req EXCEPT ![w] = NoRequest]

(* The worker has decided which transition to request. *)
Decide(w, r) ==
    /\ GoTo(w, "commit")
    /\ req' = [req EXCEPT ![w] = r]
    /\ at' = [at EXCEPT ![w] = IF r.kind = "succeed" THEN now ELSE 0]
    /\ UNCHANGED claim

(* An interrupted attempt is cut off only while the clock still has time to *)
(* expire its lease, so that the bound MaxTime never hides a recovery.      *)
MayAbandon == abandons < MaxAbandons /\ now + LeaseTTL <= MaxTime

BeginClaim(w) ==
    /\ pc[w] = "idle"
    /\ GoTo(w, "claiming")
    /\ at' = [at EXCEPT ![w] = now]
    /\ UNCHANGED <<now, rows, claim, req, approvals, sends, acked, abandons>>

EligibleRows(t) == {n \in Notifications : Eligible(rows[n], t)}

Older(n, S) == {m \in S : rows[m].cycleStart < rows[n].cycleStart}

(* claimScanSQL takes the oldest eligible row that is not locked; each other *)
(* open claim transaction may hold the lock of one row.                    *)
Claimable(w, n) ==
    /\ n \in EligibleRows(at[w])
    /\ Cardinality(Older(n, EligibleRows(at[w])))
          <= Cardinality({v \in Workers \ {w} : pc[v] = "claiming"})

ClaimNext(w, n) ==
    /\ pc[w] = "claiming"
    /\ Claimable(w, n)
    /\ rows' = [rows EXCEPT ![n] = ClaimRow(rows[n], at[w])]
    /\ claim' = [claim EXCEPT ![w] =
                   [n |-> n, version |-> rows[n].version + 1,
                    attempts |-> rows[n].attempts,
                    cycleStart |-> rows[n].cycleStart,
                    leaseExpires |-> at[w] + LeaseTTL]]
    /\ GoTo(w, "claimed")
    /\ at' = [at EXCEPT ![w] = 0]
    /\ UNCHANGED <<now, req, approvals, sends, acked, abandons>>

(* The claim committed but its answer was lost: RunOnce returns an error    *)
(* and the lease stays until it expires.                                   *)
ClaimAnswerLost(w, n) ==
    /\ pc[w] = "claiming"
    /\ Claimable(w, n)
    /\ MayAbandon
    /\ rows' = [rows EXCEPT ![n] = ClaimRow(rows[n], at[w])]
    /\ abandons' = abandons + 1
    /\ GoIdle(w)
    /\ UNCHANGED <<now, approvals, sends, acked>>

NothingToClaim(w) ==
    /\ pc[w] = "claiming"
    /\ EligibleRows(at[w]) = {}
    /\ GoIdle(w)
    /\ UNCHANGED <<now, rows, approvals, sends, acked, abandons>>

(* The limits checked right after the claim, deadline first. *)
CheckLimits(w) ==
    /\ pc[w] = "claimed"
    /\ IF now >= CycleSendCutoff(claim[w]) \/ claim[w].attempts >= MaxAttempts
         THEN Decide(w, PolicyDie)
         ELSE GoTo(w, "preflight") /\ UNCHANGED <<claim, at, req>>
    /\ UNCHANGED <<now, rows, approvals, sends, acked, abandons>>

(* A group of external lookups (registry snapshot, credential, DNS, address *)
(* policy, request building) that ends in a policy termination, in a        *)
(* transient failure, or in a fresh check of both cutoffs.                  *)
Lookup(w, stage, next) ==
    /\ pc[w] = stage
    /\ \/ Decide(w, PolicyDie)
       \/ \E r \in RetryRequests(claim[w], {0}) : Decide(w, r)
       \/ /\ now < CycleSendCutoff(claim[w])
          /\ now < PreflightCutoff(claim[w])
          /\ GoTo(w, next)
          /\ at' = [at EXCEPT ![w] = IF next = "ready" THEN now ELSE 0]
          /\ UNCHANGED <<claim, req>>
    /\ UNCHANGED <<now, rows, approvals, sends, acked, abandons>>

Preflight(w) == Lookup(w, "preflight", "recheck")

(* Mutant: the cutoffs are not checked again after the second resolution.   *)
Recheck_NoCutoffs(w) ==
    /\ pc[w] = "recheck"
    /\ GoTo(w, "ready")
    /\ at' = [at EXCEPT ![w] = now]
    /\ UNCHANGED <<now, rows, claim, req, approvals, sends, acked, abandons>>
Recheck(w) == Lookup(w, "recheck", "ready")

Send(w) ==
    /\ pc[w] = "ready"
    /\ GoTo(w, "sending")
    /\ at' = [at EXCEPT ![w] = now]
    /\ sends' = [sends EXCEPT ![claim[w].n] = @ + 1]
    /\ UNCHANGED <<now, rows, claim, req, approvals, acked, abandons>>

Acknowledged(w) ==
    /\ pc[w] = "sending"
    /\ Decide(w, Succeed)
    /\ acked' = acked \cup {claim[w].n}
    /\ UNCHANGED <<now, rows, approvals, sends, abandons>>

(* Mutant: an answer without the acknowledgement counts as a success. *)
Failed_AsSuccess(w) ==
    /\ pc[w] = "sending"
    /\ Decide(w, Succeed)
    /\ UNCHANGED <<now, rows, approvals, sends, acked, abandons>>
(* A transient failure (timeout included), a refusal by the vendor, or a    *)
(* destination the dialer's policy rejects.                                *)
Failed(w) ==
    /\ pc[w] = "sending"
    /\ \/ \E r \in RetryRequests(claim[w], 0..RetryAfterCap) : Decide(w, r)
       \/ Decide(w, ResultDie)
       \/ Decide(w, PolicyDie)
    /\ UNCHANGED <<now, rows, approvals, sends, acked, abandons>>

BeginCommit(w) ==
    /\ pc[w] = "commit"
    /\ GoTo(w, "committing")
    /\ at' = [at EXCEPT ![w] = now]
    /\ UNCHANGED <<now, rows, claim, req, approvals, sends, acked, abandons>>

(* Mutant: a result is accepted for any in-flight row, fenced by nothing. *)
Accepts_Unfenced(c, t) == rows[c.n].state = "in_flight"
Accepts(c, t) == /\ DecideTransition(rows[c.n], c.version)
                 /\ ValidateLease(rows[c.n], c.version, t)

(* A stale version, a lost lease or an expired one is rejected, and the     *)
(* runner drops its result.                                                *)
Commit(w) ==
    /\ pc[w] = "committing"
    /\ rows' = IF Accepts(claim[w], at[w])
                 THEN [rows EXCEPT ![claim[w].n] = TransitionRow(@, req[w])]
                 ELSE rows
    /\ GoIdle(w)
    /\ UNCHANGED <<now, approvals, sends, acked, abandons>>

(* A crash, a cancelled context or a store failure ends the attempt (or the *)
(* uncommitted claim) at any stage; nothing is written.                    *)
Abandon(w) ==
    /\ pc[w] # "idle"
    /\ MayAbandon
    /\ abandons' = abandons + 1
    /\ GoIdle(w)
    /\ UNCHANGED <<now, rows, approvals, sends, acked>>

WorkerStep(w) ==
    \/ BeginClaim(w)
    \/ \E n \in Notifications : ClaimNext(w, n)
    \/ NothingToClaim(w)
    \/ CheckLimits(w)
    \/ Preflight(w)
    \/ Recheck(w)
    \/ Send(w)
    \/ Acknowledged(w)
    \/ Failed(w)
    \/ BeginCommit(w)
    \/ Commit(w)

-----------------------------------------------------------------------------
(* Lease recovery: one transaction at a time, by the advisory lock.  Its     *)
(* clock and its sweep are one step: a sweep that uses an older clock takes  *)
(* the rows of a sweep that ran earlier.                                    *)

ExpiredRows(t) == {n \in Notifications : Expired(rows[n], t)}

(* The batch: the rows whose leases expired first, as many as it may hold.  *)
Batches(S) ==
    {B \in SUBSET S :
        /\ Cardinality(B) <= RecoveryBatch
        /\ B # S => Cardinality(B) = RecoveryBatch
        /\ \A a \in B, b \in S \ B : rows[a].leaseExpires <= rows[b].leaseExpires}

RecoverExpiredLeases ==
    /\ ExpiredRows(now) # {}
    /\ \E B \in Batches(ExpiredRows(now)) :
          rows' = [n \in Notifications |->
                     IF n \in B THEN RecoverRow(rows[n], now) ELSE rows[n]]
    /\ UNCHANGED <<now, workerVars, approvals, sends, acked, abandons>>

-----------------------------------------------------------------------------
(* Operators: a preview shows the version of a dead row; an execution names *)
(* that version, may come late and may be repeated.                        *)

PreviewReplay(n) ==
    /\ rows[n].state = "dead"
    /\ rows[n].replays < MaxReplays
    /\ approvals' = approvals \cup {<<n, rows[n].version>>}
    /\ UNCHANGED <<now, rows, workerVars, sends, acked, abandons>>

ExecuteReplay(n, version) ==
    /\ <<n, version>> \in approvals
    /\ now <= LastReplay
    /\ DecideReplay(rows[n], version)
    /\ rows[n].replays < MaxReplays
    /\ rows' = [rows EXCEPT ![n] = ReplayRow(@, now)]
    /\ sends' = [sends EXCEPT ![n] = 0]
    /\ acked' = acked \ {n}
    /\ UNCHANGED <<now, workerVars, approvals, abandons>>

-----------------------------------------------------------------------------
(* Time passes, but never past the end of a bounded stage: the HTTP client  *)
(* gives up after HTTPHardTimeout, and a worker that passed its last check  *)
(* sends within SendDelay.                                                 *)
Tick ==
    /\ now < MaxTime
    /\ \A w \in Workers :
          /\ pc[w] = "ready" => now < at[w] + SendDelay
          /\ pc[w] = "sending" => now < at[w] + HTTPHardTimeout
    /\ now' = now + 1
    /\ UNCHANGED <<rows, workerVars, approvals, sends, acked, abandons>>

Next ==
    \/ \E n \in Notifications : Intake(n) \/ PreviewReplay(n)
    \/ \E a \in approvals : ExecuteReplay(a[1], a[2])
    \/ \E w \in Workers :
          \/ WorkerStep(w)
          \/ Abandon(w)
          \/ \E n \in Notifications : ClaimAnswerLost(w, n)
    \/ RecoverExpiredLeases
    \/ Tick

Spec == Init /\ [][Next]_vars

(* The worker pool restarts an iteration on every tick of its timer, the    *)
(* recovery loop runs on its own timer, and time passes.                   *)
Fairness ==
    /\ \A w \in Workers : WF_vars(WorkerStep(w))
    /\ WF_vars(RecoverExpiredLeases)
    /\ WF_vars(Tick)

FairSpec == Spec /\ Fairness

-----------------------------------------------------------------------------
(* Properties *)

(* Every variable keeps its type, counters unbounded. *)
TypeOK ==
    /\ now \in Nat
    /\ rows \in [Notifications -> Row]
    /\ pc \in [Workers -> Stages]
    /\ claim \in [Workers -> Claim]
    /\ at \in [Workers -> Nat]
    /\ req \in [Workers -> Request]
    /\ approvals \subseteq Notifications \X Nat
    /\ sends \in [Notifications -> Nat]
    /\ acked \subseteq Notifications
    /\ abandons \in Nat

(* At no time do two workers have an HTTP request for the same notification *)
(* under way, although a lease may expire and be recovered in the middle of *)
(* an attempt: the cutoffs of RunOnce end every exchange inside its lease.  *)
NoOverlappingSends ==
    \A v, w \in Workers :
        v # w /\ pc[v] = "sending" /\ pc[w] = "sending" => claim[v].n # claim[w].n

(* A delivery cycle never sends more than MaxAttempts requests, whatever    *)
(* crashes: every send is counted by its own result or by the recovery of   *)
(* its lease before the next claim.                                        *)
SendBudget == \A n \in Notifications : sends[n] <= MaxAttempts

(* An exchange under way ends before its delivery cycle reaches MaxAge.     *)
SendsInsideCycle ==
    \A w \in Workers : pc[w] = "sending" => now < claim[w].cycleStart + MaxAge

(* A vendor's acknowledgement that is committed within what is left of the  *)
(* result commit margin is accepted: neither expiry nor recovery can have   *)
(* taken the lease.                                                        *)
AckWithinMarginAccepted ==
    \A w \in Workers :
        pc[w] = "commit" /\ req[w].kind = "succeed"
            /\ now - at[w] <= ResultCommitMargin - SendDelay
        => Accepts(claim[w], now)

(* A row is delivered only when the vendor acknowledged it in this cycle.   *)
DeliveredWasAcked ==
    \A n \in Notifications : rows[n].state = "delivered" => n \in acked

(* One preview of a dead notification authorises at most one replay, even   *)
(* when its execution is repeated after an unknown commit outcome.         *)
OneReplayPerApproval ==
    \A n \in Notifications :
        rows[n].replays <= Cardinality({a \in approvals : a[1] = n})

(* Every notification accepted by intake is eventually delivered or dead.   *)
EventuallySettled ==
    \A n \in Notifications :
        rows[n].state = "pending" ~> rows[n].state \in {"delivered", "dead"}

(* The service implements the abstract outbox: a row is open while it is    *)
(* pending or in flight, and a request is under way while a worker sends.   *)
OutboxStatus(r) == CASE r.state \in {"pending", "in_flight"} -> "open"
                     [] OTHER -> r.state

Posting == {n \in Notifications :
              \E w \in Workers : pc[w] = "sending" /\ claim[w].n = n}

Abstract == INSTANCE Outbox WITH
                status  <- [n \in Notifications |-> OutboxStatus(rows[n])],
                posting <- Posting,
                posts   <- sends

(* Every step of workers, recovery and operators is a step of the outbox or *)
(* changes nothing it shows.                                               *)
ImplementsOutbox == Abstract!Spec

(* design/cdd/notification-store.md: replayed_at is the most recent replay  *)
(* and the start of the current delivery cycle.                            *)
ReplayTimeKept ==
    \A n \in Notifications :
        rows[n].replays > 0 => rows[n].replayedAt = rows[n].cycleStart
=============================================================================
