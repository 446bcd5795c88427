-------------------- MODULE NotificationDelivery_proofs --------------------
(***************************************************************************)
(* Proofs about NotificationDelivery, for any number of notifications and   *)
(* workers and every configuration Config.Validate accepts.                 *)
(***************************************************************************)
EXTENDS NotificationDelivery, FiniteSetTheorems, TLAPS

Early   == {"claimed", "preflight", "recheck", "ready"}
Checked == {"preflight", "recheck", "ready", "sending"}
Asking  == {"commit", "committing"}
Holding == Early \cup {"sending"} \cup Asking

Current(w) == rows[claim[w].n].version = claim[w].version

(* A lease is named after the version its claim wrote. *)
LeaseInv ==
    \A n \in Notifications :
        /\ rows[n].state = "absent" => rows[n].version = 0
        /\ rows[n].state = "in_flight" => /\ rows[n].leaseId = rows[n].version
                                          /\ rows[n].version # 0

(* A claim is never ahead of its row, agrees with it while no other          *)
(* operation has written the row, and nobody writes it before the lease ends.*)
ClaimOK(w) ==
    pc[w] \in Holding =>
        /\ claim[w].version <= rows[claim[w].n].version
        /\ Current(w) => /\ rows[claim[w].n].state = "in_flight"
                         /\ rows[claim[w].n].leaseExpires = claim[w].leaseExpires
                         /\ rows[claim[w].n].attempts = claim[w].attempts
        /\ now < claim[w].leaseExpires => Current(w)

ClaimInv == \A w \in Workers : ClaimOK(w)

(* No two workers hold the same version of the same row. *)
UniqueInv ==
    \A v, w \in Workers :
        v # w /\ pc[v] \in Holding /\ pc[w] \in Holding /\ claim[v].n = claim[w].n
        => claim[v].version # claim[w].version

(* What is left of the lease and of the cycle at each bounded stage. *)
TimeOK(w) ==
    /\ pc[w] = "ready" =>
         /\ now <= at[w] + SendDelay
         /\ at[w] + HTTPHardTimeout + ResultCommitMargin < claim[w].leaseExpires
         /\ at[w] + HTTPHardTimeout + ResultCommitMargin < claim[w].cycleStart + MaxAge
    /\ pc[w] = "sending" =>
         /\ now <= at[w] + HTTPHardTimeout
         /\ at[w] + HTTPHardTimeout + ResultCommitMargin < claim[w].leaseExpires + SendDelay
         /\ at[w] + HTTPHardTimeout + ResultCommitMargin
              < claim[w].cycleStart + MaxAge + SendDelay
    /\ pc[w] = "commit" /\ req[w].kind = "succeed" =>
         at[w] + ResultCommitMargin < claim[w].leaseExpires + SendDelay

TimeInv == \A w \in Workers : TimeOK(w)

(* The row's attempt count pays for every send, the running one excepted. *)
RowBudget(n) ==
    /\ sends[n] <= MaxAttempts
    /\ rows[n].state = "absent" => sends[n] = 0
    /\ rows[n].state = "pending" => sends[n] <= rows[n].attempts
    /\ rows[n].state = "in_flight" => sends[n] <= rows[n].attempts + 1

WorkerBudget(w) ==
    /\ pc[w] \in Checked => claim[w].attempts < MaxAttempts
    /\ pc[w] \in Early /\ Current(w) => sends[claim[w].n] <= claim[w].attempts
    /\ pc[w] \in Asking /\ req[w].kind = "retry" => req[w].counted = 1

BudgetInv == /\ \A n \in Notifications : RowBudget(n)
             /\ \A w \in Workers : WorkerBudget(w)

(* A worker that still holds its row and wants to succeed saw the ack. *)
AckOK(w) ==
    pc[w] \in Asking /\ req[w].kind = "succeed" /\ Current(w) => claim[w].n \in acked

AckInv == DeliveredWasAcked /\ \A w \in Workers : AckOK(w)

IInv == /\ TypeOK
        /\ LeaseInv
        /\ ClaimInv
        /\ UniqueInv
        /\ TimeInv
        /\ BudgetInv
        /\ AckInv

-----------------------------------------------------------------------------
(* Types *)

(* The placeholder of an idle worker is a claim: there is a notification.    *)
LEMMA NoClaimType == NoClaim \in Claim /\ NoRequest \in Request
  <1>1. (CHOOSE n \in Notifications : TRUE) \in Notifications
    BY BoundsAssumption
  <1>2. QED
    BY <1>1 DEF NoClaim, Claim, NoRequest, Request, NoTime

(* Every store operation turns a row into a row.                            *)
LEMMA RowTypes ==
  ASSUME NEW r \in Row, NEW t \in Nat, NEW q \in Request
  PROVE  /\ AbsentRow \in Row
         /\ IntakeRow(t) \in Row
         /\ ClaimRow(r, t) \in Row
         /\ TransitionRow(r, q) \in Row
         /\ ReplayRow(r, t) \in Row
         /\ RecoverRow(r, t) \in Row
  <1>1. AbsentRow \in Row
    BY DEF AbsentRow, Row, States, NoTime, NoLease
  <1>2. IntakeRow(t) \in Row
    BY <1>1 DEF IntakeRow, Row, States
  <1>3. /\ r.version + 1 \in Nat
        /\ r.attempts + 1 \in Nat
        /\ r.attempts + q.counted \in Nat
        /\ r.replays + 1 \in Nat
        /\ t + LeaseTTL \in Nat
        /\ q.nextAt \in Nat \cup {NoTime}
        /\ NewState(q.kind) \in States
    BY ConfigAssumption DEF Row, Request, NewState, States
  <1>4. ClaimRow(r, t) \in Row
    <2>1. \A v, e \in Nat :
            [r EXCEPT !.state = "in_flight", !.version = v, !.leaseId = v,
                      !.leaseExpires = e] \in Row
      BY DEF Row, States
    <2>2. QED
      BY <1>3, <2>1 DEF ClaimRow
  <1>5. TransitionRow(r, q) \in Row
    <2>1. \A s \in States, v, k \in Nat, x \in Nat \cup {NoTime} :
            [r EXCEPT !.state = s, !.version = v, !.attempts = k, !.nextAt = x,
                      !.leaseId = NoLease, !.leaseExpires = NoTime,
                      !.replayedAt = NoTime] \in Row
      BY DEF Row, NoLease
    <2>2. (IF q.kind = "retry" THEN q.nextAt ELSE NoTime) \in Nat \cup {NoTime}
      BY <1>3
    <2>3. QED
      BY <1>3, <2>1, <2>2 DEF TransitionRow
  <1>6. ReplayRow(r, t) \in Row
    <2>1. \A v, k \in Nat :
            [r EXCEPT !.state = "pending", !.version = v, !.attempts = 0,
                      !.cycleStart = t, !.nextAt = NoTime, !.replays = k,
                      !.replayedAt = t] \in Row
      BY DEF Row, States
    <2>2. QED
      BY <1>3, <2>1 DEF ReplayRow
  <1>7. RecoverRow(r, t) \in Row
    <2>1. \A v, k \in Nat :
            [r EXCEPT !.state = "pending", !.version = v, !.attempts = k,
                      !.nextAt = t, !.leaseId = NoLease, !.leaseExpires = NoTime,
                      !.replayedAt = NoTime] \in Row
      BY DEF Row, States, NoLease
    <2>2. QED
      BY <1>3, <2>1 DEF RecoverRow
  <1>8. QED
    BY <1>1, <1>2, <1>4, <1>5, <1>6, <1>7

(* What each store operation writes, field by field.                        *)
LEMMA RowFields ==
  ASSUME NEW r \in Row, NEW t \in Nat, NEW q \in Request
  PROVE  /\ ClaimRow(r, t).state = "in_flight"
         /\ ClaimRow(r, t).version = r.version + 1
         /\ ClaimRow(r, t).attempts = r.attempts
         /\ ClaimRow(r, t).leaseId = r.version + 1
         /\ ClaimRow(r, t).leaseExpires = t + LeaseTTL
         /\ TransitionRow(r, q).state = NewState(q.kind)
         /\ TransitionRow(r, q).version = r.version + 1
         /\ TransitionRow(r, q).attempts = r.attempts + q.counted
         /\ ReplayRow(r, t).state = "pending"
         /\ ReplayRow(r, t).version = r.version + 1
         /\ ReplayRow(r, t).attempts = 0
         /\ RecoverRow(r, t).state = "pending"
         /\ RecoverRow(r, t).version = r.version + 1
         /\ RecoverRow(r, t).attempts = r.attempts + 1
  <1>1. /\ ClaimRow(r, t).state = "in_flight"
        /\ ClaimRow(r, t).version = r.version + 1
        /\ ClaimRow(r, t).attempts = r.attempts
        /\ ClaimRow(r, t).leaseId = r.version + 1
        /\ ClaimRow(r, t).leaseExpires = t + LeaseTTL
    BY DEF ClaimRow, Row
  <1>2. /\ TransitionRow(r, q).state = NewState(q.kind)
        /\ TransitionRow(r, q).version = r.version + 1
        /\ TransitionRow(r, q).attempts = r.attempts + q.counted
    BY DEF TransitionRow, Row
  <1>3. /\ ReplayRow(r, t).state = "pending"
        /\ ReplayRow(r, t).version = r.version + 1
        /\ ReplayRow(r, t).attempts = 0
    BY DEF ReplayRow, Row
  <1>4. /\ RecoverRow(r, t).state = "pending"
        /\ RecoverRow(r, t).version = r.version + 1
        /\ RecoverRow(r, t).attempts = r.attempts + 1
    BY DEF RecoverRow, Row
  <1>5. QED
    BY <1>1, <1>2, <1>3, <1>4

(* The requests RunOnce can make.                                           *)
LEMMA RequestTypes ==
  ASSUME now \in Nat, NEW c \in Claim, NEW hints
  PROVE  /\ PolicyDie \in Request
         /\ ResultDie \in Request
         /\ Succeed \in Request
         /\ \A q \in RetryRequests(c, hints) :
              q \in Request /\ q.counted = 1 /\ q.kind # "succeed"
  <1>1. \A t \in NextAttemptTimes(c, hints) : t \in Nat
    BY ConfigAssumption DEF NextAttemptTimes, CycleSendCutoff, Claim
  <1>2. ResultDie \in Request /\ ResultDie.counted = 1 /\ ResultDie.kind # "succeed"
    BY DEF ResultDie, Request, NoTime
  <1>3. \A q \in RetryRequests(c, hints) :
              q \in Request /\ q.counted = 1 /\ q.kind # "succeed"
    BY <1>1, <1>2 DEF RetryRequests, Request
  <1>4. QED
    BY <1>2, <1>3 DEF PolicyDie, Succeed, Request, NoTime

(* Every action keeps every variable in its type.                           *)
LEMMA TypeStep == TypeOK /\ [Next]_vars => TypeOK'
  <1> SUFFICES ASSUME TypeOK, [Next]_vars PROVE TypeOK'
    OBVIOUS
  <1> USE NoClaimType DEF TypeOK
  <1>1. ASSUME NEW n \in Notifications, Intake(n) PROVE TypeOK'
    BY <1>1, RowTypes, NoClaimType DEF Intake, workerVars
  <1>2. ASSUME NEW n \in Notifications, PreviewReplay(n) PROVE TypeOK'
    BY <1>2 DEF PreviewReplay, workerVars, Row
  <1>3. ASSUME NEW a \in approvals, ExecuteReplay(a[1], a[2]) PROVE TypeOK'
    BY <1>3, RowTypes DEF ExecuteReplay, workerVars
  <1>4. ASSUME NEW w \in Workers, BeginClaim(w) PROVE TypeOK'
    BY <1>4 DEF BeginClaim, GoTo, Stages
  <1>5. ASSUME NEW w \in Workers, NEW n \in Notifications, ClaimNext(w, n) PROVE TypeOK'
    <2>1. ClaimRow(rows[n], at[w]) \in Row
      BY RowTypes
    <2>2. [n |-> n, version |-> rows[n].version + 1, attempts |-> rows[n].attempts,
           cycleStart |-> rows[n].cycleStart, leaseExpires |-> at[w] + LeaseTTL] \in Claim
      BY ConfigAssumption DEF Claim, Row
    <2>3. QED
      BY <1>5, <2>1, <2>2 DEF ClaimNext, GoTo, Stages
  <1>6. ASSUME NEW w \in Workers, NEW n \in Notifications, ClaimAnswerLost(w, n) PROVE TypeOK'
    <2>1. ClaimRow(rows[n], at[w]) \in Row
      BY RowTypes
    <2>2. QED
      BY <1>6, <2>1 DEF ClaimAnswerLost, GoIdle, GoTo, Stages
  <1>7. ASSUME NEW w \in Workers, NothingToClaim(w) PROVE TypeOK'
    BY <1>7 DEF NothingToClaim, GoIdle, GoTo, Stages
  <1>8. ASSUME NEW w \in Workers, CheckLimits(w) PROVE TypeOK'
    BY <1>8, RequestTypes DEF CheckLimits, Decide, GoTo, Stages
  <1>9. ASSUME NEW w \in Workers, NEW s1, NEW s2 \in {"recheck", "ready"}, Lookup(w, s1, s2)
        PROVE TypeOK'
    <2>1. CASE \E q \in Request : Decide(w, q)
      BY <1>9, <2>1 DEF Lookup, Decide, GoTo, Stages
    <2>2. CASE ~ \E q \in Request : Decide(w, q)
      <3>1. GoTo(w, s2) /\ at' = [at EXCEPT ![w] = IF s2 = "ready" THEN now ELSE 0]
              /\ UNCHANGED <<claim, req>>
        BY <1>9, <2>2, RequestTypes DEF Lookup
      <3>2. QED
        BY <1>9, <3>1 DEF Lookup, GoTo, Stages
    <2>3. QED
      BY <2>1, <2>2
  <1>10. ASSUME NEW w \in Workers, Send(w) PROVE TypeOK'
    BY <1>10 DEF Send, GoTo, Stages, Claim
  <1>11. ASSUME NEW w \in Workers, Acknowledged(w) PROVE TypeOK'
    BY <1>11, RequestTypes DEF Acknowledged, Decide, GoTo, Stages, Claim
  <1>12. ASSUME NEW w \in Workers, Failed(w) PROVE TypeOK'
    <2>1. PICK q \in Request : Decide(w, q)
      BY <1>12, RequestTypes DEF Failed
    <2>2. QED
      BY <1>12, <2>1 DEF Failed, Decide, GoTo, Stages
  <1>13. ASSUME NEW w \in Workers, BeginCommit(w) PROVE TypeOK'
    BY <1>13 DEF BeginCommit, GoTo, Stages
  <1>14. ASSUME NEW w \in Workers, Commit(w) PROVE TypeOK'
    <2>1. TransitionRow(rows[claim[w].n], req[w]) \in Row /\ claim[w].n \in Notifications
      BY RowTypes DEF Claim
    <2>2. QED
      BY <1>14, <2>1 DEF Commit, GoIdle, GoTo, Stages
  <1>15. ASSUME NEW w \in Workers, Abandon(w) PROVE TypeOK'
    BY <1>15 DEF Abandon, GoIdle, GoTo, Stages
  <1>16. ASSUME RecoverExpiredLeases PROVE TypeOK'
    <2>1. \A n \in Notifications : RecoverRow(rows[n], now) \in Row
      BY RowTypes
    <2>2. QED
      BY <1>16, <2>1 DEF RecoverExpiredLeases, workerVars
  <1>17. ASSUME Tick PROVE TypeOK'
    BY <1>17 DEF Tick, workerVars
  <1>18. ASSUME UNCHANGED vars PROVE TypeOK'
    BY <1>18 DEF vars
  <1>19. QED
    BY <1>1, <1>2, <1>3, <1>4, <1>5, <1>6, <1>7, <1>8, <1>9, <1>10, <1>11, <1>12,
       <1>13, <1>14, <1>15, <1>16, <1>17, <1>18
    DEF Next, WorkerStep, Preflight, Recheck

(* Initially every variable has its type.                                   *)
LEMMA TypeInit == Init => TypeOK
  <1>1. AbsentRow \in Row
    BY DEF AbsentRow, Row, States, NoTime, NoLease
  <1>2. QED
    BY <1>1, NoClaimType DEF Init, TypeOK, Stages

(* The type invariant of the delivery service: rows, claims and requests     *)
(* keep their shapes in every behaviour.                                    *)
THEOREM TypeCorrect == Spec => []TypeOK
  BY TypeInit, TypeStep, PTL DEF Spec

-----------------------------------------------------------------------------
(* Frames: what a step may do to one row and to one worker *)

Untouched(n) == rows'[n] = rows[n]

Written(n) ==
    /\ now' = now
    /\ rows'[n].version = rows[n].version + 1
    /\ \/ rows[n].state # "in_flight"
       \/ \E v \in Workers : Commit(v) /\ claim[v].n = n /\ Accepts(claim[v], at[v])
       \/ rows[n].leaseExpires <= now

(* A step either leaves a row alone or writes its next version, and an       *)
(* in-flight row is written only by its lease holder or after its expiry.    *)
LEMMA RowFrame ==
  ASSUME TypeOK, LeaseInv, [Next]_vars, NEW n \in Notifications
  PROVE  Untouched(n) \/ Written(n)
  <1> USE DEF TypeOK, Untouched
  <1>1. ASSUME NEW m \in Notifications, Intake(m) PROVE Untouched(n) \/ Written(n)
    <2>1. IntakeRow(now).version = 1
      BY DEF IntakeRow, AbsentRow
    <2>2. QED
      BY <1>1, <2>1 DEF Intake, Written, LeaseInv
  <1>2. ASSUME NEW a \in approvals, ExecuteReplay(a[1], a[2]) PROVE Untouched(n) \/ Written(n)
    <2>1. a[1] \in Notifications /\ ReplayRow(rows[a[1]], now).version = rows[a[1]].version + 1
      BY RowFields, NoClaimType
    <2>2. QED
      BY <1>2, <2>1 DEF ExecuteReplay, DecideReplay, Written
  <1>3. ASSUME NEW w \in Workers, NEW m \in Notifications,
               ClaimNext(w, m) \/ ClaimAnswerLost(w, m)
        PROVE  Untouched(n) \/ Written(n)
    <2>1. ClaimRow(rows[m], at[w]).version = rows[m].version + 1
      BY RowFields, NoClaimType
    <2>2. rows[m].state = "pending"
      BY <1>3 DEF ClaimNext, ClaimAnswerLost, Claimable, EligibleRows, Eligible
    <2>3. QED
      BY <1>3, <2>1, <2>2 DEF ClaimNext, ClaimAnswerLost, Written
  <1>4. ASSUME NEW w \in Workers, Commit(w) PROVE Untouched(n) \/ Written(n)
    <2>1. /\ claim[w].n \in Notifications
          /\ TransitionRow(rows[claim[w].n], req[w]).version = rows[claim[w].n].version + 1
      BY RowFields DEF Claim
    <2>2. CASE Accepts(claim[w], at[w]) /\ n = claim[w].n
      <3>1. rows'[n].version = rows[n].version + 1 /\ now' = now
        BY <1>4, <2>1, <2>2 DEF Commit
      <3>2. QED
        BY <1>4, <2>2, <3>1 DEF Written
    <2>3. CASE ~(Accepts(claim[w], at[w]) /\ n = claim[w].n)
      BY <1>4, <2>1, <2>3 DEF Commit
    <2>4. QED
      BY <2>2, <2>3
  <1>5. ASSUME RecoverExpiredLeases PROVE Untouched(n) \/ Written(n)
    <2>1. RecoverRow(rows[n], now).version = rows[n].version + 1
      BY RowFields, NoClaimType
    <2>2. PICK B \in Batches(ExpiredRows(now)) :
            rows' = [m \in Notifications |->
                       IF m \in B THEN RecoverRow(rows[m], now) ELSE rows[m]]
      BY <1>5 DEF RecoverExpiredLeases
    <2>3. n \in B => rows[n].leaseExpires <= now
      BY DEF Batches, ExpiredRows, Expired
    <2>4. QED
      BY <1>5, <2>1, <2>2, <2>3 DEF RecoverExpiredLeases, Written
  <1>6. QED
    BY <1>1, <1>2, <1>3, <1>4, <1>5
    DEF Next, WorkerStep, vars, PreviewReplay, BeginClaim, NothingToClaim, CheckLimits,
        Preflight, Recheck, Lookup, Send, Acknowledged, Failed, BeginCommit, Abandon, Tick

(* A worker keeps its claim while it holds one; only ClaimNext gives one.    *)
LEMMA WorkerFrame ==
  ASSUME TypeOK, [Next]_vars, NEW w \in Workers, pc'[w] \in Holding
  PROVE  \/ \E n \in Notifications : ClaimNext(w, n)
         \/ pc[w] \in Holding /\ claim'[w] = claim[w] /\ now' >= now
  <1> USE DEF TypeOK, Holding, Early, Asking, GoTo, GoIdle, Decide
  <1>1. ASSUME NEW v \in Workers, NEW n \in Notifications,
               ClaimNext(v, n) \/ ClaimAnswerLost(v, n), ~ ClaimNext(w, n)
        PROVE  pc[w] \in Holding /\ claim'[w] = claim[w] /\ now' >= now
    BY <1>1 DEF ClaimNext, ClaimAnswerLost
  <1>2. ASSUME NEW v \in Workers,
               BeginClaim(v) \/ NothingToClaim(v) \/ CheckLimits(v) \/ Preflight(v)
                 \/ Recheck(v) \/ Send(v) \/ Acknowledged(v) \/ Failed(v)
                 \/ BeginCommit(v) \/ Commit(v) \/ Abandon(v)
        PROVE  pc[w] \in Holding /\ claim'[w] = claim[w] /\ now' >= now
    BY <1>2 DEF BeginClaim, NothingToClaim, CheckLimits, Preflight, Recheck, Lookup, Send,
                Acknowledged, Failed, BeginCommit, Commit, Abandon
  <1>3. ASSUME UNCHANGED <<pc, claim>>, now' >= now
        PROVE  pc[w] \in Holding /\ claim'[w] = claim[w] /\ now' >= now
    BY <1>3
  <1>4. CASE UNCHANGED vars
    BY <1>3, <1>4 DEF vars
  <1>5. CASE Tick
    BY <1>3, <1>5 DEF Tick, workerVars
  <1>6. CASE RecoverExpiredLeases
    BY <1>3, <1>6 DEF RecoverExpiredLeases, workerVars
  <1>7. CASE \E n \in Notifications : Intake(n) \/ PreviewReplay(n)
    BY <1>3, <1>7 DEF Intake, PreviewReplay, workerVars
  <1>8. CASE \E a \in approvals : ExecuteReplay(a[1], a[2])
    BY <1>3, <1>8 DEF ExecuteReplay, workerVars
  <1>9. CASE \E v \in Workers : WorkerStep(v) \/ Abandon(v)
                \/ \E n \in Notifications : ClaimAnswerLost(v, n)
    BY <1>1, <1>2, <1>9 DEF WorkerStep
  <1>10. QED
    BY <1>4, <1>5, <1>6, <1>7, <1>8, <1>9 DEF Next

-----------------------------------------------------------------------------
(* The invariant, conjunct by conjunct *)

(* Leases are named after versions: only a claim makes a row in flight.      *)
LEMMA LeaseStep == TypeOK /\ LeaseInv /\ [Next]_vars => LeaseInv'
  <1> SUFFICES ASSUME TypeOK, LeaseInv, [Next]_vars, NEW n \in Notifications
               PROVE  /\ rows'[n].state = "absent" => rows'[n].version = 0
                      /\ rows'[n].state = "in_flight" =>
                           rows'[n].leaseId = rows'[n].version /\ rows'[n].version # 0
    BY DEF LeaseInv
  <1> USE DEF TypeOK
  <1>1. CASE rows'[n] = rows[n]
    BY <1>1 DEF LeaseInv
  <1>2. ASSUME NEW m \in Notifications, Intake(m), rows'[n] # rows[n]
        PROVE  rows'[n].state = "pending"
    BY <1>2 DEF Intake, IntakeRow, AbsentRow
  <1>3. ASSUME NEW a \in approvals, ExecuteReplay(a[1], a[2]), rows'[n] # rows[n]
        PROVE  rows'[n].state = "pending"
    <2>1. a[1] \in Notifications /\ ReplayRow(rows[a[1]], now).state = "pending"
      BY RowFields, NoClaimType
    <2>2. QED
      BY <1>3, <2>1 DEF ExecuteReplay
  <1>4. ASSUME NEW w \in Workers, NEW m \in Notifications,
               ClaimNext(w, m) \/ ClaimAnswerLost(w, m), rows'[n] # rows[n]
        PROVE  /\ rows'[n].state = "in_flight"
               /\ rows'[n].leaseId = rows'[n].version /\ rows'[n].version # 0
    <2>1. /\ ClaimRow(rows[m], at[w]).state = "in_flight"
          /\ ClaimRow(rows[m], at[w]).version = rows[m].version + 1
          /\ ClaimRow(rows[m], at[w]).leaseId = rows[m].version + 1
          /\ rows[m].version \in Nat
      BY RowFields, NoClaimType DEF Row
    <2>2. QED
      BY <1>4, <2>1 DEF ClaimNext, ClaimAnswerLost
  <1>5. ASSUME NEW w \in Workers, Commit(w), rows'[n] # rows[n]
        PROVE  rows'[n].state \in {"pending", "delivered", "dead"}
    <2>1. /\ claim[w].n \in Notifications
          /\ TransitionRow(rows[claim[w].n], req[w]).state = NewState(req[w].kind)
          /\ req[w].kind \in {"succeed", "retry", "die"}
      BY RowFields DEF Claim, Request
    <2>2. NewState(req[w].kind) \in {"pending", "delivered", "dead"}
      BY <2>1 DEF NewState
    <2>3. QED
      BY <1>5, <2>1, <2>2 DEF Commit
  <1>6. ASSUME RecoverExpiredLeases, rows'[n] # rows[n] PROVE rows'[n].state = "pending"
    <2>1. RecoverRow(rows[n], now).state = "pending"
      BY RowFields, NoClaimType
    <2>2. QED
      BY <1>6, <2>1 DEF RecoverExpiredLeases
  <1>7. QED
    BY <1>1, <1>2, <1>3, <1>4, <1>5, <1>6
    DEF Next, WorkerStep, vars, PreviewReplay, BeginClaim, NothingToClaim, CheckLimits,
        Preflight, Recheck, Lookup, Send, Acknowledged, Failed, BeginCommit, Abandon, Tick

(* Claims agree with their rows until the lease ends.                       *)
LEMMA ClaimStep ==
  TypeOK /\ LeaseInv /\ ClaimInv /\ UniqueInv /\ [Next]_vars => ClaimInv'
  <1> SUFFICES ASSUME TypeOK, LeaseInv, ClaimInv, UniqueInv, [Next]_vars,
                      NEW w \in Workers, pc'[w] \in Holding
               PROVE  ClaimOK(w)'
    BY DEF ClaimInv, ClaimOK
  <1>1. TypeOK'
    BY TypeStep
  <1>2. ASSUME NEW n \in Notifications, ClaimNext(w, n) PROVE ClaimOK(w)'
    <2>1. /\ ClaimRow(rows[n], at[w]).state = "in_flight"
          /\ ClaimRow(rows[n], at[w]).version = rows[n].version + 1
          /\ ClaimRow(rows[n], at[w]).attempts = rows[n].attempts
          /\ ClaimRow(rows[n], at[w]).leaseExpires = at[w] + LeaseTTL
      BY RowFields, NoClaimType DEF TypeOK
    <2>2. rows'[n] = ClaimRow(rows[n], at[w])
      BY <1>2 DEF ClaimNext, TypeOK
    <2>3. /\ claim'[w].n = n
          /\ claim'[w].version = rows[n].version + 1
          /\ claim'[w].attempts = rows[n].attempts
          /\ claim'[w].leaseExpires = at[w] + LeaseTTL
      BY <1>2 DEF ClaimNext, TypeOK
    <2>4. rows[n].version \in Nat
      BY DEF TypeOK, Row
    <2>5. QED
      BY <2>1, <2>2, <2>3, <2>4 DEF ClaimOK, Current
  <1>3. ASSUME pc[w] \in Holding, claim'[w] = claim[w], now' >= now PROVE ClaimOK(w)'
    <2> DEFINE n == claim[w].n
    <2>1. /\ n \in Notifications
          /\ rows[n].version \in Nat /\ rows'[n].version \in Nat
          /\ claim[w].version \in Nat /\ claim[w].leaseExpires \in Nat
          /\ now \in Nat /\ now' \in Nat
      BY <1>1 DEF TypeOK, Claim, Row
    <2>2. ClaimOK(w)
      BY DEF ClaimInv
    <2>3. CASE Untouched(n)
      BY <1>3, <2>1, <2>2, <2>3 DEF Untouched, ClaimOK, Current
    <2>4. CASE Written(n)
      <3>1. Current(w) => claim[w].leaseExpires <= now
        <4>1. CASE rows[n].state # "in_flight"
          BY <1>3, <2>2, <4>1 DEF ClaimOK
        <4>2. ASSUME NEW v \in Workers, Commit(v), claim[v].n = n, Accepts(claim[v], at[v])
              PROVE  ~ Current(w)
          <5>1. v # w
            BY <4>2 DEF Commit, GoIdle, GoTo, TypeOK, Holding, Early, Asking
          <5>2. pc[v] \in Holding /\ claim[v].version = rows[n].version
            BY <4>2 DEF Commit, Holding, Asking, Accepts, DecideTransition, ValidateVersion
          <5>3. QED
            BY <1>3, <4>2, <5>1, <5>2 DEF UniqueInv, Current
        <4>3. CASE rows[n].leaseExpires <= now
          BY <1>3, <2>2, <4>3 DEF ClaimOK
        <4>4. QED
          BY <2>4, <4>1, <4>2, <4>3 DEF Written
      <3>2. QED
        BY <1>3, <2>1, <2>2, <2>4, <3>1 DEF Written, ClaimOK, Current
    <2>5. QED
      BY <2>1, <2>3, <2>4, RowFrame
  <1>4. QED
    BY <1>2, <1>3, WorkerFrame

(* A new claim takes a version that no earlier claim of the row can have.    *)
LEMMA UniqueStep == TypeOK /\ ClaimInv /\ UniqueInv /\ [Next]_vars => UniqueInv'
  <1> SUFFICES ASSUME TypeOK, ClaimInv, UniqueInv, [Next]_vars,
                      NEW v \in Workers, NEW w \in Workers, v # w,
                      pc'[v] \in Holding, pc'[w] \in Holding, claim'[v].n = claim'[w].n
               PROVE  claim'[v].version # claim'[w].version
    BY DEF UniqueInv
  <1>1. ASSUME NEW x \in Workers, NEW y \in Workers, x # y, pc'[x] \in Holding,
               claim'[x].n = claim'[y].n, NEW n \in Notifications, ClaimNext(y, n)
        PROVE  claim'[x].version # claim'[y].version
    <2>1. claim'[y].version = rows[n].version + 1 /\ claim'[y].n = n
      BY <1>1 DEF ClaimNext, TypeOK
    <2>2. pc[x] \in Holding /\ claim'[x] = claim[x]
      BY <1>1 DEF ClaimNext, GoTo, TypeOK
    <2>3. claim[x].version <= rows[n].version
      BY <1>1, <2>1, <2>2 DEF ClaimInv, ClaimOK
    <2>4. claim[x].version \in Nat /\ rows[n].version \in Nat
      BY DEF TypeOK, Claim, Row
    <2>5. QED
      BY <2>1, <2>2, <2>3, <2>4
  <1>2. CASE \E n \in Notifications : ClaimNext(w, n)
    BY <1>1, <1>2
  <1>3. CASE \E n \in Notifications : ClaimNext(v, n)
    BY <1>1, <1>3
  <1>4. CASE pc[v] \in Holding /\ claim'[v] = claim[v] /\ pc[w] \in Holding /\ claim'[w] = claim[w]
    BY <1>4 DEF UniqueInv
  <1>5. QED
    BY <1>2, <1>3, <1>4, WorkerFrame

Same(w) == /\ pc'[w] = pc[w] /\ claim'[w] = claim[w]
           /\ at'[w] = at[w] /\ req'[w] = req[w]

(* A worker's state changes only by its own steps.                          *)
LEMMA OwnFrame ==
  ASSUME TypeOK, [Next]_vars, NEW w \in Workers
  PROVE  \/ WorkerStep(w) \/ Abandon(w)
         \/ \E n \in Notifications : ClaimAnswerLost(w, n)
         \/ Tick /\ Same(w)
         \/ now' = now /\ Same(w)
  <1> USE DEF TypeOK, Same, GoTo, GoIdle, Decide
  <1>1. ASSUME NEW v \in Workers, v # w, NEW n \in Notifications,
               ClaimNext(v, n) \/ ClaimAnswerLost(v, n)
        PROVE  now' = now /\ Same(w)
    BY <1>1 DEF ClaimNext, ClaimAnswerLost
  <1>2. ASSUME NEW v \in Workers, v # w,
               BeginClaim(v) \/ NothingToClaim(v) \/ CheckLimits(v) \/ Preflight(v)
                 \/ Recheck(v) \/ Send(v) \/ Acknowledged(v) \/ Failed(v)
                 \/ BeginCommit(v) \/ Commit(v) \/ Abandon(v)
        PROVE  now' = now /\ Same(w)
    BY <1>2 DEF BeginClaim, NothingToClaim, CheckLimits, Preflight, Recheck, Lookup, Send,
                Acknowledged, Failed, BeginCommit, Commit, Abandon
  <1>3. CASE UNCHANGED vars
    BY <1>3 DEF vars
  <1>4. CASE Tick
    BY <1>4 DEF Tick, workerVars
  <1>5. CASE RecoverExpiredLeases
    BY <1>5 DEF RecoverExpiredLeases, workerVars
  <1>6. CASE \E n \in Notifications : Intake(n) \/ PreviewReplay(n)
    BY <1>6 DEF Intake, PreviewReplay, workerVars
  <1>7. CASE \E a \in approvals : ExecuteReplay(a[1], a[2])
    BY <1>7 DEF ExecuteReplay, workerVars
  <1>8. CASE \E v \in Workers : WorkerStep(v) \/ Abandon(v)
                \/ \E n \in Notifications : ClaimAnswerLost(v, n)
    BY <1>1, <1>2, <1>8 DEF WorkerStep
  <1>9. QED
    BY <1>3, <1>4, <1>5, <1>6, <1>7, <1>8 DEF Next

(* The cutoffs of RunOnce leave the time that each later stage may take.     *)
LEMMA TimeStep == TypeOK /\ TimeInv /\ [Next]_vars => TimeInv'
  <1> SUFFICES ASSUME TypeOK, TimeInv, [Next]_vars, NEW w \in Workers
               PROVE  TimeOK(w)'
    BY DEF TimeInv
  <1>1. /\ now \in Nat /\ at[w] \in Nat /\ claim[w] \in Claim
        /\ claim[w].leaseExpires \in Nat /\ claim[w].cycleStart \in Nat
        /\ pc \in [Workers -> Stages] /\ at \in [Workers -> Nat]
        /\ req \in [Workers -> Request]
    BY DEF TypeOK, Claim
  <1>2. TimeOK(w)
    BY DEF TimeInv
  <1>3. CASE now' = now /\ Same(w)
    BY <1>2, <1>3 DEF Same, TimeOK
  <1>4. CASE Tick /\ Same(w)
    BY <1>1, <1>2, <1>4, BoundsAssumption, ConfigAssumption DEF Same, TimeOK, Tick
  <1>5. ASSUME pc'[w] \notin {"ready", "sending", "commit"} PROVE TimeOK(w)'
    BY <1>5 DEF TimeOK
  <1>6. ASSUME NEW q, q.kind # "succeed", Decide(w, q) PROVE TimeOK(w)'
    BY <1>1, <1>6 DEF Decide, GoTo, TimeOK
  <1>7. CASE Send(w)
    BY <1>1, <1>2, <1>7, BoundsAssumption, ConfigAssumption DEF Send, GoTo, TimeOK
  <1>8. CASE Acknowledged(w)
    BY <1>1, <1>2, <1>8, BoundsAssumption, ConfigAssumption
    DEF Acknowledged, Decide, Succeed, GoTo, TimeOK
  <1>9. ASSUME NEW s, NEW s2 \in {"recheck", "ready"}, Lookup(w, s, s2) PROVE TimeOK(w)'
    <2>1. CASE \E q : q.kind # "succeed" /\ Decide(w, q)
      BY <1>6, <2>1
    <2>2. CASE /\ now < CycleSendCutoff(claim[w]) /\ now < PreflightCutoff(claim[w])
               /\ GoTo(w, s2)
               /\ at' = [at EXCEPT ![w] = IF s2 = "ready" THEN now ELSE 0]
               /\ UNCHANGED <<claim, req>>
      BY <1>1, <1>9, <2>2, BoundsAssumption, ConfigAssumption
      DEF GoTo, TimeOK, CycleSendCutoff, PreflightCutoff, Lookup
    <2>3. PolicyDie.kind # "succeed"
      BY DEF PolicyDie
    <2>4. QED
      BY <1>1, <1>9, <2>1, <2>2, <2>3, RequestTypes DEF Lookup
  <1>10. CASE Failed(w)
    <2>1. PolicyDie.kind # "succeed" /\ ResultDie.kind # "succeed"
      BY DEF PolicyDie, ResultDie
    <2>2. QED
      BY <1>1, <1>6, <1>10, <2>1, RequestTypes DEF Failed
  <1>11. CASE CheckLimits(w)
    <2>1. PolicyDie.kind # "succeed"
      BY DEF PolicyDie
    <2>2. CASE GoTo(w, "preflight")
      BY <1>1, <1>5, <2>2 DEF GoTo
    <2>3. QED
      BY <1>6, <1>11, <2>1, <2>2 DEF CheckLimits
  <1>12. CASE BeginClaim(w) \/ NothingToClaim(w) \/ BeginCommit(w) \/ Commit(w) \/ Abandon(w)
                \/ \E n \in Notifications : ClaimNext(w, n) \/ ClaimAnswerLost(w, n)
    BY <1>1, <1>5, <1>12
    DEF BeginClaim, NothingToClaim, BeginCommit, Commit, Abandon, ClaimNext, ClaimAnswerLost,
        GoIdle, GoTo
  <1>13. QED
    BY <1>3, <1>4, <1>7, <1>8, <1>9, <1>10, <1>11, <1>12, OwnFrame
    DEF WorkerStep, Preflight, Recheck

(* What a step may do to the history of one notification.                   *)
LEMMA HistoryFrame ==
  ASSUME TypeOK, [Next]_vars, NEW n \in Notifications
  PROVE  \/ sends'[n] = sends[n] /\ (n \in acked => n \in acked')
         \/ \E w \in Workers : Send(w) /\ claim[w].n = n /\ sends'[n] = sends[n] + 1
                                 /\ acked' = acked
         \/ \E version : ExecuteReplay(n, version) /\ sends'[n] = 0
  <1> USE DEF TypeOK
  <1>1. ASSUME NEW w \in Workers, Send(w) PROVE
           \/ sends'[n] = sends[n] /\ acked' = acked
           \/ claim[w].n = n /\ sends'[n] = sends[n] + 1 /\ acked' = acked
    BY <1>1 DEF Send
  <1>2. ASSUME NEW a \in approvals, ExecuteReplay(a[1], a[2]) PROVE
           \/ sends'[n] = sends[n] /\ (n \in acked => n \in acked')
           \/ a[1] = n /\ sends'[n] = 0
    BY <1>2 DEF ExecuteReplay
  <1>3. CASE UNCHANGED vars
    BY <1>3 DEF vars
  <1>4. CASE Tick \/ RecoverExpiredLeases \/ \E m \in Notifications : Intake(m) \/ PreviewReplay(m)
    BY <1>4 DEF Tick, RecoverExpiredLeases, Intake, PreviewReplay
  <1>5. CASE \E a \in approvals : ExecuteReplay(a[1], a[2])
    BY <1>2, <1>5
  <1>6. CASE \E w \in Workers : Abandon(w) \/ \E m \in Notifications : ClaimAnswerLost(w, m)
    BY <1>6 DEF Abandon, ClaimAnswerLost
  <1>7. CASE \E w \in Workers : WorkerStep(w)
    BY <1>1, <1>7
    DEF WorkerStep, BeginClaim, ClaimNext, NothingToClaim, CheckLimits, Preflight, Recheck,
        Lookup, Acknowledged, Failed, BeginCommit, Commit
  <1>8. QED
    BY <1>3, <1>4, <1>5, <1>6, <1>7 DEF Next

(* A claim that is still current after a step is current of the same row:    *)
(* every write of the row would have overtaken it.                          *)
LEMMA CurrentFrame ==
  ASSUME TypeOK, LeaseInv, ClaimInv, [Next]_vars, NEW w \in Workers,
         pc[w] \in Holding, claim'[w] = claim[w], Current(w)'
  PROVE  Current(w) /\ Untouched(claim[w].n)
  <1>1. /\ claim[w].n \in Notifications /\ claim[w].version \in Nat
        /\ rows[claim[w].n].version \in Nat
    BY DEF TypeOK, Claim, Row
  <1>2. claim[w].version <= rows[claim[w].n].version
    BY DEF ClaimInv, ClaimOK
  <1>3. ~ Written(claim[w].n)
    BY <1>1, <1>2 DEF Written, Current
  <1>4. QED
    BY <1>1, <1>3, RowFrame DEF Current, Untouched

(* A worker that may still send holds its row.                              *)
LEMMA HoldsRow ==
  ASSUME TypeOK, ClaimInv, TimeInv, NEW w \in Workers, pc[w] \in {"ready", "sending"}
  PROVE  /\ Current(w)
         /\ rows[claim[w].n].state = "in_flight"
         /\ rows[claim[w].n].attempts = claim[w].attempts
  <1>1. now \in Nat /\ at[w] \in Nat /\ claim[w].leaseExpires \in Nat
    BY DEF TypeOK, Claim
  <1>2. TimeOK(w) /\ ClaimOK(w)
    BY DEF TimeInv, ClaimInv
  <1>3. now < claim[w].leaseExpires
    BY <1>1, <1>2, BoundsAssumption, ConfigAssumption DEF TimeOK
  <1>4. QED
    BY <1>2, <1>3 DEF ClaimOK, Holding, Early

(* Two workers cannot both hold the current version of a row.               *)
LEMMA OneHolder ==
  ASSUME UniqueInv, NEW v \in Workers, NEW w \in Workers, v # w,
         pc[v] \in Holding, pc[w] \in Holding, Current(v), Current(w)
  PROVE  claim[v].n # claim[w].n
  BY DEF UniqueInv, Current

(* The attempt count of a row keeps paying for the requests of its cycle:    *)
(* each send is counted by its result or by the recovery of its lease.       *)
LEMMA RowBudgetStep ==
  ASSUME IInv, [Next]_vars, NEW n \in Notifications
  PROVE  RowBudget(n)'
  <1>1. /\ rows[n] \in Row /\ rows[n].attempts \in Nat /\ sends[n] \in Nat
        /\ rows \in [Notifications -> Row]
    BY DEF IInv, TypeOK, Row
  <1>2. RowBudget(n)
    BY DEF IInv, BudgetInv
  <1>3. ASSUME NEW version, ExecuteReplay(n, version), sends'[n] = 0 PROVE RowBudget(n)'
    <2>1. rows'[n].state = "pending" /\ rows'[n].attempts = 0
      BY <1>1, <1>3, RowFields, NoClaimType DEF ExecuteReplay, IInv, TypeOK
    <2>2. QED
      BY <1>3, <2>1, ConfigAssumption DEF RowBudget
  <1>4. ASSUME NEW w \in Workers, Send(w), claim[w].n = n, sends'[n] = sends[n] + 1
        PROVE  RowBudget(n)'
    <2>1. WorkerBudget(w) /\ pc[w] = "ready"
      BY <1>4 DEF Send, IInv, BudgetInv
    <2>2. Current(w) /\ rows[n].state = "in_flight" /\ rows[n].attempts = claim[w].attempts
      BY <1>4, <2>1, HoldsRow DEF IInv
    <2>3. sends[n] <= rows[n].attempts /\ rows[n].attempts < MaxAttempts
      BY <1>4, <2>1, <2>2 DEF WorkerBudget, Early, Checked
    <2>4. rows' = rows
      BY <1>4 DEF Send
    <2>5. QED
      BY <1>1, <1>4, <2>2, <2>3, <2>4, ConfigAssumption DEF RowBudget
  <1>5. ASSUME sends'[n] = sends[n] PROVE RowBudget(n)'
    <2>1. CASE rows'[n] = rows[n]
      BY <1>2, <1>5, <2>1 DEF RowBudget
    <2>2. ASSUME NEW m \in Notifications, Intake(m), rows'[n] # rows[n] PROVE RowBudget(n)'
      <3>1. rows[n].state = "absent" /\ rows'[n] = IntakeRow(now)
        BY <1>1, <2>2 DEF Intake
      <3>2. IntakeRow(now).state = "pending" /\ IntakeRow(now).attempts = 0
        BY DEF IntakeRow, AbsentRow
      <3>3. QED
        BY <1>2, <1>5, <3>1, <3>2 DEF RowBudget
    <2>3. ASSUME NEW w \in Workers, NEW m \in Notifications,
                 ClaimNext(w, m) \/ ClaimAnswerLost(w, m), rows'[n] # rows[n]
          PROVE  RowBudget(n)'
      <3>1. rows'[n] = ClaimRow(rows[n], at[w]) /\ rows[n].state = "pending"
        BY <1>1, <2>3 DEF ClaimNext, ClaimAnswerLost, Claimable, EligibleRows, Eligible
      <3>2. rows'[n].state = "in_flight" /\ rows'[n].attempts = rows[n].attempts
        BY <1>1, <3>1, RowFields, NoClaimType DEF IInv, TypeOK
      <3>3. QED
        BY <1>1, <1>2, <1>5, <3>1, <3>2 DEF RowBudget
    <2>4. ASSUME NEW w \in Workers, Commit(w), rows'[n] # rows[n] PROVE RowBudget(n)'
      <3>1. /\ claim[w].n = n /\ Accepts(claim[w], at[w]) /\ pc[w] \in Asking
            /\ rows'[n] = TransitionRow(rows[n], req[w]) /\ rows[n].state = "in_flight"
        BY <1>1, <2>4 DEF Commit, Asking, Accepts, DecideTransition
      <3>2. /\ rows'[n].state = NewState(req[w].kind)
            /\ rows'[n].attempts = rows[n].attempts + req[w].counted
            /\ req[w].kind \in {"succeed", "retry", "die"} /\ req[w].counted \in {0, 1}
        BY <1>1, <3>1, RowFields DEF IInv, TypeOK, Request
      <3>3. req[w].kind = "retry" => req[w].counted = 1
        BY <3>1 DEF IInv, BudgetInv, WorkerBudget
      <3>4. rows'[n].state = "pending" <=> req[w].kind = "retry"
        BY <3>2 DEF NewState
      <3>5. rows'[n].state \notin {"absent", "in_flight"}
        BY <3>2 DEF NewState
      <3>6. QED
        BY <1>1, <1>2, <1>5, <3>1, <3>2, <3>3, <3>4, <3>5 DEF RowBudget
    <2>5. ASSUME RecoverExpiredLeases, rows'[n] # rows[n] PROVE RowBudget(n)'
      <3>1. rows'[n] = RecoverRow(rows[n], now) /\ rows[n].state = "in_flight"
        <4>1. PICK B \in Batches(ExpiredRows(now)) :
                rows' = [m \in Notifications |->
                           IF m \in B THEN RecoverRow(rows[m], now) ELSE rows[m]]
          BY <2>5 DEF RecoverExpiredLeases
        <4>2. n \in B
          BY <2>5, <4>1
        <4>3. QED
          BY <4>1, <4>2 DEF Batches, ExpiredRows, Expired
      <3>2. rows'[n].state = "pending" /\ rows'[n].attempts = rows[n].attempts + 1
        BY <1>1, <3>1, RowFields, NoClaimType DEF IInv, TypeOK
      <3>3. QED
        BY <1>1, <1>2, <1>5, <3>1, <3>2 DEF RowBudget
    <2>6. ASSUME NEW a \in approvals, ExecuteReplay(a[1], a[2]), rows'[n] # rows[n]
          PROVE  RowBudget(n)'
      <3>1. a[1] = n /\ sends'[n] = 0
        BY <1>1, <2>6 DEF ExecuteReplay, IInv, TypeOK
      <3>2. QED
        BY <1>3, <2>6, <3>1
    <2>7. QED
      BY <2>1, <2>2, <2>3, <2>4, <2>5, <2>6
      DEF Next, WorkerStep, vars, PreviewReplay, BeginClaim, NothingToClaim, CheckLimits,
          Preflight, Recheck, Lookup, Send, Acknowledged, Failed, BeginCommit, Abandon, Tick
  <1>6. QED
    BY <1>3, <1>4, <1>5, HistoryFrame DEF IInv

(* A claim that is still current has every earlier request counted, and      *)
(* only counted results are retried.                                        *)
LEMMA WorkerBudgetStep ==
  ASSUME IInv, [Next]_vars, NEW w \in Workers
  PROVE  WorkerBudget(w)'
  <1>1. /\ TypeOK /\ claim[w].n \in Notifications /\ claim[w] \in Claim
        /\ pc \in [Workers -> Stages] /\ req \in [Workers -> Request]
        /\ claim[w].attempts \in Nat
    BY DEF IInv, TypeOK, Claim
  <1>2. WorkerBudget(w)
    BY DEF IInv, BudgetInv
  <1>3. ASSUME NEW n \in Notifications, ClaimNext(w, n) PROVE WorkerBudget(w)'
    <2>1. /\ claim'[w].n = n /\ claim'[w].attempts = rows[n].attempts
          /\ sends'[n] = sends[n] /\ rows[n].state = "pending" /\ pc'[w] = "claimed"
      BY <1>1, <1>3 DEF ClaimNext, Claimable, EligibleRows, Eligible, GoTo, TypeOK
    <2>2. RowBudget(n)
      BY DEF IInv, BudgetInv
    <2>3. QED
      BY <2>1, <2>2 DEF WorkerBudget, RowBudget, Checked, Asking
  <1>4. ASSUME pc'[w] \in Early, pc[w] \in Early, claim'[w] = claim[w], ~ Send(w), Current(w)'
        PROVE  sends'[claim[w].n] <= claim[w].attempts
    <2>1. Current(w) /\ Untouched(claim[w].n)
      BY <1>4, CurrentFrame DEF IInv, Holding
    <2>2. sends[claim[w].n] <= claim[w].attempts /\ rows[claim[w].n].state = "in_flight"
      BY <1>2, <1>4, <2>1 DEF WorkerBudget, IInv, ClaimInv, ClaimOK, Holding
    <2>3. ~ \E v \in Workers : Send(v) /\ claim[v].n = claim[w].n
      <3> SUFFICES ASSUME NEW v \in Workers, Send(v), claim[v].n = claim[w].n PROVE FALSE
        OBVIOUS
      <3>1. pc[v] = "ready" /\ v # w
        BY <1>4 DEF Send
      <3>2. Current(v)
        BY <3>1, HoldsRow DEF IInv
      <3>3. QED
        BY <1>4, <2>1, <3>1, <3>2, OneHolder DEF IInv, Holding, Early
    <2>4. ~ \E version : ExecuteReplay(claim[w].n, version)
      BY <2>2 DEF ExecuteReplay, DecideReplay
    <2>5. QED
      BY <1>1, <2>2, <2>3, <2>4, HistoryFrame
  <1>5. CASE Same(w) /\ ~ Send(w)
    BY <1>2, <1>4, <1>5 DEF Same, WorkerBudget
  <1>6. ASSUME NEW q, Decide(w, q), q.kind = "retry" => q.counted = 1 PROVE WorkerBudget(w)'
    BY <1>1, <1>6 DEF Decide, GoTo, WorkerBudget, Early, Checked, Asking
  <1>7. CASE Send(w)
    BY <1>1, <1>2, <1>7 DEF Send, GoTo, WorkerBudget, Early, Checked, Asking
  <1>8. CASE Acknowledged(w)
    BY <1>6, <1>8 DEF Acknowledged, Succeed
  <1>9. ASSUME NEW s \in {"preflight", "recheck"}, NEW s2 \in {"recheck", "ready"},
               Lookup(w, s, s2)
        PROVE  WorkerBudget(w)'
    <2>1. CASE \E q : Decide(w, q) /\ (q.kind = "retry" => q.counted = 1)
      BY <1>6, <2>1
    <2>2. CASE GoTo(w, s2) /\ UNCHANGED <<claim, req>>
      <3>1. /\ pc[w] \in Early \cap Checked /\ pc'[w] \in Early \cap Checked
            /\ claim'[w] = claim[w] /\ ~ Send(w) /\ pc'[w] \notin Asking
        BY <1>1, <1>9, <2>2 DEF Lookup, GoTo, Send, Early, Checked, Asking
      <3>2. QED
        BY <1>2, <1>4, <3>1 DEF WorkerBudget
    <2>3. PolicyDie.kind # "retry"
      BY DEF PolicyDie
    <2>4. QED
      BY <1>1, <1>9, <2>1, <2>2, <2>3, RequestTypes DEF Lookup, TypeOK
  <1>10. CASE Failed(w)
    <2>1. PolicyDie.kind # "retry" /\ ResultDie.kind # "retry"
      BY DEF PolicyDie, ResultDie
    <2>2. QED
      BY <1>1, <1>6, <1>10, <2>1, RequestTypes DEF Failed, TypeOK
  <1>11. CASE CheckLimits(w)
    <2>1. CASE Decide(w, PolicyDie)
      BY <1>6, <2>1 DEF PolicyDie
    <2>2. CASE GoTo(w, "preflight") /\ UNCHANGED <<claim, at, req>>
                /\ ~(claim[w].attempts >= MaxAttempts)
      <3>1. /\ pc[w] \in Early /\ pc'[w] = "preflight" /\ claim'[w] = claim[w] /\ ~ Send(w)
        BY <1>1, <1>11, <2>2 DEF CheckLimits, GoTo, Send, Early
      <3>2. QED
        BY <1>1, <1>4, <2>2, <3>1, ConfigAssumption DEF WorkerBudget, Early, Asking
    <2>3. QED
      BY <1>11, <2>1, <2>2 DEF CheckLimits
  <1>12. CASE BeginCommit(w)
    BY <1>1, <1>2, <1>12 DEF BeginCommit, GoTo, WorkerBudget, Early, Checked, Asking
  <1>13. CASE BeginClaim(w) \/ NothingToClaim(w) \/ Commit(w) \/ Abandon(w)
                \/ \E n \in Notifications : ClaimAnswerLost(w, n)
    <2>1. pc'[w] \in {"idle", "claiming"}
      BY <1>1, <1>13
      DEF BeginClaim, NothingToClaim, Commit, Abandon, ClaimAnswerLost, GoIdle, GoTo
    <2>2. QED
      BY <2>1 DEF WorkerBudget, Early, Checked, Asking
  <1>14. QED
    BY <1>1, <1>3, <1>5, <1>7, <1>8, <1>9, <1>10, <1>11, <1>12, <1>13, OwnFrame
    DEF WorkerStep, Preflight, Recheck

(* A worker that asks to succeed saw the acknowledgement of the cycle its    *)
(* row is still in; only an accepted request makes a row delivered.         *)
LEMMA AckStep == IInv /\ [Next]_vars => AckInv'
  <1> SUFFICES ASSUME IInv, [Next]_vars PROVE AckInv'
    OBVIOUS
  <1> USE DEF Asking
  <1>1. /\ TypeOK /\ TypeOK' /\ rows \in [Notifications -> Row]
        /\ pc \in [Workers -> Stages] /\ req \in [Workers -> Request]
    BY TypeStep DEF IInv, TypeOK
  <1>2. ASSUME NEW n \in Notifications, rows'[n].state = "delivered" PROVE n \in acked'
    <2>1. CASE Untouched(n)
      <3>1. rows[n].state = "delivered" /\ n \in acked
        BY <1>2, <2>1 DEF Untouched, IInv, AckInv, DeliveredWasAcked
      <3>2. ~ \E version : ExecuteReplay(n, version)
        BY <3>1 DEF ExecuteReplay, DecideReplay
      <3>3. QED
        BY <1>1, <3>1, <3>2, HistoryFrame
    <2>2. ASSUME NEW w \in Workers, Commit(w), rows'[n] # rows[n] PROVE n \in acked'
      <3>1. /\ claim[w].n = n /\ pc[w] = "committing" /\ Current(w)
            /\ rows'[n] = TransitionRow(rows[n], req[w]) /\ acked' = acked
        BY <1>1, <2>2 DEF Commit, Accepts, DecideTransition, ValidateVersion, Current
      <3>2. rows'[n].state = NewState(req[w].kind) /\ req[w].kind \in {"succeed", "retry", "die"}
        BY <1>1, <3>1, RowFields, NoClaimType DEF TypeOK, Request
      <3>3. req[w].kind = "succeed"
        BY <1>2, <3>2 DEF NewState
      <3>4. QED
        BY <3>1, <3>3 DEF IInv, AckInv, AckOK
    <2>3. ASSUME NEW w \in Workers, NEW m \in Notifications,
                 ClaimNext(w, m) \/ ClaimAnswerLost(w, m), rows'[n] # rows[n] PROVE FALSE
      <3>1. rows'[n] = ClaimRow(rows[n], at[w])
        BY <1>1, <2>3 DEF ClaimNext, ClaimAnswerLost
      <3>2. ClaimRow(rows[n], at[w]).state = "in_flight"
        BY <1>1, RowFields, NoClaimType DEF TypeOK
      <3>3. QED
        BY <1>2, <3>1, <3>2
    <2>4. ASSUME NEW m \in Notifications, Intake(m), rows'[n] # rows[n] PROVE FALSE
      <3>1. rows'[n] = IntakeRow(now) /\ IntakeRow(now).state = "pending"
        BY <1>1, <2>4 DEF Intake, IntakeRow, AbsentRow
      <3>2. QED
        BY <1>2, <3>1
    <2>5. ASSUME NEW a \in approvals, ExecuteReplay(a[1], a[2]), rows'[n] # rows[n] PROVE FALSE
      <3>1. rows'[n] = ReplayRow(rows[n], now)
        BY <1>1, <2>5 DEF ExecuteReplay
      <3>2. ReplayRow(rows[n], now).state = "pending"
        BY <1>1, RowFields, NoClaimType DEF TypeOK
      <3>3. QED
        BY <1>2, <3>1, <3>2
    <2>6. ASSUME RecoverExpiredLeases, rows'[n] # rows[n] PROVE FALSE
      <3>1. rows'[n] = RecoverRow(rows[n], now)
        BY <2>6 DEF RecoverExpiredLeases
      <3>2. RecoverRow(rows[n], now).state = "pending"
        BY <1>1, RowFields, NoClaimType DEF TypeOK
      <3>3. QED
        BY <1>2, <3>1, <3>2
    <2>7. QED
      BY <2>1, <2>2, <2>3, <2>4, <2>5, <2>6
      DEF Untouched, Next, WorkerStep, vars, PreviewReplay, BeginClaim, NothingToClaim,
          CheckLimits, Preflight, Recheck, Lookup, Send, Acknowledged, Failed, BeginCommit,
          Abandon, Tick
  <1>3. ASSUME NEW w \in Workers, pc'[w] \in Asking, req'[w].kind = "succeed", Current(w)'
        PROVE  claim'[w].n \in acked'
    <2>1. ASSUME pc[w] \in Asking, req[w] = req'[w], claim'[w] = claim[w]
          PROVE  claim'[w].n \in acked'
      <3>1. Current(w) /\ claim[w].n \in Notifications
        BY <1>1, <1>3, <2>1, CurrentFrame DEF IInv, Holding, TypeOK, Claim
      <3>2. claim[w].n \in acked /\ rows[claim[w].n].state = "in_flight"
        BY <1>3, <2>1, <3>1 DEF IInv, AckInv, AckOK, ClaimInv, ClaimOK, Holding
      <3>3. ~ \E version : ExecuteReplay(claim[w].n, version)
        BY <3>2 DEF ExecuteReplay, DecideReplay
      <3>4. QED
        BY <1>1, <2>1, <3>1, <3>2, <3>3, HistoryFrame
    <2>2. CASE Same(w)
      BY <1>3, <2>1, <2>2 DEF Same
    <2>3. CASE BeginCommit(w)
      BY <1>1, <2>1, <2>3 DEF BeginCommit
    <2>4. CASE Acknowledged(w)
      BY <2>4 DEF Acknowledged, Decide
    <2>5. ASSUME NEW q, q.kind # "succeed", Decide(w, q) PROVE FALSE
      BY <1>1, <1>3, <2>5 DEF Decide
    <2>6. ASSUME NEW s \in {"preflight", "recheck"}, NEW s2 \in {"recheck", "ready"},
                 Lookup(w, s, s2)
          PROVE  FALSE
      <3>1. ~ GoTo(w, s2)
        BY <1>1, <1>3 DEF GoTo
      <3>2. PolicyDie.kind # "succeed" /\ claim[w] \in Claim
        BY <1>1 DEF PolicyDie, TypeOK
      <3>3. QED
        BY <1>1, <2>5, <2>6, <3>1, <3>2, RequestTypes DEF Lookup, TypeOK
    <2>7. CASE Failed(w)
      <3>1. PolicyDie.kind # "succeed" /\ ResultDie.kind # "succeed" /\ claim[w] \in Claim
        BY <1>1 DEF PolicyDie, ResultDie, TypeOK
      <3>2. QED
        BY <1>1, <2>5, <2>7, <3>1, RequestTypes DEF Failed, TypeOK
    <2>8. CASE CheckLimits(w)
      <3>1. PolicyDie.kind # "succeed" /\ ~ GoTo(w, "preflight")
        BY <1>1, <1>3 DEF PolicyDie, GoTo
      <3>2. QED
        BY <2>5, <2>8, <3>1 DEF CheckLimits
    <2>9. CASE BeginClaim(w) \/ NothingToClaim(w) \/ Send(w) \/ Commit(w) \/ Abandon(w)
                 \/ \E n \in Notifications : ClaimNext(w, n) \/ ClaimAnswerLost(w, n)
      <3>1. pc'[w] \in {"idle", "claiming", "claimed", "sending"}
        BY <1>1, <2>9
        DEF BeginClaim, NothingToClaim, Send, Commit, Abandon, ClaimNext, ClaimAnswerLost,
            GoIdle, GoTo
      <3>2. QED
        BY <1>3, <3>1
    <2>10. QED
      BY <1>1, <2>2, <2>3, <2>4, <2>6, <2>7, <2>8, <2>9, OwnFrame
      DEF WorkerStep, Preflight, Recheck
  <1>4. QED
    BY <1>2, <1>3 DEF AckInv, DeliveredWasAcked, AckOK

-----------------------------------------------------------------------------
(* The theorems *)

(* The initial state of the service satisfies the inductive invariant.      *)
LEMMA IInit == Init => IInv
  <1> SUFFICES ASSUME Init PROVE IInv
    OBVIOUS
  <1>1. TypeOK
    BY TypeInit
  <1>2. /\ \A n \in Notifications : /\ rows[n].state = "absent" /\ rows[n].version = 0
                                    /\ rows[n].attempts = 0 /\ sends[n] = 0
        /\ \A w \in Workers : pc[w] = "idle"
    BY DEF Init, AbsentRow
  <1>3. LeaseInv /\ ClaimInv /\ UniqueInv
    BY <1>2 DEF LeaseInv, ClaimInv, ClaimOK, UniqueInv, Holding, Early, Asking
  <1>4. TimeInv /\ BudgetInv
    BY <1>2, ConfigAssumption
    DEF TimeInv, TimeOK, BudgetInv, RowBudget, WorkerBudget, Early, Checked, Asking
  <1>5. AckInv
    BY <1>2 DEF AckInv, DeliveredWasAcked, AckOK, Asking
  <1>6. QED
    BY <1>1, <1>3, <1>4, <1>5 DEF IInv

(* IInv is inductive: no step of callers, workers, recovery, operators or    *)
(* the clock leaves it.                                                     *)
THEOREM Inductive == Spec => []IInv
  <1>1. IInv /\ [Next]_vars => IInv'
    <2> SUFFICES ASSUME IInv, [Next]_vars PROVE IInv'
      OBVIOUS
    <2>1. TypeOK' /\ LeaseInv' /\ ClaimInv' /\ UniqueInv' /\ TimeInv'
      BY TypeStep, LeaseStep, ClaimStep, UniqueStep, TimeStep DEF IInv
    <2>2. BudgetInv'
      BY RowBudgetStep, WorkerBudgetStep DEF BudgetInv
    <2>3. AckInv'
      BY AckStep
    <2>4. QED
      BY <2>1, <2>2, <2>3 DEF IInv
  <1>2. QED
    BY <1>1, IInit, PTL DEF Spec

(* RunOnce never has two HTTP exchanges of one notification under way, for   *)
(* any number of workers and whatever leases expire: its cutoffs end every   *)
(* exchange while its worker still holds the current version of the row.     *)
THEOREM NoOverlap == Spec => []NoOverlappingSends
  <1>1. IInv => NoOverlappingSends
    <2> SUFFICES ASSUME IInv, NEW v \in Workers, NEW w \in Workers, v # w,
                        pc[v] = "sending", pc[w] = "sending"
                 PROVE  claim[v].n # claim[w].n
      BY DEF NoOverlappingSends
    <2>1. Current(v) /\ Current(w)
      BY HoldsRow DEF IInv
    <2>2. QED
      BY <2>1, OneHolder DEF IInv, Holding
  <1>2. QED
    BY <1>1, Inductive, PTL

(* A delivery cycle sends at most MaxAttempts requests: results and lease    *)
(* recoveries count every one before the row can be claimed again.          *)
THEOREM Budget == Spec => []SendBudget
  <1>1. IInv => SendBudget
    BY DEF IInv, BudgetInv, RowBudget, SendBudget
  <1>2. QED
    BY <1>1, Inductive, PTL

(* Every exchange ends inside its delivery cycle: CycleSendCutoff reserves   *)
(* the exchange and the pause before it.                                    *)
THEOREM InsideCycle == Spec => []SendsInsideCycle
  <1>1. IInv => SendsInsideCycle
    <2> SUFFICES ASSUME IInv, NEW w \in Workers, pc[w] = "sending"
                 PROVE  now < claim[w].cycleStart + MaxAge
      BY DEF SendsInsideCycle
    <2>1. now \in Nat /\ at[w] \in Nat /\ claim[w].cycleStart \in Nat
      BY DEF IInv, TypeOK, Claim
    <2>2. TimeOK(w)
      BY DEF IInv, TimeInv
    <2>3. QED
      BY <2>1, <2>2, BoundsAssumption, ConfigAssumption DEF TimeOK
  <1>2. QED
    BY <1>1, Inductive, PTL

(* Transition accepts an acknowledgement that is committed within what is    *)
(* left of the result commit margin.                                        *)
THEOREM AckAccepted == Spec => []AckWithinMarginAccepted
  <1>1. IInv => AckWithinMarginAccepted
    <2> SUFFICES ASSUME IInv, NEW w \in Workers, pc[w] = "commit",
                        req[w].kind = "succeed",
                        now - at[w] <= ResultCommitMargin - SendDelay
                 PROVE  Accepts(claim[w], now)
      BY DEF AckWithinMarginAccepted
    <2> DEFINE n == claim[w].n
    <2>1. /\ now \in Nat /\ at[w] \in Nat /\ claim[w].leaseExpires \in Nat
          /\ n \in Notifications
      BY DEF IInv, TypeOK, Claim
    <2>2. TimeOK(w) /\ ClaimOK(w)
      BY DEF IInv, TimeInv, ClaimInv
    <2>3. now < claim[w].leaseExpires
      BY <2>1, <2>2, BoundsAssumption, ConfigAssumption DEF TimeOK
    <2>4. /\ rows[n].version = claim[w].version
          /\ rows[n].state = "in_flight" /\ rows[n].leaseExpires = claim[w].leaseExpires
      BY <2>2, <2>3 DEF ClaimOK, Current, Holding, Asking
    <2>5. rows[n].leaseId = rows[n].version /\ rows[n].version # 0
      BY <2>1, <2>4 DEF IInv, LeaseInv
    <2>6. QED
      BY <2>1, <2>3, <2>4, <2>5
      DEF Accepts, DecideTransition, ValidateVersion, ValidateLease, NoLease
  <1>2. QED
    BY <1>1, Inductive, PTL

(* A row is delivered only after an acknowledgement of its own cycle, late   *)
(* results of earlier cycles included.                                      *)
THEOREM DeliveredAcked == Spec => []DeliveredWasAcked
  <1>1. IInv => DeliveredWasAcked
    BY DEF IInv, AckInv
  <1>2. QED
    BY <1>1, Inductive, PTL

-----------------------------------------------------------------------------
(* The outbox *)

(* What the outbox shows of the rows.                                       *)
Status == [n \in Notifications |-> OutboxStatus(rows[n])]

(* The step changes nothing that the outbox shows.                          *)
Hidden == Status' = Status /\ Posting' = Posting /\ sends' = sends /\ acked' = acked

(* The outbox may stutter.                                                  *)
LEMMA HiddenStep == Hidden => [Abstract!Next]_(Abstract!outboxVars)
  BY DEF Hidden, Status, Abstract!outboxVars

(* A request is under way exactly for the rows of the workers that send.     *)
LEMMA PostingSame ==
  ASSUME \A v \in Workers : \/ pc'[v] = pc[v] /\ claim'[v] = claim[v]
                            \/ pc[v] # "sending" /\ pc'[v] # "sending"
  PROVE  Posting' = Posting
  BY DEF Posting

(* The step of a worker leaves the others alone.                            *)
LEMMA OthersSame ==
  ASSUME TypeOK, NEW w \in Workers, NEW n \in Notifications,
         WorkerStep(w) \/ Abandon(w) \/ ClaimAnswerLost(w, n)
  PROVE  \A v \in Workers \ {w} : pc'[v] = pc[v] /\ claim'[v] = claim[v]
  BY DEF TypeOK, GoTo, GoIdle, Decide, WorkerStep, Abandon, ClaimNext, ClaimAnswerLost,
         BeginClaim, NothingToClaim, CheckLimits, Preflight, Recheck, Lookup, Send,
         Acknowledged, Failed, BeginCommit, Commit

(* A status changes only where a row does.                                  *)
LEMMA StatusSame ==
  ASSUME \A n \in Notifications : \/ rows'[n] = rows[n]
                                  \/ /\ rows[n].state \in {"pending", "in_flight"}
                                     /\ rows'[n].state \in {"pending", "in_flight"}
  PROVE  Status' = Status
  <1>1. \A n \in Notifications : OutboxStatus(rows'[n]) = OutboxStatus(rows[n])
    BY DEF OutboxStatus
  <1>2. QED
    BY <1>1 DEF Status

(* ... and there to what the new row shows.                                 *)
LEMMA StatusAt ==
  ASSUME TypeOK, NEW n \in Notifications, NEW s, OutboxStatus(rows'[n]) = s,
         \A m \in Notifications \ {n} : rows'[m] = rows[m]
  PROVE  Status' = [Status EXCEPT ![n] = s]
  <1>1. \A m \in Notifications \ {n} : OutboxStatus(rows'[m]) = OutboxStatus(rows[m])
    OBVIOUS
  <1>2. QED
    BY <1>1 DEF Status

(* A worker that sends holds its row, alone.                                *)
LEMMA SenderHolds ==
  ASSUME IInv, NEW w \in Workers, pc[w] \in {"ready", "sending"}
  PROVE  /\ Current(w) /\ rows[claim[w].n].state = "in_flight"
         /\ \A v \in Workers : pc[v] = "sending" /\ claim[v].n = claim[w].n => v = w
  <1>1. \A v \in Workers : pc[v] \in {"ready", "sending"} => Current(v) /\ pc[v] \in Holding
    BY HoldsRow DEF IInv, Holding, Early
  <1>2. rows[claim[w].n].state = "in_flight"
    BY <1>1 DEF IInv, ClaimInv, ClaimOK
  <1>3. ASSUME NEW v \in Workers, pc[v] = "sending", claim[v].n = claim[w].n PROVE v = w
    BY <1>1, <1>3, OneHolder DEF IInv
  <1>4. QED
    BY <1>1, <1>2, <1>3

(* No request is under way for a row that is not in flight.                 *)
LEMMA PostingOpen ==
  ASSUME IInv, NEW n \in Posting PROVE rows[n].state = "in_flight"
  BY SenderHolds DEF Posting

(* A request ends: Answer.                                                  *)
LEMMA AnswerStep ==
  ASSUME IInv, NEW w \in Workers, pc[w] = "sending", pc'[w] # "sending",
         \A v \in Workers \ {w} : pc'[v] = pc[v] /\ claim'[v] = claim[v],
         rows' = rows, sends' = sends, acked' \in {acked, acked \cup {claim[w].n}}
  PROVE  Abstract!Next
  <1>1. PICK n \in Notifications : n = claim[w].n
    BY DEF IInv, TypeOK, Claim
  <1>2. n \in Posting /\ Posting' = Posting \ {n}
    BY <1>1, SenderHolds DEF Posting
  <1>3. Status' = Status
    BY StatusSame
  <1>4. Abstract!Answer(n)
    BY <1>1, <1>2, <1>3 DEF Abstract!Answer, Status
  <1>5. QED
    BY <1>4 DEF Abstract!Next

(* Every step of the service is a step of the outbox or changes nothing it   *)
(* shows.                                                                   *)
LEMMA OutboxStep ==
  ASSUME IInv, [Next]_vars
  PROVE  [Abstract!Next]_(Abstract!outboxVars)
  <1> USE DEF GoTo
  <1>0. TypeOK
    BY DEF IInv
  <1>1. ASSUME UNCHANGED <<rows, pc, claim, sends, acked>> PROVE Hidden
    BY <1>1, StatusSame, PostingSame DEF Hidden
  <1>2. ASSUME NEW n \in Notifications, Intake(n) PROVE Abstract!Next
    <2>1. /\ rows[n].state = "absent" /\ rows'[n].state = "pending"
          /\ \A m \in Notifications \ {n} : rows'[m] = rows[m]
      BY <1>0, <1>2 DEF Intake, IntakeRow, AbsentRow, TypeOK
    <2>2. Status' = [Status EXCEPT ![n] = "open"]
      <3>1. OutboxStatus(rows'[n]) = "open"
        BY <2>1 DEF OutboxStatus
      <3>2. QED
        BY <1>0, <2>1, <3>1, StatusAt
    <2>3. Status[n] = "absent"
      BY <2>1 DEF Status, OutboxStatus
    <2>4. Posting' = Posting
      BY <1>2, PostingSame DEF Intake, workerVars
    <2>5. Abstract!Accept(n)
      BY <1>2, <2>2, <2>3, <2>4 DEF Abstract!Accept, Status, Intake
    <2>6. QED
      BY <2>5 DEF Abstract!Next
  <1>3. ASSUME NEW n \in Notifications, PreviewReplay(n) PROVE Hidden
    BY <1>1, <1>3 DEF PreviewReplay, workerVars
  <1>4. ASSUME NEW n \in Notifications, NEW v, ExecuteReplay(n, v) PROVE Abstract!Next
    <2>1. /\ rows[n].state = "dead" /\ rows'[n] = ReplayRow(rows[n], now)
          /\ \A m \in Notifications \ {n} : rows'[m] = rows[m]
      BY <1>0, <1>4 DEF ExecuteReplay, DecideReplay, TypeOK
    <2>2. rows'[n].state = "pending"
      <3>1. rows[n] \in Row /\ now \in Nat
        BY <1>0 DEF TypeOK
      <3>2. QED
        BY <2>1, <3>1 DEF ReplayRow, Row
    <2>3. Status' = [Status EXCEPT ![n] = "open"]
      <3>1. OutboxStatus(rows'[n]) = "open"
        BY <2>2 DEF OutboxStatus
      <3>2. QED
        BY <1>0, <2>1, <3>1, StatusAt
    <2>4. Status[n] = "dead"
      BY <2>1 DEF Status, OutboxStatus
    <2>5. Posting' = Posting /\ n \notin Posting
      BY <1>4, <2>1, PostingSame, PostingOpen DEF ExecuteReplay, workerVars
    <2>6. Abstract!Reopen(n)
      BY <1>4, <2>3, <2>4, <2>5 DEF Abstract!Reopen, Status, ExecuteReplay
    <2>7. QED
      BY <2>6 DEF Abstract!Next
  <1>5. ASSUME NEW w \in Workers, NEW n \in Notifications, ClaimNext(w, n) \/ ClaimAnswerLost(w, n)
        PROVE  Hidden
    <2>1. /\ rows[n].state = "pending" /\ rows'[n] = ClaimRow(rows[n], at[w])
          /\ \A m \in Notifications \ {n} : rows'[m] = rows[m]
          /\ pc[w] = "claiming" /\ pc'[w] \in {"claimed", "idle"} /\ sends' = sends /\ acked' = acked
      BY <1>0, <1>5 DEF ClaimNext, ClaimAnswerLost, Claimable, EligibleRows, Eligible, TypeOK, GoIdle
    <2>2. rows'[n].state = "in_flight"
      BY <1>0, <2>1, RowFields, NoClaimType DEF TypeOK
    <2>3. \A v \in Workers \ {w} : pc'[v] = pc[v] /\ claim'[v] = claim[v]
      BY <1>0, <1>5, OthersSame DEF WorkerStep
    <2>4. Posting' = Posting
      BY <2>1, <2>3, PostingSame
    <2>5. Status' = Status
      BY <2>1, <2>2, StatusSame
    <2>6. QED
      BY <2>1, <2>4, <2>5 DEF Hidden
  <1>6. ASSUME NEW w \in Workers,
               BeginClaim(w) \/ NothingToClaim(w) \/ CheckLimits(w) \/ Preflight(w) \/ Recheck(w)
                 \/ BeginCommit(w)
        PROVE  Hidden
    <2>1. pc[w] # "sending" /\ pc'[w] # "sending" /\ rows' = rows /\ sends' = sends /\ acked' = acked
      BY <1>0, <1>6 DEF BeginClaim, NothingToClaim, CheckLimits, Preflight, Recheck, Lookup, BeginCommit,
                  GoIdle, Decide, TypeOK
    <2>2. \A v \in Workers \ {w} : pc'[v] = pc[v] /\ claim'[v] = claim[v]
      BY <1>0, <1>6, NoClaimType, OthersSame DEF WorkerStep, NoClaim, Claim
    <2>3. Posting' = Posting
      BY <2>1, <2>2, PostingSame
    <2>4. QED
      BY <2>1, <2>3, StatusSame DEF Hidden
  <1>7. ASSUME NEW w \in Workers, Send(w) PROVE Abstract!Next
    <2>1. PICK n \in Notifications : n = claim[w].n
      BY <1>0 DEF TypeOK, Claim
    <2>2. /\ pc[w] = "ready" /\ pc'[w] = "sending" /\ claim' = claim /\ rows' = rows /\ acked' = acked
          /\ sends' = [sends EXCEPT ![n] = @ + 1]
          /\ \A v \in Workers \ {w} : pc'[v] = pc[v]
      BY <1>0, <1>7, <2>1 DEF Send, TypeOK
    <2>3. /\ Current(w) /\ rows[n].state = "in_flight" /\ n \notin Posting
      BY <2>1, <2>2, SenderHolds DEF Posting
    <2>4. sends[n] < MaxAttempts
      <3>1. WorkerBudget(w) /\ sends[n] \in Nat /\ claim[w].attempts \in Nat
        BY <1>0 DEF IInv, BudgetInv, TypeOK, Claim
      <3>2. QED
        BY <2>1, <2>2, <2>3, <3>1, ConfigAssumption DEF WorkerBudget, Checked, Early
    <2>5. Posting' = Posting \cup {n}
      BY <2>1, <2>2 DEF Posting
    <2>6. Status' = Status /\ Status[n] = "open"
      BY <2>2, <2>3, StatusSame DEF Status, OutboxStatus
    <2>7. Abstract!Post(n)
      BY <2>2, <2>3, <2>4, <2>5, <2>6 DEF Abstract!Post, Status
    <2>8. QED
      BY <2>7 DEF Abstract!Next
  <1>8. ASSUME NEW w \in Workers, Acknowledged(w) \/ Failed(w) PROVE Abstract!Next
    <2>1. /\ pc[w] = "sending" /\ pc'[w] # "sending" /\ rows' = rows /\ sends' = sends
          /\ acked' \in {acked, acked \cup {claim[w].n}}
      BY <1>0, <1>8 DEF Acknowledged, Failed, Decide, TypeOK
    <2>2. \A v \in Workers \ {w} : pc'[v] = pc[v] /\ claim'[v] = claim[v]
      BY <1>0, <1>8 DEF Acknowledged, Failed, Decide, TypeOK
    <2>3. QED
      BY <2>1, <2>2, AnswerStep
  <1>9. ASSUME NEW w \in Workers, Abandon(w) PROVE Hidden \/ Abstract!Next
    <2>1. /\ pc'[w] = "idle" /\ rows' = rows /\ sends' = sends /\ acked' = acked
          /\ \A v \in Workers \ {w} : pc'[v] = pc[v] /\ claim'[v] = claim[v]
      BY <1>0, <1>9 DEF Abandon, GoIdle, TypeOK
    <2>2. CASE pc[w] = "sending"
      BY <2>1, <2>2, AnswerStep
    <2>3. CASE pc[w] # "sending"
      BY <2>1, <2>3, StatusSame, PostingSame DEF Hidden
    <2>4. QED
      BY <2>2, <2>3
  <1>10. ASSUME NEW w \in Workers, Commit(w) PROVE Hidden \/ Abstract!Next
    <2>1. PICK n \in Notifications : n = claim[w].n
      BY <1>0 DEF TypeOK, Claim
    <2>2. /\ pc[w] = "committing" /\ pc'[w] = "idle" /\ sends' = sends /\ acked' = acked
          /\ \A v \in Workers \ {w} : pc'[v] = pc[v] /\ claim'[v] = claim[v]
      BY <1>0, <1>10 DEF Commit, GoIdle, TypeOK
    <2>3. Posting' = Posting
      BY <2>2, PostingSame
    <2>4. CASE ~Accepts(claim[w], at[w])
      BY <1>10, <2>2, <2>3, <2>4, StatusSame DEF Commit, Hidden
    <2>5. CASE Accepts(claim[w], at[w])
      <3>1. /\ rows'[n] = TransitionRow(rows[n], req[w]) /\ rows[n].state = "in_flight" /\ Current(w)
            /\ \A m \in Notifications \ {n} : rows'[m] = rows[m]
        BY <1>0, <1>10, <2>1, <2>5
        DEF Commit, TypeOK, Accepts, DecideTransition, ValidateVersion, Current
      <3>2. rows'[n].state = NewState(req[w].kind) /\ req[w].kind \in {"succeed", "retry", "die"}
        BY <1>0, <3>1, RowFields DEF TypeOK, Request
      <3>3. n \notin Posting
        <4>1. ASSUME NEW v \in Workers, pc[v] = "sending", claim[v].n = n PROVE FALSE
          <5>1. v # w /\ Current(v)
            BY <2>2, <4>1, SenderHolds
          <5>2. QED
            BY <2>1, <2>2, <3>1, <4>1, <5>1, OneHolder DEF IInv, Holding, Asking
        <4>2. QED
          BY <4>1 DEF Posting
      <3>4. Status[n] = "open"
        BY <3>1 DEF Status, OutboxStatus
      <3>5. CASE req[w].kind = "retry"
        <4>1. rows'[n].state = "pending"
          BY <3>2, <3>5 DEF NewState
        <4>2. Status' = Status
          BY <3>1, <4>1, StatusSame
        <4>3. QED
          BY <2>2, <2>3, <4>2 DEF Hidden
      <3>6. CASE req[w].kind = "succeed"
        <4>1. OutboxStatus(rows'[n]) = "delivered"
          BY <3>2, <3>6 DEF NewState, OutboxStatus
        <4>2. Status' = [Status EXCEPT ![n] = "delivered"]
          BY <1>0, <3>1, <4>1, StatusAt
        <4>3. n \in acked
          BY <2>1, <2>2, <3>1, <3>6 DEF IInv, AckInv, AckOK, Asking
        <4>4. Abstract!Settle(n)
          BY <2>2, <2>3, <3>3, <3>4, <4>2, <4>3 DEF Abstract!Settle, Status
        <4>5. QED
          BY <4>4 DEF Abstract!Next
      <3>7. CASE req[w].kind = "die"
        <4>1. OutboxStatus(rows'[n]) = "dead"
          BY <3>2, <3>7 DEF NewState, OutboxStatus
        <4>2. Status' = [Status EXCEPT ![n] = "dead"]
          BY <1>0, <3>1, <4>1, StatusAt
        <4>3. Abstract!Settle(n)
          BY <2>2, <2>3, <3>3, <3>4, <4>2 DEF Abstract!Settle, Status
        <4>4. QED
          BY <4>3 DEF Abstract!Next
      <3>8. QED
        BY <3>2, <3>5, <3>6, <3>7
    <2>6. QED
      BY <2>4, <2>5
  <1>11. ASSUME RecoverExpiredLeases PROVE Hidden
    <2>1. PICK B \in Batches(ExpiredRows(now)) :
            rows' = [m \in Notifications |->
                       IF m \in B THEN RecoverRow(rows[m], now) ELSE rows[m]]
      BY <1>11 DEF RecoverExpiredLeases
    <2>2. ASSUME NEW n \in Notifications, n \in B
          PROVE  rows[n].state = "in_flight" /\ rows'[n].state = "pending"
      <3>1. rows[n].state = "in_flight"
        BY <2>2 DEF Batches, ExpiredRows, Expired
      <3>2. RecoverRow(rows[n], now).state = "pending"
        BY <1>0, RowFields, NoClaimType DEF TypeOK
      <3>3. QED
        BY <2>1, <2>2, <3>1, <3>2
    <2>3. \A n \in Notifications \ B : rows'[n] = rows[n]
      BY <2>1
    <2>4. Status' = Status
      BY <2>2, <2>3, StatusSame
    <2>5. QED
      BY <1>11, <2>4, PostingSame DEF RecoverExpiredLeases, workerVars, Hidden
  <1>12. ASSUME Tick \/ UNCHANGED vars PROVE Hidden
    BY <1>1, <1>12 DEF Tick, vars, workerVars
  <1>13. ASSUME NEW w \in Workers, WorkerStep(w) PROVE Hidden \/ Abstract!Next
    BY <1>5, <1>6, <1>7, <1>8, <1>10, <1>13 DEF WorkerStep
  <1>14. ASSUME NEW a \in approvals, ExecuteReplay(a[1], a[2]) PROVE Abstract!Next
    BY <1>0, <1>4, <1>14 DEF TypeOK
  <1>15. Hidden \/ Abstract!Next
    BY <1>2, <1>3, <1>5, <1>9, <1>11, <1>12, <1>13, <1>14 DEF Next
  <1>16. QED
    BY <1>15, HiddenStep

(* The delivery service implements the outbox: for any notifications,        *)
(* workers, crashes and recoveries, at most one request of a notification is *)
(* under way, a cycle posts at most MaxAttempts, a notification is settled   *)
(* once per cycle, with no request under way, and delivered only when it was *)
(* acknowledged.                                                            *)
THEOREM OutboxImplemented == Spec => ImplementsOutbox
  <1>1. Init => Abstract!Init
    <2> SUFFICES ASSUME Init PROVE Abstract!Init
      OBVIOUS
    <2>1. \A n \in Notifications : OutboxStatus(rows[n]) = "absent"
      BY DEF Init, AbsentRow, OutboxStatus
    <2>2. Posting = {}
      BY DEF Init, Posting
    <2>3. QED
      BY <2>1, <2>2 DEF Init, Abstract!Init
  <1>2. IInv /\ [Next]_vars => [Abstract!Next]_(Abstract!outboxVars)
    BY OutboxStep
  <1>3. QED
    BY <1>1, <1>2, Inductive, PTL DEF Spec, ImplementsOutbox, Abstract!Spec

-----------------------------------------------------------------------------
(* Replays *)

(* The approvals of a row that its version has overtaken.                   *)
UsedUp(n) == {a \in approvals : a[1] = n /\ a[2] < rows[n].version}

(* A replay overtakes the approval it names, so that no approval serves     *)
(* twice.                                                                   *)
ReplayInv ==
    /\ IsFiniteSet(approvals)
    /\ \A n \in Notifications : rows[n].replays <= Cardinality(UsedUp(n))

(* What store operations do to the replay count.                            *)
LEMMA ReplayFields ==
  ASSUME NEW r \in Row, NEW t \in Nat, NEW q \in Request
  PROVE  /\ IntakeRow(t).replays = 0
         /\ ClaimRow(r, t).replays = r.replays
         /\ TransitionRow(r, q).replays = r.replays
         /\ ReplayRow(r, t).replays = r.replays + 1
         /\ RecoverRow(r, t).replays = r.replays
  <1>1. IntakeRow(t).replays = 0
    BY DEF IntakeRow, AbsentRow
  <1>2. ClaimRow(r, t).replays = r.replays
    BY DEF ClaimRow, Row
  <1>3. TransitionRow(r, q).replays = r.replays
    BY DEF TransitionRow, Row
  <1>4. ReplayRow(r, t).replays = r.replays + 1
    BY DEF ReplayRow, Row
  <1>5. RecoverRow(r, t).replays = r.replays
    BY DEF RecoverRow, Row
  <1>6. QED
    BY <1>1, <1>2, <1>3, <1>4, <1>5

(* A row's replay count grows only by the execution of an approval of its    *)
(* version.                                                                 *)
LEMMA ReplayFrame ==
  ASSUME TypeOK, [Next]_vars, NEW n \in Notifications
  PROVE  \/ rows'[n].replays = rows[n].replays \/ rows'[n].replays = 0
         \/ /\ <<n, rows[n].version>> \in approvals /\ approvals' = approvals
            /\ rows'[n].replays = rows[n].replays + 1 /\ rows'[n].version = rows[n].version + 1
  <1> USE DEF TypeOK
  <1>1. ASSUME NEW m \in Notifications, Intake(m)
        PROVE  rows'[n].replays = rows[n].replays \/ rows'[n].replays = 0
    BY <1>1 DEF Intake, IntakeRow, AbsentRow
  <1>2. ASSUME NEW m \in Notifications, NEW v, ExecuteReplay(m, v)
        PROVE  \/ rows'[n].replays = rows[n].replays
               \/ /\ <<n, rows[n].version>> \in approvals /\ approvals' = approvals
                  /\ rows'[n].replays = rows[n].replays + 1 /\ rows'[n].version = rows[n].version + 1
    <2>1. /\ rows' = [rows EXCEPT ![m] = ReplayRow(rows[m], now)] /\ approvals' = approvals
          /\ <<m, v>> \in approvals /\ rows[m].version = v
      BY <1>2 DEF ExecuteReplay, DecideReplay, ValidateVersion
    <2>2. /\ ReplayRow(rows[m], now).replays = rows[m].replays + 1
          /\ ReplayRow(rows[m], now).version = rows[m].version + 1
      BY ReplayFields, RowFields, NoClaimType
    <2>3. CASE n = m
      BY <2>1, <2>2, <2>3
    <2>4. CASE n # m
      BY <2>1, <2>4
    <2>5. QED
      BY <2>3, <2>4
  <1>3. ASSUME NEW w \in Workers, NEW m \in Notifications,
               ClaimNext(w, m) \/ ClaimAnswerLost(w, m)
        PROVE  rows'[n].replays = rows[n].replays
    <2>1. ClaimRow(rows[m], at[w]).replays = rows[m].replays
      BY ReplayFields, NoClaimType
    <2>2. QED
      BY <1>3, <2>1 DEF ClaimNext, ClaimAnswerLost
  <1>4. ASSUME NEW w \in Workers, Commit(w) PROVE rows'[n].replays = rows[n].replays
    <2>1. claim[w].n \in Notifications
          /\ TransitionRow(rows[claim[w].n], req[w]).replays = rows[claim[w].n].replays
      BY ReplayFields DEF Claim
    <2>2. QED
      BY <1>4, <2>1 DEF Commit
  <1>5. ASSUME RecoverExpiredLeases PROVE rows'[n].replays = rows[n].replays
    <2>1. RecoverRow(rows[n], now).replays = rows[n].replays
      BY ReplayFields, NoClaimType
    <2>2. QED
      BY <1>5, <2>1 DEF RecoverExpiredLeases
  <1>6. ASSUME NEW a \in approvals, ExecuteReplay(a[1], a[2])
        PROVE  \/ rows'[n].replays = rows[n].replays
               \/ /\ <<n, rows[n].version>> \in approvals /\ approvals' = approvals
                  /\ rows'[n].replays = rows[n].replays + 1 /\ rows'[n].version = rows[n].version + 1
    <2>1. a[1] \in Notifications
      OBVIOUS
    <2>2. QED
      BY <1>2, <1>6, <2>1
  <1>7. QED
    BY <1>1, <1>3, <1>4, <1>5, <1>6
    DEF Next, WorkerStep, vars, PreviewReplay, BeginClaim, NothingToClaim, CheckLimits,
        Preflight, Recheck, Lookup, Send, Acknowledged, Failed, BeginCommit, Abandon, Tick

(* Approvals are only added, one at a time.                                 *)
LEMMA ApprovalFrame ==
  ASSUME TypeOK, [Next]_vars
  PROVE  approvals' = approvals \/ \E a : approvals' = approvals \cup {a}
  BY DEF Next, WorkerStep, vars, Intake, PreviewReplay, ExecuteReplay, RecoverExpiredLeases,
         BeginClaim, ClaimNext, ClaimAnswerLost, NothingToClaim, CheckLimits, Preflight, Recheck,
         Lookup, Send, Acknowledged, Failed, BeginCommit, Commit, Abandon, Tick

(* A replay needs an approval that no earlier one has used.                 *)
LEMMA ReplayStep == IInv /\ ReplayInv /\ [Next]_vars => ReplayInv'
  <1> SUFFICES ASSUME IInv, ReplayInv, [Next]_vars PROVE ReplayInv'
    OBVIOUS
  <1>1. TypeOK /\ TypeOK' /\ LeaseInv
    BY TypeStep DEF IInv
  <1>2. IsFiniteSet(approvals') /\ approvals \subseteq approvals'
    BY <1>1, ApprovalFrame, FS_AddElement DEF ReplayInv
  <1>3. ASSUME NEW n \in Notifications PROVE rows'[n].replays <= Cardinality(UsedUp(n)')
    <2> DEFINE U == UsedUp(n)
               V == {a \in approvals' : a[1] = n /\ a[2] < rows'[n].version}
    <2>0. UsedUp(n)' = V
      BY DEF UsedUp
    <2>1. /\ rows[n].version \in Nat /\ rows'[n].version \in Nat /\ rows[n].replays \in Nat
          /\ rows'[n].replays \in Nat /\ rows[n].replays <= Cardinality(U)
      BY <1>1 DEF TypeOK, Row, ReplayInv
    <2>2. rows'[n].version = rows[n].version \/ rows'[n].version = rows[n].version + 1
      BY <1>1, RowFrame DEF Untouched, Written
    <2>3. \A a \in approvals : a[2] \in Nat
      BY <1>1 DEF TypeOK
    <2>4. U \subseteq V
      BY <1>2, <2>1, <2>2, <2>3 DEF UsedUp
    <2>5. IsFiniteSet(V) /\ IsFiniteSet(U)
      <3>1. V \subseteq approvals' /\ U \subseteq approvals'
        BY <1>2 DEF UsedUp
      <3>2. QED
        BY <1>2, <3>1, FS_Subset
    <2>6. Cardinality(U) <= Cardinality(V) /\ Cardinality(U) \in Nat /\ Cardinality(V) \in Nat
      BY <2>4, <2>5, FS_Subset, FS_CardinalityType
    <2>7. CASE rows'[n].replays = rows[n].replays \/ rows'[n].replays = 0
      <3> HIDE DEF U, V
      <3>1. QED
        BY <2>0, <2>1, <2>6, <2>7
    <2>8. CASE /\ <<n, rows[n].version>> \in approvals /\ approvals' = approvals
               /\ rows'[n].replays = rows[n].replays + 1 /\ rows'[n].version = rows[n].version + 1
      <3> DEFINE a == <<n, rows[n].version>>
      <3>1. a \in V /\ a \notin U
        BY <2>1, <2>8 DEF UsedUp
      <3>2. U \cup {a} \subseteq V
        BY <2>4, <3>1
      <3> HIDE DEF U, V, a
      <3>3. Cardinality(U \cup {a}) = Cardinality(U) + 1 /\ IsFiniteSet(U \cup {a})
        BY <2>5, <3>1, FS_AddElement
      <3>4. Cardinality(U \cup {a}) <= Cardinality(V)
        BY <2>5, <3>2, FS_Subset
      <3>5. QED
        BY <2>0, <2>1, <2>6, <2>8, <3>3, <3>4
    <2>9. QED
      BY <1>1, <2>7, <2>8, ReplayFrame
  <1>4. QED
    BY <1>2, <1>3 DEF ReplayInv

(* One preview of a dead notification authorises at most one replay, however *)
(* late or often its execution is requested.                                *)
THEOREM ReplayApproved == Spec => []OneReplayPerApproval
  <1>1. Init => ReplayInv
    <2> SUFFICES ASSUME Init PROVE ReplayInv
      OBVIOUS
    <2>1. approvals = {} /\ \A n \in Notifications : rows[n].replays = 0 /\ UsedUp(n) = {}
      BY DEF Init, AbsentRow, UsedUp
    <2>2. QED
      BY <2>1, FS_EmptySet DEF ReplayInv
  <1>2. IInv /\ ReplayInv => OneReplayPerApproval
    <2> SUFFICES ASSUME IInv, ReplayInv, NEW n \in Notifications
                 PROVE  rows[n].replays <= Cardinality({a \in approvals : a[1] = n})
      BY DEF OneReplayPerApproval
    <2> DEFINE V == {a \in approvals : a[1] = n}
    <2>1. UsedUp(n) \subseteq V /\ V \subseteq approvals /\ IsFiniteSet(approvals)
      BY DEF UsedUp, ReplayInv
    <2>2. IsFiniteSet(V)
      BY <2>1, FS_Subset
    <2>3. /\ Cardinality(UsedUp(n)) <= Cardinality(V)
          /\ Cardinality(UsedUp(n)) \in Nat /\ Cardinality(V) \in Nat
      BY <2>1, <2>2, FS_Subset, FS_CardinalityType
    <2>4. rows[n].replays <= Cardinality(UsedUp(n)) /\ rows[n].replays \in Nat
      BY DEF ReplayInv, IInv, TypeOK, Row
    <2> HIDE DEF V
    <2>5. rows[n].replays <= Cardinality(V)
      BY <2>3, <2>4
    <2>6. QED
      BY <2>5 DEF V
  <1>3. QED
    BY <1>1, <1>2, ReplayStep, Inductive, PTL DEF Spec
=============================================================================
