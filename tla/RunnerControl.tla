--------------------------- MODULE RunnerControl ---------------------------
(***************************************************************************)
(* The workflow runner of services/workflow-control: one job, the attempts *)
(* made at it, the scheduler that claims it and the session that drives    *)
(* each worker process over protocol v2 (runnerscheduler/, and             *)
(* runnerstore/postgres/ for the transactions).  An attempt is named by    *)
(* its fencing token.  Every store call is one transaction under the job's *)
(* advisory lock, hence one action; what a session does between two calls  *)
(* is its program counter.  The worker is whatever sends frames, stages    *)
(* authority bindings, acknowledges or dies: all its choices are free.     *)
(***************************************************************************)
EXTENDS Naturals, FiniteSets

CONSTANTS
    MaxAttempts,         \* bound on the attempts, so on the fencing token
    MaxProcesses,        \* worker loops of the scheduler
    MaxDispatchFailures  \* failures before execution after which dispatch is dead

ASSUME RunnerAssumption ==
    /\ MaxAttempts \in Nat \ {0}
    /\ MaxProcesses \in Nat \ {0}
    /\ MaxDispatchFailures \in Nat \ {0}

VARIABLES
    job,       \* workflow_runner_jobs row
    att,       \* attempt, lease, cancel control and binding rows, by fencing token
    sess,      \* the session goroutine of each attempt
    sched,     \* the scheduler process
    expired,   \* the attempts whose lease_expires_at has passed
    deadline,  \* the job's whole_deadline has passed
    scanned    \* the expired leases that the recovery loop has read and not yet taken up

vars == <<job, att, sess, sched, expired, deadline, scanned>>

Fence == 1..MaxAttempts

Recon == "reconciliation_required"

JobActive == {"offered", "running", "cancelling"}
Settled == {"terminal", Recon}
LeaseLive == {"offered", "active", "cancelling"}
BindingOpen == {"staged", "resolved", "committed"}

\* The worker events a session records: the lifecycle ones, and the ones that
\* consume an authority binding (a checkpoint, an effect intent, its outcome).
BoundKinds == {"checkpoint", "intent", "outcome"}
Kinds == {"accept", "reject", "heartbeat", "cancel_ack", "terminal"} \cup BoundKinds

JobRec == [state : {"queued"} \cup JobActive \cup Settled, fence : 0..MaxAttempts,
           fails : 0..MaxDispatchFailures, dispatch : {"ready", "backoff", "dead"}]

AttRec == [state : {"none", "rejected", "crashed", "expired"} \cup JobActive \cup Settled,
           lease : {"none", "released", "expired"} \cup LeaseLive,
           started : BOOLEAN,        \* execution_started
           effects : 0..1,           \* open_effect_count
           cancel : {"none", "pending", "stacked", "sent", "acked"},
           binding : {"none", "latched"} \cup BindingOpen,
           op : {"none"} \cup BoundKinds,   \* the operation that binding is for
           unsure : BOOLEAN]         \* a control whose delivery is not proved

SessRec == [pc : {"none", "launch", "hello", "due", "wire", "open", "rejected", "killing", "done"},
            out : {"none", "offer", "cancel", "receipt", "decision"},
            event : {"none"} \cup Kinds,      \* the event whose receipt is being sent
            recon : BOOLEAN,          \* recording it left the job for reconciliation
            cancelSent : BOOLEAN, terminalReceived : BOOLEAN]

NoAttempt == [state |-> "none", lease |-> "none", started |-> FALSE, effects |-> 0,
              cancel |-> "none", binding |-> "none", op |-> "none", unsure |-> FALSE]

NoSession == [pc |-> "none", out |-> "none", event |-> "none", recon |-> FALSE,
              cancelSent |-> FALSE, terminalReceived |-> FALSE]

TypeOK ==
    /\ job \in JobRec
    /\ att \in [Fence -> AttRec]
    /\ sess \in [Fence -> SessRec]
    /\ sched \in {"up", "stopping", "down", "starting"}
    /\ expired \subseteq Fence
    /\ deadline \in BOOLEAN
    /\ scanned \subseteq Fence

Init ==
    /\ job = [state |-> "queued", fence |-> 0, fails |-> 0, dispatch |-> "ready"]
    /\ att = [f \in Fence |-> NoAttempt]
    /\ sess = [f \in Fence |-> NoSession]
    /\ sched = "up"
    /\ expired = {}
    /\ deadline = FALSE
    /\ scanned = {}

Current(f) == f = job.fence

\* The attempt with its binding in state st; a binding that is complete or left
\* for reconciliation has no further event.
Bound(a, st) == [a EXCEPT !.binding = st, !.op = IF st \in BindingOpen THEN @ ELSE "none"]

Latched(a) == IF a.binding \in BindingOpen THEN Bound(a, "latched") ELSE a

Running(f) == sess[f].pc \notin {"none", "done"}

Go(f, pc) == sess' = [sess EXCEPT ![f].pc = pc]

\* Past its loop a session only waits for the process to end, and then returns.
Killing == [NoSession EXCEPT !.pc = "killing"]
Ended == [NoSession EXCEPT !.pc = "done"]

Kill(f) == sess' = [sess EXCEPT ![f] = Killing]
Return(f) == sess' = [sess EXCEPT ![f] = Ended]

\* The session hands a control to send and waits for the outcome there.
SendNext(f, out) == sess' = [sess EXCEPT ![f].pc = "due", ![f].out = out]

\* A failure the worker loop cannot attribute to the job ends the scheduler.
Fatal == sched' = IF sched = "up" THEN "stopping" ELSE sched

----------------------------------------------------------------------------
(* Claiming and launching *)

\* ClaimNext: the next fencing token, with a fresh attempt and lease.
Claim ==
    /\ sched = "up"
    /\ Cardinality({f \in Fence : Running(f)}) < MaxProcesses
    /\ job.state = "queued" /\ job.dispatch = "ready" /\ ~deadline
    /\ job.fence < MaxAttempts
    /\ LET f == job.fence + 1
       IN /\ job' = [job EXCEPT !.state = "offered", !.fence = f]
          /\ att' = [att EXCEPT ![f] = [NoAttempt EXCEPT !.state = "offered", !.lease = "offered"]]
          /\ Go(f, "launch")
    /\ UNCHANGED <<sched, expired, deadline, scanned>>

\* dispatch_not_before is reached.
BackoffElapses ==
    /\ job.dispatch = "backoff"
    /\ job' = [job EXCEPT !.dispatch = "ready"]
    /\ UNCHANGED <<att, sess, sched, expired, deadline, scanned>>

\* As Launch, with a failed start passed over like a settled session error.
LaunchForgiving(f) ==
    /\ sess[f].pc = "launch"
    /\ Go(f, "hello") \/ Return(f)
    /\ UNCHANGED <<job, att, sched, expired, deadline, scanned>>

\* Start succeeds, or fails: the v2 session then returns a plain error, which the
\* worker loop takes as fatal, and nothing is recorded about the attempt.
Launch(f) ==
    /\ sess[f].pc = "launch"
    /\ \/ Go(f, "hello") /\ UNCHANGED sched
       \/ Return(f) /\ Fatal
    /\ UNCHANGED <<job, att, expired, deadline, scanned>>

\* RecordV2Negotiation, then the hello acknowledgement and the lease offer leave.
Hello(f) ==
    /\ sess[f].pc = "hello" /\ sched = "up"
    /\ Current(f) /\ att[f].state = "offered"
    /\ SendNext(f, "offer")
    /\ UNCHANGED <<job, att, sched, expired, deadline, scanned>>

----------------------------------------------------------------------------
(* Delivery of one control, and its acknowledgement *)

\* MarkV2ControlDeliveryStarted: from here the delivery is uncertain until it
\* is proved.  The receipt of a terminal event is the one control that is
\* never held against the attempt.
StartDelivery(f) ==
    /\ sess[f].pc = "due"
    /\ Go(f, "wire")
    /\ att' = [att EXCEPT ![f].unsure = @ \/ sess[f].event # "terminal" \/ sess[f].out # "receipt"]
    /\ UNCHANGED <<job, sched, expired, deadline, scanned>>

\* It cannot start because the scheduler is stopping.
DeliveryRefused(f) ==
    /\ sess[f].pc = "due" /\ sched = "stopping"
    /\ Kill(f)
    /\ UNCHANGED <<job, att, sched, expired, deadline, scanned>>

\* What the acknowledgement of the control in flight does to the binding it
\* belongs to (acknowledgeV2ControlOnce).  A cancellation that meets a binding
\* the runner has committed leaves it for reconciliation; the last control of
\* the operation completes it, except a receipt while a cancellation waits.
CompletesBinding(a, out) ==
    \/ out = "decision"
    \/ out = "receipt" /\ a.op # "intent" /\ a.cancel \notin {"pending", "stacked"}

AckedBinding(a, out) ==
    CASE a.binding = "committed" /\ out = "cancel" -> "latched"
      [] a.binding = "committed" /\ CompletesBinding(a, out) -> "none"
      [] OTHER -> a.binding

\* Where the session goes once its control has been delivered: on to the next
\* control of the same event, back to its select loop, or out.
AfterDelivery(f) ==
    LET s == sess[f]
        idle == [s EXCEPT !.pc = "open", !.out = "none", !.event = "none", !.recon = FALSE]
    IN CASE s.out = "offer" -> idle
         [] s.out = "cancel" ->
               IF att[f].binding = "committed" THEN Killing
               ELSE IF s.event = "none" THEN [idle EXCEPT !.cancelSent = TRUE]
               ELSE [s EXCEPT !.pc = "due", !.out = "receipt", !.cancelSent = TRUE]
         [] s.out = "receipt" /\ s.event = "intent" -> [s EXCEPT !.pc = "due", !.out = "decision"]
         [] s.out = "receipt" /\ s.event = "reject" -> [NoSession EXCEPT !.pc = "rejected"]
         [] s.out = "receipt" /\ s.event \notin {"intent", "reject"} /\ s.recon -> Killing
         [] OTHER -> [idle EXCEPT !.terminalReceived = @ \/ s.event = "terminal"]

\* MarkV2ControlDelivered, and the companion acknowledgement when the control
\* belongs to a binding.
Delivered(f) ==
    /\ sess[f].pc = "wire"
    /\ sess' = [sess EXCEPT ![f] = AfterDelivery(f)]
    /\ LET a == Bound(att[f], AckedBinding(att[f], sess[f].out))
       IN att' = [att EXCEPT ![f] = [a EXCEPT !.unsure = FALSE,
                    !.cancel = IF sess[f].out = "cancel" /\ @ = "pending" THEN "sent" ELSE @]]
    /\ UNCHANGED <<job, sched, expired, deadline, scanned>>

\* The frame is not written, not marked, or its acknowledgement does not come in
\* time: MarkV2ControlDeliveryReconciliation keeps the delivery uncertain.
DeliveryFails(f) ==
    /\ sess[f].pc = "wire"
    /\ Kill(f)
    /\ UNCHANGED <<job, att, sched, expired, deadline, scanned>>

----------------------------------------------------------------------------
(* Worker events *)

\* The transaction of a worker event commits job j and attempt a; its receipt,
\* and a cancellation that owns an earlier control sequence, are then sent.
\* When two cancellations are waiting the first blocks every later control.
Record(f, kind, j, a) ==
    /\ sess[f].pc = "open" /\ sched = "up" /\ Current(f)
    /\ job' = j
    /\ att' = [att EXCEPT ![f] = a]
    /\ IF a.cancel = "stacked" THEN Kill(f)
       ELSE sess' = [sess EXCEPT ![f].pc = "due", ![f].event = kind, ![f].recon = (j.state = Recon),
                        ![f].out = IF kind \notin BoundKinds /\ a.cancel = "pending" THEN "cancel" ELSE "receipt"]
    /\ UNCHANGED <<sched, expired, deadline, scanned>>

\* lease_accept: from here on the workflow may have run.
Accept(f) ==
    /\ att[f].state = "offered" /\ att[f].lease = "offered"
    /\ Record(f, "accept", [job EXCEPT !.state = "running"],
              [att[f] EXCEPT !.state = "running", !.lease = "active", !.started = TRUE])

\* lease_reject: back to the queue, or to reconciliation at the ceiling.  The v2
\* transaction does not record a dispatch failure.
Reject(f) ==
    LET exhausted == job.fails + 1 >= MaxDispatchFailures
    IN /\ att[f].state = "offered"
       /\ Record(f, "reject", [job EXCEPT !.state = IF exhausted THEN Recon ELSE "queued"],
                 [att[f] EXCEPT !.state = IF exhausted THEN Recon ELSE "rejected", !.lease = "released"])

Heartbeat(f) ==
    /\ att[f].state \in {"running", "cancelling"}
    /\ Record(f, "heartbeat", job, att[f])

\* runtimeBindingConsumptionDrift finds nothing: the attempt is plainly running.
Consumable(f) ==
    /\ Current(f) /\ job.state = "running" /\ att[f].state = "running" /\ att[f].lease = "active"
    /\ att[f].cancel \notin {"pending", "stacked", "sent"}

\* An event that consumes the resolved binding of its operation.  An outcome may
\* say that the effect's own outcome is unknown.
Consume(f) ==
    LET a == [att[f] EXCEPT !.binding = "committed"]
    IN /\ att[f].binding = "resolved" /\ Consumable(f)
       /\ \/ a.op = "checkpoint" /\ Record(f, "checkpoint", job, a)
          \/ a.op = "intent" /\ a.effects = 0 /\ Record(f, "intent", job, [a EXCEPT !.effects = 1])
          \/ a.op = "outcome" /\ a.effects = 1 /\ Record(f, "outcome", job, [a EXCEPT !.effects = 0])
          \/ a.op = "outcome" /\ a.effects = 1
             /\ Record(f, "outcome", [job EXCEPT !.state = Recon],
                       [a EXCEPT !.effects = 0, !.state = Recon, !.lease = "released"])

\* The binding is resolved but the attempt is no longer plainly running: the
\* event is refused and the binding left for reconciliation.
ConsumeDrifted(f) ==
    /\ sess[f].pc = "open" /\ sched = "up" /\ att[f].binding = "resolved"
    /\ ~Consumable(f)
    /\ att' = [att EXCEPT ![f] = Latched(@)]
    /\ Kill(f)
    /\ UNCHANGED <<job, sched, expired, deadline, scanned>>

\* The drift is read before the transaction of the event.  A cancellation that
\* commits in between makes it refuse a checkpoint or an intent, but an outcome is
\* recorded all the same; its receipt may not overtake the cancellation, and the
\* process is terminated.
OutcomeRaced(f) ==
    /\ sess[f].pc = "open" /\ sched = "up"
    /\ att[f].binding = "resolved" /\ Consumable(f)
    /\ att[f].op = "outcome" /\ att[f].effects = 1
    /\ \/ /\ job' = [job EXCEPT !.state = "cancelling"]
          /\ att' = [att EXCEPT ![f].state = "cancelling", ![f].lease = "cancelling", ![f].cancel = "pending",
                                ![f].effects = 0, ![f].binding = "committed"]
       \/ /\ job' = [job EXCEPT !.state = Recon]
          /\ att' = [att EXCEPT ![f].state = Recon, ![f].lease = "released", ![f].cancel = "pending",
                                ![f].effects = 0, ![f].binding = "committed"]
    /\ Kill(f)
    /\ UNCHANGED <<sched, expired, deadline, scanned>>

CancelAck(f) ==
    /\ sess[f].cancelSent /\ att[f].cancel \in {"sent", "stacked"}
    /\ job.state \in Settled \/ (job.state = "cancelling" /\ att[f].state = "cancelling")
    /\ Record(f, "cancel_ack", job,
              [att[f] EXCEPT !.cancel = IF @ = "sent" THEN "acked" ELSE @,
                             !.lease = IF job.state \in Settled THEN @ ELSE "cancelling"])

\* As Terminal, without the check for an open effect.
TerminalOverEffect(f) ==
    /\ job.state \in {"running", "cancelling"} /\ att[f].state \in {"running", "cancelling"}
    /\ \E end \in Settled :
          Record(f, "terminal", [job EXCEPT !.state = end],
                 [att[f] EXCEPT !.state = end, !.lease = "released"])

\* terminal: the worker reports its end, or that it cannot tell.
Terminal(f) ==
    /\ job.state \in {"running", "cancelling"} /\ att[f].state \in {"running", "cancelling"}
    /\ att[f].effects = 0
    /\ \E end \in Settled :
          Record(f, "terminal", [job EXCEPT !.state = end],
                 [att[f] EXCEPT !.state = end, !.lease = "released"])

\* A hello that does not come in time or does not match, a malformed, repeated or
\* refused frame, the end of stdout, a failed read: the process is terminated.
Refused(f) ==
    /\ sess[f].pc \in {"hello", "open"}
    /\ Kill(f)
    /\ UNCHANGED <<job, att, sched, expired, deadline, scanned>>

----------------------------------------------------------------------------
(* Authority bindings, staged and resolved by the worker over HTTP *)

BindingCurrent(f) ==
    Current(f) /\ att[f].state \in {"offered", "running"} /\ att[f].lease \in {"offered", "active"}

Stage(f, op) ==
    /\ sess[f].pc \in {"due", "wire", "open"}
    /\ BindingCurrent(f) /\ f \notin expired
    /\ att[f].binding = "none"
    /\ att' = [att EXCEPT ![f].binding = "staged", ![f].op = op]
    /\ UNCHANGED <<job, sess, sched, expired, deadline, scanned>>

\* The authority's outcome is recorded; it is left for reconciliation when the
\* lease has moved on since the stage.
Resolve(f) ==
    /\ att[f].binding = "staged"
    /\ att' = [att EXCEPT ![f] = Bound(@, IF BindingCurrent(f) THEN "resolved" ELSE "latched")]
    /\ UNCHANGED <<job, sess, sched, expired, deadline, scanned>>

----------------------------------------------------------------------------
(* Cancellation *)

\* RequestCancel is refused while the decision of an authorized effect is still
\* to be delivered.
Cancellable(f) ==
    /\ Current(f) /\ job.state \in JobActive
    /\ ~(att[f].binding = "committed" /\ att[f].op = "intent")

\* The attempt with one more cancellation control.
WithCancel(f) ==
    [att EXCEPT ![f].state = "cancelling", ![f].lease = "cancelling",
                ![f].cancel = IF @ = "none" THEN "pending" ELSE "stacked"]

\* An operator cancels the job.
RequestCancel ==
    /\ job.fence \in Fence /\ Cancellable(job.fence)
    /\ att' = WithCancel(job.fence)
    /\ job' = [job EXCEPT !.state = "cancelling"]
    /\ UNCHANGED <<sess, sched, expired, deadline, scanned>>

\* The session's poll sends the newest waiting cancellation; the older one of
\* two makes that send fail.
PollCancel(f) ==
    /\ sess[f].pc = "open" /\ sched = "up"
    /\ ~sess[f].cancelSent /\ ~sess[f].terminalReceived
    /\ \/ att[f].cancel = "pending" /\ SendNext(f, "cancel")
       \/ att[f].cancel = "stacked" /\ Kill(f)
    /\ UNCHANGED <<job, att, sched, expired, deadline, scanned>>

\* createAndSendV2Cancel: the session cancels its own attempt.  When the request
\* is refused, or another cancellation already waits, the process is terminated.
CancelOwn(f) ==
    /\ sess[f].pc = "open" /\ ~sess[f].cancelSent /\ ~sess[f].terminalReceived
    /\ IF Cancellable(f)
       THEN /\ att' = WithCancel(f)
            /\ job' = [job EXCEPT !.state = "cancelling"]
            /\ IF att[f].cancel = "none" THEN SendNext(f, "cancel") ELSE Kill(f)
       ELSE Kill(f) /\ UNCHANGED <<job, att>>
    /\ UNCHANGED <<sched, expired, deadline, scanned>>

\* The lease timer and the deadline timer, which ends every lease.
LeaseTimer(f) == sched = "up" /\ f \in expired /\ CancelOwn(f)

\* The context ends: one "shutdown" cancellation, then the process is terminated.
Shutdown(f) ==
    /\ sched = "stopping"
    /\ \/ CancelOwn(f)
       \/ /\ sess[f].pc \in {"hello", "open"}
          /\ sess[f].pc = "open" => sess[f].cancelSent \/ sess[f].terminalReceived
          /\ Kill(f)
          /\ UNCHANGED <<job, att, sched, expired, deadline, scanned>>

\* The cancellation grace and the terminal grace.
GraceEnds(f) ==
    /\ sess[f].pc = "open" /\ (sess[f].cancelSent \/ sess[f].terminalReceived)
    /\ Kill(f)
    /\ UNCHANGED <<job, att, sched, expired, deadline, scanned>>

----------------------------------------------------------------------------
(* The end of a process *)

Outstanding(a) == a.binding \in BindingOpen \cup {"latched"} \/ a.unsure

\* The attempt closed in state s, its open bindings left for reconciliation.
Closed(a, s) ==
    [Latched(a) EXCEPT !.state = s, !.lease = "released"]

\* applyDispatchFailure.
DispatchFailure(j) ==
    [j EXCEPT !.fails = IF @ < MaxDispatchFailures THEN @ + 1 ELSE @,
              !.dispatch = IF j.fails + 1 >= MaxDispatchFailures THEN "dead" ELSE "backoff"]

\* RecordProcessExit keeps a settled job as it is, unless an authority or a
\* control delivery of a terminal one is still unaccounted for.
ExitIgnored(f) == job.state = Recon \/ (job.state = "terminal" /\ ~Outstanding(att[f]))

ExitStale(f) == ~ExitIgnored(f) /\ ~Current(f)

\* As ProcessExit, with every crashed attempt sent back to the queue.
ProcessExitRequeues(f) ==
    LET a == att[f]
        counted == DispatchFailure(job)
        Outcome(j, js, as) == [job |-> [j EXCEPT !.state = js], att |-> Closed(a, as)]
    IN IF ExitIgnored(f) THEN [job |-> job, att |-> a]
       ELSE IF a.effects > 0 \/ Outstanding(a) THEN Outcome(counted, Recon, Recon)
       ELSE IF a.cancel # "none" THEN Outcome(job, "terminal", "terminal")
       ELSE IF counted.dispatch = "dead" THEN Outcome(counted, Recon, Recon)
       ELSE Outcome(counted, "queued", "crashed")

\* Otherwise: an open effect or anything unaccounted for goes to reconciliation;
\* a cancelled attempt ends; one that never started goes back to the queue
\* through the bounded backoff; one that had started is never taken up again.
ProcessExit(f) ==
    LET a == att[f]
        counted == IF a.started THEN job ELSE DispatchFailure(job)
        Outcome(j, js, as) == [job |-> [j EXCEPT !.state = js], att |-> Closed(a, as)]
    IN IF ExitIgnored(f) THEN [job |-> job, att |-> a]
       ELSE IF a.effects > 0 \/ Outstanding(a) THEN Outcome(counted, Recon, Recon)
       ELSE IF a.cancel # "none" THEN Outcome(job, "terminal", "terminal")
       ELSE IF a.started THEN Outcome(job, "terminal", "crashed")
       ELSE IF counted.dispatch = "dead" THEN Outcome(counted, Recon, Recon)
       ELSE Outcome(counted, "queued", "crashed")

\* The session records the exit and returns; a stale fence is an error of the
\* store, which the worker loop takes as fatal.
RecordExit(f) ==
    /\ Return(f)
    /\ IF ExitStale(f)
       THEN Fatal /\ UNCHANGED <<job, att>>
       ELSE /\ job' = ProcessExit(f).job
            /\ att' = [att EXCEPT ![f] = ProcessExit(f).att]
            /\ UNCHANGED sched
    /\ UNCHANGED <<expired, deadline, scanned>>

\* failProcess and forceProcess: the termination is proved.
Killed(f) == sess[f].pc = "killing" /\ RecordExit(f)

\* The process is seen to have ended; a clean end after the terminal receipt
\* needs no record.
ProcessDone(f) ==
    /\ sess[f].pc = "open"
    /\ \/ RecordExit(f)
       \/ sess[f].terminalReceived /\ Return(f) /\ UNCHANGED <<job, att, sched, expired, deadline, scanned>>

\* finishRejectedProcess: the rejection is already on record.
RejectedEnds(f) ==
    /\ sess[f].pc = "rejected"
    /\ Return(f)
    /\ UNCHANGED <<job, att, sched, expired, deadline, scanned>>

\* The termination cannot be proved (recordUncertainTermination): the job goes to
\* reconciliation and the lease stays taken.
KillUncertain(f) ==
    /\ sess[f].pc \in {"killing", "rejected", "open"}
    /\ Return(f)
    /\ IF Current(f)
       THEN /\ job' = [job EXCEPT !.state = Recon, !.fails = MaxDispatchFailures, !.dispatch = "dead"]
            /\ att' = [att EXCEPT ![f].state = Recon, ![f].lease = "cancelling"]
            /\ UNCHANGED sched
       ELSE Fatal /\ UNCHANGED <<job, att>>
    /\ UNCHANGED <<expired, deadline, scanned>>

----------------------------------------------------------------------------
(* Time, recovery, and the scheduler's own life *)

LeaseExpires(f) ==
    /\ att[f].lease \in LeaseLive \/ Running(f)
    /\ f \notin expired
    /\ expired' = expired \cup {f}
    /\ UNCHANGED <<job, att, sess, sched, deadline, scanned>>

\* A lease never outlives the whole deadline.
DeadlinePasses ==
    /\ ~deadline /\ deadline' = TRUE
    /\ expired' = expired \cup {f \in Fence : att[f].lease \in LeaseLive \/ Running(f)}
    /\ UNCHANGED <<job, att, sess, sched, scanned>>

\* RecoverExpired reads the expired leases first, outside any transaction.
ScanExpired ==
    /\ sched = "up" /\ scanned = {}
    /\ scanned' = {f \in expired : att[f].lease \in LeaseLive}
    /\ UNCHANGED <<job, att, sess, sched, expired, deadline>>

\* As RecoverExpired, over a table without the CHECK on settled jobs.
RecoverExpiredUnchecked(f) ==
    /\ sched = "up" /\ f \in scanned /\ scanned' = scanned \ {f}
    /\ LET To(js, a) == job' = [job EXCEPT !.state = js] /\ att' = [att EXCEPT ![f] = a]
       IN CASE ~Current(f) -> UNCHANGED <<job, att>>
            [] Current(f) /\ Outstanding(att[f]) -> To(Recon, Closed(att[f], Recon))
            [] Current(f) /\ ~Outstanding(att[f]) /\ ~att[f].started ->
                  To("queued", [att[f] EXCEPT !.state = "expired", !.lease = "expired"])
            [] OTHER -> To("cancelling", [att[f] EXCEPT !.state = "cancelling", !.lease = "cancelling"])
    /\ UNCHANGED <<sess, sched, expired, deadline>>

\* recoverExpiredOneOnce on a lease that was read as expired.  Its transaction
\* checks the fence and the expiry again, but not the state of the lease, which
\* may have been released since.  A stale fence is passed over.  A settled job
\* cannot leave that state (the table's CHECK refuses it): the transaction fails
\* and with it the scheduler.
RecoverExpired(f) ==
    /\ sched = "up" /\ f \in scanned /\ scanned' = scanned \ {f}
    /\ LET To(js, a) == job' = [job EXCEPT !.state = js] /\ att' = [att EXCEPT ![f] = a] /\ UNCHANGED sched
       IN CASE ~Current(f) -> UNCHANGED <<job, att, sched>>
            [] Current(f) /\ Outstanding(att[f]) -> To(Recon, Closed(att[f], Recon))
            [] Current(f) /\ ~Outstanding(att[f]) /\ job.state \in Settled -> Fatal /\ UNCHANGED <<job, att>>
            [] Current(f) /\ ~Outstanding(att[f]) /\ job.state \notin Settled /\ ~att[f].started ->
                  To("queued", [att[f] EXCEPT !.state = "expired", !.lease = "expired"])
            [] OTHER -> To("cancelling", [att[f] EXCEPT !.state = "cancelling", !.lease = "cancelling"])
    /\ UNCHANGED <<sess, expired, deadline>>

\* The service is told to stop, which ends the recovery loop; once its sessions
\* are done it has.
Stop ==
    /\ sched = "up" /\ sched' = "stopping" /\ scanned' = {}
    /\ UNCHANGED <<job, att, sess, expired, deadline>>

Stopped ==
    /\ sched = "stopping" /\ \A f \in Fence : ~Running(f)
    /\ sched' = "down" /\ scanned' = {}
    /\ UNCHANGED <<job, att, sess, expired, deadline>>

\* The service dies, and its worker processes with it.
Crash ==
    /\ sched # "down" /\ sched' = "down" /\ scanned' = {}
    /\ sess' = [f \in Fence |-> IF Running(f) THEN Ended ELSE sess[f]]
    /\ UNCHANGED <<job, att, expired, deadline>>

\* RecoverOrphans: the exit of every attempt an earlier service left behind is
\* recorded; a stale one is passed over.
RecoverOrphans ==
    /\ sched = "down" /\ sched' = "starting"
    /\ IF job.fence \in Fence /\ att[job.fence].state \in JobActive
       THEN /\ job' = ProcessExit(job.fence).job
            /\ att' = [att EXCEPT ![job.fence] = ProcessExit(job.fence).att]
       ELSE UNCHANGED <<job, att>>
    /\ UNCHANGED <<sess, expired, deadline, scanned>>

\* RecoverAuthorityBindingsAtStartup, then the loops start.
LatchBindings ==
    /\ sched = "starting" /\ sched' = "up"
    /\ att' = [f \in Fence |-> Latched(att[f])]
    /\ UNCHANGED <<job, sess, expired, deadline, scanned>>

----------------------------------------------------------------------------

\* What a session and its worker do while the attempt goes on.
Session(f) ==
    \/ Launch(f) \/ Hello(f)
    \/ StartDelivery(f) \/ DeliveryRefused(f) \/ Delivered(f) \/ DeliveryFails(f)
    \/ Accept(f) \/ Reject(f) \/ Heartbeat(f) \/ Consume(f)
    \/ ConsumeDrifted(f) \/ OutcomeRaced(f)
    \/ CancelAck(f) \/ Terminal(f) \/ Refused(f)
    \/ Resolve(f) \/ \E op \in BoundKinds : Stage(f, op)
    \/ PollCancel(f)

\* How it is brought to an end.
Ending(f) ==
    \/ LeaseTimer(f) \/ Shutdown(f) \/ GraceEnds(f)
    \/ Killed(f) \/ ProcessDone(f) \/ RejectedEnds(f) \/ KillUncertain(f)

Service ==
    \/ Claim \/ BackoffElapses \/ RequestCancel \/ DeadlinePasses
    \/ ScanExpired \/ Stop \/ Stopped \/ Crash \/ RecoverOrphans \/ LatchBindings

Next ==
    \/ Service
    \/ \E f \in Fence : Session(f) \/ Ending(f) \/ LeaseExpires(f) \/ RecoverExpired(f)

Spec == Init /\ [][Next]_vars

\* Time passes; send, the awaited hello and every kill are bounded in time; Go's
\* select chooses fairly among the ready cases, so a timer that stays ready is
\* taken although frames keep coming; the service is started again when it ends.
Fairness ==
    /\ \A f \in Fence :
          /\ WF_vars(Launch(f)) /\ WF_vars(StartDelivery(f)) /\ WF_vars(Delivered(f) \/ DeliveryFails(f))
          /\ WF_vars(sess[f].pc = "hello" /\ Refused(f))
          /\ WF_vars(Killed(f)) /\ WF_vars(RejectedEnds(f)) /\ WF_vars(LeaseExpires(f))
          /\ SF_vars(LeaseTimer(f)) /\ SF_vars(GraceEnds(f)) /\ WF_vars(Shutdown(f))
    /\ WF_vars(Stopped) /\ WF_vars(RecoverOrphans) /\ WF_vars(LatchBindings)

LiveSpec == Spec /\ Fairness

----------------------------------------------------------------------------
(* Properties *)

\* A workflow whose execution may have begun is never given to another attempt:
\* the attempt whose lease_accept is durable is the last one ever claimed
\* (process.go: "must not auto-take it over").
NeverReexecuted == \A f \in Fence : att[f].started => Current(f)

\* A job ends as terminal only when no effect of its is left open, whoever ended
\* it: a worker event, a killed process, a recovered orphan.
EffectsSettled == job.state = "terminal" => \A f \in Fence : att[f].effects = 0

\* A job that is terminal or awaits reconciliation never becomes dispatchable or
\* active again; a terminal one can only still turn out to need reconciliation.
SettledStays ==
    [][/\ job.state \in Settled => job'.state \in Settled
       /\ job.state = Recon => job'.state = Recon]_vars

\* While the scheduler runs, an attempt whose row says it is active has a session
\* that will bring it to an end: one that loses its session on a path that records
\* nothing takes the scheduler down, whose next start recovers it.
NoOrphan ==
    sched = "up" => \A f \in Fence : att[f].state \in JobActive => Running(f)

\* Whatever happens to the worker, the controls or the service, an attempt that
\* was offered ends: its job is back in the queue or settled.
AttemptsEnd == (job.state \in JobActive) ~> (job.state \in {"queued"} \cup Settled)
\* "Launch failures, pre-execution crashes and lease rejections share a
\* five-failure ceiling" and an expired unstarted attempt returns "only through
\* durable exponential dispatch backoff" (docs/architecture/runner-lifecycle.md):
\* every attempt but the first follows a counted failure.  It does not hold: a
\* v2 lease_reject and RecoverExpired requeue the job without counting.
DispatchCounted == job.fence <= job.fails + 1

\* Once a cancellation of the job is on record no later attempt at it is made.
\* It does not hold: RecoverExpired requeues an unstarted attempt as it stands.
CancelHonoured == \A f \in Fence : att[f].cancel # "none" => Current(f)
=============================================================================
