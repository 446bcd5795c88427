---------------------------- MODULE HandoffQueue ----------------------------
(***************************************************************************)
(* The route-centric delivery queue of the GitHub watch daemon             *)
(* (packages/github/src/watch-delivery-queue-v2.ts), the router that       *)
(* admits events and drains it (watch-delivery-router-v2.ts), and the Blob *)
(* and receipt stores it hands over with (notification-blob-store.ts,      *)
(* notification-receipt-store.ts).                                         *)
(*                                                                         *)
(* A record belongs to one event and one route.  A direct record is sent   *)
(* by the daemon; a service record is handed to the notification service,  *)
(* and only a 202 receipt that is durable here transfers authority.  An    *)
(* operation holds the queue lock (StorageLock) from load to persist and   *)
(* is one step, except the acceptance, whose three writes may be cut off   *)
(* by a crash.  An operation that throws persists nothing.                 *)
(*                                                                         *)
(* Times are kept as what the operations compare: a record due or later,   *)
(* its deadline ahead or reached, a lease held or over, a record persisted *)
(* at this instant or earlier.                                             *)
(***************************************************************************)
EXTENDS Naturals, FiniteSets

CONSTANTS
    Events,        \* stable keys of observed events
    Ids,           \* GitHub delivery ids
    Service,       \* route ids with backend notification_service
    Direct,        \* route ids with backend direct
    Configs,       \* the route sets a daemon may be configured with
    Workers,       \* daemons that drain the queue
    Digest,        \* Blob digest of each service record
    MaxAttempts,   \* NOTIFICATION_HANDOFF_POLICY.maxAttempts
    DirectMax,     \* DIRECT_MAX_ATTEMPTS
    MaxRecords,    \* policy.maxRecords
    MaxIds,        \* delivery ids remembered per record (64 in the code)
    MaxCycles,     \* bound: governed retries of a record
    MaxObserved,   \* bound: times GitHub reports an event
    MaxFaults      \* bound: crashes, overrun leases, failed writes, damaged Blobs

Routes  == Service \cup Direct
Records == Events \X Routes

ASSUME HandoffAssumption ==
    /\ MaxAttempts \in Nat \ {0} /\ DirectMax \in Nat \ {0}
    /\ MaxRecords \in Nat /\ MaxIds \in Nat /\ MaxCycles \in Nat
    /\ MaxObserved \in Nat /\ MaxFaults \in Nat
    /\ IsFiniteSet(Events) /\ IsFiniteSet(Routes) /\ Service \cap Direct = {}
    /\ IsFiniteSet(Workers) /\ (MaxIds = 0 => Ids = {})
    /\ Configs \subseteq (SUBSET Routes) \ {{}}
    /\ Events \X Service \subseteq DOMAIN Digest

Digests == {Digest[r] : r \in Events \X Service}

VARIABLES
    queue,      \* delivery-state.v2.json: the record of each event and route
    blobs,      \* Blob files, each intact or damaged
    receipts,   \* receipt files: the attempt whose answer each one records
    lock,       \* the worker inside acceptServiceRoute, or "free"
    worker,     \* what each worker is doing
    admission,  \* the admission in progress
    backlog,    \* events GitHub reports that are not confirmed yet
    observed,   \* number of times an event was reported
    tokens,     \* lease tokens handed out so far
    service,    \* records the notification service has accepted (external)
    wire,       \* requests on their way to the service (external)
    sends,      \* history: requests made for each record
    faults

vars == <<queue, blobs, receipts, lock, worker, admission, backlog, observed,
          tokens, service, wire, sends, faults>>

Claimable == {"pending", "retryable"}
Active    == Claimable \cup {"processing"}
HandoffTerminal == {"rejected", "quarantined", "handoff_dead"}
States    == Active \cup HandoffTerminal \cup {"absent", "accepted", "completed", "failed"}

Record ==
    [state: States, authority: {"none", "openslack", "notification_service", "terminal"},
     attempts: Nat, cycle: Nat, when: {"due", "later"}, deadline: {"ahead", "reached"},
     token: Nat, lease: {"none", "held", "over"}, receipt: Nat,
     ledger: {"none", "pending", "committed"},
     remote: {"unknown", "pending", "delivered", "dead"},
     persisted: {"now", "earlier"}, ids: SUBSET Ids]

Absent ==
    [state |-> "absent", authority |-> "none", attempts |-> 0, cycle |-> 0,
     when |-> "due", deadline |-> "ahead", token |-> 0, lease |-> "none",
     receipt |-> 0, ledger |-> "none", remote |-> "unknown",
     persisted |-> "now", ids |-> {}]

Stages == {"idle", "draining", "claimed", "confirmed", "sent", "answered",
           "embedded", "receipted"}

Answers == {"none", "accepted", "retryable", "conflict", "rejected", "protocol", "ok", "failed"}

Idle(r) == [stage |-> "idle", record |-> r, token |-> 0, answer |-> "none"]

NoAdmission(e) == [stage |-> "idle", event |-> e, id |-> "none", routes |-> {}]

Init ==
    /\ queue = [r \in Records |-> Absent]
    /\ blobs = [d \in Digests |-> "none"]
    /\ receipts = [r \in Records |-> 0]
    /\ lock = "free"
    /\ worker \in [Workers -> {Idle(r) : r \in Records}]
    /\ admission \in {NoAdmission(e) : e \in Events}
    /\ backlog = {}
    /\ observed = 0
    /\ tokens = 0
    /\ service = {}
    /\ wire = {}
    /\ sends = [r \in Records |-> 0]
    /\ faults = 0

Fault == faults < MaxFaults /\ faults' = faults + 1

IsService(r) == r[2] \in Service

AttemptLimit(r) == IF IsService(r) THEN MaxAttempts ELSE DirectMax

----------------------------------------------------------------------------
(* Maintenance: expireProcessingLeases, then exhaustUnclaimableServiceRoutes *)

Settled(q, s, a) == [q EXCEPT !.state = s, !.authority = a, !.when = "due", !.lease = "none", !.token = 0]

(* markHandoffDead *)
HandoffDead(q) == Settled(q, "handoff_dead", "terminal")

(* markDirectFailed *)
DirectFailed(q) == Settled(q, "failed", "terminal")

Exhausted(r, q) ==
    \/ q.attempts >= AttemptLimit(r)
    \/ IsService(r) /\ q.deadline = "reached"

(* What becomes of an attempt that gets no answer: retried after a delay that *)
(* ends at the deadline at the latest, or given up.                           *)
Unanswered(r, q) ==
    IF ~Exhausted(r, q)
    THEN [q EXCEPT !.state = "retryable", !.when = "later", !.lease = "none", !.token = 0]
    ELSE IF IsService(r) THEN HandoffDead(q) ELSE DirectFailed(q)

(* Mutant: the attempt of an expired lease is not counted. *)
Expired_Refunded(r, q) ==
    IF q.state = "processing" /\ q.lease = "over"
    THEN [q EXCEPT !.state = "retryable", !.when = "later", !.lease = "none", !.token = 0, !.attempts = @ - 1]
    ELSE q

(* Mutant: expired leases are left alone. *)
Expired_Kept(r, q) == q

Expired(r, q) ==
    IF q.authority = "openslack" /\ q.state = "processing" /\ q.lease = "over"
    THEN Unanswered(r, q)
    ELSE q

Unclaimable(r, q) ==
    IF q.authority = "openslack" /\ IsService(r) /\ q.state \in Claimable /\ Exhausted(r, q)
    THEN HandoffDead(q)
    ELSE q

Maintained == [r \in Records |-> Unclaimable(r, Expired(r, queue[r]))]

(* requireLease *)
LeaseHeld(q, token) ==
    q.authority = "openslack" /\ q.state = "processing" /\ q.lease # "none" /\ q.token = token

----------------------------------------------------------------------------
(* Admission: WatchDeliveryRouterV2.admit *)

Present(q) == {r \in Records : q[r].state # "absent"}

(* GitHub reports an event, for the first time or again. *)
Report(e) ==
    /\ observed < MaxObserved
    /\ observed' = observed + 1
    /\ backlog' = backlog \cup {e}
    /\ UNCHANGED <<queue, blobs, receipts, lock, worker, admission, tokens, service, wire, sends, faults>>

(* Each service route gets its Blob first; a damaged file of that digest *)
(* fails its verification.  A delivery id is "none" for a polled event.  *)
PutBlobs(e, i, rs) ==
    LET ds == {Digest[<<e, x>>] : x \in rs \cap Service}
    IN  /\ admission.stage = "idle" /\ e \in backlog
        /\ \A d \in ds : blobs[d] # "damaged"
        /\ blobs' = [d \in Digests |-> IF d \in ds THEN "intact" ELSE blobs[d]]
        /\ admission' = [stage |-> "put", event |-> e, id |-> i, routes |-> rs]
        /\ UNCHANGED <<queue, receipts, lock, worker, backlog, observed, tokens, service, wire, sends, faults>>

Candidates == {<<admission.event, x>> : x \in admission.routes}

(* Mutant: only records that are still active are looked at. *)
IdConflict_Active(q) ==
    /\ admission.id # "none"
    /\ \E r \in Present(q) : q[r].state \in Active /\ admission.id \in q[r].ids /\ r[1] # admission.event

(* findDeliveryIdConflict *)
IdConflict(q) ==
    /\ admission.id # "none"
    /\ \E r \in Present(q) : admission.id \in q[r].ids /\ r[1] # admission.event

(* rememberDeliveryId *)
Remembered(q) == IF admission.id = "none" THEN q.ids ELSE q.ids \cup {admission.id}

(* assertImmutableRouteMatch: firstPersistedAt and deadlineAt of the candidate *)
(* are taken from the clock, so only a record of this instant matches.         *)
ImmutableMatch(q) == q.persisted = "now"

NewRecord(r) ==
    [Absent EXCEPT !.state = "pending", !.authority = "openslack", !.ids = Remembered(Absent)]

IsNew(q) ==
    /\ Candidates \cap Present(q) = {}
    /\ Cardinality(Present(q)) + Cardinality(Candidates) <= MaxRecords

IsDuplicate(q) ==
    /\ Candidates \subseteq Present(q)
    /\ \A r \in Candidates : ImmutableMatch(q[r]) /\ Cardinality(Remembered(q[r])) <= MaxIds

(* enqueueRoutes enqueues the event or confirms that it is a duplicate. *)
Enqueue ==
    /\ admission.stage = "put" /\ lock = "free"
    /\ ~IdConflict(Maintained)
    /\ IsNew(Maintained) \/ IsDuplicate(Maintained)
    /\ queue' = [r \in Records |->
                    IF r \notin Candidates THEN Maintained[r]
                    ELSE IF IsNew(Maintained) THEN NewRecord(r)
                    ELSE [Maintained[r] EXCEPT !.ids = Remembered(Maintained[r])]]
    /\ admission' = [admission EXCEPT !.stage = "done"]
    /\ UNCHANGED <<blobs, receipts, lock, worker, backlog, observed, tokens, service, wire, sends, faults>>

(* The id was used for another event (an outcome, so maintenance is kept), or *)
(* the operation throws: part of the routes exists, an immutable field        *)
(* differs, too many ids, no capacity.                                        *)
EnqueueRefused ==
    /\ admission.stage = "put" /\ lock = "free"
    /\ \/ IdConflict(Maintained) /\ queue' = Maintained
       \/ ~IdConflict(Maintained) /\ ~IsNew(Maintained) /\ ~IsDuplicate(Maintained) /\ UNCHANGED queue
    /\ admission' = NoAdmission(admission.event)
    /\ UNCHANGED <<blobs, receipts, lock, worker, backlog, observed, tokens, service, wire, sends, faults>>

(* The poll cursor moves past the event. *)
AdvanceCursor ==
    /\ admission.stage = "done"
    /\ backlog' = backlog \ {admission.event}
    /\ admission' = NoAdmission(admission.event)
    /\ UNCHANGED <<queue, blobs, receipts, lock, worker, observed, tokens, service, wire, sends, faults>>

(* The admitting process dies, or a later Blob cannot be written. *)
AdmissionLost ==
    /\ admission.stage # "idle"
    /\ Fault
    /\ admission' = NoAdmission(admission.event)
    /\ UNCHANGED <<queue, blobs, receipts, lock, worker, backlog, observed, tokens, service, wire, sends>>

----------------------------------------------------------------------------
(* Draining: WatchDeliveryRouterV2.runDrain *)

(* Every queue operation but the acceptance ends with the maintained state *)
(* and what it makes of one record.                                        *)
Persist(r, q) == queue' = [Maintained EXCEPT ![r] = q]

Step(w, stage, answer) == worker' = [worker EXCEPT ![w].stage = stage, ![w].answer = answer]

Between(w, stage) == worker' = [worker EXCEPT ![w] = [Idle(@.record) EXCEPT !.stage = stage]]

(* The claim is processed: the drain goes on, or it has reached its limit. *)
Processed(w) == \E stage \in {"draining", "idle"} : Between(w, stage)

(* An error ends the drain. *)
DrainFails(w) == Between(w, "idle")

UnsettledLedgers ==
    {r \in Records : queue[r].state = "accepted" /\ queue[r].authority = "notification_service" /\ queue[r].ledger = "pending"}

(* Mutant: accepted records are left to the acceptance itself. *)
RecoverReceipts_Skipped(w) ==
    /\ worker[w].stage = "idle" /\ lock = "free"
    /\ Between(w, "draining")
    /\ UNCHANGED <<queue, receipts>>

(* recoverAcceptedReceipts, at the start of every drain *)
RecoverReceipts(w) ==
    /\ worker[w].stage = "idle" /\ lock = "free"
    /\ \A r \in UnsettledLedgers : receipts[r] \in {0, queue[r].receipt}
    /\ receipts' = [r \in Records |-> IF r \in UnsettledLedgers THEN queue[r].receipt ELSE receipts[r]]
    /\ queue' = [r \in Records |-> IF r \in UnsettledLedgers
                                   THEN [queue[r] EXCEPT !.ledger = "committed"]
                                   ELSE queue[r]]
    /\ Between(w, "draining")

BeginDrain(w) ==
    /\ RecoverReceipts(w)
    /\ UNCHANGED <<blobs, lock, admission, backlog, observed, tokens, service, wire, sends, faults>>

(* A write fails after some of the receipt files: the drain is abandoned. *)
BeginDrainFails(w) ==
    /\ worker[w].stage = "idle" /\ lock = "free"
    /\ UnsettledLedgers # {}
    /\ Fault
    /\ \E written \in SUBSET UnsettledLedgers :
          receipts' = [r \in Records |-> IF r \in written THEN queue[r].receipt ELSE receipts[r]]
    /\ UNCHANGED <<queue, blobs, lock, worker, admission, backlog, observed, tokens, service, wire, sends>>

MayClaim(r, q) ==
    /\ q.authority = "openslack" /\ q.state \in Claimable
    /\ q.when = "due"
    /\ ~Exhausted(r, q)

(* claimNext *)
Claim(w, r) ==
    /\ worker[w].stage = "draining" /\ lock = "free"
    /\ MayClaim(r, Maintained[r])
    /\ tokens' = tokens + 1
    /\ Persist(r, [Maintained[r] EXCEPT !.state = "processing", !.attempts = @ + 1,
                                        !.token = tokens + 1, !.lease = "held"])
    /\ worker' = [worker EXCEPT ![w] = [stage |-> "claimed", record |-> r, token |-> tokens + 1, answer |-> "none"]]
    /\ UNCHANGED <<blobs, receipts, lock, admission, backlog, observed, service, wire, sends, faults>>

NothingToClaim(w) ==
    /\ worker[w].stage = "draining" /\ lock = "free"
    /\ \A r \in Records : ~MayClaim(r, Maintained[r])
    /\ queue' = Maintained
    /\ Between(w, "idle")
    /\ UNCHANGED <<blobs, receipts, lock, admission, backlog, observed, tokens, service, wire, sends, faults>>

(* The operation finds that the lease was lost, and throws. *)
LeaseLost(w, q) ==
    /\ ~LeaseHeld(q, worker[w].token)
    /\ DrainFails(w)
    /\ UNCHANGED queue

(* confirmAttemptMaySend *)
ConfirmMaySend(w) ==
    LET r == worker[w].record
        q == Maintained[r]
    IN  /\ worker[w].stage = "claimed" /\ lock = "free"
        /\ \/ LeaseLost(w, q)
           \/ /\ LeaseHeld(q, worker[w].token)
              /\ IsService(r) /\ q.deadline = "reached"
              /\ Persist(r, HandoffDead(q))
              /\ Processed(w)
           \/ /\ LeaseHeld(q, worker[w].token)
              /\ ~(IsService(r) /\ q.deadline = "reached")
              /\ queue' = Maintained
              /\ Step(w, "confirmed", "none")
        /\ UNCHANGED <<blobs, receipts, lock, admission, backlog, observed, tokens, service, wire, sends, faults>>

(* The Blob is read and the handoff posted, or the sink called. *)
Send(w) ==
    LET r == worker[w].record
    IN  /\ worker[w].stage = "confirmed"
        /\ IsService(r) => blobs[Digest[r]] = "intact"
        /\ sends' = [sends EXCEPT ![r] = @ + 1]
        /\ wire' = IF IsService(r) THEN wire \cup {r} ELSE wire
        /\ Step(w, "sent", "none")
        /\ UNCHANGED <<queue, blobs, receipts, lock, admission, backlog, observed, tokens, service, faults>>

(* Nothing is sent: no client, no credential or an invalid request; no sink, *)
(* or the live state cannot be refreshed; or the Blob is not readable.       *)
SendNothing(w) ==
    LET r == worker[w].record
    IN  /\ worker[w].stage = "confirmed"
        /\ \E a \in (IF ~IsService(r) THEN {"retryable", "failed"}
                     ELSE IF blobs[Digest[r]] = "intact" THEN {"retryable", "protocol"}
                     ELSE {"protocol"}) : Step(w, "answered", a)
        /\ UNCHANGED <<queue, blobs, receipts, lock, admission, backlog, observed, tokens, service, wire, sends, faults>>

(* The service keeps one notification per idempotency key. *)
ServiceAccepts(r) ==
    /\ r \in wire
    /\ wire' = wire \ {r}
    /\ service' = service \cup {r}
    /\ UNCHANGED <<queue, blobs, receipts, lock, worker, admission, backlog, observed, tokens, sends, faults>>

RequestLost(r) ==
    /\ r \in wire
    /\ wire' = wire \ {r}
    /\ UNCHANGED <<queue, blobs, receipts, lock, worker, admission, backlog, observed, tokens, service, sends, faults>>

(* NotificationServiceClient.handoff and NotificationSink.send: a 202 is an *)
(* answer of the service; a timeout is an answer the client makes up.       *)
PossibleAnswers(r) ==
    IF ~IsService(r) THEN {"ok", "retryable", "failed"}
    ELSE {"retryable", "conflict", "rejected", "protocol"} \cup (IF r \in service THEN {"accepted"} ELSE {})

Answer(w) ==
    /\ worker[w].stage = "sent"
    /\ \E a \in PossibleAnswers(worker[w].record) : Step(w, "answered", a)
    /\ UNCHANGED <<queue, blobs, receipts, lock, admission, backlog, observed, tokens, service, wire, sends, faults>>

IsAcceptance(a) == a = "accepted"

(* What the answer makes of the record: markRetryable, markQuarantined, *)
(* markRejected, markDirectCompleted, markDirectFailed                  *)
AfterAnswer(r, q, a) ==
    CASE a = "retryable"               -> Unanswered(r, q)
      [] a \in {"conflict", "protocol"} -> Settled(q, "quarantined", "terminal")
      [] a = "rejected"                -> Settled(q, "rejected", "terminal")
      [] a = "ok"                      -> Settled(q, "completed", "terminal")
      [] a = "failed"                  -> DirectFailed(q)

ApplyAnswer(w) ==
    LET r == worker[w].record
        q == Maintained[r]
    IN  /\ worker[w].stage = "answered" /\ ~IsAcceptance(worker[w].answer)
        /\ lock = "free"
        /\ \/ LeaseLost(w, q)
           \/ /\ LeaseHeld(q, worker[w].token)
              /\ Persist(r, AfterAnswer(r, q, worker[w].answer))
              /\ Processed(w)
        /\ UNCHANGED <<blobs, receipts, lock, admission, backlog, observed, tokens, service, wire, sends, faults>>

(* Mutant: the ledger is committed with the embedded receipt. *)
Accepted_Committed(q, token) ==
    [Settled(q, "accepted", "notification_service") EXCEPT
        !.receipt = token, !.ledger = "committed", !.remote = "pending"]

(* Mutant: the lease is left on the accepted record. *)
Accepted_KeepsLease(q, token) ==
    [q EXCEPT !.state = "accepted", !.authority = "notification_service",
              !.receipt = token, !.ledger = "pending", !.remote = "pending"]

Accepted(q, token) ==
    [Settled(q, "accepted", "notification_service") EXCEPT
        !.receipt = token, !.ledger = "pending", !.remote = "pending"]

(* acceptServiceRoute takes the lock and, without any maintenance, writes the *)
(* accepted record with its receipt ...                                       *)
AcceptEmbedded(w) ==
    LET r == worker[w].record
        q == queue[r]
    IN  /\ worker[w].stage = "answered" /\ IsAcceptance(worker[w].answer)
        /\ lock = "free"
        /\ \/ LeaseLost(w, q) /\ UNCHANGED lock
           \/ /\ LeaseHeld(q, worker[w].token)
              /\ queue' = [queue EXCEPT ![r] = Accepted(q, worker[w].token)]
              /\ lock' = w
              /\ Step(w, "embedded", "accepted")
        /\ UNCHANGED <<blobs, receipts, admission, backlog, observed, tokens, service, wire, sends, faults>>

(* ... then the receipt file, which must not exist with other bytes ... *)
AcceptReceipt(w) ==
    LET r == worker[w].record
    IN  /\ worker[w].stage = "embedded"
        /\ receipts[r] \in {0, worker[w].token}
        /\ receipts' = [receipts EXCEPT ![r] = worker[w].token]
        /\ Step(w, "receipted", "accepted")
        /\ UNCHANGED <<queue, blobs, lock, admission, backlog, observed, tokens, service, wire, sends, faults>>

(* ... and the committed ledger. *)
AcceptCommit(w) ==
    /\ worker[w].stage = "receipted"
    /\ queue' = [queue EXCEPT ![worker[w].record].ledger = "committed"]
    /\ lock' = "free"
    /\ Processed(w)
    /\ UNCHANGED <<blobs, receipts, admission, backlog, observed, tokens, service, wire, sends, faults>>

(* The receipt file or the last write fails: the drain ends, the ledger waits. *)
AcceptFails(w) ==
    /\ worker[w].stage \in {"embedded", "receipted"}
    /\ Fault
    /\ lock' = "free"
    /\ DrainFails(w)
    /\ UNCHANGED <<queue, blobs, receipts, admission, backlog, observed, tokens, service, wire, sends>>

----------------------------------------------------------------------------
(* Operators, reconciliation and garbage collection *)

MayProject(q, s) ==
    /\ q.state = "accepted" /\ q.authority = "notification_service"
    /\ q.ledger = "committed"
    /\ q.remote = "delivered" => s = "delivered"

(* projectRemoteDelivery, with what a reconciliation read from the service *)
Project(r, s) ==
    /\ lock = "free"
    /\ MayProject(Maintained[r], s)
    /\ Persist(r, [Maintained[r] EXCEPT !.remote = s])
    /\ UNCHANGED <<blobs, receipts, lock, worker, admission, backlog, observed, tokens, service, wire, sends, faults>>

(* Mutant: recovery does not look for the Blob. *)
BlobVerified_Unchecked(r) == TRUE

(* withVerifiedBlob *)
BlobVerified(r) == blobs[Digest[r]] = "intact"

(* applyRecoveryTransition, decision retry *)
Retried(q) ==
    [q EXCEPT !.cycle = @ + 1, !.state = "pending", !.authority = "openslack", !.attempts = 0,
              !.when = "due", !.deadline = "ahead", !.remote = "unknown"]

(* Mutant: an accepted record can be retried as well. *)
Recoverable_Accepted(r, q) == IsService(r) /\ q.state \in HandoffTerminal \cup {"accepted"}

(* requireRecoverableRoute *)
Recoverable(r, q) == IsService(r) /\ q.authority = "terminal" /\ q.state \in HandoffTerminal

(* applyRecovery: a retry needs the verified Blob, a quarantined record may *)
(* be archived instead, which only adds to its history.                     *)
RetryRoute(r) ==
    /\ lock = "free"
    /\ Recoverable(r, Maintained[r]) /\ BlobVerified(r)
    /\ Maintained[r].cycle < MaxCycles
    /\ Persist(r, Retried(Maintained[r]))
    /\ UNCHANGED <<blobs, receipts, lock, worker, admission, backlog, observed, tokens, service, wire, sends, faults>>

ArchiveRoute(r) ==
    /\ lock = "free"
    /\ Recoverable(r, Maintained[r]) /\ Maintained[r].state = "quarantined"
    /\ queue' = Maintained
    /\ UNCHANGED <<blobs, receipts, lock, worker, admission, backlog, observed, tokens, service, wire, sends, faults>>

ActiveDigests == {Digest[r] : r \in {x \in Records : IsService(x) /\ queue[x].authority = "openslack"}}

(* collectBlobGarbage for one eligible digest; eligibility was judged before *)
(* the lock was taken, from the records of the time.                         *)
CollectGarbage(d) ==
    /\ lock = "free"
    /\ \E r \in Present(queue) : IsService(r) /\ Digest[r] = d
    /\ blobs[d] = "intact" /\ d \notin ActiveDigests
    /\ blobs' = [blobs EXCEPT ![d] = "none"]
    /\ UNCHANGED <<queue, receipts, lock, worker, admission, backlog, observed, tokens, service, wire, sends, faults>>

----------------------------------------------------------------------------
(* Time and failures *)

(* The millisecond in which a record was persisted is over. *)
Tick ==
    /\ \E r \in Present(queue) : queue[r].persisted = "now"
    /\ queue' = [r \in Records |-> IF queue[r].state = "absent" THEN queue[r]
                                   ELSE [queue[r] EXCEPT !.persisted = "earlier"]]
    /\ UNCHANGED <<blobs, receipts, lock, worker, admission, backlog, observed, tokens, service, wire, sends, faults>>

BecomesDue(r) ==
    /\ queue[r].when = "later"
    /\ queue' = [queue EXCEPT ![r].when = "due"]
    /\ UNCHANGED <<blobs, receipts, lock, worker, admission, backlog, observed, tokens, service, wire, sends, faults>>

(* A retry is due at the deadline at the latest. *)
DeadlinePasses(r) ==
    /\ IsService(r) /\ queue[r].state \in Active /\ queue[r].deadline = "ahead"
    /\ queue' = [queue EXCEPT ![r].deadline = "reached", ![r].when = "due"]
    /\ UNCHANGED <<blobs, receipts, lock, worker, admission, backlog, observed, tokens, service, wire, sends, faults>>

WorksOn(w, r) == worker[w].stage \notin {"idle", "draining"} /\ worker[w].record = r /\ worker[w].token = queue[r].token

(* The lease of a worker that is gone ends in time; one that overruns its *)
(* lease is a fault.                                                      *)
LeaseEnds(r) ==
    /\ queue[r].lease = "held"
    /\ IF \E w \in Workers : WorksOn(w, r) THEN Fault ELSE UNCHANGED faults
    /\ queue' = [queue EXCEPT ![r].lease = "over"]
    /\ UNCHANGED <<blobs, receipts, lock, worker, admission, backlog, observed, tokens, service, wire, sends>>

(* A daemon dies; its lock is reclaimed (StorageLock). *)
Crash(w) ==
    /\ worker[w].stage # "idle"
    /\ Fault
    /\ DrainFails(w)
    /\ lock' = IF lock = w THEN "free" ELSE lock
    /\ UNCHANGED <<queue, blobs, receipts, admission, backlog, observed, tokens, service, wire, sends>>

DamageBlob(d) ==
    /\ blobs[d] = "intact"
    /\ Fault
    /\ blobs' = [blobs EXCEPT ![d] = "damaged"]
    /\ UNCHANGED <<queue, receipts, lock, worker, admission, backlog, observed, tokens, service, wire, sends>>

----------------------------------------------------------------------------

Admit ==
    \/ \E e \in Events, i \in Ids \cup {"none"}, rs \in Configs : PutBlobs(e, i, rs)
    \/ Enqueue \/ EnqueueRefused \/ AdvanceCursor

Drain(w) ==
    \/ BeginDrain(w) \/ NothingToClaim(w) \/ \E r \in Records : Claim(w, r)
    \/ ConfirmMaySend(w) \/ Send(w) \/ SendNothing(w) \/ Answer(w) \/ ApplyAnswer(w)
    \/ AcceptEmbedded(w) \/ AcceptReceipt(w) \/ AcceptCommit(w)

Operate ==
    \/ \E r \in Records : RetryRoute(r) \/ ArchiveRoute(r)
    \/ \E r \in Records, s \in {"pending", "delivered", "dead"} : Project(r, s)
    \/ \E d \in Digests : CollectGarbage(d)

TimePasses ==
    \/ Tick
    \/ \E r \in Records : BecomesDue(r) \/ DeadlinePasses(r) \/ LeaseEnds(r)

Environment ==
    \/ \E e \in Events : Report(e)
    \/ \E r \in Records : ServiceAccepts(r) \/ RequestLost(r)
    \/ \E w \in Workers : Crash(w) \/ AcceptFails(w) \/ BeginDrainFails(w)
    \/ \E d \in Digests : DamageBlob(d)
    \/ AdmissionLost

Next == Admit \/ (\E w \in Workers : Drain(w)) \/ Operate \/ TimePasses \/ Environment

(* The daemon drains on a timer and polls on a timer, and time passes. *)
Fairness ==
    /\ \A w \in Workers : WF_vars(Drain(w))
    /\ \A e \in Events : WF_vars(\E rs \in Configs : PutBlobs(e, "none", rs))
    /\ WF_vars(Enqueue \/ EnqueueRefused \/ AdvanceCursor)
    /\ WF_vars(Tick)
    /\ \A r \in Records : WF_vars(BecomesDue(r)) /\ WF_vars(LeaseEnds(r) /\ UNCHANGED faults)

Spec == Init /\ [][Next]_vars

FairSpec == Spec /\ Fairness

----------------------------------------------------------------------------
(* Properties *)

(* Every variable has its type; what the stores hold is well formed. *)
TypeOK ==
    /\ queue \in [Records -> Record]
    /\ blobs \in [Digests -> {"none", "intact", "damaged"}]
    /\ receipts \in [Records -> Nat]
    /\ lock \in Workers \cup {"free"}
    /\ worker \in [Workers -> [stage: Stages, record: Records, token: Nat, answer: Answers]]
    /\ admission \in [stage: {"idle", "put", "done"}, event: Events, id: Ids \cup {"none"}, routes: SUBSET Routes]
    /\ backlog \subseteq Events
    /\ observed \in 0..MaxObserved /\ tokens \in Nat /\ faults \in 0..MaxFaults
    /\ service \subseteq Records /\ wire \subseteq Records
    /\ sends \in [Records -> Nat]

(* validateRecord: every state an operation persists is one that the next   *)
(* load accepts.  One invalid record would make every later operation throw *)
(* QUEUE_STATE_INVALID.                                                     *)
RecordsValid ==
    \A r \in Records :
        LET q == queue[r]
        IN  /\ (q.lease # "none") <=> (q.authority = "openslack" /\ q.state = "processing")
            /\ IF q.state = "accepted"
               THEN /\ q.authority = "notification_service" /\ q.receipt # 0
                    /\ q.ledger # "none" /\ q.remote # "unknown"
               ELSE q.receipt = 0 /\ q.ledger = "none"
            /\ Cardinality(q.ids) <= MaxIds

(* The receipt ledger: a committed record has its receipt file, and a file  *)
(* never disagrees with the receipt embedded in the queue, whatever crash   *)
(* or failed write comes between the three writes of acceptServiceRoute.    *)
ReceiptsAgree ==
    \A r \in Records :
        /\ queue[r].ledger = "committed" => receipts[r] = queue[r].receipt
        /\ receipts[r] # 0 => queue[r].state = "accepted" /\ receipts[r] = queue[r].receipt

(* A GitHub delivery id stands for one event: once it is remembered for an  *)
(* event, settled or not, it is never taken for another.                    *)
DeliveryIdsUnique ==
    \A r1, r2 \in Records : r1[1] # r2[1] => queue[r1].ids \cap queue[r2].ids = {}

(* No record is sent more often than the policy allows, in any of its       *)
(* recovery cycles taken together: expired leases and lost answers count.   *)
SendBudget == \A r \in Records : sends[r] <= AttemptLimit(r) * (queue[r].cycle + 1)

(* As long as a service record may still be sent, its Blob file is there:   *)
(* collectBlobGarbage and applyRecovery cannot cross.  It takes that routes *)
(* which share a Blob are configured together: a settled record of another  *)
(* route would let the Blob of an admission under way be collected.         *)
ActiveBlobKept ==
    \A r \in Records : IsService(r) /\ queue[r].state \in Active => blobs[Digest[r]] # "none"

(* An accepted record never leaves that state, keeps its receipt and its    *)
(* committed ledger, and a delivered projection does not regress.           *)
AcceptedStays ==
    [][\A r \in Records : queue[r].state = "accepted" =>
          /\ queue'[r].state = "accepted" /\ queue'[r].receipt = queue[r].receipt
          /\ queue[r].ledger = "committed" => queue'[r].ledger = "committed"
          /\ queue[r].remote = "delivered" => queue'[r].remote = "delivered"]_vars

(* Every record is eventually settled: accepted, delivered, or terminal     *)
(* where an operator can see it.                                            *)
RoutesSettle == \A r \in Records : queue[r].state \in Active ~> queue[r].state \notin Active

(* An accepted record whose receipt file was not committed is repaired by a *)
(* later drain.                                                             *)
LedgersCommit == \A r \in Records : queue[r].ledger = "pending" ~> queue[r].ledger = "committed"

(* "Poll cursors advance only after observations are durably enqueued or    *)
(* confirmed duplicate": an event that GitHub reports is eventually         *)
(* enqueued or confirmed, and the cursor moves past it.                     *)
ObservationsConfirmed == \A e \in Events : e \in backlog ~> e \notin backlog
============================================================================
