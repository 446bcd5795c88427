# OpenSlack: TLA+ models, model checking and proofs

OpenSlack coordinates software agents through GitHub Issues, pull requests and a
few services. This directory holds TLA+ models of the parts where several
processes share state without sharing memory:

* the Notification Delivery service (Go, PostgreSQL);
* the GitHub task loop, whose only shared state is a ref, labels and comments;
* the watch daemon's durable queues, on files under a cross-process file lock;
* the local claim broker and the governed plans of the Operator, each on a file
  with a lock file of its own;
* the runner of the workflow control service (Go, PostgreSQL), which drives
  worker processes through leases, fences and acknowledged controls.

The models are checked by TLC on small instances. Every safety property that a
passing run checks is also proved by TLAPS, for every number of notifications,
workers, processes, claims, records and attempts; where a proof needs more than
the run's specification says, the theorem states it as a hypothesis.

    tlc -workers 4 -config MC_Delivery.cfg MC_Delivery
    tlapm NotificationDelivery_proofs.tla

`PROJECT.json` lists the runs, the source lines behind each definition, one
mutant per property, the findings and the hazards.

## 1. Inventory

| Part | State it keeps | Operations | What is hard about it |
| --- | --- | --- | --- |
| Notification store (`services/notification-delivery/internal/notificationstore`) | one row per notification: state, version, attempts, cycle start, next attempt, lease | intake, claim, transition, replay, recovery of expired leases | transactions that read the clock before they lock, late results, lost commit answers |
| Delivery worker (`internal/delivery`) | the lease claim it works on | claim, preflight, send, commit | an HTTP exchange that outlives its lease, crashes after the send, cutoffs that go stale |
| Lease recovery (`internal/leaserecovery`) | none | periodic sweep | racing with the worker whose lease just expired |
| Replay operations (`internal/operationscontrol`) | previewed versions, in the operator's hands | preview, execute | repeated or late execution |
| API, callers, vendors, bootstrap (`internal/app`, `calleraccess`, `vendorregistry`, `openslackbootstrap`) | keys, vendor configuration generations | HTTP handlers | mostly request handling |
| Issue claims (`packages/github/src/claims.ts`) | GitHub: a claim ref, labels, comments | discover, claim | no transactions; every call may fail or lose its answer |
| Claim lifecycle (`claim-lifecycle.ts`) | same | heartbeat, review, complete | commands of an agent whose lease has ended |
| Claim repair (`repair.ts`) | same | expire or re-project a claim | acts on what it read earlier |
| Notification storage lock (`notification-storage-fs.ts`) | a lock file and a reclaim gate file | take, isolate a stale lock, release | a process may die between any two file system calls; pids are reused |
| Watch delivery queue, first generation (`watch-delivery-queue.ts`, `watch-delivery-router.ts`) | deliveries with routes, delivery leases, attempts, legacy tombstones | enqueue, claim, refresh, send, mark, finish, compact | leases that end under a running worker, compaction against redelivery |
| Watch delivery queue, second generation (`watch-delivery-queue-v2.ts`, `watch-delivery-router-v2.ts`, Blob and receipt stores, handoff client) | a record per event and route, Blobs, receipts, receipt ledger | admit, claim, hand off, accept, recover, reconcile, collect | lost 202 answers, three writes that a crash cuts off, garbage collection against admission |
| Local claim broker (`packages/core/src/claim-broker.ts`), agent tick (`packages/runtime`) | leases in a JSON file under a lock file, a copy of them in each process | claim, heartbeat, release, expire | stale copies, a lock file left behind by a crash |
| Governed plans (`packages/operator`) | a record file, a lock file | preview, confirm, execute, cancel, get | confirmations that race between awaits, a dead executor, stale locks removed by name |
| Governance control service | append-only authority and shadow stores | append, read | server side of the routed plan store |
| Workflow control service (`services/workflow-control`) | jobs, attempts, leases, fences, controls, authority bindings; a session per worker process | submit, claim, record an event, deliver a control, cancel, recover, stop | a process that outlives its lease, unproved deliveries, cancellations that race with events, a service that dies with its sessions |
| Workflow runtime (`packages/workflows`) | runs, checkpoints, effect approvals, budgets | execute, resume, approve | resumption after a crash, single use of approvals |
| Cleanup broker | permit ledger, worker slots | reserve, run, settle | crash between reservation and result |
| Agent runtime | run ownership and capacity files | launch, stop, repair | owner processes that disappear |
| Kernel, PR management, git delivery | none, or GitHub's | pure decisions, merge, push | many cases, little concurrency |
| Organization graph, scenario runtime, plugin host, workspace, credentials, chat, TUI, CLI, MCP | files and snapshots | reads, rendering, configuration | little shared mutable state |

How the parts interact: an agent's tick discovers a ready task and claims it, on
GitHub (`IssueClaim`) or in the local state file (`LocalBroker`). The watch
daemon turns GitHub events into queue records; every operation on the queues and
their stores runs under the storage lock (`StorageLock`), which is why it is one
step in `WatchQueue` and `HandoffQueue`. A service record is handed to the intake
of the delivery service, whose workers, recovery and operators meet only in the
notifications table. People confirm governed plans through the Operator.

What makes each modelled part correct:

* delivery: no two requests for one notification at once, no more requests per
  cycle than allowed, none outside the cycle, timely acknowledgements kept, every
  accepted notification settled, one replay per approval;
* claims: one winner, the comments name the holder of the ref, a good heartbeat
  protects a claim, an Issue never drops out of the loop, an abandoned claim is
  released;
* storage lock: one process inside, no update lost, a running process keeps its
  lock, a dead process's lock goes away;
* queues: no more sends than the policy allows, a timely answer is recorded, what
  is settled stays settled, acceptance is backed by a receipt and by the service,
  every admitted route is settled;
* local broker: one running lease per task, an ended lease does not come back, a
  task whose lease has run out is claimed again;
* governed plans: the actions are begun once, by the execution on record, the
  record moves along the state graph, a dead execution is marked for
  reconciliation;
* runner: a workflow that may have begun is never given to a second attempt, no
  job ends with an open effect, a settled job stays settled, no attempt is left
  without somebody who ends it.

## 2. Modules

| Module | Models |
| --- | --- |
| `NotificationStore` | the row and what each repository operation writes (`transition.go`, `postgres/repository.go`, `sql.go`) |
| `NotificationDelivery` | workers, recovery, operators, callers and the clock over that store (`delivery/runner.go`, `worker.go`, `backoff.go`, `leaserecovery`, `operationscontrol`) |
| `Outbox` | the abstract promise: open, posted, acknowledged, settled, reopened |
| `NotificationDelivery_proofs` | theorems and proofs about `NotificationDelivery` |
| `IssueClaim` | claims, lifecycle commands and repairs over one Issue (`claims.ts`, `claim-lifecycle.ts`, `repair.ts`) |
| `StorageLock` | the file lock and the isolation of stale locks (`notification-storage-fs.ts`) |
| `StorageLock_proofs` | theorems and proofs about `StorageLock` |
| `WatchQueue` | the first queue and its router (`watch-delivery-queue.ts`, `watch-delivery-router.ts`) |
| `HandoffQueue` | the second queue, its router, Blob and receipt stores, and the service's intake as they see it (`watch-delivery-queue-v2.ts`, `watch-delivery-router-v2.ts`, `notification-blob-store.ts`, `notification-receipt-store.ts`, `watch-daemon.ts`) |
| `LocalBroker` | `FileClaimBroker` and the local path of a tick (`claim-broker.ts`, `tick.ts`) |
| `GovernedPlan` | one plan: service, local store and lock file (`governed-plan-service.ts`, `governed-plan-store.ts`) |
| `RunnerControl` | one job, its attempts, their sessions and the scheduler (`runnerscheduler/`, `runnerstore/postgres/`) |
| `RunnerControl_proofs` | theorems and proofs about `RunnerControl` |
| `IssueClaim_proofs`, `WatchQueue_proofs`, `HandoffQueue_proofs`, `LocalBroker_proofs`, `GovernedPlan_proofs` | theorems and proofs about the module of that name |
| `MC_*` | instances for TLC |

Every component's module has a `TypeOK`, which its proofs show (`TypeCorrect`);
the `delivery` run checks it too.

### Notification delivery

A row is a record; each store operation is a function from the row it locked to
the row it writes. `Transition` is fenced twice, by the expected version and by
the lease (`ValidateVersion`, `ValidateLease`), as in `transition.go`.

A worker runs through the stages of `RunOnce`: `claiming` and `claimed` (the
limits right after the claim), `preflight` and `recheck` (the two groups of
lookups, each followed by a check of both cutoffs), `ready`, `sending`, `commit`
and `committing`. A transaction is two steps where this matters: it reads its
clock, and later locks, decides, writes and commits. Recovery's clock and sweep
are one step, because a sweep with an older clock takes a subset of the rows,
namely those a sweep at that earlier instant would have taken. `SKIP LOCKED` is
modelled by letting a claim pass over as many older rows as there are other
claim transactions open.

Abstractions: the lease id is the version that the claim wrote (unique per row,
like the random id in the code); all workers share one actor id, as in
`cmd/server/main.go`; the payload, vendor configuration, error codes and the
`delivery_attempts` log are left out; the preflight lookups and the response
classification are choices among their outcomes; a repeated intake of a known
key writes nothing. There is one clock for the database and all processes: the
code compares database timestamps with the process clock, and skew between them
is outside the model.

### Issue claims

One Issue. `ref` is the claim ref, by the claim that created it, which no process
can see: the code knows only whether a ref of that name exists, and deletes it by
name. Every GitHub call is one step; between two calls any other process may act.
A call may fail or lose its answer, and a process may die at any stage, at most
`MaxFaults` times in all. A snapshot of the Issue (`fresh`) is invalidated by any
change of labels or comments, since `issueTaskSnapshotMatches` compares labels
and `updated_at`.

Abstractions: two claims never have the same `claimed_at` millisecond, so the
comments never tie (the code refuses a tie); `updated_at` is assumed to change
with every change of the Issue, although GitHub keeps whole seconds; a tick of
the clock is longer than the 60 seconds in which a heartbeat counts as a repeat;
all leases have the same length, so two heartbeats of one instant cannot
disagree; each claim has its own agent and pull request. The labels `running` and
`blocked`, which people set by hand, dry runs and `expireIssueClaim`, which
nothing calls, are left out.

Two constants state how the loop is operated. `QuietRepair` says that operators
run repairs only while no claim or command is in flight and that none starts
during a repair. `TimelyCommands` says that agents issue commands only before
their lease ends. The code enforces neither. The passing run assumes both;
`claims_race` and `MC_IssueClaim_late.cfg` drop one each and show that `OneWinner`
then fails, that is, that the discipline is really needed.

### Storage lock

The state is the two files (`lock`, `gate`), each with its owner and with or
without its content, the operating system's view of the pids, and the stored
data as the number of updates it reflects. A process goes through
`withNotificationStorageLock` (`probe`, `open`, `write`, `load`, `persist`,
`release`, `remove`) and, when the lock is taken, through `isolateStaleLock`
(`inspect`, `elect`, `gwrite`, `before`, `current`, `unlink`, `gclose`,
`gunlink`), one step per file system call. Processes die at any point, writes of
a lock or gate file fail with or without their content on disk, a dead pid may
be given to an unrelated process, and a lock's age passes `lockStaleMs`.

Abstractions: a nonce is the pair of a pid and the number of lock files it has
created; path, permission and size checks that only refuse are left out; a
process that restarts is another pid.

### Watch delivery queue

`queue` holds the delivery of each stable key, with its routes; `worker` is what
a router is doing between two operations of the queue. `ClaimAndEnqueue` has the
duplicates, redelivery under another delivery id, capacity and tombstones; `ClaimNext`, the refresh, `beginRouteAttempt`, the send
and the marks follow the router's loop. Each operation first recovers expired
leases and compacts terminal records, and persists nothing of that if it throws.

Abstractions: times are what the code compares (due or later, held or over,
fresh or past the retention); the migration to the second queue, statistics and
the validation of single fields are left out.

### Handoff queue

`queue` holds a record per event and route; `blobs` and `receipts` are the two
stores. `PutBlobs`, `Enqueue` and `AdvanceCursor` are an admission with its
cursor; a daemon claims, sends (`wire` carries requests that may arrive late or
be answered into the void) and marks. The acceptance of a service record is three
writes (the record with its embedded receipt, the receipt file, the committed
ledger), with a crash possible between them and `recoverAcceptedReceipts` at the
start of the next drain. Governed retries open a
new cycle, reconciliation projects the remote state, and collection removes
Blobs that no active record needs.

Abstractions: `service` is the intake of the delivery service, idempotent by
record, marked external; Blob contents are digests that are intact or damaged;
one admission runs at a time, as in the daemon's loop; local sinks, the
migration and its legacy tombstones, a queue closed for new service records and
the quotas other than `maxRecords` are left out.

### Local broker

`file` is the state file, `mem` the maps of each process, `lockFile` the process
that created the lock. An operation waits for the lock, merges the file into the
maps and works (`LockAndWork`), writes (`Save`) and removes the lock (`Unlock`),
or gives up (`LockTimeout`). A save that throws (`SaveFails`) still removes the
lock, and its error ends the tick. A tick builds the broker, marks open tasks and claims
them in turn until one claim succeeds. A lease id is a number.

### Governed plan

`rec` is the record file, `lock` the lock file with the call that linked it and
its pid, `call` where each call stands. Every await is a boundary: linking the
lock, looking at the lock in the way, checking again that it is the same and its
owner dead, removing it, reading, checking revision and state, renaming,
unlocking. Each of these may fail (`StoreFails`); a lock that is to be removed may
stay, or be gone although the sync of its directory failed (`RemovalFails`).
`confirm` persists `executing` before the first action and the result
after the last; a call that finds an execution of a dead process marks it
`reconciliation_required`.

Abstractions: token, authority and audit contents are right or the call only
returns; the routed store (a service behind HTTP) and the shadow observer are
left out; revision and writer stand for the identity of the file. A pid is not
used again; with reuse a stale lock or execution would count as live for longer.
The check that the linked lock is the caller's own is left out: it could only end
calls earlier.

### Runner control

`job` is the row of one job; `att` the attempt, lease, cancellation control and
binding rows of each attempt, by fencing token; `sess` the session goroutine of
each attempt (`launch`, `hello`, then `due` and `wire` for a control about to be
delivered and one in delivery, `open` for the select loop, `rejected`, `killing`,
`done`); `sched` the scheduler process. Every store call is one transaction under
the job's advisory lock, hence one action. A worker event (`Accept`, `Reject`,
`Heartbeat`, `Consume`, `CancelAck`, `Terminal`) commits and leaves its receipt,
and a cancellation that owns an earlier control sequence, to be delivered;
`StartDelivery`, `Delivered` and `DeliveryFails` are the delivery with its three
durable marks. `ProcessExit` is `RecordProcessExit`, used by a session that killed
its process, by one whose process ended and by `RecoverOrphans`. The worker's
frames, its staged bindings, its acknowledgements and its death are free choices.

Abstractions: one job, since all decisions are made under its lock; at most one
open effect and one binding at a time; the kinds of authority operations are a
checkpoint, an intent and an outcome, and budget reservations and usage follow the
same path as the first; a lease or the whole deadline has passed or not.
Reads before a transaction are kept apart from it where the code does not check
again what was read: the drift of a binding before an outcome is consumed
(`OutcomeRaced`), and the expired leases of a recovery pass (`ScanExpired` fills
`scanned`; `RecoverExpired` then checks the fence of each, and its lease's end,
which never moves, but not that the lease is still held). Worker events of the
second protocol may come after the lease or the offer has ended: `validateEventTime`
is called only by the first protocol's `RecordEvent`. The refusal of a cancellation
while an inbox row waits for the authority adds nothing here: with runtime delivery
such a row is committed in the transaction that writes it, and a row is marked for
reconciliation only together with its job. Left out: the first session
protocol, a `lease_accept` that resumes, submission, drains, and the budget,
effect and authority stores.

## 3. Runs

| Run | Instance | Shows |
| --- | --- | --- |
| `delivery` | 1 notification, 2 workers, 2 attempts, 1 replay, 1 abandoned attempt, time 0..6 | `TypeOK`, `NoOverlappingSends`, `SendBudget`, `SendsInsideCycle`, `AckWithinMarginAccepted`, `DeliveredWasAcked`, and `ImplementsOutbox`: every step is a step of `Outbox` or a stutter |
| `delivery_live` | 1 notification, 1 worker, 2 replays, 1 abandoned attempt | `EventuallySettled`, `OneReplayPerApproval` |
| `claims` | 2 agents, 1 repairer, all commands, 1 fault | `OneWinner`, `OwnerIsHolder`, `ClaimableOrOwned` (as long as nothing failed; with two agents the exception it names does not occur), `ExpiresFromLatestHeartbeat`, `RefReleased` |
| `claims_race` | 3 agents, repairs at any time | violates `OneWinner` |
| `storage_lock` | 3 processes, 2 crashes at any point, failed writes, reused pids | `MutualExclusion`, `NoLostUpdate`, `LiveLockKept`, `StaleLockRecovers` |
| `watch_queue` | 1 event, 1 route, 2 workers, 2 delivery ids, 1 tombstone, 1 crash, 1 overrun lease | `SendBudget`, `TimelyAnswerAccepted`, `TerminalMeansDone`, `CompletedStays`, `RoutesSettle` |
| `handoff_queue` | 1 event, 1 service route, 2 daemons, 2 attempts, 1 governed retry, 2 faults | `RecordsValid`, `ReceiptsAgree`, `ActiveBlobKept`, `AcceptedStays` |
| `handoff_queue_live` | 1 event, 1 service and 1 direct route, 1 daemon, 1 fault | `RoutesSettle`, `LedgersCommit` |
| `local_broker` | 1 task, 2 processes, 3 lease ids, 1 crash or failed save | `OneHolder`, `EndedStaysEnded`, `TaskReclaimed` |
| `governed_plan` | 2 calls, 2 processes, 2 actions, 2 faults | `OneExecution`, `RecordIsTrue`, `RunnerIsRecorded` |
| `governed_plan_live` | 2 calls, 2 processes, 1 action, 1 crash | `DeadExecutionReconciled` |
| `runner_control` | 2 attempts, 2 processes, dispatch ceiling 2 | `NeverReexecuted`, `EffectsSettled`, `NoOrphan`, `SettledStays` |

### Bounds

In the delivery runs the lease lasts exactly the shortest time that
`Config.Validate` accepts, so every budget is tight: one tick for the preflight,
one for the exchange, one for the commit. Two attempts allow a retry that uses up
the budget, six ticks allow an expiry, a recovery and a second lease, and one
abandoned attempt at any stage stands for a crash, a cancelled context, a failed
store call or a lost claim answer. `MayAbandon` keeps the time bound from hiding
a recovery. The properties are about one row at a time, so one notification is
enough.

In the claim runs nothing that has started is still under way after
`LastCommand`, and the clock runs at least one lease longer, so that every lease
ends; three agents are needed for a third to profit from a ref deleted under the
second (`claims_race`).

Three processes in `storage_lock` are a holder, a reclaimer and a second
reclaimer or newcomer; two crashes leave both files behind. In the queue runs two
workers are the daemon that lost its lease and the one that took over; two
attempts allow a retry and an exhausted budget; `MaxIds = 1` makes the window of
remembered delivery ids overflow; `MaxRecords` is small enough to be reached. In
`handoff_queue` two faults allow a failed write inside an acceptance and a crash
of the recovery that follows. Three lease ids in `local_broker` allow a lease, its
successor after expiry, and the one a stale process would give out. Two calls in
the plan runs compete for confirmation; a call ends and starts again, so one slot
stands for any number of calls in sequence. Two attempts in `runner_control` are
a stale session and its successor, two processes let both run at once, and a
ceiling of two failures allows both the backoff and the dead dispatch.

`CHECK_DEADLOCK FALSE` is set for the claims, where a completed Issue is an end,
and for `storage_lock`, where every process may have used its turns or died.

### Fairness

* Delivery: each worker takes its next step (`Worker.Run` restarts an iteration
  on every timer tick), the recovery loop keeps sweeping, time passes: weak
  fairness.
* Claims: a process that does not die finishes its calls, the clock advances
  (strong fairness, because the bound on the clock is off and on while commands
  are in flight), and operators keep running repairs: strong fairness of
  `RepairStart`, since under `QuietRepair` the quiet moments come and go. The last
  one is an assumption about operation, not about code: repairs are a command,
  `openslack github repair claims --apply`.
* Storage lock: a process inside the lock functions keeps going (they are
  synchronous), a lock ages, and writing the gate does not fail for ever (strong
  fairness of `WriteGate`); the routers' drain timers bring new callers.
* Watch queue: a worker keeps draining (timer), due times arrive, and the lease of
  a worker that is gone ends. A lease that ends under a running worker has no
  fairness.
* Handoff queue: draining, a pending admission and its answers, the clock, due
  times and lease ends of workers that are gone.
* Local broker: ticks are started again and again, a process in an operation
  takes its steps, leases run out; and a claim that waits infinitely often for a
  lock nobody abandoned gets it infinitely often. The last one is an assumption:
  the code polls and has no queue, so a waiting process may in principle time out
  each time.
* Governed plan: a call takes its steps; somebody asks to confirm again.
* Runner control (`LiveSpec`): time passes; a send, the wait for the hello and
  every kill are bounded in time; Go's `select` chooses among the ready cases, so
  a timer that has fired is taken although frames keep coming (strong fairness of
  the timers); the service is started again when it ends. Workers owe nothing.

Retries, crashes, failed calls and further commands have no fairness.

### What `claims_race` shows

Agent B wins the ref while a repair that has read A's expired evidence is about
to delete it. The repair deletes B's ref, C creates the ref anew, and B's final
check finds a ref of the right name: B and C are both granted. The task-loop
document says that concurrent claims have one winner.

### Limits of the code that the models show

The properties above hold with the excuses written into them. What the excuses
cover, and what other configurations kept here reproduce:

| Configuration | Property it violates | What happens |
| --- | --- | --- |
| `MC_Delivery_replay.cfg` | `ReplayTimeKept` | `updateNotification` sets `replayed_at` to NULL in every transition that is not a replay, so the first claim after a replay erases it |
| `MC_IssueClaim_heartbeat.cfg` | `ExpiresFromLatestHeartbeat` | a heartbeat recorded after a repair read the comments is confirmed to its agent, and the claim is expired all the same |
| `MC_IssueClaim_late.cfg` | `OneWinner` | a claim has expired and a second one has the ref but no comment yet; a late heartbeat of the first agent finds a ref and its own comment, is confirmed, and both agents believe they own the Issue |
| `MC_IssueClaim_lost.cfg` | `NeverLost` | the comment of an expired claim stays on the Issue; while B holds the ref and has not commented yet, C's `createRef` is refused, C takes the old comment for the owner's (`reconcileExistingClaimProjection`), drops `ready` and adds `claimed`; B finds the Issue changed and rolls its ref back. Both are denied, and the Issue has neither `ready` nor a ref: discovery does not list it and repairs, which go by refs, do not find it |
| `MC_IssueClaim_faults.cfg` | `OneWinner` | both calls that drop `ready` fail, for the winner and for its review; its completion deletes the ref of an Issue that is still ready, and another claim is granted before the completion has returned |
| `MC_WatchQueue_stuck.cfg` | `Settles` | a worker dies between recording its last route and finishing the delivery; recovery makes the delivery `retryable`, `claimNext` asks for an open route, and the record stays, neither finished nor compacted |
| `MC_HandoffQueue_redelivery.cfg` | `ObservationsConfirmed` | an event that GitHub reports again at another time differs from its record in what must not change, its admission is refused and the cursor stays |
| `MC_HandoffQueue_reconfigured.cfg` | `ActiveBlobKept` | two routes with the same Blob that are configured one after the other: the first is settled when the event is admitted again for the second, and the Blob that this admission has put is collected before its record is enqueued |
| `MC_LocalBroker_expire.cfg` | `OneHolder` | `expireLease` of a lease whose task has a newer lease frees the task; nothing in production calls it |
| `MC_GovernedPlan_stale.cfg` | `StateGraph` | two calls find the same stale lock; the slower removes, by name, the lock of the faster, and both write; `RecordIsTrue` and `RunnerIsRecorded` fail the same way, `OneExecution` does not |
| `MC_GovernedPlan_contention.cfg` | `SuccessRecorded` | an executor whose result finds the lock taken three times gives up, and its plan ends as `reconciliation_required` although all actions succeeded |
| `MC_RunnerControl_dispatch.cfg` | `DispatchCounted` | a v2 `lease_reject` and `RecoverExpired` send a job back to the queue without counting a failure or backing off, although `docs/architecture/runner-lifecycle.md` gives rejections and expiries the same ceiling |
| `MC_RunnerControl_cancel.cfg` | `CancelHonoured` | `RecoverExpired` requeues an attempt that was cancelled before it started, so a cancelled job is claimed again |

Two more configurations pass and are kept for their own sake:
`MC_HandoffQueue_admission.cfg` (2 events, 2 delivery ids, 1 or 2 direct routes,
room for 2 records: `DeliveryIdsUnique`) and `MC_RunnerControl_live.cfg`
(`AttemptsEnd`: an attempt that was offered ends, whatever happens to the worker,
the controls or the service).

Other things `RunnerControl` shows, which its properties allow: a session whose
fence is no longer current ends the whole scheduler when it records its exit
(`ExitStale`), while `runner-operations.md` only asks to terminate the old process
and to preserve the attempt with the higher fence; a queued job past its whole deadline stays queued for ever; a second
cancellation blocks every later receipt, so that the process is killed; and after
a termination that could not be proved, the lease stays `cancelling`, and once it
has expired every start of the scheduler fails in `RecoverExpired`, because the
table does not let the settled job move.

Excuses in passing properties: `StaleLockRecovers` leaves out locks of a pid that
was reused and gates that a crashed or failed reclaimer left behind, since nobody
removes a gate; a lock file whose content never reached the disk is not
reclaimable either. `TaskReclaimed` leaves out a local lock file whose creator
died. `RoutesSettle` of the watch queue leaves out two lost claims of one
delivery: they count against `maxDeliveryClaims`, and a delivery that has used
these up with a route open is not claimed again. `ClaimableOrOwned` is stated for executions without faults: a repair
that stops between deleting the ref and adding `ready` leaves an Issue that
discovery does not see (no `ready`) and later repairs do not see (no ref). It also
names the one fault-free way to lose an Issue (`DeniedOverOldComment`, see
`MC_IssueClaim_lost.cfg`), and `IssueKept` proves that there is no other. A
`createRef` whose answer is lost leaves a ref without comments, which repairs
skip: `RefReleased` is stated for refs with owner evidence.

## 4. Proofs

Eight modules hold the theorems. Each has an inductive invariant `IInv` with
`Inductive == Spec => []IInv` and `TypeCorrect == Spec => []TypeOK`; TLC checked
every invariant on small instances before it was proved. The tables list the
other theorems. Assumptions on constants are the `ASSUME`s of the component
modules; hypotheses inside a theorem are discussed with it.

### Notification delivery

`NotificationDelivery_proofs` proves, for any sets of notifications and workers
and for every value of the bounds on time, replays and abandoned attempts:

| Theorem | Statement |
| --- | --- |
| `NoOverlap` | `Spec => []NoOverlappingSends` |
| `Budget` | `Spec => []SendBudget` |
| `InsideCycle` | `Spec => []SendsInsideCycle` |
| `AckAccepted` | `Spec => []AckWithinMarginAccepted` |
| `DeliveredAcked` | `Spec => []DeliveredWasAcked` |
| `ReplayApproved` | `Spec => []OneReplayPerApproval` |
| `OutboxImplemented` | `Spec => ImplementsOutbox` |

Assumptions: `ConfigAssumption`, which is what `Config.Validate` enforces, and
`BoundsAssumption`. The latter contains one fact about scheduling rather than
code: from the last cutoff check to the send takes at most `SendDelay`, and
`SendDelay <= ResultCommitMargin`. Without it a process that sleeps between the
check and the send could send under a lost lease, and no check in the code would
notice; the commit margin is what absorbs that pause.

Argument. None of the properties is inductive. `IInv` adds:

* `LeaseInv`: an in-flight row carries its own version as lease id, an absent row
  has version 0;
* `ClaimInv`: a worker's claim is never newer than its row; while it has the
  row's version, the row is in flight with the claim's attempts and lease expiry;
  and until the lease ends nobody else writes the row;
* `UniqueInv`: two workers never hold claims of the same row with the same
  version;
* `TimeInv`: whoever is ready or sending checked the cutoffs recently enough that
  its lease and its cycle are still running. From this, and because recovery takes
  only expired leases, the claim of a sending worker is current, and by
  `UniqueInv` there is only one such worker: `NoOverlappingSends`;
* `BudgetInv`: the sends of a cycle never exceed the counted attempts, by one
  more at most while a worker with the current claim has sent and not yet
  committed. The result or the recovery counts that one;
* `AckInv`: a worker about to commit a success under the current claim has been
  acknowledged in this cycle.

The proofs go through frame lemmas (`RowFrame`, `WorkerFrame`, `HistoryFrame`,
`CurrentFrame`) that say what any step may do to one row, one worker and the
history, so that each invariant is shown against a few cases instead of every
action anew.

`ReplayApproved` needs its own invariant on top, `ReplayInv`: the replays of a row
are at most the approvals whose version the row has passed. A replay moves the
version past the approval it names, so no approval serves twice.

`OutboxImplemented` is the refinement: the initial states map to those of
`Outbox`, and `OutboxStep` shows that under `IInv` every step is an outbox step of
one notification or leaves the mapped state alone (`Hidden`). The interesting
cases are a second request, which the outbox does not allow (`UniqueInv`,
`TimeInv`), and a late commit, which must find its version gone (`ClaimInv`).

### Storage lock

`StorageLock_proofs` proves, for any set of processes, any number of turns and
crashes, with and without failing writes (`LockAssumption` only types the
constants):

| Theorem | Statement |
| --- | --- |
| `LockExcludes` | `Spec => []MutualExclusion` |
| `UpdatesSurvive` | `Spec => []NoLostUpdate` |
| `LiveLocksKept` | `Spec => LiveLockKept` |

Argument. `MutualExclusion` fails to be inductive because a reclaimer unlinks by
name. `IInv` says why the name is still right: a process that holds the lock is
named in the lock file by its current nonce (`HolderOwns`), a process inside the
reclamation is named in the gate, so there is only one (`ReclaimerOwns`); the
identity it has read belongs to a process that is dead (`SeenIsDead`), which
therefore writes nothing any more, and when it unlinks, the file is still the one
it saw (`UnlinksSeen`): nobody can create a lock while one is there, and nobody
but the gate's owner can remove a dead process's lock. `LoadedIsCurrent` and
`DeadHasEnded` connect the stored data to the holder. Lemmas separate what a
process writes (`LockWritten`, `GateWritten`, `WritesKeepOwner`), what its steps
keep (`StepType`, `StepKeeps`) and what the environment does
(`EnvironmentKeeps`).

### Runner control

`RunnerControl_proofs` proves, for any number of attempts, worker loops and
allowed dispatch failures (`RunnerAssumption` only says they are positive):

| Theorem | Statement |
| --- | --- |
| `StartedIsLast` | `Spec => []NeverReexecuted` |
| `NoOpenEffect` | `Spec => []EffectsSettled` |
| `SettledIsFinal` | `Spec => SettledStays` |
| `NoAttemptOrphaned` | `Spec => []NoOrphan` |

Argument. `NeverReexecuted` is about attempts, but what could break it is a claim,
which looks only at the job. So `Ran` adds that the job of a started attempt is
not queued: of the three paths back to the queue each asks for an unstarted
attempt, `lease_reject` indirectly, through the attempt still being on offer.
`Begun` (only an accepted attempt runs or has effects) and `Ran` put every open
effect on the current attempt, which is the only one that the code checks when it
makes a job terminal. `Offered` (a current attempt on offer has a job on offer)
is why `lease_accept` and `lease_reject`, which do not look at the job's state,
cannot revive a settled job. `Keeps` says what every step other than a claim and
an accept does to the rows; each action is shown to satisfy it, and the invariant
is shown against `Keeps`, `Claim` and `Accept` only.

`NoOrphan` is about sessions and has an invariant of its own
(`DrivenInductive == Spec => []OInv`): at most one attempt is active, and it is the
job's current one (`OneActive`); while the scheduler runs an active attempt has a
running session, and between its starts nothing runs (`Driven`); a session that
was told of a rejection or an end belongs to an attempt that is closed on record
(`Reported`), which is why it may return without recording anything; fencing
tokens not yet given out have no session (`Ahead`); and a live lease of an
unsettled job belongs to an active attempt (`Leased`), so that recovery closes the
row it reads. A recovery that comes late, to a lease that was closed after the
scan, finds a job that is queued or settled: `Ran` says that a queued job's
attempt has not started, so that it never becomes `cancelling` with no session
left to end it.

### Issue claims

`IssueClaim_proofs` proves, for any sets of claims, agents and repairers, any
lease length, commands and number of faults:

| Theorem | Statement |
| --- | --- |
| `WinnerUnique` | `Spec => [](Discipline => OneWinner)` |
| `OwnerHolds` | `Spec => [](Discipline => OwnerIsHolder)` |
| `ExpiryIsLate` | `QuietRepair => (Spec => ExpiresFromLatestHeartbeat)` |
| `IssueKept` | `QuietRepair /\ TimelyCommands => (Spec => []ClaimableOrOwned)` |

`Discipline` is `QuietRepair`, `TimelyCommands`, and no fault where completions
are in use. None of the three is enforced by the code, and each is needed:
`claims_race`, `MC_IssueClaim_late.cfg` and `MC_IssueClaim_faults.cfg` are the
counterexamples to `OneWinner` without it. Failed and lost calls and deaths of claims,
heartbeats, reviews and repairs are all covered by the theorems.

Argument. A claim stands on the Issue while its lease runs or a command begun
under it is under way. `Holders`: one claim stands, with the newest comment and
with the ref, or on an Issue that is not ready, so that nobody can take the ref
over. `Contenders`: a claim between its snapshot check and its grant has the ref
and the newest `claimed_at`; a claim that may still delete the ref by name either
has it or does so when nobody needs one. `Leases` and `Repairs` tie what an agent
was told about its lease to the comments a repair reads; in a quiet moment no
comment is added while a repair works, so what it expires is expired.

`IssueKept` rests on `Kept`, on top of `IInv` and while no call has failed: an
Issue that is neither ready nor done has the ref of a claim that will be granted
(`Taken`), has a repair that is about to make it ready (`Released`), or is
`Doomed`, where two claims end up denied over the comment of an older one. `Open`
says that as long as the Issue is ready nothing but an owner comment makes a
snapshot stale, so at least one claim gets through; `Overtaken`, `Backed`,
`Staged` and `RepairRef` say who has the ref meanwhile.

### Watch delivery queue

`WatchQueue_proofs` proves, for any keys, routes, finite set of workers and
bounds:

| Theorem | Statement |
| --- | --- |
| `WithinBudget` | `Spec => []SendBudget` |
| `TimelyAnswers` | `Spec => []TimelyAnswerAccepted` |
| `TerminalIsDone` | `Spec => []TerminalMeansDone` |
| `CompletedIsFinal` | `Spec => CompletedStays` |

Argument. `RecordOK` describes the records the operations can leave behind
(attempts within the budget, terminal deliveries without open routes); `Claims`
makes tokens of working processes distinct; `Budget` says that the sends of a
route and the attempts begun and not yet sent are within the attempts on record.
A record that is compacted away counts as having spent them all, and a token
older than a new record under the same key (`born`) cannot spend its attempts.

### Handoff queue

`HandoffQueue_proofs` proves, for any events, routes, configurations, workers,
limits and faults:

| Theorem | Statement |
| --- | --- |
| `RecordsStayValid` | `Spec => []RecordsValid` |
| `LedgerTrue` | `Spec => []ReceiptsAgree` |
| `BlobsKept` | `Spec => [](DigestsTogether => ActiveBlobKept)` |
| `AcceptedIsFinal` | `Spec => AcceptedStays` |
| `IdsUnique` | `Spec => []DeliveryIdsUnique` |
| `WithinBudget` | `Spec => []SendBudget` |

`DigestsTogether`: service records that share a Blob are of one event, and their
routes are always configured together. `MC_HandoffQueue_reconfigured.cfg` shows
that it is needed.

Argument. Every operation rewrites the queue through the maintenance of all
records, so `Kept` says what that leaves of one record, and each conjunct of the
invariant (valid records, workers that fit them, receipts, ids, the Blobs of the
admission under way, the account of sends) is shown against a description of what
a step does to one record, one worker, the receipts and the Blobs. `Fitted`
carries the acceptance: a worker between its second and third write has its
receipt in the record, and after the second also in the file.

### Local broker

`LocalBroker_proofs` proves, for any tasks, processes, leases, crashes and failed saves:

| Theorem | Statement |
| --- | --- |
| `OneHolderPerTask` | `Spec => []("expireLease" \notin Ops => OneHolder)` |
| `EndedIsFinal` | `Spec => EndedStaysEnded` |

Nothing in production calls `expireLease`; `MC_LocalBroker_expire.cfg` shows what
it would do.

Argument. The maps of a process are stale as soon as it has read them. `Excl`: the
lock file names the one process between lock and unlock. `Reads`: every lease a
process knows is in the file, so merging the file under the lock yields the file's
leases. `Saves`: what is about to be written undoes nothing of what the file
holds. `Held`: an active lease is the holder of its task, in the file and in what
is about to replace it.

### Governed plan

`GovernedPlan_proofs` proves, for any processes, calls, actions and faults:

| Theorem | Statement |
| --- | --- |
| `ActionsOnce` | `Spec => []OneExecution` |
| `RecordTrue` | `Spec => [](crashes = 0 => RecordIsTrue)` |
| `RunnerRecorded` | `Spec => [](crashes = 0 => RunnerIsRecorded)` |
| `AlongTheGraph` | `Spec => [][crashes = 0 => GraphStep]_vars` |

The last three hold until the first process dies; after that the removal of a
stale lock is a race (`MC_GovernedPlan_stale.cfg`). That the actions are begun
once survives the race.

Argument. As long as nobody has died no lock is removed by a stranger: the lock
names the call between link and unlink (`Excl`), what it has read is still the
record it replaces (`Fresh`), so the record is claimed once, only the call it
names executes and completes (`Own`, `Claimed`), and that call's stage says what
was begun (`Account`). `Sound` holds in any case: the revision of a record says
how far it has come (`Shape`), and a call about to rename has a legal transition
in hand. With deaths, `PInv` says why one call at most executes: a claim goes on
only when it finds its own lock after its rename (`Past`). Locks are linked once
per acquisition, so it has held this lock since before it read the record. The
record was pending then, so nobody was past that point, and no other claim gets
there while the lock is held; afterwards the record is at revision 2 or more for
good, whichever call overwrites it, and no claim reads it pending again.

### Only model-checked

The liveness properties, which are outside the prover's reach (fairness and
`ENABLED`): `EventuallySettled`, `RefReleased`, `StaleLockRecovers`,
`RoutesSettle` of both queues, `LedgersCommit`, `TaskReclaimed`,
`DeadExecutionReconciled`, and `AttemptsEnd` in `MC_RunnerControl_live.cfg`. The
properties that are violated (`claims_race` and the table above) have no theorem;
`RecordIsTrue`, `RunnerIsRecorded`, `StateGraph`, `ActiveBlobKept`, `OneWinner`
and `OwnerIsHolder` are proved under the hypotheses that the counterexamples call
for.

## 5. Plan

In this order, each with its runs and, where stated, its theorems:

1. `RunnerControl`: the resuming `lease_accept`, submission and drains; several
   jobs over the scheduler's process slots, with `NoOrphan` proved for them.
2. Proofs: with what a call may still overwrite after a death, the weaker form of
   `RecordIsTrue` that survives it; `RefReleased` and the other liveness
   properties cut down to the invariants they rest on (an abandoned claim is
   always one that repair can see).
3. `WorkflowRun`: run store, checkpoints, resumption, effect approvals.
4. The cleanup broker's ledger; the server side of governed plans.
5. `MergeDecision`: the kernel's zone policy and the merge gates as operators,
   checked against a reference over bounded inputs.

Not modelled, and not planned: rendering and command-line parts, parsers, the
SSRF address policy, generated contract mirrors, chat adapters, the organization
graph's pure queries: they keep no state that several actors share, or are pure
data transformations better served by tests. The notification API, caller access
and the vendor registry are request handling around rows that `NotificationStore`
already models.
