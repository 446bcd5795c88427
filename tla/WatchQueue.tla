----------------------------- MODULE WatchQueue -----------------------------
(***************************************************************************)
(* The durable delivery queue of the GitHub watch daemon (packages/github/ *)
(* src/watch-delivery-queue.ts) and the router that drains it              *)
(* (watch-delivery-router.ts).                                             *)
(*                                                                         *)
(* An observed event is enqueued once, under its stable key, with one      *)
(* route per configured sink.  A worker claims a delivery under a lease,   *)
(* refreshes the live state of the object, sends each due route and        *)
(* records each answer, and finishes the delivery.  Every operation is a   *)
(* load-modify-persist under the storage lock (StorageLock), so it is one  *)
(* step here; it first recovers expired leases and drops old terminal      *)
(* records, and an operation that throws persists nothing, that            *)
(* maintenance included.                                                   *)
(*                                                                         *)
(* Times are kept as what the operations compare: due or later, a lease    *)
(* held or over, a terminal record fresh or past its retention.            *)
(***************************************************************************)
EXTENDS Naturals, FiniteSets

CONSTANTS
    Keys,          \* stable keys of events
    Ids,           \* GitHub delivery ids
    Routes,        \* route keys
    Workers,       \* processes that drain the queue
    NeedsRefresh,  \* keys whose live state is fetched first (not issue or push)
    Legacy,        \* tombstones of the legacy dedupe file: [key, id]
    MaxAttempts,   \* policy.maxAttempts
    MaxRecords,    \* policy.maxRecords
    MaxIds,        \* delivery ids remembered per record (64 in the code)
    MaxEvents,     \* bound: calls of claimAndEnqueue
    MaxCrashes,    \* bound: workers that die
    MaxSlow        \* bound: leases that end while their worker still runs

ASSUME QueueAssumption ==
    /\ MaxAttempts \in Nat \ {0}
    /\ MaxRecords \in Nat /\ MaxIds \in Nat /\ MaxEvents \in Nat
    /\ MaxCrashes \in Nat /\ MaxSlow \in Nat
    /\ IsFiniteSet(Routes) /\ IsFiniteSet(Keys) /\ IsFiniteSet(Workers)
    /\ NeedsRefresh \subseteq Keys
    /\ Legacy \subseteq [key: Keys, id: Ids]

VARIABLES
    queue,     \* delivery-state.v1.json: the delivery of each key
    tombs,     \* legacy tombstones that are still retained
    worker,    \* what each worker is doing
    tokens,    \* lease tokens handed out so far
    born,      \* history: value of tokens when the record of a key was created
    sends,     \* history: requests sent for the record of a key, per route
    events,    \* number of calls of claimAndEnqueue
    crashes,
    slow

vars == <<queue, tombs, worker, tokens, born, sends, events, crashes, slow>>

Times          == {"due", "later"}
Active         == {"pending", "retryable"}
Terminal       == {"completed", "failed"}
RouteStates    == {"none", "processing"} \cup Active \cup Terminal
DeliveryStates == {"absent", "processing"} \cup Active \cup Terminal

Route == [state: RouteStates, attempts: Nat, when: Times]

Delivery ==
    [state: DeliveryStates, attempts: Nat, refreshes: Nat, when: Times,
     token: Nat, lease: {"none", "held", "over"}, age: {"fresh", "expired"},
     ids: SUBSET Ids, routes: [Routes -> Route]]

NoRoute == [state |-> "none", attempts |-> 0, when |-> "due"]

Absent ==
    [state |-> "absent", attempts |-> 0, refreshes |-> 0, when |-> "due",
     token |-> 0, lease |-> "none", age |-> "fresh",
     ids |-> {}, routes |-> [r \in Routes |-> NoRoute]]

Stages == {"idle", "refresh", "routes", "begun", "sending", "answered"}

Answers == {"none", "ok", "retryable", "failed"}

Idle(k, r) == [stage |-> "idle", key |-> k, token |-> 0, todo |-> {}, route |-> r, answer |-> "none"]

Init ==
    /\ queue = [k \in Keys |-> Absent]
    /\ tombs = Legacy
    /\ worker \in [Workers -> {Idle(k, r) : k \in Keys, r \in Routes}]
    /\ tokens = 0
    /\ born = [k \in Keys |-> 0]
    /\ sends = [k \in Keys |-> [r \in Routes |-> 0]]
    /\ events = 0
    /\ crashes = 0
    /\ slow = 0

----------------------------------------------------------------------------
(* Maintenance: what every operation does to the loaded state first *)

RoutesOf(d) == {r \in Routes : d.routes[r].state # "none"}

MaxDeliveryClaims(d) == MaxAttempts * (Cardinality(RoutesOf(d)) + 1)

(* failIncompleteRoutes *)
FailIncomplete(routes) ==
    [r \in Routes |-> IF routes[r].state \in {"processing"} \cup Active
                      THEN [routes[r] EXCEPT !.state = "failed", !.when = "due"]
                      ELSE routes[r]]

(* Mutant: every route that has not failed is opened again. *)
RecoveredRoute_All(route) ==
    IF route.state \in {"none", "failed"} THEN route
    ELSE [route EXCEPT !.state = IF route.attempts >= MaxAttempts THEN "failed" ELSE "retryable", !.when = "due"]

(* Mutant: an attempt whose outcome is unknown is not counted. *)
RecoveredRoute_Uncounted(route) ==
    IF route.state # "processing" THEN route
    ELSE [route EXCEPT !.state = "retryable", !.attempts = @ - 1, !.when = "due"]

(* Mutant: only the delivery is released. *)
RecoveredRoute_Ignored(route) == route

RecoveredRoute(route) ==
    IF route.state # "processing" THEN route
    ELSE [route EXCEPT
            !.state = IF route.attempts >= MaxAttempts THEN "failed" ELSE "retryable",
            !.when = "due"]

(* Mutant: the routes of an exhausted delivery are left as they are. *)
Recovered_KeepsRoutes(d) ==
    IF d.state # "processing" \/ d.lease # "over" THEN d
    ELSE [d EXCEPT
            !.state = IF d.attempts >= MaxDeliveryClaims(d) THEN "failed" ELSE "retryable",
            !.when = "due", !.lease = "none", !.token = 0,
            !.routes = [r \in Routes |-> RecoveredRoute(d.routes[r])]]

(* recoverExpired for one delivery *)
Recovered(d) ==
    LET routes    == [r \in Routes |-> RecoveredRoute(d.routes[r])]
        exhausted == d.attempts >= MaxDeliveryClaims(d)
    IN  IF d.state # "processing" \/ d.lease # "over" THEN d
        ELSE [d EXCEPT
                !.state = IF exhausted THEN "failed" ELSE "retryable",
                !.when = "due", !.lease = "none", !.token = 0,
                !.routes = IF exhausted THEN FailIncomplete(routes) ELSE routes]

(* compactState for one delivery: only terminal records have a terminalAt *)
Compacted(d) ==
    IF d.state \in Terminal /\ d.age = "expired" THEN Absent ELSE d

Maintained == [k \in Keys |-> Compacted(Recovered(queue[k]))]

(* mutate: the operation works on the maintained state, and what it makes   *)
(* of the delivery of one key is persisted with the rest.                   *)
Persist(k, d) == queue' = [Maintained EXCEPT ![k] = d]

----------------------------------------------------------------------------
(* Admission: claimAndEnqueue *)

NewDelivery(rs, ids) ==
    [Absent EXCEPT
       !.state = IF rs = {} THEN "completed" ELSE "pending",
       !.ids = ids,
       !.routes = [r \in Routes |-> IF r \in rs THEN [NoRoute EXCEPT !.state = "pending"] ELSE NoRoute]]

(* DELIVERY_ID_CONFLICT: the delivery id is known for another key. *)
Conflicting(k, ids) ==
    \/ \E j \in Keys \ {k} : Maintained[j].ids \cap ids # {}
    \/ Maintained[k].state = "absent" /\ \E t \in tombs : t.id \in ids /\ t.key # k

Present == {k \in Keys : Maintained[k].state # "absent"}

(* A duplicate teaches the record one more delivery id, up to the limit. *)
Remembered(d, ids) ==
    IF Cardinality(d.ids) < MaxIds THEN [d EXCEPT !.ids = @ \cup ids] ELSE d

(* validateQueueState: no delivery id is shared with a tombstone. *)
Valid(d) == \A t \in tombs : t.id \notin d.ids

(* An event arrives by webhook (ids holds its delivery id) or by poll (ids  *)
(* is empty); rs are the routes the configuration gives it.                 *)
ClaimAndEnqueue(k, rs, ids) ==
    LET known    == Maintained[k].state # "absent"
        conflict == Conflicting(k, ids)
        legacy   == \E t \in tombs : t.key = k
        fresh    == ~known /\ ~conflict /\ ~legacy
        taught   == Remembered(Maintained[k], ids)
    IN  /\ events < MaxEvents
        /\ events' = events + 1
        /\ \/ /\ conflict \/ (~known /\ legacy)
              /\ queue' = Maintained
              /\ UNCHANGED <<born, sends>>
           \/ /\ known /\ ~conflict /\ Valid(taught)
              /\ Persist(k, taught)
              /\ UNCHANGED <<born, sends>>
           \/ /\ fresh /\ Cardinality(Present) < MaxRecords
              /\ Persist(k, NewDelivery(rs, ids))
              /\ born' = [born EXCEPT ![k] = tokens]
              /\ sends' = [sends EXCEPT ![k] = [r \in Routes |-> 0]]
           \/ /\ \/ known /\ ~conflict /\ ~Valid(taught)
                 \/ fresh /\ Cardinality(Present) >= MaxRecords
              /\ UNCHANGED <<queue, born, sends>>
        /\ UNCHANGED <<tombs, worker, tokens, crashes, slow>>

----------------------------------------------------------------------------
(* Claiming *)

Sendable(route) ==
    route.state \in Active /\ route.when = "due" /\ route.attempts < MaxAttempts

Claimable(d) ==
    /\ d.state \in Active
    /\ d.when = "due"
    /\ d.attempts < MaxDeliveryClaims(d)
    /\ \E r \in Routes : Sendable(d.routes[r])

(* claimNext; the worker keeps a copy of the delivery, of which it uses     *)
(* which routes were unfinished.                                            *)
ClaimNext(w) ==
    /\ worker[w].stage = "idle"
    /\ \E k \in Keys :
         LET d == Maintained[k]
         IN  /\ Claimable(d)
             /\ Persist(k, [d EXCEPT !.state = "processing", !.attempts = @ + 1,
                                     !.lease = "held", !.token = tokens + 1])
             /\ worker' = [worker EXCEPT
                  ![w].stage = IF k \in NeedsRefresh THEN "refresh" ELSE "routes",
                  ![w].key = k,
                  ![w].token = tokens + 1,
                  ![w].todo = {r \in Routes : d.routes[r].state \in Active}]
    /\ tokens' = tokens + 1
    /\ UNCHANGED <<tombs, born, sends, events, crashes, slow>>

(* A drain that finds nothing to claim still persists the maintenance. *)
NothingToClaim(w) ==
    /\ worker[w].stage = "idle"
    /\ \A k \in Keys : ~Claimable(Maintained[k])
    /\ queue' = Maintained
    /\ UNCHANGED <<tombs, worker, tokens, born, sends, events, crashes, slow>>

(* Mutant: any lease will do. *)
HoldsLease_AnyToken(w) == Maintained[worker[w].key].state = "processing"

(* requireLease *)
HoldsLease(w) ==
    /\ Maintained[worker[w].key].state = "processing"
    /\ Maintained[worker[w].key].token = worker[w].token

(* The claim and what the worker knew of it are forgotten. *)
Stop(w) == worker' = [worker EXCEPT ![w] = Idle(worker[w].key, worker[w].route)]

(* An operation of a worker whose lease is gone throws, which ends the      *)
(* drain and persists nothing.                                              *)
LeaseLost(w) ==
    /\ worker[w].stage \in Stages \ {"idle", "sending"}
    /\ ~HoldsLease(w)
    /\ Stop(w)
    /\ UNCHANGED <<queue, tombs, tokens, born, sends, events, crashes, slow>>

----------------------------------------------------------------------------
(* Processing a claim *)

Refreshed(w) ==
    /\ worker[w].stage = "refresh"
    /\ worker' = [worker EXCEPT ![w].stage = "routes"]
    /\ UNCHANGED <<queue, tombs, tokens, born, sends, events, crashes, slow>>

(* A delivery without lease, in a state that a worker leaves it in. *)
Settled(d, state) == [d EXCEPT !.state = state, !.lease = "none", !.token = 0]

(* retryDelivery and failDelivery: the live state could not be read. *)
RefreshFails(w) ==
    LET k == worker[w].key
        d == Maintained[k]
        failed == [Settled(d, "failed") EXCEPT !.when = "due", !.routes = FailIncomplete(d.routes)]
    IN  /\ worker[w].stage = "refresh"
        /\ HoldsLease(w)
        /\ \/ Persist(k, IF d.refreshes + 1 >= MaxAttempts
                         THEN [failed EXCEPT !.refreshes = @ + 1]
                         ELSE [Settled(d, "retryable") EXCEPT !.when = "later", !.refreshes = @ + 1])
           \/ Persist(k, failed)
        /\ Stop(w)
        /\ UNCHANGED <<tombs, tokens, born, sends, events, crashes, slow>>

(* beginRouteAttempt counts the attempt before the request goes out; a      *)
(* route that is not due yet is passed over.                                *)
BeginRouteAttempt(w, r) ==
    LET k == worker[w].key
        d == Maintained[k]
    IN  /\ worker[w].stage = "routes"
        /\ r \in worker[w].todo
        /\ HoldsLease(w)
        /\ IF Sendable(d.routes[r])
           THEN /\ Persist(k, [d EXCEPT !.routes[r].state = "processing", !.routes[r].attempts = @ + 1])
                /\ worker' = [worker EXCEPT ![w].stage = "begun", ![w].route = r, ![w].todo = @ \ {r}]
           ELSE /\ queue' = Maintained
                /\ worker' = [worker EXCEPT ![w].todo = @ \ {r}]
        /\ UNCHANGED <<tombs, tokens, born, sends, events, crashes, slow>>

(* sink.send; requests of workers whose record is gone are not counted. *)
Send(w) ==
    LET k == worker[w].key
    IN  /\ worker[w].stage = "begun"
        /\ worker' = [worker EXCEPT ![w].stage = "sending"]
        /\ sends' = IF worker[w].token > born[k]
                    THEN [sends EXCEPT ![k][worker[w].route] = @ + 1]
                    ELSE sends
        /\ UNCHANGED <<queue, tombs, tokens, born, events, crashes, slow>>

(* The answer of the sink, or no configured sink at all. *)
SinkAnswers(w) ==
    /\ \/ /\ worker[w].stage = "sending"
          /\ \E a \in Answers \ {"none"} :
               worker' = [worker EXCEPT ![w].stage = "answered", ![w].answer = a]
       \/ /\ worker[w].stage = "begun"
          /\ worker' = [worker EXCEPT ![w].stage = "answered", ![w].answer = "failed"]
    /\ UNCHANGED <<queue, tombs, tokens, born, sends, events, crashes, slow>>

(* What markRouteCompleted, markRouteRetryable and markRouteFailed write. *)
Marked(route, answer) ==
    IF answer = "ok" THEN [route EXCEPT !.state = "completed"]
    ELSE IF answer = "failed" \/ route.attempts >= MaxAttempts
    THEN [route EXCEPT !.state = "failed", !.when = "due"]
    ELSE [route EXCEPT !.state = "retryable", !.when = "later"]

MarkRoute(w) ==
    LET k == worker[w].key
        d == Maintained[k]
        r == worker[w].route
    IN  /\ worker[w].stage = "answered"
        /\ HoldsLease(w)
        /\ d.routes[r].state = "processing"
        /\ Persist(k, [d EXCEPT !.routes[r] = Marked(@, worker[w].answer)])
        /\ worker' = [worker EXCEPT ![w].stage = "routes", ![w].answer = "none"]
        /\ UNCHANGED <<tombs, tokens, born, sends, events, crashes, slow>>

(* The delivery after its routes have been tried, with what is left open. *)
Finished(d) ==
    LET open == {r \in RoutesOf(d) : d.routes[r].state \notin Terminal}
    IN  IF \A r \in RoutesOf(d) : d.routes[r].state = "completed"
        THEN [Settled(d, "completed") EXCEPT !.when = "due"]
        ELSE IF open = {}
        THEN [Settled(d, "failed") EXCEPT !.when = "due"]
        ELSE [Settled(d, "retryable") EXCEPT
                !.when = IF \E r \in open : d.routes[r].when = "due" THEN "due" ELSE "later"]

FinishDelivery(w) ==
    LET k == worker[w].key
    IN  /\ worker[w].stage = "routes"
        /\ worker[w].todo = {}
        /\ HoldsLease(w)
        /\ Persist(k, Finished(Maintained[k]))
        /\ Stop(w)
        /\ UNCHANGED <<tombs, tokens, born, sends, events, crashes, slow>>

----------------------------------------------------------------------------
(* The environment: crashes and time *)

(* A process dies; the one that replaces it knows nothing of the claim. *)
Crash(w) ==
    /\ worker[w].stage # "idle"
    /\ crashes < MaxCrashes
    /\ crashes' = crashes + 1
    /\ Stop(w)
    /\ UNCHANGED <<queue, tombs, tokens, born, sends, events, slow>>

Working(k) ==
    \E w \in Workers : worker[w].stage # "idle" /\ worker[w].key = k /\ worker[w].token = queue[k].token

LeaseExpires(k) ==
    /\ queue[k].lease = "held"
    /\ queue' = [queue EXCEPT ![k].lease = "over"]
    /\ IF Working(k) THEN slow < MaxSlow /\ slow' = slow + 1 ELSE slow' = slow
    /\ UNCHANGED <<tombs, worker, tokens, born, sends, events, crashes>>

RouteDue(k, r) ==
    /\ queue[k].routes[r].when = "later"
    /\ queue' = [queue EXCEPT ![k].routes[r].when = "due"]
    /\ UNCHANGED <<tombs, worker, tokens, born, sends, events, crashes, slow>>

DeliveryDue(k) ==
    /\ queue[k].when = "later"
    /\ queue' = [queue EXCEPT ![k].when = "due"]
    /\ UNCHANGED <<tombs, worker, tokens, born, sends, events, crashes, slow>>

(* completedRetentionMs or failedRetentionMs pass. *)
RetentionEnds(k) ==
    /\ queue[k].state \in Terminal
    /\ queue[k].age = "fresh"
    /\ queue' = [queue EXCEPT ![k].age = "expired"]
    /\ UNCHANGED <<tombs, worker, tokens, born, sends, events, crashes, slow>>

(* A tombstone past its retention is invisible to every operation. *)
TombstoneEnds ==
    /\ \E t \in tombs : tombs' = tombs \ {t}
    /\ UNCHANGED <<queue, worker, tokens, born, sends, events, crashes, slow>>

----------------------------------------------------------------------------
WorkerStep(w) ==
    \/ ClaimNext(w) \/ NothingToClaim(w) \/ LeaseLost(w)
    \/ Refreshed(w) \/ RefreshFails(w)
    \/ \E r \in Routes : BeginRouteAttempt(w, r)
    \/ Send(w) \/ SinkAnswers(w) \/ MarkRoute(w) \/ FinishDelivery(w)

IdSets == {{}} \cup {{i} : i \in Ids}

TimePasses(k) ==
    LeaseExpires(k) \/ DeliveryDue(k) \/ RetentionEnds(k) \/ \E r \in Routes : RouteDue(k, r)

Next ==
    \/ \E k \in Keys, rs \in SUBSET Routes, ids \in IdSets : ClaimAndEnqueue(k, rs, ids)
    \/ \E w \in Workers : WorkerStep(w) \/ Crash(w)
    \/ \E k \in Keys : TimePasses(k)
    \/ TombstoneEnds

Spec == Init /\ [][Next]_vars

(* The drain timer keeps every worker going, and time passes; only the      *)
(* lease of a worker that is gone is sure to end.                           *)
FairSpec ==
    /\ Spec
    /\ \A w \in Workers : WF_vars(WorkerStep(w))
    /\ \A k \in Keys :
         /\ WF_vars(~Working(k) /\ LeaseExpires(k))
         /\ WF_vars(DeliveryDue(k))
         /\ \A r \in Routes : WF_vars(RouteDue(k, r))

----------------------------------------------------------------------------
(* Properties *)

WorkerRecords ==
    [stage: Stages, key: Keys, token: Nat, todo: SUBSET Routes, route: Routes, answer: Answers]

TypeOK ==
    /\ queue \in [Keys -> Delivery]
    /\ tombs \subseteq [key: Keys, id: Ids]
    /\ worker \in [Workers -> WorkerRecords]
    /\ tokens \in Nat
    /\ born \in [Keys -> Nat]
    /\ sends \in [Keys -> [Routes -> Nat]]
    /\ events \in Nat /\ crashes \in Nat /\ slow \in Nat

(* No route of a record is sent more than maxAttempts times, although       *)
(* workers die between counting an attempt and recording its outcome and    *)
(* leases are recovered in between.                                         *)
SendBudget == \A k \in Keys, r \in Routes : sends[k][r] <= MaxAttempts

(* While a lease is held, the attempt of its worker is the one the queue    *)
(* calls processing, so that no other worker's operation can make           *)
(* markRouteCompleted refuse the answer of a timely send.                   *)
TimelyAnswerAccepted ==
    \A w \in Workers :
        LET d == queue[worker[w].key]
        IN  /\ worker[w].stage \in {"begun", "sending", "answered"}
            /\ d.state = "processing" /\ d.token = worker[w].token
            => d.routes[worker[w].route].state = "processing"

(* Nothing is dropped: a delivery is terminal, and may then be compacted,   *)
(* only when each of its routes is; a completed one has delivered them all. *)
TerminalMeansDone ==
    \A k \in Keys : \A r \in RoutesOf(queue[k]) :
        /\ queue[k].state = "completed" => queue[k].routes[r].state = "completed"
        /\ queue[k].state = "failed" => queue[k].routes[r].state \in Terminal

(* A completed route is neither reopened nor attempted again while its      *)
(* record exists, whatever other routes and recoveries do.                  *)
CompletedStays ==
    [][\A k \in Keys, r \in Routes :
          /\ queue[k].routes[r].state = "completed"
          /\ queue'[k].state # "absent" /\ born'[k] = born[k]
          => queue'[k].routes[r] = queue[k].routes[r]]_vars

(* Every route of an enqueued delivery ends completed or failed (or is      *)
(* gone with its record), unless two of its claims were lost to a crash or  *)
(* an overrun lease: lost claims count against maxDeliveryClaims.           *)
RoutesSettle ==
    \A k \in Keys, r \in Routes :
        (queue[k].routes[r].state \in Active)
            ~> (queue[k].routes[r].state \in Terminal \cup {"none"} \/ crashes + slow > 1)

(* Every enqueued delivery ends completed or failed, so that its record is  *)
(* compacted in the end and frees its place in the queue.                   *)
Settles ==
    \A k \in Keys :
        (queue[k].state \in Active) ~> (queue[k].state \in Terminal \cup {"absent"})
=============================================================================
