------------------------- MODULE WatchQueue_proofs -------------------------
(***************************************************************************)
(* For any keys, routes, workers and bounds: the types of WatchQueue, the  *)
(* send budget of a route, the acceptance of a timely answer, that what is *)
(* terminal is done, and that a completed route stays completed.           *)
(*                                                                         *)
(* The invariant is about single records (RecordOK), the tokens of the     *)
(* workers (Claims), the attempts in progress (TimelyAnswerAccepted) and   *)
(* the account of requests (Budget): what was sent and what may still be   *)
(* sent is covered by the attempts on record.  Most operations are quiet:  *)
(* they carry every record on without touching an attempt in progress.     *)
(* claimNext, beginRouteAttempt and the marking of a route write under a   *)
(* lease (LeaseWrite); a request and a new record move the account.        *)
(***************************************************************************)
EXTENDS WatchQueue, FiniteSetTheorems, TLAPS

----------------------------------------------------------------------------
(* One record *)

\* What the routes of a terminal record, or of one that is gone, look like.
TerminalDone(d) ==
    \A r \in Routes :
        /\ d.state = "completed" => d.routes[r].state \in {"none", "completed"}
        /\ d.state = "failed" => d.routes[r].state \in {"none", "completed", "failed"}
        /\ d.state = "absent" => d.routes[r].state = "none"

\* A route of a record created at token b, when t tokens are out: its attempts
\* are within the budget, it is postponed only while retryable, and it was
\* completed under some lease.
RouteOK(route, b, t) ==
    /\ route.attempts <= MaxAttempts
    /\ route.when = "later" => route.state = "retryable"
    /\ route.state = "completed" => b < t

\* All routes of a record.
RoutesOK(routes, b, t) == \A r \in Routes : RouteOK(routes[r], b, t)

\* A lease was taken after its record was created.
LeaseOK(d, b, t) == b <= t /\ (d.state = "processing" => b < d.token /\ d.token <= t)

\* A record of the queue that was created when b tokens were out.
RecordOK(d, b, t) ==
    /\ d \in Delivery
    /\ LeaseOK(d, b, t)
    /\ TerminalDone(d)
    /\ RoutesOK(d.routes, b, t)

(* What an operation may make of the routes of a record. *)
RouteGrows(a, b) ==
    /\ a.attempts <= b.attempts
    /\ a.state = "completed" => b = a

\* What every step does to a record: it is dropped, or its routes only advance.
Grows(d, e) == e.state = "absent" \/ (d.state # "absent" /\ \A r \in Routes : RouteGrows(d.routes[r], e.routes[r]))

\* The record of a key that has none is well-formed.
LEMMA AbsentType == Absent \in Delivery /\ NoRoute \in Route
  <1>1. NoRoute \in Route
    BY DEF NoRoute, Route, RouteStates, Times
  <1>2. QED
    BY <1>1 DEF Absent, Delivery, DeliveryStates, Times

\* It satisfies the invariant of records.
LEMMA AbsentOK ==
    ASSUME NEW b \in Nat, NEW t \in Nat, b <= t
    PROVE  RecordOK(Absent, b, t)
  <1>1. \A r \in Routes : Absent.routes[r] = NoRoute
    BY DEF Absent
  <1>2. Absent.state = "absent"
    BY DEF Absent
  <1>3. RouteOK(NoRoute, b, t) /\ NoRoute.state = "none"
    BY QueueAssumption DEF RouteOK, NoRoute
  <1>4. QED
    BY <1>1, <1>2, <1>3, AbsentType DEF RecordOK, LeaseOK, TerminalDone, RoutesOK

\* A route with a new state and time.
SetRoute(x, s, w) == [x EXCEPT !.state = s, !.when = w]

\* What writing state and time changes of a route.
LEMMA RouteField ==
    ASSUME NEW x \in Route, NEW s \in RouteStates, NEW w \in Times
    PROVE  /\ SetRoute(x, s, w) \in Route
           /\ SetRoute(x, s, w).state = s
           /\ SetRoute(x, s, w).when = w
           /\ SetRoute(x, s, w).attempts = x.attempts
  BY DEF SetRoute, Route

\* A route that is not completed may be failed or made retryable at once.
LEMMA RouteSetOK ==
    ASSUME NEW x \in Route, NEW b \in Nat, NEW t \in Nat, RouteOK(x, b, t), x.state # "completed",
           NEW s \in {"failed", "retryable"}
    PROVE  /\ SetRoute(x, s, "due") \in Route
           /\ SetRoute(x, s, "due").state = s
           /\ RouteOK(SetRoute(x, s, "due"), b, t)
           /\ RouteGrows(x, SetRoute(x, s, "due"))
  <1>1. s \in RouteStates /\ "due" \in Times /\ x.attempts \in Nat
    BY DEF RouteStates, Active, Terminal, Times, Route
  <1>2. /\ SetRoute(x, s, "due") \in Route
        /\ SetRoute(x, s, "due").state = s
        /\ SetRoute(x, s, "due").when = "due"
        /\ SetRoute(x, s, "due").attempts = x.attempts
    BY <1>1, RouteField
  <1>3. QED
    BY <1>1, <1>2 DEF RouteOK, RouteGrows

\* failIncompleteRoutes leaves only terminal routes and touches no completed one.
LEMMA FailIncompleteOK ==
    ASSUME NEW routes \in [Routes -> Route], NEW b \in Nat, NEW t \in Nat, RoutesOK(routes, b, t)
    PROVE  /\ FailIncomplete(routes) \in [Routes -> Route]
           /\ RoutesOK(FailIncomplete(routes), b, t)
           /\ \A r \in Routes : /\ RouteGrows(routes[r], FailIncomplete(routes)[r])
                                /\ FailIncomplete(routes)[r].state \in {"none", "completed", "failed"}
  <1> DEFINE F(x) == IF x.state \in {"processing"} \cup Active
                     THEN SetRoute(x, "failed", "due") ELSE x
  <1>1. ASSUME NEW x \in Route, RouteOK(x, b, t)
        PROVE  F(x) \in Route /\ RouteOK(F(x), b, t) /\ RouteGrows(x, F(x))
               /\ F(x).state \in {"none", "completed", "failed"}
    <2>1. CASE x.state \in {"processing"} \cup Active
      BY <1>1, <2>1, RouteSetOK DEF Active
    <2>2. CASE x.state \notin {"processing"} \cup Active
      BY <1>1, <2>2 DEF RouteGrows, Route, RouteStates, Terminal
    <2>3. QED
      BY <2>1, <2>2
  <1>2. FailIncomplete(routes) = [r \in Routes |-> F(routes[r])]
    BY DEF FailIncomplete, SetRoute
  <1> HIDE DEF F
  <1>3. QED
    BY <1>1, <1>2 DEF RoutesOK

\* Recovery gives an interrupted attempt back without uncounting it.
LEMMA RecoveredRoutesOK ==
    ASSUME NEW routes \in [Routes -> Route], NEW b \in Nat, NEW t \in Nat, RoutesOK(routes, b, t),
           NEW next, next = [r \in Routes |-> RecoveredRoute(routes[r])]
    PROVE  /\ next \in [Routes -> Route]
           /\ RoutesOK(next, b, t)
           /\ \A r \in Routes : RouteGrows(routes[r], next[r])
  <1>1. ASSUME NEW x \in Route, RouteOK(x, b, t)
        PROVE  RecoveredRoute(x) \in Route /\ RouteOK(RecoveredRoute(x), b, t) /\ RouteGrows(x, RecoveredRoute(x))
    <2> DEFINE s == IF x.attempts >= MaxAttempts THEN "failed" ELSE "retryable"
    <2>1. s \in {"failed", "retryable"}
      OBVIOUS
    <2>2. RecoveredRoute(x) = IF x.state # "processing" THEN x ELSE SetRoute(x, s, "due")
      BY DEF RecoveredRoute, SetRoute
    <2> HIDE DEF s
    <2>3. CASE x.state = "processing"
      BY <1>1, <2>1, <2>2, <2>3, RouteSetOK
    <2>4. CASE x.state # "processing"
      BY <1>1, <2>2, <2>4 DEF RouteGrows, Route
    <2>5. QED
      BY <2>3, <2>4
  <1>2. QED
    BY <1>1 DEF RoutesOK

(* A record with new routes, unleased *)
Update(d, s, w, rs) ==
    [d EXCEPT !.state = s, !.when = w, !.lease = "none", !.token = 0, !.routes = rs]

\* What such a write changes.
LEMMA Updated ==
    ASSUME NEW d \in Delivery, NEW s \in DeliveryStates, NEW w \in Times, NEW rs \in [Routes -> Route]
    PROVE  /\ Update(d, s, w, rs) \in Delivery
           /\ Update(d, s, w, rs).state = s
           /\ Update(d, s, w, rs).routes = rs
  BY DEF Delivery, Update

\* recoverExpired keeps a record in order, and one that is still leased as it is.
LEMMA RecoveredOK ==
    ASSUME NEW d, NEW b \in Nat, NEW t \in Nat, RecordOK(d, b, t)
    PROVE  /\ RecordOK(Recovered(d), b, t)
           /\ Grows(d, Recovered(d))
           /\ Recovered(d).state = "processing" => Recovered(d) = d
           /\ Recovered(d).state = "absent" => d.state = "absent"
  <1> DEFINE routes == [r \in Routes |-> RecoveredRoute(d.routes[r])]
             exhausted == d.attempts >= MaxDeliveryClaims(d)
             s == IF exhausted THEN "failed" ELSE "retryable"
             rs == IF exhausted THEN FailIncomplete(routes) ELSE routes
             e == Update(d, s, "due", rs)
  <1>0. d \in Delivery /\ d.routes \in [Routes -> Route] /\ RoutesOK(d.routes, b, t)
    BY DEF RecordOK, Delivery
  <1>1. CASE d.state # "processing" \/ d.lease # "over"
    <2>1. Recovered(d) = d
      BY <1>1 DEF Recovered
    <2>2. QED
      BY <2>1, <1>0 DEF Grows, RouteGrows, Delivery, Route
  <1>2. CASE ~(d.state # "processing" \/ d.lease # "over")
    <2>1. Recovered(d) = e
      BY <1>2 DEF Recovered, Update
    <2>2. /\ routes \in [Routes -> Route]
          /\ RoutesOK(routes, b, t)
          /\ \A r \in Routes : RouteGrows(d.routes[r], routes[r])
      BY <1>0, RecoveredRoutesOK
    <2> HIDE DEF routes
    <2>3. /\ rs \in [Routes -> Route]
          /\ RoutesOK(rs, b, t)
          /\ \A r \in Routes : RouteGrows(routes[r], rs[r])
          /\ s = "failed" => \A r \in Routes : rs[r].state \in {"none", "completed", "failed"}
          /\ s \in {"failed", "retryable"}
      BY <2>2, FailIncompleteOK DEF RouteGrows, Route
    <2> HIDE DEF s, rs
    <2>4. e \in Delivery /\ e.state = s /\ e.routes = rs
      <3>1. s \in DeliveryStates /\ "due" \in Times
        BY <2>3 DEF DeliveryStates, Times, Active, Terminal
      <3>2. QED
        BY <1>0, <2>3, <3>1, Updated
    <2>5. \A r \in Routes : RouteGrows(d.routes[r], rs[r])
      BY <2>2, <2>3, <1>0 DEF RouteGrows, Route
    <2> HIDE DEF e
    <2>6. RecordOK(e, b, t)
      <3>1. LeaseOK(e, b, t)
        BY <2>3, <2>4 DEF RecordOK, LeaseOK
      <3>2. QED
        BY <3>1, <2>3, <2>4 DEF RecordOK, TerminalDone
    <2>7. QED
      <3>1. d.state = "processing" /\ e.state # "processing" /\ e.state # "absent"
        BY <1>2, <2>3, <2>4
      <3>2. Grows(d, e)
        BY <2>4, <2>5, <3>1 DEF Grows
      <3>3. QED
        BY <2>1, <2>6, <3>1, <3>2
  <1>3. QED
    BY <1>1, <1>2

\* A record that is leased afterwards was so before, under the same token, with
\* the same attempts in progress.
KeepsLease(d, e) ==
    e.state = "processing" =>
        /\ d.state = "processing" /\ e.token = d.token
        /\ \A r \in Routes : d.routes[r].state = "processing" => e.routes[r].state = "processing"

\* What maintenance, time and all operations that leave the attempt in progress
\* alone do to a record.
Carries(d, e, b, t) == RecordOK(e, b, t) /\ Grows(d, e) /\ KeepsLease(d, e)

\* Recovery and compaction of one record.
LEMMA MaintainedOK ==
    ASSUME NEW d, NEW b \in Nat, NEW t \in Nat, RecordOK(d, b, t)
    PROVE  Carries(d, Compacted(Recovered(d)), b, t)
  <1> DEFINE e == Recovered(d)
  <1>1. RecordOK(e, b, t) /\ Grows(d, e) /\ (e.state = "processing" => e = d)
    BY RecoveredOK
  <1>2. RecordOK(Absent, b, t) /\ Absent.state = "absent"
    BY AbsentOK DEF RecordOK, LeaseOK, Absent
  <1> HIDE DEF e
  <1>3. CASE e.state \in Terminal /\ e.age = "expired"
    BY <1>2, <1>3 DEF Compacted, e, Carries, Grows, KeepsLease
  <1>4. CASE ~(e.state \in Terminal /\ e.age = "expired")
    BY <1>1, <1>4 DEF Compacted, e, Carries, KeepsLease
  <1>5. QED
    BY <1>3, <1>4

\* Advances of routes compose.
LEMMA GrowsTrans ==
    ASSUME NEW d \in Delivery, NEW e \in Delivery, NEW f \in Delivery, Grows(d, e), Grows(e, f)
    PROVE  Grows(d, f)
  <1>1. CASE f.state = "absent"
    BY <1>1 DEF Grows
  <1>2. CASE f.state # "absent"
    <2>1. d.state # "absent" /\ e.state # "absent"
      BY <1>2 DEF Grows
    <2>2. ASSUME NEW r \in Routes
          PROVE  RouteGrows(d.routes[r], f.routes[r])
      <3>1. d.routes[r] \in Route /\ e.routes[r] \in Route /\ f.routes[r] \in Route
        BY DEF Delivery
      <3>2. RouteGrows(d.routes[r], e.routes[r]) /\ RouteGrows(e.routes[r], f.routes[r])
        BY <2>1, <1>2 DEF Grows
      <3>3. d.routes[r].attempts \in Nat /\ e.routes[r].attempts \in Nat /\ f.routes[r].attempts \in Nat
        BY <3>1 DEF Route
      <3>4. QED
        BY <3>2, <3>3 DEF RouteGrows
    <2>3. QED
      BY <2>1, <2>2 DEF Grows
  <1>3. QED
    BY <1>1, <1>2

\* So do the steps that leave the attempt in progress alone.
LEMMA CarriesTrans ==
    ASSUME NEW d \in Delivery, NEW e \in Delivery, NEW f, NEW b, NEW t, Carries(d, e, b, t), Carries(e, f, b, t)
    PROVE  Carries(d, f, b, t)
  <1>1. f \in Delivery
    BY DEF Carries, RecordOK
  <1>2. Grows(d, f)
    BY <1>1, GrowsTrans DEF Carries
  <1>3. QED
    BY <1>2 DEF Carries, KeepsLease

\* A write that leaves the routes alone.
LEMMA SameRoutes ==
    ASSUME NEW d, NEW b \in Nat, NEW t \in Nat, RecordOK(d, b, t), NEW e \in Delivery, d.state # "absent",
           e.routes = d.routes, e.state \in Terminal \cup {"absent"} => e.state = d.state
    PROVE  /\ Grows(d, e)
           /\ TerminalDone(e)
           /\ LeaseOK(e, b, t) => RecordOK(e, b, t)
           /\ e.state = d.state /\ e.token = d.token => Carries(d, e, b, t)
           /\ e.state # "processing" => Carries(d, e, b, t)
  <1>1. d \in Delivery /\ \A r \in Routes : d.routes[r] \in Route
    BY DEF RecordOK, Delivery
  <1>2. Grows(d, e)
    <2>1. \A r \in Routes : d.routes[r].attempts \in Nat
      BY <1>1 DEF Route
    <2>2. QED
      BY <2>1 DEF Grows, RouteGrows
  <1>3. TerminalDone(e)
    BY DEF RecordOK, TerminalDone, Terminal
  <1>4. LeaseOK(e, b, t) => RecordOK(e, b, t)
    BY <1>3 DEF RecordOK
  <1>5. e.state = d.state /\ e.token = d.token => LeaseOK(e, b, t) /\ KeepsLease(d, e)
    BY DEF RecordOK, LeaseOK, KeepsLease
  <1>6. e.state # "processing" => LeaseOK(e, b, t) /\ KeepsLease(d, e)
    BY DEF RecordOK, LeaseOK, KeepsLease
  <1>7. QED
    BY <1>2, <1>3, <1>4, <1>5, <1>6 DEF Carries

\* A duplicate event changes only the delivery ids of a record.
LEMMA RememberedOK ==
    ASSUME NEW d, NEW b \in Nat, NEW t \in Nat, RecordOK(d, b, t), d.state # "absent", NEW ids \in SUBSET Ids
    PROVE  Carries(d, Remembered(d, ids), b, t)
  <1>1. d \in Delivery
    BY DEF RecordOK
  <1> DEFINE i == d.ids \cup ids
  <1>2. i \in SUBSET Ids
    BY <1>1 DEF Delivery
  <1>3. Remembered(d, ids) = d \/ Remembered(d, ids) = [d EXCEPT !.ids = i]
    BY DEF Remembered
  <1> HIDE DEF i
  <1>4. LET e == [d EXCEPT !.ids = i]
        IN  e \in Delivery /\ e.routes = d.routes /\ e.state = d.state /\ e.token = d.token
    BY <1>1, <1>2 DEF Delivery
  <1>5. Carries(d, d, b, t)
    BY <1>1, SameRoutes
  <1>6. Carries(d, [d EXCEPT !.ids = i], b, t)
    BY <1>4, SameRoutes
  <1>7. QED
    BY <1>3, <1>5, <1>6

\* A new record is in order.
LEMMA NewDeliveryOK ==
    ASSUME NEW rs \in SUBSET Routes, NEW ids \in SUBSET Ids, NEW t \in Nat
    PROVE  RecordOK(NewDelivery(rs, ids), t, t) /\ NewDelivery(rs, ids).state \in {"completed", "pending"}
  <1> DEFINE s == IF rs = {} THEN "completed" ELSE "pending"
             p == [NoRoute EXCEPT !.state = "pending"]
             routes == [r \in Routes |-> IF r \in rs THEN p ELSE NoRoute]
             e == NewDelivery(rs, ids)
  <1>1. NoRoute.attempts = 0 /\ NoRoute.when = "due" /\ NoRoute.state = "none"
    BY DEF NoRoute
  <1>2. p \in Route /\ p.attempts = 0 /\ p.when = "due" /\ p.state = "pending"
    BY AbsentType, <1>1 DEF Route, RouteStates, Active
  <1> HIDE DEF p
  <1>3. routes \in [Routes -> Route] /\ RoutesOK(routes, t, t)
    BY <1>1, <1>2, AbsentType, QueueAssumption DEF RoutesOK, RouteOK
  <1>4. s = "completed" => \A r \in Routes : routes[r].state = "none"
    BY <1>1
  <1>5. s \in {"completed", "pending"}
    OBVIOUS
  <1>6. e = [Absent EXCEPT !.state = s, !.ids = ids, !.routes = routes]
    BY DEF NewDelivery, p
  <1> HIDE DEF s, routes, e
  <1>7. e \in Delivery /\ e.state = s /\ e.routes = routes
    BY <1>3, <1>5, <1>6, AbsentType DEF Delivery, DeliveryStates, Active, Terminal
  <1>8. LeaseOK(e, t, t)
    BY <1>5, <1>7 DEF LeaseOK
  <1>9. TerminalDone(e)
    BY <1>4, <1>5, <1>7 DEF TerminalDone
  <1>10. QED
    BY <1>3, <1>5, <1>7, <1>8, <1>9 DEF RecordOK, e

\* A record stays in order when another token is handed out.
LEMMA LaterOK ==
    ASSUME NEW d, NEW b \in Nat, NEW t \in Nat, RecordOK(d, b, t)
    PROVE  RecordOK(d, b, t + 1)
  <1>1. d \in Delivery /\ LeaseOK(d, b, t + 1)
    BY DEF RecordOK, LeaseOK, Delivery
  <1>2. QED
    BY <1>1 DEF RecordOK, RoutesOK, RouteOK

\* What claimNext writes.
Leased(d, t) == [d EXCEPT !.state = "processing", !.attempts = @ + 1, !.lease = "held", !.token = t + 1]

\* claimNext puts the record under the newest token.
LEMMA LeasedOK ==
    ASSUME NEW d, NEW b \in Nat, NEW t \in Nat, RecordOK(d, b, t), d.state # "absent"
    PROVE  RecordOK(Leased(d, t), b, t + 1) /\ Grows(d, Leased(d, t)) /\ Leased(d, t).token = t + 1
  <1>0. d \in Delivery /\ RecordOK(d, b, t + 1) /\ t + 1 \in Nat
    BY LaterOK DEF RecordOK
  <1> DEFINE e == Leased(d, t)
  <1>1. e \in Delivery /\ e.state = "processing" /\ e.token = t + 1 /\ e.routes = d.routes
    <2> DEFINE n == d.attempts + 1
               u == t + 1
    <2>1. n \in Nat /\ u \in Nat
      BY <1>0 DEF Delivery
    <2>2. e = [d EXCEPT !.state = "processing", !.attempts = n, !.lease = "held", !.token = u]
      BY DEF Leased
    <2> HIDE DEF n, e
    <2>3. QED
      BY <1>0, <2>1, <2>2 DEF Delivery, DeliveryStates
  <1> HIDE DEF e
  <1>2. LeaseOK(e, b, t + 1)
    BY <1>1 DEF RecordOK, LeaseOK
  <1>3. Grows(d, e) /\ RecordOK(e, b, t + 1)
    BY <1>0, <1>1, <1>2, SameRoutes DEF Terminal
  <1>4. QED
    BY <1>1, <1>3 DEF e

\* What giving up the lease changes of a record.
LEMMA SettledField ==
    ASSUME NEW d \in Delivery, NEW s \in DeliveryStates
    PROVE  /\ Settled(d, s) \in Delivery
           /\ Settled(d, s).state = s
           /\ Settled(d, s).routes = d.routes
           /\ Settled(d, s).refreshes = d.refreshes
  BY DEF Settled, Delivery

\* What postponing changes of a record.
LEMMA WhenField ==
    ASSUME NEW d \in Delivery, NEW w \in Times
    PROVE  /\ [d EXCEPT !.when = w] \in Delivery
           /\ [d EXCEPT !.when = w].state = d.state
           /\ [d EXCEPT !.when = w].token = d.token
           /\ [d EXCEPT !.when = w].routes = d.routes
           /\ [d EXCEPT !.when = w].refreshes = d.refreshes
  BY DEF Delivery

\* What writing the routes changes of a record.
LEMMA RoutesField ==
    ASSUME NEW d \in Delivery, NEW rs \in [Routes -> Route]
    PROVE  /\ [d EXCEPT !.routes = rs] \in Delivery
           /\ [d EXCEPT !.routes = rs].state = d.state
           /\ [d EXCEPT !.routes = rs].token = d.token
           /\ [d EXCEPT !.routes = rs].routes = rs
           /\ [d EXCEPT !.routes = rs].refreshes = d.refreshes
  BY DEF Delivery

\* What counting a refresh changes of a record.
LEMMA RefreshesField ==
    ASSUME NEW d \in Delivery
    PROVE  /\ [d EXCEPT !.refreshes = @ + 1] \in Delivery
           /\ [d EXCEPT !.refreshes = @ + 1].state = d.state
           /\ [d EXCEPT !.refreshes = @ + 1].token = d.token
           /\ [d EXCEPT !.refreshes = @ + 1].routes = d.routes
  <1>1. d.refreshes + 1 \in Nat
    BY DEF Delivery
  <1>2. QED
    BY <1>1 DEF Delivery

\* The record that failDelivery leaves.
FailedDelivery(d) == [Settled(d, "failed") EXCEPT !.when = "due", !.routes = FailIncomplete(d.routes)]

\* The record that retryDelivery leaves.
Postponed(d) == [Settled(d, "retryable") EXCEPT !.when = "later", !.refreshes = @ + 1]

\* What retryDelivery and failDelivery write.
LEMMA RefreshWrites ==
    ASSUME NEW d, NEW b \in Nat, NEW t \in Nat, RecordOK(d, b, t), d.state = "processing"
    PROVE  /\ Carries(d, FailedDelivery(d), b, t)
           /\ Carries(d, [FailedDelivery(d) EXCEPT !.refreshes = @ + 1], b, t)
           /\ Carries(d, Postponed(d), b, t)
  <1>1. d \in Delivery /\ d.routes \in [Routes -> Route] /\ RoutesOK(d.routes, b, t)
    BY DEF RecordOK, Delivery
  <1>2. "failed" \in DeliveryStates /\ "retryable" \in DeliveryStates /\ "due" \in Times /\ "later" \in Times
    BY DEF DeliveryStates, Active, Terminal, Times
  <1> DEFINE rs == FailIncomplete(d.routes)
             f == Settled(d, "failed")
             g == [f EXCEPT !.when = "due"]
             h == [g EXCEPT !.routes = rs]
             i == [h EXCEPT !.refreshes = @ + 1]
             p == Settled(d, "retryable")
             q == [p EXCEPT !.when = "later"]
             u == [q EXCEPT !.refreshes = @ + 1]
  <1>3. /\ rs \in [Routes -> Route]
        /\ RoutesOK(rs, b, t)
        /\ \A r \in Routes : /\ RouteGrows(d.routes[r], rs[r])
                             /\ rs[r].state \in {"none", "completed", "failed"}
    BY <1>1, FailIncompleteOK
  <1>4. f \in Delivery /\ f.state = "failed" /\ p \in Delivery /\ p.state = "retryable" /\ p.routes = d.routes
    BY <1>1, <1>2, SettledField
  <1>5. FailedDelivery(d) = h /\ Postponed(d) = u
    BY <1>4 DEF FailedDelivery, Postponed, Delivery
  <1> HIDE DEF rs, f, p
  <1>6. g \in Delivery /\ g.state = "failed" /\ q \in Delivery /\ q.state = "retryable" /\ q.routes = d.routes
    BY <1>2, <1>4, WhenField
  <1> HIDE DEF g, q
  <1>7. h \in Delivery /\ h.state = "failed" /\ h.routes = rs
    BY <1>3, <1>6, RoutesField
  <1> HIDE DEF h
  <1>8. i \in Delivery /\ i.state = "failed" /\ i.routes = rs
    BY <1>7, RefreshesField
  <1>9. u \in Delivery /\ u.state = "retryable" /\ u.routes = d.routes
    BY <1>6, RefreshesField
  <1>10. ASSUME NEW e \in Delivery, e.state = "failed", e.routes = rs
         PROVE  Carries(d, e, b, t)
    <2>1. Grows(d, e) /\ KeepsLease(d, e)
      BY <1>3, <1>10 DEF Grows, KeepsLease
    <2>2. LeaseOK(e, b, t) /\ TerminalDone(e)
      BY <1>3, <1>10 DEF RecordOK, LeaseOK, TerminalDone
    <2>3. QED
      BY <1>3, <1>10, <2>1, <2>2 DEF Carries, RecordOK
  <1> HIDE DEF i, u
  <1>11. Carries(d, u, b, t)
    BY <1>9, SameRoutes DEF Terminal
  <1>12. Carries(d, h, b, t) /\ Carries(d, i, b, t)
    BY <1>7, <1>8, <1>10
  <1>13. QED
    BY <1>5, <1>11, <1>12 DEF i

\* What completeDelivery, failDelivery and releaseDelivery write at the end.
LEMMA FinishedOK ==
    ASSUME NEW d, NEW b \in Nat, NEW t \in Nat, RecordOK(d, b, t), d.state = "processing"
    PROVE  Carries(d, Finished(d), b, t)
  <1>1. d \in Delivery /\ d.routes \in [Routes -> Route]
    BY DEF RecordOK, Delivery
  <1> DEFINE open == {r \in RoutesOf(d) : d.routes[r].state \notin Terminal}
             all == \A r \in RoutesOf(d) : d.routes[r].state = "completed"
             w == IF \E r \in open : d.routes[r].when = "due" THEN "due" ELSE "later"
             s == IF all THEN "completed" ELSE IF open = {} THEN "failed" ELSE "retryable"
             v == IF all \/ open = {} THEN "due" ELSE w
             e == [Settled(d, s) EXCEPT !.when = v]
  <1>2. Finished(d) = e
    BY DEF Finished
  <1>3. s \in DeliveryStates /\ v \in Times /\ s # "processing" /\ s # "absent"
    BY DEF DeliveryStates, Times, Active, Terminal
  <1>4. /\ s = "completed" => \A r \in Routes : d.routes[r].state \in {"none", "completed"}
        /\ s = "failed" => \A r \in Routes : d.routes[r].state \in {"none", "completed", "failed"}
    BY DEF RoutesOf, Terminal
  <1> HIDE DEF s, v
  <1>5. e \in Delivery /\ e.state = s /\ e.routes = d.routes
    <2>1. Settled(d, s) \in Delivery /\ Settled(d, s).state = s /\ Settled(d, s).routes = d.routes
      BY <1>1, <1>3, SettledField
    <2>2. QED
      BY <1>3, <2>1, WhenField
  <1> HIDE DEF e
  <1>6. Grows(d, e) /\ KeepsLease(d, e)
    <2>1. \A r \in Routes : d.routes[r].attempts \in Nat
      BY <1>1 DEF Route
    <2>2. QED
      BY <1>3, <1>5, <2>1 DEF Grows, RouteGrows, KeepsLease
  <1>7. LeaseOK(e, b, t) /\ TerminalDone(e)
    BY <1>3, <1>4, <1>5 DEF RecordOK, LeaseOK, TerminalDone
  <1>8. QED
    BY <1>2, <1>5, <1>6, <1>7 DEF Carries, RecordOK

\* One route of a leased record is written.
SetOne(d, r, x) == [d EXCEPT !.routes = [d.routes EXCEPT ![r] = x]]

\* Such a write keeps the record in order and leased.
LEMMA SetOneOK ==
    ASSUME NEW d, NEW b \in Nat, NEW t \in Nat, RecordOK(d, b, t), d.state = "processing",
           NEW r \in Routes, NEW x \in Route, RouteOK(x, b, t), RouteGrows(d.routes[r], x)
    PROVE  /\ RecordOK(SetOne(d, r, x), b, t)
           /\ Grows(d, SetOne(d, r, x))
           /\ SetOne(d, r, x).state = "processing"
           /\ SetOne(d, r, x).token = d.token
           /\ SetOne(d, r, x).routes = [d.routes EXCEPT ![r] = x]
  <1> DEFINE rs == [d.routes EXCEPT ![r] = x]
             e == SetOne(d, r, x)
  <1>1. d \in Delivery /\ d.routes \in [Routes -> Route]
    BY DEF RecordOK, Delivery
  <1>2. /\ rs \in [Routes -> Route]
        /\ \A q \in Routes : rs[q] = IF q = r THEN x ELSE d.routes[q]
    BY <1>1
  <1>3. \A q \in Routes : d.routes[q].attempts \in Nat
    BY <1>1 DEF Route
  <1>4. RoutesOK(rs, b, t) /\ \A q \in Routes : RouteGrows(d.routes[q], rs[q])
    BY <1>2, <1>3 DEF RecordOK, RoutesOK, RouteGrows
  <1> HIDE DEF rs
  <1>5. e \in Delivery /\ e.state = d.state /\ e.token = d.token /\ e.routes = rs
    BY <1>1, <1>2, RoutesField DEF SetOne, rs
  <1> HIDE DEF e
  <1>6. LeaseOK(e, b, t) /\ TerminalDone(e) /\ Grows(d, e)
    BY <1>4, <1>5 DEF RecordOK, LeaseOK, TerminalDone, Grows
  <1>7. QED
    BY <1>4, <1>5, <1>6 DEF RecordOK, rs, e

\* Recording an answer advances the route.
LEMMA MarkedOK ==
    ASSUME NEW x \in Route, NEW b \in Nat, NEW t \in Nat, RouteOK(x, b, t), x.state = "processing", b < t, NEW a
    PROVE  Marked(x, a) \in Route /\ RouteOK(Marked(x, a), b, t) /\ RouteGrows(x, Marked(x, a))
  <1>0. x.when = "due" /\ x.attempts \in Nat /\ x.when \in Times
    BY DEF RouteOK, Route, Times
  <1>1. CASE a = "ok"
    <2>1. Marked(x, a) = SetRoute(x, "completed", "due")
      BY <1>0, <1>1 DEF Marked, SetRoute, Route
    <2>2. "completed" \in RouteStates /\ "due" \in Times
      BY DEF RouteStates, Terminal, Times
    <2>3. /\ SetRoute(x, "completed", "due") \in Route
          /\ SetRoute(x, "completed", "due").state = "completed"
          /\ SetRoute(x, "completed", "due").when = "due"
          /\ SetRoute(x, "completed", "due").attempts = x.attempts
      BY <2>2, RouteField
    <2>4. QED
      BY <1>0, <2>1, <2>3 DEF RouteOK, RouteGrows
  <1>2. CASE a # "ok" /\ (a = "failed" \/ x.attempts >= MaxAttempts)
    <2>1. Marked(x, a) = SetRoute(x, "failed", "due")
      BY <1>2 DEF Marked, SetRoute
    <2>2. QED
      BY <2>1, RouteSetOK
  <1>3. CASE a # "ok" /\ ~(a = "failed" \/ x.attempts >= MaxAttempts)
    <2>1. Marked(x, a) = SetRoute(x, "retryable", "later")
      BY <1>3 DEF Marked, SetRoute
    <2>2. "retryable" \in RouteStates /\ "later" \in Times
      BY DEF RouteStates, Active, Times
    <2>3. /\ SetRoute(x, "retryable", "later") \in Route
          /\ SetRoute(x, "retryable", "later").state = "retryable"
          /\ SetRoute(x, "retryable", "later").attempts = x.attempts
      BY <2>2, RouteField
    <2>4. QED
      BY <1>0, <2>1, <2>3 DEF RouteOK, RouteGrows
  <1>4. QED
    BY <1>1, <1>2, <1>3

\* Marking the route that a leased record has in processing.
LEMMA MarkOneOK ==
    ASSUME NEW d, NEW b \in Nat, NEW t \in Nat, RecordOK(d, b, t), d.state = "processing", b < t,
           NEW r \in Routes, d.routes[r].state = "processing", NEW a
    PROVE  /\ RecordOK(SetOne(d, r, Marked(d.routes[r], a)), b, t)
           /\ Grows(d, SetOne(d, r, Marked(d.routes[r], a)))
  <1> DEFINE x == Marked(d.routes[r], a)
  <1>1. d.routes[r] \in Route /\ RouteOK(d.routes[r], b, t)
    BY DEF RecordOK, RoutesOK, Delivery
  <1>2. x \in Route /\ RouteOK(x, b, t) /\ RouteGrows(d.routes[r], x)
    BY <1>1, MarkedOK
  <1> HIDE DEF x
  <1>3. ASSUME NEW y \in Route, RouteOK(y, b, t), RouteGrows(d.routes[r], y)
        PROVE  RecordOK(SetOne(d, r, y), b, t) /\ Grows(d, SetOne(d, r, y)) /\ SetOne(d, r, y).token = d.token
    <2>1. RecordOK(SetOne(d, r, y), b, t)
      BY <1>3, SetOneOK, Zenon
    <2>2. Grows(d, SetOne(d, r, y))
      BY <1>3, SetOneOK, Zenon
    <2>3. SetOne(d, r, y).token = d.token
      BY DEF RecordOK, SetOne, Delivery
    <2>4. QED
      BY <2>1, <2>2, <2>3
  <1>4. RecordOK(SetOne(d, r, x), b, t) /\ Grows(d, SetOne(d, r, x)) /\ SetOne(d, r, x).token = d.token
    BY <1>2, <1>3
  <1>5. QED
    BY <1>4 DEF x

\* What beginRouteAttempt writes.
Begun(x) == [x EXCEPT !.state = "processing", !.attempts = @ + 1]

\* A sendable route can take one more attempt within its budget.
LEMMA BegunOK ==
    ASSUME NEW x \in Route, NEW b \in Nat, NEW t \in Nat, RouteOK(x, b, t), Sendable(x)
    PROVE  /\ Begun(x) \in Route
           /\ RouteOK(Begun(x), b, t)
           /\ RouteGrows(x, Begun(x))
           /\ Begun(x).state = "processing"
           /\ Begun(x).attempts = x.attempts + 1
  <1>1. x.attempts \in Nat /\ x.attempts + 1 \in Nat /\ x.when = "due" /\ x.attempts < MaxAttempts /\ x.state # "completed"
    BY DEF Sendable, Route, Active
  <1> DEFINE n == x.attempts + 1
             y == [x EXCEPT !.state = "processing", !.attempts = n]
  <1>2. Begun(x) = y /\ n \in Nat
    BY <1>1 DEF Begun
  <1> HIDE DEF n
  <1>3. y \in Route /\ y.state = "processing" /\ y.attempts = n /\ y.when = x.when
    BY <1>2 DEF Route, RouteStates
  <1> HIDE DEF y
  <1>4. RouteOK(y, b, t) /\ RouteGrows(x, y)
    BY <1>1, <1>3, QueueAssumption DEF RouteOK, RouteGrows, n
  <1>5. QED
    BY <1>2, <1>3, <1>4 DEF n

----------------------------------------------------------------------------
(* The inductive invariant *)

\* Every record is in order.
Records == \A k \in Keys : RecordOK(queue[k], born[k], tokens)

\* A working process has a token that was handed out, and no two share one.
Claims ==
    /\ \A w \in Workers : worker[w].stage # "idle" => worker[w].token \in 1..tokens
    /\ \A v, w \in Workers :
          v # w /\ worker[v].stage # "idle" /\ worker[w].stage # "idle" => worker[v].token # worker[w].token

\* The stages at which an attempt is in progress.
InFlight == {"begun", "sending", "answered"}

\* The processes that have counted an attempt on this record and not made the
\* request yet.
Pending(k, r) ==
    {w \in Workers : /\ worker[w].stage = "begun" /\ worker[w].key = k /\ worker[w].route = r
                     /\ worker[w].token > born[k]}

\* The attempts that the queue knows of; a record that is gone spent them all.
Counted(k, r) == IF queue[k].state = "absent" THEN MaxAttempts ELSE queue[k].routes[r].attempts

\* Every request that was made, or may still be, is paid for by an attempt on record.
Budget == \A k \in Keys, r \in Routes : sends[k][r] + Cardinality(Pending(k, r)) <= Counted(k, r)

\* The inductive invariant.
IInv == TypeOK /\ Records /\ Claims /\ TimelyAnswerAccepted /\ Budget

----------------------------------------------------------------------------
(* Quiet steps *)

\* What a process may become without claiming or beginning anything.
CalmWorker(a, b) ==
    \/ b.stage = "idle"
    \/ /\ a.stage # "idle" /\ b.token = a.token
       /\ b.stage \in InFlight => a.stage \in InFlight /\ b.route = a.route /\ b.key = a.key
       /\ b.stage = "begun" => a.stage = "begun"

\* No process claims or begins anything.
QuietWorkers ==
    /\ worker' \in [Workers -> WorkerRecords]
    /\ \A w \in Workers : CalmWorker(worker[w], worker'[w])

\* No process begins an attempt.
NoneBegins ==
    \A w \in Workers : worker'[w].stage = "begun" =>
        /\ worker[w].stage = "begun" /\ worker'[w].token = worker[w].token
        /\ worker'[w].key = worker[w].key /\ worker'[w].route = worker[w].route

\* Every attempt in progress is left alone.
QuietQueue ==
    /\ queue' \in [Keys -> Delivery]
    /\ \A k \in Keys : Carries(queue[k], queue'[k], born[k], tokens)

\* The types of what no invariant is about.
TypesLeft ==
    /\ tombs' \subseteq tombs
    /\ events' \in Nat /\ crashes' \in Nat /\ slow' \in Nat

\* Tokens stay distinct when nobody claims.
LEMMA ClaimsQuiet ==
    ASSUME Claims, QuietWorkers, tokens' = tokens
    PROVE  Claims'
  <1>1. ASSUME NEW w \in Workers, worker'[w].stage # "idle"
        PROVE  worker[w].stage # "idle" /\ worker'[w].token = worker[w].token
    BY <1>1 DEF QuietWorkers, CalmWorker
  <1>2. QED
    BY <1>1 DEF Claims

\* An attempt in progress keeps its route when nobody writes it.
LEMMA TimelyQuiet ==
    ASSUME TypeOK, TimelyAnswerAccepted, QuietWorkers, QuietQueue
    PROVE  TimelyAnswerAccepted'
  <1> SUFFICES ASSUME NEW w \in Workers,
                      worker'[w].stage \in InFlight,
                      queue'[worker'[w].key].state = "processing",
                      queue'[worker'[w].key].token = worker'[w].token
               PROVE  queue'[worker'[w].key].routes[worker'[w].route].state = "processing"
    BY DEF TimelyAnswerAccepted, InFlight
  <1>1. /\ worker[w].stage \in InFlight /\ worker'[w].route = worker[w].route
        /\ worker'[w].key = worker[w].key /\ worker'[w].token = worker[w].token
    BY DEF QuietWorkers, CalmWorker, InFlight
  <1>2. worker[w].key \in Keys /\ worker[w].route \in Routes
    BY DEF TypeOK, WorkerRecords
  <1>3. KeepsLease(queue[worker[w].key], queue'[worker[w].key])
    BY <1>2 DEF QuietQueue, Carries
  <1>4. queue[worker[w].key].state = "processing" /\ queue[worker[w].key].token = worker[w].token
    BY <1>1, <1>3 DEF KeepsLease
  <1>5. queue[worker[w].key].routes[worker[w].route].state = "processing"
    BY <1>1, <1>4 DEF TimelyAnswerAccepted, InFlight
  <1>6. QED
    BY <1>1, <1>2, <1>3, <1>5 DEF KeepsLease

\* There are finitely many such processes.
LEMMA PendingFinite ==
    ASSUME NEW k, NEW r
    PROVE  IsFiniteSet(Pending(k, r)) /\ Cardinality(Pending(k, r)) \in Nat
  <1>1. Pending(k, r) \subseteq Workers
    BY DEF Pending
  <1>2. IsFiniteSet(Workers)
    BY QueueAssumption
  <1>3. IsFiniteSet(Pending(k, r))
    BY <1>1, <1>2, FS_Subset
  <1>4. QED
    BY <1>3, FS_CardinalityType

\* What a record says was attempted never shrinks while it is the same record.
LEMMA CountedGrows ==
    ASSUME TypeOK, Records, NEW k \in Keys, NEW r \in Routes,
           queue'[k] \in Delivery, Grows(queue[k], queue'[k])
    PROVE  /\ Counted(k, r) \in Nat /\ Counted(k, r)' \in Nat
           /\ Counted(k, r) <= Counted(k, r)'
  <1>1. queue[k] \in Delivery /\ queue[k].routes[r] \in Route /\ queue'[k].routes[r] \in Route
    BY DEF TypeOK, Delivery
  <1>2. queue[k].routes[r].attempts \in Nat /\ queue'[k].routes[r].attempts \in Nat /\ MaxAttempts \in Nat
    BY <1>1, QueueAssumption DEF Route
  <1>3. queue[k].routes[r].attempts <= MaxAttempts
    BY DEF Records, RecordOK, RoutesOK, RouteOK
  <1>4. queue'[k].state # "absent" => queue[k].state # "absent" /\ queue[k].routes[r].attempts <= queue'[k].routes[r].attempts
    BY DEF Grows, RouteGrows
  <1>5. QED
    BY <1>2, <1>3, <1>4 DEF Counted

\* The requests that are counted but not sent yet only get fewer.
LEMMA PendingShrinks ==
    ASSUME NoneBegins, NEW k \in Keys, NEW r \in Routes, born'[k] = born[k]
    PROVE  /\ Cardinality(Pending(k, r)) \in Nat /\ Cardinality(Pending(k, r)') \in Nat
           /\ Cardinality(Pending(k, r)') <= Cardinality(Pending(k, r))
  <1>1. Pending(k, r)' \subseteq Pending(k, r)
    BY DEF NoneBegins, Pending
  <1>2. IsFiniteSet(Pending(k, r)) /\ Cardinality(Pending(k, r)) \in Nat
    BY PendingFinite
  <1>3. QED
    BY <1>1, <1>2, FS_Subset, FS_CardinalityType

\* The budget holds on when no attempt begins and no request is made.
LEMMA BudgetQuiet ==
    ASSUME TypeOK, Records, Budget, NoneBegins, NEW k \in Keys, NEW r \in Routes,
           queue'[k] \in Delivery, Grows(queue[k], queue'[k]), born'[k] = born[k], sends' = sends
    PROVE  sends'[k][r] + Cardinality(Pending(k, r)') <= Counted(k, r)'
  <1>1. sends[k][r] \in Nat
    BY DEF TypeOK
  <1>2. /\ Cardinality(Pending(k, r)) \in Nat /\ Cardinality(Pending(k, r)') \in Nat
        /\ Cardinality(Pending(k, r)') <= Cardinality(Pending(k, r))
    BY PendingShrinks
  <1>3. /\ Counted(k, r) \in Nat /\ Counted(k, r)' \in Nat
        /\ Counted(k, r) <= Counted(k, r)'
    BY CountedGrows
  <1>4. sends[k][r] + Cardinality(Pending(k, r)) <= Counted(k, r)
    BY DEF Budget
  <1> DEFINE p == Cardinality(Pending(k, r))
             q == Cardinality(Pending(k, r)')
             c == Counted(k, r)
             e == Counted(k, r)'
  <1> HIDE DEF p, q, c, e
  <1>5. p \in Nat /\ q \in Nat /\ q <= p /\ c \in Nat /\ e \in Nat /\ c <= e /\ sends[k][r] + p <= c
    BY <1>2, <1>3, <1>4 DEF p, q, c, e
  <1>6. sends[k][r] + q <= e
    BY <1>1, <1>5
  <1>7. QED
    BY <1>6 DEF q, e

\* What any step does to the records that exist.
Moves == \A k \in Keys : Grows(queue[k], queue'[k]) \/ born'[k] = tokens

\* A quiet step preserves the invariant.
LEMMA QuietStep ==
    ASSUME IInv, QuietWorkers, QuietQueue, TypesLeft, tokens' = tokens, born' = born, sends' = sends
    PROVE  IInv' /\ Moves
  <1>1. TypeOK'
    BY DEF IInv, TypeOK, QuietWorkers, QuietQueue, TypesLeft
  <1>2. Records'
    BY DEF Records, QuietQueue, Carries
  <1>3. Claims' /\ TimelyAnswerAccepted'
    BY ClaimsQuiet, TimelyQuiet DEF IInv
  <1>4. Budget'
    <2>1. NoneBegins
      BY DEF QuietWorkers, CalmWorker, NoneBegins, InFlight
    <2>2. QED
      BY <2>1, BudgetQuiet DEF IInv, Budget, QuietQueue, Carries
  <1>5. Moves
    BY DEF Moves, QuietQueue, Carries
  <1>6. QED
    BY <1>1, <1>2, <1>3, <1>4, <1>5 DEF IInv

\* A step without processes is quiet for them.
LEMMA SameWorkers ==
    ASSUME TypeOK, worker' = worker
    PROVE  QuietWorkers
  BY DEF TypeOK, QuietWorkers, CalmWorker

\* A step that does not write the queue is quiet for it.
LEMMA SameQueue ==
    ASSUME TypeOK, Records, queue' = queue
    PROVE  QuietQueue
  <1>1. ASSUME NEW k \in Keys
        PROVE  Carries(queue[k], queue[k], born[k], tokens)
    <2>1. queue[k] \in Delivery /\ \A r \in Routes : queue[k].routes[r].attempts \in Nat
      BY DEF TypeOK, Delivery, Route
    <2>2. QED
      BY <2>1 DEF Carries, Records, Grows, RouteGrows, KeepsLease
  <1>2. QED
    BY <1>1 DEF TypeOK, QuietQueue

\* A process that stops is calm.
LEMMA StopCalm ==
    ASSUME TypeOK, NEW w \in Workers, Stop(w)
    PROVE  QuietWorkers
  <1>1. Idle(worker[w].key, worker[w].route) \in WorkerRecords /\ Idle(worker[w].key, worker[w].route).stage = "idle"
    BY DEF TypeOK, WorkerRecords, Idle, Stages, Answers
  <1>2. QED
    BY <1>1 DEF Stop, TypeOK, QuietWorkers, CalmWorker

\* Maintenance of the whole queue.
LEMMA MaintainedCarries ==
    ASSUME TypeOK, Records
    PROVE  /\ Maintained \in [Keys -> Delivery]
           /\ \A k \in Keys : /\ Carries(queue[k], Maintained[k], born[k], tokens)
                              /\ RecordOK(Maintained[k], born[k], tokens)
  <1>1. ASSUME NEW k \in Keys
        PROVE  /\ Carries(queue[k], Maintained[k], born[k], tokens)
               /\ RecordOK(Maintained[k], born[k], tokens)
    <2>1. born[k] \in Nat /\ tokens \in Nat /\ RecordOK(queue[k], born[k], tokens)
      BY DEF TypeOK, Records
    <2>2. Maintained[k] = Compacted(Recovered(queue[k]))
      BY DEF Maintained
    <2>3. QED
      BY <2>1, <2>2, MaintainedOK DEF Carries
  <1>2. Maintained \in [Keys -> Delivery]
    BY <1>1 DEF Maintained, RecordOK
  <1>3. QED
    BY <1>1, <1>2

\* Maintenance leaves a record that is still leased as it is.
LEMMA MaintainedSame ==
    ASSUME TypeOK, Records, NEW k \in Keys, Maintained[k].state = "processing"
    PROVE  Maintained[k] = queue[k]
  <1>1. born[k] \in Nat /\ tokens \in Nat /\ RecordOK(queue[k], born[k], tokens)
    BY DEF TypeOK, Records
  <1>2. Recovered(queue[k]).state = "processing" => Recovered(queue[k]) = queue[k]
    BY <1>1, RecoveredOK
  <1>3. Maintained[k] = Compacted(Recovered(queue[k]))
    BY DEF Maintained
  <1>4. Maintained[k] = Recovered(queue[k])
    BY <1>3 DEF Compacted, Absent
  <1>5. QED
    BY <1>2, <1>4

\* An operation that carries its record on is quiet for the queue.
LEMMA PersistQuiet ==
    ASSUME TypeOK, Records, NEW k \in Keys, NEW d, Carries(Maintained[k], d, born[k], tokens), Persist(k, d)
    PROVE  QuietQueue
  <1>1. /\ Maintained \in [Keys -> Delivery]
        /\ \A j \in Keys : Carries(queue[j], Maintained[j], born[j], tokens)
    BY MaintainedCarries
  <1>2. d \in Delivery
    BY DEF Carries, RecordOK
  <1> DEFINE m == Maintained
  <1>3. queue' = [m EXCEPT ![k] = d]
    BY DEF Persist
  <1> HIDE DEF m
  <1>4. queue' \in [Keys -> Delivery] /\ \A j \in Keys : queue'[j] = IF j = k THEN d ELSE m[j]
    BY <1>1, <1>2, <1>3 DEF m
  <1>5. queue[k] \in Delivery /\ m[k] \in Delivery
    BY <1>1 DEF TypeOK, m
  <1>6. Carries(queue[k], d, born[k], tokens)
    BY <1>1, <1>5, CarriesTrans DEF m
  <1>7. QED
    BY <1>1, <1>4, <1>6 DEF QuietQueue, m

\* So is maintenance by itself.
LEMMA MaintainedQuiet ==
    ASSUME TypeOK, Records, queue' = Maintained
    PROVE  QuietQueue
  BY MaintainedCarries DEF QuietQueue

----------------------------------------------------------------------------
(* The operations *)

\* What a worker's record becomes when a few of its fields are written.
LEMMA StageField ==
    ASSUME NEW a \in WorkerRecords, NEW st \in Stages
    PROVE  /\ [a EXCEPT !.stage = st] \in WorkerRecords
           /\ [a EXCEPT !.stage = st].stage = st
           /\ [a EXCEPT !.stage = st].token = a.token
           /\ [a EXCEPT !.stage = st].key = a.key
           /\ [a EXCEPT !.stage = st].route = a.route
  BY DEF WorkerRecords

\* A process with a new stage and answer.
Replied(a, st, an) == [a EXCEPT !.stage = st, !.answer = an]

\* What an answer changes of a process.
LEMMA AnswerField ==
    ASSUME NEW a \in WorkerRecords, NEW st \in Stages, NEW an \in Answers
    PROVE  /\ Replied(a, st, an) \in WorkerRecords
           /\ Replied(a, st, an).stage = st
           /\ Replied(a, st, an).token = a.token
           /\ Replied(a, st, an).key = a.key
           /\ Replied(a, st, an).route = a.route
  BY DEF WorkerRecords, Replied

\* What passing over a route changes of a process.
LEMMA TodoField ==
    ASSUME NEW a \in WorkerRecords, NEW todo \in SUBSET Routes
    PROVE  /\ [a EXCEPT !.todo = todo] \in WorkerRecords
           /\ [a EXCEPT !.todo = todo].stage = a.stage
           /\ [a EXCEPT !.todo = todo].token = a.token
           /\ [a EXCEPT !.todo = todo].key = a.key
           /\ [a EXCEPT !.todo = todo].route = a.route
  BY DEF WorkerRecords

\* One worker moves on.
LEMMA OneWorker ==
    ASSUME TypeOK, NEW w \in Workers, NEW b \in WorkerRecords, worker' = [worker EXCEPT ![w] = b],
           CalmWorker(worker[w], b)
    PROVE  QuietWorkers
  BY DEF TypeOK, QuietWorkers, CalmWorker

\* Operations that leave every record to maintenance.
LEMMA SmallSteps ==
    ASSUME IInv, NEW w \in Workers
    PROVE  /\ NothingToClaim(w) => IInv' /\ Moves
           /\ LeaseLost(w) => IInv' /\ Moves
           /\ Refreshed(w) => IInv' /\ Moves
           /\ SinkAnswers(w) => IInv' /\ Moves
           /\ Crash(w) => IInv' /\ Moves
  <1>0. TypeOK /\ Records /\ worker[w] \in WorkerRecords
    BY DEF IInv, TypeOK
  <1>1. ASSUME NothingToClaim(w) PROVE IInv' /\ Moves
    <2>1. QuietQueue /\ QuietWorkers /\ TypesLeft
      BY <1>0, <1>1, MaintainedQuiet, SameWorkers DEF NothingToClaim, TypesLeft, TypeOK
    <2>2. QED
      BY <1>1, <2>1, QuietStep DEF NothingToClaim
  <1>2. ASSUME LeaseLost(w) PROVE IInv' /\ Moves
    <2>1. QuietQueue /\ QuietWorkers /\ TypesLeft
      BY <1>0, <1>2, SameQueue, StopCalm DEF LeaseLost, TypesLeft, TypeOK
    <2>2. QED
      BY <1>2, <2>1, QuietStep DEF LeaseLost
  <1>3. ASSUME Refreshed(w) PROVE IInv' /\ Moves
    <2> DEFINE b == [worker[w] EXCEPT !.stage = "routes"]
    <2>1. "routes" \in Stages
      BY DEF Stages
    <2>2. b \in WorkerRecords /\ b.stage = "routes" /\ b.token = worker[w].token
      BY <1>0, <2>1, StageField
    <2>3. worker' = [worker EXCEPT ![w] = b]
      BY <1>0, <1>3 DEF Refreshed, TypeOK
    <2> HIDE DEF b
    <2>4. CalmWorker(worker[w], b)
      BY <1>3, <2>2 DEF CalmWorker, Refreshed, InFlight
    <2>5. QuietQueue /\ QuietWorkers /\ TypesLeft
      BY <1>0, <1>3, <2>2, <2>3, <2>4, SameQueue, OneWorker DEF Refreshed, TypesLeft, TypeOK
    <2>6. QED
      BY <1>3, <2>5, QuietStep DEF Refreshed
  <1>4. ASSUME SinkAnswers(w) PROVE IInv' /\ Moves
    <2>1. PICK a \in Answers : /\ worker' = [worker EXCEPT ![w].stage = "answered", ![w].answer = a]
                               /\ worker[w].stage \in {"begun", "sending"}
      BY <1>4 DEF SinkAnswers, Answers
    <2> DEFINE b == Replied(worker[w], "answered", a)
    <2>2. "answered" \in Stages
      BY DEF Stages
    <2>3. b \in WorkerRecords /\ b.stage = "answered" /\ b.token = worker[w].token /\ b.key = worker[w].key
          /\ b.route = worker[w].route
      BY <1>0, <2>2, AnswerField
    <2>4. worker' = [worker EXCEPT ![w] = b]
      BY <1>0, <2>1 DEF TypeOK, Replied
    <2> HIDE DEF b
    <2>5. CalmWorker(worker[w], b)
      BY <2>1, <2>3 DEF CalmWorker, InFlight
    <2>6. QuietQueue /\ QuietWorkers /\ TypesLeft
      BY <1>0, <1>4, <2>3, <2>4, <2>5, SameQueue, OneWorker DEF SinkAnswers, TypesLeft, TypeOK
    <2>7. QED
      BY <1>4, <2>6, QuietStep DEF SinkAnswers
  <1>5. ASSUME Crash(w) PROVE IInv' /\ Moves
    <2>1. QuietQueue /\ QuietWorkers /\ TypesLeft
      BY <1>0, <1>5, SameQueue, StopCalm DEF Crash, TypesLeft, TypeOK
    <2>2. QED
      BY <1>5, <2>1, QuietStep DEF Crash
  <1>6. QED
    BY <1>1, <1>2, <1>3, <1>4, <1>5

\* retryDelivery and failDelivery.
LEMMA RefreshFailsStep ==
    ASSUME IInv, NEW w \in Workers, RefreshFails(w)
    PROVE  IInv' /\ Moves
  <1> DEFINE k == worker[w].key
             d == Maintained[k]
  <1>1. TypeOK /\ Records /\ k \in Keys /\ born[k] \in Nat /\ tokens \in Nat
    BY DEF IInv, TypeOK, WorkerRecords
  <1>2. RecordOK(d, born[k], tokens) /\ d.state = "processing"
    BY <1>1, MaintainedCarries DEF RefreshFails, HoldsLease
  <1>3. /\ Carries(d, FailedDelivery(d), born[k], tokens)
        /\ Carries(d, [FailedDelivery(d) EXCEPT !.refreshes = @ + 1], born[k], tokens)
        /\ Carries(d, Postponed(d), born[k], tokens)
    BY <1>1, <1>2, RefreshWrites
  <1>4. \/ Persist(k, FailedDelivery(d))
        \/ Persist(k, [FailedDelivery(d) EXCEPT !.refreshes = @ + 1])
        \/ Persist(k, Postponed(d))
    BY DEF RefreshFails, FailedDelivery, Postponed
  <1> HIDE DEF d, k
  <1>5. QuietQueue
    BY <1>1, <1>3, <1>4, PersistQuiet DEF d
  <1>6. QuietWorkers /\ TypesLeft
    BY <1>1, StopCalm DEF RefreshFails, TypesLeft, TypeOK
  <1>7. QED
    BY <1>5, <1>6, QuietStep DEF RefreshFails

\* The end of a delivery.
LEMMA FinishDeliveryStep ==
    ASSUME IInv, NEW w \in Workers, FinishDelivery(w)
    PROVE  IInv' /\ Moves
  <1> DEFINE k == worker[w].key
             d == Maintained[k]
  <1>1. TypeOK /\ Records /\ k \in Keys /\ born[k] \in Nat /\ tokens \in Nat
    BY DEF IInv, TypeOK, WorkerRecords
  <1>2. RecordOK(d, born[k], tokens) /\ d.state = "processing"
    BY <1>1, MaintainedCarries DEF FinishDelivery, HoldsLease
  <1>3. Carries(d, Finished(d), born[k], tokens)
    BY <1>1, <1>2, FinishedOK
  <1>4. Persist(k, Finished(d))
    BY DEF FinishDelivery
  <1> HIDE DEF d, k
  <1>5. QuietQueue
    BY <1>1, <1>3, <1>4, PersistQuiet DEF d
  <1>6. QuietWorkers /\ TypesLeft
    BY <1>1, StopCalm DEF FinishDelivery, TypesLeft, TypeOK
  <1>7. QED
    BY <1>5, <1>6, QuietStep DEF FinishDelivery

\* Time changes one record.
LEMMA OneRecord ==
    ASSUME TypeOK, Records, NEW k \in Keys, NEW d, queue' = [queue EXCEPT ![k] = d],
           Carries(queue[k], d, born[k], tokens)
    PROVE  QuietQueue
  <1>1. d \in Delivery
    BY DEF Carries, RecordOK
  <1>2. \A j \in Keys : Carries(queue[j], queue[j], born[j], tokens)
    <2>1. \A j \in Keys : queue[j] \in Delivery /\ \A r \in Routes : queue[j].routes[r].attempts \in Nat
      BY DEF TypeOK, Delivery, Route
    <2>2. QED
      BY <2>1 DEF Carries, Records, Grows, RouteGrows, KeepsLease
  <1>3. QED
    BY <1>1, <1>2 DEF TypeOK, QuietQueue

\* What the end of a lease changes of a record.
LEMMA LeaseField ==
    ASSUME NEW d \in Delivery, NEW l \in {"none", "held", "over"}
    PROVE  /\ [d EXCEPT !.lease = l] \in Delivery
           /\ [d EXCEPT !.lease = l].state = d.state
           /\ [d EXCEPT !.lease = l].token = d.token
           /\ [d EXCEPT !.lease = l].routes = d.routes
  BY DEF Delivery

\* What the end of the retention changes of a record.
LEMMA AgeField ==
    ASSUME NEW d \in Delivery, NEW a \in {"fresh", "expired"}
    PROVE  /\ [d EXCEPT !.age = a] \in Delivery
           /\ [d EXCEPT !.age = a].state = d.state
           /\ [d EXCEPT !.age = a].token = d.token
           /\ [d EXCEPT !.age = a].routes = d.routes
  BY DEF Delivery

\* Time passes for one record.
LEMMA TimeSteps ==
    ASSUME IInv, NEW k \in Keys, TimePasses(k)
    PROVE  IInv' /\ Moves
  <1> DEFINE d == queue[k]
  <1>1. TypeOK /\ Records /\ d \in Delivery /\ born[k] \in Nat /\ tokens \in Nat
        /\ RecordOK(d, born[k], tokens) /\ d.routes \in [Routes -> Route]
    BY DEF IInv, TypeOK, Records, Delivery
  <1>2. "due" \in Times /\ "over" \in {"none", "held", "over"} /\ "expired" \in {"fresh", "expired"}
    BY DEF Times
  <1>3. ASSUME NEW e \in Delivery, e.state = d.state, e.token = d.token, e.routes = d.routes
        PROVE  Carries(d, e, born[k], tokens)
    <2>1. /\ \A r \in Routes : d.routes[r].attempts \in Nat
      BY <1>1 DEF Route
    <2>2. Grows(d, e) /\ KeepsLease(d, e)
      BY <1>3, <2>1 DEF Grows, RouteGrows, KeepsLease
    <2>3. RecordOK(e, born[k], tokens)
      BY <1>1, <1>3 DEF RecordOK, LeaseOK, TerminalDone
    <2>4. QED
      BY <2>2, <2>3 DEF Carries
  <1>4. ASSUME LeaseExpires(k) PROVE IInv' /\ Moves
    <2>1. queue' = [queue EXCEPT ![k] = [d EXCEPT !.lease = "over"]]
      BY <1>1, <1>4 DEF LeaseExpires, TypeOK
    <2>2. Carries(d, [d EXCEPT !.lease = "over"], born[k], tokens)
      <3> HIDE DEF d
      <3>1. QED
        BY <1>1, <1>2, <1>3, LeaseField
    <2>3. QuietQueue
      BY <1>1, <2>1, <2>2, OneRecord
    <2>4. slow' \in Nat
      BY <1>1, <1>4 DEF LeaseExpires, TypeOK
    <2>5. QuietWorkers /\ TypesLeft
      BY <1>1, <1>4, <2>4, SameWorkers DEF LeaseExpires, TypesLeft, TypeOK
    <2>6. QED
      BY <1>4, <2>3, <2>5, QuietStep DEF LeaseExpires
  <1>5. ASSUME DeliveryDue(k) PROVE IInv' /\ Moves
    <2>1. queue' = [queue EXCEPT ![k] = [d EXCEPT !.when = "due"]]
      BY <1>1, <1>5 DEF DeliveryDue, TypeOK
    <2>2. Carries(d, [d EXCEPT !.when = "due"], born[k], tokens)
      <3> HIDE DEF d
      <3>1. QED
        BY <1>1, <1>2, <1>3, WhenField
    <2>3. QuietQueue
      BY <1>1, <2>1, <2>2, OneRecord
    <2>5. QuietWorkers /\ TypesLeft
      BY <1>1, <1>5, SameWorkers DEF DeliveryDue, TypesLeft, TypeOK
    <2>6. QED
      BY <1>5, <2>3, <2>5, QuietStep DEF DeliveryDue
  <1>6. ASSUME RetentionEnds(k) PROVE IInv' /\ Moves
    <2>1. queue' = [queue EXCEPT ![k] = [d EXCEPT !.age = "expired"]]
      BY <1>1, <1>6 DEF RetentionEnds, TypeOK
    <2>2. Carries(d, [d EXCEPT !.age = "expired"], born[k], tokens)
      <3> HIDE DEF d
      <3>1. QED
        BY <1>1, <1>2, <1>3, AgeField
    <2>3. QuietQueue
      BY <1>1, <2>1, <2>2, OneRecord
    <2>5. QuietWorkers /\ TypesLeft
      BY <1>1, <1>6, SameWorkers DEF RetentionEnds, TypesLeft, TypeOK
    <2>6. QED
      BY <1>6, <2>3, <2>5, QuietStep DEF RetentionEnds
  <1>7. ASSUME NEW r \in Routes, RouteDue(k, r) PROVE IInv' /\ Moves
    <2> DEFINE x == d.routes[r]
               y == [x EXCEPT !.when = "due"]
    <2>1. x \in Route /\ x.attempts \in Nat /\ x.state = "retryable" /\ RouteOK(x, born[k], tokens)
      BY <1>1, <1>7 DEF RouteDue, RecordOK, RoutesOK, RouteOK, Route
    <2>2. y \in Route /\ y.state = x.state /\ y.attempts = x.attempts /\ y.when = "due"
      BY <1>2, <2>1 DEF Route
    <2>3. queue' = [queue EXCEPT ![k] = SetOne(d, r, y)]
      BY <1>1, <1>7 DEF RouteDue, TypeOK, SetOne, Delivery
    <2> HIDE DEF y
    <2>4. RouteOK(y, born[k], tokens) /\ RouteGrows(x, y)
      BY <2>1, <2>2 DEF RouteOK, RouteGrows
    <2>5. Carries(d, SetOne(d, r, y), born[k], tokens)
      <3> DEFINE rs == [d.routes EXCEPT ![r] = y]
                 e == SetOne(d, r, y)
      <3>1. rs \in [Routes -> Route] /\ \A q \in Routes : rs[q] = IF q = r THEN y ELSE d.routes[q]
        BY <1>1, <2>2
      <3>2. \A q \in Routes : d.routes[q].attempts \in Nat
        BY <1>1 DEF Route
      <3>3. /\ RoutesOK(rs, born[k], tokens)
            /\ \A q \in Routes : RouteGrows(d.routes[q], rs[q]) /\ rs[q].state = d.routes[q].state
        BY <1>1, <2>2, <2>4, <3>1, <3>2 DEF RecordOK, RoutesOK, RouteGrows
      <3>4. d.state # "absent"
        BY <1>1, <2>1 DEF RecordOK, TerminalDone
      <3> HIDE DEF rs, d
      <3>5. e \in Delivery /\ e.state = d.state /\ e.token = d.token /\ e.routes = rs
        BY <1>1, <3>1, RoutesField DEF SetOne, rs
      <3> HIDE DEF e
      <3>6. LeaseOK(e, born[k], tokens) /\ TerminalDone(e) /\ Grows(d, e) /\ KeepsLease(d, e)
        BY <1>1, <3>3, <3>4, <3>5 DEF RecordOK, LeaseOK, TerminalDone, Grows, KeepsLease
      <3>7. QED
        BY <3>3, <3>5, <3>6 DEF RecordOK, Carries, e
    <2>6. QuietQueue
      BY <1>1, <2>3, <2>5, OneRecord
    <2>7. QuietWorkers /\ TypesLeft
      BY <1>1, <1>7, SameWorkers DEF RouteDue, TypesLeft, TypeOK
    <2>8. QED
      BY <1>7, <2>6, <2>7, QuietStep DEF RouteDue
  <1>8. QED
    BY <1>4, <1>5, <1>6, <1>7 DEF TimePasses

\* A legacy tombstone ends.
LEMMA TombstoneStep ==
    ASSUME IInv, TombstoneEnds
    PROVE  IInv' /\ Moves
  <1>1. TypeOK /\ Records
    BY DEF IInv
  <1>2. QuietQueue /\ QuietWorkers /\ TypesLeft
    BY <1>1, SameQueue, SameWorkers DEF TombstoneEnds, TypesLeft, TypeOK
  <1>3. QED
    BY <1>2, QuietStep DEF TombstoneEnds

\* A record that comes into being starts with a clean account.
LEMMA FreshStep ==
    ASSUME IInv, NEW k \in Keys, NEW rs \in SUBSET Routes, NEW ids \in SUBSET Ids,
           Persist(k, NewDelivery(rs, ids)),
           born' = [born EXCEPT ![k] = tokens],
           sends' = [sends EXCEPT ![k] = [r \in Routes |-> 0]],
           events' \in Nat,
           UNCHANGED <<tombs, worker, tokens, crashes, slow>>
    PROVE  IInv' /\ Moves
  <1>1. TypeOK /\ Records /\ Claims /\ Budget
    BY DEF IInv
  <1>2. /\ Maintained \in [Keys -> Delivery]
        /\ \A j \in Keys : Carries(queue[j], Maintained[j], born[j], tokens)
    BY <1>1, MaintainedCarries
  <1> DEFINE d == NewDelivery(rs, ids)
             m == Maintained
  <1>3. RecordOK(d, tokens, tokens) /\ d.state \in {"completed", "pending"} /\ d \in Delivery
    BY <1>1, NewDeliveryOK DEF TypeOK, RecordOK
  <1>4. queue' = [m EXCEPT ![k] = d]
    BY DEF Persist
  <1> HIDE DEF d, m
  <1>5. queue' \in [Keys -> Delivery] /\ queue'[k] = d /\ \A j \in Keys : j # k => queue'[j] = m[j]
    BY <1>2, <1>3, <1>4 DEF m
  <1>6. /\ born' \in [Keys -> Nat] /\ born'[k] = tokens /\ \A j \in Keys : j # k => born'[j] = born[j]
        /\ sends' \in [Keys -> [Routes -> Nat]] /\ \A r \in Routes : sends'[k][r] = 0
        /\ \A j \in Keys : j # k => sends'[j] = sends[j]
    BY <1>1 DEF TypeOK
  <1>7. TypeOK'
    BY <1>1, <1>5, <1>6 DEF TypeOK
  <1>8. Records'
    <2>1. ASSUME NEW j \in Keys PROVE RecordOK(queue'[j], born'[j], tokens')
      <3>1. CASE j = k
        BY <1>3, <1>5, <1>6, <3>1
      <3>2. CASE j # k
        BY <1>2, <1>5, <1>6, <3>2 DEF Carries, m
      <3>3. QED
        BY <3>1, <3>2
    <2>2. QED
      BY <2>1 DEF Records
  <1>9. Claims'
    BY <1>1 DEF Claims
  <1>10. ASSUME NEW j \in Keys PROVE KeepsLease(queue[j], queue'[j])
    <2>1. CASE j = k
      BY <1>3, <1>5, <2>1 DEF KeepsLease
    <2>2. CASE j # k
      BY <1>2, <1>5, <2>2 DEF Carries, m
    <2>3. QED
      BY <2>1, <2>2
  <1>11. TimelyAnswerAccepted'
    <2>1. \A w \in Workers : worker[w].key \in Keys /\ worker[w].route \in Routes
      BY <1>1 DEF TypeOK, WorkerRecords
    <2>2. QED
      BY <1>10, <2>1 DEF IInv, TimelyAnswerAccepted, KeepsLease
  <1>12. ASSUME NEW j \in Keys, NEW r \in Routes
         PROVE  sends'[j][r] + Cardinality(Pending(j, r)') <= Counted(j, r)'
    <2>1. CASE j = k
      <3>1. Pending(k, r)' = {}
        <4>1. ASSUME NEW w \in Workers, worker[w].stage = "begun" PROVE ~(worker[w].token > tokens)
          <5>1. worker[w].token \in 1..tokens /\ tokens \in Nat
            BY <1>1, <4>1 DEF Claims, TypeOK
          <5>2. QED
            BY <5>1
        <4>2. QED
          BY <1>6, <4>1 DEF Pending
      <3>2. Cardinality({}) = 0
        BY FS_EmptySet
      <3>3. Counted(k, r)' \in Nat
        BY <1>3, <1>5, QueueAssumption DEF Counted, Delivery, Route
      <3>4. 0 + Cardinality(Pending(k, r)') <= Counted(k, r)'
        BY <3>1, <3>2, <3>3
      <3>5. QED
        BY <1>6, <2>1, <3>4
    <2>2. CASE j # k
      <3>1. Pending(j, r)' = Pending(j, r) /\ sends'[j][r] = sends[j][r]
        BY <1>6, <2>2 DEF Pending
      <3>2. /\ Counted(j, r) \in Nat /\ Counted(j, r)' \in Nat
            /\ Counted(j, r) <= Counted(j, r)'
        BY <1>1, <1>2, <1>5, <2>2, CountedGrows DEF Carries, m
      <3>3. sends[j][r] + Cardinality(Pending(j, r)) <= Counted(j, r)
        BY <1>1 DEF Budget
      <3>4. sends[j][r] \in Nat /\ Cardinality(Pending(j, r)) \in Nat
        BY <1>1, PendingFinite DEF TypeOK
      <3> DEFINE p == Cardinality(Pending(j, r))
                 c == Counted(j, r)
                 e == Counted(j, r)'
      <3> HIDE DEF p, c, e
      <3>5. sends[j][r] + p <= e
        BY <3>2, <3>3, <3>4 DEF p, c, e
      <3>6. QED
        BY <3>1, <3>5 DEF p, e
    <2>3. QED
      BY <2>1, <2>2
  <1>13. Moves
    BY <1>2, <1>5, <1>6 DEF Moves, Carries, m
  <1>14. QED
    BY <1>7, <1>8, <1>9, <1>11, <1>12, <1>13 DEF IInv, Budget

\* claimAndEnqueue.
LEMMA EnqueueStep ==
    ASSUME IInv, NEW k \in Keys, NEW rs \in SUBSET Routes, NEW ids \in IdSets, ClaimAndEnqueue(k, rs, ids)
    PROVE  IInv' /\ Moves
  <1>1. TypeOK /\ Records /\ ids \in SUBSET Ids
    BY DEF IInv, IdSets
  <1>2. events' \in Nat /\ UNCHANGED <<tombs, worker, tokens, crashes, slow>>
    BY <1>1 DEF ClaimAndEnqueue, TypeOK
  <1>3. QuietWorkers /\ TypesLeft
    BY <1>1, <1>2, SameWorkers DEF TypesLeft, TypeOK
  <1> DEFINE taught == Remembered(Maintained[k], ids)
  <1>4. \/ queue' = Maintained /\ UNCHANGED <<born, sends>>
        \/ Maintained[k].state # "absent" /\ Persist(k, taught) /\ UNCHANGED <<born, sends>>
        \/ /\ Persist(k, NewDelivery(rs, ids))
           /\ born' = [born EXCEPT ![k] = tokens]
           /\ sends' = [sends EXCEPT ![k] = [r \in Routes |-> 0]]
        \/ UNCHANGED <<queue, born, sends>>
    BY DEF ClaimAndEnqueue
  <1>5. CASE queue' = Maintained /\ UNCHANGED <<born, sends>>
    BY <1>1, <1>2, <1>3, <1>5, MaintainedQuiet, QuietStep
  <1>6. CASE Maintained[k].state # "absent" /\ Persist(k, taught) /\ UNCHANGED <<born, sends>>
    <2>1. born[k] \in Nat /\ tokens \in Nat /\ RecordOK(Maintained[k], born[k], tokens)
      BY <1>1, MaintainedCarries DEF TypeOK
    <2>2. Carries(Maintained[k], taught, born[k], tokens)
      BY <1>1, <1>6, <2>1, RememberedOK
    <2> HIDE DEF taught
    <2>3. QuietQueue
      BY <1>1, <1>6, <2>2, PersistQuiet
    <2>4. QED
      BY <1>2, <1>3, <1>6, <2>3, QuietStep
  <1>7. CASE /\ Persist(k, NewDelivery(rs, ids))
             /\ born' = [born EXCEPT ![k] = tokens]
             /\ sends' = [sends EXCEPT ![k] = [r \in Routes |-> 0]]
    BY <1>1, <1>2, <1>7, FreshStep
  <1>8. CASE UNCHANGED <<queue, born, sends>>
    BY <1>1, <1>2, <1>3, <1>8, SameQueue, QuietStep
  <1>9. QED
    BY <1>4, <1>5, <1>6, <1>7, <1>8

\* The tokens that the other workers hold are not c.
Alone(w, c) == \A v \in Workers : v # w /\ worker[v].stage # "idle" => worker[v].token # c

\* A worker writes the record it has leased: claimNext, beginRouteAttempt and
\* the marking of a route.
LEMMA LeaseWrite ==
    ASSUME IInv, NEW w \in Workers, NEW b \in WorkerRecords, worker' = [worker EXCEPT ![w] = b],
           b.stage # "idle", NEW k \in Keys, b.key = k,
           NEW e, Persist(k, e), tokens' \in {tokens, tokens + 1},
           RecordOK(e, born[k], tokens'), Grows(Maintained[k], e), e.token = b.token,
           b.token \in 1..tokens', Alone(w, b.token),
           b.stage \in InFlight => e.routes[b.route].state = "processing",
           UNCHANGED <<tombs, born, sends, events, crashes, slow>>
    PROVE  /\ TypeOK' /\ Records' /\ Claims' /\ TimelyAnswerAccepted' /\ Moves
           /\ \A j \in Keys : queue'[j] \in Delivery /\ Grows(queue[j], queue'[j])
           /\ queue'[k] = e
  <1>1. TypeOK /\ Records /\ Claims /\ tokens \in Nat /\ tokens' \in Nat
    BY DEF IInv, TypeOK
  <1>2. /\ Maintained \in [Keys -> Delivery]
        /\ \A j \in Keys : Carries(queue[j], Maintained[j], born[j], tokens)
    BY <1>1, MaintainedCarries
  <1> DEFINE m == Maintained
  <1>3. queue' = [m EXCEPT ![k] = e] /\ e \in Delivery
    BY DEF Persist, RecordOK
  <1> HIDE DEF m
  <1>4. queue' \in [Keys -> Delivery] /\ queue'[k] = e /\ \A j \in Keys : j # k => queue'[j] = m[j]
    BY <1>2, <1>3 DEF m
  <1>5. worker' \in [Workers -> WorkerRecords] /\ worker'[w] = b /\ \A v \in Workers : v # w => worker'[v] = worker[v]
    BY <1>1 DEF TypeOK
  <1>6. TypeOK'
    BY <1>1, <1>4, <1>5 DEF TypeOK
  <1>7. ASSUME NEW j \in Keys
        PROVE  RecordOK(queue'[j], born'[j], tokens') /\ Grows(queue[j], queue'[j])
    <2>1. CASE j = k
      <3>1. Grows(queue[k], e)
        <4>1. Grows(queue[k], m[k]) /\ Grows(m[k], e) /\ queue[k] \in Delivery /\ m[k] \in Delivery
          BY <1>1, <1>2 DEF Carries, m, TypeOK
        <4>2. QED
          BY <1>3, <4>1, GrowsTrans
      <3>2. QED
        BY <1>4, <2>1, <3>1
    <2>2. CASE j # k
      <3>1. RecordOK(m[j], born[j], tokens) /\ Grows(queue[j], m[j]) /\ born[j] \in Nat
        BY <1>1, <1>2 DEF Carries, m, TypeOK
      <3>2. RecordOK(m[j], born[j], tokens')
        BY <1>1, <3>1, LaterOK
      <3>3. QED
        BY <1>4, <2>2, <3>1, <3>2
    <2>3. QED
      BY <2>1, <2>2
  <1>8. Records' /\ Moves
    BY <1>7 DEF Records, Moves
  <1>9. Claims'
    <2>1. ASSUME NEW v \in Workers, worker'[v].stage # "idle"
          PROVE  worker'[v].token \in 1..tokens'
      <3>1. CASE v = w
        BY <1>5, <3>1
      <3>2. CASE v # w
        <4>1. worker[v].token \in 1..tokens /\ worker'[v] = worker[v]
          BY <1>1, <1>5, <2>1, <3>2 DEF Claims
        <4>2. QED
          BY <1>1, <4>1
      <3>3. QED
        BY <3>1, <3>2
    <2>2. ASSUME NEW u \in Workers, NEW v \in Workers, u # v, worker'[u].stage # "idle", worker'[v].stage # "idle"
          PROVE  worker'[u].token # worker'[v].token
      <3>1. CASE u = w
        BY <1>5, <2>2, <3>1 DEF Alone
      <3>2. CASE v = w
        BY <1>5, <2>2, <3>2 DEF Alone
      <3>3. CASE u # w /\ v # w
        BY <1>1, <1>5, <2>2, <3>3 DEF Claims
      <3>4. QED
        BY <3>1, <3>2, <3>3
    <2>3. QED
      BY <2>1, <2>2 DEF Claims
  <1>10. TimelyAnswerAccepted'
    <2> SUFFICES ASSUME NEW v \in Workers,
                        worker'[v].stage \in InFlight,
                        queue'[worker'[v].key].state = "processing",
                        queue'[worker'[v].key].token = worker'[v].token
                 PROVE  queue'[worker'[v].key].routes[worker'[v].route].state = "processing"
      BY DEF TimelyAnswerAccepted, InFlight
    <2>1. CASE v = w
      BY <1>4, <1>5, <2>1
    <2>2. CASE v # w
      <3> DEFINE j == worker[v].key
      <3>1. worker'[v] = worker[v] /\ j \in Keys /\ worker[v].route \in Routes /\ worker[v].stage # "idle"
        BY <1>1, <1>5, <2>2 DEF TypeOK, WorkerRecords, InFlight
      <3>2. j # k
        BY <1>4, <2>2, <3>1 DEF Alone
      <3>3. KeepsLease(queue[j], queue'[j])
        BY <1>2, <1>4, <3>1, <3>2 DEF Carries, m
      <3>4. queue[j].state = "processing" /\ queue[j].token = worker[v].token
        BY <3>1, <3>3 DEF KeepsLease
      <3>5. queue[j].routes[worker[v].route].state = "processing"
        BY <3>1, <3>4 DEF IInv, TimelyAnswerAccepted, InFlight
      <3>6. QED
        BY <3>1, <3>3, <3>5 DEF KeepsLease
    <2>3. QED
      BY <2>1, <2>2
  <1>11. QED
    BY <1>4, <1>6, <1>7, <1>8, <1>9, <1>10

\* claimNext.
LEMMA ClaimNextStep ==
    ASSUME IInv, NEW w \in Workers, ClaimNext(w)
    PROVE  IInv' /\ Moves
  <1>1. TypeOK /\ Records /\ Claims /\ Budget /\ tokens \in Nat
    BY DEF IInv, TypeOK
  <1>2. PICK k \in Keys :
          LET d == Maintained[k]
          IN  /\ Claimable(d)
              /\ Persist(k, [d EXCEPT !.state = "processing", !.attempts = @ + 1,
                                      !.lease = "held", !.token = tokens + 1])
              /\ worker' = [worker EXCEPT
                   ![w].stage = IF k \in NeedsRefresh THEN "refresh" ELSE "routes",
                   ![w].key = k,
                   ![w].token = tokens + 1,
                   ![w].todo = {r \in Routes : d.routes[r].state \in Active}]
    BY DEF ClaimNext
  <1> DEFINE d == Maintained[k]
             st == IF k \in NeedsRefresh THEN "refresh" ELSE "routes"
             todo == {r \in Routes : d.routes[r].state \in Active}
             c == tokens + 1
             b == [worker[w] EXCEPT !.stage = st, !.key = k, !.token = c, !.todo = todo]
             e == Leased(d, tokens)
  <1>3. born[k] \in Nat /\ RecordOK(d, born[k], tokens) /\ d.state # "absent"
    BY <1>1, <1>2, MaintainedCarries DEF TypeOK, Claimable, Active
  <1>4. RecordOK(e, born[k], tokens + 1) /\ Grows(d, e) /\ e.token = tokens + 1
    BY <1>1, <1>3, LeasedOK
  <1>5. Persist(k, e)
    BY <1>2 DEF Leased
  <1>6. worker' = [worker EXCEPT ![w] = b]
    BY <1>1, <1>2 DEF TypeOK
  <1>7. st \in {"refresh", "routes"} /\ todo \in SUBSET Routes /\ c \in Nat /\ c = tokens + 1
    BY <1>1
  <1>8. worker[w] \in WorkerRecords
    BY <1>1 DEF TypeOK
  <1> HIDE DEF d, st, todo, c, e
  <1>9. b \in WorkerRecords /\ b.stage = st /\ b.key = k /\ b.token = c
    BY <1>7, <1>8 DEF WorkerRecords, Stages
  <1> HIDE DEF b
  <1>10. Alone(w, b.token)
    <2>1. ASSUME NEW v \in Workers, worker[v].stage # "idle" PROVE worker[v].token # tokens + 1
      <3>1. worker[v].token \in 1..tokens
        BY <1>1, <2>1 DEF Claims
      <3>2. QED
        BY <1>1, <3>1
    <2>2. QED
      BY <1>7, <1>9, <2>1 DEF Alone
  <1>11. /\ b.stage # "idle" /\ b.stage \notin InFlight /\ b.stage # "begun" /\ tokens' = tokens + 1
         /\ b.token \in 1..tokens' /\ e.token = b.token
         /\ UNCHANGED <<tombs, born, sends, events, crashes, slow>>
    BY <1>1, <1>4, <1>7, <1>9 DEF InFlight, ClaimNext
  <1>12. /\ TypeOK' /\ Records' /\ Claims' /\ TimelyAnswerAccepted' /\ Moves
         /\ \A j \in Keys : queue'[j] \in Delivery /\ Grows(queue[j], queue'[j])
    BY <1>4, <1>5, <1>6, <1>9, <1>10, <1>11, LeaseWrite DEF d
  <1>13. NoneBegins
    BY <1>1, <1>6, <1>11 DEF NoneBegins, TypeOK
  <1>14. Budget'
    BY <1>1, <1>11, <1>12, <1>13, BudgetQuiet DEF Budget
  <1>15. QED
    BY <1>12, <1>14 DEF IInv

\* markRouteCompleted, markRouteRetryable and markRouteFailed.
LEMMA MarkRouteStep ==
    ASSUME IInv, NEW w \in Workers, MarkRoute(w)
    PROVE  IInv' /\ Moves
  <1> DEFINE k == worker[w].key
             d == Maintained[k]
             r == worker[w].route
             x == Marked(d.routes[r], worker[w].answer)
             e == SetOne(d, r, x)
             b == Replied(worker[w], "routes", "none")
  <1>1. /\ TypeOK /\ Records /\ Claims /\ Budget /\ tokens \in Nat
        /\ worker[w] \in WorkerRecords /\ k \in Keys /\ r \in Routes /\ born[k] \in Nat
    BY DEF IInv, TypeOK, WorkerRecords
  <1>2. RecordOK(d, born[k], tokens) /\ d.state = "processing" /\ d.token = worker[w].token
    BY <1>1, MaintainedCarries DEF MarkRoute, HoldsLease
  <1>3. d \in Delivery /\ d.routes[r] \in Route /\ RouteOK(d.routes[r], born[k], tokens) /\ born[k] < tokens
        /\ d.routes \in [Routes -> Route]
    <2>1. d \in Delivery /\ RouteOK(d.routes[r], born[k], tokens) /\ LeaseOK(d, born[k], tokens)
      BY <1>1, <1>2 DEF RecordOK, RoutesOK
    <2>2. d.token \in Nat /\ d.routes \in [Routes -> Route]
      BY <2>1 DEF Delivery
    <2>3. born[k] < tokens
      BY <1>1, <1>2, <2>1, <2>2 DEF LeaseOK
    <2>4. QED
      BY <1>1, <2>1, <2>2, <2>3
  <1>4. x \in Route /\ RouteOK(x, born[k], tokens) /\ RouteGrows(d.routes[r], x)
    BY <1>1, <1>3, MarkedOK DEF MarkRoute
  <1>5. RecordOK(e, born[k], tokens) /\ Grows(d, e) /\ e.token = d.token
    <2>1. d.routes[r].state = "processing"
      BY DEF MarkRoute
    <2>2. QED
      <3>1. RecordOK(e, born[k], tokens) /\ Grows(d, e)
        <4> HIDE DEF d, r, k
        <4>1. QED
          BY <1>1, <1>2, <1>3, <2>1, MarkOneOK
      <3>2. e.token = d.token
        BY <1>3 DEF SetOne, Delivery
      <3>3. QED
        BY <3>1, <3>2
  <1>6. Persist(k, e)
    <2>1. [d EXCEPT !.routes[r] = Marked(@, worker[w].answer)] = e
      BY <1>1, <1>3 DEF SetOne, Delivery
    <2>2. QED
      BY <2>1 DEF MarkRoute
  <1>7. worker' = [worker EXCEPT ![w] = b]
    BY <1>1 DEF MarkRoute, TypeOK, Replied
  <1>8. "routes" \in Stages /\ "none" \in Answers
    BY DEF Stages, Answers
  <1>9. b \in WorkerRecords /\ b.stage = "routes" /\ b.key = k /\ b.token = worker[w].token
    BY <1>1, <1>8, AnswerField
  <1>10. worker[w].stage = "answered" /\ UNCHANGED <<tombs, tokens, born, sends, events, crashes, slow>>
    BY DEF MarkRoute
  <1>11. worker[w].token \in 1..tokens /\ Alone(w, worker[w].token)
    BY <1>1, <1>10 DEF Claims, Alone
  <1> HIDE DEF d, x, e, b
  <1>12. /\ TypeOK' /\ Records' /\ Claims' /\ TimelyAnswerAccepted' /\ Moves
         /\ \A j \in Keys : queue'[j] \in Delivery /\ Grows(queue[j], queue'[j])
    <2>1. b.stage # "idle" /\ b.stage \notin InFlight /\ tokens' \in {tokens, tokens + 1}
          /\ b.token \in 1..tokens' /\ e.token = b.token /\ Alone(w, b.token)
      BY <1>2, <1>5, <1>9, <1>10, <1>11 DEF InFlight
    <2>2. RecordOK(e, born[k], tokens') /\ Grows(Maintained[k], e)
      BY <1>5, <1>10 DEF d
    <2> HIDE DEF k
    <2>3. QED
      BY <1>1, <1>6, <1>7, <1>9, <1>10, <2>1, <2>2, LeaseWrite
  <1>13. NoneBegins
    BY <1>1, <1>7, <1>9 DEF NoneBegins, TypeOK
  <1>14. Budget'
    BY <1>1, <1>10, <1>12, <1>13, BudgetQuiet DEF Budget
  <1>15. QED
    BY <1>12, <1>14 DEF IInv

\* beginRouteAttempt counts the attempt and owes the request.
LEMMA BegunStep ==
    ASSUME IInv, NEW w \in Workers, NEW r \in Routes, BeginRouteAttempt(w, r),
           Sendable(Maintained[worker[w].key].routes[r])
    PROVE  IInv' /\ Moves
  <1> DEFINE k == worker[w].key
             d == Maintained[k]
             x == Begun(d.routes[r])
             e == SetOne(d, r, x)
             todo == worker[w].todo \ {r}
             b == [worker[w] EXCEPT !.stage = "begun", !.route = r, !.todo = todo]
  <1>1. /\ TypeOK /\ Records /\ Claims /\ Budget /\ tokens \in Nat
        /\ worker[w] \in WorkerRecords /\ k \in Keys /\ born[k] \in Nat
    BY DEF IInv, TypeOK, WorkerRecords
  <1>2. RecordOK(d, born[k], tokens) /\ d.state = "processing" /\ d.token = worker[w].token
    BY <1>1, MaintainedCarries DEF BeginRouteAttempt, HoldsLease
  <1>3. d \in Delivery /\ d.routes[r] \in Route /\ RouteOK(d.routes[r], born[k], tokens)
        /\ d.routes \in [Routes -> Route]
    BY <1>2 DEF RecordOK, RoutesOK, Delivery
  <1>4. /\ x \in Route /\ RouteOK(x, born[k], tokens) /\ RouteGrows(d.routes[r], x)
        /\ x.state = "processing" /\ x.attempts = d.routes[r].attempts + 1
    BY <1>1, <1>3, BegunOK
  <1>5. RecordOK(e, born[k], tokens) /\ Grows(d, e) /\ e.token = d.token /\ e.state = "processing"
        /\ e.routes = [d.routes EXCEPT ![r] = x]
    <2> HIDE DEF x, d, k
    <2>1. QED
      BY <1>1, <1>2, <1>4, SetOneOK
  <1>6. Persist(k, e) /\ worker' = [worker EXCEPT ![w].stage = "begun", ![w].route = r, ![w].todo = @ \ {r}]
    <2>1. [d EXCEPT !.routes[r].state = "processing", !.routes[r].attempts = @ + 1] = e
      BY <1>3 DEF SetOne, Delivery, Begun, Route
    <2>2. QED
      BY <2>1 DEF BeginRouteAttempt
  <1>7. worker' = [worker EXCEPT ![w] = b]
    BY <1>1, <1>6 DEF TypeOK, WorkerRecords
  <1>8. todo \in SUBSET Routes
    BY <1>1 DEF WorkerRecords
  <1> HIDE DEF todo
  <1>9. b \in WorkerRecords /\ b.stage = "begun" /\ b.key = k /\ b.token = worker[w].token /\ b.route = r
    BY <1>1, <1>8 DEF WorkerRecords, Stages
  <1>10. worker[w].stage = "routes" /\ UNCHANGED <<tombs, tokens, born, sends, events, crashes, slow>>
    BY DEF BeginRouteAttempt
  <1>11. worker[w].token \in 1..tokens /\ Alone(w, worker[w].token)
    BY <1>1, <1>10 DEF Claims, Alone
  <1> HIDE DEF d, x, e, b
  <1>12. /\ TypeOK' /\ Records' /\ Claims' /\ TimelyAnswerAccepted' /\ Moves
         /\ \A j \in Keys : queue'[j] \in Delivery /\ Grows(queue[j], queue'[j])
         /\ queue'[k] = e
    <2>1. /\ b.stage # "idle" /\ tokens' \in {tokens, tokens + 1}
          /\ b.token \in 1..tokens' /\ e.token = b.token /\ Alone(w, b.token)
      BY <1>2, <1>5, <1>9, <1>10, <1>11
    <2>2. RecordOK(e, born[k], tokens') /\ Grows(Maintained[k], e)
      BY <1>5, <1>10 DEF d
    <2>3. b.stage \in InFlight => e.routes[b.route].state = "processing"
      BY <1>3, <1>4, <1>5, <1>9
    <2> HIDE DEF k
    <2>4. k \in Keys /\ UNCHANGED <<tombs, born, sends, events, crashes, slow>>
      BY <1>1, <1>10
    <2>5. /\ TypeOK' /\ Records' /\ Claims' /\ TimelyAnswerAccepted' /\ Moves
          /\ \A j \in Keys : queue'[j] \in Delivery /\ Grows(queue[j], queue'[j])
      BY <1>6, <1>7, <1>9, <2>1, <2>2, <2>3, <2>4, LeaseWrite
    <2>6. queue'[k] = e
      BY <1>1, <1>6, <2>4, MaintainedCarries DEF Persist
    <2>7. QED
      BY <2>5, <2>6
  <1>13. worker'[w] = b /\ \A v \in Workers : v # w => worker'[v] = worker[v]
    BY <1>1, <1>7 DEF TypeOK
  <1>14. ASSUME NEW j \in Keys, NEW q \in Routes
         PROVE  sends'[j][q] + Cardinality(Pending(j, q)') <= Counted(j, q)'
    <2> DEFINE p == Cardinality(Pending(j, q))
               c == Counted(j, q)
               z == Counted(j, q)'
    <2>1. sends[j][q] \in Nat /\ p \in Nat /\ IsFiniteSet(Pending(j, q))
      BY <1>1, PendingFinite DEF TypeOK
    <2>2. c \in Nat /\ z \in Nat /\ c <= z
      BY <1>1, <1>12, CountedGrows
    <2>3. sends[j][q] + p <= c /\ sends'[j][q] = sends[j][q]
      BY <1>1, <1>10 DEF Budget
    <2>4. CASE j = k /\ q = r /\ worker[w].token > born[k]
      <3>1. Pending(j, q)' = Pending(j, q) \cup {w} /\ w \notin Pending(j, q)
        BY <1>9, <1>10, <1>13, <2>4 DEF Pending
      <3>2. Cardinality(Pending(j, q)') = p + 1
        BY <2>1, <3>1, FS_AddElement
      <3>3. z = c + 1
        <4>1. queue[k] \in Delivery /\ queue[k].state # "absent" /\ d = queue[k]
          <5>1. Carries(queue[k], d, born[k], tokens) /\ queue[k] \in Delivery
            BY <1>1, MaintainedCarries DEF d, TypeOK
          <5>2. queue[k].state = "processing"
            BY <1>2, <5>1 DEF Carries, KeepsLease
          <5>3. d = queue[k]
            BY <1>1, <1>2, MaintainedSame DEF d
          <5>4. QED
            BY <5>1, <5>2, <5>3
        <4>2. c = d.routes[r].attempts
          BY <2>4, <4>1 DEF Counted
        <4>3. z = e.routes[r].attempts
          BY <1>5, <1>12, <2>4 DEF Counted
        <4>4. QED
          BY <1>3, <1>4, <1>5, <4>2, <4>3
      <3> HIDE DEF p, c, z
      <3>4. sends[j][q] + (p + 1) <= z
        BY <2>1, <2>2, <2>3, <3>3
      <3>5. QED
        BY <2>3, <3>2, <3>4 DEF z
    <2>5. CASE ~(j = k /\ q = r /\ worker[w].token > born[k])
      <3>1. Pending(j, q)' = Pending(j, q)
        BY <1>9, <1>10, <1>13, <2>5 DEF Pending
      <3> HIDE DEF c, z
      <3>2. sends[j][q] + p <= z
        <4> HIDE DEF p
        <4>1. QED
          BY <2>1, <2>2, <2>3
      <3>3. QED
        BY <2>3, <3>1, <3>2 DEF z
    <2>6. QED
      BY <2>4, <2>5
  <1>15. QED
    BY <1>12, <1>14 DEF IInv, Budget

\* beginRouteAttempt, whether the route is due or passed over.
LEMMA BeginStep ==
    ASSUME IInv, NEW w \in Workers, NEW r \in Routes, BeginRouteAttempt(w, r)
    PROVE  IInv' /\ Moves
  <1>1. CASE Sendable(Maintained[worker[w].key].routes[r])
    BY <1>1, BegunStep
  <1>2. CASE ~Sendable(Maintained[worker[w].key].routes[r])
    <2> DEFINE todo == worker[w].todo \ {r}
               b == [worker[w] EXCEPT !.todo = todo]
    <2>1. TypeOK /\ Records /\ worker[w] \in WorkerRecords
      BY DEF IInv, TypeOK
    <2>2. queue' = Maintained /\ worker' = [worker EXCEPT ![w].todo = @ \ {r}]
      BY <1>2 DEF BeginRouteAttempt
    <2>3. worker' = [worker EXCEPT ![w] = b]
      BY <2>1, <2>2 DEF TypeOK
    <2>4. todo \in SUBSET Routes /\ worker[w].stage = "routes"
      BY <2>1 DEF WorkerRecords, BeginRouteAttempt
    <2> HIDE DEF todo
    <2>5. b \in WorkerRecords /\ b.stage = "routes" /\ b.token = worker[w].token
      BY <2>1, <2>4, TodoField
    <2> HIDE DEF b
    <2>6. CalmWorker(worker[w], b)
      BY <2>4, <2>5 DEF CalmWorker, InFlight
    <2>7. QuietQueue /\ QuietWorkers /\ TypesLeft
      BY <2>1, <2>2, <2>3, <2>5, <2>6, MaintainedQuiet, OneWorker DEF BeginRouteAttempt, TypesLeft, TypeOK
    <2>8. QED
      BY <2>7, QuietStep DEF BeginRouteAttempt
  <1>3. QED
    BY <1>1, <1>2

\* The request that was owed is made.
LEMMA SendStep ==
    ASSUME IInv, NEW w \in Workers, Send(w)
    PROVE  IInv' /\ Moves
  <1> DEFINE k == worker[w].key
             r == worker[w].route
             b == [worker[w] EXCEPT !.stage = "sending"]
  <1>1. /\ TypeOK /\ Records /\ Claims /\ Budget /\ TimelyAnswerAccepted
        /\ worker[w] \in WorkerRecords /\ k \in Keys /\ r \in Routes /\ born[k] \in Nat
    BY DEF IInv, TypeOK, WorkerRecords
  <1>2. "sending" \in Stages
    BY DEF Stages
  <1>3. b \in WorkerRecords /\ b.stage = "sending" /\ b.token = worker[w].token /\ b.key = k /\ b.route = r
    BY <1>1, <1>2, StageField
  <1>4. worker' = [worker EXCEPT ![w] = b] /\ worker[w].stage = "begun"
    BY <1>1 DEF Send, TypeOK
  <1>5. UNCHANGED <<queue, tombs, tokens, born, events, crashes, slow>>
    BY DEF Send
  <1> HIDE DEF b
  <1>6. CalmWorker(worker[w], b)
    BY <1>3, <1>4 DEF CalmWorker, InFlight
  <1>7. QuietWorkers /\ QuietQueue
    BY <1>1, <1>3, <1>4, <1>5, <1>6, OneWorker, SameQueue
  <1>8. Claims' /\ TimelyAnswerAccepted' /\ Records' /\ Moves
    BY <1>1, <1>5, <1>7, ClaimsQuiet, TimelyQuiet DEF Records, Moves, QuietQueue, Carries
  <1>9. worker'[w] = b /\ \A v \in Workers : v # w => worker'[v] = worker[v]
    BY <1>1, <1>4 DEF TypeOK
  <1>10. CASE worker[w].token > born[k]
    <2>1. sends' = [sends EXCEPT ![k][r] = @ + 1]
      BY <1>10 DEF Send
    <2>2. /\ sends' \in [Keys -> [Routes -> Nat]]
          /\ sends'[k][r] = sends[k][r] + 1
          /\ \A j \in Keys, q \in Routes : j # k \/ q # r => sends'[j][q] = sends[j][q]
      BY <1>1, <2>1 DEF TypeOK
    <2>3. TypeOK'
      BY <1>1, <1>5, <1>7, <2>2 DEF TypeOK, QuietWorkers
    <2>4. ASSUME NEW j \in Keys, NEW q \in Routes
          PROVE  sends'[j][q] + Cardinality(Pending(j, q)') <= Counted(j, q)'
      <3> DEFINE p == Cardinality(Pending(j, q))
                 c == Counted(j, q)
      <3>1. sends[j][q] \in Nat /\ p \in Nat /\ IsFiniteSet(Pending(j, q))
        BY <1>1, PendingFinite DEF TypeOK
      <3>2. Counted(j, q)' = c
        BY <1>5 DEF Counted
      <3>3. sends[j][q] + p <= c
        BY <1>1 DEF Budget
      <3>4. c \in Nat
        BY <1>1, QueueAssumption DEF Counted, TypeOK, Delivery, Route
      <3>5. CASE j = k /\ q = r
        <4>1. Pending(j, q)' = Pending(j, q) \ {w} /\ w \in Pending(j, q)
          BY <1>3, <1>4, <1>5, <1>9, <1>10, <3>5 DEF Pending
        <4>2. Cardinality(Pending(j, q)') = p - 1
          BY <3>1, <4>1, FS_RemoveElement
        <4> HIDE DEF p, c
        <4>3. (sends[j][q] + 1) + (p - 1) <= c
          BY <3>1, <3>3, <3>4
        <4>4. QED
          BY <2>2, <3>2, <3>5, <4>2, <4>3
      <3>6. CASE ~(j = k /\ q = r)
        <4>1. Pending(j, q)' = Pending(j, q)
          BY <1>3, <1>4, <1>5, <1>9, <3>6 DEF Pending
        <4>2. QED
          BY <2>2, <3>2, <3>3, <3>6, <4>1
      <3>7. QED
        BY <3>5, <3>6
    <2>5. QED
      BY <1>8, <2>3, <2>4 DEF IInv, Budget
  <1>11. CASE ~(worker[w].token > born[k])
    <2>1. sends' = sends
      BY <1>11 DEF Send
    <2>2. TypesLeft
      BY <1>1, <1>5 DEF TypesLeft, TypeOK
    <2>3. QED
      BY <1>5, <1>7, <2>1, <2>2, QuietStep
  <1>12. QED
    BY <1>10, <1>11

----------------------------------------------------------------------------
(* Theorems *)

\* The empty queue satisfies the invariant.
LEMMA InitInv == Init => IInv
  <1> SUFFICES ASSUME Init PROVE IInv
    OBVIOUS
  <1>1. \A w \in Workers : worker[w] \in WorkerRecords /\ worker[w].stage = "idle"
    BY DEF Init, Idle, WorkerRecords, Stages, Answers
  <1>2. TypeOK
    <2>1. tombs \subseteq [key: Keys, id: Ids]
      BY QueueAssumption DEF Init
    <2>2. worker \in [Workers -> WorkerRecords]
      BY <1>1 DEF Init
    <2>3. QED
      BY <2>1, <2>2, AbsentType DEF Init, TypeOK
  <1>3. Records
    BY AbsentOK DEF Init, Records
  <1>4. Claims /\ TimelyAnswerAccepted
    BY <1>1 DEF Claims, TimelyAnswerAccepted
  <1>5. Budget
    <2>1. ASSUME NEW k \in Keys, NEW r \in Routes
          PROVE  sends[k][r] + Cardinality(Pending(k, r)) <= Counted(k, r)
      <3>1. Pending(k, r) = {}
        BY <1>1 DEF Pending
      <3>2. Cardinality({}) = 0
        BY FS_EmptySet
      <3>3. sends[k][r] = 0 /\ queue[k].state = "absent" /\ MaxAttempts \in Nat
        BY QueueAssumption DEF Init, Absent
      <3>4. QED
        BY <3>1, <3>2, <3>3 DEF Counted
    <2>2. QED
      BY <2>1 DEF Budget
  <1>6. QED
    BY <1>2, <1>3, <1>4, <1>5 DEF IInv

\* Every step preserves the invariant and only advances the records it keeps.
LEMMA StepInv ==
    ASSUME IInv, [Next]_vars
    PROVE  IInv' /\ Moves
  <1>1. CASE UNCHANGED vars
    <2>1. TypeOK /\ Records
      BY DEF IInv
    <2>2. QuietQueue /\ QuietWorkers /\ TypesLeft
      BY <1>1, <2>1, SameQueue, SameWorkers DEF vars, TypesLeft, TypeOK
    <2>3. QED
      BY <1>1, <2>2, QuietStep DEF vars
  <1>2. ASSUME NEW k \in Keys, NEW rs \in SUBSET Routes, NEW ids \in IdSets, ClaimAndEnqueue(k, rs, ids)
        PROVE  IInv' /\ Moves
    BY <1>2, EnqueueStep
  <1>3. ASSUME NEW w \in Workers, WorkerStep(w) \/ Crash(w)
        PROVE  IInv' /\ Moves
    BY <1>3, SmallSteps, ClaimNextStep, RefreshFailsStep, BeginStep, SendStep, MarkRouteStep, FinishDeliveryStep
       DEF WorkerStep
  <1>4. ASSUME NEW k \in Keys, TimePasses(k)
        PROVE  IInv' /\ Moves
    BY <1>4, TimeSteps
  <1>5. CASE TombstoneEnds
    BY <1>5, TombstoneStep
  <1>6. QED
    BY <1>1, <1>2, <1>3, <1>4, <1>5 DEF Next

\* The invariant holds in every reachable state.
THEOREM Inductive == Spec => []IInv
  <1>1. IInv /\ [Next]_vars => IInv'
    BY StepInv
  <1>2. QED
    BY <1>1, InitInv, PTL DEF Spec

\* The queue, its workers and the histories keep their types.
THEOREM TypeCorrect == Spec => []TypeOK
  <1>1. IInv => TypeOK
    BY DEF IInv
  <1>2. QED
    BY <1>1, Inductive, PTL

\* No route of a record is sent more than maxAttempts times, whatever number of
\* workers crash or overrun their leases: beginRouteAttempt counts before it sends
\* and recoverExpired never uncounts.
THEOREM WithinBudget == Spec => []SendBudget
  <1>1. IInv => SendBudget
    <2> SUFFICES ASSUME IInv, NEW k \in Keys, NEW r \in Routes PROVE sends[k][r] <= MaxAttempts
      BY DEF SendBudget
    <2> DEFINE p == Cardinality(Pending(k, r))
               c == Counted(k, r)
    <2>1. sends[k][r] \in Nat /\ p \in Nat /\ MaxAttempts \in Nat
      BY PendingFinite, QueueAssumption DEF IInv, TypeOK
    <2>2. c \in Nat /\ c <= MaxAttempts
      BY QueueAssumption DEF IInv, TypeOK, Delivery, Route, Counted, Records, RecordOK, RoutesOK, RouteOK
    <2>3. sends[k][r] + p <= c
      BY DEF IInv, Budget
    <2> HIDE DEF p, c
    <2>4. QED
      BY <2>1, <2>2, <2>3
  <1>2. QED
    BY <1>1, Inductive, PTL

\* markRouteCompleted and its siblings find the route in processing whenever the
\* lease is still theirs: requireLease keeps every other worker out.
THEOREM TimelyAnswers == Spec => []TimelyAnswerAccepted
  <1>1. IInv => TimelyAnswerAccepted
    BY DEF IInv
  <1>2. QED
    BY <1>1, Inductive, PTL

\* A delivery becomes terminal, and is compacted, only when each route is settled,
\* also when recoverExpired gives up on it.
THEOREM TerminalIsDone == Spec => []TerminalMeansDone
  <1>1. IInv => TerminalMeansDone
    BY DEF IInv, Records, RecordOK, TerminalDone, TerminalMeansDone, RoutesOf, Terminal
  <1>2. QED
    BY <1>1, Inductive, PTL

\* No recovery, failure or retry reopens a route that markRouteCompleted closed.
THEOREM CompletedIsFinal == Spec => CompletedStays
  <1> DEFINE A == \A k \in Keys, r \in Routes :
                    /\ queue[k].routes[r].state = "completed"
                    /\ queue'[k].state # "absent" /\ born'[k] = born[k]
                    => queue'[k].routes[r] = queue[k].routes[r]
  <1>1. IInv /\ [Next]_vars => [A]_vars
    <2> SUFFICES ASSUME IInv, [Next]_vars, NEW k \in Keys, NEW r \in Routes,
                        queue[k].routes[r].state = "completed",
                        queue'[k].state # "absent", born'[k] = born[k]
                 PROVE  queue'[k].routes[r] = queue[k].routes[r]
      OBVIOUS
    <2>1. Moves
      BY StepInv
    <2>2. born[k] # tokens
      <3>1. born[k] \in Nat /\ tokens \in Nat /\ born[k] < tokens
        BY DEF IInv, TypeOK, Records, RecordOK, RoutesOK, RouteOK
      <3>2. QED
        BY <3>1
    <2>3. Grows(queue[k], queue'[k])
      BY <2>1, <2>2 DEF Moves
    <2>4. QED
      BY <2>3 DEF Grows, RouteGrows
  <1>2. QED
    BY <1>1, Inductive, PTL DEF Spec, CompletedStays
=============================================================================
