------------------------- MODULE HandoffQueue_proofs -------------------------
(***************************************************************************)
(* For any events, routes, configurations, workers, limits and faults: the  *)
(* records that are persisted stay valid, the receipt files agree with the  *)
(* queue, a delivery id stands for one event, an accepted record stays      *)
(* accepted, and no record is sent beyond its attempts.  The Blob of an     *)
(* active record is kept where routes that share a Blob are always          *)
(* configured together (DigestsTogether).                                  *)
(*                                                                         *)
(* Every operation rewrites the whole queue through Maintained, so Kept     *)
(* says what that leaves of a record, and each part of the invariant is     *)
(* shown against what a step does to one record, one worker, the receipts   *)
(* and the Blobs (the lemmas named ...Step) rather than action by action.   *)
(***************************************************************************)
EXTENDS HandoffQueue, FiniteSetTheorems, TLAPS

----------------------------------------------------------------------------
(* Records *)

\* The states of a record that an operator can see and recover, or that is over.
Final == HandoffTerminal \cup {"completed", "failed"}

\* Who has authority over a record, by its state.
Authority(s) ==
    IF s = "absent" THEN "none" ELSE IF s \in Active THEN "openslack"
    ELSE IF s = "accepted" THEN "notification_service" ELSE "terminal"

\* The delivery ids a record may hold.
IdSets == {I \in SUBSET Ids : IsFiniteSet(I) /\ Cardinality(I) <= MaxIds}

\* A record that the next load accepts, within the attempts of its route.
Valid(r, q) ==
    /\ q \in Record /\ q.authority = Authority(q.state)
    /\ q.lease # "none" <=> q.state = "processing"
    /\ IF q.state = "accepted" THEN q.receipt # 0 /\ q.ledger # "none" /\ q.remote # "unknown"
                               ELSE q.receipt = 0 /\ q.ledger = "none"
    /\ q.ids \in IdSets /\ (q.state = "absent" => q.ids = {} /\ q.cycle = 0 /\ q.attempts = 0)
    /\ q.attempts <= AttemptLimit(r)

\* What AcceptedStays says of one record.
Stays(q, n) ==
    q.state = "accepted" =>
        /\ n.state = "accepted" /\ n.receipt = q.receipt
        /\ q.ledger = "committed" => n.ledger = "committed"
        /\ q.remote = "delivered" => n.remote = "delivered"

\* The attempts a record has used up, earlier cycles taken as full.
Spent(r, q) == AttemptLimit(r) * q.cycle + q.attempts

\* What maintenance, answers and time leave of a record: it stays present, or
\* absent, keeps its ids and its receipt, is not revived, and refunds nothing.
Kept(r, q, n) ==
    /\ n.state = "absent" <=> q.state = "absent"
    /\ n.ids = q.ids /\ Stays(q, n)
    /\ n.ledger = "committed" => q.ledger = "committed" /\ n.receipt = q.receipt
    /\ n.state \in Active => q.state \in Active
    /\ n.state = "accepted" => q.state = "accepted"
    /\ n.cycle = q.cycle /\ n.attempts = q.attempts

\* Attempt limits are positive numbers.
LEMMA LimitType == ASSUME NEW r PROVE AttemptLimit(r) \in Nat \ {0}
  BY HandoffAssumption DEF AttemptLimit

\* Kept composes.
LEMMA KeptTrans ==
    ASSUME NEW r, NEW q, NEW m, NEW n, Kept(r, q, m), Kept(r, m, n)
    PROVE  Kept(r, q, n)
  BY DEF Kept, Stays

\* A record that is settled by an answer, or given up.
LEMMA SettledOK ==
    ASSUME NEW r, NEW q, Valid(r, q), q.state \in Active, NEW s \in Final
    PROVE  Valid(r, Settled(q, s, "terminal")) /\ Kept(r, q, Settled(q, s, "terminal"))
  <1> DEFINE n == Settled(q, s, "terminal")
  <1>1. q \in Record /\ s \in States /\ s \notin Active /\ s # "absent" /\ s # "accepted" /\ s # "processing"
    BY DEF Valid, Final, States, HandoffTerminal, Active, Claimable
  <1>2. /\ n \in Record /\ n.state = s /\ n.authority = "terminal" /\ n.lease = "none"
        /\ n.receipt = q.receipt /\ n.ledger = q.ledger /\ n.remote = q.remote /\ n.ids = q.ids
        /\ n.attempts = q.attempts /\ n.cycle = q.cycle
    BY <1>1 DEF Settled, Record
  <1> HIDE DEF n
  <1>3. q.state # "absent" /\ q.state # "accepted"
    BY DEF Active, Claimable
  <1>4. Valid(r, n)
    BY <1>1, <1>2, <1>3 DEF Valid, Authority
  <1>5. Kept(r, q, n)
    BY <1>1, <1>2, <1>3 DEF Kept, Stays, Valid
  <1>6. QED
    BY <1>4, <1>5 DEF n

\* An attempt that gets no answer.
LEMMA UnansweredOK ==
    ASSUME NEW r, NEW q, Valid(r, q), q.state \in Active
    PROVE  Valid(r, Unanswered(r, q)) /\ Kept(r, q, Unanswered(r, q))
  <1> DEFINE n == [q EXCEPT !.state = "retryable", !.when = "later", !.lease = "none", !.token = 0]
  <1>1. q \in Record /\ q.state # "absent" /\ q.state # "accepted" /\ "retryable" \in States
    BY DEF Valid, Active, Claimable, States
  <1>2. /\ n \in Record /\ n.state = "retryable" /\ n.authority = q.authority /\ n.lease = "none"
        /\ n.receipt = q.receipt /\ n.ledger = q.ledger /\ n.remote = q.remote /\ n.ids = q.ids
        /\ n.attempts = q.attempts /\ n.cycle = q.cycle
    BY <1>1 DEF Record
  <1>3. Unanswered(r, q) = n \/ \E s \in Final : Unanswered(r, q) = Settled(q, s, "terminal")
    BY DEF Unanswered, HandoffDead, DirectFailed, Final, HandoffTerminal
  <1> HIDE DEF n
  <1>4. Valid(r, n) /\ Kept(r, q, n)
    BY <1>1, <1>2 DEF Valid, Kept, Stays, Authority, Active, Claimable
  <1>5. QED
    BY <1>3, <1>4, SettledOK

\* A record is kept by doing nothing.
LEMMA KeptSame == ASSUME NEW r, NEW q PROVE Kept(r, q, q)
  BY DEF Kept, Stays

\* Maintenance.
LEMMA MaintainedOK ==
    ASSUME NEW r \in Records, Valid(r, queue[r])
    PROVE  Valid(r, Maintained[r]) /\ Kept(r, queue[r], Maintained[r])
  <1> DEFINE q == queue[r]
             m == Expired(r, q)
             n == Unclaimable(r, m)
  <1>1. Maintained[r] = n
    BY DEF Maintained
  <1>2. Valid(r, m) /\ Kept(r, q, m)
    BY UnansweredOK, KeptSame DEF Expired, Active
  <1> HIDE DEF m
  <1>3. Valid(r, n) /\ Kept(r, m, n)
    <2>1. CASE n = m
      BY <1>2, <2>1, KeptSame
    <2>2. CASE n = HandoffDead(m) /\ m.state \in Claimable
      BY <1>2, <2>2, SettledOK DEF HandoffDead, Final, HandoffTerminal, Active
    <2>3. QED
      BY <2>1, <2>2 DEF Unclaimable
  <1>4. QED
    BY <1>1, <1>2, <1>3, KeptTrans

\* What an answer makes of a record.
LEMMA AnswerOK ==
    ASSUME NEW r, NEW q, Valid(r, q), q.state \in Active, NEW a \in Answers \ {"none", "accepted"}
    PROVE  Valid(r, AfterAnswer(r, q, a)) /\ Kept(r, q, AfterAnswer(r, q, a))
  <1>1. \/ AfterAnswer(r, q, a) = Unanswered(r, q)
        \/ \E s \in Final : AfterAnswer(r, q, a) = Settled(q, s, "terminal")
    BY DEF AfterAnswer, Answers, DirectFailed, Final, HandoffTerminal
  <1>2. QED
    BY <1>1, UnansweredOK, SettledOK

\* The record of a claim: one attempt more, under token t.
Taken(q, t) == [q EXCEPT !.state = "processing", !.attempts = @ + 1, !.token = t, !.lease = "held"]

\* A claim leaves a valid record.
LEMMA ClaimOK ==
    ASSUME NEW r, NEW q, Valid(r, q), MayClaim(r, q), NEW t \in Nat
    PROVE  LET n == Taken(q, t)
           IN  /\ Valid(r, n) /\ q.state \in Active /\ n.state \in Active /\ n.state # "absent"
               /\ n.ids = q.ids /\ n.ledger = q.ledger /\ n.receipt = q.receipt
               /\ n.cycle = q.cycle /\ n.attempts = q.attempts + 1
  <1> DEFINE k == q.attempts + 1
             n == [q EXCEPT !.state = "processing", !.attempts = k, !.token = t, !.lease = "held"]
  <1>1. q \in Record /\ q.state \in Claimable /\ q.attempts \in Nat /\ ~(q.attempts >= AttemptLimit(r))
    BY DEF Valid, MayClaim, Exhausted, Record
  <1>2. k \in Nat /\ k <= AttemptLimit(r)
    BY <1>1, LimitType
  <1> HIDE DEF k
  <1>3. /\ n \in Record /\ n.state = "processing" /\ n.authority = q.authority /\ n.lease = "held"
        /\ n.receipt = q.receipt /\ n.ledger = q.ledger /\ n.remote = q.remote /\ n.ids = q.ids
        /\ n.attempts = k /\ n.cycle = q.cycle
    BY <1>1, <1>2 DEF Record, States, Active
  <1> HIDE DEF n
  <1>4. Valid(r, n)
    BY <1>1, <1>2, <1>3 DEF Valid, Authority, Active, Claimable
  <1>5. n = Taken(q, t)
    BY DEF n, k, Taken
  <1>6. QED
    BY <1>1, <1>3, <1>4, <1>5 DEF Active, k

\* A governed retry.
LEMMA RetriedOK ==
    ASSUME NEW r, NEW q, Valid(r, q), Recoverable(r, q)
    PROVE  /\ Valid(r, Retried(q)) /\ q.state \in HandoffTerminal /\ Retried(q).state = "pending"
           /\ Retried(q).ids = q.ids /\ Retried(q).ledger = "none"
           /\ Retried(q).cycle = q.cycle + 1 /\ Retried(q).attempts = 0
  <1> DEFINE k == q.cycle + 1
             n == [q EXCEPT !.cycle = k, !.state = "pending", !.authority = "openslack", !.attempts = 0,
                            !.when = "due", !.deadline = "ahead", !.remote = "unknown"]
  <1>1. q \in Record /\ q.state \in HandoffTerminal /\ q.cycle \in Nat /\ k \in Nat
    BY DEF Valid, Recoverable, Record
  <1>2. q.state # "accepted" /\ q.state # "absent" /\ q.state # "processing"
    BY <1>1 DEF HandoffTerminal
  <1> HIDE DEF k
  <1>3. /\ n \in Record /\ n.state = "pending" /\ n.authority = "openslack" /\ n.lease = q.lease
        /\ n.receipt = q.receipt /\ n.ledger = q.ledger /\ n.ids = q.ids
        /\ n.attempts = 0 /\ n.cycle = k
    BY <1>1 DEF Record, States, Active, Claimable
  <1> HIDE DEF n
  <1>4. Valid(r, n)
    BY <1>1, <1>2, <1>3, LimitType DEF Valid, Authority, Active, Claimable
  <1>5. n = Retried(q)
    BY DEF n, k, Retried
  <1>6. QED
    BY <1>1, <1>2, <1>3, <1>4, <1>5 DEF k, Valid

\* The accepted record, with the receipt of token t embedded.
LEMMA AcceptedOK ==
    ASSUME NEW r, NEW q, Valid(r, q), q.state \in Active, NEW t \in Nat \ {0}
    PROVE  /\ Valid(r, Accepted(q, t)) /\ Accepted(q, t).state = "accepted"
           /\ Accepted(q, t).receipt = t /\ Accepted(q, t).ledger = "pending"
           /\ Accepted(q, t).ids = q.ids /\ Accepted(q, t).cycle = q.cycle
           /\ Accepted(q, t).attempts = q.attempts
  <1> DEFINE n == [q EXCEPT !.state = "accepted", !.authority = "notification_service", !.when = "due",
                            !.lease = "none", !.token = 0, !.receipt = t, !.ledger = "pending", !.remote = "pending"]
  <1>1. q \in Record /\ q.state # "absent"
    BY DEF Valid, Active, Claimable
  <1>2. /\ n \in Record /\ n.state = "accepted" /\ n.authority = "notification_service" /\ n.lease = "none"
        /\ n.receipt = t /\ n.ledger = "pending" /\ n.remote = "pending" /\ n.ids = q.ids
        /\ n.attempts = q.attempts /\ n.cycle = q.cycle
    <2>1. "accepted" \in States
      BY DEF States
    <2>2. n \in Record
      BY <1>1, <2>1 DEF Record
    <2>3. n.state = "accepted" /\ n.authority = "notification_service" /\ n.lease = "none"
      BY <1>1 DEF Record
    <2>4. n.receipt = t /\ n.ledger = "pending" /\ n.remote = "pending"
      BY <1>1 DEF Record
    <2>5. n.ids = q.ids /\ n.attempts = q.attempts /\ n.cycle = q.cycle
      BY <1>1 DEF Record
    <2>6. QED
      BY <2>2, <2>3, <2>4, <2>5
  <1>3. n = Accepted(q, t)
    BY <1>1 DEF Accepted, Settled, Record
  <1> HIDE DEF n
  <1>4. Valid(r, n)
    BY <1>1, <1>2 DEF Valid, Authority, Active, Claimable
  <1>5. QED
    BY <1>2, <1>3, <1>4

\* An accepted record whose ledger is committed, or whose delivery is projected.
LEMMA LedgerOK ==
    ASSUME NEW r, NEW q, Valid(r, q), q.state = "accepted"
    PROVE  LET n == [q EXCEPT !.ledger = "committed"]
           IN  /\ Valid(r, n) /\ Stays(q, n) /\ n.state = "accepted" /\ n.receipt = q.receipt
               /\ n.ids = q.ids /\ n.cycle = q.cycle /\ n.attempts = q.attempts
  <1> DEFINE n == [q EXCEPT !.ledger = "committed"]
  <1>1. q \in Record
    BY DEF Valid
  <1>2. /\ n \in Record /\ n.state = q.state /\ n.authority = q.authority /\ n.lease = q.lease
        /\ n.receipt = q.receipt /\ n.ledger = "committed" /\ n.remote = q.remote /\ n.ids = q.ids
        /\ n.attempts = q.attempts /\ n.cycle = q.cycle
    BY <1>1 DEF Record
  <1> HIDE DEF n
  <1>3. QED
    BY <1>2 DEF Valid, Stays, n

\* A projection of the delivery.
LEMMA ProjectOK ==
    ASSUME NEW r, NEW q, Valid(r, q), NEW s \in {"pending", "delivered", "dead"}, MayProject(q, s)
    PROVE  Valid(r, [q EXCEPT !.remote = s]) /\ Kept(r, q, [q EXCEPT !.remote = s])
  <1> DEFINE n == [q EXCEPT !.remote = s]
  <1>1. q \in Record
    BY DEF Valid
  <1>2. /\ n \in Record /\ n.state = q.state /\ n.authority = q.authority /\ n.lease = q.lease
        /\ n.receipt = q.receipt /\ n.ledger = q.ledger /\ n.remote = s /\ n.ids = q.ids
        /\ n.attempts = q.attempts /\ n.cycle = q.cycle
    BY <1>1 DEF Record
  <1> HIDE DEF n
  <1>3. Valid(r, n) /\ Kept(r, q, n)
    BY <1>2 DEF Valid, Kept, Stays, MayProject
  <1>4. QED
    BY <1>3 DEF n

\* A record at a later time: due, late or old, or its lease over.
Aged(q, x, d, p, l) == [q EXCEPT !.when = x, !.deadline = d, !.persisted = p, !.lease = l]

\* Time leaves a valid record.
LEMMA TimeOK ==
    ASSUME NEW r, NEW q, Valid(r, q), NEW x \in {"due", "later"}, NEW d \in {"ahead", "reached"},
           NEW p \in {"now", "earlier"}, NEW l \in {"none", "held", "over"}, l # "none" <=> q.lease # "none"
    PROVE  Valid(r, Aged(q, x, d, p, l)) /\ Kept(r, q, Aged(q, x, d, p, l))
  <1> DEFINE n == [q EXCEPT !.when = x, !.deadline = d, !.persisted = p, !.lease = l]
  <1>1. q \in Record
    BY DEF Valid
  <1>2. /\ n \in Record /\ n.state = q.state /\ n.authority = q.authority /\ n.lease = l
        /\ n.receipt = q.receipt /\ n.ledger = q.ledger /\ n.remote = q.remote /\ n.ids = q.ids
        /\ n.attempts = q.attempts /\ n.cycle = q.cycle
    BY <1>1 DEF Record
  <1> HIDE DEF n
  <1>3. Valid(r, n) /\ Kept(r, q, n)
    BY <1>2 DEF Valid, Kept, Stays
  <1>4. QED
    BY <1>3 DEF n, Aged

----------------------------------------------------------------------------
(* The invariant *)

\* What a worker v knows of the queue q and the receipt files c: it has a token
\* while it works on a claim, and under the acceptance the record and then the
\* file have its receipt.
Fit(v, q, c) ==
    /\ v.stage \notin {"idle", "draining"} => v.token # 0
    /\ v.stage = "answered" => v.answer # "none"
    /\ v.stage \in {"embedded", "receipted"} => q[v.record].state = "accepted" /\ q[v.record].receipt = v.token
    /\ v.stage = "receipted" => c[v.record] = v.token

\* Worker v has an attempt at record r that is counted and not yet sent.
Unsent(v, r) == v.stage \in {"claimed", "confirmed"} /\ v.record = r

\* The workers that have one.
Waiting(r) == {w \in Workers : Unsent(worker[w], r)}

\* What was sent and what may still be sent is within the attempts on record.
Budget == \A r \in Records : sends[r] + Cardinality(Waiting(r)) <= Spent(r, queue[r])

\* Records that share a Blob are those of one event, and always configured together.
DigestsTogether ==
    \A r1, r2 \in Events \X Service : Digest[r1] = Digest[r2] =>
        /\ r1[1] = r2[1]
        /\ \A rs \in Configs : r1[2] \in rs <=> r2[2] \in rs

\* A Blob that the admission has put is removed only if a present record has it.
PutBlob ==
    admission.stage = "put" =>
        /\ admission.routes \in Configs
        /\ \A x \in admission.routes \cap Service :
              \/ blobs[Digest[<<admission.event, x>>]] # "none"
              \/ \E r \in Present(queue) : IsService(r) /\ Digest[r] = Digest[<<admission.event, x>>]

\* The records of the queue.
Stored == \A r \in Records : Valid(r, queue[r])

\* The workers.
Fitted == \A w \in Workers : Fit(worker[w], queue, receipts)

\* The inductive invariant.
IInv ==
    /\ TypeOK /\ Stored /\ Fitted /\ ReceiptsAgree /\ DeliveryIdsUnique /\ PutBlob /\ Budget
    /\ DigestsTogether => ActiveBlobKept

----------------------------------------------------------------------------
(* One lemma for each part of the invariant *)

\* The queue moves on: every record stays valid, accepted and present.
Onward ==
    /\ queue' = [r \in Records |-> queue'[r]]
    /\ \A r \in Records : /\ Valid(r, queue'[r]) /\ Stays(queue[r], queue'[r])
                          /\ queue[r].state # "absent" => queue'[r].state # "absent"

\* A receipt file changes only to the receipt of an accepted record, and a
\* ledger is committed only with the file in place.
Filed ==
    \A r \in Records :
        /\ \/ receipts'[r] = receipts[r]
           \/ queue'[r].state = "accepted" /\ receipts'[r] = queue'[r].receipt
        /\ queue'[r].ledger = "committed" => receipts'[r] = queue'[r].receipt

\* Each worker stays as it is or fits its new state.
Moved == \A w \in Workers : worker'[w] = worker[w] \/ Fit(worker'[w], queue', receipts')

\* No worker gets an attempt, and none is refunded.
Calm ==
    /\ \A w \in Workers, r \in Records : Unsent(worker'[w], r) => Unsent(worker[w], r)
    /\ \A r \in Records : sends'[r] = sends[r] /\ Spent(r, queue[r]) <= Spent(r, queue'[r])

\* The types of what is not the queue.
Rest ==
    /\ blobs \in [Digests -> {"none", "intact", "damaged"}]
    /\ receipts \in [Records -> Nat]
    /\ lock \in Workers \cup {"free"}
    /\ worker \in [Workers -> [stage: Stages, record: Records, token: Nat, answer: Answers]]
    /\ admission \in [stage: {"idle", "put", "done"}, event: Events, id: Ids \cup {"none"}, routes: SUBSET Routes]
    /\ backlog \subseteq Events
    /\ observed \in 0..MaxObserved /\ tokens \in Nat /\ faults \in 0..MaxFaults
    /\ service \subseteq Records /\ wire \subseteq Records
    /\ sends \in [Records -> Nat]

\* The queue itself.
LEMMA StoredStep ==
    ASSUME Onward, Rest'
    PROVE  TypeOK' /\ Stored'
  <1>1. \A r \in Records : queue'[r] \in Record
    BY DEF Onward, Valid
  <1>2. queue' \in [Records -> Record]
    BY <1>1 DEF Onward
  <1>3. Stored'
    BY DEF Onward, Stored, Valid, AttemptLimit, IsService, Authority
  <1>4. QED
    BY <1>2, <1>3 DEF TypeOK, Rest

\* The receipt files.
LEMMA ReceiptStep ==
    ASSUME ReceiptsAgree, Onward, Filed
    PROVE  ReceiptsAgree'
  BY DEF ReceiptsAgree, Onward, Filed, Stays

\* A worker in the acceptance keeps its receipt.
LEMMA FittedStep ==
    ASSUME TypeOK, Fitted, ReceiptsAgree, Onward, Filed, Moved
    PROVE  Fitted'
  <1>1. SUFFICES ASSUME NEW w \in Workers PROVE Fit(worker'[w], queue', receipts')
    BY DEF Fitted, Fit
  <1>2. CASE worker'[w] = worker[w]
    <2> DEFINE v == worker[w]
    <2>1. Fit(v, queue, receipts) /\ v.record \in Records
      BY DEF Fitted, TypeOK
    <2> HIDE DEF v
    <2>2. v.stage \in {"embedded", "receipted"} => queue'[v.record].state = "accepted" /\ queue'[v.record].receipt = v.token
      BY <2>1 DEF Fit, Onward, Stays
    <2>3. v.stage = "receipted" => receipts'[v.record] = v.token
      BY <2>1, <2>2 DEF Fit, Filed
    <2>4. Fit(v, queue', receipts')
      BY <2>1, <2>2, <2>3 DEF Fit
    <2>5. QED
      BY <1>2, <2>4 DEF v
  <1>3. QED
    BY <1>2 DEF Moved

\* Attempts on record are numbers.
LEMMA SpentType ==
    ASSUME NEW r, NEW q, Valid(r, q)
    PROVE  Spent(r, q) \in Nat
  <1>1. q.cycle \in Nat /\ q.attempts \in Nat /\ AttemptLimit(r) \in Nat
    BY LimitType DEF Valid, Record
  <1>2. ASSUME NEW a \in Nat, NEW b \in Nat, NEW c \in Nat PROVE a * b + c \in Nat
    OBVIOUS
  <1>3. QED
    BY <1>1, <1>2 DEF Spent

\* The workers that wait to send are finitely many.
LEMMA WaitingFinite ==
    ASSUME NEW r
    PROVE  IsFiniteSet(Waiting(r)) /\ Cardinality(Waiting(r)) \in Nat
  <1>1. Waiting(r) \subseteq Workers /\ IsFiniteSet(Workers)
    BY HandoffAssumption DEF Waiting
  <1>2. IsFiniteSet(Waiting(r))
    BY <1>1, FS_Subset
  <1>3. QED
    BY <1>2, FS_CardinalityType

\* The account of one record, after a step that gives nobody an attempt at it.
LEMMA AccountStep ==
    ASSUME Stored, Onward, Budget, TypeOK, NEW r \in Records,
           \A w \in Workers : Unsent(worker'[w], r) => Unsent(worker[w], r),
           sends'[r] = sends[r], Spent(r, queue[r]) <= Spent(r, queue'[r])
    PROVE  sends'[r] + Cardinality(Waiting(r)') <= Spent(r, queue'[r])
  <1> DEFINE p == Cardinality(Waiting(r))
             n == Cardinality(Waiting(r)')
             s == Spent(r, queue[r])
             t == Spent(r, queue'[r])
  <1>1. Waiting(r)' \subseteq Waiting(r)
    BY DEF Waiting, Unsent
  <1>2. p \in Nat /\ n \in Nat /\ n <= p
    BY <1>1, WaitingFinite, FS_Subset, FS_CardinalityType
  <1>3. s \in Nat /\ t \in Nat /\ sends[r] \in Nat
    BY SpentType DEF Stored, Onward, TypeOK
  <1>4. sends[r] + p <= s /\ s <= t
    BY DEF Budget
  <1> HIDE DEF p, n, s, t
  <1>5. sends[r] + n <= t
    BY <1>2, <1>3, <1>4
  <1>6. QED
    BY <1>5 DEF n, t

\* The account of every record.
LEMMA BudgetStep ==
    ASSUME Stored, Onward, Budget, TypeOK, Calm
    PROVE  Budget'
  <1>1. SUFFICES ASSUME NEW r \in Records PROVE sends'[r] + Cardinality(Waiting(r)') <= Spent(r, queue'[r])
    BY DEF Budget, Spent, AttemptLimit, IsService
  <1>2. QED
    BY AccountStep DEF Calm

\* What was put is there, or shared with a present record.
LEMMA PutStep ==
    ASSUME TypeOK, PutBlob, Onward, admission' = admission \/ admission'.stage # "put",
           \A d \in Digests : blobs[d] = "none" \/ blobs'[d] # "none"
    PROVE  PutBlob'
  <1>1. CASE admission'.stage # "put"
    BY <1>1 DEF PutBlob
  <1>2. CASE admission' = admission
    <2>1. Present(queue) \subseteq Present(queue')
      BY DEF Present, Onward
    <2>2. ASSUME NEW x \in admission.routes \cap Service
          PROVE  Digest[<<admission.event, x>>] \in Digests
      BY <2>2 DEF Digests, TypeOK
    <2>3. QED
      BY <1>2, <2>1, <2>2 DEF PutBlob, IsService, Present
  <1>3. QED
    BY <1>1, <1>2

\* No Blob is removed, and only a record with a Blob is revived.
LEMMA BlobStep ==
    ASSUME DigestsTogether => ActiveBlobKept,
           \A d \in Digests : blobs[d] = "none" \/ blobs'[d] # "none",
           \A r \in Records : IsService(r) /\ queue'[r].state \in Active =>
              queue[r].state \in Active \/ blobs[Digest[r]] # "none"
    PROVE  (DigestsTogether => ActiveBlobKept)'
  <1>1. ASSUME NEW r \in Records, IsService(r) PROVE Digest[r] \in Digests
    <2>1. r \in Events \X Service
      BY <1>1 DEF Records, IsService
    <2>2. QED
      BY <2>1 DEF Digests
  <1>2. QED
    BY <1>1 DEF ActiveBlobKept, DigestsTogether, IsService

\* The ids stay where they are.
LEMMA IdStep ==
    ASSUME DeliveryIdsUnique, \A r \in Records : queue'[r].ids = queue[r].ids
    PROVE  DeliveryIdsUnique'
  BY DEF DeliveryIdsUnique

\* The ordinary step: all parts together.
LEMMA QueueStep ==
    ASSUME IInv, Rest', Onward, Filed, Moved, Calm,
           \A r \in Records : /\ queue'[r].ids = queue[r].ids
                              /\ IsService(r) /\ queue'[r].state \in Active =>
                                    queue[r].state \in Active \/ blobs[Digest[r]] # "none",
           \A d \in Digests : blobs[d] = "none" \/ blobs'[d] # "none",
           admission' = admission \/ admission'.stage # "put"
    PROVE  IInv'
  <1>1. TypeOK' /\ Stored'
    BY StoredStep
  <1>2. ReceiptsAgree' /\ Fitted' /\ Budget'
    BY ReceiptStep, FittedStep, BudgetStep DEF IInv
  <1>3. PutBlob' /\ DeliveryIdsUnique'
    BY PutStep, IdStep DEF IInv
  <1>4. (DigestsTogether => ActiveBlobKept)'
    BY BlobStep DEF IInv
  <1>5. QED
    BY <1>1, <1>2, <1>3, <1>4 DEF IInv

----------------------------------------------------------------------------
(* Helpers for the actions *)

\* A step whose records are all kept.
LEMMA KeptStep ==
    ASSUME IInv, Rest', queue' = [r \in Records |-> queue'[r]],
           \A r \in Records : Valid(r, queue'[r]) /\ Kept(r, queue[r], queue'[r]),
           UNCHANGED <<receipts, sends>>, Moved,
           \A w \in Workers, r \in Records : Unsent(worker'[w], r) => Unsent(worker[w], r),
           \A d \in Digests : blobs[d] = "none" \/ blobs'[d] # "none",
           admission' = admission \/ admission'.stage # "put"
    PROVE  IInv' /\ Onward
  <1>1. Onward
    BY DEF Onward, Kept
  <1>2. Filed
    BY DEF Filed, Kept, IInv, ReceiptsAgree
  <1>3. ASSUME NEW r \in Records PROVE Spent(r, queue[r]) <= Spent(r, queue'[r])
    <2>1. Spent(r, queue[r]) \in Nat /\ Spent(r, queue'[r]) = Spent(r, queue[r])
      BY SpentType DEF Spent, Kept, IInv, Stored
    <2>2. QED
      BY <2>1
  <1>4. Calm
    BY <1>3 DEF Calm
  <1>5. \A r \in Records : /\ queue'[r].ids = queue[r].ids
                           /\ IsService(r) /\ queue'[r].state \in Active =>
                                 queue[r].state \in Active \/ blobs[Digest[r]] # "none"
    BY DEF Kept
  <1>6. QED
    BY <1>1, <1>2, <1>4, <1>5, QueueStep

\* The queue is left alone, or only maintained.
LEMMA QueueSame ==
    ASSUME IInv, queue' = queue \/ queue' = Maintained
    PROVE  /\ queue' = [r \in Records |-> queue'[r]]
           /\ \A r \in Records : Valid(r, queue'[r]) /\ Kept(r, queue[r], queue'[r])
  <1>1. CASE queue' = queue
    BY <1>1, KeptSame DEF IInv, TypeOK, Stored
  <1>2. CASE queue' = Maintained
    <2>1. queue' = [r \in Records |-> queue'[r]]
      BY <1>2 DEF Maintained
    <2>2. QED
      BY <1>2, <2>1, MaintainedOK DEF IInv, Stored
  <1>3. QED
    BY <1>1, <1>2

\* The queue is maintained and one record persisted.
LEMMA PersistIs ==
    ASSUME IInv, NEW r \in Records, NEW x, Persist(r, x)
    PROVE  /\ queue' = [s \in Records |-> queue'[s]] /\ queue'[r] = x
           /\ \A s \in Records \ {r} : queue'[s] = Maintained[s]
           /\ \A s \in Records : Valid(s, Maintained[s]) /\ Kept(s, queue[s], Maintained[s])
  <1>1. Maintained = [s \in Records |-> Maintained[s]]
    BY DEF Maintained
  <1>2. \A s \in Records : Valid(s, Maintained[s]) /\ Kept(s, queue[s], Maintained[s])
    BY MaintainedOK DEF IInv, Stored
  <1>3. QED
    BY <1>1, <1>2 DEF Persist

\* The persisted record is kept as well.
LEMMA PersistKept ==
    ASSUME IInv, NEW r \in Records, NEW x, Persist(r, x), Valid(r, x), Kept(r, Maintained[r], x)
    PROVE  /\ queue' = [s \in Records |-> queue'[s]]
           /\ \A s \in Records : Valid(s, queue'[s]) /\ Kept(s, queue[s], queue'[s])
  <1>1. /\ queue' = [s \in Records |-> queue'[s]] /\ queue'[r] = x
        /\ \A s \in Records \ {r} : queue'[s] = Maintained[s]
        /\ \A s \in Records : Valid(s, Maintained[s]) /\ Kept(s, queue[s], Maintained[s])
    BY PersistIs
  <1>2. Valid(r, queue'[r]) /\ Kept(r, queue[r], queue'[r])
    BY <1>1, KeptTrans
  <1>3. ASSUME NEW s \in Records, s # r PROVE Valid(s, queue'[s]) /\ Kept(s, queue[s], queue'[s])
    <2>1. queue'[s] = Maintained[s]
      BY <1>1, <1>3
    <2>2. QED
      BY <1>1, <2>1
  <1>4. QED
    BY <1>1, <1>2, <1>3

\* The workers of the model.
WorkerType == [stage: Stages, record: Records, token: Nat, answer: Answers]

\* A worker between two claims.
LEMMA BetweenOK ==
    ASSUME TypeOK, NEW w \in Workers, NEW s \in {"idle", "draining"}, Between(w, s)
    PROVE  /\ worker' \in [Workers -> WorkerType] /\ Moved
           /\ \A x \in Workers, r \in Records : Unsent(worker'[x], r) => Unsent(worker[x], r)
  <1> DEFINE b == [Idle(worker[w].record) EXCEPT !.stage = s]
  <1>1. worker' = [worker EXCEPT ![w] = b] /\ worker[w].record \in Records
    BY DEF Between, TypeOK
  <1>2. b \in WorkerType /\ b.stage = s
    BY <1>1 DEF Idle, WorkerType, Stages, Answers
  <1> HIDE DEF b
  <1>3. worker' \in [Workers -> WorkerType] /\ worker'[w] = b /\ \A x \in Workers \ {w} : worker'[x] = worker[x]
    BY <1>1, <1>2 DEF TypeOK, WorkerType
  <1>4. Fit(b, queue', receipts') /\ \A r \in Records : ~Unsent(b, r)
    BY <1>2 DEF Fit, Unsent
  <1>5. QED
    BY <1>3, <1>4 DEF Moved

\* A worker goes on with its claim.
LEMMA StepIs ==
    ASSUME TypeOK, NEW w \in Workers, NEW s \in Stages, NEW a \in Answers, Step(w, s, a)
    PROVE  /\ worker' \in [Workers -> WorkerType] /\ \A x \in Workers \ {w} : worker'[x] = worker[x]
           /\ worker'[w].stage = s /\ worker'[w].answer = a
           /\ worker'[w].record = worker[w].record /\ worker'[w].token = worker[w].token
  <1> DEFINE b == [worker[w] EXCEPT !.stage = s, !.answer = a]
  <1>1. worker' = [worker EXCEPT ![w] = b]
    BY DEF Step, TypeOK
  <1>2. b \in WorkerType /\ b.stage = s /\ b.answer = a /\ b.record = worker[w].record /\ b.token = worker[w].token
    BY DEF WorkerType, TypeOK
  <1> HIDE DEF b
  <1>3. worker' \in [Workers -> WorkerType] /\ worker'[w] = b /\ \A x \in Workers \ {w} : worker'[x] = worker[x]
    BY <1>1, <1>2 DEF TypeOK, WorkerType
  <1>4. QED
    BY <1>2, <1>3

\* Such a step outside the acceptance.
LEMMA StepOK ==
    ASSUME IInv, NEW w \in Workers, NEW s \in Stages \ {"embedded", "receipted"}, NEW a \in Answers, Step(w, s, a),
           worker[w].stage \notin {"idle", "draining"}, s = "answered" => a # "none",
           s \in {"claimed", "confirmed"} => worker[w].stage \in {"claimed", "confirmed"}
    PROVE  /\ worker' \in [Workers -> WorkerType] /\ Moved
           /\ \A x \in Workers, r \in Records : Unsent(worker'[x], r) => Unsent(worker[x], r)
  <1>1. /\ worker' \in [Workers -> WorkerType] /\ \A x \in Workers \ {w} : worker'[x] = worker[x]
        /\ worker'[w].stage = s /\ worker'[w].answer = a
        /\ worker'[w].record = worker[w].record /\ worker'[w].token = worker[w].token
    BY StepIs DEF IInv
  <1>2. worker[w].token # 0
    BY DEF IInv, Fitted, Fit
  <1>3. Fit(worker'[w], queue', receipts')
    BY <1>1, <1>2 DEF Fit
  <1>4. \A r \in Records : Unsent(worker'[w], r) => Unsent(worker[w], r)
    BY <1>1 DEF Unsent
  <1>5. QED
    BY <1>1, <1>3, <1>4 DEF Moved

\* Workers that do nothing.
LEMMA WorkersSame ==
    ASSUME TypeOK, worker' = worker
    PROVE  /\ worker' \in [Workers -> WorkerType] /\ Moved
           /\ \A x \in Workers, r \in Records : Unsent(worker'[x], r) => Unsent(worker[x], r)
  BY DEF TypeOK, WorkerType, Moved

\* A fault is counted.
LEMMA FaultType == ASSUME TypeOK, Fault \/ UNCHANGED faults PROVE faults' \in 0..MaxFaults
  BY HandoffAssumption DEF TypeOK, Fault

\* An admission that is over.
LEMMA NoAdmissionType ==
    ASSUME NEW e \in Events
    PROVE  /\ NoAdmission(e) \in [stage: {"idle", "put", "done"}, event: Events,
                                id: Ids \cup {"none"}, routes: SUBSET Routes]
           /\ NoAdmission(e).stage = "idle"
  BY DEF NoAdmission

----------------------------------------------------------------------------
(* The ordinary actions *)

\* Reports, the cursor, lost admissions, and what happens to requests on the way.
LEMMA OutsideSteps ==
    ASSUME IInv,
           \/ \E e \in Events : Report(e)
           \/ AdvanceCursor \/ AdmissionLost
           \/ \E r \in Records : ServiceAccepts(r) \/ RequestLost(r)
           \/ UNCHANGED vars
    PROVE  IInv' /\ Onward
  <1>1. TypeOK /\ admission.event \in Events /\ UNCHANGED <<queue, blobs, receipts, lock, worker, tokens, sends>>
    BY DEF IInv, TypeOK, Report, AdvanceCursor, AdmissionLost, ServiceAccepts, RequestLost, vars
  <1>2. faults' \in 0..MaxFaults
    BY <1>1, FaultType DEF Report, AdvanceCursor, AdmissionLost, ServiceAccepts, RequestLost, vars
  <1>3. /\ admission' \in [stage: {"idle", "put", "done"}, event: Events, id: Ids \cup {"none"}, routes: SUBSET Routes]
        /\ admission' = admission \/ admission'.stage # "put"
    <2>1. CASE admission' = admission
      BY <1>1, <2>1 DEF TypeOK
    <2>2. CASE admission' = NoAdmission(admission.event)
      BY <1>1, <2>2, NoAdmissionType
    <2>3. QED
      BY <2>1, <2>2 DEF Report, AdvanceCursor, AdmissionLost, ServiceAccepts, RequestLost, vars
  <1>4. backlog' \subseteq Events /\ observed' \in 0..MaxObserved /\ service' \subseteq Records /\ wire' \subseteq Records
    BY <1>1, HandoffAssumption DEF TypeOK, Report, AdvanceCursor, AdmissionLost, ServiceAccepts, RequestLost, vars
  <1>5. Rest'
    BY <1>1, <1>2, <1>3, <1>4 DEF TypeOK, Rest
  <1>6. QED
    BY <1>1, <1>3, <1>5, WorkersSame, QueueSame, KeptStep

\* The admission is refused.
LEMMA RefusedStep ==
    ASSUME IInv, EnqueueRefused
    PROVE  IInv' /\ Onward
  <1>1. /\ TypeOK /\ UNCHANGED <<blobs, receipts, lock, worker, backlog, observed, tokens, service, wire, sends, faults>>
        /\ queue' = queue \/ queue' = Maintained
        /\ admission' = NoAdmission(admission.event) /\ admission.event \in Events
    BY DEF IInv, TypeOK, EnqueueRefused
  <1>2. Rest' /\ admission'.stage # "put"
    BY <1>1, NoAdmissionType DEF TypeOK, Rest
  <1>3. QED
    BY <1>1, <1>2, WorkersSame, QueueSame, KeptStep

\* The steps of a drain that maintain the queue or leave it alone.
LEMMA DrainSteps ==
    ASSUME IInv, NEW w \in Workers,
           \/ NothingToClaim(w) \/ SendNothing(w) \/ Answer(w) \/ AcceptFails(w) \/ Crash(w)
    PROVE  IInv' /\ Onward
  <1>1. /\ TypeOK /\ UNCHANGED <<blobs, receipts, admission, backlog, observed, tokens, service, wire, sends>>
        /\ queue' = queue \/ queue' = Maintained
        /\ lock' \in Workers \cup {"free"}
    BY DEF IInv, TypeOK, NothingToClaim, SendNothing, Answer, AcceptFails, Crash
  <1>2. faults' \in 0..MaxFaults
    BY <1>1, FaultType DEF NothingToClaim, SendNothing, Answer, AcceptFails, Crash
  <1>3. /\ worker' \in [Workers -> WorkerType] /\ Moved
        /\ \A x \in Workers, r \in Records : Unsent(worker'[x], r) => Unsent(worker[x], r)
    <2>1. CASE Between(w, "idle")
      BY <1>1, <2>1, BetweenOK
    <2>2. ASSUME worker[w].stage \in {"confirmed", "sent"},
                 NEW a \in Answers \ {"none"}, Step(w, "answered", a)
          PROVE  /\ worker' \in [Workers -> WorkerType] /\ Moved
                 /\ \A x \in Workers, r \in Records : Unsent(worker'[x], r) => Unsent(worker[x], r)
      BY <2>2, StepOK DEF Stages
    <2>3. CASE SendNothing(w)
      BY <2>2, <2>3 DEF SendNothing, Answers
    <2>4. CASE Answer(w)
      BY <2>2, <2>4 DEF Answer, PossibleAnswers, Answers
    <2>5. QED
      BY <2>1, <2>3, <2>4 DEF NothingToClaim, AcceptFails, Crash, DrainFails
  <1>4. Rest'
    BY <1>1, <1>2, <1>3 DEF TypeOK, Rest, WorkerType
  <1>5. QED
    BY <1>1, <1>3, <1>4, QueueSame, KeptStep

\* The claim is confirmed, or found lost or late; its answer is applied.
LEMMA AnswerSteps ==
    ASSUME IInv, NEW w \in Workers, ConfirmMaySend(w) \/ ApplyAnswer(w)
    PROVE  IInv' /\ Onward
  <1> DEFINE r == worker[w].record
             q == Maintained[r]
  <1>1. /\ TypeOK /\ UNCHANGED <<blobs, receipts, lock, admission, backlog, observed, tokens, service, wire, sends, faults>>
        /\ worker[w].stage \in {"claimed", "answered"} /\ r \in Records /\ worker[w].answer \in Answers
    BY DEF IInv, TypeOK, ConfirmMaySend, ApplyAnswer
  <1>2. ASSUME worker' \in [Workers -> WorkerType] PROVE Rest'
    BY <1>1, <1>2 DEF TypeOK, Rest, WorkerType
  <1>3. CASE LeaseLost(w, q)
    BY <1>1, <1>2, <1>3, BetweenOK, QueueSame, KeptStep DEF LeaseLost, DrainFails
  <1>4. Valid(r, q)
    BY <1>1, MaintainedOK DEF IInv, Stored
  <1>5. ASSUME NEW x, Persist(r, x), Processed(w), Valid(r, x), Kept(r, q, x)
        PROVE  IInv' /\ Onward
    <2>1. /\ queue' = [s \in Records |-> queue'[s]]
          /\ \A s \in Records : Valid(s, queue'[s]) /\ Kept(s, queue[s], queue'[s])
      BY <1>1, <1>5, PersistKept
    <2>2. /\ worker' \in [Workers -> WorkerType] /\ Moved
          /\ \A y \in Workers, s \in Records : Unsent(worker'[y], s) => Unsent(worker[y], s)
      BY <1>1, <1>5, BetweenOK DEF Processed
    <2>3. QED
      BY <1>1, <1>2, <2>1, <2>2, KeptStep
  <1>6. CASE ConfirmMaySend(w) /\ queue' = Maintained /\ Step(w, "confirmed", "none")
    <2>1. /\ worker' \in [Workers -> WorkerType] /\ Moved
          /\ \A x \in Workers, s \in Records : Unsent(worker'[x], s) => Unsent(worker[x], s)
      BY <1>6, StepOK DEF Stages, Answers, ConfirmMaySend
    <2>2. QED
      BY <1>1, <1>2, <1>6, <2>1, QueueSame, KeptStep
  <1> HIDE DEF q
  <1>7. CASE LeaseHeld(q, worker[w].token) /\ Persist(r, HandoffDead(q)) /\ Processed(w)
    <2>1. q.state \in Active /\ "handoff_dead" \in Final
      BY <1>7 DEF LeaseHeld, Active, Final, HandoffTerminal
    <2>2. QED
      BY <1>4, <1>5, <1>7, <2>1, SettledOK DEF HandoffDead
  <1>8. CASE /\ worker[w].stage = "answered" /\ ~IsAcceptance(worker[w].answer)
             /\ LeaseHeld(q, worker[w].token) /\ Persist(r, AfterAnswer(r, q, worker[w].answer)) /\ Processed(w)
    <2>1. q.state \in Active /\ worker[w].answer \in Answers \ {"none", "accepted"}
      BY <1>1, <1>8 DEF LeaseHeld, Active, IsAcceptance, IInv, Fitted, Fit
    <2>2. QED
      BY <1>4, <1>5, <1>8, <2>1, AnswerOK
  <1>9. QED
    BY <1>3, <1>6, <1>7, <1>8 DEF ConfirmMaySend, ApplyAnswer, q

\* Accepted records whose ledger was not committed are repaired, or some of
\* their files written before a write fails.
LEMMA RecoverSteps ==
    ASSUME IInv, NEW w \in Workers, BeginDrain(w) \/ BeginDrainFails(w)
    PROVE  IInv' /\ Onward
  <1>1. /\ TypeOK /\ Stored /\ ReceiptsAgree
        /\ UNCHANGED <<blobs, lock, admission, backlog, observed, tokens, service, wire, sends>>
    BY DEF IInv, BeginDrain, BeginDrainFails
  <1>2. faults' \in 0..MaxFaults
    BY <1>1, FaultType DEF BeginDrain, BeginDrainFails
  <1>3. /\ worker' \in [Workers -> WorkerType] /\ Moved
        /\ \A x \in Workers, r \in Records : Unsent(worker'[x], r) => Unsent(worker[x], r)
    BY <1>1, BetweenOK, WorkersSame DEF BeginDrain, BeginDrainFails, RecoverReceipts
  <1>4. \A r \in UnsettledLedgers : r \in Records /\ queue[r].state = "accepted"
    BY DEF UnsettledLedgers
  <1>5. queue' = [r \in Records |-> queue'[r]]
    BY <1>1 DEF BeginDrain, BeginDrainFails, RecoverReceipts, TypeOK
  <1>6. \A r \in Records : \/ queue'[r] = queue[r]
                           \/ /\ queue'[r] = [queue[r] EXCEPT !.ledger = "committed"]
                              /\ queue[r].state = "accepted" /\ receipts'[r] = queue[r].receipt
    BY <1>1, <1>4 DEF BeginDrain, BeginDrainFails, RecoverReceipts
  <1>7. \A r \in Records : \/ receipts'[r] = receipts[r]
                           \/ receipts'[r] = queue[r].receipt /\ queue[r].state = "accepted"
    BY <1>4 DEF BeginDrain, BeginDrainFails, RecoverReceipts
  <1>8. receipts' \in [Records -> Nat]
    <2>1. \A r \in Records : queue[r].receipt \in Nat /\ receipts[r] \in Nat
      BY <1>1 DEF TypeOK, Record
    <2>2. QED
      BY <2>1 DEF BeginDrain, BeginDrainFails, RecoverReceipts
  <1>9. ASSUME NEW r \in Records
        PROVE  /\ Valid(r, queue'[r]) /\ Stays(queue[r], queue'[r]) /\ queue'[r].state = queue[r].state
               /\ queue'[r].receipt = queue[r].receipt /\ queue'[r].ids = queue[r].ids
               /\ queue'[r].cycle = queue[r].cycle /\ queue'[r].attempts = queue[r].attempts
               /\ queue'[r].ledger = "committed" => receipts'[r] = queue[r].receipt
    <2>1. Valid(r, queue[r])
      BY <1>1 DEF Stored
    <2>2. CASE queue'[r] = queue[r]
      <3>1. queue[r].ledger = "committed" => receipts[r] = queue[r].receipt
        BY <1>1 DEF ReceiptsAgree
      <3>2. QED
        BY <1>7, <2>1, <2>2, <3>1 DEF Stays
    <2>3. CASE /\ queue'[r] = [queue[r] EXCEPT !.ledger = "committed"]
               /\ queue[r].state = "accepted" /\ receipts'[r] = queue[r].receipt
      BY <2>1, <2>3, LedgerOK
    <2>4. QED
      BY <1>6, <2>2, <2>3
  <1>10. Onward
    BY <1>5, <1>9 DEF Onward
  <1>11. Filed
    BY <1>7, <1>9 DEF Filed
  <1>12. Calm
    <2>1. ASSUME NEW r \in Records PROVE Spent(r, queue'[r]) = Spent(r, queue[r]) /\ Spent(r, queue[r]) \in Nat
      BY <1>1, <1>9, SpentType DEF Spent, Stored
    <2>2. \A r \in Records : Spent(r, queue[r]) <= Spent(r, queue'[r])
      BY <2>1
    <2>3. QED
      BY <1>1, <1>3, <2>2 DEF Calm
  <1>13. Rest'
    BY <1>1, <1>2, <1>3, <1>8 DEF TypeOK, Rest, WorkerType
  <1>14. QED
    BY <1>1, <1>3, <1>9, <1>10, <1>11, <1>12, <1>13, QueueStep

\* One record changes and nothing is maintained: the acceptance.
LEMMA OneRecord ==
    ASSUME IInv, NEW r \in Records, NEW x, Valid(r, x), queue' = [queue EXCEPT ![r] = x],
           Stays(queue[r], x), x.state # "absent", x.ids = queue[r].ids,
           x.cycle = queue[r].cycle, x.attempts = queue[r].attempts,
           x.state \in Active => queue[r].state \in Active,
           x.ledger = "committed" => receipts[r] = x.receipt,
           UNCHANGED <<blobs, receipts, sends, admission>>, Rest', Moved,
           \A v \in Workers, s \in Records : Unsent(worker'[v], s) => Unsent(worker[v], s)
    PROVE  IInv' /\ Onward
  <1>1. TypeOK /\ Stored /\ ReceiptsAgree
    BY DEF IInv
  <1>2. queue'[r] = x /\ queue' = [s \in Records |-> queue'[s]] /\ \A s \in Records \ {r} : queue'[s] = queue[s]
    BY <1>1 DEF TypeOK
  <1>3. ASSUME NEW s \in Records
        PROVE  /\ Valid(s, queue'[s]) /\ Stays(queue[s], queue'[s]) /\ queue'[s].ids = queue[s].ids
               /\ queue[s].state # "absent" => queue'[s].state # "absent"
               /\ queue'[s].cycle = queue[s].cycle /\ queue'[s].attempts = queue[s].attempts
               /\ queue'[s].state \in Active => queue[s].state \in Active
               /\ queue'[s].ledger = "committed" => receipts[s] = queue'[s].receipt
    <2>1. CASE s = r
      BY <1>2, <2>1
    <2>2. CASE s # r
      <3>1. queue'[s] = queue[s] /\ Valid(s, queue[s]) /\ (queue[s].ledger = "committed" => receipts[s] = queue[s].receipt)
        BY <1>1, <1>2, <2>2 DEF Stored, ReceiptsAgree
      <3>2. QED
        BY <3>1 DEF Stays
    <2>3. QED
      BY <2>1, <2>2
  <1>4. Onward /\ Filed
    BY <1>2, <1>3 DEF Onward, Filed
  <1>5. Calm
    <2>1. ASSUME NEW s \in Records PROVE Spent(s, queue'[s]) = Spent(s, queue[s]) /\ Spent(s, queue[s]) \in Nat
      BY <1>1, <1>3, SpentType DEF Spent, Stored
    <2>2. \A s \in Records : Spent(s, queue[s]) <= Spent(s, queue'[s])
      BY <2>1
    <2>3. QED
      BY <2>2 DEF Calm
  <1>6. QED
    BY <1>3, <1>4, <1>5, QueueStep

\* The acceptance embeds the receipt in the record ...
LEMMA EmbedStep ==
    ASSUME IInv, NEW w \in Workers, AcceptEmbedded(w)
    PROVE  IInv' /\ Onward
  <1> DEFINE r == worker[w].record
             q == queue[r]
             t == worker[w].token
  <1>1. /\ TypeOK /\ UNCHANGED <<blobs, receipts, admission, backlog, observed, tokens, service, wire, sends, faults>>
        /\ worker[w].stage = "answered" /\ r \in Records /\ t \in Nat /\ lock' \in Workers \cup {"free"}
    BY DEF IInv, TypeOK, AcceptEmbedded
  <1>2. ASSUME worker' \in [Workers -> WorkerType] PROVE Rest'
    BY <1>1, <1>2 DEF TypeOK, Rest, WorkerType
  <1>3. CASE LeaseLost(w, q)
    BY <1>1, <1>2, <1>3, BetweenOK, QueueSame, KeptStep DEF LeaseLost, DrainFails
  <1>4. CASE /\ LeaseHeld(q, t) /\ queue' = [queue EXCEPT ![r] = Accepted(q, t)]
             /\ Step(w, "embedded", "accepted")
    <2> DEFINE x == Accepted(q, t)
    <2>1. t # 0 /\ Valid(r, q) /\ q.state \in Active /\ q.state # "accepted"
      BY <1>1, <1>4 DEF IInv, Fitted, Fit, Stored, LeaseHeld, Active
    <2>2. /\ Valid(r, x) /\ x.state = "accepted" /\ x.receipt = t /\ x.ledger = "pending" /\ x.ids = q.ids
          /\ x.cycle = q.cycle /\ x.attempts = q.attempts
      BY <1>1, <2>1, AcceptedOK
    <2> HIDE DEF x
    <2>3. /\ worker' \in [Workers -> WorkerType] /\ \A y \in Workers \ {w} : worker'[y] = worker[y]
          /\ worker'[w].stage = "embedded" /\ worker'[w].record = r /\ worker'[w].token = t
      BY <1>1, <1>4, StepIs DEF Stages, Answers
    <2>4. queue' = [queue EXCEPT ![r] = x]
      BY <1>4 DEF x
    <2>5. queue'[r] = x
      BY <1>1, <2>4 DEF TypeOK
    <2>6. Fit(worker'[w], queue', receipts')
      BY <2>1, <2>2, <2>3, <2>5 DEF Fit
    <2>7. /\ Moved
          /\ \A v \in Workers, s \in Records : Unsent(worker'[v], s) => Unsent(worker[v], s)
      BY <2>3, <2>6 DEF Moved, Unsent
    <2>8. x.state \notin Active /\ Stays(q, x)
      BY <2>1, <2>2 DEF Active, Claimable, Stays
    <2>9. QED
      BY <1>1, <1>2, <2>2, <2>3, <2>4, <2>7, <2>8, OneRecord
  <1>5. QED
    BY <1>3, <1>4 DEF AcceptEmbedded

\* ... writes the receipt file ...
LEMMA ReceiptFileStep ==
    ASSUME IInv, NEW w \in Workers, AcceptReceipt(w)
    PROVE  IInv' /\ Onward
  <1> DEFINE r == worker[w].record
             t == worker[w].token
  <1>1. /\ TypeOK /\ ReceiptsAgree
        /\ UNCHANGED <<queue, blobs, lock, admission, backlog, observed, tokens, service, wire, sends, faults>>
        /\ worker[w].stage = "embedded" /\ r \in Records /\ t \in Nat
        /\ receipts' = [receipts EXCEPT ![r] = t] /\ Step(w, "receipted", "accepted")
    BY DEF IInv, TypeOK, AcceptReceipt
  <1>2. t # 0 /\ queue[r].state = "accepted" /\ queue[r].receipt = t
    BY <1>1 DEF IInv, Fitted, Fit
  <1>3. /\ worker' \in [Workers -> WorkerType] /\ \A y \in Workers \ {w} : worker'[y] = worker[y]
        /\ worker'[w].stage = "receipted" /\ worker'[w].record = r /\ worker'[w].token = t
    BY <1>1, StepIs DEF Stages, Answers
  <1>4. receipts' \in [Records -> Nat] /\ receipts'[r] = t /\ \A s \in Records \ {r} : receipts'[s] = receipts[s]
    BY <1>1 DEF TypeOK
  <1>5. Rest'
    BY <1>1, <1>3, <1>4 DEF TypeOK, Rest, WorkerType
  <1>6. Fit(worker'[w], queue', receipts')
    BY <1>1, <1>2, <1>3, <1>4 DEF Fit
  <1>7. Moved
    BY <1>3, <1>6 DEF Moved
  <1>8. /\ queue' = [s \in Records |-> queue'[s]]
        /\ \A s \in Records : Valid(s, queue'[s]) /\ Kept(s, queue[s], queue'[s])
    BY <1>1, QueueSame
  <1>9. Onward
    BY <1>8 DEF Onward, Kept
  <1>10. Filed
    BY <1>1, <1>2, <1>4 DEF Filed, ReceiptsAgree
  <1>11. Calm
    <2>1. \A s \in Records : Spent(s, queue'[s]) = Spent(s, queue[s]) /\ Spent(s, queue[s]) \in Nat
      BY <1>1, SpentType DEF IInv, Stored
    <2>2. \A s \in Records : Spent(s, queue[s]) <= Spent(s, queue'[s])
      BY <2>1
    <2>3. \A v \in Workers, s \in Records : Unsent(worker'[v], s) => Unsent(worker[v], s)
      BY <1>3 DEF Unsent
    <2>4. QED
      BY <1>1, <2>2, <2>3 DEF Calm
  <1>12. QED
    BY <1>1, <1>5, <1>7, <1>9, <1>10, <1>11, QueueStep

\* ... and commits the ledger.
LEMMA CommitStep ==
    ASSUME IInv, NEW w \in Workers, AcceptCommit(w)
    PROVE  IInv' /\ Onward
  <1> DEFINE r == worker[w].record
             x == [queue[r] EXCEPT !.ledger = "committed"]
  <1>1. /\ TypeOK /\ UNCHANGED <<blobs, receipts, admission, backlog, observed, tokens, service, wire, sends, faults>>
        /\ worker[w].stage = "receipted" /\ r \in Records /\ lock' \in Workers \cup {"free"} /\ Processed(w)
        /\ queue' = [queue EXCEPT ![r] = x]
    BY DEF IInv, TypeOK, AcceptCommit
  <1>2. /\ worker' \in [Workers -> WorkerType] /\ Moved
        /\ \A v \in Workers, s \in Records : Unsent(worker'[v], s) => Unsent(worker[v], s)
    BY <1>1, BetweenOK DEF Processed
  <1>3. Rest'
    BY <1>1, <1>2 DEF TypeOK, Rest, WorkerType
  <1>4. Valid(r, queue[r]) /\ queue[r].state = "accepted" /\ receipts[r] = queue[r].receipt
    BY <1>1 DEF IInv, Stored, Fitted, Fit
  <1>5. /\ Valid(r, x) /\ Stays(queue[r], x) /\ x.state = "accepted" /\ x.receipt = queue[r].receipt
        /\ x.ids = queue[r].ids /\ x.cycle = queue[r].cycle /\ x.attempts = queue[r].attempts
    BY <1>4, LedgerOK
  <1> HIDE DEF x
  <1>6. x.state \notin Active
    BY <1>5 DEF Active, Claimable
  <1>7. QED
    BY <1>1, <1>2, <1>3, <1>4, <1>5, <1>6, OneRecord

\* A projection, or an archived record.
LEMMA ProjectSteps ==
    ASSUME IInv, NEW r \in Records,
           ArchiveRoute(r) \/ \E s \in {"pending", "delivered", "dead"} : Project(r, s)
    PROVE  IInv' /\ Onward
  <1>1. /\ TypeOK /\ UNCHANGED <<blobs, receipts, lock, worker, admission, backlog, observed, tokens, service, wire, sends, faults>>
    BY DEF IInv, ArchiveRoute, Project
  <1>2. Rest'
    BY <1>1 DEF TypeOK, Rest
  <1>3. CASE ArchiveRoute(r)
    BY <1>1, <1>2, <1>3, WorkersSame, QueueSame, KeptStep DEF ArchiveRoute
  <1>4. ASSUME NEW s \in {"pending", "delivered", "dead"}, Project(r, s) PROVE IInv' /\ Onward
    <2>1. Valid(r, Maintained[r])
      BY MaintainedOK DEF IInv, Stored
    <2>2. /\ queue' = [y \in Records |-> queue'[y]]
          /\ \A y \in Records : Valid(y, queue'[y]) /\ Kept(y, queue[y], queue'[y])
      <3> DEFINE q == Maintained[r]
                 x == [q EXCEPT !.remote = s]
      <3>1. Persist(r, x) /\ MayProject(q, s)
        BY <1>4 DEF Project
      <3> HIDE DEF q
      <3>2. Valid(r, x) /\ Kept(r, q, x)
        BY <2>1, <3>1, ProjectOK DEF q
      <3> HIDE DEF x
      <3>3. Kept(r, Maintained[r], x)
        BY <3>2 DEF q
      <3>4. QED
        BY <3>1, <3>2, <3>3, PersistKept
    <2>3. QED
      BY <1>1, <1>2, <2>2, WorkersSame, KeptStep
  <1>5. QED
    BY <1>3, <1>4

\* A governed retry: the Blob is verified under the same lock.
LEMMA RetryStep ==
    ASSUME IInv, NEW r \in Records, RetryRoute(r)
    PROVE  IInv' /\ Onward
  <1> DEFINE q == Maintained[r]
             x == Retried(q)
  <1>1. /\ TypeOK /\ Stored /\ ReceiptsAgree
        /\ UNCHANGED <<blobs, receipts, lock, worker, admission, backlog, observed, tokens, service, wire, sends, faults>>
        /\ Recoverable(r, q) /\ Persist(r, x) /\ blobs[Digest[r]] # "none"
    BY DEF IInv, RetryRoute, BlobVerified
  <1>2. Rest'
    BY <1>1 DEF TypeOK, Rest
  <1>3. /\ queue' = [s \in Records |-> queue'[s]] /\ queue'[r] = x
        /\ \A s \in Records \ {r} : queue'[s] = Maintained[s]
        /\ \A s \in Records : Valid(s, Maintained[s]) /\ Kept(s, queue[s], Maintained[s])
    BY <1>1, PersistIs
  <1>4. Valid(r, q) /\ Kept(r, queue[r], q)
    BY <1>3
  <1> HIDE DEF q
  <1>5. /\ Valid(r, x) /\ q.state \in HandoffTerminal /\ x.state = "pending" /\ x.ids = q.ids /\ x.ledger = "none"
        /\ x.cycle = q.cycle + 1 /\ x.attempts = 0
    BY <1>1, <1>4, RetriedOK
  <1> HIDE DEF x
  <1>6. Stays(queue[r], x)
    BY <1>4, <1>5 DEF Kept, Stays, HandoffTerminal
  <1>7. Spent(r, queue[r]) <= Spent(r, x)
    <2> DEFINE l == AttemptLimit(r)
    <2>1. l \in Nat /\ q.cycle \in Nat /\ q.attempts \in Nat /\ q.attempts <= l
      BY <1>4, LimitType DEF Valid, Record
    <2>2. Spent(r, queue[r]) = l * q.cycle + q.attempts /\ Spent(r, x) = l * (q.cycle + 1) + 0
      BY <1>4, <1>5 DEF Spent, Kept
    <2>3. ASSUME NEW a \in Nat, NEW b \in Nat, NEW c \in Nat, c <= a
            PROVE  a * b + c <= a * (b + 1) + 0
      BY <2>3
    <2> HIDE DEF l
    <2>4. QED
      BY <2>1, <2>2, <2>3
  <1>8. ASSUME NEW s \in Records
        PROVE  /\ Valid(s, queue'[s]) /\ Stays(queue[s], queue'[s]) /\ queue'[s].ids = queue[s].ids
               /\ queue[s].state # "absent" => queue'[s].state # "absent"
               /\ Spent(s, queue[s]) <= Spent(s, queue'[s])
               /\ IsService(s) /\ queue'[s].state \in Active =>
                     queue[s].state \in Active \/ blobs[Digest[s]] # "none"
               /\ queue'[s].ledger = "committed" => receipts[s] = queue'[s].receipt
    <2>1. CASE s = r
      BY <1>1, <1>3, <1>4, <1>5, <1>6, <1>7, <2>1 DEF Kept
    <2>2. CASE s # r
      <3>1. queue'[s] = Maintained[s]
        BY <1>3, <2>2
      <3>2. Valid(s, queue'[s]) /\ Kept(s, queue[s], queue'[s])
        BY <1>3, <3>1
      <3>3. Spent(s, queue[s]) \in Nat /\ Spent(s, queue'[s]) = Spent(s, queue[s])
        BY <1>1, <3>2, SpentType DEF Kept, Spent, Stored
      <3>4. QED
        BY <1>1, <3>2, <3>3 DEF Kept, ReceiptsAgree
    <2>3. QED
      BY <2>1, <2>2
  <1>9. Onward /\ Filed /\ Calm /\ Moved
    BY <1>1, <1>3, <1>8 DEF Onward, Filed, Calm, Moved
  <1>10. QED
    BY <1>1, <1>2, <1>8, <1>9, QueueStep

----------------------------------------------------------------------------
(* The actions that admit, claim, send and collect *)

\* The Blobs of an admission are put.
LEMMA PutStepBlobs ==
    ASSUME IInv, NEW e \in Events, NEW i \in Ids \cup {"none"}, NEW rs \in Configs, PutBlobs(e, i, rs)
    PROVE  IInv' /\ Onward
  <1> DEFINE ds == {Digest[<<e, x>>] : x \in rs \cap Service}
  <1>1. /\ TypeOK /\ UNCHANGED <<queue, receipts, lock, worker, backlog, observed, tokens, service, wire, sends, faults>>
        /\ blobs' = [d \in Digests |-> IF d \in ds THEN "intact" ELSE blobs[d]]
        /\ admission' = [stage |-> "put", event |-> e, id |-> i, routes |-> rs]
        /\ rs \in SUBSET Routes
    BY HandoffAssumption DEF IInv, PutBlobs
  <1>2. blobs' \in [Digests -> {"none", "intact", "damaged"}] /\ \A d \in Digests : blobs[d] = "none" \/ blobs'[d] # "none"
    BY <1>1 DEF TypeOK
  <1>3. Rest'
    BY <1>1, <1>2 DEF TypeOK, Rest
  <1>4. /\ queue' = [r \in Records |-> queue'[r]]
        /\ \A r \in Records : Valid(r, queue'[r]) /\ Kept(r, queue[r], queue'[r])
    BY <1>1, QueueSame
  <1>5. Onward /\ Filed /\ Moved
    BY <1>1, <1>4 DEF Onward, Kept, Filed, IInv, ReceiptsAgree, Moved
  <1>6. Calm
    <2>1. \A r \in Records : Spent(r, queue'[r]) = Spent(r, queue[r]) /\ Spent(r, queue[r]) \in Nat
      BY <1>1, SpentType DEF IInv, Stored
    <2>2. \A r \in Records : Spent(r, queue[r]) <= Spent(r, queue'[r])
      BY <2>1
    <2>3. QED
      BY <1>1, <2>2 DEF Calm
  <1>7. PutBlob'
    <2>1. ASSUME NEW x \in rs \cap Service PROVE blobs'[Digest[<<e, x>>]] = "intact"
      <3>1. Digest[<<e, x>>] \in Digests /\ Digest[<<e, x>>] \in ds
        BY <2>1 DEF Digests
      <3>2. QED
        BY <1>1, <3>1
    <2>2. QED
      BY <1>1, <2>1 DEF PutBlob
  <1>8. TypeOK' /\ Stored' /\ ReceiptsAgree' /\ Fitted' /\ Budget'
    BY <1>3, <1>5, <1>6, StoredStep, ReceiptStep, FittedStep, BudgetStep DEF IInv
  <1>9. DeliveryIdsUnique' /\ (DigestsTogether => ActiveBlobKept)'
    BY <1>1, <1>2, IdStep, BlobStep DEF IInv
  <1>10. QED
    BY <1>5, <1>7, <1>8, <1>9 DEF IInv

\* The ids of a record with the id of the admission remembered.
LEMMA RememberedOK ==
    ASSUME TypeOK, NEW q \in Record, q.ids \in IdSets,
           Cardinality(Remembered(q)) <= MaxIds \/ q.ids = {}
    PROVE  Remembered(q) \in IdSets /\ (Remembered(q) = q.ids \/ Remembered(q) = q.ids \cup {admission.id})
  <1>1. CASE admission.id = "none"
    BY <1>1 DEF Remembered
  <1>2. CASE admission.id # "none"
    <2>1. Remembered(q) = q.ids \cup {admission.id} /\ admission.id \in Ids
      BY <1>2 DEF Remembered, TypeOK
    <2>2. IsFiniteSet(q.ids) /\ q.ids \subseteq Ids
      BY DEF IdSets
    <2>3. IsFiniteSet(q.ids \cup {admission.id})
      BY <2>2, FS_AddElement
    <2>4. Cardinality(q.ids \cup {admission.id}) <= MaxIds
      <3>1. CASE q.ids = {}
        <4>1. q.ids \cup {admission.id} = {admission.id} /\ Cardinality({admission.id}) = 1
          BY <3>1, FS_Singleton
        <4>2. MaxIds \in Nat /\ MaxIds # 0
          BY <2>1, HandoffAssumption
        <4>3. QED
          BY <4>1, <4>2
      <3>2. QED
        BY <2>1, <3>1
    <2>5. QED
      BY <2>1, <2>2, <2>3, <2>4 DEF IdSets
  <1>3. QED
    BY <1>1, <1>2

\* The absent record.
LEMMA AbsentType ==
    /\ Absent \in Record /\ Absent.state = "absent" /\ Absent.lease = "none" /\ Absent.receipt = 0
    /\ Absent.ledger = "none" /\ Absent.attempts = 0 /\ Absent.cycle = 0 /\ Absent.ids = {}
    /\ Absent.authority = "none" /\ Absent.remote = "unknown"
  BY DEF Absent, Record, States

\* A record as it is enqueued.
LEMMA NewRecordOK ==
    ASSUME TypeOK, NEW r
    PROVE  /\ Valid(r, NewRecord(r)) /\ NewRecord(r).state = "pending" /\ NewRecord(r).ledger = "none"
           /\ NewRecord(r).cycle = 0 /\ NewRecord(r).attempts = 0
           /\ NewRecord(r).ids \subseteq {admission.id} /\ (admission.id = "none" => NewRecord(r).ids = {})
  <1> DEFINE n == NewRecord(r)
             I == Remembered(Absent)
  <1>1. Absent \in Record /\ Absent.ids = {} /\ Absent.ids \in IdSets
    <2>1. Cardinality({}) = 0 /\ IsFiniteSet({}) /\ MaxIds \in Nat
      BY FS_EmptySet, HandoffAssumption
    <2>2. QED
      BY <2>1, AbsentType DEF IdSets
  <1>2. I \in IdSets /\ I \subseteq {admission.id} /\ (admission.id = "none" => I = {})
    BY <1>1, RememberedOK DEF Remembered
  <1>3. I \in SUBSET Ids
    BY <1>2 DEF IdSets
  <1> HIDE DEF I
  <1>4. n = [Absent EXCEPT !.state = "pending", !.authority = "openslack", !.ids = I]
    BY DEF NewRecord, I
  <1>5. /\ n \in Record /\ n.state = "pending" /\ n.authority = "openslack" /\ n.ids = I /\ n.lease = "none"
        /\ n.receipt = 0 /\ n.ledger = "none" /\ n.attempts = 0 /\ n.cycle = 0
    <2>1. "pending" \in States
      BY DEF States, Active, Claimable
    <2> HIDE DEF n, Absent
    <2>2. QED
      BY <1>3, <1>4, <2>1, AbsentType DEF Record
  <1> HIDE DEF n
  <1>6. Valid(r, n)
    BY <1>2, <1>5, LimitType DEF Valid, Authority, Active, Claimable
  <1>7. QED
    BY <1>2, <1>5, <1>6 DEF n

\* A duplicate: only its ids change.
LEMMA DuplicateOK ==
    ASSUME TypeOK, NEW r, NEW q, Valid(r, q), q.state # "absent", Cardinality(Remembered(q)) <= MaxIds
    PROVE  LET n == [q EXCEPT !.ids = Remembered(q)]
           IN  /\ Valid(r, n) /\ n.state = q.state /\ n.receipt = q.receipt /\ n.ledger = q.ledger
               /\ n.remote = q.remote /\ n.cycle = q.cycle /\ n.attempts = q.attempts
               /\ n.ids \subseteq q.ids \cup {admission.id} /\ (admission.id = "none" => n.ids = q.ids)
  <1> DEFINE I == Remembered(q)
             n == [q EXCEPT !.ids = I]
  <1>1. q \in Record /\ I \in IdSets /\ I \subseteq q.ids \cup {admission.id} /\ (admission.id = "none" => I = q.ids)
    BY RememberedOK DEF Valid, Remembered
  <1>2. I \in SUBSET Ids
    BY <1>1 DEF IdSets
  <1> HIDE DEF I
  <1>3. /\ n \in Record /\ n.state = q.state /\ n.authority = q.authority /\ n.ids = I /\ n.lease = q.lease
        /\ n.receipt = q.receipt /\ n.ledger = q.ledger /\ n.remote = q.remote
        /\ n.attempts = q.attempts /\ n.cycle = q.cycle
    BY <1>1, <1>2 DEF Record
  <1> HIDE DEF n
  <1>4. Valid(r, n)
    BY <1>1, <1>3 DEF Valid
  <1>5. QED
    BY <1>1, <1>3, <1>4 DEF n, I

\* enqueueRoutes.
LEMMA EnqueueStep ==
    ASSUME IInv, Enqueue
    PROVE  IInv' /\ Onward
  <1> DEFINE M == Maintained
             i == admission.id
  <1>1. /\ TypeOK /\ Stored /\ ReceiptsAgree /\ DeliveryIdsUnique
        /\ UNCHANGED <<blobs, receipts, lock, worker, backlog, observed, tokens, service, wire, sends, faults>>
        /\ admission.stage = "put" /\ ~IdConflict(M)
        /\ IsNew(M) \/ IsDuplicate(M)
        /\ queue' = [r \in Records |->
                        IF r \notin Candidates THEN M[r]
                        ELSE IF IsNew(M) THEN NewRecord(r)
                        ELSE [M[r] EXCEPT !.ids = Remembered(M[r])]]
        /\ admission' = [admission EXCEPT !.stage = "done"]
    BY DEF IInv, Enqueue
  <1>2. \A r \in Records : Valid(r, M[r]) /\ Kept(r, queue[r], M[r])
    BY <1>1, MaintainedOK DEF Stored
  <1> HIDE DEF M
  <1>3. admission'.stage = "done" /\ Rest'
    BY <1>1 DEF TypeOK, Rest
  <1>4. queue' = [r \in Records |-> queue'[r]]
    BY <1>1
  <1>5. ASSUME NEW r \in Records
        PROVE  /\ Valid(r, queue'[r]) /\ Stays(queue[r], queue'[r])
               /\ queue[r].state # "absent" => queue'[r].state # "absent"
               /\ Spent(r, queue[r]) <= Spent(r, queue'[r])
               /\ queue'[r].ledger = "committed" =>
                      queue[r].ledger = "committed" /\ queue'[r].receipt = queue[r].receipt
               /\ queue'[r].state \in Active => queue[r].state \in Active \/ (r \in Candidates /\ IsNew(M))
               /\ r \notin Candidates => queue'[r].ids = queue[r].ids
               /\ queue'[r].ids \subseteq queue[r].ids \cup {i} /\ (i = "none" => queue'[r].ids \subseteq queue[r].ids)
    <2> DEFINE q == M[r]
    <2>1. Valid(r, queue[r]) /\ Valid(r, q) /\ Kept(r, queue[r], q) /\ Spent(r, queue[r]) \in Nat
      BY <1>1, <1>2, SpentType DEF Stored
    <2>2. Spent(r, q) = Spent(r, queue[r])
      BY <2>1 DEF Kept, Spent
    <2>3. CASE r \notin Candidates
      <3>1. queue'[r] = q
        BY <1>1, <2>3
      <3>2. QED
        BY <2>1, <2>2, <2>3, <3>1 DEF Kept
    <2>4. CASE r \in Candidates /\ IsNew(M)
      <3>1. queue'[r] = NewRecord(r) /\ q.state = "absent"
        BY <1>1, <2>4 DEF IsNew, Present
      <3>2. queue[r].state = "absent" /\ queue[r].ids = {} /\ queue[r].cycle = 0 /\ queue[r].attempts = 0
        BY <2>1, <3>1 DEF Kept, Valid
      <3>3. /\ Valid(r, queue'[r]) /\ queue'[r].state = "pending" /\ queue'[r].ledger = "none"
            /\ queue'[r].cycle = 0 /\ queue'[r].attempts = 0
            /\ queue'[r].ids \subseteq {i} /\ (i = "none" => queue'[r].ids = {})
        BY <1>1, <3>1, NewRecordOK
      <3>4. Spent(r, queue[r]) <= Spent(r, queue'[r])
        BY <3>2, <3>3, LimitType DEF Spent
      <3>5. QED
        BY <2>4, <3>2, <3>3, <3>4 DEF Stays
    <2>5. CASE r \in Candidates /\ ~IsNew(M)
      <3>1. queue'[r] = [q EXCEPT !.ids = Remembered(q)] /\ IsDuplicate(M)
        BY <1>1, <2>5
      <3>2. q.state # "absent" /\ Cardinality(Remembered(q)) <= MaxIds
        BY <2>5, <3>1 DEF IsDuplicate, Present
      <3> DEFINE n == [q EXCEPT !.ids = Remembered(q)]
      <3> HIDE DEF q
      <3>3. /\ Valid(r, n) /\ n.state = q.state /\ n.receipt = q.receipt /\ n.ledger = q.ledger
            /\ n.remote = q.remote /\ n.cycle = q.cycle /\ n.attempts = q.attempts
            /\ n.ids \subseteq q.ids \cup {i} /\ (i = "none" => n.ids = q.ids)
        BY <1>1, <2>1, <3>2, DuplicateOK
      <3>4. queue'[r] = n
        BY <3>1 DEF q
      <3> HIDE DEF n
      <3>5. /\ Valid(r, queue'[r]) /\ queue'[r].state = q.state /\ queue'[r].receipt = q.receipt
            /\ queue'[r].ledger = q.ledger /\ queue'[r].remote = q.remote /\ queue'[r].cycle = q.cycle
            /\ queue'[r].attempts = q.attempts
            /\ queue'[r].ids \subseteq q.ids \cup {i} /\ (i = "none" => queue'[r].ids = q.ids)
        BY <3>3, <3>4
      <3>6. Spent(r, queue'[r]) = Spent(r, queue[r])
        BY <2>2, <3>5 DEF Spent
      <3>7. QED
        BY <2>1, <2>5, <3>5, <3>6 DEF Kept, Stays
    <2>6. QED
      BY <2>3, <2>4, <2>5
  <1>6. Onward /\ Moved
    BY <1>1, <1>4, <1>5 DEF Onward, Moved
  <1>7. Filed
    BY <1>1, <1>5 DEF Filed, ReceiptsAgree
  <1>8. Calm
    BY <1>1, <1>5 DEF Calm
  <1>9. TypeOK' /\ Stored' /\ ReceiptsAgree' /\ Fitted' /\ Budget' /\ PutBlob'
    BY <1>1, <1>3, <1>6, <1>7, <1>8, StoredStep, ReceiptStep, FittedStep, BudgetStep, PutStep DEF IInv
  <1>10. DeliveryIdsUnique'
    <2>1. \A r \in Records : M[r].ids = queue[r].ids /\ (M[r].state = "absent" => M[r].ids = {})
      BY <1>2 DEF Kept, Valid
    <2>2. ASSUME i # "none", NEW r \in Records, i \in queue[r].ids PROVE r[1] = admission.event
      <3>1. r \in Present(M) /\ i \in M[r].ids
        BY <2>1, <2>2 DEF Present
      <3>2. QED
        BY <1>1, <2>2, <3>1 DEF IdConflict
    <2>3. \A r \in Candidates : r[1] = admission.event
      BY DEF Candidates
    <2>4. ASSUME NEW r1 \in Records, NEW r2 \in Records, r1[1] # r2[1]
          PROVE  queue'[r1].ids \cap queue'[r2].ids = {}
      <3>1. queue[r1].ids \cap queue[r2].ids = {}
        BY <1>1, <2>4 DEF DeliveryIdsUnique
      <3>2. r1 \notin Candidates \/ r2 \notin Candidates
        BY <2>3, <2>4
      <3>3. CASE i = "none"
        BY <1>5, <3>1, <3>3
      <3>4. CASE i # "none"
        <4>1. r1 \in Candidates => i \notin queue[r2].ids
          BY <2>2, <2>3, <2>4, <3>4
        <4>2. r2 \in Candidates => i \notin queue[r1].ids
          BY <2>2, <2>3, <2>4, <3>4
        <4>3. QED
          BY <1>5, <3>1, <3>2, <4>1, <4>2
      <3>5. QED
        BY <3>3, <3>4
    <2>5. QED
      BY <2>4 DEF DeliveryIdsUnique
  <1>11. (DigestsTogether => ActiveBlobKept)'
    <2>1. ASSUME DigestsTogether, NEW r \in Records, IsService(r), r \in Candidates, IsNew(M)
          PROVE  blobs[Digest[r]] # "none"
      <3>1. PICK x \in admission.routes : r = <<admission.event, x>>
        BY <2>1 DEF Candidates
      <3>2. x \in admission.routes \cap Service /\ admission.routes \in Configs /\ r \in Events \X Service
        BY <1>1, <2>1, <3>1 DEF IsService, IInv, PutBlob, Records
      <3>3. ASSUME NEW s \in Present(queue), IsService(s), Digest[s] = Digest[r] PROVE FALSE
        <4>1. s \in Records /\ s \in Events \X Service
          BY <3>3 DEF Present, Records, IsService
        <4>2. s[1] = admission.event /\ s[2] \in admission.routes /\ s = <<s[1], s[2]>>
          BY <2>1, <3>1, <3>2, <3>3, <4>1 DEF DigestsTogether
        <4>3. s \in Candidates
          BY <4>2 DEF Candidates
        <4>4. s \in Present(M)
          BY <1>2, <3>3, <4>1 DEF Present, Kept
        <4>5. QED
          BY <2>1, <4>3, <4>4 DEF IsNew
      <3>4. QED
        BY <1>1, <3>1, <3>2, <3>3 DEF IInv, PutBlob
    <2>2. ASSUME DigestsTogether PROVE ActiveBlobKept'
      <3>1. ActiveBlobKept
        BY <2>2 DEF IInv
      <3>2. QED
        BY <1>1, <1>5, <2>1, <2>2, <3>1 DEF ActiveBlobKept, IsService
    <2>3. QED
      BY <2>2 DEF DigestsTogether
  <1>12. QED
    BY <1>6, <1>9, <1>10, <1>11 DEF IInv

\* A claim: one attempt more on record, and one worker that may send it.
LEMMA ClaimStep ==
    ASSUME IInv, NEW w \in Workers, NEW r \in Records, Claim(w, r)
    PROVE  IInv' /\ Onward
  <1> DEFINE q == Maintained[r]
             t == tokens + 1
             x == Taken(q, t)
             b == [stage |-> "claimed", record |-> r, token |-> t, answer |-> "none"]
  <1>1. /\ TypeOK /\ Stored /\ ReceiptsAgree
        /\ UNCHANGED <<blobs, receipts, lock, admission, backlog, observed, service, wire, sends, faults>>
        /\ worker[w].stage = "draining" /\ MayClaim(r, q) /\ tokens' = t /\ t \in Nat \ {0}
        /\ Persist(r, x) /\ worker' = [worker EXCEPT ![w] = b]
    BY DEF IInv, TypeOK, Claim, Taken
  <1>2. /\ queue' = [s \in Records |-> queue'[s]] /\ queue'[r] = x
        /\ \A s \in Records \ {r} : queue'[s] = Maintained[s]
        /\ \A s \in Records : Valid(s, Maintained[s]) /\ Kept(s, queue[s], Maintained[s])
    BY <1>1, PersistIs
  <1>3. Valid(r, q) /\ Kept(r, queue[r], q)
    BY <1>2
  <1> HIDE DEF q, t
  <1>4. /\ Valid(r, x) /\ q.state \in Active /\ x.state \in Active /\ x.state # "absent" /\ x.ids = q.ids
        /\ x.ledger = q.ledger /\ x.receipt = q.receipt /\ x.cycle = q.cycle /\ x.attempts = q.attempts + 1
    BY <1>1, <1>3, ClaimOK
  <1> HIDE DEF x
  <1>5. b \in WorkerType /\ b.stage = "claimed" /\ b.record = r /\ b.token # 0 /\ b.answer = "none"
    BY <1>1 DEF WorkerType, Stages, Answers
  <1> HIDE DEF b
  <1>6. worker' \in [Workers -> WorkerType] /\ worker'[w] = b /\ \A y \in Workers \ {w} : worker'[y] = worker[y]
    BY <1>1, <1>5 DEF TypeOK, WorkerType
  <1>7. Rest'
    BY <1>1, <1>6 DEF TypeOK, Rest, WorkerType
  <1>8. Moved
    BY <1>5, <1>6 DEF Moved, Fit
  <1>9. queue[r].state \in Active /\ queue[r].state # "accepted" /\ x.ids = queue[r].ids
    BY <1>3, <1>4 DEF Kept, Active, Claimable
  <1>10. ASSUME NEW s \in Records
         PROVE  /\ Valid(s, queue'[s]) /\ Stays(queue[s], queue'[s]) /\ queue'[s].ids = queue[s].ids
                /\ queue[s].state # "absent" => queue'[s].state # "absent"
                /\ queue'[s].state \in Active => queue[s].state \in Active
                /\ queue'[s].ledger = "committed" => receipts[s] = queue'[s].receipt
    <2>1. CASE s = r
      BY <1>1, <1>2, <1>3, <1>4, <1>9, <2>1 DEF Stays, Kept, ReceiptsAgree
    <2>2. CASE s # r
      <3>1. queue'[s] = Maintained[s]
        BY <1>2, <2>2
      <3>2. Valid(s, queue'[s]) /\ Kept(s, queue[s], queue'[s])
        BY <1>2, <3>1
      <3>3. QED
        BY <1>1, <3>2 DEF Kept, ReceiptsAgree
    <2>3. QED
      BY <2>1, <2>2
  <1>11. Onward /\ Filed
    BY <1>1, <1>2, <1>10 DEF Onward, Filed
  <1>12. Budget'
    <2>1. ASSUME NEW s \in Records, s # r PROVE sends'[s] + Cardinality(Waiting(s)') <= Spent(s, queue'[s])
      <3>1. queue'[s] = Maintained[s]
        BY <1>2, <2>1
      <3>2. Spent(s, queue[s]) \in Nat /\ Spent(s, queue'[s]) = Spent(s, queue[s])
        BY <1>1, <1>2, <3>1, SpentType DEF Kept, Spent, Stored
      <3>3. \A y \in Workers : Unsent(worker'[y], s) => Unsent(worker[y], s)
        BY <1>5, <1>6, <2>1 DEF Unsent
      <3>4. sends'[s] = sends[s] /\ Spent(s, queue[s]) <= Spent(s, queue'[s])
        BY <1>1, <3>2
      <3>5. QED
        BY <1>1, <1>11, <3>3, <3>4, AccountStep DEF IInv
    <2>2. sends'[r] + Cardinality(Waiting(r)') <= Spent(r, queue'[r])
      <3> DEFINE p == Cardinality(Waiting(r))
                 s == Spent(r, queue[r])
      <3>1. Waiting(r)' = Waiting(r) \cup {w} /\ w \notin Waiting(r)
        BY <1>1, <1>5, <1>6 DEF Waiting, Unsent
      <3>2. Cardinality(Waiting(r)') = p + 1 /\ p \in Nat
        BY <3>1, WaitingFinite, FS_AddElement
      <3>3. s \in Nat /\ sends[r] \in Nat /\ sends[r] + p <= s
        BY <1>1, SpentType DEF IInv, Stored, TypeOK, Budget
      <3>4. Spent(r, queue'[r]) = s + 1
        <4>1. AttemptLimit(r) * q.cycle \in Int /\ q.attempts \in Int
          <5>1. AttemptLimit(r) \in Nat /\ q.cycle \in Nat /\ q.attempts \in Nat
            BY <1>3, LimitType DEF Valid, Record
          <5>2. QED
            BY <5>1
        <4>2. Spent(r, queue'[r]) = AttemptLimit(r) * q.cycle + (q.attempts + 1)
          BY <1>2, <1>4 DEF Spent
        <4>3. s = AttemptLimit(r) * q.cycle + q.attempts
          BY <1>3 DEF Spent, Kept
        <4>4. QED
          BY <4>1, <4>2, <4>3
      <3> HIDE DEF p, s
      <3>5. QED
        BY <1>1, <3>2, <3>3, <3>4
    <2>3. \A s \in Records : sends'[s] + Cardinality(Waiting(s)') <= Spent(s, queue'[s])
      BY <2>1, <2>2
    <2>4. QED
      BY <2>3 DEF Budget, Spent, AttemptLimit, IsService
  <1>13. TypeOK' /\ Stored' /\ ReceiptsAgree' /\ Fitted' /\ PutBlob'
    BY <1>1, <1>7, <1>8, <1>11, StoredStep, ReceiptStep, FittedStep, PutStep DEF IInv
  <1>14. DeliveryIdsUnique' /\ (DigestsTogether => ActiveBlobKept)'
    BY <1>1, <1>10, IdStep, BlobStep DEF IInv
  <1>15. QED
    BY <1>11, <1>12, <1>13, <1>14 DEF IInv

\* The attempt is sent: one worker less that may send it.
LEMMA SendStep ==
    ASSUME IInv, NEW w \in Workers, Send(w)
    PROVE  IInv' /\ Onward
  <1>0. PICK r \in Records : r = worker[w].record
    BY DEF IInv, TypeOK
  <1>1. /\ TypeOK /\ Stored /\ ReceiptsAgree
        /\ UNCHANGED <<queue, blobs, receipts, lock, admission, backlog, observed, tokens, service, faults>>
        /\ worker[w].stage = "confirmed" /\ r \in Records /\ Step(w, "sent", "none")
        /\ sends' = [sends EXCEPT ![r] = @ + 1] /\ wire' \subseteq Records
    BY <1>0 DEF IInv, TypeOK, Send
  <1>2. /\ worker' \in [Workers -> WorkerType] /\ Moved
        /\ \A x \in Workers, s \in Records : Unsent(worker'[x], s) => Unsent(worker[x], s)
    BY <1>1, StepOK DEF Stages, Answers
  <1>3. /\ \A x \in Workers \ {w} : worker'[x] = worker[x]
        /\ worker'[w].stage = "sent"
    BY <1>1, StepIs DEF Stages, Answers
  <1>4. sends' \in [Records -> Nat] /\ sends'[r] = sends[r] + 1 /\ \A s \in Records \ {r} : sends'[s] = sends[s]
    BY <1>1 DEF TypeOK
  <1>5. Rest'
    BY <1>1, <1>2, <1>4 DEF TypeOK, Rest, WorkerType
  <1>6. /\ queue' = [s \in Records |-> queue'[s]]
        /\ \A s \in Records : Valid(s, queue'[s]) /\ Kept(s, queue[s], queue'[s])
    BY <1>1, QueueSame
  <1>7. Onward /\ Filed
    BY <1>1, <1>6 DEF Onward, Kept, Filed, ReceiptsAgree
  <1>8. Budget'
    <2>1. \A s \in Records : Spent(s, queue'[s]) = Spent(s, queue[s]) /\ Spent(s, queue[s]) \in Nat
      BY <1>1, SpentType DEF Stored
    <2>2. ASSUME NEW s \in Records, s # r PROVE sends'[s] + Cardinality(Waiting(s)') <= Spent(s, queue'[s])
      <3>1. sends'[s] = sends[s] /\ Spent(s, queue[s]) <= Spent(s, queue'[s])
        BY <1>4, <2>1, <2>2
      <3>2. QED
        BY <1>1, <1>2, <1>7, <3>1, AccountStep DEF IInv
    <2>3. sends'[r] + Cardinality(Waiting(r)') <= Spent(r, queue'[r])
      <3> DEFINE p == Cardinality(Waiting(r))
                 s == Spent(r, queue[r])
      <3>1. Waiting(r)' = Waiting(r) \ {w} /\ w \in Waiting(r)
        BY <1>0, <1>1, <1>3 DEF Waiting, Unsent
      <3>2. Cardinality(Waiting(r)') = p - 1 /\ p \in Nat
        BY <3>1, WaitingFinite, FS_RemoveElement
      <3>3. s \in Nat /\ sends[r] \in Nat /\ sends[r] + p <= s /\ Spent(r, queue'[r]) = s
        BY <1>1, <2>1 DEF IInv, TypeOK, Budget
      <3> HIDE DEF p, s
      <3>4. QED
        BY <1>4, <3>2, <3>3
    <2>4. \A s \in Records : sends'[s] + Cardinality(Waiting(s)') <= Spent(s, queue'[s])
      BY <2>2, <2>3
    <2>5. QED
      BY <2>4 DEF Budget, Spent, AttemptLimit, IsService
  <1>9. TypeOK' /\ Stored' /\ ReceiptsAgree' /\ Fitted' /\ PutBlob'
    BY <1>1, <1>2, <1>5, <1>7, StoredStep, ReceiptStep, FittedStep, PutStep DEF IInv
  <1>10. DeliveryIdsUnique' /\ (DigestsTogether => ActiveBlobKept)'
    BY <1>1, IdStep, BlobStep DEF IInv
  <1>11. QED
    BY <1>7, <1>8, <1>9, <1>10 DEF IInv

\* A Blob is collected that no active record has.
LEMMA GarbageStep ==
    ASSUME IInv, NEW d \in Digests, CollectGarbage(d)
    PROVE  IInv' /\ Onward
  <1>1. /\ TypeOK /\ Stored
        /\ UNCHANGED <<queue, receipts, lock, worker, admission, backlog, observed, tokens, service, wire, sends, faults>>
        /\ \E r \in Present(queue) : IsService(r) /\ Digest[r] = d
        /\ d \notin ActiveDigests /\ blobs' = [blobs EXCEPT ![d] = "none"]
    BY DEF IInv, CollectGarbage
  <1>2. blobs' \in [Digests -> {"none", "intact", "damaged"}] /\ \A x \in Digests \ {d} : blobs'[x] = blobs[x]
    BY <1>1 DEF TypeOK
  <1>3. Rest'
    BY <1>1, <1>2 DEF TypeOK, Rest
  <1>4. /\ queue' = [r \in Records |-> queue'[r]]
        /\ \A r \in Records : Valid(r, queue'[r]) /\ Kept(r, queue[r], queue'[r])
    BY <1>1, QueueSame
  <1>5. Onward /\ Filed /\ Moved
    BY <1>1, <1>4 DEF Onward, Kept, Filed, IInv, ReceiptsAgree, Moved
  <1>6. Calm
    <2>1. \A r \in Records : Spent(r, queue'[r]) = Spent(r, queue[r]) /\ Spent(r, queue[r]) \in Nat
      BY <1>1, SpentType DEF Stored
    <2>2. \A r \in Records : Spent(r, queue[r]) <= Spent(r, queue'[r])
      BY <2>1
    <2>3. QED
      BY <1>1, <2>2 DEF Calm
  <1>7. PutBlob'
    <2>1. ASSUME admission.stage = "put", NEW x \in admission.routes \cap Service
          PROVE  \/ blobs'[Digest[<<admission.event, x>>]] # "none"
                 \/ \E r \in Present(queue) : IsService(r) /\ Digest[r] = Digest[<<admission.event, x>>]
      <3>1. Digest[<<admission.event, x>>] \in Digests
        BY <1>1, <2>1 DEF Digests, TypeOK
      <3>2. QED
        BY <1>1, <1>2, <2>1, <3>1 DEF IInv, PutBlob
    <2>2. QED
      BY <1>1, <2>1 DEF IInv, PutBlob, Present, IsService
  <1>8. ASSUME DigestsTogether PROVE ActiveBlobKept'
    <2>1. ASSUME NEW r \in Records, IsService(r), queue[r].state \in Active
          PROVE  blobs'[Digest[r]] # "none"
      <3>1. queue[r].authority = "openslack"
        BY <1>1, <2>1 DEF Stored, Valid, Authority, Active, Claimable
      <3>2. Digest[r] # d
        BY <1>1, <2>1, <3>1 DEF ActiveDigests
      <3>3. Digest[r] \in Digests
        BY <2>1 DEF Digests, Records, IsService
      <3>4. QED
        BY <1>2, <1>8, <2>1, <3>2, <3>3 DEF IInv, ActiveBlobKept
    <2>2. QED
      BY <1>1, <2>1 DEF ActiveBlobKept, IsService
  <1>9. TypeOK' /\ Stored' /\ ReceiptsAgree' /\ Fitted' /\ Budget' /\ DeliveryIdsUnique'
    BY <1>1, <1>3, <1>5, <1>6, StoredStep, ReceiptStep, FittedStep, BudgetStep, IdStep DEF IInv
  <1>10. QED
    BY <1>5, <1>7, <1>8, <1>9 DEF IInv, DigestsTogether

\* A Blob is damaged: it is still there.
LEMMA DamageStep ==
    ASSUME IInv, NEW d \in Digests, DamageBlob(d)
    PROVE  IInv' /\ Onward
  <1>1. /\ TypeOK
        /\ UNCHANGED <<queue, receipts, lock, worker, admission, backlog, observed, tokens, service, wire, sends>>
        /\ blobs' = [blobs EXCEPT ![d] = "damaged"]
    BY DEF IInv, DamageBlob
  <1>2. faults' \in 0..MaxFaults
    BY <1>1, FaultType DEF DamageBlob
  <1>3. blobs' \in [Digests -> {"none", "intact", "damaged"}] /\ \A x \in Digests : blobs[x] = "none" \/ blobs'[x] # "none"
    BY <1>1 DEF TypeOK
  <1>4. Rest'
    BY <1>1, <1>2, <1>3 DEF TypeOK, Rest
  <1>5. QED
    BY <1>1, <1>3, <1>4, WorkersSame, QueueSame, KeptStep

\* Time passes for the records.
LEMMA TimeSteps ==
    ASSUME IInv, Tick \/ \E r \in Records : BecomesDue(r) \/ DeadlinePasses(r) \/ LeaseEnds(r)
    PROVE  IInv' /\ Onward
  <1>1. /\ TypeOK /\ Stored
        /\ UNCHANGED <<blobs, receipts, lock, worker, admission, backlog, observed, tokens, service, wire, sends>>
    BY DEF IInv, Tick, BecomesDue, DeadlinePasses, LeaseEnds
  <1>2. faults' \in 0..MaxFaults
    BY <1>1, FaultType DEF Tick, BecomesDue, DeadlinePasses, LeaseEnds
  <1>3. Rest'
    BY <1>1, <1>2 DEF TypeOK, Rest
  <1>4. queue' = [r \in Records |-> queue'[r]]
    BY <1>1 DEF Tick, BecomesDue, DeadlinePasses, LeaseEnds, TypeOK
  <1>5. ASSUME NEW s \in Records PROVE Valid(s, queue'[s]) /\ Kept(s, queue[s], queue'[s])
    <2> DEFINE q == queue[s]
    <2>1. Valid(s, q) /\ q \in Record /\ q.when \in {"due", "later"} /\ q.deadline \in {"ahead", "reached"}
          /\ q.persisted \in {"now", "earlier"} /\ q.lease \in {"none", "held", "over"}
      BY <1>1 DEF Stored, Valid, Record
    <2>2. \/ queue'[s] = q \/ queue'[s] = [q EXCEPT !.persisted = "earlier"]
          \/ queue'[s] = [q EXCEPT !.when = "due"]
          \/ queue'[s] = [q EXCEPT !.deadline = "reached", !.when = "due"]
          \/ queue'[s] = [q EXCEPT !.lease = "over"] /\ q.lease # "none"
      <3>1. CASE Tick
        BY <1>1, <3>1 DEF Tick
      <3>2. ASSUME NEW r \in Records, BecomesDue(r) PROVE queue'[s] = q \/ queue'[s] = [q EXCEPT !.when = "due"]
        BY <1>1, <3>2 DEF BecomesDue, TypeOK
      <3>3. ASSUME NEW r \in Records, DeadlinePasses(r)
            PROVE  queue'[s] = q \/ queue'[s] = [q EXCEPT !.deadline = "reached", !.when = "due"]
        BY <1>1, <3>3 DEF DeadlinePasses, TypeOK
      <3>4. ASSUME NEW r \in Records, LeaseEnds(r)
            PROVE  \/ queue'[s] = q
                   \/ queue'[s] = [q EXCEPT !.lease = "over"] /\ q.lease # "none"
        BY <1>1, <3>4 DEF LeaseEnds, TypeOK
      <3>5. QED
        BY <3>1, <3>2, <3>3, <3>4
    <2> HIDE DEF q
    <2>3. ASSUME NEW x \in {"due", "later"}, NEW d \in {"ahead", "reached"}, NEW p \in {"now", "earlier"},
                 NEW l \in {"none", "held", "over"}, l # "none" <=> q.lease # "none", queue'[s] = Aged(q, x, d, p, l)
          PROVE  Valid(s, queue'[s]) /\ Kept(s, q, queue'[s])
      BY <2>1, <2>3, TimeOK
    <2>4. Valid(s, queue'[s]) /\ Kept(s, q, queue'[s])
      <3>1. CASE queue'[s] = [q EXCEPT !.persisted = "earlier"]
        <4>1. queue'[s] = Aged(q, q.when, q.deadline, "earlier", q.lease)
          BY <2>1, <3>1 DEF Record, Aged
        <4>2. QED
          BY <2>1, <2>3, <4>1
      <3>2. CASE queue'[s] = [q EXCEPT !.when = "due"]
        <4>1. queue'[s] = Aged(q, "due", q.deadline, q.persisted, q.lease)
          BY <2>1, <3>2 DEF Record, Aged
        <4>2. QED
          BY <2>1, <2>3, <4>1
      <3>3. CASE queue'[s] = [q EXCEPT !.deadline = "reached", !.when = "due"]
        <4>1. queue'[s] = Aged(q, "due", "reached", q.persisted, q.lease)
          BY <2>1, <3>3 DEF Record, Aged
        <4>2. QED
          BY <2>1, <2>3, <4>1
      <3>4. CASE queue'[s] = [q EXCEPT !.lease = "over"] /\ q.lease # "none"
        <4>1. queue'[s] = Aged(q, q.when, q.deadline, q.persisted, "over")
          BY <2>1, <3>4 DEF Record, Aged
        <4>2. QED
          BY <2>1, <2>3, <3>4, <4>1
      <3>5. CASE queue'[s] = q
        BY <2>1, <3>5, KeptSame
      <3>6. QED
        BY <2>2, <3>1, <3>2, <3>3, <3>4, <3>5
    <2>5. QED
      BY <2>4 DEF q
  <1>6. QED
    BY <1>1, <1>3, <1>4, <1>5, WorkersSame, KeptStep

----------------------------------------------------------------------------
(* The theorems *)

\* The invariant holds at the start.
LEMMA InitInv == Init => IInv
  <1> SUFFICES ASSUME Init PROVE IInv
    OBVIOUS
  <1>1. \A r \in Records : queue[r] = Absent /\ receipts[r] = 0 /\ sends[r] = 0
    BY DEF Init
  <1>2. \A w \in Workers : \E r \in Records : worker[w] = [stage |-> "idle", record |-> r, token |-> 0, answer |-> "none"]
    BY DEF Init, Idle
  <1>3. PICK e \in Events : admission = [stage |-> "idle", event |-> e, id |-> "none", routes |-> {}]
    BY DEF Init, NoAdmission
  <1>4. TypeOK
    <2>1. queue \in [Records -> Record] /\ receipts \in [Records -> Nat] /\ sends \in [Records -> Nat]
      BY AbsentType DEF Init
    <2>2. worker \in [Workers -> [stage: Stages, record: Records, token: Nat, answer: Answers]]
      <3>1. \A r \in Records : Idle(r) \in [stage: Stages, record: Records, token: Nat, answer: Answers]
        BY DEF Idle, Stages, Answers
      <3>2. QED
        BY <3>1 DEF Init
    <2>3. admission \in [stage: {"idle", "put", "done"}, event: Events, id: Ids \cup {"none"}, routes: SUBSET Routes]
      BY <1>3
    <2>4. QED
      BY <2>1, <2>2, <2>3, HandoffAssumption DEF Init, TypeOK
  <1>5. Stored
    <2>1. {} \in IdSets
      BY FS_EmptySet, HandoffAssumption DEF IdSets
    <2>2. ASSUME NEW r \in Records PROVE Valid(r, Absent)
      BY <2>1, AbsentType, LimitType DEF Valid, Authority
    <2>3. QED
      BY <1>1, <2>2 DEF Stored
  <1>6. Fitted /\ \A w \in Workers : worker[w].stage = "idle"
    <2>1. ASSUME NEW w \in Workers PROVE worker[w].stage = "idle" /\ worker[w].answer = "none"
      <3>1. PICK r \in Records : worker[w] = [stage |-> "idle", record |-> r, token |-> 0, answer |-> "none"]
        BY <1>2
      <3>2. QED
        BY <3>1
    <2>2. ASSUME NEW w \in Workers PROVE Fit(worker[w], queue, receipts)
      BY <2>1 DEF Fit
    <2>3. QED
      BY <2>1, <2>2 DEF Fitted
  <1>7. ReceiptsAgree /\ DeliveryIdsUnique /\ ActiveBlobKept
    BY <1>1, AbsentType DEF ReceiptsAgree, DeliveryIdsUnique, ActiveBlobKept, Active, Claimable
  <1>8. PutBlob
    BY <1>3 DEF PutBlob
  <1>9. Budget
    <2>1. ASSUME NEW r \in Records PROVE sends[r] + Cardinality(Waiting(r)) <= Spent(r, queue[r])
      <3>1. Waiting(r) = {} /\ Cardinality({}) = 0
        BY <1>6, FS_EmptySet DEF Waiting, Unsent
      <3>2. Spent(r, queue[r]) \in Nat
        BY <1>5, SpentType DEF Stored
      <3>3. QED
        BY <1>1, <3>1, <3>2
    <2>2. QED
      BY <2>1 DEF Budget
  <1>10. QED
    BY <1>4, <1>5, <1>6, <1>7, <1>8, <1>9 DEF IInv

\* Every step preserves it and moves the queue onward.
LEMMA StepInv ==
    ASSUME IInv, [Next]_vars
    PROVE  IInv' /\ Onward
  <1>1. CASE Admit
    BY <1>1, PutStepBlobs, EnqueueStep, RefusedStep, OutsideSteps DEF Admit
  <1>2. ASSUME NEW w \in Workers, Drain(w) PROVE IInv' /\ Onward
    BY <1>2, RecoverSteps, DrainSteps, ClaimStep, AnswerSteps, SendStep, EmbedStep, ReceiptFileStep, CommitStep
       DEF Drain
  <1>3. CASE Operate
    BY <1>3, RetryStep, ProjectSteps, GarbageStep DEF Operate
  <1>4. CASE TimePasses
    BY <1>4, TimeSteps DEF TimePasses
  <1>5. CASE Environment
    BY <1>5, OutsideSteps, DrainSteps, RecoverSteps, DamageStep DEF Environment
  <1>6. CASE UNCHANGED vars
    BY <1>6, OutsideSteps
  <1>7. QED
    BY <1>1, <1>2, <1>3, <1>4, <1>5, <1>6 DEF Next

\* The invariant holds in every reachable state of the handoff queue.
THEOREM Inductive == Spec => []IInv
  <1>1. IInv /\ [Next]_vars => IInv'
    BY StepInv
  <1>2. QED
    BY <1>1, InitInv, PTL DEF Spec

\* The variables of the handoff queue have their types.
THEOREM TypeCorrect == Spec => []TypeOK
  <1>1. IInv => TypeOK
    BY DEF IInv
  <1>2. QED
    BY <1>1, Inductive, PTL

\* Every state that an operation persists is one that the next load accepts.
THEOREM RecordsStayValid == Spec => []RecordsValid
  <1>1. IInv => RecordsValid
    <2>1. ASSUME IInv, NEW r \in Records
          PROVE  LET q == queue[r]
                 IN  /\ (q.lease # "none") <=> (q.authority = "openslack" /\ q.state = "processing")
                     /\ IF q.state = "accepted"
                        THEN /\ q.authority = "notification_service" /\ q.receipt # 0
                             /\ q.ledger # "none" /\ q.remote # "unknown"
                        ELSE q.receipt = 0 /\ q.ledger = "none"
                     /\ Cardinality(q.ids) <= MaxIds
      <3>1. Valid(r, queue[r])
        BY <2>1 DEF IInv, Stored
      <3>2. QED
        BY <3>1 DEF Valid, Authority, IdSets, Active, Claimable
    <2>2. QED
      BY <2>1 DEF RecordsValid
  <1>2. QED
    BY <1>1, Inductive, PTL

\* A receipt file never disagrees with the queue, and a committed ledger has
\* its file, whatever crash or failed write comes between the three writes.
THEOREM LedgerTrue == Spec => []ReceiptsAgree
  <1>1. IInv => ReceiptsAgree
    BY DEF IInv
  <1>2. QED
    BY <1>1, Inductive, PTL

\* A GitHub delivery id is remembered for one event only.
THEOREM IdsUnique == Spec => []DeliveryIdsUnique
  <1>1. IInv => DeliveryIdsUnique
    BY DEF IInv
  <1>2. QED
    BY <1>1, Inductive, PTL

\* Where routes that share a Blob are always configured together, the Blob of a
\* record that may still be sent is there.
THEOREM BlobsKept == Spec => [](DigestsTogether => ActiveBlobKept)
  <1>1. IInv => (DigestsTogether => ActiveBlobKept)
    BY DEF IInv
  <1>2. QED
    BY <1>1, Inductive, PTL

\* No record is sent more often than its policy allows in all its cycles.
THEOREM WithinBudget == Spec => []SendBudget
  <1>1. IInv => SendBudget
    <2>1. ASSUME IInv, NEW r \in Records PROVE sends[r] <= AttemptLimit(r) * (queue[r].cycle + 1)
      <3> DEFINE p == Cardinality(Waiting(r))
                 l == AttemptLimit(r)
                 q == queue[r]
      <3>1. p \in Nat /\ l \in Nat /\ sends[r] \in Nat /\ Valid(r, q)
        BY <2>1, WaitingFinite, LimitType DEF IInv, TypeOK, Stored
      <3>2. q.cycle \in Nat /\ q.attempts \in Nat /\ q.attempts <= l
        BY <3>1 DEF Valid, Record
      <3>3. sends[r] + p <= l * q.cycle + q.attempts
        BY <2>1 DEF IInv, Budget, Spent
      <3>4. ASSUME NEW a \in Nat, NEW b \in Nat, NEW c \in Nat, c <= a
            PROVE  a * b + c <= a * (b + 1) /\ a * b \in Nat /\ a * (b + 1) \in Nat
        BY <3>4
      <3> HIDE DEF p, l, q
      <3>5. sends[r] <= l * (q.cycle + 1)
        <4>1. l * q.cycle + q.attempts <= l * (q.cycle + 1) /\ l * q.cycle \in Nat /\ l * (q.cycle + 1) \in Nat
          BY <3>1, <3>2, <3>4
        <4>2. QED
          BY <3>1, <3>2, <3>3, <4>1
      <3>6. QED
        BY <3>5 DEF l, q
    <2>2. QED
      BY <2>1 DEF SendBudget
  <1>2. QED
    BY <1>1, Inductive, PTL

\* An accepted record stays accepted, with its receipt, its committed ledger
\* and its delivered projection.
THEOREM AcceptedIsFinal == Spec => AcceptedStays
  <1>1. IInv /\ [Next]_vars =>
            [\A r \in Records : queue[r].state = "accepted" =>
                /\ queue'[r].state = "accepted" /\ queue'[r].receipt = queue[r].receipt
                /\ queue[r].ledger = "committed" => queue'[r].ledger = "committed"
                /\ queue[r].remote = "delivered" => queue'[r].remote = "delivered"]_vars
    BY StepInv DEF Onward, Stays
  <1>2. QED
    BY <1>1, Inductive, PTL DEF Spec, AcceptedStays
=============================================================================
