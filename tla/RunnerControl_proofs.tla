------------------------ MODULE RunnerControl_proofs ------------------------
(***************************************************************************)
(* For any number of attempts, worker loops and allowed dispatch failures: *)
(* a workflow that may have begun is never attempted again, a terminal job *)
(* has no open effect, a settled job stays settled, and no active attempt  *)
(* is left without a session.                                              *)
(*                                                                         *)
(* Keeps says what every step but a claim and a lease_accept does to the   *)
(* rows.  Each action is shown to keep the types and to satisfy it, mostly *)
(* through RowStep (one attempt and the job are written); the invariant is *)
(* then preserved by Keeps, by a claim and by a lease_accept.              *)
(*                                                                         *)
(* NoOrphan needs a second invariant, OInv, over states, leases, sessions  *)
(* and the scheduler; MoveInv preserves it for every step that writes one  *)
(* attempt, its session and the job, and the service's own steps follow.   *)
(***************************************************************************)
EXTENDS RunnerControl, TLAPS

----------------------------------------------------------------------------
(* Types *)

\* Moving a binding along leaves a well-formed attempt.
LEMMA BoundType ==
    ASSUME NEW a \in AttRec, NEW st \in {"none", "latched"} \cup BindingOpen
    PROVE  Bound(a, st) \in AttRec
  BY DEF Bound, AttRec, BindingOpen, BoundKinds

\* Leaving a binding for reconciliation leaves a well-formed attempt.
LEMMA LatchedType ==
    ASSUME NEW a \in AttRec
    PROVE  Latched(a) \in AttRec
  BY BoundType DEF Latched

\* So does closing the attempt.
LEMMA ClosedType ==
    ASSUME NEW a \in AttRec, NEW s \in {"crashed", "terminal", Recon}
    PROVE  Closed(a, s) \in AttRec
  <1>1. Latched(a) \in AttRec
    BY LatchedType
  <1>2. QED
    BY <1>1 DEF Closed, AttRec, JobActive, Settled, LeaseLive

\* A counted dispatch failure stays within the ceiling.
LEMMA DispatchType ==
    ASSUME NEW j \in JobRec
    PROVE  DispatchFailure(j) \in JobRec
  <1> DEFINE n == IF j.fails < MaxDispatchFailures THEN j.fails + 1 ELSE j.fails
             d == IF j.fails + 1 >= MaxDispatchFailures THEN "dead" ELSE "backoff"
  <1>1. j.fails \in 0..MaxDispatchFailures /\ MaxDispatchFailures \in Nat
    BY RunnerAssumption DEF JobRec
  <1>2. n \in 0..MaxDispatchFailures
    BY <1>1
  <1>3. d \in {"ready", "backoff", "dead"}
    OBVIOUS
  <1> HIDE DEF n, d
  <1>4. [j EXCEPT !.fails = n, !.dispatch = d] \in JobRec
    BY <1>2, <1>3 DEF JobRec
  <1>5. QED
    BY <1>4 DEF DispatchFailure, n, d

\* What RecordProcessExit writes is well-formed.
LEMMA ExitType ==
    ASSUME TypeOK, NEW f \in Fence
    PROVE  /\ ProcessExit(f).job \in JobRec
           /\ ProcessExit(f).att \in AttRec
  <1>1. att[f] \in AttRec /\ job \in JobRec
    BY DEF TypeOK
  <1>2. DispatchFailure(job) \in JobRec
    BY <1>1, DispatchType
  <1>3. \A j \in JobRec, s \in {"queued", "terminal", Recon} : [j EXCEPT !.state = s] \in JobRec
    BY DEF JobRec, Settled
  <1>4. \A s \in {"crashed", "terminal", Recon} : Closed(att[f], s) \in AttRec
    BY <1>1, ClosedType
  <1>5. QED
    BY <1>1, <1>2, <1>3, <1>4 DEF ProcessExit

\* The attempt row before and right after a claim is well-formed.
LEMMA RowType ==
    /\ NoAttempt \in AttRec
    /\ [NoAttempt EXCEPT !.state = "offered", !.lease = "offered"] \in AttRec
  <1>1. NoAttempt \in AttRec
    BY DEF NoAttempt, AttRec, JobActive, Settled, LeaseLive, BindingOpen, BoundKinds, Recon
  <1>2. QED
    BY <1>1 DEF AttRec, JobActive, Settled, LeaseLive, BindingOpen, BoundKinds, Recon

\* The session records that a session ends with are well-formed.
LEMMA SessType ==
    /\ NoSession \in SessRec
    /\ \A pc \in {"killing", "done", "rejected"} : [NoSession EXCEPT !.pc = pc] \in SessRec
    /\ Killing \in SessRec
    /\ Ended \in SessRec
  <1>1. NoSession \in SessRec
    BY DEF NoSession, SessRec, Kinds, BoundKinds
  <1>2. \A s \in SessRec : \A pc \in {"killing", "done", "rejected"} : [s EXCEPT !.pc = pc] \in SessRec
    BY DEF SessRec
  <1>3. QED
    BY <1>1, <1>2 DEF Killing, Ended

\* Every way in which a session moves on keeps the sessions well-formed.
LEMMA GoType ==
    ASSUME TypeOK, NEW f \in Fence
    PROVE  /\ Kill(f) => sess' \in [Fence -> SessRec]
           /\ Return(f) => sess' \in [Fence -> SessRec]
           /\ \A out \in {"offer", "cancel", "receipt", "decision"} :
                 SendNext(f, out) => sess' \in [Fence -> SessRec]
           /\ \A pc \in {"launch", "hello", "wire"} : Go(f, pc) => sess' \in [Fence -> SessRec]
  <1>1. sess \in [Fence -> SessRec]
    BY DEF TypeOK
  <1>2. Kill(f) => sess' \in [Fence -> SessRec]
    BY <1>1, SessType DEF Kill
  <1>3. Return(f) => sess' \in [Fence -> SessRec]
    BY <1>1, SessType DEF Return
  <1>4. \A out \in {"offer", "cancel", "receipt", "decision"} :
           [sess[f] EXCEPT !.pc = "due", !.out = out] \in SessRec
    BY <1>1 DEF SessRec
  <1>5. \A pc \in {"launch", "hello", "wire"} : [sess[f] EXCEPT !.pc = pc] \in SessRec
    BY <1>1 DEF SessRec
  <1>6. QED
    BY <1>1, <1>2, <1>3, <1>4, <1>5 DEF SendNext, Go

\* So does the delivery of a control.
LEMMA AfterType ==
    ASSUME TypeOK, NEW f \in Fence
    PROVE  AfterDelivery(f) \in SessRec
  <1> DEFINE s == sess[f]
             idle == [s EXCEPT !.pc = "open", !.out = "none", !.event = "none", !.recon = FALSE]
             t == idle.terminalReceived \/ s.event = "terminal"
  <1>1. s \in SessRec
    BY DEF TypeOK
  <1>2. idle \in SessRec
    BY <1>1 DEF SessRec
  <1>3. /\ [idle EXCEPT !.cancelSent = TRUE] \in SessRec
        /\ [s EXCEPT !.pc = "due", !.out = "receipt", !.cancelSent = TRUE] \in SessRec
        /\ [s EXCEPT !.pc = "due", !.out = "decision"] \in SessRec
    <2> HIDE DEF s, idle
    <2>1. QED
      BY <1>1, <1>2 DEF SessRec
  <1>4. [idle EXCEPT !.terminalReceived = t] \in SessRec
    <2>1. t \in BOOLEAN
      OBVIOUS
    <2> HIDE DEF idle, t
    <2>2. QED
      BY <1>2, <2>1 DEF SessRec
  <1>5. QED
    BY <1>2, <1>3, <1>4, SessType DEF AfterDelivery

\* A recorded worker event keeps every type.
LEMMA RecordType ==
    ASSUME TypeOK, NEW f \in Fence, NEW kind \in Kinds, NEW j \in JobRec, NEW a \in AttRec,
           Record(f, kind, j, a)
    PROVE  TypeOK'
  <1>1. sess' \in [Fence -> SessRec]
    <2>1. CASE a.cancel = "stacked"
      BY <2>1, GoType DEF Record
    <2>2. CASE a.cancel # "stacked"
      <3> DEFINE o == IF kind \notin BoundKinds /\ a.cancel = "pending" THEN "cancel" ELSE "receipt"
                 r == j.state = Recon
      <3>1. o \in {"cancel", "receipt"} /\ r \in BOOLEAN
        OBVIOUS
      <3>2. sess' = [sess EXCEPT ![f] = [sess[f] EXCEPT !.pc = "due", !.event = kind, !.recon = r, !.out = o]]
        BY <2>2 DEF Record, TypeOK
      <3> HIDE DEF o, r
      <3>3. [sess[f] EXCEPT !.pc = "due", !.event = kind, !.recon = r, !.out = o] \in SessRec
        BY <3>1 DEF TypeOK, SessRec
      <3>4. QED
        BY <3>2, <3>3 DEF TypeOK
    <2>3. QED
      BY <2>1, <2>2
  <1>2. QED
    BY <1>1 DEF Record, TypeOK

----------------------------------------------------------------------------
(* What a step does to the rows *)

\* What happens to one attempt in every step but a claim and a lease_accept.
Evolves(a, b) ==
    /\ b.started = a.started
    /\ b.state \in {"offered", "running"} => b.state = a.state
    /\ b.effects = a.effects \/ b.effects = 0 \/ a.state = "running"

\* What a settled job may become.
SettledRule(s, t) == (s \in Settled => t \in Settled) /\ (s = Recon => t = Recon)

\* What every step but a claim and a lease_accept does to the rows.
Keeps ==
    /\ job'.fence = job.fence
    /\ \A g \in Fence : Evolves(att[g], att'[g])
    /\ job'.state = "queued" =>
          job.state = "queued" \/ \A g \in Fence : g = job.fence => ~att[g].started
    /\ job'.state # job.state => \A g \in Fence : g = job.fence => att'[g].state # "offered"
    /\ SettledRule(job.state, job'.state)
    /\ job'.state = "terminal" => \A g \in Fence : g = job.fence =>
          att'[g].effects = 0 \/ (job.state = "terminal" /\ att'[g].effects = att[g].effects)

\* What the job of attempt f may become in a step that leaves the attempt as a.
JobMoves(f, s, a) ==
    /\ s = "queued" => job.state = "queued" \/ ~att[f].started
    /\ s # job.state => f = job.fence /\ a.state # "offered"
    /\ SettledRule(job.state, s)
    /\ s = "terminal" => a.effects = 0 \/ (job.state = "terminal" /\ a.effects = att[f].effects)

\* One attempt and the job are written.
RowStep(f, j, a) ==
    /\ job' = j /\ att' = [att EXCEPT ![f] = a]
    /\ j \in JobRec /\ a \in AttRec
    /\ j.fence = job.fence
    /\ Evolves(att[f], a)
    /\ JobMoves(f, j.state, a)

\* A step that writes one attempt and the job satisfies Keeps.
LEMMA RowKeeps ==
    ASSUME TypeOK, NEW f \in Fence, NEW j, NEW a, RowStep(f, j, a)
    PROVE  Keeps /\ job' \in JobRec /\ att' \in [Fence -> AttRec]
  <1>1. job' \in JobRec /\ att' \in [Fence -> AttRec]
    BY DEF RowStep, TypeOK
  <1>2. att'[f] = a /\ \A g \in Fence : g # f => att'[g] = att[g]
    BY DEF RowStep, TypeOK
  <1>3. \A g \in Fence : Evolves(att[g], att'[g])
    BY <1>2 DEF RowStep, Evolves
  <1>4. JobMoves(f, job'.state, a) /\ job'.fence = job.fence
    BY DEF RowStep
  <1>5. ASSUME NEW g \in Fence, g = job.fence
        PROVE  /\ job'.state = "queued" => job.state = "queued" \/ ~att[g].started
               /\ job'.state # job.state => att'[g].state # "offered"
               /\ job'.state = "terminal" =>
                     att'[g].effects = 0 \/ (job.state = "terminal" /\ att'[g].effects = att[g].effects)
    <2>1. CASE g = f
      BY <1>2, <1>4, <2>1 DEF JobMoves
    <2>2. CASE g # f
      <3>1. job'.state = job.state /\ att'[g] = att[g]
        BY <1>2, <1>4, <1>5, <2>2 DEF JobMoves
      <3>2. QED
        BY <3>1
    <2>3. QED
      BY <2>1, <2>2
  <1>6. SettledRule(job.state, job'.state)
    BY <1>4 DEF JobMoves
  <1>7. job'.state = "queued" =>
           job.state = "queued" \/ \A g \in Fence : g = job.fence => ~att[g].started
    BY <1>5
  <1>8. QED
    BY <1>1, <1>3, <1>4, <1>5, <1>6, <1>7 DEF Keeps

\* A step that writes no row satisfies Keeps.
LEMMA SameKeeps ==
    ASSUME UNCHANGED <<job, att>>
    PROVE  Keeps
  BY DEF Keeps, Evolves, SettledRule

\* What the fields of a row become.
LEMMA JobField ==
    ASSUME NEW j \in JobRec, NEW s \in {"queued"} \cup JobActive \cup Settled
    PROVE  /\ [j EXCEPT !.state = s] \in JobRec
           /\ [j EXCEPT !.state = s].state = s
           /\ [j EXCEPT !.state = s].fence = j.fence
  BY DEF JobRec

\* The values that the state and the lease of an attempt are given.
NewState == {"rejected", "expired"} \cup JobActive \cup Settled
NewLease == {"none", "released", "expired"} \cup LeaseLive

\* What writing the number of open effects changes of an attempt.
LEMMA EffectsField ==
    ASSUME NEW a \in AttRec, NEW n \in 0..1
    PROVE  /\ [a EXCEPT !.effects = n] \in AttRec
           /\ [a EXCEPT !.effects = n].started = a.started
           /\ [a EXCEPT !.effects = n].state = a.state
           /\ [a EXCEPT !.effects = n].effects = n
  BY DEF AttRec

\* The attempt with a new state and lease.
SetRow(a, s, l) == [a EXCEPT !.state = s, !.lease = l]

\* What writing the state and the lease changes of an attempt.
LEMMA StateField ==
    ASSUME NEW a \in AttRec, NEW s \in NewState, NEW l \in NewLease
    PROVE  /\ SetRow(a, s, l) \in AttRec
           /\ SetRow(a, s, l).started = a.started
           /\ SetRow(a, s, l).state = s
           /\ SetRow(a, s, l).effects = a.effects
  BY DEF AttRec, NewState, NewLease, SetRow

\* What writing the cancellation control changes of an attempt.
LEMMA CancelField ==
    ASSUME NEW a \in AttRec, NEW c \in {"none", "pending", "stacked", "sent", "acked"}
    PROVE  /\ [a EXCEPT !.cancel = c] \in AttRec
           /\ [a EXCEPT !.cancel = c].started = a.started
           /\ [a EXCEPT !.cancel = c].state = a.state
           /\ [a EXCEPT !.cancel = c].effects = a.effects
  BY DEF AttRec

\* What committing the binding changes of an attempt.
LEMMA CommitField ==
    ASSUME NEW a \in AttRec
    PROVE  /\ [a EXCEPT !.binding = "committed"] \in AttRec
           /\ [a EXCEPT !.binding = "committed"].started = a.started
           /\ [a EXCEPT !.binding = "committed"].state = a.state
           /\ [a EXCEPT !.binding = "committed"].effects = a.effects
  BY DEF AttRec, BindingOpen

\* Binding steps leave state, start and effects alone.
LEMMA LatchedKeeps ==
    ASSUME NEW a \in AttRec, NEW st \in {"none", "latched"} \cup BindingOpen
    PROVE  /\ Bound(a, st).started = a.started /\ Bound(a, st).state = a.state
           /\ Bound(a, st).effects = a.effects
           /\ Latched(a).started = a.started /\ Latched(a).state = a.state
           /\ Latched(a).effects = a.effects
  BY DEF Bound, Latched, AttRec

\* Closing an attempt changes its state, not its start or its effects.
LEMMA ClosedKeeps ==
    ASSUME NEW a \in AttRec, NEW s
    PROVE  /\ Closed(a, s).started = a.started /\ Closed(a, s).state = s
           /\ Closed(a, s).effects = a.effects
  BY LatchedKeeps, LatchedType DEF Closed, AttRec

\* Counting a dispatch failure changes neither fence nor state.
LEMMA DispatchKeeps ==
    ASSUME NEW j \in JobRec
    PROVE  DispatchFailure(j).fence = j.fence /\ DispatchFailure(j).state = j.state
  BY DEF DispatchFailure, JobRec

\* The exit of the current attempt, or an exit that changes nothing.
LEMMA ExitKeeps ==
    ASSUME TypeOK, NEW f \in Fence, ~ExitStale(f),
           job' = ProcessExit(f).job, att' = [att EXCEPT ![f] = ProcessExit(f).att]
    PROVE  RowStep(f, ProcessExit(f).job, ProcessExit(f).att)
  <1> DEFINE a == att[f]
             counted == IF a.started THEN job ELSE DispatchFailure(job)
             Outcome(j, js, as) == [job |-> [j EXCEPT !.state = js], att |-> Closed(a, as)]
  <1>1. a \in AttRec /\ job \in JobRec
    BY DEF TypeOK
  <1>2. counted \in JobRec /\ counted.fence = job.fence
    BY <1>1, DispatchType, DispatchKeeps
  <1>3. \/ ProcessExit(f) = [job |-> job, att |-> a]
        \/ /\ f = job.fence /\ job.state # Recon
           /\ \/ ProcessExit(f) = Outcome(counted, Recon, Recon)
              \/ ProcessExit(f) = Outcome(job, "terminal", "terminal") /\ ~(a.effects > 0)
              \/ ProcessExit(f) = Outcome(job, "terminal", "crashed") /\ ~(a.effects > 0)
              \/ /\ ProcessExit(f) = Outcome(counted, "queued", "crashed")
                 /\ ~a.started /\ job.state # "terminal"
    <2>1. CASE ExitIgnored(f)
      BY <2>1 DEF ProcessExit
    <2>2. CASE ~ExitIgnored(f)
      <3>1. f = job.fence /\ job.state # Recon /\ (job.state = "terminal" => Outstanding(a))
        BY <2>2 DEF ExitStale, ExitIgnored, Current
      <3>2. QED
        BY <2>2, <3>1, Zenon DEF ProcessExit
    <2>3. QED
      BY <2>1, <2>2
  <1>4. CASE ProcessExit(f) = [job |-> job, att |-> a]
    BY <1>1, <1>4 DEF RowStep, Evolves, JobMoves, SettledRule
  <1>5. ASSUME f = job.fence, job.state # Recon,
               NEW j \in {job, counted}, NEW js \in {"queued", "terminal", Recon},
               NEW as \in {"crashed", "terminal", Recon},
               ProcessExit(f) = Outcome(j, js, as),
               js = "queued" => ~a.started /\ job.state # "terminal",
               js = "terminal" => ~(a.effects > 0)
        PROVE  RowStep(f, ProcessExit(f).job, ProcessExit(f).att)
    <2> DEFINE m == [j EXCEPT !.state = js]
               c == Closed(a, as)
    <2>1. j \in JobRec /\ j.fence = job.fence
      BY <1>1, <1>2, <1>5
    <2>2. m \in JobRec /\ m.state = js /\ m.fence = job.fence
      BY <2>1, <1>5, JobField DEF Settled
    <2>3. c \in AttRec /\ c.started = a.started /\ c.state = as /\ c.effects = a.effects
      BY <1>1, <1>5, ClosedType, ClosedKeeps
    <2>4. ProcessExit(f).job = m /\ ProcessExit(f).att = c
      BY <1>5
    <2>5. as # "offered" /\ as # "running"
      BY <1>5 DEF Recon
    <2>6. js = "terminal" => a.effects = 0
      BY <1>1, <1>5 DEF AttRec
    <2>7. SettledRule(job.state, js)
      BY <1>5 DEF SettledRule, Settled
    <2> HIDE DEF a, m, c
    <2>8. Evolves(a, c)
      BY <2>3, <2>5 DEF Evolves
    <2>9. JobMoves(f, js, c)
      BY <1>5, <2>3, <2>5, <2>6, <2>7 DEF JobMoves, a
    <2>10. QED
      BY <1>5, <2>2, <2>3, <2>4, <2>8, <2>9 DEF RowStep, a
  <1> HIDE DEF a, counted, Outcome
  <1>6. CASE f = job.fence /\ job.state # Recon /\ ProcessExit(f) = Outcome(counted, Recon, Recon)
    BY <1>5, <1>6 DEF Recon
  <1>7. CASE /\ f = job.fence /\ job.state # Recon
             /\ ProcessExit(f) = Outcome(job, "terminal", "terminal") /\ ~(a.effects > 0)
    BY <1>5, <1>7
  <1>8. CASE /\ f = job.fence /\ job.state # Recon
             /\ ProcessExit(f) = Outcome(job, "terminal", "crashed") /\ ~(a.effects > 0)
    BY <1>5, <1>8
  <1>9. CASE /\ f = job.fence /\ job.state # Recon
             /\ ProcessExit(f) = Outcome(counted, "queued", "crashed")
             /\ ~a.started /\ job.state # "terminal"
    BY <1>5, <1>9
  <1>10. QED
    BY <1>3, <1>4, <1>6, <1>7, <1>8, <1>9

\* The current attempt of a job that is not settled takes the job on.
LEMMA MovesOn ==
    ASSUME NEW f, NEW s, NEW a, f = job.fence, job.state \notin Settled, a.state # "offered",
           s # "queued", s = "terminal" => a.effects = 0
    PROVE  JobMoves(f, s, a)
  BY DEF JobMoves, SettledRule, Settled

\* A recorded worker event that is not a lease_accept.
LEMMA RecordKeeps ==
    ASSUME TypeOK, NEW f \in Fence, NEW kind \in Kinds, NEW j \in JobRec, NEW a \in AttRec,
           Record(f, kind, j, a),
           j.fence = job.fence, Evolves(att[f], a), f = job.fence => JobMoves(f, j.state, a)
    PROVE  TypeOK' /\ Keeps
  <1>1. TypeOK'
    BY RecordType
  <1>2. RowStep(f, j, a)
    BY DEF Record, RowStep, Current
  <1>3. QED
    BY <1>1, <1>2, RowKeeps

----------------------------------------------------------------------------
(* Worker events, bindings and deliveries *)

\* A heartbeat changes no row.
LEMMA HeartbeatStep ==
    ASSUME TypeOK, NEW f \in Fence, Heartbeat(f)
    PROVE  TypeOK' /\ Keeps
  <1>1. "heartbeat" \in Kinds /\ job \in JobRec /\ att[f] \in AttRec
    BY DEF Kinds, TypeOK
  <1>2. QED
    BY <1>1, RecordKeeps DEF Heartbeat, Evolves, JobMoves, SettledRule

\* A lease_reject sends the job of an unstarted attempt to the queue or to
\* reconciliation.
LEMMA RejectStep ==
    ASSUME TypeOK, NEW f \in Fence, Reject(f),
           att[f].started => att[f].state # "offered",
           f = job.fence /\ att[f].state = "offered" => job.state = "offered"
    PROVE  TypeOK' /\ Keeps
  <1> DEFINE x == job.fails + 1 >= MaxDispatchFailures
             j == [job EXCEPT !.state = IF x THEN Recon ELSE "queued"]
             a == [att[f] EXCEPT !.state = IF x THEN Recon ELSE "rejected", !.lease = "released"]
  <1>1. "reject" \in Kinds /\ job \in JobRec /\ att[f] \in AttRec
    BY DEF Kinds, TypeOK
  <1>2. j \in JobRec /\ j.fence = job.fence /\ j.state \in {"queued", Recon}
    BY <1>1, JobField DEF Settled
  <1>3. /\ a \in AttRec /\ a.started = att[f].started /\ a.effects = att[f].effects
        /\ a.state # "offered" /\ a.state # "running"
    BY <1>1 DEF AttRec, Settled, Recon
  <1>4. Record(f, "reject", j, a) /\ ~att[f].started /\ f = job.fence /\ job.state = "offered"
    BY DEF Reject, Record, Current
  <1> HIDE DEF j, a
  <1>5. Evolves(att[f], a)
    BY <1>3 DEF Evolves
  <1>6. JobMoves(f, j.state, a)
    BY <1>2, <1>3, <1>4 DEF JobMoves, SettledRule, Settled, Recon
  <1>7. QED
    BY <1>1, <1>2, <1>3, <1>4, <1>5, <1>6, RecordKeeps

\* A terminal event settles a job that has no open effect.
LEMMA TerminalStep ==
    ASSUME TypeOK, NEW f \in Fence, Terminal(f)
    PROVE  TypeOK' /\ Keeps
  <1>1. "terminal" \in Kinds /\ job \in JobRec /\ att[f] \in AttRec
    BY DEF Kinds, TypeOK
  <1>2. PICK end \in Settled :
           Record(f, "terminal", [job EXCEPT !.state = end], [att[f] EXCEPT !.state = end, !.lease = "released"])
    BY DEF Terminal
  <1> DEFINE j == [job EXCEPT !.state = end]
             a == [att[f] EXCEPT !.state = end, !.lease = "released"]
  <1>3. j \in JobRec /\ j.fence = job.fence /\ j.state = end
    BY <1>1, JobField
  <1>4. a \in AttRec /\ a.started = att[f].started /\ a.state = end /\ a.effects = 0
    BY <1>1 DEF AttRec, Terminal
  <1>5. end # "offered" /\ end # "queued" /\ end # "running"
    BY DEF Settled, Recon
  <1>6. job.state \notin Settled
    BY DEF Terminal, Settled, Recon
  <1> HIDE DEF j, a
  <1>7. Evolves(att[f], a)
    BY <1>4, <1>5 DEF Evolves
  <1>8. f = job.fence => JobMoves(f, j.state, a)
    BY <1>3, <1>4, <1>5, <1>6 DEF JobMoves, SettledRule, Settled
  <1>9. QED
    BY <1>1, <1>2, <1>3, <1>4, <1>7, <1>8, RecordKeeps DEF j, a

\* A cancel_ack leaves job and attempt in their states.
LEMMA CancelAckStep ==
    ASSUME TypeOK, NEW f \in Fence, CancelAck(f)
    PROVE  TypeOK' /\ Keeps
  <1> DEFINE c == IF att[f].cancel = "sent" THEN "acked" ELSE att[f].cancel
             l == IF job.state \in Settled THEN att[f].lease ELSE "cancelling"
  <1>1. "cancel_ack" \in Kinds /\ job \in JobRec /\ att[f] \in AttRec
    BY DEF Kinds, TypeOK
  <1>2. /\ c \in {"none", "pending", "stacked", "sent", "acked"}
        /\ l \in {"none", "released", "expired"} \cup LeaseLive
    BY <1>1 DEF AttRec, LeaseLive
  <1>3. Record(f, "cancel_ack", job, [att[f] EXCEPT !.cancel = c, !.lease = l])
    BY DEF CancelAck
  <1> HIDE DEF c, l
  <1> DEFINE a == [att[f] EXCEPT !.cancel = c, !.lease = l]
  <1>4. a \in AttRec /\ a.started = att[f].started /\ a.state = att[f].state /\ a.effects = att[f].effects
    BY <1>1, <1>2 DEF AttRec
  <1> HIDE DEF a
  <1>5. Evolves(att[f], a) /\ JobMoves(f, job.state, a)
    BY <1>4 DEF Evolves, JobMoves, SettledRule
  <1>6. QED
    BY <1>1, <1>3, <1>4, <1>5, RecordKeeps DEF a

\* An event that consumes a binding belongs to a running attempt.
LEMMA ConsumeStep ==
    ASSUME TypeOK, NEW f \in Fence, Consume(f)
    PROVE  TypeOK' /\ Keeps
  <1> DEFINE a == [att[f] EXCEPT !.binding = "committed"]
             b == [a EXCEPT !.effects = 0]
             i == [a EXCEPT !.effects = 1]
             r == [a EXCEPT !.effects = 0, !.state = Recon, !.lease = "released"]
             j == [job EXCEPT !.state = Recon]
  <1>1. /\ "checkpoint" \in Kinds /\ "intent" \in Kinds /\ "outcome" \in Kinds
        /\ job \in JobRec /\ att[f] \in AttRec
        /\ att[f].state = "running" /\ job.state = "running" /\ f = job.fence
    BY DEF Kinds, BoundKinds, TypeOK, Consume, Consumable, Current
  <1>2. Record(f, "checkpoint", job, a) \/ Record(f, "intent", job, i) \/ Record(f, "outcome", job, b)
          \/ Record(f, "outcome", j, r)
    BY DEF Consume
  <1>3. j \in JobRec /\ j.fence = job.fence /\ j.state = Recon
    BY <1>1, JobField DEF Settled
  <1>4. a \in AttRec /\ a.started = att[f].started /\ a.state = "running"
    BY <1>1, CommitField
  <1>5. r = SetRow(b, Recon, "released")
    BY DEF SetRow
  <1>6. 0 \in 0..1 /\ 1 \in 0..1 /\ Recon \in NewState /\ "released" \in NewLease
    BY DEF NewState, NewLease, Settled
  <1> HIDE DEF a, j, r
  <1>7. /\ b \in AttRec /\ b.started = att[f].started /\ b.state = "running" /\ b.effects = 0
    BY <1>4, <1>6, EffectsField, Zenon
  <1>8. /\ i \in AttRec /\ i.started = att[f].started /\ i.state = "running"
    BY <1>4, <1>6, EffectsField, Zenon
  <1> HIDE DEF b, i
  <1>9. r \in AttRec /\ r.started = att[f].started /\ r.state = Recon
    BY <1>5, <1>6, <1>7, StateField, Zenon
  <1>10. ASSUME NEW x \in AttRec, x.started = att[f].started, x.state \in {"running", Recon},
                NEW s \in {"running", Recon}
         PROVE  Evolves(att[f], x) /\ JobMoves(f, s, x)
    BY <1>1, <1>10, MovesOn DEF Evolves, Settled, Recon
  <1>11. CASE Record(f, "checkpoint", job, a)
    <2>1. Evolves(att[f], a) /\ JobMoves(f, job.state, a)
      BY <1>1, <1>4, <1>10
    <2>2. QED
      BY <1>1, <1>4, <1>11, <2>1, RecordKeeps
  <1>12. CASE Record(f, "intent", job, i)
    <2>1. Evolves(att[f], i) /\ JobMoves(f, job.state, i)
      BY <1>1, <1>8, <1>10
    <2>2. QED
      BY <1>1, <1>8, <1>12, <2>1, RecordKeeps
  <1>13. CASE Record(f, "outcome", job, b)
    <2>1. Evolves(att[f], b) /\ JobMoves(f, job.state, b)
      BY <1>1, <1>7, <1>10
    <2>2. QED
      BY <1>1, <1>7, <1>13, <2>1, RecordKeeps
  <1>14. CASE Record(f, "outcome", j, r)
    <2>1. Evolves(att[f], r) /\ JobMoves(f, j.state, r)
      BY <1>3, <1>9, <1>10
    <2>2. QED
      BY <1>1, <1>3, <1>9, <1>14, <2>1, RecordKeeps
  <1>15. QED
    BY <1>2, <1>11, <1>12, <1>13, <1>14

\* The steps that write one attempt and nothing else of the store.
LEMMA AttemptStep ==
    ASSUME TypeOK, NEW f \in Fence, NEW a \in AttRec,
           att' = [att EXCEPT ![f] = a], job' = job,
           a.started = att[f].started, a.state = att[f].state, a.effects = att[f].effects,
           sess' \in [Fence -> SessRec], UNCHANGED <<sched, expired, deadline, scanned>>
    PROVE  TypeOK' /\ Keeps
  <1>1. RowStep(f, job, a)
    BY DEF RowStep, TypeOK, Evolves, JobMoves, SettledRule
  <1>2. QED
    BY <1>1, RowKeeps DEF TypeOK

\* Staging, resolving and refusing a binding change only the binding.
LEMMA BindingSteps ==
    ASSUME TypeOK, NEW f \in Fence,
           \/ ConsumeDrifted(f) \/ Resolve(f) \/ \E op \in BoundKinds : Stage(f, op)
    PROVE  TypeOK' /\ Keeps
  <1>1. att[f] \in AttRec /\ sess \in [Fence -> SessRec]
    BY DEF TypeOK
  <1>2. CASE ConsumeDrifted(f)
    <2>1. sess' \in [Fence -> SessRec]
      BY <1>2, GoType DEF ConsumeDrifted
    <2>2. att' = [att EXCEPT ![f] = Latched(att[f])]
      BY <1>2 DEF ConsumeDrifted
    <2>3. /\ Latched(att[f]) \in AttRec /\ Latched(att[f]).started = att[f].started
          /\ Latched(att[f]).state = att[f].state /\ Latched(att[f]).effects = att[f].effects
      BY <1>1, LatchedType, LatchedKeeps
    <2>4. QED
      BY <1>2, <2>1, <2>2, <2>3, AttemptStep DEF ConsumeDrifted
  <1>3. CASE Resolve(f)
    <2> DEFINE st == IF BindingCurrent(f) THEN "resolved" ELSE "latched"
    <2>1. st \in {"none", "latched"} \cup BindingOpen
      BY DEF BindingOpen
    <2>2. att' = [att EXCEPT ![f] = Bound(att[f], st)]
      BY <1>3 DEF Resolve
    <2> HIDE DEF st
    <2>3. /\ Bound(att[f], st) \in AttRec /\ Bound(att[f], st).started = att[f].started
          /\ Bound(att[f], st).state = att[f].state /\ Bound(att[f], st).effects = att[f].effects
      BY <1>1, <2>1, BoundType, LatchedKeeps
    <2>4. QED
      BY <1>1, <1>3, <2>2, <2>3, AttemptStep DEF Resolve
  <1>4. ASSUME NEW op \in BoundKinds, Stage(f, op)
        PROVE  TypeOK' /\ Keeps
    <2> DEFINE a == [att[f] EXCEPT !.binding = "staged", !.op = op]
    <2>1. att' = [att EXCEPT ![f] = a]
      BY <1>1, <1>4 DEF Stage, TypeOK
    <2>2. a \in AttRec /\ a.started = att[f].started /\ a.state = att[f].state /\ a.effects = att[f].effects
      BY <1>1 DEF AttRec, BindingOpen, BoundKinds
    <2> HIDE DEF a
    <2>3. QED
      BY <1>1, <1>4, <2>1, <2>2, AttemptStep DEF Stage
  <1>5. QED
    BY <1>2, <1>3, <1>4

\* An outcome that a cancellation overtakes closes its effect.
LEMMA OutcomeRacedStep ==
    ASSUME TypeOK, NEW f \in Fence, OutcomeRaced(f)
    PROVE  TypeOK' /\ Keeps
  <1> DEFINE J(s) == [job EXCEPT !.state = s]
             A(s, l) == [att[f] EXCEPT !.state = s, !.lease = l, !.cancel = "pending", !.effects = 0, !.binding = "committed"]
  <1>1. /\ job \in JobRec /\ att[f] \in AttRec /\ sess' \in [Fence -> SessRec]
        /\ job.state = "running" /\ f = job.fence
    BY GoType DEF TypeOK, OutcomeRaced, Consumable, Current
  <1>2. PICK s \in {"cancelling", Recon}, l \in {"cancelling", "released"} :
           job' = J(s) /\ att' = [att EXCEPT ![f] = A(s, l)]
    BY DEF OutcomeRaced, TypeOK
  <1> DEFINE j == J(s)
             a == A(s, l)
             a1 == SetRow(att[f], s, l)
             a2 == [a1 EXCEPT !.cancel = "pending"]
             a3 == [a2 EXCEPT !.effects = 0]
  <1>3. j \in JobRec /\ j.fence = job.fence /\ j.state = s
    BY <1>1, JobField DEF JobActive, Settled
  <1>4. a = [a3 EXCEPT !.binding = "committed"]
    BY DEF SetRow
  <1>5. /\ s \in NewState /\ l \in NewLease /\ 0 \in 0..1
        /\ "pending" \in {"none", "pending", "stacked", "sent", "acked"}
    BY DEF NewState, NewLease, JobActive, Settled, LeaseLive
  <1>6. job' = j /\ att' = [att EXCEPT ![f] = a]
    BY <1>2
  <1> HIDE DEF j, a, J, A
  <1>7. a1 \in AttRec /\ a1.started = att[f].started /\ a1.state = s
    BY <1>1, <1>5, StateField, Zenon
  <1> HIDE DEF a1
  <1>8. a2 \in AttRec /\ a2.started = att[f].started /\ a2.state = s
    BY <1>5, <1>7, CancelField, Zenon
  <1> HIDE DEF a2
  <1>9. a3 \in AttRec /\ a3.started = att[f].started /\ a3.state = s /\ a3.effects = 0
    BY <1>5, <1>8, EffectsField, Zenon
  <1> HIDE DEF a3
  <1>10. a \in AttRec /\ a.started = att[f].started /\ a.state = s /\ a.effects = 0
    BY <1>4, <1>9, CommitField, Zenon
  <1>11. s \notin {"offered", "running", "queued"} /\ "running" \notin Settled
    BY DEF Recon, Settled
  <1>12. Evolves(att[f], a) /\ JobMoves(f, s, a)
    BY <1>1, <1>10, <1>11, MovesOn DEF Evolves
  <1>13. RowStep(f, j, a)
    BY <1>3, <1>6, <1>10, <1>12 DEF RowStep
  <1>14. QED
    BY <1>1, <1>13, RowKeeps DEF TypeOK, OutcomeRaced

\* What writing the uncertain delivery changes of an attempt.
LEMMA UnsureField ==
    ASSUME NEW a \in AttRec, NEW u \in BOOLEAN
    PROVE  /\ [a EXCEPT !.unsure = u] \in AttRec
           /\ [a EXCEPT !.unsure = u].started = a.started
           /\ [a EXCEPT !.unsure = u].state = a.state
           /\ [a EXCEPT !.unsure = u].effects = a.effects
  BY DEF AttRec

\* A step of the session alone keeps types and rows.
LEMMA SameStep ==
    ASSUME TypeOK, UNCHANGED <<job, att, expired, deadline, scanned>>,
           sess' \in [Fence -> SessRec], sched' \in {"up", "stopping", "down", "starting"}
    PROVE  TypeOK' /\ Keeps
  BY SameKeeps DEF TypeOK

\* Ending the scheduler leaves it in one of its states.
LEMMA FatalType ==
    ASSUME TypeOK
    PROVE  /\ Fatal => sched' \in {"up", "stopping", "down", "starting"}
           /\ UNCHANGED sched => sched' \in {"up", "stopping", "down", "starting"}
  BY DEF TypeOK, Fatal

\* The steps of a session that leave the store alone.
LEMMA QuietSteps ==
    ASSUME TypeOK, NEW f \in Fence,
           \/ Launch(f) \/ Hello(f) \/ DeliveryRefused(f) \/ DeliveryFails(f)
           \/ Refused(f) \/ PollCancel(f) \/ GraceEnds(f) \/ RejectedEnds(f)
    PROVE  TypeOK' /\ Keeps
  <1>1. CASE Launch(f)
    BY <1>1, GoType, FatalType, SameStep DEF Launch
  <1>2. CASE Hello(f)
    BY <1>2, GoType, FatalType, SameStep DEF Hello
  <1>3. CASE DeliveryRefused(f)
    BY <1>3, GoType, FatalType, SameStep DEF DeliveryRefused
  <1>4. CASE DeliveryFails(f)
    BY <1>4, GoType, FatalType, SameStep DEF DeliveryFails
  <1>5. CASE Refused(f)
    BY <1>5, GoType, FatalType, SameStep DEF Refused
  <1>6. CASE PollCancel(f)
    BY <1>6, GoType, FatalType, SameStep DEF PollCancel
  <1>7. CASE GraceEnds(f)
    BY <1>7, GoType, FatalType, SameStep DEF GraceEnds
  <1>8. CASE RejectedEnds(f)
    BY <1>8, GoType, FatalType, SameStep DEF RejectedEnds
  <1>9. QED
    BY <1>1, <1>2, <1>3, <1>4, <1>5, <1>6, <1>7, <1>8

\* Starting a delivery marks it uncertain and nothing else.
LEMMA StartDeliveryStep ==
    ASSUME TypeOK, NEW f \in Fence, StartDelivery(f)
    PROVE  TypeOK' /\ Keeps
  <1> DEFINE u == att[f].unsure \/ sess[f].event # "terminal" \/ sess[f].out # "receipt"
             a == [att[f] EXCEPT !.unsure = u]
  <1>1. u \in BOOLEAN /\ att[f] \in AttRec
    BY DEF TypeOK
  <1>2. att' = [att EXCEPT ![f] = a]
    BY DEF StartDelivery, TypeOK
  <1>3. sess' \in [Fence -> SessRec]
    BY GoType DEF StartDelivery
  <1> HIDE DEF u
  <1>4. a \in AttRec /\ a.started = att[f].started /\ a.state = att[f].state /\ a.effects = att[f].effects
    BY <1>1, UnsureField, Zenon
  <1> HIDE DEF a
  <1>5. QED
    BY <1>2, <1>3, <1>4, AttemptStep DEF StartDelivery

\* Proving a delivery moves the binding and the cancellation only.
LEMMA DeliveredStep ==
    ASSUME TypeOK, NEW f \in Fence, Delivered(f)
    PROVE  TypeOK' /\ Keeps
  <1> DEFINE st == AckedBinding(att[f], sess[f].out)
             b == Bound(att[f], st)
             c == IF sess[f].out = "cancel" /\ b.cancel = "pending" THEN "sent" ELSE b.cancel
             u == [b EXCEPT !.unsure = FALSE]
             a == [u EXCEPT !.cancel = c]
  <1>1. att[f] \in AttRec /\ sess' \in [Fence -> SessRec]
    BY AfterType DEF TypeOK, Delivered
  <1>2. st \in {"none", "latched"} \cup BindingOpen
    BY <1>1 DEF AckedBinding, AttRec
  <1>3. att' = [att EXCEPT ![f] = a]
    BY DEF Delivered
  <1> HIDE DEF st
  <1>4. b \in AttRec /\ b.started = att[f].started /\ b.state = att[f].state /\ b.effects = att[f].effects
    BY <1>1, <1>2, BoundType, LatchedKeeps
  <1> HIDE DEF b
  <1>5. c \in {"none", "pending", "stacked", "sent", "acked"}
    BY <1>4 DEF AttRec
  <1>6. u \in AttRec /\ u.started = att[f].started /\ u.state = att[f].state /\ u.effects = att[f].effects
    <2>1. FALSE \in BOOLEAN
      OBVIOUS
    <2>2. QED
      BY <1>4, <2>1, UnsureField, Zenon
  <1> HIDE DEF c, u
  <1>7. a \in AttRec /\ a.started = att[f].started /\ a.state = att[f].state /\ a.effects = att[f].effects
    BY <1>5, <1>6, CancelField, Zenon
  <1> HIDE DEF a
  <1>8. QED
    BY <1>1, <1>3, <1>7, AttemptStep DEF Delivered

----------------------------------------------------------------------------
(* Cancellation, ends, recovery, service *)

\* A cancellation of the job by way of attempt f.
LEMMA CancelKeeps ==
    ASSUME TypeOK, NEW f \in Fence, Cancellable(f),
           att' = WithCancel(f), job' = [job EXCEPT !.state = "cancelling"]
    PROVE  Keeps /\ job' \in JobRec /\ att' \in [Fence -> AttRec]
  <1> DEFINE j == [job EXCEPT !.state = "cancelling"]
             c == IF att[f].cancel = "none" THEN "pending" ELSE "stacked"
             r == SetRow(att[f], "cancelling", "cancelling")
             a == [r EXCEPT !.cancel = c]
  <1>1. att[f] \in AttRec /\ job \in JobRec
    BY DEF TypeOK
  <1>2. att' = [att EXCEPT ![f] = a]
    BY DEF WithCancel, SetRow, TypeOK
  <1>3. "cancelling" \in NewState /\ "cancelling" \in NewLease /\ c \in {"none", "pending", "stacked", "sent", "acked"}
    BY DEF NewState, NewLease, JobActive, LeaseLive
  <1>4. j \in JobRec /\ j.fence = job.fence /\ j.state = "cancelling"
    BY <1>1, JobField DEF JobActive
  <1> HIDE DEF c
  <1>5. r \in AttRec /\ r.started = att[f].started /\ r.state = "cancelling" /\ r.effects = att[f].effects
    BY <1>1, <1>3, StateField, Zenon
  <1> HIDE DEF r
  <1>6. a \in AttRec /\ a.started = att[f].started /\ a.state = "cancelling" /\ a.effects = att[f].effects
    BY <1>3, <1>5, CancelField, Zenon
  <1> HIDE DEF a
  <1>7. job' = j
    OBVIOUS
  <1> HIDE DEF j
  <1>8. f = job.fence /\ job.state \notin Settled
    BY DEF Cancellable, Current, JobActive, Settled, Recon
  <1>9. Evolves(att[f], a) /\ JobMoves(f, "cancelling", a)
    BY <1>6, <1>8, MovesOn DEF Evolves
  <1>10. RowStep(f, j, a)
    BY <1>2, <1>4, <1>6, <1>7, <1>9 DEF RowStep
  <1>11. QED
    BY <1>10, RowKeeps

\* The session's own cancellation, granted or refused.
LEMMA CancelOwnStep ==
    ASSUME TypeOK, NEW f \in Fence, CancelOwn(f)
    PROVE  TypeOK' /\ Keeps
  <1>1. CASE Cancellable(f)
    <2>1. att' = WithCancel(f) /\ job' = [job EXCEPT !.state = "cancelling"]
      BY <1>1 DEF CancelOwn
    <2>2. sess' \in [Fence -> SessRec]
      BY <1>1, GoType DEF CancelOwn
    <2>3. QED
      BY <1>1, <2>1, <2>2, CancelKeeps DEF CancelOwn, TypeOK
  <1>2. CASE ~Cancellable(f)
    <2>1. Kill(f) /\ UNCHANGED <<job, att, sched, expired, deadline, scanned>>
      BY <1>2 DEF CancelOwn
    <2>2. QED
      BY <2>1, GoType, FatalType, SameStep
  <1>3. QED
    BY <1>1, <1>2

\* The lease timer and the end of the scheduler.
LEMMA CancelSteps ==
    ASSUME TypeOK, NEW f \in Fence, LeaseTimer(f) \/ Shutdown(f)
    PROVE  TypeOK' /\ Keeps
  <1>1. CASE CancelOwn(f)
    BY <1>1, CancelOwnStep
  <1>2. CASE Kill(f) /\ UNCHANGED <<job, att, sched, expired, deadline, scanned>>
    BY <1>2, GoType, FatalType, SameStep
  <1>3. QED
    BY <1>1, <1>2 DEF LeaseTimer, Shutdown

\* An operator's cancellation.
LEMMA RequestCancelStep ==
    ASSUME TypeOK, RequestCancel
    PROVE  TypeOK' /\ Keeps
  <1>1. job.fence \in Fence /\ Cancellable(job.fence) /\ att' = WithCancel(job.fence) /\ job' = [job EXCEPT !.state = "cancelling"]
    BY DEF RequestCancel
  <1>2. QED
    BY <1>1, CancelKeeps DEF RequestCancel, TypeOK

\* A recorded process exit: a stale one writes nothing.
LEMMA RecordExitStep ==
    ASSUME TypeOK, NEW f \in Fence, RecordExit(f)
    PROVE  TypeOK' /\ Keeps
  <1>1. sess' \in [Fence -> SessRec]
    BY GoType DEF RecordExit
  <1>2. CASE ExitStale(f)
    BY <1>1, <1>2, FatalType, SameStep DEF RecordExit
  <1>3. CASE ~ExitStale(f)
    <2>1. RowStep(f, ProcessExit(f).job, ProcessExit(f).att)
      BY <1>3, ExitKeeps DEF RecordExit
    <2>2. Keeps /\ job' \in JobRec /\ att' \in [Fence -> AttRec]
      BY <2>1, RowKeeps
    <2>3. QED
      BY <1>1, <1>3, <2>2 DEF RecordExit, TypeOK
  <1>4. QED
    BY <1>2, <1>3

\* A termination that is not proved leaves the job for reconciliation.
LEMMA KillUncertainStep ==
    ASSUME TypeOK, NEW f \in Fence, KillUncertain(f)
    PROVE  TypeOK' /\ Keeps
  <1>1. sess' \in [Fence -> SessRec]
    BY GoType DEF KillUncertain
  <1>2. CASE Current(f)
    <2> DEFINE j == [job EXCEPT !.state = Recon, !.fails = MaxDispatchFailures, !.dispatch = "dead"]
               a == SetRow(att[f], Recon, "cancelling")
    <2>1. att[f] \in AttRec /\ job \in JobRec
      BY DEF TypeOK
    <2>2. job' = j /\ att' = [att EXCEPT ![f] = a] /\ UNCHANGED <<sched, expired, deadline, scanned>>
      BY <1>2 DEF KillUncertain, SetRow, TypeOK
    <2>3. MaxDispatchFailures \in 0..MaxDispatchFailures /\ Recon \in Settled
      BY RunnerAssumption DEF Settled
    <2>4. j \in JobRec /\ j.fence = job.fence /\ j.state = Recon
      BY <2>1, <2>3 DEF JobRec
    <2>5. Recon \in NewState /\ "cancelling" \in NewLease
      BY DEF NewState, NewLease, Settled, LeaseLive
    <2>6. a \in AttRec /\ a.started = att[f].started /\ a.state = Recon /\ a.effects = att[f].effects
      BY <2>1, <2>5, StateField, Zenon
    <2>7. Recon \notin {"offered", "running", "queued", "terminal"} /\ f = job.fence
      BY <1>2 DEF Recon, Current
    <2> HIDE DEF j, a
    <2>8. Evolves(att[f], a) /\ JobMoves(f, Recon, a)
      BY <2>3, <2>6, <2>7 DEF Evolves, JobMoves, SettledRule
    <2>9. RowStep(f, j, a)
      BY <2>2, <2>4, <2>6, <2>8 DEF RowStep
    <2>10. QED
      BY <1>1, <2>2, <2>9, RowKeeps DEF TypeOK
  <1>3. CASE ~Current(f)
    BY <1>1, <1>3, FatalType, SameStep DEF KillUncertain
  <1>4. QED
    BY <1>2, <1>3

\* Every way in which a session is brought to an end.
LEMMA EndingStep ==
    ASSUME TypeOK, NEW f \in Fence, Ending(f)
    PROVE  TypeOK' /\ Keeps
  <1>1. CASE RecordExit(f)
    BY <1>1, RecordExitStep
  <1>2. CASE Return(f) /\ UNCHANGED <<job, att, sched, expired, deadline, scanned>>
    BY <1>2, GoType, FatalType, SameStep
  <1>3. CASE Killed(f) \/ ProcessDone(f)
    BY <1>1, <1>2, <1>3 DEF Killed, ProcessDone
  <1>4. QED
    BY <1>3, CancelSteps, QuietSteps, KillUncertainStep DEF Ending

\* The recovery of an expired lease requeues only an unstarted attempt of a
\* job that is not settled.
LEMMA RecoverExpiredStep ==
    ASSUME TypeOK, NEW f \in Fence, RecoverExpired(f)
    PROVE  TypeOK' /\ Keeps
  <1> DEFINE J(s) == [job EXCEPT !.state = s]
             To(js, a) == job' = [job EXCEPT !.state = js] /\ att' = [att EXCEPT ![f] = a] /\ UNCHANGED sched
  <1>0. UNCHANGED <<sess, expired, deadline>> /\ scanned' \subseteq Fence
    BY DEF TypeOK, RecoverExpired
  <1>a. CASE ~Current(f)
    <2>1. UNCHANGED <<job, att, sched>>
      BY <1>a DEF RecoverExpired
    <2>2. QED
      BY <1>0, <2>1, SameKeeps DEF TypeOK
  <1>b. SUFFICES ASSUME Current(f) PROVE TypeOK' /\ Keeps
    BY <1>a
  <1>1. att[f] \in AttRec /\ job \in JobRec /\ f = job.fence
    BY <1>b DEF TypeOK, Current
  <1>2. \/ To(Recon, Closed(att[f], Recon))
        \/ Fatal /\ UNCHANGED <<job, att>>
        \/ ~att[f].started /\ job.state \notin Settled /\ To("queued", SetRow(att[f], "expired", "expired"))
        \/ job.state \notin Settled /\ To("cancelling", SetRow(att[f], "cancelling", "cancelling"))
    BY <1>b DEF RecoverExpired, SetRow
  <1>3. ASSUME NEW js \in {"queued", "cancelling", Recon}, NEW a \in AttRec,
               To(js, a), a.started = att[f].started, a.effects = att[f].effects,
               a.state \in {Recon, "expired", "cancelling"},
               js = Recon \/ job.state \notin Settled,
               js = "queued" => ~att[f].started
        PROVE  TypeOK' /\ Keeps
    <2>1. J(js) \in JobRec /\ J(js).fence = job.fence /\ J(js).state = js
      BY <1>1, JobField DEF JobActive, Settled
    <2>2. job' = J(js) /\ att' = [att EXCEPT ![f] = a] /\ UNCHANGED sched
      BY <1>3
    <2> HIDE DEF J, To
    <2>3. a.state \notin {"offered", "running"} /\ js # "terminal"
      BY <1>3 DEF Recon
    <2>4. SettledRule(job.state, js)
      BY <1>3 DEF SettledRule, Settled
    <2>5. Evolves(att[f], a) /\ JobMoves(f, js, a)
      BY <1>1, <1>3, <2>3, <2>4 DEF Evolves, JobMoves
    <2>6. RowStep(f, J(js), a)
      BY <2>1, <2>2, <2>5 DEF RowStep
    <2>7. QED
      BY <1>0, <2>2, <2>6, RowKeeps DEF TypeOK
  <1> DEFINE c == Closed(att[f], Recon)
             e == SetRow(att[f], "expired", "expired")
             k == SetRow(att[f], "cancelling", "cancelling")
  <1>4. c \in AttRec /\ c.started = att[f].started /\ c.state = Recon /\ c.effects = att[f].effects
    BY <1>1, ClosedType, ClosedKeeps
  <1>5. "expired" \in NewState /\ "expired" \in NewLease /\ "cancelling" \in NewState /\ "cancelling" \in NewLease
    BY DEF NewState, NewLease, JobActive, LeaseLive
  <1>6. e \in AttRec /\ e.started = att[f].started /\ e.state = "expired" /\ e.effects = att[f].effects
    BY <1>1, <1>5, StateField
  <1>7. k \in AttRec /\ k.started = att[f].started /\ k.state = "cancelling" /\ k.effects = att[f].effects
    BY <1>1, <1>5, StateField
  <1> HIDE DEF To, c, e, k
  <1>8. CASE To(Recon, c)
    BY <1>3, <1>4, <1>8 DEF Recon
  <1>9. CASE Fatal /\ UNCHANGED <<job, att>>
    <2>1. sched' \in {"up", "stopping", "down", "starting"}
      BY <1>9 DEF Fatal, TypeOK
    <2>2. QED
      BY <1>0, <1>9, <2>1, SameKeeps DEF TypeOK
  <1>10. CASE ~att[f].started /\ job.state \notin Settled /\ To("queued", e)
    BY <1>3, <1>6, <1>10
  <1>11. CASE job.state \notin Settled /\ To("cancelling", k)
    BY <1>3, <1>7, <1>11
  <1>12. QED
    BY <1>2, <1>8, <1>9, <1>10, <1>11 DEF c, e, k

\* The life of the service and the passing of time.
LEMMA ServiceSteps ==
    ASSUME TypeOK,
           \/ BackoffElapses \/ DeadlinePasses \/ ScanExpired \/ Stop \/ Stopped
           \/ Crash \/ RecoverOrphans \/ LatchBindings
           \/ \E f \in Fence : LeaseExpires(f)
    PROVE  TypeOK' /\ Keeps
  <1>1. CASE BackoffElapses
    <2>1. job' \in JobRec /\ job'.fence = job.fence /\ job'.state = job.state
      BY <1>1 DEF BackoffElapses, TypeOK, JobRec
    <2>2. QED
      BY <1>1, <2>1 DEF BackoffElapses, TypeOK, Keeps, Evolves, SettledRule
  <1>2. CASE DeadlinePasses
    BY <1>2, SameKeeps DEF DeadlinePasses, TypeOK
  <1>3. CASE Stop \/ ScanExpired
    BY <1>3, SameKeeps DEF Stop, ScanExpired, TypeOK
  <1>4. CASE Stopped
    BY <1>4, SameKeeps DEF Stopped, TypeOK
  <1>5. CASE Crash
    <2>1. \A f \in Fence : (IF Running(f) THEN Ended ELSE sess[f]) \in SessRec
      BY SessType DEF TypeOK
    <2>2. sess' \in [Fence -> SessRec]
      BY <1>5, <2>1 DEF Crash
    <2>3. QED
      BY <1>5, <2>2, SameKeeps DEF Crash, TypeOK
  <1>6. CASE RecoverOrphans
    <2>1. CASE job.fence \in Fence /\ att[job.fence].state \in JobActive
      <3> DEFINE f == job.fence
      <3>1. f \in Fence /\ ~ExitStale(f)
        BY <2>1 DEF ExitStale, Current
      <3>2. job' = ProcessExit(f).job /\ att' = [att EXCEPT ![f] = ProcessExit(f).att]
        BY <1>6, <2>1 DEF RecoverOrphans
      <3>3. RowStep(f, ProcessExit(f).job, ProcessExit(f).att)
        BY <3>1, <3>2, ExitKeeps
      <3>4. Keeps /\ job' \in JobRec /\ att' \in [Fence -> AttRec]
        BY <3>1, <3>3, RowKeeps
      <3>5. QED
        BY <1>6, <3>4 DEF RecoverOrphans, TypeOK
    <2>2. CASE ~(job.fence \in Fence /\ att[job.fence].state \in JobActive)
      BY <1>6, <2>2, SameKeeps DEF RecoverOrphans, TypeOK
    <2>3. QED
      BY <2>1, <2>2
  <1>7. CASE LatchBindings
    <2>1. \A f \in Fence : /\ Latched(att[f]) \in AttRec
                            /\ Latched(att[f]).started = att[f].started
                            /\ Latched(att[f]).state = att[f].state
                            /\ Latched(att[f]).effects = att[f].effects
      BY LatchedType, LatchedKeeps DEF TypeOK
    <2>2. att' = [f \in Fence |-> Latched(att[f])] /\ job' = job
      BY <1>7 DEF LatchBindings
    <2>3. att' \in [Fence -> AttRec] /\ Keeps
      BY <2>1, <2>2 DEF Keeps, Evolves, SettledRule
    <2>4. QED
      BY <1>7, <2>3 DEF LatchBindings, TypeOK
  <1>8. CASE \E f \in Fence : LeaseExpires(f)
    BY <1>8, SameKeeps DEF LeaseExpires, TypeOK
  <1>9. QED
    BY <1>1, <1>2, <1>3, <1>4, <1>5, <1>6, <1>7, <1>8

----------------------------------------------------------------------------
(* The inductive invariant *)

\* The attempt whose execution may have begun is the current one, it is no longer
\* on offer, and its job is not in the queue.
Ran ==
    \A f \in Fence : att[f].started => f = job.fence /\ job.state # "queued" /\ att[f].state # "offered"

\* Only an attempt that was accepted runs or has effects.
Begun ==
    \A f \in Fence : /\ att[f].state = "running" => att[f].started
                     /\ att[f].effects # 0 => att[f].started

\* While the current attempt is on offer, so is the job.
Offered ==
    \A f \in Fence : f = job.fence /\ att[f].state = "offered" => job.state = "offered"

\* The inductive invariant.
IInv ==
    /\ TypeOK
    /\ Ran
    /\ Begun
    /\ Offered
    /\ EffectsSettled

\* What a step does to a settled job.
Holds == SettledRule(job.state, job'.state)

\* The invariant is preserved by every step that satisfies Keeps.
LEMMA KeepsInv ==
    ASSUME IInv, TypeOK', Keeps
    PROVE  IInv' /\ Holds
  <1>1. Ran'
    BY DEF IInv, Ran, Keeps, Evolves
  <1>2. Begun'
    BY DEF IInv, Begun, Keeps, Evolves
  <1>3. Offered'
    BY DEF IInv, Offered, Keeps, Evolves
  <1>4. EffectsSettled'
    <2>1. ASSUME job'.state = "terminal", NEW g \in Fence
          PROVE  att'[g].effects = 0
      <3>1. CASE g = job.fence
        BY <2>1, <3>1 DEF Keeps, IInv, EffectsSettled
      <3>2. CASE g # job.fence
        BY <1>1, <1>2, <3>2 DEF Ran, Begun, Keeps
      <3>3. QED
        BY <3>1, <3>2
    <2>2. QED
      BY <2>1 DEF EffectsSettled
  <1>5. QED
    BY <1>1, <1>2, <1>3, <1>4 DEF IInv, Holds, Keeps

\* A claim happens only while the job is queued, so no attempt has been started.
LEMMA ClaimStep ==
    ASSUME IInv, Claim
    PROVE  IInv' /\ Holds
  <1> DEFINE f == job.fence + 1
             j == [job EXCEPT !.state = "offered", !.fence = f]
             a == [NoAttempt EXCEPT !.state = "offered", !.lease = "offered"]
  <1>0. TypeOK /\ Ran /\ Begun
    BY DEF IInv
  <1>1. job \in JobRec /\ job.fence \in 0..MaxAttempts /\ job.fence < MaxAttempts /\ MaxAttempts \in Nat
    BY <1>0, RunnerAssumption DEF TypeOK, JobRec, Claim
  <1>2. f \in Fence /\ f \in 0..MaxAttempts
    BY <1>1 DEF Fence
  <1>3. job' = j /\ att' = [att EXCEPT ![f] = a] /\ sess' \in [Fence -> SessRec]
    BY <1>0, <1>2, GoType DEF Claim
  <1>4. a \in AttRec /\ ~a.started /\ a.effects = 0 /\ a.state = "offered"
    BY RowType DEF NoAttempt
  <1> HIDE DEF f, a
  <1>5. j \in JobRec /\ j.state = "offered" /\ j.fence = f
    BY <1>1, <1>2 DEF JobRec, JobActive
  <1> HIDE DEF j
  <1>6. \A g \in Fence : ~att[g].started /\ att[g].state # "running" /\ att[g].effects = 0
    BY <1>0 DEF Ran, Begun, Claim
  <1>7. \A g \in Fence : ~att'[g].started /\ att'[g].state # "running" /\ att'[g].effects = 0
    BY <1>0, <1>3, <1>4, <1>6 DEF TypeOK
  <1>8. att' \in [Fence -> AttRec]
    BY <1>0, <1>2, <1>3, <1>4 DEF TypeOK
  <1>9. TypeOK'
    BY <1>0, <1>3, <1>5, <1>8 DEF Claim, TypeOK
  <1>10. Ran' /\ Begun' /\ EffectsSettled'
    BY <1>7 DEF Ran, Begun, EffectsSettled
  <1>11. Offered'
    BY <1>3, <1>5 DEF Offered
  <1>12. Holds
    BY DEF Holds, SettledRule, Claim, Settled, Recon
  <1>13. QED
    BY <1>9, <1>10, <1>11, <1>12 DEF IInv

\* A lease_accept concerns the current attempt, and any other that was started
\* would be the current one as well.
LEMMA AcceptStep ==
    ASSUME IInv, NEW f \in Fence, Accept(f)
    PROVE  IInv' /\ Holds
  <1> DEFINE j == [job EXCEPT !.state = "running"]
             a == [att[f] EXCEPT !.state = "running", !.lease = "active", !.started = TRUE]
  <1>0. TypeOK /\ Ran /\ Begun /\ Offered
    BY DEF IInv
  <1>1. job \in JobRec /\ att[f] \in AttRec /\ "accept" \in Kinds
    BY <1>0 DEF TypeOK, Kinds
  <1>2. j \in JobRec /\ j.fence = job.fence /\ j.state = "running"
    BY <1>1, JobField DEF JobActive
  <1>3. a \in AttRec /\ a.state = "running" /\ a.started
    BY <1>1 DEF AttRec, JobActive, LeaseLive
  <1>4. Record(f, "accept", j, a)
    BY DEF Accept
  <1> HIDE DEF j, a
  <1>5. TypeOK'
    BY <1>0, <1>1, <1>2, <1>3, <1>4, RecordType
  <1>6. job' = j /\ att' = [att EXCEPT ![f] = a] /\ f = job.fence
    BY <1>4 DEF Record, Current
  <1>7. ASSUME NEW g \in Fence, g # f
        PROVE  att'[g] = att[g] /\ ~att'[g].started
    <2>1. att'[g] = att[g]
      BY <1>0, <1>6, <1>7 DEF TypeOK
    <2>2. QED
      BY <1>0, <1>6, <1>7, <2>1 DEF Ran
  <1>8. att'[f] = a
    BY <1>0, <1>6 DEF TypeOK
  <1>9. Ran'
    BY <1>2, <1>3, <1>6, <1>7, <1>8 DEF Ran
  <1>10. Begun'
    BY <1>0, <1>3, <1>7, <1>8 DEF Begun
  <1>11. Offered' /\ EffectsSettled'
    BY <1>2, <1>3, <1>6, <1>8 DEF Offered, EffectsSettled
  <1>12. Holds
    BY <1>0, <1>6 DEF Holds, SettledRule, Settled, Recon, Offered, Accept
  <1>13. QED
    BY <1>5, <1>9, <1>10, <1>11, <1>12 DEF IInv

\* Every step preserves the invariant and what is settled.
LEMMA StepKeeps ==
    ASSUME IInv, Next
    PROVE  IInv' /\ Holds
  <1>1. TypeOK /\ Ran /\ Offered
    BY DEF IInv
  <1>2. CASE TypeOK' /\ Keeps
    BY <1>2, KeepsInv
  <1>3. CASE Service
    <2>1. CASE Claim
      BY <2>1, ClaimStep
    <2>2. CASE RequestCancel
      BY <1>1, <1>2, <2>2, RequestCancelStep
    <2>3. QED
      BY <1>1, <1>2, <1>3, <2>1, <2>2, ServiceSteps DEF Service
  <1>4. ASSUME NEW f \in Fence, Session(f)
        PROVE  IInv' /\ Holds
    <2>1. CASE Accept(f)
      BY <2>1, AcceptStep
    <2>2. CASE Reject(f)
      <3>1. /\ att[f].started => att[f].state # "offered"
            /\ f = job.fence /\ att[f].state = "offered" => job.state = "offered"
        BY <1>1 DEF Ran, Offered
      <3>2. QED
        BY <1>1, <1>2, <2>2, <3>1, RejectStep
    <2>3. CASE Launch(f) \/ Hello(f) \/ DeliveryRefused(f) \/ DeliveryFails(f) \/ Refused(f) \/ PollCancel(f)
      BY <1>1, <1>2, <2>3, QuietSteps
    <2>4. CASE StartDelivery(f) \/ Delivered(f)
      BY <1>1, <1>2, <2>4, StartDeliveryStep, DeliveredStep
    <2>5. CASE Heartbeat(f) \/ CancelAck(f) \/ Terminal(f)
      BY <1>1, <1>2, <2>5, HeartbeatStep, CancelAckStep, TerminalStep
    <2>6. CASE Consume(f) \/ OutcomeRaced(f)
      BY <1>1, <1>2, <2>6, ConsumeStep, OutcomeRacedStep
    <2>7. CASE ConsumeDrifted(f) \/ Resolve(f) \/ \E op \in BoundKinds : Stage(f, op)
      BY <1>1, <1>2, <2>7, BindingSteps
    <2>8. QED
      BY <1>4, <2>1, <2>2, <2>3, <2>4, <2>5, <2>6, <2>7 DEF Session
  <1>5. ASSUME NEW f \in Fence, Ending(f)
        PROVE  IInv' /\ Holds
    BY <1>1, <1>2, <1>5, EndingStep
  <1>6. ASSUME NEW f \in Fence, LeaseExpires(f)
        PROVE  IInv' /\ Holds
    BY <1>1, <1>2, <1>6, ServiceSteps
  <1>7. ASSUME NEW f \in Fence, RecoverExpired(f)
        PROVE  IInv' /\ Holds
    BY <1>1, <1>2, <1>7, RecoverExpiredStep
  <1>8. QED
    BY <1>3, <1>4, <1>5, <1>6, <1>7 DEF Next

\* The invariant holds before the first claim.
LEMMA InitHolds ==
    ASSUME Init
    PROVE  IInv
  <1>1. job \in JobRec
    BY RunnerAssumption DEF Init, JobRec
  <1>2. att \in [Fence -> AttRec] /\ \A f \in Fence : ~att[f].started /\ att[f].state = "none" /\ att[f].effects = 0
    BY RowType DEF Init, NoAttempt
  <1>3. sess \in [Fence -> SessRec]
    BY SessType DEF Init
  <1>4. QED
    BY <1>1, <1>2, <1>3 DEF Init, IInv, TypeOK, Ran, Begun, Offered, EffectsSettled

\* Nothing changes in a stuttering step.
LEMMA StutterKeeps ==
    ASSUME IInv, UNCHANGED vars
    PROVE  IInv'
  BY DEF IInv, TypeOK, Ran, Begun, Offered, EffectsSettled, vars

\* The invariant holds in every reachable state of the runner.
THEOREM Inductive == Spec => []IInv
  <1>1. Init => IInv
    BY InitHolds
  <1>2. IInv /\ [Next]_vars => IInv'
    BY StepKeeps, StutterKeeps
  <1>3. QED
    BY <1>1, <1>2, PTL DEF Spec

\* Every row, session and flag of the runner keeps its type.
THEOREM TypeCorrect == Spec => []TypeOK
  <1>1. IInv => TypeOK
    BY DEF IInv
  <1>2. QED
    BY <1>1, Inductive, PTL

\* An attempt whose lease_accept is durable is the last one ever claimed, however
\* its process, its session or the service end (claim.go, process.go, event.go).
THEOREM StartedIsLast == Spec => []NeverReexecuted
  <1>1. IInv => NeverReexecuted
    BY DEF IInv, Ran, NeverReexecuted, Current
  <1>2. QED
    BY <1>1, Inductive, PTL

\* Whoever ends a job, it is terminal only when no attempt has an open effect
\* (the checks of the terminal event and of RecordProcessExit).
THEOREM NoOpenEffect == Spec => []EffectsSettled
  <1>1. IInv => EffectsSettled
    BY DEF IInv
  <1>2. QED
    BY <1>1, Inductive, PTL

\* No worker event, exit, cancellation or recovery takes a job out of terminal or
\* reconciliation_required, and none takes it from the latter to the former.
THEOREM SettledIsFinal == Spec => SettledStays
  <1>1. IInv /\ [Next]_vars =>
           [/\ job.state \in Settled => job'.state \in Settled
            /\ job.state = Recon => job'.state = Recon]_vars
    BY StepKeeps DEF Holds, SettledRule
  <1>2. QED
    BY <1>1, Inductive, PTL DEF Spec, SettledStays

----------------------------------------------------------------------------
(* Who drives an attempt *)

\* An attempt whose row says that somebody is at work on it.
ActiveRow(a) == a.state \in JobActive

\* The job is active exactly when its current attempt is, and no other attempt is.
OneActive == \A f \in Fence : ActiveRow(att[f]) <=> (f = job.fence /\ job.state \in JobActive)

\* A scheduler that runs has a session for an active attempt; one that has just
\* recovered its orphans has none; no session outlives the scheduler.
Driven ==
    /\ sched = "up" => \A f \in Fence : ActiveRow(att[f]) => Running(f)
    /\ sched = "starting" => \A f \in Fence : ~ActiveRow(att[f])
    /\ sched \in {"down", "starting"} => \A f \in Fence : ~Running(f)

\* The session knows that the attempt has reported its end.
Told(s) == s.terminalReceived \/ s.event \in {"terminal", "reject"} \/ s.pc = "rejected"

\* Such an attempt is on record as ended: the event was recorded before its receipt.
Reported == \A f \in Fence : Told(sess[f]) => ~ActiveRow(att[f])

\* A fencing token that was not given out has no session.
Ahead == \A f \in Fence : f > job.fence => sess[f] = NoSession

\* The current lease of an unsettled job is live only while the attempt is active.
Leased ==
    \A f \in Fence : f = job.fence /\ att[f].lease \in LeaseLive /\ job.state \notin Settled
                        => ActiveRow(att[f])

\* The inductive invariant behind NoOrphan.
OInv == OneActive /\ Driven /\ Reported /\ Ahead /\ Leased

\* What a step that writes attempt f, its session and the job may write.
Moves(f, j, a, s) ==
    /\ j.fence = job.fence
    /\ \/ j.state = job.state /\ (ActiveRow(a) <=> ActiveRow(att[f]))
       \/ /\ f = job.fence
          /\ ActiveRow(a) <=> j.state \in JobActive
          /\ ActiveRow(a) => ActiveRow(att[f])
    /\ Told(s) => ~ActiveRow(a)
    /\ ActiveRow(a) /\ sched' = "up" => s.pc \notin {"none", "done"}
    /\ f = job.fence /\ a.lease \in LeaseLive /\ j.state \notin Settled => ActiveRow(a)

\* The scheduler goes on, or a fatal error stops it.
GoesOn == sched' = sched \/ (sched = "up" /\ sched' = "stopping")

\* Such a step of a running session, or of anybody who leaves the session alone,
\* preserves the invariant.
LEMMA MoveInv ==
    ASSUME TypeOK, OInv, NEW f \in Fence, NEW j, NEW a, NEW s,
           job' = j, att' = [att EXCEPT ![f] = a], sess' = [sess EXCEPT ![f] = s],
           Running(f) \/ s = sess[f], GoesOn, Moves(f, j, a, s)
    PROVE  OInv'
  <1>1. /\ att'[f] = a /\ \A g \in Fence : g # f => att'[g] = att[g]
        /\ sess'[f] = s /\ \A g \in Fence : g # f => sess'[g] = sess[g]
    BY DEF TypeOK
  <1>2. job'.fence = job.fence /\ job' = j
    BY DEF Moves
  <1>3. OneActive /\ Driven /\ Reported /\ Ahead /\ Leased
    BY DEF OInv
  <1>4. ActiveRow(a) => ActiveRow(att[f])
    BY DEF Moves
  <1>5. OneActive'
    <2>1. CASE j.state = job.state /\ (ActiveRow(a) <=> ActiveRow(att[f]))
      BY <1>1, <1>2, <1>3, <2>1 DEF OneActive
    <2>2. CASE f = job.fence /\ (ActiveRow(a) <=> j.state \in JobActive)
      BY <1>1, <1>2, <1>3, <2>2 DEF OneActive
    <2>3. QED
      BY <2>1, <2>2 DEF Moves
  <1>6. \A g \in Fence : g # f => (Running(g)' <=> Running(g))
    BY <1>1 DEF Running
  <1>7. Driven'
    <2>1. ASSUME sched' = "up", NEW g \in Fence, ActiveRow(att'[g]) PROVE Running(g)'
      <3>1. CASE g = f
        BY <1>1, <2>1, <3>1 DEF Moves, Running
      <3>2. CASE g # f
        BY <1>1, <1>3, <1>6, <2>1, <3>2 DEF Driven, GoesOn
      <3>3. QED
        BY <3>1, <3>2
    <2>2. ASSUME sched' = "starting", NEW g \in Fence PROVE ~ActiveRow(att'[g])
      <3>1. sched = "starting"
        BY <2>2 DEF GoesOn
      <3>2. QED
        BY <1>1, <1>3, <1>4, <3>1 DEF Driven
    <2>3. ASSUME sched' \in {"down", "starting"}, NEW g \in Fence PROVE ~Running(g)'
      <3>1. \A h \in Fence : ~Running(h)
        BY <1>3, <2>3 DEF Driven, GoesOn
      <3>2. s = sess[f]
        BY <3>1
      <3>3. QED
        BY <1>1, <1>6, <3>1, <3>2 DEF Running
    <2>4. QED
      BY <2>1, <2>2, <2>3 DEF Driven
  <1>8. Reported'
    BY <1>1, <1>3 DEF Reported, Moves
  <1>9. Ahead'
    <2>1. f > job.fence => s = NoSession
      BY <1>3 DEF Ahead, Running, NoSession
    <2>2. QED
      BY <1>1, <1>2, <1>3, <2>1 DEF Ahead
  <1>10. Leased'
    <2>1. ASSUME NEW g \in Fence, g = job.fence, att'[g].lease \in LeaseLive, job'.state \notin Settled
          PROVE  ActiveRow(att'[g])
      <3>1. CASE g = f
        BY <1>1, <2>1, <3>1 DEF Moves
      <3>2. CASE g # f
        <4>1. j.state = job.state
          BY <2>1, <3>2 DEF Moves
        <4>2. QED
          BY <1>1, <1>2, <1>3, <2>1, <3>2, <4>1 DEF Leased
      <3>3. QED
        BY <3>1, <3>2
    <2>2. QED
      BY <1>2, <2>1 DEF Leased
  <1>11. QED
    BY <1>5, <1>7, <1>8, <1>9, <1>10 DEF OInv

\* A step that leaves the states and leases of the rows, and every session, alone.
LEMMA RowsInv ==
    ASSUME OInv, sess' = sess, sched' = sched, job'.state = job.state, job'.fence = job.fence,
           \A g \in Fence : att'[g].state = att[g].state /\ att'[g].lease = att[g].lease
    PROVE  OInv'
  <1>1. \A g \in Fence : ActiveRow(att'[g]) <=> ActiveRow(att[g])
    BY DEF ActiveRow
  <1>2. \A g \in Fence : Running(g)' <=> Running(g)
    BY DEF Running
  <1>3. OneActive' /\ Leased'
    BY <1>1 DEF OInv, OneActive, Leased
  <1>4. Driven' /\ Reported' /\ Ahead'
    BY <1>1, <1>2 DEF OInv, Driven, Reported, Ahead
  <1>5. QED
    BY <1>3, <1>4 DEF OInv

\* A session that is being terminated, or has returned, knows of no end.
LEMMA UntoldSessions == ~Told(Killing) /\ ~Told(Ended) /\ ~Told(NoSession) /\ Killing.pc = "killing"
  <1>1. ~Told(NoSession)
    BY DEF Told, NoSession
  <1>2. QED
    BY <1>1 DEF Told, NoSession, Killing, Ended

\* The program counter of a session says nothing about the end of the attempt.
LEMMA PcTold ==
    ASSUME NEW s \in SessRec, NEW pc \in {"launch", "hello", "wire"}
    PROVE  (Told([s EXCEPT !.pc = pc]) => Told(s)) /\ [s EXCEPT !.pc = pc].pc = pc
  BY DEF Told, SessRec

\* Nor does the control it sends.
LEMMA SendTold ==
    ASSUME NEW s \in SessRec, NEW out \in {"offer", "cancel", "receipt", "decision"}
    PROVE  (Told([s EXCEPT !.pc = "due", !.out = out]) => Told(s)) /\ [s EXCEPT !.pc = "due", !.out = out].pc = "due"
  BY DEF Told, SessRec

\* What the session becomes in each of the ways it moves on.
LEMMA SessionMoves ==
    ASSUME TypeOK, NEW f \in Fence
    PROVE  /\ Kill(f) => sess' = [sess EXCEPT ![f] = Killing]
           /\ Return(f) => sess' = [sess EXCEPT ![f] = Ended]
           /\ \A out : SendNext(f, out) => sess' = [sess EXCEPT ![f] = [sess[f] EXCEPT !.pc = "due", !.out = out]]
           /\ \A pc : Go(f, pc) => sess' = [sess EXCEPT ![f] = [sess[f] EXCEPT !.pc = pc]]
  BY DEF TypeOK, Kill, Return, SendNext, Go

\* A step of the session that leaves the rows alone.
LEMMA QuietInv ==
    ASSUME TypeOK, OInv, NEW f \in Fence, NEW s, sess' = [sess EXCEPT ![f] = s],
           UNCHANGED <<job, att>>, Running(f), GoesOn,
           Told(s) => ~ActiveRow(att[f]),
           s.pc \notin {"none", "done"} \/ sched' # "up" \/ ~ActiveRow(att[f])
    PROVE  OInv'
  <1>1. att' = [att EXCEPT ![f] = att[f]] /\ job' = job
    BY DEF TypeOK
  <1>2. Moves(f, job, att[f], s)
    BY DEF Moves, OInv, Leased
  <1>3. QED
    BY <1>1, <1>2, MoveInv

\* A session that stops driving its worker keeps the attempt until it has returned.
LEMMA KillInv ==
    ASSUME TypeOK, OInv, NEW f \in Fence, Running(f), Kill(f), UNCHANGED <<job, att, sched>>
    PROVE  OInv'
  <1>1. sess' = [sess EXCEPT ![f] = Killing] /\ GoesOn
    BY SessionMoves DEF GoesOn
  <1>2. QED
    BY <1>1, UntoldSessions, QuietInv

\* A fatal error, or the end of the attempt, precedes the return of its session.
LEMMA ReturnInv ==
    ASSUME TypeOK, OInv, NEW f \in Fence, Running(f), Return(f), UNCHANGED <<job, att>>, GoesOn,
           sched' # "up" \/ ~ActiveRow(att[f])
    PROVE  OInv'
  <1>1. sess' = [sess EXCEPT ![f] = Ended]
    BY SessionMoves
  <1>2. QED
    BY <1>1, UntoldSessions, QuietInv

\* A session that goes on keeps what it knows.
LEMMA GoInv ==
    ASSUME TypeOK, OInv, NEW f \in Fence, Running(f), UNCHANGED <<job, att, sched>>,
           \/ \E pc \in {"launch", "hello", "wire"} : Go(f, pc)
           \/ \E out \in {"offer", "cancel", "receipt", "decision"} : SendNext(f, out)
    PROVE  OInv'
  <1>1. sess[f] \in SessRec /\ GoesOn /\ (Told(sess[f]) => ~ActiveRow(att[f]))
    BY DEF TypeOK, GoesOn, OInv, Reported
  <1>2. ASSUME NEW pc \in {"launch", "hello", "wire"}, Go(f, pc) PROVE OInv'
    <2> DEFINE s == [sess[f] EXCEPT !.pc = pc]
    <2>1. (Told(s) => Told(sess[f])) /\ s.pc = pc
      BY <1>1, PcTold
    <2>2. sess' = [sess EXCEPT ![f] = s]
      BY <1>2, SessionMoves
    <2> HIDE DEF s
    <2>3. QED
      BY <1>1, <2>1, <2>2, QuietInv
  <1>3. ASSUME NEW out \in {"offer", "cancel", "receipt", "decision"}, SendNext(f, out) PROVE OInv'
    <2> DEFINE s == [sess[f] EXCEPT !.pc = "due", !.out = out]
    <2>1. (Told(s) => Told(sess[f])) /\ s.pc = "due"
      BY <1>1, SendTold
    <2>2. sess' = [sess EXCEPT ![f] = s]
      BY <1>3, SessionMoves
    <2> HIDE DEF s
    <2>3. QED
      BY <1>1, <2>1, <2>2, QuietInv
  <1>4. QED
    BY <1>2, <1>3

\* The steps of a session that leave the store alone.
LEMMA QuietDriven ==
    ASSUME TypeOK, OInv, NEW f \in Fence,
           \/ Launch(f) \/ Hello(f) \/ DeliveryRefused(f) \/ DeliveryFails(f)
           \/ Refused(f) \/ PollCancel(f) \/ GraceEnds(f) \/ RejectedEnds(f)
    PROVE  OInv'
  <1>1. Running(f) /\ UNCHANGED <<job, att>>
    BY DEF Launch, Hello, DeliveryRefused, DeliveryFails, Refused, PollCancel, GraceEnds, RejectedEnds, Running
  <1>2. CASE Launch(f)
    <2>1. CASE Go(f, "hello") /\ UNCHANGED sched
      BY <1>1, <2>1, GoInv
    <2>2. CASE Return(f) /\ Fatal
      <3>1. GoesOn /\ sched' # "up"
        BY <2>2 DEF Fatal, GoesOn
      <3>2. QED
        BY <1>1, <2>2, <3>1, ReturnInv
    <2>3. QED
      BY <1>2, <2>1, <2>2 DEF Launch
  <1>3. CASE Hello(f)
    BY <1>1, <1>3, GoInv DEF Hello
  <1>4. CASE DeliveryRefused(f)
    BY <1>1, <1>4, KillInv DEF DeliveryRefused
  <1>5. CASE DeliveryFails(f)
    BY <1>1, <1>5, KillInv DEF DeliveryFails
  <1>6. CASE Refused(f)
    BY <1>1, <1>6, KillInv DEF Refused
  <1>7. CASE PollCancel(f)
    BY <1>1, <1>7, KillInv, GoInv DEF PollCancel
  <1>8. CASE GraceEnds(f)
    BY <1>1, <1>8, KillInv DEF GraceEnds
  <1>9. CASE RejectedEnds(f)
    <2>1. ~ActiveRow(att[f]) /\ GoesOn
      BY <1>9 DEF RejectedEnds, OInv, Reported, Told, GoesOn
    <2>2. QED
      BY <1>1, <1>9, <2>1, ReturnInv DEF RejectedEnds
  <1>10. QED
    BY <1>2, <1>3, <1>4, <1>5, <1>6, <1>7, <1>8, <1>9

\* A step of the session that writes of its row what is neither state nor lease.
LEMMA SameRowInv ==
    ASSUME TypeOK, OInv, NEW f \in Fence, NEW a, NEW s, att' = [att EXCEPT ![f] = a],
           sess' = [sess EXCEPT ![f] = s], job' = job, Running(f), GoesOn,
           a.state = att[f].state, a.lease = att[f].lease,
           Told(s) => Told(sess[f]), s.pc \notin {"none", "done"}
    PROVE  OInv'
  <1>1. Moves(f, job, a, s)
    BY DEF Moves, OInv, Leased, Reported, ActiveRow
  <1>2. QED
    BY <1>1, MoveInv

\* The lease of an attempt whose binding is moved along, or that is closed.
LEMMA LeaseKeeps ==
    ASSUME NEW a \in AttRec, NEW st, NEW s
    PROVE  /\ Bound(a, st).lease = a.lease /\ Latched(a).lease = a.lease
           /\ Closed(a, s).lease = "released"
  <1>1. Bound(a, st).lease = a.lease /\ Latched(a).lease = a.lease
    BY DEF Bound, Latched, AttRec
  <1>2. QED
    BY <1>1, LatchedType DEF Closed, AttRec

\* A delivery that starts.
LEMMA StartDeliveryDriven ==
    ASSUME TypeOK, OInv, NEW f \in Fence, StartDelivery(f)
    PROVE  OInv'
  <1> DEFINE u == att[f].unsure \/ sess[f].event # "terminal" \/ sess[f].out # "receipt"
             a == [att[f] EXCEPT !.unsure = u]
             s == [sess[f] EXCEPT !.pc = "wire"]
  <1>1. att[f] \in AttRec /\ sess[f] \in SessRec
    BY DEF TypeOK
  <1>2. att' = [att EXCEPT ![f] = a] /\ Running(f) /\ GoesOn /\ job' = job /\ sess' = [sess EXCEPT ![f] = s]
    BY SessionMoves DEF StartDelivery, TypeOK, Running, GoesOn
  <1> HIDE DEF u
  <1>3. a.state = att[f].state /\ a.lease = att[f].lease
    BY <1>1 DEF AttRec
  <1>4. (Told(s) => Told(sess[f])) /\ s.pc = "wire"
    BY <1>1, PcTold
  <1> HIDE DEF a, s
  <1>5. QED
    BY <1>2, <1>3, <1>4, SameRowInv

\* After a delivery the session knows of an end only if it did before.
LEMMA AfterTold ==
    ASSUME TypeOK, NEW f \in Fence
    PROVE  (Told(AfterDelivery(f)) => Told(sess[f])) /\ AfterDelivery(f).pc \notin {"none", "done"}
  <1> DEFINE s == sess[f]
             idle == [s EXCEPT !.pc = "open", !.out = "none", !.event = "none", !.recon = FALSE]
             t == idle.terminalReceived \/ s.event = "terminal"
             k == [idle EXCEPT !.cancelSent = TRUE]
             r == [s EXCEPT !.pc = "due", !.out = "receipt", !.cancelSent = TRUE]
             d == [s EXCEPT !.pc = "due", !.out = "decision"]
             e == [idle EXCEPT !.terminalReceived = t]
             n == [NoSession EXCEPT !.pc = "rejected"]
  <1>1. s \in SessRec
    BY DEF TypeOK
  <1>2. idle \in SessRec /\ (Told(idle) => Told(s)) /\ idle.pc = "open" /\ idle.terminalReceived = s.terminalReceived /\ idle.event = "none"
    BY <1>1 DEF SessRec, Told
  <1>3. (Told(d) => Told(s)) /\ d.pc = "due" /\ (Told(r) => Told(s)) /\ r.pc = "due"
    BY <1>1 DEF SessRec, Told
  <1>4. n.pc = "rejected"
    BY DEF NoSession
  <1>5. t => Told(s)
    BY <1>2 DEF Told
  <1> HIDE DEF s, idle, t
  <1>6. (Told(k) => Told(s)) /\ k.pc = "open"
    BY <1>2 DEF SessRec, Told
  <1>7. (Told(e) => Told(s)) /\ e.pc = "open"
    BY <1>2, <1>5 DEF SessRec, Told
  <1> HIDE DEF k, r, d, e, n
  <1>8. \/ AfterDelivery(f) \in {idle, k, r, d, e, Killing}
        \/ AfterDelivery(f) = n /\ s.event = "reject"
    BY Zenon DEF AfterDelivery, idle, k, r, d, e, n, s, t
  <1>9. s.event = "reject" => Told(s)
    BY DEF Told
  <1>10. QED
    BY <1>2, <1>3, <1>4, <1>6, <1>7, <1>8, <1>9, UntoldSessions DEF s

\* A delivery that is proved.
LEMMA DeliveredDriven ==
    ASSUME TypeOK, OInv, NEW f \in Fence, Delivered(f)
    PROVE  OInv'
  <1> DEFINE st == AckedBinding(att[f], sess[f].out)
             b == Bound(att[f], st)
             c == IF sess[f].out = "cancel" /\ b.cancel = "pending" THEN "sent" ELSE b.cancel
             u == [b EXCEPT !.unsure = FALSE]
             a == [u EXCEPT !.cancel = c]
  <1>1. att[f] \in AttRec
    BY DEF TypeOK
  <1>2. st \in {"none", "latched"} \cup BindingOpen
    BY <1>1 DEF AckedBinding, AttRec
  <1>3. /\ att' = [att EXCEPT ![f] = a] /\ sess' = [sess EXCEPT ![f] = AfterDelivery(f)]
        /\ job' = job /\ Running(f) /\ GoesOn
    BY DEF Delivered, Running, GoesOn
  <1> HIDE DEF st
  <1>4. b \in AttRec /\ b.state = att[f].state /\ b.lease = att[f].lease
    BY <1>1, <1>2, BoundType, LatchedKeeps, LeaseKeeps
  <1> HIDE DEF b, c
  <1>5. u \in AttRec /\ u.state = att[f].state /\ u.lease = att[f].lease
    BY <1>4 DEF AttRec
  <1> HIDE DEF u
  <1>6. a.state = att[f].state /\ a.lease = att[f].lease
    BY <1>5 DEF AttRec
  <1> HIDE DEF a
  <1>7. QED
    BY <1>3, <1>6, AfterTold, SameRowInv

\* A recorded event: the attempt goes on under an active job or both end, and a
\* terminal or reject event ends it.
LEMMA RecordDriven ==
    ASSUME TypeOK, OInv, NEW f \in Fence, NEW kind, NEW j, NEW a, Record(f, kind, j, a),
           j.fence = job.fence,
           \/ j.state = job.state /\ (ActiveRow(a) <=> ActiveRow(att[f]))
           \/ (ActiveRow(a) <=> j.state \in JobActive) /\ (ActiveRow(a) => ActiveRow(att[f])),
           kind \in {"terminal", "reject"} => ~ActiveRow(a),
           a.lease \in LeaseLive /\ j.state \notin Settled => ActiveRow(a)
    PROVE  OInv'
  <1> DEFINE o == IF kind \notin BoundKinds /\ a.cancel = "pending" THEN "cancel" ELSE "receipt"
             r == j.state = Recon
             w == [sess[f] EXCEPT !.pc = "due", !.event = kind, !.recon = r, !.out = o]
  <1>1. Running(f) /\ GoesOn /\ f = job.fence /\ job' = j /\ att' = [att EXCEPT ![f] = a]
    BY DEF Record, Running, GoesOn, Current
  <1>2. sess' = [sess EXCEPT ![f] = Killing] \/ sess' = [sess EXCEPT ![f] = w]
    BY SessionMoves DEF Record, TypeOK
  <1> HIDE DEF o, r
  <1>3. sess[f] \in SessRec
    BY DEF TypeOK
  <1>4. w.pc = "due" /\ w.event = kind /\ w.terminalReceived = sess[f].terminalReceived
    BY <1>3 DEF SessRec
  <1> HIDE DEF w
  <1>5. Told(w) => ~ActiveRow(a)
    <2>1. Told(w) => sess[f].terminalReceived \/ kind \in {"terminal", "reject"}
      BY <1>4 DEF Told
    <2>2. sess[f].terminalReceived => ~ActiveRow(att[f])
      BY DEF OInv, Reported, Told
    <2>3. QED
      BY <2>1, <2>2
  <1>6. ASSUME NEW s, Told(s) => ~ActiveRow(a), s.pc \notin {"none", "done"}
        PROVE  Moves(f, j, a, s)
    BY <1>1, <1>6 DEF Moves
  <1>7. Moves(f, j, a, w)
    BY <1>4, <1>5, <1>6
  <1>8. Moves(f, j, a, Killing)
    BY <1>6, UntoldSessions
  <1>9. QED
    BY <1>1, <1>2, <1>7, <1>8, MoveInv

\* The values of the states that are not active.
LEMMA ActiveStates ==
    /\ \A s \in {"queued", "rejected", "expired", "crashed", "none"} \cup Settled : s \notin JobActive
    /\ JobActive \cap Settled = {} /\ "queued" \notin Settled
    /\ \A l \in {"none", "released", "expired"} : l \notin LeaseLive
  BY DEF JobActive, Settled, Recon, LeaseLive

\* The lifecycle events.
LEMMA LifecycleDriven ==
    ASSUME TypeOK, OInv, NEW f \in Fence, Accept(f) \/ Reject(f) \/ Heartbeat(f) \/ CancelAck(f) \/ Terminal(f)
    PROVE  OInv'
  <1>1. job \in JobRec /\ att[f] \in AttRec
    BY DEF TypeOK
  <1>2. CASE Accept(f)
    <2> DEFINE j == [job EXCEPT !.state = "running"]
               a == [att[f] EXCEPT !.state = "running", !.lease = "active", !.started = TRUE]
    <2>1. j.fence = job.fence /\ j.state = "running"
      BY <1>1 DEF JobRec
    <2>2. a.state = "running"
      BY <1>1 DEF AttRec
    <2>3. Record(f, "accept", j, a) /\ att[f].state = "offered"
      BY <1>2 DEF Accept
    <2> HIDE DEF j, a
    <2>4. ActiveRow(a) /\ j.state \in JobActive /\ ActiveRow(att[f])
      BY <2>1, <2>2, <2>3 DEF ActiveRow, JobActive
    <2>5. QED
      BY <2>1, <2>3, <2>4, RecordDriven
  <1>3. CASE Reject(f)
    <2> DEFINE x == job.fails + 1 >= MaxDispatchFailures
               j == [job EXCEPT !.state = IF x THEN Recon ELSE "queued"]
               a == [att[f] EXCEPT !.state = IF x THEN Recon ELSE "rejected", !.lease = "released"]
    <2>1. j.fence = job.fence /\ j.state \in {"queued", Recon}
      BY <1>1 DEF JobRec
    <2>2. a.state \in {"rejected", Recon} /\ a.lease = "released"
      BY <1>1 DEF AttRec
    <2>3. Record(f, "reject", j, a)
      BY <1>3 DEF Reject
    <2> HIDE DEF j, a
    <2>4. ~ActiveRow(a) /\ j.state \notin JobActive /\ a.lease \notin LeaseLive
      BY <2>1, <2>2, ActiveStates DEF ActiveRow, Settled
    <2>5. QED
      BY <2>1, <2>3, <2>4, RecordDriven
  <1>4. CASE Heartbeat(f)
    <2>1. ActiveRow(att[f])
      BY <1>4 DEF Heartbeat, ActiveRow, JobActive
    <2>2. QED
      BY <1>4, <2>1, RecordDriven DEF Heartbeat
  <1>5. CASE CancelAck(f)
    <2> DEFINE c == IF att[f].cancel = "sent" THEN "acked" ELSE att[f].cancel
               l == IF job.state \in Settled THEN att[f].lease ELSE "cancelling"
               a == [att[f] EXCEPT !.cancel = c, !.lease = l]
    <2>1. Record(f, "cancel_ack", job, a)
      BY <1>5 DEF CancelAck
    <2>2. job.state \in Settled \/ att[f].state = "cancelling"
      BY <1>5 DEF CancelAck
    <2> HIDE DEF c, l
    <2>3. a.state = att[f].state
      BY <1>1 DEF AttRec
    <2> HIDE DEF a
    <2>4. (ActiveRow(a) <=> ActiveRow(att[f])) /\ (job.state \notin Settled => ActiveRow(a))
      BY <2>2, <2>3 DEF ActiveRow, JobActive
    <2>5. QED
      BY <2>1, <2>4, RecordDriven
  <1>6. CASE Terminal(f)
    <2>1. PICK end \in Settled :
             Record(f, "terminal", [job EXCEPT !.state = end], [att[f] EXCEPT !.state = end, !.lease = "released"])
      BY <1>6 DEF Terminal
    <2> DEFINE j == [job EXCEPT !.state = end]
               a == [att[f] EXCEPT !.state = end, !.lease = "released"]
    <2>2. j.fence = job.fence /\ j.state = end
      BY <1>1 DEF JobRec
    <2>3. a.state = end
      BY <1>1 DEF AttRec
    <2>4. Record(f, "terminal", j, a)
      BY <2>1
    <2> HIDE DEF j, a
    <2>5. ~ActiveRow(a) /\ j.state \notin JobActive /\ j.state \in Settled
      BY <2>2, <2>3, ActiveStates DEF ActiveRow
    <2>6. QED
      BY <2>2, <2>4, <2>5, RecordDriven
  <1>7. QED
    BY <1>2, <1>3, <1>4, <1>5, <1>6

\* The events that consume a binding.
LEMMA ConsumeDriven ==
    ASSUME TypeOK, OInv, NEW f \in Fence, Consume(f)
    PROVE  OInv'
  <1> DEFINE a == [att[f] EXCEPT !.binding = "committed"]
             b == [a EXCEPT !.effects = 0]
             i == [a EXCEPT !.effects = 1]
             r == [a EXCEPT !.effects = 0, !.state = Recon, !.lease = "released"]
             j == [job EXCEPT !.state = Recon]
  <1>1. job \in JobRec /\ att[f] \in AttRec /\ att[f].state = "running"
    BY DEF TypeOK, Consume, Consumable
  <1>2. \/ Record(f, "checkpoint", job, a) \/ Record(f, "intent", job, i) \/ Record(f, "outcome", job, b)
        \/ Record(f, "outcome", j, r)
    BY DEF Consume
  <1>3. j.fence = job.fence /\ j.state = Recon
    BY <1>1 DEF JobRec
  <1>4. a.state = "running" /\ a \in AttRec
    BY <1>1, CommitField
  <1> HIDE DEF a, j
  <1>5. b.state = "running" /\ i.state = "running" /\ r.state = Recon
    BY <1>4 DEF AttRec
  <1> HIDE DEF b, i, r
  <1>6. /\ ActiveRow(a) /\ ActiveRow(b) /\ ActiveRow(i) /\ ActiveRow(att[f])
        /\ ~ActiveRow(r) /\ j.state \notin JobActive /\ j.state \in Settled
    BY <1>1, <1>3, <1>4, <1>5 DEF ActiveRow, JobActive, Settled, Recon
  <1>7. CASE Record(f, "outcome", j, r)
    BY <1>3, <1>6, <1>7, RecordDriven
  <1>8. CASE Record(f, "checkpoint", job, a)
    BY <1>6, <1>8, RecordDriven
  <1>9. CASE Record(f, "intent", job, i)
    BY <1>6, <1>9, RecordDriven
  <1>10. CASE Record(f, "outcome", job, b)
    BY <1>6, <1>10, RecordDriven
  <1>11. QED
    BY <1>2, <1>7, <1>8, <1>9, <1>10

\* The bindings, while the attempt goes on or not.
LEMMA BindingDriven ==
    ASSUME TypeOK, OInv, NEW f \in Fence,
           \/ ConsumeDrifted(f) \/ Resolve(f) \/ \E op \in BoundKinds : Stage(f, op)
    PROVE  OInv'
  <1>1. att[f] \in AttRec /\ sess[f] \in SessRec
    BY DEF TypeOK
  <1>2. ASSUME NEW a, att' = [att EXCEPT ![f] = a], UNCHANGED <<job, sess, sched>>,
               a.state = att[f].state, a.lease = att[f].lease
        PROVE  OInv'
    <2>1. \A g \in Fence : att'[g].state = att[g].state /\ att'[g].lease = att[g].lease
      BY <1>2 DEF TypeOK
    <2>2. QED
      BY <1>2, <2>1, RowsInv
  <1>3. CASE ConsumeDrifted(f)
    <2> DEFINE a == Latched(att[f])
    <2>1. /\ att' = [att EXCEPT ![f] = a] /\ sess' = [sess EXCEPT ![f] = Killing]
          /\ job' = job /\ Running(f) /\ GoesOn
      BY <1>3, SessionMoves DEF ConsumeDrifted, Running, GoesOn
    <2>2. a.state = att[f].state /\ a.lease = att[f].lease
      BY <1>1, LatchedKeeps, LeaseKeeps
    <2> HIDE DEF a
    <2>3. QED
      BY <2>1, <2>2, UntoldSessions, SameRowInv
  <1>4. CASE Resolve(f)
    <2> DEFINE st == IF BindingCurrent(f) THEN "resolved" ELSE "latched"
               a == Bound(att[f], st)
    <2>1. st \in {"none", "latched"} \cup BindingOpen
      BY DEF BindingOpen
    <2>2. att' = [att EXCEPT ![f] = a] /\ UNCHANGED <<job, sess, sched>>
      BY <1>4 DEF Resolve
    <2> HIDE DEF st
    <2>3. a.state = att[f].state /\ a.lease = att[f].lease
      BY <1>1, <2>1, LatchedKeeps, LeaseKeeps
    <2> HIDE DEF a
    <2>4. QED
      BY <1>2, <2>2, <2>3
  <1>5. ASSUME NEW op \in BoundKinds, Stage(f, op) PROVE OInv'
    <2> DEFINE a == [att[f] EXCEPT !.binding = "staged", !.op = op]
    <2>1. att' = [att EXCEPT ![f] = a] /\ UNCHANGED <<job, sess, sched>>
      BY <1>5 DEF Stage, TypeOK
    <2>2. a.state = att[f].state /\ a.lease = att[f].lease
      BY <1>1 DEF AttRec
    <2> HIDE DEF a
    <2>3. QED
      BY <1>2, <2>1, <2>2
  <1>6. QED
    BY <1>3, <1>4, <1>5

\* An outcome that a cancellation overtakes.
LEMMA OutcomeRacedDriven ==
    ASSUME TypeOK, OInv, NEW f \in Fence, OutcomeRaced(f)
    PROVE  OInv'
  <1> DEFINE J(s) == [job EXCEPT !.state = s]
             A(s, l) == [att[f] EXCEPT !.state = s, !.lease = l, !.cancel = "pending", !.effects = 0, !.binding = "committed"]
  <1>1. /\ job \in JobRec /\ att[f] \in AttRec /\ sess' = [sess EXCEPT ![f] = Killing]
        /\ att[f].state = "running" /\ f = job.fence /\ Running(f) /\ GoesOn
    BY SessionMoves DEF TypeOK, OutcomeRaced, Consumable, Current, Running, GoesOn
  <1>2. PICK s \in {"cancelling", Recon}, l \in {"cancelling", "released"} :
           job' = J(s) /\ att' = [att EXCEPT ![f] = A(s, l)]
    BY DEF OutcomeRaced, TypeOK
  <1> DEFINE j == J(s)
             a == A(s, l)
  <1>3. j.fence = job.fence /\ j.state = s
    BY <1>1 DEF JobRec
  <1>4. a.state = s
    BY <1>1 DEF AttRec
  <1>5. job' = j /\ att' = [att EXCEPT ![f] = a]
    BY <1>2
  <1> HIDE DEF j, a, J, A
  <1>6. ActiveRow(att[f]) /\ (ActiveRow(a) <=> j.state \in JobActive) /\ (j.state \notin Settled => ActiveRow(a))
    BY <1>1, <1>3, <1>4 DEF ActiveRow, JobActive, Settled, Recon
  <1>7. Moves(f, j, a, Killing)
    BY <1>1, <1>3, <1>6, UntoldSessions DEF Moves
  <1>8. QED
    BY <1>1, <1>5, <1>7, MoveInv

\* A cancellation finds the current attempt active and leaves it so.
LEMMA CancelDriven ==
    ASSUME TypeOK, OInv, NEW f \in Fence, NEW s, Cancellable(f),
           att' = WithCancel(f), job' = [job EXCEPT !.state = "cancelling"],
           sess' = [sess EXCEPT ![f] = s], Running(f) \/ s = sess[f], sched' = sched,
           Told(s) => Told(sess[f]), s.pc \notin {"none", "done"} \/ s = sess[f]
    PROVE  OInv'
  <1> DEFINE j == [job EXCEPT !.state = "cancelling"]
             c == IF att[f].cancel = "none" THEN "pending" ELSE "stacked"
             a == [att[f] EXCEPT !.state = "cancelling", !.lease = "cancelling", !.cancel = c]
  <1>1. att[f] \in AttRec /\ job \in JobRec
    BY DEF TypeOK
  <1>2. att' = [att EXCEPT ![f] = a] /\ job' = j
    BY DEF WithCancel, TypeOK
  <1> HIDE DEF c
  <1>3. j.fence = job.fence /\ j.state = "cancelling"
    BY <1>1 DEF JobRec
  <1>4. a.state = "cancelling"
    BY <1>1 DEF AttRec
  <1> HIDE DEF j, a
  <1>5. f = job.fence /\ ActiveRow(att[f])
    BY DEF Cancellable, Current, OInv, OneActive
  <1>6. ActiveRow(a) /\ j.state \in JobActive /\ ~Told(sess[f])
    BY <1>3, <1>4, <1>5 DEF ActiveRow, JobActive, OInv, Reported
  <1>7. sched' = "up" => s.pc \notin {"none", "done"}
    <2>1. sched = "up" => sess[f].pc \notin {"none", "done"}
      BY <1>5 DEF OInv, Driven, Running
    <2>2. QED
      BY <2>1
  <1>8. GoesOn /\ Moves(f, j, a, s)
    BY <1>3, <1>5, <1>6, <1>7 DEF Moves, GoesOn
  <1>9. QED
    BY <1>2, <1>8, MoveInv

\* The cancellations of the session and of an operator.
LEMMA CancelsDriven ==
    ASSUME TypeOK, OInv
    PROVE  /\ RequestCancel => OInv'
           /\ \A f \in Fence : LeaseTimer(f) \/ Shutdown(f) => OInv'
  <1>1. ASSUME RequestCancel PROVE OInv'
    <2> DEFINE f == job.fence
    <2>1. /\ f \in Fence /\ Cancellable(f) /\ att' = WithCancel(f) /\ job' = [job EXCEPT !.state = "cancelling"]
          /\ sess' = [sess EXCEPT ![f] = sess[f]] /\ sched' = sched
      BY <1>1 DEF RequestCancel, TypeOK
    <2>2. QED
      BY <2>1, CancelDriven
  <1>2. ASSUME NEW f \in Fence, CancelOwn(f) PROVE OInv'
    <2>1. Running(f) /\ sched' = sched /\ sess[f] \in SessRec
      BY <1>2 DEF CancelOwn, Running, TypeOK
    <2>2. CASE Cancellable(f)
      <3> DEFINE s == [sess[f] EXCEPT !.pc = "due", !.out = "cancel"]
      <3>1. att' = WithCancel(f) /\ job' = [job EXCEPT !.state = "cancelling"]
        BY <1>2, <2>2 DEF CancelOwn
      <3>2. sess' = [sess EXCEPT ![f] = s] \/ sess' = [sess EXCEPT ![f] = Killing]
        BY <1>2, <2>2, SessionMoves DEF CancelOwn
      <3>3. (Told(s) => Told(sess[f])) /\ s.pc = "due"
        BY <2>1, SendTold
      <3> HIDE DEF s
      <3>4. CASE sess' = [sess EXCEPT ![f] = s]
        BY <2>1, <2>2, <3>1, <3>3, <3>4, CancelDriven
      <3>5. CASE sess' = [sess EXCEPT ![f] = Killing]
        BY <2>1, <2>2, <3>1, <3>5, UntoldSessions, CancelDriven
      <3>6. QED
        BY <3>2, <3>4, <3>5
    <2>3. CASE ~Cancellable(f)
      BY <1>2, <2>1, <2>3, KillInv DEF CancelOwn
    <2>4. QED
      BY <2>2, <2>3
  <1>3. ASSUME NEW f \in Fence, Shutdown(f), ~CancelOwn(f) PROVE OInv'
    BY <1>3, KillInv DEF Shutdown, Running
  <1>4. QED
    BY <1>1, <1>2, <1>3 DEF LeaseTimer, Shutdown

\* What RecordProcessExit makes of an attempt: it is settled already, or it ends
\* and its lease is released.
LEMMA ExitEnds ==
    ASSUME TypeOK, OInv, NEW f \in Fence, ~ExitStale(f)
    PROVE  /\ ProcessExit(f).job.fence = job.fence
           /\ ~ActiveRow(ProcessExit(f).att)
           /\ \/ ProcessExit(f).job = job /\ ProcessExit(f).att = att[f]
              \/ /\ f = job.fence /\ ProcessExit(f).job.state \notin JobActive
                 /\ ProcessExit(f).att.lease = "released"
  <1> DEFINE a == att[f]
             counted == IF a.started THEN job ELSE DispatchFailure(job)
             Outcome(j, js, as) == [job |-> [j EXCEPT !.state = js], att |-> Closed(a, as)]
  <1>1. a \in AttRec /\ job \in JobRec
    BY DEF TypeOK
  <1>2. counted \in JobRec /\ counted.fence = job.fence
    BY <1>1, DispatchType, DispatchKeeps
  <1>3. CASE ExitIgnored(f)
    <2>1. ProcessExit(f) = [job |-> job, att |-> a]
      BY <1>3 DEF ProcessExit
    <2>2. job.state \notin JobActive
      BY <1>3, ActiveStates DEF ExitIgnored, Settled
    <2>3. ~ActiveRow(a)
      BY <2>2 DEF OInv, OneActive
    <2>4. ProcessExit(f).job = job /\ ProcessExit(f).att = a
      BY <2>1
    <2>5. QED
      BY <2>3, <2>4
  <1>4. CASE ~ExitIgnored(f)
    <2>1. f = job.fence
      BY <1>4 DEF ExitStale, Current
    <2>2. PICK j \in {job, counted}, js \in {"queued", "terminal", Recon}, as \in {"crashed", "terminal", Recon} :
             ProcessExit(f) = Outcome(j, js, as)
      BY <1>4, Zenon DEF ProcessExit
    <2> DEFINE m == [j EXCEPT !.state = js]
               c == Closed(a, as)
    <2>3. m.fence = job.fence /\ m.state = js
      BY <1>1, <1>2, JobField DEF Settled
    <2>4. c.state = as /\ c.lease = "released"
      BY <1>1, ClosedKeeps, LeaseKeeps
    <2>5. ProcessExit(f).job = m /\ ProcessExit(f).att = c
      BY <2>2
    <2> HIDE DEF m, c
    <2>6. js \notin JobActive /\ as \notin JobActive
      BY ActiveStates DEF Settled
    <2>7. QED
      BY <2>1, <2>3, <2>4, <2>5, <2>6 DEF ActiveRow
  <1>5. QED
    BY <1>3, <1>4

\* The exit of an attempt is recorded, whatever its session is by then.
LEMMA ExitMoves ==
    ASSUME TypeOK, OInv, NEW f \in Fence, ~ExitStale(f), NEW s, ~Told(s) \/ s = sess[f]
    PROVE  Moves(f, ProcessExit(f).job, ProcessExit(f).att, s)
  <1> DEFINE j == ProcessExit(f).job
             a == ProcessExit(f).att
  <1>1. /\ j.fence = job.fence /\ ~ActiveRow(a)
        /\ (j = job /\ a = att[f]) \/ (f = job.fence /\ j.state \notin JobActive /\ a.lease = "released")
    BY ExitEnds
  <1> HIDE DEF j, a
  <1>2. f = job.fence /\ a.lease \in LeaseLive /\ j.state \notin Settled => ActiveRow(a)
    BY <1>1, ActiveStates DEF OInv, Leased
  <1>3. QED
    BY <1>1, <1>2 DEF Moves, j, a

\* A session that returns has recorded the end of its attempt or stops the scheduler.
LEMMA EndingDriven ==
    ASSUME TypeOK, OInv, NEW f \in Fence, Killed(f) \/ ProcessDone(f) \/ KillUncertain(f)
    PROVE  OInv'
  <1>1. Running(f) /\ sess' = [sess EXCEPT ![f] = Ended] /\ Return(f)
    BY SessionMoves DEF Killed, ProcessDone, KillUncertain, RecordExit, Running
  <1>2. ASSUME Fatal, ~Current(f), UNCHANGED <<job, att>> PROVE OInv'
    <2>1. ~ActiveRow(att[f]) /\ GoesOn
      BY <1>2 DEF OInv, OneActive, Current, Fatal, GoesOn
    <2>2. QED
      BY <1>1, <1>2, <2>1, ReturnInv
  <1>3. CASE RecordExit(f)
    <2>1. CASE ExitStale(f)
      BY <1>2, <1>3, <2>1 DEF RecordExit, ExitStale
    <2>2. CASE ~ExitStale(f)
      <3>1. job' = ProcessExit(f).job /\ att' = [att EXCEPT ![f] = ProcessExit(f).att] /\ GoesOn
        BY <1>3, <2>2 DEF RecordExit, GoesOn
      <3>2. Moves(f, ProcessExit(f).job, ProcessExit(f).att, Ended)
        BY <2>2, UntoldSessions, ExitMoves
      <3>3. QED
        BY <1>1, <3>1, <3>2, MoveInv
    <2>3. QED
      BY <2>1, <2>2
  <1>4. CASE sess[f].terminalReceived /\ UNCHANGED <<job, att, sched>>
    <2>1. ~ActiveRow(att[f]) /\ GoesOn
      BY <1>4 DEF OInv, Reported, Told, GoesOn
    <2>2. QED
      BY <1>1, <1>4, <2>1, ReturnInv
  <1>5. CASE KillUncertain(f)
    <2>1. CASE Current(f)
      <3> DEFINE j == [job EXCEPT !.state = Recon, !.fails = MaxDispatchFailures, !.dispatch = "dead"]
                 a == [att[f] EXCEPT !.state = Recon, !.lease = "cancelling"]
      <3>1. att[f] \in AttRec /\ job \in JobRec
        BY DEF TypeOK
      <3>2. job' = j /\ att' = [att EXCEPT ![f] = a] /\ GoesOn
        BY <1>5, <2>1 DEF KillUncertain, TypeOK, GoesOn
      <3>3. j.fence = job.fence /\ j.state = Recon
        BY <3>1 DEF JobRec
      <3>4. a.state = Recon
        BY <3>1 DEF AttRec
      <3> HIDE DEF j, a
      <3>5. ~ActiveRow(a) /\ j.state \notin JobActive /\ j.state \in Settled
        BY <3>3, <3>4 DEF ActiveRow, JobActive, Settled, Recon
      <3>6. Moves(f, j, a, Ended)
        BY <2>1, <3>3, <3>5 DEF Moves, Current
      <3>7. QED
        BY <1>1, <3>2, <3>6, MoveInv
    <2>2. CASE ~Current(f)
      BY <1>2, <1>5, <2>2 DEF KillUncertain
    <2>3. QED
      BY <2>1, <2>2
  <1>6. QED
    BY <1>3, <1>4, <1>5 DEF Killed, ProcessDone

\* The recovery of an expired lease ends the attempt or leaves it to the session
\* that drives it.
LEMMA RecoverExpiredDriven ==
    ASSUME TypeOK, OInv, Ran, NEW f \in Fence, RecoverExpired(f)
    PROVE  OInv'
  <1> DEFINE J(s) == [job EXCEPT !.state = s]
             To(js, a) == job' = [job EXCEPT !.state = js] /\ att' = [att EXCEPT ![f] = a] /\ UNCHANGED sched
  <1>a. CASE ~Current(f)
    BY <1>a, RowsInv DEF RecoverExpired
  <1>b. SUFFICES ASSUME Current(f) PROVE OInv'
    BY <1>a
  <1>1. /\ att[f] \in AttRec /\ job \in JobRec /\ f = job.fence /\ sess' = sess
        /\ sess' = [sess EXCEPT ![f] = sess[f]] /\ sched = "up"
    BY <1>b DEF TypeOK, RecoverExpired, Current
  <1>2. \/ To(Recon, Closed(att[f], Recon))
        \/ Fatal /\ UNCHANGED <<job, att>>
        \/ To("queued", SetRow(att[f], "expired", "expired"))
        \/ job.state \notin Settled /\ att[f].started /\ To("cancelling", SetRow(att[f], "cancelling", "cancelling"))
    BY <1>b DEF RecoverExpired, SetRow
  <1>3. ASSUME NEW js, NEW a, To(js, a), ActiveRow(a) <=> js \in JobActive,
               ActiveRow(a) => ActiveRow(att[f]),
               a.lease \in LeaseLive => ActiveRow(a)
        PROVE  OInv'
    <2>1. J(js).fence = job.fence /\ J(js).state = js
      BY <1>1 DEF JobRec
    <2>2. job' = J(js) /\ att' = [att EXCEPT ![f] = a] /\ GoesOn
      BY <1>3 DEF GoesOn
    <2> HIDE DEF J, To
    <2>3. Told(sess[f]) => ~ActiveRow(a)
      BY <1>3 DEF OInv, Reported
    <2>4. ActiveRow(a) => sess[f].pc \notin {"none", "done"}
      BY <1>1, <1>3 DEF OInv, Driven, Running
    <2>5. Moves(f, J(js), a, sess[f])
      BY <1>1, <1>3, <2>1, <2>3, <2>4 DEF Moves
    <2>6. QED
      BY <1>1, <2>2, <2>5, MoveInv
  <1> DEFINE c == Closed(att[f], Recon)
             e == SetRow(att[f], "expired", "expired")
             k == SetRow(att[f], "cancelling", "cancelling")
  <1>4. c.state = Recon /\ c.lease = "released"
    BY <1>1, ClosedKeeps, LeaseKeeps
  <1>5. e.state = "expired" /\ e.lease = "expired" /\ k.state = "cancelling"
    BY <1>1 DEF SetRow, AttRec
  <1>6. /\ ~ActiveRow(c) /\ ~ActiveRow(e) /\ ActiveRow(k)
        /\ c.lease \notin LeaseLive /\ e.lease \notin LeaseLive
        /\ Recon \notin JobActive /\ "queued" \notin JobActive /\ "cancelling" \in JobActive
    BY <1>4, <1>5 DEF ActiveRow, JobActive, LeaseLive, Recon
  <1> HIDE DEF To, c, e, k
  <1>7. CASE To(Recon, c)
    BY <1>3, <1>6, <1>7
  <1>8. CASE Fatal /\ UNCHANGED <<job, att>>
    <2>1. GoesOn /\ att' = [att EXCEPT ![f] = att[f]] /\ job' = job /\ sched' = "stopping"
      BY <1>1, <1>8 DEF Fatal, GoesOn, TypeOK
    <2>2. Moves(f, job, att[f], sess[f])
      BY <1>1, <2>1 DEF Moves, OInv, Reported, Leased
    <2>3. QED
      BY <1>1, <2>1, <2>2, MoveInv
  <1>9. CASE To("queued", e)
    BY <1>3, <1>6, <1>9
  <1>10. CASE job.state \notin Settled /\ att[f].started /\ To("cancelling", k)
    <2>1. job.state \in {"queued"} \cup JobActive \cup Settled /\ job.state # "queued"
      BY <1>1, <1>10 DEF JobRec, Ran
    <2>2. ActiveRow(att[f])
      BY <1>1, <1>10, <2>1 DEF OInv, OneActive
    <2>3. QED
      BY <1>3, <1>6, <1>10, <2>2
  <1>11. QED
    BY <1>2, <1>7, <1>8, <1>9, <1>10 DEF c, e, k

\* A claim finds no active attempt, and a token nobody has used.
LEMMA ClaimDriven ==
    ASSUME TypeOK, OInv, Claim
    PROVE  OInv'
  <1> DEFINE f == job.fence + 1
             j == [job EXCEPT !.state = "offered", !.fence = f]
             a == [NoAttempt EXCEPT !.state = "offered", !.lease = "offered"]
             s == [sess[f] EXCEPT !.pc = "launch"]
  <1>1. job \in JobRec /\ job.fence \in 0..MaxAttempts /\ job.fence < MaxAttempts /\ MaxAttempts \in Nat
    BY RunnerAssumption DEF TypeOK, JobRec, Claim
  <1>2. f \in Fence /\ f > job.fence /\ job.fence \in Nat
    BY <1>1 DEF Fence
  <1>3. /\ job' = j /\ att' = [att EXCEPT ![f] = a] /\ sess' = [sess EXCEPT ![f] = s] /\ sched' = sched
        /\ sched = "up" /\ job.state = "queued"
    BY <1>2, SessionMoves DEF Claim
  <1>4. a.state = "offered"
    BY DEF NoAttempt
  <1>5. sess[f] = NoSession /\ NoSession \in SessRec
    BY <1>2, SessType DEF OInv, Ahead
  <1>6. s.pc = "launch" /\ ~Told(s)
    <2>1. Told(s) => Told(sess[f])
      BY <1>5, PcTold
    <2>2. s.pc = "launch"
      BY <1>5, PcTold
    <2>3. QED
      BY <1>5, <2>1, <2>2, UntoldSessions
  <1>7. j.state = "offered" /\ j.fence = f
    BY <1>1 DEF JobRec
  <1> HIDE DEF f, j, a, s
  <1>8. /\ att'[f] = a /\ \A g \in Fence : g # f => att'[g] = att[g]
        /\ sess'[f] = s /\ \A g \in Fence : g # f => sess'[g] = sess[g]
    BY <1>2, <1>3 DEF TypeOK
  <1>9. "queued" \notin JobActive /\ "offered" \in JobActive
    BY DEF JobActive
  <1>10. \A g \in Fence : ~ActiveRow(att[g])
    BY <1>3, <1>9 DEF OInv, OneActive
  <1>11. ActiveRow(a)
    BY <1>4, <1>9 DEF ActiveRow
  <1>12. \A g \in Fence : ActiveRow(att'[g]) <=> g = f
    BY <1>8, <1>10, <1>11
  <1>13. OneActive' /\ Leased'
    BY <1>3, <1>7, <1>9, <1>12 DEF OneActive, Leased
  <1>14. Driven'
    BY <1>2, <1>3, <1>6, <1>8, <1>12 DEF Driven, Running
  <1>15. Reported'
    BY <1>6, <1>8, <1>12 DEF Reported
  <1>16. Ahead'
    <2>1. \A g \in Fence : g > f => g > job.fence /\ g # f
      BY <1>1, <1>2 DEF Fence, f
    <2>2. QED
      BY <1>3, <1>7, <1>8, <2>1 DEF Ahead, OInv
  <1>17. QED
    BY <1>13, <1>14, <1>15, <1>16 DEF OInv

\* The life of the service and the passing of time.
LEMMA ServiceDriven ==
    ASSUME TypeOK, OInv,
           \/ BackoffElapses \/ DeadlinePasses \/ ScanExpired \/ Stop \/ Stopped
           \/ Crash \/ RecoverOrphans \/ LatchBindings
           \/ \E f \in Fence : LeaseExpires(f)
    PROVE  OInv'
  <1>0. OneActive /\ Driven /\ Reported /\ Ahead /\ Leased
    BY DEF OInv
  <1>1. CASE BackoffElapses
    <2>1. job'.fence = job.fence /\ job'.state = job.state
      BY <1>1 DEF BackoffElapses, TypeOK, JobRec
    <2>2. QED
      BY <1>1, <2>1, RowsInv DEF BackoffElapses
  <1>2. CASE DeadlinePasses \/ ScanExpired \/ \E f \in Fence : LeaseExpires(f)
    BY <1>2, RowsInv DEF DeadlinePasses, ScanExpired, LeaseExpires
  <1>3. CASE Stop \/ Stopped
    <2>1. UNCHANGED <<job, att, sess>> /\ sched' \in {"stopping", "down"}
          /\ (sched' = "down" => \A f \in Fence : ~Running(f))
      BY <1>3 DEF Stop, Stopped
    <2>2. OneActive' /\ Reported' /\ Ahead' /\ Leased'
      BY <1>0, <2>1 DEF OneActive, Reported, Ahead, Leased
    <2>3. Driven'
      BY <2>1 DEF Driven, Running
    <2>4. QED
      BY <2>2, <2>3 DEF OInv
  <1>4. CASE Crash
    <2>1. /\ UNCHANGED <<job, att>> /\ sched' = "down"
          /\ \A f \in Fence : sess'[f] = IF Running(f) THEN Ended ELSE sess[f]
      BY <1>4 DEF Crash
    <2>2. OneActive' /\ Leased'
      BY <1>0, <2>1 DEF OneActive, Leased
    <2>3. Reported'
      BY <1>0, <2>1, UntoldSessions DEF Reported
    <2>4. Ended.pc = "done" /\ NoSession.pc = "none"
      BY DEF Ended, NoSession
    <2>5. Driven'
      BY <2>1, <2>4 DEF Driven, Running
    <2>6. Ahead'
      BY <1>0, <2>1, <2>4 DEF Ahead, Running
    <2>7. QED
      BY <2>2, <2>3, <2>5, <2>6 DEF OInv
  <1>5. CASE RecoverOrphans
    <2>1. sched' = "starting" /\ sess' = sess /\ (\A f \in Fence : ~Running(f))
      BY <1>0, <1>5 DEF RecoverOrphans, Driven
    <2>2. ASSUME OneActive', Leased', \A g \in Fence : ~ActiveRow(att'[g]), job'.fence = job.fence
          PROVE  OInv'
      <3>1. Driven'
        BY <2>1, <2>2 DEF Driven, Running
      <3>2. Reported' /\ Ahead'
        BY <1>0, <2>1, <2>2 DEF Reported, Ahead
      <3>3. QED
        BY <2>2, <3>1, <3>2 DEF OInv
    <2>3. CASE job.fence \in Fence /\ att[job.fence].state \in JobActive
      <3> DEFINE f == job.fence
                 j == ProcessExit(f).job
                 a == ProcessExit(f).att
      <3>1. f \in Fence /\ ~ExitStale(f) /\ ActiveRow(att[f])
        BY <2>3 DEF ExitStale, Current, ActiveRow
      <3>2. /\ j.fence = job.fence /\ ~ActiveRow(a)
            /\ (j = job /\ a = att[f]) \/ (j.state \notin JobActive /\ a.lease = "released")
        BY <3>1, ExitEnds
      <3>3. job' = j /\ att' = [att EXCEPT ![f] = a]
        BY <1>5, <2>3 DEF RecoverOrphans
      <3> HIDE DEF j, a, f
      <3>4. /\ att'[f] = a /\ \A g \in Fence : g # f => att'[g] = att[g]
            /\ j.state \notin JobActive /\ a.lease = "released"
        BY <3>1, <3>2, <3>3 DEF TypeOK
      <3>5. \A g \in Fence : ~ActiveRow(att'[g])
        BY <1>0, <3>2, <3>4 DEF OneActive, f
      <3>6. OneActive' /\ Leased'
        BY <3>2, <3>3, <3>4, <3>5, ActiveStates DEF OneActive, Leased, f
      <3>7. QED
        BY <2>2, <3>2, <3>3, <3>5, <3>6
    <2>4. CASE ~(job.fence \in Fence /\ att[job.fence].state \in JobActive)
      <3>1. UNCHANGED <<job, att>>
        BY <1>5, <2>4 DEF RecoverOrphans
      <3>2. \A g \in Fence : ~ActiveRow(att'[g])
        BY <1>0, <2>4, <3>1 DEF OneActive, ActiveRow
      <3>3. OneActive' /\ Leased'
        BY <1>0, <3>1 DEF OneActive, Leased
      <3>4. QED
        BY <2>2, <3>1, <3>2, <3>3
    <2>5. QED
      BY <2>3, <2>4
  <1>6. CASE LatchBindings
    <2>1. UNCHANGED <<job, sess>> /\ sched' = "up" /\ sched = "starting"
      BY <1>6 DEF LatchBindings
    <2>2. \A f \in Fence : att'[f].state = att[f].state /\ att'[f].lease = att[f].lease
      <3>1. \A f \in Fence : Latched(att[f]).state = att[f].state /\ Latched(att[f]).lease = att[f].lease
        BY LatchedKeeps, LeaseKeeps DEF TypeOK
      <3>2. QED
        BY <1>6, <3>1 DEF LatchBindings
    <2>3. \A f \in Fence : ActiveRow(att'[f]) <=> ActiveRow(att[f])
      BY <2>2 DEF ActiveRow
    <2>4. OneActive' /\ Leased' /\ Reported' /\ Ahead'
      BY <1>0, <2>1, <2>2, <2>3 DEF OneActive, Leased, Reported, Ahead
    <2>5. Driven'
      BY <1>0, <2>1, <2>3 DEF Driven
    <2>6. QED
      BY <2>4, <2>5 DEF OInv
  <1>7. QED
    BY <1>1, <1>2, <1>3, <1>4, <1>5, <1>6

\* Every step preserves the invariant.
LEMMA StepDriven ==
    ASSUME TypeOK, Ran, OInv, Next
    PROVE  OInv'
  <1>1. CASE Service
    BY <1>1, ClaimDriven, CancelsDriven, ServiceDriven DEF Service
  <1>2. ASSUME NEW f \in Fence, Session(f) PROVE OInv'
    <2>1. CASE \/ Launch(f) \/ Hello(f) \/ DeliveryRefused(f) \/ DeliveryFails(f) \/ Refused(f) \/ PollCancel(f)
      BY <2>1, QuietDriven
    <2>2. CASE StartDelivery(f) \/ Delivered(f)
      BY <2>2, StartDeliveryDriven, DeliveredDriven
    <2>3. CASE Accept(f) \/ Reject(f) \/ Heartbeat(f) \/ CancelAck(f) \/ Terminal(f)
      BY <2>3, LifecycleDriven
    <2>4. CASE Consume(f) \/ OutcomeRaced(f)
      BY <2>4, ConsumeDriven, OutcomeRacedDriven
    <2>5. CASE ConsumeDrifted(f) \/ Resolve(f) \/ \E op \in BoundKinds : Stage(f, op)
      BY <2>5, BindingDriven
    <2>6. QED
      BY <1>2, <2>1, <2>2, <2>3, <2>4, <2>5 DEF Session
  <1>3. ASSUME NEW f \in Fence, Ending(f) PROVE OInv'
    BY <1>3, CancelsDriven, QuietDriven, EndingDriven DEF Ending
  <1>4. ASSUME NEW f \in Fence, LeaseExpires(f) \/ RecoverExpired(f) PROVE OInv'
    BY <1>4, ServiceDriven, RecoverExpiredDriven
  <1>5. QED
    BY <1>1, <1>2, <1>3, <1>4 DEF Next

\* Before the first claim nothing is active and no session exists.
LEMMA InitDriven ==
    ASSUME Init
    PROVE  OInv
  <1>1. /\ job.state = "queued" /\ sched = "up"
        /\ \A f \in Fence : sess[f] = NoSession /\ att[f] = NoAttempt
    BY DEF Init
  <1>2. ~ActiveRow(NoAttempt) /\ NoAttempt.lease \notin LeaseLive /\ "queued" \notin JobActive
    BY DEF ActiveRow, NoAttempt, JobActive, LeaseLive
  <1>3. QED
    BY <1>1, <1>2, UntoldSessions DEF OInv, OneActive, Driven, Reported, Ahead, Leased

\* In every reachable state the job and its current attempt agree, and while the
\* scheduler runs an active attempt has its session.
THEOREM DrivenInductive == Spec => []OInv
  <1>1. Init => OInv
    BY InitDriven
  <1>2. IInv /\ OInv /\ [Next]_vars => OInv'
    <2>1. ASSUME OInv, UNCHANGED vars PROVE OInv'
      BY <2>1, RowsInv DEF vars
    <2>2. QED
      BY <2>1, StepDriven DEF IInv
  <1>3. QED
    BY <1>1, <1>2, Inductive, PTL DEF Spec

\* For any number of attempts: no path on which a session returns leaves an
\* active attempt behind a scheduler that goes on; it was recorded as ended, or
\* the scheduler stops and its next start recovers it (process.go, scheduler.go).
THEOREM NoAttemptOrphaned == Spec => []NoOrphan
  <1>1. OInv => NoOrphan
    BY DEF OInv, Driven, NoOrphan, ActiveRow
  <1>2. QED
    BY <1>1, DrivenInductive, PTL

=============================================================================
