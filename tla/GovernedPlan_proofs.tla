------------------------- MODULE GovernedPlan_proofs -------------------------
(***************************************************************************)
(* For any processes, calls, actions and faults the actions of a governed  *)
(* plan are begun once, whatever dies; and as long as no process has died  *)
(* its record is true to what was begun and names the call that executes,  *)
(* and it moves only along the state graph.  The types hold in any case.   *)
(*                                                                         *)
(* With no dead process no lock is taken for stale, so the lock file names *)
(* the one call between link and unlink (Excl) and the record it has read  *)
(* is still the one it replaces (Fresh).  A claim is therefore made once:  *)
(* only the call the record names executes and completes (Own, Claimed),   *)
(* and its stage says which actions were begun (Account).                  *)
(*                                                                         *)
(* After a death a lock may be removed under a live call, and the record   *)
(* may be overwritten.  Still a claim executes only when it finds its own  *)
(* lock after its rename.  It has then held the lock since before it read  *)
(* the record pending, and no replaced record is pending again (PInv): it  *)
(* is the only one.                                                        *)
(***************************************************************************)
EXTENDS GovernedPlan, TLAPS

----------------------------------------------------------------------------
(* The invariant *)

\* The revision of a record says how far it has come and whether it was claimed.
Shape(r) ==
    /\ r.state = "absent" <=> r.rev = 0
    /\ r.state = "pending" <=> r.rev = 1
    /\ r.state \in {"executing", "cancelled", "expired"} <=> r.rev = 2
    /\ r.state \in {"executing"} \cup ExecutionTerminal <=> r.exec # "none"

\* The state b of call c: it has a legal transition in hand when it is about to
\* replace the record, attempts left when a lock is in its way, an action left
\* to begin while it executes, and it claims in its own name.
SoundCall(c, b) ==
    /\ b.at \in {"checking", "renaming"} => Shape(b.base) /\ CanTransition(b.base.state, b.goal)
    /\ b.at \in {"looking", "rechecking", "removing"} => b.tries < 3
    /\ b.at = "awaiting" => b.done < NActions
    /\ b.at \in StoreStages /\ b.goal = "executing" => b.exec = c

\* What holds of the record and the calls whatever processes die.
Sound == Shape(rec) /\ \A c \in Calls : SoundCall(c, call[c])

\* The calls that have linked the lock and not yet unlinked it.
Critical == {"reading", "checking", "renaming", "unlocking", "unlinking", "dropping", "undoing"}

\* The lock file names the call that has linked it.
Excl == \A c \in Calls : call[c].at \in Critical => lock.call = c

\* Under the lock the record is the one that was read, and is the caller's to complete.
Fresh(b) ==
    b.at \in {"checking", "renaming"} =>
        /\ b.base = rec
        /\ b.goal \in ExecutionTerminal => rec.exec = b.exec

\* Only the call that claimed the plan executes and completes it.
Own(c, b) ==
    /\ b.at \in StoreStages /\ b.goal \in ExecutionTerminal => b.exec = c
    /\ b.at \in StoreStages /\ b.goal \in {"succeeded", "blocked", "failed"} => rec.exec = c
    /\ b.at = "binding" => rec.exec # c
    /\ b.at \in {"auditing", "acting", "awaiting"} => rec.state = "executing" /\ rec.exec = c

\* The claim that a call has renamed into place is not claimed over.
Claimed(c, b) ==
    b.at \in {"unlocking", "unlinking", "verifying"} /\ b.goal = "executing" => b.base.rev = 1 /\ rec.exec = c

\* No action was begun.
None == \A a \in Actions : effect[a] = 0

\* Every action was begun once.
All == \A a \in Actions : effect[a] = 1

\* The stages before the first action.
Before(b) == b.at \in {"loading", "binding", "auditing"} \/ (b.at \in StoreStages /\ b.goal = "executing")

\* What has been begun, by the stage of the call that executes the plan.
Account(c, b) ==
    /\ Before(b) => b.done = 0
    /\ Before(b) /\ b.at # "loading" /\ rec.exec = c => None
    /\ b.at = "acting" => \A a \in Actions : effect[a] = IF a <= b.done THEN 1 ELSE 0
    /\ b.at = "awaiting" => \A a \in Actions : effect[a] = IF a <= b.done + 1 THEN 1 ELSE 0
    /\ b.at \in StoreStages /\ b.goal = "succeeded" => All

\* What holds of a call as long as no process has died.
AliveCall(c, b) ==
    /\ b.at \notin {"rechecking", "removing"}
    /\ Fresh(b) /\ Own(c, b) /\ Claimed(c, b) /\ Account(c, b)

\* What the record says of the actions.
Once ==
    /\ rec.exec = "none" => None
    /\ rec.state = "succeeded" => All
    /\ \A a \in Actions : effect[a] <= 1

\* What holds as long as no process has died, so that no lock was removed.
Alive == dead = {} /\ Excl /\ Once /\ \A c \in Calls : AliveCall(c, call[c])

\* The inductive invariant.
IInv == TypeOK /\ Sound /\ (crashes = 0 => Alive)

----------------------------------------------------------------------------
(* Steps of one call that leave record and actions alone *)

\* Such a step, to state b, preserves the invariant when b is sound and the lock
\* stays with its holder.
LEMMA QuietStep ==
    ASSUME IInv, NEW c \in Calls, NEW b \in Call, call' = [call EXCEPT ![c] = b],
           UNCHANGED <<rec, dead, late, binding, effect, crashes>>,
           lock' \in Lock, faults' \in 0..MaxFaults,
           SoundCall(c, b), Alive => AliveCall(c, b),
           Alive /\ b.at \in Critical => lock'.call = c,
           Alive => \A d \in Calls : d # c /\ call[d].at \in Critical => lock'.call = d
    PROVE  IInv'
  <1>1. call'[c] = b /\ \A d \in Calls : d # c => call'[d] = call[d]
    BY DEF IInv, TypeOK
  <1>2. TypeOK'
    BY DEF IInv, TypeOK
  <1>3. Sound'
    BY <1>1 DEF IInv, Sound, SoundCall, Shape, CanTransition
  <1>4. ASSUME crashes = 0 PROVE Alive'
    <2>1. Alive /\ AliveCall(c, b)
      BY <1>4 DEF IInv
    <2>2. \A d \in Calls : AliveCall(d, call'[d])
      BY <1>1, <2>1 DEF Alive
    <2>3. \A d \in Calls : AliveCall(d, call[d])'
      BY <2>2 DEF AliveCall, Fresh, Own, Claimed, Account, Before, None, All
    <2>4. Excl'
      BY <1>1, <2>1 DEF Alive, Excl
    <2>5. dead' = {} /\ Once'
      BY <2>1 DEF Alive, Once, None, All
    <2>6. QED
      BY <2>3, <2>4, <2>5 DEF Alive
  <1>5. QED
    BY <1>2, <1>3, <1>4 DEF IInv

\* The common case: the lock is left alone and the call does not newly hold it.
LEMMA CallStep ==
    ASSUME IInv, NEW c \in Calls, NEW b \in Call, call' = [call EXCEPT ![c] = b],
           UNCHANGED <<rec, lock, dead, late, binding, effect, crashes>>, faults' \in 0..MaxFaults,
           SoundCall(c, b), Alive => AliveCall(c, b),
           b.at \in Critical => call[c].at \in Critical
    PROVE  IInv'
  <1>1. lock' \in Lock
    BY DEF IInv, TypeOK
  <1>2. /\ Alive /\ b.at \in Critical => lock'.call = c
        /\ Alive => \A d \in Calls : d # c /\ call[d].at \in Critical => lock'.call = d
    BY DEF Alive, Excl
  <1>3. QED
    BY <1>1, <1>2, QuietStep

\* What the record of a call becomes when only its stage changes.
LEMMA AtField ==
    ASSUME NEW b \in Call, NEW s \in ServiceStages \cup StoreStages
    PROVE  /\ [b EXCEPT !.at = s] \in Call
           /\ [b EXCEPT !.at = s].at = s /\ [b EXCEPT !.at = s].proc = b.proc
           /\ [b EXCEPT !.at = s].exec = b.exec /\ [b EXCEPT !.at = s].goal = b.goal
           /\ [b EXCEPT !.at = s].base = b.base /\ [b EXCEPT !.at = s].tries = b.tries
           /\ [b EXCEPT !.at = s].done = b.done
  BY DEF Call

\* A call in the service whose stage is s.
LEMMA GotoIs ==
    ASSUME TypeOK, NEW c \in Calls, NEW s, Goto(c, s)
    PROVE  call' = [call EXCEPT ![c] = [call[c] EXCEPT !.at = s]]
  BY DEF TypeOK, Goto

\* The empty record and the empty lock have their types.
LEMMA NoRecordType == NoRecord \in Record /\ NoLock \in Lock
  BY DEF NoRecord, NoLock, Record, Lock, States

\* A call that is not under way.
LEMMA IdleType == IdleCall \in Call /\ IdleCall.at = "idle" /\ IdleCall.done = 0
  <1>1. 0 \in 0..NActions /\ 0 \in 0..3
    BY PlanAssumption
  <1>2. QED
    BY <1>1, NoRecordType DEF IdleCall, Call, Ops, ServiceStages, States

\* Between calls, and while what is left is looked at, nothing is claimed of a call.
LEMMA Resting ==
    ASSUME NEW c, NEW b, b.at \in {"idle", "salvaging"} \/ (b.at = "loading" /\ b.done = 0)
    PROVE  SoundCall(c, b) /\ AliveCall(c, b) /\ b.at \notin Critical
  <1>1. b.at \notin StoreStages /\ b.at \notin Critical
    BY DEF StoreStages, Critical
  <1>2. QED
    BY <1>1 DEF SoundCall, AliveCall, Fresh, Own, Claimed, Account, Before

\* A call ends.
LEMMA EndStep ==
    ASSUME IInv, NEW c \in Calls, End(c), UNCHANGED <<rec, lock, dead, late, binding, effect, crashes>>,
           faults' \in 0..MaxFaults
    PROVE  IInv'
  <1>1. SoundCall(c, IdleCall) /\ AliveCall(c, IdleCall) /\ IdleCall.at \notin Critical
    BY IdleType, Resting
  <1>2. QED
    BY <1>1, IdleType, CallStep DEF End

\* A call in the service, or in the store, gives up: where it goes.
LEMMA FailureState ==
    ASSUME TypeOK, NEW c \in Calls, AfterFailure(c) \/ Goto(c, "salvaging") \/ End(c)
    PROVE  \E b \in Call : /\ call' = [call EXCEPT ![c] = b]
                           /\ SoundCall(c, b) /\ AliveCall(c, b) /\ b.at \notin Critical
  <1> DEFINE b == [call[c] EXCEPT !.at = "salvaging"]
  <1>1. call[c] \in Call /\ "salvaging" \in ServiceStages \cup StoreStages
    BY DEF TypeOK, ServiceStages
  <1>2. b \in Call /\ b.at = "salvaging"
    BY <1>1, AtField
  <1>3. call' = [call EXCEPT ![c] = b] \/ call' = [call EXCEPT ![c] = IdleCall]
    BY GotoIs DEF AfterFailure, End
  <1> HIDE DEF b
  <1>4. SoundCall(c, b) /\ AliveCall(c, b) /\ b.at \notin Critical
    BY <1>2, Resting
  <1>5. SoundCall(c, IdleCall) /\ AliveCall(c, IdleCall) /\ IdleCall.at \notin Critical
    BY IdleType, Resting
  <1>6. QED
    BY <1>2, <1>3, <1>4, <1>5, IdleType

\* Such a step preserves the invariant.
LEMMA FailureStep ==
    ASSUME IInv, NEW c \in Calls, AfterFailure(c) \/ Goto(c, "salvaging") \/ End(c),
           UNCHANGED <<rec, lock, dead, late, binding, effect, crashes>>, faults' \in 0..MaxFaults
    PROVE  IInv'
  <1>1. PICK b \in Call : /\ call' = [call EXCEPT ![c] = b]
                          /\ SoundCall(c, b) /\ AliveCall(c, b) /\ b.at \notin Critical
    BY FailureState DEF IInv
  <1>2. QED
    BY <1>1, CallStep

\* The state of a call that has entered #mutate.
Entered(b, r, e, g) ==
    [b EXCEPT !.at = "linking", !.seen = r, !.exec = e, !.goal = g, !.tries = 0, !.other = NoLock]

\* Revisions of the record.
Revisions == 0..3

\* Executions, by the call that claimed the plan.
Executions == Calls \cup {"none"}

\* What it keeps.
LEMMA EnteredFields ==
    ASSUME NEW b \in Call, NEW r \in Revisions, NEW e \in Executions, NEW g \in States
    PROVE  /\ Entered(b, r, e, g) \in Call
           /\ Entered(b, r, e, g).at = "linking" /\ Entered(b, r, e, g).exec = e
           /\ Entered(b, r, e, g).goal = g /\ Entered(b, r, e, g).done = b.done
  <1>1. NoLock \in Lock /\ 0 \in 0..3 /\ "linking" \in ServiceStages \cup StoreStages
    BY NoRecordType DEF StoreStages
  <1> HIDE DEF NoLock, Lock
  <1>2. QED
    BY <1>1 DEF Entered, Call, Revisions, Executions

\* #mutate is entered with a transition that the call may ask for.
LEMMA MutateStep ==
    ASSUME IInv, NEW c \in Calls, NEW r \in 0..3, NEW e \in Calls \cup {"none"}, NEW g \in States,
           Mutate(c, r, e, g), UNCHANGED <<rec, lock, dead, late, binding, effect, crashes, faults>>,
           g = "executing" => e = c,
           Alive /\ g \in ExecutionTerminal => e = c,
           Alive /\ g \in {"succeeded", "blocked", "failed"} => rec.exec = c,
           Alive /\ g = "executing" => call[c].done = 0 /\ (rec.exec = c => None),
           Alive /\ g = "succeeded" => All
    PROVE  IInv'
  <1> DEFINE b == Entered(call[c], r, e, g)
  <1>1. call[c] \in Call /\ faults' \in 0..MaxFaults
    BY DEF IInv, TypeOK
  <1>2. call' = [call EXCEPT ![c] = b]
    BY DEF Mutate, IInv, TypeOK, Entered
  <1>3. b \in Call /\ b.at = "linking" /\ b.exec = e /\ b.goal = g /\ b.done = call[c].done
    <2>1. r \in Revisions /\ e \in Executions
      BY DEF Revisions, Executions
    <2>2. QED
      BY <1>1, <2>1, EnteredFields
  <1> HIDE DEF b
  <1>4. b.at \notin Critical /\ SoundCall(c, b)
    BY <1>3 DEF Critical, SoundCall
  <1>5. ASSUME Alive PROVE AliveCall(c, b)
    BY <1>3, <1>5 DEF AliveCall, Fresh, Own, Claimed, Account, Before
  <1>6. QED
    BY <1>1, <1>2, <1>3, <1>4, <1>5, CallStep

----------------------------------------------------------------------------
(* The actions *)

\* confirm, cancel and get load the record; bindings are compared.
LEMMA LoadSteps ==
    ASSUME IInv, NEW c \in Calls, LoadConfirm(c) \/ LoadCancel(c) \/ LoadGet(c) \/ CheckBindings(c)
    PROVE  IInv'
  <1>1. /\ UNCHANGED <<rec, lock, dead, late, binding, effect, crashes, faults>>
        /\ call[c] \in Call /\ faults' \in 0..MaxFaults /\ rec.rev \in 0..3
        /\ rec.exec \in Calls \cup {"none"} /\ call[c].seen \in 0..3
    BY DEF IInv, TypeOK, Call, Record, LoadConfirm, LoadCancel, LoadGet, CheckBindings
  <1>2. CASE End(c)
    BY <1>1, <1>2, EndStep
  <1>3. ASSUME NEW g \in {"expired", "cancelled"}, Mutate(c, rec.rev, "none", g)
        PROVE  IInv'
    <2>1. g \in States /\ g \notin ExecutionTerminal /\ g # "executing" /\ "none" \in Calls \cup {"none"}
      BY DEF States, ExecutionTerminal
    <2>2. g \notin {"succeeded", "blocked", "failed"}
      OBVIOUS
    <2>3. QED
      BY <1>1, <1>3, <2>1, <2>2, MutateStep
  <1>4. CASE ownerIsProvablyDead(rec.pid) /\ Mutate(c, rec.rev, rec.exec, "reconciliation_required")
    <2>1. ~Alive
      BY <1>4 DEF Alive, ownerIsProvablyDead
    <2>2. "reconciliation_required" \in States
      BY DEF States, ExecutionTerminal
    <2>3. QED
      BY <1>1, <1>4, <2>1, <2>2, MutateStep
  <1>5. CASE call[c].at = "loading" /\ rec.state = "pending" /\ call' = [call EXCEPT ![c].at = "binding", ![c].seen = rec.rev]
    <2> DEFINE b == [call[c] EXCEPT !.at = "binding", !.seen = rec.rev]
    <2>1. call' = [call EXCEPT ![c] = b]
      BY <1>5 DEF IInv, TypeOK
    <2>2. b \in Call /\ b.at = "binding" /\ b.done = call[c].done
      BY <1>1 DEF Call, ServiceStages
    <2> HIDE DEF b
    <2>3. b.at \notin StoreStages /\ b.at \notin Critical
      BY <2>2 DEF StoreStages, Critical
    <2>4. SoundCall(c, b)
      BY <2>2, <2>3 DEF SoundCall
    <2>5. rec.exec # c
      BY <1>5, PlanAssumption DEF IInv, Sound, Shape, ExecutionTerminal
    <2>6. ASSUME Alive PROVE AliveCall(c, b)
      <3>1. call[c].done = 0
        BY <1>5, <2>6 DEF Alive, AliveCall, Account, Before
      <3>2. QED
        BY <2>2, <2>3, <2>5, <3>1 DEF AliveCall, Fresh, Own, Claimed, Account, Before
    <2>7. QED
      BY <1>1, <2>1, <2>2, <2>3, <2>4, <2>6, CallStep
  <1>6. CASE call[c].at = "binding" /\ Mutate(c, call[c].seen, c, "executing")
    <2>1. Alive => call[c].done = 0 /\ (rec.exec = c => None)
      BY <1>6 DEF Alive, AliveCall, Account, Before
    <2>2. "executing" \in States /\ "executing" \notin ExecutionTerminal /\ c \in Calls \cup {"none"}
      BY DEF States, ExecutionTerminal
    <2>3. QED
      BY <1>1, <1>6, <2>1, <2>2, MutateStep
  <1>7. CASE LoadConfirm(c)
    BY <1>2, <1>3, <1>4, <1>5, <1>7 DEF LoadConfirm, HandleExecuting
  <1>8. CASE LoadCancel(c)
    BY <1>2, <1>3, <1>8 DEF LoadCancel
  <1>9. CASE LoadGet(c)
    BY <1>2, <1>3, <1>9 DEF LoadGet
  <1>10. CASE CheckBindings(c)
    BY <1>2, <1>6, <1>10 DEF CheckBindings
  <1>11. QED
    BY <1>7, <1>8, <1>9, <1>10

\* A call begins.
LEMMA StartStep ==
    ASSUME IInv, NEW c \in Calls, NEW p \in Procs, NEW op \in Ops \ {"none"}, Start(c, p, op)
    PROVE  IInv'
  <1> DEFINE b == [IdleCall EXCEPT !.proc = p, !.op = op, !.at = "loading"]
  <1>1. /\ UNCHANGED <<rec, lock, dead, late, binding, effect, crashes, faults>>
        /\ call' = [call EXCEPT ![c] = b] /\ faults' \in 0..MaxFaults
    BY DEF Start, IInv, TypeOK
  <1>2. b \in Call /\ b.at = "loading" /\ b.done = 0
    <2> HIDE DEF IdleCall
    <2>1. QED
      BY IdleType DEF Call, ServiceStages
  <1> HIDE DEF b
  <1>3. SoundCall(c, b) /\ AliveCall(c, b) /\ b.at \notin Critical
    BY <1>2, Resting
  <1>4. QED
    BY <1>1, <1>2, <1>3, CallStep

\* The state of a call that tries to link the lock again.
Again(b) == [b EXCEPT !.at = "linking", !.tries = b.tries + 1, !.other = NoLock]

\* A lock that has gone, or is taken for stale, is tried again.
LEMMA AgainState ==
    ASSUME IInv, NEW c \in Calls, TryAgain(c), call[c].at \in {"looking", "rechecking", "removing"}
    PROVE  \E b \in Call : /\ call' = [call EXCEPT ![c] = b] /\ b.at \notin Critical
                           /\ SoundCall(c, b) /\ (Alive => AliveCall(c, b))
  <1> DEFINE b == Again(call[c])
  <1>1. call[c] \in Call /\ call[c].tries \in 0..3 /\ call[c].tries < 3
    BY DEF IInv, TypeOK, Call, Sound, SoundCall
  <1>2. call' = [call EXCEPT ![c] = b]
    BY DEF TryAgain, Again, IInv, TypeOK
  <1>3. ASSUME NEW x \in Call, x.tries < 3
        PROVE  /\ Again(x) \in Call /\ Again(x).at = "linking" /\ Again(x).exec = x.exec
               /\ Again(x).goal = x.goal /\ Again(x).done = x.done
    <2>1. x.tries + 1 \in 0..3 /\ NoLock \in Lock
      BY <1>3, NoRecordType DEF Call
    <2> HIDE DEF NoLock, Lock
    <2>2. QED
      BY <1>3, <2>1 DEF Again, Call, StoreStages
  <1>4. b \in Call /\ b.at = "linking" /\ b.exec = call[c].exec /\ b.goal = call[c].goal /\ b.done = call[c].done
    BY <1>1, <1>3, Zenon
  <1> HIDE DEF b
  <1>5. call[c].at \in StoreStages /\ SoundCall(c, call[c])
    BY DEF StoreStages, IInv, Sound
  <1>6. SoundCall(c, b) /\ b.at \notin Critical
    BY <1>4, <1>5 DEF SoundCall, Critical
  <1>7. ASSUME Alive PROVE AliveCall(c, b)
    <2>1. AliveCall(c, call[c])
      BY <1>7 DEF Alive
    <2>2. Fresh(b) /\ Own(c, b) /\ Claimed(c, b)
      BY <1>4, <1>5, <2>1 DEF AliveCall, Fresh, Own, Claimed
    <2>3. Account(c, b)
      BY <1>4, <1>5, <2>1 DEF AliveCall, Account, Before
    <2>4. QED
      BY <1>4, <2>2, <2>3 DEF AliveCall
  <1>8. QED
    BY <1>2, <1>4, <1>6, <1>7

\* A call that moves to another stage of the store with the same goal.
LEMMA StageStep ==
    ASSUME IInv, NEW c \in Calls, NEW s \in StoreStages, Goto(c, s), call[c].at \in StoreStages,
           UNCHANGED <<rec, dead, late, binding, effect, crashes>>, lock' \in Lock, faults' \in 0..MaxFaults,
           Alive => \A d \in Calls : d # c /\ call[d].at \in Critical => lock'.call = d,
           Alive /\ s \in Critical => lock'.call = c,
           s \in {"checking", "renaming"} => call[c].at = "checking",
           s \in {"unlocking", "unlinking", "verifying"} => call[c].at \in {"unlocking", "unlinking"},
           s \in {"looking", "rechecking", "removing"} => call[c].tries < 3,
           Alive => s \notin {"rechecking", "removing"}
    PROVE  IInv'
  <1> DEFINE b == [call[c] EXCEPT !.at = s]
  <1>1. call[c] \in Call /\ s \in ServiceStages \cup StoreStages
    BY DEF IInv, TypeOK
  <1>2. /\ b \in Call /\ b.at = s /\ b.exec = call[c].exec /\ b.goal = call[c].goal
        /\ b.base = call[c].base /\ b.tries = call[c].tries /\ b.done = call[c].done
    BY <1>1, AtField
  <1>3. call' = [call EXCEPT ![c] = b]
    BY GotoIs DEF IInv
  <1> HIDE DEF b
  <1>4. SoundCall(c, call[c]) /\ s # "awaiting"
    BY DEF IInv, Sound, StoreStages
  <1>5. SoundCall(c, b)
    BY <1>2, <1>4 DEF SoundCall
  <1>6. ASSUME Alive PROVE AliveCall(c, b)
    <2>1. AliveCall(c, call[c])
      BY <1>6 DEF Alive
    <2>2. s \notin {"loading", "binding", "auditing", "acting", "awaiting"} /\ call[c].at # "loading"
      BY DEF StoreStages
    <2>3. Fresh(b) /\ Own(c, b) /\ Claimed(c, b)
      BY <1>2, <2>1, <2>2 DEF AliveCall, Fresh, Own, Claimed
    <2>4. Account(c, b)
      BY <1>2, <2>1, <2>2 DEF AliveCall, Account, Before
    <2>5. QED
      BY <1>2, <1>6, <2>3, <2>4 DEF AliveCall
  <1>7. QED
    BY <1>2, <1>3, <1>5, <1>6, QuietStep

\* The lock that a call leaves alone stays with its holder.
LEMMA LockKept ==
    ASSUME IInv, NEW c \in Calls, lock' = lock
    PROVE  /\ lock' \in Lock
           /\ Alive => \A d \in Calls : d # c /\ call[d].at \in Critical => lock'.call = d
           /\ Alive /\ call[c].at \in Critical => lock'.call = c
  BY DEF IInv, TypeOK, Alive, Excl

\* The lock that its holder removes was nobody else's.
LEMMA LockGone ==
    ASSUME IInv, NEW c \in Calls, lock' = NoLock, call[c].at \in Critical
    PROVE  /\ lock' \in Lock
           /\ Alive => \A d \in Calls : d # c /\ call[d].at \in Critical => lock'.call = d
  BY NoRecordType DEF Alive, Excl

\* acquireLock: the lock is linked only when there is none.
LEMMA LinkStep ==
    ASSUME IInv, NEW c \in Calls, LinkLock(c)
    PROVE  IInv'
  <1>1. /\ UNCHANGED <<rec, dead, late, binding, effect, crashes, faults>> /\ faults' \in 0..MaxFaults
        /\ call[c].at = "linking" /\ call[c].at \in StoreStages /\ call[c] \in Call
    BY DEF LinkLock, IInv, TypeOK, StoreStages
  <1>2. CASE lock = NoLock /\ lock' = [call |-> c, pid |-> call[c].proc] /\ Goto(c, "reading")
    <2>1. lock' \in Lock /\ lock'.call = c
      BY <1>1, <1>2 DEF Lock, Call
    <2>2. Alive => \A d \in Calls : d # c /\ call[d].at \in Critical => lock'.call = d
      <3>1. lock.call \notin Calls
        BY <1>2, PlanAssumption DEF NoLock
      <3>2. QED
        BY <3>1 DEF Alive, Excl
    <2>3. "reading" \in StoreStages
      BY DEF StoreStages
    <2>4. QED
      BY <1>1, <1>2, <2>1, <2>2, <2>3, StageStep
  <1>3. CASE call[c].tries < 3 /\ Goto(c, "looking") /\ lock' = lock
    <2>1. "looking" \in StoreStages /\ "looking" \notin Critical
      BY DEF StoreStages, Critical
    <2>2. QED
      BY <1>1, <1>3, <2>1, LockKept, StageStep
  <1>4. CASE AfterFailure(c) /\ lock' = lock
    BY <1>1, <1>4, FailureStep
  <1>5. QED
    BY <1>2, <1>3, <1>4 DEF LinkLock, LinkIsFree

\* The steps on a lock that is in the way: it is taken for stale only when its
\* process has died.
LEMMA StaleSteps ==
    ASSUME IInv, NEW c \in Calls, ReadLock(c) \/ RecheckLock(c) \/ RemoveLock(c)
    PROVE  IInv'
  <1>1. /\ UNCHANGED <<rec, dead, late, binding, effect, crashes, faults>> /\ faults' \in 0..MaxFaults
        /\ call[c].at \in {"looking", "rechecking", "removing"} /\ call[c] \in Call
        /\ call[c].at \in StoreStages /\ lock \in Lock
    BY DEF ReadLock, RecheckLock, RemoveLock, IInv, TypeOK, StoreStages
  <1>2. CASE TryAgain(c) /\ lock' = lock
    <2>1. PICK b \in Call : /\ call' = [call EXCEPT ![c] = b] /\ b.at \notin Critical
                            /\ SoundCall(c, b) /\ (Alive => AliveCall(c, b))
      BY <1>1, <1>2, AgainState
    <2>2. QED
      BY <1>1, <1>2, <2>1, CallStep
  <1>3. CASE AfterFailure(c) /\ lock' = lock
    BY <1>1, <1>3, FailureStep
  <1>4. CASE ReadLock(c) /\ ownerIsProvablyDead(lock.pid) /\ lock' = lock
             /\ call' = [call EXCEPT ![c].at = "rechecking", ![c].other = lock]
    <2> DEFINE b == [call[c] EXCEPT !.at = "rechecking", !.other = lock]
    <2>1. ~Alive /\ call[c].tries < 3 /\ SoundCall(c, call[c])
      BY <1>4 DEF Alive, ownerIsProvablyDead, ReadLock, IInv, Sound, SoundCall
    <2>2. call' = [call EXCEPT ![c] = b]
      BY <1>4 DEF IInv, TypeOK
    <2>3. b \in Call /\ b.at = "rechecking" /\ b.tries = call[c].tries /\ b.goal = call[c].goal /\ b.exec = call[c].exec
      <3> HIDE DEF Lock
      <3>1. QED
        BY <1>1 DEF Call, StoreStages
    <2> HIDE DEF b
    <2>4. SoundCall(c, b) /\ b.at \notin Critical
      BY <1>1, <2>1, <2>3 DEF SoundCall, Critical
    <2>5. QED
      BY <1>1, <1>4, <2>1, <2>2, <2>3, <2>4, CallStep
  <1>5. CASE RecheckLock(c) /\ Goto(c, "removing") /\ lock' = lock
    <2>1. ~Alive /\ call[c].tries < 3
      BY <1>5 DEF RecheckLock, Alive, AliveCall, IInv, Sound, SoundCall
    <2>2. "removing" \in StoreStages /\ "removing" \notin Critical
      BY DEF StoreStages, Critical
    <2>3. QED
      BY <1>1, <1>5, <2>1, <2>2, LockKept, StageStep
  <1>6. CASE RemoveLock(c)
    <2>1. ~Alive /\ TryAgain(c) /\ lock' \in Lock
      BY <1>6, NoRecordType DEF RemoveLock, Alive, AliveCall
    <2>2. PICK b \in Call : /\ call' = [call EXCEPT ![c] = b] /\ b.at \notin Critical
                            /\ SoundCall(c, b) /\ (Alive => AliveCall(c, b))
      BY <1>1, <2>1, AgainState
    <2>3. QED
      BY <1>1, <2>1, <2>2, QuietStep
  <1>7. QED
    BY <1>2, <1>3, <1>4, <1>5, <1>6 DEF ReadLock, RecheckLock

\* The record is read under the lock, and looked at again.
LEMMA ReadSteps ==
    ASSUME IInv, NEW c \in Calls, ReadRecord(c) \/ CheckRecord(c)
    PROVE  IInv'
  <1>1. /\ UNCHANGED <<rec, lock, dead, late, binding, effect, crashes, faults>> /\ faults' \in 0..MaxFaults
        /\ call[c].at \in {"reading", "checking"} /\ call[c] \in Call /\ rec \in Record
        /\ call[c].at \in StoreStages /\ call[c].at \in Critical
    BY DEF ReadRecord, CheckRecord, IInv, TypeOK, StoreStages, Critical
  <1>2. ASSUME NEW s \in {"renaming", "dropping"}, Goto(c, s), s = "renaming" => call[c].at = "checking"
        PROVE  IInv'
    <2>1. s \in StoreStages /\ s \notin {"unlocking", "unlinking", "verifying", "looking", "rechecking", "removing"}
      BY DEF StoreStages
    <2>2. s \in {"checking", "renaming"} => call[c].at = "checking"
      BY <1>2
    <2>3. QED
      BY <1>1, <1>2, <2>1, <2>2, LockKept, StageStep
  <1>3. CASE ReadRecord(c) /\ ~MayStore(c)
    <2>1. call' = [call EXCEPT ![c] = [call[c] EXCEPT !.at = "dropping", !.base = call[c].base]]
      BY <1>3 DEF ReadRecord, IInv, TypeOK
    <2>2. [call[c] EXCEPT !.at = "dropping", !.base = call[c].base] = [call[c] EXCEPT !.at = "dropping"]
      BY <1>1 DEF Call
    <2>3. Goto(c, "dropping")
      BY <2>1, <2>2 DEF Goto, IInv, TypeOK
    <2>4. QED
      BY <1>2, <2>3
  <1>4. CASE ReadRecord(c) /\ MayStore(c)
    <2> DEFINE b == [call[c] EXCEPT !.at = "checking", !.base = rec]
    <2>1. call' = [call EXCEPT ![c] = b] /\ call[c].at = "reading"
      BY <1>4 DEF ReadRecord, IInv, TypeOK
    <2>2. /\ b \in Call /\ b.at = "checking" /\ b.base = rec /\ b.exec = call[c].exec
          /\ b.goal = call[c].goal /\ b.done = call[c].done
      <3> HIDE DEF Record
      <3>1. QED
        BY <1>1 DEF Call, StoreStages
    <2> HIDE DEF b
    <2>3. CanTransition(rec.state, call[c].goal) /\ (call[c].goal \in ExecutionTerminal => rec.exec = call[c].exec)
      BY <1>4 DEF MayStore
    <2>4. SoundCall(c, call[c]) /\ Shape(rec)
      BY DEF IInv, Sound
    <2>5. SoundCall(c, b)
      BY <1>1, <2>2, <2>3, <2>4 DEF SoundCall
    <2>6. ASSUME Alive PROVE AliveCall(c, b)
      <3>1. AliveCall(c, call[c])
        BY <2>6 DEF Alive
      <3>2. Fresh(b)
        BY <2>2, <2>3 DEF Fresh
      <3>3. Own(c, b) /\ Claimed(c, b)
        BY <1>1, <2>2, <3>1 DEF AliveCall, Own, Claimed
      <3>4. Account(c, b)
        BY <1>1, <2>2, <3>1 DEF AliveCall, Account, Before
      <3>5. QED
        BY <2>2, <3>2, <3>3, <3>4 DEF AliveCall
    <2>7. QED
      BY <1>1, <2>1, <2>2, <2>5, <2>6, CallStep
  <1>5. CASE CheckRecord(c)
    BY <1>2, <1>5 DEF CheckRecord
  <1>6. QED
    BY <1>3, <1>4, <1>5

\* releaseLock.
LEMMA ReleaseSteps ==
    ASSUME IInv, NEW c \in Calls, CheckLock(c) \/ UnlinkLock(c)
    PROVE  IInv'
  <1>1. /\ UNCHANGED <<rec, dead, late, binding, effect, crashes, faults>> /\ faults' \in 0..MaxFaults
        /\ call[c].at \in {"unlocking", "dropping", "unlinking", "undoing"} /\ call[c] \in Call
        /\ call[c].at \in StoreStages /\ call[c].at \in Critical
    BY DEF CheckLock, UnlinkLock, IInv, TypeOK, StoreStages, Critical
  <1>2. ASSUME NEW s \in {"unlinking", "undoing"}, Goto(c, s), lock' = lock, s = "unlinking" => call[c].at = "unlocking"
        PROVE  IInv'
    <2>1. s \in StoreStages /\ s \notin {"checking", "renaming", "looking", "rechecking", "removing"}
      BY DEF StoreStages
    <2>2. s \in {"unlocking", "unlinking", "verifying"} => call[c].at \in {"unlocking", "unlinking"}
      BY <1>2
    <2>3. QED
      BY <1>1, <1>2, <2>1, <2>2, LockKept, StageStep
  <1>3. CASE AfterFailure(c) /\ lock' = lock
    BY <1>1, <1>3, FailureStep
  <1>4. CASE CheckLock(c)
    BY <1>2, <1>3, <1>4 DEF CheckLock
  <1>5. CASE UnlinkLock(c) /\ call[c].at = "unlinking"
    <2>1. "verifying" \in StoreStages /\ "verifying" \notin Critical
      BY DEF StoreStages, Critical
    <2>2. Goto(c, "verifying") /\ lock' = NoLock
      BY <1>5 DEF UnlinkLock
    <2>3. QED
      BY <1>1, <1>5, <2>1, <2>2, LockGone, StageStep
  <1>6. CASE UnlinkLock(c) /\ call[c].at # "unlinking"
    <2>1. PICK b \in Call : /\ call' = [call EXCEPT ![c] = b]
                            /\ SoundCall(c, b) /\ AliveCall(c, b) /\ b.at \notin Critical
      BY <1>6, FailureState DEF UnlinkLock, IInv
    <2>2. lock' = NoLock
      BY <1>6 DEF UnlinkLock
    <2>3. QED
      BY <1>1, <2>1, <2>2, LockGone, QuietStep
  <1>7. QED
    BY <1>4, <1>5, <1>6

\* A call that goes on to another stage of its execution.
LEMMA ServeStep ==
    ASSUME IInv, NEW c \in Calls, NEW b \in Call, call' = [call EXCEPT ![c] = b],
           UNCHANGED <<rec, lock, dead, late, binding, effect, crashes, faults>>,
           b.at \in {"auditing", "acting"},
           Alive => /\ rec.state = "executing" /\ rec.exec = c
                    /\ b.at = "auditing" => b.done = 0 /\ None
                    /\ b.at = "acting" => \A a \in Actions : effect[a] = IF a <= b.done THEN 1 ELSE 0
    PROVE  IInv'
  <1>1. b.at \notin StoreStages /\ b.at \notin Critical /\ faults' \in 0..MaxFaults
    BY DEF StoreStages, Critical, IInv, TypeOK
  <1>2. SoundCall(c, b)
    BY <1>1 DEF SoundCall
  <1>3. ASSUME Alive PROVE AliveCall(c, b)
    BY <1>1, <1>3 DEF AliveCall, Fresh, Own, Claimed, Account, Before
  <1>4. QED
    BY <1>1, <1>2, <1>3, CallStep

\* A claim that is verified to be in place goes on to execute.
LEMMA VerifyStep ==
    ASSUME IInv, NEW c \in Calls, VerifyRecord(c)
    PROVE  IInv'
  <1>1. /\ UNCHANGED <<rec, lock, dead, late, binding, effect, crashes, faults>> /\ faults' \in 0..MaxFaults
        /\ call[c].at = "verifying" /\ call[c] \in Call /\ rec \in Record /\ rec.rev \in 0..3
        /\ call[c].at \in StoreStages
    BY DEF VerifyRecord, IInv, TypeOK, StoreStages, Record
  <1>2. CASE AfterFailure(c) \/ End(c)
    BY <1>1, <1>2, FailureStep
  <1>3. CASE /\ rec.rev = call[c].base.rev + 1 /\ call[c].goal = "executing"
             /\ call' = [call EXCEPT ![c].at = "auditing", ![c].seen = rec.rev]
    <2> DEFINE b == [call[c] EXCEPT !.at = "auditing", !.seen = rec.rev]
    <2>1. call' = [call EXCEPT ![c] = b]
      BY <1>3 DEF IInv, TypeOK
    <2>2. b \in Call /\ b.at = "auditing" /\ b.done = call[c].done
      BY <1>1 DEF Call, ServiceStages
    <2> HIDE DEF b
    <2>3. ASSUME Alive PROVE rec.state = "executing" /\ rec.exec = c /\ b.done = 0 /\ None
      <3>1. call[c].base.rev = 1 /\ rec.exec = c /\ call[c].done = 0 /\ None
        BY <1>1, <1>3, <2>3 DEF Alive, AliveCall, Claimed, Account, Before
      <3>2. rec.rev = 2 /\ rec.exec # "none"
        BY <1>3, <3>1, PlanAssumption
      <3>3. rec.state = "executing"
        BY <3>2 DEF IInv, Sound, Shape, ExecutionTerminal
      <3>4. QED
        BY <2>2, <3>1, <3>3
    <2>4. QED
      BY <1>1, <2>1, <2>2, <2>3, ServeStep
  <1>4. QED
    BY <1>2, <1>3 DEF VerifyRecord

\* The audit, the outcome of an action, the end of the loop.
LEMMA ExecuteSteps ==
    ASSUME IInv, NEW c \in Calls,
           \/ Audit(c) \/ Complete(c)
           \/ \E outcome \in {"succeeded", "blocked", "failed"} : EndAction(c, outcome)
    PROVE  IInv'
  <1>1. /\ UNCHANGED <<rec, lock, dead, late, binding, effect, crashes, faults>>
        /\ call[c] \in Call /\ call[c].at \in {"auditing", "acting", "awaiting"}
        /\ call[c].done \in 0..NActions /\ NActions \in Nat /\ call[c].seen \in 0..3
        /\ c \in Calls \cup {"none"} /\ Actions = 1..NActions
    BY PlanAssumption DEF Audit, Complete, EndAction, IInv, TypeOK, Call, Actions
  <1>2. Alive => rec.state = "executing" /\ rec.exec = c
    BY <1>1 DEF Alive, AliveCall, Own
  <1>3. CASE Audit(c)
    <2> DEFINE b == [call[c] EXCEPT !.at = "acting"]
    <2>1. call' = [call EXCEPT ![c] = b] /\ "acting" \in ServiceStages \cup StoreStages
      BY <1>3, GotoIs DEF Audit, IInv, ServiceStages
    <2>2. b \in Call /\ b.at = "acting" /\ b.done = call[c].done
      BY <1>1, <2>1, AtField
    <2> HIDE DEF b
    <2>3. ASSUME Alive PROVE \A a \in Actions : effect[a] = IF a <= b.done THEN 1 ELSE 0
      <3>1. call[c].done = 0 /\ None
        BY <1>2, <1>3, <2>3 DEF Audit, Alive, AliveCall, Account, Before
      <3>2. QED
        BY <1>1, <2>2, <3>1 DEF None
    <2>4. QED
      BY <1>1, <1>2, <2>1, <2>2, <2>3, ServeStep
  <1>4. ASSUME NEW g \in {"succeeded", "blocked", "failed"}, Mutate(c, call[c].seen, c, g), Alive /\ g = "succeeded" => All
        PROVE  IInv'
    <2>1. g \in States /\ g # "executing"
      BY DEF States, ExecutionTerminal
    <2>2. QED
      BY <1>1, <1>2, <1>4, <2>1, MutateStep
  <1>5. CASE Complete(c)
    <2>1. Alive => All
      BY <1>1, <1>5 DEF Complete, AllDone, Alive, AliveCall, Account, All
    <2>2. QED
      BY <1>4, <1>5, <2>1 DEF Complete
  <1>6. ASSUME NEW outcome \in {"succeeded", "blocked", "failed"}, EndAction(c, outcome)
        PROVE  IInv'
    <2>1. CASE outcome # "succeeded"
      BY <1>4, <1>6, <2>1 DEF EndAction
    <2>2. CASE outcome = "succeeded"
      <3> DEFINE n == call[c].done + 1
                 b == [call[c] EXCEPT !.at = "acting", !.done = n]
      <3>1. call' = [call EXCEPT ![c] = b] /\ call[c].at = "awaiting"
        BY <1>6, <2>2 DEF EndAction, IInv, TypeOK
      <3>2. n \in 0..NActions
        BY <1>1, <3>1 DEF IInv, Sound, SoundCall
      <3>3. Alive => \A a \in Actions : effect[a] = IF a <= n THEN 1 ELSE 0
        BY <3>1 DEF Alive, AliveCall, Account
      <3> HIDE DEF n
      <3>4. b \in Call /\ b.at = "acting" /\ b.done = n
        BY <1>1, <3>2 DEF Call, ServiceStages
      <3> HIDE DEF b
      <3>5. QED
        BY <1>1, <1>2, <3>1, <3>3, <3>4, ServeStep
    <2>3. QED
      BY <2>1, <2>2
  <1>7. QED
    BY <1>3, <1>5, <1>6

\* The catch blocks of confirm.
LEMMA SalvageStep ==
    ASSUME IInv, NEW c \in Calls, Salvage(c)
    PROVE  IInv'
  <1>1. /\ UNCHANGED <<rec, lock, dead, late, binding, effect, crashes, faults>> /\ faults' \in 0..MaxFaults
        /\ rec.rev \in 0..3 /\ rec.exec \in Calls \cup {"none"}
    BY DEF Salvage, IInv, TypeOK, Record
  <1>2. CASE MustReconcile(c) /\ Mutate(c, rec.rev, rec.exec, "reconciliation_required")
    <2>1. rec.exec = c /\ "reconciliation_required" \in States
      BY <1>2 DEF MustReconcile, States, ExecutionTerminal
    <2>2. QED
      BY <1>1, <1>2, <2>1, MutateStep
  <1>3. QED
    BY <1>1, <1>2, EndStep DEF Salvage

\* File operations that fail, and executions that are given up.
LEMMA FaultSteps ==
    ASSUME IInv, NEW c \in Calls, StoreFails(c) \/ ExecutionFails(c)
    PROVE  IInv'
  <1>1. /\ UNCHANGED <<rec, lock, dead, late, binding, effect, crashes>> /\ faults' \in 0..MaxFaults
    BY PlanAssumption DEF StoreFails, ExecutionFails, Fault, IInv, TypeOK
  <1>2. CASE AfterFailure(c) \/ Goto(c, "salvaging") \/ End(c)
    BY <1>1, <1>2, FailureStep
  <1>3. CASE call[c].at \in {"reading", "checking", "renaming", "unlocking"} /\ Goto(c, "dropping")
    <2>1. "dropping" \in StoreStages /\ call[c].at \in StoreStages /\ call[c].at \in Critical
      BY <1>3 DEF StoreStages, Critical
    <2>2. QED
      BY <1>1, <1>3, <2>1, LockKept, StageStep
  <1>4. QED
    BY <1>2, <1>3 DEF StoreFails, ExecutionFails

\* The removal of a lock that fails: it was the caller's own, or that of a dead process.
LEMMA RemovalStep ==
    ASSUME IInv, NEW c \in Calls, RemovalFails(c)
    PROVE  IInv'
  <1>1. /\ UNCHANGED <<rec, dead, late, binding, effect, crashes>> /\ faults' \in 0..MaxFaults
        /\ call[c].at \in {"removing", "unlinking", "undoing"} /\ call[c].at \in StoreStages
        /\ Alive => call[c].at # "removing"
    BY PlanAssumption DEF RemovalFails, Fault, IInv, TypeOK, StoreStages, Alive, AliveCall
  <1>2. CASE AfterFailure(c) /\ lock' = lock
    BY <1>1, <1>2, FailureStep
  <1>3. CASE AfterFailure(c) /\ lock' = NoLock
    <2>1. PICK b \in Call : /\ call' = [call EXCEPT ![c] = b]
                            /\ SoundCall(c, b) /\ AliveCall(c, b) /\ b.at \notin Critical
      BY <1>3, FailureState DEF IInv
    <2>2. Alive => call[c].at \in Critical
      BY <1>1 DEF Critical
    <2>3. lock' \in Lock
      BY <1>3, NoRecordType
    <2>4. Alive => \A d \in Calls : d # c /\ call[d].at \in Critical => lock'.call = d
      BY <1>3, <2>2, LockGone
    <2>5. QED
      BY <1>1, <2>1, <2>3, <2>4, QuietStep
  <1>4. CASE call[c].at = "unlinking" /\ Goto(c, "dropping") /\ lock' = lock
    <2>1. "dropping" \in StoreStages /\ call[c].at \in Critical
      BY <1>4 DEF StoreStages, Critical
    <2>2. QED
      BY <1>1, <1>4, <2>1, LockKept, StageStep
  <1>5. QED
    BY <1>2, <1>3, <1>4 DEF RemovalFails

----------------------------------------------------------------------------
(* The steps that move the record or begin an action *)

\* What the record may become.
GraphStep == rec' # rec => \/ rec.state = "absent"
                           \/ CanTransition(rec.state, rec'.state) /\ rec'.rev = rec.rev + 1

\* The record that call c is about to rename into place.
LEMMA NextFields ==
    ASSUME IInv, NEW c \in Calls, call[c].at = "renaming"
    PROVE  /\ NextRecord(c) \in Record /\ Shape(NextRecord(c))
           /\ NextRecord(c).state = call[c].goal /\ NextRecord(c).rev = call[c].base.rev + 1
           /\ NextRecord(c).exec = IF call[c].goal = "executing" THEN c ELSE call[c].base.exec
  <1> DEFINE base == call[c].base
             g == call[c].goal
             claim == g = "executing"
             e == IF claim THEN call[c].exec ELSE base.exec
             p == IF claim THEN call[c].proc ELSE base.pid
             n == [base EXCEPT !.state = g, !.rev = base.rev + 1, !.writer = c, !.exec = e, !.pid = p]
  <1>1. call[c] \in Call /\ base \in Record /\ g \in States
    BY DEF IInv, TypeOK, Call
  <1>2. Shape(base) /\ CanTransition(base.state, g) /\ (claim => call[c].exec = c)
    BY DEF IInv, Sound, SoundCall, StoreStages
  <1>3. base.rev \in {1, 2} /\ base.rev + 1 \in 0..3 /\ (base.rev = 1 <=> base.state = "pending")
    BY <1>2 DEF Shape, CanTransition
  <1>4. e \in Calls \cup {"none"} /\ p \in Procs \cup {"none"}
    BY <1>1 DEF Call, Record
  <1>5. NextRecord(c) = n
    BY DEF NextRecord
  <1>6. e = IF claim THEN c ELSE base.exec
    BY <1>2
  <1>7. \/ base.state = "pending" /\ g \in {"executing", "cancelled", "expired"} /\ base.rev = 1
        \/ base.state = "executing" /\ g \in ExecutionTerminal /\ base.rev = 2
    BY <1>2 DEF Shape, CanTransition
  <1>8. /\ base.state = "pending" => base.exec = "none"
        /\ base.state = "executing" => base.exec # "none"
    BY <1>2 DEF Shape, ExecutionTerminal
  <1> HIDE DEF base, g, e, p
  <1>9. n \in Record /\ n.state = g /\ n.rev = base.rev + 1 /\ n.exec = e
    BY <1>1, <1>3, <1>4 DEF Record
  <1> HIDE DEF n
  <1>10. Shape(n)
    BY <1>6, <1>7, <1>8, <1>9, PlanAssumption DEF Shape, ExecutionTerminal
  <1>11. QED
    BY <1>5, <1>6, <1>9, <1>10 DEF base, g

\* The rename: the holder of the lock moves the record it has read.
LEMMA RenameStep ==
    ASSUME IInv, NEW c \in Calls, RenameRecord(c)
    PROVE  IInv' /\ (crashes = 0 => GraphStep)
  <1> DEFINE b == [call[c] EXCEPT !.at = "unlocking"]
             g == call[c].goal
  <1>1. /\ UNCHANGED <<lock, dead, late, binding, effect, crashes, faults>> /\ rec' = NextRecord(c)
        /\ call[c].at = "renaming" /\ call[c] \in Call /\ "unlocking" \in ServiceStages \cup StoreStages
        /\ call[c].at \in Critical /\ call[c].at \in StoreStages
    BY DEF RenameRecord, IInv, TypeOK, StoreStages, Critical
  <1>2. /\ rec' \in Record /\ Shape(rec') /\ rec'.state = g /\ rec'.rev = call[c].base.rev + 1
        /\ rec'.exec = IF g = "executing" THEN c ELSE call[c].base.exec
    BY <1>1, NextFields
  <1>3. /\ b \in Call /\ b.at = "unlocking" /\ b.exec = call[c].exec /\ b.goal = g
        /\ b.base = call[c].base /\ b.done = call[c].done
    BY <1>1, AtField
  <1>4. call' = [call EXCEPT ![c] = b]
    BY GotoIs DEF RenameRecord, IInv
  <1> HIDE DEF b
  <1>5. call'[c] = b /\ \A d \in Calls : d # c => call'[d] = call[d]
    BY <1>4 DEF IInv, TypeOK
  <1>6. TypeOK'
    BY <1>1, <1>2, <1>3, <1>4 DEF IInv, TypeOK
  <1>7. SoundCall(c, call[c]) /\ CanTransition(call[c].base.state, g) /\ Shape(call[c].base)
    BY <1>1 DEF IInv, Sound, SoundCall
  <1>8. Sound'
    <2>1. SoundCall(c, b)
      BY <1>1, <1>3, <1>7 DEF SoundCall
    <2>2. QED
      BY <1>2, <1>5, <2>1 DEF IInv, Sound, SoundCall, Shape, CanTransition
  <1>9. ASSUME crashes = 0 PROVE Alive' /\ GraphStep
    <2>1. Alive /\ AliveCall(c, call[c]) /\ call[c].base = rec /\ Once
      BY <1>1, <1>9 DEF IInv, Alive, AliveCall, Fresh
    <2>2. \/ rec.state = "pending" /\ g \in {"executing", "cancelled", "expired"} /\ rec.rev = 1 /\ rec.exec = "none"
          \/ rec.state = "executing" /\ g \in ExecutionTerminal /\ rec.exec = c
      <3>1. g \in ExecutionTerminal => rec.exec = c
        BY <1>1, <2>1 DEF AliveCall, Fresh, Own
      <3>2. QED
        BY <1>7, <2>1, <3>1 DEF CanTransition, Shape, ExecutionTerminal
    <2>3. rec'.exec = IF g = "executing" THEN c ELSE rec.exec
      BY <1>2, <2>1
    <2>4. \A d \in Calls : d # c => call[d].at \notin Critical
      BY <1>1, <2>1 DEF Alive, Excl
    <2>5. ASSUME NEW d \in Calls, d # c PROVE AliveCall(d, call[d])'
      <3> DEFINE x == call[d]
      <3>1. x.at \notin Critical /\ AliveCall(d, x) /\ call'[d] = x
        BY <1>5, <2>1, <2>4, <2>5 DEF Alive
      <3>2. (rec'.exec = d <=> rec.exec = d) /\ d # "none" /\ rec.exec \in {"none", c}
        BY <2>2, <2>3, <2>5, PlanAssumption DEF ExecutionTerminal
      <3>3. rec.exec # d
        BY <2>5, <3>2
      <3> HIDE DEF x
      <3>4. x.at \notin {"checking", "renaming"}
        BY <3>1 DEF Critical
      <3>5. Fresh(call[d])' /\ Own(d, call[d])' /\ Claimed(d, call[d])'
        BY <3>1, <3>2, <3>3, <3>4 DEF AliveCall, Fresh, Own, Claimed
      <3>6. Account(d, call[d])'
        BY <1>1, <3>1, <3>2, <3>3 DEF AliveCall, Account, Before, None, All
      <3>7. QED
        BY <3>1, <3>5, <3>6 DEF AliveCall
    <2>6. AliveCall(c, call[c])'
      <3>1. g = "executing" => rec.exec = "none" /\ rec.rev = 1 /\ call[c].exec = c /\ call[c].done = 0
        BY <1>1, <1>7, <2>1, <2>2 DEF SoundCall, AliveCall, Account, Before, ExecutionTerminal
      <3>2. Fresh(call[c])'
        BY <1>3, <1>5 DEF Fresh
      <3>3. Claimed(c, call[c])'
        BY <1>3, <1>5, <2>1, <2>3, <3>1 DEF Claimed
      <3>4. g \in ExecutionTerminal => rec'.exec = c /\ call[c].exec = c
        BY <1>1, <2>1, <2>2, <2>3 DEF AliveCall, Own, ExecutionTerminal
      <3>5. Own(c, call[c])'
        BY <1>3, <1>5, <3>4 DEF Own, ExecutionTerminal
      <3>6. g = "succeeded" => All
        BY <1>1, <2>1 DEF AliveCall, Account
      <3>7. g = "executing" => None
        BY <2>1, <3>1 DEF Once
      <3>8. Account(c, call[c])'
        BY <1>1, <1>3, <1>5, <3>1, <3>6, <3>7 DEF Account, Before, None, All
      <3>9. QED
        BY <1>3, <1>5, <3>2, <3>3, <3>5, <3>8 DEF AliveCall
    <2>7. Excl'
      BY <1>1, <1>5, <2>1, <2>4 DEF Alive, Excl
    <2>8. Once'
      <3>1. rec'.exec = "none" => rec.exec = "none"
        BY <2>3, PlanAssumption
      <3>2. g = "succeeded" => All
        BY <1>1, <2>1 DEF AliveCall, Account
      <3>3. QED
        BY <1>1, <1>2, <2>1, <3>1, <3>2 DEF Once, None, All
    <2>9. GraphStep
      BY <1>2, <1>7, <2>1 DEF GraphStep
    <2>10. QED
      BY <1>1, <2>1, <2>5, <2>6, <2>7, <2>8, <2>9 DEF Alive
  <1>10. QED
    BY <1>1, <1>6, <1>8, <1>9 DEF IInv

\* An action is begun by the call that the record names.
LEMMA BeginStep ==
    ASSUME IInv, NEW c \in Calls, BeginAction(c)
    PROVE  IInv'
  <1> DEFINE b == [call[c] EXCEPT !.at = "awaiting"]
             n == call[c].done
  <1>1. /\ UNCHANGED <<rec, lock, dead, late, binding, crashes, faults>>
        /\ effect' = [effect EXCEPT ![n + 1] = @ + 1] /\ effect \in [Actions -> Nat]
        /\ call[c].at = "acting" /\ call[c] \in Call /\ "awaiting" \in ServiceStages \cup StoreStages
        /\ n \in Nat /\ n < NActions /\ NActions \in Nat /\ Actions = 1..NActions
    BY PlanAssumption DEF BeginAction, IInv, TypeOK, ServiceStages, Call, Actions
  <1>2. b \in Call /\ b.at = "awaiting" /\ b.done = n
    BY <1>1, AtField
  <1>3. call' = [call EXCEPT ![c] = b]
    BY GotoIs DEF BeginAction, IInv
  <1> HIDE DEF b, n
  <1>4. call'[c] = b /\ \A d \in Calls : d # c => call'[d] = call[d]
    BY <1>3 DEF IInv, TypeOK
  <1>5. /\ effect' \in [Actions -> Nat] /\ n + 1 \in Actions
        /\ \A a \in Actions : effect'[a] = IF a = n + 1 THEN effect[a] + 1 ELSE effect[a]
    BY <1>1
  <1>6. TypeOK'
    BY <1>1, <1>2, <1>3, <1>5 DEF IInv, TypeOK
  <1>7. b.at \notin StoreStages /\ b.at \notin Critical
    BY <1>2 DEF StoreStages, Critical
  <1>8. Sound'
    <2>1. SoundCall(c, b)
      BY <1>1, <1>2, <1>7 DEF SoundCall
    <2>2. QED
      <3>1. ASSUME NEW d \in Calls PROVE SoundCall(d, call'[d])
        BY <1>4, <2>1, Zenon DEF IInv, Sound
      <3>2. Shape(rec)
        BY DEF IInv, Sound
      <3>3. QED
        BY <1>1, <3>1, <3>2 DEF Sound, SoundCall, Shape, CanTransition
  <1>9. ASSUME crashes = 0 PROVE Alive'
    <2>1. Alive /\ AliveCall(c, call[c]) /\ rec.state = "executing" /\ rec.exec = c
      BY <1>1, <1>9 DEF IInv, Alive, AliveCall, Own
    <2>2. \A a \in Actions : effect[a] = IF a <= n THEN 1 ELSE 0
      BY <1>1, <2>1 DEF AliveCall, Account, n
    <2>3. \A a \in Actions : effect'[a] = IF a <= n + 1 THEN 1 ELSE 0
      BY <1>1, <1>5, <2>2
    <2>4. ASSUME NEW d \in Calls, d # c PROVE AliveCall(d, call[d])'
      <3>1. AliveCall(d, call[d]) /\ call'[d] = call[d] /\ rec.exec # d /\ rec' = rec
        BY <1>1, <1>4, <2>1, <2>4 DEF Alive
      <3>2. Fresh(call[d])' /\ Own(d, call[d])' /\ Claimed(d, call[d])'
        BY <3>1 DEF AliveCall, Fresh, Own, Claimed
      <3>3. Account(d, call[d])'
        BY <3>1 DEF AliveCall, Own, Account, Before
      <3>4. QED
        BY <3>1, <3>2, <3>3 DEF AliveCall
    <2>5. AliveCall(c, call[c])'
      <3>1. Account(c, call[c])'
        BY <1>2, <1>4, <1>7, <2>3 DEF Account, Before
      <3>2. Fresh(call[c])' /\ Own(c, call[c])' /\ Claimed(c, call[c])'
        BY <1>1, <1>2, <1>4, <1>7, <2>1 DEF Fresh, Own, Claimed
      <3>3. QED
        BY <1>2, <1>4, <3>1, <3>2 DEF AliveCall
    <2>6. Once'
      <3>1. rec'.exec # "none" /\ rec'.state # "succeeded"
        BY <1>1, <2>1, PlanAssumption
      <3>2. \A a \in Actions : effect'[a] <= 1
        BY <1>1, <2>3
      <3>3. QED
        BY <3>1, <3>2 DEF Once
    <2>7. Excl' /\ dead' = {}
      BY <1>1, <1>4, <1>7, <2>1 DEF Alive, Excl
    <2>8. QED
      BY <2>4, <2>5, <2>6, <2>7 DEF Alive
  <1>10. QED
    BY <1>1, <1>6, <1>8, <1>9 DEF IInv

\* The plan is previewed: its record is there, claimed by nobody.
LEMMA PreviewStep ==
    ASSUME IInv, NEW p \in Procs, Preview(p)
    PROVE  IInv' /\ GraphStep
  <1>1. /\ UNCHANGED <<lock, call, dead, late, binding, effect, crashes, faults>>
        /\ rec' \in Record /\ rec'.state = "pending" /\ rec'.rev = 1 /\ rec'.exec = "none"
        /\ rec.state = "absent" /\ rec.exec = "none"
    <2>1. UNCHANGED <<lock, call, dead, late, binding, effect, crashes, faults>> /\ rec.state = "absent"
      BY DEF Preview
    <2>2. rec' = [NoRecord EXCEPT !.state = "pending", !.rev = 1, !.home = p]
      BY DEF Preview
    <2>3. rec' \in Record /\ rec'.state = "pending" /\ rec'.rev = 1 /\ rec'.exec = "none"
      <3>1. rec' = [state |-> "pending", rev |-> 1, home |-> p, exec |-> "none", pid |-> "none", writer |-> "none"]
        BY <2>2 DEF NoRecord
      <3>2. "pending" \in States /\ 1 \in 0..3 /\ p \in Procs \cup {"none"}
        BY DEF States
      <3>3. QED
        BY <3>1, <3>2 DEF Record
    <2>4. rec.exec = "none"
      BY <2>1 DEF IInv, Sound, Shape, ExecutionTerminal
    <2>5. QED
      BY <2>1, <2>3, <2>4
  <1>2. GraphStep
    BY <1>1 DEF GraphStep
  <1>3. TypeOK'
    BY <1>1 DEF IInv, TypeOK
  <1>4. Sound'
    <2>1. Shape(rec)'
      BY <1>1 DEF Shape, ExecutionTerminal
    <2>2. QED
      BY <1>1, <2>1 DEF IInv, Sound, SoundCall, Shape, CanTransition
  <1>5. ASSUME crashes = 0 PROVE Alive'
    <2>1. Alive
      BY <1>5 DEF IInv
    <2>2. ASSUME NEW c \in Calls PROVE AliveCall(c, call[c])'
      <3>1. AliveCall(c, call[c]) /\ SoundCall(c, call[c]) /\ call'[c] = call[c] /\ c # "none"
        BY <1>1, <2>1, PlanAssumption DEF Alive, IInv, Sound
      <3>2. call[c].at \notin {"checking", "renaming"}
        BY <1>1, <3>1 DEF AliveCall, Fresh, SoundCall, CanTransition
      <3>3. Fresh(call[c])' /\ Own(c, call[c])' /\ Claimed(c, call[c])'
        BY <1>1, <3>1, <3>2 DEF AliveCall, Fresh, Own, Claimed
      <3>4. Account(c, call[c])'
        BY <1>1, <3>1 DEF AliveCall, Account, Before, None, All
      <3>5. QED
        BY <3>1, <3>3, <3>4 DEF AliveCall
    <2>3. Excl' /\ Once' /\ dead' = {}
      BY <1>1, <2>1 DEF Alive, Excl, Once, None, All
    <2>4. QED
      BY <2>2, <2>3 DEF Alive
  <1>6. QED
    BY <1>1, <1>2, <1>3, <1>4, <1>5 DEF IInv

\* A process dies: its calls end.
LEMMA CrashStep ==
    ASSUME IInv, NEW p \in Procs, Crash(p)
    PROVE  IInv'
  <1>1. /\ UNCHANGED <<rec, lock, late, binding, effect, faults>> /\ dead' \subseteq Procs
        /\ crashes' \in 0..MaxCrashes /\ crashes' # 0
        /\ call' = [c \in Calls |-> IF call[c].proc = p THEN IdleCall ELSE call[c]]
    BY PlanAssumption DEF Crash, IInv, TypeOK
  <1>2. \A c \in Calls : call'[c] = IdleCall \/ call'[c] = call[c]
    BY <1>1
  <1>3. call' \in [Calls -> Call]
    BY <1>1, IdleType DEF IInv, TypeOK
  <1>4. TypeOK'
    BY <1>1, <1>3 DEF IInv, TypeOK
  <1>5. \A c \in Calls : SoundCall(c, call'[c])
    BY <1>2, IdleType, Resting DEF IInv, Sound
  <1>6. Sound'
    BY <1>1, <1>5 DEF IInv, Sound, SoundCall, Shape, CanTransition
  <1>7. QED
    BY <1>1, <1>4, <1>6 DEF IInv

\* Time passes, or a binding changes: neither is part of the invariant.
LEMMA OutsideStep ==
    ASSUME IInv, UNCHANGED <<rec, lock, call, dead, effect, crashes, faults>>,
           late' \in {"no", "yes"}, binding' \in {"same", "changed"}
    PROVE  IInv'
  <1>1. TypeOK'
    BY DEF IInv, TypeOK
  <1>2. Sound'
    BY DEF IInv, Sound, SoundCall, Shape, CanTransition
  <1>3. Alive => Alive'
    BY DEF Alive, Excl, Once, AliveCall, Fresh, Own, Claimed, Account, Before, None, All
  <1>4. QED
    BY <1>1, <1>2, <1>3 DEF IInv

\* The invariant holds before the preview.
LEMMA InitInv == Init => IInv
  <1> SUFFICES ASSUME Init PROVE IInv
    OBVIOUS
  <1>1. \A c \in Calls : call[c] = IdleCall /\ call[c].at \notin Critical
    BY IdleType, Resting DEF Init
  <1>2. TypeOK
    BY PlanAssumption, IdleType, NoRecordType DEF Init, TypeOK
  <1>3. Sound
    <2>1. Shape(rec)
      BY DEF Init, NoRecord, Shape, ExecutionTerminal
    <2>2. QED
      BY <1>1, <2>1, IdleType, Resting DEF Sound
  <1>4. Alive
    <2>1. Once
      BY DEF Init, NoRecord, Once, None, All
    <2>2. QED
      BY <1>1, <2>1, IdleType, Resting DEF Init, Alive, Excl
  <1>5. QED
    BY <1>2, <1>3, <1>4 DEF IInv

\* Every step preserves it, and while no process has died the record moves
\* along the state graph.
LEMMA StepInv ==
    ASSUME IInv, [Next]_vars
    PROVE  IInv' /\ (crashes = 0 => GraphStep)
  <1>1. ASSUME IInv', rec' = rec PROVE IInv' /\ (crashes = 0 => GraphStep)
    BY <1>1 DEF GraphStep
  <1>2. ASSUME NEW p \in Procs, Preview(p) \/ Crash(p) PROVE IInv' /\ (crashes = 0 => GraphStep)
    BY <1>1, <1>2, PreviewStep, CrashStep DEF Crash
  <1>3. ASSUME NEW c \in Calls, NEW p \in Procs, NEW op \in Ops \ {"none"}, Start(c, p, op)
        PROVE  IInv' /\ (crashes = 0 => GraphStep)
    BY <1>1, <1>3, StartStep DEF Start
  <1>4. ASSUME NEW c \in Calls, Step(c) PROVE IInv' /\ (crashes = 0 => GraphStep)
    <2>1. CASE LoadConfirm(c) \/ LoadCancel(c) \/ LoadGet(c) \/ CheckBindings(c)
      BY <1>1, <2>1, LoadSteps DEF LoadConfirm, LoadCancel, LoadGet, CheckBindings
    <2>2. CASE LinkLock(c)
      BY <1>1, <2>2, LinkStep DEF LinkLock
    <2>3. CASE ReadLock(c) \/ RecheckLock(c) \/ RemoveLock(c)
      BY <1>1, <2>3, StaleSteps DEF ReadLock, RecheckLock, RemoveLock
    <2>4. CASE ReadRecord(c) \/ CheckRecord(c)
      BY <1>1, <2>4, ReadSteps DEF ReadRecord, CheckRecord
    <2>5. CASE RenameRecord(c)
      BY <2>5, RenameStep
    <2>6. CASE CheckLock(c) \/ UnlinkLock(c)
      BY <1>1, <2>6, ReleaseSteps DEF CheckLock, UnlinkLock
    <2>7. CASE VerifyRecord(c)
      BY <1>1, <2>7, VerifyStep DEF VerifyRecord
    <2>8. CASE \/ Audit(c) \/ Complete(c)
               \/ \E outcome \in {"succeeded", "blocked", "failed"} : EndAction(c, outcome)
      BY <1>1, <2>8, ExecuteSteps DEF Audit, Complete, EndAction
    <2>9. CASE BeginAction(c)
      BY <1>1, <2>9, BeginStep DEF BeginAction
    <2>10. CASE Salvage(c)
      BY <1>1, <2>10, SalvageStep DEF Salvage
    <2>11. QED
      BY <1>4, <2>1, <2>2, <2>3, <2>4, <2>5, <2>6, <2>7, <2>8, <2>9, <2>10 DEF Step
  <1>5. ASSUME NEW c \in Calls, StoreFails(c) \/ RemovalFails(c) \/ ExecutionFails(c)
        PROVE  IInv' /\ (crashes = 0 => GraphStep)
    BY <1>1, <1>5, FaultSteps, RemovalStep DEF StoreFails, RemovalFails, ExecutionFails
  <1>6. CASE Expire \/ BindingChanges \/ UNCHANGED vars
    <2>1. IInv' /\ rec' = rec
      BY <1>6, OutsideStep DEF Expire, BindingChanges, vars, IInv, TypeOK
    <2>2. QED
      BY <1>1, <2>1
  <1>7. QED
    BY <1>2, <1>3, <1>4, <1>5, <1>6 DEF Next

----------------------------------------------------------------------------
(* One execution, whatever dies *)

\* The call has found its claim in place and its lock unchanged: it will execute.
Past(b) ==
    \/ b.at \in {"auditing", "acting", "awaiting"}
    \/ b.at \in {"unlinking", "verifying"} /\ b.goal = "executing"

\* No call has come so far, and nothing was begun.
Unclaimed == None /\ \A d \in Calls : ~Past(call[d])

\* The state b of call c: the record it has replaced does not become pending again,
\* a claim under its own lock is the first, and its stage says what was begun.
PastCall(c, b) ==
    /\ Before(b) => b.done = 0
    /\ b.at \in {"unlocking", "unlinking", "verifying"} \/ Past(b) => rec.rev >= 2
    /\ b.at \in {"checking", "renaming", "unlocking"} /\ b.goal = "executing" /\ Holds(c) => Unclaimed
    /\ Past(b) /\ b.at \notin {"acting", "awaiting"} => None
    /\ b.at = "acting" => \A a \in Actions : effect[a] = IF a <= b.done THEN 1 ELSE 0
    /\ b.at = "awaiting" => \A a \in Actions : effect[a] = IF a <= b.done + 1 THEN 1 ELSE 0

\* The invariant of OneExecution, on top of IInv.
PInv ==
    /\ None \/ rec.rev >= 2
    /\ \A c \in Calls : PastCall(c, call[c])
    /\ \A c, d \in Calls : Past(call[c]) /\ Past(call[d]) => c = d
    /\ OneExecution

\* A call that comes to state b preserves the invariant when it is not one that newly
\* executes, the record does not become pending again and nobody gets its lock back.
LEMMA PastStep ==
    ASSUME IInv, PInv, NEW c \in Calls, NEW b \in Call, call' = [call EXCEPT ![c] = b], effect' = effect,
           lock' = lock \/ lock'.call \in {"none", c}, rec.rev >= 2 => rec'.rev >= 2,
           Past(b) => Past(call[c]), Before(b) => b.done = 0,
           b.at \in {"unlocking", "unlinking", "verifying"} => rec'.rev >= 2,
           b.at \in {"checking", "renaming", "unlocking"} /\ b.goal = "executing" /\ Holds(c)' => Unclaimed,
           b.at = "acting" => \A a \in Actions : effect[a] = IF a <= b.done THEN 1 ELSE 0,
           Past(b) => b.at \in {"unlinking", "verifying", "auditing", "acting"},
           Past(b) /\ b.at # "acting" => None
    PROVE  PInv'
  <1>1. call'[c] = b /\ \A d \in Calls : d # c => call'[d] = call[d]
    BY DEF IInv, TypeOK
  <1>2. (None' <=> None) /\ (Unclaimed => Unclaimed')
    <2>1. None' <=> None
      BY DEF None
    <2>2. QED
      BY <1>1, <2>1 DEF Unclaimed
  <1>3. \A d \in Calls : d # c /\ Holds(d)' => Holds(d)
    <2>1. SUFFICES ASSUME NEW d \in Calls, d # c, Holds(d)' PROVE Holds(d)
      OBVIOUS
    <2>2. lock' = [call |-> d, pid |-> call[d].proc]
      BY <1>1, <2>1 DEF Holds
    <2>3. lock'.call = d
      BY <2>2
    <2>4. lock' = lock
      BY <2>1, <2>3, PlanAssumption
    <2>5. QED
      BY <2>2, <2>4 DEF Holds
  <1>4. Past(b) => rec'.rev >= 2
    BY DEF PInv, PastCall
  <1>5. PastCall(c, b)'
    <2>1. b.at # "awaiting"
      BY DEF Past
    <2>2. QED
      BY <1>2, <1>4, <2>1 DEF PastCall
  <1>6. ASSUME NEW d \in Calls, d # c PROVE PastCall(d, call[d])'
    <2>1. PastCall(d, call[d]) /\ call'[d] = call[d]
      BY <1>1, <1>6 DEF PInv
    <2>2. Holds(d)' => Holds(d)
      BY <1>3, <1>6
    <2>3. QED
      BY <1>2, <2>1, <2>2 DEF PastCall
  <1>7. \A d \in Calls : PastCall(d, call[d])'
    BY <1>1, <1>5, <1>6
  <1>8. \A d, e \in Calls : Past(call'[d]) /\ Past(call'[e]) => d = e
    BY <1>1 DEF PInv
  <1>9. (None \/ rec.rev >= 2)' /\ OneExecution'
    BY <1>2 DEF PInv, OneExecution
  <1>10. QED
    BY <1>7, <1>8, <1>9 DEF PInv

\* Stages of a call that has not replaced the record and does not execute.
Calm == {"idle", "loading", "binding", "salvaging", "linking", "looking", "rechecking", "removing",
         "reading", "dropping", "undoing"}

\* A call that comes to such a stage.
LEMMA CalmStep ==
    ASSUME IInv, PInv, NEW c \in Calls, NEW b \in Call, call' = [call EXCEPT ![c] = b], UNCHANGED <<rec, effect>>,
           lock' = lock \/ lock'.call \in {"none", c}, b.at \in Calm, Before(b) => b.done = 0
    PROVE  PInv'
  <1>1. ~Past(b) /\ b.at \notin {"unlocking", "unlinking", "verifying", "checking", "renaming", "acting"}
    BY DEF Calm, Past
  <1>2. QED
    BY <1>1, PastStep

\* It gives up, or ends.
LEMMA FailureCalm ==
    ASSUME IInv, PInv, NEW c \in Calls, AfterFailure(c) \/ Goto(c, "salvaging") \/ End(c), UNCHANGED <<rec, effect>>,
           lock' = lock \/ lock'.call \in {"none", c}
    PROVE  PInv'
  <1> DEFINE b == [call[c] EXCEPT !.at = "salvaging"]
  <1>1. call[c] \in Call /\ "salvaging" \in ServiceStages \cup StoreStages /\ TypeOK
    BY DEF IInv, TypeOK, ServiceStages
  <1>2. b \in Call /\ b.at = "salvaging"
    BY <1>1, AtField
  <1>3. call' = [call EXCEPT ![c] = b] \/ call' = [call EXCEPT ![c] = IdleCall]
    BY <1>1, GotoIs DEF AfterFailure, End
  <1> HIDE DEF b
  <1>4. b.at \in Calm /\ ~Before(b) /\ IdleCall.at \in Calm /\ ~Before(IdleCall)
    BY <1>2, IdleType DEF Calm, Before, StoreStages
  <1>5. QED
    BY <1>2, <1>3, <1>4, IdleType, CalmStep

\* It enters #mutate.
LEMMA MutateCalm ==
    ASSUME IInv, PInv, NEW c \in Calls, NEW r \in 0..3, NEW e \in Calls \cup {"none"}, NEW g \in States,
           Mutate(c, r, e, g), UNCHANGED <<rec, lock, effect>>, g = "executing" => call[c].done = 0
    PROVE  PInv'
  <1> DEFINE b == Entered(call[c], r, e, g)
  <1>1. call[c] \in Call
    BY DEF IInv, TypeOK
  <1>2. call' = [call EXCEPT ![c] = b]
    BY DEF Mutate, IInv, TypeOK, Entered
  <1>3. b \in Call /\ b.at = "linking" /\ b.goal = g /\ b.done = call[c].done
    <2>1. r \in Revisions /\ e \in Executions
      BY DEF Revisions, Executions
    <2>2. QED
      BY <1>1, <2>1, EnteredFields
  <1> HIDE DEF b
  <1>4. b.at \in Calm /\ (Before(b) => b.done = 0)
    BY <1>3 DEF Calm, Before
  <1>5. QED
    BY <1>2, <1>3, <1>4, CalmStep

\* It goes to another stage s of the store.
LEMMA GotoCalm ==
    ASSUME IInv, PInv, NEW c \in Calls, NEW s \in StoreStages, s \in Calm, Goto(c, s), call[c].at \in StoreStages,
           UNCHANGED <<rec, effect>>, lock' = lock \/ lock'.call \in {"none", c}
    PROVE  PInv'
  <1> DEFINE b == [call[c] EXCEPT !.at = s]
  <1>1. call[c] \in Call /\ s \in ServiceStages \cup StoreStages /\ TypeOK
    BY DEF IInv, TypeOK
  <1>2. b \in Call /\ b.at = s /\ b.goal = call[c].goal /\ b.done = call[c].done
    BY <1>1, AtField
  <1>3. call' = [call EXCEPT ![c] = b]
    BY <1>1, GotoIs
  <1> HIDE DEF b
  <1>4. PastCall(c, call[c])
    BY DEF PInv
  <1>5. s \notin {"loading", "binding", "auditing"}
    BY DEF StoreStages
  <1>6. Before(b) => b.done = 0
    BY <1>2, <1>4, <1>5 DEF PastCall, Before
  <1>7. QED
    BY <1>2, <1>3, <1>6, CalmStep

\* confirm, cancel and get up to the store, and every way to give up.
LEMMA PastLoads ==
    ASSUME IInv, PInv, NEW c \in Calls,
           LoadConfirm(c) \/ LoadCancel(c) \/ LoadGet(c) \/ CheckBindings(c) \/ Salvage(c)
    PROVE  PInv'
  <1>1. /\ UNCHANGED <<rec, lock, effect>> /\ call[c] \in Call /\ rec.rev \in 0..3
        /\ rec.exec \in Calls \cup {"none"} /\ call[c].seen \in 0..3 /\ PastCall(c, call[c])
    BY DEF IInv, PInv, TypeOK, Call, Record, LoadConfirm, LoadCancel, LoadGet, CheckBindings, Salvage
  <1>2. CASE End(c)
    BY <1>1, <1>2, FailureCalm
  <1>3. ASSUME NEW g \in {"expired", "cancelled", "reconciliation_required"},
               NEW e \in Calls \cup {"none"}, Mutate(c, rec.rev, e, g)
        PROVE  PInv'
    <2>1. g \in States /\ g # "executing"
      BY DEF States, ExecutionTerminal
    <2>2. QED
      BY <1>1, <1>3, <2>1, MutateCalm
  <1>4. CASE call[c].at = "loading" /\ call' = [call EXCEPT ![c].at = "binding", ![c].seen = rec.rev]
    <2> DEFINE b == [call[c] EXCEPT !.at = "binding", !.seen = rec.rev]
    <2>1. call' = [call EXCEPT ![c] = b]
      BY <1>4 DEF IInv, TypeOK
    <2>2. b \in Call /\ b.at = "binding" /\ b.done = call[c].done
      BY <1>1 DEF Call, ServiceStages
    <2> HIDE DEF b
    <2>3. b.done = 0 /\ b.at \in Calm
      BY <1>1, <1>4, <2>2 DEF PastCall, Before, Calm
    <2>4. QED
      BY <1>1, <2>1, <2>2, <2>3, CalmStep
  <1>5. CASE call[c].at = "binding" /\ Mutate(c, call[c].seen, c, "executing")
    <2>1. call[c].done = 0 /\ "executing" \in States /\ c \in Calls \cup {"none"}
      BY <1>1, <1>5 DEF PastCall, Before, States
    <2>2. QED
      BY <1>1, <1>5, <2>1, MutateCalm
  <1>6. CASE LoadConfirm(c)
    BY <1>1, <1>2, <1>3, <1>4, <1>6 DEF LoadConfirm, HandleExecuting
  <1>7. CASE LoadCancel(c)
    BY <1>1, <1>2, <1>3, <1>7 DEF LoadCancel
  <1>8. CASE LoadGet(c)
    BY <1>1, <1>2, <1>3, <1>8 DEF LoadGet
  <1>9. CASE CheckBindings(c)
    BY <1>2, <1>5, <1>9 DEF CheckBindings
  <1>10. CASE Salvage(c)
    BY <1>1, <1>2, <1>3, <1>10 DEF Salvage
  <1>11. QED
    BY <1>6, <1>7, <1>8, <1>9, <1>10

\* The lock is linked, looked at and removed, also under another call.
LEMMA PastLocks ==
    ASSUME IInv, PInv, NEW c \in Calls, LinkLock(c) \/ ReadLock(c) \/ RecheckLock(c) \/ RemoveLock(c)
    PROVE  PInv'
  <1>1. /\ UNCHANGED <<rec, effect>> /\ call[c] \in Call /\ PastCall(c, call[c]) /\ lock \in Lock
        /\ call[c].at \in {"linking", "looking", "rechecking", "removing"} /\ call[c].at \in StoreStages
        /\ lock' = lock \/ lock'.call \in {"none", c}
    BY DEF LinkLock, ReadLock, RecheckLock, RemoveLock, IInv, PInv, TypeOK, StoreStages, NoLock
  <1>2. CASE AfterFailure(c)
    BY <1>1, <1>2, FailureCalm
  <1>3. ASSUME NEW s \in {"reading", "looking", "removing"}, Goto(c, s) PROVE PInv'
    <2>1. s \in StoreStages /\ s \in Calm
      BY DEF StoreStages, Calm
    <2>2. QED
      BY <1>1, <1>3, <2>1, GotoCalm
  <1>4. CASE TryAgain(c) /\ call[c].at # "linking"
    <2> DEFINE b == Again(call[c])
    <2>1. call[c].tries \in 0..3 /\ call[c].tries < 3
      BY <1>1, <1>4 DEF Call, IInv, Sound, SoundCall
    <2>2. call' = [call EXCEPT ![c] = b]
      BY <1>4 DEF TryAgain, Again, IInv, TypeOK
    <2>3. ASSUME NEW x \in Call, x.tries < 3
          PROVE  Again(x) \in Call /\ Again(x).at = "linking" /\ Again(x).goal = x.goal /\ Again(x).done = x.done
      <3>1. x.tries + 1 \in 0..3 /\ NoLock \in Lock
        BY <2>3, NoRecordType DEF Call
      <3> HIDE DEF NoLock, Lock
      <3>2. QED
        BY <2>3, <3>1 DEF Again, Call, StoreStages
    <2>4. b \in Call /\ b.at = "linking" /\ b.goal = call[c].goal /\ b.done = call[c].done
      BY <1>1, <2>1, <2>3, Zenon
    <2> HIDE DEF b
    <2>5. b.at \in Calm /\ (Before(b) => b.done = 0)
      BY <1>1, <2>4 DEF Calm, PastCall, Before
    <2>6. QED
      BY <1>1, <2>2, <2>4, <2>5, CalmStep
  <1>5. CASE call' = [call EXCEPT ![c].at = "rechecking", ![c].other = lock]
    <2> DEFINE b == [call[c] EXCEPT !.at = "rechecking", !.other = lock]
    <2>1. call' = [call EXCEPT ![c] = b]
      BY <1>5 DEF IInv, TypeOK
    <2>2. b \in Call /\ b.at = "rechecking" /\ b.goal = call[c].goal /\ b.done = call[c].done
      <3> HIDE DEF Lock
      <3>1. QED
        BY <1>1 DEF Call, StoreStages
    <2> HIDE DEF b
    <2>3. b.at \in Calm /\ (Before(b) => b.done = 0)
      BY <1>1, <2>2 DEF Calm, PastCall, Before
    <2>4. QED
      BY <1>1, <2>1, <2>2, <2>3, CalmStep
  <1>6. CASE LinkLock(c)
    BY <1>2, <1>3, <1>6 DEF LinkLock
  <1>7. CASE ReadLock(c)
    BY <1>2, <1>4, <1>5, <1>7 DEF ReadLock
  <1>8. CASE RecheckLock(c) \/ RemoveLock(c)
    BY <1>3, <1>4, <1>8 DEF RecheckLock, RemoveLock
  <1>9. QED
    BY <1>6, <1>7, <1>8

\* The record is read under the lock and looked at again: a claim that finds it
\* pending is the first.
LEMMA PastReads ==
    ASSUME IInv, PInv, NEW c \in Calls, ReadRecord(c) \/ CheckRecord(c)
    PROVE  PInv'
  <1>1. /\ UNCHANGED <<rec, lock, effect>> /\ call[c] \in Call /\ PastCall(c, call[c]) /\ rec \in Record
        /\ call[c].at \in {"reading", "checking"} /\ call[c].at \in StoreStages /\ rec.rev \in 0..3
    BY DEF ReadRecord, CheckRecord, IInv, PInv, TypeOK, StoreStages, Record
  <1>2. CASE Goto(c, "dropping")
    BY <1>1, <1>2, GotoCalm DEF StoreStages, Calm
  <1>3. CASE ReadRecord(c) /\ ~MayStore(c)
    <2>1. call' = [call EXCEPT ![c] = [call[c] EXCEPT !.at = "dropping", !.base = call[c].base]]
      BY <1>3 DEF ReadRecord, IInv, TypeOK
    <2>2. [call[c] EXCEPT !.at = "dropping", !.base = call[c].base] = [call[c] EXCEPT !.at = "dropping"]
      BY <1>1 DEF Call
    <2>3. Goto(c, "dropping")
      BY <2>1, <2>2 DEF Goto, IInv, TypeOK
    <2>4. QED
      BY <1>2, <2>3
  <1>4. CASE ReadRecord(c) /\ MayStore(c)
    <2> DEFINE b == [call[c] EXCEPT !.at = "checking", !.base = rec]
    <2>1. call' = [call EXCEPT ![c] = b] /\ call[c].at = "reading"
      BY <1>4 DEF ReadRecord, IInv, TypeOK
    <2>2. b \in Call /\ b.at = "checking" /\ b.goal = call[c].goal /\ b.done = call[c].done
      <3> HIDE DEF Record
      <3>1. QED
        BY <1>1 DEF Call, StoreStages
    <2> HIDE DEF b
    <2>3. ASSUME b.goal = "executing" PROVE Unclaimed
      <3>1. rec.state = "pending"
        BY <1>4, <2>2, <2>3 DEF MayStore, CanTransition, ExecutionTerminal
      <3>2. rec.rev = 1
        BY <3>1 DEF IInv, Sound, Shape
      <3>3. ~(rec.rev >= 2)
        BY <3>2
      <3>4. QED
        BY <3>3 DEF PInv, PastCall, Unclaimed
    <2>4. ~Past(b) /\ (Before(b) => b.done = 0)
      BY <1>1, <2>1, <2>2 DEF Past, PastCall, Before
    <2>5. QED
      BY <1>1, <2>1, <2>2, <2>3, <2>4, PastStep
  <1>5. CASE call[c].at = "checking" /\ Goto(c, "renaming")
    <2> DEFINE b == [call[c] EXCEPT !.at = "renaming"]
    <2>1. "renaming" \in ServiceStages \cup StoreStages
      BY DEF StoreStages
    <2>2. b \in Call /\ b.at = "renaming" /\ b.goal = call[c].goal /\ b.done = call[c].done /\ b.proc = call[c].proc
      BY <1>1, <2>1, AtField
    <2>3. call' = [call EXCEPT ![c] = b]
      BY <1>5, GotoIs DEF IInv
    <2> HIDE DEF b
    <2>4. Holds(c)' => Holds(c)
      BY <1>1, <2>2, <2>3 DEF Holds, IInv, TypeOK
    <2>5. ~Past(b) /\ (Before(b) => b.done = 0)
      BY <1>1, <2>2 DEF Past, PastCall, Before
    <2>6. b.goal = "executing" /\ Holds(c)' => Unclaimed
      BY <1>1, <1>5, <2>2, <2>4 DEF PastCall
    <2>7. QED
      BY <1>1, <2>2, <2>3, <2>5, <2>6, PastStep
  <1>6. CASE CheckRecord(c)
    BY <1>2, <1>5, <1>6 DEF CheckRecord
  <1>7. QED
    BY <1>3, <1>4, <1>6

\* The rename: the record is not pending after it.
LEMMA PastRename ==
    ASSUME IInv, PInv, NEW c \in Calls, RenameRecord(c)
    PROVE  PInv'
  <1> DEFINE b == [call[c] EXCEPT !.at = "unlocking"]
  <1>1. /\ UNCHANGED <<lock, effect>> /\ rec' = NextRecord(c) /\ call[c] \in Call /\ PastCall(c, call[c])
        /\ call[c].at = "renaming" /\ call[c].at \in StoreStages /\ "unlocking" \in ServiceStages \cup StoreStages
    BY DEF RenameRecord, IInv, PInv, TypeOK, StoreStages
  <1>2. rec'.rev >= 2
    <2>1. rec'.rev = call[c].base.rev + 1
      BY <1>1, NextFields
    <2>2. call[c].base.rev \in {1, 2}
      BY <1>1 DEF IInv, Sound, SoundCall, Shape, CanTransition
    <2>3. QED
      BY <2>1, <2>2
  <1>3. b \in Call /\ b.at = "unlocking" /\ b.goal = call[c].goal /\ b.done = call[c].done /\ b.proc = call[c].proc
    BY <1>1, AtField
  <1>4. call' = [call EXCEPT ![c] = b]
    BY GotoIs DEF RenameRecord, IInv
  <1> HIDE DEF b
  <1>5. Holds(c)' => Holds(c)
    BY <1>1, <1>3, <1>4 DEF Holds, IInv, TypeOK
  <1>6. ~Past(b) /\ (Before(b) => b.done = 0)
    BY <1>1, <1>3 DEF Past, PastCall, Before
  <1>7. b.goal = "executing" /\ Holds(c)' => Unclaimed
    BY <1>1, <1>3, <1>5 DEF PastCall
  <1>8. QED
    BY <1>1, <1>2, <1>3, <1>4, <1>6, <1>7, PastStep

\* A claim that finds its lock in place after the rename is the one that executes:
\* every other call has lost the lock.
LEMMA PastClaim ==
    ASSUME IInv, PInv, NEW c \in Calls, call[c].at = "unlocking", call[c].goal = "executing", Holds(c),
           Goto(c, "unlinking"), UNCHANGED <<rec, lock, effect>>
    PROVE  PInv'
  <1> DEFINE b == [call[c] EXCEPT !.at = "unlinking"]
  <1>1. /\ call[c] \in Call /\ PastCall(c, call[c]) /\ "unlinking" \in ServiceStages \cup StoreStages
        /\ "unlocking" \in StoreStages
    BY DEF IInv, PInv, TypeOK, StoreStages
  <1>2. b \in Call /\ b.at = "unlinking" /\ b.goal = "executing" /\ b.done = call[c].done
    BY <1>1, AtField
  <1>3. call' = [call EXCEPT ![c] = b]
    BY GotoIs DEF IInv
  <1> HIDE DEF b
  <1>4. call'[c] = b /\ \A d \in Calls : d # c => call'[d] = call[d]
    BY <1>3 DEF IInv, TypeOK
  <1>5. Unclaimed /\ rec.rev >= 2 /\ call[c].done = 0
    BY <1>1 DEF PastCall, Before
  <1>6. None /\ None' /\ rec' = rec /\ \A d \in Calls : ~Past(call[d])
    BY <1>5 DEF Unclaimed, None
  <1>7. \A d \in Calls : d # c => ~Holds(d) /\ ~(Holds(d)')
    BY <1>4 DEF Holds
  <1>8. PastCall(c, call[c])'
    BY <1>2, <1>4, <1>5, <1>6 DEF PastCall, Past, Before
  <1>9. ASSUME NEW d \in Calls, d # c PROVE PastCall(d, call[d])'
    <2>1. PastCall(d, call[d]) /\ call'[d] = call[d]
      BY <1>4, <1>9 DEF PInv
    <2>2. QED
      BY <1>6, <1>7, <1>9, <2>1 DEF PastCall
  <1>10. \A d, e \in Calls : Past(call'[d]) /\ Past(call'[e]) => d = e
    BY <1>4, <1>6
  <1>11. OneExecution' /\ (None \/ rec.rev >= 2)'
    BY <1>6 DEF PInv, OneExecution
  <1>12. QED
    BY <1>8, <1>9, <1>10, <1>11 DEF PInv

\* A call that goes on from one stage of its claim to the next.
LEMMA PastGoto ==
    ASSUME IInv, PInv, NEW c \in Calls, NEW s \in {"unlinking", "verifying"}, Goto(c, s), UNCHANGED <<rec, effect>>,
           call[c].at \in {"unlocking", "unlinking"}, call[c].goal = "executing" => call[c].at = "unlinking",
           lock' = lock \/ lock'.call \in {"none", c}
    PROVE  PInv'
  <1> DEFINE b == [call[c] EXCEPT !.at = s]
  <1>1. /\ call[c] \in Call /\ PastCall(c, call[c]) /\ s \in ServiceStages \cup StoreStages
        /\ call[c].at \in StoreStages
    BY DEF IInv, PInv, TypeOK, StoreStages
  <1>2. b \in Call /\ b.at = s /\ b.goal = call[c].goal /\ b.done = call[c].done
    BY <1>1, AtField
  <1>3. call' = [call EXCEPT ![c] = b]
    BY GotoIs DEF IInv
  <1> HIDE DEF b
  <1>4. (Past(b) => Past(call[c])) /\ (Before(b) => b.done = 0) /\ rec'.rev >= 2 /\ (Past(b) => None)
    BY <1>1, <1>2 DEF Past, PastCall, Before
  <1>5. b.at \notin {"checking", "renaming", "unlocking", "acting"}
    BY <1>2
  <1>6. QED
    BY <1>2, <1>3, <1>4, <1>5, PastStep

\* releaseLock.
LEMMA PastReleases ==
    ASSUME IInv, PInv, NEW c \in Calls, CheckLock(c) \/ UnlinkLock(c)
    PROVE  PInv'
  <1>1. /\ UNCHANGED <<rec, effect>> /\ call[c].at \in {"unlocking", "dropping", "unlinking", "undoing"}
        /\ (lock' = lock \/ lock'.call \in {"none", c}) /\ call[c].at \in StoreStages
    BY DEF CheckLock, UnlinkLock, NoLock, StoreStages
  <1>2. CASE AfterFailure(c)
    BY <1>1, <1>2, FailureCalm
  <1>3. CASE Goto(c, "undoing")
    BY <1>1, <1>3, GotoCalm DEF StoreStages, Calm
  <1>4. CASE call[c].at = "unlocking" /\ Holds(c) /\ Goto(c, "unlinking") /\ lock' = lock
    <2>1. CASE call[c].goal = "executing"
      BY <1>1, <1>4, <2>1, PastClaim
    <2>2. CASE call[c].goal # "executing"
      BY <1>1, <1>4, <2>2, PastGoto
    <2>3. QED
      BY <2>1, <2>2
  <1>5. CASE call[c].at = "unlinking" /\ Goto(c, "verifying")
    BY <1>1, <1>5, PastGoto
  <1>6. CASE CheckLock(c)
    BY <1>2, <1>3, <1>4, <1>6 DEF CheckLock
  <1>7. CASE UnlinkLock(c)
    BY <1>2, <1>5, <1>7 DEF UnlinkLock
  <1>8. QED
    BY <1>6, <1>7

\* The claim is verified and audited, the outcome of an action comes in, the loop ends.
LEMMA PastServes ==
    ASSUME IInv, PInv, NEW c \in Calls,
           \/ VerifyRecord(c) \/ Audit(c) \/ Complete(c)
           \/ \E outcome \in {"succeeded", "blocked", "failed"} : EndAction(c, outcome)
    PROVE  PInv'
  <1>1. /\ UNCHANGED <<rec, lock, effect>> /\ call[c] \in Call /\ PastCall(c, call[c]) /\ rec.rev \in 0..3
        /\ call[c].done \in 0..NActions /\ NActions \in Nat /\ call[c].seen \in 0..3
        /\ c \in Calls \cup {"none"} /\ Actions = 1..NActions
    BY PlanAssumption DEF VerifyRecord, Audit, Complete, EndAction, IInv, PInv, TypeOK, Call, Record, Actions
  <1>2. CASE AfterFailure(c) \/ End(c)
    BY <1>1, <1>2, FailureCalm
  <1>3. ASSUME NEW g \in {"succeeded", "blocked", "failed"}, Mutate(c, call[c].seen, c, g) PROVE PInv'
    <2>1. g \in States /\ g # "executing"
      BY DEF States, ExecutionTerminal
    <2>2. QED
      BY <1>1, <1>3, <2>1, MutateCalm
  <1>4. ASSUME NEW b \in Call, call' = [call EXCEPT ![c] = b], b.at \in {"auditing", "acting"}, Past(call[c]),
               b.at = "auditing" => b.done = 0 /\ None,
               b.at = "acting" => \A a \in Actions : effect[a] = IF a <= b.done THEN 1 ELSE 0
        PROVE  PInv'
    <2>1. /\ b.at \notin {"checking", "renaming", "unlocking", "unlinking", "verifying"}
          /\ Before(b) => b.at = "auditing"
      BY <1>4 DEF Before, StoreStages
    <2>2. QED
      BY <1>1, <1>4, <2>1, PastStep
  <1>5. CASE /\ call[c].at = "verifying" /\ call[c].goal = "executing"
             /\ call' = [call EXCEPT ![c].at = "auditing", ![c].seen = rec.rev]
    <2> DEFINE b == [call[c] EXCEPT !.at = "auditing", !.seen = rec.rev]
    <2>1. call' = [call EXCEPT ![c] = b]
      BY <1>5 DEF IInv, TypeOK
    <2>2. b \in Call /\ b.at = "auditing" /\ b.done = call[c].done
      BY <1>1 DEF Call, ServiceStages
    <2> HIDE DEF b
    <2>3. call[c].done = 0 /\ None /\ Past(call[c])
      BY <1>1, <1>5 DEF PastCall, Past, Before, StoreStages
    <2>4. QED
      BY <1>4, <2>1, <2>2, <2>3
  <1>6. CASE VerifyRecord(c)
    BY <1>2, <1>5, <1>6 DEF VerifyRecord
  <1>7. CASE Audit(c)
    <2> DEFINE b == [call[c] EXCEPT !.at = "acting"]
    <2>1. call' = [call EXCEPT ![c] = b] /\ "acting" \in ServiceStages \cup StoreStages
      BY <1>7, GotoIs DEF Audit, IInv, ServiceStages
    <2>2. b \in Call /\ b.at = "acting" /\ b.done = call[c].done
      BY <1>1, <2>1, AtField
    <2> HIDE DEF b
    <2>3. call[c].done = 0 /\ None /\ Past(call[c])
      BY <1>1, <1>7 DEF Audit, PastCall, Past, Before
    <2>4. \A a \in Actions : effect[a] = IF a <= b.done THEN 1 ELSE 0
      BY <1>1, <2>2, <2>3 DEF None
    <2>5. QED
      BY <1>4, <2>1, <2>2, <2>3, <2>4
  <1>8. CASE Complete(c)
    BY <1>3, <1>8 DEF Complete
  <1>9. ASSUME NEW outcome \in {"succeeded", "blocked", "failed"}, EndAction(c, outcome) PROVE PInv'
    <2>1. CASE outcome # "succeeded"
      BY <1>3, <1>9, <2>1 DEF EndAction
    <2>2. CASE outcome = "succeeded"
      <3> DEFINE n == call[c].done + 1
                 b == [call[c] EXCEPT !.at = "acting", !.done = n]
      <3>1. call' = [call EXCEPT ![c] = b] /\ call[c].at = "awaiting"
        BY <1>9, <2>2 DEF EndAction, IInv, TypeOK
      <3>2. n \in 0..NActions
        BY <1>1, <3>1 DEF IInv, Sound, SoundCall
      <3>3. Past(call[c]) /\ \A a \in Actions : effect[a] = IF a <= n THEN 1 ELSE 0
        BY <1>1, <3>1 DEF PastCall, Past
      <3> HIDE DEF n
      <3>4. b \in Call /\ b.at = "acting" /\ b.done = n
        BY <1>1, <3>2 DEF Call, ServiceStages
      <3> HIDE DEF b
      <3>5. QED
        BY <1>4, <3>1, <3>3, <3>4
    <2>3. QED
      BY <2>1, <2>2
  <1>10. QED
    BY <1>6, <1>7, <1>8, <1>9

\* An action is begun, by the one call that executes.
LEMMA PastBegin ==
    ASSUME IInv, PInv, NEW c \in Calls, BeginAction(c)
    PROVE  PInv'
  <1> DEFINE b == [call[c] EXCEPT !.at = "awaiting"]
             n == call[c].done
  <1>1. /\ UNCHANGED <<rec, lock>> /\ effect' = [effect EXCEPT ![n + 1] = @ + 1] /\ effect \in [Actions -> Nat]
        /\ call[c].at = "acting" /\ call[c] \in Call /\ "awaiting" \in ServiceStages \cup StoreStages
        /\ n \in Nat /\ n < NActions /\ NActions \in Nat /\ Actions = 1..NActions
    BY PlanAssumption DEF BeginAction, IInv, TypeOK, ServiceStages, Call, Actions
  <1>2. b \in Call /\ b.at = "awaiting" /\ b.done = n
    BY <1>1, AtField
  <1>3. call' = [call EXCEPT ![c] = b]
    BY GotoIs DEF BeginAction, IInv
  <1>4. Past(call[c]) /\ rec.rev >= 2 /\ \A a \in Actions : effect[a] = IF a <= n THEN 1 ELSE 0
    BY <1>1 DEF PInv, PastCall, Past
  <1> HIDE DEF b, n
  <1>5. call'[c] = b /\ \A d \in Calls : d # c => call'[d] = call[d]
    BY <1>3 DEF IInv, TypeOK
  <1>6. \A a \in Actions : effect'[a] = IF a <= n + 1 THEN 1 ELSE 0
    <2>1. \A a \in Actions : effect'[a] = IF a = n + 1 THEN effect[a] + 1 ELSE effect[a]
      BY <1>1
    <2>2. QED
      BY <1>1, <1>4, <2>1
  <1>7. \A d \in Calls : d # c => ~Past(call[d])
    BY <1>4 DEF PInv
  <1>8. PastCall(c, call[c])'
    BY <1>1, <1>2, <1>4, <1>5, <1>6 DEF PastCall, Before, StoreStages
  <1>9. ASSUME NEW d \in Calls, d # c PROVE PastCall(d, call[d])'
    <2>1. PastCall(d, call[d]) /\ call'[d] = call[d] /\ ~Past(call[d]) /\ ~Unclaimed
      BY <1>4, <1>5, <1>7, <1>9 DEF PInv, Unclaimed
    <2>2. (Holds(d)' <=> Holds(d)) /\ rec' = rec /\ call[d].at \notin {"acting", "awaiting"}
      BY <1>1, <2>1 DEF Holds, Past
    <2>3. QED
      BY <2>1, <2>2 DEF PastCall
  <1>10. \A d, e \in Calls : Past(call'[d]) /\ Past(call'[e]) => d = e
    BY <1>5, <1>7
  <1>11. OneExecution' /\ (None \/ rec.rev >= 2)'
    BY <1>1, <1>4, <1>6 DEF OneExecution
  <1>12. QED
    BY <1>8, <1>9, <1>10, <1>11 DEF PInv

\* Operations that fail, and executions that are given up.
LEMMA PastFaults ==
    ASSUME IInv, PInv, NEW c \in Calls, StoreFails(c) \/ RemovalFails(c) \/ ExecutionFails(c)
    PROVE  PInv'
  <1>1. UNCHANGED <<rec, effect>> /\ (lock' = lock \/ lock'.call \in {"none", c})
    BY DEF StoreFails, RemovalFails, ExecutionFails, NoLock
  <1>2. CASE AfterFailure(c) \/ Goto(c, "salvaging") \/ End(c)
    BY <1>1, <1>2, FailureCalm
  <1>3. CASE call[c].at \in {"reading", "checking", "renaming", "unlocking", "unlinking"} /\ Goto(c, "dropping")
    BY <1>1, <1>3, GotoCalm DEF StoreStages, Calm
  <1>4. QED
    BY <1>2, <1>3 DEF StoreFails, RemovalFails, ExecutionFails

\* A call begins.
LEMMA PastStart ==
    ASSUME IInv, PInv, NEW c \in Calls, NEW p \in Procs, NEW op \in Ops \ {"none"}, Start(c, p, op)
    PROVE  PInv'
  <1> DEFINE b == [IdleCall EXCEPT !.proc = p, !.op = op, !.at = "loading"]
  <1>1. UNCHANGED <<rec, lock, effect>> /\ call' = [call EXCEPT ![c] = b]
    BY DEF Start
  <1>2. b \in Call /\ b.at = "loading" /\ b.done = 0
    <2> HIDE DEF IdleCall
    <2>1. QED
      BY IdleType DEF Call, ServiceStages
  <1> HIDE DEF b
  <1>3. QED
    BY <1>1, <1>2, CalmStep DEF Calm

\* The plan is previewed before any call has come to it.
LEMMA PastPreview ==
    ASSUME IInv, PInv, NEW p \in Procs, Preview(p)
    PROVE  PInv'
  <1>1. UNCHANGED <<lock, call, effect>> /\ rec.state = "absent"
    BY DEF Preview
  <1>2. ~(rec.rev >= 2)
    BY <1>1 DEF IInv, Sound, Shape
  <1>3. None /\ None' /\ (Unclaimed <=> Unclaimed')
    BY <1>1, <1>2 DEF PInv, None, Unclaimed
  <1>4. ASSUME NEW c \in Calls PROVE PastCall(c, call[c])'
    <2>1. PastCall(c, call[c]) /\ call'[c] = call[c] /\ (Holds(c)' <=> Holds(c))
      BY <1>1 DEF PInv, Holds
    <2>2. QED
      BY <1>1, <1>2, <1>3, <2>1 DEF PastCall
  <1>5. QED
    BY <1>1, <1>3, <1>4 DEF PInv, OneExecution

\* A process dies: its calls are gone, its lock stays.
LEMMA PastCrash ==
    ASSUME IInv, PInv, NEW p \in Procs, Crash(p)
    PROVE  PInv'
  <1>1. /\ UNCHANGED <<rec, lock, effect>>
        /\ call' = [c \in Calls |-> IF call[c].proc = p THEN IdleCall ELSE call[c]]
    BY DEF Crash
  <1>2. \A c \in Calls : call'[c] = IdleCall \/ call'[c] = call[c]
    BY <1>1
  <1>3. ~Past(IdleCall) /\ ~Before(IdleCall)
    BY IdleType DEF Past, Before, StoreStages
  <1>4. (None' <=> None) /\ (Unclaimed => Unclaimed')
    <2>1. None' <=> None
      BY <1>1 DEF None
    <2>2. QED
      BY <1>2, <1>3, <2>1 DEF Unclaimed
  <1>5. ASSUME NEW c \in Calls PROVE PastCall(c, call[c])'
    <2>1. CASE call'[c] = IdleCall
      BY <1>3, <2>1, IdleType DEF PastCall
    <2>2. CASE call'[c] = call[c]
      <3>1. PastCall(c, call[c]) /\ (Holds(c)' <=> Holds(c))
        BY <1>1, <2>2 DEF PInv, Holds
      <3>2. QED
        BY <1>1, <1>4, <2>2, <3>1 DEF PastCall
    <2>3. QED
      BY <1>2, <2>1, <2>2
  <1>6. \A c, d \in Calls : Past(call'[c]) /\ Past(call'[d]) => c = d
    BY <1>2, <1>3 DEF PInv
  <1>7. QED
    BY <1>1, <1>4, <1>5, <1>6 DEF PInv, OneExecution

\* Nothing the invariant speaks of changes.
LEMMA PastOutside ==
    ASSUME PInv, UNCHANGED <<rec, lock, call, effect>>
    PROVE  PInv'
  <1>1. (None' <=> None) /\ (Unclaimed <=> Unclaimed')
    BY DEF None, Unclaimed
  <1>2. ASSUME NEW c \in Calls PROVE PastCall(c, call[c])'
    <2>1. PastCall(c, call[c]) /\ (Holds(c)' <=> Holds(c))
      BY DEF PInv, Holds
    <2>2. QED
      BY <1>1, <2>1 DEF PastCall
  <1>3. QED
    BY <1>1, <1>2 DEF PInv, OneExecution

\* It holds before the preview.
LEMMA InitPast == Init => PInv
  <1> SUFFICES ASSUME Init PROVE PInv
    OBVIOUS
  <1>1. None /\ OneExecution
    BY DEF Init, None, OneExecution
  <1>2. \A c \in Calls : call[c] = IdleCall /\ ~Past(call[c]) /\ ~Before(call[c])
    BY IdleType DEF Init, Past, Before, StoreStages
  <1>3. \A c \in Calls : PastCall(c, call[c])
    BY <1>2, IdleType DEF PastCall
  <1>4. QED
    BY <1>1, <1>2, <1>3 DEF PInv

\* Every step preserves it.
LEMMA StepPast ==
    ASSUME IInv, PInv, [Next]_vars
    PROVE  PInv'
  <1>1. ASSUME NEW p \in Procs, Preview(p) \/ Crash(p) PROVE PInv'
    BY <1>1, PastPreview, PastCrash
  <1>2. ASSUME NEW c \in Calls, NEW p \in Procs, NEW op \in Ops \ {"none"}, Start(c, p, op) PROVE PInv'
    BY <1>2, PastStart
  <1>3. ASSUME NEW c \in Calls, Step(c) PROVE PInv'
    BY <1>3, PastLoads, PastLocks, PastReads, PastRename, PastReleases, PastServes, PastBegin DEF Step
  <1>4. ASSUME NEW c \in Calls, StoreFails(c) \/ RemovalFails(c) \/ ExecutionFails(c) PROVE PInv'
    BY <1>4, PastFaults
  <1>5. CASE Expire \/ BindingChanges \/ UNCHANGED vars
    BY <1>5, PastOutside DEF Expire, BindingChanges, vars
  <1>6. QED
    BY <1>1, <1>2, <1>3, <1>4, <1>5 DEF Next

----------------------------------------------------------------------------
(* The theorems *)

\* The invariant holds in every reachable state of the governed plan.
THEOREM Inductive == Spec => []IInv
  <1>1. IInv /\ [Next]_vars => IInv'
    BY StepInv
  <1>2. QED
    BY <1>1, InitInv, PTL DEF Spec

\* The variables of the governed plan have their types.
THEOREM TypeCorrect == Spec => []TypeOK
  <1>1. IInv => TypeOK
    BY DEF IInv
  <1>2. QED
    BY <1>1, Inductive, PTL

\* Whatever calls compete, fail, time out or die, no action is begun twice: a lock
\* may be taken from a live call, but then that call does not execute.
THEOREM ActionsOnce == Spec => []OneExecution
  <1>1. Init => IInv /\ PInv
    BY InitInv, InitPast
  <1>2. IInv /\ PInv /\ [Next]_vars => IInv' /\ PInv'
    BY StepInv, StepPast
  <1>3. PInv => OneExecution
    BY DEF PInv
  <1>4. QED
    BY <1>1, <1>2, <1>3, PTL DEF Spec

\* As long as no process has died, a cancelled or expired record has had no
\* effect and a succeeded one has had them all.
THEOREM RecordTrue == Spec => [](crashes = 0 => RecordIsTrue)
  <1>1. IInv => (crashes = 0 => RecordIsTrue)
    <2>1. ASSUME IInv, crashes = 0 PROVE RecordIsTrue
      <3>1. Shape(rec) /\ Once
        BY <2>1 DEF IInv, Alive, Sound
      <3>2. rec.state \in {"pending", "cancelled", "expired"} => rec.exec = "none"
        BY <3>1 DEF Shape, ExecutionTerminal
      <3>3. QED
        BY <3>1, <3>2 DEF Once, None, All, RecordIsTrue
    <2>2. QED
      BY <2>1
  <1>2. QED
    BY <1>1, Inductive, PTL

\* As long as no process has died, the call that begins actions is the one that
\* the record names.
THEOREM RunnerRecorded == Spec => [](crashes = 0 => RunnerIsRecorded)
  <1>1. IInv => (crashes = 0 => RunnerIsRecorded)
    BY DEF IInv, Alive, AliveCall, Own, RunnerIsRecorded
  <1>2. QED
    BY <1>1, Inductive, PTL

\* As long as no process has died, the record moves only along the state graph
\* and one revision at a time: what StateGraph says of every step.
THEOREM AlongTheGraph == Spec => [][crashes = 0 => GraphStep]_vars
  <1>1. IInv /\ [Next]_vars => [crashes = 0 => GraphStep]_vars
    BY StepInv
  <1>2. QED
    BY <1>1, Inductive, PTL DEF Spec
============================================================================
