---------------------------- MODULE GovernedPlan ----------------------------
(***************************************************************************)
(* One governed plan: previewed by an Operator process, confirmed once,    *)
(* executed once (packages/operator/src/governed-plan-service.ts) and kept *)
(* in a record file that is replaced under a lock file                     *)
(* (governed-plan-store.ts, LocalGovernedPlanStore).                       *)
(*                                                                         *)
(* A call of the service runs through awaits: other calls, of its own and  *)
(* of other processes, run between any two of them.  A process may die at  *)
(* any of them; its calls end and its lock file stays.  The presented      *)
(* token and authority are the right ones: with others a call only         *)
(* returns.                                                                *)
(***************************************************************************)
EXTENDS Naturals

CONSTANTS
    Procs,       \* Operator processes (pids)
    Calls,       \* concurrent calls of the service
    NActions,    \* actions of the canonical plan
    MaxCrashes,  \* bound: processes that die
    MaxFaults    \* bound: failed file operations, audit failures and deadlines

ASSUME PlanAssumption ==
    /\ NActions \in Nat \ {0} /\ MaxCrashes \in Nat /\ MaxFaults \in Nat
    /\ "none" \notin Calls \cup Procs

VARIABLES
    rec,      \* the record file of the plan
    lock,     \* the lock file: the call that linked it and its pid
    call,     \* where each call stands
    dead,     \* processes that have died
    late,     \* "yes" when expiresAt has passed
    binding,  \* "changed" when a source, permission or build binding differs from the preview
    effect,   \* history: how often each action was begun
    crashes, faults

vars == <<rec, lock, call, dead, late, binding, effect, crashes, faults>>

Actions == 1..NActions

ExecutionTerminal == {"succeeded", "blocked", "failed", "reconciliation_required"}

States == {"absent", "pending", "executing", "cancelled", "expired"} \cup ExecutionTerminal

(* home: the process that previewed; exec, pid: the execution and its owner; *)
(* rev and writer stand for the identity of the file as well.                *)
Record ==
    [state: States, rev: 0..3, home: Procs \cup {"none"}, exec: Calls \cup {"none"},
     pid: Procs \cup {"none"}, writer: Calls \cup {"none"}]

NoRecord == [state |-> "absent", rev |-> 0, home |-> "none", exec |-> "none", pid |-> "none", writer |-> "none"]

Lock == [call: Calls \cup {"none"}, pid: Procs \cup {"none"}]

NoLock == [call |-> "none", pid |-> "none"]

(* Where a call stands: in the service (loading to salvaging) or in the store. *)
ServiceStages == {"idle", "loading", "binding", "auditing", "acting", "awaiting", "salvaging"}

StoreStages == {"linking", "looking", "rechecking", "removing", "reading", "checking", "renaming",
                "unlocking", "unlinking", "verifying", "dropping", "undoing"}

Ops == {"none", "confirm", "cancel", "get"}

(* seen, exec: expectedRevision and executionId; goal: the state to be stored; *)
(* base: the record read under the lock; other: the lock that was in the way;  *)
(* tries: attempts on the lock; done: actions that have succeeded.             *)
Call ==
    [proc: Procs \cup {"none"}, op: Ops, at: ServiceStages \cup StoreStages, seen: 0..3,
     exec: Calls \cup {"none"}, goal: States, base: Record, other: Lock, tries: 0..3, done: 0..NActions]

IdleCall == [proc |-> "none", op |-> "none", at |-> "idle", seen |-> 0, exec |-> "none",
             goal |-> "absent", base |-> NoRecord, other |-> NoLock, tries |-> 0, done |-> 0]

Init ==
    /\ rec = NoRecord /\ lock = NoLock
    /\ call = [c \in Calls |-> IdleCall]
    /\ dead = {} /\ late = "no" /\ binding = "same"
    /\ effect = [a \in Actions |-> 0]
    /\ crashes = 0 /\ faults = 0

----------------------------------------------------------------------------
(* The state graph *)

(* canGovernedPlanStateTransition *)
CanTransition(from, to) ==
    \/ from = "pending" /\ to \in {"executing", "cancelled", "expired"}
    \/ from = "executing" /\ to \in ExecutionTerminal

(* Mutant: the record is replaced without being looked at. *)
MayStore_Unchecked(c) == rec.rev < 3

(* The transition a mutation may make: also only the claimed execution is *)
(* completed.                                                              *)
MayStore(c) ==
    /\ rec.rev = call[c].seen
    /\ CanTransition(rec.state, call[c].goal)
    /\ call[c].goal \in ExecutionTerminal => rec.exec = call[c].exec

(* nextRecord *)
NextRecord(c) ==
    LET base == call[c].base
        claim == call[c].goal = "executing"
    IN  [base EXCEPT !.state = call[c].goal, !.rev = base.rev + 1, !.writer = c,
                     !.exec = IF claim THEN call[c].exec ELSE @, !.pid = IF claim THEN call[c].proc ELSE @]

----------------------------------------------------------------------------
(* Steps of a call *)

Goto(c, stage) == call' = [call EXCEPT ![c].at = stage]

End(c) == call' = [call EXCEPT ![c] = IdleCall]

(* #mutate is entered. *)
Mutate(c, revision, execution, state) ==
    call' = [call EXCEPT ![c].at = "linking", ![c].seen = revision, ![c].exec = execution,
                         ![c].goal = state, ![c].tries = 0, ![c].other = NoLock]

(* A store operation has failed: what the claim or the execution has left    *)
(* is looked at, any other call ends.                                        *)
AfterFailure(c) ==
    IF call[c].goal \in {"executing", "succeeded", "blocked", "failed"} THEN Goto(c, "salvaging") ELSE End(c)

Preview(p) ==
    /\ rec.state = "absent" /\ p \notin dead
    /\ rec' = [NoRecord EXCEPT !.state = "pending", !.rev = 1, !.home = p]
    /\ UNCHANGED <<lock, call, dead, late, binding, effect, crashes, faults>>

Start(c, p, op) ==
    /\ call[c].at = "idle" /\ rec.state # "absent" /\ p \notin dead
    /\ call' = [call EXCEPT ![c] = [IdleCall EXCEPT !.proc = p, !.op = op, !.at = "loading"]]
    /\ UNCHANGED <<rec, lock, dead, late, binding, effect, crashes, faults>>

(* Mutant: an execution whose owner cannot be proven dead is taken over. *)
ownerIsProvablyDead_Unknown(p) == TRUE

(* Mutant: every error of the probe means a live owner. *)
ownerIsProvablyDead_Never(p) == FALSE

ownerIsProvablyDead(p) == p \in dead

(* handleExecuting: an execution whose owner is dead is taken for reconciliation. *)
HandleExecuting(c) ==
    IF ownerIsProvablyDead(rec.pid) THEN Mutate(c, rec.rev, rec.exec, "reconciliation_required") ELSE End(c)

(* confirm, cancel and get load the record and decide. *)
LoadConfirm(c) ==
    /\ call[c].at = "loading" /\ call[c].op = "confirm"
    /\ CASE rec.state = "executing" -> HandleExecuting(c)
         [] rec.state = "pending" /\ late = "yes" -> Mutate(c, rec.rev, "none", "expired")
         [] rec.state = "pending" /\ late = "no" -> call' = [call EXCEPT ![c].at = "binding", ![c].seen = rec.rev]
         [] OTHER -> End(c)
    /\ UNCHANGED <<rec, lock, dead, late, binding, effect, crashes, faults>>

LoadCancel(c) ==
    /\ call[c].at = "loading" /\ call[c].op = "cancel"
    /\ IF rec.state = "pending"
       THEN Mutate(c, rec.rev, "none", IF late = "yes" THEN "expired" ELSE "cancelled")
       ELSE End(c)
    /\ UNCHANGED <<rec, lock, dead, late, binding, effect, crashes, faults>>

LoadGet(c) ==
    /\ call[c].at = "loading" /\ call[c].op = "get"
    /\ IF rec.state = "pending" /\ late = "yes" THEN Mutate(c, rec.rev, "none", "expired") ELSE End(c)
    /\ UNCHANGED <<rec, lock, dead, late, binding, effect, crashes, faults>>

(* assertCurrentBindings; the process nonce is one of the bindings. *)
CheckBindings(c) ==
    /\ call[c].at = "binding"
    /\ IF binding = "same" /\ rec.home = call[c].proc THEN Mutate(c, call[c].seen, c, "executing") ELSE End(c)
    /\ UNCHANGED <<rec, lock, dead, late, binding, effect, crashes, faults>>

(* Mutant: the lock is written over a lock that exists. *)
LinkIsFree_Always == TRUE

LinkIsFree == lock = NoLock

(* acquireLock: link(2) fails when the name exists; three attempts. *)
LinkLock(c) ==
    /\ call[c].at = "linking"
    /\ IF LinkIsFree /\ call[c].tries < 3
       THEN lock' = [call |-> c, pid |-> call[c].proc] /\ Goto(c, "reading")
       ELSE /\ IF call[c].tries < 3 THEN Goto(c, "looking") ELSE AfterFailure(c)
            /\ UNCHANGED lock
    /\ UNCHANGED <<rec, dead, late, binding, effect, crashes, faults>>

TryAgain(c) == call' = [call EXCEPT ![c].at = "linking", ![c].tries = @ + 1, ![c].other = NoLock]

(* readLock: a lock that is gone is tried again, one of a live process is busy. *)
ReadLock(c) ==
    /\ call[c].at = "looking"
    /\ CASE lock = NoLock -> TryAgain(c)
         [] lock # NoLock /\ ownerIsProvablyDead(lock.pid)
              -> call' = [call EXCEPT ![c].at = "rechecking", ![c].other = lock]
         [] OTHER -> AfterFailure(c)
    /\ UNCHANGED <<rec, lock, dead, late, binding, effect, crashes, faults>>

(* removeProvablyStaleLock: the identity is compared, then the name removed. *)
RecheckLock(c) ==
    /\ call[c].at = "rechecking"
    /\ IF lock = call[c].other THEN Goto(c, "removing") ELSE TryAgain(c)
    /\ UNCHANGED <<rec, lock, dead, late, binding, effect, crashes, faults>>

RemoveLock(c) ==
    /\ call[c].at = "removing"
    /\ lock' = NoLock
    /\ TryAgain(c)
    /\ UNCHANGED <<rec, dead, late, binding, effect, crashes, faults>>

(* The record is read and the transition decided. *)
ReadRecord(c) ==
    /\ call[c].at = "reading"
    /\ call' = [call EXCEPT ![c].at = IF MayStore(c) THEN "checking" ELSE "dropping",
                            ![c].base = IF MayStore(c) THEN rec ELSE @]
    /\ UNCHANGED <<rec, lock, dead, late, binding, effect, crashes, faults>>

(* The file that was read is still there. *)
CheckRecord(c) ==
    /\ call[c].at = "checking"
    /\ Goto(c, IF rec = call[c].base THEN "renaming" ELSE "dropping")
    /\ UNCHANGED <<rec, lock, dead, late, binding, effect, crashes, faults>>

RenameRecord(c) ==
    /\ call[c].at = "renaming"
    /\ rec' = NextRecord(c)
    /\ Goto(c, "unlocking")
    /\ UNCHANGED <<lock, dead, late, binding, effect, crashes, faults>>

(* Mutant: the identity of the lock is not compared at release. *)
Holds_Assumed(c) == TRUE

Holds(c) == lock = [call |-> c, pid |-> call[c].proc]

(* releaseLock compares the identity of the lock file, then removes the name; *)
(* after a failure (dropping) a lock that has changed is left alone.          *)
CheckLock(c) ==
    /\ call[c].at \in {"unlocking", "dropping"}
    /\ IF Holds(c) THEN Goto(c, IF call[c].at = "unlocking" THEN "unlinking" ELSE "undoing")
                   ELSE AfterFailure(c)
    /\ UNCHANGED <<rec, lock, dead, late, binding, effect, crashes, faults>>

UnlinkLock(c) ==
    /\ call[c].at \in {"unlinking", "undoing"}
    /\ lock' = NoLock
    /\ IF call[c].at = "unlinking" THEN Goto(c, "verifying") ELSE AfterFailure(c)
    /\ UNCHANGED <<rec, dead, late, binding, effect, crashes, faults>>

(* The published record has the revision that was written: it is returned, *)
(* and a claim goes on to execute.                                         *)
VerifyRecord(c) ==
    /\ call[c].at = "verifying"
    /\ CASE rec.rev # call[c].base.rev + 1 -> AfterFailure(c)
         [] rec.rev = call[c].base.rev + 1 /\ call[c].goal = "executing"
              -> call' = [call EXCEPT ![c].at = "auditing", ![c].seen = rec.rev]
         [] OTHER -> End(c)
    /\ UNCHANGED <<rec, lock, dead, late, binding, effect, crashes, faults>>

(* plan.confirmed and plan.execution_started are recorded before any action. *)
Audit(c) ==
    /\ call[c].at = "auditing"
    /\ Goto(c, "acting")
    /\ UNCHANGED <<rec, lock, dead, late, binding, effect, crashes, faults>>

BeginAction(c) ==
    /\ call[c].at = "acting" /\ call[c].done < NActions
    /\ effect' = [effect EXCEPT ![call[c].done + 1] = @ + 1]
    /\ Goto(c, "awaiting")
    /\ UNCHANGED <<rec, lock, dead, late, binding, crashes, faults>>

(* The outcome of the action: the loop goes on only after a success. *)
EndAction(c, outcome) ==
    /\ call[c].at = "awaiting"
    /\ IF outcome = "succeeded"
       THEN call' = [call EXCEPT ![c].at = "acting", ![c].done = @ + 1]
       ELSE Mutate(c, call[c].seen, c, outcome)
    /\ UNCHANGED <<rec, lock, dead, late, binding, effect, crashes, faults>>

AllDone(c) == call[c].done = NActions

Complete(c) ==
    /\ call[c].at = "acting" /\ AllDone(c)
    /\ Mutate(c, call[c].seen, c, "succeeded")
    /\ UNCHANGED <<rec, lock, dead, late, binding, effect, crashes, faults>>

MustReconcile(c) == rec.state = "executing" /\ rec.exec = c

(* The catch blocks of confirm: an execution that is still open and its own *)
(* is marked for reconciliation.                                            *)
Salvage(c) ==
    /\ call[c].at = "salvaging"
    /\ IF MustReconcile(c) THEN Mutate(c, rec.rev, rec.exec, "reconciliation_required") ELSE End(c)
    /\ UNCHANGED <<rec, lock, dead, late, binding, effect, crashes, faults>>

Step(c) ==
    \/ LoadConfirm(c) \/ LoadCancel(c) \/ LoadGet(c) \/ CheckBindings(c)
    \/ LinkLock(c) \/ ReadLock(c) \/ RecheckLock(c) \/ RemoveLock(c)
    \/ ReadRecord(c) \/ CheckRecord(c) \/ RenameRecord(c) \/ CheckLock(c) \/ UnlinkLock(c)
    \/ VerifyRecord(c) \/ Audit(c) \/ BeginAction(c) \/ Complete(c) \/ Salvage(c)
    \/ \E outcome \in {"succeeded", "blocked", "failed"} : EndAction(c, outcome)

----------------------------------------------------------------------------
(* Faults *)

Fault == faults < MaxFaults /\ faults' = faults + 1

(* A file operation fails or the write budget is used up, before the rename *)
(* or (sync) after it; also the load that verifies, and that of a salvage.  *)
(* A release that fails is tried once more, as one that follows a failure.  *)
StoreFails(c) ==
    /\ Fault
    /\ \/ call[c].at \in {"linking", "looking", "rechecking", "dropping", "verifying"} /\ AfterFailure(c)
       \/ call[c].at \in {"reading", "checking", "renaming", "unlocking"} /\ Goto(c, "dropping")
       \/ call[c].at \in {"loading", "salvaging"} /\ End(c)
    /\ UNCHANGED <<rec, lock, dead, late, binding, effect, crashes>>

(* A lock cannot be removed, or it is and the sync of the directory fails;   *)
(* the lock of a release that follows a failure may stay for good.           *)
RemovalFails(c) ==
    /\ Fault
    /\ call[c].at \in {"removing", "unlinking", "undoing"}
    /\ lock' \in {lock, NoLock}
    /\ IF call[c].at = "unlinking" /\ lock' # NoLock THEN Goto(c, "dropping") ELSE AfterFailure(c)
    /\ UNCHANGED <<rec, dead, late, binding, effect, crashes>>

(* An audit fails, an action throws, the deadline passes or the caller aborts: *)
(* raceExecution rejects; an action that was begun goes on.                    *)
ExecutionFails(c) ==
    /\ Fault
    /\ call[c].at \in {"auditing", "acting", "awaiting"}
    /\ Goto(c, "salvaging")
    /\ UNCHANGED <<rec, lock, dead, late, binding, effect, crashes>>

(* A process dies with its calls; a lock it has linked stays. *)
Crash(p) ==
    /\ p \notin dead /\ crashes < MaxCrashes
    /\ crashes' = crashes + 1
    /\ dead' = dead \cup {p}
    /\ call' = [c \in Calls |-> IF call[c].proc = p THEN IdleCall ELSE call[c]]
    /\ UNCHANGED <<rec, lock, late, binding, effect, faults>>

Expire ==
    /\ rec.state # "absent" /\ late = "no" /\ late' = "yes"
    /\ UNCHANGED <<rec, lock, call, dead, binding, effect, crashes, faults>>

BindingChanges ==
    /\ rec.state # "absent" /\ binding = "same" /\ binding' = "changed"
    /\ UNCHANGED <<rec, lock, call, dead, late, effect, crashes, faults>>

Next ==
    \/ \E p \in Procs : Preview(p) \/ Crash(p)
    \/ \E c \in Calls, p \in Procs, op \in Ops \ {"none"} : Start(c, p, op)
    \/ \E c \in Calls : Step(c) \/ StoreFails(c) \/ RemovalFails(c) \/ ExecutionFails(c)
    \/ Expire \/ BindingChanges

(* Calls that are under way go on, and the holder of the token keeps asking *)
(* for the plan through a process that lives.                               *)
Fairness ==
    \A c \in Calls : WF_vars(Step(c)) /\ SF_vars(\E p \in Procs : Start(c, p, "confirm"))

Spec == Init /\ [][Next]_vars

FairSpec == Spec /\ Fairness

----------------------------------------------------------------------------
(* Properties *)

(* Every variable has its type. *)
TypeOK ==
    /\ rec \in Record /\ lock \in Lock /\ call \in [Calls -> Call]
    /\ dead \subseteq Procs /\ late \in {"no", "yes"} /\ binding \in {"same", "changed"}
    /\ effect \in [Actions -> Nat]
    /\ crashes \in 0..MaxCrashes /\ faults \in 0..MaxFaults

(* A confirmed plan has its effects once: no action is begun twice, whatever *)
(* calls compete, fail, time out or die.                                     *)
OneExecution == \A a \in Actions : effect[a] <= 1

(* A plan that is recorded cancelled or expired has had no effect, and one   *)
(* recorded succeeded has begun every action.                                *)
RecordIsTrue ==
    /\ rec.state \in {"pending", "cancelled", "expired"} => \A a \in Actions : effect[a] = 0
    /\ rec.state = "succeeded" => \A a \in Actions : effect[a] = 1

(* The call that executes actions is the one the record names, as long as it *)
(* has not given up.                                                         *)
RunnerIsRecorded ==
    \A c \in Calls : call[c].at \in {"acting", "awaiting"} => rec.state = "executing" /\ rec.exec = c

(* The record moves only along the state graph, one revision at a time: what *)
(* was decided is not overwritten by a call that read before.                *)
StateGraph ==
    [][rec' # rec => \/ rec.state = "absent"
                     \/ CanTransition(rec.state, rec'.state) /\ rec'.rev = rec.rev + 1]_vars

(* An execution whose process died is found and marked for reconciliation.  *)
DeadExecutionReconciled ==
    rec.state = "executing" /\ rec.pid \in dead ~> rec.state = "reconciliation_required"

(* A call that has begun and finished every action, without a fault or a     *)
(* deadline, leaves the plan succeeded.                                      *)
SuccessRecorded ==
    faults = 0 /\ crashes = 0 /\ (\E c \in Calls : call[c].goal = "succeeded") ~> rec.state = "succeeded"
============================================================================
