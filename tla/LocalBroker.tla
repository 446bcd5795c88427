----------------------------- MODULE LocalBroker -----------------------------
(***************************************************************************)
(* The file-backed claim broker of a workspace (packages/core/src/claim-   *)
(* broker.ts, FileClaimBroker) and the local path of an agent tick         *)
(* (packages/runtime/src/tick.ts), which claims the first open task it     *)
(* can.                                                                    *)
(*                                                                         *)
(* Each process keeps the broker's maps in memory, and every operation     *)
(* takes the lock file, merges the state file into the maps, works on them *)
(* and writes them back if the operation succeeded; a write that fails     *)
(* still releases the lock.  A process may die between any two of these    *)
(* steps; nobody else removes its lock file.                               *)
(***************************************************************************)
EXTENDS Naturals, FiniteSets

CONSTANTS
    Tasks,        \* directories under .openslack/tasks/open
    Procs,        \* processes that run an agent tick or end a lease
    Ops,          \* operations other than claimTask that processes call
    MaxLeases,    \* bound: lease ids
    MaxCrashes    \* bound: processes that die, saves that fail

Leases == 1..MaxLeases

ASSUME BrokerAssumption ==
    /\ MaxLeases \in Nat /\ MaxCrashes \in Nat
    /\ IsFiniteSet(Tasks)
    /\ "none" \notin Procs
    /\ Ops \subseteq {"heartbeat", "releaseLease", "expireLease"}

VARIABLES
    file,      \* lease-state.json
    mem,       \* the maps of each process
    lockFile,  \* lease-state.json.lock: the process that created it, or "none"
    proc,      \* what each process is doing
    over,      \* leases whose expiresAt has passed
    granted,   \* history: how often each lease id was given to an agent
    crashes    \* processes that died and saves that failed

vars == <<file, mem, lockFile, proc, over, granted, crashes>>

(* leases, taskLeases and taskStates; an unset entry is "none" or 0 *)
State ==
    [seq: 0..MaxLeases,
     leases: [Leases -> [task: Tasks, status: {"none", "active", "expired", "released"}]],
     holder: [Tasks -> 0..MaxLeases],
     state: [Tasks -> {"none", "ready", "claimed"}]]

Empty(t) ==
    [seq |-> 0, leases |-> [l \in Leases |-> [task |-> t, status |-> "none"]],
     holder |-> [x \in Tasks |-> 0], state |-> [x \in Tasks |-> "none"]]

(* The process is between ticks, about to lock, working, or about to unlock. *)
Stages == {"idle", "ticking", "waiting", "saving", "unlocking"}

Operations == {"none", "claimTask"} \cup Ops

NoCall(t) == [stage |-> "idle", op |-> "none", lease |-> 0, task |-> t, todo |-> {}]

Init ==
    \E t \in Tasks :
        /\ file = Empty(t)
        /\ mem = [p \in Procs |-> Empty(t)]
        /\ lockFile = "none"
        /\ proc = [p \in Procs |-> NoCall(t)]
        /\ over = {}
        /\ granted = [l \in Leases |-> 0]
        /\ crashes = 0

----------------------------------------------------------------------------
(* The broker's maps *)

(* Mutant: only the leases of the file are read, not whose task they hold. *)
Merged_LeasesOnly(m, f) == [m EXCEPT !.seq = f.seq, !.leases = f.leases]

(* loadWithLock: entries of the file replace entries of the maps; an entry *)
(* that the file lacks stays.                                              *)
Merged(m, f) ==
    [seq    |-> f.seq,
     leases |-> [l \in Leases |-> IF f.leases[l].status # "none" THEN f.leases[l] ELSE m.leases[l]],
     holder |-> [t \in Tasks |-> IF f.holder[t] # 0 THEN f.holder[t] ELSE m.holder[t]],
     state  |-> [t \in Tasks |-> IF f.state[t] # "none" THEN f.state[t] ELSE m.state[t]]]

(* The lease ends and its task is ready again, whoever holds it. *)
Ended(s, l, status) ==
    [s EXCEPT !.leases[l].status = status,
              !.holder[s.leases[l].task] = 0,
              !.state[s.leases[l].task] = "ready"]

IsOver(s, l) == s.leases[l].status = "active" /\ l \in over

(* Mutant: an expired lease keeps its task until somebody ends it. *)
Swept_Never(s, t) == s

(* getActiveLease marks a lease that has passed its time. *)
Swept(s, t) == IF s.holder[t] # 0 /\ IsOver(s, s.holder[t]) THEN Ended(s, s.holder[t], "expired") ELSE s

HasActiveLease(s, t) == s.holder[t] # 0 /\ s.leases[s.holder[t]].status = "active"

(* claimTask *)
CanClaim(s, t) == ~HasActiveLease(s, t) /\ s.state[t] = "ready" /\ s.seq < MaxLeases

Claimed(s, t) ==
    LET l == s.seq + 1
    IN  [s EXCEPT !.seq = l, !.leases[l] = [task |-> t, status |-> "active"],
                  !.holder[t] = l, !.state[t] = "claimed"]

(* heartbeat, releaseLease and expireLease: what they make of the maps, and *)
(* whether they succeed                                                     *)
Effect(s, op, l) ==
    CASE op = "heartbeat"    -> IF IsOver(s, l) THEN Ended(s, l, "expired") ELSE s
      [] op = "releaseLease" -> IF s.leases[l].status = "active" THEN Ended(s, l, "released") ELSE s
      [] op = "expireLease"  -> IF s.leases[l].status # "none" THEN Ended(s, l, "expired") ELSE s

Succeeds(s, op, l) ==
    CASE op = "heartbeat"    -> s.leases[l].status = "active" /\ l \notin over
      [] op = "releaseLease" -> s.leases[l].status = "active"
      [] op = "expireLease"  -> s.leases[l].status # "none"

----------------------------------------------------------------------------
(* Processes *)

(* runTick: the broker is constructed, which reads the file without a lock. *)
StartTick(p) ==
    /\ proc[p].stage = "idle"
    /\ mem' = [mem EXCEPT ![p] = Merged(Empty(proc[p].task), file)]
    /\ proc' = [proc EXCEPT ![p].stage = "ticking", ![p].todo = Tasks]
    /\ UNCHANGED <<file, lockFile, over, granted, crashes>>

(* The next open task is marked ready in memory and asked for. *)
AskFor(p, t) ==
    /\ proc[p].stage = "ticking" /\ t \in proc[p].todo
    /\ mem' = [mem EXCEPT ![p].state[t] = "ready"]
    /\ proc' = [proc EXCEPT ![p] = [stage |-> "waiting", op |-> "claimTask", lease |-> 0,
                                    task |-> t, todo |-> @.todo \ {t}]]
    /\ UNCHANGED <<file, lockFile, over, granted, crashes>>

(* The process is done, or dead, and its maps with it. *)
Exit(p) ==
    /\ proc' = [proc EXCEPT ![p] = NoCall(@.task)]
    /\ mem' = [mem EXCEPT ![p] = Empty(proc[p].task)]

EndTick(p) ==
    /\ proc[p].stage = "ticking" /\ proc[p].todo = {}
    /\ Exit(p)
    /\ UNCHANGED <<file, lockFile, over, granted, crashes>>

(* A process calls another operation of the broker on a lease it knows of. *)
Call(p, op, l) ==
    /\ proc[p].stage = "idle" /\ granted[l] > 0
    /\ mem' = [mem EXCEPT ![p] = Merged(Empty(proc[p].task), file)]
    /\ proc' = [proc EXCEPT ![p] = [stage |-> "waiting", op |-> op, lease |-> l,
                                    task |-> @.task, todo |-> {}]]
    /\ UNCHANGED <<file, lockFile, over, granted, crashes>>

(* The call returns without a grant: a tick goes on to its next task. *)
Return(p) ==
    IF proc[p].op # "claimTask" THEN Exit(p)
    ELSE /\ proc' = [proc EXCEPT ![p].stage = "ticking", ![p].op = "none", ![p].lease = 0]
         /\ UNCHANGED mem

(* Mutant: the lock file is opened without the exclusive flag. *)
LockIsFree_Always == TRUE

(* openSync(lockPath, 'wx') *)
LockIsFree == lockFile = "none"

(* acquireLock gives up after five seconds. *)
LockTimeout(p) ==
    /\ proc[p].stage = "waiting" /\ ~LockIsFree
    /\ Return(p)
    /\ UNCHANGED <<file, lockFile, over, granted, crashes>>

(* The lock is taken, the file merged into the maps and the operation done *)
(* on them; only a success is saved.                                       *)
LockAndWork(p) ==
    LET s    == Merged(mem[p], file)
        t    == proc[p].task
        l    == proc[p].lease
        done == IF proc[p].op = "claimTask" THEN CanClaim(Swept(s, t), t) ELSE Succeeds(s, proc[p].op, l)
    IN  /\ proc[p].stage = "waiting" /\ LockIsFree
        /\ lockFile' = p
        /\ mem' = [mem EXCEPT ![p] =
                     IF proc[p].op # "claimTask" THEN Effect(s, proc[p].op, l)
                     ELSE IF done THEN Claimed(Swept(s, t), t)
                     ELSE Swept(s, t)]
        /\ proc' = [proc EXCEPT ![p].stage = IF done THEN "saving" ELSE "unlocking",
                                ![p].lease = IF done /\ proc[p].op = "claimTask" THEN s.seq + 1 ELSE l]
        /\ UNCHANGED <<file, over, granted, crashes>>

(* saveWithLock: a temporary file renamed over the state file; a heartbeat *)
(* moves expiresAt, so the lease is not over.                              *)
Save(p) ==
    /\ proc[p].stage = "saving"
    /\ file' = mem[p]
    /\ over' = IF proc[p].op = "heartbeat" THEN over \ {proc[p].lease} ELSE over
    /\ proc' = [proc EXCEPT ![p].stage = "unlocking"]
    /\ UNCHANGED <<mem, lockFile, granted, crashes>>

WasGranted(p) == proc[p].op = "claimTask" /\ proc[p].lease # 0

(* releaseLock unlinks the lock file. *)
Unlock(p) ==
    /\ proc[p].stage = "unlocking"
    /\ lockFile' = "none"
    /\ granted' = IF WasGranted(p) THEN [granted EXCEPT ![proc[p].lease] = @ + 1] ELSE granted
    /\ IF WasGranted(p) THEN Exit(p) ELSE Return(p)
    /\ UNCHANGED <<file, over, crashes>>

Crash(p) ==
    /\ proc[p].stage # "idle" /\ crashes < MaxCrashes
    /\ crashes' = crashes + 1
    /\ Exit(p)
    /\ UNCHANGED <<file, lockFile, over, granted>>

(* saveWithLock throws and the state file is as it was: the lock is released *)
(* on the way out, and the call ends with the tick that made it.             *)
SaveFails(p) ==
    /\ proc[p].stage = "saving" /\ crashes < MaxCrashes
    /\ crashes' = crashes + 1
    /\ lockFile' = "none"
    /\ Exit(p)
    /\ UNCHANGED <<file, over, granted>>

(* The TTL of a lease passes. *)
LeaseEnds(l) ==
    /\ granted[l] > 0 /\ l \notin over
    /\ over' = over \cup {l}
    /\ UNCHANGED <<file, mem, lockFile, proc, granted, crashes>>

Tick(p) == StartTick(p) \/ EndTick(p) \/ \E t \in Tasks : AskFor(p, t)

Work(p) == LockAndWork(p) \/ Save(p) \/ Unlock(p)

Next ==
    \/ \E p \in Procs : Tick(p) \/ Work(p) \/ LockTimeout(p) \/ Crash(p) \/ SaveFails(p)
    \/ \E p \in Procs, op \in Ops, l \in Leases : Call(p, op, l)
    \/ \E l \in Leases : LeaseEnds(l)

(* The process that created the lock file is gone; nobody else removes it. *)
LockAbandoned == lockFile # "none" /\ proc[lockFile].stage \notin {"saving", "unlocking"}

ClaimWaits(p) == proc[p].stage = "waiting" /\ proc[p].op = "claimTask"

(* Agents tick on a schedule, whatever other operations are called, and a   *)
(* lock holder goes on.  An attempt to lock lasts five seconds and the lock  *)
(* is held for a file's read and write: of the attempts made while holders   *)
(* go on, not every one times out.                                           *)
Fairness ==
    /\ \A p \in Procs :
          /\ SF_vars(Tick(p))
          /\ WF_vars(LockAndWork(p) \/ Save(p) \/ Unlock(p) \/ LockTimeout(p))
          /\ []<>(ClaimWaits(p) /\ ~LockAbandoned) => []<><<ClaimWaits(p) /\ LockAndWork(p)>>_vars
    /\ \A l \in Leases : WF_vars(LeaseEnds(l))

Spec == Init /\ [][Next]_vars

FairSpec == Spec /\ Fairness

----------------------------------------------------------------------------
(* Properties *)

(* Every variable has its type. *)
TypeOK ==
    /\ file \in State /\ mem \in [Procs -> State]
    /\ lockFile \in Procs \cup {"none"}
    /\ proc \in [Procs -> [stage: Stages, op: Operations, lease: 0..MaxLeases, task: Tasks, todo: SUBSET Tasks]]
    /\ over \subseteq Leases
    /\ granted \in [Leases -> Nat]
    /\ crashes \in 0..MaxCrashes

(* Leases an agent may be working under: given to it, in time, not ended. *)
Running == {l \in Leases : granted[l] > 0 /\ l \notin over /\ file.leases[l].status = "active"}

(* A task has at most one agent working on it: two leases in their time     *)
(* never name the same task, whatever processes died or read before.        *)
OneHolder ==
    \A l1, l2 \in Running : file.leases[l1].task = file.leases[l2].task => l1 = l2

(* An operation that succeeded is not undone by the save of another         *)
(* process that read earlier: a lease that ended stays ended, and the       *)
(* sequence of lease ids does not go back.                                  *)
EndedStaysEnded ==
    [][/\ file'.seq >= file.seq
       /\ \A l \in Leases : file.leases[l].status \in {"expired", "released"}
                              => file'.leases[l].status \in {"expired", "released"}]_vars

(* A task whose lease has passed its time is given to another agent, as     *)
(* long as agents tick, lease ids remain and no process died holding the    *)
(* lock file.                                                               *)
TaskReclaimed ==
    \A t \in Tasks :
        file.holder[t] \in over /\ file.seq < MaxLeases
            ~> file.holder[t] \notin over \/ file.seq = MaxLeases \/ LockAbandoned
============================================================================
