---------------------------- MODULE StorageLock ----------------------------
(***************************************************************************)
(* The cross-process file lock of packages/github/src/                     *)
(* notification-storage-fs.ts, under which every operation of the watch    *)
(* delivery queues and of the Blob and receipt stores runs.                *)
(*                                                                         *)
(* A process takes the lock by creating the lock file exclusively, writes  *)
(* its pid and a nonce into it, runs a load-modify-persist operation and   *)
(* removes the file after reading its own nonce back.  A process that      *)
(* finds the file there tries to isolate a stale lock: it first creates    *)
(* the reclaim gate exclusively, reads the lock's identity, requires a     *)
(* dead owner and an expired age, reads the identity again, unlinks the    *)
(* lock and removes the gate.  Every file system call is a step of its     *)
(* own, and a process may die between any two of them.                     *)
(*                                                                         *)
(* A process is a pid: a restarted program is another pid.  The nonce a    *)
(* process writes into a lock file is the pair of its pid and the number   *)
(* of lock files it has created; a nonce that reaches no file is never     *)
(* observed, so an attempt that times out does not count.                  *)
(***************************************************************************)
EXTENDS Naturals, FiniteSets

CONSTANTS
    Procs,            \* pids that may run a storage operation
    MaxTurns,         \* bound: lock files created per process
    MaxCrashes,       \* bound: processes that die
    CrashPoints,      \* program points at which a process may die
    WriteFaults,      \* may writing or flushing a lock or gate file fail?
    NoFile            \* a file that does not exist

ASSUME LockAssumption ==
    /\ MaxTurns \in Nat /\ MaxCrashes \in Nat /\ WriteFaults \in BOOLEAN
    /\ NoFile \notin [pid: Procs, n: Nat, text: {"empty", "full"}, age: {"young", "old"}]
    /\ NoFile \notin [pid: Procs, text: {"empty", "full"}]

VARIABLES
    pc,       \* program point of each process
    turn,     \* number of lock files the process has created
    lock,     \* the lock file: NoFile or owner, nonce, content, past lockStaleMs?
    gate,     \* the reclaim gate file: NoFile or owner, content
    seen,     \* lock identity a reclaimer read before checking the owner
    pids,     \* the operating system's view: live, dead, or dead and reused
    data,     \* the stored state: number of updates it reflects
    local,    \* the state an operation loaded
    applied   \* updates persisted so far (history)

vars == <<pc, turn, lock, gate, seen, pids, data, local, applied>>

Texts     == {"empty", "full"}
LockFiles == [pid: Procs, n: Nat, text: Texts, age: {"young", "old"}]
GateFiles == [pid: Procs, text: Texts]

Reclaiming == {"gwrite", "before", "current", "unlink", "gclose", "gunlink"}
Holding    == {"write", "load", "persist", "release", "remove"}
Points     == {"idle", "probe", "open", "inspect", "elect", "wait", "dead"}
                 \cup Reclaiming \cup Holding

(* The identity readLockIdentity compares: owner pid and nonce. *)
Identity(f) == [pid |-> f.pid, n |-> f.n]

Init ==
    /\ pc = [p \in Procs |-> "idle"]
    /\ turn = [p \in Procs |-> 0]
    /\ lock = NoFile
    /\ gate = NoFile
    /\ seen = [p \in Procs |-> [pid |-> p, n |-> 0]]
    /\ pids = [p \in Procs |-> "live"]
    /\ data = 0
    /\ local = [p \in Procs |-> 0]
    /\ applied = 0

Goto(p, point) == pc' = [pc EXCEPT ![p] = point]

----------------------------------------------------------------------------
(* Acquisition *)

(* A caller enters withNotificationStorageLock with a fresh nonce. *)
Start(p) ==
    /\ pc[p] = "idle"
    /\ turn[p] < MaxTurns
    /\ Goto(p, "probe")
    /\ UNCHANGED <<turn, lock, gate, seen, pids, data, local, applied>>

(* While the reclaim gate exists the caller waits or reaches its deadline. *)
ProbeGate(p) ==
    /\ pc[p] = "probe"
    /\ IF gate = NoFile THEN Goto(p, "open")
       ELSE Goto(p, "wait")
    /\ UNCHANGED <<turn, lock, gate, seen, pids, data, local, applied>>

(* Mutant: the lock file is opened with 'w' instead of 'wx'. *)
OpenLock_NotExclusive(p) ==
    /\ pc[p] = "open"
    /\ lock' = [pid |-> p, n |-> turn[p] + 1, text |-> "empty", age |-> "young"]
    /\ turn' = [turn EXCEPT ![p] = @ + 1]
    /\ Goto(p, "write")
    /\ UNCHANGED <<gate, seen, pids, data, local, applied>>

(* openSync(lockPath, 'wx'): exclusive creation of an empty lock file. *)
OpenLock(p) ==
    /\ pc[p] = "open"
    /\ IF lock = NoFile
       THEN /\ lock' = [pid |-> p, n |-> turn[p] + 1, text |-> "empty", age |-> "young"]
            /\ turn' = [turn EXCEPT ![p] = @ + 1]
            /\ Goto(p, "write")
       ELSE /\ Goto(p, "inspect")
            /\ UNCHANGED <<lock, turn>>
    /\ UNCHANGED <<gate, seen, pids, data, local, applied>>

(* The pid and the nonce reach the file and the caller owns the lock. *)
WriteLock(p) ==
    /\ pc[p] = "write"
    /\ lock' = [lock EXCEPT !.text = "full"]
    /\ Goto(p, "load")
    /\ UNCHANGED <<turn, gate, seen, pids, data, local, applied>>

(* A failed write or fsync is not EEXIST: it is thrown to the caller and    *)
(* the lock file stays, with or without its content.                        *)
WriteLockFails(p) ==
    /\ WriteFaults
    /\ pc[p] = "write"
    /\ \E t \in Texts : lock' = [lock EXCEPT !.text = t]
    /\ Goto(p, "idle")
    /\ UNCHANGED <<turn, gate, seen, pids, data, local, applied>>

(* assertSecureLockFile after EEXIST: the owner may have released since. *)
Inspect(p) ==
    /\ pc[p] = "inspect"
    /\ Goto(p, IF lock = NoFile THEN "wait" ELSE "elect")
    /\ UNCHANGED <<turn, lock, gate, seen, pids, data, local, applied>>

(* blockFor, then the next round of the loop, or STORAGE_LOCK_TIMEOUT. *)
Wait(p) ==
    /\ pc[p] = "wait"
    /\ \/ Goto(p, "probe")
       \/ Goto(p, "idle")
    /\ UNCHANGED <<turn, lock, gate, seen, pids, data, local, applied>>

----------------------------------------------------------------------------
(* isolateStaleLock *)

(* openSync(reclaimPath, 'wx') elects one reclaimer. *)
Elect(p) ==
    /\ pc[p] = "elect"
    /\ IF gate = NoFile
       THEN /\ gate' = [pid |-> p, text |-> "empty"]
            /\ Goto(p, "gwrite")
       ELSE /\ Goto(p, "wait")
            /\ UNCHANGED gate
    /\ UNCHANGED <<turn, lock, seen, pids, data, local, applied>>

WriteGate(p) ==
    /\ pc[p] = "gwrite"
    /\ gate' = [gate EXCEPT !.text = "full"]
    /\ Goto(p, "before")
    /\ UNCHANGED <<turn, lock, seen, pids, data, local, applied>>

(* The error is swallowed and the finally block still looks at the gate. *)
WriteGateFails(p) ==
    /\ WriteFaults
    /\ pc[p] = "gwrite"
    /\ \E t \in Texts : gate' = [gate EXCEPT !.text = t]
    /\ Goto(p, "gclose")
    /\ UNCHANGED <<turn, lock, seen, pids, data, local, applied>>

(* Mutant: age alone makes a lock stale. *)
Reclaimable_AnyOwner(f) == f # NoFile /\ f.text = "full" /\ f.age = "old"

(* Only a complete lock of a dead owner, older than lockStaleMs, is a      *)
(* candidate; an empty or partial file makes the parse throw.              *)
Reclaimable(f) ==
    /\ f # NoFile
    /\ f.text = "full"
    /\ pids[f.pid] = "dead"
    /\ f.age = "old"

ReadBefore(p) ==
    /\ pc[p] = "before"
    /\ IF Reclaimable(lock)
       THEN /\ seen' = [seen EXCEPT ![p] = Identity(lock)]
            /\ Goto(p, "current")
       ELSE /\ Goto(p, "gclose")
            /\ UNCHANGED seen
    /\ UNCHANGED <<turn, lock, gate, pids, data, local, applied>>

ReadCurrent(p) ==
    /\ pc[p] = "current"
    /\ IF lock # NoFile /\ lock.text = "full" /\ Identity(lock) = seen[p]
       THEN Goto(p, "unlink")
       ELSE Goto(p, "gclose")
    /\ UNCHANGED <<turn, lock, gate, seen, pids, data, local, applied>>

(* unlinkSync removes whatever file has the lock's name now. *)
Unlink(p) ==
    /\ pc[p] = "unlink"
    /\ lock' = NoFile
    /\ Goto(p, "gclose")
    /\ UNCHANGED <<turn, gate, seen, pids, data, local, applied>>

(* Mutant: the finally block forgets the gate. *)
CloseGate_Kept(p) ==
    /\ pc[p] = "gclose"
    /\ Goto(p, "wait")
    /\ UNCHANGED <<turn, lock, gate, seen, pids, data, local, applied>>

(* The gate is removed only after its nonce was read back. *)
CloseGate(p) ==
    /\ pc[p] = "gclose"
    /\ IF gate # NoFile /\ gate.text = "full" /\ gate.pid = p
       THEN Goto(p, "gunlink")
       ELSE Goto(p, "wait")
    /\ UNCHANGED <<turn, lock, gate, seen, pids, data, local, applied>>

UnlinkGate(p) ==
    /\ pc[p] = "gunlink"
    /\ gate' = NoFile
    /\ Goto(p, "wait")
    /\ UNCHANGED <<turn, lock, seen, pids, data, local, applied>>

----------------------------------------------------------------------------
(* The operation under the lock, and the release *)

(* Mutant: the operation works on the state cached by an earlier one. *)
Load_Cached(p) ==
    /\ pc[p] = "load"
    /\ Goto(p, "persist")
    /\ UNCHANGED <<turn, lock, gate, seen, pids, data, local, applied>>

Load(p) ==
    /\ pc[p] = "load"
    /\ local' = [local EXCEPT ![p] = data]
    /\ Goto(p, "persist")
    /\ UNCHANGED <<turn, lock, gate, seen, pids, data, applied>>

(* The new state replaces the old one by an atomic rename. *)
Persist(p) ==
    /\ pc[p] = "persist"
    /\ data' = local[p] + 1
    /\ applied' = applied + 1
    /\ Goto(p, "release")
    /\ UNCHANGED <<turn, lock, gate, seen, pids, local>>

(* An operation that throws writes nothing; the finally block still runs. *)
OperationThrows(p) ==
    /\ pc[p] \in {"load", "persist"}
    /\ Goto(p, "release")
    /\ UNCHANGED <<turn, lock, gate, seen, pids, data, local, applied>>

Release(p) ==
    /\ pc[p] = "release"
    /\ IF lock # NoFile /\ lock.text = "full" /\ Identity(lock) = [pid |-> p, n |-> turn[p]]
       THEN Goto(p, "remove")
       ELSE Goto(p, "idle")
    /\ UNCHANGED <<turn, lock, gate, seen, pids, data, local, applied>>

RemoveLock(p) ==
    /\ pc[p] = "remove"
    /\ lock' = NoFile
    /\ Goto(p, "idle")
    /\ UNCHANGED <<turn, gate, seen, pids, data, local, applied>>

----------------------------------------------------------------------------
(* The environment *)

Dead == {p \in Procs : pc[p] = "dead"}

Crash(p) ==
    /\ pc[p] \in CrashPoints
    /\ Cardinality(Dead) < MaxCrashes
    /\ Goto(p, "dead")
    /\ pids' = [pids EXCEPT ![p] = "dead"]
    /\ UNCHANGED <<turn, lock, gate, seen, data, local, applied>>

(* The operating system gives the pid of a dead process to another program: *)
(* isProcessAlive answers yes from then on.                                 *)
ReusePid(p) ==
    /\ pids[p] = "dead"
    /\ pids' = [pids EXCEPT ![p] = "reused"]
    /\ UNCHANGED <<pc, turn, lock, gate, seen, data, local, applied>>

(* lockStaleMs passes since the lock file was written. *)
LockAges ==
    /\ lock # NoFile
    /\ lock.age = "young"
    /\ lock' = [lock EXCEPT !.age = "old"]
    /\ UNCHANGED <<pc, turn, gate, seen, pids, data, local, applied>>

----------------------------------------------------------------------------
Step(p) ==
    \/ Start(p) \/ ProbeGate(p) \/ OpenLock(p) \/ WriteLock(p) \/ WriteLockFails(p)
    \/ Inspect(p) \/ Wait(p)
    \/ Elect(p) \/ WriteGate(p) \/ WriteGateFails(p) \/ ReadBefore(p) \/ ReadCurrent(p)
    \/ Unlink(p) \/ CloseGate(p) \/ UnlinkGate(p)
    \/ Load(p) \/ Persist(p) \/ OperationThrows(p) \/ Release(p) \/ RemoveLock(p)

Next ==
    \/ \E p \in Procs : Step(p) \/ Crash(p) \/ ReusePid(p)
    \/ LockAges

Spec == Init /\ [][Next]_vars

(* Every process that is running keeps running, and callers come back: the  *)
(* routers' drain timers run a storage operation every second.  Files age,  *)
(* and writing the gate does not fail every time.                           *)
FairSpec ==
    /\ Spec
    /\ \A p \in Procs : WF_vars(Step(p)) /\ SF_vars(WriteGate(p))
    /\ WF_vars(LockAges)

----------------------------------------------------------------------------
(* Properties *)

TypeOK ==
    /\ pc \in [Procs -> Points]
    /\ turn \in [Procs -> Nat]
    /\ lock \in LockFiles \cup {NoFile}
    /\ gate \in GateFiles \cup {NoFile}
    /\ seen \in [Procs -> [pid: Procs, n: Nat]]
    /\ pids \in [Procs -> {"live", "dead", "reused"}]
    /\ data \in Nat
    /\ local \in [Procs -> Nat]
    /\ applied \in Nat

(* No two running processes are inside withNotificationStorageLock's        *)
(* operation at the same time, whatever is reclaimed and whoever dies: the  *)
(* second identity read and the unlink of isolateStaleLock are two calls    *)
(* apart, and the gate with the dead owner is what makes that safe.         *)
MutualExclusion ==
    \A p, q \in Procs :
        pc[p] \in Holding /\ pc[q] \in Holding => p = q

(* Every persisted update survives: no operation overwrites another's       *)
(* result with a state it loaded before it.                                 *)
NoLostUpdate == data = applied

(* isolateStaleLock never removes the lock file of a process that runs. *)
LiveLockKept ==
    [][\A p \in Procs :
          lock # NoFile /\ pc[p] # "dead" /\ lock.pid = p /\ lock' = NoFile
            => pc[p] = "remove"]_vars

Stranded(p) ==
    /\ lock # NoFile /\ lock.pid = p /\ lock.text = "full" /\ pids[p] = "dead"
    /\ \E q \in Procs : pc[q] # "dead" /\ turn[q] < MaxTurns

(* A reclaimer died while it owned the gate, or could not write its nonce    *)
(* into it and so does not recognise it; nobody else removes the gate.        *)
GateAbandoned ==
    /\ gate # NoFile
    /\ \/ pc[gate.pid] = "dead"
       \/ gate.text = "empty" /\ pc[gate.pid] \notin Reclaiming

(* A lock left complete by a dead process is isolated or nobody is left to  *)
(* ask for it, unless the operating system reuses the pid or a reclaimer    *)
(* abandons the gate.                                                       *)
StaleLockRecovers ==
    \A p \in Procs : Stranded(p) ~> ~Stranded(p) \/ pids[p] = "reused" \/ GateAbandoned
=============================================================================
