------------------------- MODULE StorageLock_proofs -------------------------
(***************************************************************************)
(* Mutual exclusion of the storage lock, and that no persisted update is   *)
(* lost, for every set of processes and any number of crashes.             *)
(***************************************************************************)
EXTENDS StorageLock, TLAPS

(* A process between creating and removing the lock file owns the file. *)
HolderOwns ==
    \A p \in Procs : pc[p] \in Holding =>
        lock # NoFile /\ lock.pid = p

(* A reclaimer owns the gate until it has removed it. *)
ReclaimerOwns ==
    \A p \in Procs : pc[p] \in Reclaiming => gate # NoFile /\ gate.pid = p

(* What a reclaimer read belongs to a process that no longer runs. *)
SeenIsDead ==
    \A p \in Procs : pc[p] \in {"current", "unlink"} => pc[seen[p].pid] = "dead"

(* When a reclaimer unlinks, the file is still the one it read. *)
UnlinksSeen ==
    \A p \in Procs : pc[p] = "unlink" => lock # NoFile /\ lock.pid = seen[p].pid

(* The operating system reports only processes that ended as dead. *)
DeadHasEnded == \A p \in Procs : pids[p] # "live" => pc[p] = "dead"

(* What an operation loaded is still the stored state when it persists. *)
LoadedIsCurrent == \A p \in Procs : pc[p] = "persist" => local[p] = data

IInv ==
    /\ TypeOK
    /\ HolderOwns
    /\ ReclaimerOwns
    /\ SeenIsDead
    /\ UnlinksSeen
    /\ DeadHasEnded
    /\ LoadedIsCurrent
    /\ NoLostUpdate

USE DEF Points, Texts, Reclaiming, Holding, LockFiles, GateFiles, Goto

(* Writing or ageing a lock file changes neither its owner nor its nonce. *)
LEMMA LockWritten ==
    ASSUME NEW f \in LockFiles, NEW t \in Texts
    PROVE  /\ [f EXCEPT !.text = t] \in LockFiles
           /\ [f EXCEPT !.text = t].pid = f.pid
           /\ [f EXCEPT !.text = t] # NoFile
           /\ [f EXCEPT !.age = "old"] \in LockFiles
           /\ [f EXCEPT !.age = "old"].pid = f.pid
           /\ [f EXCEPT !.age = "old"] # NoFile
<1>1. /\ [f EXCEPT !.text = t] \in LockFiles
      /\ [f EXCEPT !.text = t].pid = f.pid
      /\ [f EXCEPT !.age = "old"] \in LockFiles
      /\ [f EXCEPT !.age = "old"].pid = f.pid
  OBVIOUS
<1>2. NoFile \notin LockFiles
  BY LockAssumption
<1>3. QED BY <1>1, <1>2

(* Writing the gate file does not change its owner. *)
LEMMA GateWritten ==
    ASSUME NEW f \in GateFiles, NEW t \in Texts
    PROVE  /\ [f EXCEPT !.text = t] \in GateFiles
           /\ [f EXCEPT !.text = t].pid = f.pid
           /\ [f EXCEPT !.text = t] # NoFile
<1>1. /\ [f EXCEPT !.text = t] \in GateFiles
      /\ [f EXCEPT !.text = t].pid = f.pid
  OBVIOUS
<1>2. NoFile \notin GateFiles
  BY LockAssumption
<1>3. QED BY <1>1, <1>2

(* What a write to the lock or to the gate file by its owner leaves behind. *)
LEMMA WritesKeepOwner ==
    ASSUME TypeOK, HolderOwns, ReclaimerOwns, NEW p \in Procs
    PROVE  /\ WriteLock(p) \/ WriteLockFails(p) =>
                 lock' \in LockFiles /\ lock'.pid = p /\ lock' # NoFile /\ lock.pid = p
           /\ WriteGate(p) \/ WriteGateFails(p) =>
                 gate' \in GateFiles /\ gate'.pid = p /\ gate' # NoFile
<1>1. ASSUME pc[p] = "write", NEW t \in Texts, lock' = [lock EXCEPT !.text = t]
      PROVE  lock' \in LockFiles /\ lock'.pid = p /\ lock' # NoFile /\ lock.pid = p
  <2>1. lock \in LockFiles /\ lock.pid = p
    BY <1>1 DEF TypeOK, HolderOwns
  <2> HIDE DEF LockFiles
  <2>2. QED BY <2>1, <1>1, LockWritten
<1>2. ASSUME pc[p] = "gwrite", NEW t \in Texts, gate' = [gate EXCEPT !.text = t]
      PROVE  gate' \in GateFiles /\ gate'.pid = p /\ gate' # NoFile
  <2>1. gate \in GateFiles /\ gate.pid = p
    BY <1>2 DEF TypeOK, ReclaimerOwns
  <2>2. QED BY <2>1, <1>2, GateWritten
<1>3. QED BY <1>1, <1>2 DEF WriteLock, WriteLockFails, WriteGate, WriteGateFails

(* The types are preserved by every step of a process. *)
LEMMA StepType ==
    ASSUME TypeOK, HolderOwns, ReclaimerOwns, NEW p \in Procs, Step(p)
    PROVE  TypeOK'
<1> USE LockAssumption DEF TypeOK
<1>1. CASE Start(p) BY <1>1 DEF Start
<1>2. CASE ProbeGate(p) BY <1>2 DEF ProbeGate
<1>3. CASE OpenLock(p)
  <2>1. [pid |-> p, n |-> turn[p] + 1, text |-> "empty", age |-> "young"] \in LockFiles
    OBVIOUS
  <2>2. [turn EXCEPT ![p] = @ + 1] \in [Procs -> Nat]
    OBVIOUS
  <2> HIDE DEF LockFiles
  <2>3. QED BY <1>3, <2>1, <2>2 DEF OpenLock
<1>4. CASE WriteLock(p) \/ WriteLockFails(p) BY <1>4, WritesKeepOwner DEF WriteLock, WriteLockFails
<1>5. CASE Inspect(p) \/ Wait(p) BY <1>5 DEF Inspect, Wait
<1>6. CASE Elect(p) BY <1>6 DEF Elect
<1>7. CASE WriteGate(p) \/ WriteGateFails(p) BY <1>7, WritesKeepOwner DEF WriteGate, WriteGateFails
<1>8. CASE ReadBefore(p) BY <1>8 DEF ReadBefore, Reclaimable, Identity
<1>9. CASE ReadCurrent(p) \/ Unlink(p) BY <1>9 DEF ReadCurrent, Unlink, Identity
<1>10. CASE CloseGate(p) \/ UnlinkGate(p) BY <1>10 DEF CloseGate, UnlinkGate
<1>11. CASE Load(p) \/ Persist(p) \/ OperationThrows(p) BY <1>11 DEF Load, Persist, OperationThrows
<1>12. CASE Release(p) \/ RemoveLock(p) BY <1>12 DEF Release, RemoveLock, Identity
<1>13. QED BY <1>1, <1>2, <1>3, <1>4, <1>5, <1>6, <1>7, <1>8, <1>9, <1>10, <1>11, <1>12 DEF Step

(* One file system call of a process keeps the ownership facts. *)
LEMMA StepKeeps ==
    ASSUME IInv, NEW p \in Procs, Step(p)
    PROVE  IInv'
<1>0. TypeOK' BY StepType DEF IInv
<1> USE <1>0, LockAssumption DEF IInv, TypeOK, HolderOwns, ReclaimerOwns, SeenIsDead, UnlinksSeen,
        DeadHasEnded, LoadedIsCurrent, NoLostUpdate
<1>1. CASE Start(p) BY <1>1 DEF Start
<1>2. CASE ProbeGate(p) BY <1>2 DEF ProbeGate
<1>3. CASE OpenLock(p) BY <1>3 DEF OpenLock
<1>4. CASE WriteLock(p) \/ WriteLockFails(p) BY <1>4, WritesKeepOwner DEF WriteLock, WriteLockFails
<1>5. CASE Inspect(p) \/ Wait(p) BY <1>5 DEF Inspect, Wait
<1>6. CASE Elect(p) BY <1>6 DEF Elect
<1>7. CASE WriteGate(p) \/ WriteGateFails(p) BY <1>7, WritesKeepOwner DEF WriteGate, WriteGateFails
<1>8. CASE ReadBefore(p)
  <2>1. CASE Reclaimable(lock)
    <3>1. lock \in LockFiles /\ pc[lock.pid] = "dead" /\ lock.pid # p
      BY <1>8, <2>1 DEF ReadBefore, Reclaimable
    <3>2. seen'[p].pid = lock.pid /\ \A q \in Procs \ {p} : seen'[q] = seen[q]
      BY <1>8, <2>1, <3>1 DEF ReadBefore, Identity
    <3>3. /\ pc' = [pc EXCEPT ![p] = "current"]
          /\ UNCHANGED <<turn, lock, gate, pids, data, local, applied>>
      BY <1>8, <2>1 DEF ReadBefore
    <3>4. QED BY <1>8, <3>1, <3>2, <3>3 DEF ReadBefore
  <2>2. CASE ~Reclaimable(lock)
    BY <1>8, <2>2 DEF ReadBefore
  <2>3. QED BY <2>1, <2>2
<1>9. CASE ReadCurrent(p) BY <1>9 DEF ReadCurrent, Identity
<1>10. CASE Unlink(p) BY <1>10 DEF Unlink
<1>11. CASE CloseGate(p) BY <1>11 DEF CloseGate
<1>12. CASE UnlinkGate(p) BY <1>12 DEF UnlinkGate
<1>13. CASE Load(p) BY <1>13 DEF Load
<1>14. CASE Persist(p) BY <1>14 DEF Persist
<1>15. CASE OperationThrows(p) BY <1>15 DEF OperationThrows
<1>16. CASE Release(p) BY <1>16 DEF Release
<1>17. CASE RemoveLock(p) BY <1>17 DEF RemoveLock
<1>18. QED BY <1>1, <1>2, <1>3, <1>4, <1>5, <1>6, <1>7, <1>8, <1>9, <1>10, <1>11, <1>12,
               <1>13, <1>14, <1>15, <1>16, <1>17 DEF Step

(* Deaths, reused pids and the passing of time keep the ownership facts. *)
LEMMA EnvironmentKeeps ==
    ASSUME IInv, (\E p \in Procs : Crash(p) \/ ReusePid(p)) \/ LockAges
    PROVE  IInv'
<1> USE LockAssumption DEF IInv, TypeOK, HolderOwns, ReclaimerOwns, SeenIsDead, UnlinksSeen,
        DeadHasEnded, LoadedIsCurrent, NoLostUpdate
<1>1. CASE \E p \in Procs : Crash(p) BY <1>1 DEF Crash
<1>2. CASE \E p \in Procs : ReusePid(p) BY <1>2 DEF ReusePid
<1>3. CASE LockAges
  <2>1. lock \in LockFiles
    BY <1>3 DEF LockAges
  <2>2. lock' \in LockFiles /\ lock'.pid = lock.pid /\ lock' # NoFile
    BY <1>3, <2>1, LockWritten DEF LockAges
  <2>3. QED BY <1>3, <2>2 DEF LockAges
<1>4. QED BY <1>1, <1>2, <1>3

(* The ownership facts hold in every reachable state. *)
THEOREM Inductive == Spec => []IInv
<1>1. Init => IInv
  BY LockAssumption DEF Init, IInv, TypeOK, HolderOwns, ReclaimerOwns, SeenIsDead, UnlinksSeen,
     DeadHasEnded, LoadedIsCurrent, NoLostUpdate
<1>2. IInv /\ UNCHANGED vars => IInv'
  BY DEF vars, IInv, TypeOK, HolderOwns, ReclaimerOwns, SeenIsDead, UnlinksSeen,
     DeadHasEnded, LoadedIsCurrent, NoLostUpdate
<1>3. IInv /\ Next => IInv'
  BY StepKeeps, EnvironmentKeeps DEF Next
<1>4. QED BY <1>1, <1>2, <1>3, PTL DEF Spec

(* withNotificationStorageLock: two running processes are never inside the  *)
(* operation together, for any number of processes, crashes and reclaims.   *)
THEOREM LockExcludes == Spec => []MutualExclusion
<1>1. IInv => MutualExclusion
  BY DEF IInv, HolderOwns, MutualExclusion
<1>2. QED BY <1>1, Inductive, PTL

(* Every reachable state of the lock protocol is well typed. *)
THEOREM TypeCorrect == Spec => []TypeOK
<1>1. IInv => TypeOK
  BY DEF IInv
<1>2. QED BY <1>1, Inductive, PTL

(* load-modify-persist under the lock never overwrites an update. *)
THEOREM UpdatesSurvive == Spec => []NoLostUpdate
<1>1. IInv => NoLostUpdate
  BY DEF IInv
<1>2. QED BY <1>1, Inductive, PTL

(* isolateStaleLock never removes the lock file of a running process. *)
THEOREM LiveLocksKept == Spec => LiveLockKept
<1> DEFINE Kept == \A p \in Procs :
          lock # NoFile /\ pc[p] # "dead" /\ lock.pid = p /\ lock' = NoFile
            => pc[p] = "remove"
<1>1. ASSUME IInv, NEW q \in Procs, Step(q) PROVE Kept
  <2> USE <1>1, LockAssumption DEF IInv, TypeOK, HolderOwns, UnlinksSeen, SeenIsDead
  <2>1. CASE Unlink(q) BY <2>1 DEF Unlink
  <2>2. CASE RemoveLock(q) BY <2>2 DEF RemoveLock
  <2>3. CASE OpenLock(q) BY <2>3 DEF OpenLock
  <2>4. CASE WriteLock(q) \/ WriteLockFails(q)
    BY <2>4, WritesKeepOwner
  <2>5. CASE UNCHANGED lock BY <2>5
  <2>6. QED BY <2>1, <2>2, <2>3, <2>4, <2>5 DEF Step, Start, ProbeGate, Inspect, Wait, Elect,
        WriteGate, WriteGateFails, ReadBefore, ReadCurrent, CloseGate, UnlinkGate, Load, Persist,
        OperationThrows, Release
<1>2. ASSUME IInv, LockAges PROVE Kept
  <2>1. lock \in LockFiles
    BY <1>2 DEF IInv, TypeOK, LockAges
  <2>2. lock' # NoFile
    BY <1>2, <2>1, LockWritten DEF LockAges
  <2>3. QED BY <2>2
<1>3. ASSUME NEW q \in Procs, Crash(q) \/ ReusePid(q) PROVE Kept
  BY <1>3 DEF Crash, ReusePid
<1>4. IInv /\ [Next]_vars => [Kept]_vars
  BY <1>1, <1>2, <1>3 DEF Next
<1>5. QED BY <1>4, Inductive, PTL DEF Spec, LiveLockKept
=============================================================================
