------------------------- MODULE IssueClaim_proofs -------------------------
(***************************************************************************)
(* For any claims, agents, repairs, leases and faults: the types of         *)
(* IssueClaim, that a repair expires a claim only after its latest          *)
(* heartbeat has run out and, under the discipline the commands rely on,    *)
(* that an Issue has one winner, that the comments name the agent whose ref *)
(* stands, and where an Issue can go when no call fails.                    *)
(*                                                                         *)
(* IInv carries the first part.  A claim stands on the Issue while its      *)
(* lease runs or a command of its agent is under way (Standing): Holders    *)
(* says that one claim stands, with the newest comment and with the ref or  *)
(* on an Issue that is not ready; Contenders says that a claim before its   *)
(* grant has the ref and the newest claimed_at, and that a rollback deletes *)
(* its own ref or one that nobody needs.  Leases and Repairs tie the lease  *)
(* an agent was told of to the comments from which a repair expires it.     *)
(* Most steps only move one claim on (Passing) or one repair (Repaired);    *)
(* those that create or delete the ref, comment or grant have lemmas of     *)
(* their own.                                                              *)
(*                                                                         *)
(* Kept carries the second part, on top of IInv and while no call has       *)
(* failed: an Issue that is neither ready nor done is taken by a claim with *)
(* the ref, released by a repair that will make it ready, or doomed by two  *)
(* claims that are denied over an older claim's comment.                    *)
(***************************************************************************)
EXTENDS IssueClaim, FiniteSetTheorems, TLAPS

\* Stages in which a claim is granted and its agent at work.
Working == {"winDrop", "winAdd", "held"} \cup CommandStages

\* Stages of a claim that holds the ref and whose snapshot was found unchanged.
Contending == {"writing", "confirming", "checking"}

\* Stages that may still end in a deletion of the ref by its name.
Tentative == {"tentative", "rollback"}

\* The agent of c works under a lease that has not ended, or is in the middle
\* of a command it began under that lease.
Standing(c) == pc[c] \in Working /\ (pc[c] = "held" => now < leaseUntil[c])

\* Claims that have taken their claimed_at.
Started == {c \in Claims : turn[c] > 0}

\* The stages of a completion.
EndStages == {"endMerged", "endClaimed", "endReview", "endAdd", "endDelete", "endProve"}

\* What ownership rests on: operators repair in quiet moments, agents issue
\* commands under their lease, and a completion meets no fault.
Discipline == QuietRepair /\ TimelyCommands /\ (faults = 0 \/ "complete" \notin Commands)

\* Claims are numbered in the order of their claimed_at.
Turns ==
    /\ \A c \in Claims : turn[c] <= Cardinality(Started)
    /\ \A c \in Claims : pc[c] \in {"idle", "discovered"} => turn[c] = 0
    /\ \A c \in Claims : turn[c] = 0 => pc[c] \in {"idle", "discovered", "stopped"}
    /\ \A c, d \in Started : turn[c] = turn[d] => c = d

\* Evidence comes before the grant, the claimed_at before the evidence.
Grants ==
    /\ \A c \in Claims : pc[c] \in Working => c \in granted
    /\ \A c \in granted : pc[c] \in Working \cup {"stopped", "completed"} /\ c \in evidence
    /\ \A c \in evidence : turn[c] > 0
    /\ \A c \in Claims : pc[c] = "checking" => c \in evidence
    /\ \A c \in Claims : pc[c] = "writing" => c \notin evidence
    /\ \A c \in Claims : pc[c] \in EndStages => "complete" \in Commands

\* A snapshot that matches is of a ready Issue and younger than all evidence.
Snapshots ==
    /\ "ready" \notin labels => fresh = {}
    /\ \A c \in fresh : turn[c] > 0 => \A d \in evidence : turn[d] < turn[c]

\* The lease an agent was told of is one that the comments show.
Leases ==
    /\ \A c \in Claims : claimedAt[c] <= now
    /\ \A b \in beats : b.at <= now
    /\ \A c \in Claims : pc[c] \in {"beatWrite", "beatCheck"} => claimedAt[c] <= beatAt[c] /\ beatAt[c] <= now
    /\ \A c \in Claims : pc[c] = "beatCheck" => [agent |-> AgentOf[c], at |-> beatAt[c]] \in beats
    /\ \A c \in Claims : pc[c] \in Working => \E s \in LeaseStarts(c, now) : leaseUntil[c] = s + TTL

\* A repair works alone and from comments that nobody changes; once it expires
\* a claim nobody stands on it.
RepairOK(r) ==
    /\ ~InFlight
    /\ \A s \in Repairers : rpc[s] # "idle" => s = r
    /\ rnow[r] <= now
    /\ \A b \in beats : b.at <= rnow[r]
    /\ \A c \in evidence : claimedAt[c] <= rnow[r]
    /\ rpc[r] = "expiring" => \A c \in evidence : IsNewest(c) => ExpiredAt(c, rnow[r])
    /\ Discipline /\ rpc[r] \in {"expiring", "proving", "unclaim", "toReady"}
          => \A c \in Claims : ~Standing(c)

\* Every repair under way is as it should be.
Repairs == \A r \in Repairers : rpc[r] # "idle" => RepairOK(r)

\* Claims in the stages before the grant: the ref is theirs, and their claimed_at
\* is newer than all evidence; a deletion that is still to come either hits the
\* claim's own ref or an Issue that nobody can win any more.
Contenders ==
    /\ \A c \in Claims : pc[c] \in Contending =>
          ref = c /\ \A d \in evidence : turn[d] <= turn[c]
    /\ \A c \in Claims : pc[c] \in Tentative =>
          ref = c \/ ("ready" \notin labels /\ \A d \in Claims : pc[d] \notin Contending)

\* Claims after the grant: one agent stands on the Issue, with the newest evidence
\* and with the ref, or with an Issue that nobody can win any more.
Holders ==
    /\ \A c \in Claims : Standing(c) => IsNewest(c) /\ (ref = c \/ "ready" \notin labels)
    /\ \A c, d \in Claims : Standing(c) /\ c # d => ~Standing(d) /\ pc[d] \notin Contending
    /\ \A c \in granted : ref = c => IsNewest(c)
    /\ \A c \in Claims : faults = 0 /\ Standing(c) /\ pc[c] # "winDrop" => "ready" \notin labels

\* The inductive invariant.
IInv ==
    /\ TypeOK /\ Turns /\ Grants /\ Snapshots /\ Leases
    /\ QuietRepair => Repairs
    /\ Discipline => Contenders /\ Holders

-----------------------------------------------------------------------------
(* A claim passes from one stage to the next *)

\* The stages of commands are none of a claim's, and what each set holds.
LEMMA StageFacts ==
    /\ Working \subseteq Stages /\ Contending \subseteq ClaimStages /\ Tentative \subseteq ClaimStages
    /\ Working \cap Contending = {} /\ Working \cap Tentative = {} /\ Contending \cap Tentative = {}
    /\ Working \cap {"idle", "discovered", "stopped", "completed"} = {}
    /\ CommandStages \subseteq Working /\ EndStages \subseteq CommandStages
    /\ \A s \in Working : s = "held" \/ s \in ClaimStages \cup CommandStages
  BY DEF Working, Contending, Tentative, EndStages, Stages, ClaimStages, CommandStages

\* What a step that moves claim c to stage s has to keep: nobody is told of a
\* lease, the ref and the comments stay, and snapshots only go.
Passes(c, s) ==
    /\ pc' = [pc EXCEPT ![c] = s]
    /\ UNCHANGED <<now, ref, evidence, beats, lease, beatAt, repair>>
    /\ fresh' \subseteq fresh
    /\ "ready" \in labels' => "ready" \in labels
    /\ "ready" \notin labels' => fresh' = {}
    /\ faults <= faults'
    /\ QuietRepair => ~Repairing

\* The stages that c may pass to, from where it is.
MayPass(c, s) ==
    /\ s \notin {"idle", "discovered", "creating", "writing", "winDrop", "beatWrite", "beatCheck"}
    /\ pc[c] \notin {"idle", "stopped", "completed"} /\ (pc[c] = "discovered" => s = "stopped")
    /\ s = "checking" => c \in evidence
    /\ s \in Contending => pc[c] \in Contending
    /\ s \in Tentative => pc[c] \in Contending \cup Tentative
    /\ s \in Working => pc[c] \in Working /\ (TimelyCommands => Standing(c))
    /\ pc[c] \in Working => s \in Working \cup {"stopped", "completed"}
    /\ s \in EndStages => "complete" \in Commands
    /\ faults' = 0 /\ s \in Working /\ pc[c] = "winDrop" => "ready" \notin labels'

\* Facts about the numbers in the types.
LEMMA Numbers ==
    ASSUME TypeOK
    PROVE  /\ now \in Nat /\ faults \in Nat /\ TTL \in Nat
           /\ \A c \in Claims : turn[c] \in Nat /\ claimedAt[c] \in Nat /\ leaseUntil[c] \in Nat /\ beatAt[c] \in Nat
           /\ \A r \in Repairers : rnow[r] \in Nat
           /\ \A b \in beats : b.at \in Nat
  BY ClaimAssumption DEF TypeOK

\* Such a step keeps the invariant.
LEMMA Passing ==
    ASSUME IInv, NEW c \in Claims, NEW s \in Stages, Passes(c, s), MayPass(c, s), TypeOK'
    PROVE  IInv'
  <1>1. /\ pc'[c] = s /\ \A d \in Claims : d # c => pc'[d] = pc[d]
        /\ now' = now /\ ref' = ref /\ evidence' = evidence /\ beats' = beats /\ turn' = turn
        /\ claimedAt' = claimedAt /\ granted' = granted /\ leaseUntil' = leaseUntil /\ beatAt' = beatAt
        /\ rpc' = rpc /\ rnow' = rnow /\ fresh' \subseteq fresh
    BY DEF IInv, TypeOK, Passes, lease, repair
  <1>2. Turns'
    <2>1. Started' = Started
      BY <1>1 DEF Started
    <2>2. \A d \in Claims : pc'[d] \in {"idle", "discovered"} => pc'[d] = pc[d]
      BY <1>1 DEF MayPass
    <2>3. \A d \in Claims : pc[d] \in {"idle", "discovered", "stopped"} => pc'[d] \in {pc[d], "stopped"}
      BY <1>1 DEF MayPass
    <2>4. QED
      BY <1>1, <2>1, <2>2, <2>3 DEF IInv, Turns
  <1>3. Grants'
    <2>1. \A d \in Claims : pc'[d] \in Working => pc[d] \in Working
      BY <1>1 DEF MayPass
    <2>2. \A d \in Claims : pc[d] \in Working \cup {"stopped", "completed"} => pc'[d] \in Working \cup {"stopped", "completed"}
      BY <1>1 DEF MayPass
    <2>3. \A d \in Claims : pc'[d] \in EndStages => "complete" \in Commands
      BY <1>1 DEF MayPass, IInv, Grants
    <2>4. \A d \in Claims : (pc'[d] = "checking" => d \in evidence) /\ (pc'[d] = "writing" => d \notin evidence)
      BY <1>1 DEF MayPass, IInv, Grants
    <2>5. QED
      <3>1. granted \subseteq Claims /\ Grants
        BY DEF IInv, TypeOK
      <3>2. QED
        BY <1>1, <2>1, <2>2, <2>3, <2>4, <3>1 DEF Grants
  <1>4. Snapshots'
    BY <1>1 DEF IInv, Snapshots, Passes
  <1>5. Leases'
    <2>1. \A d \in Claims : /\ pc'[d] \in Working => pc[d] \in Working
                            /\ pc'[d] \in {"beatWrite", "beatCheck"} => pc'[d] = pc[d]
      BY <1>1 DEF MayPass
    <2>2. \A d \in Claims : LeaseStarts(d, now)' = LeaseStarts(d, now)
      BY <1>1 DEF LeaseStarts
    <2>3. QED
      BY <1>1, <2>1, <2>2 DEF IInv, Leases
  <1>6. QuietRepair => Repairs'
    BY <1>1 DEF Passes, Repairs, Repairing
  <1>7. ASSUME Discipline' PROVE (Contenders /\ Holders)'
    <2>1. Discipline /\ TimelyCommands /\ (faults' = 0 => faults = 0)
      BY <1>7, Numbers DEF Discipline, Passes, IInv
    <2>2. Contenders /\ Holders
      BY <2>1 DEF IInv
    <2>3. \A d \in Claims : /\ pc'[d] \in Contending => pc[d] \in Contending
                            /\ pc'[d] \in Tentative => pc[d] \in Contending \cup Tentative
      BY <1>1 DEF MayPass
    <2>4. \A d \in Claims : Standing(d)' => Standing(d)
      <3>1. Standing(c)' => Standing(c)
        BY <1>1, <2>1 DEF Standing, MayPass
      <3>2. QED
        BY <1>1, <3>1 DEF Standing
    <2>5. Contenders'
      <3>1. \A d \in Claims : pc[d] \in Contending => ref = d
        BY <2>2 DEF Contenders
      <3>2. QED
        BY <1>1, <2>2, <2>3, <3>1 DEF Contenders, Passes
    <2>6. \A d \in Claims : IsNewest(d)' <=> IsNewest(d)
      BY <1>1 DEF IsNewest
    <2>7. \A d \in Claims : faults' = 0 /\ Standing(d)' /\ pc'[d] # "winDrop" => "ready" \notin labels'
      <3>1. faults' = 0 /\ Standing(c)' /\ pc'[c] # "winDrop" => "ready" \notin labels'
        BY <1>1, <2>1, <2>2, <2>4 DEF Holders, MayPass, Passes, Standing
      <3>2. QED
        BY <1>1, <2>1, <2>2, <2>4, <3>1 DEF Holders, Passes
    <2>8. Holders'
      <3>1. granted \subseteq Claims
        BY DEF IInv, TypeOK
      <3>2. \A d \in Claims : Standing(d)' => IsNewest(d)' /\ (ref' = d \/ "ready" \notin labels')
        BY <1>1, <2>2, <2>4, <2>6 DEF Holders, Passes
      <3>3. \A d, e \in Claims : Standing(d)' /\ d # e => ~Standing(e)' /\ pc'[e] \notin Contending
        BY <2>2, <2>3, <2>4 DEF Holders
      <3>4. \A d \in granted' : ref' = d => IsNewest(d)'
        BY <1>1, <2>2, <2>6, <3>1 DEF Holders
      <3>5. QED
        BY <2>7, <3>2, <3>3, <3>4 DEF Holders
    <2>9. QED
      BY <2>5, <2>8
  <1>8. QED
    BY <1>2, <1>3, <1>4, <1>5, <1>6, <1>7 DEF IInv

-----------------------------------------------------------------------------
(* Types *)

\* A claim moves within its stages.
LEMMA GoToType ==
    ASSUME TypeOK, NEW c \in Claims, NEW s \in Stages, GoTo(c, s)
    PROVE  pc' \in [Claims -> Stages] /\ pc'[c] = s /\ \A d \in Claims : d # c => pc'[d] = pc[d]
  BY DEF TypeOK, GoTo

\* A repair moves within its stages.
LEMMA RGoToType ==
    ASSUME TypeOK, NEW r \in Repairers, NEW s \in RepairStages, RGoTo(r, s)
    PROVE  rpc' \in [Repairers -> RepairStages] /\ rpc'[r] = s /\ \A q \in Repairers : q # r => rpc'[q] = rpc[q]
  BY DEF TypeOK, RGoTo

\* The number of faults goes up, within its bound.
LEMMA FaultType ==
    ASSUME TypeOK, Fault \/ NoFault
    PROVE  faults' \in 0..MaxFaults /\ faults <= faults' /\ (Fault => faults' # 0)
  BY ClaimAssumption DEF TypeOK, Fault, NoFault

\* What a label call does to the labels, the snapshots and the count of faults.
LEMMA LabelType ==
    ASSUME TypeOK, NEW L, L \subseteq Labels, LabelCall(L)
    PROVE  /\ labels' \subseteq Labels /\ fresh' \subseteq fresh /\ (labels' # labels => fresh' = {})
           /\ labels' \in {labels, L} /\ faults' \in 0..MaxFaults /\ faults <= faults'
           /\ faults' = 0 => labels' = L
  BY FaultType, ClaimAssumption DEF TypeOK, LabelCall, SetLabels, Fault, NoFault

\* The next turn is within its bound and above all turns so far.
LEMMA NextTurn ==
    ASSUME TypeOK, Turns, NEW c \in Claims, turn[c] = 0
    PROVE  /\ IsFiniteSet(Started) /\ Cardinality(Started) \in Nat
           /\ Cardinality(Started) + 1 <= Cardinality(Claims) /\ Cardinality(Claims) \in Nat
           /\ Cardinality(Started \cup {c}) = Cardinality(Started) + 1
  <1>1. Started \in SUBSET Claims /\ c \notin Started
    BY Numbers DEF Started
  <1>2. IsFiniteSet(Started) /\ IsFiniteSet(Claims)
    BY <1>1, FS_Subset, ClaimAssumption
  <1>3. Cardinality(Started) \in Nat /\ Cardinality(Claims) \in Nat
    BY <1>2, FS_CardinalityType
  <1>4. Cardinality(Started \cup {c}) = Cardinality(Started) + 1
    BY <1>1, <1>2, FS_AddElement
  <1>5. Started \cup {c} \in SUBSET Claims
    BY <1>1
  <1>6. Cardinality(Started \cup {c}) <= Cardinality(Claims)
    BY <1>2, <1>5, FS_Subset
  <1>7. QED
    BY <1>2, <1>3, <1>4, <1>6

\* Every step of a claim keeps the types.
LEMMA ClaimType ==
    ASSUME TypeOK, Turns, NEW c \in Claims, Discover(c) \/ ClaimStep(c) \/ Crash(c)
    PROVE  TypeOK'
  <1>1. CASE Discover(c)
    BY <1>1, GoToType DEF Discover, TypeOK, Stages, ClaimStages, github, lease, command, repair
  <1>2. CASE StartClaim(c)
    <2>1. turn[c] = 0
      BY <1>2 DEF StartClaim, Turns
    <2>2. Cardinality(Started) + 1 \in 0..Cardinality(Claims)
      <3>1. /\ Cardinality(Started) \in Nat /\ Cardinality(Claims) \in Nat
            /\ Cardinality(Started) + 1 <= Cardinality(Claims)
        BY <2>1, NextTurn, Zenon
      <3>2. QED
        BY <3>1
    <2>3. turn' \in [Claims -> 0..Cardinality(Claims)]
      BY <1>2, <2>2 DEF StartClaim, TypeOK, Started
    <2>4. pc' \in [Claims -> Stages] /\ faults' \in 0..MaxFaults
      BY <1>2, GoToType, FaultType DEF StartClaim, Stages, ClaimStages, FinalStages
    <2>5. claimedAt' \in [Claims -> 0..MaxTime]
      BY <1>2 DEF StartClaim, TypeOK
    <2>6. QED
      BY <1>2, <2>3, <2>4, <2>5 DEF StartClaim, TypeOK, github, command, repair
  <1>3. CASE CreateRef(c)
    <2>1. pc' \in [Claims -> Stages] /\ faults' \in 0..MaxFaults /\ ref' \in Claims \cup {NoClaim}
      BY <1>3, GoToType, FaultType DEF CreateRef, Stages, ClaimStages, FinalStages, TypeOK
    <2>2. QED
      BY <1>3, <2>1 DEF CreateRef, TypeOK, lease, command, repair
  <1>4. CASE ConfirmConflict(c) \/ Reconcile(c) \/ ReadIssue(c) \/ ConfirmEvidence(c) \/ ProveRollback(c) \/ Crash(c)
    <2>1. pc' \in [Claims -> Stages] /\ faults' \in 0..MaxFaults
      BY <1>4, GoToType, FaultType DEF ConfirmConflict, Reconcile, ReadIssue, ConfirmEvidence, ProveRollback, Crash,
         RefRead, Stages, ClaimStages, FinalStages
    <2>2. UNCHANGED <<now, github, fresh, lease, command, repair>>
      BY <1>4 DEF ConfirmConflict, Reconcile, ReadIssue, ConfirmEvidence, ProveRollback, Crash
    <2>3. QED
      BY <2>1, <2>2 DEF TypeOK, github, lease, command, repair
  <1>5. CASE DropReady(c) \/ AddClaimed(c)
    <2>1. labels \ {"ready"} \subseteq Labels /\ labels \cup {"claimed"} \subseteq Labels
      BY DEF TypeOK, Labels
    <2>2. pc' \in [Claims -> Stages]
      BY <1>5, GoToType DEF DropReady, AddClaimed, Stages, ClaimStages, FinalStages
    <2>3. labels' \subseteq Labels /\ fresh' \subseteq fresh /\ faults' \in 0..MaxFaults
      BY <1>5, <2>1, LabelType DEF DropReady, AddClaimed
    <2>4. QED
      BY <1>5, <2>2, <2>3 DEF DropReady, AddClaimed, TypeOK, lease, command, repair
  <1>6. CASE WriteEvidence(c)
    <2>1. pc' \in [Claims -> Stages] /\ faults' \in 0..MaxFaults
      BY <1>6, GoToType, FaultType DEF WriteEvidence, Stages, ClaimStages
    <2>2. evidence' \subseteq Claims /\ fresh' \subseteq Claims
      BY <1>6 DEF WriteEvidence, TypeOK
    <2>3. QED
      BY <1>6, <2>1, <2>2 DEF WriteEvidence, TypeOK, lease, command, repair
  <1>7. CASE FinalCheck(c)
    <2>1. pc' \in [Claims -> Stages] /\ faults' \in 0..MaxFaults
      BY <1>7, GoToType, FaultType DEF FinalCheck, RefRead, Stages, ClaimStages, FinalStages
    <2>2. claimedAt[c] + TTL \in 0..(MaxTime + TTL)
      BY ClaimAssumption DEF TypeOK
    <2>3. granted' \subseteq Claims /\ leaseUntil' \in [Claims -> 0..(MaxTime + TTL)]
      BY <1>7, <2>2 DEF FinalCheck, TypeOK
    <2>4. QED
      BY <1>7, <2>1, <2>3 DEF FinalCheck, TypeOK, github, command, repair
  <1>8. CASE Rollback(c)
    <2>1. pc' \in [Claims -> Stages] /\ faults' \in 0..MaxFaults /\ ref' \in Claims \cup {NoClaim}
      BY <1>8, GoToType, FaultType DEF Rollback, DeleteRef, Stages, ClaimStages, TypeOK
    <2>2. QED
      BY <1>8, <2>1 DEF Rollback, TypeOK, lease, command, repair
  <1>9. QED
    BY <1>1, <1>2, <1>3, <1>4, <1>5, <1>6, <1>7, <1>8 DEF ClaimStep

\* Every step of a command keeps the types.
LEMMA CommandType ==
    ASSUME TypeOK, NEW c \in Claims,
           BeginHeartbeat(c) \/ BeginReview(c) \/ BeginComplete(c) \/ CommandStep(c) \/ CommandFails(c)
    PROVE  TypeOK'
  <1>0. AgentOf[c] \in Agents
    BY ClaimAssumption
  <1>1. CASE BeginHeartbeat(c) \/ BeginReview(c) \/ BeginComplete(c)
    <2>1. pc' \in [Claims -> Stages] /\ failed' \subseteq Claims
      BY <1>1, GoToType DEF BeginHeartbeat, BeginReview, BeginComplete, Begin, Stages, CommandStages, TypeOK
    <2>2. UNCHANGED <<now, github, fresh, lease, beatAt, repair, faults>>
      BY <1>1 DEF BeginHeartbeat, BeginReview, BeginComplete
    <2>3. QED
      BY <2>1, <2>2 DEF TypeOK, github, lease, repair
  <1>2. CASE CommandFails(c) \/ ReviewOwner(c) \/ CompleteMerged(c) \/ CompleteProve(c)
    <2>1. pc' \in [Claims -> Stages] /\ faults' \in 0..MaxFaults
      BY <1>2, GoToType, FaultType DEF CommandFails, ReviewOwner, CompleteMerged, CompleteProve,
         NoFault, Stages, CommandStages, FinalStages
    <2>2. UNCHANGED <<now, github, fresh, lease, command, repair>>
      BY <1>2 DEF CommandFails, ReviewOwner, CompleteMerged, CompleteProve
    <2>3. QED
      BY <2>1, <2>2 DEF TypeOK, github, lease, command, repair
  <1>3. CASE HeartbeatOwner(c)
    <2>1. now + TTL \in 0..(MaxTime + TTL) /\ now \in 0..MaxTime
      BY ClaimAssumption DEF TypeOK
    <2>2. pc' \in [Claims -> Stages]
      BY <1>3, GoToType DEF HeartbeatOwner, Stages, CommandStages
    <2>3. leaseUntil' \in [Claims -> 0..(MaxTime + TTL)] /\ beatAt' \in [Claims -> 0..MaxTime]
      BY <1>3, <2>1 DEF HeartbeatOwner, TypeOK
    <2>4. QED
      BY <1>3, <2>2, <2>3 DEF HeartbeatOwner, TypeOK, github, repair
  <1>4. CASE HeartbeatWrite(c)
    <2>1. pc' \in [Claims -> Stages] /\ faults' \in 0..MaxFaults
      BY <1>4, GoToType, FaultType DEF HeartbeatWrite, Stages, CommandStages
    <2>2. [agent |-> AgentOf[c], at |-> beatAt[c]] \in [agent : Agents, at : 0..MaxTime]
      BY <1>0 DEF TypeOK
    <2>3. beats' \subseteq [agent : Agents, at : 0..MaxTime] /\ fresh' \subseteq Claims
      BY <1>4, <2>2 DEF HeartbeatWrite, TypeOK
    <2>4. QED
      BY <1>4, <2>1, <2>3 DEF HeartbeatWrite, TypeOK, lease, command, repair
  <1>5. CASE HeartbeatCheck(c)
    <2>1. beatAt[c] + TTL \in 0..(MaxTime + TTL)
      BY ClaimAssumption DEF TypeOK
    <2>2. pc' \in [Claims -> Stages] /\ leaseUntil' \in [Claims -> 0..(MaxTime + TTL)]
      BY <1>5, <2>1, GoToType DEF HeartbeatCheck, Stages, TypeOK
    <2>3. QED
      BY <1>5, <2>2 DEF HeartbeatCheck, TypeOK, github, command, repair
  <1>6. ASSUME NEW L, NEW s \in Stages, L \subseteq Labels, Relabel(c, L, s) PROVE TypeOK'
    <2>1. pc' \in [Claims -> Stages]
      BY <1>6, GoToType DEF Relabel
    <2>2. labels' \subseteq Labels /\ fresh' \subseteq Claims /\ faults' \in 0..MaxFaults
      BY <1>6, LabelType DEF Relabel, TypeOK
    <2>3. failed' \subseteq Claims
      BY <1>6 DEF Relabel, TypeOK
    <2>4. QED
      BY <1>6, <2>1, <2>2, <2>3 DEF Relabel, TypeOK, lease, repair
  <1>7. CASE ReviewLabels(c) \/ CompleteLabels(c)
    <2>1. /\ labels \ {"ready"} \subseteq Labels /\ labels \ {"claimed"} \subseteq Labels
          /\ labels \ {"review"} \subseteq Labels /\ labels \cup {"review"} \subseteq Labels
          /\ labels \cup {"done"} \subseteq Labels
      BY DEF TypeOK, Labels
    <2>2. {"revClaimed", "revAdd", "revNote", "endReview", "endAdd", "endDelete"} \subseteq Stages
      BY DEF Stages, CommandStages
    <2>3. QED
      BY <1>6, <1>7, <2>1, <2>2 DEF ReviewLabels, CompleteLabels
  <1>8. CASE ReviewNote(c)
    <2>1. pc' \in [Claims -> Stages]
      BY <1>8, GoToType DEF ReviewNote, Stages
    <2>2. reviewed' \subseteq Agents /\ merged' \subseteq reviewed' /\ fresh' \subseteq Claims
      BY <1>0, <1>8 DEF ReviewNote, TypeOK
    <2>3. QED
      BY <1>8, <2>1, <2>2 DEF ReviewNote, TypeOK, lease, command, repair
  <1>9. CASE CompleteDelete(c)
    <2>1. pc' \in [Claims -> Stages] /\ failed' \subseteq Claims
      BY <1>9, GoToType DEF CompleteDelete, Stages, CommandStages, TypeOK
    <2>2. faults' \in 0..MaxFaults /\ ref' \in Claims \cup {NoClaim}
      BY <1>9, FaultType DEF CompleteDelete, DeleteRef, TypeOK
    <2>3. QED
      BY <1>9, <2>1, <2>2 DEF CompleteDelete, TypeOK, lease, repair
  <1>10. QED
    BY <1>1, <1>2, <1>3, <1>4, <1>5, <1>7, <1>8, <1>9 DEF CommandStep

\* Every step of a repair, a merge and the clock keep the types.
LEMMA RepairType ==
    ASSUME TypeOK, NEW r \in Repairers, RepairStart(r) \/ RepairStep(r) \/ RepairAbort(r)
    PROVE  TypeOK'
  <1>1. CASE RepairStart(r)
    <2>1. rpc' \in [Repairers -> RepairStages] /\ rnow' \in [Repairers -> 0..MaxTime]
      BY <1>1, RGoToType DEF RepairStart, RepairStages, TypeOK
    <2>2. QED
      BY <1>1, <2>1 DEF RepairStart, TypeOK, github, lease, command
  <1>2. CASE RepairRead(r) \/ RepairProve(r) \/ RepairAbort(r)
    <2>1. rpc' \in [Repairers -> RepairStages] /\ faults' \in 0..MaxFaults
      BY <1>2, RGoToType, FaultType DEF RepairRead, RepairProve, RepairAbort, NoFault, RepairStages
    <2>2. UNCHANGED <<now, github, fresh, pc, lease, command, rnow>>
      BY <1>2 DEF RepairRead, RepairProve, RepairAbort
    <2>3. QED
      BY <2>1, <2>2 DEF TypeOK, github, lease, command
  <1>3. CASE RepairDelete(r)
    <2>1. rpc' \in [Repairers -> RepairStages] /\ faults' \in 0..MaxFaults /\ ref' \in Claims \cup {NoClaim}
      BY <1>3, RGoToType, FaultType DEF RepairDelete, DeleteRef, RepairStages, TypeOK
    <2>2. QED
      BY <1>3, <2>1 DEF RepairDelete, TypeOK, lease, command
  <1>4. CASE RepairLabels(r)
    <2>1. PICK L \in {labels \ {"ready"}, labels \ {"claimed"}, labels \cup {"ready"}, labels \cup {"claimed"}},
               s \in {"toReady", "idle", "toClaimed"} : RepairRelabel(r, L, s)
      BY <1>4 DEF RepairLabels
    <2>2. L \subseteq Labels
      BY DEF TypeOK, Labels
    <2>3. labels' \subseteq Labels /\ fresh' \subseteq Claims /\ faults' \in 0..MaxFaults
      BY <2>1, <2>2, LabelType DEF RepairRelabel, TypeOK
    <2>4. rpc' \in [Repairers -> RepairStages]
      BY <2>1, RGoToType DEF RepairRelabel, RepairStages
    <2>5. QED
      BY <2>1, <2>3, <2>4 DEF RepairRelabel, TypeOK, lease, command
  <1>5. QED
    BY <1>1, <1>2, <1>3, <1>4 DEF RepairStep

-----------------------------------------------------------------------------
(* Steps of claimIssueTask *)

\* While a claim or a command is in flight, nobody repairs.
LEMMA NotRepairing ==
    ASSUME IInv, NEW c \in Claims, pc[c] \in ClaimStages \cup CommandStages
    PROVE  QuietRepair => ~Repairing
  BY DEF IInv, Repairs, RepairOK, Repairing, InFlight

\* Reads, label calls and crashes before the grant.
LEMMA ClaimPasses ==
    ASSUME IInv, NEW c \in Claims,
           \/ ConfirmConflict(c) \/ Reconcile(c) \/ ConfirmEvidence(c) \/ ProveRollback(c) \/ Crash(c)
           \/ DropReady(c) \/ AddClaimed(c)
           \/ ReadIssue(c) /\ pc'[c] # "writing"
           \/ FinalCheck(c) /\ pc'[c] # "winDrop"
    PROVE  IInv'
  <1>0. TypeOK'
    BY ClaimType DEF IInv, ClaimStep
  <1>1. CASE ConfirmConflict(c) \/ Reconcile(c) \/ ProveRollback(c) \/ Crash(c)
    <2>1. PICK s \in {"reconcile", "loseDrop", "denied", "uncertain", "stopped"} :
             /\ GoTo(c, s) /\ UNCHANGED <<now, github, fresh, lease, command, repair>> /\ (Fault \/ NoFault)
             /\ pc[c] \in ClaimStages /\ (pc[c] \in Working \cup {"discovered"} => s = "stopped")
      BY <1>1 DEF ConfirmConflict, Reconcile, ProveRollback, Crash, RefRead, ClaimStages, Working, CommandStages
    <2>2. Passes(c, s)
      BY <2>1, NotRepairing, FaultType DEF Passes, GoTo, github, command, repair, IInv, Snapshots
    <2>3. MayPass(c, s)
      BY <2>1 DEF MayPass, ClaimStages, Working, CommandStages, Contending, Tentative, EndStages
    <2>4. s \in Stages
      BY DEF Stages, ClaimStages, FinalStages
    <2>5. QED
      BY <1>0, <2>2, <2>3, <2>4, Passing
  <1>2. CASE ReadIssue(c) /\ pc'[c] # "writing"
    <2>1. /\ GoTo(c, "rollback") /\ UNCHANGED <<now, github, fresh, lease, command, repair>> /\ (Fault \/ NoFault)
          /\ pc[c] = "tentative"
      <3>1. pc[c] = "tentative" /\ UNCHANGED <<now, github, fresh, lease, command, repair>> /\ (Fault \/ NoFault)
        BY <1>2 DEF ReadIssue
      <3>2. GoTo(c, "writing") \/ GoTo(c, "rollback")
        BY <1>2 DEF ReadIssue
      <3>3. GoTo(c, "writing") => pc'[c] = "writing"
        BY DEF GoTo, IInv, TypeOK
      <3>4. QED
        BY <1>2, <3>1, <3>2, <3>3
    <2>2. Passes(c, "rollback")
      BY <2>1, NotRepairing, FaultType DEF Passes, GoTo, github, command, repair, IInv, Snapshots, ClaimStages
    <2>3. MayPass(c, "rollback")
      BY <2>1 DEF MayPass, Working, CommandStages, Contending, Tentative, EndStages
    <2>4. "rollback" \in Stages
      BY DEF Stages, ClaimStages
    <2>5. QED
      BY <1>0, <2>2, <2>3, <2>4, Passing
  <1>3. CASE ConfirmEvidence(c)
    <2>1. PICK s \in {"checking", "rollback"} :
             /\ GoTo(c, s) /\ UNCHANGED <<now, github, fresh, lease, command, repair>> /\ (Fault \/ NoFault)
             /\ pc[c] = "confirming" /\ (s = "checking" => c \in evidence)
      BY <1>3 DEF ConfirmEvidence
    <2>2. Passes(c, s)
      BY <2>1, NotRepairing, FaultType DEF Passes, GoTo, github, command, repair, IInv, Snapshots, ClaimStages
    <2>3. MayPass(c, s)
      BY <2>1 DEF MayPass, Working, CommandStages, Contending, Tentative, EndStages
    <2>4. s \in Stages
      BY DEF Stages, ClaimStages
    <2>5. QED
      BY <1>0, <2>2, <2>3, <2>4, Passing
  <1>4. CASE FinalCheck(c) /\ pc'[c] # "winDrop"
    <2>1. /\ pc[c] = "checking" /\ GoTo(c, "uncertain") /\ (Fault \/ NoFault)
          /\ UNCHANGED <<now, github, fresh, lease, command, repair>>
      <3>1. GoTo(c, "winDrop") => pc'[c] = "winDrop"
        BY DEF GoTo, IInv, TypeOK
      <3>2. QED
        BY <1>4, <3>1 DEF FinalCheck, RefRead, lease
    <2>2. Passes(c, "uncertain")
      BY <2>1, NotRepairing, FaultType DEF Passes, GoTo, github, command, repair, IInv, Snapshots, ClaimStages
    <2>3. MayPass(c, "uncertain")
      BY <2>1 DEF MayPass, Working, CommandStages, Contending, Tentative, EndStages
    <2>4. "uncertain" \in Stages
      BY DEF Stages, FinalStages
    <2>5. QED
      BY <1>0, <2>2, <2>3, <2>4, Passing
  <1>5. CASE DropReady(c)
    <2>1. labels \ {"ready"} \subseteq Labels
      BY DEF IInv, TypeOK
    <2>2. /\ fresh' \subseteq fresh /\ (labels' # labels => fresh' = {}) /\ faults <= faults'
          /\ labels' \in {labels, labels \ {"ready"}} /\ (faults' = 0 => labels' = labels \ {"ready"})
      BY <1>5, <2>1, LabelType DEF DropReady, IInv
    <2>3. PICK s \in {"loseAdd", "winAdd"} :
             /\ pc[c] = IF s = "loseAdd" THEN "loseDrop" ELSE "winDrop"
             /\ GoTo(c, s) /\ UNCHANGED <<now, ref, evidence, beats, lease, command, repair>>
      BY <1>5 DEF DropReady
    <2>4. Passes(c, s)
      BY <2>2, <2>3, NotRepairing DEF Passes, GoTo, command, repair, IInv, Snapshots, ClaimStages
    <2>5. MayPass(c, s)
      BY <2>2, <2>3 DEF MayPass, Working, CommandStages, Contending, Tentative, EndStages, Standing
    <2>6. s \in Stages
      BY DEF Stages, ClaimStages
    <2>7. QED
      BY <1>0, <2>4, <2>5, <2>6, Passing
  <1>6. CASE AddClaimed(c)
    <2>1. labels \cup {"claimed"} \subseteq Labels
      BY DEF IInv, TypeOK, Labels
    <2>2. /\ fresh' \subseteq fresh /\ (labels' # labels => fresh' = {}) /\ faults <= faults'
          /\ labels' \in {labels, labels \cup {"claimed"}}
      BY <1>6, <2>1, LabelType DEF AddClaimed, IInv
    <2>3. PICK s \in {"denied", "held"} :
             /\ pc[c] = IF s = "denied" THEN "loseAdd" ELSE "winAdd"
             /\ GoTo(c, s) /\ UNCHANGED <<now, ref, evidence, beats, lease, command, repair>>
      BY <1>6 DEF AddClaimed
    <2>4. Passes(c, s)
      BY <2>2, <2>3, NotRepairing DEF Passes, GoTo, command, repair, IInv, Snapshots, ClaimStages
    <2>5. MayPass(c, s)
      BY <2>2, <2>3 DEF MayPass, Working, CommandStages, Contending, Tentative, EndStages, Standing
    <2>6. s \in Stages
      BY DEF Stages, FinalStages
    <2>7. QED
      BY <1>0, <2>4, <2>5, <2>6, Passing
  <1>7. QED
    BY <1>1, <1>2, <1>3, <1>4, <1>5, <1>6

-----------------------------------------------------------------------------
(* Steps of the lifecycle commands *)

\* Steps that report no lease, write no heartbeat and delete no ref.
LEMMA CommandPasses ==
    ASSUME IInv, NEW c \in Claims,
           \/ BeginHeartbeat(c) \/ BeginReview(c) \/ BeginComplete(c) \/ CommandFails(c)
           \/ ReviewOwner(c) \/ ReviewLabels(c) \/ ReviewNote(c)
           \/ CompleteMerged(c) \/ CompleteLabels(c) \/ CompleteProve(c)
    PROVE  IInv'
  <1>0. TypeOK' /\ TypeOK /\ Snapshots /\ Grants
    BY CommandType DEF IInv, CommandStep
  <1>1. ASSUME NEW s \in Stages, GoTo(c, s), UNCHANGED <<now, ref, evidence, beats, lease, beatAt, repair>>,
               fresh' \subseteq fresh, "ready" \in labels' => "ready" \in labels,
               "ready" \notin labels' => fresh' = {}, faults <= faults',
               \/ pc[c] \in CommandStages
               \/ pc[c] = "held" /\ (QuietRepair => ~Repairing) /\ (TimelyCommands => now < leaseUntil[c]),
               s \in {"held", "beatOwner", "revOwner", "endMerged", "completed"}
                       \cup (CommandStages \ {"beatWrite", "beatCheck"}),
               s \in EndStages => "complete" \in Commands
        PROVE  IInv'
    <2>1. Passes(c, s)
      BY <1>1, NotRepairing DEF Passes, GoTo, repair
    <2>2. Standing(c) \/ ~TimelyCommands
      BY <1>1 DEF Standing, Working, CommandStages
    <2>3. MayPass(c, s)
      <3>1. pc[c] \in {"held"} \cup CommandStages
        BY <1>1
      <3>2. /\ pc[c] \in Working /\ pc[c] \notin {"idle", "discovered", "stopped", "completed", "winDrop"}
            /\ pc[c] \notin Contending \cup Tentative
        BY <3>1 DEF Working, CommandStages, Contending, Tentative
      <3>3. /\ s \notin {"idle", "discovered", "creating", "writing", "winDrop", "beatWrite", "beatCheck"}
            /\ s # "checking" /\ s \notin Contending \cup Tentative
            /\ s \in Working \cup {"stopped", "completed"}
        BY <1>1 DEF Working, CommandStages, Contending, Tentative
      <3>4. QED
        BY <1>1, <2>2, <3>2, <3>3 DEF MayPass
    <2>4. QED
      BY <1>0, <2>1, <2>3, Passing
  <1>2. CASE BeginHeartbeat(c) \/ BeginReview(c) \/ BeginComplete(c)
    <2>1. PICK s \in {"beatOwner", "revOwner", "endMerged"} :
             /\ GoTo(c, s) /\ UNCHANGED <<now, github, fresh, lease, beatAt, repair, faults>>
             /\ pc[c] = "held" /\ (QuietRepair => ~Repairing) /\ (TimelyCommands => now < leaseUntil[c])
             /\ s = "endMerged" => "complete" \in Commands
      BY <1>2 DEF BeginHeartbeat, BeginReview, BeginComplete, Begin, MayStart
    <2>2. s \in Stages /\ (s \in EndStages => s = "endMerged") /\ s \in CommandStages
      BY DEF Stages, CommandStages, EndStages
    <2>3. fresh' = fresh /\ labels' = labels /\ faults' = faults /\ ("ready" \notin labels => fresh = {})
      BY <1>0, <2>1 DEF github, Snapshots
    <2>4. UNCHANGED <<now, ref, evidence, beats, lease, beatAt, repair>> /\ faults <= faults'
      BY <1>0, <2>1, Numbers DEF github
    <2>5. QED
      BY <1>1, <2>1, <2>2, <2>3, <2>4
  <1>3. CASE CommandFails(c) \/ ReviewOwner(c) \/ CompleteMerged(c) \/ CompleteProve(c)
    <2>1. PICK s \in {"held", "revReady", "endClaimed", "completed"} :
             /\ GoTo(c, s) /\ UNCHANGED <<now, github, fresh, lease, command, repair>> /\ (Fault \/ NoFault)
             /\ pc[c] \in CommandStages /\ (s = "endClaimed" => pc[c] = "endMerged")
      BY <1>3 DEF CommandFails, ReviewOwner, CompleteMerged, CompleteProve, NoFault, CommandStages
    <2>2. s \in Stages /\ (s \in EndStages => s = "endClaimed")
      BY DEF Stages, CommandStages, EndStages, FinalStages
    <2>3. s \in EndStages => "complete" \in Commands
      BY <1>0, <2>1, <2>2 DEF Grants, EndStages
    <2>4. fresh' = fresh /\ labels' = labels /\ faults <= faults' /\ ("ready" \notin labels => fresh = {})
      BY <1>0, <2>1, FaultType DEF github, Snapshots
    <2>5. UNCHANGED <<now, ref, evidence, beats, lease, beatAt, repair>>
      BY <2>1 DEF github, command
    <2>6. s \in {"held", "beatOwner", "revOwner", "endMerged", "completed"}
                       \cup (CommandStages \ {"beatWrite", "beatCheck"})
      BY DEF CommandStages
    <2>7. QED
      BY <1>1, <2>1, <2>2, <2>3, <2>4, <2>5, <2>6
  <1>4. CASE ReviewNote(c)
    <2>1. /\ GoTo(c, "held") /\ UNCHANGED <<now, ref, evidence, beats, lease, beatAt, repair>> /\ labels' = labels
          /\ pc[c] \in CommandStages /\ fresh' \in {fresh, {}} /\ faults' = faults
      BY <1>4 DEF ReviewNote, command, CommandStages
    <2>2. "held" \in Stages /\ "held" \notin EndStages
      BY DEF Stages, EndStages
    <2>3. faults <= faults' /\ fresh' \subseteq fresh /\ ("ready" \notin labels => fresh' = {})
      BY <1>0, <2>1, Numbers DEF Snapshots
    <2>4. QED
      BY <1>1, <2>1, <2>2, <2>3
  <1>5. CASE ReviewLabels(c) \/ CompleteLabels(c)
    <2>1. PICK L \in {labels \ {"ready"}, labels \ {"claimed"}, labels \ {"review"}, labels \cup {"review"}, labels \cup {"done"}},
               s \in {"revClaimed", "revAdd", "revNote", "endReview", "endAdd", "endDelete"} :
             /\ Relabel(c, L, s) /\ pc[c] \in CommandStages
             /\ s \in {"endReview", "endAdd", "endDelete"} => pc[c] \in EndStages
      BY <1>5 DEF ReviewLabels, CompleteLabels, CommandStages, EndStages
    <2>2. L \subseteq Labels /\ ("ready" \in L => "ready" \in labels)
      BY <1>0 DEF TypeOK, Labels
    <2>3. LabelCall(L) /\ GoTo(c, s) /\ UNCHANGED <<now, ref, evidence, beats, lease, beatAt, repair>>
      BY <2>1 DEF Relabel
    <2>4. /\ fresh' \subseteq fresh /\ (labels' # labels => fresh' = {}) /\ labels' \in {labels, L} /\ faults <= faults'
      BY <1>0, <2>2, <2>3, LabelType
    <2>5. s \in Stages /\ s \in CommandStages \ {"beatWrite", "beatCheck"}
          /\ (s \in EndStages => s \in {"endReview", "endAdd", "endDelete"})
      BY DEF Stages, CommandStages, EndStages
    <2>6. s \in EndStages => "complete" \in Commands
      BY <1>0, <2>1, <2>5 DEF Grants
    <2>7. ("ready" \in labels' => "ready" \in labels) /\ ("ready" \notin labels' => fresh' = {})
      BY <1>0, <2>2, <2>4 DEF Snapshots
    <2>8. QED
      BY <1>1, <2>1, <2>3, <2>4, <2>5, <2>6, <2>7
  <1>6. QED
    BY <1>2, <1>3, <1>4, <1>5

-----------------------------------------------------------------------------
(* Steps of claimIssueTask that change who may win *)

\* Faults never go away, so neither does the lack of discipline.
LEMMA DisciplineBefore ==
    ASSUME TypeOK, faults <= faults', Discipline'
    PROVE  Discipline /\ (faults' = 0 => faults = 0)
  BY Numbers DEF Discipline

\* Claims that are not at work stay so, and nobody else is told of a lease.
LEMMA LeasesKept ==
    ASSUME Leases, UNCHANGED <<now, beats, claimedAt, leaseUntil, beatAt>>,
           \A d \in Claims : /\ pc'[d] \in Working => pc[d] \in Working
                             /\ pc'[d] \in {"beatWrite", "beatCheck"} => pc'[d] = pc[d]
    PROVE  Leases'
  <1>1. \A d \in Claims : LeaseStarts(d, now)' = LeaseStarts(d, now)
    BY DEF LeaseStarts
  <1>2. QED
    BY <1>1 DEF Leases

\* A discovery adds a snapshot of the Issue as it is.
LEMMA DiscoverStep ==
    ASSUME IInv, NEW c \in Claims, Discover(c)
    PROVE  IInv'
  <1>0. TypeOK' /\ TypeOK
    BY ClaimType DEF IInv
  <1>1. /\ pc[c] = "idle" /\ pc'[c] = "discovered" /\ \A d \in Claims : d # c => pc'[d] = pc[d]
        /\ "ready" \in labels /\ fresh' = fresh \cup {c} /\ (QuietRepair => ~Repairing)
        /\ UNCHANGED <<now, ref, evidence, beats, labels, turn, claimedAt, granted, leaseUntil, beatAt, rpc, rnow, faults>>
    BY <1>0 DEF Discover, MayStart, GoTo, TypeOK, github, lease, command, repair
  <1>2. \A d \in Claims : /\ pc'[d] \in Working <=> pc[d] \in Working
                          /\ pc'[d] \in Contending <=> pc[d] \in Contending
                          /\ pc'[d] \in Tentative <=> pc[d] \in Tentative
                          /\ pc'[d] \in Working \cup Contending => pc'[d] = pc[d]
    BY <1>1 DEF Working, Contending, Tentative, CommandStages
  <1>3. Turns'
    <2>1. Started' = Started
      BY <1>1 DEF Started
    <2>2. QED
      BY <1>1, <2>1 DEF IInv, Turns
  <1>4. Grants'
    <2>1. granted \subseteq Claims /\ Grants /\ c \notin granted
      BY <1>1, StageFacts DEF IInv, TypeOK, Grants
    <2>2. \A d \in Claims : pc'[d] \in EndStages => pc'[d] = pc[d]
      BY <1>1 DEF EndStages
    <2>3. QED
      BY <1>1, <1>2, <2>1, <2>2 DEF Grants
  <1>5. Snapshots'
    BY <1>1, Numbers DEF IInv, Snapshots, Turns
  <1>6. Leases'
    BY <1>1, <1>2, LeasesKept DEF IInv
  <1>7. QuietRepair => Repairs'
    BY <1>1 DEF Repairs, Repairing
  <1>8. ASSUME Discipline' PROVE (Contenders /\ Holders)'
    <2>1. Contenders /\ Holders
      BY <1>1, <1>8 DEF IInv, Discipline
    <2>2. \A d \in Claims : Standing(d)' <=> Standing(d)
      BY <1>1, <1>2 DEF Standing
    <2>3. \A d \in Claims : IsNewest(d)' <=> IsNewest(d)
      BY <1>1 DEF IsNewest
    <2>4. Contenders'
      BY <1>1, <1>2, <2>1 DEF Contenders
    <2>5. Holders'
      <3>1. granted \subseteq Claims
        BY <1>0 DEF TypeOK
      <3>2. \A d \in Claims : Standing(d)' => pc'[d] = pc[d]
        BY <1>2, <2>2 DEF Standing
      <3>3. QED
        BY <1>1, <1>2, <2>1, <2>2, <2>3, <3>1, <3>2 DEF Holders
    <2>6. QED
      BY <2>4, <2>5
  <1>9. QED
    BY <1>0, <1>3, <1>4, <1>5, <1>6, <1>7, <1>8 DEF IInv

\* A claim that starts has the newest claimed_at of all.
LEMMA StartStep ==
    ASSUME IInv, NEW c \in Claims, StartClaim(c)
    PROVE  IInv'
  <1> DEFINE K == Cardinality(Started)
  <1>0. TypeOK' /\ TypeOK /\ granted \subseteq Claims /\ evidence \subseteq Claims
    BY ClaimType DEF IInv, ClaimStep, TypeOK
  <1>1. /\ pc[c] = "discovered" /\ pc'[c] \in {"creating", "denied"} /\ \A d \in Claims : d # c => pc'[d] = pc[d]
        /\ UNCHANGED <<now, ref, evidence, beats, labels, fresh, granted, leaseUntil, beatAt, rpc, rnow>>
        /\ faults <= faults'
    BY <1>0, FaultType DEF StartClaim, GoTo, TypeOK, github, command, repair
  <1>2. /\ turn' = [turn EXCEPT ![c] = K + 1]
        /\ claimedAt'[c] = now /\ \A d \in Claims : d # c => claimedAt'[d] = claimedAt[d]
    BY <1>0 DEF StartClaim, TypeOK, Started
  <1>3. turn[c] = 0 /\ c \notin Started /\ c \notin evidence
    BY <1>0, <1>1, Numbers DEF IInv, Turns, Started, Grants
  <1>4. K \in Nat /\ Cardinality(Started \cup {c}) = K + 1
    BY <1>0, <1>3, NextTurn DEF IInv
  <1> HIDE DEF K
  <1>5. turn'[c] = K + 1 /\ \A d \in Claims : d # c => turn'[d] = turn[d]
    BY <1>0, <1>2 DEF TypeOK
  <1>6. \A d \in Claims : turn[d] <= K /\ turn[d] \in Nat
    BY <1>0, Numbers DEF IInv, Turns, K
  <1>7. Started' = Started \cup {c}
    BY <1>4, <1>5, <1>6 DEF Started
  <1>8. Turns'
    <2>1. Cardinality(Started)' = K + 1
      BY <1>4, <1>7
    <2>2. \A d \in Claims : turn'[d] <= K + 1
      BY <1>4, <1>5, <1>6
    <2>3. \A d \in Claims : /\ pc'[d] \in {"idle", "discovered"} => turn'[d] = 0
                            /\ turn'[d] = 0 => pc'[d] \in {"idle", "discovered", "stopped"}
      BY <1>1, <1>4, <1>5 DEF IInv, Turns
    <2>4. \A d, e \in Started' : turn'[d] = turn'[e] => d = e
      <3>1. \A d, e \in Started : turn[d] = turn[e] => d = e
        BY DEF IInv, Turns
      <3>2. Started \subseteq Claims
        BY DEF Started
      <3>3. QED
        BY <1>3, <1>4, <1>5, <1>6, <1>7, <3>1, <3>2
    <2>5. QED
      BY <2>1, <2>2, <2>3, <2>4 DEF Turns
  <1>9. \A d \in Claims : /\ pc'[d] \in Working => pc'[d] = pc[d] /\ d # c
                          /\ pc'[d] \in Contending => pc'[d] = pc[d] /\ d # c
                          /\ pc'[d] \in Tentative => pc'[d] = pc[d]
    BY <1>1 DEF Working, Contending, Tentative, CommandStages
  <1>10. Grants'
    <2>1. Grants /\ c \notin granted
      BY <1>1, StageFacts DEF IInv, Grants
    <2>2. \A d \in Claims : pc'[d] \in EndStages => pc'[d] = pc[d]
      BY <1>1 DEF EndStages
    <2>3. \A d \in evidence : turn'[d] > 0
      BY <1>0, <1>3, <1>5, <2>1 DEF Grants
    <2>4. QED
      BY <1>0, <1>1, <1>9, <2>1, <2>2, <2>3 DEF Grants
  <1>11. Snapshots'
    <2>1. \A d \in evidence : turn'[d] = turn[d] /\ turn[d] <= K /\ turn[d] \in Nat
      BY <1>0, <1>3, <1>5, <1>6
    <2>2. fresh \subseteq Claims
      BY <1>0 DEF TypeOK
    <2>3. QED
      BY <1>1, <1>4, <1>5, <2>1, <2>2 DEF IInv, Snapshots
  <1>12. Leases'
    <2>1. \A d \in Claims : d # c => LeaseStarts(d, now)' = LeaseStarts(d, now)
      BY <1>1, <1>2 DEF LeaseStarts
    <2>2. \A d \in Claims : pc'[d] \in {"beatWrite", "beatCheck"} => pc'[d] = pc[d] /\ d # c
      BY <1>1
    <2>3. claimedAt'[c] <= now
      BY <1>0, <1>2, Numbers
    <2>4. QED
      BY <1>1, <1>2, <1>9, <2>1, <2>2, <2>3 DEF IInv, Leases
  <1>13. QuietRepair => Repairs'
    BY <1>1, NotRepairing DEF Repairs, Repairing, ClaimStages
  <1>14. ASSUME Discipline' PROVE (Contenders /\ Holders)'
    <2>1. Contenders /\ Holders /\ (faults' = 0 => faults = 0)
      BY <1>0, <1>1, <1>14, DisciplineBefore DEF IInv
    <2>2. \A d \in Claims : Standing(d)' => Standing(d) /\ pc'[d] = pc[d]
      BY <1>1, <1>9 DEF Standing
    <2>3. \A d \in evidence : turn'[d] = turn[d]
      BY <1>0, <1>3, <1>5
    <2>4. \A d \in Claims : IsNewest(d) => IsNewest(d)'
      BY <1>1, <2>3 DEF IsNewest
    <2>5. Contenders'
      BY <1>1, <1>5, <1>9, <2>1, <2>3 DEF Contenders
    <2>6. Holders'
      BY <1>0, <1>1, <1>9, <2>1, <2>2, <2>4 DEF Holders
    <2>7. QED
      BY <2>5, <2>6
  <1>15. QED
    BY <1>0, <1>8, <1>10, <1>11, <1>12, <1>13, <1>14 DEF IInv

\* Steps of a claim that has a turn: turns stay, and nobody repairs meanwhile.
LEMMA Underway ==
    ASSUME IInv, NEW c \in Claims, NEW s, s \notin {"idle", "discovered"},
           pc[c] \in (ClaimStages \cup CommandStages) \ {"discovered"},
           pc' = [pc EXCEPT ![c] = s], UNCHANGED <<turn, rpc>>
    PROVE  /\ Turns' /\ (QuietRepair => Repairs')
           /\ turn[c] \in Nat /\ turn[c] > 0
           /\ pc'[c] = s /\ \A d \in Claims : d # c => pc'[d] = pc[d]
  <1>1. pc'[c] = s /\ \A d \in Claims : d # c => pc'[d] = pc[d]
    BY DEF IInv, TypeOK
  <1>2. pc[c] \notin {"idle", "discovered", "stopped"}
    BY DEF ClaimStages, CommandStages
  <1>3. turn[c] \in Nat /\ turn[c] > 0
    BY <1>2, Numbers DEF IInv, Turns
  <1>4. Turns'
    <2>1. Started' = Started
      BY DEF Started
    <2>2. QED
      BY <1>1, <1>3, <2>1 DEF IInv, Turns
  <1>5. QuietRepair => Repairs'
    BY NotRepairing DEF Repairs, Repairing
  <1>6. QED
    BY <1>1, <1>3, <1>4, <1>5

\* createRef: whoever creates the ref found none, so that no claim was about to be granted.
LEMMA CreateStep ==
    ASSUME IInv, NEW c \in Claims, CreateRef(c)
    PROVE  IInv'
  <1>0. TypeOK' /\ TypeOK /\ granted \subseteq Claims
    BY ClaimType DEF IInv, ClaimStep, TypeOK
  <1>1. PICK s \in {"tentative", "conflict", "denied"} :
           /\ pc[c] = "creating" /\ GoTo(c, s) /\ (Fault \/ NoFault)
           /\ (ref = NoClaim /\ ref' = c) \/ (ref' = ref /\ s # "tentative")
           /\ UNCHANGED <<now, evidence, beats, labels, fresh, lease, command, repair>>
    BY DEF CreateRef
  <1>2. s \in Stages /\ pc[c] \in (ClaimStages \cup CommandStages) \ {"discovered"} /\ s \notin {"idle", "discovered"}
    BY <1>1 DEF Stages, ClaimStages, FinalStages
  <1>3. faults <= faults' /\ (QuietRepair => ~Repairing)
    BY <1>0, <1>1, <1>2, FaultType, NotRepairing
  <1>4. CASE ref' = ref /\ s # "tentative"
    <2>1. Passes(c, s)
      BY <1>1, <1>3, <1>4 DEF Passes, GoTo, command, IInv, Snapshots
    <2>2. MayPass(c, s)
      BY <1>1, <1>4 DEF MayPass, Working, CommandStages, Contending, Tentative, EndStages
    <2>3. QED
      BY <1>0, <1>2, <2>1, <2>2, Passing
  <1>5. CASE ref = NoClaim /\ ref' = c
    <2>1. /\ Turns' /\ (QuietRepair => Repairs')
          /\ pc'[c] = s /\ \A d \in Claims : d # c => pc'[d] = pc[d]
      BY <1>1, <1>2, Underway DEF GoTo, lease, repair
    <2>2. UNCHANGED <<now, evidence, beats, labels, fresh, turn, claimedAt, granted, leaseUntil, beatAt>>
      BY <1>1 DEF lease, command
    <2>3. c \notin granted
      BY <1>1, StageFacts DEF IInv, Grants, Working, CommandStages
    <2>4. \A d \in Claims : /\ pc'[d] \in Working => pc'[d] = pc[d]
                            /\ pc'[d] \in Contending => pc'[d] = pc[d]
                            /\ pc'[d] \in Tentative => pc'[d] = pc[d] \/ d = c
                            /\ pc'[d] \in EndStages => pc'[d] = pc[d]
      BY <2>1 DEF Working, Contending, Tentative, CommandStages, EndStages
    <2>5. Grants'
      BY <1>0, <2>1, <2>2, <2>3, <2>4 DEF IInv, Grants
    <2>6. Snapshots'
      BY <2>2 DEF IInv, Snapshots
    <2>7. Leases'
      <3>1. \A d \in Claims : pc'[d] \in {"beatWrite", "beatCheck"} => pc'[d] = pc[d]
        BY <2>1
      <3>2. QED
        BY <2>2, <2>4, <3>1, LeasesKept DEF IInv
    <2>8. ASSUME Discipline' PROVE (Contenders /\ Holders)'
      <3>1. Contenders /\ Holders /\ (faults' = 0 => faults = 0)
        BY <1>0, <1>3, <2>8, DisciplineBefore DEF IInv
      <3>2. \A d \in Claims : ref # d
        BY <1>5, ClaimAssumption
      <3>3. \A d \in Claims : Standing(d)' => Standing(d) /\ pc'[d] = pc[d]
        BY <2>2, <2>4 DEF Standing
      <3>4. \A d \in Claims : IsNewest(d)' <=> IsNewest(d)
        BY <2>2 DEF IsNewest
      <3>5. Contenders'
        BY <1>5, <2>2, <2>4, <3>1, <3>2 DEF Contenders
      <3>6. Holders'
        BY <1>0, <1>5, <2>2, <2>3, <2>4, <3>1, <3>2, <3>3, <3>4 DEF Holders
      <3>7. QED
        BY <3>5, <3>6
    <2>9. QED
      BY <1>0, <2>1, <2>5, <2>6, <2>7, <2>8 DEF IInv
  <1>6. QED
    BY <1>1, <1>4, <1>5

\* The Issue is read unchanged: then it is ready, the ref is the claim's own, nobody
\* stands on the Issue, and all evidence is older.
LEMMA ReadStep ==
    ASSUME IInv, NEW c \in Claims, ReadIssue(c), pc'[c] = "writing"
    PROVE  IInv'
  <1>0. TypeOK' /\ TypeOK /\ granted \subseteq Claims
    BY ClaimType DEF IInv, ClaimStep, TypeOK
  <1>1. /\ pc[c] = "tentative" /\ c \in fresh /\ GoTo(c, "writing") /\ faults' = faults
        /\ UNCHANGED <<now, ref, evidence, beats, labels, fresh, turn, claimedAt, granted, leaseUntil, beatAt, rpc, rnow>>
    <2>1. GoTo(c, "rollback") => pc'[c] = "rollback"
      BY <1>0 DEF GoTo, TypeOK
    <2>2. QED
      BY <2>1 DEF ReadIssue, NoFault, github, lease, command, repair
  <1>2. /\ Turns' /\ (QuietRepair => Repairs') /\ turn[c] \in Nat /\ turn[c] > 0
        /\ pc'[c] = "writing" /\ \A d \in Claims : d # c => pc'[d] = pc[d]
    <2>1. pc[c] \in (ClaimStages \cup CommandStages) \ {"discovered"}
      BY <1>1 DEF ClaimStages
    <2>2. QED
      BY <1>1, <2>1, Underway DEF GoTo
  <1>3. "ready" \in labels /\ \A d \in evidence : turn[d] < turn[c]
    BY <1>1, <1>2 DEF IInv, Snapshots
  <1>4. c \notin evidence /\ c \notin granted
    BY <1>2, <1>3, <1>1, StageFacts DEF IInv, Grants, Working, CommandStages
  <1>5. \A d \in Claims : /\ pc'[d] \in Working => pc'[d] = pc[d]
                          /\ pc'[d] \in Contending => pc'[d] = pc[d] \/ d = c
                          /\ pc'[d] \in Tentative => pc'[d] = pc[d] /\ d # c
                          /\ pc'[d] \in EndStages => pc'[d] = pc[d]
    BY <1>2 DEF Working, Contending, Tentative, CommandStages, EndStages
  <1>6. Grants'
    BY <1>0, <1>1, <1>2, <1>4, <1>5 DEF IInv, Grants
  <1>7. Snapshots'
    BY <1>1 DEF IInv, Snapshots
  <1>8. Leases'
    <2>1. \A d \in Claims : pc'[d] \in {"beatWrite", "beatCheck"} => pc'[d] = pc[d]
      BY <1>2
    <2>2. QED
      BY <1>1, <1>5, <2>1, LeasesKept DEF IInv
  <1>9. ASSUME Discipline' PROVE (Contenders /\ Holders)'
    <2>1. Contenders /\ Holders
      BY <1>1, <1>9 DEF IInv, Discipline
    <2>2. ref = c
      BY <1>1, <1>3, <2>1 DEF Contenders, Tentative
    <2>3. \A d \in Claims : pc[d] \notin Contending /\ (d # c => pc[d] \notin Tentative)
      BY <1>1, <1>3, <2>1, <2>2 DEF Contenders, Contending
    <2>4. \A d \in Claims : ~Standing(d)
      BY <1>1, <1>3, <2>1, <2>2 DEF Holders, Standing, Working, CommandStages
    <2>5. \A d \in Claims : ~Standing(d)'
      BY <1>1, <1>5, <2>4 DEF Standing
    <2>6. Contenders'
      <3>1. \A d \in Claims : pc'[d] \notin Tentative
        BY <1>5, <2>3
      <3>2. \A d \in Claims : pc'[d] \in Contending => d = c
        BY <1>5, <2>3
      <3>3. \A d \in evidence : turn[d] <= turn[c]
        BY <1>2, <1>3, Numbers, <1>0 DEF TypeOK
      <3>4. QED
        BY <1>1, <2>2, <3>1, <3>2, <3>3 DEF Contenders
    <2>7. Holders'
      BY <1>1, <1>4, <2>2, <2>5 DEF Holders
    <2>8. QED
      BY <2>6, <2>7
  <1>10. QED
    BY <1>0, <1>2, <1>6, <1>7, <1>8, <1>9 DEF IInv

\* The owner comment is written: it is the newest, and every snapshot is stale.
LEMMA WriteStep ==
    ASSUME IInv, NEW c \in Claims, WriteEvidence(c)
    PROVE  IInv'
  <1>0. TypeOK' /\ TypeOK /\ granted \subseteq Claims /\ evidence \subseteq Claims
    BY ClaimType DEF IInv, ClaimStep, TypeOK
  <1>1. /\ pc[c] = "writing" /\ GoTo(c, "confirming") /\ (Fault \/ NoFault)
        /\ (evidence' = evidence \cup {c} /\ fresh' = {}) \/ UNCHANGED <<evidence, fresh>>
        /\ UNCHANGED <<now, ref, beats, labels, lease, command, repair>>
    BY DEF WriteEvidence
  <1>2. /\ "confirming" \in Stages /\ pc[c] \in (ClaimStages \cup CommandStages) \ {"discovered"}
        /\ pc[c] \in Contending /\ pc[c] \notin Working
    BY <1>1 DEF Stages, ClaimStages, Contending, Working, CommandStages
  <1>3. faults <= faults' /\ (QuietRepair => ~Repairing)
    BY <1>0, <1>1, <1>2, FaultType, NotRepairing
  <1>4. CASE UNCHANGED <<evidence, fresh>>
    <2>1. Passes(c, "confirming")
      BY <1>1, <1>3, <1>4 DEF Passes, GoTo, command, IInv, Snapshots
    <2>2. MayPass(c, "confirming")
      BY <1>1 DEF MayPass, Working, CommandStages, Contending, Tentative, EndStages
    <2>3. QED
      BY <1>0, <1>2, <2>1, <2>2, Passing
  <1>5. CASE evidence' = evidence \cup {c} /\ fresh' = {}
    <2>1. /\ Turns' /\ (QuietRepair => Repairs') /\ turn[c] \in Nat /\ turn[c] > 0
          /\ pc'[c] = "confirming" /\ \A d \in Claims : d # c => pc'[d] = pc[d]
      BY <1>1, <1>2, Underway DEF GoTo, lease, repair
    <2>2. UNCHANGED <<now, ref, beats, labels, turn, claimedAt, granted, leaseUntil, beatAt>>
      BY <1>1 DEF lease, command
    <2>3. c \notin granted
      BY <1>1, <1>2 DEF IInv, Grants
    <2>4. \A d \in Claims : /\ pc'[d] \in Working => pc'[d] = pc[d]
                            /\ pc'[d] \in Contending => pc[d] \in Contending
                            /\ pc'[d] \in Tentative => pc'[d] = pc[d]
                            /\ pc'[d] \in EndStages => pc'[d] = pc[d]
      BY <1>2, <2>1 DEF Working, Contending, Tentative, CommandStages, EndStages
    <2>5. Grants'
      BY <1>0, <1>5, <2>1, <2>2, <2>3, <2>4 DEF IInv, Grants
    <2>6. Snapshots'
      BY <1>5 DEF Snapshots
    <2>7. Leases'
      <3>1. \A d \in Claims : pc'[d] \in {"beatWrite", "beatCheck"} => pc'[d] = pc[d]
        BY <2>1
      <3>2. QED
        BY <2>2, <2>4, <3>1, LeasesKept DEF IInv
    <2>8. ASSUME Discipline' PROVE (Contenders /\ Holders)'
      <3>1. Contenders /\ Holders
        BY <1>0, <1>3, <2>8, DisciplineBefore DEF IInv
      <3>2. ref = c /\ \A d \in Claims : pc[d] \in Contending => d = c
        BY <1>2, <3>1 DEF Contenders
      <3>3. \A d \in Claims : pc[d] \notin Tentative
        BY <1>2, <3>1, <3>2, StageFacts DEF Contenders
      <3>4. \A d \in Claims : ~Standing(d)
        BY <1>2, <3>1 DEF Holders, Standing
      <3>5. \A d \in Claims : ~Standing(d)'
        BY <2>2, <2>4, <3>4 DEF Standing
      <3>6. \A d \in evidence' : turn[d] <= turn[c]
        BY <1>2, <1>5, <2>1, <3>1 DEF Contenders
      <3>7. Contenders'
        BY <2>2, <2>4, <3>2, <3>3, <3>6 DEF Contenders
      <3>8. Holders'
        BY <2>2, <2>3, <3>2, <3>5 DEF Holders
      <3>9. QED
        BY <3>7, <3>8
    <2>9. QED
      BY <1>0, <2>1, <2>5, <2>6, <2>7, <2>8 DEF IInv
  <1>6. QED
    BY <1>1, <1>4, <1>5

\* The claim is granted: its agent is the only one to stand on the Issue.
LEMMA GrantStep ==
    ASSUME IInv, NEW c \in Claims, FinalCheck(c), pc'[c] = "winDrop"
    PROVE  IInv'
  <1>0. TypeOK' /\ TypeOK /\ granted \subseteq Claims /\ evidence \subseteq Claims
    BY ClaimType DEF IInv, ClaimStep, TypeOK
  <1>1. /\ pc[c] = "checking" /\ GoTo(c, "winDrop") /\ faults' = faults /\ granted' = granted \cup {c}
        /\ leaseUntil' = [leaseUntil EXCEPT ![c] = claimedAt[c] + TTL]
        /\ UNCHANGED <<now, ref, evidence, beats, labels, fresh, turn, claimedAt, beatAt, rpc, rnow>>
    <2>1. GoTo(c, "uncertain") => pc'[c] = "uncertain"
      BY <1>0 DEF GoTo, TypeOK
    <2>2. QED
      BY <2>1 DEF FinalCheck, RefRead, NoFault, github, command, repair
  <1>2. /\ Turns' /\ (QuietRepair => Repairs')
        /\ pc'[c] = "winDrop" /\ \A d \in Claims : d # c => pc'[d] = pc[d]
    <2>1. pc[c] \in (ClaimStages \cup CommandStages) \ {"discovered"}
      BY <1>1 DEF ClaimStages
    <2>2. QED
      BY <1>1, <2>1, Underway DEF GoTo
  <1>3. c \in evidence /\ pc[c] \in Contending /\ pc[c] \notin Working
    BY <1>1 DEF IInv, Grants, Contending, Working, CommandStages
  <1>4. \A d \in Claims : /\ pc'[d] \in Working => pc'[d] = pc[d] \/ d = c
                          /\ pc'[d] \in Contending => pc'[d] = pc[d] /\ d # c
                          /\ pc'[d] \in Tentative => pc'[d] = pc[d]
                          /\ pc'[d] \in EndStages => pc'[d] = pc[d]
    BY <1>2 DEF Working, Contending, Tentative, CommandStages, EndStages
  <1>5. Grants'
    <2>1. "winDrop" \in Working
      BY DEF Working
    <2>2. QED
      BY <1>0, <1>1, <1>2, <1>3, <1>4, <2>1 DEF IInv, Grants
  <1>6. Snapshots'
    BY <1>1 DEF IInv, Snapshots
  <1>7. leaseUntil'[c] = claimedAt[c] + TTL /\ \A d \in Claims : d # c => leaseUntil'[d] = leaseUntil[d]
    BY <1>0, <1>1 DEF TypeOK
  <1>8. Leases'
    <2>1. \A d \in Claims : LeaseStarts(d, now)' = LeaseStarts(d, now)
      BY <1>1 DEF LeaseStarts
    <2>2. claimedAt[c] \in LeaseStarts(c, now)
      BY DEF LeaseStarts
    <2>3. \A d \in Claims : pc'[d] \in {"beatWrite", "beatCheck"} => pc'[d] = pc[d]
      BY <1>2
    <2>4. \A d \in Claims : pc'[d] \in Working => \E s \in LeaseStarts(d, now)' : leaseUntil'[d] = s + TTL
      <3>1. \A d \in Claims : d # c /\ pc'[d] \in Working => \E s \in LeaseStarts(d, now) : leaseUntil[d] = s + TTL
        BY <1>4 DEF IInv, Leases
      <3>2. QED
        BY <1>7, <2>1, <2>2, <3>1
    <2>5. QED
      BY <1>1, <2>3, <2>4 DEF IInv, Leases
  <1>9. ASSUME Discipline' PROVE (Contenders /\ Holders)'
    <2>1. Contenders /\ Holders
      BY <1>1, <1>9 DEF IInv, Discipline
    <2>2. /\ ref = c /\ (\A d \in evidence : turn[d] <= turn[c])
          /\ \A d \in Claims : pc[d] \in Contending => d = c
      BY <1>3, <2>1 DEF Contenders
    <2>3. \A d \in Claims : pc[d] \notin Tentative
      BY <1>3, <2>1, <2>2, StageFacts DEF Contenders
    <2>4. \A d \in Claims : ~Standing(d)
      BY <1>3, <2>1 DEF Holders, Standing
    <2>5. \A d \in Claims : Standing(d)' => d = c
      BY <1>1, <1>4, <1>7, <2>4 DEF Standing
    <2>6. IsNewest(c)'
      BY <1>1, <1>3, <2>2 DEF IsNewest
    <2>7. \A d \in Claims : pc'[d] \notin Contending /\ pc'[d] \notin Tentative
      BY <1>4, <2>2, <2>3
    <2>8. Contenders'
      BY <2>7 DEF Contenders
    <2>9. Holders'
      BY <1>1, <1>2, <2>2, <2>5, <2>6, <2>7 DEF Holders
    <2>10. QED
      BY <2>8, <2>9
  <1>10. QED
    BY <1>0, <1>2, <1>5, <1>6, <1>8, <1>9 DEF IInv

\* A deletion of the ref that hits the own ref of the claim, or an Issue that
\* nobody can win any more, takes the ref from nobody who stands on the Issue.
LEMMA DeleteStep ==
    ASSUME IInv, TypeOK', NEW c \in Claims, NEW s,
           <<pc[c], s>> \in {<<"rollback", "rolledBack">>, <<"endDelete", "endProve">>},
           GoTo(c, s), ref' = NoClaim, faults' = faults,
           UNCHANGED <<now, evidence, beats, labels, fresh, lease, beatAt, repair>>
    PROVE  IInv'
  <1>0. TypeOK /\ granted \subseteq Claims
    BY DEF IInv, TypeOK
  <1>1. \/ pc[c] = "rollback" /\ s = "rolledBack"
        \/ pc[c] = "endDelete" /\ s = "endProve"
    OBVIOUS
  <1>2. /\ Turns' /\ (QuietRepair => Repairs')
        /\ pc'[c] = s /\ \A d \in Claims : d # c => pc'[d] = pc[d]
    <2>1. pc[c] \in (ClaimStages \cup CommandStages) \ {"discovered"} /\ s \notin {"idle", "discovered"}
      BY <1>1 DEF ClaimStages, CommandStages
    <2>2. QED
      BY <2>1, Underway DEF GoTo, lease, repair
  <1>3. UNCHANGED <<now, evidence, beats, labels, fresh, turn, claimedAt, granted, leaseUntil, beatAt>>
    BY DEF lease
  <1>4. \A d \in Claims : /\ pc'[d] \in Working <=> pc[d] \in Working
                          /\ pc'[d] \in Contending => pc'[d] = pc[d]
                          /\ pc'[d] \in Tentative => pc'[d] = pc[d]
                          /\ pc'[d] \in EndStages => pc[d] \in EndStages
                          /\ pc'[d] \in {"stopped", "completed", "held", "winDrop", "checking", "writing"} => pc'[d] = pc[d]
                          /\ pc[d] \in {"stopped", "completed", "held", "winDrop"} => pc'[d] = pc[d]
    BY <1>1, <1>2 DEF Working, Contending, Tentative, CommandStages, EndStages
  <1>5. Grants'
    <2>1. \A d \in granted : pc'[d] \in Working \cup {"stopped", "completed"}
      BY <1>0, <1>4 DEF IInv, Grants
    <2>2. QED
      BY <1>0, <1>3, <1>4, <2>1 DEF IInv, Grants
  <1>6. Snapshots'
    BY <1>3 DEF IInv, Snapshots
  <1>7. Leases'
    <2>1. \A d \in Claims : pc'[d] \in {"beatWrite", "beatCheck"} => pc'[d] = pc[d]
      BY <1>1, <1>2
    <2>2. QED
      BY <1>3, <1>4, <2>1, LeasesKept DEF IInv
  <1>8. ASSUME Discipline' PROVE (Contenders /\ Holders)'
    <2>1. Contenders /\ Holders /\ Discipline
      BY <1>8 DEF IInv, Discipline
    <2>2. \A d \in Claims : Standing(d)' => Standing(d) /\ (pc[d] = "winDrop" <=> pc'[d] = "winDrop")
      BY <1>3, <1>4 DEF Standing
    <2>3. \A d \in Claims : pc[d] \notin Contending
      <3>1. CASE pc[c] = "rollback"
        BY <2>1, <3>1 DEF Contenders, Tentative, Contending
      <3>2. CASE pc[c] = "endDelete"
        <4>1. Standing(c) /\ pc[c] \notin Contending
          BY <3>2 DEF Standing, Working, CommandStages, Contending
        <4>2. QED
          BY <2>1, <4>1 DEF Holders
      <3>3. QED
        BY <1>1, <3>1, <3>2
    <2>4. \A d \in Claims : (Standing(d)' \/ (pc'[d] \in Tentative)) => "ready" \notin labels
      <3>1. CASE pc[c] = "endDelete"
        <4>1. Standing(c) /\ pc[c] # "winDrop" /\ faults = 0
          BY <2>1, <3>1 DEF Standing, Working, CommandStages, Discipline, IInv, Grants, EndStages
        <4>2. QED
          BY <2>1, <4>1 DEF Holders
      <3>2. CASE pc[c] = "rollback"
        <4>1. \A d \in Claims : (Standing(d)' \/ (pc'[d] \in Tentative)) => d # c
          BY <1>1, <1>2, <3>2 DEF Standing, Working, CommandStages, Tentative
        <4>2. ASSUME NEW d \in Claims, d # c, Standing(d) \/ pc[d] \in Tentative PROVE "ready" \notin labels
          <5>1. ref = d \/ "ready" \notin labels
            BY <2>1, <4>2 DEF Contenders, Holders
          <5>2. ref = c \/ "ready" \notin labels
            BY <2>1, <3>2 DEF Contenders, Tentative
          <5>3. QED
            BY <4>2, <5>1, <5>2
        <4>3. QED
          BY <1>4, <2>2, <4>1, <4>2
      <3>3. QED
        BY <1>1, <3>1, <3>2
    <2>5. \A d \in Claims : IsNewest(d)' <=> IsNewest(d)
      BY <1>3 DEF IsNewest
    <2>6. Contenders'
      BY <1>3, <1>4, <2>3, <2>4 DEF Contenders
    <2>7. Holders'
      <3>1. \A d \in granted' : ref' # d
        BY <1>0, <1>3, ClaimAssumption
      <3>2. QED
        BY <1>3, <1>4, <2>1, <2>2, <2>3, <2>4, <2>5, <3>1 DEF Holders
    <2>8. QED
      BY <2>6, <2>7
  <1>9. QED
    BY <1>2, <1>5, <1>6, <1>7, <1>8 DEF IInv

\* rollbackClaimRef.
LEMMA RollbackStep ==
    ASSUME IInv, NEW c \in Claims, Rollback(c)
    PROVE  IInv'
  <1>0. TypeOK' /\ TypeOK
    BY ClaimType DEF IInv, ClaimStep
  <1>1. /\ pc[c] = "rollback" /\ GoTo(c, "rolledBack") /\ (Fault \/ NoFault)
        /\ (NoFault /\ ref' = NoClaim) \/ ref' = ref
        /\ UNCHANGED <<now, evidence, beats, labels, fresh, lease, command, repair>>
    BY DEF Rollback, DeleteRef
  <1>2. CASE NoFault /\ ref' = NoClaim
    BY <1>0, <1>1, <1>2, DeleteStep DEF NoFault, command
  <1>3. CASE ref' = ref
    <2>1. Passes(c, "rolledBack")
      BY <1>0, <1>1, <1>3, FaultType, NotRepairing DEF Passes, GoTo, command, IInv, Snapshots, ClaimStages
    <2>2. MayPass(c, "rolledBack")
      BY <1>1 DEF MayPass, Working, CommandStages, Contending, Tentative, EndStages
    <2>3. "rolledBack" \in Stages
      BY DEF Stages, ClaimStages
    <2>4. QED
      BY <1>0, <2>1, <2>2, <2>3, Passing
  <1>4. QED
    BY <1>1, <1>2, <1>3

\* completeClaim deletes the ref.
LEMMA CompleteStep ==
    ASSUME IInv, NEW c \in Claims, CompleteDelete(c)
    PROVE  IInv'
  <1>0. TypeOK' /\ TypeOK
    BY CommandType DEF IInv, CommandStep
  <1>1. /\ pc[c] = "endDelete" /\ GoTo(c, "endProve") /\ (Fault \/ NoFault)
        /\ (NoFault /\ ref' = NoClaim) \/ ref' = ref
        /\ UNCHANGED <<now, evidence, beats, labels, fresh, lease, beatAt, repair>>
    BY DEF CompleteDelete, DeleteRef
  <1>2. CASE NoFault /\ ref' = NoClaim
    BY <1>0, <1>1, <1>2, DeleteStep DEF NoFault
  <1>3. CASE ref' = ref
    <2>1. Passes(c, "endProve")
      BY <1>0, <1>1, <1>3, FaultType, NotRepairing DEF Passes, GoTo, IInv, Snapshots, CommandStages
    <2>2. MayPass(c, "endProve")
      BY <1>1 DEF MayPass, Working, CommandStages, Contending, Tentative, EndStages, Standing, IInv, Grants
    <2>3. "endProve" \in Stages
      BY DEF Stages, CommandStages
    <2>4. QED
      BY <1>0, <2>1, <2>2, <2>3, Passing
  <1>4. QED
    BY <1>1, <1>2, <1>3

\* Heartbeats move nobody else, and renew only a lease that the comments show.
LEMMA Beating ==
    ASSUME IInv, TypeOK', NEW c \in Claims, NEW s \in {"held", "beatWrite", "beatCheck"},
           pc[c] \in {"beatOwner", "beatWrite", "beatCheck"}, GoTo(c, s), faults <= faults', fresh' \in {fresh, {}},
           UNCHANGED <<now, ref, evidence, labels, turn, claimedAt, granted, repair>>,
           \A d \in Claims : d # c => leaseUntil'[d] = leaseUntil[d],
           Leases'
    PROVE  IInv'
  <1>0. TypeOK /\ granted \subseteq Claims
    BY DEF IInv, TypeOK
  <1>1. /\ Turns' /\ (QuietRepair => Repairs')
        /\ pc'[c] = s /\ \A d \in Claims : d # c => pc'[d] = pc[d]
    <2>1. pc[c] \in (ClaimStages \cup CommandStages) \ {"discovered"} /\ s \notin {"idle", "discovered"}
      BY DEF CommandStages
    <2>2. QED
      BY <2>1, Underway DEF GoTo, repair
  <1>2. /\ pc[c] \in Working /\ pc'[c] \in Working /\ Standing(c) /\ pc[c] # "winDrop"
        /\ \A d \in Claims : /\ pc'[d] \in Working <=> pc[d] \in Working
                             /\ pc'[d] \in Contending => pc'[d] = pc[d]
                             /\ pc'[d] \in Tentative => pc'[d] = pc[d]
                             /\ pc'[d] \in EndStages => pc'[d] = pc[d]
    BY <1>1 DEF Working, Contending, Tentative, CommandStages, EndStages, Standing
  <1>3. Grants'
    BY <1>0, <1>1, <1>2 DEF IInv, Grants
  <1>4. Snapshots'
    BY DEF IInv, Snapshots
  <1>5. ASSUME Discipline' PROVE (Contenders /\ Holders)'
    <2>1. Contenders /\ Holders /\ (faults' = 0 => faults = 0)
      BY <1>0, <1>5, DisciplineBefore DEF IInv
    <2>2. \A d \in Claims : Standing(d)' => Standing(d) /\ (pc[d] = "winDrop" => pc'[d] = "winDrop")
      BY <1>1, <1>2 DEF Standing
    <2>3. \A d \in Claims : IsNewest(d)' <=> IsNewest(d)
      BY DEF IsNewest
    <2>4. Contenders'
      BY <1>2, <2>1 DEF Contenders
    <2>5. Holders'
      BY <1>0, <1>2, <2>1, <2>2, <2>3 DEF Holders
    <2>6. QED
      BY <2>4, <2>5
  <1>6. QED
    BY <1>1, <1>3, <1>4, <1>5 DEF IInv

\* The steps of heartbeatClaim.
LEMMA HeartbeatStep ==
    ASSUME IInv, NEW c \in Claims, HeartbeatOwner(c) \/ HeartbeatWrite(c) \/ HeartbeatCheck(c)
    PROVE  IInv'
  <1>0. TypeOK' /\ TypeOK /\ Leases
    BY CommandType DEF IInv, CommandStep
  <1>1. /\ now \in Nat /\ TTL \in Nat
        /\ \A d \in Claims : claimedAt[d] \in Nat /\ beatAt[d] \in Nat /\ claimedAt[d] <= now
    BY <1>0, Numbers DEF Leases
  <1>2. CASE HeartbeatOwner(c) /\ leaseUntil' = leaseUntil /\ beatAt' = beatAt /\ pc'[c] # "beatWrite"
    <2>1. pc[c] = "beatOwner" /\ GoTo(c, "held") /\ UNCHANGED <<now, github, fresh, lease, command, repair, faults>>
      <3>1. GoTo(c, "beatWrite") => pc'[c] = "beatWrite"
        BY <1>0 DEF GoTo, TypeOK
      <3>2. QED
        BY <1>2, <3>1 DEF HeartbeatOwner, lease, command
    <2>2. Leases'
      <3>1. \A d \in Claims : /\ pc'[d] \in Working => pc[d] \in Working
                              /\ pc'[d] \in {"beatWrite", "beatCheck"} => pc'[d] = pc[d]
        BY <1>0, <2>1 DEF GoTo, TypeOK, Working, CommandStages
      <3>2. QED
        BY <1>0, <2>1, <3>1, LeasesKept DEF github, lease, command
    <2>3. QED
      BY <1>0, <2>1, <2>2, Beating, Numbers DEF github, lease
  <1>3. CASE HeartbeatOwner(c) /\ ~(leaseUntil' = leaseUntil /\ beatAt' = beatAt /\ pc'[c] # "beatWrite")
    <2>1. PICK s \in {"held", "beatWrite"} :
             /\ pc[c] = "beatOwner" /\ GoTo(c, s)
             /\ UNCHANGED <<now, ref, evidence, beats, labels, fresh, turn, claimedAt, granted, repair, faults>>
             /\ \/ /\ s = "held" /\ leaseUntil' = [leaseUntil EXCEPT ![c] = now + TTL] /\ beatAt' = beatAt
                   /\ [agent |-> AgentOf[c], at |-> now] \in beats
                \/ s = "beatWrite" /\ leaseUntil' = leaseUntil /\ beatAt' = [beatAt EXCEPT ![c] = now]
      BY <1>0, <1>3 DEF HeartbeatOwner, github, GoTo, TypeOK
    <2>2. pc'[c] = s /\ \A d \in Claims : d # c => pc'[d] = pc[d]
      BY <1>0, <2>1 DEF GoTo, TypeOK
    <2>3. \A d \in Claims : d # c => leaseUntil'[d] = leaseUntil[d] /\ beatAt'[d] = beatAt[d]
      BY <1>0, <2>1 DEF TypeOK
    <2>4. \A d \in Claims : LeaseStarts(d, now)' = LeaseStarts(d, now)
      BY <2>1 DEF LeaseStarts
    <2>5. pc[c] \in Working
      BY <2>1 DEF Working, CommandStages
    <2>6. \E q \in LeaseStarts(c, now) : leaseUntil'[c] = q + TTL
      <3>1. CASE s = "held"
        <4>1. [agent |-> AgentOf[c], at |-> now] \in beats /\ leaseUntil'[c] = now + TTL
          BY <1>0, <2>1, <3>1 DEF TypeOK
        <4>2. now \in LeaseStarts(c, now)
          BY <1>1, <4>1 DEF LeaseStarts
        <4>3. QED
          BY <4>1, <4>2
      <3>2. CASE s = "beatWrite"
        BY <1>0, <2>1, <2>5, <3>2 DEF Leases
      <3>3. QED
        BY <3>1, <3>2
    <2>7. s = "beatWrite" => beatAt'[c] = now
      BY <1>0, <2>1 DEF TypeOK
    <2>8. Leases'
      <3>1. \A d \in Claims : pc'[d] \in Working => \E q \in LeaseStarts(d, now)' : leaseUntil'[d] = q + TTL
        BY <1>0, <2>2, <2>3, <2>4, <2>6 DEF Leases
      <3>2. \A d \in Claims : pc'[d] \in {"beatWrite", "beatCheck"} => claimedAt[d] <= beatAt'[d] /\ beatAt'[d] <= now
        BY <1>0, <1>1, <2>2, <2>3, <2>7 DEF Leases
      <3>3. \A d \in Claims : pc'[d] = "beatCheck" => [agent |-> AgentOf[d], at |-> beatAt'[d]] \in beats
        BY <1>0, <2>1, <2>2, <2>3 DEF Leases
      <3>4. QED
        BY <1>0, <2>1, <3>1, <3>2, <3>3 DEF Leases
    <2>9. QED
      BY <1>0, <2>1, <2>3, <2>8, Beating, Numbers
  <1>4. CASE HeartbeatWrite(c)
    <2>1. PICK s \in {"held", "beatCheck"} :
             /\ pc[c] = "beatWrite" /\ GoTo(c, s) /\ (Fault \/ NoFault) /\ fresh' = {}
             /\ beats' = beats \cup {[agent |-> AgentOf[c], at |-> beatAt[c]]}
             /\ UNCHANGED <<now, ref, evidence, labels, turn, claimedAt, granted, leaseUntil, beatAt, repair>>
      BY <1>4 DEF HeartbeatWrite, lease, command
    <2>2. pc'[c] = s /\ \A d \in Claims : d # c => pc'[d] = pc[d]
      BY <1>0, <2>1 DEF GoTo, TypeOK
    <2>3. claimedAt[c] <= beatAt[c] /\ beatAt[c] <= now
      BY <1>0, <2>1 DEF Leases
    <2>4. \A d \in Claims : LeaseStarts(d, now) \subseteq LeaseStarts(d, now)'
      BY <2>1 DEF LeaseStarts
    <2>5. \A d \in Claims : pc'[d] \in Working => pc[d] \in Working
      BY <2>1, <2>2 DEF Working, CommandStages
    <2>6. Leases'
      <3>1. \A d \in Claims : pc'[d] \in Working => \E q \in LeaseStarts(d, now)' : leaseUntil'[d] = q + TTL
        BY <1>0, <2>1, <2>4, <2>5 DEF Leases
      <3>2. \A b \in beats' : b.at <= now
        BY <1>0, <2>1, <2>3 DEF Leases
      <3>3. \A d \in Claims : pc'[d] \in {"beatWrite", "beatCheck"} => claimedAt[d] <= beatAt'[d] /\ beatAt'[d] <= now
        BY <1>0, <2>1, <2>2, <2>3 DEF Leases
      <3>4. \A d \in Claims : pc'[d] = "beatCheck" => [agent |-> AgentOf[d], at |-> beatAt[d]] \in beats'
        BY <1>0, <2>1, <2>2 DEF Leases
      <3>5. QED
        BY <1>0, <2>1, <3>1, <3>2, <3>3, <3>4 DEF Leases
    <2>7. QED
      BY <1>0, <2>1, <2>6, Beating, FaultType
  <1>5. CASE HeartbeatCheck(c)
    <2>1. /\ pc[c] = "beatCheck" /\ GoTo(c, "held") /\ leaseUntil' = [leaseUntil EXCEPT ![c] = beatAt[c] + TTL]
          /\ UNCHANGED <<now, ref, evidence, beats, labels, fresh, turn, claimedAt, granted, beatAt, repair, faults>>
      BY <1>5 DEF HeartbeatCheck, github, command
    <2>2. pc'[c] = "held" /\ \A d \in Claims : d # c => pc'[d] = pc[d]
      BY <1>0, <2>1 DEF GoTo, TypeOK
    <2>3. leaseUntil'[c] = beatAt[c] + TTL /\ \A d \in Claims : d # c => leaseUntil'[d] = leaseUntil[d]
      BY <1>0, <2>1 DEF TypeOK
    <2>4. beatAt[c] \in LeaseStarts(c, now)
      <3>1. /\ [agent |-> AgentOf[c], at |-> beatAt[c]] \in beats
            /\ claimedAt[c] <= beatAt[c] /\ beatAt[c] <= now
        BY <1>0, <2>1 DEF Leases
      <3>2. QED
        BY <1>1, <3>1 DEF LeaseStarts
    <2>5. \A d \in Claims : LeaseStarts(d, now)' = LeaseStarts(d, now)
      BY <2>1 DEF LeaseStarts
    <2>6. Leases'
      <3>1. \A d \in Claims : pc'[d] \in Working => \E q \in LeaseStarts(d, now)' : leaseUntil'[d] = q + TTL
        BY <1>0, <2>2, <2>3, <2>4, <2>5 DEF Leases
      <3>2. QED
        BY <1>0, <2>1, <2>2, <3>1 DEF Leases
    <2>7. QED
      BY <1>0, <2>1, <2>3, <2>6, Beating, Numbers
  <1>6. QED
    BY <1>2, <1>3, <1>4, <1>5

-----------------------------------------------------------------------------
(* Steps of repairs, and the clock *)

\* The stages of a repair that has found the claim expired.
Releasing == {"expiring", "proving", "unclaim", "toReady"}

\* A claim whose comments show an expired lease is not stood on: the comments show
\* every lease its agent was told of, and nobody is in the middle of a command.
LEMMA ExpiredNotStanding ==
    ASSUME IInv, NEW r \in Repairers, rpc[r] # "idle", Discipline,
           \A c \in evidence : IsNewest(c) => ExpiredAt(c, rnow[r])
    PROVE  \A c \in Claims : ~Standing(c)
  <1>1. SUFFICES ASSUME NEW c \in Claims, Standing(c) PROVE FALSE
    OBVIOUS
  <1>2. RepairOK(r) /\ Holders /\ TypeOK /\ Leases
    BY DEF IInv, Repairs, Discipline
  <1>3. pc[c] = "held" /\ now < leaseUntil[c]
    BY <1>1, <1>2, StageFacts DEF Standing, RepairOK, InFlight
  <1>4. IsNewest(c) /\ c \in evidence
    BY <1>1, <1>2 DEF Holders, IsNewest
  <1>5. PICK s \in LeaseStarts(c, now) : leaseUntil[c] = s + TTL
    BY <1>1, <1>2 DEF Leases, Standing
  <1>6. s \in LeaseStarts(c, rnow[r])
    <2>1. CASE s = claimedAt[c]
      BY <2>1 DEF LeaseStarts
    <2>2. CASE s # claimedAt[c]
      <3>1. PICK b \in beats : b.agent = AgentOf[c] /\ b.at >= claimedAt[c] /\ s = b.at
        BY <1>5, <2>2 DEF LeaseStarts
      <3>2. b.at <= rnow[r]
        BY <1>2, <3>1 DEF RepairOK
      <3>3. QED
        BY <3>1, <3>2 DEF LeaseStarts
    <2>3. QED
      BY <2>1, <2>2
  <1>7. s + TTL <= rnow[r] /\ rnow[r] <= now
    BY <1>2, <1>4, <1>6 DEF ExpiredAt, RepairOK
  <1>8. now \in Nat /\ rnow[r] \in Nat /\ leaseUntil[c] \in Nat
    BY <1>2, Numbers
  <1>9. QED
    BY <1>3, <1>5, <1>7, <1>8

\* What a step of repair r to stage s has to keep.
LEMMA Repaired ==
    ASSUME IInv, TypeOK', NEW r \in Repairers, NEW s \in RepairStages, rpc[r] # "idle", RGoTo(r, s),
           UNCHANGED <<now, evidence, beats, pc, lease, beatAt, rnow>>, faults <= faults',
           ref' \in {ref, NoClaim}, fresh' \subseteq fresh, "ready" \notin labels' => fresh' = {},
           ref' # ref \/ ("ready" \in labels' /\ "ready" \notin labels) => rpc[r] \in Releasing,
           s = "expiring" => \A c \in evidence : IsNewest(c) => ExpiredAt(c, rnow[r]),
           s \in Releasing => s = "expiring" \/ rpc[r] \in Releasing
    PROVE  IInv'
  <1>0. TypeOK /\ granted \subseteq Claims /\ evidence \subseteq Claims /\ fresh \subseteq Claims
    BY DEF IInv, TypeOK
  <1>1. rpc'[r] = s /\ \A q \in Repairers : q # r => rpc'[q] = rpc[q]
    BY <1>0, RGoToType
  <1>2. UNCHANGED <<now, evidence, beats, pc, turn, claimedAt, granted, leaseUntil, beatAt, rnow>>
    BY DEF lease
  <1>3. Turns' /\ Grants'
    <2>1. Started' = Started
      BY <1>2 DEF Started
    <2>2. QED
      BY <1>2, <2>1 DEF IInv, Turns, Grants
  <1>4. Snapshots'
    BY <1>2 DEF IInv, Snapshots
  <1>5. Leases'
    BY <1>2, LeasesKept DEF IInv
  <1>6. \A c \in Claims : (Standing(c)' <=> Standing(c)) /\ (IsNewest(c)' <=> IsNewest(c))
    BY <1>2 DEF Standing, IsNewest
  <1>7. Discipline' => Discipline
    BY <1>0, DisciplineBefore
  <1>8. Discipline /\ (rpc[r] \in Releasing \/ s \in Releasing) => \A c \in Claims : ~Standing(c)
    <2>1. Discipline /\ rpc[r] \in Releasing => \A c \in Claims : ~Standing(c)
      BY DEF IInv, Repairs, RepairOK, Discipline, Releasing
    <2>2. Discipline /\ s = "expiring" => \A c \in Claims : ~Standing(c)
      BY ExpiredNotStanding
    <2>3. QED
      BY <2>1, <2>2
  <1>9. ASSUME QuietRepair PROVE Repairs'
    <2>1. RepairOK(r) /\ \A q \in Repairers : q # r => rpc[q] = "idle"
      BY <1>9 DEF IInv, Repairs, RepairOK
    <2>2. \A q \in Repairers : rpc'[q] # "idle" => q = r
      BY <1>1, <2>1
    <2>3. s = "expiring" => \A c \in evidence : IsNewest(c)' => ExpiredAt(c, rnow[r])'
      <3>1. \A c \in evidence : ExpiredAt(c, rnow[r])' <=> ExpiredAt(c, rnow[r])
        BY <1>2 DEF ExpiredAt, LeaseStarts
      <3>2. QED
        BY <1>0, <1>6, <3>1
    <2>4. Discipline' /\ s \in Releasing => \A c \in Claims : ~Standing(c)'
      BY <1>6, <1>7, <1>8
    <2>5. ~InFlight'
      BY <1>2, <2>1 DEF RepairOK, InFlight
    <2>6. RepairOK(r)'
      BY <1>1, <1>2, <2>1, <2>2, <2>3, <2>4, <2>5 DEF RepairOK, Releasing
    <2>7. QED
      BY <2>2, <2>6 DEF Repairs
  <1>10. ASSUME Discipline' PROVE (Contenders /\ Holders)'
    <2>1. Discipline /\ Holders /\ (faults' = 0 => faults = 0)
      BY <1>0, <1>7, <1>10, DisciplineBefore DEF IInv
    <2>2. ~InFlight
      BY <2>1 DEF IInv, Repairs, RepairOK, Discipline
    <2>3. \A c \in Claims : pc'[c] \notin Contending \cup Tentative
      BY <1>2, <2>2, StageFacts DEF InFlight
    <2>4. Contenders'
      BY <2>3 DEF Contenders
    <2>5. \A c \in Claims : Standing(c) => ref' = ref /\ ("ready" \in labels' => "ready" \in labels)
      BY <1>8, <2>1
    <2>6. \A c \in Claims : Standing(c)' => IsNewest(c)' /\ (ref' = c \/ "ready" \notin labels')
      BY <1>6, <2>1, <2>5 DEF Holders
    <2>7. \A c, d \in Claims : Standing(c)' /\ c # d => ~Standing(d)' /\ pc'[d] \notin Contending
      BY <1>6, <2>1, <2>3 DEF Holders
    <2>8. \A c \in granted' : ref' = c => IsNewest(c)'
      BY <1>0, <1>2, <1>6, <2>1, ClaimAssumption DEF Holders
    <2>9. \A c \in Claims : faults' = 0 /\ Standing(c)' /\ pc'[c] # "winDrop" => "ready" \notin labels'
      BY <1>2, <1>6, <2>1, <2>5 DEF Holders
    <2>10. QED
      BY <2>4, <2>6, <2>7, <2>8, <2>9 DEF Holders
  <1>11. QED
    BY <1>3, <1>4, <1>5, <1>9, <1>10 DEF IInv

\* The steps of a repair that has started.
LEMMA RepairingStep ==
    ASSUME IInv, NEW r \in Repairers, RepairStep(r) \/ RepairAbort(r)
    PROVE  IInv'
  <1>0. TypeOK' /\ TypeOK /\ Snapshots /\ faults <= faults
    BY RepairType, Numbers DEF IInv
  <1>1. CASE RepairRead(r)
    <2>1. PICK s \in {"idle", "expiring", "verifying"} :
             /\ rpc[r] = "reading" /\ RGoTo(r, s)
             /\ s = "expiring" => \E c \in evidence : IsNewest(c) /\ ExpiredAt(c, rnow[r])
             /\ UNCHANGED <<now, github, fresh, pc, lease, command, rnow, faults>>
      BY <1>1 DEF RepairRead
    <2>2. s = "expiring" => \A c \in evidence : IsNewest(c) => ExpiredAt(c, rnow[r])
      <3>1. SUFFICES ASSUME NEW c \in evidence, NEW d \in evidence, IsNewest(c), IsNewest(d) PROVE c = d
        BY <2>1
      <3>2. c \in Started /\ d \in Started /\ turn[c] \in Nat /\ turn[d] \in Nat
        BY <1>0, Numbers DEF IInv, Grants, Started, TypeOK
      <3>3. turn[c] = turn[d]
        BY <3>1, <3>2 DEF IsNewest
      <3>4. QED
        BY <3>2, <3>3 DEF IInv, Turns
    <2>3. s \in RepairStages /\ (s \in Releasing => s = "expiring")
      BY DEF RepairStages, Releasing
    <2>4. UNCHANGED <<ref, labels, fresh, evidence, beats, faults, beatAt>> /\ ("ready" \notin labels => fresh = {})
      BY <1>0, <2>1 DEF github, command, Snapshots
    <2>5. QED
      BY <1>0, <2>1, <2>2, <2>3, <2>4, Repaired
  <1>2. CASE RepairDelete(r)
    <2>1. /\ rpc[r] = "expiring" /\ RGoTo(r, "proving") /\ ref' \in {ref, NoClaim} /\ (Fault \/ NoFault)
          /\ UNCHANGED <<now, evidence, beats, labels, fresh, pc, lease, beatAt, rnow>>
      BY <1>2 DEF RepairDelete, DeleteRef, command
    <2>2. "proving" \in RepairStages /\ "proving" \in Releasing /\ rpc[r] \in Releasing
      BY <2>1 DEF RepairStages, Releasing
    <2>3. faults <= faults' /\ ("ready" \notin labels => fresh = {})
      BY <1>0, <2>1, FaultType DEF Snapshots
    <2>4. QED
      BY <1>0, <2>1, <2>2, <2>3, Repaired
  <1>3. CASE RepairProve(r) \/ RepairAbort(r)
    <2>1. PICK s \in {"unclaim", "reclaim", "idle"} :
             /\ rpc[r] # "idle" /\ RGoTo(r, s) /\ (s = "unclaim" => rpc[r] = "proving") /\ (Fault \/ NoFault)
             /\ UNCHANGED <<now, github, fresh, pc, lease, command, rnow>>
      BY <1>3 DEF RepairProve, RepairAbort, NoFault
    <2>2. s \in RepairStages /\ (s \in Releasing => rpc[r] \in Releasing) /\ s # "expiring"
      BY <2>1 DEF RepairStages, Releasing
    <2>3. /\ UNCHANGED <<ref, labels, fresh, evidence, beats, beatAt>> /\ ("ready" \notin labels => fresh = {})
          /\ faults <= faults'
      BY <1>0, <2>1, FaultType DEF github, command, Snapshots
    <2>4. QED
      BY <1>0, <2>1, <2>2, <2>3, Repaired
  <1>4. CASE RepairLabels(r)
    <2>1. PICK L \in {labels \ {"ready"}, labels \ {"claimed"}, labels \cup {"ready"}, labels \cup {"claimed"}},
               s \in {"toReady", "idle", "toClaimed"} :
             /\ RepairRelabel(r, L, s) /\ rpc[r] \in {"unclaim", "toReady", "reclaim", "toClaimed"}
             /\ s = "toReady" => rpc[r] = "unclaim"
             /\ "ready" \in L => "ready" \in labels \/ rpc[r] = "toReady"
      BY <1>4 DEF RepairLabels
    <2>2. L \subseteq Labels
      BY <1>0 DEF TypeOK, Labels
    <2>3. /\ LabelCall(L) /\ RGoTo(r, s)
          /\ UNCHANGED <<now, ref, evidence, beats, pc, lease, beatAt, rnow>>
      BY <2>1 DEF RepairRelabel, command
    <2>4. /\ fresh' \subseteq fresh /\ (labels' # labels => fresh' = {}) /\ labels' \in {labels, L} /\ faults <= faults'
      BY <1>0, <2>2, <2>3, LabelType
    <2>5. "ready" \in labels' /\ "ready" \notin labels => rpc[r] \in Releasing
      BY <2>1, <2>4 DEF Releasing
    <2>6. s \in RepairStages /\ (s \in Releasing => rpc[r] \in Releasing) /\ s # "expiring" /\ rpc[r] # "idle"
      BY <2>1 DEF RepairStages, Releasing
    <2>7. "ready" \notin labels' => fresh' = {}
      BY <1>0, <2>4 DEF Snapshots
    <2>8. QED
      BY <1>0, <2>3, <2>4, <2>5, <2>6, <2>7, Repaired
  <1>5. QED
    BY <1>1, <1>2, <1>3, <1>4 DEF RepairStep

\* A repair starts while nothing is in flight, and reads the clock.
LEMMA RepairStartStep ==
    ASSUME IInv, NEW r \in Repairers, RepairStart(r)
    PROVE  IInv'
  <1>0. TypeOK' /\ TypeOK /\ evidence \subseteq Claims
    BY RepairType DEF IInv, TypeOK
  <1>1. /\ UNCHANGED <<now, ref, evidence, beats, labels, fresh, pc, turn, claimedAt, granted, leaseUntil, beatAt, faults>>
        /\ rpc'[r] = "reading" /\ \A q \in Repairers : q # r => rpc'[q] = rpc[q]
        /\ rnow'[r] = now /\ (QuietRepair => ~InFlight /\ ~Repairing)
    BY <1>0 DEF RepairStart, RGoTo, TypeOK, github, lease, command
  <1>2. Turns' /\ Grants' /\ Snapshots'
    <2>1. Started' = Started
      BY <1>1 DEF Started
    <2>2. QED
      BY <1>1, <2>1 DEF IInv, Turns, Grants, Snapshots
  <1>3. Leases'
    BY <1>1, LeasesKept DEF IInv
  <1>4. ASSUME QuietRepair PROVE Repairs'
    <2>1. \A q \in Repairers : rpc'[q] # "idle" => q = r
      BY <1>1, <1>4 DEF Repairing
    <2>2. ~InFlight'
      BY <1>1, <1>4 DEF InFlight
    <2>3. /\ now <= now /\ (\A b \in beats : b.at <= now)
          /\ \A c \in evidence : claimedAt[c] <= now
      BY <1>0, Numbers DEF IInv, Leases
    <2>4. RepairOK(r)'
      BY <1>1, <2>1, <2>2, <2>3 DEF RepairOK
    <2>5. QED
      BY <2>1, <2>4 DEF Repairs
  <1>5. ASSUME Discipline' PROVE (Contenders /\ Holders)'
    <2>1. Contenders /\ Holders
      BY <1>1, <1>5 DEF IInv, Discipline
    <2>2. QED
      BY <1>1, <2>1 DEF Contenders, Holders, Standing, IsNewest
  <1>6. QED
    BY <1>0, <1>2, <1>3, <1>4, <1>5 DEF IInv

\* The clock: leases end, and nothing else changes.
LEMMA TickStep ==
    ASSUME IInv, Tick
    PROVE  IInv'
  <1>0. TypeOK /\ now \in Nat /\ now' = now + 1
        /\ UNCHANGED <<ref, evidence, beats, labels, fresh, pc, turn, claimedAt, granted, leaseUntil, beatAt, rpc, rnow, faults>>
    BY Numbers DEF IInv, Tick, github, lease, command, repair
  <1>1. TypeOK'
    BY ClaimAssumption DEF IInv, TypeOK, Tick, github, lease, command, repair
  <1>2. Turns' /\ Grants' /\ Snapshots'
    <2>1. Started' = Started
      BY <1>0 DEF Started
    <2>2. QED
      BY <1>0, <2>1 DEF IInv, Turns, Grants, Snapshots
  <1>3. /\ \A c \in Claims : claimedAt[c] \in Nat /\ beatAt[c] \in Nat /\ leaseUntil[c] \in Nat
        /\ (\A b \in beats : b.at \in Nat) /\ \A r \in Repairers : rnow[r] \in Nat
    BY <1>0, Numbers
  <1>4. Leases'
    <2>1. \A c \in Claims : LeaseStarts(c, now) \subseteq LeaseStarts(c, now)'
      BY <1>0, <1>3 DEF LeaseStarts
    <2>2. \A c \in Claims : pc[c] \in Working => \E s \in LeaseStarts(c, now)' : leaseUntil[c] = s + TTL
      BY <2>1 DEF IInv, Leases
    <2>3. QED
      BY <1>0, <1>3, <2>2 DEF IInv, Leases
  <1>5. \A c \in Claims : (Standing(c)' => Standing(c)) /\ (IsNewest(c)' <=> IsNewest(c))
    BY <1>0, <1>3 DEF Standing, IsNewest
  <1>6. Discipline' <=> Discipline
    BY <1>0 DEF Discipline
  <1>7. ASSUME QuietRepair PROVE Repairs'
    <2>1. SUFFICES ASSUME NEW r \in Repairers, rpc[r] # "idle" PROVE RepairOK(r)'
      BY <1>0 DEF Repairs
    <2>2. RepairOK(r)
      BY <1>7, <2>1 DEF IInv, Repairs
    <2>3. ~InFlight'
      BY <1>0, <2>2 DEF RepairOK, InFlight
    <2>4. rnow[r] <= now'
      BY <1>0, <1>3, <2>2 DEF RepairOK
    <2>5. \A c \in evidence : ExpiredAt(c, rnow[r])' <=> ExpiredAt(c, rnow[r])
      BY <1>0 DEF ExpiredAt, LeaseStarts
    <2>6. evidence \subseteq Claims
      BY <1>0 DEF TypeOK
    <2>7. rpc'[r] = "expiring" => \A c \in evidence' : IsNewest(c)' => ExpiredAt(c, rnow[r])'
      BY <1>0, <1>5, <2>2, <2>5, <2>6 DEF RepairOK
    <2>8. QED
      BY <1>0, <1>5, <1>6, <2>2, <2>3, <2>4, <2>7 DEF RepairOK
  <1>8. ASSUME Discipline' PROVE (Contenders /\ Holders)'
    <2>1. Contenders /\ Holders /\ granted \subseteq Claims
      BY <1>0, <1>6, <1>8 DEF IInv, TypeOK
    <2>2. Contenders'
      BY <1>0, <2>1 DEF Contenders
    <2>3. Holders'
      BY <1>0, <1>5, <2>1 DEF Holders
    <2>4. QED
      BY <2>2, <2>3
  <1>9. QED
    BY <1>1, <1>2, <1>4, <1>7, <1>8 DEF IInv

\* A merged pull request, and steps that change nothing.
LEMMA MergeStep ==
    ASSUME IInv, (\E a \in Agents : Merge(a)) \/ UNCHANGED vars
    PROVE  IInv'
  <1>1. UNCHANGED <<now, ref, evidence, beats, labels, fresh, pc, turn, claimedAt, granted, leaseUntil, beatAt, failed, rpc, rnow, faults>>
    BY DEF Merge, vars, github, lease, command, repair
  <1>2. reviewed' \subseteq Agents /\ merged' \subseteq reviewed'
    BY DEF IInv, TypeOK, Merge, vars, github
  <1>3. TypeOK'
    BY <1>1, <1>2 DEF IInv, TypeOK
  <1>4. Turns' /\ Grants' /\ Snapshots'
    <2>1. Started' = Started
      BY <1>1 DEF Started
    <2>2. QED
      BY <1>1, <2>1 DEF IInv, Turns, Grants, Snapshots
  <1>5. Leases'
    BY <1>1, LeasesKept DEF IInv
  <1>6. QuietRepair => Repairs'
    BY <1>1 DEF IInv, Repairs, RepairOK, InFlight, IsNewest, ExpiredAt, LeaseStarts, Discipline, Standing
  <1>7. Discipline' => (Contenders /\ Holders)'
    BY <1>1 DEF IInv, Discipline, Contenders, Holders, Standing, IsNewest
  <1>8. QED
    BY <1>3, <1>4, <1>5, <1>6, <1>7 DEF IInv

-----------------------------------------------------------------------------
(* The theorems *)

\* The invariant holds at the start.
LEMMA InitInv == Init => IInv
  <1>1. SUFFICES ASSUME Init PROVE IInv
    OBVIOUS
  <1>2. /\ \A c \in Claims : pc[c] = "idle" /\ turn[c] = 0 /\ claimedAt[c] = 0
        /\ \A r \in Repairers : rpc[r] = "idle"
        /\ "idle" \notin Working \cup Contending \cup Tentative \cup EndStages
    BY <1>1 DEF Init, Working, Contending, Tentative, EndStages, CommandStages
  <1>3. Cardinality(Started) \in Nat /\ Started = {} /\ Cardinality(Claims) \in Nat
    <2>1. Started = {}
      BY <1>2 DEF Started
    <2>2. QED
      BY <2>1, FS_EmptySet, FS_CardinalityType, ClaimAssumption
  <1>4. TypeOK
    BY <1>1, <1>3, ClaimAssumption DEF Init, TypeOK, Stages, RepairStages, Labels
  <1>5. Turns /\ Grants /\ Snapshots /\ Leases /\ Repairs
    BY <1>1, <1>2, <1>3 DEF Init, Turns, Grants, Snapshots, Leases, Repairs
  <1>6. Contenders /\ Holders
    BY <1>1, <1>2 DEF Init, Contenders, Holders, Standing
  <1>7. QED
    BY <1>4, <1>5, <1>6 DEF IInv

\* Every step keeps the invariant.
LEMMA StepInv ==
    ASSUME IInv, [Next]_vars
    PROVE  IInv'
  <1>1. ASSUME NEW c \in Claims, Discover(c) \/ ClaimStep(c) \/ Crash(c) PROVE IInv'
    BY <1>1, DiscoverStep, StartStep, CreateStep, ReadStep, WriteStep, GrantStep, RollbackStep, ClaimPasses DEF ClaimStep
  <1>2. ASSUME NEW c \in Claims,
               BeginHeartbeat(c) \/ BeginReview(c) \/ BeginComplete(c) \/ CommandStep(c) \/ CommandFails(c)
        PROVE  IInv'
    BY <1>2, HeartbeatStep, CompleteStep, CommandPasses DEF CommandStep
  <1>3. ASSUME NEW r \in Repairers, RepairStart(r) \/ RepairStep(r) \/ RepairAbort(r) PROVE IInv'
    BY <1>3, RepairStartStep, RepairingStep
  <1>4. CASE (\E a \in Agents : Merge(a)) \/ UNCHANGED vars
    BY <1>4, MergeStep
  <1>5. CASE Tick
    BY <1>5, TickStep
  <1>6. QED
    BY <1>1, <1>2, <1>3, <1>4, <1>5 DEF Next

\* The invariant holds in every reachable state.
THEOREM Inductive == Spec => []IInv
  <1>1. IInv /\ [Next]_vars => IInv'
    BY StepInv
  <1>2. QED
    BY <1>1, InitInv, PTL DEF Spec

\* For any claims, agents, repairs and faults every variable keeps its type.
THEOREM TypeCorrect == Spec => []TypeOK
  <1>1. IInv => TypeOK
    BY DEF IInv
  <1>2. QED
    BY <1>1, Inductive, PTL

\* For any number of claims, agents and repairs: as long as operators repair in quiet
\* moments, agents issue commands under their lease and no call has failed (or nobody
\* completes), no two agents believe at the same time that they own the Issue.
THEOREM WinnerUnique == Spec => [](Discipline => OneWinner)
  <1>1. IInv => (Discipline => OneWinner)
    <2>1. ASSUME IInv, Discipline, NEW c \in Claims, NEW d \in Claims, Believes(c), Believes(d) PROVE c = d
      <3>1. Standing(c) /\ Standing(d)
        BY <2>1 DEF IInv, Grants, Believes, Standing
      <3>2. QED
        BY <2>1, <3>1 DEF IInv, Holders
    <2>2. QED
      BY <2>1 DEF OneWinner
  <1>2. QED
    BY <1>1, Inductive, PTL

\* For any number of claims, agents and repairs, under the same discipline: while the ref
\* of a granted claim stands, the comments name its agent as the owner and nobody else.
THEOREM OwnerHolds == Spec => [](Discipline => OwnerIsHolder)
  <1>1. IInv => (Discipline => OwnerIsHolder)
    <2>1. ASSUME IInv, Discipline, NEW c \in granted, ref = c, NEW a \in Agents PROVE OwnerIs(a) <=> a = AgentOf[c]
      <3>1. IsNewest(c) /\ c \in evidence
        BY <2>1 DEF IInv, Holders, IsNewest
      <3>2. ASSUME NEW d \in evidence, IsNewest(d) PROVE d = c
        <4>1. c \in Started /\ d \in Started /\ turn[c] \in Nat /\ turn[d] \in Nat
          BY <2>1, <3>1, <3>2, Numbers DEF IInv, Grants, Started, TypeOK
        <4>2. turn[c] = turn[d]
          BY <3>1, <3>2, <4>1 DEF IsNewest
        <4>3. QED
          BY <2>1, <4>1, <4>2 DEF IInv, Turns
      <3>3. QED
        BY <3>1, <3>2 DEF OwnerIs
    <2>2. QED
      BY <2>1 DEF OwnerIsHolder
  <1>2. QED
    BY <1>1, Inductive, PTL

\* For any number of claims, agents and faults, where operators repair in quiet moments:
\* a repair deletes no ref whose newest claim or heartbeat is still good.
THEOREM ExpiryIsLate == QuietRepair => (Spec => ExpiresFromLatestHeartbeat)
  <1>1. ASSUME QuietRepair, IInv, NEW r \in Repairers, rpc[r] = "expiring", NEW c \in Claims, IsNewest(c)
        PROVE  /\ claimedAt[c] + TTL <= now
               /\ \A b \in beats : b.agent = AgentOf[c] => b.at + TTL <= now
    <2>1. RepairOK(r) /\ c \in evidence
      BY <1>1 DEF IInv, Repairs, IsNewest
    <2>2. ExpiredAt(c, rnow[r]) /\ rnow[r] <= now
      BY <1>1, <2>1 DEF RepairOK
    <2>3. /\ now \in Nat /\ TTL \in Nat /\ claimedAt[c] \in Nat /\ rnow[r] \in Nat
          /\ \A b \in beats : b.at \in Nat
      BY <1>1, Numbers DEF IInv
    <2>4. claimedAt[c] + TTL <= rnow[r]
      BY <2>2 DEF ExpiredAt, LeaseStarts
    <2>5. ASSUME NEW b \in beats, b.agent = AgentOf[c] PROVE b.at + TTL <= now
      <3>1. b.at <= rnow[r]
        BY <2>1 DEF RepairOK
      <3>2. CASE b.at >= claimedAt[c]
        BY <2>2, <2>3, <2>5, <3>1, <3>2 DEF ExpiredAt, LeaseStarts
      <3>3. CASE ~(b.at >= claimedAt[c])
        BY <2>2, <2>3, <2>4, <3>3
      <3>4. QED
        BY <3>2, <3>3
    <2>6. QED
      BY <2>2, <2>3, <2>4, <2>5
  <1>2. ASSUME QuietRepair PROVE Spec => ExpiresFromLatestHeartbeat
    <2>1. IInv => \A r \in Repairers :
            (rpc[r] = "expiring" /\ rpc'[r] = "proving" /\ ref # NoClaim /\ ref' = NoClaim)
              => \A c \in Claims : IsNewest(c) =>
                     /\ claimedAt[c] + TTL <= now
                     /\ \A b \in beats : b.agent = AgentOf[c] => b.at + TTL <= now
      BY <1>1, <1>2
    <2>2. QED
      BY <2>1, Inductive, PTL DEF ExpiresFromLatestHeartbeat, Spec
  <1>3. QED
    BY <1>2

-----------------------------------------------------------------------------
(* Where an Issue goes when no call fails *)

\* Operators and agents keep to the discipline, and no call has failed.
Smooth == QuietRepair /\ TimelyCommands /\ faults = 0

\* Stages before the owner comment.
Early == {"creating", "conflict", "reconcile", "loseDrop", "loseAdd", "tentative", "writing", "rollback", "rolledBack"}

\* Comments and refs follow the stages: a claim comments once it is past `writing',
\* and a ref stands for a claim that still needs it.
Staged ==
    /\ \A c \in Claims : pc[c] \in Early => c \notin evidence
    /\ \A c \in Claims : pc[c] = "confirming" => c \in evidence
    /\ \A c \in Claims : ref = c => pc[c] \in Tentative \cup Contending \cup Working
    /\ \A c \in Claims : pc[c] \in {"endDelete", "endProve"} => "done" \in labels
    /\ \A c \in Claims : pc[c] = "loseDrop" => evidence # {}
    /\ \A c \in Claims : pc[c] = "loseAdd" => "ready" \notin labels

\* The ref leaves a claim that needs it only when the Issue is done.
Backed ==
    \A c \in Claims : (pc[c] \in Tentative \/ Standing(c)) /\ ref # c => "done" \in labels

\* A claim in flight that is older than a comment has been overtaken for good.
Overtaken ==
    \A c \in Claims, d \in evidence : pc[c] \in Early /\ turn[d] > turn[c] => ref = d \/ "done" \in labels

\* As long as the Issue is ready, nothing but an owner comment makes a snapshot stale, and
\* the ref that a losing claim has met still stands.
Open ==
    "ready" \in labels /\ "done" \notin labels =>
        /\ \A c \in Claims : pc[c] \in {"conflict", "reconcile", "loseDrop"} => ref # NoClaim
        /\ ref \notin evidence =>
              \A c \in Claims : /\ pc[c] \in {"discovered", "creating", "tentative"} => c \in fresh
                                /\ pc[c] # "rollback"

\* A repair has the ref until it deletes it.
RepairRef ==
    \A r \in Repairers : rpc[r] # "idle" =>
        (rpc[r] \in {"proving", "unclaim", "toReady"} <=> ref = NoClaim)

\* The ref is that of a claim that will be, or is, granted.
Taken == \E c \in Claims : ref = c /\ pc[c] \in Contending \cup Working

\* A repair is about to make the Issue ready.
Released == \E r \in Repairers : rpc[r] \in {"proving", "unclaim", "toReady"}

\* A claim x has projected the comment of an older claim d, and a claim c meets the same end.
Doomed(x, d) ==
    /\ x \in Claims /\ d \in evidence /\ turn[d] < turn[x]
    /\ pc[x] = "loseAdd" \/ (pc[x] = "denied" /\ "claimed" \in labels)
    /\ \/ \E c \in Claims : ref = c /\ pc[c] \in Tentative
       \/ /\ ref = NoClaim
          /\ \E c \in Claims : c # x /\ pc[c] \in {"rolledBack", "denied"} /\ turn[d] < turn[c]

\* An Issue that is neither ready nor done is in one of three hands.
Accounted ==
    "ready" \notin labels /\ "done" \notin labels =>
        Taken \/ Released \/ \E x \in Claims, d \in evidence : Doomed(x, d)

\* The inductive invariant of ClaimableOrOwned, on top of IInv.
Kept == Staged /\ Backed /\ Overtaken /\ Open /\ RepairRef /\ Accounted
\* It holds as long as the discipline does and no call has failed.
KInv == Smooth => Kept

\* Without faults the discipline holds, and a call that has not failed has succeeded.
LEMMA SmoothBefore ==
    ASSUME TypeOK, faults <= faults', Smooth'
    PROVE  Smooth /\ Discipline /\ Discipline' /\ faults = 0 /\ faults' = 0 /\ ~Fault
  BY Numbers DEF Smooth, Discipline, Fault

\* An Issue stays accounted for when a claim moves on and no label goes.
LEMMA AccountedKept ==
    ASSUME Accounted, NEW c \in Claims, pc'[c] # pc[c] \/ pc' = pc, \A d \in Claims : d # c => pc'[d] = pc[d],
           UNCHANGED <<ref, turn, rpc>>, evidence \subseteq evidence',
           "done" \in labels => "done" \in labels', "ready" \in labels => "ready" \in labels' \/ "done" \in labels',
           Taken' \/ ("claimed" \in labels => "claimed" \in labels'),
           ref = c /\ pc[c] \in Contending \cup Working => pc'[c] \in Contending \cup Working,
           ref = c /\ pc[c] \in Tentative => pc'[c] \in Tentative \cup Contending,
           pc[c] = "loseAdd" => pc'[c] = "denied" /\ "claimed" \in labels',
           pc[c] # "denied", pc[c] = "rolledBack" /\ ref = NoClaim => pc'[c] = "denied"
    PROVE  Accounted'
  <1>1. SUFFICES ASSUME "ready" \notin labels', "done" \notin labels', ~Taken'
                 PROVE  Released' \/ \E x \in Claims, d \in evidence' : Doomed(x, d)'
    BY DEF Accounted
  <1>2. "ready" \notin labels /\ "done" \notin labels /\ ("claimed" \in labels => "claimed" \in labels')
    BY <1>1
  <1>3. ~Taken
    <2>1. \A e \in Claims : pc[e] \in Contending \cup Working /\ ref = e => pc'[e] \in Contending \cup Working
      OBVIOUS
    <2>2. QED
      BY <1>1, <2>1 DEF Taken
  <1>4. Released => Released'
    BY DEF Released
  <1>5. ASSUME NEW x \in Claims, NEW d \in evidence, Doomed(x, d) PROVE Doomed(x, d)'
    <2>1. turn'[d] < turn'[x] /\ d \in evidence'
      BY <1>5 DEF Doomed
    <2>2. pc'[x] = "loseAdd" \/ (pc'[x] = "denied" /\ "claimed" \in labels')
      BY <1>2, <1>5 DEF Doomed
    <2>3. \/ \E e \in Claims : ref' = e /\ pc'[e] \in Tentative
          \/ /\ ref' = NoClaim
             /\ \E e \in Claims : e # x /\ pc'[e] \in {"rolledBack", "denied"} /\ turn'[d] < turn'[e]
      <3>1. CASE \E e \in Claims : ref = e /\ pc[e] \in Tentative
        <4>1. PICK e \in Claims : ref = e /\ pc[e] \in Tentative
          BY <3>1
        <4>2. pc'[e] \in Tentative \cup Contending
          BY <4>1
        <4>3. pc'[e] \notin Contending
          BY <1>1, <4>1 DEF Taken
        <4>4. QED
          BY <4>1, <4>2, <4>3
      <3>2. CASE ref = NoClaim /\ \E e \in Claims : e # x /\ pc[e] \in {"rolledBack", "denied"} /\ turn[d] < turn[e]
        BY <3>2
      <3>3. QED
        BY <1>5, <3>1, <3>2 DEF Doomed
    <2>4. QED
      BY <1>5, <2>1, <2>2, <2>3 DEF Doomed
  <1>6. QED
    BY <1>2, <1>3, <1>4, <1>5 DEF Accounted

\* A claim moves on, and neither ref nor comments change.
LEMMA KeptPassing ==
    ASSUME IInv, Kept, NEW c \in Claims, NEW s, pc' = [pc EXCEPT ![c] = s],
           UNCHANGED <<ref, evidence, turn, rpc>>,
           "done" \in labels => "done" \in labels', "ready" \in labels' => "ready" \in labels,
           fresh' = fresh \/ "ready" \notin labels',
           \A d \in Claims : Standing(d)' => Standing(d) \/ ref = d,
           s \in Early => pc[c] \in Early, s = "confirming" => c \in evidence,
           ref = c => s \in Tentative \cup Contending \cup Working,
           s \in {"endDelete", "endProve"} => "done" \in labels',
           s = "loseDrop" => evidence # {}, s = "loseAdd" => "ready" \notin labels',
           s \in Tentative => pc[c] \in Tentative,
           s \in {"conflict", "reconcile", "loseDrop"} => ref # NoClaim \/ pc[c] \in {"conflict", "reconcile", "loseDrop"},
           s \notin {"discovered", "creating", "tentative"},
           s = "rollback" => "ready" \notin labels \/ "done" \in labels,
           Accounted'
    PROVE  Kept'
  <1>1. pc'[c] = s /\ \A d \in Claims : d # c => pc'[d] = pc[d]
    BY DEF IInv, TypeOK
  <1>2. Staged'
    <2>1. \A d \in Claims : d # c => /\ pc'[d] \in Early => d \notin evidence'
                                     /\ pc'[d] = "confirming" => d \in evidence'
                                     /\ ref' = d => pc'[d] \in Tentative \cup Contending \cup Working
                                     /\ pc'[d] \in {"endDelete", "endProve"} => "done" \in labels'
                                     /\ pc'[d] = "loseDrop" => evidence' # {}
                                     /\ pc'[d] = "loseAdd" => "ready" \notin labels'
      BY <1>1 DEF Kept, Staged
    <2>2. /\ pc'[c] \in Early => c \notin evidence'
          /\ pc'[c] = "confirming" => c \in evidence'
          /\ ref' = c => pc'[c] \in Tentative \cup Contending \cup Working
          /\ pc'[c] \in {"endDelete", "endProve"} => "done" \in labels'
          /\ pc'[c] = "loseDrop" => evidence' # {}
          /\ pc'[c] = "loseAdd" => "ready" \notin labels'
      BY <1>1 DEF Kept, Staged
    <2>3. QED
      BY <2>1, <2>2 DEF Staged
  <1>3. Backed'
    BY <1>1 DEF Kept, Backed
  <1>4. Overtaken'
    BY <1>1 DEF Kept, Overtaken
  <1>5. Open'
    BY <1>1 DEF Kept, Open
  <1>6. RepairRef'
    BY DEF Kept, RepairRef
  <1>7. QED
    BY <1>2, <1>3, <1>4, <1>5, <1>6 DEF Kept

\* A claim moves on, and nothing that others see changes.
LEMMA KeptMove ==
    ASSUME IInv, Kept, NEW c \in Claims, NEW s \in Stages, GoTo(c, s), s # pc[c],
           UNCHANGED <<ref, evidence, turn, rpc, labels, fresh>>,
           \A d \in Claims : Standing(d)' => Standing(d) \/ ref = d,
           s \in Early => pc[c] \in Early, s = "confirming" => c \in evidence,
           ref = c /\ pc[c] \in Contending \cup Working => s \in Contending \cup Working,
           pc[c] \in Tentative => s \in Tentative \cup Contending,
           s \in {"endDelete", "endProve"} => "done" \in labels,
           s = "loseDrop" => evidence # {}, s # "loseAdd",
           s \in Tentative => pc[c] \in Tentative,
           s \in {"conflict", "reconcile", "loseDrop"} => ref # NoClaim \/ pc[c] \in {"conflict", "reconcile", "loseDrop"},
           s \notin {"discovered", "creating", "tentative"},
           s = "rollback" => "ready" \notin labels \/ "done" \in labels,
           pc[c] \notin {"loseAdd", "denied"}, pc[c] = "rolledBack" /\ ref = NoClaim => s = "denied"
    PROVE  Kept'
  <1>1. pc'[c] = s /\ pc' = [pc EXCEPT ![c] = s] /\ \A d \in Claims : d # c => pc'[d] = pc[d]
    BY GoToType DEF IInv, GoTo
  <1>2. Accounted'
    BY <1>1, AccountedKept DEF Kept
  <1>3. ref = c => s \in Tentative \cup Contending \cup Working
    BY DEF Kept, Staged
  <1>4. QED
    BY <1>1, <1>2, <1>3, KeptPassing

\* Nobody comes to stand on the Issue but a claim that has the ref.
LEMMA StoodBefore ==
    ASSUME TypeOK, NEW c \in Claims, NEW s \in Stages, GoTo(c, s), now' = now,
           \A d \in Claims : d # c => leaseUntil'[d] = leaseUntil[d],
           s \in Working => Standing(c) \/ ref = c
    PROVE  \A d \in Claims : Standing(d)' => Standing(d) \/ ref = d
  <1>1. pc'[c] = s /\ \A d \in Claims : d # c => pc'[d] = pc[d]
    BY GoToType
  <1>2. \A d \in Claims : d # c => (Standing(d)' <=> Standing(d))
    BY <1>1 DEF Standing
  <1>3. Standing(c)' => s \in Working
    BY <1>1 DEF Standing
  <1>4. QED
    BY <1>2, <1>3

\* The steps of claimIssueTask that only read.
LEMMA KeptReads ==
    ASSUME IInv, Kept, Smooth', NEW c \in Claims,
           ConfirmConflict(c) \/ Reconcile(c) \/ ReadIssue(c) \/ ConfirmEvidence(c) \/ FinalCheck(c) \/ ProveRollback(c)
    PROVE  Kept'
  <1>0. /\ UNCHANGED <<now, ref, evidence, turn, rpc, labels, fresh>> /\ (Fault \/ NoFault) /\ TypeOK
        /\ \A d \in Claims : d # c => leaseUntil'[d] = leaseUntil[d]
    BY DEF IInv, TypeOK, ConfirmConflict, Reconcile, ReadIssue, ConfirmEvidence, FinalCheck, ProveRollback, github, lease, repair, RefRead, NoFault
  <1>1. /\ Smooth /\ ~Fault /\ Discipline /\ Contenders
    BY <1>0, FaultType, SmoothBefore DEF IInv
  <1>2. CASE ConfirmConflict(c)
    <2>1. PICK s \in {"reconcile", "denied"} : GoTo(c, s) /\ pc[c] = "conflict" /\ (s = "reconcile" => ref # NoClaim)
      BY <1>1, <1>2 DEF ConfirmConflict, RefRead
    <2>2. s \in Stages /\ ref # c /\ s \notin Working
      BY <2>1 DEF Stages, ClaimStages, FinalStages, Kept, Staged, Tentative, Contending, Working, CommandStages
    <2>3. \A d \in Claims : Standing(d)' => Standing(d) \/ ref = d
      BY <1>0, <2>1, <2>2, StoodBefore
    <2>4. QED
      BY <1>0, <2>1, <2>2, <2>3, KeptMove DEF Early, Tentative
  <1>3. CASE Reconcile(c)
    <2>1. PICK s \in {"loseDrop", "denied"} : GoTo(c, s) /\ pc[c] = "reconcile" /\ (s = "loseDrop" => evidence # {})
      BY <1>1, <1>3 DEF Reconcile
    <2>2. s \in Stages /\ ref # c /\ s \notin Working
      BY <2>1 DEF Stages, ClaimStages, FinalStages, Kept, Staged, Tentative, Contending, Working, CommandStages
    <2>3. \A d \in Claims : Standing(d)' => Standing(d) \/ ref = d
      BY <1>0, <2>1, <2>2, StoodBefore
    <2>4. QED
      BY <1>0, <2>1, <2>2, <2>3, KeptMove DEF Early, Tentative
  <1>4. CASE ReadIssue(c)
    <2>1. PICK s \in {"writing", "rollback"} : GoTo(c, s) /\ pc[c] = "tentative" /\ (s = "rollback" => c \notin fresh)
      BY <1>1, <1>4 DEF ReadIssue
    <2>2. s \in Stages /\ s \notin Working /\ pc[c] \in Early
      BY <2>1 DEF Stages, ClaimStages, Working, CommandStages, Early
    <2>3. \A d \in Claims : Standing(d)' => Standing(d) \/ ref = d
      BY <1>0, <2>1, <2>2, StoodBefore
    <2>4. ASSUME s = "rollback", "ready" \in labels, "done" \notin labels PROVE FALSE
      <3>1. ref = c /\ c \notin evidence
        BY <2>1, <2>2, <2>4 DEF Kept, Backed, Staged, Tentative
      <3>2. QED
        BY <2>1, <2>4, <3>1 DEF Kept, Open
    <2>5. QED
      BY <1>0, <2>1, <2>2, <2>3, <2>4, KeptMove DEF Tentative, Contending, Working, CommandStages
  <1>5. CASE ConfirmEvidence(c)
    <2>1. GoTo(c, "checking") /\ pc[c] = "confirming"
      BY <1>1, <1>5 DEF ConfirmEvidence, Kept, Staged
    <2>2. "checking" \in Stages /\ "checking" \notin Working /\ "checking" \notin Early
      BY DEF Stages, ClaimStages, Working, CommandStages, Early
    <2>3. \A d \in Claims : Standing(d)' => Standing(d) \/ ref = d
      BY <1>0, <2>1, <2>2, StoodBefore
    <2>4. QED
      BY <1>0, <2>1, <2>2, <2>3, KeptMove DEF Tentative, Contending
  <1>6. CASE FinalCheck(c)
    <2>0. ref = c /\ pc[c] = "checking" /\ ref # NoClaim
      BY <1>1, <1>6, ClaimAssumption DEF FinalCheck, Contenders, Contending
    <2>1. GoTo(c, "winDrop")
      BY <1>1, <1>6, <2>0 DEF FinalCheck, RefRead
    <2>2. "winDrop" \in Stages /\ "winDrop" \in Working /\ "winDrop" \notin Early
      BY DEF Stages, ClaimStages, Working, Early
    <2>3. \A d \in Claims : Standing(d)' => Standing(d) \/ ref = d
      BY <1>0, <2>0, <2>1, <2>2, StoodBefore
    <2>4. QED
      BY <1>0, <2>0, <2>1, <2>2, <2>3, KeptMove DEF Tentative
  <1>7. CASE ProveRollback(c)
    <2>1. PICK s \in {"denied", "uncertain"} : GoTo(c, s) /\ pc[c] = "rolledBack" /\ (ref = NoClaim => s = "denied")
      BY <1>1, <1>7 DEF ProveRollback, RefRead
    <2>2. s \in Stages /\ ref # c /\ s \notin Working
      BY <2>1 DEF Stages, FinalStages, Kept, Staged, Tentative, Contending, Working, CommandStages
    <2>3. \A d \in Claims : Standing(d)' => Standing(d) \/ ref = d
      BY <1>0, <2>1, <2>2, StoodBefore
    <2>4. QED
      BY <1>0, <2>1, <2>2, <2>3, KeptMove DEF Early, Tentative
  <1>8. QED
    BY <1>2, <1>3, <1>4, <1>5, <1>6, <1>7

\* An owner comment is older than every claim in flight that has not been overtaken.
LEMMA OlderComment ==
    ASSUME IInv, Kept, NEW c \in Claims, pc[c] \in Early, "done" \notin labels, NEW d \in evidence, ref # d
    PROVE  turn[d] < turn[c]
  <1>1. d \in Claims /\ c \notin evidence /\ turn[c] \in Nat /\ turn[d] \in Nat
    BY Numbers DEF IInv, TypeOK, Kept, Staged
  <1>2. c \in Started /\ d \in Started
    BY <1>1 DEF IInv, Turns, Grants, Started, Early
  <1>3. turn[c] # turn[d]
    BY <1>1, <1>2 DEF IInv, Turns
  <1>4. ~(turn[d] > turn[c])
    BY DEF Kept, Overtaken
  <1>5. QED
    BY <1>1, <1>3, <1>4

\* The loser and the winner drop `ready'.
LEMMA KeptDrop ==
    ASSUME IInv, Kept, Smooth', NEW c \in Claims, DropReady(c)
    PROVE  Kept'
  <1>0. /\ UNCHANGED <<now, ref, evidence, turn, rpc, leaseUntil>> /\ TypeOK /\ LabelCall(labels \ {"ready"})
        /\ pc[c] \in {"loseDrop", "winDrop"} /\ GoTo(c, IF pc[c] = "loseDrop" THEN "loseAdd" ELSE "winAdd")
    BY DEF IInv, DropReady, lease, repair
  <1>1. labels \ {"ready"} \subseteq Labels
    BY <1>0 DEF TypeOK
  <1>2. Smooth /\ faults' = 0 /\ labels' = labels \ {"ready"}
    BY <1>0, <1>1, LabelType, SmoothBefore
  <1>3. PICK s \in {"loseAdd", "winAdd"} : GoTo(c, s) /\ (s = "loseAdd" <=> pc[c] = "loseDrop")
    BY <1>0
  <1>4. s \in Stages /\ (pc[c] = "winDrop" => Standing(c)) /\ (s \in Working <=> s = "winAdd") /\ pc[c] \notin Tentative
    BY <1>0, <1>3 DEF Stages, ClaimStages, Working, Standing, Tentative, CommandStages
  <1>5. pc' = [pc EXCEPT ![c] = s] /\ pc'[c] = s /\ \A d \in Claims : d # c => pc'[d] = pc[d]
    BY <1>0, <1>3, <1>4, GoToType DEF GoTo
  <1>6. \A d \in Claims : Standing(d)' => Standing(d) \/ ref = d
    BY <1>0, <1>3, <1>4, StoodBefore
  <1>7. Accounted'
    <2>1. CASE s = "winAdd"
      <3>1. ref = c \/ "done" \in labels
        BY <1>0, <1>3, <1>4, <2>1 DEF Kept, Backed
      <3>2. CASE "done" \in labels
        BY <1>2, <3>2 DEF Accounted
      <3>3. CASE ref = c
        BY <1>0, <1>4, <1>5, <2>1, <3>3 DEF Accounted, Taken
      <3>4. QED
        BY <3>1, <3>2, <3>3
    <2>2. CASE s = "loseAdd" /\ "ready" \in labels /\ "done" \notin labels
      <3>1. PICK e \in Claims : ref = e
        BY <1>0, <1>3, <2>2 DEF Kept, Open, TypeOK
      <3>2. pc[e] \in Tentative \cup Contending \cup Working
        BY <3>1 DEF Kept, Staged
      <3>3. e # c
        BY <1>3, <2>2, <3>2 DEF Tentative, Contending, Working, CommandStages
      <3>4. CASE pc[e] \in Contending \cup Working
        BY <1>0, <1>5, <3>1, <3>3, <3>4 DEF Accounted, Taken
      <3>5. CASE pc[e] \in Tentative
        <4>1. PICK d \in evidence : TRUE
          BY <1>3, <2>2 DEF Kept, Staged
        <4>2. e \notin evidence
          BY <3>5 DEF Kept, Staged, Tentative, Early
        <4>3. turn[d] < turn[c]
          BY <1>3, <2>2, <3>1, <4>2, OlderComment DEF Early
        <4>4. Doomed(c, d)'
          BY <1>0, <1>5, <2>2, <3>1, <3>3, <3>5, <4>1, <4>3 DEF Doomed
        <4>5. QED
          BY <1>0, <4>1, <4>4 DEF Accounted
      <3>6. QED
        BY <3>2, <3>4, <3>5
    <2>3. CASE s = "loseAdd" /\ "ready" \in labels /\ "done" \in labels
      BY <1>2, <2>3 DEF Accounted
    <2>4. CASE s = "loseAdd" /\ "ready" \notin labels
      <3>1. labels' = labels /\ ref # c
        BY <1>2, <1>3, <2>4 DEF Kept, Staged, Tentative, Contending, Working, CommandStages
      <3>2. QED
        BY <1>0, <1>3, <1>5, <2>4, <3>1, AccountedKept DEF Kept, Tentative
    <2>5. QED
      BY <2>1, <2>2, <2>3, <2>4
  <1>8. ref = c => s \in Tentative \cup Contending \cup Working
    BY <1>3, <1>4 DEF Kept, Staged, Tentative, Contending, Working, CommandStages
  <1>9. s \in Early => pc[c] \in Early
    BY <1>0, <1>3 DEF Early
  <1>10. QED
    BY <1>0, <1>2, <1>3, <1>5, <1>6, <1>7, <1>8, <1>9, KeptPassing DEF Tentative

\* The loser and the winner add `claimed'.
LEMMA KeptAdd ==
    ASSUME IInv, Kept, Smooth', NEW c \in Claims, AddClaimed(c)
    PROVE  Kept'
  <1>0. /\ UNCHANGED <<now, ref, evidence, turn, rpc, leaseUntil>> /\ TypeOK /\ LabelCall(labels \cup {"claimed"})
        /\ pc[c] \in {"loseAdd", "winAdd"} /\ GoTo(c, IF pc[c] = "loseAdd" THEN "denied" ELSE "held")
    BY DEF IInv, AddClaimed, lease, repair
  <1>1. labels \cup {"claimed"} \subseteq Labels
    BY <1>0 DEF TypeOK, Labels
  <1>2. Smooth /\ faults' = 0 /\ faults = 0 /\ labels' = labels \cup {"claimed"} /\ Discipline
    BY <1>0, <1>1, LabelType, SmoothBefore
  <1>3. PICK s \in {"denied", "held"} : GoTo(c, s) /\ (s = "denied" <=> pc[c] = "loseAdd")
    BY <1>0
  <1>4. s \in Stages /\ (pc[c] = "winAdd" => Standing(c)) /\ (s \in Working <=> s = "held") /\ s \notin Early
    BY <1>0, <1>3 DEF Stages, FinalStages, Working, Standing, Early, CommandStages
  <1>5. pc' = [pc EXCEPT ![c] = s] /\ pc'[c] = s /\ \A d \in Claims : d # c => pc'[d] = pc[d]
    BY <1>0, <1>3, <1>4, GoToType DEF GoTo
  <1>6. \A d \in Claims : Standing(d)' => Standing(d) \/ ref = d
    BY <1>0, <1>3, <1>4, StoodBefore
  <1>7. "ready" \notin labels'
    BY <1>0, <1>2, <1>4 DEF Kept, Staged, IInv, Holders
  <1>8. ref = c => pc[c] = "winAdd" /\ s = "held"
    BY <1>0, <1>3 DEF Kept, Staged, Tentative, Contending, Working, CommandStages
  <1>9. Accounted'
    BY <1>0, <1>2, <1>3, <1>4, <1>5, <1>7, <1>8, AccountedKept DEF Kept, Tentative
  <1>10. QED
    BY <1>0, <1>2, <1>3, <1>4, <1>5, <1>6, <1>7, <1>8, <1>9, KeptPassing DEF Tentative

\* The owner comment is written under the claim's own ref.
LEMMA KeptWrite ==
    ASSUME IInv, Kept, Smooth', NEW c \in Claims, WriteEvidence(c)
    PROVE  Kept'
  <1>0. /\ UNCHANGED <<now, ref, turn, rpc, leaseUntil, labels>> /\ TypeOK /\ (Fault \/ NoFault)
        /\ pc[c] = "writing" /\ GoTo(c, "confirming") /\ (Fault \/ evidence' = evidence \cup {c})
    BY DEF IInv, WriteEvidence, lease, repair
  <1>1. Smooth /\ Discipline /\ evidence' = evidence \cup {c}
    BY <1>0, FaultType, SmoothBefore
  <1>2. ref = c
    BY <1>0, <1>1 DEF IInv, Contenders, Contending
  <1>3. pc'[c] = "confirming" /\ \A d \in Claims : d # c => pc'[d] = pc[d]
    BY <1>0, GoToType DEF Stages, ClaimStages
  <1>4. Staged'
    BY <1>0, <1>1, <1>2, <1>3 DEF Kept, Staged, Early, Contending
  <1>5. Backed'
    BY <1>0, <1>2, <1>3 DEF Kept, Backed, Standing
  <1>6. Overtaken'
    <2>1. \A e \in Claims : pc'[e] \in Early => pc[e] \in Early
      BY <1>3 DEF Early
    <2>2. QED
      BY <1>0, <1>1, <1>2, <2>1 DEF Kept, Overtaken
  <1>7. Open'
    <2>1. \A e \in Claims : pc'[e] \in {"conflict", "reconcile", "loseDrop"} => ref' # NoClaim
      BY <1>0, <1>2, ClaimAssumption
    <2>2. ref' \in evidence'
      BY <1>0, <1>1, <1>2
    <2>3. QED
      BY <2>1, <2>2 DEF Open
  <1>8. RepairRef'
    BY <1>0 DEF Kept, RepairRef
  <1>9. Accounted'
    BY <1>0, <1>2, <1>3 DEF Accounted, Taken, Contending
  <1>10. QED
    BY <1>4, <1>5, <1>6, <1>7, <1>8, <1>9 DEF Kept

\* A rollback hits the claim's own ref, or an Issue that is done.
LEMMA KeptRollback ==
    ASSUME IInv, Kept, Smooth', NEW c \in Claims, Rollback(c)
    PROVE  Kept'
  <1>0. /\ UNCHANGED <<now, turn, rpc, leaseUntil, labels, evidence>> /\ TypeOK /\ (Fault \/ NoFault)
        /\ pc[c] = "rollback" /\ GoTo(c, "rolledBack") /\ (Fault \/ ref' = NoClaim)
    BY DEF IInv, Rollback, DeleteRef, lease, repair
  <1>1. Smooth /\ Discipline /\ ref' = NoClaim
    BY <1>0, FaultType, SmoothBefore
  <1>2. pc'[c] = "rolledBack" /\ \A d \in Claims : d # c => pc'[d] = pc[d]
    BY <1>0, GoToType DEF Stages, ClaimStages
  <1>3. pc[c] \in Tentative /\ pc[c] \in Early /\ c \notin evidence /\ pc[c] \in ClaimStages
    BY <1>0 DEF Tentative, Early, ClaimStages, Kept, Staged
  <1>4. "done" \in labels \/ (ref = c /\ "ready" \notin labels)
    <2>1. "done" \in labels \/ ref = c
      BY <1>3 DEF Kept, Backed
    <2>2. QED
      BY <1>0, <1>3, <2>1 DEF Kept, Open
  <1>5. Staged'
    <2>1. \A d \in Claims : ref' # d
      BY <1>1, ClaimAssumption
    <2>2. QED
      BY <1>0, <1>2, <1>3, <2>1 DEF Kept, Staged
  <1>6. Backed'
    <2>1. \A d \in Claims : (pc'[d] \in Tentative \/ Standing(d)') => d # c /\ (pc[d] \in Tentative \/ Standing(d))
      BY <1>0, <1>2 DEF Standing, Tentative, Working, CommandStages
    <2>2. QED
      BY <1>0, <1>4, <2>1 DEF Kept, Backed
  <1>7. Overtaken'
    <2>1. \A d \in Claims : pc'[d] \in Early => pc[d] \in Early
      BY <1>2, <1>3
    <2>2. QED
      BY <1>0, <1>3, <1>4, <2>1 DEF Kept, Overtaken
  <1>8. Open'
    BY <1>0, <1>4 DEF Open
  <1>9. RepairRef'
    BY <1>0, <1>1, <1>3, NotRepairing DEF RepairRef, Repairing, Smooth
  <1>10. Accounted'
    <2>1. SUFFICES ASSUME "done" \notin labels PROVE \E x \in Claims, d \in evidence' : Doomed(x, d)'
      BY <1>0 DEF Accounted
    <2>2. ref = c /\ "ready" \notin labels
      BY <1>4, <2>1
    <2>3. ~Taken
      BY <1>0, <2>2 DEF Taken, Contending, Working, CommandStages
    <2>4. ~Released
      BY <1>1, <1>3, NotRepairing DEF Released, Repairing, Smooth
    <2>5. PICK x \in Claims, d \in evidence : Doomed(x, d)
      BY <2>1, <2>2, <2>3, <2>4 DEF Kept, Accounted
    <2>6. x # c /\ pc'[x] = pc[x]
      BY <1>0, <1>2, <2>5 DEF Doomed
    <2>7. turn[d] < turn[c]
      BY <1>3, <2>1, <2>2, OlderComment
    <2>8. Doomed(x, d)'
      BY <1>0, <1>1, <1>2, <2>5, <2>6, <2>7 DEF Doomed
    <2>9. QED
      BY <1>0, <2>8
  <1>11. QED
    BY <1>5, <1>6, <1>7, <1>8, <1>9, <1>10 DEF Kept

\* A discovery takes a snapshot of a ready Issue.
LEMMA KeptDiscover ==
    ASSUME IInv, Kept, NEW c \in Claims, Discover(c)
    PROVE  Kept'
  <1>0. /\ UNCHANGED <<now, ref, turn, rpc, leaseUntil, labels, evidence>> /\ TypeOK
        /\ pc[c] = "idle" /\ GoTo(c, "discovered") /\ fresh' = fresh \cup {c} /\ "ready" \in labels
    BY DEF IInv, Discover, lease, repair, github
  <1>1. pc'[c] = "discovered" /\ \A d \in Claims : d # c => pc'[d] = pc[d]
    BY <1>0, GoToType DEF Stages, ClaimStages
  <1>2. pc'[c] \notin Early \cup Tentative \cup Working /\ ref # c
    BY <1>0, <1>1 DEF Early, Tentative, Contending, Working, CommandStages, Kept, Staged
  <1>3. Staged'
    BY <1>0, <1>1, <1>2 DEF Kept, Staged
  <1>4. Backed'
    BY <1>0, <1>1, <1>2 DEF Kept, Backed, Standing
  <1>5. Overtaken'
    BY <1>0, <1>1, <1>2 DEF Kept, Overtaken
  <1>6. Open'
    BY <1>0, <1>1 DEF Kept, Open
  <1>7. RepairRef' /\ Accounted'
    BY <1>0 DEF Kept, RepairRef, Accounted
  <1>8. QED
    BY <1>3, <1>4, <1>5, <1>6, <1>7 DEF Kept

\* claimed_at is newer than every comment.
LEMMA KeptStart ==
    ASSUME IInv, Kept, Smooth', NEW c \in Claims, StartClaim(c)
    PROVE  Kept'
  <1>0. /\ UNCHANGED <<now, ref, rpc, leaseUntil, labels, evidence, fresh>> /\ TypeOK /\ Turns /\ (Fault \/ NoFault)
        /\ pc[c] = "discovered" /\ (Fault \/ GoTo(c, "creating"))
        /\ turn' = [turn EXCEPT ![c] = Cardinality(Started) + 1]
    BY DEF IInv, StartClaim, Started, repair, github
  <1>1. Smooth /\ GoTo(c, "creating")
    BY <1>0, FaultType, SmoothBefore
  <1>2. pc'[c] = "creating" /\ \A d \in Claims : d # c => pc'[d] = pc[d]
    BY <1>0, <1>1, GoToType DEF Stages, ClaimStages
  <1>3. turn[c] = 0 /\ c \notin evidence /\ evidence \subseteq Claims
    BY <1>0 DEF Turns, IInv, Grants, TypeOK
  <1>4. /\ Cardinality(Started) \in Nat /\ turn'[c] = Cardinality(Started) + 1
        /\ \A d \in Claims : d # c => turn'[d] = turn[d]
    BY <1>0, <1>3, NextTurn DEF TypeOK
  <1>5. \A d \in evidence : d # c /\ turn'[d] = turn[d] /\ turn[d] \in Nat /\ turn[d] <= Cardinality(Started)
    BY <1>0, <1>3, <1>4, Numbers DEF Turns
  <1>6. \A d \in evidence : ~(turn'[d] > turn'[c])
    BY <1>4, <1>5
  <1>7. ref # c /\ pc[c] \notin Tentative \cup Contending \cup Working
    BY <1>0 DEF Kept, Staged, Tentative, Contending, Working, CommandStages
  <1>8. Staged'
    BY <1>0, <1>2, <1>3, <1>7 DEF Kept, Staged
  <1>9. Backed'
    <2>1. pc'[c] \notin Tentative \cup Working
      BY <1>2 DEF Tentative, Working, CommandStages
    <2>2. QED
      BY <1>0, <1>2, <2>1 DEF Kept, Backed, Standing
  <1>10. Overtaken'
    BY <1>0, <1>2, <1>4, <1>5, <1>6 DEF Kept, Overtaken
  <1>11. Open'
    BY <1>0, <1>2 DEF Kept, Open
  <1>12. RepairRef'
    BY <1>0 DEF Kept, RepairRef
  <1>13. Accounted'
    <2>1. (Taken => Taken') /\ (Released => Released')
      BY <1>0, <1>2, <1>7 DEF Taken, Released
    <2>2. ASSUME NEW x \in Claims, NEW d \in evidence, Doomed(x, d) PROVE Doomed(x, d)'
      <3>1. x # c /\ pc'[x] = pc[x] /\ turn'[x] = turn[x] /\ turn'[d] = turn[d]
        BY <1>0, <1>2, <1>4, <1>5, <2>2 DEF Doomed
      <3>2. (\E e \in Claims : ref = e /\ pc[e] \in Tentative) => \E e \in Claims : ref' = e /\ pc'[e] \in Tentative
        BY <1>0, <1>2, <1>7
      <3>3. ASSUME NEW e \in Claims, e # x, pc[e] \in {"rolledBack", "denied"}, turn[d] < turn[e]
            PROVE  pc'[e] \in {"rolledBack", "denied"} /\ turn'[d] < turn'[e]
        BY <1>0, <1>2, <1>4, <1>5, <3>3
      <3>4. QED
        BY <1>0, <2>2, <3>1, <3>2, <3>3 DEF Doomed
    <2>3. QED
      BY <1>0, <2>1, <2>2 DEF Kept, Accounted
  <1>14. QED
    BY <1>8, <1>9, <1>10, <1>11, <1>12, <1>13 DEF Kept

\* createRef: the ref is created where there is none, or met.
LEMMA KeptCreate ==
    ASSUME IInv, Kept, Smooth', NEW c \in Claims, CreateRef(c)
    PROVE  Kept'
  <1>0. /\ UNCHANGED <<now, rpc, leaseUntil, labels, evidence, fresh, turn>> /\ TypeOK /\ (Fault \/ NoFault)
        /\ pc[c] = "creating"
        /\ \/ ref = NoClaim /\ ref' = c /\ GoTo(c, "tentative")
           \/ ref # NoClaim /\ ref' = ref /\ GoTo(c, "conflict")
           \/ Fault
    BY DEF IInv, CreateRef, lease, repair
  <1>1. Smooth /\ ~Fault
    BY <1>0, FaultType, SmoothBefore
  <1>2. c \notin evidence /\ pc[c] \in Early /\ pc[c] \in ClaimStages /\ ref # c
    BY <1>0 DEF Early, ClaimStages, Kept, Staged, Tentative, Contending, Working, CommandStages
  <1>3. CASE ref # NoClaim
    <2>1. GoTo(c, "conflict") /\ ref' = ref
      BY <1>0, <1>1, <1>3
    <2>2. "conflict" \in Stages /\ "conflict" \notin Working \cup Tentative
      BY DEF Stages, ClaimStages, Working, CommandStages, Tentative
    <2>3. \A d \in Claims : Standing(d)' => Standing(d) \/ ref = d
      BY <1>0, <2>1, <2>2, StoodBefore
    <2>4. QED
      BY <1>0, <1>2, <1>3, <2>1, <2>2, <2>3, KeptMove DEF Tentative
  <1>4. CASE ref = NoClaim
    <2>1. GoTo(c, "tentative") /\ ref' = c /\ ref \notin evidence /\ \A d \in Claims : ref # d
      BY <1>0, <1>1, <1>4, ClaimAssumption DEF TypeOK
    <2>2. pc'[c] = "tentative" /\ \A d \in Claims : d # c => pc'[d] = pc[d]
      BY <1>0, <2>1, GoToType DEF Stages, ClaimStages
    <2>3. Staged'
      BY <1>0, <1>2, <2>1, <2>2 DEF Kept, Staged, Tentative
    <2>4. Backed'
      BY <1>0, <2>1, <2>2 DEF Kept, Backed, Standing
    <2>5. Overtaken'
      <3>1. \A d \in Claims : pc'[d] \in Early => pc[d] \in Early
        BY <1>2, <2>2
      <3>2. QED
        BY <1>0, <2>1, <3>1 DEF Kept, Overtaken
    <2>6. Open'
      <3>1. ref' # NoClaim
        BY <2>1, ClaimAssumption
      <3>2. ASSUME "ready" \in labels, "done" \notin labels, NEW d \in Claims
            PROVE  (pc'[d] \in {"discovered", "creating", "tentative"} => d \in fresh) /\ pc'[d] # "rollback"
        BY <1>0, <2>1, <2>2, <3>2 DEF Kept, Open
      <3>3. QED
        BY <1>0, <3>1, <3>2 DEF Open
    <2>7. RepairRef'
      BY <1>0, <1>1, <1>2, NotRepairing DEF RepairRef, Repairing, Smooth
    <2>8. Accounted'
      <3>1. ~Taken /\ ~Released
        BY <1>1, <1>2, <2>1, NotRepairing DEF Taken, Released, Repairing, Smooth
      <3>2. ASSUME NEW x \in Claims, NEW d \in evidence, Doomed(x, d) PROVE Doomed(x, d)'
        <4>1. x # c /\ pc'[x] = pc[x]
          BY <1>0, <2>2, <3>2 DEF Doomed
        <4>2. \E e \in Claims : ref' = e /\ pc'[e] \in Tentative
          BY <2>1, <2>2 DEF Tentative
        <4>3. QED
          BY <1>0, <3>2, <4>1, <4>2 DEF Doomed
      <3>3. QED
        BY <1>0, <3>1, <3>2 DEF Kept, Accounted
    <2>9. QED
      BY <2>3, <2>4, <2>5, <2>6, <2>7, <2>8 DEF Kept
  <1>5. QED
    BY <1>3, <1>4

\* The agent that stands on the Issue moves on to s: whatever it does to the labels and
\* to the snapshots, the Issue is its own through the ref, or done.
LEMMA KeptCommand ==
    ASSUME IInv, Kept, Smooth, NEW c \in Claims, NEW s \in Working \cup {"completed"}, GoTo(c, s),
           pc[c] # "winDrop", Standing(c), UNCHANGED <<now, ref, evidence, turn, rpc>>,
           \A d \in Claims : d # c => leaseUntil'[d] = leaseUntil[d],
           "ready" \notin labels => "ready" \notin labels', "done" \in labels => "done" \in labels',
           s = "endProve" => "done" \in labels', s = "endDelete" => "done" \in labels', s = "completed" => ref = NoClaim
    PROVE  Kept'
  <1>1. TypeOK /\ s \in Stages /\ Discipline /\ faults = 0
    BY StageFacts DEF IInv, Stages, FinalStages, Smooth, Discipline
  <1>2. "ready" \notin labels'
    BY <1>1 DEF IInv, Holders
  <1>3. s \notin Early \cup Tentative /\ s \notin {"confirming", "loseDrop", "loseAdd", "conflict", "reconcile", "discovered"}
    BY DEF Working, CommandStages, Early, Tentative
  <1>4. ref # NoClaim => s \in Working
    OBVIOUS
  <1>5. pc' = [pc EXCEPT ![c] = s] /\ pc'[c] = s
    BY <1>1, GoToType DEF GoTo
  <1>6. \A d \in Claims : Standing(d)' => Standing(d) \/ ref = d
    BY <1>1, StoodBefore
  <1>7. ref = c => s \in Working
    BY ClaimAssumption
  <1>8. Accounted'
    <2>1. "done" \in labels \/ ref = c
      BY DEF Kept, Backed
    <2>2. CASE "done" \in labels
      BY <2>2 DEF Accounted
    <2>3. CASE ref = c
      BY <1>5, <1>7, <2>3 DEF Accounted, Taken
    <2>4. QED
      BY <2>1, <2>2, <2>3
  <1>9. s \notin Early /\ s \notin {"creating", "tentative", "rollback"}
    BY <1>3 DEF Early
  <1>10. QED
    BY <1>2, <1>3, <1>5, <1>6, <1>7, <1>8, <1>9, KeptPassing

\* Commands begin under a lease.
LEMMA KeptBegin ==
    ASSUME IInv, Kept, Smooth', NEW c \in Claims, BeginHeartbeat(c) \/ BeginReview(c) \/ BeginComplete(c)
    PROVE  Kept'
  <1>0. PICK s \in {"beatOwner", "revOwner", "endMerged"} :
           /\ GoTo(c, s) /\ pc[c] = "held" /\ (TimelyCommands => now < leaseUntil[c])
           /\ UNCHANGED <<now, ref, evidence, turn, rpc, labels, leaseUntil, faults>>
    BY DEF BeginHeartbeat, BeginReview, BeginComplete, Begin, github, lease, repair
  <1>1. Smooth
    BY <1>0 DEF Smooth
  <1>2. Standing(c) /\ s \in Working
    BY <1>0, <1>1 DEF Standing, Smooth, Working, CommandStages
  <1>3. QED
    BY <1>0, <1>1, <1>2, KeptCommand

\* The steps of a command that read, and those that write a comment.
LEMMA KeptNotes ==
    ASSUME IInv, Kept, Smooth', NEW c \in Claims,
           \/ HeartbeatOwner(c) \/ HeartbeatWrite(c) \/ HeartbeatCheck(c)
           \/ ReviewOwner(c) \/ ReviewNote(c) \/ CompleteMerged(c) \/ CompleteProve(c)
    PROVE  Kept'
  <1>0. TypeOK
    BY DEF IInv
  <1>1. /\ UNCHANGED <<now, ref, evidence, turn, rpc, labels>> /\ (Fault \/ NoFault)
        /\ \A d \in Claims : d # c => leaseUntil'[d] = leaseUntil[d]
    <2>1. CASE HeartbeatOwner(c) \/ HeartbeatCheck(c)
      BY <1>0, <2>1 DEF HeartbeatOwner, HeartbeatCheck, github, repair, NoFault, TypeOK
    <2>2. CASE HeartbeatWrite(c) \/ ReviewNote(c)
      BY <2>2 DEF HeartbeatWrite, ReviewNote, lease, repair, NoFault
    <2>3. CASE ReviewOwner(c) \/ CompleteMerged(c) \/ CompleteProve(c)
      BY <2>3 DEF ReviewOwner, CompleteMerged, CompleteProve, github, lease, repair, NoFault
    <2>4. QED
      BY <2>1, <2>2, <2>3
  <1>2. Smooth
    BY <1>0, <1>1, FaultType, SmoothBefore
  <1>3. pc[c] \in CommandStages
    BY DEF HeartbeatOwner, HeartbeatWrite, HeartbeatCheck, ReviewOwner, ReviewNote, CompleteMerged, CompleteProve, CommandStages
  <1>4. Standing(c) /\ pc[c] # "winDrop"
    BY <1>3, StageFacts DEF Standing, CommandStages
  <1>5. PICK s \in {"held", "beatWrite", "beatCheck", "revReady", "endClaimed", "completed"} :
           GoTo(c, s) /\ (s = "completed" => ref = NoClaim)
    <2>1. CASE HeartbeatOwner(c) \/ HeartbeatCheck(c) \/ HeartbeatWrite(c) \/ ReviewNote(c)
      BY <2>1 DEF HeartbeatOwner, HeartbeatCheck, HeartbeatWrite, ReviewNote
    <2>2. CASE ReviewOwner(c)
      BY <2>2 DEF ReviewOwner
    <2>3. CASE CompleteMerged(c)
      BY <2>3 DEF CompleteMerged
    <2>4. CASE CompleteProve(c)
      BY <2>4 DEF CompleteProve
    <2>5. QED
      BY <2>1, <2>2, <2>3, <2>4
  <1>6. s \in Working \cup {"completed"} /\ s \notin {"endProve", "endDelete"}
    BY <1>5 DEF Working, CommandStages
  <1>7. QED
    BY <1>1, <1>2, <1>4, <1>5, <1>6, KeptCommand

\* The label calls of commands.
LEMMA KeptLabels ==
    ASSUME IInv, Kept, Smooth', NEW c \in Claims, ReviewLabels(c) \/ CompleteLabels(c)
    PROVE  Kept'
  <1>1. PICK L \in {labels \ {"ready"}, labels \ {"claimed"}, labels \cup {"review"}, labels \ {"review"}, labels \cup {"done"}},
             s \in {"revClaimed", "revAdd", "revNote", "endReview", "endAdd", "endDelete"} :
           Relabel(c, L, s) /\ pc[c] \in CommandStages /\ (s = "endDelete" => "done" \in L)
    BY DEF ReviewLabels, CompleteLabels, CommandStages
  <1>2. /\ LabelCall(L) /\ GoTo(c, s) /\ UNCHANGED <<now, ref, evidence, turn, rpc, leaseUntil>>
    BY <1>1 DEF Relabel, lease, repair
  <1>3. TypeOK /\ L \subseteq Labels
    BY <1>1 DEF IInv, TypeOK, Labels
  <1>4. Smooth /\ labels' = L
    BY <1>2, <1>3, LabelType, SmoothBefore
  <1>5. Standing(c) /\ pc[c] # "winDrop" /\ s \in Working /\ s # "endProve"
    BY <1>1, StageFacts DEF Standing, CommandStages
  <1>6. ("ready" \notin labels => "ready" \notin labels') /\ ("done" \in labels => "done" \in labels')
    BY <1>1, <1>4
  <1>7. s # "completed"
    BY <1>1
  <1>8. QED
    BY <1>1, <1>2, <1>4, <1>5, <1>6, <1>7, KeptCommand

\* A completion deletes the ref of an Issue that is done.
LEMMA KeptDelete ==
    ASSUME IInv, Kept, Smooth', NEW c \in Claims, CompleteDelete(c)
    PROVE  Kept'
  <1>0. /\ UNCHANGED <<now, turn, rpc, leaseUntil, labels, evidence>> /\ TypeOK /\ (Fault \/ NoFault)
        /\ pc[c] = "endDelete" /\ GoTo(c, "endProve") /\ (Fault \/ ref' = NoClaim)
    BY DEF IInv, CompleteDelete, DeleteRef, lease, repair
  <1>1. Smooth /\ ref' = NoClaim
    BY <1>0, FaultType, SmoothBefore
  <1>2. pc'[c] = "endProve" /\ \A d \in Claims : d # c => pc'[d] = pc[d]
    BY <1>0, GoToType DEF Stages, CommandStages
  <1>3. "done" \in labels' /\ \A d \in Claims : ref' # d
    BY <1>0, <1>1, ClaimAssumption DEF Kept, Staged
  <1>4. Staged'
    BY <1>0, <1>2, <1>3 DEF Kept, Staged, Early
  <1>5. Backed' /\ Overtaken' /\ Open' /\ Accounted'
    BY <1>3 DEF Backed, Overtaken, Open, Accounted
  <1>6. RepairRef'
    BY <1>0, <1>1, NotRepairing DEF RepairRef, Repairing, Smooth, CommandStages
  <1>7. QED
    BY <1>4, <1>5, <1>6 DEF Kept

\* Merged pull requests, the clock and steps that change nothing.
LEMMA KeptElsewhere ==
    ASSUME IInv, Kept, Tick \/ (\E a \in Agents : Merge(a)) \/ UNCHANGED vars
    PROVE  Kept'
  <1>1. UNCHANGED <<ref, evidence, labels, fresh, pc, turn, leaseUntil, rpc>> /\ (now' = now \/ now' = now + 1)
    BY DEF Tick, Merge, vars, github, lease, command, repair
  <1>2. \A c \in Claims : Standing(c)' => Standing(c)
    BY <1>1, Numbers DEF Standing, IInv
  <1>3. Staged' /\ Overtaken' /\ Open' /\ RepairRef'
    BY <1>1 DEF Kept, Staged, Overtaken, Open, RepairRef
  <1>4. Backed'
    BY <1>1, <1>2 DEF Kept, Backed
  <1>5. Accounted'
    BY <1>1 DEF Kept, Accounted, Taken, Released, Doomed
  <1>6. QED
    BY <1>3, <1>4, <1>5 DEF Kept

\* A repair moves on while nothing is in flight; it deletes the ref of a claim that
\* nobody stands on.
LEMMA KeptRepair ==
    ASSUME IInv, Kept, Smooth, NEW r \in Repairers, NEW s \in RepairStages, rpc[r] # "idle", RGoTo(r, s),
           UNCHANGED <<now, evidence, pc, turn, leaseUntil>>, "done" \in labels => "done" \in labels',
           ref' = ref \/ (ref' = NoClaim /\ rpc[r] = "expiring"),
           s # "idle" => (s \in {"proving", "unclaim", "toReady"} <=> ref' = NoClaim), Accounted'
    PROVE  Kept'
  <1>1. RepairOK(r) /\ Discipline /\ TypeOK
    BY DEF IInv, Repairs, Smooth, Discipline
  <1>2. \A c \in Claims : pc[c] \notin ClaimStages \cup CommandStages
    BY <1>1 DEF RepairOK, InFlight
  <1>3. /\ \A c \in Claims : pc'[c] \notin Early \cup Tentative
        /\ \A c \in Claims : pc'[c] \notin {"confirming", "endDelete", "endProve", "loseDrop", "loseAdd", "conflict", "reconcile", "discovered", "creating", "tentative", "rollback"}
    BY <1>2 DEF Early, Tentative, ClaimStages, CommandStages
  <1>4. Staged'
    <2>1. \A c \in Claims : ref' = c => pc'[c] \in Tentative \cup Contending \cup Working
      BY ClaimAssumption DEF Kept, Staged
    <2>2. QED
      BY <1>3, <2>1 DEF Staged
  <1>5. Backed'
    <2>1. \A c \in Claims : Standing(c)' <=> Standing(c)
      BY DEF Standing
    <2>2. rpc[r] = "expiring" => \A c \in Claims : ~Standing(c)
      BY <1>1 DEF RepairOK
    <2>3. \A c \in Claims : Standing(c)' /\ ref' # c => "done" \in labels'
      BY <2>1, <2>2 DEF Kept, Backed
    <2>4. QED
      BY <1>3, <2>3 DEF Backed
  <1>6. Overtaken' /\ Open'
    BY <1>3 DEF Overtaken, Open
  <1>7. RepairRef'
    <2>1. rpc'[r] = s /\ \A q \in Repairers : q # r => rpc'[q] = "idle"
      BY <1>1, RGoToType DEF RepairOK
    <2>2. QED
      BY <2>1 DEF RepairRef
  <1>8. QED
    BY <1>4, <1>5, <1>6, <1>7 DEF Kept

\* The steps of a repair.
LEMMA KeptRepairing ==
    ASSUME IInv, Kept, Smooth', NEW r \in Repairers, RepairStep(r)
    PROVE  Kept'
  <1>0. TypeOK
    BY DEF IInv
  <1>1. ASSUME QuietRepair, rpc[r] # "idle", rpc[r] \notin {"proving", "unclaim", "toReady"}
        PROVE  ~Released /\ ref # NoClaim
    BY <1>1 DEF IInv, Repairs, RepairOK, Released, Kept, RepairRef
  <1>2. CASE RepairRead(r)
    <2>1. PICK s \in {"idle", "expiring", "verifying"} :
             /\ rpc[r] = "reading" /\ RGoTo(r, s)
             /\ UNCHANGED <<now, ref, evidence, labels, pc, turn, leaseUntil, faults>>
      BY <1>2 DEF RepairRead, github, lease
    <2>2. Smooth
      BY <2>1 DEF Smooth
    <2>3. ~Released /\ ref # NoClaim /\ s \in RepairStages
      BY <1>1, <2>1, <2>2 DEF Smooth, RepairStages
    <2>4. Accounted'
      BY <2>1, <2>3 DEF Kept, Accounted, Taken, Doomed
    <2>5. QED
      BY <2>1, <2>2, <2>3, <2>4, KeptRepair
  <1>3. CASE RepairDelete(r)
    <2>1. /\ rpc[r] = "expiring" /\ RGoTo(r, "proving") /\ (Fault \/ NoFault) /\ (Fault \/ ref' = NoClaim)
          /\ UNCHANGED <<now, evidence, labels, pc, turn, leaseUntil>>
      BY <1>3 DEF RepairDelete, DeleteRef, lease
    <2>2. Smooth /\ ref' = NoClaim
      BY <1>0, <2>1, FaultType, SmoothBefore
    <2>3. "proving" \in RepairStages /\ rpc'[r] = "proving"
      BY <1>0, <2>1, RGoToType DEF RepairStages
    <2>4. Accounted'
      BY <2>3 DEF Accounted, Released
    <2>5. QED
      BY <2>1, <2>2, <2>3, <2>4, KeptRepair
  <1>4. CASE RepairProve(r)
    <2>1. PICK s \in {"unclaim", "reclaim", "idle"} :
             /\ RGoTo(r, s) /\ UNCHANGED <<now, ref, evidence, labels, pc, turn, leaseUntil, faults>>
             /\ \/ rpc[r] = "proving" /\ s = (IF ref = NoClaim THEN "unclaim" ELSE "idle")
                \/ rpc[r] = "verifying" /\ s = (IF ref # NoClaim THEN "reclaim" ELSE "idle")
      BY <1>4 DEF RepairProve, github, lease
    <2>2. Smooth /\ s \in RepairStages
      BY <2>1 DEF Smooth, RepairStages
    <2>3. rpc'[r] = s
      BY <1>0, <2>1, <2>2, RGoToType
    <2>4. rpc[r] = "proving" => ref = NoClaim
      BY <2>1 DEF Kept, RepairRef
    <2>5. Accounted'
      <3>1. CASE rpc[r] = "proving"
        BY <2>1, <2>3, <2>4, <3>1 DEF Accounted, Released
      <3>2. CASE rpc[r] = "verifying"
        <4>1. ~Released
          BY <1>1, <2>2, <3>2 DEF Smooth
        <4>2. QED
          BY <2>1, <4>1 DEF Kept, Accounted, Taken, Doomed
      <3>3. QED
        BY <2>1, <3>1, <3>2
    <2>6. ref = NoClaim => s # "reclaim"
      BY <2>1
    <2>7. QED
      BY <2>1, <2>2, <2>4, <2>5, <2>6, KeptRepair
  <1>5. CASE RepairLabels(r)
    <2>1. PICK L \in {labels \ {"ready"}, labels \ {"claimed"}, labels \cup {"ready"}, labels \cup {"claimed"}},
               s \in {"toReady", "idle", "toClaimed"} :
             /\ RepairRelabel(r, L, s) /\ rpc[r] \in {"unclaim", "toReady", "reclaim", "toClaimed"}
             /\ rpc[r] = "unclaim" <=> s = "toReady"
             /\ rpc[r] = "reclaim" <=> s = "toClaimed"
             /\ rpc[r] = "toReady" => "ready" \in L
      BY <1>5 DEF RepairLabels
    <2>2. /\ LabelCall(L) /\ RGoTo(r, s) /\ UNCHANGED <<now, ref, evidence, pc, turn, leaseUntil>>
      BY <2>1 DEF RepairRelabel, lease
    <2>3. L \subseteq Labels
      BY <1>0, <2>1 DEF TypeOK, Labels
    <2>4. Smooth /\ labels' = L /\ s \in RepairStages
      BY <1>0, <2>1, <2>2, <2>3, LabelType, SmoothBefore DEF RepairStages
    <2>5. "done" \in labels => "done" \in labels'
      BY <2>1, <2>4
    <2>6. rpc'[r] = s
      BY <1>0, <2>2, <2>4, RGoToType
    <2>7. /\ rpc[r] \in {"unclaim", "toReady"} => ref = NoClaim
          /\ rpc[r] \in {"reclaim", "toClaimed"} => ref # NoClaim
      BY <2>1 DEF Kept, RepairRef
    <2>8. Accounted'
      <3>1. CASE rpc[r] = "unclaim"
        BY <2>1, <2>6, <3>1 DEF Accounted, Released
      <3>2. CASE rpc[r] = "toReady"
        BY <2>1, <2>4, <3>2 DEF Accounted
      <3>3. CASE rpc[r] \in {"reclaim", "toClaimed"}
        <4>1. PICK e \in Claims : ref = e
          BY <1>0, <2>7, <3>3 DEF TypeOK
        <4>2. pc[e] \notin ClaimStages
          BY <2>4, <3>3 DEF IInv, Repairs, RepairOK, InFlight, Smooth
        <4>3. pc[e] \in Working
          BY <4>1, <4>2, StageFacts DEF Kept, Staged
        <4>4. QED
          BY <2>2, <4>1, <4>3 DEF Accounted, Taken
      <3>4. QED
        BY <2>1, <3>1, <3>2, <3>3
    <2>9. QED
      BY <2>1, <2>2, <2>4, <2>5, <2>7, <2>8, KeptRepair
  <1>6. QED
    BY <1>2, <1>3, <1>4, <1>5 DEF RepairStep

\* A repair starts from a ref.
LEMMA KeptRepairStart ==
    ASSUME IInv, Kept, Smooth', NEW r \in Repairers, RepairStart(r)
    PROVE  Kept'
  <1>1. /\ UNCHANGED <<now, ref, evidence, labels, fresh, pc, turn, leaseUntil, faults>> /\ RGoTo(r, "reading")
        /\ ref # NoClaim /\ (QuietRepair => ~Repairing)
    BY DEF RepairStart, github, lease
  <1>2. QuietRepair /\ TypeOK /\ "reading" \in RepairStages
    BY DEF Smooth, IInv, RepairStages
  <1>3. rpc'[r] = "reading" /\ \A q \in Repairers : q # r => rpc'[q] = "idle"
    BY <1>1, <1>2, RGoToType DEF Repairing
  <1>4. Staged' /\ Backed' /\ Overtaken' /\ Open'
    BY <1>1 DEF Kept, Staged, Backed, Overtaken, Open, Standing
  <1>5. RepairRef'
    BY <1>1, <1>3 DEF RepairRef
  <1>6. ~Released
    BY <1>1, <1>2 DEF Released, Repairing
  <1>7. Accounted'
    BY <1>1, <1>6 DEF Kept, Accounted, Taken, Doomed
  <1>8. QED
    BY <1>4, <1>5, <1>7 DEF Kept

\* A step meets a fault, or none.
LEMMA FaultOrNot ==
    ASSUME [Next]_vars
    PROVE  Fault \/ NoFault
  <1>1. ASSUME NEW c \in Claims, Discover(c) \/ ClaimStep(c) \/ Crash(c) PROVE Fault \/ NoFault
    BY <1>1 DEF Discover, ClaimStep, Crash, StartClaim, CreateRef, ConfirmConflict, Reconcile, DropReady, AddClaimed, ReadIssue,
                WriteEvidence, ConfirmEvidence, FinalCheck, Rollback, ProveRollback, RefRead, LabelCall, DeleteRef, NoFault
  <1>2. ASSUME NEW c \in Claims, BeginHeartbeat(c) \/ BeginReview(c) \/ BeginComplete(c) \/ CommandStep(c) \/ CommandFails(c)
        PROVE  Fault \/ NoFault
    BY <1>2 DEF BeginHeartbeat, BeginReview, BeginComplete, CommandStep, CommandFails, HeartbeatOwner, HeartbeatWrite,
                HeartbeatCheck, ReviewOwner, ReviewLabels, ReviewNote, CompleteMerged, CompleteLabels, CompleteDelete,
                CompleteProve, Relabel, LabelCall, DeleteRef, NoFault
  <1>3. ASSUME NEW r \in Repairers, RepairStart(r) \/ RepairStep(r) \/ RepairAbort(r) PROVE Fault \/ NoFault
    BY <1>3 DEF RepairStart, RepairStep, RepairAbort, RepairRead, RepairDelete, RepairProve, RepairLabels, RepairRelabel,
                LabelCall, DeleteRef, NoFault
  <1>4. CASE (\E a \in Agents : Merge(a)) \/ Tick \/ UNCHANGED vars
    BY <1>4 DEF Merge, Tick, vars, NoFault
  <1>5. QED
    BY <1>1, <1>2, <1>3, <1>4 DEF Next

\* Every step keeps the invariant.
LEMMA StepKept ==
    ASSUME IInv, KInv, [Next]_vars
    PROVE  KInv'
  <1>1. SUFFICES ASSUME Smooth' PROVE Kept'
    BY DEF KInv
  <1>2. TypeOK /\ faults <= faults'
    BY FaultOrNot, FaultType DEF IInv
  <1>3. Kept /\ ~Fault
    BY <1>1, <1>2, SmoothBefore DEF KInv
  <1>4. ASSUME NEW c \in Claims, Discover(c) \/ ClaimStep(c) \/ Crash(c) PROVE Kept'
    <2>1. ~Crash(c)
      BY <1>3 DEF Crash
    <2>2. QED
      BY <1>1, <1>3, <1>4, <2>1, KeptDiscover, KeptStart, KeptCreate, KeptReads, KeptDrop, KeptAdd, KeptWrite, KeptRollback DEF ClaimStep
  <1>5. ASSUME NEW c \in Claims, BeginHeartbeat(c) \/ BeginReview(c) \/ BeginComplete(c) \/ CommandStep(c) \/ CommandFails(c)
        PROVE  Kept'
    <2>1. ~CommandFails(c)
      BY <1>3 DEF CommandFails
    <2>2. QED
      BY <1>1, <1>3, <1>5, <2>1, KeptBegin, KeptNotes, KeptLabels, KeptDelete DEF CommandStep
  <1>6. ASSUME NEW r \in Repairers, RepairStart(r) \/ RepairStep(r) \/ RepairAbort(r) PROVE Kept'
    <2>1. ~RepairAbort(r)
      BY <1>3 DEF RepairAbort
    <2>2. QED
      BY <1>1, <1>3, <1>6, <2>1, KeptRepairStart, KeptRepairing
  <1>7. CASE Tick \/ (\E a \in Agents : Merge(a)) \/ UNCHANGED vars
    BY <1>3, <1>7, KeptElsewhere
  <1>8. QED
    BY <1>4, <1>5, <1>6, <1>7 DEF Next

\* A new Issue is ready, and nothing has happened to it.
LEMMA InitKept == Init => KInv
  <1>1. SUFFICES ASSUME Init PROVE Kept
    BY DEF KInv
  <1>2. /\ ref = NoClaim /\ evidence = {} /\ labels = {"ready"}
        /\ \A c \in Claims : pc[c] = "idle" /\ ref # c
        /\ \A r \in Repairers : rpc[r] = "idle"
    BY <1>1, ClaimAssumption DEF Init
  <1>3. Staged
    BY <1>2 DEF Staged
  <1>4. Backed
    BY <1>2 DEF Backed, Standing, Working, CommandStages, Tentative
  <1>5. Overtaken /\ Open /\ RepairRef /\ Accounted
    BY <1>2 DEF Overtaken, Open, RepairRef, Accounted
  <1>6. QED
    BY <1>3, <1>4, <1>5 DEF Kept

\* For any number of claims, agents and repairs, where operators repair in quiet moments
\* and agents issue commands under their lease: when everything is at rest and no call has
\* failed, the Issue can be claimed, is owned through its ref or is done, unless two
\* claims were denied over the comment of an older one.
THEOREM IssueKept == QuietRepair /\ TimelyCommands => (Spec => []ClaimableOrOwned)
  <1>1. ASSUME QuietRepair, TimelyCommands, IInv, KInv PROVE ClaimableOrOwned
    <2>1. SUFFICES ASSUME faults = 0, ~InFlight, ~Repairing, ref = NoClaim, "ready" \notin labels, "done" \notin labels
                   PROVE  DeniedOverOldComment
      BY DEF ClaimableOrOwned, NeverLost
    <2>2. Kept
      BY <1>1, <2>1 DEF KInv, Smooth
    <2>3. ~Taken
      BY <2>1, ClaimAssumption DEF Taken
    <2>4. ~Released
      BY <2>1 DEF Released, Repairing
    <2>5. PICK x \in Claims, d \in evidence : Doomed(x, d)
      BY <2>1, <2>2, <2>3, <2>4 DEF Kept, Accounted
    <2>6. \A c \in Claims : pc[c] \notin {"loseAdd", "rolledBack"}
      BY <2>1 DEF InFlight, ClaimStages
    <2>7. PICK c \in Claims : c # x /\ pc[c] = "denied" /\ turn[d] < turn[c]
      BY <2>1, <2>5, <2>6, ClaimAssumption DEF Doomed
    <2>8. pc[x] = "denied" /\ "claimed" \in labels /\ turn[d] < turn[x]
      BY <2>5, <2>6 DEF Doomed
    <2>9. QED
      BY <2>7, <2>8 DEF DeniedOverOldComment
  <1>2. ASSUME QuietRepair, TimelyCommands PROVE Spec => []ClaimableOrOwned
    <2>1. IInv /\ KInv => ClaimableOrOwned
      BY <1>1, <1>2
    <2>2. IInv /\ KInv /\ [Next]_vars => KInv'
      BY StepKept
    <2>3. QED
      BY <2>1, <2>2, InitKept, Inductive, PTL DEF Spec
  <1>3. QED
    BY <1>2

=============================================================================
