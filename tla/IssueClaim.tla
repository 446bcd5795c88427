----------------------------- MODULE IssueClaim -----------------------------
(***************************************************************************)
(* The GitHub task loop of packages/github: how agents claim one Issue      *)
(* (claims.ts), keep, review and complete the claim (claim-lifecycle.ts),   *)
(* and how an operator repairs it (repair.ts).  The processes share nothing *)
(* but the Issue on GitHub: its claim ref, its labels and its comments.     *)
(* Every GitHub call is one atomic step of the server, and every process    *)
(* may be overtaken between two of its calls.                               *)
(*                                                                         *)
(* Data left out: the Issue's text, the manifest, URLs and the wording of   *)
(* comments.  A claim comment is the claim it names; the claim ref is the   *)
(* claim that created it, which the code itself cannot see.                 *)
(***************************************************************************)
EXTENDS Integers, FiniteSets

CONSTANTS Claims,        \* runs of claimIssueTask, each with its claim_id
          Agents,
          NoClaim,       \* no claim ref exists
          AgentOf,       \* the agent_id of each run
          Repairers,     \* runs of `openslack github repair claims --apply'
          TTL,           \* lease of a claim and of a heartbeat
          Commands,      \* lifecycle commands agents issue in this instance
          QuietRepair,   \* do operators repair only while nothing is in flight?
          TimelyCommands, \* do agents issue commands only before their lease ends?
          MaxFaults,     \* bound: failed calls, lost answers and crashes
          LastCommand,   \* bound: last instant of claims and commands
          MaxTime        \* bound: the clock stops here

ASSUME ClaimAssumption ==
    /\ IsFiniteSet(Claims)
    /\ NoClaim \notin Claims
    /\ AgentOf \in [Claims -> Agents]
    /\ TTL \in Nat \ {0}
    /\ Commands \subseteq {"heartbeat", "review", "complete"}
    /\ QuietRepair \in BOOLEAN
    /\ TimelyCommands \in BOOLEAN
    /\ MaxFaults \in Nat
    /\ LastCommand \in Nat
    /\ MaxTime \in Nat

VARIABLES
    now,        \* the clock
    ref,        \* GitHub: the claim ref, by the claim that created it
    evidence,   \* GitHub: claims with an openslack.claim.v1 comment
    beats,      \* GitHub: heartbeat comments
    reviewed,   \* GitHub: agents with review evidence for their pull request
    merged,     \* GitHub: agents whose pull request is merged
    labels,     \* GitHub: labels of the Issue
    fresh,      \* claims whose Issue snapshot still matches the Issue
    pc,         \* stage of each claim and of the commands that follow it
    turn,       \* order of the claimed_at of the claims (0: not started)
    claimedAt,  \* claimed_at of each claim, in ticks
    granted,    \* claims that were answered `granted'
    leaseUntil, \* end of the lease as last reported to the claim's agent
    beatAt,     \* heartbeat_at of the heartbeat a command is recording
    failed,     \* commands with a failed mutation (mutationFailed)
    rpc,        \* stage of each repair
    rnow,       \* the instant a repair compares leases with
    faults      \* faults so far

github  == <<ref, evidence, beats, reviewed, merged, labels>>
lease   == <<turn, claimedAt, granted, leaseUntil>>
command == <<beatAt, failed>>
repair  == <<rpc, rnow>>
vars    == <<now, github, fresh, pc, lease, command, repair, faults>>

ClaimStages == {"discovered", "creating", "conflict", "reconcile", "loseDrop", "loseAdd",
                "tentative", "writing", "confirming", "checking", "rollback",
                "rolledBack", "winDrop", "winAdd"}
CommandStages == {"beatOwner", "beatWrite", "beatCheck",
                  "revOwner", "revReady", "revClaimed", "revAdd", "revNote",
                  "endMerged", "endClaimed", "endReview", "endAdd", "endDelete", "endProve"}
FinalStages == {"denied", "uncertain", "stopped", "completed"}
Stages == {"idle", "held"} \cup ClaimStages \cup CommandStages \cup FinalStages
RepairStages == {"idle", "reading", "expiring", "proving", "unclaim", "toReady",
                 "verifying", "reclaim", "toClaimed"}
Labels == {"ready", "claimed", "review", "done"}

Init ==
    /\ now = 0
    /\ ref = NoClaim
    /\ evidence = {}
    /\ beats = {}
    /\ reviewed = {}
    /\ merged = {}
    /\ labels = {"ready"}
    /\ fresh = {}
    /\ pc = [c \in Claims |-> "idle"]
    /\ turn = [c \in Claims |-> 0]
    /\ claimedAt = [c \in Claims |-> 0]
    /\ granted = {}
    /\ leaseUntil = [c \in Claims |-> 0]
    /\ beatAt = [c \in Claims |-> 0]
    /\ failed = {}
    /\ rpc = [r \in Repairers |-> "idle"]
    /\ rnow = [r \in Repairers |-> 0]
    /\ faults = 0

-----------------------------------------------------------------------------
(* GitHub calls *)

GoTo(c, stage) == pc' = [pc EXCEPT ![c] = stage]
RGoTo(r, stage) == rpc' = [rpc EXCEPT ![r] = stage]

(* A call that fails, or whose answer is lost. *)
Fault == faults < MaxFaults /\ faults' = faults + 1
NoFault == UNCHANGED faults

(* Any change of labels or comments changes the Issue's updated_at, so that *)
(* no snapshot taken earlier matches any more (GitHub keeps whole seconds:  *)
(* a change in the second of the snapshot is left out).                     *)
SetLabels(L) == labels' = L /\ fresh' = IF L = labels THEN fresh ELSE {}

(* A label call takes effect or fails; the code goes on in both cases.      *)
LabelCall(L) == \/ NoFault /\ SetLabels(L)
                \/ Fault /\ UNCHANGED <<labels, fresh>>

(* A delete call names the ref, not the claim that made it.  Whether it took *)
(* effect is known only from the read that follows.                        *)
DeleteRef == \/ NoFault /\ ref' = NoClaim
             \/ Fault /\ UNCHANGED ref

(* getRef answers. *)
RefRead(found) == NoFault /\ found = (ref # NoClaim)

-----------------------------------------------------------------------------
(* Owner evidence *)

(* The comment with the newest claimed_at.  Comments that tie name no owner  *)
(* in the code; two starts in one millisecond are left out, so none tie.    *)
IsNewest(c) == c \in evidence /\ \A d \in evidence : turn[d] <= turn[c]

OwnerIs(a) == \E c \in evidence : IsNewest(c) /\ AgentOf[c] = a

(* Mutant: heartbeats are not considered. *)
LeaseStarts_NoBeats(c, t) == {claimedAt[c]}
(* Instants at which the lease of claim c starts as comments show it at t:  *)
(* its own claim and the heartbeats of its agent since then.                *)
LeaseStarts(c, t) ==
    {claimedAt[c]} \cup {h.at : h \in {b \in beats : /\ b.agent = AgentOf[c]
                                                      /\ b.at >= claimedAt[c]
                                                      /\ b.at <= t}}

ExpiredAt(c, t) == \A s \in LeaseStarts(c, t) : s + TTL <= t

(* What an operator that repairs only in quiet moments looks at. *)
InFlight == \E c \in Claims : pc[c] \in ClaimStages \cup CommandStages
Repairing == \E r \in Repairers : rpc[r] # "idle"
MayStart == now <= LastCommand /\ (QuietRepair => ~Repairing)

-----------------------------------------------------------------------------
(* claimIssueTask *)

(* Discovery reads a ready Issue and takes its snapshot. *)
Discover(c) ==
    /\ pc[c] = "idle"
    /\ MayStart
    /\ "ready" \in labels
    /\ fresh' = fresh \cup {c}
    /\ GoTo(c, "discovered")
    /\ UNCHANGED <<now, github, lease, command, repair, faults>>

(* claimed_at is taken before the first call, the read of main, which may   *)
(* fail.                                                                    *)
StartClaim(c) ==
    /\ pc[c] = "discovered"
    /\ claimedAt' = [claimedAt EXCEPT ![c] = now]
    /\ turn' = [turn EXCEPT ![c] = Cardinality({d \in Claims : turn[d] > 0}) + 1]
    /\ \/ NoFault /\ GoTo(c, "creating")
       \/ Fault /\ GoTo(c, "denied")
    /\ UNCHANGED <<now, github, fresh, granted, leaseUntil, command, repair>>

(* Mutant: an existing claim ref is taken over. *)
CreateRef_Overwrites(c) ==
    /\ pc[c] = "creating"
    /\ ref' = c
    /\ GoTo(c, "tentative")
    /\ UNCHANGED <<now, evidence, beats, reviewed, merged, labels, fresh, lease, command, repair, faults>>
(* createRef is atomic: the ref is created only where there is none.  A lost *)
(* answer leaves the ref behind.                                           *)
CreateRef(c) ==
    /\ pc[c] = "creating"
    /\ \/ ref = NoClaim /\ ref' = c /\ NoFault /\ GoTo(c, "tentative")
       \/ ref = NoClaim /\ ref' = c /\ Fault /\ GoTo(c, "denied")
       \/ ref # NoClaim /\ UNCHANGED ref /\ NoFault /\ GoTo(c, "conflict")
       \/ UNCHANGED ref /\ Fault /\ GoTo(c, "denied")
    /\ UNCHANGED <<now, evidence, beats, reviewed, merged, labels, fresh, lease, command, repair>>

(* A 422 is confirmed by reading the ref. *)
ConfirmConflict(c) ==
    /\ pc[c] = "conflict"
    /\ \/ RefRead(TRUE) /\ GoTo(c, "reconcile")
       \/ RefRead(FALSE) /\ GoTo(c, "denied")
       \/ Fault /\ GoTo(c, "denied")
    /\ UNCHANGED <<now, github, fresh, lease, command, repair>>

(* reconcileExistingClaimProjection: the loser projects the winner's labels. *)
Reconcile(c) ==
    /\ pc[c] = "reconcile"
    /\ \/ NoFault /\ GoTo(c, IF evidence # {} THEN "loseDrop" ELSE "denied")
       \/ Fault /\ GoTo(c, "denied")
    /\ UNCHANGED <<now, github, fresh, lease, command, repair>>

(* projectClaimLabels: drop `ready', then add `claimed'. *)
DropReady(c) ==
    /\ pc[c] \in {"loseDrop", "winDrop"}
    /\ LabelCall(labels \ {"ready"})
    /\ GoTo(c, IF pc[c] = "loseDrop" THEN "loseAdd" ELSE "winAdd")
    /\ UNCHANGED <<now, ref, evidence, beats, reviewed, merged, lease, command, repair>>

AddClaimed(c) ==
    /\ pc[c] \in {"loseAdd", "winAdd"}
    /\ LabelCall(labels \cup {"claimed"})
    /\ GoTo(c, IF pc[c] = "loseAdd" THEN "denied" ELSE "held")
    /\ UNCHANGED <<now, ref, evidence, beats, reviewed, merged, lease, command, repair>>

(* Mutant: the snapshot is not compared after the ref is won. *)
ReadIssue_NoCompare(c) ==
    /\ pc[c] = "tentative"
    /\ GoTo(c, "writing")
    /\ UNCHANGED <<now, github, fresh, lease, command, repair, faults>>
(* The Issue is read again; any change since discovery rolls the ref back.  *)
ReadIssue(c) ==
    /\ pc[c] = "tentative"
    /\ \/ NoFault /\ GoTo(c, IF c \in fresh THEN "writing" ELSE "rollback")
       \/ Fault /\ GoTo(c, "rollback")
    /\ UNCHANGED <<now, github, fresh, lease, command, repair>>

(* createComment: the read-back decides whether it took effect. *)
WriteEvidence(c) ==
    /\ pc[c] = "writing"
    /\ \/ NoFault /\ evidence' = evidence \cup {c} /\ fresh' = {}
       \/ Fault /\ UNCHANGED <<evidence, fresh>>
    /\ GoTo(c, "confirming")
    /\ UNCHANGED <<now, ref, beats, reviewed, merged, labels, lease, command, repair>>

ConfirmEvidence(c) ==
    /\ pc[c] = "confirming"
    /\ \/ NoFault /\ GoTo(c, IF c \in evidence THEN "checking" ELSE "rollback")
       \/ Fault /\ GoTo(c, "rollback")
    /\ UNCHANGED <<now, github, fresh, lease, command, repair>>

(* The last read of the ref before the claim is granted. *)
FinalCheck(c) ==
    /\ pc[c] = "checking"
    /\ \/ /\ RefRead(TRUE)
          /\ granted' = granted \cup {c}
          /\ leaseUntil' = [leaseUntil EXCEPT ![c] = claimedAt[c] + TTL]
          /\ GoTo(c, "winDrop")
       \/ /\ RefRead(FALSE) \/ Fault
          /\ GoTo(c, "uncertain")
          /\ UNCHANGED <<granted, leaseUntil>>
    /\ UNCHANGED <<now, github, fresh, turn, claimedAt, command, repair>>

(* rollbackClaimRef deletes the ref by its name and proves its absence.     *)
Rollback(c) ==
    /\ pc[c] = "rollback"
    /\ DeleteRef
    /\ GoTo(c, "rolledBack")
    /\ UNCHANGED <<now, evidence, beats, reviewed, merged, labels, fresh, lease, command, repair>>

ProveRollback(c) ==
    /\ pc[c] = "rolledBack"
    /\ \/ RefRead(FALSE) /\ GoTo(c, "denied")
       \/ (RefRead(TRUE) \/ Fault) /\ GoTo(c, "uncertain")
    /\ UNCHANGED <<now, github, fresh, lease, command, repair>>

(* The process that claims dies between two calls. *)
Crash(c) ==
    /\ pc[c] \in ClaimStages
    /\ Fault
    /\ GoTo(c, "stopped")
    /\ UNCHANGED <<now, github, fresh, lease, command, repair>>

ClaimStep(c) ==
    \/ StartClaim(c) \/ CreateRef(c) \/ ConfirmConflict(c) \/ Reconcile(c)
    \/ DropReady(c) \/ AddClaimed(c) \/ ReadIssue(c) \/ WriteEvidence(c)
    \/ ConfirmEvidence(c) \/ FinalCheck(c) \/ Rollback(c) \/ ProveRollback(c)


-----------------------------------------------------------------------------
(* Lifecycle commands of an agent that was granted a claim *)

Begin(c, name) ==
    /\ name \in Commands
    /\ pc[c] = "held"
    /\ MayStart
    /\ TimelyCommands => now < leaseUntil[c]
    /\ failed' = failed \ {c}

(* A read that fails ends the command, and so does the death of its process; *)
(* the agent may issue it again.                                            *)
CommandFails(c) ==
    /\ pc[c] \in CommandStages
    /\ Fault
    /\ GoTo(c, "held")
    /\ UNCHANGED <<now, github, fresh, lease, command, repair>>

(* heartbeatClaim and reviewClaim begin by requiring the ref ... *)
BeginHeartbeat(c) ==
    /\ Begin(c, "heartbeat")
    /\ ref # NoClaim
    /\ GoTo(c, "beatOwner")
    /\ UNCHANGED <<now, github, fresh, lease, beatAt, repair, faults>>

BeginReview(c) ==
    /\ Begin(c, "review")
    /\ ref # NoClaim
    /\ GoTo(c, "revOwner")
    /\ UNCHANGED <<now, github, fresh, lease, beatAt, repair, faults>>

(* ... and go on only for the owner that the comments name.  A heartbeat of  *)
(* the same minute is answered as the result of this one.                  *)
HeartbeatOwner(c) ==
    /\ pc[c] = "beatOwner"
    /\ \/ /\ ~OwnerIs(AgentOf[c])
          /\ GoTo(c, "held")
          /\ UNCHANGED <<leaseUntil, beatAt>>
       \/ /\ OwnerIs(AgentOf[c])
          /\ [agent |-> AgentOf[c], at |-> now] \in beats
          /\ leaseUntil' = [leaseUntil EXCEPT ![c] = now + TTL]
          /\ GoTo(c, "held")
          /\ UNCHANGED beatAt
       \/ /\ OwnerIs(AgentOf[c])
          /\ [agent |-> AgentOf[c], at |-> now] \notin beats
          /\ beatAt' = [beatAt EXCEPT ![c] = now]
          /\ GoTo(c, "beatWrite")
          /\ UNCHANGED leaseUntil
    /\ UNCHANGED <<now, github, fresh, turn, claimedAt, granted, failed, repair, faults>>

(* createComment: a lost answer reports a partial heartbeat. *)
HeartbeatWrite(c) ==
    /\ pc[c] = "beatWrite"
    /\ beats' = beats \cup {[agent |-> AgentOf[c], at |-> beatAt[c]]}
    /\ fresh' = {}
    /\ \/ NoFault /\ GoTo(c, "beatCheck")
       \/ Fault /\ GoTo(c, "held")
    /\ UNCHANGED <<now, ref, evidence, reviewed, merged, labels, lease, command, repair>>

(* The comment is read back before the new lease is reported. *)
HeartbeatCheck(c) ==
    /\ pc[c] = "beatCheck"
    /\ leaseUntil' = [leaseUntil EXCEPT ![c] = beatAt[c] + TTL]
    /\ GoTo(c, "held")
    /\ UNCHANGED <<now, github, fresh, turn, claimedAt, granted, command, repair, faults>>

ReviewOwner(c) ==
    /\ pc[c] = "revOwner"
    /\ GoTo(c, IF OwnerIs(AgentOf[c]) THEN "revReady" ELSE "held")
    /\ UNCHANGED <<now, github, fresh, lease, command, repair, faults>>

(* A label call of a command: a failure is remembered. *)
Relabel(c, L, next) ==
    /\ LabelCall(L)
    /\ failed' = IF faults' = faults THEN failed ELSE failed \cup {c}
    /\ GoTo(c, next)
    /\ UNCHANGED <<now, ref, evidence, beats, reviewed, merged, lease, beatAt, repair>>

ReviewLabels(c) ==
    \/ pc[c] = "revReady" /\ Relabel(c, labels \ {"ready"}, "revClaimed")
    \/ pc[c] = "revClaimed" /\ Relabel(c, labels \ {"claimed"}, "revAdd")
    \/ pc[c] = "revAdd" /\ Relabel(c, labels \cup {"review"}, "revNote")

(* The review comment is written once.  The postconditions that are read    *)
(* afterwards change nothing: a partial review is issued again.             *)
ReviewNote(c) ==
    /\ pc[c] = "revNote"
    /\ reviewed' = reviewed \cup {AgentOf[c]}
    /\ fresh' = IF AgentOf[c] \in reviewed THEN fresh ELSE {}
    /\ GoTo(c, "held")
    /\ UNCHANGED <<now, ref, evidence, beats, merged, labels, lease, command, repair, faults>>

(* The pull request of agent a is merged on GitHub. *)
Merge(a) ==
    /\ a \in reviewed \ merged
    /\ merged' = merged \cup {a}
    /\ UNCHANGED <<now, ref, evidence, beats, reviewed, labels, fresh, pc, lease, command, repair, faults>>

(* completeClaim requires the owner and the review evidence, not the ref.   *)
BeginComplete(c) ==
    /\ Begin(c, "complete")
    /\ OwnerIs(AgentOf[c])
    /\ AgentOf[c] \in reviewed
    /\ GoTo(c, "endMerged")
    /\ UNCHANGED <<now, github, fresh, lease, beatAt, repair, faults>>

CompleteMerged(c) ==
    /\ pc[c] = "endMerged"
    /\ GoTo(c, IF AgentOf[c] \in merged THEN "endClaimed" ELSE "held")
    /\ UNCHANGED <<now, github, fresh, lease, command, repair, faults>>

CompleteLabels(c) ==
    \/ pc[c] = "endClaimed" /\ Relabel(c, labels \ {"claimed"}, "endReview")
    \/ pc[c] = "endReview" /\ Relabel(c, labels \ {"review"}, "endAdd")
    \/ pc[c] = "endAdd" /\ Relabel(c, labels \cup {"done"}, "endDelete")

CompleteDelete(c) ==
    /\ pc[c] = "endDelete"
    /\ DeleteRef
    /\ failed' = IF faults' = faults THEN failed ELSE failed \cup {c}
    /\ GoTo(c, "endProve")
    /\ UNCHANGED <<now, evidence, beats, reviewed, merged, labels, fresh, lease, beatAt, repair>>

(* Completed only when the ref is absent, `done' is present and nothing     *)
(* failed; otherwise partial, to be issued again.                           *)
CompleteProve(c) ==
    /\ pc[c] = "endProve"
    /\ GoTo(c, IF ref = NoClaim /\ "done" \in labels /\ c \notin failed
                 THEN "completed" ELSE "held")
    /\ UNCHANGED <<now, github, fresh, lease, command, repair, faults>>

CommandStep(c) ==
    \/ HeartbeatOwner(c) \/ HeartbeatWrite(c) \/ HeartbeatCheck(c)
    \/ ReviewOwner(c) \/ ReviewLabels(c) \/ ReviewNote(c)
    \/ CompleteMerged(c) \/ CompleteLabels(c) \/ CompleteDelete(c) \/ CompleteProve(c)

-----------------------------------------------------------------------------
(* repairExpiredClaims *)

(* The refs are listed, then the clock is read once for the whole pass. *)
RepairStart(r) ==
    /\ rpc[r] = "idle"
    /\ QuietRepair => ~InFlight /\ ~Repairing
    /\ ref # NoClaim
    /\ RGoTo(r, "reading")
    /\ rnow' = [rnow EXCEPT ![r] = now]
    /\ UNCHANGED <<now, github, fresh, pc, lease, command, faults>>

(* Mutant: repair trusts the label, not the ref and its comments. *)
RepairRead_ByLabel(r) ==
    /\ rpc[r] = "reading"
    /\ \/ ~("claimed" \in labels) /\ RGoTo(r, "idle")
       \/ /\ "claimed" \in labels
          /\ \E c \in evidence :
                /\ IsNewest(c)
                /\ RGoTo(r, IF ExpiredAt(c, rnow[r]) THEN "expiring" ELSE "verifying")
    /\ UNCHANGED <<now, github, fresh, pc, lease, command, rnow, faults>>
(* The comments decide: no owner, an expired lease or a live one. *)
RepairRead(r) ==
    /\ rpc[r] = "reading"
    /\ \/ evidence = {} /\ RGoTo(r, "idle")
       \/ \E c \in evidence :
             /\ IsNewest(c)
             /\ RGoTo(r, IF ExpiredAt(c, rnow[r]) THEN "expiring" ELSE "verifying")
    /\ UNCHANGED <<now, github, fresh, pc, lease, command, rnow, faults>>

RepairDelete(r) ==
    /\ rpc[r] = "expiring"
    /\ DeleteRef
    /\ RGoTo(r, "proving")
    /\ UNCHANGED <<now, evidence, beats, reviewed, merged, labels, fresh, pc, lease, command, rnow>>

(* The ref must be absent before the Issue is made ready, and must still be *)
(* present before it is made claimed.                                       *)
RepairProve(r) ==
    /\ \/ /\ rpc[r] = "proving"
          /\ RGoTo(r, IF ref = NoClaim THEN "unclaim" ELSE "idle")
       \/ /\ rpc[r] = "verifying"
          /\ RGoTo(r, IF ref # NoClaim THEN "reclaim" ELSE "idle")
    /\ UNCHANGED <<now, github, fresh, pc, lease, command, rnow, faults>>

RepairRelabel(r, L, next) ==
    /\ LabelCall(L)
    /\ RGoTo(r, next)
    /\ UNCHANGED <<now, ref, evidence, beats, reviewed, merged, pc, lease, command, rnow>>

(* Mutant: an expired claim is not made ready again. *)
RepairLabels_NoReady(r) ==
    \/ rpc[r] = "unclaim" /\ RepairRelabel(r, labels \ {"claimed"}, "idle")
    \/ rpc[r] = "reclaim" /\ RepairRelabel(r, labels \ {"ready"}, "toClaimed")
    \/ rpc[r] = "toClaimed" /\ RepairRelabel(r, labels \cup {"claimed"}, "idle")
(* setReadyProjection and setClaimedProjection *)
RepairLabels(r) ==
    \/ rpc[r] = "unclaim" /\ RepairRelabel(r, labels \ {"claimed"}, "toReady")
    \/ rpc[r] = "toReady" /\ RepairRelabel(r, labels \cup {"ready"}, "idle")
    \/ rpc[r] = "reclaim" /\ RepairRelabel(r, labels \ {"ready"}, "toClaimed")
    \/ rpc[r] = "toClaimed" /\ RepairRelabel(r, labels \cup {"claimed"}, "idle")

(* A read fails, or the repair dies. *)
RepairAbort(r) ==
    /\ rpc[r] # "idle"
    /\ Fault
    /\ RGoTo(r, "idle")
    /\ UNCHANGED <<now, github, fresh, pc, lease, command, rnow>>

RepairStep(r) == RepairRead(r) \/ RepairDelete(r) \/ RepairProve(r) \/ RepairLabels(r)

-----------------------------------------------------------------------------
(* Bound: what has started ends by LastCommand. *)
Tick ==
    /\ now < MaxTime
    /\ now >= LastCommand => ~InFlight
    /\ now' = now + 1
    /\ UNCHANGED <<github, fresh, pc, lease, command, repair, faults>>

Next ==
    \/ \E c \in Claims :
          \/ Discover(c) \/ ClaimStep(c) \/ Crash(c)
          \/ BeginHeartbeat(c) \/ BeginReview(c) \/ BeginComplete(c)
          \/ CommandStep(c) \/ CommandFails(c)
    \/ \E a \in Agents : Merge(a)
    \/ \E r \in Repairers : RepairStart(r) \/ RepairStep(r) \/ RepairAbort(r)
    \/ Tick

Spec == Init /\ [][Next]_vars

(* Calls return, the clock advances, and operators keep running repairs. *)
Fairness ==
    /\ SF_vars(Tick)
    /\ \A c \in Claims : WF_vars(ClaimStep(c)) /\ WF_vars(CommandStep(c))
    /\ \A r \in Repairers : WF_vars(RepairStep(r)) /\ SF_vars(RepairStart(r))

FairSpec == Spec /\ Fairness

-----------------------------------------------------------------------------
(* Every variable keeps its type. *)
TypeOK ==
    /\ now \in 0..MaxTime
    /\ ref \in Claims \cup {NoClaim}
    /\ evidence \subseteq Claims
    /\ beats \subseteq [agent : Agents, at : 0..MaxTime]
    /\ reviewed \subseteq Agents
    /\ merged \subseteq reviewed
    /\ labels \subseteq Labels
    /\ fresh \subseteq Claims
    /\ pc \in [Claims -> Stages]
    /\ turn \in [Claims -> 0..Cardinality(Claims)]
    /\ claimedAt \in [Claims -> 0..MaxTime]
    /\ granted \subseteq Claims
    /\ leaseUntil \in [Claims -> 0..(MaxTime + TTL)]
    /\ beatAt \in [Claims -> 0..MaxTime]
    /\ failed \subseteq Claims
    /\ rpc \in [Repairers -> RepairStages]
    /\ rnow \in [Repairers -> 0..MaxTime]
    /\ faults \in 0..MaxFaults

(* An agent believes it owns the Issue: its claim was granted, the lease it  *)
(* was told of has not ended, and it has neither completed nor died.        *)
Believes(c) ==
    /\ c \in granted
    /\ now < leaseUntil[c]
    /\ pc[c] \notin {"stopped", "completed"}

(* Concurrent claims have one winner: no two agents believe at the same     *)
(* time that they own the Issue.                                            *)
OneWinner == \A c, d \in Claims : Believes(c) /\ Believes(d) => c = d

(* While the ref of a granted claim stands, the lifecycle commands accept   *)
(* its agent as the owner and nobody else.                                  *)
OwnerIsHolder ==
    \A c \in granted : ref = c => \A a \in Agents : OwnerIs(a) <=> a = AgentOf[c]

(* Repair never deletes the ref of a claim whose latest heartbeat is still  *)
(* good at the moment of the deletion.                                      *)
ExpiresFromLatestHeartbeat ==
    [][\A r \in Repairers :
          (rpc[r] = "expiring" /\ rpc'[r] = "proving" /\ ref # NoClaim /\ ref' = NoClaim)
             => \A c \in Claims : IsNewest(c) =>
                    /\ claimedAt[c] + TTL <= now
                    /\ \A b \in beats : b.agent = AgentOf[c] => b.at + TTL <= now]_vars

(* An Issue is never lost: when everything is at rest and no call has       *)
(* failed it can be claimed, is owned through its ref (which repair         *)
(* enumerates), or is done.                                                 *)
NeverLost ==
    faults = 0 /\ ~InFlight /\ ~Repairing =>
        ref # NoClaim \/ "ready" \in labels \/ "done" \in labels

(* The comment of an older claim outlives it.  A claim that meets the        *)
(* tentative ref of another then projects `claimed' (claims.ts:351), the    *)
(* holder of that ref finds the Issue changed and rolls back: both are      *)
(* denied, and the Issue shows a claim that no ref stands for.              *)
DeniedOverOldComment ==
    /\ "claimed" \in labels
    /\ \E b, c \in Claims, d \in evidence :
          /\ b # c /\ pc[b] = "denied" /\ pc[c] = "denied"
          /\ turn[d] < turn[b] /\ turn[d] < turn[c]

(* Whatever the order of claims, commands and repairs, an Issue whose calls *)
(* all succeed is lost in this one way only.                                *)
ClaimableOrOwned == NeverLost \/ DeniedOverOldComment

(* A claim ref with owner evidence does not stand forever: the claim is     *)
(* completed or, once its agent falls silent, repair releases it.           *)
RefReleased == (ref # NoClaim /\ evidence # {}) ~> (ref = NoClaim)
=============================================================================
