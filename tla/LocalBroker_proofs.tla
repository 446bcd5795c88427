------------------------- MODULE LocalBroker_proofs -------------------------
(***************************************************************************)
(* For any tasks, processes, operations and bounds: the types of           *)
(* LocalBroker, that a task has one holder, and that what has ended stays   *)
(* ended.                                                                  *)
(*                                                                         *)
(* The maps a process keeps are stale as soon as it has read them.  What    *)
(* makes them harmless is that all leases it knows are in the file (Reads), *)
(* so that the merge under the lock yields the file's leases, and that the  *)
(* one process between lock and unlock (Excl) is about to save maps that    *)
(* move the file forward (Saves).  In such maps an active lease is the      *)
(* holder of its task (Held), which gives one holder per task.             *)
(***************************************************************************)
EXTENDS LocalBroker, TLAPS

----------------------------------------------------------------------------
(* The maps *)

\* The rows of the lease map.
LeaseRow == [task: Tasks, status: {"none", "active", "expired", "released"}]

\* The statuses of a lease that has ended.
Over == {"expired", "released"}

\* The maps before any file is read.
LEMMA EmptyType ==
    ASSUME NEW t \in Tasks
    PROVE  Empty(t) \in State /\ Empty(t).seq = 0 /\ \A l \in Leases : Empty(t).leases[l].status = "none"
  <1>1. 0 \in 0..MaxLeases
    BY BrokerAssumption
  <1>2. QED
    BY <1>1 DEF Empty, State

\* loadWithLock, entry by entry.
LEMMA MergedFields ==
    ASSUME NEW m \in State, NEW f \in State
    PROVE  /\ Merged(m, f) \in State
           /\ Merged(m, f).seq = f.seq
           /\ \A l \in Leases : Merged(m, f).leases[l] = IF f.leases[l].status # "none" THEN f.leases[l] ELSE m.leases[l]
           /\ \A t \in Tasks : Merged(m, f).holder[t] = IF f.holder[t] # 0 THEN f.holder[t] ELSE m.holder[t]
  <1> DEFINE ls == [l \in Leases |-> IF f.leases[l].status # "none" THEN f.leases[l] ELSE m.leases[l]]
             hs == [t \in Tasks |-> IF f.holder[t] # 0 THEN f.holder[t] ELSE m.holder[t]]
             ss == [t \in Tasks |-> IF f.state[t] # "none" THEN f.state[t] ELSE m.state[t]]
  <1>1. /\ m.leases \in [Leases -> LeaseRow] /\ f.leases \in [Leases -> LeaseRow]
        /\ m.holder \in [Tasks -> 0..MaxLeases] /\ f.holder \in [Tasks -> 0..MaxLeases]
        /\ m.state \in [Tasks -> {"none", "ready", "claimed"}] /\ f.state \in [Tasks -> {"none", "ready", "claimed"}]
        /\ f.seq \in 0..MaxLeases
    BY DEF State, LeaseRow
  <1>2. ls \in [Leases -> LeaseRow] /\ hs \in [Tasks -> 0..MaxLeases] /\ ss \in [Tasks -> {"none", "ready", "claimed"}]
    BY <1>1
  <1>3. Merged(m, f) = [seq |-> f.seq, leases |-> ls, holder |-> hs, state |-> ss]
    BY DEF Merged
  <1>4. /\ \A l \in Leases : ls[l] = IF f.leases[l].status # "none" THEN f.leases[l] ELSE m.leases[l]
        /\ \A t \in Tasks : hs[t] = IF f.holder[t] # 0 THEN f.holder[t] ELSE m.holder[t]
    OBVIOUS
  <1> HIDE DEF ls, hs, ss
  <1>5. QED
    BY <1>1, <1>2, <1>3, <1>4 DEF State, LeaseRow

\* The end of a lease touches its row and the holder of its task.
LEMMA EndedFields ==
    ASSUME NEW s \in State, NEW l \in Leases, NEW st \in Over
    PROVE  /\ Ended(s, l, st) \in State
           /\ Ended(s, l, st).seq = s.seq
           /\ Ended(s, l, st).leases[l].status = st
           /\ \A k \in Leases : Ended(s, l, st).leases[k].task = s.leases[k].task
           /\ \A k \in Leases : k # l => Ended(s, l, st).leases[k] = s.leases[k]
           /\ \A x \in Tasks : x # s.leases[l].task => Ended(s, l, st).holder[x] = s.holder[x]
  <1> DEFINE row == [s.leases[l] EXCEPT !.status = st]
             x == s.leases[l].task
             ls == [s.leases EXCEPT ![l] = row]
             hs == [s.holder EXCEPT ![x] = 0]
             ss == [s.state EXCEPT ![x] = "ready"]
  <1>1. /\ s.leases \in [Leases -> LeaseRow] /\ s.leases[l] \in LeaseRow /\ x \in Tasks
        /\ s.holder \in [Tasks -> 0..MaxLeases]
        /\ s.state \in [Tasks -> {"none", "ready", "claimed"}]
        /\ s.seq \in 0..MaxLeases /\ 0 \in 0..MaxLeases
    BY BrokerAssumption DEF State, LeaseRow
  <1>2. row \in LeaseRow /\ row.status = st /\ row.task = x
    BY <1>1 DEF LeaseRow, Over
  <1>3. Ended(s, l, st) = [s EXCEPT !.leases = ls, !.holder = hs, !.state = ss]
    BY <1>1 DEF Ended, State
  <1> HIDE DEF row, x
  <1>4. /\ ls \in [Leases -> LeaseRow] /\ hs \in [Tasks -> 0..MaxLeases] /\ ss \in [Tasks -> {"none", "ready", "claimed"}]
        /\ ls[l] = row /\ \A k \in Leases : k # l => ls[k] = s.leases[k]
        /\ \A y \in Tasks : y # x => hs[y] = s.holder[y]
    BY <1>1, <1>2
  <1> HIDE DEF ls, hs, ss
  <1> DEFINE e == [s EXCEPT !.leases = ls, !.holder = hs, !.state = ss]
  <1>5. e \in State /\ e.seq = s.seq /\ e.leases = ls /\ e.holder = hs
    BY <1>4 DEF State, LeaseRow
  <1> HIDE DEF e
  <1>6. \A k \in Leases : ls[k].task = s.leases[k].task
    BY <1>2, <1>4 DEF x
  <1>7. QED
    BY <1>2, <1>3, <1>4, <1>5, <1>6 DEF e, x

\* A claim adds the next lease and makes it the holder of its task.
LEMMA ClaimedFields ==
    ASSUME NEW s \in State, NEW t \in Tasks, s.seq < MaxLeases
    PROVE  /\ Claimed(s, t) \in State /\ s.seq + 1 \in Leases
           /\ Claimed(s, t).seq = s.seq + 1
           /\ Claimed(s, t).leases[s.seq + 1] = [task |-> t, status |-> "active"]
           /\ \A k \in Leases : k # s.seq + 1 => Claimed(s, t).leases[k] = s.leases[k]
           /\ Claimed(s, t).holder[t] = s.seq + 1
           /\ \A x \in Tasks : x # t => Claimed(s, t).holder[x] = s.holder[x]
  <1> DEFINE l == s.seq + 1
             row == [task |-> t, status |-> "active"]
             ls == [s.leases EXCEPT ![l] = row]
             hs == [s.holder EXCEPT ![t] = l]
             ss == [s.state EXCEPT ![t] = "claimed"]
  <1>1. /\ s.leases \in [Leases -> LeaseRow]
        /\ s.holder \in [Tasks -> 0..MaxLeases]
        /\ s.state \in [Tasks -> {"none", "ready", "claimed"}]
        /\ s.seq \in 0..MaxLeases
    BY DEF State, LeaseRow
  <1>2. l \in Leases /\ l \in 0..MaxLeases
    BY <1>1, BrokerAssumption DEF Leases
  <1>3. row \in LeaseRow
    BY DEF LeaseRow
  <1>4. Claimed(s, t) = [s EXCEPT !.seq = l, !.leases = ls, !.holder = hs, !.state = ss]
    BY <1>1 DEF Claimed, State
  <1> HIDE DEF row, l
  <1>5. /\ ls \in [Leases -> LeaseRow] /\ hs \in [Tasks -> 0..MaxLeases] /\ ss \in [Tasks -> {"none", "ready", "claimed"}]
        /\ ls[l] = row /\ \A k \in Leases : k # l => ls[k] = s.leases[k]
        /\ hs[t] = l /\ \A y \in Tasks : y # t => hs[y] = s.holder[y]
    BY <1>1, <1>2, <1>3
  <1> HIDE DEF ls, hs, ss
  <1> DEFINE e == [s EXCEPT !.seq = l, !.leases = ls, !.holder = hs, !.state = ss]
  <1>6. e \in State /\ e.seq = l /\ e.leases = ls /\ e.holder = hs
    BY <1>2, <1>5 DEF State, LeaseRow
  <1> HIDE DEF e
  <1>7. QED
    BY <1>2, <1>4, <1>5, <1>6 DEF e, l, row

----------------------------------------------------------------------------
(* The invariant *)

\* The processes that hold the lock file.
Holding == {"saving", "unlocking"}

\* The lock file names the one process that is between lock and unlock.
Excl == \A p \in Procs : proc[p].stage \in Holding => lockFile = p

\* A process that waits for the lock has an operation to do.
Calls ==
    \A p \in Procs : proc[p].stage = "waiting" =>
        proc[p].op = "claimTask" \/ (proc[p].op \in Ops /\ proc[p].lease \in Leases)

\* Lease ids are given out in sequence.
InSequence(s) == \A l \in Leases : l > s.seq => s.leases[l].status = "none"

\* Every lease of m is one of s.
Within(m, s) == \A l \in Leases : m.leases[l].status # "none" => s.leases[l].status # "none"

\* The maps s may replace the file f: nothing that f knows is undone.
Follows(f, s) ==
    /\ s.seq >= f.seq
    /\ Within(f, s)
    /\ \A l \in Leases : f.leases[l].status \in {"expired", "released"}
                            => s.leases[l].status \in {"expired", "released"}

\* What a process has read is in the file, unless it is about to save.
Reads == \A p \in Procs : proc[p].stage # "saving" => Within(mem[p], file)

\* What a process is about to save replaces the file it has read under the lock.
Saves == \A p \in Procs : proc[p].stage = "saving" => InSequence(mem[p]) /\ Follows(file, mem[p])

\* An active lease is the one its task is held by.
ActiveIsHolder(s) ==
    \A l \in Leases : s.leases[l].status = "active" => s.holder[s.leases[l].task] = l

\* Holds unless expireLease is called: it frees the task of an ended lease
\* whoever holds it by then.
Held ==
    /\ ActiveIsHolder(file)
    /\ \A p \in Procs : proc[p].stage = "saving" => ActiveIsHolder(mem[p])

\* The inductive invariant.
IInv ==
    /\ TypeOK /\ Excl /\ Calls /\ InSequence(file) /\ Reads /\ Saves
    /\ "expireLease" \notin Ops => Held

----------------------------------------------------------------------------
(* What an operation does to the maps it has merged *)

\* The maps e know the leases that s knows, and end no ended lease anew.
Tidy(s, e) ==
    /\ e \in State /\ e.seq = s.seq
    /\ \A l \in Leases : s.leases[l].status = "none" <=> e.leases[l].status = "none"
    /\ \A l \in Leases : s.leases[l].status \in Over => e.leases[l].status \in Over

\* An operation that leaves the maps alone is tidy.
LEMMA SameTidy ==
    ASSUME NEW s \in State
    PROVE  Tidy(s, s)
  BY DEF Tidy

\* Ending a known lease is tidy.
LEMMA EndedTidy ==
    ASSUME NEW s \in State, NEW l \in Leases, NEW st \in Over, s.leases[l].status # "none"
    PROVE  Tidy(s, Ended(s, l, st))
  <1>1. st # "none"
    BY DEF Over
  <1>2. /\ Ended(s, l, st) \in State
        /\ Ended(s, l, st).seq = s.seq
        /\ Ended(s, l, st).leases[l].status = st
        /\ \A k \in Leases : k # l => Ended(s, l, st).leases[k] = s.leases[k]
    BY EndedFields
  <1>3. QED
    BY <1>1, <1>2 DEF Tidy

\* Ending an active lease frees no task but its own.
LEMMA EndedHeld ==
    ASSUME NEW s \in State, NEW l \in Leases, NEW st \in Over, s.leases[l].status = "active", ActiveIsHolder(s)
    PROVE  ActiveIsHolder(Ended(s, l, st))
  <1> DEFINE e == Ended(s, l, st)
  <1>1. /\ e.leases[l].status = st
        /\ \A k \in Leases : k # l => e.leases[k] = s.leases[k]
        /\ \A x \in Tasks : x # s.leases[l].task => e.holder[x] = s.holder[x]
    BY EndedFields
  <1> HIDE DEF e
  <1>2. ASSUME NEW k \in Leases, e.leases[k].status = "active"
        PROVE  e.holder[e.leases[k].task] = k
    <2>1. k # l
      BY <1>1, <1>2 DEF Over
    <2>2. e.leases[k] = s.leases[k] /\ s.leases[k].task \in Tasks
      BY <1>1, <2>1 DEF State
    <2>3. s.holder[s.leases[k].task] = k /\ s.holder[s.leases[l].task] = l
      BY <1>2, <2>2 DEF ActiveIsHolder
    <2>4. s.leases[k].task # s.leases[l].task
      BY <2>1, <2>3
    <2>5. QED
      BY <1>1, <2>2, <2>3, <2>4
  <1>3. QED
    BY <1>2 DEF ActiveIsHolder, e

\* getActiveLease is tidy and frees only the task of a lease that was active.
LEMMA SweptTidy ==
    ASSUME NEW s \in State, NEW t \in Tasks
    PROVE  Tidy(s, Swept(s, t)) /\ (ActiveIsHolder(s) => ActiveIsHolder(Swept(s, t)))
  <1>1. CASE s.holder[t] # 0 /\ IsOver(s, s.holder[t])
    <2>1. s.holder[t] \in Leases /\ s.leases[s.holder[t]].status = "active" /\ "expired" \in Over
      BY <1>1, BrokerAssumption DEF State, Leases, IsOver, Over
    <2>2. Swept(s, t) = Ended(s, s.holder[t], "expired")
      BY <1>1 DEF Swept
    <2>3. Tidy(s, Ended(s, s.holder[t], "expired"))
      BY <2>1, EndedTidy
    <2>4. ActiveIsHolder(s) => ActiveIsHolder(Ended(s, s.holder[t], "expired"))
      BY <2>1, EndedHeld
    <2>5. QED
      BY <2>2, <2>3, <2>4
  <1>2. CASE ~(s.holder[t] # 0 /\ IsOver(s, s.holder[t]))
    BY <1>2, SameTidy DEF Swept
  <1>3. QED
    BY <1>1, <1>2

\* So are heartbeat and releaseLease; expireLease is tidy only.
LEMMA EffectTidy ==
    ASSUME NEW s \in State, NEW op \in Ops, NEW l \in Leases
    PROVE  /\ Tidy(s, Effect(s, op, l))
           /\ ("expireLease" \notin Ops /\ ActiveIsHolder(s)) => ActiveIsHolder(Effect(s, op, l))
  <1>0. "expired" \in Over /\ "released" \in Over /\ Tidy(s, s)
    BY SameTidy DEF Over
  <1>1. \A st \in Over : s.leases[l].status # "none" => Tidy(s, Ended(s, l, st))
    BY EndedTidy
  <1>2. \A st \in Over : s.leases[l].status = "active" /\ ActiveIsHolder(s) => ActiveIsHolder(Ended(s, l, st))
    BY EndedHeld
  <1>3. CASE op = "heartbeat"
    <2>1. Effect(s, op, l) = IF IsOver(s, l) THEN Ended(s, l, "expired") ELSE s
      BY <1>3 DEF Effect
    <2>2. QED
      BY <1>0, <1>1, <1>2, <2>1 DEF IsOver
  <1>4. CASE op = "releaseLease"
    <2>1. Effect(s, op, l) = IF s.leases[l].status = "active" THEN Ended(s, l, "released") ELSE s
      BY <1>4 DEF Effect
    <2>2. QED
      BY <1>0, <1>1, <1>2, <2>1
  <1>5. CASE op = "expireLease"
    <2>1. Effect(s, op, l) = IF s.leases[l].status # "none" THEN Ended(s, l, "expired") ELSE s
      BY <1>5 DEF Effect
    <2>2. QED
      BY <1>0, <1>1, <1>5, <2>1
  <1>6. QED
    BY <1>3, <1>4, <1>5, BrokerAssumption

\* A task is claimed only when no active lease holds it.
LEMMA ClaimedHeld ==
    ASSUME NEW s \in State, NEW t \in Tasks, CanClaim(s, t), ActiveIsHolder(s)
    PROVE  ActiveIsHolder(Claimed(s, t))
  <1> DEFINE e == Claimed(s, t)
             n == s.seq + 1
  <1>1. s.seq < MaxLeases /\ ~HasActiveLease(s, t)
    BY DEF CanClaim
  <1>2. /\ n \in Leases
        /\ e.leases[n] = [task |-> t, status |-> "active"]
        /\ \A k \in Leases : k # n => e.leases[k] = s.leases[k]
        /\ e.holder[t] = n
        /\ \A x \in Tasks : x # t => e.holder[x] = s.holder[x]
    BY <1>1, ClaimedFields
  <1> HIDE DEF e, n
  <1>3. ASSUME NEW k \in Leases, e.leases[k].status = "active"
        PROVE  e.holder[e.leases[k].task] = k
    <2>1. CASE k = n
      BY <1>2, <2>1
    <2>2. CASE k # n
      <3>1. e.leases[k] = s.leases[k] /\ s.leases[k].task \in Tasks
        BY <1>2, <2>2 DEF State
      <3>2. s.holder[s.leases[k].task] = k /\ k # 0
        BY <1>3, <3>1, BrokerAssumption DEF ActiveIsHolder, Leases
      <3>3. s.leases[k].task # t
        BY <1>1, <1>3, <3>1, <3>2 DEF HasActiveLease
      <3>4. QED
        BY <1>2, <3>1, <3>2, <3>3
    <2>3. QED
      BY <2>1, <2>2
  <1>4. QED
    BY <1>3 DEF ActiveIsHolder, e

\* The maps that a process works on under the lock.
LEMMA MergedOK ==
    ASSUME NEW m \in State, NEW f \in State, Within(m, f), InSequence(f)
    PROVE  /\ Merged(m, f) \in State /\ Merged(m, f).seq = f.seq
           /\ InSequence(Merged(m, f)) /\ Follows(f, Merged(m, f)) /\ Within(Merged(m, f), f)
           /\ ActiveIsHolder(f) => ActiveIsHolder(Merged(m, f))
  <1> DEFINE s == Merged(m, f)
  <1>1. /\ s \in State /\ s.seq = f.seq
        /\ \A l \in Leases : s.leases[l] = IF f.leases[l].status # "none" THEN f.leases[l] ELSE m.leases[l]
        /\ \A t \in Tasks : s.holder[t] = IF f.holder[t] # 0 THEN f.holder[t] ELSE m.holder[t]
    BY MergedFields
  <1> HIDE DEF s
  <1>2. Within(s, f) /\ Within(f, s)
    BY <1>1 DEF Within
  <1>3. InSequence(s)
    BY <1>1, <1>2 DEF InSequence, Within
  <1>4. f.seq \in Nat
    BY BrokerAssumption DEF State
  <1>5. Follows(f, s)
    BY <1>1, <1>2, <1>4 DEF Follows
  <1>6. ASSUME ActiveIsHolder(f), NEW l \in Leases, s.leases[l].status = "active"
        PROVE  s.holder[s.leases[l].task] = l
    <2>1. f.leases[l].status # "none"
      BY <1>2, <1>6 DEF Within
    <2>2. s.leases[l] = f.leases[l] /\ f.leases[l].task \in Tasks
      BY <1>1, <2>1 DEF State
    <2>3. f.holder[f.leases[l].task] = l /\ l # 0
      BY <1>6, <2>2, BrokerAssumption DEF ActiveIsHolder, Leases
    <2>4. QED
      BY <1>1, <2>2, <2>3
  <1>7. QED
    BY <1>1, <1>2, <1>3, <1>5, <1>6 DEF ActiveIsHolder, s

\* A tidy operation on maps that may replace the file gives such maps.
LEMMA TidyFollows ==
    ASSUME NEW f \in State, NEW s \in State, NEW e, Tidy(s, e), InSequence(s), Follows(f, s)
    PROVE  /\ InSequence(e) /\ Follows(f, e)
           /\ Within(s, f) => Within(e, f)
  BY DEF Tidy, InSequence, Follows, Within, Over

\* So does a claim: its lease id is new to the file.
LEMMA ClaimedFollows ==
    ASSUME NEW f \in State, NEW s \in State, NEW t \in Tasks, s.seq < MaxLeases, InSequence(s), Follows(f, s), InSequence(f), s.seq = f.seq
    PROVE  InSequence(Claimed(s, t)) /\ Follows(f, Claimed(s, t))
  <1> DEFINE e == Claimed(s, t)
             n == s.seq + 1
  <1>1. /\ n \in Leases /\ e.seq = n
        /\ e.leases[n] = [task |-> t, status |-> "active"]
        /\ \A k \in Leases : k # n => e.leases[k] = s.leases[k]
    BY ClaimedFields
  <1>2. s.seq \in Nat /\ \A l \in Leases : l \in Nat
    BY BrokerAssumption DEF State, Leases
  <1>3. n > s.seq /\ n \in Nat /\ \A l \in Leases : l > n => l > s.seq /\ l # n
    BY <1>2
  <1> HIDE DEF e, n
  <1>4. InSequence(e)
    BY <1>1, <1>3 DEF InSequence
  <1>5. f.leases[n].status = "none"
    BY <1>1, <1>3 DEF InSequence
  <1>6. e.seq >= f.seq
    BY <1>1, <1>2, <1>3
  <1>7. Follows(f, e)
    BY <1>1, <1>5, <1>6 DEF Follows, Within
  <1>8. QED
    BY <1>4, <1>7 DEF e

----------------------------------------------------------------------------
(* Steps *)

\* The calls.
ProcRec == [stage: Stages, op: Operations, lease: 0..MaxLeases, task: Tasks, todo: SUBSET Tasks]

\* What a process may become, and with which maps.
Ready(p, b, m) ==
    /\ b \in ProcRec /\ m \in State
    /\ b.stage = "waiting" => b.op = "claimTask" \/ (b.op \in Ops /\ b.lease \in Leases)
    /\ b.stage # "saving" => Within(m, file)
    /\ b.stage = "saving" => /\ InSequence(m) /\ Follows(file, m)
                             /\ "expireLease" \notin Ops => ActiveIsHolder(m)

\* The types of what the invariant does not relate to the rest.
TypesLeft ==
    /\ over' \subseteq Leases /\ granted' \in [Leases -> Nat] /\ crashes' \in 0..MaxCrashes

\* A step of one process that leaves the file alone keeps the invariant when
\* the process may become b with the maps m and the lock stays with its holder.
LEMMA ProcStep ==
    ASSUME IInv, NEW p \in Procs, NEW b, NEW m, Ready(p, b, m),
           proc' = [proc EXCEPT ![p] = b], mem' = [mem EXCEPT ![p] = m], file' = file,
           lockFile' \in Procs \cup {"none"}, TypesLeft,
           b.stage \in Holding => lockFile' = p,
           \A q \in Procs : q # p /\ proc[q].stage \in Holding => lockFile' = q
    PROVE  IInv'
  <1>1. TypeOK /\ Excl /\ Calls /\ InSequence(file) /\ Reads /\ Saves /\ ("expireLease" \notin Ops => Held)
    BY DEF IInv
  <1>2. /\ proc'[p] = b /\ mem'[p] = m
        /\ \A q \in Procs : q # p => proc'[q] = proc[q] /\ mem'[q] = mem[q]
    BY <1>1 DEF TypeOK
  <1>3. TypeOK'
    BY <1>1 DEF TypeOK, Ready, TypesLeft, ProcRec
  <1>4. Excl'
    BY <1>2 DEF Excl
  <1>5. Calls'
    BY <1>1, <1>2 DEF Calls, Ready
  <1>6. InSequence(file)'
    BY <1>1 DEF InSequence
  <1>7. Reads'
    BY <1>1, <1>2 DEF Reads, Ready
  <1>8. Saves'
    BY <1>1, <1>2 DEF Saves, Ready
  <1>9. ASSUME "expireLease" \notin Ops PROVE Held'
    BY <1>1, <1>2, <1>9 DEF Held, Ready
  <1>10. QED
    BY <1>3, <1>4, <1>5, <1>6, <1>7, <1>8, <1>9 DEF IInv

\* A process between calls.
LEMMA NoCallType ==
    ASSUME NEW t \in Tasks
    PROVE  NoCall(t) \in ProcRec /\ NoCall(t).stage = "idle"
  <1>1. 0 \in 0..MaxLeases
    BY BrokerAssumption
  <1>2. QED
    BY <1>1 DEF NoCall, ProcRec, Stages, Operations

\* The maps of a broker that was just constructed.
LEMMA FreshMaps ==
    ASSUME IInv, NEW t \in Tasks
    PROVE  /\ Empty(t) \in State /\ Within(Empty(t), file)
           /\ Merged(Empty(t), file) \in State /\ Within(Merged(Empty(t), file), file)
  <1>1. file \in State /\ InSequence(file)
    BY DEF IInv, TypeOK
  <1>2. Empty(t) \in State /\ Within(Empty(t), file)
    BY EmptyType DEF Within
  <1>3. QED
    BY <1>1, <1>2, MergedOK

\* A process that ends, by itself or not, leaves nothing behind but its lock.
LEMMA ExitStep ==
    ASSUME IInv, NEW p \in Procs, Exit(p), file' = file, TypesLeft,
           lockFile' \in Procs \cup {"none"},
           \A q \in Procs : q # p /\ proc[q].stage \in Holding => lockFile' = q
    PROVE  IInv'
  <1> DEFINE b == NoCall(proc[p].task)
             m == Empty(proc[p].task)
  <1>1. proc[p].task \in Tasks
    BY DEF IInv, TypeOK
  <1>2. b \in ProcRec /\ b.stage = "idle"
    BY <1>1, NoCallType
  <1>3. m \in State /\ Within(m, file)
    BY <1>1, FreshMaps
  <1>4. proc' = [proc EXCEPT ![p] = b] /\ mem' = [mem EXCEPT ![p] = m]
    BY DEF Exit
  <1> HIDE DEF b, m
  <1>5. Ready(p, b, m) /\ b.stage \notin Holding
    BY <1>2, <1>3 DEF Ready, Holding
  <1>6. QED
    BY <1>4, <1>5, ProcStep

\* A step of p that leaves the lock file alone leaves the other processes theirs.
LEMMA OthersHold ==
    ASSUME IInv, lockFile' = lockFile
    PROVE  /\ lockFile' \in Procs \cup {"none"}
           /\ \A q \in Procs : proc[q].stage \in Holding => lockFile' = q
  BY DEF IInv, TypeOK, Excl

\* runTick, up to the call of claimTask.
LEMMA TickSteps ==
    ASSUME IInv, NEW p \in Procs, Tick(p)
    PROVE  IInv'
  <1>0. /\ proc \in [Procs -> ProcRec] /\ proc[p] \in ProcRec /\ proc[p].task \in Tasks
        /\ mem \in [Procs -> State] /\ mem[p] \in State
    BY DEF IInv, TypeOK, ProcRec
  <1>1. UNCHANGED <<file, lockFile, over, granted, crashes>>
    BY DEF Tick, StartTick, EndTick, AskFor
  <1>2. TypesLeft
    BY <1>1 DEF TypesLeft, IInv, TypeOK
  <1>3. CASE StartTick(p)
    <2> DEFINE b == [proc[p] EXCEPT !.stage = "ticking", !.todo = Tasks]
               m == Merged(Empty(proc[p].task), file)
    <2>1. b \in ProcRec /\ b.stage = "ticking"
      BY <1>0 DEF ProcRec, Stages
    <2>2. m \in State /\ Within(m, file)
      BY <1>0, FreshMaps
    <2>3. proc' = [proc EXCEPT ![p] = b] /\ mem' = [mem EXCEPT ![p] = m]
      BY <1>0, <1>3 DEF StartTick
    <2> HIDE DEF b, m
    <2>4. Ready(p, b, m) /\ b.stage \notin Holding
      BY <2>1, <2>2 DEF Ready, Holding
    <2>5. QED
      BY <1>1, <1>2, <2>3, <2>4, OthersHold, ProcStep
  <1>4. CASE EndTick(p)
    <2>1. Exit(p)
      BY <1>4 DEF EndTick
    <2>2. QED
      BY <1>1, <1>2, <2>1, OthersHold, ExitStep
  <1>5. ASSUME NEW t \in Tasks, AskFor(p, t) PROVE IInv'
    <2> DEFINE todo == proc[p].todo \ {t}
               b == [stage |-> "waiting", op |-> "claimTask", lease |-> 0, task |-> t, todo |-> todo]
               ss == [mem[p].state EXCEPT ![t] = "ready"]
               m == [mem[p] EXCEPT !.state = ss]
    <2>1. todo \in SUBSET Tasks /\ 0 \in 0..MaxLeases /\ ss \in [Tasks -> {"none", "ready", "claimed"}]
      BY <1>0, BrokerAssumption DEF ProcRec, State
    <2>2. proc' = [proc EXCEPT ![p] = b] /\ mem' = [mem EXCEPT ![p] = m]
      BY <1>0, <1>5 DEF AskFor, State
    <2>3. proc[p].stage = "ticking"
      BY <1>5 DEF AskFor
    <2> HIDE DEF todo, ss
    <2>4. b \in ProcRec /\ b.stage = "waiting" /\ b.op = "claimTask"
      BY <2>1 DEF ProcRec, Stages, Operations
    <2>5. m \in State /\ m.leases = mem[p].leases
      BY <1>0, <2>1 DEF State
    <2> HIDE DEF b, m
    <2>6. Within(m, file)
      BY <2>3, <2>5 DEF IInv, Reads, Within
    <2>7. Ready(p, b, m) /\ b.stage \notin Holding
      BY <2>4, <2>5, <2>6 DEF Ready, Holding
    <2>8. QED
      BY <1>1, <1>2, <2>2, <2>7, OthersHold, ProcStep
  <1>6. QED
    BY <1>3, <1>4, <1>5 DEF Tick

\* A heartbeat, release or expiry is asked for.
LEMMA CallStep ==
    ASSUME IInv, NEW p \in Procs, NEW op \in Ops, NEW l \in Leases, Call(p, op, l)
    PROVE  IInv'
  <1> DEFINE b == [stage |-> "waiting", op |-> op, lease |-> l, task |-> proc[p].task, todo |-> {}]
             m == Merged(Empty(proc[p].task), file)
  <1>1. proc[p].task \in Tasks /\ l \in 0..MaxLeases
    BY BrokerAssumption DEF IInv, TypeOK, Leases
  <1>2. b \in ProcRec /\ b.stage = "waiting" /\ b.op = op /\ b.lease = l
    BY <1>1 DEF ProcRec, Stages, Operations
  <1>3. m \in State /\ Within(m, file)
    BY <1>1, FreshMaps
  <1>4. proc' = [proc EXCEPT ![p] = b] /\ mem' = [mem EXCEPT ![p] = m]
    BY DEF Call
  <1>5. TypesLeft /\ UNCHANGED <<file, lockFile>>
    BY DEF TypesLeft, IInv, TypeOK, Call
  <1> HIDE DEF b, m
  <1>6. Ready(p, b, m) /\ b.stage \notin Holding
    BY <1>2, <1>3 DEF Ready, Holding
  <1>7. QED
    BY <1>4, <1>5, <1>6, OthersHold, ProcStep

\* A call returns without a grant.
LEMMA ReturnStep ==
    ASSUME IInv, NEW p \in Procs, Return(p), proc[p].stage # "saving", file' = file, TypesLeft,
           lockFile' \in Procs \cup {"none"},
           \A q \in Procs : q # p /\ proc[q].stage \in Holding => lockFile' = q
    PROVE  IInv'
  <1>1. CASE proc[p].op # "claimTask"
    <2>1. Exit(p)
      BY <1>1 DEF Return
    <2>2. QED
      BY <2>1, ExitStep
  <1>2. CASE proc[p].op = "claimTask"
    <2> DEFINE b == [proc[p] EXCEPT !.stage = "ticking", !.op = "none", !.lease = 0]
               m == mem[p]
    <2>1. proc \in [Procs -> ProcRec] /\ proc[p] \in ProcRec /\ mem \in [Procs -> State] /\ m \in State
      BY DEF IInv, TypeOK, ProcRec
    <2>2. 0 \in 0..MaxLeases
      BY BrokerAssumption
    <2>3. b \in ProcRec /\ b.stage = "ticking"
      BY <2>1, <2>2 DEF ProcRec, Stages, Operations
    <2>4. proc' = [proc EXCEPT ![p] = b] /\ mem' = [mem EXCEPT ![p] = m]
      BY <1>2, <2>1 DEF Return
    <2>5. Within(m, file)
      BY DEF IInv, Reads
    <2> HIDE DEF b, m
    <2>6. Ready(p, b, m) /\ b.stage \notin Holding
      BY <2>1, <2>3, <2>5 DEF Ready, Holding
    <2>7. QED
      BY <2>4, <2>6, ProcStep
  <1>3. QED
    BY <1>1, <1>2

\* acquireLock gives up.
LEMMA TimeoutStep ==
    ASSUME IInv, NEW p \in Procs, LockTimeout(p)
    PROVE  IInv'
  <1>1. TypesLeft /\ UNCHANGED <<file, lockFile>> /\ Return(p) /\ proc[p].stage # "saving"
    BY DEF TypesLeft, IInv, TypeOK, LockTimeout
  <1>2. QED
    BY <1>1, OthersHold, ReturnStep

\* A process dies; its lock file stays.
LEMMA CrashStep ==
    ASSUME IInv, NEW p \in Procs, Crash(p)
    PROVE  IInv'
  <1>1. crashes' \in 0..MaxCrashes
    BY BrokerAssumption DEF IInv, TypeOK, Crash
  <1>2. TypesLeft /\ UNCHANGED <<file, lockFile>> /\ Exit(p)
    BY <1>1 DEF TypesLeft, IInv, TypeOK, Crash
  <1>3. QED
    BY <1>2, OthersHold, ExitStep

\* A save fails: the state file is as it was and the lock is released.
LEMMA SaveFailsStep ==
    ASSUME IInv, NEW p \in Procs, SaveFails(p)
    PROVE  IInv'
  <1>1. crashes' \in 0..MaxCrashes
    BY BrokerAssumption DEF IInv, TypeOK, SaveFails
  <1>2. TypesLeft /\ file' = file /\ lockFile' = "none" /\ Exit(p)
    BY <1>1 DEF TypesLeft, IInv, TypeOK, SaveFails
  <1>3. \A q \in Procs : q # p /\ proc[q].stage \in Holding => lockFile' = q
    BY DEF IInv, Excl, Holding, SaveFails
  <1>4. QED
    BY <1>2, <1>3, ExitStep

\* releaseLock: only the holder gets there.
LEMMA UnlockStep ==
    ASSUME IInv, NEW p \in Procs, Unlock(p)
    PROVE  IInv'
  <1>1. proc[p].stage = "unlocking" /\ lockFile' = "none" /\ UNCHANGED <<file, over, crashes>>
    BY DEF Unlock
  <1>2. \A q \in Procs : q # p /\ proc[q].stage \in Holding => lockFile' = q
    BY <1>1 DEF IInv, Excl, Holding
  <1>3. granted' \in [Leases -> Nat]
    <2>1. granted \in [Leases -> Nat] /\ proc[p].lease \in 0..MaxLeases
      BY DEF IInv, TypeOK
    <2>2. proc[p].lease # 0 => proc[p].lease \in Leases
      BY <2>1, BrokerAssumption DEF Leases
    <2>3. QED
      BY <2>1, <2>2 DEF Unlock, WasGranted
  <1>4. TypesLeft
    BY <1>1, <1>3 DEF TypesLeft, IInv, TypeOK
  <1>5. Exit(p) \/ Return(p)
    BY DEF Unlock
  <1>6. QED
    BY <1>1, <1>2, <1>4, <1>5, ExitStep, ReturnStep

\* Under the lock the maps follow the file, and are saved only after a success.
LEMMA WorkStep ==
    ASSUME IInv, NEW p \in Procs, LockAndWork(p)
    PROVE  IInv'
  <1> DEFINE s == Merged(mem[p], file)
             t == proc[p].task
             l == proc[p].lease
             w == Swept(s, t)
             done == IF proc[p].op = "claimTask" THEN CanClaim(w, t) ELSE Succeeds(s, proc[p].op, l)
             m == IF proc[p].op # "claimTask" THEN Effect(s, proc[p].op, l)
                  ELSE IF done THEN Claimed(w, t) ELSE w
             st == IF done THEN "saving" ELSE "unlocking"
             n == IF done /\ proc[p].op = "claimTask" THEN s.seq + 1 ELSE l
             b == [proc[p] EXCEPT !.stage = st, !.lease = n]
  <1>1. /\ proc \in [Procs -> ProcRec] /\ proc[p] \in ProcRec /\ t \in Tasks /\ l \in 0..MaxLeases
        /\ mem \in [Procs -> State] /\ mem[p] \in State /\ file \in State
        /\ proc[p].stage = "waiting" /\ lockFile = "none" /\ lockFile' = p
        /\ UNCHANGED <<file, over, granted, crashes>>
    BY DEF IInv, TypeOK, ProcRec, LockAndWork, LockIsFree
  <1>2. /\ proc' = [proc EXCEPT ![p] = b] /\ mem' = [mem EXCEPT ![p] = m]
    BY <1>1 DEF LockAndWork
  <1>3. Within(mem[p], file) /\ InSequence(file)
        /\ ("expireLease" \notin Ops => ActiveIsHolder(file))
        /\ (proc[p].op # "claimTask" => proc[p].op \in Ops /\ l \in Leases)
    BY <1>1 DEF IInv, Reads, Held, Calls
  <1>4. /\ s \in State /\ s.seq = file.seq /\ InSequence(s) /\ Follows(file, s) /\ Within(s, file)
        /\ ActiveIsHolder(file) => ActiveIsHolder(s)
    BY <1>1, <1>3, MergedOK
  <1> HIDE DEF s, t, l
  <1>5. Tidy(s, w) /\ (ActiveIsHolder(s) => ActiveIsHolder(w))
    BY <1>1, <1>4, SweptTidy
  <1>6. w \in State /\ w.seq = s.seq /\ InSequence(w) /\ Follows(file, w) /\ Within(w, file)
    BY <1>1, <1>4, <1>5, TidyFollows DEF Tidy
  <1> HIDE DEF w
  <1>7. CASE proc[p].op # "claimTask"
    <2>1. m = Effect(s, proc[p].op, l) /\ n = l
      BY <1>7
    <2>2. Tidy(s, Effect(s, proc[p].op, l)) /\
          ("expireLease" \notin Ops /\ ActiveIsHolder(s) => ActiveIsHolder(Effect(s, proc[p].op, l)))
      BY <1>3, <1>4, <1>7, EffectTidy
    <2> HIDE DEF m
    <2>3. m \in State /\ InSequence(m) /\ Follows(file, m) /\ Within(m, file)
      BY <1>1, <1>4, <2>1, <2>2, TidyFollows DEF Tidy
    <2>4. "expireLease" \notin Ops => ActiveIsHolder(m)
      BY <1>3, <1>4, <2>1, <2>2
    <2>5. st \in {"saving", "unlocking"}
      OBVIOUS
    <2> HIDE DEF st, n
    <2>6. b \in ProcRec /\ b.stage = st
      BY <1>1, <2>1, <2>5 DEF ProcRec, Stages
    <2> HIDE DEF b
    <2>7. Ready(p, b, m) /\ b.stage \in Holding
      BY <2>3, <2>4, <2>5, <2>6 DEF Ready, Holding
    <2>8. TypesLeft /\ lockFile' \in Procs \cup {"none"}
      BY <1>1 DEF TypesLeft, IInv, TypeOK
    <2>9. \A q \in Procs : proc[q].stage \notin Holding
      BY <1>1, BrokerAssumption DEF IInv, Excl
    <2>10. QED
      BY <1>1, <1>2, <2>7, <2>8, <2>9, ProcStep
  <1>8. CASE proc[p].op = "claimTask"
    <2>1. st \in {"saving", "unlocking"} /\ (st = "saving" <=> done)
      OBVIOUS
    <2>2. done = CanClaim(w, t) /\ m = IF done THEN Claimed(w, t) ELSE w
      BY <1>8
    <2>3. n = IF done THEN s.seq + 1 ELSE l
      BY <1>8
    <2> HIDE DEF st, n, m, done
    <2>4. ASSUME done PROVE Ready(p, b, m)
      <3>1. w.seq < MaxLeases
        BY <2>2, <2>4 DEF CanClaim
      <3>2. m = Claimed(w, t) /\ m \in State /\ w.seq + 1 \in Leases
        BY <1>1, <1>6, <2>2, <2>4, <3>1, ClaimedFields
      <3>3. InSequence(m) /\ Follows(file, m)
        BY <1>1, <1>3, <1>4, <1>6, <3>1, <3>2, ClaimedFollows
      <3>4. "expireLease" \notin Ops => ActiveIsHolder(m)
        BY <1>1, <1>3, <1>4, <1>5, <1>6, <2>2, <2>4, <3>2, ClaimedHeld
      <3>5. n \in 0..MaxLeases
        BY <1>6, <2>3, <2>4, <3>2, BrokerAssumption DEF Leases
      <3>6. b \in ProcRec /\ b.stage = "saving"
        BY <1>1, <2>1, <2>4, <3>5 DEF ProcRec, Stages
      <3> HIDE DEF b
      <3>7. QED
        BY <3>2, <3>3, <3>4, <3>6 DEF Ready
    <2>5. ASSUME ~done PROVE Ready(p, b, m)
      <3>1. m = w /\ n = l
        BY <2>2, <2>3, <2>5
      <3>2. b \in ProcRec /\ b.stage = "unlocking"
        BY <1>1, <2>1, <2>5, <3>1 DEF ProcRec, Stages
      <3> HIDE DEF b
      <3>3. QED
        BY <1>6, <3>1, <3>2 DEF Ready
    <2>6. TypesLeft /\ lockFile' \in Procs \cup {"none"}
      BY <1>1 DEF TypesLeft, IInv, TypeOK
    <2>7. \A q \in Procs : proc[q].stage \notin Holding
      BY <1>1, BrokerAssumption DEF IInv, Excl
    <2> HIDE DEF b
    <2>8. Ready(p, b, m)
      BY <2>4, <2>5
    <2>9. QED
      BY <1>1, <1>2, <2>6, <2>7, <2>8, ProcStep
  <1>9. QED
    BY <1>7, <1>8

\* The file is replaced by maps that follow it; the lock keeps out everybody else.
LEMMA SaveStep ==
    ASSUME IInv, NEW p \in Procs, Save(p)
    PROVE  IInv' /\ Follows(file, file')
  <1> DEFINE b == [proc[p] EXCEPT !.stage = "unlocking"]
  <1>1. TypeOK /\ Excl /\ Calls /\ InSequence(file) /\ Reads /\ Saves /\ ("expireLease" \notin Ops => Held)
    BY DEF IInv
  <1>2. /\ proc \in [Procs -> ProcRec] /\ proc[p] \in ProcRec
        /\ proc[p].stage = "saving" /\ file' = mem[p] /\ mem[p] \in State /\ over' \subseteq Leases
        /\ UNCHANGED <<mem, lockFile, granted, crashes>>
    BY <1>1 DEF TypeOK, ProcRec, Save
  <1>3. proc' = [proc EXCEPT ![p] = b]
    BY <1>2 DEF Save
  <1>4. b \in ProcRec /\ b.stage = "unlocking"
    BY <1>2 DEF ProcRec, Stages
  <1> HIDE DEF b
  <1>5. proc'[p] = b /\ \A q \in Procs : q # p => proc'[q] = proc[q]
    BY <1>2, <1>3
  <1>6. InSequence(mem[p]) /\ Follows(file, mem[p])
    BY <1>1, <1>2 DEF Saves
  <1>7. \A q \in Procs : q # p => proc[q].stage \notin Holding
    BY <1>1, <1>2 DEF Excl, Holding
  <1>8. TypeOK'
    BY <1>1, <1>2, <1>3, <1>4 DEF TypeOK, ProcRec
  <1>9. Excl'
    BY <1>1, <1>2, <1>5, <1>7 DEF Excl, Holding
  <1>10. Calls'
    BY <1>1, <1>4, <1>5 DEF Calls
  <1>11. InSequence(file)'
    BY <1>2, <1>6 DEF InSequence
  <1>12. Reads'
    <2>1. ASSUME NEW q \in Procs PROVE Within(mem[q], mem[p])
      <3>1. CASE q = p
        BY <3>1 DEF Within
      <3>2. CASE q # p
        <4>1. Within(mem[q], file)
          BY <1>1, <1>7, <3>2 DEF Reads, Holding
        <4>2. QED
          BY <1>6, <4>1 DEF Within, Follows
      <3>3. QED
        BY <3>1, <3>2
    <2>2. QED
      BY <1>2, <2>1 DEF Reads
  <1>13. Saves'
    BY <1>4, <1>5, <1>7 DEF Saves, Holding
  <1>14. ASSUME "expireLease" \notin Ops PROVE Held'
    <2>1. ActiveIsHolder(mem[p])
      BY <1>1, <1>2, <1>14 DEF Held
    <2>2. \A q \in Procs : proc'[q].stage # "saving"
      BY <1>4, <1>5, <1>7 DEF Holding
    <2>3. ActiveIsHolder(file)'
      BY <1>2, <2>1 DEF ActiveIsHolder
    <2>4. QED
      BY <2>2, <2>3 DEF Held
  <1>15. QED
    BY <1>2, <1>6, <1>8, <1>9, <1>10, <1>11, <1>12, <1>13, <1>14 DEF IInv

\* Time passes.
LEMMA LeaseEndsStep ==
    ASSUME IInv, NEW l \in Leases, LeaseEnds(l)
    PROVE  IInv'
  <1>1. over' \subseteq Leases /\ UNCHANGED <<file, mem, lockFile, proc, granted, crashes>>
    BY DEF IInv, TypeOK, LeaseEnds
  <1>2. TypeOK'
    BY <1>1 DEF IInv, TypeOK
  <1>3. Excl' /\ Calls' /\ InSequence(file)' /\ Reads' /\ Saves'
    BY <1>1 DEF IInv, Excl, Calls, InSequence, Reads, Saves
  <1>4. ASSUME "expireLease" \notin Ops PROVE Held'
    BY <1>1, <1>4 DEF IInv, Held, ActiveIsHolder
  <1>5. QED
    BY <1>2, <1>3, <1>4 DEF IInv

----------------------------------------------------------------------------
(* Theorems *)

\* No process has called anything.
LEMMA InitInv == Init => IInv
  <1> SUFFICES ASSUME Init PROVE IInv
    OBVIOUS
  <1>1. PICK t \in Tasks :
          /\ file = Empty(t)
          /\ mem = [p \in Procs |-> Empty(t)]
          /\ lockFile = "none"
          /\ proc = [p \in Procs |-> NoCall(t)]
          /\ over = {}
          /\ granted = [l \in Leases |-> 0]
          /\ crashes = 0
    BY DEF Init
  <1>2. Empty(t) \in State /\ Empty(t).seq = 0 /\ \A l \in Leases : Empty(t).leases[l].status = "none"
    BY EmptyType
  <1>3. NoCall(t) \in ProcRec /\ NoCall(t).stage = "idle"
    BY NoCallType
  <1>4. TypeOK
    BY <1>1, <1>2, <1>3, BrokerAssumption DEF TypeOK, ProcRec
  <1>5. Excl /\ Calls /\ Saves
    BY <1>1, <1>3 DEF Excl, Calls, Saves, Holding
  <1>6. InSequence(file) /\ Reads
    BY <1>1, <1>2 DEF InSequence, Reads, Within
  <1>7. Held
    BY <1>1, <1>2, <1>3 DEF Held, ActiveIsHolder
  <1>8. QED
    BY <1>4, <1>5, <1>6, <1>7 DEF IInv

\* The state file is unchanged, or follows the one before.
LEMMA StepInv ==
    ASSUME IInv, [Next]_vars
    PROVE  IInv' /\ (file' = file \/ Follows(file, file'))
  <1>1. CASE UNCHANGED vars
    <2>1. TypeOK' /\ Excl' /\ Calls' /\ InSequence(file)' /\ Reads' /\ Saves'
      BY <1>1 DEF vars, IInv, TypeOK, Excl, Calls, InSequence, Reads, Saves
    <2>2. ASSUME "expireLease" \notin Ops PROVE Held'
      BY <1>1, <2>2 DEF vars, IInv, Held, ActiveIsHolder
    <2>3. QED
      BY <1>1, <2>1, <2>2 DEF vars, IInv
  <1>2. ASSUME NEW p \in Procs, Tick(p)
        PROVE  IInv' /\ file' = file
    BY <1>2, TickSteps DEF Tick, StartTick, EndTick, AskFor
  <1>3. ASSUME NEW p \in Procs, LockAndWork(p) \/ Unlock(p) \/ LockTimeout(p) \/ Crash(p) \/ SaveFails(p)
        PROVE  IInv' /\ file' = file
    BY <1>3, WorkStep, UnlockStep, TimeoutStep, CrashStep, SaveFailsStep
       DEF LockAndWork, Unlock, LockTimeout, Crash, SaveFails
  <1>4. ASSUME NEW p \in Procs, NEW op \in Ops, NEW l \in Leases, Call(p, op, l)
        PROVE  IInv' /\ file' = file
    BY <1>4, CallStep DEF Call
  <1>5. ASSUME NEW l \in Leases, LeaseEnds(l)
        PROVE  IInv' /\ file' = file
    BY <1>5, LeaseEndsStep DEF LeaseEnds
  <1>6. ASSUME NEW p \in Procs, Save(p)
        PROVE  IInv' /\ Follows(file, file')
    BY <1>6, SaveStep
  <1>7. QED
    BY <1>1, <1>2, <1>3, <1>4, <1>5, <1>6 DEF Next, Work

\* The invariant holds in every reachable state.
THEOREM Inductive == Spec => []IInv
  <1>1. IInv /\ [Next]_vars => IInv'
    BY StepInv
  <1>2. QED
    BY <1>1, InitInv, PTL DEF Spec

\* For any tasks, processes and bounds every variable keeps its type.
THEOREM TypeCorrect == Spec => []TypeOK
  <1>1. IInv => TypeOK
    BY DEF IInv
  <1>2. QED
    BY <1>1, Inductive, PTL

\* For any tasks, processes and crashes: as long as expireLease is not called,
\* two agents never work under leases of the same task, whatever each process
\* read before it took the lock file.
THEOREM OneHolderPerTask == Spec => []("expireLease" \notin Ops => OneHolder)
  <1>1. IInv => ("expireLease" \notin Ops => OneHolder)
    BY DEF IInv, Held, ActiveIsHolder, OneHolder, Running
  <1>2. QED
    BY <1>1, Inductive, PTL

\* For any tasks and processes, expireLease included: the save of one process
\* never undoes a release or an expiry that another has saved, and the sequence
\* of lease ids never goes back.
THEOREM EndedIsFinal == Spec => EndedStaysEnded
  <1>1. ASSUME IInv, [Next]_vars
        PROVE  /\ file'.seq >= file.seq
               /\ \A l \in Leases : file.leases[l].status \in {"expired", "released"}
                                      => file'.leases[l].status \in {"expired", "released"}
    <2>1. file.seq \in Nat
      BY <1>1, BrokerAssumption DEF IInv, TypeOK, State
    <2>2. QED
      BY <1>1, <2>1, StepInv DEF Follows
  <1>2. QED
    BY <1>1, Inductive, PTL DEF Spec, EndedStaysEnded
=============================================================================
