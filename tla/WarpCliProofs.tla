---------------------------- MODULE WarpCliProofs ----------------------------
(* Proofs about WarpCli for any number of commands, services and edits.       *)
EXTENDS WarpCli, ApplyLockProofs

\* A command is between its pipeline and its clean-up only while it holds the
\* lock.
PhaseLocked ==
  \A p \in Procs :
    /\ phase[p] \in {"exec", "applied", "read", "saved"} => pc[p] = "critical"
    /\ phase[p] = "out" => pc[p] = "idle"
    /\ phase[p] = "loaded" => pc[p] \in {"idle", "opened"} /\ next[p] = 1
    /\ pc[p] = "opened" => phase[p] = "loaded"
    /\ phase[p] = "applied" => cmd[p] = "apply"
    /\ phase[p] # "out" => cmd[p] \in {"apply", "rollback"} /\ cfg[p] \in Versions

\* The services a command has passed run its configuration.
Progressed ==
  ~strayed => \A p \in Procs :
    /\ phase[p] = "exec" => \A s \in 1..Services : s < next[p] => live[s] = cfg[p]
    /\ phase[p] \in {"applied", "read"} => \A s \in 1..Services : live[s] = cfg[p]

\* What a command will store is what it applies, unless the file was edited.
BytesMatch ==
  \A p \in Procs :
    /\ (p \notin edited /\ cmd[p] = "apply" /\ phase[p] \in {"loaded", "exec", "applied"})
         => site = cfg[p]
    /\ (p \notin edited /\ phase[p] = "read") => bytes[p] = cfg[p]
    /\ (phase[p] # "out" /\ cmd[p] = "rollback") => bytes[p] = cfg[p]
    /\ phase[p] = "read" => bytes[p] \in Versions

\* Configurations in hand and in the store have passed Validate.
ValidInHand ==
  ~raced =>
    /\ \A p \in Procs : phase[p] # "out" => cfg[p] \in Valid
    /\ \A i \in 1..Len(revs) : revs[i] \in Valid

\* The inductive invariant.
CliInv ==
  /\ CliTypeOK /\ LockInv
  /\ PhaseLocked /\ Progressed /\ BytesMatch /\ ValidInHand
  /\ LastRevisionIsLive /\ OnlyValidatedRuns

LEMMA CliInitInv == CliInit => CliInv
<1> SUFFICES ASSUME CliInit PROVE CliInv
  OBVIOUS
<1> USE CliAssumption DEF CliInit
<1>1. LockInv
  BY LockInitInv
<1>2. CliTypeOK
  <2>1. 1 \in 1..Services /\ <<>> \in Seq(Versions) /\ 0 \in 0..Len(<<>>)
    OBVIOUS
  <2>2. QED
    BY <1>1, <2>1 DEF CliTypeOK, LockInv
<1>3. QED
  BY <1>1, <1>2 DEF CliInv, LockInit, PhaseLocked, Progressed, BytesMatch, ValidInHand, LastRevisionIsLive, OnlyValidatedRuns

\* A step of a command does with the lock what ApplyLock says, or nothing.
LEMMA CliLockStep == [CliNext]_cliVars => [LockNext]_lockVars
<1> SUFFICES ASSUME [CliNext]_cliVars PROVE [LockNext]_lockVars
  OBVIOUS
<1>1. ASSUME NEW p \in Procs, CliStep(p) PROVE [LockNext]_lockVars
  BY <1>1 DEF CliStep, LoadApply, LoadRollback, Starts, Rejected, LockOpens, LockTaken, LockRefused,
     Activate, ActivateFails, Reread, SaveRevision, SaveFails, Releases, Leaves, Dies, DiesSaving, LockNext,
     LockStep, cliVars
<1>2. ASSUME NEW v \in Versions, Edit(v) PROVE [LockNext]_lockVars
  BY <1>2 DEF Edit
<1>3. QED
  BY <1>1, <1>2 DEF CliNext, cliVars

\* The lock of the commands is the lock of ApplyLock: whatever the commands do
\* around it, they use AcquireLock and its clean-up in the order it expects.
THEOREM CliUsesLock == CliSpec => LockSpec
<1>1. CliInit => LockInit
  BY DEF CliInit
<1>2. QED
  BY <1>1, CliLockStep, PTL DEF CliSpec, LockSpec

LEMMA CliLockInv == CliInv /\ [CliNext]_cliVars => LockInv'
BY CliLockStep, LockStepInv DEF CliInv

\* Only one command is in its pipeline unless a lock file strayed.
LEMMA Alone ==
  ASSUME CliInv, ~strayed, NEW p \in Procs, NEW q \in Procs,
         pc[p] = "critical", pc[q] = "critical"
  PROVE  p = q
BY ExclusiveByInv DEF CliInv, ExclusiveUnlessStrayed, OneApplyAtATime

\* What a Save, complete or cut off, leaves of the store and the services: the
\* revisions are as they were, or one is added that the services run unless the
\* file was edited.
Stored(p) ==
  /\ UNCHANGED <<site, edits, live>>
  /\ revs' \in Seq(Versions) /\ head' \in 0..Len(revs')
  /\ overtaken' \in SUBSET Procs /\ drift' \in BOOLEAN /\ raced' \in BOOLEAN
  /\ ~raced' => ~raced /\ \A i \in 1..Len(revs') : revs'[i] \in Valid
  /\ \/ UNCHANGED <<revs, drift>>
     \/ (~drift' /\ ~strayed) => \A s \in 1..Services : live[s] = revs'[Len(revs')]

LEMMA StoredByLists ==
  ASSUME CliInv, NEW p \in Procs, NEW h, h \in 0..(Len(revs) + 1),
         phase[p] = "read", Lists(p, h), UNCHANGED <<site, edits, live>>
  PROVE  Stored(p)
<1> USE DEF CliInv, Lists
<1>1. /\ bytes[p] \in Versions
      /\ revs' \in Seq(Versions)
      /\ Len(revs) \in Nat
      /\ Len(revs') = Len(revs) + 1
      /\ revs'[Len(revs')] = bytes[p]
      /\ \A i \in 1..Len(revs) : revs'[i] = revs[i]
  BY DEF CliTypeOK, BytesMatch
<1>2. head' \in 0..Len(revs')
  BY <1>1
<1>3. overtaken' \in SUBSET Procs /\ drift' \in BOOLEAN /\ raced' \in BOOLEAN
  BY DEF CliTypeOK
<1>4. ASSUME ~raced' PROVE ~raced /\ \A i \in 1..Len(revs') : revs'[i] \in Valid
  <2>1. ~raced /\ bytes[p] \in Valid
    BY <1>4 DEF ValidInHand, BytesMatch
  <2>2. \A i \in 1..Len(revs') : i \in 1..Len(revs) \/ i = Len(revs')
    BY <1>1
  <2>3. QED
    BY <1>1, <2>1, <2>2 DEF ValidInHand
<1>5. (~drift' /\ ~strayed) => \A s \in 1..Services : live[s] = revs'[Len(revs')]
  BY <1>1 DEF BytesMatch, Progressed
<1>6. QED
  BY <1>1, <1>2, <1>3, <1>4, <1>5 DEF Stored

LEMMA StoredByCut == ASSUME CliInv, NEW p \in Procs, CutSave(p) PROVE Stored(p)
<1> USE DEF CutSave
<1>1. CASE Lists(p, head) \/ Lists(p, 0)
  <2>1. head \in 0..(Len(revs) + 1) /\ 0 \in 0..(Len(revs) + 1)
    BY DEF CliInv, CliTypeOK
  <2>2. QED
    BY <1>1, <2>1, StoredByLists
<1>2. CASE UNCHANGED <<revs, head, drift, raced>> /\ overtaken' = overtaken \ {p}
  BY <1>2 DEF Stored, CliInv, CliTypeOK, ValidInHand
<1>3. QED
  BY <1>1, <1>2

LEMMA CliStepInv == CliInv /\ [CliNext]_cliVars => CliInv'
<1> SUFFICES ASSUME CliInv, [CliNext]_cliVars PROVE CliInv'
  OBVIOUS
<1>0. LockInv' /\ LockTypeOK'
  BY CliLockInv DEF LockInv
<1> USE <1>0, CliAssumption DEF CliInv, diskVarsCli, procVars, ghostVars
<1>1. ASSUME NEW v \in Versions, Edit(v) PROVE CliInv'
  BY <1>1 DEF Edit, CliTypeOK, lockVars, PhaseLocked, Progressed, BytesMatch, ValidInHand, LastRevisionIsLive, OnlyValidatedRuns
<1>2. ASSUME NEW p \in Procs, LoadApply(p) PROVE CliInv'
  BY <1>2 DEF LoadApply, Starts, CliTypeOK, lockVars, PhaseLocked, Progressed, BytesMatch, ValidInHand, LastRevisionIsLive, OnlyValidatedRuns
<1>3. ASSUME NEW p \in Procs, LoadRollback(p) PROVE CliInv'
  <2>1. revs[head - 1] \in Versions /\ head - 1 \in 1..Len(revs)
    BY <1>3 DEF LoadRollback, CliTypeOK
  <2>2. QED
    BY <1>3, <2>1 DEF LoadRollback, Starts, CliTypeOK, lockVars, PhaseLocked, Progressed, BytesMatch, ValidInHand, LastRevisionIsLive, OnlyValidatedRuns
<1>4. ASSUME NEW p \in Procs, LockOpens(p) PROVE CliInv'
  BY <1>4 DEF LockOpens, Open, CliTypeOK, LockTypeOK, PhaseLocked, Progressed, BytesMatch, ValidInHand, LastRevisionIsLive, OnlyValidatedRuns
<1>5. ASSUME NEW p \in Procs, LockTaken(p) PROVE CliInv'
  <2> USE <1>5 DEF LockTaken, FlockOk
  <2>1. CliTypeOK'
    BY DEF CliTypeOK, LockTypeOK
  <2>2. PhaseLocked'
    BY DEF PhaseLocked, CliTypeOK, LockTypeOK
  <2>3. Progressed'
    BY DEF Progressed, PhaseLocked, CliTypeOK, LockTypeOK
  <2>4. BytesMatch'
    BY DEF BytesMatch, PhaseLocked, CliTypeOK
  <2>5. ValidInHand'
    BY DEF ValidInHand, BytesMatch, PhaseLocked, CliTypeOK
  <2>6. LastRevisionIsLive'
    BY DEF LastRevisionIsLive, BytesMatch, Progressed, CliTypeOK
  <2>7. OnlyValidatedRuns'
    BY DEF OnlyValidatedRuns, ValidInHand, CliTypeOK
  <2>8. QED
    BY <2>1, <2>2, <2>3, <2>4, <2>5, <2>6, <2>7
<1>6. ASSUME NEW p \in Procs, LockRefused(p) PROVE CliInv'
  BY <1>6 DEF LockRefused, FlockBusy, Ends, Forgets, CliTypeOK, LockTypeOK, PhaseLocked, Progressed, BytesMatch, ValidInHand, LastRevisionIsLive, OnlyValidatedRuns
<1>7. ASSUME NEW p \in Procs, Activate(p) PROVE CliInv'
  <2> USE <1>7 DEF Activate, MoreServices, lockVars
  <2>0. next' \in [Procs -> 1..Services]
    <3>1. next[p] \in 1..Services /\ next[p] \in Nat
      BY DEF CliTypeOK
    <3>2. next[p] < Services => next[p] + 1 \in 1..Services
      BY <3>1
    <3>3. QED
      BY <3>2 DEF CliTypeOK
  <2>1. CliTypeOK'
    <3>1. live' \in [1..Services -> Versions \union {Factory, Stopped}]
      BY DEF CliTypeOK, PhaseLocked
    <3>2. phase' \in [Procs -> {"out", "loaded", "exec", "applied", "read", "saved", "ended"}]
      BY DEF CliTypeOK
    <3>3. QED
      BY <2>0, <3>1, <3>2 DEF CliTypeOK, LockTypeOK
  <2>2. PhaseLocked'
    BY DEF PhaseLocked, CliTypeOK, LockTypeOK
  <2>3. Progressed'
    BY Alone DEF Progressed, PhaseLocked, CliTypeOK, LockTypeOK
  <2>4. BytesMatch'
    BY DEF BytesMatch, PhaseLocked, CliTypeOK
  <2>5. ValidInHand'
    BY DEF ValidInHand, BytesMatch, PhaseLocked, CliTypeOK
  <2>6. LastRevisionIsLive'
    BY DEF LastRevisionIsLive, BytesMatch, Progressed, CliTypeOK
  <2>7. OnlyValidatedRuns'
    BY DEF OnlyValidatedRuns, ValidInHand, CliTypeOK
  <2>8. QED
    BY <2>1, <2>2, <2>3, <2>4, <2>5, <2>6, <2>7
<1>8. ASSUME NEW p \in Procs, Reread(p) PROVE CliInv'
  <2> USE <1>8 DEF Reread, lockVars
  <2>1. CliTypeOK'
    BY DEF CliTypeOK, LockTypeOK
  <2>2. PhaseLocked'
    BY DEF PhaseLocked, CliTypeOK, LockTypeOK
  <2>3. Progressed'
    BY DEF Progressed, PhaseLocked, CliTypeOK, LockTypeOK
  <2>4. BytesMatch'
    BY DEF BytesMatch, PhaseLocked, CliTypeOK
  <2>5. ValidInHand'
    BY DEF ValidInHand, BytesMatch, PhaseLocked, CliTypeOK
  <2>6. LastRevisionIsLive'
    BY DEF LastRevisionIsLive, BytesMatch, Progressed, CliTypeOK
  <2>7. OnlyValidatedRuns'
    BY DEF OnlyValidatedRuns, ValidInHand, CliTypeOK
  <2>8. QED
    BY <2>1, <2>2, <2>3, <2>4, <2>5, <2>6, <2>7
<1>9. ASSUME NEW p \in Procs, SaveRevision(p) PROVE CliInv'
  <2> USE <1>9 DEF SaveRevision, lockVars
  <2>0. Stored(p)
    <3>1. Len(revs) + 1 \in 0..(Len(revs) + 1)
      BY DEF CliTypeOK
    <3>2. QED
      BY <3>1, StoredByLists
  <2>1. CliTypeOK'
    BY <2>0 DEF Stored, CliTypeOK, LockTypeOK
  <2>2. PhaseLocked'
    BY DEF PhaseLocked, CliTypeOK, LockTypeOK
  <2>3. Progressed'
    BY DEF Progressed, PhaseLocked, CliTypeOK, LockTypeOK
  <2>4. BytesMatch'
    BY DEF BytesMatch, PhaseLocked, CliTypeOK
  <2>5. ValidInHand'
    BY <2>0 DEF Stored, ValidInHand, CliTypeOK
  <2>6. LastRevisionIsLive'
    BY <2>0 DEF Stored, LastRevisionIsLive
  <2>7. OnlyValidatedRuns'
    BY <2>0 DEF Stored, OnlyValidatedRuns
  <2>8. QED
    BY <2>1, <2>2, <2>3, <2>4, <2>5, <2>6, <2>7
<1>10. ASSUME NEW p \in Procs, SaveFails(p) PROVE CliInv'
  <2> USE <1>10 DEF SaveFails, lockVars
  <2>0. Stored(p) /\ phase[p] = "read"
    BY StoredByCut DEF CutSave
  <2>1. CliTypeOK'
    BY <2>0 DEF Stored, CliTypeOK, LockTypeOK
  <2>2. PhaseLocked'
    BY <2>0 DEF PhaseLocked, CliTypeOK, LockTypeOK
  <2>3. Progressed'
    BY <2>0 DEF Stored, Progressed, PhaseLocked, CliTypeOK, LockTypeOK
  <2>4. BytesMatch'
    BY <2>0 DEF Stored, BytesMatch, PhaseLocked, CliTypeOK
  <2>5. ValidInHand'
    BY <2>0 DEF Stored, ValidInHand, CliTypeOK
  <2>6. LastRevisionIsLive'
    BY <2>0 DEF Stored, LastRevisionIsLive
  <2>7. OnlyValidatedRuns'
    BY <2>0 DEF Stored, OnlyValidatedRuns
  <2>8. QED
    BY <2>1, <2>2, <2>3, <2>4, <2>5, <2>6, <2>7
<1>11. ASSUME NEW p \in Procs, Releases(p) PROVE CliInv'
  BY <1>11 DEF Releases, Unlock, Close, CliTypeOK, LockTypeOK, PhaseLocked, Progressed, BytesMatch, ValidInHand, LastRevisionIsLive, OnlyValidatedRuns
<1>12. ASSUME NEW p \in Procs, Leaves(p) PROVE CliInv'
  BY <1>12 DEF Leaves, Remove, Ends, Forgets, CliTypeOK, LockTypeOK, PhaseLocked, Progressed, BytesMatch, ValidInHand, LastRevisionIsLive, OnlyValidatedRuns
<1>13. ASSUME NEW p \in Procs, Dies(p) PROVE CliInv'
  <2> USE <1>13 DEF Dies, Die, Ends, Forgets, lockVars
  <2>1. CliTypeOK'
    BY DEF CliTypeOK, LockTypeOK
  <2>2. PhaseLocked'
    BY DEF PhaseLocked, CliTypeOK, LockTypeOK
  <2>3. Progressed'
    BY DEF Progressed, PhaseLocked, CliTypeOK, LockTypeOK
  <2>4. BytesMatch'
    BY DEF BytesMatch, PhaseLocked, CliTypeOK
  <2>5. ValidInHand'
    BY DEF ValidInHand, BytesMatch, PhaseLocked, CliTypeOK
  <2>6. LastRevisionIsLive'
    BY DEF LastRevisionIsLive, BytesMatch, Progressed, CliTypeOK
  <2>7. OnlyValidatedRuns'
    BY DEF OnlyValidatedRuns, ValidInHand, CliTypeOK
  <2>8. QED
    BY <2>1, <2>2, <2>3, <2>4, <2>5, <2>6, <2>7
<1>14. ASSUME NEW p \in Procs, ActivateFails(p) PROVE CliInv'
  <2> USE <1>14 DEF ActivateFails, Die, Ends, Forgets
  <2>0. strayed' = strayed /\ pc[p] = "critical" /\ cfg[p] \in Versions
    BY DEF PhaseLocked
  <2>1. CliTypeOK'
    <3>1. live' \in [1..Services -> Versions \union {Factory, Stopped}]
      BY <2>0 DEF CliTypeOK
    <3>2. QED
      BY <3>1 DEF CliTypeOK, LockTypeOK
  <2>2. PhaseLocked'
    BY DEF PhaseLocked, CliTypeOK, LockTypeOK
  <2>3. Progressed'
    BY <2>0, Alone DEF Progressed, PhaseLocked, CliTypeOK, LockTypeOK
  <2>4. BytesMatch'
    BY DEF BytesMatch, PhaseLocked, CliTypeOK
  <2>5. ValidInHand'
    BY DEF ValidInHand, BytesMatch, PhaseLocked, CliTypeOK
  <2>6. LastRevisionIsLive'
    BY DEF LastRevisionIsLive
  <2>7. OnlyValidatedRuns'
    BY DEF OnlyValidatedRuns, ValidInHand, CliTypeOK
  <2>8. QED
    BY <2>1, <2>2, <2>3, <2>4, <2>5, <2>6, <2>7
<1>15. ASSUME NEW p \in Procs, DiesSaving(p) PROVE CliInv'
  <2> USE <1>15 DEF DiesSaving, Die, Forgets
  <2>0. Stored(p) /\ phase[p] = "read" /\ strayed' = strayed
    BY StoredByCut DEF CutSave
  <2>1. CliTypeOK'
    BY <2>0 DEF Stored, CliTypeOK, LockTypeOK
  <2>2. PhaseLocked'
    BY <2>0 DEF PhaseLocked, CliTypeOK, LockTypeOK
  <2>3. Progressed'
    BY <2>0 DEF Stored, Progressed, PhaseLocked, CliTypeOK, LockTypeOK
  <2>4. BytesMatch'
    BY <2>0 DEF Stored, BytesMatch, PhaseLocked, CliTypeOK
  <2>5. ValidInHand'
    BY <2>0 DEF Stored, ValidInHand, CliTypeOK
  <2>6. LastRevisionIsLive'
    BY <2>0 DEF Stored, LastRevisionIsLive
  <2>7. OnlyValidatedRuns'
    BY <2>0 DEF Stored, OnlyValidatedRuns
  <2>8. QED
    BY <2>1, <2>2, <2>3, <2>4, <2>5, <2>6, <2>7
<1>16. CASE UNCHANGED cliVars
  BY <1>16 DEF cliVars, CliTypeOK, lockVars, PhaseLocked, Progressed, BytesMatch, ValidInHand, LastRevisionIsLive, OnlyValidatedRuns
<1>17. QED
  BY <1>1, <1>2, <1>3, <1>4, <1>5, <1>6, <1>7, <1>8, <1>9, <1>10, <1>11, <1>12, <1>13, <1>14, <1>15,
     <1>16
  DEF CliNext, CliStep, Rejected

LEMMA CliInvariance == CliSpec => []CliInv
BY CliInitInv, CliStepInv, PTL DEF CliSpec

\* Every state of the commands is well typed: no activation runs past the last
\* service.
THEOREM CliTypeCorrect == CliSpec => []CliTypeOK
<1>1. CliInv => CliTypeOK
  BY DEF CliInv
<1>2. QED
  BY <1>1, CliInvariance, PTL

\* While the lock excludes, a revision stored without an edit in between is
\* what every service runs, until the next activation.
THEOREM LastRevisionRuns == CliSpec => []LastRevisionIsLive
<1>1. CliInv => LastRevisionIsLive
  BY DEF CliInv
<1>2. QED
  BY <1>1, CliInvariance, PTL

\* Rollback without validation is safe as long as no revision was stored from a
\* file that was edited during its apply.
THEOREM OnlyValidatedConfigurationsRun == CliSpec => []OnlyValidatedRuns
<1>1. CliInv => OnlyValidatedRuns
  BY DEF CliInv
<1>2. QED
  BY <1>1, CliInvariance, PTL

\* A rollback that has read its target and not stored it yet.
Aimed(q) == cmd[q] = "rollback" /\ phase[q] \in {"loaded", "exec", "read"}

\* Listing a revision leaves alone what the rollbacks that are not overtaken by
\* it work on: one that holds the lock would be the command that lists it, and
\* one that waits is overtaken unless current stays.
LEMMA TargetKept ==
  ASSUME CliInv, RollbackTargetsPrevious, ~strayed, NEW p \in Procs, NEW h,
         phase[p] = "read", Lists(p, h),
         NEW q \in Procs, q # p, Aimed(q), q \notin overtaken'
  PROVE  head' >= 2 /\ bytes[q] = revs'[head' - 1]
<1>1. pc[p] = "critical"
  BY DEF CliInv, PhaseLocked
<1>2. phase[q] = "loaded"
  BY <1>1, Alone DEF CliInv, PhaseLocked, Aimed
<1>3. h = head /\ q \notin overtaken
  BY <1>2 DEF Lists, Aimed
<1>4. head >= 2 /\ bytes[q] = revs[head - 1] /\ head' = head
  BY <1>3 DEF RollbackTargetsPrevious, Aimed, Lists
<1>5. revs'[head - 1] = revs[head - 1]
  BY <1>4 DEF Lists, CliInv, CliTypeOK, BytesMatch
<1>6. QED
  BY <1>4, <1>5

LEMMA TargetKeptByCut ==
  ASSUME CliInv, RollbackTargetsPrevious, ~strayed, NEW p \in Procs, CutSave(p),
         NEW q \in Procs, q # p, Aimed(q), q \notin overtaken'
  PROVE  head' >= 2 /\ bytes[q] = revs'[head' - 1]
<1>1. CASE Lists(p, head) \/ Lists(p, 0)
  BY <1>1, TargetKept DEF CutSave
<1>2. CASE UNCHANGED <<revs, head>> /\ overtaken' = overtaken \ {p}
  BY <1>2 DEF RollbackTargetsPrevious, Aimed
<1>3. QED
  BY <1>1, <1>2 DEF CutSave

\* Storing a revision leaves alone what a rollback that holds the lock works on.
LEMMA TargetStep == CliInv /\ RollbackTargetsPrevious /\ [CliNext]_cliVars => RollbackTargetsPrevious'
<1> SUFFICES ASSUME CliInv, RollbackTargetsPrevious, [CliNext]_cliVars PROVE RollbackTargetsPrevious'
  OBVIOUS
<1> USE DEF CliInv, RollbackTargetsPrevious, diskVarsCli, procVars, ghostVars
<1>1. ASSUME NEW p \in Procs, Starts(p, "apply", site, Nothing) PROVE RollbackTargetsPrevious'
  BY <1>1 DEF Starts, CliTypeOK, lockVars
<1>2. ASSUME NEW p \in Procs, LoadRollback(p) PROVE RollbackTargetsPrevious'
  BY <1>2 DEF LoadRollback, Starts, CliTypeOK, lockVars
<1>3. ASSUME NEW p \in Procs, LockTaken(p) PROVE RollbackTargetsPrevious'
  BY <1>3 DEF LockTaken, FlockOk, PhaseLocked, CliTypeOK
<1>4. ASSUME NEW p \in Procs, Activate(p) PROVE RollbackTargetsPrevious'
  BY <1>4 DEF Activate, CliTypeOK, lockVars
<1>5. ASSUME NEW p \in Procs, Reread(p) PROVE RollbackTargetsPrevious'
  BY <1>5 DEF Reread, PhaseLocked, CliTypeOK, lockVars
<1>6. ASSUME NEW p \in Procs, SaveRevision(p) PROVE RollbackTargetsPrevious'
  <2> SUFFICES ASSUME ~strayed', NEW q \in Procs, Aimed(q)', q \notin overtaken'
               PROVE  head' >= 2 /\ bytes'[q] = revs'[head' - 1]
    BY DEF Aimed
  <2>1. phase[p] = "read" /\ ~strayed /\ q # p /\ Aimed(q) /\ bytes'[q] = bytes[q]
    BY <1>6 DEF SaveRevision, Aimed, CliTypeOK, lockVars
  <2>2. QED
    BY <1>6, <2>1, TargetKept DEF SaveRevision
<1>7. ASSUME NEW p \in Procs, SaveFails(p) PROVE RollbackTargetsPrevious'
  <2> SUFFICES ASSUME ~strayed', NEW q \in Procs, Aimed(q)', q \notin overtaken'
               PROVE  head' >= 2 /\ bytes'[q] = revs'[head' - 1]
    BY DEF Aimed
  <2>1. ~strayed /\ q # p /\ Aimed(q) /\ bytes'[q] = bytes[q]
    BY <1>7 DEF SaveFails, Aimed, CliTypeOK, lockVars
  <2>2. QED
    BY <1>7, <2>1, TargetKeptByCut DEF SaveFails
<1>8. ASSUME NEW p \in Procs, Releases(p) PROVE RollbackTargetsPrevious'
  BY <1>8 DEF Releases, Unlock, Close, CliTypeOK
<1>9. ASSUME NEW p \in Procs, Ends(p), UNCHANGED <<revs, head>>, strayed => strayed' PROVE RollbackTargetsPrevious'
  BY <1>9 DEF Ends, Forgets, CliTypeOK
<1>10. ASSUME NEW p \in Procs, LockRefused(p) \/ Leaves(p) \/ Dies(p) \/ ActivateFails(p)
       PROVE  RollbackTargetsPrevious'
  <2>1. Ends(p) /\ UNCHANGED <<revs, head>>
    BY <1>10 DEF LockRefused, Leaves, Dies, ActivateFails
  <2>2. strayed => strayed'
    BY <1>10 DEF LockRefused, FlockBusy, Leaves, Remove, Dies, ActivateFails, Die, lockVars
  <2> QED
    BY <1>9, <2>1, <2>2
<1>11. ASSUME NEW p \in Procs, LockOpens(p) PROVE RollbackTargetsPrevious'
  BY <1>11 DEF LockOpens, Open
<1>12. ASSUME NEW v \in Versions, Edit(v) PROVE RollbackTargetsPrevious'
  BY <1>12 DEF Edit, lockVars
<1>13. ASSUME NEW p \in Procs, DiesSaving(p) PROVE RollbackTargetsPrevious'
  <2> SUFFICES ASSUME ~strayed', NEW q \in Procs, Aimed(q)', q \notin overtaken'
               PROVE  head' >= 2 /\ bytes'[q] = revs'[head' - 1]
    BY DEF Aimed
  <2>1. ~strayed /\ q # p /\ Aimed(q) /\ bytes'[q] = bytes[q]
    BY <1>13 DEF DiesSaving, Die, Forgets, Aimed, CliTypeOK
  <2>2. QED
    BY <1>13, <2>1, TargetKeptByCut DEF DiesSaving
<1>14. CASE UNCHANGED cliVars
  BY <1>14 DEF cliVars, lockVars
<1> QED
  BY <1>1, <1>2, <1>3, <1>4, <1>5, <1>6, <1>7, <1>8, <1>10, <1>11, <1>12, <1>13, <1>14
  DEF CliNext, CliStep, LoadApply, Rejected

\* A rollback goes back to the revision before the current one unless another
\* command stored a revision between its reading and its lock.
THEOREM RollbackHitsPrevious == CliSpec => []RollbackTargetsPrevious
<1>1. CliInit => RollbackTargetsPrevious
  BY DEF CliInit, RollbackTargetsPrevious
<1> QED
  BY <1>1, TargetStep, CliInvariance, PTL DEF CliSpec

-----------------------------------------------------------------------------
(* The commands take turns, as SerialCommands says *)

\* What SerialCommands sees of the command that holds the lock, and that it
\* sees nothing when none does.
OwnerView ==
  /\ \A p \in Procs : pc[p] = "critical" =>
       /\ Owner = p /\ Owner # NoProc /\ Goal = cfg[p] /\ cfg[p] \in Versions
       /\ phase[p] \in {"exec", "applied", "read", "saved", "ended"}
       /\ phase[p] = "exec" => Done = next[p] - 1
       /\ phase[p] \in {"applied", "read"} => Done = Services
       /\ phase[p] \in {"saved", "ended"} => Done = Services + 1
  /\ (\A p \in Procs : pc[p] # "critical") => Owner = NoProc /\ Goal = Nothing /\ Done = 0

LEMMA ViewOfOwner == CliInv /\ ~strayed => OwnerView
<1> SUFFICES ASSUME CliInv, ~strayed PROVE OwnerView
  OBVIOUS
<1>1. ASSUME NEW p \in Procs, pc[p] = "critical" PROVE Owner = p /\ Owner # NoProc
  <2>1. \A q \in Procs : pc[q] = "critical" => q = p
    BY <1>1, Alone
  <2>2. Owner = p
    BY <1>1, <2>1 DEF Owner
  <2>3. QED
    BY <2>2, LockAssumption
<1>2. ASSUME NEW p \in Procs, pc[p] = "critical"
      PROVE  cfg[p] \in Versions /\ phase[p] \in {"exec", "applied", "read", "saved", "ended"}
  BY <1>2 DEF CliInv, CliTypeOK, PhaseLocked
<1>3. ASSUME NEW p \in Procs, pc[p] = "critical"
      PROVE  /\ phase[p] = "exec" => Done = next[p] - 1
             /\ phase[p] \in {"applied", "read"} => Done = Services
             /\ phase[p] \in {"saved", "ended"} => Done = Services + 1
  BY <1>1, <1>3 DEF Done
<1>4. (\A p \in Procs : pc[p] # "critical") => Owner = NoProc
  BY DEF Owner
<1>5. QED
  BY <1>1, <1>2, <1>3, <1>4 DEF OwnerView, Goal, Done

\* A step that leaves the lock with whoever has it, and what that command and
\* SerialCommands have in common, is not seen.
LEMMA UnseenStep ==
  ASSUME OwnerView, OwnerView', UNCHANGED <<live, revs>>,
         \A q \in Procs : /\ pc'[q] = "critical" <=> pc[q] = "critical"
                          /\ pc[q] = "critical" =>
                               /\ cfg'[q] = cfg[q] /\ next'[q] = next[q]
                               /\ phase'[q] = phase[q] \/ (phase[q] = "applied" /\ phase'[q] = "read")
  PROVE  UNCHANGED Serial!serialVars
<1>1. CASE \E q \in Procs : pc[q] = "critical"
  <2>1. PICK q \in Procs : pc[q] = "critical"
    BY <1>1
  <2>2. Owner' = Owner /\ Goal' = Goal
    BY <2>1 DEF OwnerView
  <2>3. Done' = Done
    BY <2>1 DEF OwnerView
  <2>4. QED
    BY <2>2, <2>3 DEF Serial!serialVars
<1>2. CASE \A q \in Procs : pc[q] # "critical"
  BY <1>2 DEF OwnerView, Serial!serialVars
<1>3. QED
  BY <1>1, <1>2

\* A command that gives up the lock, done or not.
LEMMA LetGoStep ==
  ASSUME CliInv, OwnerView, OwnerView', ~strayed, NEW p \in Procs, pc[p] = "critical",
         \A q \in Procs : q # p => pc'[q] = pc[q], pc'[p] # "critical",
         \/ UNCHANGED <<live, revs>>
         \/ /\ phase[p] = "exec"
            /\ \E r \in {cfg[p], Stopped} : live' = [live EXCEPT ![next[p]] = r]
            /\ UNCHANGED revs
         \/ /\ phase[p] = "read"
            /\ \E c \in Versions : revs' = Append(revs, c)
            /\ UNCHANGED live
  PROVE  Serial!LetGo
<1>1. Owner # NoProc /\ Goal = cfg[p]
  BY DEF OwnerView
<1>2. \A q \in Procs : pc'[q] # "critical"
  BY Alone
<1>3. Owner' = NoProc /\ Goal' = Nothing /\ Done' = 0
  BY <1>2 DEF OwnerView
<1>4. phase[p] = "exec" => Done < Services /\ Done + 1 = next[p]
  BY CliAssumption DEF OwnerView, CliInv, CliTypeOK
<1>5. phase[p] = "read" => Done = Services
  BY DEF OwnerView
<1>6. QED
  BY <1>1, <1>3, <1>4, <1>5 DEF Serial!LetGo

LEMMA SerialStep ==
  CliInv /\ CliInv' /\ [CliNext]_cliVars => (~strayed' => [Serial!SerialNext]_(Serial!serialVars))
<1> SUFFICES ASSUME CliInv, CliInv', [CliNext]_cliVars, ~strayed'
             PROVE  [Serial!SerialNext]_(Serial!serialVars)
  OBVIOUS
<1>0. ~strayed
  BY CliLockStep DEF LockNext, LockStep, Open, FlockOk, FlockBusy, Unlock, Close, Remove, Die, lockVars
<1>1. OwnerView
  BY <1>0, ViewOfOwner
<1>2. OwnerView'
  BY ViewOfOwner, PTL
<1> USE <1>0, <1>1, <1>2, CliAssumption DEF diskVarsCli, procVars, ghostVars
<1>3. ASSUME NEW p \in Procs, LoadApply(p) \/ LoadRollback(p) \/ LockOpens(p) \/ LockRefused(p)
                              \/ Reread(p) \/ Leaves(p)
      PROVE  UNCHANGED Serial!serialVars
  BY <1>3, UnseenStep
  DEF LoadApply, LoadRollback, Starts, LockOpens, Open, LockRefused, FlockBusy, Ends, Forgets, Reread, Leaves, Remove,
      lockVars, CliInv, CliTypeOK, LockTypeOK, PhaseLocked
<1>4. ASSUME NEW p \in Procs, LockTaken(p) PROVE Serial!SerialNext
  <2>1. ASSUME NEW q \in Procs, pc[q] = "critical" PROVE FALSE
    <3>1. fd[p] = path /\ fd[q] = path /\ path \in Inodes
      BY <1>4, <2>1 DEF LockTaken, FlockOk, CliInv, LockInv, LockTypeOK
    <3>2. holder[path] = q
      BY <2>1, <3>1 DEF CliInv, LockInv
    <3>3. QED
      BY <1>4, <3>1, <3>2, LockAssumption DEF LockTaken, FlockOk
  <2>2. pc'[p] = "critical" /\ phase'[p] = "exec" /\ next'[p] = 1 /\ cfg'[p] = cfg[p]
    BY <1>4 DEF LockTaken, FlockOk, CliInv, CliTypeOK, LockTypeOK, PhaseLocked
  <2>3. Owner = NoProc /\ Owner' = p /\ Goal' = cfg[p] /\ cfg[p] \in Versions /\ Done' = 0
    BY <2>1, <2>2 DEF OwnerView
  <2>4. Serial!Own(p, cfg[p])
    BY <1>4, <2>3 DEF Serial!Own, LockTaken
  <2>5. QED
    BY <2>3, <2>4 DEF Serial!SerialNext
<1>5. ASSUME NEW p \in Procs, Activate(p) PROVE Serial!SerialNext
  <2>1. /\ pc[p] = "critical" /\ pc'[p] = "critical" /\ next[p] \in 1..Services /\ cfg'[p] = cfg[p]
        /\ next[p] < Services => phase'[p] = "exec" /\ next'[p] = next[p] + 1
        /\ ~(next[p] < Services) => phase'[p] \in {"applied", "read"}
    BY <1>5 DEF Activate, MoreServices, CliInv, CliTypeOK, PhaseLocked, lockVars
  <2>2. Owner = p /\ Owner # NoProc /\ Owner' = p /\ Goal = cfg[p] /\ Goal' = cfg[p]
    BY <2>1 DEF OwnerView
  <2>3. Done = next[p] - 1 /\ Done' = Done + 1 /\ Done < Services
    BY <1>5, <2>1 DEF OwnerView, Activate
  <2>4. live' = [live EXCEPT ![Done + 1] = Goal]
    <3>1. Done + 1 = next[p]
      BY <2>1, <2>3
    <3>2. live' = [live EXCEPT ![next[p]] = cfg[p]]
      BY <1>5 DEF Activate
    <3>3. QED
      BY <2>2, <3>1, <3>2, Zenon
  <2>5. UNCHANGED revs
    BY <1>5 DEF Activate
  <2>6. Serial!Switch
    BY <2>2, <2>3, <2>4, <2>5 DEF Serial!Switch
  <2>7. QED
    BY <2>6 DEF Serial!SerialNext
<1>6. ASSUME NEW p \in Procs, SaveRevision(p) \/ SaveFails(p) PROVE Serial!SerialNext
  <2>1. /\ phase[p] = "read" /\ pc[p] = "critical" /\ pc'[p] = "critical" /\ cfg'[p] = cfg[p]
        /\ phase'[p] \in {"saved", "ended"} /\ bytes[p] \in Versions
    BY <1>6 DEF SaveRevision, SaveFails, CutSave, CliInv, CliTypeOK, PhaseLocked, BytesMatch, lockVars
  <2>2. Owner = p /\ Owner # NoProc /\ Owner' = p /\ Goal' = Goal
    BY <2>1 DEF OwnerView
  <2>3. Done = Services /\ Done' = Services + 1
    BY <2>1 DEF OwnerView
  <2>4. UNCHANGED live /\ (UNCHANGED revs \/ \E c \in Versions : revs' = Append(revs, c))
    BY <1>6, <2>1 DEF SaveRevision, SaveFails, CutSave, Lists
  <2>5. QED
    BY <2>2, <2>3, <2>4 DEF Serial!SerialNext, Serial!Store
<1>7. ASSUME NEW p \in Procs, Releases(p) PROVE [Serial!SerialNext]_(Serial!serialVars)
  <2>1. CASE pc[p] = "critical"
    <3>1. Serial!LetGo
      BY <1>7, <2>1, LetGoStep DEF Releases, Unlock, Close, CliInv, CliTypeOK, LockTypeOK
    <3>2. QED
      BY <3>1 DEF Serial!SerialNext
  <2>2. CASE pc[p] # "critical"
    BY <1>7, <2>2, UnseenStep DEF Releases, Unlock, Close, CliInv, CliTypeOK, LockTypeOK
  <2>3. QED
    BY <2>1, <2>2
<1>8. ASSUME NEW p \in Procs, ActivateFails(p) PROVE Serial!SerialNext
  <2>1. pc[p] = "critical" /\ pc'[p] # "critical" /\ \A q \in Procs : q # p => pc'[q] = pc[q]
    BY <1>8 DEF ActivateFails, Die, CliInv, CliTypeOK, LockTypeOK, PhaseLocked
  <2>2. UNCHANGED live \/ \E r \in {cfg[p], Stopped} : live' = [live EXCEPT ![next[p]] = r]
    <3>1. live = [live EXCEPT ![next[p]] = live[next[p]]]
      BY DEF CliInv, CliTypeOK
    <3>2. PICK r \in {live[next[p]], cfg[p], Stopped} : live' = [live EXCEPT ![next[p]] = r]
      BY <1>8 DEF ActivateFails
    <3>3. QED
      BY <3>1, <3>2, Zenon
  <2>3. Serial!LetGo
    BY <1>8, <2>1, <2>2, LetGoStep DEF ActivateFails
  <2>4. QED
    BY <2>3 DEF Serial!SerialNext
<1>9. ASSUME NEW p \in Procs, Dies(p) PROVE [Serial!SerialNext]_(Serial!serialVars)
  <2>1. CASE pc[p] = "critical"
    <3>1. Serial!LetGo
      BY <1>9, <2>1, LetGoStep DEF Dies, Die, Ends, Forgets, CliInv, CliTypeOK, LockTypeOK
    <3>2. QED
      BY <3>1 DEF Serial!SerialNext
  <2>2. CASE pc[p] # "critical"
    BY <1>9, <2>2, UnseenStep DEF Dies, Die, Ends, Forgets, lockVars, CliInv, CliTypeOK, LockTypeOK
  <2>3. QED
    BY <2>1, <2>2
<1>10. ASSUME NEW p \in Procs, DiesSaving(p) PROVE Serial!SerialNext
  <2>1. phase[p] = "read" /\ pc[p] = "critical" /\ bytes[p] \in Versions
    BY <1>10 DEF DiesSaving, CutSave, CliInv, PhaseLocked, BytesMatch
  <2>2. pc'[p] # "critical" /\ \A q \in Procs : q # p => pc'[q] = pc[q]
    BY <1>10 DEF DiesSaving, Die, CliInv, CliTypeOK, LockTypeOK
  <2>3. UNCHANGED live /\ (UNCHANGED revs \/ \E c \in Versions : revs' = Append(revs, c))
    BY <1>10, <2>1 DEF DiesSaving, CutSave, Lists
  <2>4. Serial!LetGo
    BY <2>1, <2>2, <2>3, LetGoStep
  <2>5. QED
    BY <2>4 DEF Serial!SerialNext
<1>11. ASSUME NEW v \in Versions, Edit(v) PROVE UNCHANGED Serial!serialVars
  BY <1>11, UnseenStep DEF Edit, lockVars
<1>12. CASE UNCHANGED cliVars
  BY <1>12, UnseenStep DEF cliVars, lockVars
<1>13. QED
  BY <1>3, <1>4, <1>5, <1>6, <1>7, <1>8, <1>9, <1>10, <1>11, <1>12 DEF CliNext, CliStep, Rejected

\* Commands take effect one after the other: while no lock file has strayed,
\* each step of the concurrent commands is a step of the one that holds the
\* lock, or changes neither the services nor the store.
THEOREM CommandsTakeTurns == CliSpec => CommandsAreSerial
<1>1. CliInit => Serial!SerialInit
  <2> SUFFICES ASSUME CliInit PROVE Serial!SerialInit
    OBVIOUS
  <2>1. \A p \in Procs : pc[p] # "critical"
    BY DEF CliInit, LockInit
  <2>2. Owner = NoProc
    BY <2>1 DEF Owner
  <2>3. QED
    BY <2>2 DEF CliInit, Serial!SerialInit, Goal, Done
<1>2. QED
  BY <1>1, SerialStep, CliInvariance, PTL DEF CliSpec, CommandsAreSerial
=============================================================================
