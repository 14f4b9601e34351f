--------------------------- MODULE ApplyLockProofs ---------------------------
(* Proofs about ApplyLock for any number of processes and lock files.         *)
EXTENDS ApplyLock, TLAPS

LEMMA LockInitInv == LockInit => LockInv
BY LockAssumption DEF LockInit, LockInv, LockTypeOK

LEMMA LockStepInv == LockInv /\ [LockNext]_lockVars => LockInv'
<1> SUFFICES ASSUME LockInv, [LockNext]_lockVars PROVE LockInv'
  OBVIOUS
<1> USE LockAssumption DEF LockInv, LockTypeOK
<1>1. ASSUME NEW p \in Procs, Open(p) PROVE LockInv'
  BY <1>1 DEF Open, Unused
<1>2. ASSUME NEW p \in Procs, FlockOk(p) PROVE LockInv'
  BY <1>2 DEF FlockOk
<1>3. ASSUME NEW p \in Procs, FlockBusy(p) PROVE LockInv'
  BY <1>3 DEF FlockBusy
<1>4. ASSUME NEW p \in Procs, Unlock(p) PROVE LockInv'
  BY <1>4 DEF Unlock
<1>5. ASSUME NEW p \in Procs, Close(p) PROVE LockInv'
  BY <1>5 DEF Close
<1>6. ASSUME NEW p \in Procs, Remove(p) PROVE LockInv'
  BY <1>6 DEF Remove
<1>7. ASSUME NEW p \in Procs, Die(p) PROVE LockInv'
  BY <1>7 DEF Die
<1>8. CASE UNCHANGED lockVars
  BY <1>8 DEF lockVars
<1>9. QED
  BY <1>1, <1>2, <1>3, <1>4, <1>5, <1>6, <1>7, <1>8 DEF LockNext, LockStep

\* flock belongs to exactly the processes that run their pipelines, however
\* processes come, fail and die.
THEOREM LockNeverLeaks == LockSpec => []LockInv
BY LockInitInv, LockStepInv, PTL DEF LockSpec

LEMMA ExclusiveByInv == LockInv => ExclusiveUnlessStrayed
<1> SUFFICES ASSUME LockInv, ~strayed, NEW p \in Procs, NEW q \in Procs,
                    pc[p] = "critical", pc[q] = "critical"
             PROVE  p = q
  BY DEF ExclusiveUnlessStrayed, OneApplyAtATime
<1>1. path \in Inodes /\ fd[p] = path /\ fd[q] = path
  BY DEF LockInv, LockTypeOK
<1>2. holder[path] = p /\ holder[path] = q
  BY <1>1 DEF LockInv
<1>3. QED
  BY <1>2

\* Removing the name of an opened lock file is the only way two pipelines can
\* run at the same time.
THEOREM ExclusionUnlessStrayed == LockSpec => []ExclusiveUnlessStrayed
BY ExclusiveByInv, LockNeverLeaks, PTL
=============================================================================
