------------------------- MODULE ApplyPipelineProofs -------------------------
(* Proofs about ApplyPipeline for any number of steps and configurations.     *)
EXTENDS ApplyPipeline, TLAPS

Restoring == {"restore", "rewrite", "drop"}
Applying == {"render", "write", "activate"}

\* A step whose old file cannot be lost: it had none, it is in the backups map,
\* or its backup failed.
Covered(s) == before[s] = Absent \/ s \in saved \/ s \in damaged

\* While files are backed up none has changed, and the steps already visited
\* are covered.
BackupPhase ==
  pc \in {"backup", "copy"} =>
    /\ file = before
    /\ saved \subseteq {s \in StepSet : s < at}
    /\ \A s \in StepSet : s < at => Covered(s)
    /\ pc = "copy" => before[at] # Absent

\* A backup that may still be needed holds the old content.
BackupsHold ==
  /\ pc \in {"backup", "copy"} \union Applying =>
       \A s \in saved : backup[s] = before[s] /\ before[s] # Absent
  /\ pc \in Restoring =>
       todo \subseteq saved /\ \A s \in todo : backup[s] = before[s] /\ before[s] # Absent

\* A service runs the target, or is the kernel settings sysctl -e passed over.
Took(s) == running[s] = target \/ s \in BestEffort \cap refused

\* The steps before the current one have been applied, those after it not.
ApplyPhase ==
  pc \in Applying =>
    /\ \A s \in StepSet : Covered(s)
    /\ \A s \in StepSet : s < at => file[s] = target /\ Took(s)
    /\ \A s \in StepSet : s > at => file[s] = before[s]
    /\ file[at] = IF pc = "activate" THEN target ELSE before[at]

\* A file is still to be restored, or it has been.
RestorePhase ==
  /\ pc \in Restoring =>
       \A s \in StepSet \ damaged : before[s] # Absent => s \in todo \/ file[s] = before[s]
  /\ pc \in {"rewrite", "drop"} => at \in todo
  /\ pc = "drop" => at \in damaged \/ file[at] = before[at]

ResultPhase ==
  /\ result = "ok" => pc \in {"cleanup", "idle"}
  /\ pc = "cleanup" => result = "ok"
  /\ result \in {"failed", "crashed"} => pc = "idle"

\* The inductive invariant.
PipelineInv ==
  /\ PipelineTypeOK
  /\ BackupPhase /\ BackupsHold /\ ApplyPhase /\ RestorePhase /\ ResultPhase
  /\ AppliedEverywhere /\ FailureRestoresFiles /\ OldContentOnDisk /\ TornOnlyByRestore

LEMMA PipelineInitInv == PipelineInit => PipelineInv
BY PipelineAssumption DEF PipelineInit, PipelineInv, PipelineTypeOK, Phases, Content, StepSet,
   BackupPhase, BackupsHold, ApplyPhase, RestorePhase, ResultPhase,
   AppliedEverywhere, FailureRestoresFiles, OldContentOnDisk, TornOnlyByRestore, Covered,
   Applying, Restoring, Took

LEMMA BackupInv ==
  PipelineInv /\ ((\E v \in Versions : Begin(v)) \/ ProvisionFails \/ BackupStep) => PipelineInv'
<1> SUFFICES ASSUME PipelineInv, (\E v \in Versions : Begin(v)) \/ ProvisionFails \/ BackupStep
             PROVE  PipelineInv'
  OBVIOUS
<1> USE PipelineAssumption DEF PipelineInv, history
<1>1. CASE \E v \in Versions : Begin(v)
  <2>1. PipelineTypeOK'
    BY <1>1 DEF Begin, PipelineTypeOK, Phases, Content, StepSet
  <2>2. QED
    BY <1>1, <2>1 DEF Begin, PipelineTypeOK, StepSet, BackupPhase, BackupsHold, ApplyPhase, RestorePhase, ResultPhase,
       AppliedEverywhere, FailureRestoresFiles, OldContentOnDisk, TornOnlyByRestore, Covered,
       Applying, Restoring, Took
<1>2. CASE ProvisionFails
  <2>1. PipelineTypeOK'
    BY <1>2 DEF ProvisionFails, PipelineTypeOK, Phases, Content, StepSet
  <2>2. QED
    BY <1>2, <2>1 DEF ProvisionFails, PipelineTypeOK, StepSet, BackupPhase, BackupsHold, ApplyPhase, RestorePhase, ResultPhase,
       AppliedEverywhere, FailureRestoresFiles, OldContentOnDisk, TornOnlyByRestore, Covered,
       Applying, Restoring, Took
<1>3. CASE BackupAbsent
  <2>1. PipelineTypeOK'
    BY <1>3 DEF BackupAbsent, NextBackup, PipelineTypeOK, Phases, Content, StepSet
  <2>2. QED
    BY <1>3, <2>1 DEF BackupAbsent, NextBackup, PipelineTypeOK, StepSet, BackupPhase, BackupsHold, ApplyPhase, RestorePhase, ResultPhase,
       AppliedEverywhere, FailureRestoresFiles, OldContentOnDisk, TornOnlyByRestore, Covered,
       Applying, Restoring, Took
<1>4. CASE BackupCreate
  <2>1. PipelineTypeOK'
    BY <1>4 DEF BackupCreate, PipelineTypeOK, Phases, Content, StepSet
  <2>2. QED
    BY <1>4, <2>1 DEF BackupCreate, PipelineTypeOK, StepSet, BackupPhase, BackupsHold, ApplyPhase, RestorePhase, ResultPhase,
       AppliedEverywhere, FailureRestoresFiles, OldContentOnDisk, TornOnlyByRestore, Covered,
       Applying, Restoring, Took
<1>5. CASE BackupWrite
  <2>1. PipelineTypeOK'
    BY <1>5 DEF BackupWrite, NextBackup, PipelineTypeOK, Phases, Content, StepSet
  <2>2. QED
    BY <1>5, <2>1 DEF BackupWrite, NextBackup, PipelineTypeOK, StepSet, BackupPhase, BackupsHold, ApplyPhase, RestorePhase, ResultPhase,
       AppliedEverywhere, FailureRestoresFiles, OldContentOnDisk, TornOnlyByRestore, Covered,
       Applying, Restoring, Took
<1>6. CASE BackupFails
  <2>1. PipelineTypeOK'
    BY <1>6 DEF BackupFails, NextBackup, PipelineTypeOK, Phases, Content, StepSet
  <2>2. QED
    BY <1>6, <2>1 DEF BackupFails, NextBackup, PipelineTypeOK, StepSet, BackupPhase, BackupsHold, ApplyPhase, RestorePhase, ResultPhase,
       AppliedEverywhere, FailureRestoresFiles, OldContentOnDisk, TornOnlyByRestore, Covered,
       Applying, Restoring, Took
<1>7. QED
  BY <1>1, <1>2, <1>3, <1>4, <1>5, <1>6 DEF BackupStep

LEMMA ApplyInv == PipelineInv /\ ApplyStep => PipelineInv'
<1> SUFFICES ASSUME PipelineInv, ApplyStep PROVE PipelineInv'
  OBVIOUS
<1> USE PipelineAssumption DEF PipelineInv, history
<1>1. CASE RenderOk
  <2>1. PipelineTypeOK'
    BY <1>1 DEF RenderOk, PipelineTypeOK, Phases, Content, StepSet
  <2>2. QED
    BY <1>1, <2>1 DEF RenderOk, PipelineTypeOK, StepSet, BackupPhase, BackupsHold, ApplyPhase, RestorePhase, ResultPhase,
       AppliedEverywhere, FailureRestoresFiles, OldContentOnDisk, TornOnlyByRestore, Covered,
       Applying, Restoring, Took
<1>2. CASE WriteOk
  <2>1. PipelineTypeOK'
    BY <1>2 DEF WriteOk, PipelineTypeOK, Phases, Content, StepSet
  <2>2. QED
    BY <1>2, <2>1 DEF WriteOk, PipelineTypeOK, StepSet, BackupPhase, BackupsHold, ApplyPhase, RestorePhase, ResultPhase,
       AppliedEverywhere, FailureRestoresFiles, OldContentOnDisk, TornOnlyByRestore, Covered,
       Applying, Restoring, Took
<1>3. CASE RenderOrWriteFails
  <2>1. PipelineTypeOK'
    BY <1>3 DEF RenderOrWriteFails, Fails, PipelineTypeOK, Phases, Content, StepSet
  <2>2. QED
    BY <1>3, <2>1 DEF RenderOrWriteFails, Fails, PipelineTypeOK, StepSet, BackupPhase, BackupsHold, ApplyPhase, RestorePhase, ResultPhase,
       AppliedEverywhere, FailureRestoresFiles, OldContentOnDisk, TornOnlyByRestore, Covered,
       Applying, Restoring, Took
<1>4. CASE ActivateOk
  <2>0. at' \in StepSet /\ pc' \in Phases /\ result' \in {"none", "ok", "failed", "crashed"}
    BY <1>4 DEF ActivateOk, Activated, LastStep, PipelineTypeOK, Phases, StepSet
  <2>1. PipelineTypeOK'
    <3>1. running' \in [StepSet -> Content \union {Absent, Broken}]
      BY <1>4 DEF ActivateOk, PipelineTypeOK
    <3>2. QED
      BY <1>4, <2>0, <3>1 DEF ActivateOk, Activated, PipelineTypeOK
  <2>2. \A s \in StepSet : s <= at => Took(s)'
    BY <1>4 DEF ActivateOk, Activated, PipelineTypeOK, StepSet, ApplyPhase, Applying, Took
  <2>3. QED
    BY <1>4, <2>1, <2>2 DEF ActivateOk, Activated, LastStep, PipelineTypeOK, StepSet, BackupPhase, BackupsHold, ApplyPhase, RestorePhase, ResultPhase,
       AppliedEverywhere, FailureRestoresFiles, OldContentOnDisk, TornOnlyByRestore, Covered,
       Applying, Restoring, Took
<1>5. CASE ActivateSkips
  <2>0. at' \in StepSet /\ pc' \in Phases /\ result' \in {"none", "ok", "failed", "crashed"}
    BY <1>5 DEF ActivateSkips, Activated, LastStep, PipelineTypeOK, Phases, StepSet
  <2>1. PipelineTypeOK'
    <3>1. running' \in [StepSet -> Content \union {Absent, Broken}]
      BY <1>5 DEF ActivateSkips, PipelineTypeOK
    <3>2. QED
      BY <1>5, <2>0, <3>1 DEF ActivateSkips, Activated, PipelineTypeOK
  <2>2. \A s \in StepSet : s <= at => Took(s)'
    BY <1>5 DEF ActivateSkips, Activated, PipelineTypeOK, StepSet, ApplyPhase, Applying, Took
  <2>3. QED
    BY <1>5, <2>1, <2>2 DEF ActivateSkips, Activated, LastStep, PipelineTypeOK, StepSet, BackupPhase, BackupsHold, ApplyPhase, RestorePhase, ResultPhase,
       AppliedEverywhere, FailureRestoresFiles, OldContentOnDisk, TornOnlyByRestore, Covered,
       Applying, Restoring, Took
<1>6. CASE ActivateFails
  <2>1. PipelineTypeOK'
    BY <1>6 DEF ActivateFails, Fails, PipelineTypeOK, Phases, Content, StepSet
  <2>2. QED
    BY <1>6, <2>1 DEF ActivateFails, Fails, PipelineTypeOK, StepSet, BackupPhase, BackupsHold, ApplyPhase, RestorePhase, ResultPhase,
       AppliedEverywhere, FailureRestoresFiles, OldContentOnDisk, TornOnlyByRestore, Covered,
       Applying, Restoring, Took
<1>7. QED
  BY <1>1, <1>2, <1>3, <1>4, <1>5, <1>6 DEF ApplyStep

LEMMA RestoreInv == PipelineInv /\ RestoreStep => PipelineInv'
<1> SUFFICES ASSUME PipelineInv, RestoreStep PROVE PipelineInv'
  OBVIOUS
<1> USE PipelineAssumption DEF PipelineInv, history
<1>1. CASE \E s \in StepSet : RestoreOpen(s)
  <2>1. PipelineTypeOK'
    BY <1>1 DEF RestoreOpen, PipelineTypeOK, Phases, Content, StepSet
  <2>2. QED
    BY <1>1, <2>1 DEF RestoreOpen, PipelineTypeOK, StepSet, BackupPhase, BackupsHold, ApplyPhase, RestorePhase, ResultPhase,
       AppliedEverywhere, FailureRestoresFiles, OldContentOnDisk, TornOnlyByRestore, Covered,
       Applying, Restoring, Took
<1>2. CASE \E s \in StepSet : RestoreUnreadable(s)
  <2>1. PipelineTypeOK'
    BY <1>2 DEF RestoreUnreadable, PipelineTypeOK, Phases, Content, StepSet
  <2>2. QED
    BY <1>2, <2>1 DEF RestoreUnreadable, PipelineTypeOK, StepSet, BackupPhase, BackupsHold, ApplyPhase, RestorePhase, ResultPhase,
       AppliedEverywhere, FailureRestoresFiles, OldContentOnDisk, TornOnlyByRestore, Covered,
       Applying, Restoring, Took
<1>3. CASE RestoreWrite
  <2>1. PipelineTypeOK'
    BY <1>3 DEF RestoreWrite, PipelineTypeOK, Phases, Content, StepSet
  <2>2. QED
    BY <1>3, <2>1 DEF RestoreWrite, PipelineTypeOK, StepSet, BackupPhase, BackupsHold, ApplyPhase, RestorePhase, ResultPhase,
       AppliedEverywhere, FailureRestoresFiles, OldContentOnDisk, TornOnlyByRestore, Covered,
       Applying, Restoring, Took
<1>4. CASE RestoreWriteFails
  <2>1. PipelineTypeOK'
    BY <1>4 DEF RestoreWriteFails, PipelineTypeOK, Phases, Content, StepSet
  <2>2. QED
    BY <1>4, <2>1 DEF RestoreWriteFails, PipelineTypeOK, StepSet, BackupPhase, BackupsHold, ApplyPhase, RestorePhase, ResultPhase,
       AppliedEverywhere, FailureRestoresFiles, OldContentOnDisk, TornOnlyByRestore, Covered,
       Applying, Restoring, Took
<1>5. CASE RestoreDrop
  <2>1. PipelineTypeOK'
    BY <1>5 DEF RestoreDrop, PipelineTypeOK, Phases, Content, StepSet
  <2>2. QED
    BY <1>5, <2>1 DEF RestoreDrop, PipelineTypeOK, StepSet, BackupPhase, BackupsHold, ApplyPhase, RestorePhase, ResultPhase,
       AppliedEverywhere, FailureRestoresFiles, OldContentOnDisk, TornOnlyByRestore, Covered,
       Applying, Restoring, Took
<1>6. CASE RestoreDone
  <2>1. PipelineTypeOK'
    BY <1>6 DEF RestoreDone, PipelineTypeOK, Phases, Content, StepSet
  <2>2. QED
    BY <1>6, <2>1 DEF RestoreDone, PipelineTypeOK, StepSet, BackupPhase, BackupsHold, ApplyPhase, RestorePhase, ResultPhase,
       AppliedEverywhere, FailureRestoresFiles, OldContentOnDisk, TornOnlyByRestore, Covered,
       Applying, Restoring, Took
<1>7. QED
  BY <1>1, <1>2, <1>3, <1>4, <1>5, <1>6 DEF RestoreStep

LEMMA EndInv == PipelineInv /\ (CleanupStep \/ Crash \/ UNCHANGED pipelineVars) => PipelineInv'
<1> SUFFICES ASSUME PipelineInv, CleanupStep \/ Crash \/ UNCHANGED pipelineVars PROVE PipelineInv'
  OBVIOUS
<1> USE PipelineAssumption DEF PipelineInv, history
<1>1. CASE CleanupStep
  <2>1. PipelineTypeOK'
    BY <1>1 DEF CleanupStep, Cleanup, CleanupDone, PipelineTypeOK, Phases, Content, StepSet
  <2>2. QED
    BY <1>1, <2>1 DEF CleanupStep, Cleanup, CleanupDone, PipelineTypeOK, StepSet, BackupPhase, BackupsHold, ApplyPhase, RestorePhase, ResultPhase,
       AppliedEverywhere, FailureRestoresFiles, OldContentOnDisk, TornOnlyByRestore, Covered,
       Applying, Restoring, Took
<1>2. CASE Crash
  <2>1. PipelineTypeOK'
    BY <1>2 DEF Crash, PipelineTypeOK, Phases, Content, StepSet
  <2>2. QED
    BY <1>2, <2>1 DEF Crash, PipelineTypeOK, StepSet, BackupPhase, BackupsHold, ApplyPhase, RestorePhase, ResultPhase,
       AppliedEverywhere, FailureRestoresFiles, OldContentOnDisk, TornOnlyByRestore, Covered,
       Applying, Restoring, Took
<1>3. CASE UNCHANGED pipelineVars
  <2>1. PipelineTypeOK'
    BY <1>3 DEF pipelineVars, PipelineTypeOK, Phases, Content, StepSet
  <2>2. QED
    BY <1>3, <2>1 DEF pipelineVars, PipelineTypeOK, StepSet, BackupPhase, BackupsHold, ApplyPhase, RestorePhase, ResultPhase,
       AppliedEverywhere, FailureRestoresFiles, OldContentOnDisk, TornOnlyByRestore, Covered,
       Applying, Restoring, Took
<1>4. QED
  BY <1>1, <1>2, <1>3

LEMMA PipelineInvariance == PipelineSpec => []PipelineInv
<1>1. PipelineInv /\ [PipelineNext]_pipelineVars => PipelineInv'
  BY BackupInv, ApplyInv, RestoreInv, EndInv DEF PipelineNext
<1>2. QED
  BY <1>1, PipelineInitInv, PTL DEF PipelineSpec

\* Which services have changed so far: none while files are backed up, those
\* before the current step while steps are applied.
ServiceOrder ==
  /\ pc \in {"backup", "copy"} => running = ranBefore
  /\ pc \in Applying => \A s \in StepSet : s >= at => running[s] = ranBefore[s]
  /\ ServicesChangeInOrder

LEMMA ServiceOrderStep ==
  PipelineInv /\ ServiceOrder /\ [PipelineNext]_pipelineVars => ServiceOrder'
<1> SUFFICES ASSUME PipelineInv, ServiceOrder, [PipelineNext]_pipelineVars
             PROVE  ServiceOrder'
  OBVIOUS
<1> USE PipelineAssumption DEF PipelineInv, ServiceOrder, ServicesChangeInOrder, Applying
<1>1. CASE (\E v \in Versions : Begin(v)) \/ ProvisionFails
  BY <1>1 DEF Begin, ProvisionFails
<1>2. CASE BackupStep
  BY <1>2
  DEF BackupStep, BackupAbsent, BackupCreate, BackupWrite, BackupFails, NextBackup, history
<1>3. CASE RenderOk \/ WriteOk \/ RenderOrWriteFails
  BY <1>3 DEF RenderOk, WriteOk, RenderOrWriteFails, Fails, history
<1>4. CASE ActivateOk
  BY <1>4 DEF ActivateOk, Activated, history, PipelineTypeOK, ApplyPhase, StepSet, Took
<1>5. CASE ActivateSkips
  BY <1>5 DEF ActivateSkips, Activated, history, PipelineTypeOK, ApplyPhase, StepSet, Took
<1>6. CASE ActivateFails
  BY <1>6 DEF ActivateFails, Fails, history, PipelineTypeOK, ApplyPhase, StepSet, Took
<1>7. CASE RestoreStep
  BY <1>7
  DEF RestoreStep, RestoreOpen, RestoreUnreadable, RestoreWrite, RestoreWriteFails,
      RestoreDrop, RestoreDone, history
<1>8. CASE CleanupStep \/ Crash \/ UNCHANGED pipelineVars
  BY <1>8 DEF CleanupStep, Cleanup, CleanupDone, Crash, pipelineVars, history
<1>9. QED
  BY <1>1, <1>2, <1>3, <1>4, <1>5, <1>6, <1>7, <1>8 DEF PipelineNext, ApplyStep

\* Services are activated in order: an apply that fails or dies leaves the new
\* configuration on an initial stretch of them, but for kernel settings that
\* sysctl -e passed over, and the rest untouched.
THEOREM ActivationIsInOrder == PipelineSpec => []ServicesChangeInOrder
<1>1. PipelineInit => ServiceOrder
  BY DEF PipelineInit, ServiceOrder, ServicesChangeInOrder, Applying
<1>2. ServiceOrder => ServicesChangeInOrder
  BY DEF ServiceOrder
<1>3. QED
  BY <1>1, <1>2, ServiceOrderStep, PipelineInvariance, PTL DEF PipelineSpec

\* A pipeline that reports success has written every file and activated every
\* service; only the best-effort steps may run less than their file says, and
\* then because this run passed over what was refused.
THEOREM SuccessMeansApplied == PipelineSpec => []AppliedEverywhere
<1>1. PipelineInv => AppliedEverywhere
  BY DEF PipelineInv
<1>2. QED
  BY <1>1, PipelineInvariance, PTL

\* Every state Execute reaches is well typed: no step runs past the last one.
THEOREM PipelineTypeCorrect == PipelineSpec => []PipelineTypeOK
<1>1. PipelineInv => PipelineTypeOK
  BY DEF PipelineInv
<1>2. QED
  BY <1>1, PipelineInvariance, PTL

\* A pipeline that reports a failure has put back every file it had backed up.
THEOREM FailureMeansRestored == PipelineSpec => []FailureRestoresFiles
<1>1. PipelineInv => FailureRestoresFiles
  BY DEF PipelineInv
<1>2. QED
  BY <1>1, PipelineInvariance, PTL

\* Whenever the process dies before success, the old content of every file is
\* still on disk.
THEOREM OldContentSurvives == PipelineSpec => []OldContentOnDisk
<1>1. PipelineInv => OldContentOnDisk
  BY DEF PipelineInv
<1>2. QED
  BY <1>1, PipelineInvariance, PTL

\* Only a restore that is cut short leaves a truncated configuration file.
THEOREM WritesAreAtomic == PipelineSpec => []TornOnlyByRestore
<1>1. PipelineInv => TornOnlyByRestore
  BY DEF PipelineInv
<1>2. QED
  BY <1>1, PipelineInvariance, PTL

-----------------------------------------------------------------------------
(* The pipeline implements Deployment *)

ConfOf == [s \in StepSet |-> IF pc = "rewrite" /\ s = at THEN before[s] ELSE file[s]]

\* A file being rewritten is truncated until the write is done.
RewriteTorn == pc = "rewrite" => file[at] = Torn

LEMMA RewriteTornStep ==
  PipelineInv /\ RewriteTorn /\ [PipelineNext]_pipelineVars => RewriteTorn'
<1> SUFFICES ASSUME PipelineInv, RewriteTorn, [PipelineNext]_pipelineVars, pc' = "rewrite"
             PROVE  file'[at'] = Torn
  BY DEF RewriteTorn
<1>1. CASE \E s \in StepSet : RestoreOpen(s)
  BY <1>1 DEF RestoreOpen, PipelineInv, PipelineTypeOK
<1>2. CASE UNCHANGED pipelineVars
  BY <1>2 DEF pipelineVars, RewriteTorn
<1>3. QED
  BY <1>1, <1>2
  DEF PipelineNext, Begin, ProvisionFails, BackupStep, BackupAbsent, BackupCreate, BackupWrite,
      BackupFails, NextBackup, ApplyStep, RenderOk, WriteOk, RenderOrWriteFails, ActivateOk,
      ActivateSkips, Activated, ActivateFails, Fails, RestoreStep, RestoreUnreadable, RestoreWrite, RestoreWriteFails,
      RestoreDrop, RestoreDone, CleanupStep, Cleanup, CleanupDone, Crash

\* How a phase of Execute looks to Deployment.
PhaseView ==
  /\ pc # "rewrite" => ConfOf = file
  /\ pc \in {"backup", "copy"} \union Applying => Outcome = "applying"
  /\ pc \in Restoring => Outcome = "undoing"
  /\ pc \in {"idle", "cleanup"} => Outcome = result /\ result \in {"none", "ok", "failed", "crashed"}

LEMMA ViewOfPhase == PipelineInv => PhaseView
<1> SUFFICES ASSUME PipelineInv PROVE PhaseView
  OBVIOUS
<1>1. pc # "rewrite" => ConfOf = file
  BY DEF ConfOf, PipelineInv, PipelineTypeOK
<1>2. result = "ok" => pc \in {"cleanup", "idle"}
  BY DEF PipelineInv, ResultPhase
<1>3. pc \in {"backup", "copy"} \union Applying => Outcome = "applying"
  BY <1>2 DEF Outcome, Applying
<1>4. pc \in Restoring => Outcome = "undoing"
  BY <1>2 DEF Outcome, Restoring
<1>5. pc \in {"idle", "cleanup"} => Outcome = result /\ result \in {"none", "ok", "failed", "crashed"}
  BY DEF Outcome, PipelineInv, ResultPhase, PipelineTypeOK
<1>6. QED
  BY <1>1, <1>3, <1>4, <1>5 DEF PhaseView

\* What Deployment sees of a step.
Unseen ==
  ConfOf' = ConfOf /\ Outcome' = Outcome /\ UNCHANGED <<running, target, before, refused, damaged>>

LEMMA BackupView ==
  ASSUME PipelineInv, PhaseView, PhaseView',
         (\E v \in Versions : Begin(v)) \/ ProvisionFails \/ BackupStep
  PROVE  Deploy!DeployNext \/ Unseen
<1> USE PipelineAssumption DEF history
<1>1. ASSUME NEW v \in Versions, Begin(v) PROVE Deploy!Start(v)
  <2>1. ConfOf = file /\ ConfOf' = file' /\ Outcome = result /\ Outcome' = "applying"
        /\ result \in {"none", "ok", "failed", "crashed"}
    BY <1>1 DEF PhaseView, Begin
  <2>2. QED
    BY <1>1, <2>1 DEF Begin, Deploy!Start, Deploy!Ended, ConfOf
<1>2. CASE ProvisionFails
  <2>1. ConfOf = file /\ ConfOf' = file' /\ Outcome = result /\ Outcome' = "failed"
        /\ result \in {"none", "ok", "failed", "crashed"}
    BY <1>2 DEF PhaseView, ProvisionFails
  <2>2. Deploy!Refuse
    BY <1>2, <2>1 DEF ProvisionFails, Deploy!Refuse, Deploy!Ended, ConfOf
  <2>3. QED
    BY <2>2 DEF Deploy!DeployNext
<1>3. CASE BackupStep
  <2>1. pc \in {"backup", "copy"} /\ pc' \in {"backup", "copy", "render"} /\ file' = file
        /\ UNCHANGED <<running, target, before, refused>> /\ at \in 1..N
    BY <1>3 DEF BackupStep, BackupAbsent, BackupCreate, BackupWrite, BackupFails, NextBackup,
       PipelineInv, PipelineTypeOK, StepSet
  <2>2. ConfOf = file /\ ConfOf' = file /\ Outcome = "applying" /\ Outcome' = "applying"
    BY <2>1 DEF PhaseView, Applying
  <2>3. CASE BackupFails
    <3>1. PICK s \in 1..N : s = at
      BY <2>1
    <3>2. Deploy!Lose(s)
      BY <2>1, <2>2, <2>3, <3>1 DEF BackupFails, Deploy!Lose, ConfOf
    <3>3. QED
      BY <3>2 DEF Deploy!DeployNext
  <2>4. CASE ~BackupFails
    BY <1>3, <2>1, <2>2, <2>4 DEF BackupStep, BackupAbsent, BackupCreate, BackupWrite, Unseen
  <2>5. QED
    BY <2>3, <2>4
<1>4. QED
  BY <1>1, <1>2, <1>3 DEF Deploy!DeployNext

LEMMA ApplyView ==
  ASSUME PipelineInv, PhaseView, PhaseView', ApplyStep
  PROVE  Deploy!DeployNext \/ Unseen
<1> USE PipelineAssumption DEF history
<1>1. at \in 1..N /\ pc \in Applying /\ pc # "rewrite" /\ pc' # "rewrite"
  BY DEF ApplyStep, RenderOk, WriteOk, RenderOrWriteFails, ActivateOk, ActivateSkips, Activated,
     ActivateFails, Fails, Applying, PipelineInv, PipelineTypeOK, StepSet
<1>2. ConfOf = file /\ ConfOf' = file' /\ Outcome = "applying"
  BY <1>1 DEF PhaseView
<1>3. \A s \in StepSet : s < at => file[s] = target /\ (running[s] = target \/ s \in refused)
  BY <1>1 DEF PipelineInv, ApplyPhase, Took
<1>4. CASE RenderOk
  BY <1>2, <1>4 DEF RenderOk, PhaseView, Applying, Unseen
<1>5. CASE WriteOk
  <2>1. Outcome' = "applying"
    BY <1>5 DEF WriteOk, PhaseView, Applying
  <2>2. PICK s \in 1..N : s = at
    BY <1>1
  <2>3. Deploy!Install(s)
    BY <1>1, <1>2, <1>3, <1>5, <2>1, <2>2 DEF WriteOk, Deploy!Install, ConfOf, StepSet
  <2>4. QED
    BY <2>3 DEF Deploy!DeployNext
<1>6. CASE RenderOrWriteFails
  <2>1. Outcome' = "undoing"
    BY <1>6 DEF RenderOrWriteFails, Fails, PhaseView, Restoring
  <2>2. Deploy!TurnBack(at)
    BY <1>2, <1>6, <2>1 DEF RenderOrWriteFails, Fails, Deploy!TurnBack, ConfOf
  <2>3. QED
    BY <1>1, <2>2 DEF Deploy!DeployNext
<1>7. CASE ActivateOk \/ ActivateSkips
  <2>1. Activated /\ UNCHANGED <<file, target, before, damaged>>
    BY <1>7 DEF ActivateOk, ActivateSkips, Activated
  <2>2. file[at] = target
    BY <2>1 DEF Activated, PipelineInv, ApplyPhase, Applying
  <2>3. Outcome' = IF at = N THEN "ok" ELSE "applying"
    BY <2>1 DEF Activated, LastStep, PhaseView, Applying
  <2>4. PICK s \in 1..N : s = at
    BY <1>1
  <2>5. \/ running' = [running EXCEPT ![s] = target] /\ UNCHANGED refused
        \/ /\ s \in BestEffort
           /\ \E r \in {running[s], Broken} : running' = [running EXCEPT ![s] = r]
           /\ refused' = refused \union {s}
    BY <1>7, <2>2, <2>4 DEF ActivateOk, ActivateSkips
  <2>6. running'[s] = target \/ s \in refused'
    BY <2>5, <2>4 DEF PipelineInv, PipelineTypeOK, StepSet
  <2>7. \A t \in 1..N : t # s => running'[t] = running[t] /\ (t \in refused => t \in refused')
    BY <2>5, <2>4 DEF PipelineInv, PipelineTypeOK, StepSet
  <2>8. at = N => \A t \in 1..N : file[t] = target /\ (running'[t] = target \/ t \in refused')
    <3> SUFFICES ASSUME at = N, NEW t \in 1..N
                 PROVE  file[t] = target /\ (running'[t] = target \/ t \in refused')
      OBVIOUS
    <3>1. CASE t = s
      BY <2>2, <2>4, <2>6, <3>1
    <3>2. CASE t # s
      <4>1. t < at /\ t \in StepSet
        BY <2>4, <3>2 DEF StepSet
      <4>2. QED
        BY <1>3, <2>7, <3>2, <4>1
    <3>3. QED
      BY <3>1, <3>2
  <2>9. Deploy!Switch(s)
    BY <1>2, <2>1, <2>2, <2>3, <2>4, <2>5, <2>8 DEF Deploy!Switch, ConfOf
  <2>10. QED
    BY <2>9 DEF Deploy!DeployNext
<1>8. CASE ActivateFails
  <2>1. file[at] = target
    BY <1>8 DEF ActivateFails, PipelineInv, ApplyPhase, Applying
  <2>2. Outcome' = "undoing"
    BY <1>8 DEF ActivateFails, Fails, PhaseView, Restoring
  <2>3. running' = running \/ \E r \in {target, Broken} : running' = [running EXCEPT ![at] = r]
    <3>1. running = [running EXCEPT ![at] = running[at]]
      BY DEF PipelineInv, PipelineTypeOK
    <3>2. PICK r \in {running[at], target, Broken} : running' = [running EXCEPT ![at] = r]
      BY <1>8, <2>1 DEF ActivateFails
    <3>3. QED
      BY <3>1, <3>2, Zenon
  <2>4. Deploy!TurnBack(at)
    BY <1>2, <1>8, <2>1, <2>2, <2>3 DEF ActivateFails, Fails, Deploy!TurnBack, ConfOf
  <2>5. QED
    BY <1>1, <2>4 DEF Deploy!DeployNext
<1>9. QED
  BY <1>4, <1>5, <1>6, <1>7, <1>8 DEF ApplyStep

LEMMA RestoreView ==
  ASSUME PipelineInv, RewriteTorn, PhaseView, PhaseView', RestoreStep
  PROVE  Deploy!DeployNext \/ Unseen
<1> USE PipelineAssumption DEF history
<1>1. at \in 1..N /\ file \in [1..N -> Content \union {Absent}]
  BY DEF PipelineInv, PipelineTypeOK, StepSet
<1>2. pc \in Restoring /\ Outcome = "undoing" /\ UNCHANGED <<running, target, before, refused>>
  BY DEF RestoreStep, RestoreOpen, RestoreUnreadable, RestoreWrite, RestoreWriteFails,
     RestoreDrop, RestoreDone, Restoring, PhaseView
<1>3. pc' \in Restoring => Outcome' = "undoing"
  BY DEF PhaseView
<1>4. ASSUME NEW s \in StepSet, RestoreOpen(s) PROVE Deploy!DeployNext
  <2>1. ConfOf = file /\ Outcome' = "undoing" /\ damaged' = damaged
    BY <1>3, <1>4 DEF RestoreOpen, PhaseView, Restoring
  <2>2. ConfOf' = [file EXCEPT ![s] = before[s]]
    BY <1>1, <1>4 DEF RestoreOpen, ConfOf, StepSet
  <2>3. Deploy!GiveBack(s)
    BY <1>2, <2>1, <2>2 DEF Deploy!GiveBack, ConfOf
  <2>4. QED
    BY <2>3 DEF Deploy!DeployNext, StepSet
<1>5. ASSUME NEW s \in StepSet, RestoreUnreadable(s) PROVE Deploy!DeployNext
  <2>1. ConfOf = file /\ ConfOf' = file /\ Outcome' = "undoing" /\ damaged' = damaged \union {s}
    BY <1>3, <1>5 DEF RestoreUnreadable, PhaseView, Restoring
  <2>2. Deploy!Lose(s)
    BY <1>2, <2>1 DEF Deploy!Lose, ConfOf
  <2>3. QED
    BY <2>2 DEF Deploy!DeployNext, StepSet
<1>6. CASE RestoreWrite
  <2>1. backup[at] = before[at]
    BY <1>6 DEF RestoreWrite, PipelineInv, RestorePhase, BackupsHold, Restoring
  <2>2. ConfOf' = file' /\ Outcome' = "undoing" /\ damaged' = damaged
    BY <1>3, <1>6 DEF RestoreWrite, PhaseView, Restoring
  <2>3. ConfOf = [file EXCEPT ![at] = before[at]]
    BY <1>1, <1>6 DEF RestoreWrite, ConfOf, StepSet
  <2>4. QED
    BY <1>2, <1>6, <2>1, <2>2, <2>3 DEF RestoreWrite, Unseen
<1>7. CASE RestoreWriteFails
  <2>1. PICK s \in 1..N : s = at'
    BY <1>1, <1>7 DEF RestoreWriteFails, PipelineInv, PipelineTypeOK, StepSet
  <2>2. ConfOf' = file /\ Outcome' = "undoing" /\ damaged' = damaged \union {s}
    BY <1>3, <1>7, <2>1 DEF RestoreWriteFails, PhaseView, Restoring
  <2>3. ConfOf' = ConfOf \/ ConfOf' = [ConfOf EXCEPT ![s] = Torn]
    <3>1. CASE pc = "restore"
      BY <2>2, <3>1 DEF PhaseView
    <3>2. CASE pc = "rewrite"
      <4>1. s = at /\ file[at] = Torn
        BY <1>7, <2>1, <3>2 DEF RestoreWriteFails, RewriteTorn
      <4>2. [ConfOf EXCEPT ![s] = Torn] = file
        BY <1>1, <3>2, <4>1 DEF ConfOf, StepSet
      <4>3. QED
        BY <2>2, <4>2
    <3>3. QED
      BY <1>7, <3>1, <3>2 DEF RestoreWriteFails
  <2>4. Deploy!Lose(s)
    BY <1>2, <2>2, <2>3 DEF Deploy!Lose, ConfOf
  <2>5. QED
    BY <2>4 DEF Deploy!DeployNext
<1>8. CASE RestoreDrop
  <2>1. ConfOf = file /\ ConfOf' = file /\ Outcome' = "undoing" /\ damaged' = damaged
    BY <1>3, <1>8 DEF RestoreDrop, PhaseView, Restoring
  <2>2. QED
    BY <1>2, <2>1 DEF Unseen
<1>9. CASE RestoreDone
  <2>1. ConfOf = file /\ ConfOf' = file /\ Outcome' = "failed" /\ damaged' = damaged
    BY <1>9 DEF RestoreDone, PhaseView
  <2>2. \A s \in (1..N) \ damaged : before[s] # Absent => file[s] = before[s]
    BY <1>9 DEF RestoreDone, PipelineInv, RestorePhase, Restoring, StepSet
  <2>3. Deploy!Fail
    BY <1>2, <2>1, <2>2 DEF Deploy!Fail, ConfOf
  <2>4. QED
    BY <2>3 DEF Deploy!DeployNext
<1>10. QED
  BY <1>4, <1>5, <1>6, <1>7, <1>8, <1>9 DEF RestoreStep

LEMMA EndView ==
  ASSUME PipelineInv, RewriteTorn, PhaseView, PhaseView',
         CleanupStep \/ Crash \/ UNCHANGED pipelineVars
  PROVE  Deploy!DeployNext \/ Unseen
<1> USE PipelineAssumption DEF history
<1>1. CASE CleanupStep
  <2>1. pc = "cleanup" /\ pc' \in {"cleanup", "idle"} /\ result' = result
        /\ UNCHANGED <<file, running, target, before, refused, damaged>>
    BY <1>1 DEF CleanupStep, Cleanup, CleanupDone
  <2>2. QED
    BY <2>1 DEF PhaseView, Unseen
<1>2. CASE Crash /\ pc = "cleanup"
  <2>1. result = "ok" /\ result' = "ok" /\ pc' = "idle"
        /\ UNCHANGED <<file, running, target, before, refused, damaged>>
    BY <1>2 DEF Crash, PipelineInv, ResultPhase
  <2>2. QED
    BY <1>2, <2>1 DEF PhaseView, Unseen
<1>3. CASE Crash /\ pc # "cleanup"
  <2>1. result' = "crashed" /\ pc' = "idle" /\ UNCHANGED <<file, running, target, before, refused>>
    BY <1>3 DEF Crash, PipelineInv, ResultPhase
  <2>2. Outcome' = "crashed" /\ ConfOf' = file
    BY <2>1 DEF PhaseView
  <2>3. Outcome \in {"applying", "undoing"}
    BY <1>3 DEF Crash, PhaseView, PipelineInv, PipelineTypeOK, Phases, Applying, Restoring
  <2>4. CASE pc # "rewrite"
    <3>1. ConfOf = file /\ damaged' = damaged
      BY <1>3, <2>4 DEF Crash, PhaseView
    <3>2. Deploy!Die
      BY <2>1, <2>2, <2>3, <3>1 DEF Deploy!Die, ConfOf
    <3>3. QED
      BY <3>2 DEF Deploy!DeployNext
  <2>5. CASE pc = "rewrite"
    <3>1. PICK s \in 1..N : s = at
      BY DEF PipelineInv, PipelineTypeOK, StepSet
    <3>2. Outcome = "undoing" /\ damaged' = damaged \union {s}
      BY <1>3, <2>5, <3>1 DEF Crash, PhaseView, Restoring
    <3>3. file = [ConfOf EXCEPT ![s] = Torn]
      BY <2>5, <3>1 DEF RewriteTorn, ConfOf, PipelineInv, PipelineTypeOK
    <3>4. ConfOf' = [ConfOf EXCEPT ![s] = Torn]
      BY <2>2, <3>3
    <3>5. Deploy!Die
      BY <2>1, <2>2, <3>2, <3>4 DEF Deploy!Die, ConfOf
    <3>6. QED
      BY <3>5 DEF Deploy!DeployNext
  <2>6. QED
    BY <2>4, <2>5
<1>4. CASE UNCHANGED pipelineVars
  BY <1>4 DEF pipelineVars, ConfOf, Outcome, Unseen
<1>5. QED
  BY <1>1, <1>2, <1>3, <1>4

\* Execute, with backups, restores, errors and crashes, implements Deployment
\* for any number of services and any sequence of runs.
THEOREM PipelineImplementsDeployment == PipelineSpec => ImplementsDeployment
<1>1. PipelineInit => Deploy!DeployInit
  BY DEF PipelineInit, Deploy!DeployInit, Outcome, StepSet
<1>2. PipelineInit => RewriteTorn
  BY DEF PipelineInit, RewriteTorn
<1>3. PipelineInv' => PhaseView'
  BY ViewOfPhase, PTL
<1>4. PipelineInv /\ PipelineInv' /\ RewriteTorn /\ [PipelineNext]_pipelineVars
        => [Deploy!DeployNext]_(Deploy!deployVars)
  <2> SUFFICES ASSUME PipelineInv, PipelineInv', RewriteTorn, [PipelineNext]_pipelineVars
               PROVE  Deploy!DeployNext \/ Unseen
    BY DEF Unseen, Deploy!deployVars, ConfOf
  <2>1. PhaseView /\ PhaseView'
    BY <1>3, ViewOfPhase
  <2>2. QED
    BY <2>1, BackupView, ApplyView, RestoreView, EndView DEF PipelineNext
<1>5. QED
  BY <1>1, <1>2, <1>4, RewriteTornStep, PipelineInvariance, PTL
  DEF PipelineSpec, ImplementsDeployment, Deploy!DeploySpec
=============================================================================
