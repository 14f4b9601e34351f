---------------------------- MODULE ApplyPipeline ----------------------------
(* apply.Pipeline.Execute: back up every existing configuration file, then    *)
(* render, write and activate one service after the other; on an error put    *)
(* the backed-up files back.  Every file operation can fail and the process   *)
(* can die between any two of them.  Runs of the pipeline follow one another  *)
(* on the files the last one left.                                            *)
EXTENDS Integers

CONSTANTS
  N,          \* the number of steps: sysctl, frr, nftables, kea, unbound
  BestEffort, \* steps that report success although settings were refused: sysctl
  Versions,   \* site configurations, and what the renderers make of them
  Initial,    \* the content of a file that is there before the first apply
  Absent,     \* a file that does not exist
  Torn,       \* a file that was truncated but not written to its end
  Broken      \* a service that runs none of the configurations: it stopped, or
              \* has taken a part of one

ASSUME PipelineAssumption ==
  /\ N \in Nat \ {0}
  /\ BestEffort \subseteq 1..N
  /\ Absent # Torn
  /\ {Absent, Torn} \cap (Versions \union {Initial}) = {}

StepSet == 1..N

VARIABLES
  file,       \* the configuration file of each step
  backup,     \* its .warp-backup file
  running,    \* external: the configuration each service runs
  pc,         \* where Execute is; "idle" when no pipeline runs
  at,         \* the step it is at
  saved,      \* keys of the backups map
  todo,       \* backups still to be restored or cleaned up
  target,     \* the configuration being applied
  result,     \* "none", "ok", "failed" or "crashed"
  before,     \* history: the files when this run began
  ranBefore,  \* history: the services when this run began
  refused,    \* history: steps this run went past although settings were refused
  damaged     \* history: steps whose backup or restore was cut short

pipelineVars == <<file, backup, running, pc, at, saved, todo, target, result,
                  before, ranBefore, refused, damaged>>
history == <<before, ranBefore, refused>>

Content == Versions \union {Initial, Torn}
Phases == {"idle", "backup", "copy", "render", "write", "activate",
           "restore", "rewrite", "drop", "cleanup"}

PipelineTypeOK ==
  /\ file \in [StepSet -> Content \union {Absent}]
  /\ backup \in [StepSet -> Content \union {Absent}]
  /\ running \in [StepSet -> Content \union {Absent, Broken}]
  /\ pc \in Phases
  /\ at \in StepSet
  /\ saved \in SUBSET StepSet
  /\ todo \in SUBSET StepSet
  /\ target \in Versions \union {Initial}
  /\ result \in {"none", "ok", "failed", "crashed"}
  /\ before \in [StepSet -> Content \union {Absent}]
  /\ ranBefore \in [StepSet -> Content \union {Absent, Broken}]
  /\ refused \in SUBSET StepSet
  /\ damaged \in SUBSET StepSet

\* A fresh system: some packages ship a configuration file, others do not.
PipelineInit ==
  /\ file \in [StepSet -> {Initial, Absent}]
  /\ backup = [s \in StepSet |-> Absent]
  /\ running = [s \in StepSet |-> Initial]
  /\ pc = "idle" /\ at = 1
  /\ saved = {} /\ todo = {}
  /\ target = Initial
  /\ result = "none"
  /\ before = file /\ ranBefore = running /\ refused = {}
  /\ damaged = {}

-----------------------------------------------------------------------------
(* Backing up *)

\* Execute is called.
Begin(v) ==
  /\ pc = "idle"
  /\ pc' = "backup" /\ at' = 1
  /\ saved' = {} /\ todo' = {}
  /\ target' = v
  /\ result' = "none"
  /\ before' = file /\ ranBefore' = running /\ refused' = {}
  /\ damaged' = {}
  /\ UNCHANGED <<file, backup, running>>

\* ProvisionVLANs fails and Execute returns before it has touched a file.
ProvisionFails ==
  /\ pc = "idle"
  /\ result' = "failed"
  /\ saved' = {} /\ todo' = {}
  /\ before' = file /\ ranBefore' = running /\ refused' = {}
  /\ damaged' = {}
  /\ UNCHANGED <<file, backup, running, pc, at, target>>

\* On to the next iteration of the backup loop, or to the first step.
NextBackup ==
  IF at < N THEN pc' = "backup" /\ at' = at + 1 ELSE pc' = "render" /\ at' = 1

BackupAbsent ==
  /\ pc = "backup"
  /\ file[at] = Absent
  /\ NextBackup
  /\ UNCHANGED <<file, backup, running, saved, todo, target, result, history, damaged>>

\* backupFile has read the file; os.WriteFile truncates the backup first.
BackupCreate ==
  /\ pc = "backup"
  /\ file[at] # Absent
  /\ backup' = [backup EXCEPT ![at] = Torn]
  /\ pc' = "copy"
  /\ UNCHANGED <<file, running, at, saved, todo, target, result, history, damaged>>

BackupWrite ==
  /\ pc = "copy"
  /\ backup' = [backup EXCEPT ![at] = file[at]]
  /\ saved' = saved \union {at}
  /\ NextBackup
  /\ UNCHANGED <<file, running, todo, target, result, history, damaged>>

\* The read or the write fails: the error is dropped and the file is not in the
\* map, so it will not be restored.
BackupFails ==
  /\ pc = "copy" \/ (pc = "backup" /\ file[at] # Absent)
  /\ damaged' = damaged \union {at}
  /\ NextBackup
  /\ UNCHANGED <<file, backup, running, saved, todo, target, result, history>>

-----------------------------------------------------------------------------
(* Render, write, activate *)

\* Mutant of Fails: the step that failed is left out of the restore.
FailsKeepingStep ==
  /\ pc' = "restore"
  /\ todo' = saved \ {at}
  /\ UNCHANGED <<at, saved, target, result, history, damaged>>

\* An error of a step: restoreBackups goes over the map.
Fails ==
  /\ pc' = "restore"
  /\ todo' = saved
  /\ UNCHANGED <<at, saved, target, result, history, damaged>>

RenderOk ==
  /\ pc = "render"
  /\ pc' = "write"
  /\ UNCHANGED <<file, backup, running, at, saved, todo, target, result, history, damaged>>

\* atomicWrite: temporary file, sync, rename.
WriteOk ==
  /\ pc = "write"
  /\ file' = [file EXCEPT ![at] = target]
  /\ pc' = "activate"
  /\ UNCHANGED <<backup, running, at, saved, todo, target, result, history, damaged>>

\* Mutant of RenderOrWriteFails: the file is written in place and can be left
\* half written.
WriteFailsInPlace ==
  /\ pc \in {"render", "write"}
  /\ file' = IF pc = "write" THEN [file EXCEPT ![at] = Torn] ELSE file
  /\ Fails
  /\ UNCHANGED <<backup, running>>

\* The renderer or an operation of atomicWrite fails: the file is as it was.
RenderOrWriteFails ==
  /\ pc \in {"render", "write"}
  /\ Fails
  /\ UNCHANGED <<file, backup, running>>

\* Mutant of LastStep: the loop runs past the last step.
LastStepLate == at > N

LastStep == at = N

\* Activate returned no error.  After the last step the run has succeeded.
Activated ==
  /\ pc = "activate"
  /\ IF LastStep
       THEN pc' = "cleanup" /\ todo' = saved /\ result' = "ok" /\ UNCHANGED at
       ELSE pc' = "render" /\ at' = at + 1 /\ UNCHANGED <<todo, result>>
  /\ UNCHANGED <<file, backup, saved, target, damaged>>

\* sysctl or reload-or-restart succeeded: the service runs what is in the file.
ActivateOk ==
  /\ Activated
  /\ running' = [running EXCEPT ![at] = file[at]]
  /\ UNCHANGED history

\* Mutant of ActivateSkips: the reload of any service is run so that its errors
\* are ignored.
ActivateSkipsAny ==
  /\ Activated
  /\ running[at] # file[at]
  /\ \E r \in {running[at], Broken} : running' = [running EXCEPT ![at] = r]
  /\ refused' = refused \union {at}
  /\ UNCHANGED <<before, ranBefore>>

\* sysctl -e -p: the kernel refuses all or some of the settings, which keep
\* their old values, and the command reports success all the same.
ActivateSkips ==
  /\ Activated
  /\ at \in BestEffort
  /\ running[at] # file[at]
  /\ \E r \in {running[at], Broken} : running' = [running EXCEPT ![at] = r]
  /\ refused' = refused \union {at}
  /\ UNCHANGED <<before, ranBefore>>

\* Mutant of ActivateFails: the loop goes on with the next step.
ActivateFailsGoesOn ==
  /\ pc = "activate"
  /\ \E r \in {running[at], file[at], Broken} : running' = [running EXCEPT ![at] = r]
  /\ IF LastStep THEN Fails
     ELSE pc' = "render" /\ at' = at + 1
          /\ UNCHANGED <<saved, todo, target, result, history, damaged>>
  /\ UNCHANGED <<file, backup>>

\* The reload fails; the service may have taken the new configuration, kept the
\* old one, or stopped.
ActivateFails ==
  /\ pc = "activate"
  /\ \E r \in {running[at], file[at], Broken} : running' = [running EXCEPT ![at] = r]
  /\ Fails
  /\ UNCHANGED <<file, backup>>

-----------------------------------------------------------------------------
(* Restoring and cleaning up *)

\* Mutant of RestoreOpen: the backup is removed as soon as it has been read.
RestoreOpenDrops(s) ==
  /\ pc = "restore" /\ s \in todo
  /\ file' = [file EXCEPT ![s] = Torn]
  /\ backup' = [backup EXCEPT ![s] = Absent]
  /\ pc' = "rewrite" /\ at' = s
  /\ UNCHANGED <<running, saved, todo, target, result, history, damaged>>

\* The backup was read; os.WriteFile truncates the configuration file in place.
RestoreOpen(s) ==
  /\ pc = "restore" /\ s \in todo
  /\ file' = [file EXCEPT ![s] = Torn]
  /\ pc' = "rewrite" /\ at' = s
  /\ UNCHANGED <<backup, running, saved, todo, target, result, history, damaged>>

RestoreWrite ==
  /\ pc = "rewrite"
  /\ file' = [file EXCEPT ![at] = backup[at]]
  /\ pc' = "drop"
  /\ UNCHANGED <<backup, running, at, saved, todo, target, result, history, damaged>>

\* The write fails before or after the file was truncated.  The error is
\* dropped, and the backup is removed all the same.
RestoreWriteFails ==
  /\ \/ pc = "rewrite" /\ UNCHANGED at
     \/ pc = "restore" /\ at' \in todo
  /\ damaged' = damaged \union {at'}
  /\ pc' = "drop"
  /\ UNCHANGED <<file, backup, running, saved, todo, target, result, history>>

\* os.Remove of the backup; its error is dropped and the backup stays.
RestoreDrop ==
  /\ pc = "drop"
  /\ UNCHANGED backup \/ backup' = [backup EXCEPT ![at] = Absent]
  /\ todo' = todo \ {at}
  /\ pc' = "restore"
  /\ UNCHANGED <<file, running, at, saved, target, result, history, damaged>>

\* The backup cannot be read: the file stays as it is, and so does the backup.
RestoreUnreadable(s) ==
  /\ pc = "restore" /\ s \in todo
  /\ todo' = todo \ {s}
  /\ damaged' = damaged \union {s}
  /\ UNCHANGED <<file, backup, running, pc, at, saved, target, result, history>>

RestoreDone ==
  /\ pc = "restore" /\ todo = {}
  /\ pc' = "idle"
  /\ result' = "failed"
  /\ UNCHANGED <<file, backup, running, at, saved, todo, target, history, damaged>>

\* Success: the backups are removed, or stay behind if that fails.
Cleanup(s) ==
  /\ pc = "cleanup" /\ s \in todo
  /\ UNCHANGED backup \/ backup' = [backup EXCEPT ![s] = Absent]
  /\ todo' = todo \ {s}
  /\ UNCHANGED <<file, running, pc, at, saved, target, result, history, damaged>>

CleanupDone ==
  /\ pc = "cleanup" /\ todo = {}
  /\ pc' = "idle"
  /\ UNCHANGED <<file, backup, running, at, saved, todo, target, result, history, damaged>>

\* The process dies.  A restore that was writing leaves its file truncated.
Crash ==
  /\ pc # "idle"
  /\ pc' = "idle"
  /\ result' = IF result = "ok" THEN "ok" ELSE "crashed"
  /\ damaged' = IF pc = "rewrite" THEN damaged \union {at} ELSE damaged
  /\ UNCHANGED <<file, backup, running, at, saved, todo, target, history>>

BackupStep == BackupAbsent \/ BackupCreate \/ BackupWrite \/ BackupFails
ApplyStep ==
  \/ RenderOk \/ WriteOk \/ RenderOrWriteFails
  \/ ActivateOk \/ ActivateSkips \/ ActivateFails
RestoreStep ==
  \/ \E s \in StepSet : RestoreOpen(s) \/ RestoreUnreadable(s)
  \/ RestoreWrite \/ RestoreWriteFails \/ RestoreDrop \/ RestoreDone
CleanupStep == CleanupDone \/ \E s \in StepSet : Cleanup(s)

PipelineNext ==
  \/ \E v \in Versions : Begin(v)
  \/ ProvisionFails
  \/ BackupStep \/ ApplyStep \/ RestoreStep \/ CleanupStep
  \/ Crash

PipelineSpec == PipelineInit /\ [][PipelineNext]_pipelineVars

-----------------------------------------------------------------------------

\* When Execute reports success, every file has the new configuration and every
\* service runs it, whatever earlier runs left behind.  The kernel settings are
\* the one exception: sysctl -e may have passed over settings in this very run,
\* and nothing else reports it.
AppliedEverywhere ==
  result = "ok" =>
    \A s \in StepSet :
      /\ file[s] = target
      /\ running[s] = target \/ s \in BestEffort \cap refused

\* When Execute reports a failure, every file that existed before has its old
\* content again, unless the I/O of its own backup or restore failed.
FailureRestoresFiles ==
  (pc = "idle" /\ result = "failed") =>
    \A s \in StepSet \ damaged : before[s] # Absent => file[s] = before[s]

\* Until a run has succeeded, the old content of a file is never lost: it is in
\* the file or in the backup next to it, at every moment the process may die.
OldContentOnDisk ==
  result # "ok" =>
    \A s \in StepSet \ damaged :
      before[s] # Absent => before[s] \in {file[s], backup[s]}

\* A service can only ever find a truncated configuration file while, or
\* after, a restore of that file was cut short: atomicWrite leaves none.
TornOnlyByRestore ==
  \A s \in StepSet :
    (file[s] = Torn /\ before[s] # Torn) => s \in damaged \/ (pc = "rewrite" /\ at = s)

\* Services take the new configuration in the order of the steps and never
\* past one that failed: wherever a run ends, the services it has changed are
\* the first ones, all but the last of them run the target (or are kernel
\* settings that sysctl -e passed over), and the others are as they were.  A
\* failed run does not put them back.
ServicesChangeInOrder ==
  \A s, t \in StepSet :
    (s < t /\ running[t] # ranBefore[t]) => running[s] = target \/ s \in BestEffort \cap refused

\* The run as Deployment sees it.
Outcome ==
  CASE pc = "idle" \/ result = "ok" -> result
    [] pc \in {"restore", "rewrite", "drop"} -> "undoing"
    [] OTHER -> "applying"

\* The pipeline with its backups implements the promise of Deployment, with any
\* history of failed and interrupted runs before it.  A file being rewritten
\* from its backup counts as given back until the write fails.
Deploy == INSTANCE Deployment WITH
  conf <- [s \in StepSet |-> IF pc = "rewrite" /\ s = at THEN before[s] ELSE file[s]],
  serves <- running, goal <- target, outcome <- Outcome, old <- before,
  partly <- refused, lost <- damaged
ImplementsDeployment == Deploy!DeploySpec
=============================================================================
