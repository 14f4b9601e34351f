------------------------------- MODULE WarpCli -------------------------------
(* `warp apply` and `warp rollback` as whole commands that several operators  *)
(* may run at once, while site.yaml is being edited.  A command decides what  *)
(* to apply before it takes the apply lock, applies it service by service     *)
(* under the lock, and then stores a revision: apply reads the file again for *)
(* that, rollback stores what it read before.  The lock is that of ApplyLock; *)
(* ApplyPipeline and RevisionStore give the details of Execute and Save.      *)
(* Here a service is activated or not, and a save that is cut off may have    *)
(* listed its revision without making it the current one.                     *)
EXTENDS ApplyLock, Sequences

CONSTANTS
  Versions,    \* contents of site.yaml that the YAML parser accepts
  Valid,       \* those that pass Validate
  Factory,     \* what a service runs before the first apply
  Stopped,     \* what a service runs that did not survive its reload
  Nothing,     \* no configuration in hand
  Services,    \* the number of services the pipeline reloads (the kernel settings,
               \* which sysctl -e may take in part, are left to ApplyPipeline)
  MaxEdits,    \* bound: edits of site.yaml
  MaxRevs      \* bound: revisions stored

ASSUME CliAssumption ==
  /\ Valid \subseteq Versions
  /\ {Factory, Stopped, Nothing} \cap Versions = {}
  /\ Services \in Nat \ {0}
  /\ MaxEdits \in Nat /\ MaxRevs \in Nat

VARIABLES
  site,      \* site.yaml on disk
  edits,     \* how often it was edited
  live,      \* the configuration each service runs
  revs,      \* the listed revisions, oldest first
  head,      \* the position of the current one, 0 if there is none
  phase,     \* where each command is
  cmd,       \* which command it is
  cfg,       \* the parsed configuration it applies
  bytes,     \* the content it will store
  next,      \* the service it activates next
  edited,    \* history: applies under which site.yaml changed
  drift,     \* history: the services may run something else than the last revision
  raced,     \* history: a revision was stored from a file edited meanwhile
  overtaken  \* history: rollbacks that waited for the lock while current changed

diskVarsCli == <<site, edits, live, revs, head>>
procVars == <<phase, cmd, cfg, bytes, next>>
ghostVars == <<edited, drift, raced, overtaken>>
cliVars == <<lockVars, diskVarsCli, procVars, ghostVars>>

CliTypeOK ==
  /\ LockTypeOK
  /\ site \in Versions /\ edits \in Nat
  /\ live \in [1..Services -> Versions \union {Factory, Stopped}]
  /\ revs \in Seq(Versions) /\ head \in 0..Len(revs)
  /\ phase \in [Procs -> {"out", "loaded", "exec", "applied", "read", "saved", "ended"}]
  /\ cmd \in [Procs -> {"none", "apply", "rollback"}]
  /\ cfg \in [Procs -> Versions \union {Nothing}]
  /\ bytes \in [Procs -> Versions \union {Nothing}]
  /\ next \in [Procs -> 1..Services]
  /\ edited \in SUBSET Procs /\ overtaken \in SUBSET Procs
  /\ drift \in BOOLEAN /\ raced \in BOOLEAN

CliInit ==
  /\ LockInit
  /\ site \in Versions /\ edits = 0
  /\ live = [s \in 1..Services |-> Factory]
  /\ revs = <<>> /\ head = 0
  /\ phase = [p \in Procs |-> "out"]
  /\ cmd = [p \in Procs |-> "none"]
  /\ cfg = [p \in Procs |-> Nothing]
  /\ bytes = [p \in Procs |-> Nothing]
  /\ next = [p \in Procs |-> 1]
  /\ edited = {} /\ drift = FALSE /\ raced = FALSE /\ overtaken = {}

\* The operator saves another site.yaml (external).
Edit(v) ==
  /\ edits < MaxEdits
  /\ v # site
  /\ site' = v
  /\ edits' = edits + 1
  /\ edited' = edited \union
       {p \in Procs : cmd[p] = "apply" /\ phase[p] \in {"loaded", "exec", "applied"}}
  /\ UNCHANGED <<lockVars, live, revs, head, procVars, drift, raced, overtaken>>

Starts(p, command, version, content) ==
  /\ phase[p] = "out" /\ pc[p] = "idle"
  /\ phase' = [phase EXCEPT ![p] = "loaded"]
  /\ cmd' = [cmd EXCEPT ![p] = command]
  /\ cfg' = [cfg EXCEPT ![p] = version]
  /\ bytes' = [bytes EXCEPT ![p] = content]
  /\ next' = [next EXCEPT ![p] = 1]
  /\ UNCHANGED <<lockVars, diskVarsCli, ghostVars>>

\* Mutant of LoadApply: the configuration is not validated.
LoadUnchecked(p) == Starts(p, "apply", site, Nothing)

\* cmdApply: LoadFile and Validate; a file that fails them ends the command.
LoadApply(p) == site \in Valid /\ Starts(p, "apply", site, Nothing)

\* A command that ends without having done anything: the configuration does
\* not pass, or there is no previous revision.
Rejected(p) ==
  /\ phase[p] = "out" /\ pc[p] = "idle"
  /\ site \notin Valid \/ head < 2
  /\ UNCHANGED cliVars

\* cmdRollback: Previous, Get and Parse.  Nothing is validated again.
LoadRollback(p) ==
  /\ head >= 2
  /\ Starts(p, "rollback", revs[head - 1], revs[head - 1])

\* The command is over and its memory is gone.
Forgets(p) ==
  /\ phase' = [phase EXCEPT ![p] = "out"]
  /\ cmd' = [cmd EXCEPT ![p] = "none"]
  /\ cfg' = [cfg EXCEPT ![p] = Nothing]
  /\ bytes' = [bytes EXCEPT ![p] = Nothing]
  /\ next' = [next EXCEPT ![p] = 1]
  /\ edited' = edited \ {p}

Ends(p) == Forgets(p) /\ overtaken' = overtaken \ {p}

LockOpens(p) ==
  /\ phase[p] = "loaded"
  /\ Open(p)
  /\ UNCHANGED <<diskVarsCli, procVars, ghostVars>>

LockTaken(p) ==
  /\ FlockOk(p)
  /\ phase' = [phase EXCEPT ![p] = "exec"]
  /\ UNCHANGED <<diskVarsCli, cmd, cfg, bytes, next, ghostVars>>

LockRefused(p) ==
  /\ FlockBusy(p)
  /\ Ends(p)
  /\ UNCHANGED <<diskVarsCli, drift, raced>>

\* The pipeline has steps left after this one.
MoreServices(p) == next[p] < Services

\* One step of Execute succeeds; after the last one the pipeline has.
Activate(p) ==
  /\ phase[p] = "exec"
  /\ live' = [live EXCEPT ![next[p]] = cfg[p]]
  /\ drift' = TRUE
  /\ IF MoreServices(p)
       THEN next' = [next EXCEPT ![p] = @ + 1] /\ UNCHANGED phase
       ELSE phase' = [phase EXCEPT ![p] = IF cmd[p] = "apply" THEN "applied" ELSE "read"]
            /\ UNCHANGED next
  /\ UNCHANGED <<lockVars, site, edits, revs, head, cmd, cfg, bytes, edited, raced, overtaken>>

\* cmdApply reads site.yaml again, for the revision.
Reread(p) ==
  /\ phase[p] = "applied"
  /\ bytes' = [bytes EXCEPT ![p] = site]
  /\ phase' = [phase EXCEPT ![p] = "read"]
  /\ UNCHANGED <<lockVars, diskVarsCli, cmd, cfg, next, ghostVars>>

\* Save has listed the revision, and the current one is now at h.
Lists(p, h) ==
  /\ Len(revs) < MaxRevs
  /\ revs' = Append(revs, bytes[p])
  /\ head' = h
  /\ drift' = (p \in edited)
  /\ raced' = (raced \/ p \in edited)
  /\ overtaken' = (overtaken \union {q \in Procs : /\ h # head
                                                  /\ cmd[q] = "rollback"
                                                  /\ phase[q] = "loaded"}) \ {p}

\* Mutant of SaveRevision: the revision is stored before the pipeline has run.
SaveFirst(p) ==
  /\ phase[p] = "exec" /\ next[p] = 1
  /\ Len(revs) < MaxRevs
  /\ revs' = Append(revs, cfg[p]) /\ head' = Len(revs')
  /\ drift' = FALSE
  /\ phase' = [phase EXCEPT ![p] = "saved"]
  /\ UNCHANGED <<lockVars, site, edits, live, cmd, cfg, bytes, next, edited, raced, overtaken>>

\* store.Save succeeds.
SaveRevision(p) ==
  /\ phase[p] = "read"
  /\ Lists(p, Len(revs) + 1)
  /\ phase' = [phase EXCEPT ![p] = "saved"]
  /\ UNCHANGED <<lockVars, site, edits, live, cmd, cfg, bytes, next, edited>>

\* store.Save is cut off: before the metadata is complete nothing is listed;
\* after it the revision is, and current is the old one or, between the removal
\* of the symlink and the new one, none.
CutSave(p) ==
  /\ phase[p] = "read"
  /\ \/ Lists(p, head)
     \/ Lists(p, 0)
     \/ overtaken' = overtaken \ {p} /\ UNCHANGED <<revs, head, drift, raced>>
  /\ UNCHANGED <<site, edits, live>>

\* store.Save fails: a warning, and the command still reports success.
SaveFails(p) ==
  /\ CutSave(p)
  /\ phase' = [phase EXCEPT ![p] = "ended"]
  /\ UNCHANGED <<lockVars, cmd, cfg, bytes, next, edited>>

\* The command is killed in store.Save.
DiesSaving(p) ==
  /\ CutSave(p)
  /\ Die(p)
  /\ Forgets(p)

\* Mutant of Releases: the lock is let go before the revision is stored.
ReleasesBeforeSave(p) ==
  /\ phase[p] \in {"read", "saved", "ended"}
  /\ Unlock(p) \/ Close(p)
  /\ phase' = [phase EXCEPT ![p] = IF @ = "read" THEN "read" ELSE "ended"]
  /\ UNCHANGED <<diskVarsCli, cmd, cfg, bytes, next, ghostVars>>

\* The deferred clean-up of AcquireLock, call by call.
Releases(p) ==
  /\ phase[p] \in {"saved", "ended"}
  /\ Unlock(p) \/ Close(p)
  /\ phase' = [phase EXCEPT ![p] = "ended"]
  /\ UNCHANGED <<diskVarsCli, cmd, cfg, bytes, next, ghostVars>>

Leaves(p) ==
  /\ Remove(p)
  /\ Ends(p)
  /\ UNCHANGED <<diskVarsCli, drift, raced>>

\* A reload fails and the command exits.  The service may have taken the new
\* configuration, kept the old one, or stopped; the others stay as they are.
ActivateFails(p) ==
  /\ phase[p] = "exec"
  /\ \E r \in {live[next[p]], cfg[p], Stopped} : live' = [live EXCEPT ![next[p]] = r]
  /\ drift' = TRUE
  /\ Die(p)
  /\ Ends(p)
  /\ UNCHANGED <<site, edits, revs, head, raced>>

\* Rendering, writing or the second read of site.yaml fails and the command
\* exits, or it is killed: the clean-up does not run.
Dies(p) ==
  /\ phase[p] \notin {"out", "read"}
  /\ IF pc[p] = "idle" THEN UNCHANGED lockVars ELSE Die(p)
  /\ Ends(p)
  /\ UNCHANGED <<diskVarsCli, drift, raced>>

CliStep(p) ==
  \/ LoadApply(p) \/ LoadRollback(p) \/ Rejected(p)
  \/ LockOpens(p) \/ LockTaken(p) \/ LockRefused(p)
  \/ Activate(p) \/ ActivateFails(p)
  \/ Reread(p) \/ SaveRevision(p) \/ SaveFails(p)
  \/ Releases(p) \/ Leaves(p) \/ Dies(p) \/ DiesSaving(p)

CliNext ==
  \/ \E v \in Versions : Edit(v)
  \/ \E p \in Procs : CliStep(p)

CliSpec == CliInit /\ [][CliNext]_cliVars

-----------------------------------------------------------------------------

\* When the last thing that happened to the services was followed by a listed
\* revision, every service runs exactly that revision: no other command has
\* slipped in between the pipeline and Save, even if Save was cut off after it
\* had listed the revision.  Holds while the lock excludes and the file was not
\* edited during the apply.
LastRevisionIsLive ==
  (~drift /\ ~strayed /\ revs # <<>>) =>
    \A s \in 1..Services : live[s] = revs[Len(revs)]

\* Services only run configurations that passed Validate.  Rollback does not
\* validate; it is safe because only applied configurations are stored, which
\* an edit between the two reads of site.yaml can break.
OnlyValidatedRuns ==
  ~raced => \A s \in 1..Services : live[s] \in Valid \union {Factory, Stopped}

\* A rollback applies, and stores, the revision before the current one, although
\* it reads Previous before it takes the lock: only a command whose Save changes
\* current in that window, and none that comes later, makes it another one.  A
\* revision that was listed but never made current is not taken for it.
RollbackTargetsPrevious ==
  ~strayed => \A p \in Procs :
    (cmd[p] = "rollback" /\ phase[p] \in {"loaded", "exec", "read"} /\ p \notin overtaken)
      => head >= 2 /\ bytes[p] = revs[head - 1]

\* The command that holds the lock, and how far it has come.
Owner ==
  IF \E p \in Procs : pc[p] = "critical" THEN CHOOSE p \in Procs : pc[p] = "critical" ELSE NoProc
Goal == IF Owner = NoProc THEN Nothing ELSE cfg[Owner]
Done ==
  CASE Owner = NoProc -> 0
    [] Owner # NoProc /\ phase[Owner] = "exec" -> next[Owner] - 1
    [] Owner # NoProc /\ phase[Owner] \in {"applied", "read"} -> Services
    [] OTHER -> Services + 1

\* Commands take effect one after the other, as SerialCommands says, although
\* they load, wait, are refused, fail and die at the same time: every step is a
\* step of the one command in effect or changes nothing, as long as no lock
\* file has strayed.
Serial == INSTANCE SerialCommands WITH
  serving <- live, stored <- revs, owner <- Owner, goal <- Goal, done <- Done
CommandsAreSerial ==
  Serial!SerialInit /\ [][~strayed' => [Serial!SerialNext]_(Serial!serialVars)]_cliVars

\* The revision that apply or rollback has just stored is what it applied:
\* Current is "the current (latest applied) revision".
StoredIsApplied ==
  \A p \in Procs : (phase[p] = "saved" /\ ~strayed) => revs[Len(revs)] = cfg[p]
=============================================================================
