----------------------------- MODULE StatusFile -----------------------------
(* The report of `warp monitor` to `warp status`: the prober's counters under *)
(* p.mu, the goroutine that writes them to /run/warp/health.json once a       *)
(* second, and the command that reads the file.  doPing is split where it     *)
(* holds the lock; its callback, which takes routes away or back, may hang.   *)
(* The writer is not waited for when the process stops, and the file outlives *)
(* the process.                                                               *)
EXTENDS WanConfig

CONSTANTS
  Free,        \* nobody holds p.mu
  Missing,     \* there is no file
  Torn,        \* the file is empty or ends early
  MaxProbes,   \* MaxProbes[u]: bound on the probes of u by one process
  MaxBoots,    \* bound on the starts of the monitor
  MaxErrors    \* bound on the failing writes

VARIABLES
  states,    \* p.states[u]: counters and status
  pc,        \* pc[u]: where the probe loop of u is
  mu,        \* the holder of p.mu
  writer,    \* where the goroutine that writes the file is
  pending,   \* the report it writes
  file,      \* the status file
  seen,      \* the report warp status has shown last
  life,      \* the process: running, stopping or dead
  boot,      \* its number, which stands for the time stamp of its reports
  cut,       \* a write failed, or was cut off, and none has succeeded since
  errors     \* the number of failed writes

probing == <<states, pc, mu>>
writing == <<writer, pending, file, cut, errors>>
statusVars == <<states, pc, mu, writer, pending, file, seen, life, boot, cut, errors>>

Unprobed == [probes |-> 0, failures |-> 0, fails |-> 0, status |-> "unknown"]

UplinkState ==
  [probes : Nat, failures : Nat, fails : Nat, status : {"unknown", "healthy", "degraded", "down"}]
Report == [boot : Nat, uplinks : [Uplinks -> UplinkState]]

ASSUME StatusAssumption ==
  /\ Free \notin Uplinks
  /\ Missing \notin Report /\ Torn \notin Report /\ Missing # Torn
  /\ MaxProbes \in [Uplinks -> Nat] /\ MaxBoots \in Nat \ {0} /\ MaxErrors \in Nat

Alive == life # "dead"

\* The memory of a new process, nothing probed yet.
AllUnprobed == [u \in Uplinks |-> Unprobed]
AllSelecting == [u \in Uplinks |-> "select"]

\* The first start; the goroutine that writes the file waits for a second.
StatusInit ==
  /\ states = AllUnprobed /\ pc = AllSelecting /\ mu = Free
  /\ writer = "wait" /\ pending = Missing /\ file = Missing /\ seen = Missing
  /\ life = "running" /\ boot = 1 /\ cut = FALSE /\ errors = 0

-----------------------------------------------------------------------------
(* The probe loops *)

\* Mutant of Counted: a success starts the counters afresh.
CountedAfresh(s, ok) ==
  [probes |-> IF ok THEN 1 ELSE s.probes + 1, failures |-> IF ok THEN 0 ELSE s.failures + 1,
   fails |-> IF ok THEN 0 ELSE s.fails + 1, status |-> s.status]

Counted(s, ok) ==
  [probes |-> s.probes + 1, failures |-> IF ok THEN s.failures ELSE s.failures + 1,
   fails |-> IF ok THEN 0 ELSE s.fails + 1, status |-> s.status]

\* doPing after the ping has come back: p.mu.Lock and the counters.  The select
\* may prefer the ticker even when the context is done.
Count(u, ok) ==
  /\ Alive /\ pc[u] = "select" /\ mu = Free
  /\ states[u].probes < MaxProbes[u]
  /\ mu' = u /\ pc' = [pc EXCEPT ![u] = "locked"]
  /\ states' = [states EXCEPT ![u] = Counted(@, ok)]
  /\ UNCHANGED <<writing, seen, life, boot>>

Verdict(u) ==
  IF states[u].fails >= Threshold(u) THEN "down"
  ELSE IF states[u].fails >= 1 THEN "degraded" ELSE "healthy"
Changed(u) == Verdict(u) # states[u].status

\* Mutant of Judge: the callback is made before p.mu is unlocked.
JudgeLocked(u) ==
  /\ Alive /\ pc[u] = "locked"
  /\ states' = [states EXCEPT ![u].status = Verdict(u)]
  /\ mu' = IF Changed(u) THEN u ELSE Free
  /\ pc' = [pc EXCEPT ![u] = IF Changed(u) THEN "calling" ELSE "select"]
  /\ UNCHANGED <<writing, seen, life, boot>>

\* The rest of doPing: the status, p.mu.Unlock, and the callback if it changed.
Judge(u) ==
  /\ Alive /\ pc[u] = "locked"
  /\ states' = [states EXCEPT ![u].status = Verdict(u)]
  /\ mu' = Free
  /\ pc' = [pc EXCEPT ![u] = IF Changed(u) THEN "calling" ELSE "select"]
  /\ UNCHANGED <<writing, seen, life, boot>>

\* OnStateChange comes back, if the vtysh it runs does.
CallbackReturns(u) ==
  /\ Alive /\ pc[u] = "calling"
  /\ pc' = [pc EXCEPT ![u] = "select"]
  /\ UNCHANGED <<states, mu, writing, seen, life, boot>>

\* probeLoop sees that the context is done.
LoopEnds(u) ==
  /\ life = "stopping" /\ pc[u] = "select"
  /\ pc' = [pc EXCEPT ![u] = "done"]
  /\ UNCHANGED <<states, mu, writing, seen, life, boot>>

-----------------------------------------------------------------------------
(* The goroutine that writes the file *)

\* Mutant of WakeUp: the file is opened, and truncated, first.
WakeUpTruncating ==
  /\ Alive /\ writer = "wait"
  /\ writer' = "lock" /\ file' = Torn
  /\ UNCHANGED <<probing, pending, cut, errors, seen, life, boot>>

\* A second has passed: WriteStatusFile is called.
WakeUp ==
  /\ Alive /\ writer = "wait"
  /\ writer' = "lock"
  /\ UNCHANGED <<probing, pending, file, cut, errors, seen, life, boot>>

\* Mutant of Snapshot: the states are copied without p.mu.
SnapshotUnlocked ==
  /\ Alive /\ writer = "lock"
  /\ pending' = [boot |-> boot, uplinks |-> states]
  /\ writer' = "open"
  /\ UNCHANGED <<probing, file, cut, errors, seen, life, boot>>

\* GetAllStates copies the states under p.mu.RLock.
Snapshot ==
  /\ Alive /\ writer = "lock" /\ mu = Free
  /\ pending' = [boot |-> boot, uplinks |-> states]
  /\ writer' = "open"
  /\ UNCHANGED <<probing, file, cut, errors, seen, life, boot>>

\* os.WriteFile opens the file with O_TRUNC ...
Truncate ==
  /\ Alive /\ writer = "open"
  /\ file' = Torn /\ writer' = "write"
  /\ UNCHANGED <<probing, pending, cut, errors, seen, life, boot>>

\* ... and writes the report.
WriteReport ==
  /\ Alive /\ writer = "write"
  /\ file' = pending /\ pending' = Missing /\ writer' = "wait" /\ cut' = FALSE
  /\ UNCHANGED <<probing, errors, seen, life, boot>>

\* Mutant of WriteFails: the loop ends at an error.
WriteGivesUp ==
  /\ Alive /\ writer \in {"open", "write"} /\ errors < MaxErrors
  /\ errors' = errors + 1 /\ pending' = Missing
  /\ cut' = (cut \/ writer = "write") /\ writer' = "gone"
  /\ UNCHANGED <<probing, file, seen, life, boot>>

\* Opening or writing fails: the loop ignores the error and tries again.
WriteFails ==
  /\ Alive /\ writer \in {"open", "write"} /\ errors < MaxErrors
  /\ errors' = errors + 1 /\ pending' = Missing
  /\ cut' = (cut \/ writer = "write") /\ writer' = "wait"
  /\ UNCHANGED <<probing, file, seen, life, boot>>

\* The select sees that the context is done.
WriterEnds ==
  /\ life = "stopping" /\ writer = "wait"
  /\ writer' = "gone"
  /\ UNCHANGED <<probing, pending, file, cut, errors, seen, life, boot>>

-----------------------------------------------------------------------------
(* The process, and warp status *)

\* A signal: cancel, then prober.Stop.
Signal ==
  /\ life = "running" /\ life' = "stopping"
  /\ UNCHANGED <<probing, writing, seen, boot>>

\* The process is gone, its memory and a write that had begun with it.
Die ==
  /\ life' = "dead" /\ writer' = "gone" /\ pending' = Missing
  /\ cut' = (cut \/ writer = "write")
  /\ states' = AllUnprobed /\ pc' = AllSelecting /\ mu' = Free
  /\ UNCHANGED <<file, errors, seen, boot>>

\* Stop has waited for every probe loop, but not for the writer.
Exit == life = "stopping" /\ (\A u \in Uplinks : pc[u] = "done") /\ Die

\* The process is killed.
Kill == Alive /\ Die

\* The monitor is started again; the file is still there.
Restart ==
  /\ life = "dead" /\ boot < MaxBoots
  /\ boot' = boot + 1 /\ life' = "running" /\ writer' = "wait"
  /\ UNCHANGED <<probing, pending, file, cut, errors, seen>>

Whole(f) == f \notin {Missing, Torn}

\* cmdStatus, once it has shown the current revision: a file that is missing or
\* does not parse is passed over in silence.
ReadStatusFile ==
  /\ Whole(file)
  /\ seen' = file
  /\ UNCHANGED <<probing, writing, life, boot>>

ProberStep ==
  \E u \in Uplinks :
    \/ \E ok \in BOOLEAN : Count(u, ok)
    \/ Judge(u)
    \/ CallbackReturns(u)
    \/ LoopEnds(u)
WriterStep == WakeUp \/ Snapshot \/ Truncate \/ WriteReport \/ WriteFails \/ WriterEnds
ProcessStep == Signal \/ Exit \/ Kill \/ Restart

StatusNext == ProberStep \/ WriterStep \/ ProcessStep \/ ReadStatusFile

StatusSpec == StatusInit /\ [][StatusNext]_statusVars

\* Goroutines that can run do.  A reader that waits for an RWMutex is let in
\* when its holder unlocks, however many other writers queue up.  Nothing is
\* assumed of pings, callbacks, signals or of warp status.
StatusFairness ==
  /\ \A u \in Uplinks : WF_statusVars(Judge(u))
  /\ WF_statusVars(WakeUp) /\ SF_statusVars(Snapshot)
  /\ WF_statusVars(Truncate \/ WriteReport \/ WriteFails)
StatusFairSpec == StatusSpec /\ StatusFairness

-----------------------------------------------------------------------------

\* The types of the prober's states, the lock, the goroutines and the file.
StatusTypeOK ==
  /\ states \in [Uplinks -> UplinkState]
  /\ pc \in [Uplinks -> {"select", "locked", "calling", "done"}]
  /\ mu \in Uplinks \union {Free}
  /\ writer \in {"wait", "lock", "open", "write", "gone"}
  /\ pending \in Report \union {Missing}
  /\ file \in Report \union {Missing, Torn}
  /\ seen \in Report \union {Missing}
  /\ life \in {"running", "stopping", "dead"} /\ boot \in 1..MaxBoots
  /\ cut \in BOOLEAN /\ errors \in 0..MaxErrors

\* A state as doPing leaves it: the counters fit, and the status is the one
\* that they and the uplink's threshold call for.
Coherent(u, s) ==
  /\ s.fails <= s.failures /\ s.failures <= s.probes
  /\ s.status = IF s.probes = 0 THEN "unknown"
                ELSE IF s.fails >= Threshold(u) THEN "down"
                ELSE IF s.fails >= 1 THEN "degraded" ELSE "healthy"

\* No report that warp status finds was copied from the middle of a doPing.
ReportCoherent ==
  Whole(file) => \A u \in Uplinks : Coherent(u, file.uplinks[u])

\* warp status finds a file it cannot parse only while the monitor writes it,
\* or after a write failed or was cut off and before the next one.
UnreadableOnlyWhileWriting ==
  file = Torn => writer = "write" \/ cut

\* What the report has seen before r: an earlier process, or fewer probes.
NotOlder(r, s) ==
  \/ r.boot > s.boot
  \/ r.boot = s.boot /\ \A u \in Uplinks :
       r.uplinks[u].probes >= s.uplinks[u].probes /\ r.uplinks[u].failures >= s.uplinks[u].failures

\* Calling warp status again never shows an older report, and the counters it
\* shows only go back to zero with a new monitor process.
SeenNeverGoesBack ==
  [][Whole(seen) => NotOlder(seen', seen)]_seen

\* An uplink that stays down is reported down while the monitor runs, even if
\* the callback that should withdraw its route never comes back.
DownEventuallyReported ==
  \A u \in Uplinks :
    (life = "running" /\ states[u].status = "down") ~>
      \/ Whole(file) /\ file.boot = boot /\ file.uplinks[u].status = "down"
      \/ states[u].status # "down"
      \/ life # "running"

\* A file that is missing, torn or left by a dead monitor is replaced by a
\* report of the running one.
StaleReplaced ==
  life = "running" ~> (Whole(file) /\ file.boot = boot) \/ life # "running"
=============================================================================
