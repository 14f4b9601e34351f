-------------------------- MODULE StatusFileProofs --------------------------
(* The safety of the status file, for any uplinks, thresholds and bounds.     *)
(* What is in the file was copied under the lock; the invariant says how the  *)
(* lock is held, which states are whole when it is free, and that states,     *)
(* pending report, file and what has been seen follow each other in time.     *)
EXTENDS StatusFile, TLAPS


\* Counters that fit each other.
Tallied(s) == s.fails <= s.failures /\ s.failures <= s.probes

\* p.mu is held by the loop that is between Count and Judge; the states of all
\* others are as doPing leaves them.
LockHeld == \A u \in Uplinks : pc[u] = "locked" <=> mu = u
StatesWhole ==
  \A u \in Uplinks :
    /\ Tallied(states[u])
    /\ pc[u] = "locked" => states[u].probes >= 1
    /\ pc[u] # "locked" => Coherent(u, states[u])

\* A report is not ahead of the process that runs.
UpToDate(r) ==
  /\ r.boot <= boot
  /\ (r.boot = boot /\ Alive) => \A u \in Uplinks :
       states[u].probes >= r.uplinks[u].probes /\ states[u].failures >= r.uplinks[u].failures

AllCoherent(r) == \A u \in Uplinks : Coherent(u, r.uplinks[u])

PendingFits ==
  /\ writer \in {"open", "write"} <=> pending # Missing
  /\ pending # Missing => AllCoherent(pending) /\ UpToDate(pending) /\ life # "dead"
FileFits == Whole(file) => AllCoherent(file) /\ UpToDate(file)
SeenFits == seen # Missing => UpToDate(seen)

\* Seen, file and pending report are one after the other.
InOrder ==
  /\ (seen # Missing /\ Whole(file)) => NotOlder(file, seen)
  /\ (seen # Missing /\ pending # Missing) => NotOlder(pending, seen)
  /\ (Whole(file) /\ pending # Missing) => NotOlder(pending, file)

StatusInv ==
  /\ StatusTypeOK /\ LockHeld /\ StatesWhole
  /\ PendingFits /\ FileFits /\ SeenFits /\ InOrder
  /\ UnreadableOnlyWhileWriting

-----------------------------------------------------------------------------

LEMMA ThresholdPositive == \A u \in Uplinks : Threshold(u) \in Nat /\ Threshold(u) >= 1
<1> TAKE u \in Uplinks
<1>1. Failures[u] \in Int
  BY WanAssumption
<1> QED
  BY <1>1 DEF Threshold, DefaultFailures

LEMMA StatusInitially == StatusInit => StatusInv
<1> SUFFICES ASSUME StatusInit PROVE StatusInv
  OBVIOUS
<1>1. StatusTypeOK
  <2>1. states \in [Uplinks -> UplinkState]
    BY DEF StatusInit, AllUnprobed, Unprobed, UplinkState
  <2>2. boot \in 1..MaxBoots /\ errors \in 0..MaxErrors
    BY StatusAssumption DEF StatusInit
  <2>3. cut \in BOOLEAN
    BY DEF StatusInit
  <2> QED
    BY <2>1, <2>2, <2>3 DEF StatusInit, StatusTypeOK, AllSelecting
<1>2. LockHeld /\ StatesWhole
  BY StatusAssumption, ThresholdPositive DEF StatusInit, AllUnprobed, AllSelecting, Unprobed, LockHeld, StatesWhole, Tallied, Coherent
<1>3. PendingFits /\ FileFits /\ SeenFits /\ InOrder /\ UnreadableOnlyWhileWriting
  BY StatusAssumption DEF StatusInit, PendingFits, FileFits, SeenFits, InOrder, UnreadableOnlyWhileWriting, Whole
<1> QED
  BY <1>1, <1>2, <1>3 DEF StatusInv

\* What a step needs of a report when the process has only moved forward.
LEMMA UpToDateKept ==
  ASSUME StatusTypeOK, NEW r \in Report, UpToDate(r), boot' = boot, Alive' => Alive,
         \A u \in Uplinks : Alive' =>
           /\ states'[u].probes \in Nat /\ states'[u].failures \in Nat
           /\ states'[u].probes >= states[u].probes /\ states'[u].failures >= states[u].failures
  PROVE  UpToDate(r)'
<1>1. \A u \in Uplinks : r.uplinks[u] \in UplinkState /\ states[u] \in UplinkState
  BY DEF Report, StatusTypeOK
<1>2. ASSUME r.boot = boot', Alive', NEW u \in Uplinks
      PROVE  states'[u].probes >= r.uplinks[u].probes /\ states'[u].failures >= r.uplinks[u].failures
  BY <1>1, <1>2 DEF UpToDate, UplinkState
<1> QED
  BY <1>2 DEF UpToDate, Alive

\* Reports are known to be reports.
LEMMA ReportsTyped ==
  ASSUME StatusTypeOK
  PROVE  /\ pending # Missing => pending \in Report
         /\ Whole(file) => file \in Report
         /\ seen # Missing => seen \in Report
  BY DEF StatusTypeOK, Whole

\* A step that leaves states and lock of the running process alone.
LEMMA WriterKeeps ==
  ASSUME StatusInv, UNCHANGED <<states, pc, mu, boot>>, Alive' => Alive
  PROVE  /\ LockHeld' /\ StatesWhole'
         /\ \A r \in Report : UpToDate(r) => UpToDate(r)'
<1>1. LockHeld' /\ StatesWhole'
  BY DEF StatusInv, LockHeld, StatesWhole, Tallied, Coherent
<1>2. \A u \in Uplinks : states[u] \in UplinkState
  BY DEF StatusInv, StatusTypeOK
<1>3. \A r \in Report : UpToDate(r) => UpToDate(r)'
  BY UpToDateKept, <1>2 DEF StatusInv, UplinkState
<1> QED
  BY <1>1, <1>3

\* A step of a probe loop leaves the reports alone; the counters only grow.
LEMMA ProberKeeps ==
  ASSUME StatusInv, UNCHANGED <<writing, seen, life, boot>>, StatusTypeOK',
         \A u \in Uplinks : states'[u].probes >= states[u].probes /\ states'[u].failures >= states[u].failures
  PROVE  PendingFits' /\ FileFits' /\ SeenFits' /\ InOrder' /\ UnreadableOnlyWhileWriting'
<1>1. \A u \in Uplinks : states'[u].probes \in Nat /\ states'[u].failures \in Nat
  BY DEF StatusTypeOK, UplinkState
<1>2. \A r \in Report : UpToDate(r) => UpToDate(r)'
  BY UpToDateKept, <1>1 DEF StatusInv, Alive
<1>3. UNCHANGED <<writer, pending, file, cut, seen>>
  BY DEF writing
<1>4. PendingFits' /\ FileFits' /\ SeenFits'
  BY <1>2, <1>3, ReportsTyped DEF StatusInv, PendingFits, FileFits, SeenFits, Whole, AllCoherent, Coherent
<1>5. InOrder' /\ UnreadableOnlyWhileWriting'
  BY <1>3 DEF StatusInv, InOrder, NotOlder, UnreadableOnlyWhileWriting, Whole
<1> QED
  BY <1>4, <1>5

-----------------------------------------------------------------------------
(* One lemma per group of steps *)

LEMMA CountKeeps ==
  ASSUME StatusInv, NEW u \in Uplinks, NEW ok \in BOOLEAN, Count(u, ok) PROVE StatusInv'
<1> USE DEF Count
<1>1. states[u] \in UplinkState /\ Tallied(states[u]) /\ mu = Free
  BY DEF StatusInv, StatusTypeOK, StatesWhole
<1>2. /\ Counted(states[u], ok) \in UplinkState /\ Tallied(Counted(states[u], ok))
      /\ Counted(states[u], ok).probes >= 1
      /\ Counted(states[u], ok).probes >= states[u].probes
      /\ Counted(states[u], ok).failures >= states[u].failures
  <2> HIDE DEF Count
  <2>1. CASE ok
    BY <1>1, <2>1 DEF Counted, UplinkState, Tallied
  <2>2. CASE ~ok
    BY <1>1, <2>2 DEF Counted, UplinkState, Tallied
  <2> QED
    BY <2>1, <2>2
<1>3. states' \in [Uplinks -> UplinkState]
  BY <1>2 DEF StatusInv, StatusTypeOK
<1>4. StatusTypeOK'
  BY <1>3 DEF StatusInv, StatusTypeOK, writing
<1>5. LockHeld'
  BY <1>1, StatusAssumption DEF StatusInv, StatusTypeOK, LockHeld
<1>6. StatesWhole'
  <2> SUFFICES ASSUME NEW v \in Uplinks
               PROVE  /\ Tallied(states'[v])
                      /\ pc'[v] = "locked" => states'[v].probes >= 1
                      /\ pc'[v] # "locked" => Coherent(v, states'[v])
    BY DEF StatesWhole, Coherent
  <2>1. CASE v = u
    BY <2>1, <1>2 DEF StatusInv, StatusTypeOK
  <2>2. CASE v # u
    BY <2>2 DEF StatusInv, StatusTypeOK, StatesWhole
  <2> QED
    BY <2>1, <2>2
<1>7. \A v \in Uplinks : states'[v].probes >= states[v].probes /\ states'[v].failures >= states[v].failures
  BY <1>2 DEF StatusInv, StatusTypeOK, UplinkState
<1> QED
  BY <1>4, <1>5, <1>6, <1>7, ProberKeeps DEF StatusInv

LEMMA JudgeKeeps ==
  ASSUME StatusInv, NEW u \in Uplinks, Judge(u) PROVE StatusInv'
<1> USE DEF Judge
<1>1. states[u] \in UplinkState /\ Tallied(states[u]) /\ states[u].probes >= 1 /\ mu = u
  BY DEF StatusInv, StatusTypeOK, StatesWhole, LockHeld
<1>2. /\ states'[u] = [states[u] EXCEPT !.status = Verdict(u)]
      /\ \A v \in Uplinks : v # u => states'[v] = states[v]
  BY DEF StatusInv, StatusTypeOK
<1>3. states'[u] \in UplinkState /\ Tallied(states'[u]) /\ Coherent(u, states'[u])
  BY <1>1, <1>2, ThresholdPositive DEF UplinkState, Tallied, Coherent, Verdict
<1>4. states' \in [Uplinks -> UplinkState]
  BY <1>2, <1>3 DEF StatusInv, StatusTypeOK
<1>5. StatusTypeOK'
  BY <1>4 DEF StatusInv, StatusTypeOK, writing
<1>6. LockHeld'
  BY <1>1, StatusAssumption DEF StatusInv, StatusTypeOK, LockHeld
<1>7. StatesWhole'
  <2> SUFFICES ASSUME NEW v \in Uplinks
               PROVE  /\ Tallied(states'[v])
                      /\ pc'[v] = "locked" => states'[v].probes >= 1
                      /\ pc'[v] # "locked" => Coherent(v, states'[v])
    BY DEF StatesWhole, Coherent
  <2>1. CASE v = u
    BY <2>1, <1>3 DEF StatusInv, StatusTypeOK
  <2>2. CASE v # u
    BY <2>2, <1>2 DEF StatusInv, StatusTypeOK, StatesWhole
  <2> QED
    BY <2>1, <2>2
<1>8. \A v \in Uplinks : states'[v].probes >= states[v].probes /\ states'[v].failures >= states[v].failures
  BY <1>1, <1>2 DEF StatusInv, StatusTypeOK, UplinkState
<1> QED
  BY <1>5, <1>6, <1>7, <1>8, ProberKeeps DEF StatusInv

LEMMA LoopKeeps ==
  ASSUME StatusInv, NEW u \in Uplinks, CallbackReturns(u) \/ LoopEnds(u) PROVE StatusInv'
<1> USE DEF CallbackReturns, LoopEnds
<1>1. StatusTypeOK' /\ LockHeld' /\ StatesWhole'
  BY DEF StatusInv, StatusTypeOK, LockHeld, StatesWhole, Coherent, writing
<1>2. \A v \in Uplinks : states'[v].probes >= states[v].probes /\ states'[v].failures >= states[v].failures
  BY DEF StatusInv, StatusTypeOK, UplinkState
<1> QED
  BY <1>1, <1>2, ProberKeeps DEF StatusInv

LEMMA WakeUpKeeps ==
  ASSUME StatusInv, WakeUp \/ WriterEnds PROVE StatusInv'
<1>1. UNCHANGED <<states, pc, mu, pending, file, cut, errors, seen, boot, life>>
      /\ writer = "wait" /\ writer' \in {"lock", "gone"}
  BY DEF WakeUp, WriterEnds, probing
<1>2. LockHeld' /\ StatesWhole' /\ \A r \in Report : UpToDate(r) => UpToDate(r)'
  BY <1>1, WriterKeeps DEF Alive
<1>3. StatusTypeOK'
  BY <1>1 DEF StatusInv, StatusTypeOK
<1>4. PendingFits' /\ FileFits' /\ SeenFits'
  BY <1>1, <1>2, ReportsTyped
     DEF StatusInv, PendingFits, FileFits, SeenFits, Whole, AllCoherent, Coherent
<1>5. InOrder' /\ UnreadableOnlyWhileWriting'
  BY <1>1 DEF StatusInv, InOrder, NotOlder, UnreadableOnlyWhileWriting, Whole
<1> QED
  BY <1>2, <1>3, <1>4, <1>5 DEF StatusInv

LEMMA SnapshotKeeps ==
  ASSUME StatusInv, Snapshot PROVE StatusInv'
<1>1. /\ UNCHANGED <<states, pc, mu, file, cut, errors, seen, boot, life>>
      /\ writer = "lock" /\ writer' = "open" /\ Alive /\ mu = Free
      /\ pending' = [boot |-> boot, uplinks |-> states]
  BY DEF Snapshot, probing
<1>2. LockHeld' /\ StatesWhole' /\ \A r \in Report : UpToDate(r) => UpToDate(r)'
  BY <1>1, WriterKeeps DEF Alive
<1>3. pending' \in Report
  BY <1>1, StatusAssumption DEF StatusInv, StatusTypeOK, Report
<1>4. StatusTypeOK'
  BY <1>1, <1>3 DEF StatusInv, StatusTypeOK
<1>5. pending'.uplinks = states /\ pending'.boot = boot
  BY <1>1
<1>6. \A u \in Uplinks : pc[u] # "locked"
  BY <1>1, StatusAssumption DEF StatusInv, LockHeld
<1>7. AllCoherent(pending')
  BY <1>5, <1>6 DEF StatusInv, StatesWhole, AllCoherent
<1>8. UpToDate(pending)'
  BY <1>1, <1>5, <1>4 DEF UpToDate, StatusTypeOK, UplinkState
<1>9. PendingFits'
  BY <1>1, <1>3, <1>7, <1>8, StatusAssumption DEF PendingFits, Alive, AllCoherent, Coherent
<1>10. FileFits' /\ SeenFits'
  BY <1>1, <1>2, ReportsTyped
     DEF StatusInv, FileFits, SeenFits, Whole, AllCoherent, Coherent
<1>11. \A r \in Report : UpToDate(r) => NotOlder(pending', r)
  BY <1>1, StatusAssumption DEF StatusInv, StatusTypeOK, UpToDate, NotOlder, Report
<1>12. InOrder'
  BY <1>1, <1>11, ReportsTyped DEF StatusInv, InOrder, FileFits, SeenFits, NotOlder, Whole
<1>13. UnreadableOnlyWhileWriting'
  BY <1>1 DEF StatusInv, UnreadableOnlyWhileWriting
<1> QED
  BY <1>2, <1>4, <1>9, <1>10, <1>12, <1>13 DEF StatusInv

LEMMA TruncateKeeps ==
  ASSUME StatusInv, Truncate PROVE StatusInv'
<1>1. /\ UNCHANGED <<states, pc, mu, pending, cut, errors, seen, boot, life>>
      /\ writer = "open" /\ writer' = "write" /\ file' = Torn
  BY DEF Truncate, probing
<1>2. LockHeld' /\ StatesWhole' /\ \A r \in Report : UpToDate(r) => UpToDate(r)'
  BY <1>1, WriterKeeps DEF Alive
<1>3. StatusTypeOK'
  BY <1>1 DEF StatusInv, StatusTypeOK
<1>4. PendingFits' /\ FileFits' /\ SeenFits'
  BY <1>1, <1>2, ReportsTyped
     DEF StatusInv, PendingFits, FileFits, SeenFits, Whole, AllCoherent, Coherent
<1>5. InOrder' /\ UnreadableOnlyWhileWriting'
  BY <1>1 DEF StatusInv, InOrder, NotOlder, UnreadableOnlyWhileWriting, Whole
<1> QED
  BY <1>2, <1>3, <1>4, <1>5 DEF StatusInv

LEMMA WriteReportKeeps ==
  ASSUME StatusInv, WriteReport PROVE StatusInv'
<1>1. /\ UNCHANGED <<states, pc, mu, errors, seen, boot, life>>
      /\ writer = "write" /\ writer' = "wait" /\ file' = pending /\ pending' = Missing /\ cut' = FALSE
  BY DEF WriteReport, probing
<1>2. LockHeld' /\ StatesWhole' /\ \A r \in Report : UpToDate(r) => UpToDate(r)'
  BY <1>1, WriterKeeps DEF Alive
<1>3. pending \in Report
  BY <1>1, ReportsTyped DEF StatusInv, PendingFits
<1>4. StatusTypeOK'
  BY <1>1, <1>3 DEF StatusInv, StatusTypeOK
<1>5. PendingFits' /\ FileFits' /\ SeenFits'
  BY <1>1, <1>2, <1>3, ReportsTyped
     DEF StatusInv, PendingFits, FileFits, SeenFits, Whole, AllCoherent, Coherent
<1>6. InOrder'
  BY <1>1 DEF StatusInv, InOrder, NotOlder, Whole
<1>7. UnreadableOnlyWhileWriting'
  BY <1>1, <1>3, StatusAssumption DEF UnreadableOnlyWhileWriting
<1> QED
  BY <1>2, <1>4, <1>5, <1>6, <1>7 DEF StatusInv

LEMMA WriteFailsKeeps ==
  ASSUME StatusInv, WriteFails PROVE StatusInv'
<1>1. /\ UNCHANGED <<states, pc, mu, file, seen, boot, life>>
      /\ writer \in {"open", "write"} /\ writer' = "wait" /\ pending' = Missing
      /\ cut' = (cut \/ writer = "write") /\ errors < MaxErrors /\ errors' = errors + 1
  BY DEF WriteFails, probing
<1>2. LockHeld' /\ StatesWhole' /\ \A r \in Report : UpToDate(r) => UpToDate(r)'
  BY <1>1, WriterKeeps DEF Alive
<1>3. StatusTypeOK'
  <2>1. errors' \in 0..MaxErrors
    BY <1>1, StatusAssumption DEF StatusInv, StatusTypeOK
  <2>2. cut' \in BOOLEAN
    BY <1>1 DEF StatusInv, StatusTypeOK
  <2> QED
    BY <1>1, <2>1, <2>2 DEF StatusInv, StatusTypeOK
<1>4. PendingFits' /\ FileFits' /\ SeenFits'
  BY <1>1, <1>2, ReportsTyped
     DEF StatusInv, PendingFits, FileFits, SeenFits, Whole, AllCoherent, Coherent
<1>5. InOrder'
  BY <1>1 DEF StatusInv, InOrder, NotOlder, Whole
<1>6. UnreadableOnlyWhileWriting'
  BY <1>1 DEF StatusInv, UnreadableOnlyWhileWriting
<1> QED
  BY <1>2, <1>3, <1>4, <1>5, <1>6 DEF StatusInv

LEMMA SignalKeeps ==
  ASSUME StatusInv, Signal PROVE StatusInv'
<1>1. /\ UNCHANGED <<states, pc, mu, writer, pending, file, cut, errors, seen, boot>>
      /\ life = "running" /\ life' = "stopping"
  BY DEF Signal, probing, writing
<1>2. LockHeld' /\ StatesWhole' /\ \A r \in Report : UpToDate(r) => UpToDate(r)'
  BY <1>1, WriterKeeps DEF Alive
<1>3. StatusTypeOK'
  BY <1>1 DEF StatusInv, StatusTypeOK
<1>4. PendingFits' /\ FileFits' /\ SeenFits'
  BY <1>1, <1>2, ReportsTyped
     DEF StatusInv, PendingFits, FileFits, SeenFits, Whole, AllCoherent, Coherent
<1>5. InOrder' /\ UnreadableOnlyWhileWriting'
  BY <1>1 DEF StatusInv, InOrder, NotOlder, UnreadableOnlyWhileWriting, Whole
<1> QED
  BY <1>2, <1>3, <1>4, <1>5 DEF StatusInv

LEMMA DieKeeps ==
  ASSUME StatusInv, Die PROVE StatusInv'
<1>1. /\ UNCHANGED <<file, errors, seen, boot>>
      /\ life' = "dead" /\ writer' = "gone" /\ pending' = Missing
      /\ cut' = (cut \/ writer = "write")
      /\ states' = AllUnprobed /\ pc' = AllSelecting /\ mu' = Free
  BY DEF Die
<1>2. states' \in [Uplinks -> UplinkState] /\ LockHeld' /\ StatesWhole'
  <2>1. states' \in [Uplinks -> UplinkState]
    BY <1>1 DEF AllUnprobed, Unprobed, UplinkState
  <2>2. LockHeld' /\ StatesWhole'
    BY <1>1, StatusAssumption, ThresholdPositive
       DEF AllUnprobed, AllSelecting, Unprobed, LockHeld, StatesWhole, Tallied, Coherent
  <2> QED
    BY <2>1, <2>2
<1>3. StatusTypeOK'
  <2>1. cut' \in BOOLEAN
    BY <1>1 DEF StatusInv, StatusTypeOK
  <2> QED
    BY <1>1, <1>2, <2>1 DEF StatusInv, StatusTypeOK, AllSelecting
<1>4. \A r \in Report : UpToDate(r) => UpToDate(r)'
  BY <1>1 DEF UpToDate, Alive
<1>5. PendingFits' /\ FileFits' /\ SeenFits'
  BY <1>1, <1>4, ReportsTyped
     DEF StatusInv, PendingFits, FileFits, SeenFits, Whole, AllCoherent, Coherent
<1>6. InOrder'
  BY <1>1 DEF StatusInv, InOrder, NotOlder, Whole
<1>7. UnreadableOnlyWhileWriting'
  BY <1>1 DEF StatusInv, UnreadableOnlyWhileWriting
<1> QED
  BY <1>2, <1>3, <1>5, <1>6, <1>7 DEF StatusInv

LEMMA RestartKeeps ==
  ASSUME StatusInv, Restart PROVE StatusInv'
<1>1. /\ UNCHANGED <<states, pc, mu, pending, file, cut, errors, seen>>
      /\ boot < MaxBoots /\ boot' = boot + 1 /\ life' = "running" /\ writer' = "wait"
      /\ life = "dead"
  BY DEF Restart, probing
<1>2. LockHeld' /\ StatesWhole'
  BY <1>1 DEF StatusInv, LockHeld, StatesWhole, Tallied, Coherent
<1>3. boot \in Nat /\ boot' \in 1..MaxBoots
  BY <1>1, StatusAssumption DEF StatusInv, StatusTypeOK
<1>4. StatusTypeOK'
  BY <1>1, <1>3 DEF StatusInv, StatusTypeOK
<1>5. \A r \in Report : UpToDate(r) => UpToDate(r)'
  BY <1>1, <1>3 DEF UpToDate, Report
<1>6. pending = Missing
  BY <1>1 DEF StatusInv, PendingFits
<1>7. PendingFits' /\ FileFits' /\ SeenFits'
  BY <1>1, <1>5, <1>6, ReportsTyped
     DEF StatusInv, PendingFits, FileFits, SeenFits, Whole, AllCoherent, Coherent
<1>8. InOrder' /\ UnreadableOnlyWhileWriting'
  BY <1>1, <1>6 DEF StatusInv, PendingFits, InOrder, NotOlder, UnreadableOnlyWhileWriting, Whole
<1> QED
  BY <1>2, <1>4, <1>7, <1>8 DEF StatusInv

LEMMA ReadKeeps ==
  ASSUME StatusInv, ReadStatusFile PROVE StatusInv'
<1>1. /\ UNCHANGED <<states, pc, mu, writer, pending, file, cut, errors, boot, life>>
      /\ Whole(file) /\ seen' = file
  BY DEF ReadStatusFile, probing, writing
<1>2. LockHeld' /\ StatesWhole' /\ \A r \in Report : UpToDate(r) => UpToDate(r)'
  BY <1>1, WriterKeeps DEF Alive
<1>3. file \in Report
  BY <1>1, ReportsTyped DEF StatusInv
<1>4. StatusTypeOK'
  BY <1>1, <1>3 DEF StatusInv, StatusTypeOK
<1>5. PendingFits' /\ FileFits' /\ SeenFits'
  BY <1>1, <1>2, <1>3, ReportsTyped
     DEF StatusInv, PendingFits, FileFits, SeenFits, Whole, AllCoherent, Coherent
<1>6. NotOlder(file, file)
  BY <1>3 DEF NotOlder, Report, UplinkState
<1>7. InOrder' /\ UnreadableOnlyWhileWriting'
  BY <1>1, <1>6 DEF StatusInv, InOrder, NotOlder, UnreadableOnlyWhileWriting, Whole
<1> QED
  BY <1>2, <1>4, <1>5, <1>7 DEF StatusInv

LEMMA StatusStep == StatusInv /\ [StatusNext]_statusVars => StatusInv'
<1> SUFFICES ASSUME StatusInv, [StatusNext]_statusVars PROVE StatusInv'
  OBVIOUS
<1>1. CASE ProberStep
  BY <1>1, CountKeeps, JudgeKeeps, LoopKeeps DEF ProberStep
<1>2. CASE WriterStep
  BY <1>2, WakeUpKeeps, SnapshotKeeps, TruncateKeeps, WriteReportKeeps, WriteFailsKeeps DEF WriterStep
<1>3. CASE ProcessStep
  BY <1>3, SignalKeeps, DieKeeps, RestartKeeps DEF ProcessStep, Exit, Kill
<1>4. CASE ReadStatusFile
  BY <1>4, ReadKeeps
<1>5. CASE UNCHANGED statusVars
  BY <1>5 DEF statusVars, StatusInv, StatusTypeOK, LockHeld, StatesWhole, Tallied, Coherent, PendingFits,
     FileFits, SeenFits, InOrder, UnreadableOnlyWhileWriting, Whole, AllCoherent, UpToDate,
     NotOlder, Alive
<1> QED
  BY <1>1, <1>2, <1>3, <1>4, <1>5 DEF StatusNext

-----------------------------------------------------------------------------

\* The types of StatusFile hold in every reachable state.
THEOREM StatusTypeCorrect == StatusSpec => []StatusTypeOK
<1>1. StatusInv => StatusTypeOK
  BY DEF StatusInv
<1> QED
  BY <1>1, StatusInitially, StatusStep, PTL DEF StatusSpec

\* What warp status finds was copied between two calls of doPing, whatever the
\* uplinks and their thresholds: status and counters agree.
THEOREM ReportIsCoherent == StatusSpec => []ReportCoherent
<1>1. StatusInv => ReportCoherent
  BY DEF StatusInv, FileFits, AllCoherent, ReportCoherent
<1> QED
  BY <1>1, StatusInitially, StatusStep, PTL DEF StatusSpec

\* os.WriteFile in place leaves an unreadable file only while it runs, or when
\* it failed or was cut off.
THEOREM UnreadableIsTransient == StatusSpec => []UnreadableOnlyWhileWriting
<1>1. StatusInv => UnreadableOnlyWhileWriting
  BY DEF StatusInv
<1> QED
  BY <1>1, StatusInitially, StatusStep, PTL DEF StatusSpec

\* Asked twice, warp status never goes back in time.
THEOREM SeenInOrder == StatusSpec => SeenNeverGoesBack
<1>1. ASSUME StatusInv, [StatusNext]_statusVars
      PROVE  [Whole(seen) => NotOlder(seen', seen)]_seen
  <2>1. CASE ReadStatusFile
    BY <1>1, <2>1 DEF ReadStatusFile, StatusInv, InOrder, Whole
  <2>2. CASE ProberStep
    BY <2>2 DEF ProberStep, Count, Judge, CallbackReturns, LoopEnds
  <2>3. CASE WriterStep
    BY <2>3 DEF WriterStep, WakeUp, Snapshot, Truncate, WriteReport, WriteFails, WriterEnds
  <2>4. CASE ProcessStep
    BY <2>4 DEF ProcessStep, Signal, Exit, Kill, Die, Restart
  <2>5. CASE UNCHANGED statusVars
    BY <2>5 DEF statusVars
  <2> QED
    BY <1>1, <2>1, <2>2, <2>3, <2>4, <2>5 DEF StatusNext
<1> QED
  BY <1>1, StatusInitially, StatusStep, PTL DEF StatusSpec, SeenNeverGoesBack
=============================================================================
