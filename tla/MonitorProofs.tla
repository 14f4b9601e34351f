---------------------------- MODULE MonitorProofs ----------------------------
(* Proofs about Monitor for every set of uplinks, every failure threshold and *)
(* every number of disturbances.                                              *)
EXTENDS Monitor, TLAPS

\* A callback runs with the verdict the prober still holds: the uplink is not
\* probed again while its OnStateChange runs, however long it waits for c.mu.
CallbackFresh == \A u \in Uplinks : loop[u] = "callback" => note[u] = status[u]

\* The uplink that owns c.mu is in its callback, its flag has the value of the
\* verdict, and the nexthops of the call are those of the flags.
HandlerState ==
  /\ cmu \in Uplinks =>
       /\ loop[cmu] = "callback"
       /\ note[cmu] = IF active[cmu] THEN "healthy" ELSE "down"
       /\ desired = ActiveKeys(active)
  /\ cmu = Main => installed = desired
  /\ proc = "install" => cmu = Main

\* The counter of an uplink that is down has reached its threshold, and no
\* counter goes beyond it.
DownHasFailed ==
  \A u \in Uplinks : fails[u] <= Threshold(u) /\ (status[u] = "down" => fails[u] = Threshold(u))

\* An uplink that was not started yet is active and unknown.
NotStarted ==
  \A u \in Uplinks : loop[u] = "none" => active[u] /\ status[u] = "unknown" /\ fails[u] = 0

\* A callback has a verdict, and a degraded one follows an active uplink,
\* unless a change for it failed.
PendingVerdict ==
  \A u \in Uplinks : loop[u] = "callback" =>
    /\ note[u] \in {"healthy", "degraded", "down"}
    /\ (note[u] = "degraded" /\ u \notin unapplied) => active[u]

\* VerdictApplied in terms of the flags, whatever the process state.
FlagApplied ==
  \A u \in Uplinks :
    (loop[u] \in {"select", "ping"} /\ u \notin unapplied)
      => (active[u] <=> status[u] # "down")

\* Without an exit the process has never stopped, nor has any goroutine.
ExitCounted ==
  used["exit"] = 0 =>
    /\ ctx # "cancelled"
    /\ \A u \in Uplinks : loop[u] # "done"
    /\ proc = "down" => installed = AllKeys

\* The inductive invariant.
MonitorInv ==
  /\ MonitorTypeOK
  /\ CallbackFresh
  /\ InstalledMatchesActive
  /\ HandlerState
  /\ DownHasFailed
  /\ NotStarted
  /\ PendingVerdict
  /\ FlagApplied
  /\ ExitCounted
  /\ TrackedIsReal

-----------------------------------------------------------------------------
(* The operators the model is built from *)

\* Validate keeps devices apart, so a route key belongs to one uplink.
LEMMA KeyInjective == \A u, v \in Uplinks : Key(u) = Key(v) => u = v
BY WanAssumption DEF Key

\* A set of uplinks can be read off its route keys.
LEMMA KeyMember ==
  ASSUME NEW S \in SUBSET Uplinks, NEW u \in Uplinks
  PROVE  Key(u) \in KeysOf(S) <=> u \in S
BY KeyInjective DEF KeysOf

\* The nexthops collected by updateECMP are the keys of the active uplinks.
LEMMA ActiveKeysMember ==
  ASSUME NEW act \in [Uplinks -> BOOLEAN], NEW u \in Uplinks
  PROVE  Key(u) \in ActiveKeys(act) <=> act[u]
BY KeyMember DEF ActiveKeys

\* The owners of c.mu are told apart.
LEMMA OwnersDistinct == Main \notin Uplinks /\ NoOwner \notin Uplinks /\ NoOwner # Main
BY MonitorAssumption

\* Every threshold is positive once the default has been filled in.
LEMMA ThresholdPositive ==
  \A u \in Uplinks : Threshold(u) \in Nat /\ Threshold(u) >= 1
<1> TAKE u \in Uplinks
<1>1. Failures[u] \in Int
  BY WanAssumption
<1>2. QED
  BY <1>1 DEF Threshold, DefaultFailures

\* The commands of a handler concern the route of its own uplink, and the flag
\* of that uplink says which of the two commands it is.
LEMMA OwnCommandOnly ==
  ASSUME MonitorTypeOK, InstalledMatchesActive, HandlerState,
         cmu \in Uplinks, NEW k \in AllKeys, NextCommand(k)
  PROVE  /\ k = Key(cmu)
         /\ k \in installed <=> ~active[cmu]
<1>1. PICK v \in Uplinks : k = Key(v)
  BY DEF AllKeys, KeysOf
<1>2. k \in desired <=> active[v]
  BY <1>1, ActiveKeysMember DEF MonitorTypeOK, HandlerState
<1>3. v = cmu
  BY <1>1, <1>2 DEF NextCommand, InstalledMatchesActive
<1>4. QED
  BY <1>1, <1>2, <1>3 DEF NextCommand

\* InstallInitialRoutes issues no command.
LEMMA MainIssuesNothing ==
  ASSUME HandlerState, cmu = Main, NEW k, NextCommand(k)
  PROVE  FALSE
BY DEF HandlerState, NextCommand

-----------------------------------------------------------------------------
(* The invariant *)

LEMMA InitInv == Init => MonitorInv
<1> SUFFICES ASSUME Init PROVE MonitorInv
  OBVIOUS
<1>0. ActiveKeys(InitialActive) = AllKeys
  BY DEF ActiveKeys, InitialActive, AllKeys
<1> USE <1>0 DEF Init, ProberInit, InitialActive, InitialInstalled, RenderedRoutes
<1>1. MonitorTypeOK
  BY DEF MonitorTypeOK, ProberTypeOK, RoutesTypeOK, Status, FaultKinds
<1>2. InstalledMatchesActive
  BY KeyMember DEF InstalledMatchesActive, AllKeys
<1>3. /\ CallbackFresh /\ HandlerState /\ DownHasFailed /\ NotStarted
      /\ PendingVerdict /\ FlagApplied /\ ExitCounted /\ TrackedIsReal
  BY OwnersDistinct, ThresholdPositive DEF CallbackFresh, HandlerState, DownHasFailed, NotStarted,
     PendingVerdict, FlagApplied, ExitCounted, TrackedIsReal, FaultKinds
<1>4. QED
  BY <1>1, <1>2, <1>3 DEF MonitorInv

LEMMA LaunchInv == MonitorInv /\ Launch => MonitorInv'
<1> SUFFICES ASSUME MonitorInv, Launch PROVE MonitorInv'
  OBVIOUS
<1>0. ActiveKeys(InitialActive) = AllKeys
  BY DEF ActiveKeys, InitialActive, AllKeys
<1> USE <1>0 DEF MonitorInv, Launch, InitialActive, InitialInstalled
<1>1. MonitorTypeOK'
  BY DEF MonitorTypeOK, ProberTypeOK, RoutesTypeOK, Status
<1>2. InstalledMatchesActive'
  BY KeyMember DEF InstalledMatchesActive, AllKeys
<1>3. /\ CallbackFresh' /\ HandlerState' /\ DownHasFailed' /\ NotStarted'
      /\ PendingVerdict' /\ FlagApplied' /\ ExitCounted' /\ TrackedIsReal'
  BY OwnersDistinct, ThresholdPositive DEF CallbackFresh, HandlerState, DownHasFailed, NotStarted,
     PendingVerdict, FlagApplied, ExitCounted, TrackedIsReal
<1>4. QED
  BY <1>1, <1>2, <1>3

\* Steps of an uplink's goroutine outside c.mu: only the prober's state changes.
LEMMA ProbeInv ==
  ASSUME MonitorInv, NEW u \in Uplinks,
         StartStep(u) \/ TickStep(u) \/ PingStep(u) \/ LoopExitStep(u)
  PROVE  MonitorInv'
<1> USE DEF MonitorInv
<1>0. UNCHANGED <<desired, installed, frr, proc, active, cmu, unapplied, used>>
  BY DEF StartStep, TickStep, PingStep, LoopExitStep, routeVars, controlVars
<1>1. CASE StartStep(u)
  <2> USE <1>0, <1>1 DEF StartStep, StartUplink
  <2>1. MonitorTypeOK'
    BY DEF MonitorTypeOK, ProberTypeOK, RoutesTypeOK, Status
  <2>2. QED
    BY <2>1, ThresholdPositive DEF CallbackFresh, HandlerState, DownHasFailed, NotStarted,
       PendingVerdict, FlagApplied, ExitCounted, TrackedIsReal, MonitorTypeOK, ProberTypeOK,
       InstalledMatchesActive
<1>2. CASE TickStep(u) \/ LoopExitStep(u)
  <2> USE <1>0, <1>2 DEF TickStep, Tick, LoopExitStep, LoopExit
  <2>1. MonitorTypeOK'
    BY DEF MonitorTypeOK, ProberTypeOK, RoutesTypeOK
  <2>2. QED
    BY <2>1 DEF CallbackFresh, HandlerState, DownHasFailed, NotStarted,
       PendingVerdict, FlagApplied, ExitCounted, TrackedIsReal, MonitorTypeOK, ProberTypeOK,
       InstalledMatchesActive
<1>3. CASE PingStep(u)
  <2> PICK ok \in BOOLEAN : RecordPing(u, ok)
    BY <1>3 DEF PingStep
  <2>0. /\ NextFails(u, ok) \in Nat
        /\ NextStatus(u, ok) \in {"healthy", "degraded", "down"}
        /\ NextFails(u, ok) <= Threshold(u)
        /\ NextStatus(u, ok) = "down" => NextFails(u, ok) = Threshold(u)
        /\ (status[u] = "down" /\ NextStatus(u, ok) # "down") => NextStatus(u, ok) = "healthy"
    BY ThresholdPositive DEF NextFails, NextStatus, MonitorTypeOK, ProberTypeOK, DownHasFailed
  <2> HIDE DEF NextFails, NextStatus
  <2> USE <1>0, <2>0 DEF RecordPing
  <2>1. MonitorTypeOK'
    BY DEF MonitorTypeOK, ProberTypeOK, RoutesTypeOK, Status
  <2>2. QED
    BY <2>1 DEF CallbackFresh, HandlerState, DownHasFailed, NotStarted,
       PendingVerdict, FlagApplied, ExitCounted, TrackedIsReal, MonitorTypeOK, ProberTypeOK,
       InstalledMatchesActive
<1>4. QED
  BY <1>1, <1>2, <1>3

\* Steps that begin a handler or find nothing to do.
LEMMA HandleInv ==
  ASSUME MonitorInv, NEW u \in Uplinks, HandleStateChange(u) \/ HandleNothing(u)
  PROVE  MonitorInv'
<1> USE DEF MonitorInv
<1>1. CASE HandleStateChange(u)
  <2> USE <1>1 DEF HandleStateChange, Activates, Deactivates, proberVars
  <2>1. active' \in [Uplinks -> BOOLEAN]
    BY DEF MonitorTypeOK
  <2>2. MonitorTypeOK'
    BY <2>1 DEF MonitorTypeOK, ProberTypeOK, RoutesTypeOK, ActiveKeys, AllKeys, KeysOf
  <2>3. InstalledMatchesActive'
    BY OwnersDistinct DEF InstalledMatchesActive, MonitorTypeOK
  <2>4. HandlerState'
    <3>1. active'[u] = (note[u] = "healthy") /\ note[u] \in {"healthy", "down"}
      BY DEF MonitorTypeOK
    <3>2. QED
      BY <3>1, OwnersDistinct DEF HandlerState
  <2>5. NotStarted' /\ PendingVerdict' /\ FlagApplied'
    BY DEF NotStarted, PendingVerdict, FlagApplied, MonitorTypeOK
  <2>6. CallbackFresh' /\ DownHasFailed' /\ ExitCounted' /\ TrackedIsReal'
    BY DEF CallbackFresh, DownHasFailed, ExitCounted, TrackedIsReal, AllKeys
  <2>7. QED
    BY <2>2, <2>3, <2>4, <2>5, <2>6
<1>2. CASE HandleNothing(u)
  <2> USE <1>2 DEF HandleNothing, CallbackReturns, Activates, Deactivates, routeVars
  <2>1. MonitorTypeOK'
    BY DEF MonitorTypeOK, ProberTypeOK, RoutesTypeOK
  <2>2. FlagApplied'
    BY DEF FlagApplied, CallbackFresh, PendingVerdict, MonitorTypeOK, ProberTypeOK, Status
  <2>3. HandlerState'
    BY OwnersDistinct DEF HandlerState
  <2>4. /\ CallbackFresh' /\ InstalledMatchesActive' /\ DownHasFailed' /\ NotStarted'
        /\ PendingVerdict' /\ ExitCounted' /\ TrackedIsReal'
    BY DEF CallbackFresh, InstalledMatchesActive, DownHasFailed, NotStarted,
       PendingVerdict, ExitCounted, TrackedIsReal, MonitorTypeOK, ProberTypeOK
  <2>5. QED
    BY <2>1, <2>2, <2>3, <2>4
<1>3. QED
  BY <1>1, <1>2

\* A command that succeeds changes the tracked routes and FRR alike, and only
\* the route of the uplink that owns c.mu.
LEMMA CommandInv == MonitorInv /\ CommandStep => MonitorInv'
<1> SUFFICES ASSUME MonitorInv, CommandStep PROVE MonitorInv'
  OBVIOUS
<1> USE DEF MonitorInv
<1> PICK k \in AllKeys : CommandOk(k)
  BY DEF CommandStep
<1>1. cmu \in Uplinks /\ proc # "down"
  BY MainIssuesNothing DEF CommandStep, CommandOk, MonitorTypeOK
<1>2. k = Key(cmu)
  BY <1>1, OwnCommandOnly DEF CommandOk
<1> USE DEF CommandStep, CommandOk, proberVars, controlVars
<1>3. MonitorTypeOK'
  BY DEF MonitorTypeOK, ProberTypeOK, RoutesTypeOK, Apply
<1>4. InstalledMatchesActive'
  <2> SUFFICES ASSUME NEW v \in Uplinks, v # cmu
               PROVE  Key(v) \in installed' <=> active[v]
    BY DEF InstalledMatchesActive
  <2>1. Key(v) # k
    BY <1>1, <1>2, KeyInjective
  <2>2. QED
    BY <2>1 DEF InstalledMatchesActive, Apply
<1>5. HandlerState'
  BY <1>1, OwnersDistinct DEF HandlerState
<1>6. TrackedIsReal' /\ ExitCounted'
  BY <1>1 DEF TrackedIsReal, ExitCounted, Apply
<1>7. /\ CallbackFresh' /\ DownHasFailed' /\ NotStarted'
      /\ PendingVerdict' /\ FlagApplied'
  BY DEF CallbackFresh, DownHasFailed, NotStarted, PendingVerdict, FlagApplied
<1>8. QED
  BY <1>3, <1>4, <1>5, <1>6, <1>7

\* The end of a handler: with all commands done the flag says what is tracked;
\* after an error the reverted flag does, whatever the command did to FRR.
LEMMA HandlerInv ==
  ASSUME MonitorInv, NEW u \in Uplinks, HandlerDone(u) \/ HandlerFails(u)
  PROVE  MonitorInv'
<1> USE DEF MonitorInv
<1>1. CASE HandlerDone(u)
  <2> USE <1>1 DEF HandlerDone, CallbackReturns, Replaced, routeVars
  <2>1. MonitorTypeOK'
    BY DEF MonitorTypeOK, ProberTypeOK, RoutesTypeOK
  <2>2. InstalledMatchesActive'
    BY ActiveKeysMember DEF InstalledMatchesActive, HandlerState, MonitorTypeOK
  <2>3. FlagApplied'
    BY DEF FlagApplied, CallbackFresh, HandlerState, MonitorTypeOK, ProberTypeOK
  <2>4. HandlerState'
    BY OwnersDistinct DEF HandlerState
  <2>5. /\ CallbackFresh' /\ DownHasFailed' /\ NotStarted'
        /\ PendingVerdict' /\ ExitCounted' /\ TrackedIsReal'
    BY DEF CallbackFresh, DownHasFailed, NotStarted,
       PendingVerdict, ExitCounted, TrackedIsReal, MonitorTypeOK, ProberTypeOK
  <2>6. QED
    BY <2>1, <2>2, <2>3, <2>4, <2>5
<1>2. CASE HandlerFails(u)
  <2> USE <1>2 DEF HandlerFails, CallbackReturns
  <2>1. PICK k \in AllKeys : /\ NextCommand(k)
                             /\ UNCHANGED <<desired, installed>>
                             /\ used' \in [FaultKinds -> Nat]
                             /\ used'["exit"] = used["exit"]
                             /\ frr' = frr \/ (frr' = Apply(k, frr) /\ used'["lost"] # 0)
                             /\ used["lost"] # 0 => used'["lost"] # 0
                             /\ used'["reload"] = used["reload"]
    BY DEF CommandError, CommandLost, Spend, MonitorTypeOK, FaultKinds, routeVars
  <2>2. k = Key(u) /\ (k \in installed <=> ~active[u])
    BY <2>1, OwnCommandOnly
  <2>3. MonitorTypeOK'
    BY <2>1 DEF MonitorTypeOK, ProberTypeOK, RoutesTypeOK, Apply
  <2>4. InstalledMatchesActive'
    BY <2>1, <2>2 DEF InstalledMatchesActive, MonitorTypeOK
  <2>5. HandlerState'
    BY OwnersDistinct DEF HandlerState
  <2>6. TrackedIsReal'
    BY <2>1 DEF TrackedIsReal, MonitorTypeOK, FaultKinds
  <2>7. /\ CallbackFresh' /\ DownHasFailed' /\ NotStarted'
        /\ PendingVerdict' /\ FlagApplied' /\ ExitCounted'
    BY <2>1 DEF CallbackFresh, DownHasFailed, NotStarted, FlagApplied,
       PendingVerdict, ExitCounted, MonitorTypeOK, ProberTypeOK
  <2>8. QED
    BY <2>3, <2>4, <2>5, <2>6, <2>7
<1>3. QED
  BY <1>1, <1>2

\* Steps of the process as a whole and of warp apply.
LEMMA ProcessInv ==
  MonitorInv /\ (InstallDone \/ Signal \/ Exit \/ Kill \/ FrrReload) => MonitorInv'
<1> SUFFICES ASSUME MonitorInv, InstallDone \/ Signal \/ Exit \/ Kill \/ FrrReload
             PROVE  MonitorInv'
  OBVIOUS
<1> USE DEF MonitorInv
<1>1. CASE InstallDone
  <2> USE <1>1 DEF InstallDone, proberVars, routeVars
  <2>1. HandlerState' /\ InstalledMatchesActive' /\ ExitCounted'
    BY OwnersDistinct DEF HandlerState, InstalledMatchesActive, ExitCounted
  <2>2. QED
    BY <2>1 DEF CallbackFresh, DownHasFailed, NotStarted, PendingVerdict, FlagApplied,
       TrackedIsReal, MonitorTypeOK, ProberTypeOK, RoutesTypeOK
<1>2. CASE Signal \/ Exit \/ Kill \/ FrrReload
  <2> USE <1>2 DEF Signal, Cancel, Exit, Kill, FrrReload, RenderedRoutes, Spend, proberVars, routeVars
  <2>1. MonitorTypeOK'
    BY DEF MonitorTypeOK, ProberTypeOK, RoutesTypeOK, Apply, FaultKinds
  <2>2. ExitCounted'
    BY WanAssumption DEF ExitCounted, Stopped, MonitorTypeOK, FaultKinds
  <2>3. TrackedIsReal'
    BY DEF TrackedIsReal, MonitorTypeOK, FaultKinds
  <2>4. /\ CallbackFresh' /\ InstalledMatchesActive' /\ HandlerState' /\ DownHasFailed'
        /\ NotStarted' /\ PendingVerdict' /\ FlagApplied'
    BY DEF CallbackFresh, InstalledMatchesActive, HandlerState, DownHasFailed, NotStarted,
       PendingVerdict, FlagApplied
  <2>5. QED
    BY <2>1, <2>2, <2>3, <2>4
<1>3. QED
  BY <1>1, <1>2

LEMMA StepInv == MonitorInv /\ [Next]_vars => MonitorInv'
<1> SUFFICES ASSUME MonitorInv, [Next]_vars PROVE MonitorInv'
  OBVIOUS
<1>1. CASE Next
  BY <1>1, LaunchInv, ProbeInv, HandleInv, CommandInv, HandlerInv, ProcessInv
  DEF Next, UplinkStep
<1>2. CASE UNCHANGED vars
  BY <1>2 DEF vars, proberVars, routeVars, controlVars, MonitorInv, CallbackFresh,
     HandlerState, DownHasFailed, NotStarted, PendingVerdict, FlagApplied, ExitCounted,
     TrackedIsReal, MonitorTypeOK, ProberTypeOK, RoutesTypeOK, InstalledMatchesActive
<1>3. QED
  BY <1>1, <1>2

LEMMA Invariance == Spec => []MonitorInv
BY InitInv, StepInv, PTL DEF Spec

-----------------------------------------------------------------------------
(* What the invariant gives *)

\* Type correctness of the monitor's state.
THEOREM TypeCorrect == Spec => []MonitorTypeOK
<1>1. MonitorInv => MonitorTypeOK
  BY DEF MonitorInv
<1>2. QED
  BY <1>1, Invariance, PTL

\* The route manager and the controller agree on every uplink that is not
\* being handled, after any number of vtysh errors and restarts.
THEOREM BooksAgree == Spec => []InstalledMatchesActive
<1>1. MonitorInv => InstalledMatchesActive
  BY DEF MonitorInv
<1>2. QED
  BY <1>1, Invariance, PTL

\* Between callbacks the verdict of every uplink has been applied, unless vtysh
\* reported an error for it.
THEOREM VerdictsAreApplied == Spec => []VerdictApplied
<1>1. MonitorInv => VerdictApplied
  <2> SUFFICES ASSUME MonitorInv, NEW u \in Uplinks, loop[u] \in {"select", "ping"},
                      u \notin unapplied
               PROVE  Key(u) \in installed <=> status[u] # "down"
    BY DEF VerdictApplied
  <2>1. u # cmu
    BY DEF MonitorInv, HandlerState
  <2>2. QED
    BY <2>1 DEF MonitorInv, InstalledMatchesActive, FlagApplied
<1>2. QED
  BY <1>1, Invariance, PTL

\* FRR has what the manager tracks unless a command was misreported, the process
\* was restarted or FRR was reloaded; reported errors alone do no harm.
THEOREM TrackingIsExact == Spec => []TrackedIsReal
<1>1. MonitorInv => TrackedIsReal
  BY DEF MonitorInv
<1>2. QED
  BY <1>1, Invariance, PTL

-----------------------------------------------------------------------------
(* Refinement *)

Routed(routes) == {u \in Uplinks : Key(u) \in routes}

\* One command of the handler of u on FRR is a step of the failover promise:
\* it withdraws a down uplink or restores a healthy one.
LEMMA CommandRefines ==
  ASSUME MonitorInv, cmu \in Uplinks, NEW k \in AllKeys, NextCommand(k),
         frr' = Apply(k, frr), UNCHANGED <<status, fails>>
  PROVE  Failover!Withdraw(cmu) \/ Failover!Restore(cmu)
<1> USE DEF MonitorInv
<1>1. k = Key(cmu) /\ (k \in installed <=> ~active[cmu])
  BY OwnCommandOnly
<1>2. status[cmu] = IF active[cmu] THEN "healthy" ELSE "down"
  BY DEF HandlerState, CallbackFresh
<1>3. CASE active[cmu]
  <2>1. Routed(frr') = Routed(frr) \union {cmu}
    BY <1>1, <1>3, KeyInjective DEF Apply, Routed
  <2>2. QED
    BY <2>1, <1>2, <1>3 DEF Failover!Restore, Routed
<1>4. CASE ~active[cmu]
  <2>1. Routed(frr') = Routed(frr) \ {cmu}
    BY <1>1, <1>4, KeyInjective DEF Apply, Routed
  <2>2. QED
    BY <2>1, <1>2, <1>4 DEF Failover!Withdraw, Routed
<1>5. QED
  BY <1>3, <1>4

LEMMA InitRefines == Init => Failover!Init
BY KeyMember DEF Init, ProberInit, Failover!Init, Failover!Unprobed, Failover!NoneMissed,
   AllKeys, RenderedRoutes

\* The default the prober fills in is the promised one.
LEMMA PatienceIsThreshold == \A u \in Uplinks : Failover!Patience(u) = Threshold(u)
<1> TAKE u \in Uplinks
<1>1. Failures[u] \in Int
  BY WanAssumption
<1>2. QED
  BY <1>1 DEF Failover!Patience, Threshold, DefaultFailures

\* A recorded ping is an answer, a miss short of the threshold, or the miss
\* that makes the uplink down.
LEMMA PingRefines ==
  ASSUME MonitorInv, NEW u \in Uplinks, PingStep(u)
  PROVE  Failover!Answer(u) \/ Failover!Miss(u) \/ Failover!GoDown(u)
<1> PICK ok \in BOOLEAN : RecordPing(u, ok)
  BY DEF PingStep
<1>1. /\ status' = [status EXCEPT ![u] = NextStatus(u, ok)]
      /\ fails' = [fails EXCEPT ![u] = NextFails(u, ok)]
      /\ frr' = frr
  BY DEF PingStep, RecordPing, routeVars
<1>2. /\ fails[u] \in Nat /\ fails[u] <= Threshold(u)
      /\ Threshold(u) \in Nat /\ Threshold(u) >= 1 /\ Failover!Patience(u) = Threshold(u)
  BY ThresholdPositive, PatienceIsThreshold DEF MonitorInv, MonitorTypeOK, ProberTypeOK, DownHasFailed
<1>3. CASE ok
  <2>1. NextStatus(u, ok) = "healthy" /\ NextFails(u, ok) = 0
    BY <1>3 DEF NextStatus, NextFails
  <2>2. Failover!Answer(u)
    BY <1>1, <2>1 DEF Failover!Answer
  <2>3. QED
    BY <2>2
<1>4. CASE ~ok /\ fails[u] + 1 < Threshold(u)
  <2>1. NextStatus(u, ok) = "degraded" /\ NextFails(u, ok) = fails[u] + 1
    BY <1>2, <1>4 DEF NextStatus, NextFails
  <2>2. Failover!Miss(u)
    BY <1>1, <1>2, <1>4, <2>1 DEF Failover!Miss
  <2>3. QED
    BY <2>2
<1>5. CASE ~ok /\ fails[u] + 1 >= Threshold(u)
  <2>1. NextStatus(u, ok) = "down" /\ NextFails(u, ok) = Threshold(u)
    BY <1>2, <1>5 DEF NextStatus, NextFails
  <2>2. Failover!GoDown(u)
    BY <1>1, <1>2, <1>5, <2>1 DEF Failover!GoDown
  <2>3. QED
    BY <2>2
<1>6. QED
  BY <1>2, <1>3, <1>4, <1>5

LEMMA StepRefines ==
  MonitorInv /\ [Next]_vars => [Failover!Next]_(Failover!abstractVars)
<1> SUFFICES ASSUME MonitorInv, [Next]_vars
             PROVE  Failover!Next \/ UNCHANGED <<status, fails, frr>>
  BY DEF Failover!abstractVars
<1>1. CASE Launch
  BY <1>1 DEF Launch, Failover!Next, Failover!Restart, Failover!Unprobed, Failover!NoneMissed
<1>2. CASE CommandStep
  <2> PICK k \in AllKeys : CommandOk(k)
    BY <1>2 DEF CommandStep
  <2>1. cmu \in Uplinks
    BY <1>2, MainIssuesNothing DEF CommandStep, CommandOk, MonitorInv, MonitorTypeOK
  <2>2. QED
    BY <1>2, <2>1, CommandRefines DEF CommandStep, CommandOk, proberVars, Failover!Next
<1>3. CASE FrrReload
  BY <1>3, KeyMember DEF FrrReload, RenderedRoutes, proberVars, AllKeys, Failover!Next, Failover!Reload
<1>4. CASE Kill
  <2>1. CASE UNCHANGED frr
    BY <1>4, <2>1 DEF Kill, proberVars
  <2>2. CASE cmu # NoOwner /\ \E k \in AllKeys : NextCommand(k) /\ frr' = Apply(k, frr)
    <3> PICK k \in AllKeys : NextCommand(k) /\ frr' = Apply(k, frr)
      BY <2>2
    <3>1. cmu \in Uplinks
      BY <2>2, MainIssuesNothing DEF MonitorInv, MonitorTypeOK
    <3>2. QED
      BY <1>4, <3>1, CommandRefines DEF Kill, proberVars, Failover!Next
  <2>3. QED
    BY <1>4, <2>1, <2>2 DEF Kill
<1>5. CASE InstallDone \/ Signal \/ Exit \/ UNCHANGED vars
  BY <1>5 DEF InstallDone, Signal, Cancel, Exit, vars, proberVars, routeVars
<1>6. ASSUME NEW u \in Uplinks, UplinkStep(u)
      PROVE  Failover!Next \/ UNCHANGED <<status, fails, frr>>
  <2>1. CASE StartStep(u)
    BY <2>1 DEF StartStep, StartUplink, routeVars, MonitorInv, NotStarted, MonitorTypeOK,
       ProberTypeOK
  <2>2. CASE PingStep(u)
    BY <2>2, PingRefines DEF Failover!Next
  <2>3. CASE HandlerFails(u)
    <3>1. UNCHANGED <<status, fails>> /\ cmu = u
      BY <2>3 DEF HandlerFails, CallbackReturns
    <3>2. CASE \E k \in AllKeys : CommandError(k)
      BY <3>1, <3>2 DEF CommandError, routeVars
    <3>3. CASE \E k \in AllKeys : CommandLost(k)
      BY <3>1, <3>3, CommandRefines DEF CommandLost, Failover!Next
    <3>4. QED
      BY <2>3, <3>2, <3>3 DEF HandlerFails
  <2>4. CASE TickStep(u) \/ HandleStateChange(u) \/ HandleNothing(u) \/ HandlerDone(u)
             \/ LoopExitStep(u)
    BY <2>4 DEF TickStep, Tick, HandleStateChange, HandleNothing, HandlerDone, LoopExitStep,
       LoopExit, CallbackReturns, proberVars, routeVars
  <2>5. QED
    BY <1>6, <2>1, <2>2, <2>3, <2>4 DEF UplinkStep
<1>7. QED
  BY <1>1, <1>2, <1>3, <1>4, <1>5, <1>6 DEF Next

\* The monitor implements WanFailover: whatever fails, a route is withdrawn only
\* from a down uplink and restored only to a healthy one.
THEOREM MonitorRefinesFailover == Spec => ImplementsFailover
BY InitRefines, StepRefines, Invariance, PTL DEF Spec, ImplementsFailover, Failover!Spec
=============================================================================
