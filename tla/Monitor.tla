------------------------------- MODULE Monitor -------------------------------
(* `warp monitor`: the prober's goroutines call the failover controller,      *)
(* which takes an uplink out of the default route when it is declared down    *)
(* and puts it back when it is healthy again.  The controller runs under      *)
(* c.mu for as long as its vtysh commands take; the other uplinks keep        *)
(* probing and queue up on the lock.  The process can be stopped or killed    *)
(* at any moment and started again, and `warp apply` may reload FRR under it. *)
EXTENDS Prober, VtyshRoutes

CONSTANTS
  Main,        \* the main goroutine, as an owner of c.mu
  NoOwner,     \* c.mu is free
  MaxFaults    \* how often each kind of disturbance may happen

FaultKinds == {"error", "lost", "exit", "reload"}

ASSUME MonitorAssumption ==
  /\ Main \notin Uplinks
  /\ NoOwner \notin Uplinks \union {Main}
  /\ MaxFaults \in [FaultKinds -> Nat]

VARIABLES
  proc,        \* the monitor process: "down", "install" or "run"
  active,      \* Controller.active
  cmu,         \* owner of Controller.mu
  unapplied,   \* history: uplinks whose last verdict could not be applied
  used         \* disturbances so far, bounded by MaxFaults

controlVars == <<proc, active, cmu, unapplied, used>>
vars == <<proberVars, routeVars, controlVars>>

MonitorTypeOK ==
  /\ ProberTypeOK
  /\ RoutesTypeOK
  /\ proc \in {"down", "install", "run"}
  /\ active \in [Uplinks -> BOOLEAN]
  /\ cmu \in Uplinks \union {Main, NoOwner}
  /\ unapplied \in SUBSET Uplinks
  /\ used \in [FaultKinds -> Nat]

Spend(kind) ==
  /\ used[kind] < MaxFaults[kind]
  /\ used' = [used EXCEPT ![kind] = @ + 1]

ActiveKeys(act) == KeysOf({u \in Uplinks : act[u]})

\* NewController: every uplink starts active.
InitialActive == [u \in Uplinks |-> TRUE]

\* Mutant of InitialInstalled: the initial routes are keyed the other way round.
InstalledByDevice == {<<Device[u], Gateway[u]>> : u \in Uplinks}

\* NewVtyshRouteManager with the routes cmdMonitor passes: the route of every
\* uplink is tracked as installed.
InitialInstalled == AllKeys

\* The default routes of frr.conf: one per WAN interface with a gateway, with
\* ECMP enabled and without.
RenderedRoutes == AllKeys

\* warp apply has run and FRR holds the rendered routes.
Init ==
  /\ ProberInit
  /\ frr = RenderedRoutes
  /\ installed = InitialInstalled
  /\ desired = ActiveKeys(InitialActive)
  /\ proc = "down"
  /\ active = InitialActive
  /\ cmu = NoOwner
  /\ unapplied = {}
  /\ used = [kind \in FaultKinds |-> 0]

\* cmdMonitor up to the call of updateECMP in InstallInitialRoutes: every
\* uplink starts active and its route is taken to be in FRR already.
Launch ==
  /\ proc = "down"
  /\ proc' = "install"
  /\ active' = InitialActive
  /\ installed' = InitialInstalled
  /\ desired' = ActiveKeys(InitialActive)
  /\ cmu' = Main
  /\ status' = [u \in Uplinks |-> "unknown"]
  /\ fails' = [u \in Uplinks |-> 0]
  /\ loop' = [u \in Uplinks |-> "none"]
  /\ note' = [u \in Uplinks |-> NoNote]
  /\ ctx' = "none"
  /\ unapplied' = {}
  /\ UNCHANGED <<frr, used>>

\* InstallInitialRoutes returns without error and main goes on to Start.
InstallDone ==
  /\ proc = "install"
  /\ Replaced
  /\ proc' = "run"
  /\ cmu' = NoOwner
  /\ UNCHANGED <<proberVars, routeVars, active, unapplied, used>>

StartStep(u) ==
  /\ proc = "run"
  /\ StartUplink(u)
  /\ UNCHANGED <<routeVars, controlVars>>

TickStep(u) ==
  /\ proc = "run"
  /\ Tick(u)
  /\ UNCHANGED <<routeVars, controlVars>>

PingStep(u) ==
  /\ proc = "run"
  /\ \E ok \in BOOLEAN : RecordPing(u, ok)
  /\ UNCHANGED <<routeVars, controlVars>>

\* Mutant of Activates: the early return of activateUplink is inverted.
ActivatesActive(u) == note[u] = "healthy" /\ active[u]

\* The switch of HandleStateChange with the early returns of
\* deactivateUplink and activateUplink: what there is to do for u.
Deactivates(u) == note[u] = "down" /\ active[u]
Activates(u) == note[u] = "healthy" /\ ~active[u]

\* Mutant of HandleStateChange: the nexthops are collected before the flag is
\* flipped.
HandleCollectsFirst(u) ==
  /\ proc = "run"
  /\ loop[u] = "callback"
  /\ cmu = NoOwner
  /\ Deactivates(u) \/ Activates(u)
  /\ active' = [active EXCEPT ![u] = Activates(u)]
  /\ desired' = ActiveKeys(active)
  /\ cmu' = u
  /\ UNCHANGED <<proberVars, installed, frr, proc, unapplied, used>>

\* HandleStateChange up to the first vtysh command: the lock is taken, the
\* uplink's flag is flipped and updateECMP has collected the nexthops.
HandleStateChange(u) ==
  /\ proc = "run"
  /\ loop[u] = "callback"
  /\ cmu = NoOwner
  /\ Deactivates(u) \/ Activates(u)
  /\ active' = [active EXCEPT ![u] = Activates(u)]
  /\ desired' = ActiveKeys(active')
  /\ cmu' = u
  /\ UNCHANGED <<proberVars, installed, frr, proc, unapplied, used>>

\* HandleStateChange when there is nothing to do: a degraded uplink, or one
\* whose flag already has the value asked for.
HandleNothing(u) ==
  /\ proc = "run"
  /\ cmu = NoOwner
  /\ ~(Deactivates(u) \/ Activates(u))
  /\ CallbackReturns(u)
  /\ unapplied' = IF note[u] = "degraded" THEN unapplied ELSE unapplied \ {u}
  /\ UNCHANGED <<routeVars, proc, active, cmu, used>>

\* A vtysh command of the call in progress succeeds.
CommandStep ==
  /\ proc # "down"
  /\ cmu # NoOwner
  /\ \E k \in AllKeys : CommandOk(k)
  /\ UNCHANGED <<proberVars, controlVars>>

\* Mutant of HandlerDone: c.mu is not released.
HandlerKeepsLock(u) ==
  /\ proc = "run"
  /\ cmu = u
  /\ Replaced
  /\ CallbackReturns(u)
  /\ unapplied' = unapplied \ {u}
  /\ UNCHANGED <<routeVars, proc, active, cmu, used>>

\* ReplaceECMPRoute returned nil; the PBR calls that follow are no-ops of the
\* vtysh manager; c.mu is released and the callback returns.
HandlerDone(u) ==
  /\ proc = "run"
  /\ cmu = u
  /\ Replaced
  /\ CallbackReturns(u)
  /\ cmu' = NoOwner
  /\ unapplied' = unapplied \ {u}
  /\ UNCHANGED <<routeVars, proc, active, used>>

\* Mutant of HandlerFails: the flag is not put back.
HandlerFailsNoRevert(u) ==
  /\ proc = "run"
  /\ cmu = u
  /\ \/ Spend("error") /\ \E k \in AllKeys : CommandError(k)
     \/ Spend("lost") /\ \E k \in AllKeys : CommandLost(k)
  /\ CallbackReturns(u)
  /\ cmu' = NoOwner
  /\ unapplied' = unapplied \union {u}
  /\ UNCHANGED <<proc, active>>

\* updateECMP returned an error: the flag is put back, nothing else is done
\* and nobody tries again.
HandlerFails(u) ==
  /\ proc = "run"
  /\ cmu = u
  /\ \/ Spend("error") /\ \E k \in AllKeys : CommandError(k)
     \/ Spend("lost") /\ \E k \in AllKeys : CommandLost(k)
  /\ active' = [active EXCEPT ![u] = ~@]
  /\ CallbackReturns(u)
  /\ cmu' = NoOwner
  /\ unapplied' = unapplied \union {u}
  /\ UNCHANGED proc

\* SIGINT or SIGTERM once the handler is installed: cancel(), then Stop waits.
Signal ==
  /\ proc = "run"
  /\ Cancel
  /\ Spend("exit")
  /\ UNCHANGED <<routeVars, proc, active, cmu, unapplied>>

LoopExitStep(u) ==
  /\ proc = "run"
  /\ LoopExit(u)
  /\ UNCHANGED <<routeVars, controlVars>>

\* Stop returned and main ends.  The routes stay as they are.
Exit ==
  /\ proc = "run"
  /\ Stopped
  /\ proc' = "down"
  /\ UNCHANGED <<proberVars, routeVars, active, cmu, unapplied, used>>

\* The process dies.  A vtysh command it had started may still reach FRR.
Kill ==
  /\ proc # "down"
  /\ Spend("exit")
  /\ proc' = "down"
  /\ \/ UNCHANGED frr
     \/ cmu # NoOwner /\ \E k \in AllKeys : NextCommand(k) /\ frr' = Apply(k, frr)
  /\ UNCHANGED <<proberVars, desired, installed, active, cmu, unapplied>>

\* The frr step of warp apply: FRR runs the rendered file again.
FrrReload ==
  /\ Spend("reload")
  /\ frr' = RenderedRoutes
  /\ UNCHANGED <<proberVars, desired, installed, proc, active, cmu, unapplied>>

UplinkStep(u) ==
  \/ StartStep(u) \/ TickStep(u) \/ PingStep(u)
  \/ HandleStateChange(u) \/ HandleNothing(u)
  \/ HandlerDone(u) \/ HandlerFails(u)
  \/ LoopExitStep(u)

Next ==
  \/ Launch \/ InstallDone \/ CommandStep
  \/ Signal \/ Exit \/ Kill \/ FrrReload
  \/ \E u \in Uplinks : UplinkStep(u)

\* Goroutines are scheduled, ping and vtysh end (ping -W bounds the first).
\* sync.Mutex hands the lock over to a waiter in the end, and select does not
\* ignore a ready case forever: both are strong fairness.  Nothing makes an
\* operator start, stop or reload anything.
Fairness ==
  /\ WF_vars(InstallDone)
  /\ WF_vars(CommandStep)
  /\ WF_vars(Exit)
  /\ \A u \in Uplinks :
       /\ WF_vars(StartStep(u))
       /\ WF_vars(TickStep(u))
       /\ WF_vars(PingStep(u))
       /\ SF_vars(HandleStateChange(u))
       /\ SF_vars(HandleNothing(u))
       /\ WF_vars(HandlerDone(u))
       /\ SF_vars(LoopExitStep(u))

Spec == Init /\ [][Next]_vars
FairSpec == Spec /\ Fairness

-----------------------------------------------------------------------------
(* Safety *)

\* The manager's map and the controller's flags agree on every uplink but the
\* one being handled, after errors and reverts too.  This is what lets an error
\* be undone by flipping one flag, and what keeps a handler from issuing
\* commands for another uplink's route.
InstalledMatchesActive ==
  \A u \in Uplinks : u # cmu => (Key(u) \in installed <=> active[u])

\* Between callbacks the manager tracks a route exactly for the uplinks that
\* are not down, unless the last change for that uplink met a vtysh error.
VerdictApplied ==
  \A u \in Uplinks :
    (proc = "run" /\ loop[u] \in {"select", "ping"} /\ u \notin unapplied)
      => (Key(u) \in installed <=> status[u] # "down")

\* FRR has the routes the manager tracks as long as no command was misreported,
\* the process was not restarted and nobody reloaded FRR; errors that vtysh
\* reports truthfully do not make them differ.
TrackedIsReal ==
  (used["lost"] = 0 /\ used["exit"] = 0 /\ used["reload"] = 0) => frr = installed

\* The monitor implements the failover promise of WanFailover on FRR's routes,
\* the number of failed probes it takes included (probeLoop, doPing).
Failover == INSTANCE WanFailover WITH
  health <- status, missed <- fails, routed <- {u \in Uplinks : Key(u) \in frr}
ImplementsFailover == Failover!Spec

-----------------------------------------------------------------------------
(* Liveness *)

\* An uplink that is declared down leaves FRR's default route unless it
\* recovers first (HandleStateChange, deactivateUplink, ReplaceECMPRoute).
DownEventuallyWithdrawn ==
  \A u \in Uplinks :
    (proc = "run" /\ status[u] = "down")
      ~> (Key(u) \notin frr \/ status[u] # "down" \/ proc = "down")

\* An uplink that is healthy is in FRR's default route in the end, unless it
\* stops being healthy first (HandleStateChange, activateUplink).
HealthyEventuallyRouted ==
  \A u \in Uplinks :
    (proc = "run" /\ status[u] = "healthy")
      ~> (Key(u) \in frr \/ status[u] # "healthy" \/ proc = "down")

\* What the two may fail for, and nothing else: a vtysh error met by the last
\* change of this very uplink (nobody retries), a command that was misreported,
\* and the routes changed from outside, by a reload of FRR or by a process that
\* stopped in between.  Errors of other uplinks, which share the lock, the map
\* and the flags' undo, never keep an uplink's route in or out.
WithdrawnUnlessDisturbed ==
  \A u \in Uplinks :
    (proc = "run" /\ status[u] = "down")
      ~> \/ Key(u) \notin frr \/ status[u] # "down" \/ proc = "down"
         \/ u \in unapplied \/ used["lost"] > 0 \/ used["reload"] > 0

\* The same for an uplink that is healthy.
RestoredUnlessDisturbed ==
  \A u \in Uplinks :
    (proc = "run" /\ status[u] = "healthy")
      ~> \/ Key(u) \in frr \/ status[u] # "healthy"
         \/ u \in unapplied \/ used["lost"] > 0 \/ used["exit"] > 0

\* Stop returns: after cancel() every goroutine reaches ctx.Done, also one that
\* is waiting for c.mu or in the middle of its vtysh commands.
StopTerminates == (proc = "run" /\ ctx = "cancelled") ~> proc = "down"
=============================================================================
