----------------------------- MODULE VtyshRoutes -----------------------------
(* failover.VtyshRouteManager and the static default routes of FRR that it    *)
(* configures through vtysh.  ReplaceECMPRoute issues one vtysh command per   *)
(* route that has to change, removals before additions, in map order, and     *)
(* gives up at the first command that reports an error.                       *)
EXTENDS WanConfig

VARIABLES
  desired,     \* nexthops of the call in progress
  installed,   \* m.installed: what the manager believes FRR has
  frr          \* external: the static default routes FRR really has

routeVars == <<desired, installed, frr>>

RoutesTypeOK ==
  /\ desired \in SUBSET AllKeys
  /\ installed \in SUBSET AllKeys
  /\ frr \in SUBSET AllKeys

\* The route of the next command: any stale route, and a missing one only when
\* no stale route is left.
NextCommand(k) ==
  \/ k \in installed \ desired
  \/ installed \subseteq desired /\ k \in desired \ installed

\* What the command does to a set of routes: "no ip route" for a tracked
\* route, "ip route" for one that is not.
Apply(k, routes) == IF k \in installed THEN routes \ {k} ELSE routes \union {k}

\* vtysh exits with status 0 and the manager updates its map.
CommandOk(k) ==
  /\ NextCommand(k)
  /\ frr' = Apply(k, frr)
  /\ installed' = Apply(k, installed)
  /\ UNCHANGED desired

\* Mutant of CommandError: the map is updated before the command is run.
CommandErrorTracked(k) ==
  /\ NextCommand(k)
  /\ installed' = Apply(k, installed)
  /\ UNCHANGED <<desired, frr>>

\* vtysh reports an error and FRR is as before: ReplaceECMPRoute returns it.
CommandError(k) ==
  /\ NextCommand(k)
  /\ UNCHANGED routeVars

\* FRR took the command, but vtysh reports an error all the same.
CommandLost(k) ==
  /\ NextCommand(k)
  /\ frr' = Apply(k, frr)
  /\ UNCHANGED <<desired, installed>>

\* Both loops of ReplaceECMPRoute have nothing left to do.
Replaced == installed = desired
=============================================================================
