----------------------------- MODULE WanFailover -----------------------------
(* What WAN failover promises of the default routes, without goroutines,      *)
(* locks or commands: an uplink is down after as many failed probes in a row  *)
(* as are configured, not one earlier or later, and comes back by answering a *)
(* probe; a route is taken away only from an uplink that is down and given    *)
(* back only to one that is healthy, one uplink at a time.                    *)
EXTENDS Integers

CONSTANTS
  Uplinks,
  Failures   \* Failures[u]: consecutive failures before u is marked down

VARIABLES
  health,   \* the verdict on each uplink
  missed,   \* failed probes since the last answer, as far as they matter
  routed    \* uplinks with a default route
abstractVars == <<health, missed, routed>>

\* A setting that is absent or not positive stands for 3.
Patience(u) == IF Failures[u] > 0 THEN Failures[u] ELSE 3

Unprobed == [u \in Uplinks |-> "unknown"]
NoneMissed == [u \in Uplinks |-> 0]

Init ==
  /\ health = Unprobed /\ missed = NoneMissed
  /\ routed = Uplinks

Answer(u) ==
  /\ health' = [health EXCEPT ![u] = "healthy"]
  /\ missed' = [missed EXCEPT ![u] = 0]
  /\ UNCHANGED routed

\* One more failed probe, short of what is configured.
Miss(u) ==
  /\ missed[u] + 1 < Patience(u)
  /\ health' = [health EXCEPT ![u] = "degraded"]
  /\ missed' = [missed EXCEPT ![u] = @ + 1]
  /\ UNCHANGED routed

\* The failed probe that makes the uplink down, and those after it.
GoDown(u) ==
  /\ missed[u] + 1 >= Patience(u)
  /\ health' = [health EXCEPT ![u] = "down"]
  /\ missed' = [missed EXCEPT ![u] = Patience(u)]
  /\ UNCHANGED routed

Withdraw(u) ==
  /\ health[u] = "down"
  /\ routed' = routed \ {u}
  /\ UNCHANGED <<health, missed>>

Restore(u) ==
  /\ health[u] = "healthy"
  /\ routed' = routed \union {u}
  /\ UNCHANGED <<health, missed>>

\* A new monitor process has probed nothing yet and touches no route.
Restart ==
  /\ health' = Unprobed /\ missed' = NoneMissed
  /\ UNCHANGED routed

\* warp apply reloads FRR with the routes of every uplink.
Reload ==
  /\ routed' = Uplinks
  /\ UNCHANGED <<health, missed>>

Next ==
  \/ \E u \in Uplinks : Answer(u) \/ Miss(u) \/ GoDown(u) \/ Withdraw(u) \/ Restore(u)
  \/ Restart
  \/ Reload

Spec == Init /\ [][Next]_abstractVars
=============================================================================
