------------------------------ MODULE WanConfig ------------------------------
(* The WAN uplinks of a validated site configuration, as `warp monitor` reads *)
(* them: the interfaces with role "wan" and a gateway.  A configuration is    *)
(* loaded once, when the process starts, and never changes while it runs.     *)
EXTENDS Integers

CONSTANTS
  Uplinks,    \* names of the WAN interfaces that have a gateway
  Gateway,    \* Gateway[u]: the next hop of u
  Device,     \* Device[u]: the kernel device of u
  Failures    \* Failures[u]: health_check.failures as configured, 0 if absent

\* cmdMonitor refuses to run without uplinks; Validate refuses two interfaces
\* with one device.  Two uplinks may share a gateway address.
ASSUME WanAssumption ==
  /\ Uplinks # {}
  /\ Failures \in [Uplinks -> Int]
  /\ \A u, v \in Uplinks : Device[u] = Device[v] => u = v

\* Mutant of Threshold: a setting that is absent is taken as it is.
ThresholdUnset(u) == Failures[u]

\* The number of consecutive failed probes after which an uplink is down.
\* Zero and negative settings mean "not set" and take the default.
DefaultFailures == 3
Threshold(u) == IF Failures[u] <= 0 THEN DefaultFailures ELSE Failures[u]

\* nhKey: a static default route is identified by gateway and device together.
Key(u) == <<Gateway[u], Device[u]>>
KeysOf(S) == {Key(u) : u \in S}
AllKeys == KeysOf(Uplinks)
=============================================================================
