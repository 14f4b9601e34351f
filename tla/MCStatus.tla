------------------------------ MODULE MCStatus ------------------------------
(* Two uplinks: one is down after a single failed probe, the other after two. *)
(* Enough probes for the first to recover and the second to be degraded.      *)
EXTENDS StatusFile

CONSTANTS wan1, wan2

MCUplinks == {wan1, wan2}
MCGateway == [u \in MCUplinks |-> "gw"]
MCDevice == [u \in MCUplinks |-> IF u = wan1 THEN "eth0" ELSE "eth1"]
MCFailures == [u \in MCUplinks |-> IF u = wan1 THEN 1 ELSE 2]
MCMaxProbes == [u \in MCUplinks |-> IF u = wan1 THEN 2 ELSE 1]
=============================================================================
