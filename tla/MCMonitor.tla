------------------------------ MODULE MCMonitor ------------------------------
(* Two uplinks on two devices behind the same gateway address: one is down    *)
(* after a single failed probe, the other has no failures setting.            *)
EXTENDS Monitor

CONSTANTS wan1, wan2

MCUplinks == {wan1, wan2}
MCGateway == [u \in MCUplinks |-> "gw"]
MCDevice == [u \in MCUplinks |-> IF u = wan1 THEN "eth0" ELSE "eth1"]
MCFailures == [u \in MCUplinks |-> IF u = wan1 THEN 1 ELSE 0]

Faults(error, lost, exit, reload) ==
  [kind \in FaultKinds |->
     CASE kind = "error" -> error [] kind = "lost" -> lost
       [] kind = "exit" -> exit [] kind = "reload" -> reload]
EveryFault == Faults(1, 1, 1, 1)
OneError == Faults(1, 0, 0, 0)
OneExit == Faults(0, 0, 1, 0)
=============================================================================
