------------------------------- MODULE MCVlan -------------------------------
(* Two VLAN links on one parent and one on another.  The first may change its *)
(* VLAN ID, the second its address, and each may be dropped.                  *)
EXTENDS VlanProvisioning

CONSTANTS eth0_1, eth0_2, eth1_1, x, y

MCDevices == {eth0_1, eth0_2, eth1_1}
MCParent == [d \in MCDevices |-> IF d = eth1_1 THEN "eth1" ELSE "eth0"]
MCAddresses == {x, y}
MCConfigs ==
  {[vlan |-> [d \in MCDevices |-> CASE d = eth0_1 -> v1 [] d = eth0_2 -> v2 [] d = eth1_1 -> v3],
    address |-> [d \in MCDevices |-> IF d = eth0_2 THEN a ELSE x]] :
     v1 \in {0, 1, 2}, v2 \in {0, 2}, v3 \in {0, 1}, a \in {x, y, Dhcp}}
=============================================================================
