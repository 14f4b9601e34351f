----------------------------- MODULE VlanProofs -----------------------------
(* Proofs about VlanProvisioning, for any devices, parents, configurations    *)
(* and histories of earlier runs.                                             *)
EXTENDS VlanProvisioning, TLAPS

Making == {"make", "create", "up", "flush", "assign"}

\* What an iteration of the second loop leaves behind for its device.
Ready(d) ==
  /\ d \in links
  /\ Static(cfg, d) => /\ cfg.address[d] \in addrs[d]
                       /\ ignored \/ addrs[d] = {cfg.address[d]}

\* What the loops still have to do.
Remaining ==
  /\ pc # "idle" => result = "none" /\ todo \subseteq Wanted(cfg)
  /\ pc \in {"prune", "delete"} => todo = Wanted(cfg) /\ stale \cap Wanted(cfg) = {}
  /\ pc = "prune" => stale = {}
  /\ pc \in Making => parents = {} /\ stale = {}

\* The device in hand.
InHand ==
  /\ \A d \in Devices \ links : addrs[d] = {}
  /\ pc \in {"create", "up", "flush", "assign"} => dev \in todo
  /\ pc \in {"up", "flush", "assign"} => dev \in links
  /\ pc \in {"flush", "assign"} => Static(cfg, dev)
  /\ pc = "up" => addrs[dev] = {}
  /\ pc = "assign" => ignored \/ addrs[dev] = {}

\* What the loops have done.
Achieved ==
  /\ pc \in Making => \A d \in Wanted(cfg) \ todo : Ready(d)
  /\ (pc # "idle" /\ ~ignored) =>
       \A d \in links : Parent[d] \in ParentsOf(cfg) \ parents => d \in Wanted(cfg) \union stale

\* The inductive invariant: a success is the end of the two loops.
VlanInv ==
  /\ VlanTypeOK /\ Remaining /\ InHand /\ Achieved
  /\ ProvisionedOnSuccess /\ NoStaleOnUsedParents /\ UpUnlessCutOff

LEMMA VlanInitInv == VlanInit => VlanInv
  BY VlanAssumption
  DEF VlanInit, VlanInv, VlanTypeOK, Remaining, InHand, Achieved, Making,
      ProvisionedOnSuccess, NoStaleOnUsedParents, UpUnlessCutOff, ConfigSet

\* The static address of a configuration is an address.
LEMMA StaticAddress ==
  ASSUME NEW c \in Configs, NEW d \in Devices, Static(c, d)
  PROVE  c.address[d] \in Addresses
  BY VlanAssumption DEF Static, ConfigSet

LEMMA WantedDevices == \A c : Wanted(c) \subseteq Devices
  BY DEF Wanted

LEMMA VlanStep == VlanInv /\ [VlanNext]_vlanVars => VlanInv'
<1> SUFFICES ASSUME VlanInv, [VlanNext]_vlanVars PROVE VlanInv'
  OBVIOUS
<1> USE DEF VlanInv
<1>1. ASSUME NEW c \in Configs, Provision(c) PROVE VlanInv'
  BY <1>1, VlanAssumption, WantedDevices
  DEF Provision, kernelVars, VlanTypeOK, Remaining, InHand, Achieved, Making,
      ProvisionedOnSuccess, NoStaleOnUsedParents, UpUnlessCutOff, ParentsOf
<1>2. ASSUME NEW e \in Devices, ListLinks(Parent[e]) PROVE VlanInv'
  <2>1. VlanTypeOK'
    BY <1>2 DEF ListLinks, StaleOn, kernelVars, VlanTypeOK
  <2>2. Remaining' /\ InHand' /\ UpUnlessCutOff'
    BY <1>2
    DEF ListLinks, StaleOn, kernelVars, VlanTypeOK, Remaining, InHand, UpUnlessCutOff, Making
  <2>3. Achieved'
    <3>1. ASSUME ~ignored', NEW d \in links, Parent[d] \in ParentsOf(cfg) \ parents'
          PROVE  d \in Wanted(cfg) \union stale'
      BY <1>2, <3>1 DEF ListLinks, StaleOn, Remaining, Achieved
    <3> QED BY <1>2, <3>1 DEF ListLinks, kernelVars, Achieved, Making, ParentsOf, Wanted
  <2>4. ProvisionedOnSuccess' /\ NoStaleOnUsedParents'
    BY <1>2 DEF ListLinks, Remaining, ProvisionedOnSuccess, NoStaleOnUsedParents
  <2> QED BY <2>1, <2>2, <2>3, <2>4
<1>3. ASSUME NEW d \in Devices, DeleteStale(d) PROVE VlanInv'
  <2>1. VlanTypeOK'
    BY <1>3 DEF DeleteStale, kernelVars, VlanTypeOK
  <2>2. Remaining' /\ InHand' /\ UpUnlessCutOff'
    BY <1>3 DEF DeleteStale, kernelVars, VlanTypeOK, Remaining, InHand, UpUnlessCutOff, Making
  <2>3. Achieved'
    BY <1>3 DEF DeleteStale, kernelVars, VlanTypeOK, Achieved, Making
  <2>4. ProvisionedOnSuccess' /\ NoStaleOnUsedParents'
    BY <1>3 DEF DeleteStale, Remaining, ProvisionedOnSuccess, NoStaleOnUsedParents
  <2> QED BY <2>1, <2>2, <2>3, <2>4
<1>4. ASSUME NextParent \/ PruneDone PROVE VlanInv'
  BY <1>4
  DEF NextParent, PruneDone, kernelVars, callVars, VlanTypeOK, Remaining, InHand, Achieved,
      Making, Ready, ProvisionedOnSuccess, NoStaleOnUsedParents, UpUnlessCutOff
<1>5. ASSUME NEW d \in Devices, Look(d) PROVE VlanInv'
  <2>1. VlanTypeOK' /\ Remaining' /\ InHand' /\ UpUnlessCutOff'
    BY <1>5
    DEF Look, ToAddress, kernelVars, VlanTypeOK, Remaining, InHand, UpUnlessCutOff, Making
  <2>2. Achieved'
    BY <1>5 DEF Look, ToAddress, kernelVars, VlanTypeOK, Achieved, Making, Ready
  <2>3. ProvisionedOnSuccess' /\ NoStaleOnUsedParents'
    BY <1>5 DEF Look, Remaining, ProvisionedOnSuccess, NoStaleOnUsedParents
  <2> QED BY <2>1, <2>2, <2>3
<1>6. ASSUME Create PROVE VlanInv'
  <2>1. VlanTypeOK'
    BY <1>6, VlanAssumption DEF Create, callVars, VlanTypeOK, ConfigSet
  <2>2. Remaining' /\ InHand' /\ UpUnlessCutOff'
    BY <1>6 DEF Create, callVars, VlanTypeOK, Remaining, InHand, UpUnlessCutOff, Making
  <2>3. Achieved'
    BY <1>6 DEF Create, callVars, VlanTypeOK, Remaining, InHand, Achieved, Making, Ready
  <2>4. ProvisionedOnSuccess' /\ NoStaleOnUsedParents'
    BY <1>6 DEF Create, callVars, Remaining, ProvisionedOnSuccess, NoStaleOnUsedParents
  <2> QED BY <2>1, <2>2, <2>3, <2>4
<1>7. ASSUME BringUp PROVE VlanInv'
  <2>1. VlanTypeOK' /\ Remaining' /\ InHand' /\ UpUnlessCutOff'
    BY <1>7 DEF BringUp, ToAddress, VlanTypeOK, Remaining, InHand, UpUnlessCutOff, Making
  <2>2. Achieved'
    BY <1>7 DEF BringUp, ToAddress, VlanTypeOK, InHand, Achieved, Making, Ready
  <2>3. ProvisionedOnSuccess' /\ NoStaleOnUsedParents'
    BY <1>7 DEF BringUp, Remaining, ProvisionedOnSuccess, NoStaleOnUsedParents
  <2> QED BY <2>1, <2>2, <2>3
<1>8. ASSUME Flush PROVE VlanInv'
  <2>1. VlanTypeOK' /\ Remaining' /\ InHand' /\ UpUnlessCutOff'
    BY <1>8 DEF Flush, callVars, VlanTypeOK, Remaining, InHand, UpUnlessCutOff, Making
  <2>2. Achieved'
    BY <1>8 DEF Flush, callVars, VlanTypeOK, InHand, Achieved, Making, Ready
  <2>3. ProvisionedOnSuccess' /\ NoStaleOnUsedParents'
    BY <1>8 DEF Flush, callVars, Remaining, ProvisionedOnSuccess, NoStaleOnUsedParents
  <2> QED BY <2>1, <2>2, <2>3
<1>9. ASSUME Assign PROVE VlanInv'
  <2>0. cfg.address[dev] \in Addresses
    BY <1>9, StaticAddress DEF Assign, VlanTypeOK, InHand
  <2>1. VlanTypeOK'
    BY <1>9, <2>0 DEF Assign, VlanTypeOK
  <2>2. Remaining' /\ InHand' /\ UpUnlessCutOff'
    BY <1>9 DEF Assign, VlanTypeOK, Remaining, InHand, UpUnlessCutOff, Making
  <2>3. Ready(dev)'
    BY <1>9 DEF Assign, VlanTypeOK, InHand, Ready
  <2>4. Achieved'
    BY <1>9, <2>3, WantedDevices DEF Assign, VlanTypeOK, Achieved, Making, Ready
  <2>5. ProvisionedOnSuccess' /\ NoStaleOnUsedParents'
    BY <1>9 DEF Assign, Remaining, ProvisionedOnSuccess, NoStaleOnUsedParents
  <2> QED BY <2>1, <2>2, <2>4, <2>5
<1>10. ASSUME Provisioned PROVE VlanInv'
  BY <1>10
  DEF Provisioned, kernelVars, callVars, VlanTypeOK, Remaining, InHand, Achieved, Making,
      Ready, ProvisionedOnSuccess, NoStaleOnUsedParents, UpUnlessCutOff
<1>11. ASSUME CutShort PROVE VlanInv'
  BY <1>11
  DEF CutShort, kernelVars, callVars, VlanTypeOK, Remaining, InHand, Achieved, Making,
      ProvisionedOnSuccess, NoStaleOnUsedParents, UpUnlessCutOff
<1>12. ASSUME UNCHANGED vlanVars PROVE VlanInv'
  BY <1>12
  DEF vlanVars, kernelVars, callVars, VlanTypeOK, Remaining, InHand, Achieved, Making,
      Ready, ProvisionedOnSuccess, NoStaleOnUsedParents, UpUnlessCutOff
<1> QED
  BY <1>1, <1>2, <1>3, <1>4, <1>5, <1>6, <1>7, <1>8, <1>9, <1>10, <1>11, <1>12 DEF VlanNext

LEMMA VlanAlways == VlanSpec => []VlanInv
  BY VlanInitInv, VlanStep, PTL DEF VlanSpec

\* Every state of ProvisionVLANs is well typed: only links of the site's devices
\* are made, and only static addresses assigned.
THEOREM VlanTypeCorrect == VlanSpec => []VlanTypeOK
  BY VlanAlways, PTL DEF VlanInv

\* A run of ProvisionVLANs that reports success has created every wanted link
\* and given it its static address, after any history of runs that failed.
THEOREM SuccessMeansProvisioned == VlanSpec => []ProvisionedOnSuccess
  BY VlanAlways, PTL DEF VlanInv

\* A parent that still carries a wanted VLAN keeps no stale one, unless an
\* `ip` command failed and was ignored.
THEOREM UsedParentsAreClean == VlanSpec => []NoStaleOnUsedParents
  BY VlanAlways, PTL DEF VlanInv

\* Only a run that is cut off between ip link add and ip link set up leaves a
\* link down.
THEOREM LinksAreUp == VlanSpec => []UpUnlessCutOff
  BY VlanAlways, PTL DEF VlanInv
=============================================================================
