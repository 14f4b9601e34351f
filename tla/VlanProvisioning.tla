-------------------------- MODULE VlanProvisioning --------------------------
(* apply.ProvisionVLANs, the first thing Execute does: it removes stale VLAN  *)
(* links from the parents the configuration uses, then creates or reconciles  *)
(* the wanted ones, each change being an `ip` command that can fail.  Runs    *)
(* follow one another, with other configurations, on the links that earlier   *)
(* runs left in the kernel, and any run can be cut off.                       *)
EXTENDS Naturals

CONSTANTS
  Devices,     \* names of VLAN links, like eth0.100
  Parent,      \* Parent[d]: ParentDevice of the name, eth0
  Vids,        \* VLAN IDs
  Addresses,   \* static addresses
  Dhcp,        \* the address setting "dhcp"
  Configs      \* the VLAN part of site configurations; vlan 0 stands for a
               \* device the configuration does not have as a VLAN

ConfigSet == [vlan : [Devices -> Vids \union {0}], address : [Devices -> Addresses \union {Dhcp}]]

ASSUME VlanAssumption ==
  /\ Vids \subseteq Nat \ {0}
  /\ Dhcp \notin Addresses
  /\ Configs \subseteq ConfigSet /\ Configs # {}

VARIABLES
  links,      \* external: the VLAN links the kernel has
  vid,        \* external: their VLAN IDs
  up,         \* external: those that are up
  addrs,      \* external: their static addresses
  pc,         \* where ProvisionVLANs is
  cfg,        \* the configuration being provisioned
  parents,    \* parents not yet looked at for stale links
  stale,      \* stale links of one parent, still to be deleted
  todo,       \* wanted devices not yet provisioned
  dev,        \* the device being provisioned
  existed,    \* `exists` in the code
  result,     \* "none", "ok" or "failed"
  ignored,    \* history: this run has ignored a failed command
  cutOff      \* history: links whose creation was cut off before "set up"

kernelVars == <<links, vid, up, addrs>>
callVars == <<cfg, parents, stale, todo, dev, existed>>
vlanVars == <<kernelVars, pc, callVars, result, ignored, cutOff>>

VlanTypeOK ==
  /\ links \in SUBSET Devices /\ up \in SUBSET Devices
  /\ vid \in [Devices -> Vids \union {0}]
  /\ addrs \in [Devices -> SUBSET Addresses]
  /\ pc \in {"idle", "prune", "delete", "make", "create", "up", "flush", "assign"}
  /\ cfg \in Configs
  /\ parents \subseteq {Parent[d] : d \in Devices}
  /\ stale \subseteq Devices /\ todo \subseteq Devices
  /\ dev \in Devices /\ existed \in BOOLEAN
  /\ result \in {"none", "ok", "failed"}
  /\ ignored \in BOOLEAN
  /\ cutOff \in SUBSET Devices

\* desiredVLANs and parentDevices.
Wanted(c) == {d \in Devices : c.vlan[d] > 0}
ParentsOf(c) == {Parent[d] : d \in Wanted(c)}

\* An address to assign is configured.
Static(c, d) == c.address[d] # Dhcp

VlanInit ==
  /\ links = {} /\ up = {}
  /\ vid = [d \in Devices |-> 0]
  /\ addrs = [d \in Devices |-> {}]
  /\ pc = "idle"
  /\ cfg \in Configs
  /\ parents = {} /\ stale = {} /\ todo = {}
  /\ dev \in Devices /\ existed = FALSE
  /\ result = "none" /\ ignored = FALSE /\ cutOff = {}

Provision(c) ==
  /\ pc = "idle"
  /\ pc' = "prune"
  /\ cfg' = c
  /\ parents' = ParentsOf(c)
  /\ stale' = {}
  /\ todo' = Wanted(c)
  /\ result' = "none" /\ ignored' = FALSE
  /\ UNCHANGED <<kernelVars, dev, existed, cutOff>>

-----------------------------------------------------------------------------
(* Stale links *)

\* Mutant of StaleOn: only links that are up are listed.
StaleUpOnly(p) == {d \in links \cap up : Parent[d] = p} \ Wanted(cfg)

\* listVLANSubinterfaces for one parent, without the desired links.
StaleOn(p) == {d \in links : Parent[d] = p} \ Wanted(cfg)

\* The links of p are listed; if that fails the parent is passed over.
ListLinks(p) ==
  /\ pc = "prune" /\ p \in parents
  /\ parents' = parents \ {p}
  /\ \/ stale' = StaleOn(p) /\ UNCHANGED ignored
     \/ stale' = {} /\ ignored' = TRUE
  /\ pc' = "delete"
  /\ UNCHANGED <<kernelVars, cfg, todo, dev, existed, result, cutOff>>

\* ip link delete, error ignored.  A link takes its addresses with it.
DeleteStale(d) ==
  /\ pc = "delete" /\ d \in stale
  /\ stale' = stale \ {d}
  /\ \/ /\ links' = links \ {d} /\ up' = up \ {d}
        /\ vid' = [vid EXCEPT ![d] = 0]
        /\ addrs' = [addrs EXCEPT ![d] = {}]
        /\ cutOff' = cutOff \ {d}
        /\ UNCHANGED ignored
     \/ ignored' = TRUE /\ UNCHANGED <<kernelVars, cutOff>>
  /\ UNCHANGED <<pc, cfg, parents, todo, dev, existed, result>>

NextParent ==
  /\ pc = "delete" /\ stale = {}
  /\ pc' = "prune"
  /\ UNCHANGED <<kernelVars, callVars, result, ignored, cutOff>>

PruneDone ==
  /\ pc = "prune" /\ parents = {}
  /\ pc' = "make"
  /\ UNCHANGED <<kernelVars, callVars, result, ignored, cutOff>>

-----------------------------------------------------------------------------
(* Wanted links *)

\* The address part of an iteration starts with a flush if the link was there,
\* and is skipped for a DHCP interface.
ToAddress(d, was) ==
  IF ~Static(cfg, d) THEN pc' = "make" /\ todo' = todo \ {d}
  ELSE pc' = (IF was THEN "flush" ELSE "assign") /\ UNCHANGED todo

\* ip link show decides whether the link is there; a failure of the command
\* itself looks like a link that is not.
Look(d) ==
  /\ pc = "make" /\ d \in todo
  /\ dev' = d
  /\ existed' \in {e \in BOOLEAN : e => d \in links}
  /\ IF existed' THEN ToAddress(d, TRUE) ELSE pc' = "create" /\ UNCHANGED todo
  /\ UNCHANGED <<kernelVars, cfg, parents, stale, result, ignored, cutOff>>

\* ip link add.  The kernel refuses a name that is in use and a second link
\* with the same VLAN ID on one parent (external).
Create ==
  /\ pc = "create"
  /\ dev \notin links
  /\ \A e \in links : Parent[e] = Parent[dev] => vid[e] # cfg.vlan[dev]
  /\ links' = links \union {dev}
  /\ vid' = [vid EXCEPT ![dev] = cfg.vlan[dev]]
  /\ pc' = "up"
  /\ UNCHANGED <<up, addrs, callVars, result, ignored, cutOff>>

\* Mutant of BringUp: the link is never set up.
BringUpForgotten ==
  /\ pc = "up"
  /\ ToAddress(dev, FALSE)
  /\ UNCHANGED <<kernelVars, cfg, parents, stale, dev, existed, result, ignored, cutOff>>

\* ip link set up.
BringUp ==
  /\ pc = "up"
  /\ up' = up \union {dev}
  /\ ToAddress(dev, FALSE)
  /\ UNCHANGED <<links, vid, addrs, cfg, parents, stale, dev, existed, result, ignored, cutOff>>

\* ip addr flush, error ignored.
Flush ==
  /\ pc = "flush"
  /\ \/ addrs' = [addrs EXCEPT ![dev] = {}] /\ UNCHANGED ignored
     \/ ignored' = TRUE /\ UNCHANGED addrs
  /\ pc' = "assign"
  /\ UNCHANGED <<links, vid, up, callVars, result, cutOff>>

\* Mutant of Assign: the first address found satisfies it, as if "File exists"
\* meant any address.
AssignIfNone ==
  /\ pc = "assign"
  /\ addrs' = IF addrs[dev] # {} THEN addrs ELSE [addrs EXCEPT ![dev] = {cfg.address[dev]}]
  /\ pc' = "make" /\ todo' = todo \ {dev}
  /\ UNCHANGED <<links, vid, up, cfg, parents, stale, dev, existed, result, ignored, cutOff>>

\* ip addr add; that the address is there already is no error.
Assign ==
  /\ pc = "assign"
  /\ addrs' = [addrs EXCEPT ![dev] = @ \union {cfg.address[dev]}]
  /\ pc' = "make" /\ todo' = todo \ {dev}
  /\ UNCHANGED <<links, vid, up, cfg, parents, stale, dev, existed, result, ignored, cutOff>>

Provisioned ==
  /\ pc = "make" /\ todo = {}
  /\ pc' = "idle"
  /\ result' = "ok"
  /\ UNCHANGED <<kernelVars, callVars, ignored, cutOff>>

\* A command whose error counts fails and ProvisionVLANs returns, or the process
\* dies: what has been done by then stays.
CutShort ==
  /\ pc # "idle"
  /\ pc' = "idle"
  /\ result' = "failed"
  /\ cutOff' = IF pc = "up" THEN cutOff \union {dev} ELSE cutOff
  /\ UNCHANGED <<kernelVars, callVars, ignored>>

VlanNext ==
  \/ \E c \in Configs : Provision(c)
  \/ \E d \in Devices : ListLinks(Parent[d]) \/ DeleteStale(d) \/ Look(d)
  \/ NextParent \/ PruneDone
  \/ Create \/ BringUp \/ Flush \/ Assign
  \/ Provisioned \/ CutShort

VlanSpec == VlanInit /\ [][VlanNext]_vlanVars

-----------------------------------------------------------------------------

\* After a run that reports success every wanted VLAN link exists and has its
\* static address, and no other unless a failed flush was ignored, whatever
\* earlier runs left behind.
ProvisionedOnSuccess ==
  result = "ok" =>
    \A d \in Wanted(cfg) :
      /\ d \in links
      /\ Static(cfg, d) => /\ cfg.address[d] \in addrs[d]
                           /\ ignored \/ addrs[d] = {cfg.address[d]}

\* After a run that reports success and ignored no error, a parent that still
\* carries a wanted VLAN carries no other.
NoStaleOnUsedParents ==
  (result = "ok" /\ ~ignored) =>
    \A d \in links : Parent[d] \in ParentsOf(cfg) => d \in Wanted(cfg)

\* A link is up unless the run that created it was cut off right then.
UpUnlessCutOff ==
  \A d \in links : d \in up \/ d \in cutOff \/ (pc = "up" /\ d = dev)
=============================================================================
