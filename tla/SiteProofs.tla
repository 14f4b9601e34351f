----------------------------- MODULE SiteProofs -----------------------------
(* What SiteCommands promises, for addresses of any length and any set of     *)
(* documents.                                                                 *)
EXTENDS SiteCommands, TLAPS, WellFoundedInduction

-----------------------------------------------------------------------------
(* Addresses and networks *)

\* A set of natural numbers that is not empty has a least element.
LEMMA LeastOf ==
  ASSUME NEW T, T \subseteq Nat, T # {}
  PROVE  \E x \in T : \A y \in T : x <= y
<1> DEFINE R == OpToRel(<, Nat)
<1>1. IsWellFoundedOn(R, Nat)
  BY NatLessThanWellFounded
<1>2. PICK x \in T : \A y \in T : <<y, x>> \notin R
  <2> HIDE DEF R
  <2> QED
    BY <1>1, WFMin
<1>3. \A y \in T : y < x => <<y, x>> \in R
  <2> SUFFICES ASSUME NEW y \in T, y < x PROVE <<y, x>> \in {ss \in Nat \X Nat : ss[1] < ss[2]}
    BY DEF OpToRel
  <2>1. <<y, x>> \in Nat \X Nat
    OBVIOUS
  <2> QED
    BY <2>1
<1>4. \A y \in T : ~(y < x)
  <2> HIDE DEF R
  <2> QED
    BY <1>2, <1>3
<1>5. \A y \in T : x <= y
  <2> SUFFICES ASSUME NEW y \in T PROVE x <= y
    OBVIOUS
  <2>1. x \in Nat /\ y \in Nat
    OBVIOUS
  <2> QED
    BY <1>4, <2>1
<1> QED
  BY <1>5

LEMMA NetworkTyped ==
  ASSUME NEW c \in Cidrs
  PROVE  Network(c).len \in 0..Bits /\ Network(c).ip \in Addrs /\ Contains(Network(c), Network(c).ip)
  BY SiteAssumption DEF Cidrs, Network, Addrs, Contains

\* Of two networks that share an address, the longer lies in the shorter: it is
\* enough to look for the base address of each in the other.
LEMMA SharedIffBase ==
  ASSUME NEW m, NEW n, m.len \in 0..Bits, n.len \in 0..Bits, m.ip \in Addrs, n.ip \in Addrs,
         Contains(m, m.ip), Contains(n, n.ip)
  PROVE  (\E a \in Addrs : Contains(m, a) /\ Contains(n, a)) <=> (Contains(m, n.ip) \/ Contains(n, m.ip))
<1>1. ASSUME NEW a \in Addrs, Contains(m, a), Contains(n, a)
      PROVE  Contains(m, n.ip) \/ Contains(n, m.ip)
  <2>1. CASE m.len <= n.len
    BY <1>1, <2>1, SiteAssumption DEF Contains
  <2>2. CASE n.len <= m.len
    BY <1>1, <2>2, SiteAssumption DEF Contains
  <2> QED
    BY <2>1, <2>2, SiteAssumption
<1> QED
  BY <1>1

\* Networks are intervals of addresses.
LEMMA NetworkConvex ==
  ASSUME NEW n, n.len \in 0..Bits, n.ip \in Addrs,
         NEW first \in Addrs, NEW a \in Addrs, NEW last \in Addrs,
         Contains(n, first), Contains(n, last), ~AddrLess(a, first), ~AddrLess(last, a)
  PROVE  Contains(n, a)
<1> SUFFICES ASSUME ~Contains(n, a) PROVE FALSE
  OBVIOUS
<1> DEFINE D == {i \in 1..n.len : a[i] # n.ip[i]}
<1>1. D # {} /\ D \subseteq Nat
  BY SiteAssumption DEF Contains
<1>2. PICK k \in D : \A i \in D : k <= i
  <2> HIDE DEF D
  <2> QED
    BY <1>1, LeastOf
<1>3. /\ k \in 1..n.len /\ k \in 1..Bits /\ a[k] # n.ip[k]
      /\ \A i \in 1..(k - 1) : i \in 1..n.len /\ a[i] = n.ip[i]
  BY <1>2, SiteAssumption
<1>4. /\ first[k] = n.ip[k] /\ last[k] = n.ip[k]
      /\ \A i \in 1..(k - 1) : first[i] = a[i] /\ last[i] = a[i]
  BY <1>3 DEF Contains
<1>5. a[k] \in {0, 1} /\ first[k] \in {0, 1} /\ last[k] \in {0, 1}
  BY <1>3 DEF Addrs
<1>6. a[k] < first[k] \/ last[k] < a[k]
  BY <1>3, <1>4, <1>5
<1> QED
  BY <1>3, <1>4, <1>6 DEF AddrLess

-----------------------------------------------------------------------------
(* What Validate reports *)

\* Only validateSubnetOverlaps speaks of overlaps.
LEMMA OverlapErrors ==
  ASSUME NEW c, NEW j
  PROVE  <<"overlap", j>> \in Validate(c) <=> <<"overlap", j>> \in validateSubnetOverlaps(c)
<1>1. <<"overlap", j>> \notin validateRequired(c)
  BY DEF Issues, validateRequired
<1>2. <<"overlap", j>> \notin validateInterfaces(c)
  BY DEF Issues, validateInterfaces
<1>3. <<"overlap", j>> \notin validateDHCP(c) /\ <<"overlap", j>> \notin validateDNS(c)
  BY DEF Issues, validateDHCP, validateDNS
<1>4. <<"overlap", j>> \notin validateFirewall(c) /\ <<"overlap", j>> \notin validatePBR(c)
  BY DEF Issues, validateFirewall, validatePBR
<1> QED
  BY <1>1, <1>2, <1>3, <1>4 DEF Validate

\* Looking for base addresses finds exactly the networks that share one.
LEMMA OverlapExact ==
  ASSUME NEW c, NEW j
  PROVE  <<"overlap", j>> \in Validate(c) <=>
           j \in StaticIfs(c) /\ \E i \in StaticIfs(c) : i < j /\ Shared(c, i, j)
<1>1. ASSUME j \in StaticIfs(c), NEW i \in StaticIfs(c)
      PROVE  Shared(c, i, j) <=> Contains(NetOf(c, i), NetOf(c, j).ip) \/ Contains(NetOf(c, j), NetOf(c, i).ip)
  <2>1. c.interfaces[i].address \in Cidrs /\ c.interfaces[j].address \in Cidrs
    BY <1>1 DEF StaticIfs
  <2> QED
    BY <2>1, NetworkTyped, SharedIffBase DEF Shared, NetOf
<1>2. <<"overlap", j>> \in validateSubnetOverlaps(c) <=>
        j \in StaticIfs(c) /\ \E i \in StaticIfs(c) : i < j /\ Shared(c, i, j)
  BY <1>1 DEF Issues, validateSubnetOverlaps
<1> QED
  BY <1>2, OverlapErrors

\* What a configuration without issues is like.
LEMMA ValidInterfaces ==
  ASSUME NEW c \in Configs, Validate(c) = {}
  PROVE  \A i \in DOMAIN c.interfaces :
           /\ c.interfaces[i].name # Unset /\ c.interfaces[i].device # Unset
           /\ c.interfaces[i].role \in {"wan", "lan"}
           /\ \A j \in DOMAIN c.interfaces : i # j =>
                /\ c.interfaces[i].name # c.interfaces[j].name
                /\ c.interfaces[i].device # c.interfaces[j].device
<1>1. validateInterfaces(c) = {}
  BY DEF Validate
<1>2. ASSUME NEW i \in DOMAIN c.interfaces
      PROVE  /\ c.interfaces[i].name # Unset /\ c.interfaces[i].device # Unset
             /\ c.interfaces[i].role \in {"wan", "lan"}
  <2>1. <<"name", i>> \notin validateInterfaces(c) /\ <<"device", i>> \notin validateInterfaces(c)
        /\ <<"role", i>> \notin validateInterfaces(c)
    BY <1>1
  <2> QED
    BY <2>1 DEF Issues, validateInterfaces
<1>3. ASSUME NEW i \in DOMAIN c.interfaces, NEW j \in DOMAIN c.interfaces, j < i
      PROVE  /\ c.interfaces[i].name # c.interfaces[j].name
             /\ c.interfaces[i].device # c.interfaces[j].device
  <2>1. <<"duplicate name", i>> \notin validateInterfaces(c)
        /\ <<"duplicate device", i>> \notin validateInterfaces(c)
    BY <1>1
  <2> QED
    BY <1>2, <1>3, <2>1
       DEF Issues, validateInterfaces, SharedDevices, Repeated
<1>4. \A i, j \in DOMAIN c.interfaces : i # j => i < j \/ j < i
  BY ConfigAssumption
<1> QED
  BY <1>2, <1>3, <1>4

\* Both ends of a pool lie in its subnet.
LEMMA ValidPools ==
  ASSUME NEW c, Validate(c) = {}, DhcpOn(c), NEW k \in DOMAIN c.dhcp.subnets
  PROVE  LET sub == c.dhcp.subnets[k] IN
         /\ sub.subnet \in Cidrs /\ sub.pool_start \in Addrs /\ sub.pool_end \in Addrs
         /\ Contains(Network(sub.subnet), sub.pool_start) /\ Contains(Network(sub.subnet), sub.pool_end)
<1>1. validateDHCP(c) = {}
  BY DEF Validate
<1>2. <<"subnet", k>> \notin validateDHCP(c) /\ <<"pool_start", k>> \notin validateDHCP(c)
      /\ <<"pool_end", k>> \notin validateDHCP(c)
  BY <1>1
<1>3. c.dhcp.subnets[k].subnet \in Cidrs
  BY <1>2 DEF validateDHCP, Issues
<1>4. ~BadPoolEnd(c.dhcp.subnets[k], c.dhcp.subnets[k].pool_start)
      /\ ~BadPoolEnd(c.dhcp.subnets[k], c.dhcp.subnets[k].pool_end)
  BY <1>2 DEF validateDHCP, Issues
<1> QED
  BY <1>3, <1>4 DEF BadPoolEnd

\* No two static interfaces share an address.
LEMMA ValidNetworks ==
  ASSUME NEW c \in Configs, Validate(c) = {}, NEW i \in StaticIfs(c), NEW j \in StaticIfs(c), i # j
  PROVE  ~Shared(c, i, j)
<1>1. i < j \/ j < i
  BY ConfigAssumption DEF StaticIfs
<1>2. <<"overlap", i>> \notin Validate(c) /\ <<"overlap", j>> \notin Validate(c)
  OBVIOUS
<1> QED
  BY <1>1, <1>2, OverlapExact DEF Shared

-----------------------------------------------------------------------------
(* The firewall *)

\* Names are unique: the last interface of a name is the only one.
LEMMA ByNameIs ==
  ASSUME NEW c \in Configs, Validate(c) = {}, NEW n, NEW i
  PROVE  i \in ByName(c, n) <=> i \in DOMAIN c.interfaces /\ c.interfaces[i].name = n
<1>1. \A j \in DOMAIN c.interfaces : j \in Nat
  BY ConfigAssumption
<1>2. ASSUME i \in DOMAIN c.interfaces, c.interfaces[i].name = n
      PROVE  \A j \in DOMAIN c.interfaces : c.interfaces[j].name = n => j <= i
  BY <1>1, <1>2, ValidInterfaces
<1> QED
  BY <1>2 DEF ByName

\* zoneDevices has the devices of the interfaces in a zone.
LEMMA ZoneDevicesAre ==
  ASSUME NEW c \in Configs, Validate(c) = {}, NEW z, NEW dev
  PROVE  /\ dev \in ZoneDevices(c, z) <=> AtZone(c, dev, z)
         /\ dev \in ZoneDevices(c, z) => dev # Unset
<1> DEFINE ks == {k \in DOMAIN c.firewall.zones : c.firewall.zones[k].name = z}
           ns(k) == UNION {ByName(c, n) : n \in c.firewall.zones[k].interfaces}
           is == UNION {ns(k) : k \in ks}
<1>1. \A i : i \in is <=> i \in DOMAIN c.interfaces /\ InZone(c, i, z)
  <2> SUFFICES ASSUME NEW i PROVE i \in is <=> i \in DOMAIN c.interfaces /\ InZone(c, i, z)
    OBVIOUS
  <2>1. \A k : i \in ns(k) <=> i \in DOMAIN c.interfaces /\ c.interfaces[i].name \in c.firewall.zones[k].interfaces
    BY ByNameIs
  <2> HIDE DEF ns
  <2> QED
    BY <2>1 DEF InZone
<1>2. ZoneDevices(c, z) = {c.interfaces[i].device : i \in is}
  BY DEF ZoneDevices, Devices
<1> HIDE DEF is
<1>3. dev \in ZoneDevices(c, z) <=> AtZone(c, dev, z)
  BY <1>1, <1>2 DEF AtZone
<1>4. AtZone(c, dev, z) => dev # Unset
  BY ValidInterfaces DEF AtZone
<1> QED
  BY <1>3, <1>4

\* A rule that is spelled out loses none of its conditions.
LEMMA ConditionsKept ==
  ASSUME NEW r, SpelledOut(r), NEW p
  PROVE  MeetsConditions(Conditions(r), p) <=> MeetsConditions(r, p)
<1>1. Conditions(r).protocol = r.protocol /\ Conditions(r).port = r.port /\ Conditions(r).source = r.source
  BY DEF SpelledOut, Conditions
<1> QED
  BY <1>1 DEF MeetsConditions

\* Line by line, the forward chain says what the rules say.
LEMMA ForwardLineOf ==
  ASSUME NEW c \in Configs, Validate(c) = {}, AllSpelledOut(c), NEW p
  PROVE  /\ \A k \in DOMAIN c.firewall.forward :
              ForwardRuleApplies(c, k, p) => \E l \in ForwardLines(c) : l.at = k /\ LineMatches(l, p)
         /\ \A l \in ForwardLines(c) :
              /\ l.at \in DOMAIN c.firewall.forward /\ l.action = c.firewall.forward[l.at].action
              /\ LineMatches(l, p) => ForwardRuleApplies(c, l.at, p)
<1> DEFINE rule(k) == c.firewall.forward[k]
           line(k, f, t) == buildForwardRule(k, f, t, rule(k))
<1>1. \A l : l \in ForwardLines(c) <=>
        \E k \in DOMAIN c.firewall.forward :
          \E f \in ZoneDevices(c, rule(k).from), t \in ZoneDevices(c, rule(k).to) : l = line(k, f, t)
  BY DEF ForwardLines
<1>2. ASSUME NEW k \in DOMAIN c.firewall.forward, NEW f, NEW t, t # Unset
      PROVE  /\ line(k, f, t).at = k /\ line(k, f, t).action = rule(k).action
             /\ LineMatches(line(k, f, t), p) <=>
                  f = p.iif /\ t = p.oif /\ MeetsConditions(rule(k), p) /\ Within(rule(k).dest, p.dst)
  <2>1. MeetsConditions(Conditions(rule(k)), p) <=> MeetsConditions(rule(k), p)
    BY <1>2, ConditionsKept DEF AllSpelledOut
  <2> QED
    BY <1>2, <2>1 DEF buildForwardRule, LineMatches
<1> HIDE DEF line
<1>3. ASSUME NEW k \in DOMAIN c.firewall.forward, ForwardRuleApplies(c, k, p)
      PROVE  \E l \in ForwardLines(c) : l.at = k /\ LineMatches(l, p)
  <2>1. p.iif \in ZoneDevices(c, rule(k).from) /\ p.oif \in ZoneDevices(c, rule(k).to) /\ p.oif # Unset
    BY <1>3, ZoneDevicesAre DEF ForwardRuleApplies
  <2>2. LineMatches(line(k, p.iif, p.oif), p) /\ line(k, p.iif, p.oif).at = k
    BY <1>2, <1>3, <2>1 DEF ForwardRuleApplies
  <2> QED
    BY <1>1, <2>1, <2>2
<1>4. ASSUME NEW l \in ForwardLines(c)
      PROVE  /\ l.at \in DOMAIN c.firewall.forward /\ l.action = c.firewall.forward[l.at].action
             /\ LineMatches(l, p) => ForwardRuleApplies(c, l.at, p)
  <2>1. PICK k \in DOMAIN c.firewall.forward :
          \E f \in ZoneDevices(c, rule(k).from), t \in ZoneDevices(c, rule(k).to) : l = line(k, f, t)
    BY <1>1
  <2>2. PICK f \in ZoneDevices(c, rule(k).from), t \in ZoneDevices(c, rule(k).to) : l = line(k, f, t)
    BY <2>1
  <2>3. AtZone(c, f, rule(k).from) /\ AtZone(c, t, rule(k).to) /\ t # Unset
    BY ZoneDevicesAre
  <2> QED
    BY <1>2, <2>2, <2>3 DEF ForwardRuleApplies
<1> QED
  BY <1>3, <1>4

LEMMA InputLineOf ==
  ASSUME NEW c \in Configs, Validate(c) = {}, AllSpelledOut(c), NEW p
  PROVE  /\ \A k \in DOMAIN c.firewall.input :
              InputRuleApplies(c, k, p) => \E l \in InputLines(c) : l.at = k /\ LineMatches(l, p)
         /\ \A l \in InputLines(c) :
              /\ l.at \in DOMAIN c.firewall.input /\ l.action = c.firewall.input[l.at].action
              /\ LineMatches(l, p) => InputRuleApplies(c, l.at, p)
<1> DEFINE rule(k) == c.firewall.input[k]
           line(k, d) == buildInputRule(k, d, rule(k))
<1>1. \A l : l \in InputLines(c) <=>
        \E k \in DOMAIN c.firewall.input : \E d \in ZoneDevices(c, rule(k).zone) : l = line(k, d)
  BY DEF InputLines
<1>2. ASSUME NEW k \in DOMAIN c.firewall.input, NEW d
      PROVE  /\ line(k, d).at = k /\ line(k, d).action = rule(k).action
             /\ LineMatches(line(k, d), p) <=> d = p.iif /\ MeetsConditions(rule(k), p)
  <2>1. MeetsConditions(Conditions(rule(k)), p) <=> MeetsConditions(rule(k), p)
    BY <1>2, ConditionsKept DEF AllSpelledOut
  <2> QED
    BY <1>2, <2>1 DEF buildInputRule, LineMatches, Within
<1> HIDE DEF line
<1>3. ASSUME NEW k \in DOMAIN c.firewall.input, InputRuleApplies(c, k, p)
      PROVE  \E l \in InputLines(c) : l.at = k /\ LineMatches(l, p)
  <2>1. p.iif \in ZoneDevices(c, rule(k).zone)
    BY <1>3, ZoneDevicesAre DEF InputRuleApplies
  <2>2. LineMatches(line(k, p.iif), p) /\ line(k, p.iif).at = k
    BY <1>2, <1>3 DEF InputRuleApplies
  <2> QED
    BY <1>1, <2>1, <2>2
<1>4. ASSUME NEW l \in InputLines(c)
      PROVE  /\ l.at \in DOMAIN c.firewall.input /\ l.action = c.firewall.input[l.at].action
             /\ LineMatches(l, p) => InputRuleApplies(c, l.at, p)
  <2>1. PICK k \in DOMAIN c.firewall.input : \E d \in ZoneDevices(c, rule(k).zone) : l = line(k, d)
    BY <1>1
  <2>2. PICK d \in ZoneDevices(c, rule(k).zone) : l = line(k, d)
    BY <2>1
  <2>3. AtZone(c, d, rule(k).zone)
    BY ZoneDevicesAre
  <2> QED
    BY <1>2, <2>2, <2>3 DEF InputRuleApplies
<1> QED
  BY <1>3, <1>4

-----------------------------------------------------------------------------
(* The commands *)

ServiceNames == {"sysctl", "frr", "nftables", "kea", "unbound"}

\* Only a configuration that passed Validate is rendered or monitored, and what
\* is there has been rendered from the one that is loaded.
SiteInv ==
  /\ phase \in {"accepted", "rejected"} => errs = Validate(cfg)
  /\ phase \in {"loaded", "accepted", "rejected", "rendering", "monitoring"} => cfg \in Configs
  /\ phase \in {"accepted", "rendering", "monitoring"} => Validate(cfg) = {}
  /\ phase = "monitoring" => tracked = RoutesVia(cfg, MonitorUplinks(cfg))
  /\ DOMAIN out = ServiceNames
  /\ phase # "rendering" => \A s \in ServiceNames : out[s] = Unset
  /\ out["frr"] \in {Unset, FrrRender(cfg)}
  /\ out["nftables"] \in {Unset, NftRender(cfg)}
  /\ out["kea"] \in {Unset, KeaRender(cfg)}
  /\ out["unbound"] \in {Unset, UnboundRender(cfg)}

LEMMA NothingRenderedYet ==
  DOMAIN NothingRendered = ServiceNames /\ \A s \in ServiceNames : NothingRendered[s] = Unset
<1>1. {Services[i] : i \in DOMAIN Services} = ServiceNames
  <2>1. DOMAIN Services = {1, 2, 3, 4, 5}
    BY DEF Services
  <2>2. Services[1] = "sysctl" /\ Services[2] = "frr" /\ Services[3] = "nftables"
        /\ Services[4] = "kea" /\ Services[5] = "unbound"
    BY DEF Services
  <2> QED
    BY <2>1, <2>2 DEF ServiceNames
<1> QED
  BY <1>1 DEF NothingRendered

LEMMA SiteInitially == SiteInit => SiteInv
  BY NothingRenderedYet DEF SiteInit, SiteInv, ServiceNames

LEMMA SiteStep == SiteInv /\ [SiteNext]_siteVars => SiteInv'
<1> SUFFICES ASSUME SiteInv, [SiteNext]_siteVars PROVE SiteInv'
  OBVIOUS
<1>1. ASSUME NEW command \in {"validate", "apply", "monitor"}, NEW c \in Configs, Load(command, c)
      PROVE  SiteInv'
  BY <1>1 DEF Load, SiteInv, ServiceNames
<1>2. CASE Check
  BY <1>2 DEF Check, SiteInv, ServiceNames
<1>3. CASE RenderStep
  <2> DEFINE Keeps(s, text) ==
        /\ phase \in {"accepted", "rendering"} /\ phase' = "rendering"
        /\ out' = [out EXCEPT ![s] = text]
        /\ UNCHANGED <<cfg, cmd, errs, tracked>>
  <2>1. PICK s, text :
          /\ Keeps(s, text) /\ s \in ServiceNames
          /\ s = "frr" => text = FrrRender(cfg)
          /\ s = "nftables" => text = NftRender(cfg)
          /\ s = "kea" => text = KeaRender(cfg)
          /\ s = "unbound" => text = UnboundRender(cfg)
    BY <1>3 DEF RenderStep, Render, ServiceNames
  <2>2. DOMAIN out' = ServiceNames /\ \A t \in ServiceNames : out'[t] = IF t = s THEN text ELSE out[t]
    BY <2>1 DEF SiteInv
  <2> QED
    BY <2>1, <2>2 DEF SiteInv, ServiceNames
<1>4. CASE SetUpMonitor
  BY <1>4 DEF SetUpMonitor, SiteInv, ServiceNames
<1>5. CASE End
  BY <1>5, NothingRenderedYet DEF End, SiteInv, ServiceNames
<1>6. CASE UNCHANGED siteVars
  BY <1>6 DEF siteVars, SiteInv
<1> QED
  BY <1>1, <1>2, <1>3, <1>4, <1>5, <1>6 DEF SiteNext

-----------------------------------------------------------------------------
(* Theorems *)

\* validateSubnetOverlaps is exact for addresses of any length.
THEOREM OverlapCheckExact == SiteSpec => []OverlapIsExact
<1>1. SiteInv => OverlapIsExact
  BY OverlapExact DEF SiteInv, OverlapIsExact
<1> QED
  BY <1>1, SiteInitially, SiteStep, PTL DEF SiteSpec

\* Kea leases no address outside the subnet of its pool.
THEOREM LeasesStayInside == SiteSpec => []LeasesInsideSubnet
<1>1. SiteInv => LeasesInsideSubnet
  <2> SUFFICES ASSUME SiteInv, out["kea"] # Unset, NEW k \in DOMAIN out["kea"].subnets,
                      NEW a \in Leases(out["kea"].subnets[k])
               PROVE  Contains(Network(out["kea"].subnets[k].subnet), a)
    BY DEF LeasesInsideSubnet
  <2>1. out["kea"] = KeaRender(cfg) /\ Validate(cfg) = {}
    BY DEF SiteInv, ServiceNames
  <2>2. DhcpOn(cfg)
    BY <2>1 DEF KeaRender, renderDefault
  <2> DEFINE sub == cfg.dhcp.subnets[k]
             s == out["kea"].subnets[k]
  <2>3. k \in DOMAIN cfg.dhcp.subnets
    BY <2>1, <2>2 DEF KeaRender, renderDefault
  <2>4. s = KeaSubnet(cfg, k)
    BY <2>1, <2>2, <2>3 DEF KeaRender, renderDefault
  <2>5. /\ s.subnet = sub.subnet
        /\ a \in Addrs /\ ~AddrLess(a, sub.pool_start) /\ ~AddrLess(sub.pool_end, a)
    BY <2>4 DEF Leases, KeaSubnet
  <2>6. /\ sub.subnet \in Cidrs /\ sub.pool_start \in Addrs /\ sub.pool_end \in Addrs
        /\ Contains(Network(sub.subnet), sub.pool_start) /\ Contains(Network(sub.subnet), sub.pool_end)
    BY <2>1, <2>2, <2>3, ValidPools
  <2>7. Network(sub.subnet).len \in 0..Bits /\ Network(sub.subnet).ip \in Addrs
    BY <2>6, NetworkTyped
  <2> HIDE DEF sub
  <2>8. Contains(Network(sub.subnet), a)
    BY <2>5, <2>6, <2>7, NetworkConvex
  <2> QED
    BY <2>5, <2>8
<1> QED
  BY <1>1, SiteInitially, SiteStep, PTL DEF SiteSpec

\* The monitor begins with the routes that FRR was given, one for each uplink.
THEOREM MonitorStartsRight == SiteSpec => []MonitorMatchesFrr
<1>1. SiteInv => MonitorMatchesFrr
  <2> SUFFICES ASSUME SiteInv, phase = "monitoring" PROVE MonitorMatchesFrr
    BY DEF MonitorMatchesFrr
  <2>1. tracked = RoutesVia(cfg, MonitorUplinks(cfg)) /\ cfg \in Configs /\ Validate(cfg) = {}
    BY DEF SiteInv
  <2>2. MonitorUplinks(cfg) = GatedWans(cfg) /\ ControllerUplinks(cfg) = MonitorUplinks(cfg)
    BY DEF MonitorUplinks, ControllerUplinks, GatedWans, WanIfs
  <2>3. tracked = DefaultRoutes(FrrRender(cfg))
    <3>1. CASE EcmpOn(cfg)
      BY <2>1, <2>2, <3>1 DEF DefaultRoutes, FrrRender
    <3>2. CASE ~EcmpOn(cfg)
      BY <2>1, <2>2, <3>2 DEF DefaultRoutes, FrrRender
    <3> QED
      BY <3>1, <3>2
  <2>4. MonitorUplinks(cfg) \subseteq DOMAIN cfg.interfaces
    BY DEF MonitorUplinks
  <2> QED
    BY <2>1, <2>2, <2>3, <2>4, ValidInterfaces DEF MonitorMatchesFrr
<1> QED
  BY <1>1, SiteInitially, SiteStep, PTL DEF SiteSpec

\* nft decides about every new packet as the zone rules of site.yaml do.
THEOREM FirewallFaithful == SiteSpec => []FirewallFollowsRules
<1>1. SiteInv => FirewallFollowsRules
  <2> SUFFICES ASSUME SiteInv, out["nftables"] # Unset, cfg.firewall # Unset, AllSpelledOut(cfg),
                      NEW p \in Packets, ~p.established
               PROVE  LET Forwards(k) == ForwardRuleApplies(cfg, k, p)
                          Admits(k) == InputRuleApplies(cfg, k, p)
                      IN  /\ ForwardChain(out["nftables"], p) <=> RulesAllow(cfg.firewall.forward, Forwards)
                          /\ InputChain(out["nftables"], p)
                               <=> BuiltIn(p) \/ RulesAllow(cfg.firewall.input, Admits)
    BY DEF FirewallFollowsRules
  <2>1. out["nftables"] = NftRender(cfg) /\ cfg \in Configs /\ Validate(cfg) = {}
    BY DEF SiteInv, ServiceNames
  <2>2. out["nftables"].forward = ForwardLines(cfg) /\ out["nftables"].input = InputLines(cfg)
    BY <2>1 DEF NftRender
  <2>3. Accepts(ForwardLines(cfg), p) <=>
          \E k \in DOMAIN cfg.firewall.forward :
            /\ ForwardRuleApplies(cfg, k, p) /\ cfg.firewall.forward[k].action = "accept"
            /\ \A j \in DOMAIN cfg.firewall.forward : ForwardRuleApplies(cfg, j, p) => k <= j
    BY <2>1, ForwardLineOf DEF Accepts
  <2>4. Accepts(InputLines(cfg), p) <=>
          \E k \in DOMAIN cfg.firewall.input :
            /\ InputRuleApplies(cfg, k, p) /\ cfg.firewall.input[k].action = "accept"
            /\ \A j \in DOMAIN cfg.firewall.input : InputRuleApplies(cfg, j, p) => k <= j
    BY <2>1, InputLineOf DEF Accepts
  <2> QED
    BY <2>2, <2>3, <2>4 DEF ForwardChain, InputChain, RulesAllow
<1> QED
  BY <1>1, SiteInitially, SiteStep, PTL DEF SiteSpec

\* Without firewall rules, what comes in from a WAN is not forwarded.
THEOREM WanKeptOut == SiteSpec => []DefaultKeepsWanOut
<1>1. SiteInv => DefaultKeepsWanOut
  <2> SUFFICES ASSUME SiteInv, out["nftables"] # Unset, cfg.firewall = Unset,
                      NEW p \in Packets, ~p.established, p.iif \in Devices(cfg, DOMAIN cfg.interfaces)
               PROVE  ForwardChain(out["nftables"], p) <=> p.iif \notin out["nftables"].masquerade
    BY DEF DefaultKeepsWanOut
  <2>1. out["nftables"] = NftRender(cfg) /\ cfg \in Configs /\ Validate(cfg) = {}
    BY DEF SiteInv, ServiceNames
  <2>2. out["nftables"].forward = DefaultForward(cfg) /\ out["nftables"].masquerade = Devices(cfg, WanIfs(cfg))
    BY <2>1 DEF NftRender
  <2>3. PICK i \in DOMAIN cfg.interfaces : cfg.interfaces[i].device = p.iif
    BY DEF Devices
  <2>4. p.iif \notin Devices(cfg, WanIfs(cfg)) <=> i \in LanIfs(cfg)
    BY <2>1, <2>3, ValidInterfaces DEF Devices, WanIfs, LanIfs
  <2> DEFINE line(j) == [at |-> j, iif |-> cfg.interfaces[j].device, oif |-> Unset, match |-> Anything,
                         dest |-> Unset, action |-> "accept"]
  <2>5. \A j \in LanIfs(cfg) : LineMatches(line(j), p) <=> j = i
    BY <2>1, <2>3, ValidInterfaces DEF LineMatches, Anything, MeetsConditions, Within, LanIfs
  <2>6. DefaultForward(cfg) = {line(j) : j \in LanIfs(cfg)}
    BY DEF DefaultForward
  <2>7. \A j \in LanIfs(cfg) : line(j).at = j /\ line(j).action = "accept" /\ j \in Nat
    BY <2>1, ConfigAssumption DEF LanIfs
  <2> HIDE DEF line
  <2>8. Accepts(DefaultForward(cfg), p) <=> i \in LanIfs(cfg)
    BY <2>5, <2>6, <2>7 DEF Accepts
  <2> QED
    BY <2>2, <2>4, <2>8 DEF ForwardChain
<1> QED
  BY <1>1, SiteInitially, SiteStep, PTL DEF SiteSpec

\* The resolver serves every LAN and no network of a WAN.
THEOREM ResolverFaithful == SiteSpec => []ResolverServesLansOnly
<1>1. SiteInv => ResolverServesLansOnly
  <2> SUFFICES ASSUME SiteInv, out["unbound"] # Unset, DefaultResolver(cfg),
                      NEW i \in StaticIfs(cfg), NEW a \in Addrs, Contains(NetOf(cfg, i), a)
               PROVE  IF i \in LanIfs(cfg) THEN Answers(out["unbound"], a, cfg.interfaces[i].address.ip)
                      ELSE \A to \in Addrs : ~Answers(out["unbound"], a, to)
    BY DEF ResolverServesLansOnly
  <2>1. out["unbound"] = UnboundRender(cfg) /\ cfg \in Configs /\ Validate(cfg) = {}
    BY DEF SiteInv, ServiceNames
  <2>2. AllowFrom(cfg) = {NetOf(cfg, j) : j \in StaticLans(cfg)}
    BY DEF DefaultResolver, AllowFrom
  <2>3. /\ out["unbound"].allow = {NetOf(cfg, j) : j \in StaticLans(cfg)}
        /\ out["unbound"].listen = {cfg.interfaces[j].address.ip : j \in StaticLans(cfg)}
    BY <2>1, <2>2 DEF DefaultResolver, UnboundRender
  <2>4. CASE i \in LanIfs(cfg)
    BY <2>3, <2>4 DEF Answers, StaticLans
  <2>5. CASE i \notin LanIfs(cfg)
    <3>1. \A j \in StaticLans(cfg) : ~Contains(NetOf(cfg, j), a)
      BY <2>1, <2>5, ValidNetworks DEF StaticLans, Shared
    <3> QED
      BY <2>3, <2>5, <3>1 DEF Answers
  <2> QED
    BY <2>4, <2>5
<1> QED
  BY <1>1, SiteInitially, SiteStep, PTL DEF SiteSpec

\* Policy rules listed by priority take effect by priority.
THEOREM PbrFaithfulIfSorted == SiteSpec => []PbrFollowsPriorityIfSorted
<1>1. SiteInv => PbrFollowsPriorityIfSorted
  <2> DEFINE Entry(k, i) == [seq |-> k * 10, src |-> cfg.pbr[k].source,
                             nexthop |-> cfg.interfaces[i].gateway, device |-> cfg.interfaces[i].device]
  <2> SUFFICES ASSUME SiteInv, out["frr"] # Unset,
                      \A j, k \in DOMAIN cfg.pbr : j < k => cfg.pbr[j].priority <= cfg.pbr[k].priority,
                      NEW a \in Addrs, NEW m \in out["frr"].pbr, TakesFirst(out["frr"].pbr, a, m)
               PROVE  \E k \in SteeredBy(cfg, a) : m.device = DeviceNamed(cfg, cfg.pbr[k].interface)
    BY DEF PbrFollowsPriorityIfSorted, PbrFollowsPriority
  <2>1. out["frr"] = FrrRender(cfg) /\ cfg \in Configs /\ Validate(cfg) = {}
    BY DEF SiteInv, ServiceNames
  <2>2. out["frr"].pbr = PbrMaps(cfg)
    BY <2>1 DEF FrrRender
  <2>3. \A n : n \in PbrMaps(cfg) <=>
          \E k \in DOMAIN cfg.pbr : \E i \in ByName(cfg, cfg.pbr[k].interface) : n = Entry(k, i)
    BY DEF PbrMaps
  <2>4. PICK k \in DOMAIN cfg.pbr : \E i \in ByName(cfg, cfg.pbr[k].interface) : m = Entry(k, i)
    BY <2>2, <2>3
  <2>5. PICK i \in ByName(cfg, cfg.pbr[k].interface) : m = Entry(k, i)
    BY <2>4
  <2>6. m.device = DeviceNamed(cfg, cfg.pbr[k].interface)
    <3>1. \A j \in ByName(cfg, cfg.pbr[k].interface) : j = i
      BY <2>1, ByNameIs, ValidInterfaces
    <3>2. (CHOOSE j \in ByName(cfg, cfg.pbr[k].interface) : TRUE) = i
      BY <3>1
    <3>3. DeviceNamed(cfg, cfg.pbr[k].interface) = cfg.interfaces[i].device
      BY <3>2, Zenon DEF DeviceNamed
    <3> QED
      BY <2>5, <3>3
  <2> DEFINE Matches(j) ==
        /\ \E h \in ByName(cfg, cfg.pbr[j].interface) : cfg.interfaces[h].gateway # Unset
        /\ cfg.pbr[j].source # Unset /\ Within(cfg.pbr[j].source, a)
  <2>7. Matches(k)
    BY <2>2, <2>5 DEF TakesFirst, Matching, Within
  <2>8. ASSUME NEW j \in DOMAIN cfg.pbr, Matches(j)
        PROVE  cfg.pbr[k].priority <= cfg.pbr[j].priority
    <3>1. PICK h \in ByName(cfg, cfg.pbr[j].interface) : cfg.interfaces[h].gateway # Unset
      BY <2>8
    <3> DEFINE n == Entry(j, h)
    <3>2. n.seq = j * 10 /\ n.src = cfg.pbr[j].source /\ n.nexthop = cfg.interfaces[h].gateway
      OBVIOUS
    <3>3. n \in out["frr"].pbr
      BY <2>2, <2>3
    <3> HIDE DEF n
    <3>5. n \in Matching(out["frr"].pbr, a)
      BY <2>8, <3>1, <3>2, <3>3 DEF Matching, Within
    <3>6. m.seq = k * 10 /\ m.seq <= n.seq
      BY <2>5, <3>5 DEF TakesFirst
    <3>4. k \in Nat /\ j \in Nat /\ cfg.pbr[k].priority \in Int /\ cfg.pbr[j].priority \in Int
      BY <2>1, ConfigAssumption
    <3> QED
      BY <3>2, <3>4, <3>6
  <2>9. k \in SteeredBy(cfg, a)
    BY <2>7, <2>8 DEF SteeredBy
  <2> QED
    BY <2>6, <2>9
<1> QED
  BY <1>1, SiteInitially, SiteStep, PTL DEF SiteSpec
=============================================================================
