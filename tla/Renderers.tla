------------------------------ MODULE Renderers ------------------------------
(* internal/services: what each renderer puts into its service's              *)
(* configuration, and what the service (external) makes of it as far as a     *)
(* property asks.  Text, comments and fixed settings are left out.  Lines     *)
(* whose order matters carry their position; the lines that one rule of the   *)
(* firewall expands to differ only in their devices and share a position.     *)
EXTENDS SiteConfig, FiniteSets

WanIfs(c) == {i \in DOMAIN c.interfaces : c.interfaces[i].role = "wan"}
LanIfs(c) == {i \in DOMAIN c.interfaces : c.interfaces[i].role = "lan"}
Devices(c, S) == {c.interfaces[i].device : i \in S}

\* ifaceByName[n], if there is one: the last interface of that name.
ByName(c, n) ==
  {i \in DOMAIN c.interfaces :
     c.interfaces[i].name = n /\ \A j \in DOMAIN c.interfaces : c.interfaces[j].name = n => j <= i}

-----------------------------------------------------------------------------
(* sysctl *)

SysctlRender(c) == IF c.conntrack_max > 0 THEN c.conntrack_max ELSE 262144

-----------------------------------------------------------------------------
(* FRR *)

GatedWans(c) == {i \in WanIfs(c) : c.interfaces[i].gateway # Unset}
Gateways(c, S) == {c.interfaces[i].gateway : i \in S}
RoutesVia(c, S) == {<<c.interfaces[i].gateway, c.interfaces[i].device>> : i \in S}

\* "ip route 0.0.0.0/0", with ECMP or as static routes: the same lines.
EcmpOn(c) == c.ecmp /\ Cardinality(WanIfs(c)) > 1

\* Mutant of PbrMaps: later rules get lower sequence numbers.
PbrReversed(c) ==
  UNION {{[seq |-> (Len(c.pbr) - k) * 10, src |-> c.pbr[k].source,
           nexthop |-> c.interfaces[i].gateway, device |-> c.interfaces[i].device] :
            i \in ByName(c, c.pbr[k].interface)} : k \in DOMAIN c.pbr}

\* pbr-map entries: rules whose interface is not found are skipped.
PbrMaps(c) ==
  UNION {{[seq |-> k * 10, src |-> c.pbr[k].source,
           nexthop |-> c.interfaces[i].gateway, device |-> c.interfaces[i].device] :
            i \in ByName(c, c.pbr[k].interface)} : k \in DOMAIN c.pbr}

FrrRender(c) ==
  [ hostname |-> c.hostname,
    static   |-> IF EcmpOn(c) THEN {} ELSE RoutesVia(c, GatedWans(c)),
    nexthops |-> IF EcmpOn(c) THEN RoutesVia(c, GatedWans(c)) ELSE {},
    pbr      |-> PbrMaps(c),
    policies |-> IF PbrMaps(c) = {} THEN {} ELSE Devices(c, LanIfs(c)),
    bfd      |-> Gateways(c, GatedWans(c)) ]

\* FRR merges equal-cost routes, however they were listed.
DefaultRoutes(frr) == frr.static \union frr.nexthops

\* pbrd (external): packets from src take the first entry that matches.  An
\* entry without a source or a next hop is an incomplete command.
Matching(maps, src) ==
  {m \in maps : m.src # Unset /\ m.nexthop # Unset /\ Contains(Network(m.src), src)}
TakesFirst(maps, src, m) ==
  m \in Matching(maps, src) /\ \A n \in Matching(maps, src) : m.seq <= n.seq

-----------------------------------------------------------------------------
(* nftables *)

\* zoneDevices[z]: the devices of every zone of that name.
ZoneDevices(c, z) ==
  Devices(c, UNION {UNION {ByName(c, n) : n \in c.firewall.zones[k].interfaces} :
                      k \in {k \in DOMAIN c.firewall.zones : c.firewall.zones[k].name = z}})

\* The conditions that buildForwardRule and buildInputRule render: a port only
\* together with its protocol.
Conditions(r) ==
  [protocol |-> r.protocol, port |-> IF r.protocol # Unset THEN r.port ELSE Unset, source |-> r.source]

\* Mutant of buildForwardRule: the devices change places.
buildBackward(k, from, to, r) ==
  [at |-> k, iif |-> to, oif |-> from, match |-> Conditions(r), dest |-> r.dest, action |-> r.action]

buildForwardRule(k, from, to, r) ==
  [at |-> k, iif |-> from, oif |-> to, match |-> Conditions(r), dest |-> r.dest, action |-> r.action]

buildInputRule(k, dev, r) ==
  [at |-> k, iif |-> dev, oif |-> Unset, match |-> Conditions(r), dest |-> Unset, action |-> r.action]

Anything == [protocol |-> Unset, port |-> Unset, source |-> Unset]

\* Without a firewall section everything that comes from a LAN is forwarded.
DefaultForward(c) ==
  {[at |-> i, iif |-> c.interfaces[i].device, oif |-> Unset, match |-> Anything,
    dest |-> Unset, action |-> "accept"] : i \in LanIfs(c)}

ForwardLines(c) ==
  UNION {LET r == c.firewall.forward[k] IN
         {buildForwardRule(k, f, t, r) : f \in ZoneDevices(c, r.from), t \in ZoneDevices(c, r.to)} :
           k \in DOMAIN c.firewall.forward}

InputLines(c) ==
  UNION {LET r == c.firewall.input[k] IN {buildInputRule(k, d, r) : d \in ZoneDevices(c, r.zone)} :
           k \in DOMAIN c.firewall.input}

NftRender(c) ==
  [ forward    |-> IF c.firewall = Unset THEN DefaultForward(c) ELSE ForwardLines(c),
    input      |-> IF c.firewall = Unset THEN {} ELSE InputLines(c),
    masquerade |-> Devices(c, WanIfs(c)) ]

\* nft (external): whether a line matches a packet, and the first that does
\* decides.  Both chains drop what no line accepts.
Within(cidr, a) == cidr = Unset \/ Contains(Network(cidr), a)
MeetsConditions(m, p) ==
  m.protocol \in {Unset, p.protocol} /\ m.port \in {Unset, p.port} /\ Within(m.source, p.src)
LineMatches(l, p) ==
  /\ l.iif = p.iif
  /\ l.oif \in {Unset, p.oif}
  /\ MeetsConditions(l.match, p)
  /\ Within(l.dest, p.dst)
Accepts(lines, p) ==
  \E l \in lines : LineMatches(l, p) /\ l.action = "accept"
    /\ \A m \in lines : LineMatches(m, p) => l.at <= m.at

\* The services every packet to the router may reach, ahead of the input rules.
AlwaysAllowed == {<<"tcp", "22">>, <<"udp", "67">>, <<"udp", "68">>, <<"tcp", "53">>, <<"udp", "53">>,
                  <<"tcp", "179">>, <<"udp", "3784">>, <<"udp", "3785">>, <<"udp", "4784">>}
BuiltIn(p) == p.protocol = "icmp" \/ <<p.protocol, p.port>> \in AlwaysAllowed

ForwardChain(nft, p) == p.established \/ Accepts(nft.forward, p)
InputChain(nft, p) == p.established \/ BuiltIn(p) \/ Accepts(nft.input, p)

-----------------------------------------------------------------------------
(* Kea *)

\* The first of at most one device, Unset if there is none.
DeviceNamed(c, n) ==
  IF ByName(c, n) = {} THEN Unset ELSE c.interfaces[CHOOSE i \in ByName(c, n) : TRUE].device

KeaSubnet(c, i) ==
  LET sub == c.dhcp.subnets[i] IN
  [ id |-> i, subnet |-> sub.subnet,
    pool |-> [first |-> sub.pool_start, last |-> sub.pool_end],
    interface |-> DeviceNamed(c, sub.interface),
    lifetime |-> IF sub.lease_time > 0 THEN sub.lease_time ELSE 3600,
    routers |-> sub.gateway, servers |-> sub.dns_servers ]

\* The configuration of a server that is switched off.
renderDefault == [interfaces |-> {}, subnets |-> <<>>]

\* Kea listens on the devices of its subnets.
KeaRender(c) ==
  IF ~DhcpOn(c) THEN renderDefault ELSE
  [ interfaces |-> {DeviceNamed(c, c.dhcp.subnets[i].interface) : i \in DOMAIN c.dhcp.subnets} \ {Unset},
    subnets |-> [i \in DOMAIN c.dhcp.subnets |-> KeaSubnet(c, i)] ]

\* What Kea (external) may lease from a subnet.
Leases(s) ==
  {a \in Addrs : ~AddrLess(a, s.pool.first) /\ ~AddrLess(s.pool.last, a)}

-----------------------------------------------------------------------------
(* Unbound *)

StaticLans(c) == LanIfs(c) \cap StaticIfs(c)

\* Mutant of AllowFrom: the subnets of all interfaces are allowed.
AllowAll(c) ==
  IF c.dns # Unset /\ c.dns.allow_from # {} THEN {Network(n) : n \in c.dns.allow_from}
  ELSE {NetOf(c, i) : i \in StaticIfs(c)}

AllowFrom(c) ==
  IF c.dns # Unset /\ c.dns.allow_from # {} THEN {Network(n) : n \in c.dns.allow_from}
  ELSE {NetOf(c, i) : i \in StaticLans(c)}

\* Loopback is always allowed to ask, and listened on unless listen is set.  A
\* disabled resolver gets a file without settings: Unbound's own defaults.
UnboundRender(c) ==
  IF c.dns # Unset /\ ~c.dns.enabled
  THEN [loopback |-> TRUE, listen |-> {}, allow |-> {}, forwarders |-> {}] ELSE
  [ loopback |-> c.dns = Unset \/ c.dns.listen = {},
    listen |-> IF c.dns # Unset /\ c.dns.listen # {} THEN c.dns.listen
               ELSE {c.interfaces[i].address.ip : i \in StaticLans(c)},
    allow |-> AllowFrom(c),
    forwarders |-> IF c.dns = Unset THEN {} ELSE c.dns.forwarders ]

\* Unbound (external) answers a question sent to one of its addresses.
Answers(unbound, from, to) ==
  to \in unbound.listen /\ \E n \in unbound.allow : Contains(n, from)
=============================================================================
