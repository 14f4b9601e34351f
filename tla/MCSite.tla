------------------------------- MODULE MCSite -------------------------------
(* Addresses of three bits.  The documents vary one section at a time around  *)
(* a site with two uplinks (one of them without a gateway in some) and two    *)
(* LANs, and each section far enough to be rejected for every reason.         *)
EXTENDS SiteCommands

A(x, y, z) == <<x, y, z>>
Net(x, y, z, n) == [ip |-> A(x, y, z), len |-> n]

Interface(name, role, device, address, gateway, vlan) ==
  [name |-> name, role |-> role, device |-> device, address |-> address,
   gateway |-> gateway, vlan |-> vlan]
Wan1(gw) == Interface("wan1", "wan", "eth0", Net(0, 0, 1, 2), gw, 0)
Wan2(gw) == Interface("wan2", "wan", "eth1", Dhcp, gw, 0)
Lan1 == Interface("lan1", "lan", "eth2", Net(1, 1, 1, 2), Unset, 0)
Lan2 == Interface("lan2", "lan", "eth2.5", Net(0, 1, 0, 2), Unset, 5)
Base == <<Wan1(A(0, 0, 0)), Wan2(A(1, 0, 0)), Lan1, Lan2>>

Site(interfaces) ==
  [hostname |-> "site", interfaces |-> interfaces, dhcp |-> Unset, dns |-> Unset,
   firewall |-> Unset, ecmp |-> FALSE, pbr |-> <<>>, conntrack_max |-> 0]

-----------------------------------------------------------------------------
(* Interfaces *)

\* Two networks of every position and length, three of a few.
Overlaps ==
  {Site(<<[Wan1(Unset) EXCEPT !.address = a], [Lan1 EXCEPT !.address = b]>>) :
     a, b \in Cidrs \union {Unset, Bad, Dhcp}}
  \union
  {Site(<<[Wan1(Unset) EXCEPT !.address = a], [Lan1 EXCEPT !.address = b], [Lan2 EXCEPT !.address = d]>>) :
     a, b, d \in {Net(1, 0, 1, 1), Net(1, 1, 0, 2), Net(1, 1, 1, 3), Net(0, 1, 0, 2), Dhcp}}

\* Names, devices, roles and gateways of two interfaces next to a third.
Named ==
  LET Some == {Interface(n, r, d, Dhcp, g, 0) : n \in {"wan1", "b", Unset}, r \in {"wan", "lan"},
                 d \in {"eth0", "eth1", Unset}, g \in {A(0, 0, 0), Unset}}
  IN  {Site(<<f, g, Lan1>>) : f, g \in Some}

\* What only one interface needs for a complaint.
Single ==
  {Site(<<Wan1(A(0, 0, 0)), [Lan2 EXCEPT !.vlan = v, !.device = d]>>) :
     v \in {-1, 0, 1, 4094, 4095}, d \in {"eth2", "eth2.5"}}
  \union {Site(<<Wan1(g), [Lan1 EXCEPT !.role = r]>>) : g \in {Unset, Bad}, r \in {"lan", "dmz"}}
  \union {[Site(s) EXCEPT !.hostname = h] : s \in {<<>>, Base}, h \in {Unset, "site"}}

Uplinked ==
  {[Site(<<Wan1(g), Wan2(h), Lan1>>) EXCEPT !.ecmp = e, !.conntrack_max = n] :
     g, h \in {A(0, 0, 0), A(1, 0, 0), Unset}, e \in BOOLEAN, n \in {-1, 0, 1}}

-----------------------------------------------------------------------------
(* DHCP and DNS *)

Subnet(net, name, first, last) ==
  [subnet |-> net, interface |-> name, pool_start |-> first, pool_end |-> last,
   gateway |-> A(1, 1, 1), dns_servers |-> {A(1, 1, 1)}, lease_time |-> 0]
Served(subnets, on) == [Site(Base) EXCEPT !.dhcp = [enabled |-> on, subnets |-> subnets]]

Pools ==
  LET Ends == Addrs \union {Unset, Bad}
      Nets == {Net(1, 1, 1, 2), Net(1, 0, 0, 1), Net(0, 0, 0, 0), Net(0, 1, 1, 3), Bad}
  IN  {Served(<<Subnet(n, "lan1", a, b)>>, TRUE) : n \in Nets, a, b \in Ends}

Leased ==
  LET Sub == Subnet(Net(1, 1, 0, 2), "lan1", A(1, 1, 0), A(1, 1, 0))
      Subs == {[Sub EXCEPT !.interface = n, !.gateway = g, !.dns_servers = d, !.lease_time = t] :
                 n \in {"lan1", "lan2", "none", Unset}, g \in {A(1, 1, 1), Bad}, d \in {{}, {Bad}}, t \in {0, 60}}
  IN  {Served(<<s, t>>, TRUE) : s \in Subs, t \in {Sub}}
        \union {Served(<<Sub>>, FALSE), Served(<<>>, TRUE)}

Resolved ==
  {[Site(i) EXCEPT !.dns = [enabled |-> on, listen |-> l, forwarders |-> f, allow_from |-> a]] :
     i \in {Base, <<Wan1(Unset), [Lan1 EXCEPT !.address = Dhcp], Lan2>>}, on \in BOOLEAN,
     l \in {{}, {A(0, 0, 1)}}, f \in {{}, {A(1, 0, 1)}, {Bad}}, a \in {{}, {Net(0, 0, 0, 1)}, {Bad}}}

-----------------------------------------------------------------------------
(* Firewall *)

Zone(name, names) == [name |-> name, interfaces |-> names]
Forward(from, to, action, protocol, port, source, dest) ==
  [from |-> from, to |-> to, action |-> action, protocol |-> protocol, port |-> port,
   source |-> source, dest |-> dest]
Input(zone, action, protocol, port, source) ==
  [zone |-> zone, action |-> action, protocol |-> protocol, port |-> port, source |-> source]

\* Apart, with an interface in two zones, with two zones of one name, empty,
\* with an interface that is not there and without a name.
ZoneLists ==
  LET Out == Zone("out", {"wan1", "wan2"})
      In == Zone("in", {"lan1", "lan2"})
  IN  { <<Out, In>>, <<Zone("out", {"wan1", "lan2"}), In>>,
        <<Out, Zone("in", {"lan1"}), Zone("in", {"lan2"})>>, <<Out, Zone("in", {})>>,
        <<Out, Zone("in", {"none"})>>, <<Out, In, Zone(Unset, {})>> }

Guarded(zones, forward, input) ==
  [Site(Base) EXCEPT !.firewall = [zones |-> zones, forward |-> forward, input |-> input]]

ForwardRules ==
  {Forward(f, t, a, "tcp", "80", s, d) : f, t \in {"out", "in"}, a \in {"accept", "DROP", "log"},
     s \in {Unset, Net(1, 1, 0, 2)}, d \in {Unset, Net(0, 0, 0, 1)}}
  \union {Forward(f, t, "accept", p, n, Unset, Unset) : f \in {"in", "none"}, t \in {"out", "none"},
            p \in {Unset, "udp"}, n \in {Unset, "80"}}
FewForwards ==
  {Forward("in", "out", "accept", Unset, Unset, Unset, Unset),
   Forward("in", "out", "drop", "tcp", "80", Unset, Unset),
   Forward("out", "in", "accept", "tcp", "80", Unset, Net(1, 1, 0, 2)),
   Forward("in", "in", "drop", Unset, Unset, Net(1, 1, 0, 2), Unset)}
InputRules ==
  {Input(z, a, p, n, s) : z \in {"out", "in", "none"}, a \in {"accept", "drop", "ACCEPT"},
     p \in {Unset, "tcp"}, n \in {Unset, "80"}, s \in {Unset, Net(1, 1, 0, 2)}}
FewInputs ==
  {Input("in", "accept", Unset, Unset, Unset), Input("in", "drop", "tcp", "80", Net(1, 1, 0, 2)),
   Input("out", "drop", "udp", Unset, Unset)}

Firewalled ==
  {Guarded(z, <<r>>, <<>>) : z \in ZoneLists, r \in ForwardRules}
  \union {Guarded(z, <<>>, <<r>>) : z \in ZoneLists, r \in InputRules}
  \union {Guarded(z, <<q, r>>, <<>>) : z \in ZoneLists, q, r \in FewForwards}
  \union {Guarded(z, <<>>, <<q, r>>) : z \in ZoneLists, q, r \in FewInputs}

-----------------------------------------------------------------------------
(* Policy routing *)

Rule(name, priority, source, interface) ==
  [name |-> name, priority |-> priority, source |-> source, interface |-> interface]
Wide == Net(1, 0, 0, 1)
Narrow == Net(1, 1, 0, 2)

\* Two rules of any priorities; three that agree with their order, or reversed.
Steered ==
  LET Rules == {Rule(m, n, s, i) : m \in {"rule", Unset}, n \in 1..2, s \in {Wide, Narrow, Unset, Bad},
                  i \in {"wan1", "wan2", "lan1", "none"}}
      Routed(p) == [Site(Base) EXCEPT !.pbr = p]
  IN  {Routed(<<p>>) : p \in Rules}
      \union {Routed(<<p, q>>) : p, q \in {r \in Rules : r.name # Unset /\ r.source # Bad}}
      \union {Routed(<<Rule("a", 10 * d, s, "wan1"), Rule("b", 20 * d, t, "wan2"), Rule("c", 30 * d, u, Unset)>>) :
                d \in {-1, 1}, s, t, u \in {Wide, Narrow}}

MCDotted == {"eth2.5"}
MCConfigs ==
  UNION {Overlaps, Named, Single, Uplinked, Pools, Leased, Resolved, Firewalled, Steered}

\* New connections over tcp and udp, to a port that is always open and to
\* one that is not, between every two devices.
MCPackets ==
  {[iif |-> i, oif |-> o, protocol |-> p, port |-> n, src |-> s, dst |-> d, established |-> FALSE] :
     i, o \in {"eth0", "eth1", "eth2", "eth2.5"}, p \in {"tcp", "udp"}, n \in {"22", "80"},
     s \in {A(1, 1, 0), A(1, 0, 0)}, d \in {A(0, 0, 0), A(1, 1, 0)}}
=============================================================================
