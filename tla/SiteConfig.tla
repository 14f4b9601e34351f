----------------------------- MODULE SiteConfig -----------------------------
(* internal/config: a parsed site.yaml and Validate, which returns every      *)
(* issue it finds.  Strings are kept as far as Validate tells them apart: an  *)
(* empty one (or an absent section) is Unset, one that net.ParseIP or         *)
(* net.ParseCIDR refuses is Bad.  An address is its bits, of one family.      *)
EXTENDS Integers, Sequences

CONSTANTS
  Bits,      \* the number of bits of an address
  Unset,     \* an empty string, an absent section
  Bad,       \* a string that is no address and no network
  Dhcp,      \* the address "dhcp"
  Dotted     \* the device names with a dot

Addrs == [1..Bits -> {0, 1}]
Cidrs == [ip : Addrs, len : 0..Bits]

ASSUME SiteAssumption ==
  /\ Bits \in Nat
  /\ {Unset, Bad, Dhcp} \cap (Addrs \union Cidrs) = {}

-----------------------------------------------------------------------------
(* Package net *)

\* net.ParseCIDR: the network of an address, its host bits cleared.
Network(c) == [ip |-> [i \in 1..Bits |-> IF i <= c.len THEN c.ip[i] ELSE 0], len |-> c.len]

\* IPNet.Contains: the address agrees with the network on its prefix.
Contains(net, a) == \A i \in 1..net.len : a[i] = net.ip[i]

\* The order of addresses as numbers, the first bit being the highest.
AddrLess(a, b) ==
  \E k \in 1..Bits : a[k] < b[k] /\ \A i \in 1..(k - 1) : a[i] = b[i]

-----------------------------------------------------------------------------
(* Validate *)

\* The issues of one kind, by the position of the entry that has it; position 0
\* stands for the document as a whole.
Issues(kind, positions) == {<<kind, i>> : i \in positions}
Document == {0}

InterfaceNames(c) == {c.interfaces[i].name : i \in DOMAIN c.interfaces}

\* The entries whose field repeats that of an earlier one.
Repeated(f) == {i \in DOMAIN f : \E j \in DOMAIN f : j < i /\ f[j] = f[i]}

validateRequired(c) ==
  Issues("hostname", {k \in Document : c.hostname = Unset})
    \union Issues("interfaces", {k \in Document : c.interfaces = <<>>})

\* Mutant of SharedDevices: the devices are not compared.
SharedNowhere(c) == {}

\* Interfaces on a device that an interface before them has.
SharedDevices(c) ==
  {i \in DOMAIN c.interfaces : c.interfaces[i].device # Unset}
    \cap Repeated([i \in DOMAIN c.interfaces |-> c.interfaces[i].device])

validateInterfaces(c) ==
  LET ifs == c.interfaces
      all == DOMAIN ifs
      named == {i \in all : ifs[i].name # Unset}
      bound == {i \in all : ifs[i].device # Unset}
  IN  Issues("name", all \ named)
        \union Issues("duplicate name", named \cap Repeated([i \in all |-> ifs[i].name]))
        \union Issues("device", all \ bound)
        \union Issues("duplicate device", SharedDevices(c))
        \union Issues("role", {i \in all : ifs[i].role \notin {"wan", "lan"}})
        \union Issues("address", {i \in all : ifs[i].address \notin Cidrs \union {Dhcp}})
        \union Issues("gateway", {i \in all : ifs[i].gateway \notin Addrs \union {Unset}})
        \union Issues("vlan", {i \in all : ifs[i].vlan < 0 \/ ifs[i].vlan > 4094})
        \union Issues("dotted", {i \in all : ifs[i].vlan > 0 /\ ifs[i].device \notin Dotted})
        \union Issues("no wan", {k \in Document : \A i \in all : ifs[i].role # "wan"})
        \union Issues("no lan", {k \in Document : \A i \in all : ifs[i].role # "lan"})

\* The interfaces with a static address that parses.
StaticIfs(c) == {i \in DOMAIN c.interfaces : c.interfaces[i].address \in Cidrs}
NetOf(c, i) == Network(c.interfaces[i].address)

\* Mutant of validateSubnetOverlaps: the second network is only looked for
\* inside the first.
validateOneWay(c) ==
  Issues("overlap",
    {j \in StaticIfs(c) : \E i \in StaticIfs(c) :
       i < j /\ Contains(NetOf(c, i), NetOf(c, j).ip)})

validateSubnetOverlaps(c) ==
  Issues("overlap",
    {j \in StaticIfs(c) : \E i \in StaticIfs(c) :
       /\ i < j
       /\ \/ Contains(NetOf(c, i), NetOf(c, j).ip)
          \/ Contains(NetOf(c, j), NetOf(c, i).ip)})

DhcpOn(c) == c.dhcp # Unset /\ c.dhcp.enabled

\* Mutant of BadPoolEnd: only the spelling is checked.
BadSpelling(sub, a) == a \notin Addrs

\* pool_start or pool_end: missing, no address, or outside a subnet that parses.
BadPoolEnd(sub, a) ==
  a \notin Addrs \/ (sub.subnet \in Cidrs /\ ~Contains(Network(sub.subnet), a))

validateDHCP(c) ==
  IF ~DhcpOn(c) THEN {} ELSE
  LET subs == c.dhcp.subnets
      all == DOMAIN subs
  IN  Issues("subnet", {i \in all : subs[i].subnet \notin Cidrs})
        \union Issues("interface", {i \in all : subs[i].interface \notin InterfaceNames(c) \union {Unset}})
        \union Issues("pool_start", {i \in all : BadPoolEnd(subs[i], subs[i].pool_start)})
        \union Issues("pool_end", {i \in all : BadPoolEnd(subs[i], subs[i].pool_end)})
        \union Issues("router", {i \in all : subs[i].gateway \notin Addrs})
        \union Issues("dns server", {i \in all : ~(subs[i].dns_servers \subseteq Addrs)})

\* Forwarders and allow_from are sets here: their order is not used.
validateDNS(c) ==
  IF c.dns = Unset \/ ~c.dns.enabled THEN {} ELSE
  Issues("forwarder", {k \in Document : ~(c.dns.forwarders \subseteq Addrs)})
    \union Issues("allow_from", {k \in Document : ~(c.dns.allow_from \subseteq Cidrs)})

\* strings.ToLower; the capitals stand for every other spelling.
ToLower(action) == CASE action = "ACCEPT" -> "accept" [] action = "DROP" -> "drop" [] OTHER -> action
BadAction(rule) == ToLower(rule.action) \notin {"accept", "drop"}

ZoneNames(c) ==
  {c.firewall.zones[k].name : k \in DOMAIN c.firewall.zones} \ {Unset}

validateFirewall(c) ==
  IF c.firewall = Unset THEN {} ELSE
  LET fw == c.firewall
      names == ZoneNames(c)
  IN  Issues("zone name", {k \in DOMAIN fw.zones : fw.zones[k].name = Unset})
        \union Issues("zone interface",
          {k \in DOMAIN fw.zones : ~(fw.zones[k].interfaces \subseteq InterfaceNames(c))})
        \union Issues("forward", {k \in DOMAIN fw.forward :
          ~({fw.forward[k].from, fw.forward[k].to} \subseteq names) \/ BadAction(fw.forward[k])})
        \union Issues("input", {k \in DOMAIN fw.input :
          fw.input[k].zone \notin names \/ BadAction(fw.input[k])})

validatePBR(c) ==
  LET all == DOMAIN c.pbr IN
  Issues("rule name", {k \in all : c.pbr[k].name = Unset})
    \union Issues("rule interface", {k \in all : c.pbr[k].interface \notin InterfaceNames(c) \union {Unset}})
    \union Issues("rule source", {k \in all : c.pbr[k].source \notin Cidrs \union {Unset}})
    \union Issues("duplicate priority", Repeated([k \in all |-> c.pbr[k].priority]))

Validate(c) ==
  validateRequired(c) \union validateInterfaces(c) \union validateSubnetOverlaps(c)
    \union validateDHCP(c) \union validateDNS(c) \union validateFirewall(c) \union validatePBR(c)
=============================================================================
