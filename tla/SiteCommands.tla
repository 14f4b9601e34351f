---------------------------- MODULE SiteCommands ----------------------------
(* From site.yaml to what the services are given: `warp validate`, the first  *)
(* half of `warp apply` (load, validate, render in the order of the pipeline) *)
(* and the set-up of `warp monitor`.  Writing and activating what is rendered *)
(* is ApplyPipeline, running the monitor is Monitor.  The properties ask what *)
(* a configuration that passed Validate means once it is rendered.            *)
EXTENDS Renderers

CONSTANTS
  Configs,    \* documents that Parse accepts
  Packets     \* packets to ask the firewall about

\* Interfaces and policy rules are lists; priorities are numbers.
ASSUME ConfigAssumption ==
  \A c \in Configs :
    /\ DOMAIN c.interfaces \subseteq Nat /\ DOMAIN c.pbr \subseteq Nat
    /\ \A k \in DOMAIN c.pbr : c.pbr[k].priority \in Int

VARIABLES
  cfg,       \* the parsed configuration, Unset before and after
  cmd,       \* the command that runs
  phase,     \* how far it is
  errs,      \* what Validate returned
  out,       \* what has been rendered, by service
  tracked    \* initialRoutes of cmdMonitor

siteVars == <<cfg, cmd, phase, errs, out, tracked>>

Services == <<"sysctl", "frr", "nftables", "kea", "unbound">>
NothingRendered == [s \in {Services[i] : i \in DOMAIN Services} |-> Unset]

SiteInit ==
  /\ cfg = Unset /\ cmd = "none" /\ phase = "idle"
  /\ errs = {} /\ out = NothingRendered /\ tracked = {}

\* LoadFile: the document is read and parsed.  An unreadable or unparsable one
\* ends the command and leaves no trace.
Load(command, c) ==
  /\ phase = "idle"
  /\ cfg' = c /\ cmd' = command /\ phase' = "loaded"
  /\ UNCHANGED <<errs, out, tracked>>

\* Validate; every command gives up when it returns an error.
Check ==
  /\ phase = "loaded"
  /\ errs' = Validate(cfg)
  /\ phase' = IF errs' = {} THEN "accepted" ELSE "rejected"
  /\ UNCHANGED <<cfg, cmd, out, tracked>>

Render(service, text) ==
  /\ cmd = "apply" /\ phase \in {"accepted", "rendering"}
  /\ \E i \in DOMAIN Services : Services[i] = service
       /\ \A j \in DOMAIN Services : out[Services[j]] # Unset <=> j < i
  /\ out' = [out EXCEPT ![service] = text]
  /\ phase' = "rendering"
  /\ UNCHANGED <<cfg, cmd, errs, tracked>>

RenderStep ==
  \/ Render("sysctl", SysctlRender(cfg))
  \/ Render("frr", FrrRender(cfg))
  \/ Render("nftables", NftRender(cfg))
  \/ Render("kea", KeaRender(cfg))
  \/ Render("unbound", UnboundRender(cfg))

\* Mutant of MonitorUplinks: an interface without a gateway is probed, too.
MonitorAllWans(c) == {i \in DOMAIN c.interfaces : c.interfaces[i].role = "wan"}

\* The interfaces cmdMonitor builds a probe and an initial route for, and those
\* NewController takes for its uplinks.
MonitorUplinks(c) ==
  {i \in DOMAIN c.interfaces : c.interfaces[i].role = "wan" /\ c.interfaces[i].gateway # Unset}
ControllerUplinks(c) ==
  {i \in DOMAIN c.interfaces : c.interfaces[i].role = "wan" /\ c.interfaces[i].gateway # Unset}

\* cmdMonitor up to the creation of its components; without uplinks it exits.
SetUpMonitor ==
  /\ cmd = "monitor" /\ phase = "accepted"
  /\ MonitorUplinks(cfg) # {}
  /\ tracked' = RoutesVia(cfg, MonitorUplinks(cfg))
  /\ phase' = "monitoring"
  /\ UNCHANGED <<cfg, cmd, errs, out>>

\* The command is over: it was rejected, has nothing to do, or is through.
End ==
  /\ \/ phase = "rejected"
     \/ cmd = "validate" /\ phase = "accepted"
     \/ cmd = "monitor" /\ phase = "accepted" /\ MonitorUplinks(cfg) = {}
     \/ phase = "monitoring"
     \/ phase = "rendering" /\ \A s \in DOMAIN out : out[s] # Unset
  /\ cfg' = Unset /\ cmd' = "none" /\ phase' = "idle"
  /\ errs' = {} /\ out' = NothingRendered /\ tracked' = {}

SiteNext ==
  \/ \E command \in {"validate", "apply", "monitor"}, c \in Configs : Load(command, c)
  \/ Check
  \/ RenderStep
  \/ SetUpMonitor
  \/ End

SiteSpec == SiteInit /\ [][SiteNext]_siteVars

-----------------------------------------------------------------------------
(* Validate against what it is for *)

\* Two static interfaces share an address.
Shared(c, i, j) == \E a \in Addrs : Contains(NetOf(c, i), a) /\ Contains(NetOf(c, j), a)

\* validateSubnetOverlaps, which only asks whether one network contains the
\* other's base address, complains about an interface exactly when one of its
\* addresses also belongs to an earlier interface.
OverlapIsExact ==
  phase \in {"accepted", "rejected"} =>
    \A j \in DOMAIN cfg.interfaces :
      <<"overlap", j>> \in errs <=>
        j \in StaticIfs(cfg) /\ \E i \in StaticIfs(cfg) : i < j /\ Shared(cfg, i, j)

-----------------------------------------------------------------------------
(* What validated configurations mean once rendered *)

\* Kea only ever leases addresses of the subnet it leases them for: checking
\* the two ends of the pool against the prefix is enough.
LeasesInsideSubnet ==
  out["kea"] # Unset =>
    \A k \in DOMAIN out["kea"].subnets : LET s == out["kea"].subnets[k] IN
      \A a \in Leases(s) : Contains(Network(s.subnet), a)

\* "Routes are already in FRR": what the monitor tracks from the start is what
\* the FRR renderer makes of the same configuration, prober, controller and
\* route map mean the same uplinks, and no two of these share a name (the key
\* of the prober's and the controller's maps) or a device.
MonitorMatchesFrr ==
  phase = "monitoring" =>
    /\ tracked = DefaultRoutes(FrrRender(cfg))
    /\ ControllerUplinks(cfg) = MonitorUplinks(cfg)
    /\ \A i, j \in MonitorUplinks(cfg) :
         \/ cfg.interfaces[i].name = cfg.interfaces[j].name
         \/ cfg.interfaces[i].device = cfg.interfaces[j].device
         => i = j

InZone(c, i, z) ==
  \E k \in DOMAIN c.firewall.zones :
    c.firewall.zones[k].name = z /\ c.interfaces[i].name \in c.firewall.zones[k].interfaces

\* A packet's device is one of an interface in the zone.
AtZone(c, dev, z) ==
  \E i \in DOMAIN c.interfaces : c.interfaces[i].device = dev /\ InZone(c, i, z)

\* What a rule of site.yaml says, in terms of zones.
ForwardRuleApplies(c, k, p) ==
  LET r == c.firewall.forward[k] IN
  /\ AtZone(c, p.iif, r.from) /\ AtZone(c, p.oif, r.to)
  /\ MeetsConditions(r, p) /\ Within(r.dest, p.dst)
InputRuleApplies(c, k, p) ==
  LET r == c.firewall.input[k] IN AtZone(c, p.iif, r.zone) /\ MeetsConditions(r, p)

\* The first rule that applies decides.
RulesAllow(rules, Applies(_)) ==
  \E k \in DOMAIN rules : Applies(k) /\ rules[k].action = "accept"
    /\ \A j \in DOMAIN rules : Applies(j) => k <= j

\* What a validated rule may still leave open: an action in capitals, which nft
\* does not know, and a port without a protocol, which is rendered without it.
SpelledOut(r) == r.action = ToLower(r.action) /\ (r.port # Unset => r.protocol # Unset)
AllSpelledOut(c) ==
  /\ \A k \in DOMAIN c.firewall.forward : SpelledOut(c.firewall.forward[k])
  /\ \A k \in DOMAIN c.firewall.input : SpelledOut(c.firewall.input[k])

\* The chains, whose lines name devices, decide about every new packet as the
\* rules of the configuration do, whose terms are zones: with interfaces in
\* several zones, zones of the same name and rules that overlap.
FirewallFollowsRules ==
  (out["nftables"] # Unset /\ cfg.firewall # Unset) => (AllSpelledOut(cfg) =>
    \A p \in Packets : ~p.established =>
      LET Forwards(k) == ForwardRuleApplies(cfg, k, p)
          Admits(k) == InputRuleApplies(cfg, k, p)
      IN  /\ ForwardChain(out["nftables"], p) <=> RulesAllow(cfg.firewall.forward, Forwards)
          /\ InputChain(out["nftables"], p) <=> BuiltIn(p) \/ RulesAllow(cfg.firewall.input, Admits))

\* Without a firewall section new connections are forwarded from every
\* interface but the WANs: no device is both.
DefaultKeepsWanOut ==
  (out["nftables"] # Unset /\ cfg.firewall = Unset) =>
    \A p \in Packets : (~p.established /\ p.iif \in Devices(cfg, DOMAIN cfg.interfaces)) =>
      (ForwardChain(out["nftables"], p) <=> p.iif \notin out["nftables"].masquerade)

DefaultResolver(c) == c.dns = Unset \/ (c.dns.enabled /\ c.dns.listen = {} /\ c.dns.allow_from = {})

\* By default Unbound answers every client of a LAN at the router's address in
\* that LAN, and no address of a WAN's own network: the subnets do not overlap.
ResolverServesLansOnly ==
  (out["unbound"] # Unset /\ DefaultResolver(cfg)) =>
    \A i \in StaticIfs(cfg) : \A a \in Addrs :
      Contains(NetOf(cfg, i), a) =>
        IF i \in LanIfs(cfg) THEN Answers(out["unbound"], a, cfg.interfaces[i].address.ip)
        ELSE \A to \in Addrs : ~Answers(out["unbound"], a, to)

\* The policy rule that should steer packets from src: of those that match (a
\* complete one does), the one of lowest priority number.
SteeredBy(c, src) ==
  {k \in DOMAIN c.pbr :
    LET Matches(j) == /\ \E i \in ByName(c, c.pbr[j].interface) : c.interfaces[i].gateway # Unset
                      /\ c.pbr[j].source # Unset /\ Within(c.pbr[j].source, src)
    IN  Matches(k) /\ \A j \in DOMAIN c.pbr : Matches(j) => c.pbr[k].priority <= c.pbr[j].priority}

\* "ip rule priority (lower = higher precedence)": packets from every source
\* take the next hop of the matching rule with the lowest priority.
PbrFollowsPriority ==
  out["frr"] # Unset =>
    \A a \in Addrs, m \in out["frr"].pbr : TakesFirst(out["frr"].pbr, a, m) =>
      \E k \in SteeredBy(cfg, a) : m.device = DeviceNamed(cfg, cfg.pbr[k].interface)

\* The same when the rules are listed by ascending priority, as the renderer
\* numbers them by position.
PbrFollowsPriorityIfSorted ==
  (cfg # Unset /\ \A j, k \in DOMAIN cfg.pbr : j < k => cfg.pbr[j].priority <= cfg.pbr[k].priority)
    => PbrFollowsPriority
=============================================================================
