SPECIFICATION SiteSpec
CONSTANTS
  Bits = 3
  Unset = Unset
  Bad = Bad
  Dhcp = Dhcp
  Dotted <- MCDotted
  Configs <- MCConfigs
  Packets <- MCPackets
INVARIANTS
  OverlapIsExact
  LeasesInsideSubnet
  MonitorMatchesFrr
  FirewallFollowsRules
  DefaultKeepsWanOut
  ResolverServesLansOnly
  PbrFollowsPriorityIfSorted
