SPECIFICATION FairSpec
CONSTANTS
  wan1 = wan1
  wan2 = wan2
  Uplinks <- MCUplinks
  Gateway <- MCGateway
  Device <- MCDevice
  Failures <- MCFailures
  Main = Main
  NoOwner = NoOwner
  MaxFaults <- EveryFault
INVARIANTS
  MonitorTypeOK
  InstalledMatchesActive
  VerdictApplied
  TrackedIsReal
PROPERTIES
  ImplementsFailover
  WithdrawnUnlessDisturbed
  RestoredUnlessDisturbed
  StopTerminates
