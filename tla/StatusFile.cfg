SPECIFICATION StatusFairSpec
CONSTANTS
  wan1 = wan1
  wan2 = wan2
  Uplinks <- MCUplinks
  Gateway <- MCGateway
  Device <- MCDevice
  Failures <- MCFailures
  Free = Free
  Missing = Missing
  Torn = Torn
  MaxProbes <- MCMaxProbes
  MaxBoots = 2
  MaxErrors = 1
INVARIANTS
  ReportCoherent
  UnreadableOnlyWhileWriting
PROPERTIES
  SeenNeverGoesBack
  DownEventuallyReported
  StaleReplaced
CHECK_DEADLOCK FALSE
