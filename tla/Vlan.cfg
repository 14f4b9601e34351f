SPECIFICATION VlanSpec
CONSTANTS
  eth0_1 = eth0_1
  eth0_2 = eth0_2
  eth1_1 = eth1_1
  x = x
  y = y
  Devices <- MCDevices
  Parent <- MCParent
  Vids = {1, 2}
  Addresses <- MCAddresses
  Dhcp = Dhcp
  Configs <- MCConfigs
INVARIANTS
  ProvisionedOnSuccess
  NoStaleOnUsedParents
  UpUnlessCutOff
