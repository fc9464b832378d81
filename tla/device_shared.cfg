SPECIFICATION FairSpec
CONSTANTS
  Nil = Nil
  Namespaces = {1}
  Devices = {1, 2}
  Networks = {1}
  HostsNetwork = 9
  EnableFreeRadiusDevices = TRUE
  FreeRadiusDevicesWirelessOnly = TRUE
  DefaultName = 8
  DryRuns = {TRUE, FALSE}
  SeparateFreeRadius = TRUE
  DeviceSpecs <- WirelessDevices
  NetworkSpecs <- AllNetworks
  MaxEdits = 1
  MaxFaults = 1
INVARIANTS
  PublishedAtRest
  PrunedAtRest
  StatusAtRest
PROPERTIES
  ComesToRest
CHECK_DEADLOCK FALSE
