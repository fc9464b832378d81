SPECIFICATION Spec
CONSTANTS
  Nil = Nil
  Namespaces = {1}
  Devices = {1}
  Networks = {1, 2}
  HostsNetwork = 9
  EnableFreeRadiusDevices = TRUE
  FreeRadiusDevicesWirelessOnly = TRUE
  DefaultName = 8
  DryRuns = {TRUE, FALSE}
  SeparateFreeRadius = FALSE
  DeviceSpecs <- MovingDevices
  NetworkSpecs <- ServedNetworks
  MaxEdits = 2
  MaxFaults = 1
INVARIANTS
  TypeOK
  PublishedAtRest
  PrunedAtRest
  StatusAtRest
PROPERTIES
  ReadyTruthful
  DryRunWritesNothing
  NeverGoesBack
CHECK_DEADLOCK FALSE
