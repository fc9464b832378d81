SPECIFICATION Spec
CONSTANTS
  Nil = Nil
  Namespaces = {1}
  Devices = {1}
  Networks = {1}
  HostsNetwork = 9
  EnableFreeRadiusDevices = FALSE
  FreeRadiusDevicesWirelessOnly = FALSE
  DefaultName = 8
  DryRuns = {FALSE}
  SeparateFreeRadius = FALSE
  DeviceSpecs <- LeaseTogglingDevices
  NetworkSpecs <- ServedNetworks
  MaxEdits = 1
  MaxFaults = 0
INVARIANTS
  DhcpHostsExact
CHECK_DEADLOCK FALSE
