SPECIFICATION FairSpec
CONSTANTS
  Nil = Nil
  a = a
  b = b
  web = web
  Sources <- MCSources
  Empty <- MCEmpty
  Services <- MCServices
  HostName <- MCHostName
  ServiceSpecs <- MCServiceSpecs
  Addresses = {1, 2}
  DryRuns = {TRUE, FALSE}
  Retyping = FALSE
  MaxEdits = 2
  MaxFaults = 2
INVARIANTS
  TypeOK
  ServicesResolveAtRest
  NothingElseResolvesAtRest
  DryRunWritesNothing
PROPERTIES
  ComesToRest
  Implements
CHECK_DEADLOCK FALSE
