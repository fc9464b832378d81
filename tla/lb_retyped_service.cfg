SPECIFICATION Spec
CONSTANTS
  Nil = Nil
  a = a
  b = b
  web = web
  Sources <- MCSources
  Empty <- MCEmpty
  Services <- MCServices
  HostName <- MCHostName
  ServiceSpecs <- MCServiceSpecs
  Addresses = {1, 2}
  DryRuns = {FALSE}
  Retyping = TRUE
  MaxEdits = 1
  MaxFaults = 0
INVARIANTS
  NothingElseResolvesAtRest
CHECK_DEADLOCK FALSE
