SPECIFICATION Spec
CONSTANTS
  Nil = Nil
  r1 = r1
  r2 = r2
  r3 = r3
  route = route
  x = x
  y = y
  Sources <- MCSources
  Empty <- MCEmpty
  Routers = {r1, r2}
  RouterName <- MCRouterName
  Ingresses = {1}
  Routes = {route}
  Classes = {1, 2}
  InitialInputs <- MCInitialInputs
  RouterSpecs <- MCRouterSpecs
  IngressSpecs <- MCIngressSpecs
  RouteSpecs <- MCRouteSpecs
  UseHTTPRoutes = {TRUE}
  DryRuns = {FALSE}
  MaxEdits = 2
  MaxFaults = 0
INVARIANTS
  ClassResolvesWhateverTheNames
CHECK_DEADLOCK FALSE
