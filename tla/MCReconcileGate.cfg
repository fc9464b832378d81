SPECIFICATION FairSpec
CONSTANTS
  w1 = w1
  w2 = w2
  ra1 = ra1
  ra2 = ra2
  rb = rb
  nsA = nsA
  nsB = nsB
  NoRequest = NoRequest
  Workers <- MCWorkers
  Requests <- MCRequests
  Keys <- MCKeys
  KeyOf <- MCKeyOf
  Budget = 4
INVARIANTS
  TypeOK
  OneReconcilePerKey
  NoLeakedKey
  NoLostTrigger
PROPERTIES
  GateDrains
CHECK_DEADLOCK FALSE
