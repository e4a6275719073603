SPECIFICATION FairSpec
CONSTANTS
  tA = tA
  tB = tB
  heavy = heavy
  light = light
  small1 = small1
  small2 = small2
  Tenants = {tA, tB}
  Requests = {heavy, light, small1, small2}
  TenantOf <- MCTenantOf
  CostOf <- MCCostOf
  MaxQueueCount = 3
  MaxQueueCost = 3
  MinLimit = 1
  InitialLimit = 2
  MaxLimit = 3
  MaxWait = 2
  LaneTtl = 1
  LaneModes = {TRUE, FALSE}
INVARIANTS TypeOK RotationSound NoRoomWasted
PROPERTIES AdmitsWithinLimit ReservedNotPassed WaitersAnswered IdleRecovers
