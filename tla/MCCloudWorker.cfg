SPECIFICATION FairSpec
CONSTANTS
  u1 = u1
  g1 = g1
  k1 = k1
  w1 = w1
  w2 = w2
  Job = {"j1"}
  User = {u1}
  Group = {g1}
  Key = {k1}
  Principal <- MCPrincipal
  MaxUnits = 1
  KeyQuotas = {0}
  DailyQuotas = {1}
  LastDay = 0
  LastEpoch = 1
  IdemKey = {"i1"}
  TenantActive = 1
  UserActive = 1
  Worker = {w1, w2}
CHECK_DEADLOCK FALSE
INVARIANTS
  AtMostOnce
  WorkIsCharged
PROPERTIES
  KeepsContract
  EveryJobEnds
