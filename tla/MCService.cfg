SPECIFICATION ServiceSpec
CONSTANTS
  g1 = g1
  g2 = g2
  k1 = k1
  Job = {"j1"}
  User = {"admin", "user"}
  Admin = {"admin"}
  Group = {g1, g2}
  Key = {k1}
  Principal <- MCPrincipal
  MaxUnits = 1
  KeyQuotas = {0}
  DailyQuotas = {0}
  LastDay = 0
  LastEpoch = 1
  IdemKey = {}
  TenantActive = 1
  UserActive = 1
  Worker = {"w1"}
CONSTRAINT OneThingAmiss
CHECK_DEADLOCK FALSE
PROPERTIES
  WorkIsGranted
