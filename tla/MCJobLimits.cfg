SPECIFICATION Spec
CONSTANTS
  j1 = j1
  j2 = j2
  u1 = u1
  g1 = g1
  k1 = k1
  Job = {j1, j2}
  User = {u1}
  Group = {g1}
  Key = {k1}
  Principal <- MCPrincipal
  MaxUnits = 1
  KeyQuotas = {2}
  DailyQuotas = {1}
  LastDay = 1
  LastEpoch = 2
  IdemKey = {}
  TenantActive = 2
  UserActive = 1
SYMMETRY Symmetry
CHECK_DEADLOCK FALSE
INVARIANTS
  ActiveBounded
PROPERTIES
  UseIsNeverForgiven
