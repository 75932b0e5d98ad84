SPECIFICATION Spec
CONSTANTS
  j1 = j1
  j2 = j2
  u1 = u1
  g1 = g1
  k1 = k1
  Job = {j1, j2}
  User = {u1}
  Group = {g1}
  Key = {k1}
  Principal <- MCPrincipal
  MaxUnits = 1
  KeyQuotas = {2}
  DailyQuotas = {0}
  LastDay = 0
  LastEpoch = 1
  IdemKey = {"i1"}
  TenantActive = 2
  UserActive = 2
SYMMETRY Symmetry
CHECK_DEADLOCK FALSE
INVARIANTS
  JobTypeOK
  LedgerFollowsJob
  CancelHonoured
  ArtifactOfSuccess
  EnvelopeAgrees
  RetriesBounded
  RetriesFindTheirJob
PROPERTIES
  EndIsFinal
