SPECIFICATION LedgerSpec
CONSTANTS
  j1 = j1
  j2 = j2
  j3 = j3
  u1 = u1
  g1 = g1
  k1 = k1
  Job = {j1, j2, j3}
  User = {u1}
  Group = {g1}
  Key = {k1}
  Principal <- MCPrincipal
  MaxUnits = 2
  KeyQuotas = {0, 2, 3}
  DailyQuotas = {2, 4}
  LastDay = 1
  LastEpoch = 2
SYMMETRY Symmetry
INVARIANTS
  LedgerTypeOK
  LedgerBalanced
  HeldInCurrentEpoch
  EventsMatchReservations
PROPERTIES
  QuotaHeld
