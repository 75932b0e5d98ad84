SPECIFICATION GrantsSpec
CONSTANTS
  g1 = g1
  g2 = g2
  Member = {"admin", "user"}
  Admin = {"admin"}
  Group = {g1, g2}
  Key = {"k1"}
  KeyQuotas = {0, 1}
  DailyQuotas = {0, 1}
SYMMETRY Symmetry
INVARIANTS
  PoliciesAgree
PROPERTIES
  DeletedIsFinal
