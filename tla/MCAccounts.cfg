SPECIFICATION AccountsSpec
CONSTANTS
  s1 = s1
  s2 = s2
  q1 = q1
  q2 = q2
  User = {"root", "u1"}
  Root = "root"
  Session = {s1, s2}
  Request = {q1, q2}
  LastVersion = 2
  LastToken = 1
SYMMETRY Symmetry
CHECK_DEADLOCK FALSE
INVARIANTS
  AccountsTypeOK
  AnAdminRemains
  SessionsKnowThePassword
  EndedForGood
PROPERTIES
  ChangesAreAuthorised
