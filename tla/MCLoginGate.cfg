SPECIFICATION GateFairSpec
CONSTANTS
  Login = {"a", "b", "c"}
  Ip = {"ip1", "ip2"}
  Account = {"root"}
  IpLimit = 2
  AccountLimit = 2
  MAX_PARALLEL = 1
  MAX_WAITING = 1
  LastWindow = 1
CHECK_DEADLOCK FALSE
INVARIANTS
  GuessesBounded
  SlotsHandedOver
PROPERTIES
  EveryLoginAnswered
