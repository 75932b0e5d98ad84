SPECIFICATION RoutingSpec
CONSTANTS
  c1 = c1
  c2 = c2
  l1 = l1
  l2 = l2
  Provider = {"p"}
  Kind = {"exa", "grok-multi-agent", "script"}
  Config = {c1, c2}
  Job = {"j"}
  Lane = {l1, l2}
  PoolInput <- Pools
  LastVersion = 2
  LastSelection = 2
  MaxLanes = 2
  MaxItems = 2
SYMMETRY Symmetry
INVARIANTS
  PlannedConfigsExist
  KeysShared
  SecretStandsForPool
  WhatIsReadyIsAccepted
