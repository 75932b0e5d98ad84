SPECIFICATION ConsoleSpec
CONSTANTS
  c1 = c1
  c2 = c2
  g1 = g1
  g2 = g2
  Nothing = Nothing
  Call = {c1, c2}
  Job = {"j1"}
  Chunks <- MCChunks
  PageSize = 2
  LastWindow = 2
  User = {"u1"}
  Group = {g1, g2}
  Key = {"k1"}
  Provider = {"p1"}
  LastRevision = 3
  MaxChanged = 1
CONSTRAINT UsageApart
SYMMETRY Symmetry
CHECK_DEADLOCK FALSE
PROPERTIES
  NoLostUpdate
  ReadIsTheArtifact
