SPECIFICATION UsageSpec
CONSTANTS
  c1 = c1
  c2 = c2
  Nothing = Nothing
  Call = {c1, c2}
  Job = {"j1"}
  Chunks <- MCChunks
  PageSize = 2
  LastWindow = 2
SYMMETRY Symmetry
CHECK_DEADLOCK FALSE
INVARIANTS
  NoCursorAfterFailure
