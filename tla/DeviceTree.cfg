CONSTANTS
  a = a  b = b  d1 = d1  d2 = d2
  MaxId = 9
  InitTree <- MCTree
  CallPaths <- MCPaths
  c1 = c1  c2 = c2
  Clients = {c1, c2}
  MaxCalls = 2
  MaxFaults = 1
  MaxSteps = 40
  New = New  Empty = Empty  Torn = Torn  Dir = Dir  Nil = Nil  Aborted = Aborted
SPECIFICATION Spec
SYMMETRY MCSymmetry
CHECK_DEADLOCK FALSE
INVARIANT TypeOK
INVARIANT DanglingOnlyByRenameOrNestedMove
PROPERTY HalfOnlyByDirectories
PROPERTY ImplementsTree
PROPERTY StaleOnlyByFailedMove
PROPERTY MoveLosesOnlyUnread
PROPERTY RmdirTakesOnlyLatecomers
