CONSTANTS
  a = a  b = b  d1 = d1  d2 = d2
  MaxId = 9
  InitTree <- MCTree
  CallPaths <- MCPaths
  c1 = c1  c2 = c2
  Clients = {c1}
  MaxCalls = 2
  MaxFaults = 0
  MaxSteps = 40
  New = New  Empty = Empty  Torn = Torn  Dir = Dir  Nil = Nil  Aborted = Aborted
SPECIFICATION Spec
CHECK_DEADLOCK FALSE
PROPERTY DirectoryMoveSucceeds
