SPECIFICATION Spec
CONSTANTS
  Clients = {c1, c2}
  Worker = Worker
  NoRequest = NoRequest
  Menu <- Mixed
  MaxReqs = 3
  MaxTotal = 3
  MaxDrives = 1
SYMMETRY ClientSymmetry
INVARIANTS
  TypeOK
  WorkerIsOwed
  ClientIsOwed
  OvertakenOnce
PROPERTY ReturnsOwnAnswer
\* Once every request is served and the connection destroyed, nothing is left to
\* do; and a thread that missed its notification really stops.
CHECK_DEADLOCK FALSE
