SPECIFICATION Spec
CONSTANTS
  Clients = {c1, c2}
  Worker = Worker
  NoRequest = NoRequest
  Menu <- AllKinds
  MaxReqs = 1
  MaxTotal = 1
  MaxDrives = 1
INVARIANT CallbackIsAlive
\* Once every request is served and the connection destroyed, nothing is left to
\* do; and a thread that missed its notification really stops.
CHECK_DEADLOCK FALSE
