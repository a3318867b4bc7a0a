SPECIFICATION FairSpec
CONSTANTS
  Clients = {c1, c2}
  Worker = Worker
  NoRequest = NoRequest
  Menu <- TreePush
  MaxReqs = 1
  MaxTotal = 2
  MaxDrives = 1
PROPERTY AnsweredUnlessMissed
\* Once every request is served and the connection destroyed, nothing is left to
\* do; and a thread that missed its notification really stops.
CHECK_DEADLOCK FALSE
