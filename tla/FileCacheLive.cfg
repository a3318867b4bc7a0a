SPECIFICATION FairSpec
CONSTANTS
  u1 = u1
  u2 = u2
  Users = {u1, u2}
  Janitor = janitor
  Menu <- ReadsWrites
  MaxOps = 1
  MaxRounds = 1
  MaxEntries = 2
  MaxFailures = 0
PROPERTY CallsReturnUnlessMissed
CHECK_DEADLOCK FALSE
