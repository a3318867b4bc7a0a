\* The bounds end the run, and so does a daemon that has died.
CONSTANTS
  d1 = d1  d2 = d2
  Devices = {d1}
  Storages = {"s1", "s2"}
  LastLetter = 3
  MaxCommands = 3
  MaxEvents = 2
SPECIFICATION FairSpec
CHECK_DEADLOCK FALSE
INVARIANT TypeOK
INVARIANT NoFreedConnection
INVARIANT EndsBadlyOnlyAfterEject
INVARIANT MountedWhereFirstSaid
PROPERTY NotFoundForAReason
PROPERTY AnsweredUnlessMissed
