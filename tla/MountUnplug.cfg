CONSTANTS
  d1 = d1  d2 = d2
  Devices = {d1}
  Storages = {"s1"}
  LastLetter = 3
  MaxCommands = 3
  MaxEvents = 2
SPECIFICATION Spec
CHECK_DEADLOCK FALSE
INVARIANT UnplugDisconnects
