SPECIFICATION Spec
CONSTANTS
  u1 = u1
  u2 = u2
  Users = {u1, u2}
  Janitor = janitor
  Menu <- All
  MaxOps = 1
  MaxRounds = 1
  MaxEntries = 2
  MaxFailures = 1
SYMMETRY Symmetry
INVARIANTS TypeOK WritesKeptUnlessFaulty NoOrphanWait UseCounts OneEntry
CHECK_DEADLOCK FALSE
