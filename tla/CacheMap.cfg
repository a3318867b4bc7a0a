\* Every thread has one operation; and threads that wait for each other wait for ever.
CHECK_DEADLOCK FALSE
CONSTANTS
  u1 = u1  u2 = u2  u3 = u3  a = a  b = b
  Users = {u1, u2, u3}
  Janitor = Janitor
  Menu <- MCMenu
  Paths = {a, b}
  MaxEntries = 3
  MaxRounds = 1
  NoFile = NoFile  Empty = Empty  Part = Part  Nil = Nil
SPECIFICATION FairSpec
INVARIANTS TypeOK WrittenIsKept EntriesAreAtHome
PROPERTY EndsUnlessStuck
