\* Readers in parallel, two writers beside two readers, each coming back once.
CONSTANTS
  t1 = t1  t2 = t2  t3 = t3  t4 = t4
  Threads <- MCThreads
  NoThread = NoThread
  MaxOps = 2
SPECIFICATION FairSpec
INVARIANTS
  TypeOK
  MutualExclusion
  SleepersAreOwed
PROPERTIES
  NoReaderOvertakes
  ImplementsRWLock
  ReturnsUnlessMissed
\* A thread that missed its notification really stops.
CHECK_DEADLOCK FALSE
