\* A controller whose daemon has died waits for ever.
CHECK_DEADLOCK FALSE
CONSTANTS
  c1 = c1  c2 = c2  c3 = c3
  Controllers = {c1, c2, c3}
  Commands = {"command", "terminate", "restart"}
  MaxFaults = 1
  Nil = Nil
SPECIFICATION FairSpec
INVARIANTS TypeOK AnswerIsOwn DroppedOnlyByExit
PROPERTIES OnlyLateStartersHarm EndsUnlessTrouble
