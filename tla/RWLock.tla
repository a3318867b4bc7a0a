------------------------------- MODULE RWLock -------------------------------
(***************************************************************************)
(* What a readers-writer lock promises its callers: any number of readers, *)
(* or one writer.  ParalellReadUniqueWriteSync (module RWSync) implements  *)
(* it; FileCache.cpp and Utils.cpp rely on nothing else.                   *)
(***************************************************************************)
EXTENDS FiniteSets

CONSTANT Threads        \* the threads that may ask for access

VARIABLES readers,      \* threads between getReadAccess and endReadAccess
          writers       \* threads between getWriteAccess and endWriteAccess

vars == <<readers, writers>>

TypeOK == readers \subseteq Threads /\ writers \subseteq Threads

Init == readers = {} /\ writers = {}

AcquireRead(t) ==
  /\ t \notin readers
  /\ writers = {}
  /\ readers' = readers \cup {t}
  /\ UNCHANGED writers

ReleaseRead(t) ==
  /\ t \in readers
  /\ readers' = readers \ {t}
  /\ UNCHANGED writers

AcquireWrite(t) ==
  /\ readers = {}
  /\ writers = {}
  /\ writers' = {t}
  /\ UNCHANGED readers

ReleaseWrite(t) ==
  /\ t \in writers
  /\ writers' = writers \ {t}
  /\ UNCHANGED readers

Next == \E t \in Threads : \/ AcquireRead(t)  \/ ReleaseRead(t)
                           \/ AcquireWrite(t) \/ ReleaseWrite(t)

Spec == Init /\ [][Next]_vars

\* At most one writer, and no reader beside it: the two assertions of
\* ParalellSyncerTest (UtilsUnitTests.test.h:228-229).
Exclusive ==
  /\ \A t, u \in writers : t = u
  /\ writers # {} => readers = {}
=============================================================================
