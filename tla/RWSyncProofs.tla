---------------------------- MODULE RWSyncProofs ----------------------------
(***************************************************************************)
(* Safety of ParalellReadUniqueWriteSync for every finite set of threads   *)
(* and every bound on their accesses: mutual exclusion, the implementation *)
(* of RWLock, writer preference, and that only the window between unlock   *)
(* and wait can make a thread sleep past its wake-up.                      *)
(***************************************************************************)
EXTENDS RWSync, FiniteSetTheorems, TLAPS

\* _writeMtx is held exactly by the thread on the writer's side of the lock.
MtxHeld == \A t \in Threads : pc[t] \in WriteSide <=> writeMtx = t

\* _writeAccess is set exactly while a thread writes.
AccessFlag == writeAccess <=> \E t \in Threads : pc[t] = "writing"

\* _writeRequest is set exactly while a writer waits to be served.
RequestFlag == writeRequest <=> \E t \in Threads : pc[t] \in Requesting

\* The writer found no reader, and none has come in since.
WriterAlone == writeAccess => readAccesses = 0

\* The inductive invariant.
Inv ==
  /\ TypeOK
  /\ MtxHeld
  /\ AccessFlag
  /\ RequestFlag
  /\ ReaderCount
  /\ WriterAlone

-----------------------------------------------------------------------------
\* The threads at a control point form a finite set.
LEMMA AtFinite ==
  ASSUME NEW p
  PROVE  IsFiniteSet(At(p))
BY ThreadsAssumption, FS_Subset DEF At

\* A thread that moves between control points other than reading leaves the
\* readers as they are; one that enters or leaves reading changes them by itself.
LEMMA ReadersGoto ==
  ASSUME TypeOK, NEW t \in Threads, NEW p \in Control, Goto(t, p)
  PROVE  /\ pc' \in [Threads -> Control]
         /\ p = "reading" => Readers' = Readers \cup {t}
         /\ p # "reading" => Readers' = Readers \ {t}
         /\ pc[t] # "reading" /\ p # "reading" => Readers' = Readers
BY DEF TypeOK, Goto, Readers, At

\* What a notify_all does to the control points.
LEMMA NotifyMoves ==
  ASSUME TypeOK, NEW t \in Threads, NEW p \in Control, NEW gap, NEW wait,
         NEW test \in Control, NotifyAll(t, p, gap, wait, test)
  PROVE  /\ pc' \in [Threads -> Control]
         /\ pc'[t] = p
         /\ \A u \in Threads \ {t} : pc'[u] = IF pc[u] = wait THEN test ELSE pc[u]
         /\ missed' \subseteq Threads
BY DEF TypeOK, NotifyAll, At

LEMMA InvInit == Init => Inv
<1> SUFFICES ASSUME Init PROVE Inv
  OBVIOUS
<1>1. Readers = {} /\ Cardinality({}) = 0
  BY FS_EmptySet DEF Init, Readers, At
<1>2. TypeOK
  BY DEF Init, TypeOK, Control
<1>3. QED
  BY <1>1, <1>2, ThreadsAssumption
  DEF Init, Inv, MtxHeld, AccessFlag, RequestFlag, ReaderCount, WriterAlone,
      WriteSide, Requesting

\* A step that leaves the four fields alone and moves one thread within its side
\* of the lock preserves the invariant.
LEMMA InvMove ==
  ASSUME Inv, NEW t \in Threads, NEW p \in Control, Goto(t, p),
         UNCHANGED fields, ops' \in [Threads -> Nat], missed' \subseteq Threads,
         pc[t] \notin {"reading", "writing"}, p \notin {"reading", "writing"},
         pc[t] \in WriteSide <=> p \in WriteSide,
         pc[t] \in Requesting <=> p \in Requesting
  PROVE  Inv'
<1> USE DEF Inv, TypeOK
<1>1. /\ pc' \in [Threads -> Control]
      /\ Readers' = Readers
  BY ReadersGoto
<1>2. /\ pc'[t] = p
      /\ \A u \in Threads \ {t} : pc'[u] = pc[u]
  BY DEF Goto
<1>3. TypeOK'
  BY <1>1 DEF fields
<1>4. MtxHeld'
  BY <1>2 DEF MtxHeld, fields
<1>5. AccessFlag'
  BY <1>2 DEF AccessFlag, fields
<1>6. RequestFlag'
  BY <1>2 DEF RequestFlag, fields
<1>7. ReaderCount' /\ WriterAlone'
  BY <1>1 DEF ReaderCount, WriterAlone, fields
<1>8. QED
  BY <1>3, <1>4, <1>5, <1>6, <1>7

\* A notify_all preserves the invariant: the threads it wakes stay on their side.
LEMMA InvNotify ==
  ASSUME Inv, NEW t \in Threads, NEW p \in Control, NEW gap, NEW wait,
         NEW test \in Control, NotifyAll(t, p, gap, wait, test),
         UNCHANGED <<fields, ops>>,
         pc[t] \notin {"reading", "writing"} \cup Requesting,
         p \notin {"reading", "writing"} \cup Requesting,
         pc[t] \in WriteSide <=> p \in WriteSide,
         <<wait, test>> \in {<<"rWait", "rTest">>, <<"wWait", "wTest">>}
  PROVE  Inv'
<1> USE DEF Inv, TypeOK
<1>1. /\ pc' \in [Threads -> Control]
      /\ pc'[t] = p
      /\ \A u \in Threads \ {t} : pc'[u] = IF pc[u] = wait THEN test ELSE pc[u]
      /\ missed' \subseteq Threads
  BY NotifyMoves
<1>2. \A u \in Threads : /\ pc'[u] = "reading" <=> pc[u] = "reading"
                         /\ pc'[u] = "writing" <=> pc[u] = "writing"
                         /\ pc'[u] \in WriteSide <=> pc[u] \in WriteSide
                         /\ pc'[u] \in Requesting <=> pc[u] \in Requesting
  BY <1>1 DEF WriteSide, Requesting
<1>3. Readers' = Readers
  BY <1>2 DEF Readers, At
<1>4. TypeOK'
  BY <1>1 DEF fields
<1>5. MtxHeld' /\ AccessFlag' /\ RequestFlag'
  BY <1>2 DEF MtxHeld, AccessFlag, RequestFlag, fields
<1>6. ReaderCount' /\ WriterAlone'
  BY <1>3 DEF ReaderCount, WriterAlone, fields
<1>7. QED
  BY <1>4, <1>5, <1>6

-----------------------------------------------------------------------------
\* A reader whose test finds neither an access nor a request of a writer is
\* counted; the writer it did not find cannot be there.
LEMMA InvReadTest ==
  ASSUME Inv, NEW t \in Threads, ReadTest(t)
  PROVE  Inv'
<1> USE DEF Inv, TypeOK
<1>1. CASE ReadBlocked /\ Goto(t, "rGap") /\ UNCHANGED readAccesses
  BY <1>1, InvMove DEF ReadTest, fields, Control, WriteSide, Requesting
<1>2. CASE ~ReadBlocked /\ Goto(t, "reading") /\ readAccesses' = readAccesses + 1
  <2>1. /\ pc' \in [Threads -> Control]
        /\ Readers' = Readers \cup {t}
    BY <1>2, ReadersGoto DEF Control
  <2>2. /\ pc[t] = "rTest" /\ pc'[t] = "reading"
        /\ \A u \in Threads \ {t} : pc'[u] = pc[u]
        /\ UNCHANGED <<writeAccess, writeRequest, writeMtx, ops, missed>>
    BY <1>2 DEF ReadTest, Goto
  <2>3. t \notin Readers /\ IsFiniteSet(Readers)
    BY <2>2, AtFinite DEF Readers, At
  <2>4. Cardinality(Readers \cup {t}) = Cardinality(Readers) + 1
    BY <2>3, FS_AddElement
  <2>5. ReaderCount'
    BY <1>2, <2>1, <2>4 DEF ReaderCount
  <2>6. TypeOK'
    BY <1>2, <2>1, <2>2
  <2>7. MtxHeld' /\ AccessFlag' /\ RequestFlag'
    BY <2>2 DEF MtxHeld, AccessFlag, RequestFlag, WriteSide, Requesting
  <2>8. WriterAlone'
    BY <1>2, <2>2 DEF WriterAlone, ReadBlocked
  <2>9. QED
    BY <2>5, <2>6, <2>7, <2>8
<1>3. QED
  BY <1>1, <1>2 DEF ReadTest

\* A reader that leaves takes itself, and only itself, off the count.
LEMMA InvEndReadAccess ==
  ASSUME Inv, NEW t \in Threads, EndReadAccess(t)
  PROVE  Inv'
<1> USE DEF Inv, TypeOK
<1>1. /\ pc[t] = "reading" /\ pc'[t] = "rNotify"
      /\ \A u \in Threads \ {t} : pc'[u] = pc[u]
      /\ UNCHANGED <<writeAccess, writeRequest, writeMtx, ops, missed>>
      /\ readAccesses' = readAccesses - 1
  BY DEF EndReadAccess, Goto
<1>2. /\ pc' \in [Threads -> Control]
      /\ Readers' = Readers \ {t}
  BY ReadersGoto DEF EndReadAccess, Control
<1>3. t \in Readers /\ IsFiniteSet(Readers)
  BY <1>1, AtFinite DEF Readers, At
<1>4. Cardinality(Readers \ {t}) = Cardinality(Readers) - 1
  BY <1>3, FS_RemoveElement
<1>5. ReaderCount'
  BY <1>1, <1>2, <1>4 DEF ReaderCount
<1>6. readAccesses > 0
  <2>1. Cardinality(Readers) # 0
    BY <1>3, FS_EmptySet
  <2>2. QED
    BY <2>1 DEF ReaderCount
<1>7. TypeOK'
  BY <1>1, <1>2, <1>6
<1>8. MtxHeld' /\ AccessFlag' /\ RequestFlag'
  BY <1>1 DEF MtxHeld, AccessFlag, RequestFlag, WriteSide, Requesting
<1>9. WriterAlone'
  BY <1>1, <1>6 DEF WriterAlone
<1>10. QED
  BY <1>5, <1>7, <1>8, <1>9

\* _writeMtx is free when a writer takes it: nobody else is on the writer's side.
LEMMA InvWriteLock ==
  ASSUME Inv, NEW t \in Threads, WriteLock(t)
  PROVE  Inv'
<1> USE DEF Inv, TypeOK
<1>1. /\ pc[t] = "wLock" /\ pc'[t] = "wReq"
      /\ \A u \in Threads \ {t} : pc'[u] = pc[u]
      /\ UNCHANGED <<readAccesses, writeAccess, writeRequest, ops, missed>>
      /\ writeMtx = NoThread /\ writeMtx' = t
  BY DEF WriteLock, Goto
<1>2. pc' \in [Threads -> Control] /\ Readers' = Readers
  BY <1>1, ReadersGoto DEF WriteLock, Control, WriteSide
<1>3. TypeOK' /\ ReaderCount' /\ WriterAlone'
  BY <1>1, <1>2 DEF ReaderCount, WriterAlone
<1>4. MtxHeld'
  BY <1>1, ThreadsAssumption DEF MtxHeld, WriteSide
<1>5. AccessFlag' /\ RequestFlag'
  BY <1>1 DEF AccessFlag, RequestFlag, Requesting
<1>6. QED
  BY <1>3, <1>4, <1>5

\* The holder of _writeMtx raises its request or is served: it is the only thread
\* that can be asking or writing.
LEMMA InvWriteTest ==
  ASSUME Inv, NEW t \in Threads, WriteTest(t)
  PROVE  Inv'
<1> USE DEF Inv, TypeOK
<1>1. /\ pc[t] \in {"wReq", "wTest"}
      /\ UNCHANGED <<readAccesses, writeMtx, ops, missed>>
  BY DEF WriteTest
<1>2. \A u \in Threads \ {t} : pc[u] \notin WriteSide
  BY <1>1 DEF MtxHeld, WriteSide
<1>3. PICK p \in {"wGap", "writing"} :
        /\ Goto(t, p)
        /\ p = "wGap"    => writeRequest' = TRUE /\ writeAccess' = writeAccess
        /\ p = "writing" => /\ readAccesses = 0
                            /\ writeRequest' = FALSE /\ writeAccess' = TRUE
  BY DEF WriteTest
<1>4. /\ pc'[t] = p
      /\ \A u \in Threads \ {t} : pc'[u] = pc[u]
  BY <1>3 DEF Goto
<1>5. pc' \in [Threads -> Control] /\ Readers' = Readers
  BY <1>1, <1>3, ReadersGoto DEF Control, WriteSide
<1>6. ~writeAccess
  BY <1>1, <1>2 DEF AccessFlag, WriteSide
<1>7. TypeOK' /\ ReaderCount' /\ WriterAlone'
  <2>1. CASE p = "wGap"
    BY <1>1, <1>3, <1>5, <1>6, <2>1 DEF ReaderCount, WriterAlone
  <2>2. CASE p = "writing"
    BY <1>1, <1>3, <1>5, <2>2 DEF ReaderCount, WriterAlone
  <2>3. QED
    BY <2>1, <2>2
<1>8. MtxHeld'
  BY <1>1, <1>4 DEF MtxHeld, WriteSide
<1>9. AccessFlag' /\ RequestFlag'
  BY <1>2, <1>3, <1>4, <1>6 DEF AccessFlag, RequestFlag, WriteSide, Requesting
<1>10. QED
  BY <1>7, <1>8, <1>9

\* The writer that ends was the only one.
LEMMA InvEndWriteAccess ==
  ASSUME Inv, NEW t \in Threads, EndWriteAccess(t)
  PROVE  Inv'
<1> USE DEF Inv, TypeOK
<1>1. /\ pc[t] = "writing" /\ pc'[t] = "wNotify"
      /\ \A u \in Threads \ {t} : pc'[u] = pc[u]
      /\ UNCHANGED <<readAccesses, writeRequest, writeMtx, ops, missed>>
      /\ writeAccess' = FALSE
  BY DEF EndWriteAccess, Goto
<1>2. \A u \in Threads \ {t} : pc[u] \notin WriteSide
  BY <1>1 DEF MtxHeld, WriteSide
<1>3. pc' \in [Threads -> Control] /\ Readers' = Readers
  BY <1>1, ReadersGoto DEF EndWriteAccess, Control, WriteSide
<1>4. TypeOK' /\ ReaderCount' /\ WriterAlone'
  BY <1>1, <1>3 DEF ReaderCount, WriterAlone
<1>5. MtxHeld' /\ AccessFlag' /\ RequestFlag'
  BY <1>1, <1>2 DEF MtxHeld, AccessFlag, RequestFlag, WriteSide, Requesting
<1>6. QED
  BY <1>4, <1>5

\* _writeMtx is released by the thread that holds it.
LEMMA InvWriteUnlock ==
  ASSUME Inv, NEW t \in Threads, WriteUnlock(t)
  PROVE  Inv'
<1> USE DEF Inv, TypeOK
<1>1. /\ pc[t] = "wUnlock" /\ pc'[t] = "idle"
      /\ \A u \in Threads \ {t} : pc'[u] = pc[u]
      /\ UNCHANGED <<readAccesses, writeAccess, writeRequest, ops, missed>>
      /\ writeMtx' = NoThread
  BY DEF WriteUnlock, Goto
<1>2. \A u \in Threads \ {t} : pc[u] \notin WriteSide
  BY <1>1 DEF MtxHeld, WriteSide
<1>3. pc' \in [Threads -> Control] /\ Readers' = Readers
  BY <1>1, ReadersGoto DEF WriteUnlock, Control, WriteSide
<1>4. TypeOK' /\ ReaderCount' /\ WriterAlone'
  BY <1>1, <1>3 DEF ReaderCount, WriterAlone
<1>5. MtxHeld' /\ AccessFlag' /\ RequestFlag'
  BY <1>1, <1>2, ThreadsAssumption
  DEF MtxHeld, AccessFlag, RequestFlag, WriteSide, Requesting
<1>6. QED
  BY <1>4, <1>5

LEMMA InvStep == Inv /\ [Next]_vars => Inv'
<1> SUFFICES ASSUME Inv, [Next]_vars PROVE Inv'
  OBVIOUS
<1> USE DEF Control, WriteSide, Requesting
<1>1. ASSUME NEW t \in Threads, GetReadAccess(t) PROVE Inv'
  BY <1>1, InvMove DEF GetReadAccess, fields, Inv, TypeOK
<1>2. ASSUME NEW t \in Threads, GetWriteAccess(t) PROVE Inv'
  BY <1>2, InvMove DEF GetWriteAccess, fields, Inv, TypeOK
<1>3. ASSUME NEW t \in Threads, ReadTest(t) PROVE Inv'
  BY <1>3, InvReadTest
<1>4. ASSUME NEW t \in Threads, ReadSleep(t) PROVE Inv'
  BY <1>4, InvMove DEF ReadSleep, fields, Inv, TypeOK
<1>5. ASSUME NEW t \in Threads, EndReadAccess(t) PROVE Inv'
  BY <1>5, InvEndReadAccess
<1>6. ASSUME NEW t \in Threads, ReadNotify(t) PROVE Inv'
  BY <1>6, InvNotify DEF ReadNotify
<1>7. ASSUME NEW t \in Threads, WriteLock(t) PROVE Inv'
  BY <1>7, InvWriteLock
<1>8. ASSUME NEW t \in Threads, WriteTest(t) PROVE Inv'
  BY <1>8, InvWriteTest
<1>9. ASSUME NEW t \in Threads, WriteSleep(t) PROVE Inv'
  BY <1>9, InvMove DEF WriteSleep, fields, Inv, TypeOK
<1>10. ASSUME NEW t \in Threads, EndWriteAccess(t) PROVE Inv'
  BY <1>10, InvEndWriteAccess
<1>11. ASSUME NEW t \in Threads, WriteNotify(t) PROVE Inv'
  BY <1>11, InvNotify DEF WriteNotify
<1>12. ASSUME NEW t \in Threads, WriteUnlock(t) PROVE Inv'
  BY <1>12, InvWriteUnlock
<1>13. ASSUME NEW t \in Threads, SpuriousWakeup(t) PROVE Inv'
  BY <1>13, InvMove DEF SpuriousWakeup, fields, Inv, TypeOK
<1>14. CASE UNCHANGED vars
  BY <1>14 DEF vars, Inv, TypeOK, MtxHeld, AccessFlag, RequestFlag,
               ReaderCount, WriterAlone, Readers, At
<1>15. QED
  BY <1>1, <1>2, <1>3, <1>4, <1>5, <1>6, <1>7, <1>8, <1>9, <1>10, <1>11,
     <1>12, <1>13, <1>14 DEF Next, Call, Step

\* The fields of the lock, the control points and the ghost stay in their types:
\* in particular _readAccesses never becomes negative.
THEOREM TypeCorrect == Spec => []TypeOK
<1>1. Inv => TypeOK
  BY DEF Inv
<1>2. QED
  BY <1>1, InvInit, InvStep, PTL DEF Spec

LEMMA Invariance == Spec => []Inv
BY InvInit, InvStep, PTL DEF Spec

\* _readAccesses is the number of threads between getReadAccess and
\* endReadAccess.
THEOREM CountsReaders == Spec => []ReaderCount
<1>1. Inv => ReaderCount
  BY DEF Inv
<1>2. QED
  BY <1>1, Invariance, PTL

LEMMA InvExclusive == Inv => MutualExclusion
<1> SUFFICES ASSUME Inv PROVE MutualExclusion
  OBVIOUS
<1>1. \A t, u \in Writers : t = u
  BY DEF Inv, MtxHeld, WriteSide, Writers, At
<1>2. ASSUME Writers # {} PROVE Readers = {}
  <2>1. Cardinality(Readers) = 0
    BY <1>2 DEF Inv, AccessFlag, WriterAlone, ReaderCount, Writers, At
  <2>2. QED
    BY <2>1, AtFinite, FS_EmptySet DEF Readers
<1>3. QED
  BY <1>1, <1>2 DEF MutualExclusion, Abs!Exclusive

\* One writer at most and no reader beside it, however many threads there are.
THEOREM Exclusion == Spec => []MutualExclusion
BY InvExclusive, Invariance, PTL

-----------------------------------------------------------------------------
\* Every sleeper is owed a notification: kept by each step, because the two
\* conditions become false only in endReadAccess and endWriteAccess, and both
\* are followed by their notify_all.
LEMMA OwedStep ==
  TypeOK /\ SleepersAreOwed /\ [Next]_vars => SleepersAreOwed'
<1> SUFFICES ASSUME TypeOK, SleepersAreOwed, [Next]_vars
             PROVE  SleepersAreOwed'
  OBVIOUS
<1> USE DEF TypeOK, SleepersAreOwed, ReadBlocked, At
<1>1. ASSUME NEW t \in Threads, Call(t) PROVE SleepersAreOwed'
  BY <1>1 DEF Call, GetReadAccess, GetWriteAccess, Goto, fields
<1>2. ASSUME NEW t \in Threads, ReadTest(t) PROVE SleepersAreOwed'
  BY <1>2 DEF ReadTest, Goto
<1>3. ASSUME NEW t \in Threads, ReadSleep(t) \/ WriteSleep(t)
      PROVE  SleepersAreOwed'
  BY <1>3 DEF ReadSleep, WriteSleep, Goto, fields
<1>4. ASSUME NEW t \in Threads, EndReadAccess(t) PROVE SleepersAreOwed'
  BY <1>4 DEF EndReadAccess, Goto
<1>5. ASSUME NEW t \in Threads, ReadNotify(t) PROVE SleepersAreOwed'
  BY <1>5 DEF ReadNotify, NotifyAll, fields
<1>6. ASSUME NEW t \in Threads, WriteLock(t) \/ WriteUnlock(t)
      PROVE  SleepersAreOwed'
  BY <1>6 DEF WriteLock, WriteUnlock, Goto
<1>7. ASSUME NEW t \in Threads, WriteTest(t) PROVE SleepersAreOwed'
  BY <1>7 DEF WriteTest, Goto
<1>8. ASSUME NEW t \in Threads, EndWriteAccess(t) PROVE SleepersAreOwed'
  BY <1>8 DEF EndWriteAccess, Goto
<1>9. ASSUME NEW t \in Threads, WriteNotify(t) PROVE SleepersAreOwed'
  BY <1>9 DEF WriteNotify, NotifyAll, fields
<1>10. ASSUME NEW t \in Threads, SpuriousWakeup(t) PROVE SleepersAreOwed'
  BY <1>10 DEF SpuriousWakeup, Goto, fields
<1>11. CASE UNCHANGED vars
  BY <1>11 DEF vars
<1>12. QED
  BY <1>1, <1>2, <1>3, <1>4, <1>5, <1>6, <1>7, <1>8, <1>9, <1>10, <1>11
  DEF Next, Step

\* Only a notification sent into the window between unlock and wait can leave a
\* thread asleep on a condition that no longer holds.
THEOREM OnlyTheGapLosesWakeups == Spec => []SleepersAreOwed
<1>1. Init => SleepersAreOwed
  BY DEF Init, SleepersAreOwed
<1>2. QED
  BY <1>1, OwedStep, TypeCorrect, PTL DEF Spec

-----------------------------------------------------------------------------
\* No new reader while a writer waits: the only step that adds a reader tests
\* the request in the same section.
THEOREM WriterPreference == Spec => NoReaderOvertakes
<1>1. TypeOK /\ [Next]_vars => [writeRequest => Readers' \subseteq Readers]_vars
  <2> SUFFICES ASSUME TypeOK, Next, writeRequest
               PROVE  Readers' \subseteq Readers
    BY DEF vars
  <2> USE DEF TypeOK, Readers, At, Goto
  <2>1. ASSUME NEW t \in Threads, Call(t) \/ SpuriousWakeup(t)
        PROVE  Readers' \subseteq Readers
    BY <2>1 DEF Call, GetReadAccess, GetWriteAccess, SpuriousWakeup
  <2>2. ASSUME NEW t \in Threads, ReadTest(t) PROVE Readers' \subseteq Readers
    BY <2>2 DEF ReadTest, ReadBlocked
  <2>3. ASSUME NEW t \in Threads, ReadNotify(t) \/ WriteNotify(t)
        PROVE  Readers' \subseteq Readers
    BY <2>3 DEF ReadNotify, WriteNotify, NotifyAll
  <2>4. ASSUME NEW t \in Threads,
               \/ ReadSleep(t) \/ EndReadAccess(t) \/ WriteLock(t)
               \/ WriteTest(t) \/ WriteSleep(t) \/ EndWriteAccess(t)
               \/ WriteUnlock(t)
        PROVE  Readers' \subseteq Readers
    BY <2>4 DEF ReadSleep, EndReadAccess, WriteLock, WriteTest, WriteSleep,
                EndWriteAccess, WriteUnlock
  <2>5. QED
    BY <2>1, <2>2, <2>3, <2>4 DEF Next, Step
<1>2. QED
  BY <1>1, TypeCorrect, PTL DEF Spec, NoReaderOvertakes

-----------------------------------------------------------------------------
\* A step that moves no thread into or out of an access is a stutter of RWLock.
LEMMA Stutters ==
  ASSUME \A u \in Threads : /\ pc'[u] = "reading" <=> pc[u] = "reading"
                            /\ pc'[u] = "writing" <=> pc[u] = "writing"
  PROVE  UNCHANGED Abs!vars
BY DEF Abs!vars, Readers, Writers, At

LEMMA RefinesStep == Inv /\ [Next]_vars => [Abs!Next]_(Abs!vars)
<1> SUFFICES ASSUME Inv, [Next]_vars PROVE [Abs!Next]_(Abs!vars)
  OBVIOUS
<1> USE DEF Inv, TypeOK
<1>1. ASSUME NEW t \in Threads, Call(t) PROVE UNCHANGED Abs!vars
  BY <1>1, Stutters DEF Call, GetReadAccess, GetWriteAccess, Goto
<1>2. ASSUME NEW t \in Threads, ReadTest(t)
      PROVE  Abs!AcquireRead(t) \/ UNCHANGED Abs!vars
  <2>1. CASE ReadBlocked /\ Goto(t, "rGap")
    BY <1>2, <2>1, Stutters DEF ReadTest, Goto
  <2>2. CASE ~ReadBlocked /\ Goto(t, "reading")
    <3>1. pc[t] = "rTest"
      BY <1>2 DEF ReadTest
    <3>2. Readers' = Readers \cup {t} /\ t \notin Readers
      BY <2>2, <3>1, ReadersGoto DEF Control, Readers, At
    <3>3. Writers = {} /\ Writers' = {}
      BY <2>2, <3>1 DEF ReadBlocked, AccessFlag, Goto, Writers, At
    <3>4. QED
      BY <3>2, <3>3 DEF Abs!AcquireRead
  <2>3. QED
    BY <1>2, <2>1, <2>2 DEF ReadTest
<1>3. ASSUME NEW t \in Threads, EndReadAccess(t) PROVE Abs!ReleaseRead(t)
  BY <1>3 DEF EndReadAccess, Goto, Abs!ReleaseRead, Readers, Writers, At
<1>4. ASSUME NEW t \in Threads, ReadNotify(t) \/ WriteNotify(t)
      PROVE  UNCHANGED Abs!vars
  BY <1>4, Stutters DEF ReadNotify, WriteNotify, NotifyAll
<1>5. ASSUME NEW t \in Threads, WriteTest(t)
      PROVE  Abs!AcquireWrite(t) \/ UNCHANGED Abs!vars
  <2>1. CASE Goto(t, "wGap")
    BY <1>5, <2>1, Stutters DEF WriteTest, Goto
  <2>2. CASE readAccesses = 0 /\ Goto(t, "writing")
    <3>1. Readers = {}
      BY <2>2, AtFinite, FS_EmptySet DEF ReaderCount, Readers
    <3>2. Readers' = {}
      BY <2>2, <3>1 DEF Goto, Readers, At
    <3>3. \A u \in Threads \ {t} : pc[u] # "writing" /\ pc'[u] = pc[u]
      BY <1>5, <2>2 DEF WriteTest, MtxHeld, WriteSide, Goto
    <3>4. Writers = {} /\ Writers' = {t}
      BY <1>5, <2>2, <3>3 DEF WriteTest, Goto, Writers, At
    <3>5. QED
      BY <3>1, <3>2, <3>4 DEF Abs!AcquireWrite
  <2>3. QED
    BY <1>5, <2>1, <2>2 DEF WriteTest
<1>6. ASSUME NEW t \in Threads, EndWriteAccess(t) PROVE Abs!ReleaseWrite(t)
  BY <1>6 DEF EndWriteAccess, Goto, Abs!ReleaseWrite, Readers, Writers, At
<1>7. ASSUME NEW t \in Threads,
             \/ ReadSleep(t) \/ WriteLock(t) \/ WriteSleep(t)
             \/ WriteUnlock(t) \/ SpuriousWakeup(t)
      PROVE  UNCHANGED Abs!vars
  BY <1>7, Stutters
  DEF ReadSleep, WriteLock, WriteSleep, WriteUnlock, SpuriousWakeup, Goto
<1>8. CASE UNCHANGED vars
  BY <1>8, Stutters DEF vars
<1>9. QED
  BY <1>1, <1>2, <1>3, <1>4, <1>5, <1>6, <1>7, <1>8 DEF Next, Step, Abs!Next

\* ParalellReadUniqueWriteSync is a readers-writer lock: every behaviour of it
\* is one of RWLock.
THEOREM Implementation == Spec => ImplementsRWLock
<1>1. Init => Abs!Init
  BY DEF Init, Abs!Init, Readers, Writers, At
<1>2. QED
  BY <1>1, RefinesStep, Invariance, PTL DEF Spec, Abs!Spec, ImplementsRWLock
=============================================================================
