------------------------------- MODULE RWSync -------------------------------
(***************************************************************************)
(* ParalellReadUniqueWriteSync (mtpaccess/Utils.cpp:388-436), the lock     *)
(* around the cache map, the data files and the path tables.               *)
(*                                                                         *)
(* The three fields are only touched under _statusMtx and nothing blocks   *)
(* inside it, so each such section is one action.  A condition variable is *)
(* the set of threads asleep on it; both waits pass a mutex private to the *)
(* call, so nothing orders the unlock of _statusMtx before the sleep: the  *)
(* "Gap" control points are that window.                                   *)
(***************************************************************************)
EXTENDS Naturals, FiniteSets

CONSTANTS Threads,      \* callers of the lock
          NoThread,     \* _writeMtx is free
          MaxOps        \* bound: accesses one thread asks for

ASSUME ThreadsAssumption == IsFiniteSet(Threads) /\ NoThread \notin Threads
ASSUME MaxOpsAssumption  == MaxOps \in Nat

VARIABLES readAccesses, \* _readAccesses
          writeAccess,  \* _writeAccess
          writeRequest, \* _writeRequest
          writeMtx,     \* the thread that holds _writeMtx
          pc,           \* where each thread is
          ops,          \* accesses each thread has asked for
          missed        \* ghost: threads whose wake-up was sent while they
                        \* were in a Gap, until they are woken again

vars == <<readAccesses, writeAccess, writeRequest, writeMtx, pc, ops, missed>>
fields == <<readAccesses, writeAccess, writeRequest, writeMtx>>

WriteSide == {"wReq", "wGap", "wWait", "wTest",
              "writing", "wNotify", "wUnlock"}
Requesting == {"wGap", "wWait", "wTest"}
Control == {"idle", "rTest", "rGap", "rWait", "reading", "rNotify", "wLock"}
             \cup WriteSide

At(p) == {t \in Threads : pc[t] = p}
Goto(t, p) == pc' = [pc EXCEPT ![t] = p]

TypeOK ==
  /\ readAccesses \in Nat
  /\ writeAccess \in BOOLEAN
  /\ writeRequest \in BOOLEAN
  /\ writeMtx \in Threads \cup {NoThread}
  /\ pc \in [Threads -> Control]
  /\ ops \in [Threads -> Nat]
  /\ missed \subseteq Threads

Init ==
  /\ readAccesses = 0
  /\ writeAccess = FALSE
  /\ writeRequest = FALSE
  /\ writeMtx = NoThread
  /\ pc = [t \in Threads |-> "idle"]
  /\ ops = [t \in Threads |-> 0]
  /\ missed = {}

-----------------------------------------------------------------------------
\* (The notification is forgotten.)
NotifyAll_Nobody(t, p, gap, wait, test) == Goto(t, p) /\ UNCHANGED missed
\* notify_all by t, which goes on to p: whoever sleeps at `wait` tests again,
\* whoever is still on its way there (`gap`) does not hear it.
NotifyAll(t, p, gap, wait, test) ==
  /\ pc' = [u \in Threads |-> IF u = t THEN p
                              ELSE IF pc[u] = wait THEN test ELSE pc[u]]
  /\ missed' = (missed \cup At(gap)) \ At(wait)

\* getReadAccess is called.
GetReadAccess(t) ==
  /\ pc[t] = "idle" /\ ops[t] < MaxOps
  /\ Goto(t, "rTest")
  /\ ops' = [ops EXCEPT ![t] = @ + 1]
  /\ UNCHANGED <<fields, missed>>

\* (A writer that has the lock is forgotten.)
ReadBlocked_RequestOnly == writeRequest
\* (Writers that ask for the lock are forgotten.)
ReadBlocked_AccessOnly == writeAccess
\* The loop condition of getReadAccess.
ReadBlocked == writeAccess \/ writeRequest

ReadTest(t) ==
  /\ pc[t] = "rTest"
  /\ UNCHANGED <<writeAccess, writeRequest, writeMtx, ops, missed>>
  /\ \/ ReadBlocked  /\ Goto(t, "rGap")    /\ UNCHANGED readAccesses
     \/ ~ReadBlocked /\ Goto(t, "reading") /\ readAccesses' = readAccesses + 1

ReadSleep(t) ==
  /\ pc[t] = "rGap"
  /\ Goto(t, "rWait")
  /\ UNCHANGED <<fields, ops, missed>>

\* (The count is given back twice.)
EndReadAccess_Twice(t) ==
  /\ pc[t] = "reading"
  /\ readAccesses' = readAccesses - 2
  /\ Goto(t, "rNotify")
  /\ UNCHANGED <<writeAccess, writeRequest, writeMtx, ops, missed>>

EndReadAccess(t) ==
  /\ pc[t] = "reading"
  /\ readAccesses' = readAccesses - 1
  /\ Goto(t, "rNotify")
  /\ UNCHANGED <<writeAccess, writeRequest, writeMtx, ops, missed>>

ReadNotify(t) ==
  /\ pc[t] = "rNotify"
  /\ NotifyAll(t, "idle", "wGap", "wWait", "wTest")
  /\ UNCHANGED <<fields, ops>>

-----------------------------------------------------------------------------
\* getWriteAccess is called.
GetWriteAccess(t) ==
  /\ pc[t] = "idle" /\ ops[t] < MaxOps
  /\ Goto(t, "wLock")
  /\ ops' = [ops EXCEPT ![t] = @ + 1]
  /\ UNCHANGED <<fields, missed>>

WriteLock(t) ==
  /\ pc[t] = "wLock" /\ writeMtx = NoThread
  /\ writeMtx' = t
  /\ Goto(t, "wReq")
  /\ UNCHANGED <<readAccesses, writeAccess, writeRequest, ops, missed>>

\* The writer's section under _statusMtx: first from wReq, where the request is
\* raised, then once per wake-up.
WriteTest(t) ==
  /\ pc[t] \in {"wReq", "wTest"}
  /\ UNCHANGED <<readAccesses, writeMtx, ops, missed>>
  /\ \/ /\ readAccesses > 0
        /\ Goto(t, "wGap")
        /\ writeRequest' = TRUE
        /\ UNCHANGED writeAccess
     \/ /\ readAccesses = 0
        /\ Goto(t, "writing")
        /\ writeRequest' = FALSE
        /\ writeAccess' = TRUE

WriteSleep(t) ==
  /\ pc[t] = "wGap"
  /\ Goto(t, "wWait")
  /\ UNCHANGED <<fields, ops, missed>>

EndWriteAccess(t) ==
  /\ pc[t] = "writing"
  /\ writeAccess' = FALSE
  /\ Goto(t, "wNotify")
  /\ UNCHANGED <<readAccesses, writeRequest, writeMtx, ops, missed>>

WriteNotify(t) ==
  /\ pc[t] = "wNotify"
  /\ NotifyAll(t, "wUnlock", "rGap", "rWait", "rTest")
  /\ UNCHANGED <<fields, ops>>

WriteUnlock(t) ==
  /\ pc[t] = "wUnlock"
  /\ writeMtx' = NoThread
  /\ Goto(t, "idle")
  /\ UNCHANGED <<readAccesses, writeAccess, writeRequest, ops, missed>>

\* std::condition_variable::wait may return without a notification.
SpuriousWakeup(t) ==
  /\ \/ pc[t] = "rWait" /\ Goto(t, "rTest")
     \/ pc[t] = "wWait" /\ Goto(t, "wTest")
  /\ missed' = missed \ {t}
  /\ UNCHANGED <<fields, ops>>

-----------------------------------------------------------------------------
Call(t) == GetReadAccess(t) \/ GetWriteAccess(t)

\* Every step of a thread inside the lock but a spurious wake-up.
Step(t) ==
  \/ ReadTest(t)  \/ ReadSleep(t)  \/ EndReadAccess(t) \/ ReadNotify(t)
  \/ WriteLock(t) \/ WriteTest(t)  \/ WriteSleep(t)
  \/ EndWriteAccess(t) \/ WriteNotify(t) \/ WriteUnlock(t)

Next == \E t \in Threads : Call(t) \/ Step(t) \/ SpuriousWakeup(t)

Spec == Init /\ [][Next]_vars

\* Threads are scheduled: one that can move inside the lock does.  Nothing
\* makes a spurious wake-up happen.
Fairness == \A t \in Threads : WF_vars(Step(t))
FairSpec == Spec /\ Fairness

-----------------------------------------------------------------------------
Readers == At("reading")
Writers == At("writing")
Abs == INSTANCE RWLock WITH readers <- Readers, writers <- Writers

\* The two assertions of ParalellSyncerTest: one writer at most, and never a
\* reader beside it, however requests, releases and wake-ups interleave.
MutualExclusion == Abs!Exclusive

\* The counter the writer waits on is the number of threads still reading: a
\* release never gives away the access of another reader.
ReaderCount == readAccesses = Cardinality(Readers)

\* A thread asleep although nothing blocks it any more was in the Gap when its
\* notification was sent, or the notification is still to come: the window
\* between unlock and wait is the only way to sleep for ever.
SleepersAreOwed ==
  \A t \in Threads :
    /\ pc[t] \in {"rGap", "rWait"} /\ ~ReadBlocked
         => t \in missed \/ At("wNotify") # {}
    /\ pc[t] \in {"wGap", "wWait"} /\ readAccesses = 0
         => t \in missed \/ At("rNotify") # {}

\* Writer preference: from the first test of a writer that has to wait until it
\* is served, no new reader gets in.
NoReaderOvertakes == [][writeRequest => Readers' \subseteq Readers]_vars

\* The lock implements the abstract lock step by step.
ImplementsRWLock == Abs!Spec

\* As long as nobody misses a notification, every access asked for is granted
\* and released: no cycle between _writeMtx, _writeRequest and the waits.
ReturnsUnlessMissed ==
  [](missed = {}) => \A t \in Threads : pc[t] # "idle" ~> pc[t] = "idle"
=============================================================================
