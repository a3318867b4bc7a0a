----------------------------- MODULE FileCache -----------------------------
(***************************************************************************)
(* FileCache (mtpcache/FileCache.cpp) for one file of one drive: the       *)
(* entry of the cache map with its status and use counts, the threads that *)
(* read, write, truncate, flush and delete the file through the callbacks  *)
(* of DokanDriveWrapper.cpp, the janitor (the thread of                    *)
(* FileCacheBackgroundJob and, after it is joined, ~FileCache), and the    *)
(* worker of ConnectionSync with the file on the device.                   *)
(*                                                                         *)
(* A section under _statusMutex is one action, and so is a look into the   *)
(* map under _cachemapLock; only the janitor holds that lock over several  *)
(* steps.  The reads of _status outside the mutex are steps of their own.  *)
(* Waiting is on a mutex private to the call: the "Gap" control points are *)
(* the window between the test of _status and the sleep.                   *)
(*                                                                         *)
(* A content is one token; a write replaces it.  The ages the janitor asks *)
(* for (15 and 30 seconds) are a free choice.                              *)
(***************************************************************************)
EXTENDS Integers, Sequences, FiniteSets

CONSTANTS Users,        \* threads of the mounted drive
          Janitor,      \* background job, later the destructor
          Menu,         \* bound: the operations users perform
          MaxOps,       \* bound: operations per user
          MaxRounds,    \* bound: rounds of generalTimeBasedSync
          MaxEntries,   \* bound: cache entries ever made for the file
          MaxFailures   \* bound: operations the device refuses or breaks off

Operations == {"read", "write", "clear", "flush", "delete"}

ASSUME ActorsAssumption == IsFiniteSet(Users) /\ Janitor \notin Users
ASSUME MenuAssumption == Menu \subseteq Operations
ASSUME BoundsAssumption ==
  /\ MaxOps \in Nat /\ MaxRounds \in Nat
  /\ MaxEntries \in Nat /\ MaxFailures \in Nat

\* Contents of a file: none, nothing, what a read left that broke off after its
\* first bytes or before them, what was on the device at first, and versions
\* written by users.  A version is used again once no file holds it.
NoFile   == 0
Empty    == 1
Partial  == 2
Headless == 3
Original == 4
Versions == 5 .. MaxEntries + 7
Broken   == {Partial, Headless}
Content  == {NoFile, Empty, Original} \cup Broken \cup Versions

Entries == 1 .. MaxEntries
NoEntry == 0
Actors  == Users \cup {Janitor}

VARIABLES mapped,       \* the entry _cachemap holds for the file, or NoEntry
          mapWriter,    \* the janitor holds _cachemapLock for writing
          mapReader,    \* the janitor holds _cachemapLock for reading
          entry,        \* the FileTableEntry objects
          pc,           \* where each actor is
          ptr,          \* the entry each actor has in hand
          op,           \* the operation of each user
          granted,      \* _getAccess returned true
          ops,          \* operations each user has begun
          rounds,       \* rounds the janitor has begun
          victim,       \* the file is in deleteThese
          pulls, pushes,\* the entries of the two request queues
          wpc, cur,     \* where the worker is, and its entry
          good,         \* the answer of the worker's request
          device,       \* the file on the device
          failures,     \* failures of the device so far
          latest,       \* ghost: the content last given by a user
          unsafe,       \* ghost: the known faults this run has gone through
          missed        \* ghost: actors notified in a Gap, until woken

mapVars    == <<mapped, mapWriter, mapReader>>
userVars   == <<op, granted, ops>>
janVars    == <<rounds, victim>>
queueVars  == <<pulls, pushes>>
workerVars == <<wpc, cur, good>>
deviceVars == <<device, failures>>
ghostVars  == <<latest, unsafe>>
vars == <<mapVars, entry, pc, ptr, userVars, janVars, queueVars, workerVars,
          deviceVars, ghostVars, missed>>

Status == {"NONEXISTANT", "PULLING", "AVAILABLE", "DIRTY", "PUSHING", "FAIL"}
Faults == {"latePull", "doublePush", "failedWrite", "deletedInUse",
           "deletedUnderRequest", "deletedUnsynced", "grantedMidPull", "brokenRead"}

UserControl == {"idle", "create", "count", "status", "pull", "pullEnq",
                "pullTest", "pullGap", "pullSleep", "pullCheck",
                "pushTest", "pushGap", "pushSleep",
                "access", "endLookup", "endCreate", "end", "dirty",
                "ifDirty", "setPush", "enqPush", "node"}
JanitorControl == {"rest", "scan", "ifDirty", "setPush", "enqPush", "mark",
                   "lock", "dIfDirty", "dSetPush", "dEnqPush",
                   "dTest", "dGap", "dSleep", "dFile", "gone"}
WorkerControl == {"pull", "push", "pullOpen", "pullRead", "pullDone",
                  "pushOpen", "pushDelete", "pushCreate", "pushDone", "notify"}

NewEntry == [life |-> "alive", status |-> "NONEXISTANT", reads |-> 0,
             writes |-> 0, cache |-> NoFile]
Unborn  == [NewEntry EXCEPT !.life = "unborn"]
Deleted == [NewEntry EXCEPT !.life = "deleted"]

Types ==
  /\ mapped \in {NoEntry} \cup Entries
  /\ mapWriter \in BOOLEAN /\ mapReader \in BOOLEAN
  /\ entry \in [Entries -> [life : {"unborn", "alive", "deleted"},
                            status : Status, reads : Int, writes : Int,
                            cache : Content]]
  /\ pc \in [Actors -> UserControl \cup JanitorControl]
  /\ pc[Janitor] \in JanitorControl /\ \A u \in Users : pc[u] \in UserControl
  /\ ptr \in [Actors -> {NoEntry} \cup Entries]
  /\ op \in [Users -> Operations] /\ granted \in [Users -> BOOLEAN]
  /\ ops \in [Users -> 0 .. MaxOps]
  /\ rounds \in 0 .. MaxRounds /\ victim \in BOOLEAN
  /\ pulls \in Seq(Entries) /\ pushes \in Seq(Entries)
  /\ wpc \in WorkerControl /\ cur \in {NoEntry} \cup Entries
  /\ good \in BOOLEAN
  /\ device \in Content /\ failures \in 0 .. MaxFailures
  /\ latest \in Content /\ unsafe \subseteq Faults
  /\ missed \subseteq Actors

\* Types, and the map has no entry that is gone.
TypeOK == Types /\ (mapped # NoEntry => entry[mapped].life = "alive")

Init ==
  /\ mapped = NoEntry /\ mapWriter = FALSE /\ mapReader = FALSE
  /\ entry = [e \in Entries |-> Unborn]
  /\ pc = [a \in Actors |-> IF a = Janitor THEN "rest" ELSE "idle"]
  /\ ptr = [a \in Actors |-> NoEntry]
  /\ op = [u \in Users |-> "read"] /\ granted = [u \in Users |-> FALSE]
  /\ ops = [u \in Users |-> 0]
  /\ rounds = 0 /\ victim = FALSE
  /\ pulls = <<>> /\ pushes = <<>>
  /\ wpc = "pull" /\ cur = NoEntry /\ good = FALSE
  /\ device = Original /\ failures = 0
  /\ latest = Original /\ unsafe = {}
  /\ missed = {}

-----------------------------------------------------------------------------
\* The entry is there.  Using a deleted one is undefined: whoever would do so goes no
\* further here, and `unsafe` has recorded the deletion.
Alive(e) == e \in Entries /\ entry[e].life = "alive"
Goto(a, p) == pc' = [pc EXCEPT ![a] = p]
SetStatus(e, s) == entry' = [entry EXCEPT ![e].status = s]
Writing(u) == op[u] \in {"write", "clear"}

\* Requests on entry e that are queued or being served: their callback is a
\* member of e.
PushUnderWay(e) ==
  \/ \E i \in 1 .. Len(pushes) : pushes[i] = e
  \/ cur = e /\ wpc \in {"pushOpen", "pushDelete", "pushCreate", "pushDone"}
PullUnderWay(e) ==
  \/ \E i \in 1 .. Len(pulls) : pulls[i] = e
  \/ cur = e /\ wpc \in {"pullOpen", "pullRead", "pullDone"}
\* ... or about to be queued, after the status has been set.
PushComing(e) ==
  PushUnderWay(e) \/ \E a \in Actors : ptr[a] = e /\ pc[a] \in {"enqPush", "dEnqPush"}
PullComing(e) ==
  PullUnderWay(e) \/ \E u \in Users : ptr[u] = e /\ pc[u] = "pullEnq"
InRequest(e) == PushUnderWay(e) \/ PullUnderWay(e) \/ cur = e
InUse(e) == \E u \in Users : ptr[u] = e

\* The worker has the local copy of e open: it cannot be removed then.
HeldOpen(e) == cur = e /\ wpc \in {"pullRead", "pushDelete", "pushCreate"}
Destroyed(e) == [Deleted EXCEPT !.cache = IF HeldOpen(e) THEN entry[e].cache
                                                         ELSE NoFile]

\* What a deletion of entry e puts at risk.
DeletionFaults(e) ==
  (IF InUse(e) THEN {"deletedInUse"} ELSE {}) \cup
  (IF InRequest(e) THEN {"deletedUnderRequest"} ELSE {})

\* The device refuses an operation, or breaks it off.
DeviceFails == failures < MaxFailures /\ failures' = failures + 1

Waiters(e, p) == {a \in Actors : ptr[a] = e /\ pc[a] \in p}
Missed(e) == (missed \cup Waiters(e, {"pullGap", "pushGap", "dGap"}))
               \ Waiters(e, {"pullSleep", "pushSleep", "dSleep"})
Woken(p) == CASE p = "pullSleep" -> "pullTest"
              [] p = "pushSleep" -> "pushTest"
              [] p = "dSleep"    -> "dTest"
              [] OTHER           -> p

\* (The notification is forgotten.)
NotifyAll_Nobody(e) == UNCHANGED <<pc, missed>>

\* notify_all on _avabilityNotifier of entry e.
NotifyAll(e) ==
  /\ pc' = [a \in Actors |-> IF ptr[a] = e THEN Woken(pc[a]) ELSE pc[a]]
  /\ missed' = Missed(e)

\* wait() on _avabilityNotifier falls asleep, or returns without a notification.
FallAsleep(a) ==
  /\ \/ pc[a] = "pullGap" /\ Goto(a, "pullSleep")
     \/ pc[a] = "pushGap" /\ Goto(a, "pushSleep")
     \/ pc[a] = "dGap"    /\ Goto(a, "dSleep")
  /\ Alive(ptr[a])
  /\ UNCHANGED <<mapVars, entry, ptr, userVars, janVars, queueVars, workerVars,
                 deviceVars, ghostVars, missed>>

SpuriousWakeup(a) ==
  /\ Woken(pc[a]) # pc[a] /\ Goto(a, Woken(pc[a]))
  /\ Alive(ptr[a])
  /\ missed' = missed \ {a}
  /\ UNCHANGED <<mapVars, entry, ptr, userVars, janVars, queueVars, workerVars,
                 deviceVars, ghostVars>>

-----------------------------------------------------------------------------
(* The map: _cacheAccess and _createCacheEntry. *)

\* The first look, under the read lock: p if the entry is there, q if it has to
\* be created.
CacheAccess(u, p, q) ==
  /\ ~mapWriter
  /\ IF mapped # NoEntry
     THEN ptr' = [ptr EXCEPT ![u] = mapped] /\ Goto(u, p)
     ELSE ptr' = [ptr EXCEPT ![u] = NoEntry] /\ Goto(u, q)

\* (The second look is forgotten: the new entry replaces the one in the map.)
CreateCacheEntry_NoRecheck(u, p) ==
  /\ ~mapWriter /\ ~mapReader
  /\ Goto(u, p)
  /\ \E e \in Entries :
       /\ entry[e].life = "unborn"
       /\ \A f \in Entries : entry[f].life = "unborn" => e <= f
       /\ entry' = [entry EXCEPT ![e] = NewEntry]
       /\ mapped' = e
       /\ ptr' = [ptr EXCEPT ![u] = e]
  /\ UNCHANGED <<mapWriter, mapReader>>

\* The second, under the write lock: somebody may have created it in between.
CreateCacheEntry(u, p) ==
  /\ ~mapWriter /\ ~mapReader
  /\ Goto(u, p)
  /\ \/ /\ mapped # NoEntry
        /\ ptr' = [ptr EXCEPT ![u] = mapped]
        /\ UNCHANGED <<mapVars, entry>>
     \/ /\ mapped = NoEntry
        /\ \E e \in Entries :
             /\ entry[e].life = "unborn"
             /\ \A f \in Entries : entry[f].life = "unborn" => e <= f
             /\ entry' = [entry EXCEPT ![e] = NewEntry]
             /\ mapped' = e
             /\ ptr' = [ptr EXCEPT ![u] = e]
        /\ UNCHANGED <<mapWriter, mapReader>>

-----------------------------------------------------------------------------
(* beginAccessByFileName: DokanReadFile, DokanWriteFile, and the truncation of *)
(* DokanCreateFile.                                                            *)

\* The lookup of a new access.  A file is truncated when it is opened, after the
\* device has been asked whether it is there.
BeginAccess(u, o) ==
  /\ pc[u] = "idle" /\ ops[u] < MaxOps /\ pc[Janitor] # "gone"
  /\ o \in Menu \cap {"read", "write", "clear"}
  /\ o = "clear" => device # NoFile
  /\ CacheAccess(u, "count", "create")
  /\ op' = [op EXCEPT ![u] = o]
  /\ ops' = [ops EXCEPT ![u] = @ + 1]
  /\ UNCHANGED <<mapVars, entry, granted, janVars, queueVars, workerVars,
                 deviceVars, ghostVars, missed>>

CreateForBegin(u) ==
  /\ pc[u] = "create"
  /\ CreateCacheEntry(u, "count")
  /\ UNCHANGED <<userVars, janVars, queueVars, workerVars, deviceVars,
                 ghostVars, missed>>

\* getReadAccess, getWriteAccess: the use is counted before it is granted.
CountAccess(u) ==
  /\ pc[u] = "count" /\ Alive(ptr[u])
  /\ entry' = IF Writing(u) THEN [entry EXCEPT ![ptr[u]].writes = @ + 1]
                            ELSE [entry EXCEPT ![ptr[u]].reads = @ + 1]
  /\ Goto(u, "status")
  /\ UNCHANGED <<mapVars, ptr, userVars, janVars, queueVars, workerVars,
                 deviceVars, ghostVars, missed>>

\* _getAccess: a writer waits for a push to end; a file that is here is granted;
\* anything else is pulled, even if another thread does so already.
GetAccess(u) ==
  LET s == entry[ptr[u]].status IN
  /\ pc[u] = "status" /\ Alive(ptr[u])
  /\ \/ /\ s = "PUSHING" /\ Writing(u)
        /\ Goto(u, "pushTest")
        /\ UNCHANGED granted
     \/ /\ \/ s \in {"AVAILABLE", "DIRTY"}
           \/ s = "PUSHING" /\ ~Writing(u)
        /\ Goto(u, "access")
        /\ granted' = [granted EXCEPT ![u] = TRUE]
     \/ /\ s \in {"NONEXISTANT", "PULLING", "FAIL"}
        /\ Goto(u, "pull")
        /\ UNCHANGED granted
  /\ UNCHANGED <<mapVars, entry, ptr, op, ops, janVars, queueVars, workerVars,
                 deviceVars, ghostVars, missed>>

\* _asyncPull looks at the status again, but only for PULLING: a pull that has
\* come and gone since GetAccess is repeated, over whatever was written meanwhile.
AsyncPull(u) ==
  LET e == ptr[u] IN
  /\ pc[u] = "pull" /\ Alive(e)
  /\ \/ /\ entry[e].status = "PULLING"
        /\ Goto(u, "pullTest")
        /\ UNCHANGED <<entry, unsafe>>
     \/ /\ entry[e].status # "PULLING"
        /\ SetStatus(e, "PULLING")
        /\ Goto(u, "pullEnq")
        /\ unsafe' = IF entry[e].status \in {"NONEXISTANT", "FAIL"}
                        /\ ~PullUnderWay(e)
                     THEN unsafe ELSE unsafe \cup {"latePull"}
  /\ UNCHANGED <<mapVars, ptr, userVars, janVars, queueVars, workerVars,
                 deviceVars, latest, missed>>

EnqueuePull(u) ==
  /\ pc[u] = "pullEnq" /\ Alive(ptr[u])
  /\ pulls' = Append(pulls, ptr[u])
  /\ Goto(u, "pullTest")
  /\ UNCHANGED <<mapVars, entry, ptr, userVars, janVars, pushes, workerVars,
                 deviceVars, ghostVars, missed>>

\* The two waiting loops of _getAccess.
AwaitPull(u) ==
  /\ pc[u] = "pullTest" /\ Alive(ptr[u])
  /\ Goto(u, IF entry[ptr[u]].status = "PULLING" THEN "pullGap" ELSE "pullCheck")
  /\ UNCHANGED <<mapVars, entry, ptr, userVars, janVars, queueVars, workerVars,
                 deviceVars, ghostVars, missed>>

\* After the loop the status is read again.  When another thread has begun a new pull
\* after one that failed, the access is granted in the midst of it.
CheckPull(u) ==
  LET s == entry[ptr[u]].status IN
  /\ pc[u] = "pullCheck" /\ Alive(ptr[u])
  /\ Goto(u, "access")
  /\ granted' = [granted EXCEPT ![u] = (s # "FAIL")]
  /\ unsafe' = IF s = "PULLING" THEN unsafe \cup {"grantedMidPull"} ELSE unsafe
  /\ UNCHANGED <<mapVars, entry, ptr, op, ops, janVars, queueVars, workerVars,
                 deviceVars, latest, missed>>

AwaitPush(u) ==
  /\ pc[u] = "pushTest" /\ Alive(ptr[u])
  /\ \/ entry[ptr[u]].status = "PUSHING" /\ Goto(u, "pushGap") /\ UNCHANGED granted
     \/ /\ entry[ptr[u]].status # "PUSHING" /\ Goto(u, "access")
        /\ granted' = [granted EXCEPT ![u] = TRUE]
  /\ UNCHANGED <<mapVars, entry, ptr, op, ops, janVars, queueVars, workerVars,
                 deviceVars, ghostVars, missed>>

\* A version that is nowhere yet.
FreshVersion ==
  CHOOSE v \in Versions :
    /\ v \notin {device, latest} \cup {entry[e].cache : e \in Entries}
    /\ \A w \in Versions :
         w < v => w \in {device, latest} \cup {entry[e].cache : e \in Entries}

\* The caller works on the local copy, under the path it was given ("ERROR" if the
\* access was refused).  A write needs the file to be there, a truncation makes it.
\* What a write leaves of a copy that is not whole is pushed over the whole file.
Access(u) ==
  LET e == ptr[u]
      content == IF op[u] = "clear" THEN Empty ELSE FreshVersion
      effective == /\ granted[u]
                   /\ op[u] = "clear" \/ (op[u] = "write" /\ entry[e].cache # NoFile)
  IN
  /\ pc[u] = "access"
  /\ entry' = IF effective THEN [entry EXCEPT ![e].cache = content] ELSE entry
  /\ latest' = IF effective THEN content ELSE latest
  /\ unsafe' = IF effective /\ op[u] = "write" /\ entry[e].cache \in Broken
               THEN unsafe \cup {"brokenRead"} ELSE unsafe
  /\ Goto(u, "endLookup")
  /\ UNCHANGED <<mapVars, ptr, userVars, janVars, queueVars, workerVars,
                 deviceVars, missed>>

\* endFileAccessByName looks the entry up again, and creates one if it is gone.
EndLookup(u) ==
  /\ pc[u] = "endLookup"
  /\ CacheAccess(u, "end", "endCreate")
  /\ UNCHANGED <<mapVars, entry, userVars, janVars, queueVars, workerVars,
                 deviceVars, ghostVars, missed>>

CreateForEnd(u) ==
  /\ pc[u] = "endCreate"
  /\ CreateCacheEntry(u, "end")
  /\ UNCHANGED <<userVars, janVars, queueVars, workerVars, deviceVars,
                 ghostVars, missed>>

\* (An access that was refused is not uncounted.)
Release_IfGranted(u, e) ==
  IF ~granted[u] THEN entry
  ELSE IF Writing(u) THEN [entry EXCEPT ![e].writes = @ - 1]
                     ELSE [entry EXCEPT ![e].reads = @ - 1]

\* endReadAccess, and the first half of endWriteAccess: the use is over, granted
\* or not.
Release(u, e) ==
  IF Writing(u) THEN [entry EXCEPT ![e].writes = @ - 1]
                ELSE [entry EXCEPT ![e].reads = @ - 1]

EndAccess(u) ==
  /\ pc[u] = "end" /\ Alive(ptr[u])
  /\ entry' = Release(u, ptr[u])
  /\ \/ Writing(u) /\ Goto(u, "dirty") /\ UNCHANGED <<ptr, granted>>
     \/ /\ ~Writing(u)
        /\ ptr' = [ptr EXCEPT ![u] = NoEntry]
        /\ granted' = [granted EXCEPT ![u] = FALSE]
        /\ Goto(u, "idle")
  /\ UNCHANGED <<mapVars, op, ops, janVars, queueVars, workerVars, deviceVars,
                 ghostVars, missed>>

\* The second half of endWriteAccess: the entry is dirty, even after a write that
\* was refused.
MarkDirty(u) ==
  /\ pc[u] = "dirty" /\ Alive(ptr[u])
  /\ SetStatus(ptr[u], "DIRTY")
  /\ unsafe' = IF granted[u] THEN unsafe ELSE unsafe \cup {"failedWrite"}
  /\ ptr' = [ptr EXCEPT ![u] = NoEntry]
  /\ granted' = [granted EXCEPT ![u] = FALSE]
  /\ Goto(u, "idle")
  /\ UNCHANGED <<mapVars, op, ops, janVars, queueVars, workerVars, deviceVars,
                 latest, missed>>

-----------------------------------------------------------------------------
(* pushIfDirty and _asyncPush, for the flush of a user and for the janitor.    *)

\* DokanFlushFileBuffers: pushSingleFile.
Flush(u) ==
  /\ pc[u] = "idle" /\ ops[u] < MaxOps /\ pc[Janitor] # "gone"
  /\ "flush" \in Menu
  /\ CacheAccess(u, "ifDirty", "idle")
  /\ op' = [op EXCEPT ![u] = "flush"]
  /\ ops' = [ops EXCEPT ![u] = @ + 1]
  /\ UNCHANGED <<mapVars, entry, granted, janVars, queueVars, workerVars,
                 deviceVars, ghostVars, missed>>

\* Where a push of actor a leads: a flush ends, a scan goes on to the entry's
\* idleness, a deletion waits for the push.
AfterPush(a) == IF a # Janitor THEN "idle"
                ELSE IF pc[a] \in {"dIfDirty", "dSetPush", "dEnqPush"}
                     THEN "dTest" ELSE "mark"
Done(a) == /\ Goto(a, AfterPush(a))
           /\ ptr' = IF a = Janitor THEN ptr ELSE [ptr EXCEPT ![a] = NoEntry]

PushIfDirty(a) ==
  /\ pc[a] \in {"ifDirty", "dIfDirty"} /\ Alive(ptr[a])
  /\ \/ /\ entry[ptr[a]].status = "DIRTY"
        /\ Goto(a, IF pc[a] = "ifDirty" THEN "setPush" ELSE "dSetPush")
        /\ UNCHANGED ptr
     \/ entry[ptr[a]].status # "DIRTY" /\ Done(a)
  /\ UNCHANGED <<mapVars, entry, userVars, janVars, queueVars, workerVars,
                 deviceVars, ghostVars, missed>>

\* The section of _asyncPush only asks for PUSHING: a push that is under way while
\* the entry is dirty again gets a second one beside it.
AsyncPush(a) ==
  LET e == ptr[a] IN
  /\ pc[a] \in {"setPush", "dSetPush"} /\ Alive(e)
  /\ \/ /\ entry[e].status = "PUSHING"
        /\ Done(a)
        /\ UNCHANGED <<entry, unsafe>>
     \/ /\ entry[e].status # "PUSHING"
        /\ SetStatus(e, "PUSHING")
        /\ Goto(a, IF pc[a] = "setPush" THEN "enqPush" ELSE "dEnqPush")
        /\ unsafe' = IF PushComing(e) \/ entry[e].status # "DIRTY"
                     THEN unsafe \cup {"doublePush"} ELSE unsafe
        /\ UNCHANGED ptr
  /\ UNCHANGED <<mapVars, userVars, janVars, queueVars, workerVars, deviceVars,
                 latest, missed>>

EnqueuePush(a) ==
  /\ pc[a] \in {"enqPush", "dEnqPush"} /\ Alive(ptr[a])
  /\ pushes' = Append(pushes, ptr[a])
  /\ Done(a)
  /\ UNCHANGED <<mapVars, entry, userVars, janVars, pulls, workerVars,
                 deviceVars, ghostVars, missed>>

-----------------------------------------------------------------------------
(* DokanCleanup of a file marked for deletion. *)

\* deleteCacheEntry: without sync, and without a look at users or requests.
DeleteCacheEntry(u) ==
  /\ pc[u] = "idle" /\ ops[u] < MaxOps /\ pc[Janitor] # "gone"
  /\ "delete" \in Menu
  /\ ~mapWriter /\ ~mapReader
  /\ op' = [op EXCEPT ![u] = "delete"]
  /\ ops' = [ops EXCEPT ![u] = @ + 1]
  /\ Goto(u, "node")
  /\ latest' = device
  /\ IF mapped = NoEntry THEN UNCHANGED <<mapVars, entry, unsafe>>
     ELSE /\ entry' = [entry EXCEPT ![mapped] = Destroyed(mapped)]
          /\ unsafe' = unsafe \cup DeletionFaults(mapped)
          /\ mapped' = NoEntry
          /\ UNCHANGED <<mapWriter, mapReader>>
  /\ UNCHANGED <<ptr, granted, janVars, queueVars, workerVars, deviceVars,
                 missed>>

\* _deleteNode: a tree request, served between two other requests.
DeleteNode(u) ==
  /\ pc[u] = "node" /\ wpc = "pull"
  /\ Goto(u, "idle")
  /\ \/ device' = NoFile /\ latest' = NoFile /\ UNCHANGED failures
     \/ DeviceFails /\ UNCHANGED <<device, latest>>
  /\ UNCHANGED <<mapVars, entry, ptr, userVars, janVars, queueVars, workerVars,
                 unsafe, missed>>

-----------------------------------------------------------------------------
(* The janitor: generalTimeBasedSync, and ~FileCache once the background job *)
(* is joined and the drives are unmapped.                                    *)

IsIdle(e) ==
  /\ entry[e].status \notin {"PULLING", "PUSHING", "DIRTY"}
  /\ entry[e].writes = 0 /\ entry[e].reads = 0

\* The loop over the map, under its read lock.
ScanBegin ==
  /\ pc[Janitor] = "rest" /\ rounds < MaxRounds
  /\ rounds' = rounds + 1
  /\ \/ /\ mapped = NoEntry
        /\ Goto(Janitor, "lock")
        /\ UNCHANGED <<mapVars, ptr>>
     \/ /\ mapped # NoEntry
        /\ mapReader' = TRUE
        /\ ptr' = [ptr EXCEPT ![Janitor] = mapped]
        /\ Goto(Janitor, "scan")
        /\ UNCHANGED <<mapped, mapWriter>>
  /\ UNCHANGED <<entry, userVars, victim, queueVars, workerVars, deviceVars,
                 ghostVars, missed>>

\* A dirty entry without a writer is pushed when it is old enough.
ScanPush ==
  LET e == ptr[Janitor] IN
  /\ pc[Janitor] = "scan"
  /\ \/ entry[e].status = "DIRTY" /\ entry[e].writes = 0 /\ Goto(Janitor, "ifDirty")
     \/ Goto(Janitor, "mark")
  /\ UNCHANGED <<mapVars, entry, ptr, userVars, janVars, queueVars, workerVars,
                 deviceVars, ghostVars, missed>>

\* An idle one is put on the list when it is old enough.
ScanMark ==
  /\ pc[Janitor] = "mark"
  /\ \/ IsIdle(ptr[Janitor]) /\ victim' = TRUE
     \/ victim' = FALSE
  /\ mapReader' = FALSE
  /\ ptr' = [ptr EXCEPT ![Janitor] = NoEntry]
  /\ Goto(Janitor, "lock")
  /\ UNCHANGED <<mapped, mapWriter, entry, userVars, rounds, queueVars,
                 workerVars, deviceVars, ghostVars, missed>>

\* The list is worked off under the write lock, without another look at the use
\* of the entry.
DeleteOld ==
  /\ pc[Janitor] = "lock"
  /\ \/ /\ victim /\ mapped # NoEntry
        /\ mapWriter' = TRUE
        /\ ptr' = [ptr EXCEPT ![Janitor] = mapped]
        /\ Goto(Janitor, "dIfDirty")
        /\ UNCHANGED victim
     \/ /\ ~victim \/ mapped = NoEntry
        /\ Goto(Janitor, "rest")
        /\ victim' = FALSE
        /\ UNCHANGED <<mapWriter, ptr>>
  /\ UNCHANGED <<mapped, mapReader, entry, userVars, rounds, queueVars,
                 workerVars, deviceVars, ghostVars, missed>>

\* ~FileCache: every entry is deleted under the write lock.
Unplug ==
  /\ pc[Janitor] = "rest"
  /\ \A u \in Users : pc[u] = "idle"
  /\ \/ /\ mapped # NoEntry
        /\ mapWriter' = TRUE
        /\ ptr' = [ptr EXCEPT ![Janitor] = mapped]
        /\ Goto(Janitor, "dIfDirty")
     \/ /\ mapped = NoEntry
        /\ Goto(Janitor, "gone")
        /\ UNCHANGED <<mapWriter, ptr>>
  /\ UNCHANGED <<mapped, mapReader, entry, userVars, janVars, queueVars,
                 workerVars, deviceVars, ghostVars, missed>>

\* ~FileTableEntry: after pushIfDirty, wait until no push is under way ...
DeleteAwaitsPush ==
  /\ pc[Janitor] = "dTest"
  /\ \/ entry[ptr[Janitor]].status = "PUSHING" /\ Goto(Janitor, "dGap")
     \/ entry[ptr[Janitor]].status # "PUSHING" /\ Goto(Janitor, "dFile")
  /\ UNCHANGED <<mapVars, entry, ptr, userVars, janVars, queueVars, workerVars,
                 deviceVars, ghostVars, missed>>

\* (The entry is deleted but not erased from the map.)
DeleteEntry_NotErased ==
  LET e == ptr[Janitor] IN
  /\ pc[Janitor] = "dFile"
  /\ entry' = [entry EXCEPT ![e] = Destroyed(e)]
  /\ mapWriter' = FALSE /\ ptr' = [ptr EXCEPT ![Janitor] = NoEntry] /\ victim' = FALSE
  /\ Goto(Janitor, IF victim THEN "rest" ELSE "gone")
  /\ UNCHANGED <<mapped, mapReader, userVars, rounds, queueVars, workerVars, deviceVars,
                 ghostVars, missed>>

\* ... and remove the local copy and the entry, whatever became of the push.
DeleteEntry ==
  LET e == ptr[Janitor] IN
  /\ pc[Janitor] = "dFile"
  /\ entry' = [entry EXCEPT ![e] = Destroyed(e)]
  /\ unsafe' = unsafe \cup DeletionFaults(e) \cup
                 (IF entry[e].status = "DIRTY" THEN {"deletedUnsynced"} ELSE {})
  /\ mapped' = NoEntry /\ mapWriter' = FALSE
  /\ ptr' = [ptr EXCEPT ![Janitor] = NoEntry]
  /\ victim' = FALSE
  /\ Goto(Janitor, IF victim THEN "rest" ELSE "gone")
  /\ UNCHANGED <<mapReader, userVars, rounds, queueVars, workerVars, deviceVars,
                 latest, missed>>

-----------------------------------------------------------------------------
(* The worker: the two file handlers of ConnectionSync and what they do to the *)
(* device, and the callbacks of the entry.                                     *)

WorkerGoto(p) == wpc' = p /\ UNCHANGED cur

TakePull ==
  /\ wpc = "pull"
  /\ \/ /\ pulls # <<>>
        /\ cur' = Head(pulls) /\ pulls' = Tail(pulls)
        /\ wpc' = "pullOpen"
     \/ /\ pulls = <<>>
        /\ WorkerGoto("push") /\ UNCHANGED pulls
  /\ UNCHANGED <<mapVars, entry, pc, ptr, userVars, janVars, pushes, good,
                 deviceVars, ghostVars, missed>>

TakePush ==
  /\ wpc = "push"
  /\ \/ /\ pushes # <<>>
        /\ cur' = Head(pushes) /\ pushes' = Tail(pushes)
        /\ wpc' = "pushOpen"
     \/ /\ pushes = <<>>
        /\ WorkerGoto("pull") /\ UNCHANGED pushes
  /\ UNCHANGED <<mapVars, entry, pc, ptr, userVars, janVars, pulls, good,
                 deviceVars, ghostVars, missed>>

\* _threadHandleFilePullReq: no file, no pull; otherwise the local copy is cut to
\* nothing and filled from the device.
PullOpen ==
  /\ wpc = "pullOpen"
  /\ IF device = NoFile
     THEN WorkerGoto("pullDone") /\ good' = FALSE /\ UNCHANGED entry
     ELSE /\ WorkerGoto("pullRead") /\ UNCHANGED good
          /\ entry' = [entry EXCEPT ![cur].cache = Empty]
  /\ UNCHANGED <<mapVars, pc, ptr, userVars, janVars, queueVars, deviceVars,
                 ghostVars, missed>>

\* contentToStream fails when the stream cannot be opened; a read that breaks off ends
\* the file, and the pull is answered as done.
PullRead ==
  /\ wpc = "pullRead"
  /\ \/ /\ entry' = [entry EXCEPT ![cur].cache = device]
        /\ good' = TRUE /\ UNCHANGED failures
     \/ DeviceFails /\ good' = FALSE /\ UNCHANGED entry
     \/ /\ DeviceFails /\ good' = TRUE
        /\ \E c \in Broken : entry' = [entry EXCEPT ![cur].cache = c]
  /\ WorkerGoto("pullDone")
  /\ UNCHANGED <<mapVars, pc, ptr, userVars, janVars, queueVars, device,
                 ghostVars, missed>>

\* (A pull that fails leaves the status alone.)
PullDone_OnlyGood ==
  /\ wpc = "pullDone" /\ Alive(cur)
  /\ IF good THEN SetStatus(cur, "AVAILABLE") ELSE UNCHANGED entry
  /\ WorkerGoto("notify") /\ good' = FALSE
  /\ UNCHANGED <<mapVars, pc, ptr, userVars, janVars, queueVars, deviceVars,
                 ghostVars, missed>>

\* AvabilitySwitcher::callback.
PullDone ==
  /\ wpc = "pullDone" /\ Alive(cur)
  /\ SetStatus(cur, IF good THEN "AVAILABLE" ELSE "FAIL")
  /\ WorkerGoto("notify") /\ good' = FALSE
  /\ UNCHANGED <<mapVars, pc, ptr, userVars, janVars, queueVars, deviceVars,
                 ghostVars, missed>>

\* _threadHandleFilePushReq: a local copy that is missing or empty is not pushed.
PushOpen ==
  /\ wpc = "pushOpen"
  /\ WorkerGoto(IF entry[cur].cache \in {NoFile, Empty, Headless}
                THEN "pushDone" ELSE "pushDelete")
  /\ good' = FALSE
  /\ UNCHANGED <<mapVars, entry, pc, ptr, userVars, janVars, queueVars,
                 deviceVars, ghostVars, missed>>

\* writeFile: the file on the device, which must be there, is deleted ...
PushDelete ==
  /\ wpc = "pushDelete"
  /\ \/ /\ device # NoFile
        /\ device' = NoFile
        /\ WorkerGoto("pushCreate")
        /\ UNCHANGED failures
     \/ device = NoFile /\ WorkerGoto("pushDone") /\ UNCHANGED deviceVars
     \/ device # NoFile /\ DeviceFails /\ WorkerGoto("pushDone") /\ UNCHANGED device
  /\ UNCHANGED <<mapVars, entry, pc, ptr, userVars, janVars, queueVars, good,
                 ghostVars, missed>>

\* ... and made again from the local copy.
PushCreate ==
  /\ wpc = "pushCreate"
  /\ \/ device' = entry[cur].cache /\ good' = TRUE /\ UNCHANGED failures
     \/ DeviceFails /\ UNCHANGED <<device, good>>
  /\ WorkerGoto("pushDone")
  /\ UNCHANGED <<mapVars, entry, pc, ptr, userVars, janVars, queueVars,
                 ghostVars, missed>>

\* (Whatever the status has become.)
PushResult_Always(s) == IF good THEN "AVAILABLE" ELSE "DIRTY"
\* AvabilitySwitcher2::callback: only an entry still PUSHING changes.
PushResult(s) == IF s # "PUSHING" THEN s ELSE IF good THEN "AVAILABLE" ELSE "DIRTY"

PushDone ==
  /\ wpc = "pushDone" /\ Alive(cur)
  /\ SetStatus(cur, PushResult(entry[cur].status))
  /\ WorkerGoto("notify") /\ good' = FALSE
  /\ UNCHANGED <<mapVars, pc, ptr, userVars, janVars, queueVars, deviceVars,
                 ghostVars, missed>>

Notify ==
  /\ wpc = "notify" /\ Alive(cur)
  /\ NotifyAll(cur)
  /\ wpc' = "pull" /\ cur' = NoEntry
  /\ UNCHANGED <<mapVars, entry, ptr, userVars, janVars, queueVars, good,
                 deviceVars, ghostVars>>

-----------------------------------------------------------------------------
Call(u) ==
  \/ \E o \in Operations : BeginAccess(u, o)
  \/ Flush(u) \/ DeleteCacheEntry(u)

UserStep(u) ==
  \/ CreateForBegin(u) \/ CountAccess(u) \/ GetAccess(u) \/ AsyncPull(u)
  \/ EnqueuePull(u) \/ AwaitPull(u) \/ CheckPull(u) \/ AwaitPush(u) \/ Access(u)
  \/ EndLookup(u) \/ CreateForEnd(u) \/ EndAccess(u) \/ MarkDirty(u)
  \/ DeleteNode(u)

PushStep(a) == PushIfDirty(a) \/ AsyncPush(a) \/ EnqueuePush(a) \/ FallAsleep(a)

JanitorStep == ScanPush \/ ScanMark \/ DeleteOld \/ DeleteAwaitsPush \/ DeleteEntry

WorkerStep ==
  \/ TakePull \/ PullOpen \/ PullRead \/ PullDone
  \/ TakePush \/ PushOpen \/ PushDelete \/ PushCreate \/ PushDone
  \/ Notify

Next ==
  \/ \E u \in Users : Call(u) \/ UserStep(u)
  \/ \E a \in Actors : PushStep(a) \/ SpuriousWakeup(a)
  \/ ScanBegin \/ JanitorStep \/ Unplug
  \/ WorkerStep

Spec == Init /\ [][Next]_vars

\* Threads are scheduled, and the device answers.
Fairness ==
  /\ \A u \in Users : WF_vars(UserStep(u))
  /\ \A a \in Actors : WF_vars(PushStep(a))
  /\ WF_vars(JanitorStep)
  /\ WF_vars(WorkerStep)
FairSpec == Spec /\ Fairness

-----------------------------------------------------------------------------
(* Properties *)

\* A write or truncation is done with the local copy of entry e but has not marked
\* the entry dirty yet.
WriteToMark(e) ==
  \E u \in Users : /\ granted[u] /\ Writing(u)
                   /\ \/ pc[u] = "endLookup" /\ mapped = e
                      \/ pc[u] \in {"end", "dirty"} /\ ptr[u] = e

\* What a user has written last is on the device, or it is in the local copy of an
\* entry that will be pushed.
WriteIsKept ==
  \/ device = latest
  \/ /\ mapped # NoEntry /\ entry[mapped].cache = latest
     /\ entry[mapped].status \in {"DIRTY", "PUSHING"} \/ WriteToMark(mapped)

\* FileCache::_getAccess, _asyncPull, _asyncPush, the callbacks and the deletions:
\* a write is lost in no other way than through the faults the model names, each
\* an interleaving (or a failure of the device) that the code lets happen.
WritesKeptUnlessFaulty == unsafe = {} => WriteIsKept

\* AvabilitySwitcher::callback, AvabilitySwitcher2::callback, _asyncPull, _asyncPush:
\* an entry is PULLING only while a pull of it is on its way to the worker or with
\* it, and PUSHING only while a push is; so nobody waits for a request that is over.
NoOrphanWait ==
  \A e \in Entries : Alive(e) =>
    /\ entry[e].status = "PULLING" => PullComing(e)
    /\ entry[e].status = "PUSHING" => PushComing(e)

\* getReadAccess .. endReadAccess, getWriteAccess .. endWriteAccess: as long as no
\* entry is deleted while it is in use, the counts of the entry are the accesses
\* that have begun and not ended, refused ones included.
Accessing(e) ==
  {u \in Users : ptr[u] = e /\ pc[u] \in {"status", "pull", "pullEnq", "pullTest",
     "pullGap", "pullSleep", "pullCheck", "pushTest", "pushGap", "pushSleep",
     "access", "endLookup", "end"}}
UseCounts ==
  "deletedInUse" \notin unsafe =>
    \A e \in Entries : Alive(e) =>
      /\ entry[e].writes = Cardinality({u \in Accessing(e) : Writing(u)})
      /\ entry[e].reads  = Cardinality({u \in Accessing(e) : ~Writing(u)})

\* _createCacheEntry and the deletions: the entry in the map is the only one there is,
\* so that two threads never have two local copies of one file.
OneEntry == \A e \in Entries : Alive(e) => e = mapped

\* Every access, flush and deletion comes to its end, unless a notification has been
\* missed or an entry deleted while threads or requests still had it.
CallsReturnUnlessMissed ==
  \A u \in Users :
    pc[u] # "idle" ~>
      \/ pc[u] = "idle" \/ missed # {}
      \/ unsafe \cap {"deletedInUse", "deletedUnderRequest"} # {}
=============================================================================
