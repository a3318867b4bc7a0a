# mtpmount: formal models

mtpmount is a Windows daemon that mounts the storages of MTP devices (phones) as drives.
This directory holds TLA+ models of its core, from the locks to the processes, the TLC
configurations that check them and proofs for the TLA+ proof system. Every definition is translated from the C++
source; `PROJECT.json` gives the lines for each.

## 1. The system

| component | source | state | operations | hard because | right when |
|---|---|---|---|---|---|
| reader-writer lock `ParalellReadUniqueWriteSync` | `mtpaccess/Utils.*` | reader count, two flags, one mutex held by the writer | get/end read/write access | condition variables waited on with a mutex of the call | excludes, counts, prefers writers, nobody sleeps for ever |
| `ConnectionSync`, `WaitOnResult` | `mtpcache/ConnectionSync.*` | three request queues, wake flag, stop flag, drives | enqueue and do requests, map/unmap drive, worker loop, destructor | callbacks from the worker thread, wake-ups, three mutexes | each caller gets its own answer; order kept; worker never idle over work |
| `FileCache`, `FileCacheBackgroundJob` | `mtpcache/FileCache.*` | map of entries; per entry a status, use counts, ages, local copy | begin/end access, flush, delete, rename/move, time based sync, destructor | drive threads, janitor and worker on one entry; pointers outlive locks; device failures | written content reaches the device; copies are there while used |
| `AbstractMappableDrive` | `mtpaccess/AbstractConnection.*` | none of its own (cached tree) | look up, read, write, create, delete, rename, move, copy | multi-step changes that fail half way | tree changes all or nothing |
| `MtpMappableDrive`, `MtpFsDirectory` | `mtpaccess/MtpTransfer.*` | child cache of each directory | enumerate, create, delete, rename | cache against device | cache agrees with device after each change |
| `MtpConnectionProvider` | `mtpaccess/ConnectionProvider.*` | open connections with counts | open, close | counts | a connection lives while it is used |
| `DokanDriveWrapper` | `dokanconnect/*` | mount status | callbacks of the drive, mount, unmount | callbacks on many threads, handshake | status is never missed |
| `MountCommands` | `mtpmount/MountCommands.*` | connections by device, drives by letter | mount, unmount, unplug, list | order of destruction | nothing is destroyed under its users; unplug has synced |
| IPC | `mtpmount/IPC.*`, `MtpMountEntry.cpp` | mail slots, the cache directory they all use | command, listen, start, exit | processes that end, start and probe at the same time; lost messages | an answer belongs to its command; one daemon at a time |
| `SubCommandLibrary` | `mtpmount/SubCommandLibrary.*` | table of commands | look up and run | - | - |
| `Utils` algorithms | `mtpaccess/Utils.*` | set of used hashes | paths, tokenizer, hash names, drive letters | edge values | agree with their definitions |
| test file system, tests, experimental tools | `mtpaccess/TestFileSystem.*`, `tests/` | - | - | - | not part of the program |

How they interact. Dokan calls `DokanDriveWrapper` on threads of its own. A callback that
needs content calls `FileCache` (`beginAccessByFileName`, works on the local copy,
`endFileAccessByName`); one that needs the tree sends a request to `ConnectionSync` and
waits. `FileCache` guards its map with the reader-writer lock and sends pulls and pushes to
`ConnectionSync`, whose single worker thread calls the device (`AbstractMappableDrive`) and
then the callback in the request: `WaitOnResult` for a synchronous request, a member of the
cache entry for a pull or push. The background job walks the map, pushes dirty files and
deletes idle ones. `ActiveConnection` owns one `ConnectionSync`, one `FileCache` and the
drives of a device and destroys them in the order drives, background job, cache, connection.

The hazards of the code, each at its line with the properties that cover it or the reason
none does yet, are listed in `PROJECT.json`.

## 2. Modules

| module | models | composed of |
|---|---|---|
| `RWLock` | abstract reader-writer lock: two sets of threads, four actions | |
| `RWSync` | `ParalellReadUniqueWriteSync` in its critical sections | implements `RWLock` |
| `ConnSync` | `ConnectionSync` with its worker, clients, `WaitOnResult`, destructor | |
| `FileCache` | one file of `FileCache`: entry, users, janitor, worker, device | cache, request queues, device |
| `CacheMap` | several files of `FileCache`: the map and its lock, moves, deletions, listings | drive callbacks, cache, request queues, device |
| `DriveTree` | abstract tree of a drive: a set of paths with contents | |
| `DeviceTree` | `AbstractMappableDrive`, `MtpFsDirectory` and the tree requests | implements `DriveTree`; drive callbacks, tree, cache of listings, device |
| `Mount` | `MountAddressStore`, `MtpConnectionProvider`, the handshake of `DokanDriveWrapper` | commands, connections, drives |
| `IPC` | controllers, daemons and their mail slots | |
| `MC...` | constants and symmetry for TLC | |
| `RWSyncProofs`, `ConnSyncProofs`, `FileCacheProofs`, `CacheMapProofs`, `DeviceTreeProofs`, `MountProofs`, `IPCProofs` | the theorems about the module they are named after (section 4) | |
| `QueueTheorems` | what `Append` and `Tail` do to the set of what waits in a queue, and to its having no element twice; used by the proofs about queues | |

### Conventions

* A section under a mutex is one action. Everything between two sections that another
  thread can see is a step of its own, with a control point named after it.
* All waits of this program lock a `std::mutex` that is local to the call. It protects
  nothing, so between the last test of the condition and the sleep there is a window in
  which `notify` reaches nobody. The models have a control point for it (`Gap`), a ghost
  `missed` for threads that were notified there, and spurious wake-ups everywhere a thread
  sleeps.
* The mutated forms of definitions (`Restart_Push`, `Release_IfGranted`, ...) are not used
  by any specification. Each breaks a property that the original keeps.

### RWSync

`readAccesses`, `writeAccess`, `writeRequest` are the fields; `writeMtx` is the thread that
holds `_writeMtx`; `pc[t]` walks through the four methods (`rTest`, `rGap`, `rWait`,
`reading`, `rNotify`; `wLock`, `wReq`, `wTest`, `wGap`, `wWait`, `writing`, `wNotify`,
`wUnlock`). `ReadTest` and `WriteTest` are the sections with the loop test and, when it
fails, the assignments after the loop. `EndWriteAccess`, `WriteNotify` and `WriteUnlock` are
three steps, as in the code. The refinement maps `readers` and `writers` of `RWLock` to the
threads at `reading` and `writing`.

### ConnSync

`queue[k]` are the three queues (`tree`, `pull`, `push`), `wakeFlag`
`_threadStopCondVarUnlocked`, `wpc` the worker in `ConnectionSyncThreadRoutine`: it asks the
handlers in turn (`HandleNothing`, `HandleTake`), serves (`Serve`), calls back
(`CallbackSuccess`, `CallbackUnlock`, `CallbackNotify`), restarts at the tree queue, and
yields (`StopCheck`, `YieldTest`, `YieldSleep`). A request is a pair of client and number;
`wait[r]` is its `WaitOnResult`, `alive` until `wait()` returns. Clients push and then set
the flag and notify (`Enqueue`, `Wakeup`, `WakeupNotify`), and wait (`Wait`, `WaitTest`,
`WaitSleep`). What the device does is a free choice of success.

* The stores to `success` and `unlocked` are plain; they are taken in program order, as the
  x86 builds of the project files (`Win32`, `x64`) do.
* `DestroyBegin` requires all clients idle and no `WaitOnResult` alive: that is what
  `~ActiveConnection` guarantees by destroying drives, job and cache first. Requests nobody
  waits for may still be queued.
* `_myDrives` is changed and looked up without a lock; the model keeps each atomic.

### FileCache

One file on one drive. `entry` are the `FileTableEntry` objects that ever exist for it
(`life`: unborn, alive, deleted), `mapped` the one in `_cachemap`; `mapWriter`/`mapReader`
say that the janitor holds `_cachemapLock` over several steps. `pc[u]`, `ptr[u]`, `op[u]`
say where a drive thread is and with which entry. The local copy is a field of the entry
because `ConflictlessHashProvider` never gives a name twice.

| steps | code |
|---|---|
| `BeginAccess`, `CreateForBegin`, `CountAccess`, `GetAccess`, `AsyncPull`, `EnqueuePull`, `AwaitPull`, `CheckPull`, `AwaitPush`, `Access`, `EndLookup`, `CreateForEnd`, `EndAccess`, `MarkDirty` | `beginAccessByFileName` .. `endFileAccessByName` as called by read, write and truncating open |
| `Flush`, `PushIfDirty`, `AsyncPush`, `EnqueuePush` | `pushSingleFile`; the last three also for the janitor |
| `DeleteCacheEntry`, `DeleteNode` | `DokanCleanup` of a deleted file |
| `ScanBegin`, `ScanPush`, `ScanMark`, `DeleteOld`, `DeleteAwaitsPush`, `DeleteEntry` | `generalTimeBasedSync` and `~FileTableEntry` |
| `Unplug` | `~FileCache` |
| `TakePull`, `PullOpen`, `PullRead`, `PullDone`, `TakePush`, `PushOpen`, `PushDelete`, `PushCreate`, `PushDone`, `Notify` | the worker with the file handlers of `ConnectionSync`, `readFile`, `writeFile` and the callbacks of the entry |

Abstractions:

* A content is a token: nothing, empty, a piece of something, the original, a version. A
  write replaces the content.
* The device may refuse an operation or break off a read (`MaxFailures` times). A read that
  breaks off is answered as done, with part of the file or nothing of it in the copy
  (`PullRead`): `contentToStream` does not look at the result of `Read`.
* `_getAccess` reads the status once to leave its loop (`AwaitPull`) and once more to see
  whether the pull has failed (`CheckPull`), with no lock over the two.
* The ages the janitor asks for are a free choice; the `_interrupt...` flags, which only end
  its loops early, do not matter for a single file.
* The reads of `isIdle` and `accessClear` for one entry are one step, and so are those of
  `isDirty` and `writeAccessClear` before a push.
* A truncating open asks the device for the file and looks the entry up in one step.
* The worker's lost wake-up is in `ConnSync`; here the worker is always willing.
* Using a deleted entry is undefined in C++. A thread (or the worker) that would do so stops
  in the model; `unsafe` has recorded the deletion, and every property that could be affected
  is stated for behaviours without it.

The ghost `unsafe` collects the faults a behaviour has gone through: `latePull` (a pull
started over an entry that was pulled meanwhile), `doublePush` (a second push beside one
under way), `failedWrite` (a refused write marks the entry dirty), `grantedMidPull` (between
`AwaitPull` and `CheckPull` another thread has the entry pulled again, so that the failed
pull is not noticed), `brokenRead` (a write goes to the copy that a broken read has left),
`deletedInUse`,
`deletedUnderRequest`, `deletedUnsynced` (an entry deleted while a thread has it, a request
of it is under way, or it is dirty). `latest` is what users gave last.

### CacheMap

`map` is `_cachemap`, `writer` the holder of `_cachemapLock` for writing, `entry` the entries
with their status, path, use counts and `home`, where the file is whose content they hold.
`client[u]` says what a thread of the drive is doing, `jan` where the janitor is, `worker`
whether the worker is in a callback that needs the map. The requests carry the path they
were made with.

| steps | code |
|---|---|
| `Begin`, `AwaitAccess`, `CheckAccess`, `Access`, `EndAccess` | an access, as in `FileCache` but begun in one step |
| `Call`, `Exists`, `Forget`, `Forgotten`, `MoveNode`, `LockMap`, `IsDir`, `Rebind`, `Rebinding`, `RebindAll`, `CacheRebinder`, `UnlockMap` | `DokanMoveFile` and `moveOrRenameInode` |
| `Delete`, `Unlink`, `DeleteNode` | `DokanCleanup` of a deleted file |
| `Listing`, `EndListing` | `DokanFindFiles`, whose callback asks for file sizes |
| `Scan`, `LockForDeletion`, `DeleteThese`, `EndDeletion` | `generalTimeBasedSync` |
| `ServePull`, `ServePush` | the worker |

The device may refuse every pull and every push, and break it off, any number of times: a
refused pull leaves no copy that counts (the copy it leaves is empty or was there before), one
that breaks off is answered as done with `Part` of the file (`brokenRead`), a push that is
refused leaves the entry dirty, and one that breaks off has deleted the file that it replaces
(`brokenPush`). The destructor does not try again when its push is refused (`refusedPush`).
`Forget` finds an entry under the new path only when a file is moved: the new path of a
directory is not that of a file.

The header of the module names the faults the code allows; `WrittenIsKept` and
`EntriesAreAtHome` hold until one of them happens. Two of them are as wide as they are
because the proof needed it: `betweenDeletes` is also the rebind of an entry to a path
whose file another thread is about to delete, and `strayEntry` also the rebind of an entry
that holds a copy of another file than the one that was moved (made at the old path since
the move, or moved there by a second mover). Both take four threads. `Stuck` names the two ways the threads can
wait for each other: the worker lists a directory and needs the map while its holder waits
for the worker, and the worker rebinds over a dirty entry and waits for itself. A deletion
of an entry in use (`freed`) ends the behaviour.

### DeviceTree

`dev` are the objects on the device, `kids` the listings cached below `MtpFsDirectory`
nodes. The worker is alone, so a request is one step (`Serve`), but inside it every call of
the device may fail: an operation is the set of its outcomes, and `Then` chains them as the
C++ chains calls and early returns. What the code does by recursion is a run of steps over a
stack of frames, one frame for each call of `deleteMe` (`Enter`, `DeleteStep`) or of
`CopyAllStuffThatIsInsideADirectory` (`Frame`, `CopyStep`) that has not returned; `MaxSteps`
bounds the run. `_filePathToNode` and the paths of objects (`View`) are functions over an
interval, and what `deleteSubCache` frees is the smallest set of listings closed under going
down (`Below`). None of it is a RECURSIVE operator, so the prover can reason about it.
`_evaluateChildren` appends what it finds to the nodes that are there (`Listed`), so `deleteMe`
deletes first the nodes it had and then those it listed. A new object gets an id that was
given to none before (`taken`): the handles of an MTP session are not used again, and a
request may hold the node of an object it has deleted. `Call` starts a callback of the drive; `Request` and `StepAfter`
are the requests it makes one after the other, between which those of other threads are
served. `last` is the request served last with its answer; `trouble` what failed
before; `half` is noted when a refused request has changed the tree. `dangling`
in it means that a freed node was used and the worker is lost. Every rename that the device
accepts may end so (`Rename`, `UseFreed`): `deleteSubCache` of the parent frees the node, and
`rename` then reads its `_usedConnection` (`MtpTransfer.cpp:839`, `:841`). What comes of it is
undefined, so there are two outcomes: the memory still holds the pointer and the request ends
as it should, or it does not.

The refinement maps the tree of objects to the set of its paths. `DriveTree` promises that a
request is done completely or refused without a change as long as nothing has failed, and
that whatever fails, nothing changes away from the paths of the request.

Names are compared as they are (the drive ignores case; the instance has no two names that
differ in it). The failures are those the code can meet: a listing that breaks off, an
exception while properties are read, a creation, read, deletion or renaming that fails, a
device that is full.

### Mount

`pool` are the connections of the provider with their counts, `conn` the `ActiveConnection`
of each device, `ids` the numbers `toStorageEnum` has given, `drive` the wrappers with their
letter and mount status. `main` is the one thread that executes commands, with the steps of
constructor and destructor of `DokanDriveWrapper` in which it meets the thread of Dokan
(`CtorTest`, `DtorTest`, with the window before the wait). The environment plugs, unplugs
and locks devices, ejects drives and takes letters.

What a connection finds on its device (`LookForMappableDrives`, `MapNewDrive`,
`ListAvailable`) is a set of outcomes: the list cannot be had, or any of the media are listed
and the others skipped because their properties could not be read
(`MtpTransfer.cpp:87-91`, `:109-129`). `overlooked` are those that the list read last left
out. A list that is not empty is never read again, forced or not (`:47`), so that a medium
once overlooked beside another stays so while the connection lives. For a medium that is
mapped already `mount` gives the answer of a new drive, with the letter it was asked for
(`AnswerAgain`; `MountCommands.cpp:49-52`, `:438-442`); the field `again` of `answer` is a
ghost that tells the two apart. A letter that Dokan refuses is answered like a medium that
was not found (`:67-70`). After a property that could not be read the code compares with a
string that was never set (`MtpTransfer.cpp:118-126`); of what may follow the model has that
the medium is skipped or listed.

### IPC

`owner` and `box` are the mail slots and what is in them, `ctl` the controllers, `dae` the
daemons ever started. A probe is two steps because it really creates the slot. `unsynced`
are daemons with files in the cache that the device has not got, and `ClaimCache` takes them
away, as `CacheLocationProvider` empties the directory. `stale` marks those that act on a
probe that is older than the slot of a daemon.

## 3. Runs

| run | instance | shows |
|---|---|---|
| `rw` | 4 threads, 2 accesses each, fair | exclusion, owed sleepers, writer preference, refinement of `RWLock`; accesses return unless a notification is missed |
| `conn_safety` | 2 clients, 3 requests, 1 drive | own answer, owed worker and clients, overtaking at most once |
| `conn_live` | 2 clients, 2 requests, fair | answers, waits and the join arrive unless a notification is missed |
| `conn_dangling` | 1 request | **violated**: `WaitOnResult` is gone when the worker notifies it (`ConnectionSync.h:173`) |
| `cache_safety` | 2 users, 1 operation each of all five kinds, 1 janitor round, 2 entries, 1 failure | writes are kept but for the named faults; no wait without a request; use counts; one entry |
| `cache_live` | 2 users, reads and writes, fair | accesses return unless a notification is missed or an entry deleted under them |
| `map` | 3 threads with menus of their own, 2 paths, 3 entries, 1 janitor round, any number of refusals and broken transfers, fair | writes and entries follow a file that is moved, but for the named faults; calls return unless stuck in one of the two named ways |
| `tree` | 2 threads, 2 calls, 5 objects on 3 levels, 7 paths, 1 failure | refinement of `DriveTree`; what moves, removed directories and stale listings can do at most |
| `tree_move` | 1 thread, no failure | **violated**: a directory cannot be moved to another directory (`AbstractConnection.cpp:286`) |
| `mount` | 1 device, 2 storages, 3 letters, 3 commands, 2 events, fair | what `mount` answers about a new drive is true, and about one that is mapped already it is not; a medium is not found only if it is locked, gone or overlooked; shared connections are counted; only ejected drives end badly; commands are answered unless a notification is missed |
| `mount_unplug` | 1 device, 1 storage | **violated**: unplug leaves the device open (`MountCommands.cpp:172`) |
| `ipc` | 3 controllers, 1 fault, fair | own answers; dropped commands and harmed daemons only as named; every command ends otherwise |

Bounds. `MaxOps`, `MaxReqs`, `MaxTotal`, `MaxDrives`, `MaxRounds`, `MaxEntries`,
`MaxFailures`, `MaxCalls`, `MaxFaults`, `MaxCommands`, `MaxEvents` bound how often something
is begun or fails, never how it goes on; `MaxId` is what the device has room for: with nine
objects the copy of a directory can still meet a device that is full. `MaxSteps` is larger than
the number of frames and children that a deletion or a copy in a tree of nine objects goes
through: with 80 in the place of 40 the run has the same states. Four threads in the lock give two readers beside two writers that compete for
`_writeMtx`, and the second access lets each of them come back. Three requests are the
fewest in which one waits while two of lower priority are taken. Two users, the janitor and
the worker are the four actors that can meet at one entry; two entries allow one deletion and
re-creation in the middle of an access, and one operation per user is enough for every fault
named. In `map` every two operations that can hurt each other are in the menus of two
threads, and a third one writes or reads meanwhile; three entries allow for two paths and one
that is made again, and with a fourth the run has the same states. The tree has a file on the second and third level and an empty directory, so that
moves go up, down and aside, and over files; two calls are enough for one thread to change
the tree between two requests of another. In `mount` three commands are mount, unmount and
mount again, with two events between them. Three controllers are one that probes, one that
starts a daemon and one that is misled. Clients, threads, users and devices are
interchangeable, so most safety runs use symmetry; the runs with liveness do not. Deadlock
checking is off because bounded instances end, and because a thread that missed its
notification, or that waits in a circle, really stops.

Fairness. Weak fairness of what has begun (`Step`, `ClientStep`, `UserStep`, `WorkerStep`,
`Worker`, `Controller`, `Daemon`, ...): the operating system schedules threads and
processes, mutexes are held for short sections only, and a device call ends with success or
failure. Nothing obliges a client to make a request, the user to start or kill anything, the
device to fail, or a condition variable to wake anybody spuriously. Since notifications can
be lost, the liveness properties hold under the condition that none is; `IPC` has no
notifications, and the conditions are the lost messages and dead daemons that a controller
without a time-out waits for.

### What the code lets happen

Besides the three violated properties the runs found the exceptions that the properties
name; each has a trace that TLC prints when the exception is struck from the property.

* `RWSync`, `ConnSync`, `FileCache`, `Mount`: a notification between the last test and the
  wait is lost (`Utils.cpp:395`, `:420`, `ConnectionSync.cpp:63`, `ConnectionSync.h:180`,
  `FileCache.cpp:203`, `:220`, `:356`, `DokanDriveWrapper.cpp:54`, `:82`).
* `FileCache`: two threads open a new file and the pull of the second overwrites what the
  first has written (`latePull`, `FileCache.cpp:168`); a refused write makes the entry dirty
  and a piece of a file is pushed (`failedWrite`, `:259`); the janitor deletes the copy of an
  access that began after it made its list (`deletedInUse`, `:89`); an access is granted in the
  midst of the pull that another thread began after one that failed, and what it writes is
  overwritten (`grantedMidPull`, `:218`, `:223`); a read that breaks off is answered as done,
  and the part of the file is pushed with the next write (`brokenRead`, `MtpTransfer.cpp:343`);
  an empty file is not
  pushed when the device is unplugged (`deletedUnsynced`, `ConnectionSync.cpp:436`).
* `CacheMap`: a write across a move is lost (`endedElsewhere`, `FileCache.cpp:399`); pushes
  and pulls queued before a move use the old path (`:175`, `:189`); an entry is deleted
  without the lock (`:452`) while it is used or was rebound elsewhere; the destructor gives
  up a write whose push the device refuses (`refusedPush`, `:351`), and a push that breaks off
  has deleted the file before (`brokenPush`, `AbstractConnection.cpp:55`).
* `DeviceTree`: every rename uses the node it has freed (`MtpTransfer.cpp:841`); a listing or a read that breaks off is taken for complete
  (`MtpTransfer.cpp:275`, `:343`), a failed move leaves stale listings, after which objects of
  one name can be created, and a file moved to the directory above frees a node in use
  (`AbstractConnection.cpp:273`).
* `Mount`: a command after a drive was ejected throws (`DokanDriveWrapper.cpp:90`) and ends
  the daemon with whatever it had not synced; a medium that was skipped once is not found
  again (`MtpTransfer.cpp:47`). `mount` of a medium that is mapped already answers that the
  drive at the letter it was asked for "is now" the medium, with success
  (`MountCommands.cpp:441`), but `mapDrive` has returned without looking at the letter (`:52`):
  the drive is at its old one. `MountedWhereFirstSaid` says so of every such answer.
* `IPC`: the probe of one controller is taken for the daemon by another (`IPC.cpp:23`); a
  daemon that starts late empties the cache of a running one; terminating syncs nothing; the
  time-out of a second at start-up only makes `recvString` read again, so a daemon that fails
  to start leaves its controller waiting (`IPC.cpp:36`).

## 4. Proofs

Every theorem holds for all values of the constants that satisfy the named assumptions of
its module: any (finite, where counting needs it) set of threads, clients, controllers,
devices and paths, and any natural number for a bound, so that the bounds of the models cost
the theorems nothing. The assumptions are that such sets do not contain the values that stand
for nobody or name something else, that the bounds are natural numbers, and that a menu
offers what there is to do.
None says anything about the order or the number of steps. TLC evaluates all of them.

| module | theorems | the properties of the runs they prove |
|---|---|---|
| `RWSyncProofs` | `TypeCorrect`, `CountsReaders`, `Exclusion`, `OnlyTheGapLosesWakeups`, `WriterPreference`, `Implementation` | `TypeOK`, `MutualExclusion`, `SleepersAreOwed`, `NoReaderOvertakes`, `ImplementsRWLock` |
| `ConnSyncProofs` | `TypeCorrect`, `WorkerOwed`, `ClientOwed`, `OvertakenAtMostOnce`, `OwnAnswer` | `TypeOK`, `WorkerIsOwed`, `ClientIsOwed`, `OvertakenOnce`, `ReturnsOwnAnswer` |
| `FileCacheProofs` | `TypeCorrect`, `OneEntryOnly`, `NobodyWaitsInVain`, `UsesCounted`, `WritesKept`, `OneTransferAtATime` | `TypeOK`, `OneEntry`, `NoOrphanWait`, `UseCounts`, `WritesKeptUnlessFaulty` |
| `CacheMapProofs` | `Invariance`, `TypeCorrect`, `WrittenKept`, `EntriesFollowFiles` | `TypeOK`, `WrittenIsKept`, `EntriesAreAtHome` |
| `DeviceTreeProofs` | `TypeCorrect`, `SoundTree`, `FreedNodes`, `ListingsThrownAway`, `MovesKeepContents`, `RequestsStayOnTheirPaths`, `TreeUnlessDone` | `TypeOK`, `DanglingOnlyByRenameOrNestedMove`, `StaleOnlyByFailedMove`, `MoveLosesOnlyUnread`; of `ImplementsTree`, `TouchesOnlyItsPaths` and every step but those done without trouble |
| `MountProofs` | `TypeCorrect`, `ConnectionsAreCounted`, `EndsBadly`, `WhereMountSays`, `UnavailableForAReason` | `TypeOK`, `NoFreedConnection`, `EndsBadlyOnlyAfterEject`, `MountedWhereFirstSaid`, `NotFoundForAReason` |
| `IPCProofs` | `TypeCorrect`, `AnswerOwn`, `DroppedAtExit`, `LateStarters` | `TypeOK`, `AnswerIsOwn`, `DroppedOnlyByExit`, `OnlyLateStartersHarm` |

No property is inductive as it stands. Each module states the invariant that is, in named
parts, and proves that the initial states satisfy it and every step keeps it, part by part
and action by action; the theorems follow from it.

**RWSync.** `Inv` adds to the properties `MtxHeld` (`writeMtx` is the thread on the write
side, if there is one), `AccessFlag` (`writeAccess` holds exactly while a thread is
`writing`), `RequestFlag` (`writeRequest` holds exactly while a writer is between its request
and its success), `ReaderCount`, and `WriterAlone` (no reader is counted while `writeAccess`
holds). `OnlyTheGapLosesWakeups` is a second induction on top of it. The refinement of
`RWLock` needs `InvExclusive` before and after a step, because a step of the code is an
abstract acquire or release exactly when it moves a thread into or out of `reading` or
`writing`.

**ConnSync.** `QueuesInOrder` (a request is in the queue of its kind, once, until the worker
has it in hand) and `UnmadeUntouched` let the answer be followed to its request;
`AnswerBeforeFlag` orders outcome, `success` and `unlocked`, so that a waiter who sees the
flag sees the answer. The worker asks three queues in turn, so `BehindItsBack` speaks of the
queues it has already asked: what came into one of those is flagged, or a thread is about to
flag it. `LateNotOvertaken` (what came behind the worker's back has not been overtaken) is
what makes "once" inductive.

**FileCache.** `MapInv` ties the janitor's hold on the map lock to what it does and contains
`OneEntry`; `WorkerInv` says when the worker has an entry in hand. `Counted` (every user has
the entry of the map in hand from look-up to end, and the counts are the numbers of such
users) holds until an entry is deleted in use, and `RequestsAtMap` until one is deleted under
a request; those are the conditions of the faults. The second part of `FileCacheProofs` strengthens this
invariant by `Faultless`, which holds as long as no fault has happened: one pull and one push
at a time, through the three places where a request can be (a thread about to ask, the queue,
the worker), access only with a complete copy, and `Fresh`, which says that the copy to be
pushed is the latest content and that the device has it otherwise.

**CacheMap.** `LockInv` tells from what a thread does whether it holds the map lock, which
entry it has in hand and which paths it works on. `MapInv` (the living entries are those of
the map, each under its own path, and nobody has another one in hand or queued) holds until
an entry is freed in use, which ends the behaviour; that no two paths share an entry
(`Apart`) holds even in that last state. Until some fault happens `Files`, `GoneInv` and
`AtHome` hold: a file is held by one entry at most, which has its latest content; what the
device has not got is in an entry that is dirty, being pushed or still being written; a
destructor that gives up its push leaves nothing written behind; a path whose file is about
to be deleted has no entry; an entry of the map holds the file of its path unless a mover is
on its way. Since the steps are large, each is first proved to do what a short formula says
(`Begun`, `Served`, `Rebinds`, ...), and the invariant is proved to be kept by those.

**DeviceTree.** `IInv` says that the device and the listings are `Sound`: every object is in a
directory that is there, what a listing says of an object that still exists is true, an object
is in one listing at most, only directories have listings, and every set of objects has one
that is in nothing of the set (`NoCycle`, so that `Below` and the path of an object are what they
are meant to be). The work is in one request, which may fail at any call. `Good(s)` is this
invariant inside a request, and `Later(s, t)` how a state t can come after s: objects that s
knew are as they were or gone, and listings get nothing of them but what is true. Both are
proved for every call of the device and carried through `Then`, over the steps of a path, of a
deletion and of a copy by an induction on the interval (`Climbing`), and composed to what each
operation of the drive does (`Keeps`; `Renamed` and `MovedTo` for the two that give an object
another place). `Fresh(s, t)` adds that no listing is stale in t that was not in s. It rests on
`Leads` and `Missing`: a path along the cached listings leads to one node, and where a name was
missing the new directory of a move is not found in listings that have not been thrown away.
A freed node is used by every rename that the device accepts, and by a move when the second of
its two `deleteSubCache` calls names a directory below the first; `MovesNested` turns that into the two paths, one of which begins with the other.

That a request stays on its paths relates the listings it walks along to the paths on the
device. `Links(d, a, i, p)` says that p leads from a to i along parents and names, `Rooted`
(which `NoCycle` gives) that every climb ends; with them the entries of the view are exactly
the paths of objects. A look-up that succeeds ends at the node its path leads to, so what a
deletion has on its stack, and what a copy or a creation adds, is in the `Region` at or under
a path of the request (`Inside`), also when it breaks off half way. Renaming and moving one
object change the paths of what lies under it and of nothing else (`OtherName`, `MovedTo`).
`Confined` is the property of two devices that follows, whatever has failed. It is what
`DriveTree` promises when something has gone wrong (`Irregular`), proved here for every step
(`TouchesOnlyItsPaths`, which follows from `ImplementsTree` and has no run of its own).
`TreeUnlessDone` puts it together to the refinement of `DriveTree` for all steps but one kind,
a request that meets no trouble and is answered with success.

**Mount.** `SameStory` relates the store, the wrappers and the step of the one thread that
executes commands: a wrapper exists when the store has it or its constructor waits for it.
`MountedUnlessEjected` says that the drives of the store are mounted, all but the one being
destroyed; `LettersApart` and `WhereSaid` carry the letters. That `toStorageEnum` gives every
medium one number rests on a lemma about sequences without repetitions.

**IPC.** `Ownership` tells the owner of each mail slot from what the processes do, `Errands`
what a controller still has to do, and `FewDaemons` counts daemons by the controllers that
can have started one. `OneCommand` (as long as nobody is killed) says that one command at a
time is under way and whose it is, which is why an answer that names nobody reaches the right
controller; `LateIsStale` that whoever is about to start a daemon beside another goes by an
old probe.

What the attempts found. The proofs changed the models in these places, each a case that the
instances of the runs do not reach or did not tell apart:

* `FileCache`: a second push could be begun without being recorded as `doublePush`, when the
  first was with the worker; `PushComing` and `PullComing` now say where a request can be.
* `CacheMap`: with four threads an entry can be rebound to a path between the two deletions of
  `DokanCleanup`, and one that was made at the old path after the move is rebound in place of
  the one that was moved (`RebindFaults`).
* `CacheMap`: `Queued` did not see an entry in the push queue when the pull queue was empty,
  so that the deletion of such an entry was not recorded as `freed`.
* `DeviceTree`: a new object could get the id of one that the same request had deleted and
  still held, which no device does (`taken`); reading a listing again replaced the nodes that
  were there instead of adding to them (`MtpTransfer.cpp:273`); and the exception that ends the
  worker leaves stale listings when it comes in the midst of a deletion, which takes two
  failures of the device or three callbacks (`StaleOnlyByFailedMove`).

What stays with TLC:

* All liveness (`ReturnsUnlessMissed`, `AnsweredUnlessMissed`, `CallsReturnUnlessMissed`,
  `EndsUnlessStuck`, `EndsUnlessTrouble`): the prover does neither fairness nor ENABLED.
* `DeviceTree`: the last case of its refinement of `DriveTree` (a request that met no trouble
  and was answered with success has done exactly what it was asked to), and with it
  `ImplementsTree` as a whole; and the two properties about what a directory loses
  (`HalfOnlyByDirectories`, `RmdirTakesOnlyLatecomers`). They need that the loops over a
  directory miss nothing that is in it, an induction over the tree for each operation.
* The three violated properties, which are shown by their counterexamples.

## 5. Plan

1. An abstract request service (a request is answered at most once, with its own answer)
   that `ConnSync` implements, with the refinement proved: `AnswerBeforeFlag` and
   `QueuesInOrder` are the invariants it needs.
2. For `DeviceTree`, the last case of the refinement of `DriveTree`: that a look-up without
   trouble misses nothing that is there, and a deletion or a move takes all of a directory,
   which the lemmas about `Links` and `Region` prepare.
3. `Paths`, `Names`: `FsPath`, `tokenize`, `ConflictlessHashProvider` and `splitLongInteger`
   against reference definitions.

## 6. Not modelled, and why

Calls of Windows Portable Devices and Dokan are pure input and output and appear only as
success or failure. File times, volume information, attributes, output and error texts carry
no state the properties speak about. `deleteAllIdles` is empty, and `syncAllDirties` and
`closeAllConnections` are called by nothing. `setOutputter` only serves a trace. The test
file system, the test shell (`MtpAccessEntry.cpp`) and the experimental command lines are not
part of the daemon. A race on `std::map` (`_myDrives`, and the map of the cache in the first
part of `moveOrRenameInode`) is undefined behaviour of the container with no outcomes worth
enumerating; the hazard list names the first, and `CacheMap` models what the second does to
the entries.
