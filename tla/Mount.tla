-------------------------------- MODULE Mount --------------------------------
(***************************************************************************)
(* The daemon's commands mount, unmount, unplug and list: the connections  *)
(* to devices that MtpConnectionProvider shares and counts, the            *)
(* connections and drives that MountAddressStore keeps by name, and the    *)
(* thread that Dokan runs for each mounted drive.  One thread executes the *)
(* commands one after the other; it meets the Dokan threads in the         *)
(* constructor and the destructor of a drive.  Around it devices are       *)
(* plugged in, locked and pulled out, drives are ejected, and letters are  *)
(* taken by others.  A wrapper is named by its device and storage.         *)
(***************************************************************************)
EXTENDS Integers, Sequences, FiniteSets, FiniteSetsExt, SequencesExt, Functions

CONSTANTS Devices,      \* names of devices, all different
          Storages,     \* the storage media on each of them
          LastLetter,   \* the drive letters are 1 .. LastLetter
          MaxCommands,  \* bound: commands in a behaviour
          MaxEvents     \* bound: what else happens in a behaviour

ASSUME DevicesAssumption == IsFiniteSet(Devices)
ASSUME StoragesAssumption == IsFiniteSet(Storages) /\ Storages # {}
ASSUME LettersAssumption == LastLetter \in Nat

VARIABLES plugged, locked, \* devices at hand; those that show no storage medium
          others,    \* letters in use by others
          listed,    \* the provider's list of devices
          pool,      \* the provider's connections: device -> [ref, live, found, empty, overlooked]
          conn,      \* the store's connections: device -> storage media mapped there
          ids,       \* the numbers given to storage media
          drive,     \* the wrappers: <<device, storage>> -> [letter, status]
          main,      \* what the thread of the commands is doing
          answer,    \* the answer given last (again: the medium was mapped already)
          fate,      \* running, or how the daemon died
          missed,    \* a notification fell between the test and the wait
          ejects, commands, events \* drives ejected; commands and events to come

devices == <<plugged, locked, others>>
provider == <<listed, pool>>
store == <<conn, ids>>
ghosts == <<fate, missed, ejects>>
vars == <<devices, provider, store, drive, main, answer, ghosts, commands, events>>

Letters == 1 .. LastLetter
Idle == [step |-> "idle"]

\* The map f with v at x, put there or put in its place.
Bind(f, x, v) == [y \in DOMAIN f \cup {x} |-> IF y = x THEN v ELSE f[y]]

Ready == fate = "running" /\ main = Idle /\ commands > 0
At(step) == fate = "running" /\ main.step = step

-----------------------------------------------------------------------------
(* Drives and letters.                                                     *)

\* _mountstatus is STATUS_MOUNTED; "leaving" once DokanUnmount was called.
Mounted(w) == drive[w].status \in {"mounted", "leaving"}
InUse == others \cup {drive[w].letter : w \in {w \in DOMAIN drive : Mounted(w)}}

\* getAvailableDrives leaves out the last letter.
GetAvailableDrives == {l \in Letters : l < LastLetter} \ InUse

\* getDriveLetters asks each drive, and one that was ejected throws.
GetDriveLettersThrows(d) == \E s \in conn[d] : ~Mounted(<<d, s>>)

\* (Nobody is notified.)
Notify_Nobody(w) == UNCHANGED <<main, missed>>

\* DokanMain calls Mounted, unless the letter was taken; and at last it returns.
\* Either sets the status and notifies with _mountstatusMutex held.
Notify(w) ==
  IF main # Idle /\ main.w = w
  THEN /\ main' = IF main.step = "ctorWait" THEN [main EXCEPT !.step = "ctor"]
                  ELSE IF main.step = "dtorWait" THEN [main EXCEPT !.step = "dtor"] ELSE main
       /\ missed' = (missed \/ main.step \in {"ctorGap", "dtorGap"})
  ELSE UNCHANGED <<main, missed>>

DokanMounted(w) ==
  /\ drive[w].status = "starting" /\ drive[w].letter \notin InUse
  /\ drive' = [drive EXCEPT ![w].status = "mounted"]
  /\ Notify(w)
  /\ UNCHANGED <<fate, ejects>>

\* DokanMain returns, the status becomes unmounted: nobody has been told yet.
DokanReturns(w) ==
  /\ drive[w].status = "leaving" \/ (drive[w].status = "starting" /\ drive[w].letter \in InUse)
  /\ drive' = [drive EXCEPT ![w].status = "returning"]
  /\ UNCHANGED <<main, ghosts>>

DokanThreadEnds(w) ==
  /\ drive[w].status = "returning"
  /\ drive' = [drive EXCEPT ![w].status = "unmounted"]
  /\ Notify(w)
  /\ UNCHANGED <<fate, ejects>>

DokanThread(w) ==
  /\ fate = "running" /\ w \in DOMAIN drive
  /\ DokanMounted(w) \/ DokanReturns(w) \/ DokanThreadEnds(w)
  /\ UNCHANGED <<devices, provider, store, answer, commands, events>>

-----------------------------------------------------------------------------
(* Connections of the provider.                                            *)

\* An empty list of devices does not replace the one before.
Refreshed == IF plugged = {} THEN listed ELSE plugged

\* A device that is gone, but still on the list, has no name.
FriendlyName(d) == IF d \in plugged THEN d ELSE ""

\* (A connection that is shared is not counted.)
OpenConnectionToDevice_Uncounted(d) ==
  IF d \in DOMAIN pool THEN pool[d]
  ELSE [ref |-> 1, live |-> TRUE, found |-> {}, empty |-> FALSE, overlooked |-> {}]

\* The connection that is open already, or a new one, which counts itself.
OpenConnectionToDevice(d) ==
  IF d \in DOMAIN pool THEN [pool[d] EXCEPT !.ref = @ + 1]
  ELSE [ref |-> 1, live |-> TRUE, found |-> {}, empty |-> FALSE, overlooked |-> {}]

\* closeConnection of the provider
CloseConnectionToDevice(p, d) ==
  IF p.ref - 1 < 1 THEN Restrict(pool, DOMAIN pool \ {d})
  ELSE Bind(pool, d, [p EXCEPT !.ref = @ - 1])

\* _lookForMappableDrives: the list of the device cannot be had, or each medium is listed
\* or skipped, and what the list leaves out is overlooked; that nothing was found is
\* remembered.
LookForMappableDrives(p, d) ==
  LET shown == IF d \in locked THEN {} ELSE Storages
  IN IF ~p.live THEN {p}
     ELSE {[p EXCEPT !.overlooked = shown]}
          \cup {[p EXCEPT !.found = found, !.empty = (found = {}), !.overlooked = shown \ found] :
                  found \in SUBSET shown}

\* A list that is not empty is not read again, forced or not.
GetMappableDriveNames(p, d, forceRefresh) ==
  IF (p.empty /\ ~forceRefresh) \/ p.found # {} THEN {p} ELSE LookForMappableDrives(p, d)

\* (It does not look again.)
MapNewDrive_Once(p, d, s) == GetMappableDriveNames(p, d, FALSE)

\* mapDrive looks a second time for a medium that it does not find.
MapNewDrive(p, d, s) ==
  UNION {IF s \in first.found THEN {first} ELSE GetMappableDriveNames(first, d, TRUE) :
           first \in GetMappableDriveNames(p, d, FALSE)}

\* (A number is given again.)
ToStorageEnum_Again(media) ==
  \E order \in SetToAllKPermutations(media) : Len(order) = Cardinality(media) /\ ids' = ids \o order

\* toStorageEnum of each of a set of media, in some order
ToStorageEnum(media) ==
  \E order \in SetToAllKPermutations(media \ Range(ids)) :
    Len(order) = Cardinality(media \ Range(ids)) /\ ids' = ids \o order

-----------------------------------------------------------------------------
(* Commands.                                                               *)

Answer(cmd, d, s, l, code) ==
  /\ answer' = [cmd |-> cmd, dev |-> d, st |-> s, letter |-> l, code |-> code, again |-> FALSE]
  /\ main' = Idle

\* mapDrive finds the medium mapped already: the answer is that of a new drive.
AnswerAgain(d, s, l) ==
  /\ answer' = [cmd |-> "mount", dev |-> d, st |-> s, letter |-> l, code |-> "ok", again |-> TRUE]
  /\ main' = Idle
Crash == fate' = "crashed" /\ UNCHANGED <<main, answer, missed, ejects>>

\* closeConnection of the store destroys drives, background job, cache and worker;
\* the provider is not told.
Closed(d) == Restrict(conn, DOMAIN conn \ {d})

\* mount: no such letter, or no such device
MountRefused(d, s, l) ==
  /\ Ready /\ UNCHANGED <<devices, pool, store, drive, ghosts, events>>
  /\ \/ /\ IF l = 0 THEN GetAvailableDrives = {} ELSE l \notin GetAvailableDrives
        /\ Answer("mount", d, s, l, "letter") /\ UNCHANGED listed
     \/ /\ l \in GetAvailableDrives \/ (l = 0 /\ GetAvailableDrives # {})
        /\ d \notin DOMAIN conn /\ d \notin plugged
        /\ Answer("mount", d, s, l, "connection") /\ listed' = Refreshed
  /\ commands' = commands - 1

\* mount: the connection is opened if need be, and a wrapper made
Mount(d, s, l) ==
  /\ Ready
  /\ l \in GetAvailableDrives \/ (l = 0 /\ GetAvailableDrives # {})
  /\ d \in DOMAIN conn \/ d \in plugged
  /\ LET letter == IF l = 0 THEN Max(GetAvailableDrives) ELSE l
         p == IF d \in DOMAIN conn THEN pool[d] ELSE OpenConnectionToDevice(d)
         mapped == d \in DOMAIN conn /\ s \in conn[d]
     IN \E asked \in IF mapped THEN {p} ELSE MapNewDrive(p, d, s) :
        /\ listed' = IF d \in DOMAIN conn THEN listed ELSE Refreshed
        /\ pool' = Bind(pool, d, asked)
        /\ conn' = IF d \in DOMAIN conn THEN conn ELSE Bind(conn, d, {})
        /\ \/ mapped /\ AnswerAgain(d, s, letter) /\ UNCHANGED drive
           \/ /\ ~mapped /\ s \in asked.found
              /\ drive' = Bind(drive, <<d, s>>, [letter |-> letter, status |-> "starting"])
              /\ main' = [step |-> "ctor", w |-> <<d, s>>, cmd |-> "mount", letter |-> letter]
              /\ UNCHANGED answer
           \/ /\ ~mapped /\ s \notin asked.found
              /\ main' = [step |-> "failed", w |-> <<d, s>>, cmd |-> "mount", letter |-> letter]
              /\ UNCHANGED <<drive, answer>>
  /\ commands' = commands - 1
  /\ UNCHANGED <<devices, ids, ghosts, events>>

\* (The wrapper is kept whatever the status.)
CtorTest_Keeps ==
  /\ At("ctor") /\ drive[main.w].status # "returning"
  /\ LET w == main.w IN
     IF drive[w].status = "starting"
     THEN main' = [main EXCEPT !.step = "ctorGap"] /\ UNCHANGED <<conn, answer>>
     ELSE /\ conn' = [conn EXCEPT ![w[1]] = @ \cup {w[2]}]
          /\ Answer("mount", w[1], w[2], main.letter, "ok")
  /\ UNCHANGED <<devices, provider, ids, drive, ghosts, commands, events>>

\* The constructor waits until the status is known: it tests, unlocks, and sleeps.
CtorTest ==
  /\ At("ctor") /\ drive[main.w].status # "returning"
  /\ LET w == main.w IN
     CASE drive[w].status = "starting" ->
            main' = [main EXCEPT !.step = "ctorGap"] /\ UNCHANGED <<conn, drive, answer>>
       [] drive[w].status = "mounted" ->
            /\ conn' = [conn EXCEPT ![w[1]] = @ \cup {w[2]}]
            /\ Answer("mount", w[1], w[2], main.letter, "ok") /\ UNCHANGED drive
       [] OTHER ->
            /\ drive' = Restrict(drive, DOMAIN drive \ {w})
            /\ main' = [main EXCEPT !.step = "failed"] /\ UNCHANGED <<conn, answer>>
  /\ UNCHANGED <<devices, provider, ids, ghosts, commands, events>>

\* No drive came of it: a connection without any is closed again.
MountFailed ==
  /\ At("failed")
  /\ LET d == main.w[1] IN
     IF GetDriveLettersThrows(d) THEN Crash /\ UNCHANGED conn
     ELSE /\ conn' = IF conn[d] = {} THEN Closed(d) ELSE conn
          /\ Answer("mount", d, main.w[2], main.letter, "unavailable") /\ UNCHANGED ghosts
  /\ UNCHANGED <<devices, provider, ids, drive, commands, events>>

\* unmount by name or number, unplug: the drives to be destroyed
Unmap(cmd, d, todo) ==
  /\ main' = [step |-> "unmap", cmd |-> cmd, w |-> <<d, CHOOSE s \in Storages : TRUE>>, todo |-> todo]
  /\ UNCHANGED <<ids, answer, ghosts>>

Unmount(d, s) ==
  /\ Ready
  /\ IF d \notin DOMAIN conn THEN Answer("unmount", d, s, 0, "closed") /\ UNCHANGED <<ids, ghosts>>
     ELSE IF s \in conn[d] THEN Unmap("unmount", d, {s})
     ELSE IF GetDriveLettersThrows(d) THEN Crash /\ UNCHANGED ids
     ELSE Answer("unmount", d, s, 0, "unmapped") /\ ToStorageEnum({d} \X conn[d]) /\ UNCHANGED ghosts
  /\ commands' = commands - 1 /\ UNCHANGED <<devices, provider, conn, drive, events>>

\* unmount by letter: all connections are searched in an order of their own
UnmountLetter(l) ==
  /\ Ready
  /\ \/ \E w \in DOMAIN drive :
          /\ Mounted(w) /\ drive[w].letter = l /\ ~GetDriveLettersThrows(w[1])
          /\ Unmap("unmount", w[1], {w[2]})
     \/ (\E d \in DOMAIN conn : GetDriveLettersThrows(d)) /\ Crash /\ UNCHANGED ids
     \/ /\ \A w \in DOMAIN drive : Mounted(w) /\ drive[w].letter # l
        /\ Answer("unmount", "", "", l, "unmapped") /\ UNCHANGED <<ids, ghosts>>
  /\ commands' = commands - 1 /\ UNCHANGED <<devices, provider, conn, drive, events>>

Unplug(d) ==
  /\ Ready
  /\ IF d \notin DOMAIN conn THEN Answer("unplug", d, "", 0, "closed") /\ UNCHANGED <<ids, ghosts>>
     ELSE Unmap("unplug", d, conn[d])
  /\ commands' = commands - 1 /\ UNCHANGED <<devices, provider, conn, drive, events>>

\* The destructor of a wrapper returns at once when the drive was ejected; its thread
\* may not have ended then.
DeleteWrapper ==
  /\ At("unmap")
  /\ \E s \in main.todo :
       LET w == <<main.w[1], s>> IN
       IF Mounted(w)
       THEN /\ drive' = [drive EXCEPT ![w].status = "leaving"]
            /\ main' = [main EXCEPT !.step = "dtor", !.w = w] /\ UNCHANGED <<conn, fate>>
       ELSE /\ drive' = Restrict(drive, DOMAIN drive \ {w})
            /\ conn' = [conn EXCEPT ![w[1]] = @ \ {s}]
            /\ main' = [main EXCEPT !.todo = @ \ {s}]
            /\ fate' = IF drive[w].status = "returning" THEN "freed" ELSE fate
  /\ UNCHANGED <<devices, provider, ids, answer, missed, ejects, commands, events>>

DtorTest ==
  /\ At("dtor") /\ drive[main.w].status # "returning"
  /\ LET w == main.w IN
     IF Mounted(w) THEN main' = [main EXCEPT !.step = "dtorGap"] /\ UNCHANGED <<conn, drive>>
     ELSE /\ drive' = Restrict(drive, DOMAIN drive \ {w})
          /\ conn' = [conn EXCEPT ![w[1]] = @ \ {w[2]}]
          /\ main' = [main EXCEPT !.step = "unmap", !.todo = @ \ {w[2]}]
  /\ UNCHANGED <<devices, provider, ids, answer, ghosts, commands, events>>

\* unmount closes the connection of its last drive, unplug in any case.
Unmapped ==
  /\ At("unmap") /\ main.todo = {}
  /\ LET d == main.w[1] IN
     IF main.cmd = "unmount" /\ GetDriveLettersThrows(d) THEN Crash /\ UNCHANGED conn
     ELSE /\ conn' = IF conn[d] = {} THEN Closed(d) ELSE conn
          /\ Answer(main.cmd, d, main.w[2], 0, "ok") /\ UNCHANGED ghosts
  /\ UNCHANGED <<devices, provider, ids, drive, commands, events>>

FallAsleep ==
  /\ At("ctorGap") \/ At("dtorGap")
  /\ main' = [main EXCEPT !.step = IF @ = "ctorGap" THEN "ctorWait" ELSE "dtorWait"]
  /\ UNCHANGED <<devices, provider, store, drive, answer, ghosts, commands, events>>

SpuriousWakeup ==
  /\ At("ctorWait") \/ At("dtorWait")
  /\ main' = [main EXCEPT !.step = IF @ = "ctorWait" THEN "ctor" ELSE "dtor"]
  /\ UNCHANGED <<devices, provider, store, drive, answer, ghosts, commands, events>>

ListActive ==
  /\ Ready
  /\ IF \E d \in DOMAIN conn : GetDriveLettersThrows(d) THEN Crash /\ UNCHANGED ids
     ELSE /\ ToStorageEnum(UNION {{d} \X conn[d] : d \in DOMAIN conn})
          /\ Answer("list", "", "", 0, "ok") /\ UNCHANGED ghosts
  /\ commands' = commands - 1 /\ UNCHANGED <<devices, provider, conn, drive, events>>

\* list available opens each device on the list, asks it, and closes it again.
ListAvailable ==
  /\ Ready /\ listed' = Refreshed
  /\ LET there == {d \in listed' : d \in DOMAIN pool \/ d \in plugged}
         names(d) == GetMappableDriveNames(OpenConnectionToDevice(d), d, FALSE)
     IN \E asked \in {f \in [there -> UNION {names(d) : d \in there}] : \A d \in there : f[d] \in names(d)} :
        /\ pool' = [d \in {d \in DOMAIN pool \cup there :
                             d \notin there \/ d \in DOMAIN CloseConnectionToDevice(asked[d], d)} |->
                      IF d \in there THEN CloseConnectionToDevice(asked[d], d)[d] ELSE pool[d]]
        /\ ToStorageEnum(UNION {{FriendlyName(d)} \X asked[d].found : d \in there})
  /\ Answer("list", "", "", 0, "ok")
  /\ commands' = commands - 1 /\ UNCHANGED <<devices, conn, drive, ghosts, events>>

Command == \/ \E d \in Devices, s \in Storages :
                (\E l \in Letters \cup {0} : Mount(d, s, l) \/ MountRefused(d, s, l)) \/ Unmount(d, s)
           \/ \E l \in Letters : UnmountLetter(l)
           \/ \E d \in Devices : Unplug(d)
           \/ ListActive \/ ListAvailable
Go == CtorTest \/ MountFailed \/ DeleteWrapper \/ DtorTest \/ Unmapped \/ FallAsleep

-----------------------------------------------------------------------------
(* The world.                                                              *)

Event == fate = "running" /\ events > 0 /\ events' = events - 1
         /\ UNCHANGED <<listed, store, main, answer, fate, missed, commands>>

Plug(d) == Event /\ d \notin plugged /\ plugged' = plugged \cup {d}
           /\ UNCHANGED <<locked, others, pool, drive, ejects>>
PullOut(d) == Event /\ d \in plugged /\ plugged' = plugged \ {d}
              /\ pool' = [e \in DOMAIN pool |-> IF e = d THEN [pool[e] EXCEPT !.live = FALSE] ELSE pool[e]]
              /\ UNCHANGED <<locked, others, drive, ejects>>
TurnLock(d) == Event /\ locked' = (locked \ {d}) \cup ({d} \ locked)
               /\ UNCHANGED <<plugged, others, pool, drive, ejects>>
Others(l) == Event /\ l \notin InUse \ others /\ others' = (others \ {l}) \cup ({l} \ others)
             /\ UNCHANGED <<plugged, locked, pool, drive, ejects>>
Eject(w) == Event /\ w \in DOMAIN drive /\ drive[w].status = "mounted"
            /\ drive' = [drive EXCEPT ![w].status = "returning"]
            /\ ejects' = ejects + 1 /\ UNCHANGED <<devices, pool>>

World == \/ \E d \in Devices : Plug(d) \/ PullOut(d) \/ TurnLock(d)
         \/ \E l \in Letters : Others(l)
         \/ \E w \in Devices \X Storages : Eject(w)

Init ==
  /\ plugged = Devices /\ locked = {} /\ others = {}
  /\ listed = Devices /\ pool = <<>> /\ conn = <<>> /\ ids = <<>> /\ drive = <<>>
  /\ main = Idle /\ answer = [cmd |-> "none", dev |-> "", st |-> "", letter |-> 0, code |-> "ok", again |-> FALSE]
  /\ fate = "running" /\ missed = FALSE /\ ejects = 0
  /\ commands = MaxCommands /\ events = MaxEvents

DokanThreads == \E w \in Devices \X Storages : DokanThread(w)
Next == Command \/ Go \/ SpuriousWakeup \/ DokanThreads \/ World
Spec == Init /\ [][Next]_vars

\* The threads run; nothing else has to happen.
FairSpec == Spec /\ WF_vars(Go) /\ WF_vars(DokanThreads)

-----------------------------------------------------------------------------
(* Properties.                                                             *)

Steps == {"ctor", "ctorGap", "ctorWait", "failed", "unmap", "dtor", "dtorGap", "dtorWait"}
TypeOK ==
  /\ plugged \subseteq Devices /\ locked \subseteq Devices /\ listed \subseteq Devices
  /\ others \subseteq Letters
  /\ DOMAIN pool \subseteq Devices /\ \A d \in DOMAIN pool : pool[d] \in
       [ref : Nat, live : BOOLEAN, found : SUBSET Storages, empty : BOOLEAN, overlooked : SUBSET Storages]
  /\ DOMAIN conn \subseteq Devices /\ \A d \in DOMAIN conn : conn[d] \subseteq Storages
  /\ ids \in Seq((Devices \cup {""}) \X Storages) /\ IsInjective(ids)
  /\ DOMAIN drive \subseteq Devices \X Storages
  /\ \A w \in DOMAIN drive : drive[w] \in
       [letter : Letters, status : {"starting", "mounted", "leaving", "returning", "unmounted"}]
  /\ main = Idle \/ (main.step \in Steps /\ main.w \in Devices \X Storages)
  /\ fate \in {"running", "crashed", "freed"}

\* The connection of a mounted device is never deleted by those who share it: it is
\* in the provider's list, and counted.
NoFreedConnection == \A d \in DOMAIN conn : d \in DOMAIN pool /\ pool[d].ref >= 1

\* Only a drive that was ejected makes a command throw or a thread use a wrapper that
\* was deleted.
EndsBadlyOnlyAfterEject == fate # "running" => ejects > 0

\* mount answers "Drive l:\ is now d\s".  The first time the drive is there, at that
\* letter, unless it has been ejected meanwhile; for a medium that was mapped already it
\* names a letter where the drive is not.  And no two drives have one letter.
MountedWhereFirstSaid ==
  /\ answer.cmd = "mount" /\ answer.code = "ok" /\ main = Idle =>
       LET w == <<answer.dev, answer.st>>
       IN /\ answer.dev \in DOMAIN conn /\ answer.st \in conn[answer.dev]
          /\ drive[w].status = "mounted" \/ ejects > 0
          /\ ~answer.again => drive[w].letter = answer.letter
          /\ answer.again => drive[w].letter # answer.letter \/ ejects > 0
  /\ \A v, w \in DOMAIN drive : Mounted(v) /\ Mounted(w) /\ v # w => drive[v].letter # drive[w].letter

\* A medium that mount does not find is locked, its device is gone, or the list that was
\* read last overlooked it, whatever the connection remembers; and when mount reports a
\* medium as unavailable no wrapper is left.  (A letter that Dokan refuses gets the same
\* answer: the medium was found then.)
NotFoundForAReason ==
  [][/\ main = Idle /\ main' # Idle /\ main'.step = "failed" =>
          LET d == main'.w[1]
          IN d \in locked \/ ~pool'[d].live \/ main'.w[2] \in pool'[d].overlooked
     /\ answer'.code = "unavailable" /\ answer' # answer =>
          <<answer'.dev, answer'.st>> \notin DOMAIN drive']_vars

\* Every command is answered, unless a notification is missed or the daemon dies.
AnsweredUnlessMissed == main # Idle ~> (main = Idle \/ missed \/ fate # "running")

\* unplug disconnects the device.
UnplugDisconnects ==
  answer.cmd = "unplug" /\ answer.code = "ok" /\ main = Idle => answer.dev \notin DOMAIN pool
=============================================================================
