-------------------------------- MODULE CacheMap --------------------------------
(***************************************************************************)
(* The map of the file cache: its entries by path, the lock of the map,    *)
(* and those who hold that lock, or a pointer from under it, while they    *)
(* wait for the worker: threads of the drive that move, list and delete,   *)
(* and the janitor.  Files are moved by themselves or with the directory   *)
(* that holds them.                                                        *)
(*                                                                         *)
(* What happens to one entry is told in FileCache: here beginning an       *)
(* access is one step, and no wake-up is lost.  Reading the map takes no   *)
(* time, so that the lock is held for writing or not at all.  Whoever uses *)
(* an entry that is deleted ends the behaviour.                            *)
(*                                                                         *)
(* What the code allows to go wrong is given a name where it happens, so   *)
(* that the properties say what holds otherwise:                           *)
(*   freed               an entry is deleted that someone uses or waits    *)
(*                       for, that has a request queued, or that is no     *)
(*                       longer the entry of that path                     *)
(*   writtenWhileDeleted a write ends while the destructor pushes          *)
(*   betweenDeletes      an access begins, or an entry is rebound to the   *)
(*                       path, between the deletion of the entry and that  *)
(*                       of the file                                       *)
(*   endedElsewhere      a file is moved during an access, which then      *)
(*                       releases another entry than it has used           *)
(*   strayEntry          an entry is deleted that holds a file which is at *)
(*                       another path, or one rebound that does not hold   *)
(*                       the file that was moved                           *)
(*   failedWrite         a write ends that never had a copy                *)
(*   stalePull           a copy comes from the path its entry had when the *)
(*                       request was made                                  *)
(*   stalePush           a copy goes to such a path                        *)
(*   twoCopies           a file is pulled that another entry holds         *)
(*   grantedMidPull      an access is granted while another thread has the *)
(*                       entry pulled again after a pull that failed       *)
(*   brokenRead          a pull breaks off and is answered as done         *)
(*   brokenPush          a push breaks off when the file has been deleted  *)
(*                       that it replaces                                  *)
(*   refusedPush         the device refuses the push of an entry that is   *)
(*                       being deleted                                     *)
(***************************************************************************)
EXTENDS Integers, Sequences, FiniteSets, SequencesExt

CONSTANTS Users,      \* threads of the drive, one operation each
          Janitor,    \* the thread of FileCacheBackgroundJob
          Menu,       \* of each thread: some of read, write, list, move, movedir, delete, create
          Paths,      \* the paths of files
          MaxEntries, \* bound: entries made in a behaviour
          MaxRounds,  \* bound: rounds of the janitor
          NoFile, Empty, Part, \* no copy or file, an empty one, part of one
          Nil

ASSUME ActorsAssumption == Users \cap {Janitor, Nil, NoFile, Empty, Part} = {} /\ Janitor # Nil
ASSUME WorkerAssumption == Nil \notin {"listing", "rebinding", "stuck"}
ASSUME PathsAssumption  == Paths \cap {Nil, NoFile, Empty, Part} = {} /\ NoFile \notin {Empty, Part}
ASSUME MenuAssumption   ==
  Menu \in [Users -> SUBSET {"read", "write", "list", "move", "movedir", "delete", "create"}]
ASSUME BoundsAssumption == MaxEntries \in Nat /\ MaxRounds \in Nat

VARIABLES map,     \* path -> entry, or 0
          writer,  \* who holds the lock of the map for writing
          entry,   \* the entries: [life, status, path, copy, uses, home]; home: where the file is
          dev,     \* path -> content of the file on the device
          treeq, pullq, pushq, \* the requests: users that wait; [e, path]
          worker,  \* the listing the worker is at, or that it waits for itself
          client,  \* what each user is doing: [op, path, to, step, e]
          jan,     \* the janitor: [step, victims, e, path, rounds]
          latest,  \* ghost: path -> what was last written to the file that is there
          faults   \* ghost: what has gone wrong

vars == <<map, writer, entry, dev, treeq, pullq, pushq, worker, client, jan, latest, faults>>
queues == <<treeq, pullq, pushq>>

Entries == 1 .. MaxEntries
NoUses == [use \in {"read", "write"} |-> 0]
Unborn == [life |-> "unborn", status |-> "NONEXISTANT", path |-> Nil, copy |-> NoFile,
           uses |-> NoUses, home |-> Nil]
Idle == [op |-> "none", path |-> Nil, to |-> Nil, step |-> "idle", e |-> 0]
Finish(u) == client' = [client EXCEPT ![u] = [Idle EXCEPT !.op = "done"]]
Go(u, step) == client' = [client EXCEPT ![u].step = step]
At(u, step) == client[u].step = step
Unlocked == writer = Nil
Steady == "freed" \notin faults

-----------------------------------------------------------------------------
(* Entries.                                                                *)

\* _cacheAccess: e is the entry of a path, made if need be; and what is found there.
CacheAccess(p, e) ==
  /\ Unlocked /\ map' = [map EXCEPT ![p] = e]
  /\ IF map[p] # 0 THEN e = map[p]
     ELSE entry[e].life = "unborn" /\ \A f \in Entries : entry[f].life = "unborn" => e <= f
Cached(p, e) == IF map[p] # 0 THEN entry[e] ELSE [Unborn EXCEPT !.life = "alive", !.path = p]

\* Those who have the entry in hand, to use it or to delete it.
Holders(e) == {u \in Users : client[u].e = e} \cup IF jan.e = e THEN {Janitor} ELSE {}
Deleters(e) == {x \in Holders(e) : x = Janitor \/ client[x].step \in {"forgetting", "rebinding"}}
Queued(e) == \/ \E i \in DOMAIN pullq : pullq[i].e = e
             \/ \E i \in DOMAIN pushq : pushq[i].e = e

\* A destructor that pushes nothing.
BeginDelete_Unsynced(e) == UNCHANGED <<entry, pushq>>

\* The destructor begins with a push if there is something to push.
BeginDelete(e) ==
  IF entry[e].status = "DIRTY"
  THEN /\ entry' = [entry EXCEPT ![e].status = "PUSHING"]
       /\ pushq' = Append(pushq, [e |-> e, path |-> entry[e].path])
  ELSE UNCHANGED <<entry, pushq>>
Deletable(e) == entry[e].status # "PUSHING"

\* It ends with the removal of the local copy.
Destroy(f, e) == [f EXCEPT ![e] = [Unborn EXCEPT !.life = "deleted"]]
DestroyFaults(e, x, p) ==
  (IF map[p] # e \/ Queued(e) \/ Holders(e) \ {x} # {} THEN {"freed"} ELSE {})
  \cup IF entry[e].home \in Paths \ {p} THEN {"strayEntry"} ELSE {}

BetweenDeletes(p) ==
  IF \E u \in Users : client[u].step \in {"forgotten", "unlink"} /\ client[u].path = p
  THEN {"betweenDeletes"} ELSE {}

-----------------------------------------------------------------------------
(* Reading and writing.                                                    *)

Begin(u, op, p) ==
  /\ At(u, "idle") /\ client[u] = Idle /\ op \in {"read", "write"}
  /\ \E e \in Entries :
       LET r == Cached(p, e)  s == r.status
           pull == s \in {"NONEXISTANT", "FAIL"}
           step == IF pull \/ s = "PULLING" THEN "pulling"
                   ELSE IF s = "PUSHING" /\ op = "write" THEN "pushing" ELSE "access"
       IN /\ CacheAccess(p, e)
          /\ entry' = [entry EXCEPT ![e] =
               [r EXCEPT !.uses[op] = @ + 1, !.status = IF pull THEN "PULLING" ELSE @]]
          /\ pullq' = IF pull THEN Append(pullq, [e |-> e, path |-> r.path]) ELSE pullq
          /\ client' = [client EXCEPT ![u] = [op |-> op, path |-> p, to |-> Nil, step |-> step, e |-> e]]
  /\ faults' = faults \cup BetweenDeletes(p)
  /\ UNCHANGED <<writer, dev, treeq, pushq, worker, jan, latest>>

\* _getAccess waits as long as the status is PULLING, or PUSHING ...
AwaitAccess(u) ==
  /\ LET s == entry[client[u].e].status IN
     \/ At(u, "pulling") /\ s # "PULLING" /\ Go(u, "check")
     \/ At(u, "pushing") /\ s # "PUSHING" /\ Go(u, "access")
  /\ UNCHANGED <<map, writer, entry, dev, queues, worker, jan, latest, faults>>

\* ... and then reads it again: what is not FAIL is granted.
CheckAccess(u) ==
  /\ At(u, "check")
  /\ LET s == entry[client[u].e].status IN
     /\ Go(u, IF s = "FAIL" THEN "end" ELSE "access")
     /\ faults' = IF s = "PULLING" THEN faults \cup {"grantedMidPull"} ELSE faults
  /\ UNCHANGED <<map, writer, entry, dev, queues, worker, jan, latest>>

\* What a user writes is known by the user.
Access(u) ==
  /\ At(u, "access") /\ Go(u, "end")
  /\ LET r == entry[client[u].e] IN
     IF client[u].op = "read" THEN UNCHANGED <<entry, latest>>
     ELSE /\ entry' = [entry EXCEPT ![client[u].e].copy = u]
          /\ latest' = [p \in Paths |-> IF p = r.home THEN u ELSE latest[p]]
  /\ UNCHANGED <<map, writer, dev, queues, worker, jan, faults>>

\* The entry is looked up again by its path.
EndAccess(u) ==
  /\ At(u, "end")
  /\ \E e \in Entries :
       LET r == Cached(client[u].path, e)  op == client[u].op
       IN /\ CacheAccess(client[u].path, e)
          /\ entry' = [entry EXCEPT ![e] =
               [r EXCEPT !.uses[op] = @ - 1, !.status = IF op = "write" THEN "DIRTY" ELSE @]]
          /\ faults' = faults
               \cup (IF e # client[u].e THEN {"endedElsewhere"} ELSE {})
               \cup (IF op = "write" /\ r.copy = NoFile THEN {"failedWrite"} ELSE {})
               \cup IF op = "write" /\ Deleters(e) # {} THEN {"writtenWhileDeleted"} ELSE {}
  /\ Finish(u)
  /\ UNCHANGED <<writer, dev, queues, worker, jan, latest>>

-----------------------------------------------------------------------------
(* Requests for the worker.                                                *)

Ask(u, step) == Go(u, step) /\ treeq' = Append(treeq, u)

\* DokanFindFiles, DokanCreateFile, DokanMoveFile begin with a request.
Call(u, op, p, q) ==
  /\ client[u] = Idle /\ op \in {"list", "create", "move", "movedir"} /\ (p = q) = (op \in {"list", "create"})
  /\ client' = [client EXCEPT ![u] = [op |-> op, path |-> p, to |-> q, e |-> 0,
       step |-> CASE op = "list" -> "list" [] op = "create" -> "mkfile" [] OTHER -> "exists"]]
  /\ treeq' = Append(treeq, u)
  /\ UNCHANGED <<map, writer, entry, dev, pullq, pushq, worker, jan, latest, faults>>

\* DokanCleanup deletes the cache entry unsynced, and has the file deleted then.
Delete(u, p) ==
  /\ client[u] = Idle /\ Unlocked
  /\ client' = [client EXCEPT ![u] = [op |-> "delete", path |-> p, to |-> Nil, step |-> "forgotten", e |-> 0]]
  /\ IF map[p] = 0 THEN UNCHANGED <<map, entry, faults>>
     ELSE /\ map' = [map EXCEPT ![p] = 0] /\ entry' = Destroy(entry, map[p])
          /\ faults' = faults \cup DestroyFaults(map[p], Nil, p)
  /\ latest' = [latest EXCEPT ![p] = NoFile]
  /\ UNCHANGED <<writer, dev, queues, worker, jan>>

Unlink(u) ==
  /\ At(u, "forgotten") /\ Ask(u, "unlink")
  /\ UNCHANGED <<map, writer, entry, dev, pullq, pushq, worker, jan, latest, faults>>

\* moveOrRenameInode deletes the entry of the new path, without the lock of the map.  (The
\* new path of a directory has no entry: what its files are to replace stays for now.)
Forget(u) ==
  /\ At(u, "forget")
  /\ LET e == IF client[u].op = "movedir" THEN 0 ELSE map[client[u].to] IN
     IF e = 0 THEN Ask(u, "move") /\ UNCHANGED <<entry, pushq>>
     ELSE /\ BeginDelete(e) /\ UNCHANGED treeq
          /\ client' = [client EXCEPT ![u].step = "forgetting", ![u].e = e]
  /\ UNCHANGED <<map, writer, dev, pullq, worker, jan, latest, faults>>

Forgotten(u) ==
  /\ At(u, "forgetting") /\ Deletable(client[u].e)
  /\ entry' = Destroy(entry, client[u].e)
  /\ map' = [map EXCEPT ![client[u].to] = 0]
  /\ faults' = faults \cup DestroyFaults(client[u].e, u, client[u].to)
  /\ client' = [client EXCEPT ![u].step = "move", ![u].e = 0] /\ treeq' = Append(treeq, u)
  /\ UNCHANGED <<writer, dev, pullq, pushq, worker, jan, latest>>

\* Once the file is moved the map is locked, and kept locked for two more requests.
LockMap(u) ==
  /\ At(u, "lock") /\ Unlocked /\ writer' = u /\ Ask(u, "isdir")
  /\ UNCHANGED <<map, entry, dev, pullq, pushq, worker, jan, latest, faults>>

\* What is at the old path is rebound, though it may hold a file that was made there since
\* the move, that was replaced by another move, or that is still to be rebound elsewhere.
RebindFaults(p, q) ==
  IF map[p] = 0 THEN {}
  ELSE BetweenDeletes(q)
       \cup IF entry[map[p]].copy # NoFile /\ entry[map[p]].home # q THEN {"strayEntry"} ELSE {}

\* The old key is not erased.
Rebound_Keeps(m, f, p, q) ==
  /\ map' = IF m[p] = 0 THEN m ELSE [m EXCEPT ![q] = m[p]]
  /\ entry' = IF m[p] = 0 THEN f ELSE [f EXCEPT ![m[p]].path = q]

\* _unsyncedCacheRebind, when there is nothing left at the new path
Rebound(m, f, p, q) ==
  /\ map' = IF m[p] = 0 THEN m ELSE [m EXCEPT ![p] = 0, ![q] = m[p]]
  /\ entry' = IF m[p] = 0 THEN f ELSE [f EXCEPT ![m[p]].path = q]

\* A file is rebound by the thread itself; what was made at the new path meanwhile is
\* deleted first.
Rebind(u) ==
  LET p == client[u].path  q == client[u].to IN
  /\ At(u, "rebind")
  /\ IF map[p] # 0 /\ map[q] # 0
     THEN /\ BeginDelete(map[q]) /\ client' = [client EXCEPT ![u].step = "rebinding", ![u].e = map[q]]
          /\ UNCHANGED <<map, writer, faults>>
     ELSE /\ Rebound(map, entry, p, q) /\ Finish(u) /\ writer' = Nil /\ UNCHANGED pushq
          /\ faults' = faults \cup RebindFaults(p, q)
  /\ UNCHANGED <<dev, treeq, pullq, worker, jan, latest>>

Rebinding(u) ==
  /\ At(u, "rebinding") /\ Deletable(client[u].e)
  /\ Rebound([map EXCEPT ![client[u].to] = 0], Destroy(entry, client[u].e), client[u].path, client[u].to)
  /\ faults' = faults \cup DestroyFaults(client[u].e, u, client[u].to)
                 \cup RebindFaults(client[u].path, client[u].to)
  /\ Finish(u) /\ writer' = Nil
  /\ UNCHANGED <<dev, queues, worker, jan, latest>>

-----------------------------------------------------------------------------
(* The worker.                                                             *)

\* The file at p is now at q, or nowhere.
Rehome(p, q) == [e \in Entries |-> IF entry[e].home = p THEN [entry[e] EXCEPT !.home = q] ELSE entry[e]]

\* What each tree request does to the device and its files.  The requests with which
\* DokanMoveFile begins are one: it replaces a file by a file, and nothing else.
Listing(u) == At(u, "list") /\ worker' = "listing" /\ Go(u, "listed") /\ UNCHANGED <<dev, entry, latest>>

CreateAsFile(u, p) ==
  /\ At(u, "mkfile") /\ Finish(u)
  /\ dev' = [dev EXCEPT ![p] = IF @ = NoFile THEN Empty ELSE @]
  /\ latest' = [latest EXCEPT ![p] = IF dev[p] = NoFile THEN Empty ELSE @]
  /\ UNCHANGED <<entry, worker>>

RemoveFile(p) ==
  entry' = Rehome(p, Nil) /\ dev' = [dev EXCEPT ![p] = NoFile] /\ latest' = [latest EXCEPT ![p] = NoFile]
Exists(u, p, q) ==
  /\ At(u, "exists") /\ UNCHANGED worker
  /\ IF dev[q] = NoFile THEN Go(u, "forget") /\ UNCHANGED <<dev, entry, latest>>
     ELSE IF client[u].op = "movedir" \/ dev[p] = NoFile THEN Finish(u) /\ UNCHANGED <<dev, entry, latest>>
     ELSE Go(u, "forget") /\ RemoveFile(q)
DeleteNode(u, p) == At(u, "unlink") /\ Finish(u) /\ RemoveFile(p) /\ UNCHANGED worker

\* The file is moved and the cache not told.
MoveNode_Only(u, p, q) ==
  /\ At(u, "move") /\ UNCHANGED worker /\ Finish(u)
  /\ IF dev[p] = NoFile \/ dev[q] # NoFile THEN UNCHANGED <<dev, entry, latest>>
     ELSE /\ entry' = Rehome(p, q)
          /\ dev' = [dev EXCEPT ![p] = NoFile, ![q] = dev[p]]
          /\ latest' = [latest EXCEPT ![p] = NoFile, ![q] = latest[p]]

MoveNode(u, p, q) ==
  /\ At(u, "move") /\ UNCHANGED worker
  /\ IF dev[p] = NoFile \/ dev[q] # NoFile THEN Finish(u) /\ UNCHANGED <<dev, entry, latest>>
     ELSE /\ Go(u, "lock") /\ entry' = Rehome(p, q)
          /\ dev' = [dev EXCEPT ![p] = NoFile, ![q] = dev[p]]
          /\ latest' = [latest EXCEPT ![p] = NoFile, ![q] = latest[p]]

IsDir(u) ==
  /\ At(u, "isdir") /\ Go(u, IF client[u].op = "move" THEN "rebind" ELSE "rebindall")
  /\ UNCHANGED <<dev, entry, latest, worker>>
RebindAll(u) == At(u, "rebindall") /\ worker' = "rebinding" /\ UNCHANGED <<client, dev, entry, latest>>

ServeTree ==
  /\ worker = Nil /\ treeq # <<>>
  /\ LET u == Head(treeq)  p == client[u].path  q == client[u].to
     IN /\ \/ Listing(u) \/ CreateAsFile(u, p) \/ Exists(u, p, q) \/ DeleteNode(u, p)
           \/ MoveNode(u, p, q) \/ IsDir(u) \/ RebindAll(u)
        /\ treeq' = IF At(u, "isdir") /\ client[u].op = "movedir" THEN Append(Tail(treeq), u) ELSE Tail(treeq)
  /\ UNCHANGED <<map, writer, pullq, pushq, jan, faults>>

\* The callback of a listing asks the cache for the size of each file.
EndListing ==
  /\ worker = "listing" /\ (Unlocked \/ \A p \in Paths : dev[p] = NoFile) /\ worker' = Nil
  /\ \E u \in Users : At(u, "listed") /\ Finish(u)
  /\ UNCHANGED <<map, writer, entry, dev, queues, jan, latest, faults>>

\* CacheRebinder: the worker rebinds the files of a directory, and if one has to be
\* pushed before it is deleted waits for itself.
CacheRebinder ==
  LET u == writer  p == client[u].path  q == client[u].to  e == map[q]
      rebind == map[p] # 0 /\ e # 0
  IN /\ worker = "rebinding"
     /\ IF rebind /\ (entry[e].status = "DIRTY" \/ ~Deletable(e))
        THEN BeginDelete(e) /\ worker' = "stuck" /\ UNCHANGED <<map, client, faults>>
        ELSE /\ worker' = Nil /\ Go(u, "unlock") /\ UNCHANGED pushq
             /\ IF rebind THEN /\ Rebound([map EXCEPT ![q] = 0], Destroy(entry, e), p, q)
                               /\ faults' = faults \cup DestroyFaults(e, u, q) \cup RebindFaults(p, q)
                ELSE Rebound(map, entry, p, q) /\ faults' = faults \cup RebindFaults(p, q)
     /\ UNCHANGED <<writer, dev, treeq, pullq, jan, latest>>

\* The map is not unlocked when a directory has been rebound.
UnlockMap_Not(u) ==
  /\ At(u, "unlock") /\ Finish(u)
  /\ UNCHANGED <<map, writer, entry, dev, queues, worker, jan, latest, faults>>

UnlockMap(u) ==
  /\ At(u, "unlock") /\ Finish(u) /\ writer' = Nil
  /\ UNCHANGED <<map, entry, dev, queues, worker, jan, latest, faults>>

\* There is nothing to pull; or the device gives the file, breaks off, which nobody looks
\* at, or refuses.  (A refused pull leaves an empty copy, which is like none.)
ServePull ==
  /\ worker = Nil /\ treeq = <<>> /\ pullq # <<>> /\ pullq' = Tail(pullq)
  /\ LET e == Head(pullq).e  p == Head(pullq).path IN
     \E got \in IF dev[p] = NoFile THEN {NoFile} ELSE {dev[p], Part, NoFile} :
       /\ entry' = [entry EXCEPT ![e] = IF got = NoFile THEN [@ EXCEPT !.status = "FAIL"]
                   ELSE [@ EXCEPT !.status = "AVAILABLE", !.copy = got, !.home = p]]
       /\ faults' = faults \cup IF got = NoFile THEN {} ELSE
               (IF entry[e].path # p THEN {"stalePull"} ELSE {})
               \cup (IF \E f \in Entries \ {e} : entry[f].home = p THEN {"twoCopies"} ELSE {})
               \cup IF got # dev[p] THEN {"brokenRead"} ELSE {}
  /\ UNCHANGED <<map, writer, dev, treeq, pushq, worker, client, jan, latest>>

\* The path is that of the time when the request was made.  There may be nothing to push,
\* or nothing to replace; the device may refuse, or delete the file and then refuse.
ServePush ==
  /\ worker = Nil /\ treeq = <<>> /\ pullq = <<>> /\ pushq # <<>> /\ pushq' = Tail(pushq)
  /\ LET e == Head(pushq).e  p == Head(pushq).path
         good == entry[e].copy \notin {NoFile, Empty} /\ dev[p] # NoFile
     IN \E put \in IF good THEN {"all", "nothing", "deletion"} ELSE {"nothing"} :
          /\ dev' = CASE put = "all" -> [dev EXCEPT ![p] = entry[e].copy]
                      [] put = "deletion" -> [dev EXCEPT ![p] = NoFile]
                      [] OTHER -> dev
          /\ entry' = IF entry[e].status # "PUSHING" THEN entry
                      ELSE [entry EXCEPT ![e].status = IF put = "all" THEN "AVAILABLE" ELSE "DIRTY"]
          /\ faults' = faults
               \cup (IF entry[e].home # p THEN {"stalePush"} ELSE {})
               \cup (IF put = "deletion" THEN {"brokenPush"} ELSE {})
               \cup IF good /\ put = "nothing" /\ Deleters(e) # {} THEN {"refusedPush"} ELSE {}
  /\ UNCHANGED <<map, writer, treeq, pullq, worker, client, jan, latest>>

-----------------------------------------------------------------------------
(* generalTimeBasedSync: pushes what is dirty and deletes what is idle.    *)

IsIdle(r) == r.status \notin {"PULLING", "PUSHING", "DIRTY"} /\ r.uses = NoUses

Scan ==
  /\ jan.step = "rest" /\ jan.rounds < MaxRounds /\ Unlocked
  /\ LET here == {p \in Paths : map[p] # 0}
         dirty == {map[p] : p \in {p \in here : entry[map[p]].status = "DIRTY" /\ entry[map[p]].uses["write"] = 0}}
     IN \E push \in SUBSET dirty, old \in SUBSET {p \in here : IsIdle(entry[map[p]])} :
          /\ entry' = [e \in Entries |-> IF e \in push THEN [entry[e] EXCEPT !.status = "PUSHING"] ELSE entry[e]]
          /\ pushq' = pushq \o SetToSeq({[e |-> e, path |-> entry[e].path] : e \in push})
          /\ jan' = [jan EXCEPT !.step = "lock", !.victims = old, !.rounds = @ + 1]
  /\ UNCHANGED <<map, writer, dev, treeq, pullq, worker, client, latest, faults>>

LockForDeletion ==
  /\ jan.step = "lock" /\ Unlocked /\ writer' = Janitor /\ jan' = [jan EXCEPT !.step = "delete"]
  /\ UNCHANGED <<map, entry, dev, queues, worker, client, latest, faults>>

\* What has been listed is deleted, whatever it has become since.
DeleteThese ==
  /\ jan.step = "delete"
  /\ \/ /\ jan.victims = {} /\ writer' = Nil /\ jan' = [jan EXCEPT !.step = "rest"]
        /\ UNCHANGED <<entry, pushq>>
     \/ \E p \in jan.victims :
          /\ IF map[p] = 0
             THEN jan' = [jan EXCEPT !.victims = @ \ {p}] /\ UNCHANGED <<entry, pushq>>
             ELSE jan' = [jan EXCEPT !.step = "deleting", !.e = map[p], !.path = p] /\ BeginDelete(map[p])
          /\ UNCHANGED writer
  /\ UNCHANGED <<map, dev, treeq, pullq, worker, client, latest, faults>>

EndDeletion ==
  /\ jan.step = "deleting" /\ Deletable(jan.e)
  /\ entry' = Destroy(entry, jan.e) /\ map' = [map EXCEPT ![jan.path] = 0]
  /\ faults' = faults \cup DestroyFaults(jan.e, Janitor, jan.path)
  /\ jan' = [jan EXCEPT !.step = "delete", !.victims = @ \ {jan.path}, !.e = 0, !.path = Nil]
  /\ UNCHANGED <<writer, dev, queues, worker, client, latest>>

-----------------------------------------------------------------------------
Init ==
  /\ map = [p \in Paths |-> 0] /\ writer = Nil
  /\ entry = [e \in Entries |-> Unborn]
  /\ dev \in {f \in [Paths -> Paths \cup {NoFile}] : \A p \in Paths : f[p] \in {p, NoFile}}
  /\ treeq = <<>> /\ pullq = <<>> /\ pushq = <<>>
  /\ worker = Nil /\ client = [u \in Users |-> Idle]
  /\ jan = [step |-> "rest", victims |-> {}, e |-> 0, path |-> Nil, rounds |-> 0]
  /\ latest = dev /\ faults = {}

User(u) == \/ AwaitAccess(u) \/ CheckAccess(u) \/ Access(u) \/ EndAccess(u)
           \/ Unlink(u) \/ Forget(u) \/ Forgotten(u)
           \/ LockMap(u) \/ Rebind(u) \/ Rebinding(u) \/ UnlockMap(u)
Worker == ServeTree \/ EndListing \/ CacheRebinder \/ ServePull \/ ServePush
Deletion == LockForDeletion \/ DeleteThese \/ EndDeletion
New(u) == \E p, q \in Paths, op \in Menu[u] : Begin(u, op, p) \/ Call(u, op, p, q) \/ (op = "delete" /\ Delete(u, p))
Next == Steady /\ ((\E u \in Users : New(u) \/ User(u)) \/ Worker \/ Scan \/ Deletion)
Spec == Init /\ [][Next]_vars

\* What has begun goes on as long as it can; nobody has to begin anything.
FairSpec == Spec /\ WF_vars(Steady /\ ((\E u \in Users : User(u)) \/ Worker \/ Deletion))

-----------------------------------------------------------------------------
(* Properties.                                                             *)

\* Types; and an entry is in the map under one path, and alive as long as it is there:
\* none stays under its old path when it is rebound or has been deleted.
TypeOK ==
  /\ Steady => \A p \in Paths : map[p] # 0 => entry[map[p]].life = "alive"
  /\ \A p, q \in Paths : p # q /\ map[p] # 0 => map[p] # map[q]
  /\ writer \in Users \cup {Janitor, Nil}
  /\ \A p \in Paths : dev[p] \in {NoFile, Empty, Part} \cup Paths \cup Users
  /\ worker \in {Nil, "listing", "rebinding", "stuck"}
  /\ jan.victims \subseteq Paths /\ jan.rounds \in 0 .. MaxRounds
  /\ faults \subseteq {"freed", "writtenWhileDeleted", "betweenDeletes", "endedElsewhere", "strayEntry",
                "failedWrite", "stalePull", "stalePush", "twoCopies", "grantedMidPull", "brokenRead",
                "brokenPush", "refusedPush"}

\* Who holds the lock of the map waits for the worker, and the worker for the lock, or
\* for itself.
Stuck == \/ worker = "stuck"
         \/ /\ worker = "listing" /\ writer # Nil
            /\ \/ \E u \in Users : client[u].step \in {"isdir", "rebindall", "rebinding"}
               \/ jan.step = "deleting"

\* Every call ends and the janitor rests, unless a listing meets the lock of a mover or of
\* the janitor (DokanFindFiles asks the cache from a callback of the worker).
EndsUnlessStuck ==
  <>[](Steady /\ ~Stuck => jan.step \in {"rest"} /\ \A u \in Users : client[u].step = "idle")

\* What was written last to a file, wherever moveOrRenameInode has moved it since, is on
\* the device or in an entry of the map that will bring it there.
WrittenIsKept ==
  faults = {} => \A p \in Paths : latest[p] \in Users =>
    \/ dev[p] = latest[p]
    \/ \E e \in Entries : /\ \E q \in Paths : map[q] = e
                        /\ entry[e].home = p /\ entry[e].copy = latest[p]
                        /\ \/ entry[e].status \in {"DIRTY", "PUSHING"}
                           \/ \E u \in Users : At(u, "end") /\ client[u].e = e /\ client[u].op = "write"

\* An entry of the map that has a copy holds the file that is at its path, but between the
\* move of the file on the device and the rebind of its entry, and before a mover has
\* deleted the entry of the file it replaces.
EntriesAreAtHome ==
  faults = {} => \A p \in Paths :
    map[p] # 0 /\ entry[map[p]].status \in {"AVAILABLE", "DIRTY", "PUSHING"} =>
      \/ entry[map[p]].home = p
      \/ \E u \in Users :
           \/ client[u].path = p /\ client[u].step \in {"lock", "isdir", "rebindall", "rebind", "rebinding"}
           \/ client[u].to = p /\ client[u].op # "movedir" /\ client[u].step \in {"forget", "forgetting"}
=============================================================================
