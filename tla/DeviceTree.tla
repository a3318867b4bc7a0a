------------------------------ MODULE DeviceTree ------------------------------
(***************************************************************************)
(* The tree of a device: the requests the worker serves on it, the cache   *)
(* of directory listings they go through, and the callbacks of the mounted *)
(* drive that issue them one after the other.                              *)
(*                                                                         *)
(* The worker serves one request at a time, so a request is one step; what *)
(* it does is a chain of device calls, each of which may fail.  An         *)
(* operation is therefore the set of its outcomes [s, r]: the state s it   *)
(* leaves and the value r it returns.  Then(outcomes, F) goes on with F.   *)
(***************************************************************************)
EXTENDS Integers, Sequences, FiniteSets, SequencesExt

CONSTANTS MaxId,       \* bound: objects the device has room for
          InitTree,    \* the objects on the device at the start
          CallPaths,   \* the paths the threads use
          Clients,     \* threads of the mounted drive
          MaxCalls,    \* bound: callbacks started in a behaviour
          MaxFaults,   \* bound: device calls that fail in a behaviour
          MaxSteps,    \* bound: steps of one deletion or copy of a directory
          New, Empty, Torn,  \* contents: pushed, of no bytes, of a read that broke off
          Dir,         \* marks a directory in the view of the tree
          Nil, Aborted \* no node; no result, the worker is gone

VARIABLES dev,     \* the device: object id -> [parent, name, dir, content]
          kids,    \* cached listings: directory id -> set of nodes [id, name, dir]
          last,    \* the request served last, its result, and what failed in it
          trouble, \* what has failed so far
          left,    \* failures of the device still to come
          calls,   \* callbacks still to start
          client   \* what each thread of the drive is doing; late: the tree changed under it

vars == <<dev, kids, last, trouble, left, calls, client>>

ASSUME BoundsAssumption == {MaxId, MaxCalls, MaxFaults, MaxSteps} \subseteq Nat

Root == 0
Ids == 1 .. MaxId
RootNode == [id |-> Root, name |-> Nil, dir |-> TRUE]

\* The objects form a tree, and the paths are sequences of names.
ASSUME TreeAssumption ==
  /\ DOMAIN InitTree \subseteq Ids
  /\ InitTree = [i \in DOMAIN InitTree |-> [parent |-> InitTree[i].parent, name |-> InitTree[i].name,
                                            dir |-> InitTree[i].dir, content |-> InitTree[i].content]]
  /\ \A i \in DOMAIN InitTree :
       /\ InitTree[i].dir \in BOOLEAN
       /\ InitTree[i].parent \in {Root} \cup {j \in DOMAIN InitTree : InitTree[j].dir}
  /\ \A S \in SUBSET DOMAIN InitTree : S # {} => \E i \in S : InitTree[i].parent \notin S
ASSUME PathAssumption == \A p \in CallPaths : p \in Seq({p[i] : i \in DOMAIN p})

Out(s, r) == [s |-> s, r |-> r]
Halted(s) == s.bad \cap {"thrown", "dangling"} # {}
Then(outs, F(_, _)) ==
  UNION {IF Halted(o.s) THEN {Out(o.s, Aborted)} ELSE F(o.s, o.r) : o \in outs}
Fail(s, kind) == IF s.left = 0 THEN {} ELSE {[s EXCEPT !.bad = @ \cup {kind}, !.left = @ - 1]}

-----------------------------------------------------------------------------
(* Nodes and the cache of their children.                                  *)

Children(d, i) ==
  {[id |-> c, name |-> d[c].name, dir |-> d[c].dir] : c \in {c \in DOMAIN d : d[c].parent = i}}
Put(f, i, v) == [j \in DOMAIN f \cup {i} |-> IF j = i THEN v ELSE f[j]]
Drop(f, S) == [j \in DOMAIN f \ S |-> f[j]]
Cached(s, i) == IF i \in DOMAIN s.kids THEN s.kids[i] ELSE {}

\* Nobody catches what is thrown when the properties of an object cannot be read.
ReadProperties(s) == Fail(s, "thrown")

\* Reading a listing adds what it finds to the nodes there are; Nil when it fails.  When
\* the next object cannot be had, those before it are taken for the whole listing.
Listed(s, i, found) == Out([s EXCEPT !.kids = Put(@, i, Cached(s, i) \cup found)], found)
EvaluateChildren(s, i) ==
  LET nodes == Children(s.dev, i)
  IN {Listed(s, i, nodes)}
       \cup {Out(t, Nil) : t \in Fail(s, "listing")}
       \cup {Listed(t, i, {m \in nodes : m.id < n.id}) : t \in Fail(s, "listing"), n \in nodes}
       \cup {Out(t, Aborted) : t \in IF nodes = {} THEN {} ELSE ReadProperties(s)}

HaveChildren(s, i) == IF i \in DOMAIN s.kids THEN {Out(s, s.kids[i])} ELSE EvaluateChildren(s, i)

\* The device lists its oldest object first.
Oldest(nodes) == IF nodes = {} THEN Nil
                 ELSE CHOOSE n \in nodes : \A m \in nodes : n.id <= m.id

GetContentByName(s, node, name) ==
  IF node.dir THEN Then(HaveChildren(s, node.id), LAMBDA t, found :
                     {Out(t, Oldest({n \in Cached(t, node.id) : n.name = name}))})
              ELSE {Out(s, Nil)}

\* walk[i]: after the first i names of the path
FilePathToNode(s, path) ==
  LET walk[i \in 0 .. Len(path)] ==
        IF i = 0 THEN {Out(s, RootNode)}
        ELSE Then(walk[i - 1], LAMBDA t, n :
               IF n = Nil THEN {Out(t, Nil)} ELSE GetContentByName(t, n, path[i]))
  IN walk[Len(path)]

\* deleteSubCache frees the nodes below a directory with their listings: the smallest set
\* of listings with that of i and those of the directories in it.
Below(k, i) ==
  LET Closed(S) == \A j \in S : \A n \in k[j] : n.dir /\ n.id \in DOMAIN k => n.id \in S
  IN {j \in DOMAIN k : i \in DOMAIN k /\ \A S \in SUBSET DOMAIN k : i \in S /\ Closed(S) => j \in S}
DeleteSubCache(s, i) == [s EXCEPT !.kids = Drop(@, Below(@, i))]
Parent(s, node) == CHOOSE i \in DOMAIN s.kids : node \in s.kids[i]

-----------------------------------------------------------------------------
(* Calls of the device.                                                    *)

\* An object id is not given again while a request or a listing may still hold it.
FreeIds(s) == Ids \ s.taken
Named(k) == {n.id : n \in UNION {k[i] : i \in DOMAIN k}}

FileProperties(node, name, content) ==
  [parent |-> node.id, name |-> name, dir |-> FALSE, content |-> content]
FolderProperties(node, name) == [parent |-> node.id, name |-> name, dir |-> TRUE, content |-> Dir]

\* A file's node, which has no children, answers with false.
CreateObject(s, node, object) ==
  IF ~node.dir \/ (node.id # Root /\ node.id \notin DOMAIN s.dev) THEN {Out(s, FALSE)}
  ELSE IF FreeIds(s) = {} THEN {Out([s EXCEPT !.bad = @ \cup {"full"}], FALSE)}
  ELSE LET i == CHOOSE i \in FreeIds(s) : \A j \in FreeIds(s) : i <= j
       IN {Out([s EXCEPT !.dev = Put(@, i, object), !.taken = @ \cup {i}], TRUE)}
            \cup {Out(t, FALSE) : t \in Fail(s, "create")}
CreateNewFileWithStream(s, node, name, content) ==
  CreateObject(s, node, FileProperties(node, name, content))
CreateNewFolder(s, node, name) == CreateObject(s, node, FolderProperties(node, name))

\* contentToStream: what it wrote, or Nil.  A failing read ends the copy unnoticed.
ContentToStream(s, node) ==
  IF node.dir \/ node.id \notin DOMAIN s.dev THEN {Out(s, Nil)}
  ELSE {Out(s, s.dev[node.id].content)}
         \cup {Out(t, r) : t \in Fail(s, "read"), r \in {Nil, Torn}}

\* Delete without recursion.  It may report success (S_FALSE) and leave the object there.
DeleteObject(s, i) ==
  IF i \notin DOMAIN s.dev THEN {Out(s, TRUE), Out(s, FALSE)}
  ELSE IF Children(s.dev, i) # {} THEN {Out(s, FALSE)}
  ELSE {Out([s EXCEPT !.dev = Drop(@, {i})], TRUE)}
         \cup {Out(t, TRUE) : t \in Fail(s, "delete")} \cup {Out(t, FALSE) : t \in Fail(s, "delete")}

\* SetValues may also report success and change nothing; the listing is thrown away.
SetValues(s, node, name) ==
  IF node.id \notin DOMAIN s.dev THEN {Out(s, FALSE)} ELSE
  {Out(DeleteSubCache([s EXCEPT !.dev[node.id].name = name], Parent(s, node)), TRUE)}
    \cup {Out(t, FALSE) : t \in Fail(s, "rename")}
    \cup {Out(DeleteSubCache(t, Parent(s, node)), TRUE) : t \in Fail(s, "rename")}

\* A node that was freed is used: what it names is gone, or is there by chance.
UseFreed(s) == [s EXCEPT !.bad = @ \cup {"dangling"}]

\* rename: the node goes with the listing that named it, and is used once more.
Rename(s, node, name) ==
  LET outs == SetValues(s, node, name)
  IN outs \cup {Out(UseFreed(o.s), TRUE) : o \in {o \in outs : o.r}}

\* deleteMe.  A directory lists its children again, adding to the nodes it has, deletes
\* the nodes one by one, those it had first, and itself when a fresh listing is empty.  The
\* first of the frames is at work, on a child of the one after it; what fails ends all (Nil).
Enter(s, dir, outer) ==
  Then(EvaluateChildren(s, dir.id), LAMBDA t, found :
    {Out(t, IF found = Nil THEN Nil
            ELSE <<[dir |-> dir, old |-> Cached(s, dir.id), found |-> found]>> \o outer)})

DeleteAll(s, f, outer) ==
  LET n == Oldest(IF f.old # {} THEN f.old ELSE f.found)
      rest == IF f.old # {} THEN [f EXCEPT !.old = @ \ {n}] ELSE [f EXCEPT !.found = @ \ {n}]
  IN IF n.dir THEN Enter(s, n, <<rest>> \o outer)
     ELSE Then(DeleteObject(s, n.id), LAMBDA t, ok : {Out(t, IF ok THEN <<rest>> \o outer ELSE Nil)})

DeleteEmpty(s, f, outer) ==
  Then(EvaluateChildren(DeleteSubCache(s, f.dir.id), f.dir.id), LAMBDA t, found :
    IF found # {} THEN {Out(t, Nil)}
    ELSE Then(DeleteObject(t, f.dir.id), LAMBDA u, ok : {Out(u, IF ok THEN outer ELSE Nil)}))

DeleteStep(s, frames) ==
  IF frames = Nil \/ frames = <<>> THEN {Out(s, frames)} ELSE
  LET f == Head(frames)
  IN IF f.old \cup f.found # {} THEN DeleteAll(s, f, Tail(frames)) ELSE DeleteEmpty(s, f, Tail(frames))

DeleteMe(s, node) ==
  LET run[n \in 0 .. MaxSteps] ==
        IF n = 0 THEN Enter(s, node, <<>>) ELSE Then(run[n - 1], DeleteStep)
  IN IF node.dir
     THEN Then(run[MaxSteps], LAMBDA t, frames :
            IF frames = Nil \/ frames = <<>> THEN {Out(t, frames # Nil)} ELSE {})
     ELSE DeleteObject(s, node.id)

-----------------------------------------------------------------------------
(* AbstractMappableDrive: the operations on paths.                         *)

IsFile(node) == node # Nil /\ ~node.dir
IsDirectory(node) == node # Nil /\ node.dir

ReadFile(s, path) ==
  Then(FilePathToNode(s, path), LAMBDA t, n :
    IF ~IsFile(n) THEN {Out(t, FALSE)}
    ELSE Then(ContentToStream(t, n), LAMBDA u, got : {Out(u, got # Nil)}))

\* (The file is deleted before anybody knows that it is no directory.)
WriteFile_Any(s, path, content) ==
  Then(FilePathToNode(s, path), LAMBDA t, n :
    IF n = Nil \/ n = RootNode THEN {Out(t, FALSE)} ELSE
    LET p == Parent(t, n) IN
    Then(DeleteMe(t, n), LAMBDA u, deleted : {Out(DeleteSubCache(u, p), IsFile(n) /\ deleted)}))

\* Deletes the file and creates it anew; the times are set on what is found then.
WriteFile(s, path, content) ==
  Then(FilePathToNode(s, path), LAMBDA t, n :
    IF ~IsFile(n) THEN {Out(t, FALSE)} ELSE
    LET p == Parent(t, n)
        parent == [id |-> p, name |-> Nil, dir |-> TRUE]
    IN Then(DeleteMe(t, n), LAMBDA u, deleted :
         IF ~deleted THEN {Out(u, FALSE)} ELSE
         Then(CreateNewFileWithStream(DeleteSubCache(u, p), parent, n.name, content), LAMBDA v, created :
           Then(FilePathToNode(DeleteSubCache(v, p), path), LAMBDA w, found : {Out(w, created)}))))

\* createFileWithStream and createFolder: the listing is thrown away when it worked.
CreateIn(s, base, Create(_, _)) ==
  Then(FilePathToNode(s, base), LAMBDA t, n :
    IF n = Nil THEN {Out(t, FALSE)} ELSE
    Then(Create(t, n), LAMBDA u, ok : {Out(IF ok THEN DeleteSubCache(u, n.id) ELSE u, ok)}))

\* (The listing is kept.)
CreateFileWithStream_Keeps(s, base, name, content) ==
  Then(FilePathToNode(s, base), LAMBDA t, n :
    IF n = Nil THEN {Out(t, FALSE)} ELSE CreateNewFileWithStream(t, n, name, content))

CreateFileWithStream(s, base, name, content) ==
  CreateIn(s, base, LAMBDA t, n : CreateNewFileWithStream(t, n, name, content))
CreateFolder(s, base, name) == CreateIn(s, base, LAMBDA t, n : CreateNewFolder(t, n, name))

DeleteFileOrDirectory(s, path) ==
  Then(FilePathToNode(s, path), LAMBDA t, n :
    IF n = Nil \/ n = RootNode THEN {Out(t, FALSE)} ELSE
    LET p == Parent(t, n)
    IN Then(DeleteMe(t, n), LAMBDA u, ok : {Out(DeleteSubCache(u, p), ok)}))

\* doForAllDirContent: the nodes it visits, none when the listing fails
DoForAllDirContent(s, path) ==
  Then(FilePathToNode(s, path), LAMBDA t, n :
    IF ~IsDirectory(n) THEN {Out(t, {})}
    ELSE Then(HaveChildren(t, n.id), LAMBDA u, listed : {Out(u, Cached(u, n.id))}))

RenameObject(s, path, name) ==
  Then(FilePathToNode(s, path), LAMBDA t, n :
    Then(FilePathToNode(t, Append(Front(path), name)), LAMBDA u, m :
      IF n = Nil \/ m # Nil THEN {Out(u, FALSE)} ELSE Rename(u, n, name)))

\* (What was not read is stored all the same.)
CopyFile_Unread(s, node, dest, name) ==
  Then(ContentToStream(s, node), LAMBDA t, got :
    Then(CreateNewFileWithStream(t, dest, name, got), LAMBDA u, pushed : {Out(u, pushed)}))

\* Through the intermediate store, which is empty when nothing was read.
CopyFile(s, node, dest, name) ==
  Then(ContentToStream(s, node), LAMBDA t, got :
    Then(CreateNewFileWithStream(t, dest, name, IF got = Nil THEN Empty ELSE got), LAMBDA u, pushed :
      {Out(u, got # Nil /\ pushed)}))

\* CopyAllStuffThatIsInsideADirectory: copies each child of a directory into dest, then
\* deletes those it copied.  TRUE when none failed; an unreadable listing has no child.
\* The first of the frames is at work, on a child of the one after it.
Frame(nodes, dest, path) ==
  [nodes |-> nodes, dest |-> dest, path |-> path, copied |-> {}, error |-> FALSE]
Work(frames, ok) == [frames |-> frames, ok |-> ok]

\* The first of the children is done.
ChildDone(f, ok) ==
  LET n == Oldest(f.nodes)
  IN [f EXCEPT !.nodes = @ \ {n}, !.copied = IF ok THEN @ \cup {n} ELSE @, !.error = @ \/ ~ok]

CopyEach(s, f, outer) ==
  LET n == Oldest(f.nodes)
      Copied(t, ok) == {Out(t, Work(<<ChildDone(f, ok)>> \o outer, TRUE))}
  IN IF ~n.dir THEN Then(CopyFile(s, n, f.dest, n.name), Copied) ELSE
     Then(CreateNewFolder(s, f.dest, n.name), LAMBDA t, ignored :
       Then(FilePathToNode(t, Append(f.path, n.name)), LAMBDA u, folder :
         IF folder = Nil THEN Copied(u, FALSE)
         ELSE Then(HaveChildren(u, n.id), LAMBDA v, found :
                {Out(v, Work(<<Frame(Cached(v, n.id), folder, Append(f.path, n.name)), f>> \o outer, TRUE))})))

TidyUp(s, f, outer) ==
  LET n == Oldest(f.copied)
  IN Then(DeleteMe(s, n), LAMBDA t, ignored : {Out(t, Work(<<[f EXCEPT !.copied = @ \ {n}]>> \o outer, TRUE))})

CopyStep(s, w) ==
  IF w.frames = <<>> THEN {Out(s, w)} ELSE
  LET f == Head(w.frames)
      outer == Tail(w.frames)
  IN IF f.nodes # {} THEN CopyEach(s, f, outer)
     ELSE IF f.copied # {} THEN TidyUp(s, f, outer)
     ELSE IF outer = <<>> THEN {Out(s, Work(<<>>, ~f.error))}
     ELSE {Out(s, Work(<<ChildDone(Head(outer), ~f.error)>> \o Tail(outer), TRUE))}

CopyAll(s, node, dest, path) ==
  LET run[n \in 0 .. MaxSteps] ==
        IF n = 0 THEN Then(HaveChildren(s, node.id), LAMBDA t, found :
                        {Out(t, Work(<<Frame(Cached(t, node.id), dest, path)>>, TRUE))})
        ELSE Then(run[n - 1], CopyStep)
  IN Then(run[MaxSteps], LAMBDA t, w : IF w.frames = <<>> THEN {Out(t, w.ok)} ELSE {})

\* (Any second call uses a freed node when there was something to free.)
DeleteSubCaches_All(s, i, j) ==
  IF i # j /\ i \in DOMAIN s.kids THEN UseFreed(s)
  ELSE DeleteSubCache(DeleteSubCache(s, i), j)

\* The second of two deleteSubCache calls uses a node that the first one may have freed.
DeleteSubCaches(s, i, j) ==
  IF i # j /\ j \in UNION {{n.id : n \in s.kids[k]} : k \in Below(s.kids, i)}
  THEN UseFreed(s)
  ELSE DeleteSubCache(DeleteSubCache(s, i), j)

\* (The old file goes whether or not it was copied.)
MoveFile_Always(s, node, base, name) ==
  LET parent == Parent(s, node)
  IN Then(CopyFile(s, node, base, name), LAMBDA t, copied :
       Then(DeleteMe(t, node), LAMBDA u, ignored : {Out(DeleteSubCaches(u, base.id, parent), copied)}))

MoveFile(s, node, base, name) ==
  LET parent == Parent(s, node)
  IN Then(CopyFile(s, node, base, name), LAMBDA t, copied :
       IF ~copied THEN {Out(t, FALSE)} ELSE
       Then(DeleteMe(t, node), LAMBDA u, ignored : {Out(DeleteSubCaches(u, base.id, parent), TRUE)}))

MoveDirectory(s, node, base, path) ==
  LET parent == Parent(s, node)
  IN Then(CreateNewFolder(s, base, Last(path)), LAMBDA t, created :
       IF ~created THEN {Out(t, FALSE)} ELSE
       Then(FilePathToNode(t, path), LAMBDA u, folder :
         IF folder = Nil THEN {Out(u, FALSE)} ELSE
         Then(CopyAll(u, node, folder, path), LAMBDA v, ok :
           IF ~ok THEN {Out(DeleteSubCache(DeleteSubCache(v, node.id), base.id), FALSE)} ELSE
           Then(DeleteMe(v, node), LAMBDA w, ignored :
             {Out(DeleteSubCaches(w, parent, base.id), TRUE)}))))

\* moveNode between two directories, and internalMoveNode
MoveNode(s, old, new) ==
  Then(FilePathToNode(s, old), LAMBDA t, n :
    Then(FilePathToNode(t, new), LAMBDA u, m :
      IF n = Nil \/ m # Nil THEN {Out(u, FALSE)} ELSE
      Then(FilePathToNode(u, new), LAMBDA v, m2 :
        Then(FilePathToNode(v, Front(new)), LAMBDA w, base :
          IF m2 # Nil \/ base = Nil THEN {Out(w, FALSE)}
          ELSE IF n.dir THEN MoveDirectory(w, n, base, new)
          ELSE MoveFile(w, n, base, Last(new))))))

-----------------------------------------------------------------------------
(* The worker: ConnectionSync's handlers of the requests.                  *)

Exists(s, path, Test(_)) == Then(FilePathToNode(s, path), LAMBDA t, n : {Out(t, Test(n))})

CreateAs(s, path, Same(_), Other(_), Create(_)) ==
  IF path = <<>> THEN {Out(s, FALSE)} ELSE
  Then(FilePathToNode(s, path), LAMBDA t, n :
    IF Same(n) THEN {Out(t, TRUE)} ELSE IF Other(n) THEN {Out(t, FALSE)} ELSE Create(t))
CreateAsFile(s, path) == CreateAs(s, path, IsFile, IsDirectory,
  LAMBDA t : CreateFileWithStream(t, Front(path), Last(path), Empty))
CreateAsDirectory(s, path) == CreateAs(s, path, IsDirectory, IsFile,
  LAMBDA t : CreateFolder(t, Front(path), Last(path)))

DeleteDirOrFile(s, path) ==
  Then(FilePathToNode(s, path), LAMBDA t, n :
    IF n = Nil THEN {Out(t, TRUE)} ELSE DeleteFileOrDirectory(t, path))

HandleFilePull(s, q) == ReadFile(s, q.path)
HandleFilePush(s, q) == WriteFile(s, q.path, New)

\* moveOrRenameInode moves when the directory changes.
MustMove(old, new) == Front(old) # Front(new)

Handle(s, q) ==
  CASE q.kind = "isdir"  -> Exists(s, q.path, IsDirectory)
    [] q.kind = "isfile" -> Exists(s, q.path, IsFile)
    [] q.kind = "inode"  -> Exists(s, q.path, LAMBDA n : n # Nil)
    [] q.kind = "list"   -> Then(DoForAllDirContent(s, q.path), LAMBDA t, nodes : {Out(t, nodes # {})})
    [] q.kind = "mkfile" -> CreateAsFile(s, q.path)
    [] q.kind = "mkdir"  -> CreateAsDirectory(s, q.path)
    [] q.kind = "delete" -> DeleteDirOrFile(s, q.path)
    [] q.kind = "move"   -> IF MustMove(q.path, q.to) THEN MoveNode(s, q.path, q.to)
                            ELSE RenameObject(s, q.path, Last(q.to))
    [] q.kind = "pull"   -> HandleFilePull(s, q)
    [] q.kind = "push"   -> HandleFilePush(s, q)

-----------------------------------------------------------------------------
(* The threads of the drive: each callback is a chain of requests.         *)

Idle == [op |-> "idle", path |-> <<>>, to |-> <<>>, step |-> "idle", late |-> FALSE]

\* DokanMoveFile looks at the new path first; the other requests are about the path.
Request(k) ==
  [kind |-> CASE k.step = "newfile" -> "isfile" [] k.step = "oldfile" -> "isfile"
              [] k.step = "newdir"  -> "isdir"  [] k.step = "rebind"  -> "isdir"
              [] k.step = "replace" -> "delete" [] k.step = "relist"  -> "list"
              [] OTHER -> k.step,
   path |-> IF k.step \in {"newfile", "newdir", "replace", "rebind", "relist"} THEN k.to ELSE k.path,
   to   |-> k.to]

FirstStep(op) == CASE op \in {"create", "mkdir", "rmdir", "find"} -> "isdir"
                   [] op = "unlink" -> "isfile"
                   [] op \in {"move", "moveover"} -> "newfile"
                   [] OTHER -> op

\* What each callback asks next, after the step that returned r.
DokanCreateFile(op, step, r) ==
  IF r \/ step \notin {"isdir", "isfile"} THEN "idle"
  ELSE IF step = "isdir" THEN "isfile" ELSE IF op = "mkdir" THEN "mkdir" ELSE "mkfile"

DokanFindFiles(step, r) == IF step = "isdir" /\ r THEN "list" ELSE "idle"

\* What may be deleted is deleted when the handle is closed.
DokanCleanup(allowed) == IF allowed THEN "delete" ELSE "idle"

\* (The directory may be deleted whatever its listing says.)
DokanDeleteDirectory_Full(step, r) ==
  IF step = "isdir" THEN (IF r THEN "list" ELSE "idle") ELSE DokanCleanup(step = "list")

DokanDeleteDirectory(step, r) ==
  IF step = "isdir" THEN (IF r THEN "list" ELSE "idle") ELSE DokanCleanup(step = "list" /\ ~r)
DokanDeleteFile(step, r) == DokanCleanup(step = "isfile" /\ r)

DokanMoveFile(op, step, r) ==
  CASE step = "newfile" -> IF r THEN "oldfile" ELSE "newdir"
    [] step = "oldfile" -> IF r /\ op = "moveover" THEN "replace" ELSE "idle"
    [] step = "newdir"  -> IF r THEN "idle" ELSE "move"
    [] step = "replace" -> "move"
    [] OTHER            -> "idle"

\* Once it is moved, moveOrRenameInode rebinds the cache entries below a directory.
RebindAfterMove(step, r) ==
  CASE step = "move" /\ r -> "rebind" [] step = "rebind" /\ r -> "relist" [] OTHER -> "idle"

StepAfter(op, step, r) ==
  CASE op \in {"create", "mkdir"} -> DokanCreateFile(op, step, r)
    [] op = "find"   -> DokanFindFiles(step, r)
    [] op = "rmdir"  -> DokanDeleteDirectory(step, r)
    [] op = "unlink" -> DokanDeleteFile(step, r)
    [] op \in {"move", "moveover"} ->
         IF step \in {"move", "rebind", "relist"} THEN RebindAfterMove(step, r)
         ELSE DokanMoveFile(op, step, r)
    [] OTHER         -> "idle"

Alive == trouble \cap {"thrown", "dangling"} = {}

\* Windows starts a callback.  It moves nothing into itself, and not the root.
Call(c) ==
  /\ Alive /\ client[c] = Idle /\ calls > 0
  /\ \E op \in {"create", "mkdir", "rmdir", "unlink", "find", "inode", "push", "pull", "move", "moveover"},
        path \in CallPaths \ {<<>>}, to \in CallPaths \ {<<>>} :
       /\ IF op \in {"move", "moveover"} THEN path = to \/ ~IsPrefix(path, to) ELSE path = to
       /\ client' = [client EXCEPT ![c] = [op |-> op, path |-> path, to |-> to, step |-> FirstStep(op), late |-> FALSE]]
  /\ calls' = calls - 1
  /\ UNCHANGED <<dev, kids, last, trouble, left>>

\* The worker serves the request of a thread, which then goes on.
Serve(c) ==
  /\ Alive /\ client[c] # Idle
  /\ LET q == Request(client[c]) IN
     \E o \in Handle([dev |-> dev, kids |-> kids, bad |-> {}, left |-> left,
                     taken |-> DOMAIN dev \cup DOMAIN kids \cup Named(kids)], q) :
       LET step == IF Halted(o.s) THEN "idle" ELSE StepAfter(client[c].op, client[c].step, o.r)
       IN /\ dev' = o.s.dev /\ kids' = o.s.kids /\ left' = o.s.left
          /\ last' = [kind |-> q.kind, path |-> q.path, to |-> q.to, ok |-> o.r = TRUE /\ ~Halted(o.s), bad |-> o.s.bad]
          /\ trouble' = trouble \cup o.s.bad
               \cup IF o.r # TRUE /\ o.s.dev # dev THEN {"half"} ELSE {}
          /\ client' = [d \in Clients |->
               IF d = c THEN (IF step = "idle" THEN Idle ELSE [client[c] EXCEPT !.step = step])
               ELSE IF client[d] = Idle THEN Idle ELSE [client[d] EXCEPT !.late = @ \/ o.s.dev # dev]]
  /\ UNCHANGED calls

Init ==
  /\ dev = InitTree /\ kids = <<>> /\ trouble = {}
  /\ last = [kind |-> "isdir", path |-> <<>>, to |-> <<>>, ok |-> TRUE, bad |-> {}]
  /\ left = MaxFaults /\ calls = MaxCalls
  /\ client = [c \in Clients |-> Idle]

Next == \E c \in Clients : Call(c) \/ Serve(c)
Spec == Init /\ [][Next]_vars

-----------------------------------------------------------------------------
(* Properties.                                                             *)

\* the objects with their paths, made from the last name up
View(d) ==
  LET Climb(u) == IF u.at = Root THEN u
                  ELSE [u EXCEPT !.at = d[u.at].parent, !.path = <<d[u.at].name>> \o @]
      up[n \in 0 .. MaxId] ==
        IF n = 0 THEN {[at |-> i, path |-> <<>>, content |-> d[i].content] : i \in DOMAIN d}
        ELSE {Climb(u) : u \in up[n - 1]}
  IN {[path |-> u.path, content |-> u.content] : u \in up[MaxId]}
ContentsOn(d) == {d[i].content : i \in DOMAIN d} \ {Dir, Empty, Torn}
AllContents == {InitTree[i].content : i \in DOMAIN InitTree} \cup {New, Empty, Torn}
AllNames == {InitTree[i].name : i \in DOMAIN InitTree} \cup {Last(p) : p \in CallPaths \ {<<>>}}
ASSUME NilAssumption == Nil \notin [id : 0 .. MaxId, name : AllNames \cup {Nil}, dir : BOOLEAN]
FaultKinds == {"listing", "thrown", "create", "read", "delete", "rename", "full", "dangling", "half"}

TypeOK ==
  /\ DOMAIN dev \subseteq Ids
  /\ \A i \in DOMAIN dev : dev[i] \in [parent : {Root} \cup {j \in DOMAIN dev : dev[j].dir},
       name : AllNames, dir : BOOLEAN, content : AllContents \cup {Dir}]
  /\ \A i \in DOMAIN kids : kids[i] \subseteq [id : Ids, name : AllNames, dir : BOOLEAN]
  /\ trouble \subseteq FaultKinds /\ left \in 0 .. MaxFaults /\ calls \in 0 .. MaxCalls

\* The requests implement the tree that DriveTree promises: one that is answered
\* with success is done, completely; one that is refused changed nothing; and after
\* trouble no request touches files away from its paths.
Tree == INSTANCE DriveTree WITH Contents <- AllContents, view <- View(dev), answered <- last
ImplementsTree == Tree!Spec

\* What a request takes away or makes lies at or under its own paths: the files and the
\* directories everywhere else stay as they are, whatever fails in it and however it ends.
\* (ImplementsTree says this and more; here it stands by itself because it is proved.)
TouchesOnlyItsPaths ==
  [][\A e \in (View(dev) \ View(dev')) \cup (View(dev') \ View(dev)) :
       IsPrefix(last'.path, e.path) \/ IsPrefix(last'.to, e.path)]_<<dev, last>>

\* A listing in the cache that is not that of the device is left only by a move that
\* failed, by a listing that broke off, and by the exception that ends the worker: every
\* other request throws away the listings it made stale.
Stale(d, k) == {i \in DOMAIN k : k[i] # Children(d, i)}
StaleOnlyByFailedMove ==
  [][\/ Stale(dev', kids') \subseteq Stale(dev, kids)
     \/ last'.kind = "move" /\ ~last'.ok
     \/ last'.bad \cap {"listing", "thrown"} # {}]_<<dev, kids, last>>

\* A move loses the content of no file, whatever fails in it, but for a listing or a
\* read of the device that broke off, then or before, and was taken for complete.
MoveLosesOnlyUnread ==
  [][last'.kind = "move" /\ trouble' \cap {"listing", "read"} = {}
       => ContentsOn(dev) \subseteq ContentsOn(dev')]_<<dev, last>>

\* A directory found empty is deleted with everything in it, by another request: with a
\* device that never fails this takes only what another thread made in between.
RmdirTakesOnlyLatecomers ==
  [][\A c \in Clients :
       client[c].op = "rmdir" /\ client[c].step = "delete" /\ client'[c] = Idle
         /\ ~client[c].late /\ trouble' = {}
       => View(dev) \ View(dev') \subseteq {[path |-> client[c].path, content |-> Dir]}]_<<client, dev, trouble>>

\* With a device that never fails a directory is moved to any free path.
DirectoryMoveSucceeds ==
  [][left = MaxFaults /\ last'.kind = "move" /\ Front(last'.path) # Front(last'.to)
       /\ Tree!IsDir(last'.path) /\ Tree!Free(last'.to) => last'.ok]_last

\* The worker is lost to a node that was freed only in a rename, or after a move between
\* two directories one of which holds the other: a file moved up, a directory further down.
DanglingOnlyByRenameOrNestedMove ==
  "dangling" \in last.bad =>
    /\ last.kind = "move"
    /\ \/ Front(last.path) = Front(last.to)
       \/ IsPrefix(Front(last.path), Front(last.to)) \/ IsPrefix(Front(last.to), Front(last.path))

\* With a device that never fails, a request is given up half way only where the code
\* does so: a directory moved to another one, which leaves a new empty directory and
\* takes nothing away, and a directory deleted although it has got content meanwhile.
HalfOnlyByDirectories ==
  [][trouble = {} /\ trouble' = {"half"} =>
       \/ /\ last'.kind = "move" /\ View(dev) \subseteq View(dev')
          /\ View(dev') \ View(dev) = {[path |-> last'.to, content |-> Dir]}
       \/ last'.kind = "delete" /\ [path |-> last'.path, content |-> Dir] \in View(dev')]_<<dev, last, trouble>>
=============================================================================
