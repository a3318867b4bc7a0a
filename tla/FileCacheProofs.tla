--------------------------- MODULE FileCacheProofs ---------------------------
(***************************************************************************)
(* Safety of the cache for any number of threads, operations, rounds,      *)
(* entries and failures: there is one entry for a file, nobody waits for a *)
(* request that is over, the use counts are right, and what is written is  *)
(* lost only through the faults the model names.                           *)
(***************************************************************************)
EXTENDS FileCache, QueueTheorems, FiniteSetTheorems, WellFoundedInduction

\* What the janitor holds the map lock for.
Scanning == {"scan", "ifDirty", "setPush", "enqPush", "mark"}
Deleting == {"dIfDirty", "dSetPush", "dEnqPush", "dTest", "dGap", "dSleep", "dFile"}
MapInv ==
  /\ mapReader <=> pc[Janitor] \in Scanning
  /\ mapWriter <=> pc[Janitor] \in Deleting
  /\ pc[Janitor] \in Scanning \cup Deleting => mapped # NoEntry /\ ptr[Janitor] = mapped
  /\ mapped # NoEntry => Alive(mapped)
  /\ OneEntry

\* The entry users have in hand is the one in the map, as long as none is deleted under
\* their hands, and they have it all the way from the look-up to the end of the access.
Holds(u) ==
  IF pc[u] \in {"idle", "create", "node"} THEN ptr[u] = NoEntry
  ELSE pc[u] # "endCreate" /\ mapped # NoEntry /\ ptr[u] = mapped
Writers(e) == {u \in Accessing(e) : Writing(u)}
Readers(e) == {u \in Accessing(e) : ~Writing(u)}
Counted ==
  /\ \A u \in Users : Holds(u)
  /\ \A e \in Entries : Alive(e) => /\ entry[e].writes = Cardinality(Writers(e))
                                   /\ entry[e].reads  = Cardinality(Readers(e))

\* Requests are for the entry in the map, as long as none is deleted under them.
Pulling == {"pullOpen", "pullRead", "pullDone"}
Pushing == {"pushOpen", "pushDelete", "pushCreate", "pushDone"}
WorkerInv == cur = NoEntry <=> wpc \in {"pull", "push"}
RequestsAtMap ==
  /\ \A e \in Waiting(pulls) \cup Waiting(pushes) : e = mapped
  /\ cur # NoEntry => cur = mapped

Inv ==
  /\ Types
  /\ MapInv
  /\ WorkerInv
  /\ NoOrphanWait
  /\ "deletedInUse" \notin unsafe => Counted
  /\ "deletedUnderRequest" \notin unsafe => RequestsAtMap

EntryType == [life : {"unborn", "alive", "deleted"}, status : Status,
              reads : Int, writes : Int, cache : Content]
PcOK ==
  /\ pc \in [Actors -> UserControl \cup JanitorControl]
  /\ pc[Janitor] \in JanitorControl /\ \A u \in Users : pc[u] \in UserControl

-----------------------------------------------------------------------------
(* What the operators do.                                                  *)

\* Whoever moves is the only one, and is then where it went.
LEMMA GotoMoves ==
  ASSUME Types, NEW a \in Actors, NEW p, Goto(a, p),
         a # Janitor => p \in UserControl, a = Janitor => p \in JanitorControl
  PROVE  PcOK' /\ pc'[a] = p /\ \A b \in Actors \ {a} : pc'[b] = pc[b]
BY ActorsAssumption DEF Types, Goto, PcOK, Actors

LEMMA UserMoves ==
  ASSUME Types, NEW u \in Users, NEW p \in UserControl, Goto(u, p)
  PROVE  /\ PcOK' /\ pc'[u] = p /\ \A b \in Actors \ {u} : pc'[b] = pc[b]
         /\ u \in Actors /\ u # Janitor /\ pc'[Janitor] = pc[Janitor]
<1>1. u \in Actors /\ u # Janitor /\ Janitor \in Actors
  BY ActorsAssumption DEF Actors
<1>2. QED
  BY <1>1, GotoMoves

LEMMA JanitorMoves ==
  ASSUME Types, NEW p \in JanitorControl, Goto(Janitor, p)
  PROVE  /\ PcOK' /\ pc'[Janitor] = p /\ \A u \in Users : pc'[u] = pc[u]
         /\ \A b \in Actors \ {Janitor} : pc'[b] = pc[b]
<1>1. Janitor \in Actors /\ Users \subseteq Actors \ {Janitor}
  BY ActorsAssumption DEF Actors
<1>2. QED
  BY <1>1, GotoMoves

\* An actor takes or drops an entry.
LEMMA PtrMoves ==
  ASSUME Types, NEW a \in Actors, NEW e \in {NoEntry} \cup Entries,
         ptr' = [ptr EXCEPT ![a] = e]
  PROVE  /\ ptr' \in [Actors -> {NoEntry} \cup Entries]
         /\ ptr'[a] = e /\ \A b \in Actors \ {a} : ptr'[b] = ptr[b]
BY DEF Types

\* The look into the map.
LEMMA CacheAccessDoes ==
  ASSUME Types, NEW u \in Users, NEW p \in UserControl, NEW q \in UserControl,
         CacheAccess(u, p, q)
  PROVE  /\ ~mapWriter /\ PcOK' /\ ptr' \in [Actors -> {NoEntry} \cup Entries]
         /\ ptr'[u] = mapped /\ pc'[u] = IF mapped # NoEntry THEN p ELSE q
         /\ \A b \in Actors \ {u} : pc'[b] = pc[b] /\ ptr'[b] = ptr[b]
<1>1. u \in Actors /\ mapped \in {NoEntry} \cup Entries
  BY DEF Actors, Types
<1>2. CASE mapped # NoEntry
  BY <1>1, <1>2, UserMoves, PtrMoves DEF CacheAccess
<1>3. CASE mapped = NoEntry
  BY <1>1, <1>3, UserMoves, PtrMoves DEF CacheAccess
<1>4. QED
  BY <1>2, <1>3

\* A look-up that found the entry in the map goes on at p, one that found none at q.
Found(u, p, q) == ptr'[u] = mapped /\ pc'[u] = IF mapped # NoEntry THEN p ELSE q

LEMMA LookupsDo ==
  ASSUME Types, NEW u \in Users
  PROVE  /\ \A o \in Operations : BeginAccess(u, o) => Found(u, "count", "create")
         /\ Flush(u) => Found(u, "ifDirty", "idle")
         /\ EndLookup(u) => Found(u, "end", "endCreate")
<1>1. {"count", "create", "ifDirty", "idle", "end", "endCreate"} \subseteq UserControl
  BY DEF UserControl
<1>2. ASSUME NEW p \in UserControl, NEW q \in UserControl, CacheAccess(u, p, q)
      PROVE  Found(u, p, q)
  BY <1>2, CacheAccessDoes DEF Found
<1>3. ASSUME NEW o \in Operations, BeginAccess(u, o) PROVE Found(u, "count", "create")
  <2>1. CacheAccess(u, "count", "create")
    BY <1>3 DEF BeginAccess
  <2>2. QED
    BY <1>1, <1>2, <2>1
<1>4. ASSUME Flush(u) PROVE Found(u, "ifDirty", "idle")
  <2>1. CacheAccess(u, "ifDirty", "idle")
    BY <1>4 DEF Flush
  <2>2. QED
    BY <1>1, <1>2, <2>1
<1>5. ASSUME EndLookup(u) PROVE Found(u, "end", "endCreate")
  <2>1. CacheAccess(u, "end", "endCreate")
    BY <1>5 DEF EndLookup
  <2>2. QED
    BY <1>1, <1>2, <2>1
<1>6. QED
  BY <1>3, <1>4, <1>5

\* The other entries are as they were, and e is x.
Only(e, x) ==
  /\ entry' \in [Entries -> EntryType] /\ entry'[e] = x
  /\ \A f \in Entries \ {e} : entry'[f] = entry[f]

LEMMA NewEntryType ==
  /\ NewEntry \in EntryType
  /\ \A e \in Entries : Types => Destroyed(e) \in EntryType /\ Destroyed(e).life = "deleted"
<1>1. NewEntry \in EntryType /\ Deleted \in EntryType /\ Deleted.life = "deleted"
  BY DEF EntryType, NewEntry, Deleted, Status, Content
<1>2. ASSUME NEW e \in Entries, Types
      PROVE  Destroyed(e) \in EntryType /\ Destroyed(e).life = "deleted"
  <2>1. entry[e].cache \in Content /\ NoFile \in Content
    BY <1>2 DEF Types, Content
  <2>2. PICK c \in Content : Destroyed(e) = [Deleted EXCEPT !.cache = c]
    BY <2>1 DEF Destroyed
  <2>3. QED
    BY <1>1, <2>2 DEF EntryType
<1>3. QED
  BY <1>1, <1>2

LEMMA CreateCacheEntryDoes ==
  ASSUME Types, NEW u \in Users, NEW p \in UserControl, CreateCacheEntry(u, p)
  PROVE  /\ ~mapWriter /\ ~mapReader /\ UNCHANGED <<mapWriter, mapReader>>
         /\ PcOK' /\ ptr' \in [Actors -> {NoEntry} \cup Entries]
         /\ mapped' \in Entries /\ pc'[u] = p /\ ptr'[u] = mapped'
         /\ \A b \in Actors \ {u} : pc'[b] = pc[b] /\ ptr'[b] = ptr[b]
         /\ entry' \in [Entries -> EntryType]
         /\ mapped # NoEntry => mapped' = mapped /\ entry' = entry
         /\ mapped = NoEntry => entry[mapped'].life = "unborn" /\ Only(mapped', NewEntry)
<1>1. u \in Actors /\ mapped \in {NoEntry} \cup Entries /\ entry \in [Entries -> EntryType]
  BY DEF Actors, Types, EntryType
<1>2. PcOK' /\ pc'[u] = p /\ \A b \in Actors \ {u} : pc'[b] = pc[b]
  BY UserMoves DEF CreateCacheEntry
<1>3. CASE mapped # NoEntry
  <2>1. ptr' = [ptr EXCEPT ![u] = mapped] /\ UNCHANGED <<mapVars, entry>>
    BY <1>3 DEF CreateCacheEntry
  <2>2. QED
    BY <1>1, <1>2, <1>3, <2>1, PtrMoves DEF CreateCacheEntry, mapVars
<1>4. CASE mapped = NoEntry
  <2>1. PICK e \in Entries : /\ entry[e].life = "unborn"
                             /\ entry' = [entry EXCEPT ![e] = NewEntry]
                             /\ mapped' = e /\ ptr' = [ptr EXCEPT ![u] = e]
    BY <1>4 DEF CreateCacheEntry
  <2>2. /\ ptr' \in [Actors -> {NoEntry} \cup Entries]
        /\ ptr'[u] = e /\ \A b \in Actors \ {u} : ptr'[b] = ptr[b]
    BY <1>1, <2>1, PtrMoves
  <2>3. Only(e, NewEntry)
    BY <1>1, <2>1, NewEntryType DEF Only
  <2>4. UNCHANGED <<mapWriter, mapReader>> /\ ~mapWriter /\ ~mapReader
    BY <1>4 DEF CreateCacheEntry
  <2>5. QED
    BY <1>2, <1>4, <2>1, <2>2, <2>3, <2>4 DEF Only
<1>5. QED
  BY <1>3, <1>4

\* Who is woken tests again what it waits for.
LEMMA WokenDoes ==
  ASSUME NEW p
  PROVE  \/ p = "pullSleep" /\ Woken(p) = "pullTest"
         \/ p = "pushSleep" /\ Woken(p) = "pushTest"
         \/ p = "dSleep" /\ Woken(p) = "dTest"
         \/ p \notin {"pullSleep", "pushSleep", "dSleep"} /\ Woken(p) = p
<1>1. CASE p = "pullSleep"
  BY <1>1 DEF Woken
<1>2. CASE p = "pushSleep"
  BY <1>2 DEF Woken
<1>3. CASE p = "dSleep"
  BY <1>3 DEF Woken
<1>4. CASE p \notin {"pullSleep", "pushSleep", "dSleep"}
  BY <1>4 DEF Woken
<1>5. QED
  BY <1>1, <1>2, <1>3, <1>4

\* The status of one entry is set, a use of it counted or uncounted, its copy written.
LEMMA StatusOnly ==
  ASSUME Types, NEW e \in Entries, NEW s \in Status, SetStatus(e, s)
  PROVE  Only(e, [entry[e] EXCEPT !.status = s])
BY DEF Types, EntryType, SetStatus, Only

LEMMA CountOnly ==
  ASSUME Types, NEW e \in Entries, NEW n \in Int,
         \/ entry' = [entry EXCEPT ![e].writes = n]
         \/ entry' = [entry EXCEPT ![e].reads = n]
  PROVE  /\ entry' \in [Entries -> EntryType]
         /\ \A f \in Entries \ {e} : entry'[f] = entry[f]
         /\ \/ entry'[e] = [entry[e] EXCEPT !.writes = n]
            \/ entry'[e] = [entry[e] EXCEPT !.reads = n]
<1>1. entry \in [Entries -> EntryType] /\ entry[e] \in EntryType
  BY DEF Types, EntryType
<1>2. CASE entry' = [entry EXCEPT ![e].writes = n]
  BY <1>1, <1>2 DEF EntryType
<1>3. CASE entry' = [entry EXCEPT ![e].reads = n]
  BY <1>1, <1>3 DEF EntryType
<1>4. QED
  BY <1>2, <1>3

LEMMA CacheOnly ==
  ASSUME Types, NEW e \in Entries, NEW c \in Content,
         entry' = [entry EXCEPT ![e].cache = c]
  PROVE  Only(e, [entry[e] EXCEPT !.cache = c])
BY DEF Types, EntryType, Only

\* There is always a version that is nowhere yet: there are more versions than files
\* and entries that could hold one.
LEMMA FreshVersionExists ==
  ASSUME Types
  PROVE  /\ FreshVersion \in Versions
         /\ FreshVersion \notin {device, latest} \cup {entry[e].cache : e \in Entries}
<1> DEFINE Used == {device, latest} \cup {entry[e].cache : e \in Entries}
           Less == OpToRel(<, Nat)
<1>1. Versions \ Used # {}
  <2> SUFFICES ASSUME Versions \subseteq Used PROVE FALSE
    OBVIOUS
  <2> DEFINE Holders == -1 .. MaxEntries
             f == [v \in Versions |-> IF v = device THEN -1 ELSE IF v = latest THEN 0
                                      ELSE CHOOSE e \in Entries : entry[e].cache = v]
  <2>1. \A v \in Versions : v # device /\ v # latest => f[v] \in Entries /\ entry[f[v]].cache = v
    OBVIOUS
  <2>2. f \in [Versions -> Holders]
    BY <2>1, BoundsAssumption DEF Entries
  <2>3. /\ IsFiniteSet(Versions) /\ Cardinality(Versions) = MaxEntries + 3
        /\ IsFiniteSet(Holders) /\ Cardinality(Holders) = MaxEntries + 2
    BY BoundsAssumption, FS_Interval DEF Versions
  <2>4. Cardinality(Holders) < Cardinality(Versions)
    BY <2>3, BoundsAssumption
  <2> HIDE DEF Holders
  <2>5. PICK x \in Versions, y \in Versions : x # y /\ f[x] = f[y]
    <3> HIDE DEF f
    <3>1. QED
      BY <2>2, <2>3, <2>4, FS_PigeonHole
  <2>6. \A v \in Versions : /\ v = device => f[v] = -1
                            /\ v # device /\ v = latest => f[v] = 0
    OBVIOUS
  <2> HIDE DEF f
  <2>7. QED
    BY <2>1, <2>5, <2>6 DEF Entries
<1>2. Versions \subseteq Nat
  BY BoundsAssumption DEF Versions
<1>3. PICK v \in Versions \ Used : \A w \in Versions \ Used : ~(<<w, v>> \in Less)
  <2>1. IsWellFoundedOn(Less, Nat)
    BY NatLessThanWellFounded
  <2>2. Versions \ Used \subseteq Nat
    BY <1>2
  <2> HIDE DEF Less, Used
  <2>3. QED
    BY <1>1, <2>1, <2>2, WFMin
<1>4. \A w \in Versions : w < v => w \in Used
  BY <1>2, <1>3 DEF OpToRel
<1> HIDE DEF Less
<1>5. \E x \in Versions : x \notin Used /\ \A w \in Versions : w < x => w \in Used
  BY <1>3, <1>4
<1>6. QED
  BY <1>5 DEF FreshVersion

-----------------------------------------------------------------------------
(* Types.                                                                  *)

LEMMA UserTypes ==
  ASSUME Types, NEW u \in Users, Call(u) \/ UserStep(u)
  PROVE  Types'
<1> USE DEF mapVars, userVars, janVars, queueVars, workerVars, deviceVars, ghostVars
<1>0. /\ u \in Actors /\ u # Janitor /\ NoEntry \in {NoEntry} \cup Entries
      /\ ptr \in [Actors -> {NoEntry} \cup Entries] /\ entry \in [Entries -> EntryType]
      /\ PcOK
  BY ActorsAssumption DEF Actors, Types, EntryType, PcOK
\* What every step of a user leaves alone keeps its type.
<1>a. ASSUME PcOK', ptr' \in [Actors -> {NoEntry} \cup Entries],
             entry' \in [Entries -> EntryType],
             UNCHANGED <<mapWriter, mapReader, rounds, victim, pushes, wpc, cur, good>>,
             mapped' \in {NoEntry} \cup Entries,
             op' \in [Users -> Operations], granted' \in [Users -> BOOLEAN],
             ops' \in [Users -> 0 .. MaxOps], pulls' \in Seq(Entries),
             device' \in Content, failures' \in 0 .. MaxFailures, latest' \in Content,
             unsafe' \subseteq Faults, missed' \subseteq Actors
      PROVE  Types'
  BY <1>a DEF Types, PcOK, EntryType
<1>b. /\ mapped \in {NoEntry} \cup Entries
      /\ op \in [Users -> Operations] /\ granted \in [Users -> BOOLEAN]
      /\ ops \in [Users -> 0 .. MaxOps] /\ pulls \in Seq(Entries)
      /\ device \in Content /\ failures \in 0 .. MaxFailures /\ latest \in Content
      /\ unsafe \subseteq Faults /\ missed \subseteq Actors
  BY DEF Types
<1>c. ops[u] < MaxOps => [ops EXCEPT ![u] = @ + 1] \in [Users -> 0 .. MaxOps]
  BY <1>b, BoundsAssumption
<1>d. ASSUME ptr' = [ptr EXCEPT ![u] = NoEntry]
      PROVE  ptr' \in [Actors -> {NoEntry} \cup Entries]
  BY <1>0, <1>d
<1>1. ASSUME NEW o \in Operations, BeginAccess(u, o) PROVE Types'
  <2>1. PcOK' /\ ptr' \in [Actors -> {NoEntry} \cup Entries]
    BY <1>1, CacheAccessDoes DEF BeginAccess, UserControl
  <2>2. op' \in [Users -> Operations] /\ ops' \in [Users -> 0 .. MaxOps]
    BY <1>1, <1>b, <1>c DEF BeginAccess
  <2>3. QED
    BY <1>0, <1>1, <1>a, <1>b, <2>1, <2>2 DEF BeginAccess
<1>2. CASE CreateForBegin(u) \/ CreateForEnd(u)
  <2>1. /\ PcOK' /\ ptr' \in [Actors -> {NoEntry} \cup Entries]
        /\ entry' \in [Entries -> EntryType] /\ mapped' \in {NoEntry} \cup Entries
        /\ UNCHANGED <<mapWriter, mapReader>>
    BY <1>2, CreateCacheEntryDoes DEF CreateForBegin, CreateForEnd, UserControl
  <2>2. QED
    BY <1>2, <1>a, <1>b, <2>1 DEF CreateForBegin, CreateForEnd
<1>3. CASE CountAccess(u)
  <2>1. ptr[u] \in Entries /\ entry[ptr[u]] \in EntryType
    BY <1>0, <1>3 DEF CountAccess, Alive
  <2>2. entry[ptr[u]].writes + 1 \in Int /\ entry[ptr[u]].reads + 1 \in Int
    BY <2>1 DEF EntryType
  <2>3. \/ entry' = [entry EXCEPT ![ptr[u]].writes = entry[ptr[u]].writes + 1]
        \/ entry' = [entry EXCEPT ![ptr[u]].reads = entry[ptr[u]].reads + 1]
    BY <1>3 DEF CountAccess
  <2>4. entry' \in [Entries -> EntryType]
    BY <2>1, <2>2, <2>3, CountOnly
  <2>5. PcOK'
    BY <1>3, UserMoves DEF CountAccess, UserControl
  <2>6. QED
    BY <1>0, <1>3, <1>a, <1>b, <2>4, <2>5 DEF CountAccess
<1>4. CASE GetAccess(u)
  <2>1. PcOK'
    BY <1>4, UserMoves DEF GetAccess, UserControl
  <2>2. granted' \in [Users -> BOOLEAN]
    BY <1>4, <1>b DEF GetAccess
  <2>3. QED
    BY <1>0, <1>4, <1>a, <1>b, <2>1, <2>2 DEF GetAccess
<1>5. CASE AsyncPull(u)
  <2>1. PcOK'
    BY <1>5, UserMoves DEF AsyncPull, UserControl
  <2>2. entry' \in [Entries -> EntryType]
    BY <1>0, <1>5, StatusOnly DEF AsyncPull, Alive, Status, Only
  <2>3. unsafe' \subseteq Faults
    BY <1>5, <1>b DEF AsyncPull, Faults
  <2>4. QED
    BY <1>0, <1>5, <1>a, <1>b, <2>1, <2>2, <2>3 DEF AsyncPull
<1>6. CASE EnqueuePull(u)
  <2>1. PcOK'
    BY <1>6, UserMoves DEF EnqueuePull, UserControl
  <2>2. pulls' \in Seq(Entries)
    BY <1>6, <1>b, AppendWaiting DEF EnqueuePull, Alive
  <2>3. QED
    BY <1>0, <1>6, <1>a, <1>b, <2>1, <2>2 DEF EnqueuePull
<1>7. CASE AwaitPull(u) \/ CheckPull(u) \/ AwaitPush(u)
  <2>1. PcOK'
    BY <1>7, UserMoves DEF AwaitPull, CheckPull, AwaitPush, UserControl
  <2>2. granted' \in [Users -> BOOLEAN] /\ unsafe' \subseteq Faults
    BY <1>7, <1>b DEF AwaitPull, CheckPull, AwaitPush, Faults
  <2>3. QED
    BY <1>0, <1>7, <1>a, <1>b, <2>1, <2>2 DEF AwaitPull, CheckPull, AwaitPush
<1>8. CASE Access(u)
  <2>1. PcOK'
    BY <1>8, UserMoves DEF Access, UserControl
  <2>2. FreshVersion \in Content /\ Empty \in Content
    BY FreshVersionExists DEF Content
  <2>3. PICK c \in Content : \/ entry' = [entry EXCEPT ![ptr[u]].cache = c] /\ latest' = c
                             \/ entry' = entry /\ latest' = latest
    BY <1>8, <2>2 DEF Access
  <2>4. entry' \in [Entries -> EntryType] /\ latest' \in Content
    <3>1. CASE ptr[u] \in Entries
      BY <1>0, <1>b, <2>3, <3>1, CacheOnly DEF Only
    <3>2. CASE ptr[u] \notin Entries
      BY <1>0, <1>b, <2>3, <3>2
    <3>3. QED
      BY <3>1, <3>2
  <2>5. unsafe' \subseteq Faults
    BY <1>8, <1>b DEF Access, Faults
  <2>6. QED
    BY <1>0, <1>8, <1>a, <1>b, <2>1, <2>4, <2>5 DEF Access
<1>9. CASE EndLookup(u)
  <2>1. PcOK' /\ ptr' \in [Actors -> {NoEntry} \cup Entries]
    BY <1>9, CacheAccessDoes DEF EndLookup, UserControl
  <2>2. QED
    BY <1>0, <1>9, <1>a, <1>b, <2>1 DEF EndLookup
<1>10. CASE EndAccess(u)
  <2>1. PcOK'
    BY <1>10, UserMoves DEF EndAccess, UserControl
  <2>2. ptr[u] \in Entries /\ entry[ptr[u]] \in EntryType
    BY <1>0, <1>10 DEF EndAccess, Alive
  <2>3. entry[ptr[u]].writes - 1 \in Int /\ entry[ptr[u]].reads - 1 \in Int
    BY <2>2 DEF EntryType
  <2>4. \/ entry' = [entry EXCEPT ![ptr[u]].writes = entry[ptr[u]].writes - 1]
        \/ entry' = [entry EXCEPT ![ptr[u]].reads = entry[ptr[u]].reads - 1]
    BY <1>10 DEF EndAccess, Release
  <2>5. entry' \in [Entries -> EntryType]
    BY <2>2, <2>3, <2>4, CountOnly
  <2>6. ptr' \in [Actors -> {NoEntry} \cup Entries] /\ granted' \in [Users -> BOOLEAN]
    BY <1>0, <1>10, <1>b, <1>d DEF EndAccess
  <2>7. QED
    BY <1>0, <1>10, <1>a, <1>b, <2>1, <2>5, <2>6 DEF EndAccess
<1>11. CASE MarkDirty(u)
  <2>1. PcOK'
    BY <1>11, UserMoves DEF MarkDirty, UserControl
  <2>2. entry' \in [Entries -> EntryType]
    BY <1>0, <1>11, StatusOnly DEF MarkDirty, Alive, Status, Only
  <2>3. /\ ptr' \in [Actors -> {NoEntry} \cup Entries] /\ granted' \in [Users -> BOOLEAN]
        /\ unsafe' \subseteq Faults
    BY <1>0, <1>11, <1>b, <1>d DEF MarkDirty, Faults
  <2>4. QED
    BY <1>0, <1>11, <1>a, <1>b, <2>1, <2>2, <2>3 DEF MarkDirty
<1>12. CASE Flush(u)
  <2>1. PcOK' /\ ptr' \in [Actors -> {NoEntry} \cup Entries]
    BY <1>12, CacheAccessDoes DEF Flush, UserControl
  <2>2. op' \in [Users -> Operations] /\ ops' \in [Users -> 0 .. MaxOps]
    BY <1>12, <1>b, <1>c DEF Flush, Operations
  <2>3. QED
    BY <1>0, <1>12, <1>a, <1>b, <2>1, <2>2 DEF Flush
<1>13. CASE DeleteCacheEntry(u)
  <2>1. PcOK'
    BY <1>13, UserMoves DEF DeleteCacheEntry, UserControl
  <2>2. op' \in [Users -> Operations] /\ ops' \in [Users -> 0 .. MaxOps]
    BY <1>13, <1>b, <1>c DEF DeleteCacheEntry, Operations
  <2>3. entry' \in [Entries -> EntryType]
    <3>1. mapped # NoEntry => mapped \in Entries /\ Destroyed(mapped) \in EntryType
      BY <1>b, NewEntryType
    <3>2. QED
      BY <1>0, <1>13, <3>1 DEF DeleteCacheEntry
  <2>4. unsafe' \subseteq Faults /\ mapped' \in {NoEntry} \cup Entries
    BY <1>13, <1>b DEF DeleteCacheEntry, Faults, DeletionFaults
  <2>5. UNCHANGED <<mapWriter, mapReader>>
    BY <1>13 DEF DeleteCacheEntry
  <2>6. QED
    BY <1>0, <1>13, <1>a, <1>b, <2>1, <2>2, <2>3, <2>4, <2>5 DEF DeleteCacheEntry
<1>14. CASE DeleteNode(u)
  <2>1. PcOK'
    BY <1>14, UserMoves DEF DeleteNode, UserControl
  <2>2. device' \in Content /\ latest' \in Content /\ failures' \in 0 .. MaxFailures
    BY <1>14, <1>b, BoundsAssumption DEF DeleteNode, DeviceFails, Content
  <2>3. QED
    BY <1>0, <1>14, <1>a, <1>b, <2>1, <2>2 DEF DeleteNode
<1>15. QED
  BY <1>1, <1>2, <1>3, <1>4, <1>5, <1>6, <1>7, <1>8, <1>9, <1>10, <1>11, <1>12, <1>13, <1>14
  DEF Call, UserStep

LEMMA PushTypes ==
  ASSUME Types, NEW a \in Actors, PushStep(a) \/ SpuriousWakeup(a)
  PROVE  Types'
<1> USE DEF mapVars, userVars, janVars, queueVars, workerVars, deviceVars, ghostVars
<1>0. /\ ptr \in [Actors -> {NoEntry} \cup Entries] /\ entry \in [Entries -> EntryType]
      /\ a # Janitor => a \in Users
      /\ a = Janitor => pc[a] \in JanitorControl /\ a \notin Users
      /\ a \in Users => pc[a] \in UserControl
      /\ pushes \in Seq(Entries) /\ unsafe \subseteq Faults /\ missed \subseteq Actors
  BY ActorsAssumption DEF Types, EntryType, Actors
<1>a. ASSUME PcOK', ptr' \in [Actors -> {NoEntry} \cup Entries],
             entry' \in [Entries -> EntryType], pushes' \in Seq(Entries),
             unsafe' \subseteq Faults, missed' \subseteq Actors,
             UNCHANGED <<mapVars, userVars, janVars, pulls, workerVars, deviceVars, latest>>
      PROVE  Types'
  BY <1>a DEF Types, PcOK, EntryType
<1>b. ASSUME Done(a), pc[a] \in {"ifDirty", "dIfDirty", "setPush", "dSetPush", "enqPush", "dEnqPush"}
      PROVE  PcOK' /\ ptr' \in [Actors -> {NoEntry} \cup Entries]
  <2>1. Goto(a, AfterPush(a))
    BY <1>b DEF Done
  <2>2. /\ a # Janitor => AfterPush(a) \in UserControl
        /\ a = Janitor => AfterPush(a) \in JanitorControl
    BY DEF AfterPush, UserControl, JanitorControl
  <2>3. PcOK'
    BY <2>1, <2>2, GotoMoves
  <2>4. QED
    BY <1>0, <1>b, <2>3 DEF Done
<1>1. CASE PushIfDirty(a)
  <2>1. CASE Goto(a, IF pc[a] = "ifDirty" THEN "setPush" ELSE "dSetPush") /\ UNCHANGED ptr
    <3>1. /\ a # Janitor => pc[a] = "ifDirty"
          /\ PcOK'
      BY <1>0, <1>1, <2>1, GotoMoves DEF PushIfDirty, UserControl, JanitorControl
    <3>2. QED
      BY <1>0, <1>1, <1>a, <2>1, <3>1 DEF PushIfDirty
  <2>2. CASE Done(a)
    BY <1>0, <1>1, <1>a, <1>b, <2>2 DEF PushIfDirty
  <2>3. QED
    BY <1>1, <2>1, <2>2 DEF PushIfDirty
<1>2. CASE AsyncPush(a)
  <2>1. CASE Done(a) /\ UNCHANGED <<entry, unsafe>>
    BY <1>0, <1>2, <1>a, <1>b, <2>1 DEF AsyncPush
  <2>2. CASE /\ Goto(a, IF pc[a] = "setPush" THEN "enqPush" ELSE "dEnqPush") /\ UNCHANGED ptr
             /\ SetStatus(ptr[a], "PUSHING")
    <3>1. /\ a # Janitor => pc[a] = "setPush"
          /\ PcOK'
      BY <1>0, <1>2, <2>2, GotoMoves DEF AsyncPush, UserControl, JanitorControl
    <3>2. entry' \in [Entries -> EntryType]
      BY <1>2, <2>2, StatusOnly DEF AsyncPush, Alive, Status, Only
    <3>3. unsafe' \subseteq Faults
      BY <1>0, <1>2 DEF AsyncPush, Faults
    <3>4. QED
      BY <1>0, <1>2, <1>a, <2>2, <3>1, <3>2, <3>3 DEF AsyncPush
  <2>3. QED
    BY <1>2, <2>1, <2>2 DEF AsyncPush
<1>3. CASE EnqueuePush(a)
  <2>1. pushes' \in Seq(Entries)
    BY <1>0, <1>3, AppendWaiting DEF EnqueuePush, Alive
  <2>2. QED
    BY <1>0, <1>3, <1>a, <1>b, <2>1 DEF EnqueuePush
<1>4. CASE FallAsleep(a)
  <2>1. PcOK'
    BY <1>0, <1>4, GotoMoves DEF FallAsleep, UserControl, JanitorControl
  <2>2. QED
    BY <1>0, <1>4, <1>a, <2>1 DEF FallAsleep
<1>5. CASE SpuriousWakeup(a)
  <2>1. PcOK'
    BY <1>0, <1>5, GotoMoves DEF SpuriousWakeup, Woken, UserControl, JanitorControl
  <2>2. QED
    BY <1>0, <1>5, <1>a, <2>1 DEF SpuriousWakeup
<1>6. QED
  BY <1>1, <1>2, <1>3, <1>4, <1>5 DEF PushStep

LEMMA JanitorTypes ==
  ASSUME Types, ScanBegin \/ JanitorStep \/ Unplug
  PROVE  Types'
<1> USE DEF mapVars, userVars, janVars, queueVars, workerVars, deviceVars, ghostVars
<1>0. /\ ptr \in [Actors -> {NoEntry} \cup Entries] /\ entry \in [Entries -> EntryType]
      /\ rounds \in 0 .. MaxRounds /\ unsafe \subseteq Faults /\ victim \in BOOLEAN
      /\ mapped \in {NoEntry} \cup Entries /\ mapWriter \in BOOLEAN /\ mapReader \in BOOLEAN
  BY DEF Types, EntryType
<1>a. ASSUME PcOK', ptr' \in [Actors -> {NoEntry} \cup Entries],
             entry' \in [Entries -> EntryType], rounds' \in 0 .. MaxRounds,
             unsafe' \subseteq Faults, mapped' \in {NoEntry} \cup Entries,
             mapWriter' \in BOOLEAN, mapReader' \in BOOLEAN, victim' \in BOOLEAN,
             UNCHANGED <<userVars, queueVars, workerVars, deviceVars, latest, missed>>
      PROVE  Types'
  BY <1>a DEF Types, PcOK, EntryType
<1>b. ASSUME NEW p \in JanitorControl, Goto(Janitor, p) PROVE PcOK'
  BY <1>b, JanitorMoves
<1>c. ASSUME NEW e \in {NoEntry} \cup Entries, ptr' = [ptr EXCEPT ![Janitor] = e]
      PROVE  ptr' \in [Actors -> {NoEntry} \cup Entries]
  BY <1>0, <1>c
<1>1. CASE ScanBegin
  <2>1. PcOK'
    BY <1>1, <1>b DEF ScanBegin, JanitorControl
  <2>2. ptr' \in [Actors -> {NoEntry} \cup Entries]
    BY <1>0, <1>1, <1>c DEF ScanBegin
  <2>3. rounds' \in 0 .. MaxRounds
    BY <1>0, <1>1, BoundsAssumption DEF ScanBegin
  <2>4. QED
    BY <1>0, <1>1, <1>a, <2>1, <2>2, <2>3 DEF ScanBegin
<1>2. CASE ScanPush
  <2>1. PcOK'
    BY <1>2, <1>b DEF ScanPush, JanitorControl
  <2>2. QED
    BY <1>0, <1>2, <1>a, <2>1 DEF ScanPush
<1>3. CASE ScanMark
  <2>1. PcOK'
    BY <1>3, <1>b DEF ScanMark, JanitorControl
  <2>2. ptr' \in [Actors -> {NoEntry} \cup Entries]
    BY <1>3, <1>c DEF ScanMark
  <2>3. QED
    BY <1>0, <1>3, <1>a, <2>1, <2>2 DEF ScanMark
<1>4. CASE DeleteOld
  <2>1. PcOK'
    BY <1>4, <1>b DEF DeleteOld, JanitorControl
  <2>2. ptr' \in [Actors -> {NoEntry} \cup Entries]
    BY <1>0, <1>4, <1>c DEF DeleteOld
  <2>3. QED
    BY <1>0, <1>4, <1>a, <2>1, <2>2 DEF DeleteOld
<1>5. CASE Unplug
  <2>1. PcOK'
    BY <1>5, <1>b DEF Unplug, JanitorControl
  <2>2. ptr' \in [Actors -> {NoEntry} \cup Entries]
    BY <1>0, <1>5, <1>c DEF Unplug
  <2>3. QED
    BY <1>0, <1>5, <1>a, <2>1, <2>2 DEF Unplug
<1>6. CASE DeleteAwaitsPush
  <2>1. PcOK'
    BY <1>6, <1>b DEF DeleteAwaitsPush, JanitorControl
  <2>2. QED
    BY <1>0, <1>6, <1>a, <2>1 DEF DeleteAwaitsPush
<1>7. CASE DeleteEntry
  <2>1. PcOK'
    BY <1>7, <1>b DEF DeleteEntry, JanitorControl
  <2>2. ptr' \in [Actors -> {NoEntry} \cup Entries]
    BY <1>7, <1>c DEF DeleteEntry
  <2>3. entry' \in [Entries -> EntryType]
    <3>1. ptr[Janitor] \in Entries => Destroyed(ptr[Janitor]) \in EntryType
      BY NewEntryType
    <3>2. QED
      BY <1>0, <1>7, <3>1 DEF DeleteEntry
  <2>4. unsafe' \subseteq Faults
    BY <1>0, <1>7 DEF DeleteEntry, DeletionFaults, Faults
  <2>5. QED
    BY <1>0, <1>7, <1>a, <2>1, <2>2, <2>3, <2>4 DEF DeleteEntry
<1>8. QED
  BY <1>1, <1>2, <1>3, <1>4, <1>5, <1>6, <1>7 DEF JanitorStep

LEMMA WorkerTypes ==
  ASSUME Types, WorkerInv, WorkerStep
  PROVE  Types'
<1> USE DEF mapVars, userVars, janVars, queueVars, workerVars, deviceVars, ghostVars
<1>0. /\ entry \in [Entries -> EntryType] /\ PcOK
      /\ pulls \in Seq(Entries) /\ pushes \in Seq(Entries)
      /\ wpc \in WorkerControl /\ cur \in {NoEntry} \cup Entries /\ good \in BOOLEAN
      /\ device \in Content /\ failures \in 0 .. MaxFailures /\ missed \subseteq Actors
  BY DEF Types, EntryType, PcOK
<1>a. ASSUME PcOK', entry' \in [Entries -> EntryType],
             pulls' \in Seq(Entries), pushes' \in Seq(Entries),
             wpc' \in WorkerControl, cur' \in {NoEntry} \cup Entries, good' \in BOOLEAN,
             device' \in Content, failures' \in 0 .. MaxFailures, missed' \subseteq Actors,
             UNCHANGED <<mapVars, ptr, userVars, janVars, ghostVars>>
      PROVE  Types'
  BY <1>a DEF Types, PcOK, EntryType
<1>b. pc' = pc => PcOK'
  BY <1>0 DEF PcOK
<1>c. ASSUME NEW c \in Content, entry' = [entry EXCEPT ![cur].cache = c]
      PROVE  entry' \in [Entries -> EntryType]
  <2>1. CASE cur \in Entries
    BY <1>c, <2>1, CacheOnly DEF Only
  <2>2. CASE cur \notin Entries
    BY <1>0, <1>c, <2>2
  <2>3. QED
    BY <2>1, <2>2
<1>d. ASSUME NEW s \in Status, Alive(cur), SetStatus(cur, s) PROVE entry' \in [Entries -> EntryType]
  BY <1>d, StatusOnly DEF Alive, Only
<1>e. DeviceFails => failures' \in 0 .. MaxFailures
  BY <1>0, BoundsAssumption DEF DeviceFails
<1>1. CASE TakePull
  <2>1. pulls # <<>> => Head(pulls) \in Entries /\ Tail(pulls) \in Seq(Entries)
    BY <1>0, TailWaiting
  <2>2. PcOK' /\ pulls' \in Seq(Entries) /\ cur' \in {NoEntry} \cup Entries /\ wpc' \in WorkerControl
    BY <1>0, <1>1, <1>b, <2>1 DEF TakePull, WorkerGoto, WorkerControl
  <2>3. QED
    BY <1>0, <1>1, <1>a, <2>2 DEF TakePull
<1>2. CASE TakePush
  <2>1. pushes # <<>> => Head(pushes) \in Entries /\ Tail(pushes) \in Seq(Entries)
    BY <1>0, TailWaiting
  <2>2. PcOK' /\ pushes' \in Seq(Entries) /\ cur' \in {NoEntry} \cup Entries /\ wpc' \in WorkerControl
    BY <1>0, <1>2, <1>b, <2>1 DEF TakePush, WorkerGoto, WorkerControl
  <2>3. QED
    BY <1>0, <1>2, <1>a, <2>2 DEF TakePush
<1>3. CASE PullOpen
  <2>1. entry' \in [Entries -> EntryType]
    BY <1>0, <1>3, <1>c DEF PullOpen, Content
  <2>2. QED
    BY <1>0, <1>3, <1>a, <1>b, <2>1 DEF PullOpen, WorkerGoto, WorkerControl
<1>4. CASE PullRead
  <2>1. entry' \in [Entries -> EntryType]
    BY <1>0, <1>4, <1>c DEF PullRead, Content, Broken
  <2>2. failures' \in 0 .. MaxFailures
    BY <1>0, <1>4, <1>e DEF PullRead
  <2>3. QED
    BY <1>0, <1>4, <1>a, <1>b, <2>1, <2>2 DEF PullRead, WorkerGoto, WorkerControl
<1>5. CASE PullDone
  <2>1. entry' \in [Entries -> EntryType]
    BY <1>5, <1>d DEF PullDone, Status
  <2>2. QED
    BY <1>0, <1>5, <1>a, <1>b, <2>1 DEF PullDone, WorkerGoto, WorkerControl
<1>6. CASE PushOpen
  BY <1>0, <1>6, <1>a, <1>b DEF PushOpen, WorkerGoto, WorkerControl
<1>7. CASE PushDelete
  <2>1. device' \in Content /\ failures' \in 0 .. MaxFailures
    BY <1>0, <1>7, <1>e DEF PushDelete, Content
  <2>2. QED
    BY <1>0, <1>7, <1>a, <1>b, <2>1 DEF PushDelete, WorkerGoto, WorkerControl
<1>8. CASE PushCreate
  <2>1. failures' \in 0 .. MaxFailures
    BY <1>0, <1>8, <1>e DEF PushCreate
  <2>2. device' \in Content
    <3>1. cur \in Entries /\ entry[cur] \in EntryType
      BY <1>0, <1>8 DEF PushCreate, WorkerInv
    <3>2. QED
      BY <1>0, <1>8, <3>1 DEF PushCreate, EntryType
  <2>3. QED
    BY <1>0, <1>8, <1>a, <1>b, <2>1, <2>2 DEF PushCreate, WorkerGoto, WorkerControl
<1>9. CASE PushDone
  <2>1. Alive(cur) => entry[cur].status \in Status
    BY <1>0 DEF Alive, EntryType
  <2>2. entry' \in [Entries -> EntryType]
    BY <1>9, <1>d, <2>1 DEF PushDone, PushResult, Status
  <2>3. QED
    BY <1>0, <1>9, <1>a, <1>b, <2>2 DEF PushDone, WorkerGoto, WorkerControl
<1>10. CASE Notify
  <2>1. \A a \in Actors : /\ a # Janitor => a \in Users
                          /\ a = Janitor => pc[a] \in JanitorControl
                          /\ a \in Users => pc[a] \in UserControl
    BY DEF Types, Actors
  <2>2. ASSUME NEW a \in Actors
        PROVE  /\ a \in Users => Woken(pc[a]) \in UserControl
               /\ a = Janitor => Woken(pc[a]) \in JanitorControl
    <3> DEFINE p == pc[a]
    <3>1. \/ p = "pullSleep" /\ Woken(p) = "pullTest"
          \/ p = "pushSleep" /\ Woken(p) = "pushTest"
          \/ p = "dSleep" /\ Woken(p) = "dTest"
          \/ Woken(p) = p
      BY WokenDoes
    <3>2. a \in Users => p \in UserControl
      BY <2>1
    <3>3. a = Janitor => p \in JanitorControl
      BY <2>1
    <3> HIDE DEF p
    <3>4. p = "dSleep" => p \notin UserControl
      BY DEF UserControl
    <3>5. p \in {"pullSleep", "pushSleep"} => p \notin JanitorControl
      BY DEF JanitorControl
    <3>6. "pullTest" \in UserControl /\ "pushTest" \in UserControl /\ "dTest" \in JanitorControl
      BY DEF UserControl, JanitorControl
    <3>7. QED
      BY <3>1, <3>2, <3>3, <3>4, <3>5, <3>6 DEF p
  <2> DEFINE next == [a \in Actors |-> IF ptr[a] = cur THEN Woken(pc[a]) ELSE pc[a]]
  <2>3. \A a \in Actors : /\ a \in Users => next[a] \in UserControl
                          /\ a = Janitor => next[a] \in JanitorControl
                          /\ a \in Users \/ a = Janitor
    BY <2>1, <2>2
  <2>4. pc' = next /\ DOMAIN next = Actors /\ next = [a \in Actors |-> next[a]]
    BY <1>10 DEF Notify, NotifyAll
  <2> HIDE DEF next
  <2>5. PcOK'
    <3>1. Janitor \in Actors /\ Users \subseteq Actors
      BY DEF Actors
    <3>2. \A a \in Actors : next[a] \in UserControl \cup JanitorControl
      BY <2>3
    <3>3. pc' \in [Actors -> UserControl \cup JanitorControl]
      BY <2>4, <3>2
    <3>4. pc'[Janitor] \in JanitorControl /\ \A u \in Users : pc'[u] \in UserControl
      BY <2>3, <2>4, <3>1
    <3>5. QED
      BY <3>3, <3>4 DEF PcOK
  <2>6. missed' \subseteq Actors
    BY <1>0, <1>10 DEF Notify, NotifyAll, Missed, Waiters
  <2>7. QED
    BY <1>0, <1>10, <1>a, <2>5, <2>6 DEF Notify, WorkerControl
<1>11. QED
  BY <1>1, <1>2, <1>3, <1>4, <1>5, <1>6, <1>7, <1>8, <1>9, <1>10 DEF WorkerStep

-----------------------------------------------------------------------------
(* The map and its lock.                                                   *)

\* A user leaves alone what is another one's, or the janitor's.
LEMMA UserLeaves ==
  ASSUME Types, NEW u \in Users, Call(u) \/ UserStep(u)
  PROVE  /\ \A b \in Actors \ {u} : pc'[b] = pc[b] /\ ptr'[b] = ptr[b]
         /\ \A v \in Users \ {u} : op'[v] = op[v] /\ granted'[v] = granted[v]
         /\ pc'[Janitor] = pc[Janitor] /\ ptr'[Janitor] = ptr[Janitor]
<1>0. /\ u \in Actors /\ u # Janitor /\ Janitor \in Actors
      /\ pc \in [Actors -> UserControl \cup JanitorControl]
      /\ ptr \in [Actors -> {NoEntry} \cup Entries]
      /\ op \in [Users -> Operations] /\ granted \in [Users -> BOOLEAN]
  BY ActorsAssumption DEF Types, Actors
<1>1. \A b \in Actors \ {u} : pc'[b] = pc[b]
  BY <1>0 DEF Call, UserStep, BeginAccess, CacheAccess, Flush, DeleteCacheEntry, CreateForBegin,
     CreateCacheEntry, CountAccess, GetAccess, AsyncPull, EnqueuePull, AwaitPull, CheckPull, AwaitPush,
     Access, EndLookup, CreateForEnd, EndAccess, MarkDirty, DeleteNode, Goto
<1>2. \A b \in Actors \ {u} : ptr'[b] = ptr[b]
  <2>1. ASSUME NEW e, ptr' = [ptr EXCEPT ![u] = e] PROVE \A b \in Actors \ {u} : ptr'[b] = ptr[b]
    BY <1>0, <2>1
  <2>2. \/ ptr' = ptr \/ \E e : ptr' = [ptr EXCEPT ![u] = e]
    BY DEF Call, UserStep, BeginAccess, CacheAccess, Flush, DeleteCacheEntry, CreateForBegin,
       CreateCacheEntry, CountAccess, GetAccess, AsyncPull, EnqueuePull, AwaitPull, CheckPull, AwaitPush,
       Access, EndLookup, CreateForEnd, EndAccess, MarkDirty, DeleteNode
  <2>3. QED
    BY <2>1, <2>2
<1>3. \A v \in Users \ {u} : op'[v] = op[v] /\ granted'[v] = granted[v]
  BY <1>0 DEF Call, UserStep, BeginAccess, Flush, DeleteCacheEntry, CreateForBegin,
     CountAccess, GetAccess, AsyncPull, EnqueuePull, AwaitPull, CheckPull, AwaitPush,
     Access, EndLookup, CreateForEnd, EndAccess, MarkDirty, DeleteNode, userVars
<1>4. QED
  BY <1>0, <1>1, <1>2, <1>3

\* What does not touch the map, the janitor or the lives of entries.
LEMMA MapKept ==
  ASSUME MapInv, UNCHANGED <<mapped, mapWriter, mapReader>>,
         pc'[Janitor] = pc[Janitor], ptr'[Janitor] = ptr[Janitor],
         \A e \in Entries : entry'[e].life = entry[e].life
  PROVE  MapInv'
BY DEF MapInv, OneEntry, Alive

LEMMA MapUser ==
  ASSUME Types, MapInv, NEW u \in Users, Call(u) \/ UserStep(u)
  PROVE  MapInv'
<1> USE DEF mapVars
<1>0. /\ entry \in [Entries -> EntryType] /\ mapped \in {NoEntry} \cup Entries
      /\ NoEntry \notin Entries
      /\ pc'[Janitor] = pc[Janitor] /\ ptr'[Janitor] = ptr[Janitor]
  BY UserLeaves, BoundsAssumption, SMTT(30) DEF Types, EntryType, NoEntry, Entries
\* The lives of the entries do not change with the rest.
<1>a. ASSUME UNCHANGED <<mapped, mapWriter, mapReader>>, entry' = entry PROVE MapInv'
  BY <1>0, <1>a, MapKept
<1>b. ASSUME UNCHANGED <<mapped, mapWriter, mapReader>>, NEW e \in Entries, NEW x,
             Only(e, x), x.life = entry[e].life
      PROVE  MapInv'
  <2>1. \A f \in Entries : entry'[f].life = entry[f].life
    BY <1>b DEF Only
  <2>2. QED
    BY <1>0, <1>b, <2>1, MapKept
<1>1. CASE CreateForBegin(u) \/ CreateForEnd(u)
  <2>1. /\ ~mapWriter /\ ~mapReader /\ UNCHANGED <<mapWriter, mapReader>>
        /\ mapped' \in Entries
        /\ mapped # NoEntry => mapped' = mapped /\ entry' = entry
        /\ mapped = NoEntry => Only(mapped', NewEntry)
    BY <1>1, CreateCacheEntryDoes DEF CreateForBegin, CreateForEnd, UserControl
  <2>2. CASE mapped # NoEntry
    BY <1>a, <2>1, <2>2
  <2>3. CASE mapped = NoEntry
    <3>1. /\ Alive(mapped)' /\ mapped' # NoEntry
          /\ \A e \in Entries : Alive(e)' => e = mapped'
      BY <1>0, <2>1, <2>3 DEF MapInv, OneEntry, Alive, Only, NewEntry
    <3>2. QED
      BY <1>0, <2>1, <3>1 DEF MapInv, OneEntry
  <2>4. QED
    BY <2>2, <2>3
<1>2. CASE CountAccess(u)
  <2>1. ptr[u] \in Entries /\ entry[ptr[u]] \in EntryType
    BY <1>0, <1>2 DEF CountAccess, Alive
  <2>2. entry[ptr[u]].writes + 1 \in Int /\ entry[ptr[u]].reads + 1 \in Int
    BY <2>1 DEF EntryType
  <2>3. \A f \in Entries : entry'[f].life = entry[f].life
    BY <1>0, <1>2, <2>1, <2>2, CountOnly DEF CountAccess, EntryType
  <2>4. QED
    BY <1>0, <1>2, <2>3, MapKept DEF CountAccess
<1>3. CASE AsyncPull(u)
  BY <1>0, <1>3, <1>a, <1>b, StatusOnly DEF AsyncPull, Alive, Status, EntryType
<1>4. CASE Access(u)
  <2>1. \A f \in Entries : entry'[f].life = entry[f].life
    BY <1>0, <1>4 DEF Access, EntryType
  <2>2. QED
    BY <1>0, <1>4, <2>1, MapKept DEF Access
<1>5. CASE EndAccess(u)
  <2>1. ptr[u] \in Entries /\ entry[ptr[u]] \in EntryType
    BY <1>0, <1>5 DEF EndAccess, Alive
  <2>2. entry[ptr[u]].writes - 1 \in Int /\ entry[ptr[u]].reads - 1 \in Int
    BY <2>1 DEF EntryType
  <2>3. \A f \in Entries : entry'[f].life = entry[f].life
    BY <1>0, <1>5, <2>1, <2>2, CountOnly DEF EndAccess, Release, EntryType
  <2>4. QED
    BY <1>0, <1>5, <2>3, MapKept DEF EndAccess
<1>6. CASE MarkDirty(u)
  BY <1>0, <1>6, <1>a, <1>b, StatusOnly DEF MarkDirty, Alive, Status, EntryType
<1>7. CASE DeleteCacheEntry(u)
  <2>1. ~mapWriter /\ ~mapReader /\ UNCHANGED <<mapWriter, mapReader>>
    BY <1>7 DEF DeleteCacheEntry
  <2>2. CASE mapped = NoEntry
    BY <1>7, <1>a, <2>2 DEF DeleteCacheEntry
  <2>3. CASE mapped # NoEntry
    <3>1. mapped' = NoEntry /\ entry' = [entry EXCEPT ![mapped] = Destroyed(mapped)]
      BY <1>7, <2>3 DEF DeleteCacheEntry
    <3>2. \A e \in Entries : ~Alive(e)'
      BY <1>0, <2>3, <3>1, NewEntryType DEF MapInv, OneEntry, Alive
    <3>3. QED
      BY <1>0, <2>1, <3>1, <3>2 DEF MapInv, OneEntry
  <2>4. QED
    BY <2>2, <2>3
<1>8. CASE \E o \in Operations : BeginAccess(u, o)
  BY <1>8, <1>a DEF BeginAccess
<1>9. CASE \/ Flush(u) \/ GetAccess(u) \/ EnqueuePull(u) \/ AwaitPull(u) \/ CheckPull(u) \/ AwaitPush(u)
           \/ EndLookup(u) \/ DeleteNode(u)
  BY <1>9, <1>a DEF Flush, GetAccess, EnqueuePull, AwaitPull, CheckPull, AwaitPush, EndLookup, DeleteNode
<1>10. QED
  BY <1>1, <1>2, <1>3, <1>4, <1>5, <1>6, <1>7, <1>8, <1>9 DEF Call, UserStep

\* So does who pushes or sleeps, and no entry changes but for the status PUSHING.
LEMMA PushLeaves ==
  ASSUME Types, NEW a \in Actors, PushStep(a) \/ SpuriousWakeup(a)
  PROVE  /\ \A b \in Actors \ {a} : pc'[b] = pc[b] /\ ptr'[b] = ptr[b]
         /\ a = Janitor => ptr' = ptr
         /\ UNCHANGED <<mapVars, userVars, janVars, pulls, workerVars, deviceVars, latest>>
         /\ \/ entry' = entry /\ unsafe' = unsafe
            \/ /\ pc[a] \in {"setPush", "dSetPush"} /\ Alive(ptr[a]) /\ ptr' = ptr
               /\ Only(ptr[a], [entry[ptr[a]] EXCEPT !.status = "PUSHING"])
<1> USE DEF ghostVars, queueVars
<1>0. /\ pc \in [Actors -> UserControl \cup JanitorControl]
      /\ ptr \in [Actors -> {NoEntry} \cup Entries]
  BY DEF Types
<1>a. ASSUME NEW p, Goto(a, p) PROVE \A b \in Actors \ {a} : pc'[b] = pc[b]
  BY <1>0, <1>a DEF Goto
<1>b. ASSUME Done(a)
      PROVE  /\ \A b \in Actors \ {a} : pc'[b] = pc[b] /\ ptr'[b] = ptr[b]
             /\ a = Janitor => ptr' = ptr
  BY <1>0, <1>a, <1>b DEF Done
<1>1. CASE PushIfDirty(a)
  BY <1>1, <1>a, <1>b DEF PushIfDirty
<1>2. CASE AsyncPush(a)
  <2>1. CASE entry[ptr[a]].status = "PUSHING"
    BY <1>2, <1>b, <2>1 DEF AsyncPush
  <2>2. CASE entry[ptr[a]].status # "PUSHING"
    <3>1. /\ SetStatus(ptr[a], "PUSHING") /\ ptr' = ptr /\ Alive(ptr[a])
          /\ \A b \in Actors \ {a} : pc'[b] = pc[b]
      BY <1>2, <1>a, <2>2 DEF AsyncPush
    <3>2. Only(ptr[a], [entry[ptr[a]] EXCEPT !.status = "PUSHING"])
      BY <3>1, StatusOnly DEF Alive, Status
    <3>3. QED
      BY <1>2, <3>1, <3>2 DEF AsyncPush
  <2>3. QED
    BY <2>1, <2>2
<1>3. CASE EnqueuePush(a)
  BY <1>3, <1>b DEF EnqueuePush
<1>4. CASE FallAsleep(a)
  BY <1>4, <1>a DEF FallAsleep
<1>5. CASE SpuriousWakeup(a)
  BY <1>5, <1>a DEF SpuriousWakeup
<1>6. QED
  BY <1>1, <1>2, <1>3, <1>4, <1>5 DEF PushStep

LEMMA MapPush ==
  ASSUME Types, MapInv, NEW a \in Actors, PushStep(a) \/ SpuriousWakeup(a)
  PROVE  MapInv'
<1> USE DEF mapVars
<1>0. /\ UNCHANGED <<mapped, mapWriter, mapReader>>
      /\ pc \in [Actors -> UserControl \cup JanitorControl]
      /\ pc[Janitor] \in JanitorControl /\ Janitor \in Actors
  BY PushLeaves DEF Types, Actors
<1>1. \A e \in Entries : entry'[e].life = entry[e].life
  <2>1. CASE entry' = entry
    BY <2>1
  <2>2. CASE ptr[a] \in Entries /\ Only(ptr[a], [entry[ptr[a]] EXCEPT !.status = "PUSHING"])
    <3>1. entry[ptr[a]] \in EntryType
      BY <2>2 DEF Types, EntryType
    <3>2. [entry[ptr[a]] EXCEPT !.status = "PUSHING"].life = entry[ptr[a]].life
      BY <3>1 DEF EntryType
    <3>3. QED
      BY <2>2, <3>2 DEF Only
  <2>3. QED
    BY <2>1, <2>2, PushLeaves DEF Alive
<1>2. CASE a # Janitor
  <2>1. pc'[Janitor] = pc[Janitor] /\ ptr'[Janitor] = ptr[Janitor]
    BY <1>0, <1>2, PushLeaves
  <2>2. QED
    BY <1>0, <1>1, <2>1, MapKept
<1>3. CASE a = Janitor
  <2>1. ptr' = ptr
    BY <1>3, PushLeaves
  <2>2. \/ pc[Janitor] \in Scanning /\ pc'[Janitor] \in Scanning
        \/ pc[Janitor] \in Deleting /\ pc'[Janitor] \in Deleting
    <3>a. ASSUME NEW p, Goto(Janitor, p) PROVE pc'[Janitor] = p
      BY <1>0, <3>a DEF Goto, Actors
    <3>b. ASSUME Done(a), pc[a] \in {"ifDirty", "setPush", "enqPush", "dIfDirty", "dSetPush", "dEnqPush"}
          PROVE  \/ pc[Janitor] \in Scanning /\ pc'[Janitor] \in Scanning
                 \/ pc[Janitor] \in Deleting /\ pc'[Janitor] \in Deleting
      BY <1>3, <3>a, <3>b DEF Done, AfterPush, Scanning, Deleting
    <3>1. CASE PushIfDirty(a)
      BY <1>3, <3>1, <3>a, <3>b DEF PushIfDirty, Scanning, Deleting
    <3>2. CASE AsyncPush(a)
      BY <1>3, <3>2, <3>a, <3>b DEF AsyncPush, Scanning, Deleting
    <3>3. CASE EnqueuePush(a)
      BY <1>3, <3>3, <3>b DEF EnqueuePush
    <3>4. CASE FallAsleep(a)
      BY <1>0, <1>3, <3>4, <3>a DEF FallAsleep, JanitorControl, Scanning, Deleting
    <3>5. CASE SpuriousWakeup(a)
      <4>1. pc[a] = "dSleep" /\ Woken(pc[a]) = "dTest"
        BY <1>0, <1>3, <3>5, WokenDoes DEF SpuriousWakeup, JanitorControl
      <4>2. QED
        BY <1>3, <3>5, <3>a, <4>1 DEF SpuriousWakeup, Deleting
    <3>6. QED
      BY <3>1, <3>2, <3>3, <3>4, <3>5 DEF PushStep
  <2>3. Scanning \cap Deleting = {}
    BY DEF Scanning, Deleting
  <2>4. QED
    BY <1>0, <1>1, <2>1, <2>2, <2>3 DEF MapInv, OneEntry, Alive
<1>4. QED
  BY <1>2, <1>3

LEMMA MapJanitor ==
  ASSUME Types, MapInv, ScanBegin \/ JanitorStep \/ Unplug
  PROVE  MapInv'
<1> USE DEF mapVars
<1>0. /\ entry \in [Entries -> EntryType] /\ mapped \in {NoEntry} \cup Entries
      /\ NoEntry \notin Entries /\ Janitor \in Actors
      /\ pc \in [Actors -> UserControl \cup JanitorControl]
      /\ ptr \in [Actors -> {NoEntry} \cup Entries]
      /\ Scanning \cap Deleting = {}
      /\ {"rest", "lock", "gone"} \cap (Scanning \cup Deleting) = {}
  BY BoundsAssumption DEF Types, EntryType, NoEntry, Entries, Actors, Scanning, Deleting
<1>a. ASSUME NEW p, Goto(Janitor, p) PROVE pc'[Janitor] = p
  BY <1>0, <1>a DEF Goto
<1>b. ASSUME NEW e, ptr' = [ptr EXCEPT ![Janitor] = e] PROVE ptr'[Janitor] = e
  BY <1>0, <1>b
\* The janitor goes on with what it has, lets it go, or takes the entry of the map.
<1>c. ASSUME UNCHANGED <<entry, mapped>>,
             mapReader' <=> pc'[Janitor] \in Scanning, mapWriter' <=> pc'[Janitor] \in Deleting,
             pc'[Janitor] \in Scanning \cup Deleting => mapped # NoEntry /\ ptr'[Janitor] = mapped
      PROVE  MapInv'
  BY <1>c DEF MapInv, OneEntry, Alive
<1>1. CASE ScanBegin
  <2>1. CASE mapped = NoEntry
    <3>1. pc'[Janitor] = "lock" /\ UNCHANGED <<entry, mapped, mapReader, mapWriter>>
      BY <1>1, <1>a, <2>1 DEF ScanBegin
    <3>2. pc[Janitor] = "rest"
      BY <1>1 DEF ScanBegin
    <3>3. QED
      BY <1>0, <1>c, <3>1, <3>2 DEF MapInv
  <2>2. CASE mapped # NoEntry
    <3>1. /\ pc'[Janitor] = "scan" /\ ptr'[Janitor] = mapped /\ mapReader'
          /\ UNCHANGED <<entry, mapped, mapWriter>> /\ pc[Janitor] = "rest"
      BY <1>1, <1>a, <1>b, <2>2 DEF ScanBegin
    <3>2. "scan" \in Scanning
      BY DEF Scanning
    <3>3. QED
      BY <1>0, <1>c, <2>2, <3>1, <3>2 DEF MapInv
  <2>3. QED
    BY <2>1, <2>2
<1>2. CASE ScanPush
  <2>1. /\ pc[Janitor] \in Scanning /\ pc'[Janitor] \in Scanning
        /\ UNCHANGED <<ptr, entry, mapped, mapReader, mapWriter>>
    BY <1>2, <1>a DEF ScanPush, Scanning
  <2>2. QED
    BY <1>0, <1>c, <2>1 DEF MapInv
<1>3. CASE ScanMark
  <2>1. /\ pc[Janitor] \in Scanning /\ pc'[Janitor] = "lock" /\ ~mapReader'
        /\ UNCHANGED <<entry, mapped, mapWriter>>
    BY <1>3, <1>a DEF ScanMark, Scanning
  <2>2. QED
    BY <1>0, <1>c, <2>1 DEF MapInv
<1>4. CASE DeleteOld \/ Unplug
  <2>0. pc[Janitor] \in {"lock", "rest"} /\ UNCHANGED <<entry, mapped, mapReader>>
    BY <1>4 DEF DeleteOld, Unplug
  <2>1. CASE mapped # NoEntry /\ mapWriter' = TRUE /\ ptr' = [ptr EXCEPT ![Janitor] = mapped]
             /\ Goto(Janitor, "dIfDirty")
    <3>1. pc'[Janitor] = "dIfDirty" /\ ptr'[Janitor] = mapped /\ "dIfDirty" \in Deleting
      BY <1>a, <1>b, <2>1 DEF Deleting
    <3>2. QED
      BY <1>0, <1>c, <2>0, <2>1, <3>1 DEF MapInv
  <2>2. CASE (Goto(Janitor, "rest") \/ Goto(Janitor, "gone")) /\ mapWriter' = mapWriter
    <3>1. pc'[Janitor] \in {"rest", "gone"}
      BY <1>a, <2>2
    <3>2. QED
      BY <1>0, <1>c, <2>0, <2>2, <3>1 DEF MapInv
  <2>3. QED
    BY <1>4, <2>1, <2>2 DEF DeleteOld, Unplug
<1>5. CASE DeleteAwaitsPush
  <2>1. /\ pc[Janitor] \in Deleting /\ pc'[Janitor] \in Deleting
        /\ UNCHANGED <<ptr, entry, mapped, mapReader, mapWriter>>
    BY <1>5, <1>a DEF DeleteAwaitsPush, Deleting
  <2>2. QED
    BY <1>0, <1>c, <2>1 DEF MapInv
<1>6. CASE DeleteEntry
  <2>1. pc[Janitor] \in Deleting /\ pc'[Janitor] \in {"rest", "gone"}
    BY <1>6, <1>a DEF DeleteEntry, Deleting
  <2>2. ptr[Janitor] = mapped /\ mapped \in Entries
    BY <1>0, <2>1 DEF MapInv
  <2>3. /\ mapped' = NoEntry /\ ~mapWriter' /\ mapReader' = mapReader
        /\ entry' = [entry EXCEPT ![mapped] = Destroyed(mapped)]
    BY <1>6, <2>2 DEF DeleteEntry
  <2>4. \A e \in Entries : ~Alive(e)'
    BY <1>0, <2>2, <2>3, NewEntryType DEF MapInv, OneEntry, Alive
  <2>5. QED
    BY <1>0, <2>1, <2>3, <2>4 DEF MapInv, OneEntry
<1>7. QED
  BY <1>1, <1>2, <1>3, <1>4, <1>5, <1>6 DEF JanitorStep

LEMMA MapWorker ==
  ASSUME Types, WorkerInv, MapInv, WorkerStep
  PROVE  MapInv'
<1> USE DEF mapVars
<1>0. /\ entry \in [Entries -> EntryType] /\ Janitor \in Actors
      /\ pc[Janitor] \in JanitorControl
      /\ UNCHANGED <<mapped, mapWriter, mapReader, ptr>>
  BY DEF Types, EntryType, Actors, WorkerStep, TakePull, PullOpen, PullRead, PullDone, TakePush,
     PushOpen, PushDelete, PushCreate, PushDone, Notify
<1>a. ASSUME pc' = pc, entry' = entry PROVE MapInv'
  BY <1>0, <1>a, MapKept
<1>b. ASSUME pc' = pc, NEW x, entry' = [entry EXCEPT ![cur].cache = x] PROVE MapInv'
  <2>1. \A e \in Entries : entry'[e].life = entry[e].life
    BY <1>0, <1>b DEF EntryType
  <2>2. QED
    BY <1>0, <1>b, <2>1, MapKept
<1>c. ASSUME pc' = pc, NEW x, SetStatus(cur, x) PROVE MapInv'
  <2>1. \A e \in Entries : entry'[e].life = entry[e].life
    BY <1>0, <1>c DEF EntryType, SetStatus
  <2>2. QED
    BY <1>0, <1>c, <2>1, MapKept
<1>1. CASE PullOpen
  BY <1>1, <1>a, <1>b DEF PullOpen
<1>2. CASE PullRead
  BY <1>2, <1>a, <1>b DEF PullRead
<1>3. CASE PullDone
  BY <1>3, <1>c DEF PullDone
<1>4. CASE PushDone
  BY <1>4, <1>c DEF PushDone
<1>5. CASE Notify
  <2>1. pc'[Janitor] = pc[Janitor] \/ pc'[Janitor] = Woken(pc[Janitor])
    BY <1>0, <1>5 DEF Notify, NotifyAll
  <2>2. \/ pc'[Janitor] = pc[Janitor]
        \/ pc[Janitor] = "dSleep" /\ pc'[Janitor] = "dTest"
    <3> DEFINE p == pc[Janitor]
    <3>1. \/ p = "pullSleep" /\ Woken(p) = "pullTest"
          \/ p = "pushSleep" /\ Woken(p) = "pushTest"
          \/ p = "dSleep" /\ Woken(p) = "dTest"
          \/ Woken(p) = p
      BY WokenDoes
    <3>2. p \notin {"pullSleep", "pushSleep"}
      BY <1>0 DEF JanitorControl
    <3>3. QED
      BY <2>1, <3>1, <3>2
  <2>3. entry' = entry
    BY <1>5 DEF Notify
  <2>4. QED
    BY <1>0, <2>2, <2>3 DEF MapInv, OneEntry, Alive, Scanning, Deleting
<1>6. QED
  BY <1>1, <1>2, <1>3, <1>4, <1>5, <1>a
  DEF WorkerStep, TakePull, TakePush, PushOpen, PushDelete, PushCreate

-----------------------------------------------------------------------------
(* The requests of the entry: who waits for one waits for one that is there. *)

LEMMA WorkerKnows ==
  ASSUME Types, WorkerInv, Next
  PROVE  WorkerInv'
<1>0. NoEntry \notin Entries /\ cur \in {NoEntry} \cup Entries
  BY BoundsAssumption DEF Types, NoEntry, Entries
<1>1. ASSUME UNCHANGED workerVars PROVE WorkerInv'
  BY <1>1 DEF WorkerInv, workerVars
<1>2. CASE TakePull
  <2>1. pulls # <<>> => Head(pulls) \in Entries
    BY TailWaiting DEF Types
  <2>2. QED
    BY <1>0, <1>2, <2>1 DEF TakePull, WorkerInv, WorkerGoto
<1>3. CASE TakePush
  <2>1. pushes # <<>> => Head(pushes) \in Entries
    BY TailWaiting DEF Types
  <2>2. QED
    BY <1>0, <1>3, <2>1 DEF TakePush, WorkerInv, WorkerGoto
<1>4. CASE PullOpen \/ PullRead \/ PullDone \/ PushOpen \/ PushDelete \/ PushCreate \/ PushDone
  BY <1>4 DEF PullOpen, PullRead, PullDone, PushOpen, PushDelete, PushCreate, PushDone,
     WorkerInv, WorkerGoto
<1>5. CASE Notify
  BY <1>5 DEF Notify, WorkerInv
<1>6. CASE \E u \in Users : Call(u) \/ UserStep(u)
  <2>1. UNCHANGED workerVars
    BY <1>6 DEF Call, UserStep, BeginAccess, Flush, DeleteCacheEntry, CreateForBegin, CountAccess,
       GetAccess, AsyncPull, EnqueuePull, AwaitPull, CheckPull, AwaitPush, Access, EndLookup, CreateForEnd,
       EndAccess, MarkDirty, DeleteNode
  <2>2. QED
    BY <1>1, <2>1
<1>7. CASE \E a \in Actors : PushStep(a) \/ SpuriousWakeup(a)
  BY <1>1, <1>7, PushLeaves
<1>8. CASE ScanBegin \/ JanitorStep \/ Unplug
  BY <1>1, <1>8 DEF ScanBegin, JanitorStep, Unplug, ScanPush, ScanMark, DeleteOld,
     DeleteAwaitsPush, DeleteEntry
<1>9. QED
  BY <1>2, <1>3, <1>4, <1>5, <1>6, <1>7, <1>8 DEF Next, WorkerStep

\* Requests under way wait in their queue or are with the worker.
LEMMA UnderWay ==
  /\ \A e : PullUnderWay(e) <=> e \in Waiting(pulls) \/ (cur = e /\ wpc \in Pulling)
  /\ \A e : PushUnderWay(e) <=> e \in Waiting(pushes) \/ (cur = e /\ wpc \in Pushing)
BY DEF PullUnderWay, PushUnderWay, Waiting, Pulling, Pushing

LEMMA UnderWayNext ==
  /\ \A e : PullUnderWay(e)' <=> e \in Waiting(pulls') \/ (cur' = e /\ wpc' \in Pulling)
  /\ \A e : PushUnderWay(e)' <=> e \in Waiting(pushes') \/ (cur' = e /\ wpc' \in Pushing)
BY DEF PullUnderWay, PushUnderWay, Waiting, Pulling, Pushing

\* A step of a user changes the status of an entry it does not make or delete in two
\* ways only, and it is not one about a push.
LEMMA UserStatus ==
  ASSUME Types, NEW u \in Users, Call(u) \/ UserStep(u)
  PROVE  /\ \A e \in Entries : Alive(e)' =>
              \/ Alive(e) /\ entry'[e].status = entry[e].status
              \/ ~Alive(e) /\ entry'[e].status = "NONEXISTANT"
              \/ entry'[e].status = "DIRTY" /\ MarkDirty(u) /\ ptr[u] = e
              \/ /\ AsyncPull(u) /\ ptr[u] = e /\ pc'[u] = "pullEnq" /\ ptr'[u] = e
                 /\ entry[e].status # "PULLING" /\ entry'[e].status = "PULLING"
         /\ pc[u] \notin {"enqPush", "dEnqPush"}
         /\ pc[u] = "pullEnq" => EnqueuePull(u)
         /\ UNCHANGED <<pushes, workerVars>> /\ (pulls' = pulls \/ EnqueuePull(u))
<1> USE DEF queueVars, mapVars
<1>0. /\ entry \in [Entries -> EntryType] /\ ptr \in [Actors -> {NoEntry} \cup Entries]
      /\ pc \in [Actors -> UserControl \cup JanitorControl] /\ u \in Actors
      /\ mapped \in {NoEntry} \cup Entries
  BY DEF Types, EntryType, Actors
<1> DEFINE Statuses ==
      \A e \in Entries : Alive(e)' =>
        \/ Alive(e) /\ entry'[e].status = entry[e].status
        \/ ~Alive(e) /\ entry'[e].status = "NONEXISTANT"
        \/ entry'[e].status = "DIRTY" /\ MarkDirty(u) /\ ptr[u] = e
        \/ /\ AsyncPull(u) /\ ptr[u] = e /\ pc'[u] = "pullEnq" /\ ptr'[u] = e
           /\ entry[e].status # "PULLING" /\ entry'[e].status = "PULLING"
<1>a. ASSUME entry' = entry PROVE Statuses
  BY <1>a DEF Alive
<1>b. ASSUME \A e \in Entries : entry'[e].life = entry[e].life /\ entry'[e].status = entry[e].status
      PROVE  Statuses
  BY <1>b DEF Alive
<1>1. CASE CreateForBegin(u) \/ CreateForEnd(u)
  <2>1. /\ mapped' \in Entries
        /\ mapped # NoEntry => entry' = entry
        /\ mapped = NoEntry => entry[mapped'].life = "unborn" /\ Only(mapped', NewEntry)
    BY <1>1, CreateCacheEntryDoes DEF CreateForBegin, CreateForEnd, UserControl
  <2>2. Statuses
    BY <1>a, <2>1 DEF Only, NewEntry, Alive
  <2>3. QED
    BY <1>1, <2>2 DEF CreateForBegin, CreateForEnd
<1>2. CASE CountAccess(u)
  <2>1. ptr[u] \in Entries /\ entry[ptr[u]] \in EntryType
    BY <1>0, <1>2 DEF CountAccess, Alive
  <2>2. entry[ptr[u]].writes + 1 \in Int /\ entry[ptr[u]].reads + 1 \in Int
    BY <2>1 DEF EntryType
  <2>3. \A f \in Entries : entry'[f].life = entry[f].life /\ entry'[f].status = entry[f].status
    BY <1>0, <1>2, <2>1, <2>2, CountOnly DEF CountAccess, EntryType
  <2>4. QED
    BY <1>2, <1>b, <2>3 DEF CountAccess
<1>3. CASE AsyncPull(u)
  <2>1. CASE entry[ptr[u]].status = "PULLING"
    BY <1>3, <1>a, <2>1 DEF AsyncPull
  <2>2. CASE entry[ptr[u]].status # "PULLING"
    <3>1. /\ SetStatus(ptr[u], "PULLING") /\ pc'[u] = "pullEnq" /\ ptr' = ptr /\ Alive(ptr[u])
      BY <1>0, <1>3, <2>2 DEF AsyncPull, Goto
    <3>2. Only(ptr[u], [entry[ptr[u]] EXCEPT !.status = "PULLING"])
      BY <3>1, StatusOnly DEF Alive, Status
    <3>3. entry'[ptr[u]].status = "PULLING"
      BY <1>0, <3>1, <3>2 DEF Only, EntryType, Alive
    <3>4. Statuses
      BY <1>3, <2>2, <3>1, <3>2, <3>3 DEF Only, Alive
    <3>5. QED
      BY <1>3, <3>4 DEF AsyncPull
  <2>3. QED
    BY <2>1, <2>2
<1>4. CASE Access(u)
  <2>1. \A f \in Entries : entry'[f].life = entry[f].life /\ entry'[f].status = entry[f].status
    BY <1>0, <1>4 DEF Access, EntryType
  <2>2. QED
    BY <1>4, <1>b, <2>1 DEF Access
<1>5. CASE EndAccess(u)
  <2>1. ptr[u] \in Entries /\ entry[ptr[u]] \in EntryType
    BY <1>0, <1>5 DEF EndAccess, Alive
  <2>2. entry[ptr[u]].writes - 1 \in Int /\ entry[ptr[u]].reads - 1 \in Int
    BY <2>1 DEF EntryType
  <2>3. \A f \in Entries : entry'[f].life = entry[f].life /\ entry'[f].status = entry[f].status
    BY <1>0, <1>5, <2>1, <2>2, CountOnly DEF EndAccess, Release, EntryType
  <2>4. QED
    BY <1>5, <1>b, <2>3 DEF EndAccess
<1>6. CASE MarkDirty(u)
  <2>1. /\ SetStatus(ptr[u], "DIRTY") /\ Alive(ptr[u])
    BY <1>6 DEF MarkDirty
  <2>2. Only(ptr[u], [entry[ptr[u]] EXCEPT !.status = "DIRTY"])
    BY <2>1, StatusOnly DEF Alive, Status
  <2>3. entry'[ptr[u]].status = "DIRTY"
    BY <1>0, <2>1, <2>2 DEF Only, EntryType, Alive
  <2>4. Statuses
    BY <1>6, <2>1, <2>2, <2>3 DEF Only, Alive
  <2>5. QED
    BY <1>6, <2>4 DEF MarkDirty
<1>7. CASE DeleteCacheEntry(u)
  <2>1. Statuses
    <3>1. CASE mapped = NoEntry
      BY <1>7, <1>a, <3>1 DEF DeleteCacheEntry
    <3>2. CASE mapped # NoEntry
      <4>1. entry' = [entry EXCEPT ![mapped] = Destroyed(mapped)] /\ mapped \in Entries
        BY <1>0, <1>7, <3>2 DEF DeleteCacheEntry
      <4>2. \A e \in Entries : Alive(e)' => Alive(e) /\ entry'[e] = entry[e]
        BY <1>0, <4>1, NewEntryType DEF Alive
      <4>3. QED
        BY <4>2
    <3>3. QED
      BY <3>1, <3>2
  <2>2. QED
    BY <1>7, <2>1 DEF DeleteCacheEntry
<1>8. CASE \E o \in Operations : BeginAccess(u, o)
  BY <1>8, <1>a DEF BeginAccess
<1>9. CASE \/ Flush(u) \/ GetAccess(u) \/ EnqueuePull(u) \/ AwaitPull(u) \/ CheckPull(u) \/ AwaitPush(u)
           \/ EndLookup(u) \/ DeleteNode(u)
  BY <1>9, <1>a DEF Flush, GetAccess, EnqueuePull, AwaitPull, CheckPull, AwaitPush, EndLookup, DeleteNode
<1>10. QED
  BY <1>1, <1>2, <1>3, <1>4, <1>5, <1>6, <1>7, <1>8, <1>9 DEF Call, UserStep

\* A request that is coming comes closer.
LEMMA NoOrphanUser ==
  ASSUME Types, NoOrphanWait, NEW u \in Users, Call(u) \/ UserStep(u)
  PROVE  NoOrphanWait'
<1>1. \A e \in Entries : PullComing(e) => PullComing(e)'
  <2> SUFFICES ASSUME NEW e \in Entries, PullComing(e) PROVE PullComing(e)'
    OBVIOUS
  <2>1. pulls' = pulls \/ (EnqueuePull(u) /\ Waiting(pulls') = Waiting(pulls) \cup {ptr[u]})
    <3>1. CASE EnqueuePull(u)
      <4>1. pulls \in Seq(Entries) /\ ptr[u] \in Entries /\ pulls' = Append(pulls, ptr[u])
        BY <3>1 DEF EnqueuePull, Alive, Types
      <4>2. QED
        BY <3>1, <4>1, AppendWaiting
    <3>2. QED
      BY <3>1, UserStatus
  <2>2. UNCHANGED <<wpc, cur>>
    BY UserStatus DEF workerVars
  <2>3. CASE PullUnderWay(e)
    BY <2>1, <2>2, <2>3, UnderWay, UnderWayNext DEF PullComing
  <2>4. CASE \E v \in Users : ptr[v] = e /\ pc[v] = "pullEnq"
    <3>1. PICK v \in Users : ptr[v] = e /\ pc[v] = "pullEnq"
      BY <2>4
    <3>2. CASE v = u
      <4>1. EnqueuePull(u)
        BY <3>1, <3>2, UserStatus
      <4>2. e \in Waiting(pulls')
        <5>1. pulls \in Seq(Entries) /\ pulls' = Append(pulls, ptr[u])
          BY <4>1 DEF EnqueuePull, Types
        <5>2. QED
          BY <3>1, <3>2, <5>1, AppendWaiting
      <4>3. QED
        BY <4>2, UnderWayNext DEF PullComing
    <3>3. CASE v # u
      <4>1. v \in Actors \ {u}
        BY <3>3 DEF Actors
      <4>2. ptr'[v] = e /\ pc'[v] = "pullEnq"
        BY <3>1, <4>1, UserLeaves
      <4>3. QED
        BY <4>2 DEF PullComing
    <3>4. QED
      BY <3>2, <3>3
  <2>5. QED
    BY <2>3, <2>4 DEF PullComing
<1>2. \A e \in Entries : PushComing(e) => PushComing(e)'
  <2> SUFFICES ASSUME NEW e \in Entries, PushComing(e) PROVE PushComing(e)'
    OBVIOUS
  <2>1. UNCHANGED <<pushes, wpc, cur>> /\ pc[u] \notin {"enqPush", "dEnqPush"}
    BY UserStatus DEF workerVars
  <2>2. CASE PushUnderWay(e)
    BY <2>1, <2>2, UnderWay, UnderWayNext DEF PushComing
  <2>3. CASE \E a \in Actors : ptr[a] = e /\ pc[a] \in {"enqPush", "dEnqPush"}
    BY <2>1, <2>3, UserLeaves DEF PushComing
  <2>4. QED
    BY <2>2, <2>3 DEF PushComing
<1>3. QED
  <2> SUFFICES ASSUME NEW e \in Entries, Alive(e)'
               PROVE  /\ entry'[e].status = "PULLING" => PullComing(e)'
                      /\ entry'[e].status = "PUSHING" => PushComing(e)'
    BY DEF NoOrphanWait
  <2>1. CASE Alive(e) /\ entry'[e].status = entry[e].status
    BY <1>1, <1>2, <2>1 DEF NoOrphanWait
  <2>2. CASE AsyncPull(u) /\ pc'[u] = "pullEnq" /\ ptr'[u] = e /\ entry'[e].status = "PULLING"
    BY <2>2 DEF PullComing
  <2>3. QED
    BY <2>1, <2>2, UserStatus

LEMMA NoOrphanPush ==
  ASSUME Types, NoOrphanWait, NEW a \in Actors, PushStep(a) \/ SpuriousWakeup(a)
  PROVE  NoOrphanWait'
<1> USE DEF queueVars
<1>0. /\ pc \in [Actors -> UserControl \cup JanitorControl]
      /\ pulls' = pulls /\ wpc' = wpc /\ cur' = cur
      /\ pushes \in Seq(Entries) /\ Users \subseteq Actors
  BY PushLeaves DEF Types, workerVars, Actors
<1>1. /\ pc[a] # "pullEnq"
      /\ pc[a] \in {"enqPush", "dEnqPush"} => EnqueuePush(a)
      /\ pushes' = pushes \/ EnqueuePush(a)
  BY WokenDoes DEF PushStep, PushIfDirty, AsyncPush, EnqueuePush, FallAsleep, SpuriousWakeup
<1>2. EnqueuePush(a) => Waiting(pushes') = Waiting(pushes) \cup {ptr[a]}
  BY <1>0, AppendWaiting DEF EnqueuePush, Alive
<1>3. \A e \in Entries : PullComing(e) => PullComing(e)'
  <2> SUFFICES ASSUME NEW e \in Entries, PullComing(e) PROVE PullComing(e)'
    OBVIOUS
  <2>1. CASE PullUnderWay(e)
    BY <1>0, <2>1, UnderWay, UnderWayNext DEF PullComing
  <2>2. CASE \E v \in Users : ptr[v] = e /\ pc[v] = "pullEnq"
    BY <1>0, <1>1, <2>2, PushLeaves DEF PullComing
  <2>3. QED
    BY <2>1, <2>2 DEF PullComing
<1>4. \A e \in Entries : PushComing(e) => PushComing(e)'
  <2> SUFFICES ASSUME NEW e \in Entries, PushComing(e) PROVE PushComing(e)'
    OBVIOUS
  <2>1. CASE PushUnderWay(e)
    BY <1>0, <1>1, <1>2, <2>1, UnderWay, UnderWayNext DEF PushComing
  <2>2. CASE ptr[a] = e /\ pc[a] \in {"enqPush", "dEnqPush"}
    BY <1>1, <1>2, <2>2, UnderWayNext DEF PushComing
  <2>3. CASE \E b \in Actors \ {a} : ptr[b] = e /\ pc[b] \in {"enqPush", "dEnqPush"}
    BY <2>3, PushLeaves DEF PushComing
  <2>4. QED
    BY <2>1, <2>2, <2>3 DEF PushComing
<1>5. CASE entry' = entry
  BY <1>3, <1>4, <1>5 DEF NoOrphanWait, Alive
<1>6. CASE entry' # entry
  <2>1. /\ pc[a] \in {"setPush", "dSetPush"} /\ Alive(ptr[a]) /\ ptr' = ptr
        /\ Only(ptr[a], [entry[ptr[a]] EXCEPT !.status = "PUSHING"])
    BY <1>6, PushLeaves
  <2>2. pc'[a] \in {"enqPush", "dEnqPush"}
    <3>1. AsyncPush(a)
      BY <1>6 DEF PushStep, PushIfDirty, EnqueuePush, FallAsleep, SpuriousWakeup
    <3>2. entry[ptr[a]].status # "PUSHING"
      BY <1>6, <3>1 DEF AsyncPush
    <3>3. QED
      BY <1>0, <3>1, <3>2 DEF AsyncPush, Goto
  <2>3. PushComing(ptr[a])'
    BY <2>1, <2>2 DEF PushComing
  <2>4. entry'[ptr[a]].status = "PUSHING"
    BY <2>1 DEF Only, Alive, Types
  <2>5. QED
    BY <1>3, <1>4, <2>1, <2>3, <2>4 DEF NoOrphanWait, Only, Alive
<1>7. QED
  BY <1>5, <1>6

\* What the janitor does besides pushing: it goes its way, or deletes the entry.
LEMMA JanitorLeaves ==
  ASSUME Types, MapInv, ScanBegin \/ JanitorStep \/ Unplug
  PROVE  /\ \A u \in Users : pc'[u] = pc[u] /\ ptr'[u] = ptr[u]
         /\ UNCHANGED <<userVars, queueVars, workerVars, deviceVars, latest, missed>>
         /\ pc[Janitor] \notin {"enqPush", "dEnqPush"} /\ pc'[Janitor] \notin {"enqPush", "dEnqPush"}
         /\ \/ entry' = entry /\ mapped' = mapped /\ unsafe' = unsafe
            \/ /\ mapped \in Entries /\ Alive(mapped) /\ mapped' = NoEntry
               /\ entry' = [entry EXCEPT ![mapped] = Destroyed(mapped)]
               /\ unsafe' = unsafe \cup DeletionFaults(mapped) \cup
                     (IF entry[mapped].status = "DIRTY" THEN {"deletedUnsynced"} ELSE {})
<1> USE DEF userVars, queueVars, workerVars, deviceVars, ghostVars, mapVars
<1>0. /\ pc \in [Actors -> UserControl \cup JanitorControl]
      /\ ptr \in [Actors -> {NoEntry} \cup Entries] /\ mapped \in {NoEntry} \cup Entries
      /\ Janitor \in Actors /\ \A u \in Users : u \in Actors /\ u # Janitor
  BY ActorsAssumption DEF Types, Actors
<1>a. ASSUME NEW p, Goto(Janitor, p) PROVE pc'[Janitor] = p /\ \A u \in Users : pc'[u] = pc[u]
  BY <1>0, <1>a DEF Goto
<1>b. ASSUME NEW e, ptr' = [ptr EXCEPT ![Janitor] = e] PROVE \A u \in Users : ptr'[u] = ptr[u]
  BY <1>0, <1>b
<1>1. CASE ScanBegin
  BY <1>0, <1>1, <1>a, <1>b DEF ScanBegin
<1>2. CASE ScanPush
  BY <1>0, <1>2, <1>a, <1>b DEF ScanPush
<1>3. CASE ScanMark
  BY <1>0, <1>3, <1>a, <1>b DEF ScanMark
<1>4. CASE DeleteOld
  BY <1>0, <1>4, <1>a, <1>b DEF DeleteOld
<1>5. CASE Unplug
  BY <1>0, <1>5, <1>a, <1>b DEF Unplug
<1>6. CASE DeleteAwaitsPush
  BY <1>0, <1>6, <1>a, <1>b DEF DeleteAwaitsPush
<1>7. CASE DeleteEntry
  <2>1. ptr[Janitor] = mapped /\ mapped # NoEntry /\ Alive(mapped)
    BY <1>7 DEF DeleteEntry, MapInv, Deleting
  <2>2. QED
    BY <1>0, <1>7, <1>a, <1>b, <2>1 DEF DeleteEntry
<1>8. QED
  BY <1>1, <1>2, <1>3, <1>4, <1>5, <1>6, <1>7 DEF JanitorStep

LEMMA NoOrphanJanitor ==
  ASSUME Types, MapInv, NoOrphanWait, ScanBegin \/ JanitorStep \/ Unplug
  PROVE  NoOrphanWait'
<1>1. /\ UNCHANGED <<pulls, pushes, wpc, cur>>
      /\ \A e \in Entries : PullUnderWay(e)' <=> PullUnderWay(e)
      /\ \A e \in Entries : PushUnderWay(e)' <=> PushUnderWay(e)
  BY JanitorLeaves, UnderWay, UnderWayNext DEF queueVars, workerVars
<1>2. \A e \in Entries : PullComing(e) => PullComing(e)'
  BY <1>1, JanitorLeaves DEF PullComing
<1>3. \A e \in Entries : PushComing(e) => PushComing(e)'
  BY <1>1, JanitorLeaves DEF PushComing, Actors
<1>4. \A e \in Entries : Alive(e)' => Alive(e) /\ entry'[e] = entry[e]
  <2>1. entry \in [Entries -> EntryType]
    BY DEF Types, EntryType
  <2>2. QED
    BY <2>1, JanitorLeaves, NewEntryType DEF Alive
<1>5. QED
  BY <1>2, <1>3, <1>4 DEF NoOrphanWait

\* What the worker does not do.
LEMMA WorkerLeaves ==
  ASSUME Types, WorkerInv, WorkerStep
  PROVE  /\ UNCHANGED <<mapped, ptr, userVars, latest, unsafe>>
         /\ \A a \in Actors : \/ pc'[a] = pc[a]
                              \/ pc[a] = "pullSleep" /\ pc'[a] = "pullTest"
                              \/ pc[a] = "pushSleep" /\ pc'[a] = "pushTest"
                              \/ pc[a] = "dSleep" /\ pc'[a] = "dTest"
         /\ \A e \in Entries : /\ entry'[e].life = entry[e].life
                               /\ entry'[e].writes = entry[e].writes
                               /\ entry'[e].reads = entry[e].reads
                               /\ e # cur => entry'[e] = entry[e]
<1> USE DEF mapVars, ghostVars
<1>0. entry \in [Entries -> EntryType]
  BY DEF Types, EntryType
<1> DEFINE Kept == \A e \in Entries : /\ entry'[e].life = entry[e].life
                                      /\ entry'[e].writes = entry[e].writes
                                      /\ entry'[e].reads = entry[e].reads
                                      /\ e # cur => entry'[e] = entry[e]
<1>1. UNCHANGED <<mapped, ptr, userVars, latest, unsafe>>
  BY DEF WorkerStep, TakePull, PullOpen, PullRead, PullDone, TakePush,
     PushOpen, PushDelete, PushCreate, PushDone, Notify
<1>a. ASSUME NEW x, entry' = [entry EXCEPT ![cur].cache = x] PROVE Kept
  BY <1>0, <1>a DEF EntryType
<1>b. ASSUME NEW x, SetStatus(cur, x) PROVE Kept
  BY <1>0, <1>b DEF EntryType, SetStatus
<1>2. CASE PullOpen
  BY <1>1, <1>2, <1>a DEF PullOpen
<1>3. CASE PullRead
  BY <1>1, <1>3, <1>a DEF PullRead
<1>4. CASE PullDone
  BY <1>1, <1>4, <1>b DEF PullDone
<1>5. CASE PushDone
  BY <1>1, <1>5, <1>b DEF PushDone
<1>6. CASE Notify
  <2>1. \A a \in Actors : pc'[a] = pc[a] \/ pc'[a] = Woken(pc[a])
    BY <1>6 DEF Notify, NotifyAll
  <2>2. Kept
    BY <1>6 DEF Notify
  <2>3. QED
    BY <1>1, <2>1, <2>2, WokenDoes
<1>7. QED
  BY <1>1, <1>2, <1>3, <1>4, <1>5, <1>6
  DEF WorkerStep, TakePull, TakePush, PushOpen, PushDelete, PushCreate

LEMMA NoOrphanWorker ==
  ASSUME Types, WorkerInv, NoOrphanWait, WorkerStep
  PROVE  NoOrphanWait'
<1> USE DEF queueVars
<1>0. /\ entry \in [Entries -> EntryType] /\ pulls \in Seq(Entries) /\ pushes \in Seq(Entries)
      /\ \A u \in Users : u \in Actors
  BY DEF Types, EntryType, Actors
\* A request is dropped when the status has been changed.
<1>1. \A e \in Entries : PullUnderWay(e) => PullUnderWay(e)' \/ (PullDone /\ e = cur)
  <2>1. CASE TakePull
    <3>1. pulls # <<>> => Waiting(pulls) = Waiting(Tail(pulls)) \cup {Head(pulls)}
      BY <1>0, TailWaiting
    <3>2. QED
      BY <2>1, <3>1, UnderWay, UnderWayNext DEF TakePull, WorkerGoto, Pulling
  <2>2. CASE TakePush
    BY <2>2, UnderWay, UnderWayNext DEF TakePush, WorkerGoto, Pulling
  <2>3. CASE PullOpen \/ PullRead
    BY <2>3, UnderWay, UnderWayNext DEF PullOpen, PullRead, WorkerGoto, Pulling
  <2>4. CASE PullDone
    BY <2>4, UnderWay, UnderWayNext DEF PullDone, WorkerGoto, Pulling
  <2>5. CASE PushOpen \/ PushDelete \/ PushCreate \/ PushDone \/ Notify
    BY <2>5, UnderWay, UnderWayNext
    DEF PushOpen, PushDelete, PushCreate, PushDone, Notify, WorkerGoto, Pulling
  <2>6. QED
    BY <2>1, <2>2, <2>3, <2>4, <2>5 DEF WorkerStep
<1>2. \A e \in Entries : PushUnderWay(e) => PushUnderWay(e)' \/ (PushDone /\ e = cur)
  <2>1. CASE TakePush
    <3>1. pushes # <<>> => Waiting(pushes) = Waiting(Tail(pushes)) \cup {Head(pushes)}
      BY <1>0, TailWaiting
    <3>2. QED
      BY <2>1, <3>1, UnderWay, UnderWayNext DEF TakePush, WorkerGoto, Pushing
  <2>2. CASE TakePull
    BY <2>2, UnderWay, UnderWayNext DEF TakePull, WorkerGoto, Pushing
  <2>3. CASE PushOpen \/ PushDelete \/ PushCreate
    BY <2>3, UnderWay, UnderWayNext DEF PushOpen, PushDelete, PushCreate, WorkerGoto, Pushing
  <2>4. CASE PushDone
    BY <2>4, UnderWay, UnderWayNext DEF PushDone, WorkerGoto, Pushing
  <2>5. CASE PullOpen \/ PullRead \/ PullDone \/ Notify
    BY <2>5, UnderWay, UnderWayNext DEF PullOpen, PullRead, PullDone, Notify, WorkerGoto, Pushing
  <2>6. QED
    BY <2>1, <2>2, <2>3, <2>4, <2>5 DEF WorkerStep
<1>3. \A e \in Entries : PullComing(e) => PullComing(e)' \/ (PullDone /\ e = cur)
  BY <1>0, <1>1, WorkerLeaves DEF PullComing
<1>4. \A e \in Entries : PushComing(e) => PushComing(e)' \/ (PushDone /\ e = cur)
  BY <1>2, WorkerLeaves DEF PushComing
<1>5. ASSUME NEW e \in Entries, Alive(e)'
      PROVE  /\ Alive(e)
             /\ \/ entry'[e].status = entry[e].status
                \/ entry'[e].status \in {"AVAILABLE", "FAIL", "DIRTY"}
             /\ PullDone /\ e = cur => entry'[e].status \in {"AVAILABLE", "FAIL"}
             /\ PushDone /\ e = cur => entry'[e].status # "PUSHING"
  <2>1. Alive(e) /\ (e # cur => entry'[e] = entry[e])
    BY <1>5, WorkerLeaves DEF Alive
  <2>2. CASE PullDone
    BY <1>0, <2>1, <2>2 DEF PullDone, SetStatus, EntryType
  <2>3. CASE PushDone
    <3>1. cur \in Entries /\ ~PullDone /\ entry'[cur].status = PushResult(entry[cur].status)
      BY <1>0, <2>3 DEF PushDone, PullDone, SetStatus, EntryType, Alive
    <3>2. \/ PushResult(entry[cur].status) = entry[cur].status /\ entry[cur].status # "PUSHING"
          \/ PushResult(entry[cur].status) \in {"AVAILABLE", "DIRTY"}
      BY DEF PushResult
    <3>3. QED
      BY <2>1, <3>1, <3>2
  <2>4. CASE ~PullDone /\ ~PushDone
    <3>1. ASSUME NEW x, entry' = [entry EXCEPT ![cur].cache = x] PROVE entry'[e].status = entry[e].status
      BY <1>0, <3>1 DEF EntryType
    <3>2. QED
      BY <2>1, <2>4, <3>1 DEF WorkerStep, TakePull, PullOpen, PullRead, TakePush,
         PushOpen, PushDelete, PushCreate, Notify
  <2>5. QED
    BY <2>2, <2>3, <2>4
<1>6. QED
  BY <1>3, <1>4, <1>5 DEF NoOrphanWait

\* A step of a user leaves the map alone, makes the entry or deletes it.
LEMMA UserMap ==
  ASSUME Types, NEW u \in Users, Call(u) \/ UserStep(u)
  PROVE  /\ unsafe \subseteq unsafe'
         /\ \/ mapped' = mapped
            \/ mapped = NoEntry /\ (CreateForBegin(u) \/ CreateForEnd(u))
            \/ /\ DeleteCacheEntry(u) /\ mapped \in Entries /\ mapped' = NoEntry
               /\ entry' = [entry EXCEPT ![mapped] = Destroyed(mapped)]
               /\ unsafe' = unsafe \cup DeletionFaults(mapped)
<1> USE DEF mapVars, ghostVars
<1>0. mapped \in {NoEntry} \cup Entries
  BY DEF Types
<1>1. CASE CreateForBegin(u) \/ CreateForEnd(u)
  BY <1>1, CreateCacheEntryDoes DEF CreateForBegin, CreateForEnd, UserControl
<1>2. CASE DeleteCacheEntry(u)
  BY <1>0, <1>2 DEF DeleteCacheEntry
<1>3. CASE \E o \in Operations : BeginAccess(u, o)
  BY <1>3 DEF BeginAccess
<1>4. CASE AsyncPull(u) \/ MarkDirty(u) \/ CheckPull(u) \/ Access(u)
  BY <1>4 DEF AsyncPull, MarkDirty, CheckPull, Access
<1>5. CASE \/ Flush(u) \/ GetAccess(u) \/ EnqueuePull(u) \/ AwaitPull(u) \/ AwaitPush(u)
           \/ EndLookup(u) \/ DeleteNode(u) \/ CountAccess(u) \/ EndAccess(u)
  BY <1>5 DEF Flush, GetAccess, EnqueuePull, AwaitPull, AwaitPush, EndLookup, DeleteNode,
     CountAccess, EndAccess
<1>6. QED
  BY <1>1, <1>2, <1>3, <1>4, <1>5 DEF Call, UserStep

\* No fault is ever forgotten.
LEMMA FaultsStay ==
  ASSUME Types, MapInv, WorkerInv, Next
  PROVE  unsafe \subseteq unsafe'
<1>1. CASE \E u \in Users : Call(u) \/ UserStep(u)
  BY <1>1, UserMap
<1>2. CASE \E a \in Actors : PushStep(a) \/ SpuriousWakeup(a)
  BY <1>2 DEF PushStep, PushIfDirty, AsyncPush, EnqueuePush, FallAsleep, SpuriousWakeup, ghostVars
<1>3. CASE ScanBegin \/ JanitorStep \/ Unplug
  BY <1>3, JanitorLeaves
<1>4. CASE WorkerStep
  BY <1>4, WorkerLeaves
<1>5. QED
  BY <1>1, <1>2, <1>3, <1>4 DEF Next

\* An entry without requests can go.
LEMMA RequestsGone ==
  ASSUME Types, WorkerInv, RequestsAtMap, mapped = NoEntry \/ ~InRequest(mapped)
  PROVE  Waiting(pulls) = {} /\ Waiting(pushes) = {} /\ cur = NoEntry
<1>1. /\ \A e \in Waiting(pulls) \cup Waiting(pushes) : e \in Entries
      /\ NoEntry \notin Entries
  <2>1. pulls \in Seq(Entries) /\ pushes \in Seq(Entries)
    BY DEF Types
  <2>2. ASSUME NEW s \in Seq(Entries) PROVE \A e \in Waiting(s) : e \in Entries
    BY LenProperties, ElementOfSeq DEF Waiting
  <2>3. QED
    BY <2>1, <2>2, BoundsAssumption DEF NoEntry, Entries
<1>2. QED
  BY <1>1, UnderWay DEF RequestsAtMap, InRequest

LEMMA RequestsStay ==
  ASSUME Types, MapInv, WorkerInv, RequestsAtMap, Next, "deletedUnderRequest" \notin unsafe'
  PROVE  RequestsAtMap'
<1> USE DEF queueVars, workerVars
<1>0. /\ pulls \in Seq(Entries) /\ pushes \in Seq(Entries)
      /\ \A e \in Entries : Alive(e) => e = mapped
  BY DEF Types, MapInv, OneEntry
<1>a. ASSUME mapped' = NoEntry, UNCHANGED <<pulls, pushes, cur>>, mapped \in Entries,
             DeletionFaults(mapped) \subseteq unsafe'
      PROVE  RequestsAtMap'
  <2>1. ~InRequest(mapped)
    BY <1>a DEF DeletionFaults
  <2>2. QED
    BY <1>a, <2>1, RequestsGone DEF RequestsAtMap
<1>1. CASE \E u \in Users : Call(u) \/ UserStep(u)
  <2>1. PICK u \in Users : Call(u) \/ UserStep(u)
    BY <1>1
  <2>2. UNCHANGED <<pushes, cur>>
    BY <2>1, UserStatus
  <2>3. CASE EnqueuePull(u)
    <3>1. ptr[u] = mapped /\ mapped' = mapped /\ Waiting(pulls') = Waiting(pulls) \cup {ptr[u]}
      BY <1>0, <2>3, AppendWaiting DEF EnqueuePull, mapVars, Alive
    <3>2. QED
      BY <2>2, <3>1 DEF RequestsAtMap
  <2>4. CASE pulls' = pulls
    <3>1. CASE mapped' = mapped
      BY <2>2, <2>4, <3>1 DEF RequestsAtMap
    <3>2. CASE mapped = NoEntry
      BY <2>2, <2>4, <3>2, RequestsGone DEF RequestsAtMap
    <3>3. CASE mapped \in Entries /\ mapped' = NoEntry /\ unsafe' = unsafe \cup DeletionFaults(mapped)
      BY <1>a, <2>2, <2>4, <3>3
    <3>4. QED
      BY <2>1, <3>1, <3>2, <3>3, UserMap
  <2>5. QED
    BY <2>1, <2>3, <2>4, UserStatus
<1>2. CASE \E a \in Actors : PushStep(a) \/ SpuriousWakeup(a)
  <2>1. PICK a \in Actors : PushStep(a) \/ SpuriousWakeup(a)
    BY <1>2
  <2>2. UNCHANGED <<pulls, cur, mapped>>
    BY <2>1, PushLeaves DEF mapVars
  <2>3. CASE EnqueuePush(a)
    <3>1. ptr[a] = mapped /\ Waiting(pushes') = Waiting(pushes) \cup {ptr[a]}
      BY <1>0, <2>3, AppendWaiting DEF EnqueuePush, Alive
    <3>2. QED
      BY <2>2, <3>1 DEF RequestsAtMap
  <2>4. CASE pushes' = pushes
    BY <2>2, <2>4 DEF RequestsAtMap
  <2>5. QED
    BY <2>1, <2>3, <2>4 DEF PushStep, PushIfDirty, AsyncPush, FallAsleep, SpuriousWakeup
<1>3. CASE ScanBegin \/ JanitorStep \/ Unplug
  <2>1. CASE mapped' = mapped
    BY <1>3, <2>1, JanitorLeaves DEF RequestsAtMap
  <2>2. CASE mapped' # mapped
    BY <1>3, <1>a, <2>2, JanitorLeaves
  <2>3. QED
    BY <2>1, <2>2
<1>4. CASE WorkerStep
  <2>0. mapped' = mapped
    BY <1>4, WorkerLeaves
  <2>1. CASE TakePull
    <3>1. pulls # <<>> => Waiting(pulls) = Waiting(Tail(pulls)) \cup {Head(pulls)}
      BY <1>0, TailWaiting
    <3>2. QED
      BY <2>0, <2>1, <3>1 DEF TakePull, WorkerGoto, RequestsAtMap
  <2>2. CASE TakePush
    <3>1. pushes # <<>> => Waiting(pushes) = Waiting(Tail(pushes)) \cup {Head(pushes)}
      BY <1>0, TailWaiting
    <3>2. QED
      BY <2>0, <2>2, <3>1 DEF TakePush, WorkerGoto, RequestsAtMap
  <2>3. CASE PullOpen \/ PullRead \/ PullDone \/ PushOpen \/ PushDelete \/ PushCreate \/ PushDone
             \/ Notify
    BY <2>0, <2>3 DEF PullOpen, PullRead, PullDone, PushOpen, PushDelete, PushCreate, PushDone,
       Notify, WorkerGoto, RequestsAtMap
  <2>4. QED
    BY <1>4, <2>1, <2>2, <2>3 DEF WorkerStep
<1>5. QED
  BY <1>1, <1>2, <1>3, <1>4 DEF Next

-----------------------------------------------------------------------------
(* The use counts.                                                         *)

\* Where a user is between the counting of its use and the end of it.
Counting == {"status", "pull", "pullEnq", "pullTest", "pullGap", "pullSleep", "pullCheck",
             "pushTest", "pushGap", "pushSleep", "access", "endLookup", "end"}

\* Who is counted for entry e ...
LEMMA CountedAre ==
  /\ \A e, u : /\ u \in Writers(e) <=> u \in Users /\ ptr[u] = e /\ pc[u] \in Counting /\ Writing(u)
               /\ u \in Readers(e) <=> u \in Users /\ ptr[u] = e /\ pc[u] \in Counting /\ ~Writing(u)
  /\ \A e : IsFiniteSet(Writers(e)) /\ IsFiniteSet(Readers(e))
<1>1. \A e : Writers(e) \subseteq Users /\ Readers(e) \subseteq Users
  BY DEF Writers, Readers, Accessing
<1>2. \A e : IsFiniteSet(Writers(e)) /\ IsFiniteSet(Readers(e))
  BY <1>1, ActorsAssumption, FS_Subset
<1>3. QED
  BY <1>2 DEF Writers, Readers, Accessing, Counting

\* ... and is after a step.
LEMMA CountedAreNext ==
  \A e, u :
    /\ u \in Writers(e)' <=> u \in Users /\ ptr'[u] = e /\ pc'[u] \in Counting /\ op'[u] \in {"write", "clear"}
    /\ u \in Readers(e)' <=> u \in Users /\ ptr'[u] = e /\ pc'[u] \in Counting /\ op'[u] \notin {"write", "clear"}
BY DEF Writers, Readers, Accessing, Counting, Writing

\* A user that stays among the counted, or apart from them, changes no count.
Quiet(u) ==
  \/ ptr'[u] = ptr[u] /\ op'[u] = op[u] /\ pc'[u] = pc[u]
  \/ ptr'[u] = ptr[u] /\ op'[u] = op[u] /\ pc[u] \in Counting /\ pc'[u] \in Counting
  \/ pc[u] \notin Counting /\ pc'[u] \notin Counting /\ Holds(u)'

LEMMA CountedKept ==
  ASSUME Counted, mapped' = mapped,
         \A e \in Entries : Alive(e)' => /\ Alive(e)
                                         /\ entry'[e].writes = entry[e].writes
                                         /\ entry'[e].reads = entry[e].reads,
         \A u \in Users : Quiet(u)
  PROVE  Counted'
<1>1. ASSUME NEW u \in Users PROVE Holds(u)'
  BY <1>1 DEF Counted, Quiet, Holds, Counting
<1>2. ASSUME NEW e \in Entries PROVE Writers(e)' = Writers(e) /\ Readers(e)' = Readers(e)
  <2>1. ASSUME NEW u \in Users
        PROVE  /\ u \in Writers(e)' <=> u \in Writers(e)
               /\ u \in Readers(e)' <=> u \in Readers(e)
    BY CountedAre, CountedAreNext DEF Quiet, Writing
  <2>2. /\ Writers(e) \subseteq Users /\ Readers(e) \subseteq Users
        /\ Writers(e)' \subseteq Users /\ Readers(e)' \subseteq Users
    BY CountedAre, CountedAreNext
  <2>3. QED
    BY <2>1, <2>2
<1>3. QED
  BY <1>1, <1>2 DEF Counted

\* An entry nobody has in hand can go, and a new one has no users.
LEMMA CountedGone ==
  ASSUME Types, Counted, mapped \in Entries, mapped' = NoEntry, ~InUse(mapped),
         \A e \in Entries : ~Alive(e)',
         \A u \in Users : \/ pc'[u] = pc[u] /\ ptr'[u] = ptr[u]
                          \/ pc[u] = "idle" /\ pc'[u] = "node" /\ ptr'[u] = ptr[u]
  PROVE  Counted'
<1>1. \A u \in Users : Holds(u)'
  BY DEF Counted, Holds, InUse
<1>2. QED
  BY <1>1 DEF Counted

\* The counts of entries change when a use begins or ends, and only then.
LEMMA UserCounts ==
  ASSUME Types, NEW u \in Users, Call(u) \/ UserStep(u),
         ~CreateForBegin(u), ~CreateForEnd(u), ~CountAccess(u), ~EndAccess(u)
  PROVE  \A e \in Entries : Alive(e)' => /\ Alive(e)
                                         /\ entry'[e].writes = entry[e].writes
                                         /\ entry'[e].reads = entry[e].reads
<1>0. entry \in [Entries -> EntryType] /\ mapped \in {NoEntry} \cup Entries
  BY DEF Types, EntryType
<1>1. CASE AsyncPull(u)
  BY <1>0, <1>1 DEF AsyncPull, SetStatus, EntryType, Alive
<1>2. CASE Access(u)
  BY <1>0, <1>2 DEF Access, EntryType, Alive
<1>3. CASE MarkDirty(u)
  BY <1>0, <1>3 DEF MarkDirty, SetStatus, EntryType, Alive
<1>4. CASE DeleteCacheEntry(u)
  <2>1. entry' = entry \/ (mapped \in Entries /\ entry' = [entry EXCEPT ![mapped] = Destroyed(mapped)])
    BY <1>0, <1>4 DEF DeleteCacheEntry
  <2>2. QED
    BY <1>0, <2>1, NewEntryType DEF Alive
<1>5. CASE \/ Flush(u) \/ GetAccess(u) \/ EnqueuePull(u) \/ AwaitPull(u) \/ CheckPull(u) \/ AwaitPush(u)
           \/ EndLookup(u) \/ DeleteNode(u) \/ \E o \in Operations : BeginAccess(u, o)
  BY <1>5 DEF Flush, GetAccess, EnqueuePull, AwaitPull, CheckPull, AwaitPush, EndLookup, DeleteNode,
     BeginAccess, Alive
<1>6. QED
  BY <1>1, <1>2, <1>3, <1>4, <1>5 DEF Call, UserStep

LEMMA CountedUser ==
  ASSUME Types, MapInv, Counted, NEW u \in Users, Call(u) \/ UserStep(u),
         "deletedInUse" \notin unsafe'
  PROVE  Counted'
<1> USE DEF mapVars, userVars
<1>0. /\ entry \in [Entries -> EntryType] /\ mapped \in {NoEntry} \cup Entries
      /\ NoEntry \notin Entries /\ u \in Actors /\ u # Janitor
      /\ \A v \in Users : v \in Actors
      /\ op \in [Users -> Operations] /\ ptr \in [Actors -> {NoEntry} \cup Entries]
      /\ \A e \in Entries : Alive(e) => e = mapped
      /\ Holds(u) /\ pc[u] # "endCreate"
  BY ActorsAssumption, BoundsAssumption
  DEF Types, EntryType, NoEntry, Entries, Actors, Counted, Holds, MapInv, OneEntry
<1>1. \A v \in Users \ {u} : pc'[v] = pc[v] /\ ptr'[v] = ptr[v] /\ op'[v] = op[v]
  BY <1>0, UserLeaves
<1>2. \A v \in Users \ {u} : Quiet(v)
  BY <1>1 DEF Quiet
<1>a. ASSUME NEW p \in UserControl, Goto(u, p) PROVE pc'[u] = p
  BY <1>a, UserMoves
<1>b. ASSUME mapped' = mapped, Quiet(u),
             ~CreateForBegin(u), ~CreateForEnd(u), ~CountAccess(u), ~EndAccess(u)
      PROVE  Counted'
  BY <1>2, <1>b, UserCounts, CountedKept
<1>3. CASE CountAccess(u)
  <2>1. /\ pc[u] = "count" /\ pc'[u] = "status" /\ UNCHANGED <<mapped, ptr, op>>
        /\ ptr[u] = mapped /\ mapped \in Entries
    BY <1>0, <1>3, <1>a DEF CountAccess, UserControl, Holds
  <2>2. \A v \in Users : Holds(v)'
    <3>1. Holds(u)'
      BY <1>0, <2>1 DEF Holds
    <3>2. \A v \in Users \ {u} : Holds(v)'
      BY <1>1, <2>1 DEF Holds, Counted
    <3>3. QED
      BY <3>1, <3>2
  <2>3. \A v \in Users : Writing(v) <=> op[v] \in {"write", "clear"}
    BY DEF Writing
  <2>4. entry[mapped] \in EntryType /\ entry[mapped].writes \in Int /\ entry[mapped].reads \in Int
    BY <1>0, <2>1 DEF EntryType
  <2>5. CASE Writing(u)
    <3>1. Writers(mapped)' = Writers(mapped) \cup {u} /\ Readers(mapped)' = Readers(mapped)
      <4>1. \A v \in Users : v \in Writers(mapped)' <=> v \in Writers(mapped) \cup {u}
        BY <1>1, <2>1, <2>3, <2>5, CountedAre, CountedAreNext DEF Counting
      <4>2. \A v \in Users : v \in Readers(mapped)' <=> v \in Readers(mapped)
        BY <1>1, <2>1, <2>3, <2>5, CountedAre, CountedAreNext DEF Counting
      <4>3. /\ Writers(mapped) \subseteq Users /\ Readers(mapped) \subseteq Users
            /\ Writers(mapped)' \subseteq Users /\ Readers(mapped)' \subseteq Users
        BY CountedAre, CountedAreNext
      <4>4. QED
        BY <4>1, <4>2, <4>3
    <3>2. u \notin Writers(mapped)
      BY <2>1, CountedAre DEF Counting
    <3>3. Cardinality(Writers(mapped)') = Cardinality(Writers(mapped)) + 1
      BY <3>1, <3>2, CountedAre, FS_AddElement
    <3>4. entry'[mapped].writes = entry[mapped].writes + 1 /\ entry'[mapped].reads = entry[mapped].reads
      BY <1>0, <1>3, <2>1, <2>4, <2>5 DEF CountAccess, EntryType
    <3>5. \A e \in Entries : Alive(e)' => e = mapped /\ Alive(e)
      BY <1>0, <1>3, <2>1, <2>5 DEF CountAccess, Alive, EntryType
    <3>6. QED
      BY <2>1, <2>2, <3>1, <3>3, <3>4, <3>5 DEF Counted
  <2>6. CASE ~Writing(u)
    <3>1. Readers(mapped)' = Readers(mapped) \cup {u} /\ Writers(mapped)' = Writers(mapped)
      <4>1. \A v \in Users : v \in Readers(mapped)' <=> v \in Readers(mapped) \cup {u}
        BY <1>1, <2>1, <2>3, <2>6, CountedAre, CountedAreNext DEF Counting
      <4>2. \A v \in Users : v \in Writers(mapped)' <=> v \in Writers(mapped)
        BY <1>1, <2>1, <2>3, <2>6, CountedAre, CountedAreNext DEF Counting
      <4>3. /\ Writers(mapped) \subseteq Users /\ Readers(mapped) \subseteq Users
            /\ Writers(mapped)' \subseteq Users /\ Readers(mapped)' \subseteq Users
        BY CountedAre, CountedAreNext
      <4>4. QED
        BY <4>1, <4>2, <4>3
    <3>2. u \notin Readers(mapped)
      BY <2>1, CountedAre DEF Counting
    <3>3. Cardinality(Readers(mapped)') = Cardinality(Readers(mapped)) + 1
      BY <3>1, <3>2, CountedAre, FS_AddElement
    <3>4. entry'[mapped].reads = entry[mapped].reads + 1 /\ entry'[mapped].writes = entry[mapped].writes
      BY <1>0, <1>3, <2>1, <2>4, <2>6 DEF CountAccess, EntryType
    <3>5. \A e \in Entries : Alive(e)' => e = mapped /\ Alive(e)
      BY <1>0, <1>3, <2>1, <2>6 DEF CountAccess, Alive, EntryType
    <3>6. QED
      BY <2>1, <2>2, <3>1, <3>3, <3>4, <3>5 DEF Counted
  <2>7. QED
    BY <2>5, <2>6
<1>4. CASE EndAccess(u)
  <2>1. /\ pc[u] = "end" /\ UNCHANGED <<mapped, op>>
        /\ ptr[u] = mapped /\ mapped \in Entries
        /\ Writing(u) => pc'[u] = "dirty" /\ ptr' = ptr
        /\ ~Writing(u) => pc'[u] = "idle" /\ ptr'[u] = NoEntry
    BY <1>0, <1>4, <1>a DEF EndAccess, UserControl, Holds
  <2>2. \A v \in Users : Holds(v)'
    <3>1. Holds(u)'
      BY <1>0, <2>1 DEF Holds
    <3>2. \A v \in Users \ {u} : Holds(v)'
      BY <1>1, <2>1 DEF Holds, Counted
    <3>3. QED
      BY <3>1, <3>2
  <2>3. \A v \in Users : Writing(v) <=> op[v] \in {"write", "clear"}
    BY DEF Writing
  <2>4. entry[mapped] \in EntryType /\ entry[mapped].writes \in Int /\ entry[mapped].reads \in Int
    BY <1>0, <2>1 DEF EntryType
  <2>5. CASE Writing(u)
    <3>1. Writers(mapped)' = Writers(mapped) \ {u} /\ Readers(mapped)' = Readers(mapped)
      <4>1. \A v \in Users : v \in Writers(mapped)' <=> v \in Writers(mapped) \ {u}
        BY <1>1, <2>1, <2>3, <2>5, CountedAre, CountedAreNext DEF Counting
      <4>2. \A v \in Users : v \in Readers(mapped)' <=> v \in Readers(mapped)
        BY <1>1, <2>1, <2>3, <2>5, CountedAre, CountedAreNext DEF Counting
      <4>3. /\ Writers(mapped) \subseteq Users /\ Readers(mapped) \subseteq Users
            /\ Writers(mapped)' \subseteq Users /\ Readers(mapped)' \subseteq Users
        BY CountedAre, CountedAreNext
      <4>4. QED
        BY <4>1, <4>2, <4>3
    <3>2. u \in Writers(mapped)
      BY <2>1, <2>5, CountedAre DEF Counting
    <3>3. Cardinality(Writers(mapped)') = Cardinality(Writers(mapped)) - 1
      BY <3>1, <3>2, CountedAre, FS_RemoveElement
    <3>4. entry'[mapped].writes = entry[mapped].writes - 1 /\ entry'[mapped].reads = entry[mapped].reads
      BY <1>0, <1>4, <2>1, <2>4, <2>5 DEF EndAccess, Release, EntryType
    <3>5. \A e \in Entries : Alive(e)' => e = mapped /\ Alive(e)
      BY <1>0, <1>4, <2>1, <2>5 DEF EndAccess, Release, Alive, EntryType
    <3>6. QED
      BY <2>1, <2>2, <3>1, <3>3, <3>4, <3>5 DEF Counted
  <2>6. CASE ~Writing(u)
    <3>1. Readers(mapped)' = Readers(mapped) \ {u} /\ Writers(mapped)' = Writers(mapped)
      <4>1. \A v \in Users : v \in Readers(mapped)' <=> v \in Readers(mapped) \ {u}
        BY <1>0, <1>1, <2>1, <2>3, <2>6, CountedAre, CountedAreNext DEF Counting
      <4>2. \A v \in Users : v \in Writers(mapped)' <=> v \in Writers(mapped)
        BY <1>0, <1>1, <2>1, <2>3, <2>6, CountedAre, CountedAreNext DEF Counting
      <4>3. /\ Writers(mapped) \subseteq Users /\ Readers(mapped) \subseteq Users
            /\ Writers(mapped)' \subseteq Users /\ Readers(mapped)' \subseteq Users
        BY CountedAre, CountedAreNext
      <4>4. QED
        BY <4>1, <4>2, <4>3
    <3>2. u \in Readers(mapped)
      BY <2>1, <2>6, CountedAre DEF Counting
    <3>3. Cardinality(Readers(mapped)') = Cardinality(Readers(mapped)) - 1
      BY <3>1, <3>2, CountedAre, FS_RemoveElement
    <3>4. entry'[mapped].reads = entry[mapped].reads - 1 /\ entry'[mapped].writes = entry[mapped].writes
      BY <1>0, <1>4, <2>1, <2>4, <2>6 DEF EndAccess, Release, EntryType
    <3>5. \A e \in Entries : Alive(e)' => e = mapped /\ Alive(e)
      BY <1>0, <1>4, <2>1, <2>6 DEF EndAccess, Release, Alive, EntryType
    <3>6. QED
      BY <2>1, <2>2, <3>1, <3>3, <3>4, <3>5 DEF Counted
  <2>7. QED
    BY <2>5, <2>6
<1>5. CASE CreateForBegin(u)
  <2>1. /\ pc[u] = "create" /\ pc'[u] = "count" /\ ptr'[u] = mapped' /\ mapped' \in Entries
        /\ mapped # NoEntry => mapped' = mapped /\ entry' = entry
        /\ mapped = NoEntry => entry[mapped'].life = "unborn" /\ Only(mapped', NewEntry)
    BY <1>5, CreateCacheEntryDoes DEF CreateForBegin, UserControl
  <2>2. Holds(u)'
    BY <1>0, <2>1 DEF Holds
  <2>3. CASE mapped # NoEntry
    <3>1. \A v \in Users : Quiet(v)
      BY <1>2, <2>1, <2>2 DEF Quiet, Counting
    <3>2. QED
      BY <2>1, <2>3, <3>1, CountedKept DEF Alive
  <2>4. CASE mapped = NoEntry
    <3>1. \A v \in Users : Holds(v)'
      BY <1>1, <2>2, <2>4 DEF Counted, Holds
    <3>2. \A v \in Users : pc'[v] \notin Counting
      BY <1>1, <2>1, <2>4 DEF Counted, Holds, Counting
    <3>3. \A e \in Entries : Writers(e)' = {} /\ Readers(e)' = {}
      BY <3>2, CountedAreNext
    <3>4. \A e \in Entries : Alive(e)' => e = mapped'
      BY <1>0, <2>1, <2>4 DEF Only, Alive
    <3>5. entry'[mapped'].writes = 0 /\ entry'[mapped'].reads = 0
      BY <2>1, <2>4 DEF Only, NewEntry
    <3>6. Cardinality({}) = 0
      BY FS_EmptySet
    <3>7. \A e \in Entries : Alive(e)' => /\ entry'[e].writes = Cardinality(Writers(e)')
                                          /\ entry'[e].reads = Cardinality(Readers(e)')
      BY <3>3, <3>4, <3>5, <3>6
    <3>8. QED
      BY <3>1, <3>7 DEF Counted
  <2>5. QED
    BY <2>3, <2>4
<1>6. CASE DeleteCacheEntry(u)
  <2>1. pc[u] = "idle" /\ pc'[u] = "node" /\ ptr' = ptr
    BY <1>6, <1>a DEF DeleteCacheEntry, UserControl
  <2>2. CASE mapped' = mapped
    <3>1. Quiet(u)
      BY <1>0, <2>1 DEF Quiet, Counting, Holds
    <3>2. entry' = entry
      BY <1>0, <1>6, <2>2 DEF DeleteCacheEntry
    <3>3. QED
      BY <1>2, <2>2, <3>1, <3>2, CountedKept DEF Alive
  <2>3. CASE mapped' # mapped
    <3>1. /\ mapped \in Entries /\ mapped' = NoEntry
          /\ entry' = [entry EXCEPT ![mapped] = Destroyed(mapped)]
          /\ unsafe' = unsafe \cup DeletionFaults(mapped)
      BY <1>0, <1>6, <2>3, NewEntryType DEF DeleteCacheEntry
    <3>2. ~InUse(mapped)
      BY <3>1 DEF DeletionFaults
    <3>3. \A e \in Entries : ~Alive(e)'
      BY <1>0, <3>1, NewEntryType DEF Alive
    <3>4. \A v \in Users : \/ pc'[v] = pc[v] /\ ptr'[v] = ptr[v]
                           \/ pc[v] = "idle" /\ pc'[v] = "node" /\ ptr'[v] = ptr[v]
      BY <1>1, <2>1
    <3>5. QED
      BY <3>1, <3>2, <3>3, <3>4, CountedGone
  <2>4. QED
    BY <2>2, <2>3
<1>7. CASE \/ GetAccess(u) \/ AsyncPull(u) \/ EnqueuePull(u) \/ AwaitPull(u) \/ CheckPull(u) \/ AwaitPush(u)
           \/ Access(u)
  <2>1. Quiet(u) /\ mapped' = mapped /\ pc[u] \notin {"create", "count", "end"}
    <3>1. CASE GetAccess(u)
      BY <1>a, <3>1 DEF GetAccess, Quiet, Counting, UserControl
    <3>2. CASE AsyncPull(u)
      BY <1>a, <3>2 DEF AsyncPull, Quiet, Counting, UserControl
    <3>3. CASE EnqueuePull(u)
      BY <1>a, <3>3 DEF EnqueuePull, Quiet, Counting, UserControl
    <3>4. CASE AwaitPull(u)
      BY <1>a, <3>4 DEF AwaitPull, Quiet, Counting, UserControl
    <3>5. CASE AwaitPush(u)
      BY <1>a, <3>5 DEF AwaitPush, Quiet, Counting, UserControl
    <3>6. CASE Access(u)
      BY <1>a, <3>6 DEF Access, Quiet, Counting, UserControl
    <3>7. CASE CheckPull(u)
      BY <1>a, <3>7 DEF CheckPull, Quiet, Counting, UserControl
    <3>8. QED
      BY <1>7, <3>1, <3>2, <3>3, <3>4, <3>5, <3>6, <3>7
  <2>2. QED
    BY <1>0, <1>b, <2>1 DEF CreateForBegin, CreateForEnd, CountAccess, EndAccess
<1>8. CASE EndLookup(u)
  <2>1. pc[u] = "endLookup" /\ mapped # NoEntry /\ ptr[u] = mapped
    BY <1>0, <1>8 DEF EndLookup, Holds
  <2>2. pc'[u] = "end" /\ ptr'[u] = mapped /\ UNCHANGED <<mapped, op>>
    BY <1>8, <2>1, LookupsDo DEF Found, EndLookup
  <2>3. Quiet(u)
    BY <2>1, <2>2 DEF Quiet, Counting
  <2>4. QED
    BY <1>b, <2>1, <2>2, <2>3 DEF CreateForBegin, CreateForEnd, CountAccess, EndAccess
<1>9. CASE Flush(u) \/ \E o \in Operations : BeginAccess(u, o)
  <2>1. /\ pc[u] = "idle" /\ ptr'[u] = mapped /\ mapped' = mapped
        /\ \/ mapped # NoEntry /\ pc'[u] \in {"count", "ifDirty"}
           \/ mapped = NoEntry /\ pc'[u] \in {"create", "idle"}
    <3>1. CASE Flush(u)
      BY <3>1, LookupsDo DEF Found, Flush
    <3>2. CASE \E o \in Operations : BeginAccess(u, o)
      BY <3>2, LookupsDo DEF Found, BeginAccess
    <3>3. QED
      BY <1>9, <3>1, <3>2
  <2>2. Quiet(u)
    BY <2>1 DEF Quiet, Counting, Holds
  <2>3. QED
    BY <1>b, <2>1, <2>2 DEF CreateForBegin, CreateForEnd, CountAccess, EndAccess
<1>10. CASE MarkDirty(u) \/ DeleteNode(u)
  <2>1. Quiet(u) /\ mapped' = mapped /\ pc[u] \notin {"create", "count", "end"}
    <3>1. CASE MarkDirty(u)
      BY <1>0, <1>a, <3>1 DEF MarkDirty, Quiet, Counting, Holds, UserControl
    <3>2. CASE DeleteNode(u)
      BY <1>0, <1>a, <3>2 DEF DeleteNode, Quiet, Counting, Holds, UserControl
    <3>3. QED
      BY <1>10, <3>1, <3>2
  <2>2. QED
    BY <1>0, <1>b, <2>1 DEF CreateForBegin, CreateForEnd, CountAccess, EndAccess
<1>11. CASE CreateForEnd(u)
  BY <1>0, <1>11 DEF CreateForEnd
<1>12. QED
  BY <1>3, <1>4, <1>5, <1>6, <1>7, <1>8, <1>9, <1>10, <1>11 DEF Call, UserStep

LEMMA CountedStays ==
  ASSUME Types, MapInv, WorkerInv, Counted, Next, "deletedInUse" \notin unsafe'
  PROVE  Counted'
<1>0. \A u \in Users : u \in Actors /\ u # Janitor
  BY ActorsAssumption DEF Actors
<1>1. CASE \E u \in Users : Call(u) \/ UserStep(u)
  BY <1>1, CountedUser
<1>2. CASE \E a \in Actors : PushStep(a) \/ SpuriousWakeup(a)
  <2>1. PICK a \in Actors : PushStep(a) \/ SpuriousWakeup(a)
    BY <1>2
  <2>2. /\ \A b \in Actors \ {a} : pc'[b] = pc[b] /\ ptr'[b] = ptr[b]
        /\ mapped' = mapped /\ op' = op
    BY <2>1, PushLeaves DEF mapVars, userVars
  <2>3. \A e \in Entries : Alive(e)' => /\ Alive(e)
                                        /\ entry'[e].writes = entry[e].writes
                                        /\ entry'[e].reads = entry[e].reads
    <3>1. CASE entry' = entry
      BY <3>1 DEF Alive
    <3>2. CASE Alive(ptr[a]) /\ Only(ptr[a], [entry[ptr[a]] EXCEPT !.status = "PUSHING"])
      <4>1. ptr[a] \in Entries /\ entry[ptr[a]] \in EntryType
        BY <3>2 DEF Alive, Types, EntryType
      <4>2. /\ [entry[ptr[a]] EXCEPT !.status = "PUSHING"].writes = entry[ptr[a]].writes
            /\ [entry[ptr[a]] EXCEPT !.status = "PUSHING"].reads = entry[ptr[a]].reads
        BY <4>1 DEF EntryType
      <4>3. QED
        BY <3>2, <4>1, <4>2 DEF Only, Alive
    <3>3. QED
      BY <2>1, <3>1, <3>2, PushLeaves
  <2>4. \A v \in Users \ {a} : Quiet(v)
    BY <1>0, <2>2 DEF Quiet
  <2>5. ASSUME a \in Users PROVE Quiet(a)
    <3>1. a # Janitor /\ Holds(a) /\ pc[a] \in UserControl /\ ptr \in [Actors -> {NoEntry} \cup Entries]
      BY <1>0, <2>5 DEF Counted, Types
    <3>a. ASSUME NEW p \in UserControl, Goto(a, p) PROVE pc'[a] = p
      BY <2>5, <3>a, UserMoves
    <3>b. ASSUME Done(a) PROVE pc'[a] = "idle" /\ ptr'[a] = NoEntry
      BY <3>1, <3>a, <3>b DEF Done, AfterPush, UserControl
    <3>2. CASE PushIfDirty(a)
      BY <2>2, <3>1, <3>2, <3>a, <3>b DEF PushIfDirty, Quiet, Counting, Holds, UserControl
    <3>3. CASE AsyncPush(a)
      BY <2>2, <3>1, <3>3, <3>a, <3>b DEF AsyncPush, Quiet, Counting, Holds, UserControl
    <3>4. CASE EnqueuePush(a)
      BY <3>4, <3>b DEF EnqueuePush, Quiet, Counting, Holds
    <3>5. CASE FallAsleep(a)
      BY <2>2, <3>1, <3>5, <3>a DEF FallAsleep, Quiet, Counting, UserControl
    <3>6. CASE SpuriousWakeup(a)
      <4>1. \/ pc[a] = "pullSleep" /\ Woken(pc[a]) = "pullTest"
            \/ pc[a] = "pushSleep" /\ Woken(pc[a]) = "pushTest"
        BY <3>1, <3>6, WokenDoes DEF SpuriousWakeup, UserControl
      <4>2. QED
        BY <2>2, <3>6, <3>a, <4>1 DEF SpuriousWakeup, Quiet, Counting, UserControl
    <3>7. QED
      BY <2>1, <3>2, <3>3, <3>4, <3>5, <3>6 DEF PushStep
  <2>6. QED
    BY <2>2, <2>3, <2>4, <2>5, CountedKept
<1>3. CASE ScanBegin \/ JanitorStep \/ Unplug
  <2>1. CASE entry' = entry /\ mapped' = mapped
    <3>1. \A v \in Users : Quiet(v)
      BY <1>3, JanitorLeaves DEF Quiet, userVars
    <3>2. QED
      BY <2>1, <3>1, CountedKept DEF Alive
  <2>2. CASE /\ mapped \in Entries /\ mapped' = NoEntry /\ DeletionFaults(mapped) \subseteq unsafe'
             /\ entry' = [entry EXCEPT ![mapped] = Destroyed(mapped)]
    <3>1. ~InUse(mapped)
      BY <2>2 DEF DeletionFaults
    <3>2. \A e \in Entries : ~Alive(e)'
      <4>1. entry \in [Entries -> EntryType]
        BY DEF Types, EntryType
      <4>2. QED
        BY <2>2, <4>1, NewEntryType DEF Alive, MapInv, OneEntry
    <3>3. QED
      BY <1>3, <2>2, <3>1, <3>2, JanitorLeaves, CountedGone
  <2>3. QED
    BY <1>3, <2>1, <2>2, JanitorLeaves
<1>4. CASE WorkerStep
  <2>1. \A v \in Users : Quiet(v)
    <3>1. \A v \in Users : pc[v] # "dSleep"
      BY DEF Types, UserControl
    <3>2. QED
      BY <1>0, <1>4, <3>1, WorkerLeaves DEF Quiet, Counting, userVars
  <2>2. QED
    BY <1>4, <2>1, WorkerLeaves, CountedKept DEF Alive
<1>5. QED
  BY <1>1, <1>2, <1>3, <1>4 DEF Next

-----------------------------------------------------------------------------
(* The invariant.                                                          *)

LEMMA InitInv == Init => Inv
<1> SUFFICES ASSUME Init PROVE Inv
  OBVIOUS
<1> USE DEF Init
<1>0. /\ Janitor \in Actors /\ Janitor \notin Users /\ Original \in Content
      /\ \A u \in Users : u \in Actors /\ u # Janitor
      /\ "idle" \in UserControl /\ "rest" \in JanitorControl /\ "read" \in Operations
      /\ 0 \in 0 .. MaxOps /\ 0 \in 0 .. MaxRounds /\ 0 \in 0 .. MaxFailures
      /\ <<>> \in Seq(Entries)
  BY ActorsAssumption, BoundsAssumption, EmptyWaiting
  DEF Actors, Content, UserControl, JanitorControl, Operations
<1>1. Unborn \in EntryType /\ Unborn.life = "unborn"
  BY DEF Unborn, NewEntry, EntryType, Status, Content
<1>2. /\ entry \in [Entries -> EntryType] /\ \A e \in Entries : ~Alive(e)
      /\ pc[Janitor] = "rest" /\ \A u \in Users : pc[u] = "idle" /\ ptr[u] = NoEntry
      /\ pc \in [Actors -> UserControl \cup JanitorControl]
  BY <1>0, <1>1 DEF Alive
<1>3. Types
  BY <1>0, <1>2 DEF Types, EntryType, WorkerControl, Faults
<1>4. MapInv
  BY <1>2 DEF MapInv, OneEntry, Scanning, Deleting
<1>5. WorkerInv /\ NoOrphanWait
  BY <1>2 DEF WorkerInv, NoOrphanWait
<1>6. Counted
  BY <1>2 DEF Counted, Holds
<1>7. RequestsAtMap
  BY EmptyWaiting DEF RequestsAtMap
<1>8. QED
  BY <1>3, <1>4, <1>5, <1>6, <1>7 DEF Inv

LEMMA NextTypes ==
  ASSUME Types, WorkerInv, Next PROVE Types'
BY UserTypes, PushTypes, JanitorTypes, WorkerTypes DEF Next

LEMMA NextInv ==
  ASSUME Inv, [Next]_vars PROVE Inv'
<1>0. Types /\ MapInv /\ WorkerInv /\ NoOrphanWait
  BY DEF Inv
<1>1. CASE Next
  <2>1. Types'
    BY <1>0, <1>1, NextTypes
  <2>2. MapInv'
    BY <1>0, <1>1, MapUser, MapPush, MapJanitor, MapWorker DEF Next
  <2>3. WorkerInv'
    BY <1>0, <1>1, WorkerKnows
  <2>4. NoOrphanWait'
    BY <1>0, <1>1, NoOrphanUser, NoOrphanPush, NoOrphanJanitor, NoOrphanWorker DEF Next
  <2>5. unsafe \subseteq unsafe'
    BY <1>0, <1>1, FaultsStay
  <2>6. "deletedInUse" \notin unsafe' => Counted'
    BY <1>0, <1>1, <2>5, CountedStays DEF Inv
  <2>7. "deletedUnderRequest" \notin unsafe' => RequestsAtMap'
    BY <1>0, <1>1, <2>5, RequestsStay DEF Inv
  <2>8. QED
    BY <2>1, <2>2, <2>3, <2>4, <2>6, <2>7 DEF Inv
<1>2. CASE UNCHANGED vars
  <2> USE DEF vars, mapVars, userVars, janVars, queueVars, workerVars, deviceVars, ghostVars
  <2>1. Types'
    BY <1>0, <1>2 DEF Types
  <2>2. MapInv'
    BY <1>0, <1>2 DEF MapInv, OneEntry, Alive
  <2>3. WorkerInv'
    BY <1>0, <1>2 DEF WorkerInv
  <2>4. NoOrphanWait'
    BY <1>0, <1>2 DEF NoOrphanWait, Alive, PullComing, PushComing, PullUnderWay, PushUnderWay
  <2>5. Counted => Counted'
    BY <1>2, CountedKept DEF Quiet, Alive
  <2>6. RequestsAtMap => RequestsAtMap'
    BY <1>2 DEF RequestsAtMap
  <2>7. QED
    BY <1>2, <2>1, <2>2, <2>3, <2>4, <2>5, <2>6 DEF Inv
<1>3. QED
  BY <1>1, <1>2

\* The inductive invariant of the cache: types, the janitor's hold on the map, the one
\* entry, what requests and users have in hand and how uses are counted.
THEOREM Invariance == Spec => []Inv
BY InitInv, NextInv, PTL DEF Spec

\* FileCache.cpp: every variable of the cache, its users, its requests and its worker keeps
\* its type, and the map never has an entry that is deleted.
THEOREM TypeCorrect == Spec => []TypeOK
<1>1. Inv => TypeOK
  BY DEF Inv, MapInv, Alive, TypeOK
<1>2. QED
  BY <1>1, Invariance, PTL

\* _createCacheEntry, deleteCacheEntry, deleteOldFiles, ~FileCache: however look-ups,
\* creations and deletions interleave, no file has two entries, and so two local copies.
THEOREM OneEntryOnly == Spec => []OneEntry
<1>1. Inv => OneEntry
  BY DEF Inv, MapInv
<1>2. QED
  BY <1>1, Invariance, PTL

\* _asyncPull, _asyncPush and the callbacks: the status says PULLING or PUSHING only while a
\* request is there that will change it and notify who waits.
THEOREM NobodyWaitsInVain == Spec => []NoOrphanWait
<1>1. Inv => NoOrphanWait
  BY DEF Inv
<1>2. QED
  BY <1>1, Invariance, PTL

\* getReadAccess .. endReadAccess, getWriteAccess .. endWriteAccess: the counts the janitor
\* trusts are the accesses under way, unless an entry has been deleted in use.
THEOREM UsesCounted == Spec => []UseCounts
<1>1. Inv => UseCounts
  BY DEF Inv, UseCounts, Counted, Writers, Readers
<1>2. QED
  BY <1>1, Invariance, PTL

-----------------------------------------------------------------------------
(***************************************************************************)
(* What is written is lost in no other way than through the faults the     *)
(* model of the cache names, for any number of threads, operations,        *)
(* rounds, entries and failures of the device.  As long as there was no    *)
(* fault, at most one pull and one push of the file are under way, an      *)
(* access is granted only while the local copy is there, and what is    *)
(* about to be pushed is what was written last.                            *)
(***************************************************************************)

\* The entry in the map, if there is one, and whether a write has yet to mark it dirty.
StatusNow == IF mapped = NoEntry THEN "NONE" ELSE entry[mapped].status
CopyNow   == IF mapped = NoEntry THEN NoFile ELSE entry[mapped].cache
Marking(u) == granted[u] /\ Writing(u) /\ pc[u] \in {"endLookup", "end", "dirty"}
ToMark == \E u \in Users : Marking(u)

\* There is one pull at a time, and the entry is PULLING all the while ...
AboutToPull == {u \in Users : pc[u] = "pullEnq"}
OnePull ==
  /\ \A u, v \in AboutToPull : u = v
  /\ Len(pulls) <= 1
  /\ AboutToPull # {} => pulls = <<>> /\ wpc \notin Pulling
  /\ pulls # <<>> => wpc \notin Pulling
  /\ AboutToPull # {} \/ pulls # <<>> \/ wpc \in Pulling => StatusNow = "PULLING"

\* ... and one push at a time, though the entry can be dirty again meanwhile.
AboutToPush == {a \in Actors : pc[a] \in {"enqPush", "dEnqPush"}}
OnePush ==
  /\ \A a, b \in AboutToPush : a = b
  /\ Len(pushes) <= 1
  /\ AboutToPush # {} => pushes = <<>> /\ wpc \notin Pushing
  /\ pushes # <<>> => wpc \notin Pushing
  /\ AboutToPush # {} \/ pushes # <<>> \/ wpc \in Pushing => StatusNow \in {"PUSHING", "DIRTY"}

\* Who has been granted an access, or waits for one, finds the local copy there.
Here  == {"AVAILABLE", "DIRTY", "PUSHING"}
Known == Status \ {"NONEXISTANT"}
Grant(u) ==
  /\ granted[u] => pc[u] \in {"access", "endLookup", "end", "dirty"} /\ StatusNow \in Here
  /\ pc[u] \in {"pullEnq", "pullTest", "pullGap", "pullSleep", "pullCheck"} => StatusNow \in Known
  /\ pc[u] \in {"pushTest", "pushGap", "pushSleep"} => StatusNow \in Here
  /\ pc[u] = "dirty" => Writing(u)
LocalCopy ==
  /\ StatusNow \in Here => CopyNow # NoFile
  /\ wpc = "pullRead" => device # NoFile
  /\ wpc = "pullDone" /\ good => CopyNow # NoFile
  /\ wpc \in {"pushDelete", "pushCreate"} => ~good

\* What is to be pushed is what was written last, unless the file has been deleted since;
\* and what was written last is on the device or is to be pushed.
Written == StatusNow \in {"DIRTY", "PUSHING"} \/ ToMark
Fresh ==
  /\ Written => CopyNow = latest \/ (device = NoFile /\ latest = NoFile)
  /\ wpc = "pushCreate" => CopyNow = latest
  /\ wpc = "pushDone" /\ good => device = latest \/ ToMark \/ StatusNow = "DIRTY"
  /\ device = latest \/ Written

Faultless == OnePull /\ OnePush /\ (\A u \in Users : Grant(u)) /\ LocalCopy /\ Fresh

WriteInv == Inv /\ (unsafe = {} => Faultless)

-----------------------------------------------------------------------------
\* The invariant says that the write is kept.
LEMMA KeptInv ==
  ASSUME WriteInv PROVE WritesKeptUnlessFaulty
<1> SUFFICES ASSUME unsafe = {} PROVE WriteIsKept
  BY DEF WritesKeptUnlessFaulty
<1>1. Counted /\ Faultless
  BY DEF WriteInv, Inv
<1>2. CASE device = latest
  BY <1>2 DEF WriteIsKept
<1>3. CASE device # latest
  <2>1. Written /\ CopyNow = latest
    BY <1>1, <1>3 DEF Faultless, Fresh
  <2>2. ToMark => mapped # NoEntry /\ WriteToMark(mapped)
    BY <1>1 DEF ToMark, Marking, WriteToMark, Counted, Holds
  <2>3. StatusNow \in {"DIRTY", "PUSHING"} => mapped # NoEntry /\ StatusNow = entry[mapped].status
    BY DEF StatusNow
  <2>4. mapped # NoEntry
    BY <2>1, <2>2, <2>3 DEF Written
  <2>5. QED
    BY <2>1, <2>2, <2>3, <2>4 DEF WriteIsKept, Written, CopyNow
<1>4. QED
  BY <1>2, <1>3

\* What a step does to the entry in the map.
LEMMA NowKept ==
  ASSUME Types, mapped' = mapped
  PROVE  /\ entry' = entry => StatusNow' = StatusNow /\ CopyNow' = CopyNow
         /\ \A s : mapped \in Entries /\ SetStatus(mapped, s)
                     => StatusNow' = s /\ CopyNow' = CopyNow
         /\ \A c : mapped \in Entries /\ entry' = [entry EXCEPT ![mapped].cache = c]
                     => StatusNow' = StatusNow /\ CopyNow' = c
         /\ \A n : /\ mapped \in Entries
                   /\ \/ entry' = [entry EXCEPT ![mapped].writes = n]
                      \/ entry' = [entry EXCEPT ![mapped].reads = n]
                   => StatusNow' = StatusNow /\ CopyNow' = CopyNow
<1>0. entry \in [Entries -> EntryType] /\ mapped \in {NoEntry} \cup Entries /\ NoEntry \notin Entries
  BY BoundsAssumption DEF Types, EntryType, NoEntry, Entries
<1>1. entry' = entry => StatusNow' = StatusNow /\ CopyNow' = CopyNow
  BY DEF StatusNow, CopyNow
<1>2. ASSUME NEW s, mapped \in Entries, SetStatus(mapped, s)
      PROVE  StatusNow' = s /\ CopyNow' = CopyNow
  BY <1>0, <1>2 DEF StatusNow, CopyNow, SetStatus, EntryType
<1>3. ASSUME NEW c, mapped \in Entries, entry' = [entry EXCEPT ![mapped].cache = c]
      PROVE  StatusNow' = StatusNow /\ CopyNow' = c
  BY <1>0, <1>3 DEF StatusNow, CopyNow, EntryType
<1>4. ASSUME NEW n, mapped \in Entries, entry' = [entry EXCEPT ![mapped].writes = n]
      PROVE  StatusNow' = StatusNow /\ CopyNow' = CopyNow
  BY <1>0, <1>4 DEF StatusNow, CopyNow, EntryType
<1>5. ASSUME NEW n, mapped \in Entries, entry' = [entry EXCEPT ![mapped].reads = n]
      PROVE  StatusNow' = StatusNow /\ CopyNow' = CopyNow
  BY <1>0, <1>5 DEF StatusNow, CopyNow, EntryType
<1>6. QED
  BY <1>1, <1>2, <1>3, <1>4, <1>5

\* Nothing changes of what the invariant speaks of.
LEMMA FaultlessSame ==
  ASSUME Faultless, UNCHANGED <<StatusNow, CopyNow, pulls, pushes, device, latest>>,
         \/ wpc' = wpc /\ good' = good
         \/ wpc \in {"pull", "push", "notify"} /\ wpc' \in {"pull", "push", "notify"},
         AboutToPull' = AboutToPull, AboutToPush' = AboutToPush, ToMark' <=> ToMark,
         \A u \in Users : Grant(u)'
  PROVE  Faultless'
<1>1. OnePull' /\ OnePush'
  BY DEF Faultless, OnePull, OnePush, Pulling, Pushing
<1>2. LocalCopy'
  BY DEF Faultless, LocalCopy
<1>3. Fresh'
  BY DEF Faultless, Fresh, Written
<1>4. QED
  BY <1>1, <1>2, <1>3 DEF Faultless

\* What the cache's invariant says as long as there was no fault.
LEMMA NoFault ==
  ASSUME Inv, unsafe = {}
  PROVE  /\ Types /\ MapInv /\ WorkerInv /\ NoOrphanWait /\ Counted /\ RequestsAtMap
         /\ mapped \in {NoEntry} \cup Entries /\ NoEntry \notin Entries
         /\ mapped # NoEntry => Alive(mapped) /\ StatusNow = entry[mapped].status
                                /\ CopyNow = entry[mapped].cache /\ StatusNow \in Status
         /\ mapped = NoEntry => StatusNow = "NONE" /\ StatusNow \notin Status
         /\ \A e : Alive(e) => e = mapped /\ e \in Entries /\ e # NoEntry
         /\ \A u \in Users : Holds(u)
         /\ cur # NoEntry => cur = mapped
         /\ wpc \notin {"pull", "push"} => cur = mapped /\ mapped \in Entries /\ mapped # NoEntry
<1>1. Types /\ MapInv /\ WorkerInv /\ NoOrphanWait /\ Counted /\ RequestsAtMap
  BY DEF Inv
<1>2. mapped \in {NoEntry} \cup Entries /\ NoEntry \notin Entries
  BY <1>1, BoundsAssumption DEF Types, NoEntry, Entries
<1>3. entry \in [Entries -> EntryType]
  BY <1>1 DEF Types, EntryType
<1>4. mapped # NoEntry => /\ Alive(mapped) /\ StatusNow = entry[mapped].status
                          /\ CopyNow = entry[mapped].cache /\ StatusNow \in Status
  BY <1>1, <1>2, <1>3 DEF MapInv, StatusNow, CopyNow, EntryType
<1>5. \A e : Alive(e) => e = mapped /\ e \in Entries /\ e # NoEntry
  BY <1>1, <1>2 DEF MapInv, OneEntry, Alive
<1>6. mapped = NoEntry => StatusNow = "NONE" /\ StatusNow \notin Status
  BY DEF StatusNow, Status
<1>7. QED
  BY <1>1, <1>2, <1>4, <1>5, <1>6 DEF Counted, WorkerInv, RequestsAtMap, Types

\* Once the entry is gone nobody has it in hand and nothing is requested.
LEMMA FaultlessGone ==
  ASSUME Inv', unsafe' = {}, mapped' = NoEntry, \A u \in Users : ~granted'[u], device' = latest'
  PROVE  Faultless'
<1>1. /\ Types' /\ MapInv' /\ WorkerInv' /\ Counted' /\ RequestsAtMap'
      /\ NoEntry \notin Entries
  BY BoundsAssumption DEF Inv, NoEntry, Entries
<1>2. /\ \A u \in Users : pc'[u] \in {"idle", "create", "node"}
      /\ pc'[Janitor] \notin {"enqPush", "dEnqPush"}
  BY <1>1 DEF Counted, Holds, MapInv, Scanning, Deleting
<1>3. pulls' = <<>> /\ pushes' = <<>>
  <2>1. pulls' \in Seq(Entries) /\ pushes' \in Seq(Entries)
    BY <1>1 DEF Types
  <2>2. ASSUME NEW s \in Seq(Entries), s # <<>>, \A e \in Waiting(s) : e = NoEntry PROVE FALSE
    BY <1>1, <2>2, TailWaiting
  <2>3. \A e \in Waiting(pulls') \cup Waiting(pushes') : e = NoEntry
    BY <1>1 DEF RequestsAtMap, Waiting
  <2>4. QED
    BY <2>1, <2>2, <2>3
<1>4. wpc' \in {"pull", "push"}
  BY <1>1 DEF WorkerInv, RequestsAtMap
<1>5. AboutToPull' = {} /\ AboutToPush' = {} /\ ~ToMark' /\ StatusNow' = "NONE"
  BY <1>2 DEF AboutToPull, AboutToPush, Actors, ToMark, Marking, StatusNow
<1>6. Len(<<>>) = 0
  BY EmptySeq
<1>7. OnePull' /\ OnePush'
  BY <1>3, <1>4, <1>5, <1>6 DEF OnePull, OnePush, Pulling, Pushing
<1>8. \A u \in Users : Grant(u)'
  BY <1>2 DEF Grant
<1>9. LocalCopy' /\ Fresh'
  BY <1>4, <1>5 DEF LocalCopy, Fresh, Written, Here
<1>10. QED
  BY <1>7, <1>8, <1>9 DEF Faultless

-----------------------------------------------------------------------------
(* The steps of users.                                                     *)

\* What a step of a user leaves alone: what others are granted and about to do.
LEMMA OthersStay ==
  ASSUME Types, NEW u \in Users, Call(u) \/ UserStep(u), \A v \in Users : Grant(v)
  PROVE  /\ \A v \in Users \ {u} : /\ pc'[v] = pc[v] /\ granted'[v] = granted[v]
                                   /\ Marking(v)' <=> Marking(v)
         /\ AboutToPush' = AboutToPush
         /\ pc[u] # "pullEnq" /\ pc'[u] # "pullEnq" => AboutToPull' = AboutToPull
         /\ UNCHANGED <<pushes, wpc, cur, good>>
         /\ (StatusNow \in Here => StatusNow' \in Here) /\ (StatusNow \in Known => StatusNow' \in Known)
              => \A v \in Users \ {u} : Grant(v)'
<1>1. \A v \in Users \ {u} : /\ pc'[v] = pc[v] /\ granted'[v] = granted[v] /\ op'[v] = op[v]
  BY ActorsAssumption, UserLeaves DEF Actors
<1>2. \A v \in Users \ {u} : (Marking(v)' <=> Marking(v)) /\ (Writing(v)' <=> Writing(v))
  BY <1>1 DEF Marking, Writing
<1>3. UNCHANGED <<pushes, wpc, cur, good>> /\ pc[u] \notin {"enqPush", "dEnqPush"}
  BY UserStatus DEF workerVars
<1>4. pc'[u] \notin {"enqPush", "dEnqPush"}
  <2>a. ASSUME NEW p \in UserControl, Goto(u, p) PROVE pc'[u] = p
    BY <2>a, UserMoves
  <2>1. CASE \E o \in Operations : BeginAccess(u, o)
    BY <2>1, LookupsDo DEF Found, BeginAccess
  <2>2. CASE Flush(u)
    BY <2>2, LookupsDo DEF Found, Flush
  <2>3. CASE EndLookup(u)
    BY <2>3, LookupsDo DEF Found, EndLookup
  <2>4. CASE CreateForBegin(u) \/ CreateForEnd(u)
    BY <2>4, CreateCacheEntryDoes DEF CreateForBegin, CreateForEnd, UserControl
  <2>5. CASE GetAccess(u) \/ AsyncPull(u) \/ EnqueuePull(u) \/ AwaitPull(u) \/ CheckPull(u) \/ AwaitPush(u)
    BY <2>5, <2>a DEF GetAccess, AsyncPull, EnqueuePull, AwaitPull, CheckPull, AwaitPush, UserControl
  <2>6. CASE CountAccess(u) \/ Access(u) \/ EndAccess(u) \/ MarkDirty(u) \/ DeleteNode(u)
             \/ DeleteCacheEntry(u)
    BY <2>6, <2>a DEF CountAccess, Access, EndAccess, MarkDirty, DeleteNode, DeleteCacheEntry,
       UserControl
  <2>7. QED
    BY <2>1, <2>2, <2>3, <2>4, <2>5, <2>6 DEF Call, UserStep
<1>5. AboutToPush' = AboutToPush
  <2>1. \A a \in Actors : pc'[a] \in {"enqPush", "dEnqPush"} <=> pc[a] \in {"enqPush", "dEnqPush"}
    BY <1>3, <1>4, UserLeaves
  <2>2. QED
    BY <2>1 DEF AboutToPush
<1>6. pc[u] # "pullEnq" /\ pc'[u] # "pullEnq" => AboutToPull' = AboutToPull
  BY <1>1 DEF AboutToPull
<1>7. (StatusNow \in Here => StatusNow' \in Here) /\ (StatusNow \in Known => StatusNow' \in Known)
        => \A v \in Users \ {u} : Grant(v)'
  BY <1>1, <1>2 DEF Grant
<1>8. QED
  BY <1>1, <1>2, <1>3, <1>5, <1>6, <1>7

\* A step that changes neither the entry's status nor its copy, nor what is marked.
LEMMA UserSame ==
  ASSUME Types, Faultless, NEW u \in Users, Call(u) \/ UserStep(u),
         UNCHANGED <<StatusNow, CopyNow, pulls, device, latest>>,
         pc[u] # "pullEnq", pc'[u] # "pullEnq", Marking(u)' <=> Marking(u), Grant(u)'
  PROVE  Faultless'
<1>1. \A v \in Users : Grant(v)
  BY DEF Faultless
<1>2. /\ \A v \in Users \ {u} : Marking(v)' <=> Marking(v)
      /\ \A v \in Users \ {u} : Grant(v)'
      /\ AboutToPull' = AboutToPull /\ AboutToPush' = AboutToPush
      /\ UNCHANGED <<pushes, wpc, good>>
  BY <1>1, OthersStay
<1>3. ToMark' <=> ToMark
  BY <1>2 DEF ToMark
<1>4. \A v \in Users : Grant(v)'
  BY <1>2
<1>5. QED
  BY <1>2, <1>3, <1>4, FaultlessSame

\* The steps that look and count.
LEMMA FaultlessLook ==
  ASSUME Inv, unsafe = {}, unsafe' = {}, Faultless, NEW u \in Users,
         \/ \E o \in Operations : BeginAccess(u, o)
         \/ Flush(u) \/ CountAccess(u) \/ GetAccess(u) \/ AwaitPull(u) \/ CheckPull(u) \/ AwaitPush(u)
         \/ EndLookup(u) \/ EndAccess(u)
  PROVE  Faultless'
<1> USE DEF mapVars, userVars, queueVars, deviceVars, ghostVars
<1>0. /\ Types /\ granted \in [Users -> BOOLEAN] /\ op \in [Users -> Operations]
      /\ Grant(u) /\ Holds(u) /\ (Call(u) \/ UserStep(u))
      /\ entry \in [Entries -> EntryType]
      /\ Alive(ptr[u]) => /\ ptr[u] = mapped /\ mapped \in Entries /\ mapped # NoEntry
                          /\ entry[ptr[u]].status = StatusNow /\ StatusNow \in Status
  BY NoFault DEF Types, EntryType, Faultless, Call, UserStep
<1>a. ASSUME NEW p \in UserControl, Goto(u, p) PROVE pc'[u] = p
  BY <1>0, <1>a, UserMoves
<1>b. mapped' = mapped /\ entry' = entry => UNCHANGED <<StatusNow, CopyNow>>
  BY <1>0, NowKept
<1>1. CASE Flush(u) \/ \E o \in Operations : BeginAccess(u, o)
  <2>1. /\ pc[u] = "idle" /\ pc'[u] \in {"count", "create", "ifDirty", "idle"}
        /\ UNCHANGED <<mapped, entry, granted, pulls, device, latest>>
    <3>1. CASE Flush(u)
      BY <1>0, <3>1, LookupsDo DEF Found, Flush
    <3>2. CASE \E o \in Operations : BeginAccess(u, o)
      <4>1. PICK o \in Operations : BeginAccess(u, o)
        BY <3>2
      <4>2. pc'[u] \in {"count", "create"}
        <5>1. CacheAccess(u, "count", "create") /\ {"count", "create"} \subseteq UserControl
          BY <4>1 DEF BeginAccess, UserControl
        <5>2. QED
          BY <1>0, <5>1, CacheAccessDoes
      <4>3. QED
        BY <4>1, <4>2 DEF BeginAccess
    <3>3. QED
      BY <1>1, <3>1, <3>2
  <2>2. Grant(u)' /\ (Marking(u)' <=> Marking(u))
    BY <1>0, <2>1 DEF Grant, Marking
  <2>3. QED
    BY <1>0, <1>b, <2>1, <2>2, UserSame
<1>2. CASE CountAccess(u) \/ EndAccess(u)
  <2>1. /\ UNCHANGED <<mapped, op, pulls, device, latest>> /\ Alive(ptr[u])
        /\ \E n : \/ entry' = [entry EXCEPT ![mapped].writes = n]
                  \/ entry' = [entry EXCEPT ![mapped].reads = n]
    <3>1. CASE CountAccess(u)
      BY <1>0, <3>1 DEF CountAccess
    <3>2. CASE EndAccess(u)
      BY <1>0, <3>2 DEF EndAccess, Release
    <3>3. QED
      BY <1>2, <3>1, <3>2
  <2>2. UNCHANGED <<StatusNow, CopyNow>>
    BY <1>0, <2>1, NowKept
  <2>3. \/ pc[u] = "count" /\ pc'[u] = "status" /\ granted' = granted
        \/ pc[u] = "end" /\ pc'[u] = "dirty" /\ granted' = granted /\ Writing(u)
        \/ pc[u] = "end" /\ pc'[u] = "idle" /\ granted'[u] = FALSE /\ ~Writing(u)
    BY <1>0, <1>2, <1>a DEF CountAccess, EndAccess, UserControl
  <2>4. Grant(u)' /\ (Marking(u)' <=> Marking(u))
    BY <1>0, <2>1, <2>2, <2>3 DEF Grant, Marking, Writing
  <2>5. QED
    BY <1>0, <2>1, <2>2, <2>3, <2>4, UserSame
<1>3. CASE GetAccess(u) \/ AwaitPull(u) \/ CheckPull(u) \/ AwaitPush(u)
  <2>1. UNCHANGED <<mapped, entry, op, pulls, device, latest>> /\ Alive(ptr[u])
    BY <1>3 DEF GetAccess, AwaitPull, CheckPull, AwaitPush
  <2>2. UNCHANGED <<StatusNow, CopyNow>>
    BY <1>b, <2>1
  <2>3. \/ granted' = granted /\ pc[u] = "status" /\ pc'[u] = "pushTest" /\ StatusNow = "PUSHING"
        \/ granted' = granted /\ pc[u] = "status" /\ pc'[u] = "pull"
        \/ granted' = granted /\ pc[u] = "pullTest" /\ pc'[u] \in {"pullGap", "pullCheck"}
        \/ granted' = granted /\ pc[u] = "pushTest" /\ pc'[u] = "pushGap"
        \/ /\ pc[u] = "status" /\ pc'[u] = "access" /\ StatusNow \in Here
        \/ /\ pc[u] = "pullCheck" /\ pc'[u] = "access" /\ StatusNow # "PULLING"
           /\ granted'[u] = (StatusNow # "FAIL")
        \/ pc[u] = "pushTest" /\ pc'[u] = "access"
    <3>1. CASE GetAccess(u)
      BY <1>0, <1>a, <2>1, <3>1 DEF GetAccess, UserControl, Here
    <3>2. CASE AwaitPull(u)
      BY <1>0, <1>a, <2>1, <3>2 DEF AwaitPull, UserControl
    <3>3. CASE AwaitPush(u)
      BY <1>0, <1>a, <2>1, <3>3 DEF AwaitPush, UserControl
    <3>4. CASE CheckPull(u)
      BY <1>0, <1>a, <2>1, <3>4 DEF CheckPull, UserControl
    <3>5. QED
      BY <1>3, <3>1, <3>2, <3>3, <3>4
  <2>4. Grant(u)' /\ (Marking(u)' <=> Marking(u))
    BY <1>0, <2>1, <2>2, <2>3 DEF Grant, Marking, Here, Known, Status
  <2>5. pc[u] # "pullEnq" /\ pc'[u] # "pullEnq"
    BY <2>3
  <2>6. QED
    BY <1>0, <2>1, <2>2, <2>4, <2>5, UserSame
<1>4. CASE EndLookup(u)
  <2>1. /\ pc[u] = "endLookup" /\ pc'[u] = "end"
        /\ UNCHANGED <<mapped, entry, op, granted, pulls, device, latest>>
    BY <1>0, <1>4, LookupsDo DEF Found, EndLookup, Holds
  <2>2. UNCHANGED <<StatusNow, CopyNow>>
    BY <1>b, <2>1
  <2>3. Grant(u)' /\ (Marking(u)' <=> Marking(u))
    BY <1>0, <2>1, <2>2 DEF Grant, Marking, Writing
  <2>4. QED
    BY <1>0, <2>1, <2>2, <2>3, UserSame
<1>5. QED
  BY <1>1, <1>2, <1>3, <1>4

\* The steps that make an entry, pull it, work on it and mark it.
LEMMA FaultlessWork ==
  ASSUME Inv, Inv', unsafe = {}, unsafe' = {}, Faultless, NEW u \in Users,
         \/ CreateForBegin(u) \/ CreateForEnd(u) \/ AsyncPull(u) \/ EnqueuePull(u)
         \/ Access(u) \/ MarkDirty(u)
  PROVE  Faultless'
<1> USE DEF mapVars, userVars, queueVars, deviceVars, ghostVars
<1>0. /\ Types /\ granted \in [Users -> BOOLEAN] /\ op \in [Users -> Operations]
      /\ Grant(u) /\ Holds(u) /\ (Call(u) \/ UserStep(u)) /\ \A v \in Users : Grant(v)
      /\ entry \in [Entries -> EntryType]
      /\ Alive(ptr[u]) => /\ ptr[u] = mapped /\ mapped \in Entries /\ mapped # NoEntry
                          /\ entry[ptr[u]].status = StatusNow /\ StatusNow \in Status
  BY NoFault DEF Types, EntryType, Faultless, UserStep
<1>a. ASSUME NEW p \in UserControl, Goto(u, p) PROVE pc'[u] = p
  BY <1>0, <1>a, UserMoves
<1>b. mapped' = mapped /\ entry' = entry => UNCHANGED <<StatusNow, CopyNow>>
  BY <1>0, NowKept
<1>c. /\ OnePull /\ OnePush /\ LocalCopy /\ Fresh
  BY DEF Faultless
<1>d. ToMark => StatusNow \in Here
  BY <1>0 DEF ToMark, Marking, Grant
<1>1. CASE CreateForBegin(u) \/ CreateForEnd(u)
  <2>1. CreateForBegin(u)
    BY <1>0, <1>1 DEF CreateForEnd, Holds
  <2>2. /\ pc[u] = "create" /\ pc'[u] = "count" /\ mapped' \in Entries
        /\ mapped # NoEntry => mapped' = mapped /\ entry' = entry
        /\ mapped = NoEntry => Only(mapped', NewEntry)
        /\ UNCHANGED <<granted, op, pulls, device, latest>>
    BY <1>0, <2>1, CreateCacheEntryDoes DEF CreateForBegin, UserControl
  <2>3. ~granted[u] /\ ~granted'[u]
    BY <1>0, <2>2 DEF Grant
  <2>4. Grant(u)' /\ (Marking(u)' <=> Marking(u))
    BY <1>0, <2>2, <2>3 DEF Grant, Marking
  <2>5. CASE mapped # NoEntry
    BY <1>0, <1>b, <2>2, <2>4, <2>5, UserSame
  <2>6. CASE mapped = NoEntry
    <3>1. StatusNow = "NONE" /\ StatusNow \notin Here /\ StatusNow \notin Known
      BY <2>6 DEF StatusNow, Here, Known, Status
    <3>2. StatusNow' = "NONEXISTANT"
      BY <2>2, <2>6, NoFault DEF StatusNow, Only, NewEntry
    <3>3. AboutToPull' = AboutToPull /\ AboutToPush' = AboutToPush /\ UNCHANGED <<pushes, wpc, good>>
      BY <1>0, <2>2, OthersStay
    <3>4. \A v \in Users : Grant(v)'
      BY <1>0, <2>4, <3>1, OthersStay
    <3>5. ~ToMark /\ ~ToMark'
      <4>1. ~ToMark
        BY <1>d, <3>1
      <4>2. \A v \in Users : Marking(v)' <=> Marking(v)
        BY <1>0, <2>4, OthersStay
      <4>3. QED
        BY <4>1, <4>2 DEF ToMark
    <3>6. /\ AboutToPull = {} /\ pulls = <<>> /\ wpc \notin Pulling
          /\ AboutToPush = {} /\ pushes = <<>> /\ wpc \notin Pushing
      BY <1>c, <3>1 DEF OnePull, OnePush
    <3>7. OnePull' /\ OnePush'
      BY <1>c, <2>2, <3>3, <3>6 DEF OnePull, OnePush
    <3>8. LocalCopy' /\ Fresh'
      BY <1>c, <2>2, <3>1, <3>2, <3>3, <3>5, <3>6
      DEF LocalCopy, Fresh, Written, Here, Pulling, Pushing
    <3>9. QED
      BY <3>4, <3>7, <3>8 DEF Faultless
  <2>7. QED
    BY <2>5, <2>6
<1>2. CASE AsyncPull(u)
  <2>0. /\ pc[u] = "pull" /\ Alive(ptr[u]) /\ UNCHANGED <<mapped, granted, op, pulls, device, latest>>
        /\ ~granted[u]
    BY <1>0, <1>2 DEF AsyncPull, Grant
  <2>1. CASE StatusNow = "PULLING"
    <3>1. pc'[u] = "pullTest" /\ entry' = entry
      BY <1>0, <1>2, <1>a, <2>0, <2>1 DEF AsyncPull, UserControl
    <3>2. StatusNow' = "PULLING" /\ CopyNow' = CopyNow
      BY <1>b, <2>0, <2>1, <3>1
    <3>3. Grant(u)' /\ (Marking(u)' <=> Marking(u))
      BY <2>0, <3>1, <3>2 DEF Grant, Marking, Known, Status
    <3>4. QED
      BY <1>0, <2>0, <2>1, <3>1, <3>2, <3>3, UserSame
  <2>2. CASE StatusNow # "PULLING"
    <3>1. /\ SetStatus(ptr[u], "PULLING") /\ pc'[u] = "pullEnq"
          /\ StatusNow \in {"NONEXISTANT", "FAIL"}
      BY <1>0, <1>2, <1>a, <2>0, <2>2 DEF AsyncPull, UserControl
    <3>2. StatusNow' = "PULLING" /\ CopyNow' = CopyNow
      BY <1>0, <2>0, <3>1, NowKept
    <3>3. /\ AboutToPush' = AboutToPush /\ UNCHANGED <<pushes, wpc, good>>
          /\ \A v \in Users \ {u} : Grant(v)' /\ (Marking(v)' <=> Marking(v)) /\ pc'[v] = pc[v]
      BY <1>0, <3>1, <3>2, OthersStay DEF Here, Known, Status
    <3>4. Grant(u)' /\ ~Marking(u)'
      BY <2>0, <3>1, <3>2 DEF Grant, Marking, Known, Status
    <3>5. ~ToMark /\ ~ToMark'
      <4>1. ~ToMark
        BY <1>d, <3>1 DEF Here
      <4>2. QED
        BY <3>3, <3>4, <4>1 DEF ToMark
    <3>6. /\ AboutToPull = {} /\ pulls = <<>> /\ wpc \notin Pulling
          /\ AboutToPush = {} /\ pushes = <<>> /\ wpc \notin Pushing
      BY <1>c, <3>1 DEF OnePull, OnePush
    <3>7. AboutToPull' = {u}
      BY <3>1, <3>3, <3>6 DEF AboutToPull
    <3>8. OnePull' /\ OnePush'
      BY <1>c, <2>0, <3>2, <3>3, <3>6, <3>7 DEF OnePull, OnePush
    <3>9. LocalCopy' /\ Fresh'
      BY <1>c, <2>0, <3>1, <3>2, <3>3, <3>5, <3>6
      DEF LocalCopy, Fresh, Written, Here, Pulling, Pushing
    <3>10. QED
      BY <3>3, <3>4, <3>8, <3>9 DEF Faultless
  <2>3. QED
    BY <2>1, <2>2
<1>3. CASE EnqueuePull(u)
  <2>0. /\ pc[u] = "pullEnq" /\ pc'[u] = "pullTest" /\ Alive(ptr[u])
        /\ pulls' = Append(pulls, ptr[u]) /\ UNCHANGED <<mapped, entry, granted, op, device, latest>>
        /\ ~granted[u] /\ StatusNow \in Known
    BY <1>0, <1>3, <1>a DEF EnqueuePull, Grant, UserControl
  <2>1. UNCHANGED <<StatusNow, CopyNow>>
    BY <1>b, <2>0
  <2>2. /\ AboutToPush' = AboutToPush /\ UNCHANGED <<pushes, wpc, good>>
        /\ \A v \in Users \ {u} : Grant(v)' /\ (Marking(v)' <=> Marking(v)) /\ pc'[v] = pc[v]
    BY <1>0, <2>1, OthersStay
  <2>3. Grant(u)' /\ ~Marking(u)' /\ ~Marking(u)
    BY <2>0, <2>1 DEF Grant, Marking
  <2>4. ToMark' <=> ToMark
    BY <2>2, <2>3 DEF ToMark
  <2>5. AboutToPull = {u} /\ AboutToPull' = {} /\ pulls = <<>> /\ wpc \notin Pulling
        /\ StatusNow = "PULLING"
    BY <1>c, <2>0, <2>2 DEF AboutToPull, OnePull
  <2>6. Len(pulls') = 1
    <3>1. pulls \in Seq(Entries) /\ ptr[u] \in Entries
      BY <1>0, <2>0 DEF Types
    <3>2. Len(<<>>) = 0
      BY EmptySeq
    <3>3. QED
      BY <2>0, <2>5, <3>1, <3>2, AppendWaiting
  <2>7. OnePull' /\ OnePush'
    BY <1>c, <2>1, <2>2, <2>5, <2>6 DEF OnePull, OnePush
  <2>8. LocalCopy' /\ Fresh'
    BY <1>c, <2>0, <2>1, <2>2, <2>4 DEF LocalCopy, Fresh, Written
  <2>9. QED
    BY <2>2, <2>3, <2>7, <2>8 DEF Faultless
<1>4. CASE Access(u)
  <2>0. /\ pc[u] = "access" /\ pc'[u] = "endLookup" /\ UNCHANGED <<mapped, granted, op, pulls, device>>
        /\ ptr[u] = mapped /\ mapped \in Entries /\ mapped # NoEntry
        /\ ~Marking(u) /\ (Writing(u)' <=> Writing(u))
        /\ CopyNow = entry[mapped].cache
    BY <1>0, <1>4, <1>a, NoFault DEF Access, Holds, UserControl, Marking, Writing, CopyNow
  <2>1. CASE ~granted[u] \/ ~Writing(u)
    <3>1. UNCHANGED <<entry, latest>>
      BY <1>4, <2>1 DEF Access, Writing
    <3>2. UNCHANGED <<StatusNow, CopyNow>>
      BY <1>b, <2>0, <3>1
    <3>3. Grant(u)' /\ ~Marking(u)'
      BY <1>0, <2>0, <2>1, <3>2 DEF Grant, Marking
    <3>4. QED
      BY <1>0, <2>0, <3>1, <3>2, <3>3, UserSame
  <2>2. CASE granted[u] /\ Writing(u)
    <3>1. StatusNow \in Here /\ CopyNow # NoFile
      BY <1>0, <1>c, <2>2 DEF Grant, LocalCopy
    <3>2. PICK c \in {Empty, FreshVersion} : entry' = [entry EXCEPT ![mapped].cache = c] /\ latest' = c
      BY <1>4, <2>0, <2>2, <3>1 DEF Access, Writing
    <3>3. c # NoFile
      BY <1>0, FreshVersionExists DEF Versions, Empty, NoFile
    <3>4. StatusNow' = StatusNow /\ CopyNow' = c
      BY <1>0, <2>0, <3>2, NowKept
    <3>5. /\ AboutToPush' = AboutToPush /\ AboutToPull' = AboutToPull /\ UNCHANGED <<pushes, wpc, good>>
          /\ \A v \in Users \ {u} : Grant(v)'
      BY <1>0, <2>0, <3>4, OthersStay
    <3>6. Grant(u)' /\ ToMark'
      BY <1>0, <2>0, <2>2, <3>1, <3>4 DEF Grant, ToMark, Marking
    <3>7. OnePull' /\ OnePush'
      BY <1>c, <2>0, <3>4, <3>5 DEF OnePull, OnePush
    <3>8. LocalCopy' /\ Fresh'
      BY <1>c, <2>0, <3>2, <3>3, <3>4, <3>5, <3>6 DEF LocalCopy, Fresh, Written
    <3>9. QED
      BY <3>5, <3>6, <3>7, <3>8 DEF Faultless
  <2>3. QED
    BY <2>1, <2>2
<1>5. CASE MarkDirty(u)
  <2>0. /\ pc[u] = "dirty" /\ pc'[u] = "idle" /\ Alive(ptr[u])
        /\ SetStatus(ptr[u], "DIRTY") /\ granted[u] /\ granted'[u] = FALSE
        /\ UNCHANGED <<mapped, op, pulls, device, latest>>
    BY <1>0, <1>5, <1>a DEF MarkDirty, UserControl
  <2>1. StatusNow \in Here /\ ToMark
    BY <1>0, <2>0 DEF Grant, ToMark, Marking
  <2>2. StatusNow' = "DIRTY" /\ CopyNow' = CopyNow
    BY <1>0, <2>0, NowKept
  <2>3. /\ AboutToPush' = AboutToPush /\ AboutToPull' = AboutToPull /\ UNCHANGED <<pushes, wpc, good>>
        /\ \A v \in Users \ {u} : Grant(v)'
    BY <1>0, <2>0, <2>2, OthersStay DEF Here, Known, Status
  <2>4. Grant(u)'
    BY <2>0 DEF Grant
  <2>5. AboutToPull = {} /\ pulls = <<>> /\ wpc \notin Pulling
    BY <1>c, <2>1 DEF OnePull, Here
  <2>6. OnePull' /\ OnePush'
    BY <1>c, <2>0, <2>2, <2>3, <2>5 DEF OnePull, OnePush
  <2>7. LocalCopy' /\ Fresh'
    BY <1>c, <2>0, <2>1, <2>2, <2>3 DEF LocalCopy, Fresh, Written
  <2>8. QED
    BY <2>3, <2>4, <2>6, <2>7 DEF Faultless
<1>6. QED
  BY <1>1, <1>2, <1>3, <1>4, <1>5

\* The steps that delete.
LEMMA FaultlessDelete ==
  ASSUME Inv, Inv', unsafe = {}, unsafe' = {}, Faultless, NEW u \in Users,
         DeleteCacheEntry(u) \/ DeleteNode(u)
  PROVE  Faultless'
<1> USE DEF mapVars, userVars, queueVars, deviceVars, ghostVars
<1>0. /\ Types /\ Grant(u) /\ Holds(u) /\ (Call(u) \/ UserStep(u)) /\ \A v \in Users : Grant(v)
  BY NoFault DEF Faultless, Call, UserStep
<1>a. ASSUME NEW p \in UserControl, Goto(u, p) PROVE pc'[u] = p
  BY <1>0, <1>a, UserMoves
<1>c. /\ OnePull /\ OnePush /\ LocalCopy /\ Fresh
  BY DEF Faultless
<1>1. CASE DeleteCacheEntry(u)
  <2>1. mapped' = NoEntry /\ device' = latest' /\ granted' = granted
    BY <1>1 DEF DeleteCacheEntry
  <2>2. \A v \in Users : ~granted'[v]
    <3>1. /\ \A v \in Users \ {u} : pc'[v] = pc[v]
          /\ pc[u] = "idle"
      BY <1>0, <1>1, OthersStay DEF DeleteCacheEntry
    <3>2. \A v \in Users : pc'[v] \in {"idle", "create", "node"}
      <4>1. Counted'
        BY DEF Inv
      <4>2. QED
        BY <2>1, <4>1 DEF Counted, Holds
    <3>3. QED
      BY <1>0, <2>1, <3>1, <3>2 DEF Grant
  <2>3. QED
    BY <2>1, <2>2, FaultlessGone
<1>2. CASE DeleteNode(u)
  <2>1. /\ pc[u] = "node" /\ pc'[u] = "idle" /\ wpc = "pull"
        /\ UNCHANGED <<mapped, entry, granted, op, pulls>>
    BY <1>0, <1>2, <1>a DEF DeleteNode, UserControl
  <2>2. UNCHANGED <<StatusNow, CopyNow>>
    BY <1>0, <2>1, NowKept
  <2>3. Grant(u)' /\ (Marking(u)' <=> Marking(u))
    BY <1>0, <2>1, <2>2 DEF Grant, Marking
  <2>4. CASE UNCHANGED <<device, latest>>
    BY <1>0, <2>1, <2>2, <2>3, <2>4, UserSame
  <2>5. CASE device' = NoFile /\ latest' = NoFile
    <3>1. /\ \A v \in Users \ {u} : Grant(v)' /\ (Marking(v)' <=> Marking(v))
          /\ AboutToPull' = AboutToPull /\ AboutToPush' = AboutToPush
          /\ UNCHANGED <<pushes, wpc, good>>
      BY <1>0, <2>1, <2>2, OthersStay
    <3>2. OnePull' /\ OnePush'
      BY <1>c, <2>1, <2>2, <3>1 DEF OnePull, OnePush
    <3>3. LocalCopy' /\ Fresh'
      BY <1>c, <2>1, <2>2, <2>5, <3>1 DEF LocalCopy, Fresh
    <3>4. QED
      BY <2>3, <3>1, <3>2, <3>3 DEF Faultless
  <2>6. QED
    BY <1>2, <2>4, <2>5 DEF DeleteNode
<1>3. QED
  BY <1>1, <1>2

-----------------------------------------------------------------------------
(* Pushes, and the janitor.                                                *)

LEMMA FaultlessPush ==
  ASSUME Inv, Inv', unsafe = {}, unsafe' = {}, Faultless, NEW a \in Actors,
         PushStep(a) \/ SpuriousWakeup(a)
  PROVE  Faultless'
<1> USE DEF mapVars, userVars, queueVars, workerVars, deviceVars, ghostVars
<1>0. /\ Types /\ MapInv /\ RequestsAtMap /\ \A v \in Users : Grant(v) /\ Holds(v)
      /\ pc \in [Actors -> UserControl \cup JanitorControl]
      /\ \A v \in Users : v \in Actors /\ v # Janitor
      /\ a # Janitor => a \in Users
      /\ Alive(ptr[a]) => /\ ptr[a] = mapped /\ mapped \in Entries /\ mapped # NoEntry
                          /\ entry[ptr[a]].status = StatusNow /\ StatusNow \in Status
  BY ActorsAssumption, NoFault DEF Types, Actors, Faultless
<1>c. OnePull /\ OnePush /\ LocalCopy /\ Fresh
  BY DEF Faultless
<1>1. /\ UNCHANGED <<mapped, op, granted, pulls, wpc, cur, good, device, latest>>
      /\ \A b \in Actors \ {a} : pc'[b] = pc[b]
  BY <1>0, PushLeaves
\* Where a can go: a user that pushes has not been granted an access.
<1>2. /\ pc[a] # "pullEnq" /\ pc'[a] # "pullEnq"
      /\ pc[a] \in {"enqPush", "dEnqPush"} => EnqueuePush(a)
      /\ pc'[a] \in {"enqPush", "dEnqPush"} => AsyncPush(a) /\ entry[ptr[a]].status # "PUSHING"
      /\ a \in Users => \/ pc[a] \in {"ifDirty", "dIfDirty", "setPush", "dSetPush", "enqPush", "dEnqPush"}
                           /\ pc'[a] \in {"setPush", "dSetPush", "enqPush", "dEnqPush", "idle"}
                        \/ pc[a] \in {"pullGap", "pullSleep"} /\ pc'[a] \in {"pullSleep", "pullTest"}
                        \/ pc[a] \in {"pushGap", "pushSleep"} /\ pc'[a] \in {"pushSleep", "pushTest"}
                        \/ pc[a] \in {"dGap", "dSleep"} /\ pc'[a] \in {"dSleep", "dTest"}
  <2>a. ASSUME NEW p, Goto(a, p) PROVE pc'[a] = p
    BY <1>0, <2>a DEF Goto
  <2>b. Done(a) => /\ a \in Users => pc'[a] = "idle"
                   /\ pc'[a] \in {"idle", "dTest", "mark"}
    BY <1>0, <2>a DEF Done, AfterPush
  <2>1. CASE PushIfDirty(a)
    BY <2>1, <2>a, <2>b DEF PushIfDirty
  <2>2. CASE AsyncPush(a)
    BY <2>2, <2>a, <2>b DEF AsyncPush
  <2>3. CASE EnqueuePush(a)
    BY <2>3, <2>b DEF EnqueuePush
  <2>4. CASE FallAsleep(a)
    BY <2>4, <2>a DEF FallAsleep
  <2>5. CASE SpuriousWakeup(a)
    BY <2>5, <2>a, WokenDoes DEF SpuriousWakeup
  <2>6. QED
    BY <2>1, <2>2, <2>3, <2>4, <2>5 DEF PushStep
<1>3. AboutToPull' = AboutToPull
  BY <1>0, <1>1, <1>2 DEF AboutToPull
<1>4. ToMark' <=> ToMark
  <2>1. \A v \in Users : Marking(v)' <=> Marking(v)
    BY <1>0, <1>1, <1>2 DEF Marking, Writing
  <2>2. QED
    BY <2>1 DEF ToMark
<1>5. ASSUME StatusNow \in Here => StatusNow' \in Here, StatusNow \in Known => StatusNow' \in Known
      PROVE  \A v \in Users : Grant(v)'
  <2>1. ASSUME NEW v \in Users, v # a PROVE Grant(v)'
    BY <1>0, <1>1, <1>5, <2>1 DEF Grant, Writing
  <2>2. ASSUME a \in Users PROVE Grant(a)'
    <3>1. Grant(a)
      BY <1>0, <2>2
    <3>2. QED
      BY <1>0, <1>1, <1>2, <1>5, <2>2, <3>1 DEF Grant, Writing
  <2>3. QED
    BY <2>1, <2>2
<1>6. CASE AsyncPush(a) /\ entry[ptr[a]].status # "PUSHING"
  <2>1. /\ Alive(ptr[a]) /\ pc[a] \in {"setPush", "dSetPush"} /\ pc'[a] \in {"enqPush", "dEnqPush"}
        /\ SetStatus(mapped, "PUSHING") /\ pushes' = pushes
        /\ StatusNow = "DIRTY" /\ ~PushComing(mapped)
    BY <1>0, <1>6 DEF AsyncPush, Goto
  <2>2. StatusNow' = "PUSHING" /\ CopyNow' = CopyNow
    BY <1>0, <1>1, <2>1, NowKept
  <2>3. AboutToPush = {} /\ pushes = <<>> /\ wpc \notin Pushing
    <3>1. \A b \in AboutToPush : ptr[b] = mapped
      <4>1. ASSUME NEW b \in Users, pc[b] \in {"enqPush", "dEnqPush"} PROVE ptr[b] = mapped
        BY <1>0, <4>1 DEF Holds
      <4>2. pc[Janitor] \in {"enqPush", "dEnqPush"} => ptr[Janitor] = mapped
        BY <1>0 DEF MapInv, Scanning, Deleting
      <4>3. QED
        BY <4>1, <4>2 DEF AboutToPush, Actors
    <3>2. AboutToPush = {} /\ ~PushUnderWay(mapped)
      BY <2>1, <3>1 DEF PushComing, AboutToPush
    <3>3. Waiting(pushes) = {}
      BY <1>0, <3>2, UnderWay DEF RequestsAtMap
    <3>4. pushes = <<>>
      BY <1>0, <3>3, TailWaiting DEF Types
    <3>5. wpc \in Pushing => cur = mapped
      BY NoFault DEF Pushing
    <3>6. QED
      BY <3>2, <3>4, <3>5, UnderWay
  <2>4. AboutToPush' = {a}
    BY <1>1, <2>1, <2>3 DEF AboutToPush
  <2>5. OnePull' /\ OnePush'
    BY <1>c, <1>1, <1>3, <2>1, <2>2, <2>3, <2>4 DEF OnePull, OnePush
  <2>6. LocalCopy' /\ Fresh'
    BY <1>c, <1>1, <1>4, <2>1, <2>2, <2>3 DEF LocalCopy, Fresh, Written, Here, Pushing
  <2>7. QED
    BY <1>5, <2>1, <2>2, <2>5, <2>6 DEF Faultless, Here, Known, Status
<1>7. CASE EnqueuePush(a)
  <2>1. /\ Alive(ptr[a]) /\ pc[a] \in {"enqPush", "dEnqPush"} /\ pc'[a] \notin {"enqPush", "dEnqPush"}
        /\ pushes' = Append(pushes, ptr[a]) /\ entry' = entry
    BY <1>2, <1>7 DEF EnqueuePush, AsyncPush
  <2>2. UNCHANGED <<StatusNow, CopyNow>>
    BY <1>0, <1>1, <2>1, NowKept
  <2>3. a \in AboutToPush /\ pushes = <<>> /\ wpc \notin Pushing /\ StatusNow \in {"PUSHING", "DIRTY"}
    BY <1>c, <2>1 DEF AboutToPush, OnePush
  <2>4. AboutToPush' = {}
    BY <1>c, <1>1, <2>1, <2>3 DEF AboutToPush, OnePush
  <2>5. Len(pushes') = 1
    <3>1. pushes \in Seq(Entries) /\ ptr[a] \in Entries /\ Len(<<>>) = 0
      BY <1>0, <2>1, EmptySeq DEF Types
    <3>2. QED
      BY <2>1, <2>3, <3>1, AppendWaiting
  <2>6. OnePull' /\ OnePush'
    BY <1>c, <1>1, <1>3, <2>2, <2>3, <2>4, <2>5 DEF OnePull, OnePush
  <2>7. LocalCopy' /\ Fresh'
    BY <1>c, <1>1, <1>4, <2>2 DEF LocalCopy, Fresh, Written
  <2>8. QED
    BY <1>5, <2>2, <2>6, <2>7 DEF Faultless
<1>8. CASE ~EnqueuePush(a) /\ ~(AsyncPush(a) /\ entry[ptr[a]].status # "PUSHING")
  <2>1. entry' = entry /\ pushes' = pushes
    BY <1>8 DEF PushStep, PushIfDirty, AsyncPush, FallAsleep, SpuriousWakeup
  <2>2. UNCHANGED <<StatusNow, CopyNow>>
    BY <1>0, <1>1, <2>1, NowKept
  <2>3. AboutToPush' = AboutToPush
    BY <1>1, <1>2, <1>8 DEF AboutToPush
  <2>4. \A v \in Users : Grant(v)'
    BY <1>5, <2>2
  <2>5. QED
    BY <1>1, <1>3, <1>4, <2>1, <2>2, <2>3, <2>4, FaultlessSame
<1>9. QED
  BY <1>6, <1>7, <1>8

LEMMA FaultlessJanitor ==
  ASSUME Inv, Inv', unsafe = {}, unsafe' = {}, Faultless, ScanBegin \/ JanitorStep \/ Unplug
  PROVE  Faultless'
<1> USE DEF userVars, queueVars, workerVars, deviceVars
<1>0. /\ Types /\ MapInv /\ NoOrphanWait /\ \A v \in Users : Grant(v) /\ Holds(v)
      /\ \A v \in Users : v \in Actors /\ v # Janitor
  BY ActorsAssumption, NoFault DEF Actors, Faultless
<1>1. /\ UNCHANGED <<op, granted, pulls, pushes, wpc, cur, good, device, latest>>
      /\ \A v \in Users : pc'[v] = pc[v]
      /\ pc[Janitor] \notin {"enqPush", "dEnqPush"} /\ pc'[Janitor] \notin {"enqPush", "dEnqPush"}
  BY <1>0, JanitorLeaves
<1>2. CASE entry' = entry /\ mapped' = mapped
  <2>1. UNCHANGED <<StatusNow, CopyNow>>
    BY <1>0, <1>2, NowKept
  <2>2. AboutToPull' = AboutToPull /\ AboutToPush' = AboutToPush
    BY <1>1 DEF AboutToPull, AboutToPush, Actors
  <2>3. \A v \in Users : Grant(v)' /\ (Marking(v)' <=> Marking(v))
    BY <1>0, <1>1, <2>1 DEF Grant, Marking, Writing
  <2>4. ToMark' <=> ToMark
    BY <2>3 DEF ToMark
  <2>5. QED
    BY <1>1, <2>1, <2>2, <2>3, <2>4, FaultlessSame
<1>3. CASE /\ mapped \in Entries /\ Alive(mapped) /\ mapped' = NoEntry
           /\ unsafe' = unsafe \cup DeletionFaults(mapped) \cup
                 (IF entry[mapped].status = "DIRTY" THEN {"deletedUnsynced"} ELSE {})
  <2>1. ~InUse(mapped) /\ ~InRequest(mapped) /\ entry[mapped].status # "DIRTY"
    BY <1>3 DEF DeletionFaults
  <2>2. entry[mapped].status # "PUSHING"
    <3>1. ~PushComing(mapped)
      BY <1>1, <2>1 DEF PushComing, InRequest, InUse, Actors
    <3>2. QED
      BY <1>0, <1>3, <3>1 DEF NoOrphanWait
  <2>3. \A v \in Users : ~granted[v]
    BY <1>0, <1>3, <2>1 DEF InUse, Holds, Grant
  <2>4. ~Written
    BY <1>3, <2>1, <2>2, <2>3, NoFault DEF Written, ToMark, Marking
  <2>5. device = latest
    BY <2>4 DEF Faultless, Fresh
  <2>6. QED
    BY <1>1, <1>3, <2>3, <2>5, FaultlessGone
<1>4. QED
  BY <1>0, <1>2, <1>3, JanitorLeaves

-----------------------------------------------------------------------------
(* The worker.                                                             *)

LEMMA FaultlessWorker ==
  ASSUME Inv, Inv', unsafe = {}, unsafe' = {}, Faultless, WorkerStep
  PROVE  Faultless'
<1> USE DEF userVars, queueVars, workerVars, deviceVars
<1>0. /\ Types /\ WorkerInv /\ \A v \in Users : Grant(v)
      /\ \A v \in Users : v \in Actors
      /\ pulls \in Seq(Entries) /\ pushes \in Seq(Entries)
      /\ good \in BOOLEAN /\ wpc \in WorkerControl
      /\ wpc \notin {"pull", "push"} =>
           /\ cur = mapped /\ mapped \in Entries /\ mapped # NoEntry
           /\ CopyNow = entry[mapped].cache /\ StatusNow = entry[mapped].status
  BY NoFault DEF Types, Actors, Faultless
<1>c. OnePull /\ OnePush /\ LocalCopy /\ Fresh
  BY DEF Faultless
<1>d. ToMark => StatusNow \in Here
  BY <1>0 DEF ToMark, Marking, Grant
<1>1. /\ UNCHANGED <<mapped, op, granted, latest>>
      /\ \A v \in Users : \/ pc'[v] = pc[v]
                          \/ pc[v] = "pullSleep" /\ pc'[v] = "pullTest"
                          \/ pc[v] = "pushSleep" /\ pc'[v] = "pushTest"
                          \/ pc[v] = "dSleep" /\ pc'[v] = "dTest"
      /\ AboutToPull' = AboutToPull /\ AboutToPush' = AboutToPush
  <2>1. /\ UNCHANGED <<mapped, op, granted, latest>>
        /\ \A v \in Actors : \/ pc'[v] = pc[v]
                             \/ pc[v] = "pullSleep" /\ pc'[v] = "pullTest"
                             \/ pc[v] = "pushSleep" /\ pc'[v] = "pushTest"
                             \/ pc[v] = "dSleep" /\ pc'[v] = "dTest"
    BY <1>0, WorkerLeaves
  <2>2. AboutToPull' = AboutToPull
    BY <1>0, <2>1 DEF AboutToPull
  <2>3. AboutToPush' = AboutToPush
    BY <2>1 DEF AboutToPush
  <2>4. QED
    BY <1>0, <2>1, <2>2, <2>3
<1>2. ToMark' <=> ToMark
  <2>1. \A v \in Users : Marking(v)' <=> Marking(v)
    BY <1>1 DEF Marking, Writing
  <2>2. QED
    BY <2>1 DEF ToMark
<1>3. ASSUME StatusNow \in Here => StatusNow' \in Here, StatusNow \in Known => StatusNow' \in Known
      PROVE  \A v \in Users : Grant(v)'
  BY <1>0, <1>1, <1>3 DEF Grant, Writing
<1>4. entry' = entry => UNCHANGED <<StatusNow, CopyNow>>
  BY <1>0, <1>1, NowKept
<1>5. CASE TakePull
  <2>1. CASE pulls = <<>>
    <3>1. UNCHANGED <<entry, pulls, pushes, device>> /\ wpc = "pull" /\ wpc' = "push"
      BY <1>5, <2>1 DEF TakePull, WorkerGoto
    <3>2. QED
      BY <1>1, <1>2, <1>3, <1>4, <3>1, FaultlessSame
  <2>2. CASE pulls # <<>>
    <3>1. UNCHANGED <<entry, pushes, device, good>> /\ wpc = "pull" /\ wpc' = "pullOpen" /\ pulls' = Tail(pulls)
      BY <1>5, <2>2 DEF TakePull
    <3>2. Len(pulls') = 0
      <4>1. /\ Len(Tail(pulls)) = Len(pulls) - 1 /\ Len(Tail(pulls)) \in Nat
            /\ Len(pulls) \in Nat
        BY <1>0, <2>2, TailWaiting, LenProperties
      <4>2. Len(pulls) <= 1
        BY <1>c DEF OnePull
      <4>3. Len(Tail(pulls)) = 0
        BY <4>1, <4>2
      <4>4. QED
        BY <3>1, <4>3
    <3>3. pulls' = <<>>
      BY <1>0, <2>2, <3>1, <3>2, TailWaiting, EmptySeq
    <3>4. AboutToPull = {} /\ StatusNow = "PULLING"
      BY <1>c, <2>2 DEF OnePull
    <3>5. OnePull' /\ OnePush'
      BY <1>c, <1>1, <1>4, <3>1, <3>2, <3>3, <3>4 DEF OnePull, OnePush, Pushing
    <3>6. LocalCopy' /\ Fresh'
      BY <1>c, <1>1, <1>2, <1>4, <3>1 DEF LocalCopy, Fresh, Written
    <3>7. QED
      BY <1>3, <1>4, <3>1, <3>5, <3>6 DEF Faultless
  <2>3. QED
    BY <2>1, <2>2
<1>6. CASE TakePush
  <2>1. CASE pushes = <<>>
    <3>1. UNCHANGED <<entry, pulls, pushes, device>> /\ wpc = "push" /\ wpc' = "pull"
      BY <1>6, <2>1 DEF TakePush, WorkerGoto
    <3>2. QED
      BY <1>1, <1>2, <1>3, <1>4, <3>1, FaultlessSame
  <2>2. CASE pushes # <<>>
    <3>1. UNCHANGED <<entry, pulls, device, good>> /\ wpc = "push" /\ wpc' = "pushOpen" /\ pushes' = Tail(pushes)
      BY <1>6, <2>2 DEF TakePush
    <3>2. Len(pushes') = 0
      <4>1. /\ Len(Tail(pushes)) = Len(pushes) - 1 /\ Len(Tail(pushes)) \in Nat
            /\ Len(pushes) \in Nat
        BY <1>0, <2>2, TailWaiting, LenProperties
      <4>2. Len(pushes) <= 1
        BY <1>c DEF OnePush
      <4>3. Len(Tail(pushes)) = 0
        BY <4>1, <4>2
      <4>4. QED
        BY <3>1, <4>3
    <3>3. pushes' = <<>>
      BY <1>0, <2>2, <3>1, <3>2, TailWaiting, EmptySeq
    <3>4. AboutToPush = {} /\ StatusNow \in {"PUSHING", "DIRTY"}
      BY <1>c, <2>2 DEF OnePush
    <3>5. OnePull' /\ OnePush'
      BY <1>c, <1>1, <1>4, <3>1, <3>2, <3>3, <3>4 DEF OnePull, OnePush, Pulling
    <3>6. LocalCopy' /\ Fresh'
      BY <1>c, <1>1, <1>2, <1>4, <3>1 DEF LocalCopy, Fresh, Written
    <3>7. QED
      BY <1>3, <1>4, <3>1, <3>5, <3>6 DEF Faultless
  <2>3. QED
    BY <2>1, <2>2
<1>7. CASE PullOpen \/ PullRead
  <2>1. /\ UNCHANGED <<pulls, pushes, device>> /\ wpc \in Pulling /\ wpc' \in Pulling
        /\ wpc \in {"pullOpen", "pullRead"} /\ StatusNow = "PULLING"
    BY <1>7, <1>c DEF PullOpen, PullRead, WorkerGoto, Pulling, OnePull
  <2>2. /\ StatusNow' = StatusNow
        /\ wpc' = "pullRead" => device # NoFile
        /\ wpc' = "pullDone" /\ good' => CopyNow' # NoFile
    <3>1. CASE PullOpen
      <4>1. CASE device = NoFile
        BY <1>4, <3>1, <4>1 DEF PullOpen, WorkerGoto
      <4>2. CASE device # NoFile
        <5>1. entry' = [entry EXCEPT ![mapped].cache = Empty] /\ wpc' = "pullRead"
          BY <1>0, <3>1, <4>2 DEF PullOpen, WorkerGoto
        <5>2. QED
          BY <1>0, <1>1, <2>1, <4>2, <5>1, NowKept
      <4>3. QED
        BY <4>1, <4>2
    <3>2. CASE PullRead
      <4>1. device # NoFile /\ wpc' = "pullDone"
        BY <1>c, <3>2 DEF PullRead, LocalCopy, WorkerGoto
      <4>2. CASE entry' = entry /\ ~good'
        BY <1>4, <3>2, <4>1, <4>2
      <4>3. CASE \E c \in Broken \cup {device} : entry' = [entry EXCEPT ![mapped].cache = c]
        <5>1. PICK c \in Broken \cup {device} : entry' = [entry EXCEPT ![mapped].cache = c]
          BY <4>3
        <5>2. c # NoFile
          BY <4>1 DEF Broken, Partial, Headless, NoFile
        <5>3. StatusNow' = StatusNow /\ CopyNow' = c
          BY <1>0, <1>1, <2>1, <5>1, NowKept
        <5>4. QED
          BY <4>1, <5>2, <5>3
      <4>4. QED
        BY <1>0, <3>2, <4>2, <4>3 DEF PullRead
    <3>3. QED
      BY <1>7, <3>1, <3>2
  <2>3. StatusNow \notin Here /\ ~Written /\ ~Written'
    BY <1>d, <1>2, <2>1, <2>2 DEF Written, Here
  <2>4. AboutToPull = {} /\ pulls = <<>> /\ AboutToPush = {} /\ pushes = <<>>
    BY <1>c, <2>1 DEF OnePull, OnePush
  <2>5. OnePull' /\ OnePush'
    BY <1>c, <1>1, <2>1, <2>2, <2>4 DEF OnePull, OnePush, Pulling, Pushing
  <2>6. LocalCopy' /\ Fresh'
    BY <1>c, <1>1, <2>1, <2>2, <2>3 DEF LocalCopy, Fresh, Pulling
  <2>7. QED
    BY <1>3, <2>2, <2>5, <2>6 DEF Faultless
<1>8. CASE PullDone
  <2>1. /\ UNCHANGED <<pulls, pushes, device>> /\ wpc \in Pulling /\ wpc' = "notify"
        /\ wpc = "pullDone" /\ StatusNow = "PULLING"
        /\ SetStatus(mapped, IF good THEN "AVAILABLE" ELSE "FAIL") /\ mapped \in Entries
    BY <1>0, <1>8, <1>c DEF PullDone, WorkerGoto, Pulling, OnePull
  <2>2. StatusNow' = (IF good THEN "AVAILABLE" ELSE "FAIL") /\ CopyNow' = CopyNow
    BY <1>0, <1>1, <2>1, NowKept
  <2>3. ~ToMark /\ ~Written /\ ~Written'
    BY <1>d, <1>2, <2>1, <2>2 DEF Written, Here
  <2>4. AboutToPull = {} /\ pulls = <<>> /\ AboutToPush = {} /\ pushes = <<>>
    BY <1>c, <2>1 DEF OnePull, OnePush
  <2>5. OnePull' /\ OnePush'
    BY <1>c, <1>1, <2>1, <2>4 DEF OnePull, OnePush, Pulling, Pushing
  <2>6. LocalCopy' /\ Fresh'
    BY <1>c, <1>1, <2>1, <2>2, <2>3 DEF LocalCopy, Fresh, Here
  <2>7. QED
    BY <1>3, <2>1, <2>2, <2>5, <2>6 DEF Faultless, Here, Known, Status
<1>9. CASE PushOpen \/ PushDelete \/ PushCreate
  <2>1. /\ UNCHANGED <<entry, pulls, pushes>> /\ wpc \in Pushing /\ wpc' \in Pushing
        /\ StatusNow \in {"PUSHING", "DIRTY"} /\ wpc \notin Pulling /\ wpc' \notin Pulling
        /\ wpc' # "pushOpen"
    BY <1>9, <1>c DEF PushOpen, PushDelete, PushCreate, WorkerGoto, Pushing, Pulling, OnePush
  <2>2. UNCHANGED <<StatusNow, CopyNow>>
    BY <1>4, <2>1
  <2>3. OnePull' /\ OnePush'
    BY <1>c, <1>1, <2>1, <2>2 DEF OnePull, OnePush
  <2>4. LocalCopy' /\ Fresh'
    <3>1. Written /\ Written'
      BY <2>1, <2>2 DEF Written
    <3>2. CASE PushOpen
      BY <1>c, <1>1, <1>2, <2>2, <3>1, <3>2 DEF PushOpen, WorkerGoto, LocalCopy, Fresh
    <3>3. CASE PushDelete
      BY <1>c, <1>1, <1>2, <2>2, <3>1, <3>3 DEF PushDelete, WorkerGoto, LocalCopy, Fresh
    <3>4. CASE PushCreate
      <4>1. CopyNow = entry[cur].cache /\ CopyNow = latest /\ wpc' = "pushDone" /\ ~good
        BY <1>0, <1>c, <3>4 DEF PushCreate, WorkerGoto, LocalCopy, Fresh
      <4>2. \/ device' = latest
            \/ device' = device /\ good' = good
        BY <3>4, <4>1 DEF PushCreate
      <4>3. QED
        BY <1>c, <1>1, <1>2, <2>2, <3>1, <4>1, <4>2 DEF LocalCopy, Fresh
    <3>5. QED
      BY <1>9, <3>2, <3>3, <3>4
  <2>5. QED
    BY <1>3, <2>2, <2>3, <2>4 DEF Faultless
<1>10. CASE PushDone
  <2>1. /\ UNCHANGED <<pulls, pushes, device>> /\ wpc \in Pushing /\ wpc' = "notify"
        /\ wpc = "pushDone" /\ StatusNow \in {"PUSHING", "DIRTY"}
        /\ SetStatus(mapped, PushResult(StatusNow)) /\ mapped \in Entries
    BY <1>0, <1>10, <1>c DEF PushDone, WorkerGoto, Pushing, OnePush
  <2>2. /\ CopyNow' = CopyNow
        /\ \/ StatusNow' = "DIRTY" /\ (StatusNow = "DIRTY" \/ ~good)
           \/ StatusNow' = "AVAILABLE" /\ StatusNow = "PUSHING" /\ good
    <3>1. StatusNow' = PushResult(StatusNow) /\ CopyNow' = CopyNow
      BY <1>0, <1>1, <2>1, NowKept
    <3>2. QED
      BY <2>1, <3>1 DEF PushResult
  <2>3. AboutToPull = {} /\ pulls = <<>> /\ AboutToPush = {} /\ pushes = <<>>
    BY <1>c, <2>1 DEF OnePull, OnePush
  <2>4. OnePull' /\ OnePush'
    BY <1>c, <1>1, <2>1, <2>3 DEF OnePull, OnePush, Pulling, Pushing
  <2>5. LocalCopy' /\ Fresh'
    BY <1>c, <1>1, <1>2, <2>1, <2>2 DEF LocalCopy, Fresh, Written, Here
  <2>6. QED
    BY <1>3, <2>1, <2>2, <2>4, <2>5 DEF Faultless, Here, Known, Status
<1>11. CASE Notify
  <2>1. UNCHANGED <<entry, pulls, pushes, device>> /\ wpc = "notify" /\ wpc' = "pull"
    BY <1>11 DEF Notify
  <2>2. QED
    BY <1>1, <1>2, <1>3, <1>4, <2>1, FaultlessSame
<1>12. QED
  BY <1>5, <1>6, <1>7, <1>8, <1>9, <1>10, <1>11 DEF WorkerStep

-----------------------------------------------------------------------------
(* The invariant.                                                          *)

LEMMA WriteInvInit == Init => WriteInv
<1> SUFFICES ASSUME Init PROVE WriteInv
  OBVIOUS
<1>1. Inv
  BY InitInv
<1>2. \A u \in Users : pc[u] = "idle" /\ ~granted[u]
  BY ActorsAssumption DEF Init, Actors
<1>3. pc[Janitor] = "rest"
  BY DEF Init, Actors
<1>4. AboutToPull = {} /\ AboutToPush = {} /\ ~ToMark /\ StatusNow = "NONE"
  BY <1>2, <1>3 DEF AboutToPull, AboutToPush, Actors, ToMark, Marking, StatusNow, Init
<1>5. Len(<<>>) = 0
  BY EmptySeq
<1>6. OnePull /\ OnePush
  BY <1>4, <1>5 DEF OnePull, OnePush, Pulling, Pushing, Init
<1>7. \A u \in Users : Grant(u)
  BY <1>2 DEF Grant
<1>8. LocalCopy /\ Fresh
  BY <1>4 DEF LocalCopy, Fresh, Written, Here, Init
<1>9. QED
  BY <1>1, <1>6, <1>7, <1>8 DEF WriteInv, Faultless

LEMMA WriteInvNext ==
  ASSUME WriteInv, [Next]_vars PROVE WriteInv'
<1>0. Inv /\ Inv' /\ Types /\ MapInv /\ WorkerInv
  BY NextInv DEF WriteInv, Inv
<1>1. CASE Next
  <2> SUFFICES ASSUME unsafe' = {} PROVE Faultless'
    BY <1>0 DEF WriteInv
  <2>1. unsafe = {} /\ Faultless
    BY <1>0, <1>1, FaultsStay DEF WriteInv
  <2>2. CASE \E u \in Users : Call(u) \/ UserStep(u)
    <3>1. PICK u \in Users : Call(u) \/ UserStep(u)
      BY <2>2
    <3>2. CASE \/ \E o \in Operations : BeginAccess(u, o)
               \/ Flush(u) \/ CountAccess(u) \/ GetAccess(u) \/ AwaitPull(u) \/ CheckPull(u) \/ AwaitPush(u)
               \/ EndLookup(u) \/ EndAccess(u)
      BY <1>0, <2>1, <3>2, FaultlessLook
    <3>3. CASE \/ CreateForBegin(u) \/ CreateForEnd(u) \/ AsyncPull(u) \/ EnqueuePull(u)
               \/ Access(u) \/ MarkDirty(u)
      BY <1>0, <2>1, <3>3, FaultlessWork
    <3>4. CASE DeleteCacheEntry(u) \/ DeleteNode(u)
      BY <1>0, <2>1, <3>4, FaultlessDelete
    <3>5. QED
      BY <3>1, <3>2, <3>3, <3>4 DEF Call, UserStep
  <2>3. CASE \E a \in Actors : PushStep(a) \/ SpuriousWakeup(a)
    BY <1>0, <2>1, <2>3, FaultlessPush
  <2>4. CASE ScanBegin \/ JanitorStep \/ Unplug
    BY <1>0, <2>1, <2>4, FaultlessJanitor
  <2>5. CASE WorkerStep
    BY <1>0, <2>1, <2>5, FaultlessWorker
  <2>6. QED
    BY <1>1, <2>2, <2>3, <2>4, <2>5 DEF Next
<1>2. CASE UNCHANGED vars
  <2> USE DEF vars, mapVars, userVars, janVars, queueVars, workerVars, deviceVars, ghostVars
  <2>1. ASSUME Faultless PROVE Faultless'
    <3>1. UNCHANGED <<StatusNow, CopyNow>>
      BY <1>0, <1>2, NowKept
    <3>2. AboutToPull' = AboutToPull /\ AboutToPush' = AboutToPush /\ (ToMark' <=> ToMark)
      BY <1>2 DEF AboutToPull, AboutToPush, ToMark, Marking, Writing
    <3>3. \A u \in Users : Grant(u)'
      BY <1>2, <2>1, <3>1 DEF Faultless, Grant, Writing
    <3>4. QED
      BY <1>2, <2>1, <3>1, <3>2, <3>3, FaultlessSame
  <2>2. QED
    BY <1>0, <1>2, <2>1 DEF WriteInv
<1>3. QED
  BY <1>1, <1>2

\* FileCache::_getAccess, _asyncPull, _asyncPush, the callbacks, deleteCacheEntry, the janitor
\* and the file handlers of ConnectionSync: what a user has written last is on the device, or
\* in the local copy and to be pushed, unless the run went through a fault the model names.
THEOREM WritesKept == Spec => []WritesKeptUnlessFaulty
<1>1. Spec => []WriteInv
  BY WriteInvInit, WriteInvNext, PTL DEF Spec
<1>2. WriteInv => WritesKeptUnlessFaulty
  BY KeptInv
<1>3. QED
  BY <1>1, <1>2, PTL

\* AvabilitySwitcher, _asyncPull, _asyncPush: without a fault no second pull or push of the
\* file is ever under way beside the first, and no pull beside a push.
TransfersOneByOne == unsafe = {} => OnePull /\ OnePush
THEOREM OneTransferAtATime == Spec => []TransfersOneByOne
<1>1. Spec => []WriteInv
  BY WriteInvInit, WriteInvNext, PTL DEF Spec
<1>2. WriteInv => TransfersOneByOne
  BY DEF WriteInv, Faultless, TransfersOneByOne
<1>3. QED
  BY <1>1, <1>2, PTL
=============================================================================
