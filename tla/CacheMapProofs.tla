--------------------------- MODULE CacheMapProofs ---------------------------
(***************************************************************************)
(* Safety of the map of the cache for any set of drive threads and paths,  *)
(* any number of entries and any number of rounds of the janitor: no two   *)
(* paths share an entry and none has a deleted one, what is written is     *)
(* kept, and entries follow the files that are moved, as long as none of   *)
(* the faults happens that the model names.                                *)
(***************************************************************************)
EXTENDS CacheMap, QueueTheorems, FiniteSetTheorems

Status == {"NONEXISTANT", "FAIL", "PULLING", "AVAILABLE", "DIRTY", "PUSHING"}
Content == Paths \cup Users \cup {NoFile, Empty, Part}
Steps == {"idle", "pulling", "check", "pushing", "access", "end", "list", "listed",
          "mkfile", "exists", "forgotten", "unlink", "forget", "forgetting", "move", "lock", "isdir",
          "rebindall", "rebind", "rebinding", "unlock"}
Operations == {"read", "write", "list", "move", "movedir", "delete", "create"}
Faults == {"freed", "writtenWhileDeleted", "betweenDeletes", "endedElsewhere", "strayEntry",
           "failedWrite", "stalePull", "stalePush", "twoCopies", "grantedMidPull", "brokenRead",
           "brokenPush", "refusedPush"}
EntryType == [life : {"unborn", "alive", "deleted"}, status : Status, path : Paths \cup {Nil},
              copy : Content, uses : [{"read", "write"} -> Int], home : Paths \cup {Nil}]
ClientType == [op : Operations \cup {"none", "done"}, path : Paths \cup {Nil},
               to : Paths \cup {Nil}, step : Steps, e : Entries \cup {0}]
JanitorType == [step : {"rest", "lock", "delete", "deleting"}, victims : SUBSET Paths,
                e : Entries \cup {0}, path : Paths \cup {Nil}, rounds : 0 .. MaxRounds]
Requests == [e : Entries, path : Paths]

Types ==
  /\ map \in [Paths -> Entries \cup {0}]
  /\ entry \in [Entries -> EntryType]
  /\ dev \in [Paths -> Content] /\ latest \in [Paths -> Content]
  /\ treeq \in Seq(Users) /\ pullq \in Seq(Requests) /\ pushq \in Seq(Requests)
  /\ writer \in Users \cup {Janitor, Nil}
  /\ worker \in {Nil, "listing", "rebinding", "stuck"}
  /\ client \in [Users -> ClientType]
  /\ jan \in JanitorType
  /\ faults \subseteq Faults

\* Who has the lock of the map, an entry in hand and paths to work on can be told from
\* what he is doing.
Using == {"pulling", "check", "pushing", "access", "end", "forgetting", "rebinding"}
Locking == {"isdir", "rebindall", "rebind", "rebinding", "unlock"}
OnePath == {"pulling", "check", "pushing", "access", "end", "forgotten", "unlink"}
LockInv ==
  /\ \A u \in Users :
       /\ writer = u <=> client[u].step \in Locking
       /\ client[u].e # 0 <=> client[u].step \in Using
       /\ client[u].step # "idle" => client[u].path \in Paths
       /\ client[u].step \notin OnePath \cup {"idle"} => client[u].to \in Paths
       /\ client[u].step \in {"pulling", "check", "pushing", "access", "end"} => client[u].op \in {"read", "write"}
  /\ writer = Janitor <=> jan.step \in {"delete", "deleting"}
  /\ jan.e # 0 <=> jan.step = "deleting"
  /\ jan.step = "deleting" => jan.path \in Paths
  /\ worker = "rebinding" => writer \in Users /\ client[writer].step = "rebindall"

\* Until an entry is freed in use, the entries that live are those of the map, each under
\* its own path, and nobody has another one in hand.
Alive(e) == entry[e].life = "alive"
MapOf(m, f) ==
  /\ \A p \in Paths : m[p] # 0 => f[m[p]].life = "alive" /\ f[m[p]].path = p
  /\ \A e \in Entries :
       IF f[e].life = "alive" THEN f[e].path \in Paths /\ m[f[e].path] = e
       ELSE f[e].status = "NONEXISTANT" /\ f[e].home = Nil /\ f[e].copy = NoFile
MapInv ==
  /\ MapOf(map, entry)
  /\ \A r \in Waiting(pullq) \cup Waiting(pushq) : Alive(r.e)
  /\ \A u \in Users : client[u].e # 0 => Alive(client[u].e)
  /\ jan.e # 0 => Alive(jan.e)

-----------------------------------------------------------------------------
(* What the operators do.                                                  *)

\* What all obligations need of the constants.
LEMMA Constants ==
  /\ 0 \notin Entries /\ Entries \subseteq Nat /\ IsFiniteSet(Entries)
  /\ Nil \notin Users /\ Nil \notin Paths /\ Janitor \notin Users /\ Janitor # Nil
  /\ NoFile \notin Users /\ Empty \notin Users /\ NoFile \notin Paths /\ Empty \notin Paths
  /\ NoFile \notin {Empty, Part}
  /\ Nil \notin {"listing", "rebinding", "stuck"}
BY ActorsAssumption, WorkerAssumption, PathsAssumption, BoundsAssumption, FS_Interval DEF Entries

\* Only thread u does something, and goes on at step s with entry e in hand.
Moves(u, s, e) ==
  /\ client' \in [Users -> ClientType]
  /\ client'[u].step = s /\ client'[u].e = e
  /\ client'[u].path = client[u].path /\ client'[u].to = client[u].to /\ client'[u].op = client[u].op
  /\ \A v \in Users \ {u} : client'[v] = client[v]

LEMMA GoMoves ==
  ASSUME client \in [Users -> ClientType], NEW u \in Users, NEW s \in Steps, Go(u, s)
  PROVE  Moves(u, s, client[u].e)
BY DEF Go, Moves, ClientType

LEMMA TakesMoves ==
  ASSUME client \in [Users -> ClientType], NEW u \in Users, NEW s \in Steps,
         NEW e \in Entries \cup {0}, client' = [client EXCEPT ![u].step = s, ![u].e = e]
  PROVE  Moves(u, s, e)
BY DEF Moves, ClientType

\* Only thread u does something, and its operation ends.
Ends(u) ==
  /\ client' \in [Users -> ClientType]
  /\ client'[u].step = "idle" /\ client'[u].e = 0
  /\ \A v \in Users \ {u} : client'[v] = client[v]

LEMMA FinishEnds ==
  ASSUME client \in [Users -> ClientType], NEW u \in Users, Finish(u)
  PROVE  Ends(u)
BY DEF Finish, Ends, ClientType, Idle, Operations, Steps

\* Only entry e changes.
Only(e) ==
  /\ entry' \in [Entries -> EntryType]
  /\ \A f \in Entries \ {e} : entry'[f] = entry[f]

\* The fields of an entry but for its status and the counts.
SameFile(e) ==
  /\ entry'[e].life = entry[e].life /\ entry'[e].path = entry[e].path
  /\ entry'[e].copy = entry[e].copy /\ entry'[e].home = entry[e].home

LEMMA UnbornIs ==
  /\ Unborn \in EntryType
  /\ Unborn.life = "unborn" /\ Unborn.status = "NONEXISTANT" /\ Unborn.home = Nil
  /\ Unborn.copy = NoFile
BY DEF Unborn, EntryType, Status, Content, NoUses

\* The entry of a path, and the record found there.
LEMMA CacheAccessDoes ==
  ASSUME Types, MapInv, NEW p \in Paths, NEW e \in Entries, CacheAccess(p, e)
  PROVE  /\ writer = Nil /\ map' \in [Paths -> Entries \cup {0}]
         /\ map'[p] = e /\ \A q \in Paths \ {p} : map'[q] = map[q]
         /\ \/ map[p] = e /\ Alive(e) /\ entry[e].path = p
            \/ map[p] = 0 /\ ~Alive(e)
         /\ LET r == Cached(p, e) IN
            /\ r \in EntryType /\ r.life = "alive" /\ r.path = p
            /\ r.status = entry[e].status /\ r.copy = entry[e].copy /\ r.home = entry[e].home
<1>1. /\ map' \in [Paths -> Entries \cup {0}] /\ writer = Nil
      /\ map'[p] = e /\ \A q \in Paths \ {p} : map'[q] = map[q]
  BY DEF CacheAccess, Types, Unlocked
<1>2. CASE map[p] # 0
  <2>1. e = map[p] /\ Cached(p, e) = entry[e]
    BY <1>2 DEF CacheAccess, Cached
  <2>2. QED
    BY <1>1, <1>2, <2>1 DEF Types, MapInv, MapOf, Alive
<1>3. CASE map[p] = 0
  <2>1. entry[e].life = "unborn" /\ Cached(p, e) = [Unborn EXCEPT !.life = "alive", !.path = p]
    BY <1>3 DEF CacheAccess, Cached
  <2>2. /\ Cached(p, e) \in EntryType
        /\ Cached(p, e).life = "alive" /\ Cached(p, e).path = p
        /\ Cached(p, e).status = "NONEXISTANT" /\ Cached(p, e).home = Nil
        /\ Cached(p, e).copy = NoFile
    BY <2>1, UnbornIs DEF EntryType
  <2>3. ~Alive(e)
    BY <2>1 DEF Alive
  <2>4. QED
    BY <1>1, <1>3, <2>2, <2>3 DEF MapInv, MapOf, Alive
<1>4. QED
  BY <1>2, <1>3

\* An access begins: with the entry of the path, pulled if it has never been.
BeginsWith(u, op, p, e) ==
  /\ CacheAccess(p, e) /\ Only(e)
  /\ entry'[e].life = "alive" /\ entry'[e].path = p
  /\ entry'[e].copy = entry[e].copy /\ entry'[e].home = entry[e].home
  /\ LET s == entry[e].status
         pull == s \in {"NONEXISTANT", "FAIL"}
     IN /\ entry'[e].status = IF pull THEN "PULLING" ELSE s
        /\ pullq' = IF pull THEN Append(pullq, [e |-> e, path |-> p]) ELSE pullq
        /\ client'[u].step = IF pull \/ s = "PULLING" THEN "pulling"
                             ELSE IF s = "PUSHING" /\ op = "write" THEN "pushing" ELSE "access"
  /\ client' \in [Users -> ClientType]
  /\ client'[u].e = e /\ client'[u].path = p /\ client'[u].op = op
  /\ \A v \in Users \ {u} : client'[v] = client[v]

LEMMA BeginDoes ==
  ASSUME Types, MapInv, NEW u \in Users, NEW op, NEW p \in Paths, Begin(u, op, p)
  PROVE  /\ op \in {"read", "write"} /\ client[u] = Idle
         /\ faults' = faults \cup BetweenDeletes(p)
         /\ UNCHANGED <<writer, dev, treeq, pushq, worker, jan, latest>>
         /\ \E e \in Entries : BeginsWith(u, op, p, e)
<1>1. /\ op \in {"read", "write"} /\ client[u] = Idle
      /\ faults' = faults \cup BetweenDeletes(p)
      /\ UNCHANGED <<writer, dev, treeq, pushq, worker, jan, latest>>
  BY DEF Begin
<1> DEFINE r(e) == Cached(p, e)
           pull(e) == r(e).status \in {"NONEXISTANT", "FAIL"}
           step(e) == IF pull(e) \/ r(e).status = "PULLING" THEN "pulling"
                      ELSE IF r(e).status = "PUSHING" /\ op = "write" THEN "pushing" ELSE "access"
<1>2. PICK e \in Entries :
        /\ CacheAccess(p, e)
        /\ entry' = [entry EXCEPT ![e] =
             [r(e) EXCEPT !.uses[op] = @ + 1, !.status = IF pull(e) THEN "PULLING" ELSE @]]
        /\ pullq' = IF pull(e) THEN Append(pullq, [e |-> e, path |-> r(e).path]) ELSE pullq
        /\ client' = [client EXCEPT ![u] = [op |-> op, path |-> p, to |-> Nil, step |-> step(e), e |-> e]]
  BY DEF Begin
<1>3. /\ r(e) \in EntryType /\ r(e).life = "alive" /\ r(e).path = p
      /\ r(e).status = entry[e].status /\ r(e).copy = entry[e].copy /\ r(e).home = entry[e].home
  BY <1>2, CacheAccessDoes
<1> DEFINE x == [r(e) EXCEPT !.uses[op] = @ + 1, !.status = IF pull(e) THEN "PULLING" ELSE @]
<1>4. /\ x \in EntryType /\ x.life = "alive" /\ x.path = p
      /\ x.status = IF pull(e) THEN "PULLING" ELSE r(e).status
      /\ x.copy = r(e).copy /\ x.home = r(e).home
  <2> HIDE DEF r
  <2>1. /\ r(e).uses \in [{"read", "write"} -> Int] /\ r(e).status \in Status
        /\ [r(e).uses EXCEPT ![op] = @ + 1] \in [{"read", "write"} -> Int]
    BY <1>1, <1>3 DEF EntryType
  <2>2. x = [r(e) EXCEPT !.uses = [r(e).uses EXCEPT ![op] = @ + 1],
                        !.status = IF pull(e) THEN "PULLING" ELSE r(e).status]
    OBVIOUS
  <2>3. (IF pull(e) THEN "PULLING" ELSE r(e).status) \in Status
    BY <2>1 DEF Status
  <2> HIDE DEF pull
  <2>4. QED
    BY <1>3, <2>1, <2>2, <2>3 DEF EntryType
<1>5. entry' = [entry EXCEPT ![e] = x]
  BY <1>2
<1> HIDE DEF x
<1>6. Only(e) /\ entry'[e] = x
  BY <1>4, <1>5 DEF Only, Types
<1>7. /\ client' \in [Users -> ClientType]
      /\ client'[u].step = step(e) /\ client'[u].e = e /\ client'[u].path = p /\ client'[u].op = op
      /\ \A v \in Users \ {u} : client'[v] = client[v]
  <2>1. step(e) \in Steps /\ op \in Operations /\ p \in Paths \cup {Nil} /\ e \in Entries \cup {0}
    BY <1>1 DEF Steps, Operations
  <2> HIDE DEF step
  <2>2. QED
    BY <1>2, <2>1 DEF Types, ClientType
<1>8. BeginsWith(u, op, p, e)
  BY <1>2, <1>3, <1>4, <1>6, <1>7 DEF BeginsWith
<1>9. QED
  BY <1>1, <1>8

\* A write replaces the copy, and is the latest of the file that the entry holds.
LEMMA AccessDoes ==
  ASSUME Types, LockInv, NEW u \in Users, Access(u)
  PROVE  LET e == client[u].e IN
         /\ client[u].step = "access" /\ e \in Entries /\ Moves(u, "end", e)
         /\ UNCHANGED <<map, writer, dev, queues, worker, jan, faults>>
         /\ \/ UNCHANGED <<entry, latest>>
            \/ /\ client[u].op = "write" /\ Only(e) /\ entry'[e].copy = u
               /\ entry'[e].life = entry[e].life /\ entry'[e].path = entry[e].path
               /\ entry'[e].status = entry[e].status /\ entry'[e].home = entry[e].home
               /\ latest' \in [Paths -> Content]
               /\ \A p \in Paths : latest'[p] = IF p = entry[e].home THEN u ELSE latest[p]
<1>1. /\ client[u].step = "access" /\ Go(u, "end")
      /\ UNCHANGED <<map, writer, dev, queues, worker, jan, faults>>
  BY DEF Access, At
<1>2. client[u].e \in Entries /\ client[u].op \in {"read", "write"}
  BY <1>1, Constants DEF Types, ClientType, LockInv, Using
<1>3. Moves(u, "end", client[u].e)
  BY <1>1, GoMoves DEF Types, Steps
<1>4. CASE client[u].op = "read"
  BY <1>1, <1>2, <1>3, <1>4 DEF Access
<1>5. CASE client[u].op = "write"
  <2>1. /\ entry' = [entry EXCEPT ![client[u].e].copy = u]
        /\ latest' = [p \in Paths |-> IF p = entry[client[u].e].home THEN u ELSE latest[p]]
    BY <1>5 DEF Access
  <2>2. latest' \in [Paths -> Content]
    BY <2>1 DEF Types, Content
  <2>3. u \in Content
    BY DEF Content
  <2>4. QED
    BY <1>1, <1>2, <1>3, <1>5, <2>1, <2>2, <2>3 DEF Types, EntryType, Only
<1>6. QED
  BY <1>2, <1>4, <1>5

\* An access ends, at the entry that is now at the path.
EndsWith(u, e) ==
  LET p == client[u].path  op == client[u].op IN
  /\ CacheAccess(p, e) /\ Only(e) /\ p \in Paths /\ op \in {"read", "write"}
  /\ entry'[e].life = "alive" /\ entry'[e].path = p
  /\ entry'[e].copy = entry[e].copy /\ entry'[e].home = entry[e].home
  /\ entry'[e].status = IF op = "write" THEN "DIRTY" ELSE entry[e].status
  /\ faults' = faults
       \cup (IF e # client[u].e THEN {"endedElsewhere"} ELSE {})
       \cup (IF op = "write" /\ entry[e].copy = NoFile THEN {"failedWrite"} ELSE {})
       \cup IF op = "write" /\ Deleters(e) # {} THEN {"writtenWhileDeleted"} ELSE {}

LEMMA EndAccessDoes ==
  ASSUME Types, LockInv, MapInv, NEW u \in Users, EndAccess(u)
  PROVE  /\ client[u].step = "end" /\ Ends(u)
         /\ UNCHANGED <<writer, dev, queues, worker, jan, latest>>
         /\ \E e \in Entries : EndsWith(u, e)
<1> DEFINE p == client[u].path
           op == client[u].op
           r(e) == Cached(p, e)
<1>1. /\ client[u].step = "end" /\ Finish(u)
      /\ UNCHANGED <<writer, dev, queues, worker, jan, latest>>
  BY DEF EndAccess, At
<1>2. PICK e \in Entries :
        /\ CacheAccess(p, e)
        /\ entry' = [entry EXCEPT ![e] =
             [r(e) EXCEPT !.uses[op] = @ - 1, !.status = IF op = "write" THEN "DIRTY" ELSE @]]
        /\ faults' = faults
             \cup (IF e # client[u].e THEN {"endedElsewhere"} ELSE {})
             \cup (IF op = "write" /\ r(e).copy = NoFile THEN {"failedWrite"} ELSE {})
             \cup IF op = "write" /\ Deleters(e) # {} THEN {"writtenWhileDeleted"} ELSE {}
  BY DEF EndAccess
<1>3. p \in Paths /\ op \in {"read", "write"}
  BY <1>1 DEF LockInv
<1>4. /\ r(e) \in EntryType /\ r(e).life = "alive" /\ r(e).path = p
      /\ r(e).status = entry[e].status /\ r(e).copy = entry[e].copy /\ r(e).home = entry[e].home
  <2> HIDE DEF p
  <2>1. QED
    BY <1>2, <1>3, CacheAccessDoes
<1> DEFINE x == [r(e) EXCEPT !.uses[op] = @ - 1, !.status = IF op = "write" THEN "DIRTY" ELSE @]
<1>5. /\ x \in EntryType /\ x.life = "alive" /\ x.path = p
      /\ x.status = IF op = "write" THEN "DIRTY" ELSE r(e).status
      /\ x.copy = r(e).copy /\ x.home = r(e).home
  <2> HIDE DEF r, op, p
  <2>1. /\ r(e).uses \in [{"read", "write"} -> Int] /\ r(e).status \in Status
        /\ [r(e).uses EXCEPT ![op] = @ - 1] \in [{"read", "write"} -> Int]
    BY <1>3, <1>4 DEF EntryType
  <2>2. x = [r(e) EXCEPT !.uses = [r(e).uses EXCEPT ![op] = @ - 1],
                        !.status = IF op = "write" THEN "DIRTY" ELSE r(e).status]
    OBVIOUS
  <2>3. (IF op = "write" THEN "DIRTY" ELSE r(e).status) \in Status
    BY <2>1 DEF Status
  <2>4. QED
    BY <1>4, <2>1, <2>2, <2>3 DEF EntryType
<1>6. entry' = [entry EXCEPT ![e] = x]
  BY <1>2
<1> HIDE DEF x
<1>7. Only(e) /\ entry'[e] = x
  BY <1>5, <1>6 DEF Only, Types
<1>8. EndsWith(u, e)
  BY <1>2, <1>3, <1>4, <1>5, <1>7 DEF EndsWith
<1>9. Ends(u)
  BY <1>1, FinishEnds DEF Types
<1>10. QED
  BY <1>1, <1>8, <1>9

\* The destructor begins with a push of what is dirty.
BeginsDelete(e) ==
  /\ Only(e) /\ SameFile(e)
  /\ entry'[e].status = IF entry[e].status = "DIRTY" THEN "PUSHING" ELSE entry[e].status
  /\ pushq' \in Seq(Requests)
  /\ \A r \in Waiting(pushq') : r \in Waiting(pushq) \/ r.e = e

LEMMA BeginDeleteDoes ==
  ASSUME Types, NEW e \in Entries, entry[e].path \in Paths, BeginDelete(e)
  PROVE  BeginsDelete(e)
<1>1. CASE entry[e].status = "DIRTY"
  <2>1. /\ entry' = [entry EXCEPT ![e].status = "PUSHING"]
        /\ pushq' = Append(pushq, [e |-> e, path |-> entry[e].path])
    BY <1>1 DEF BeginDelete
  <2>2. Only(e) /\ SameFile(e) /\ entry'[e].status = "PUSHING"
    BY <2>1 DEF Types, EntryType, Status, Only, SameFile
  <2>3. [e |-> e, path |-> entry[e].path] \in Requests
    BY DEF Requests
  <2>4. /\ pushq' \in Seq(Requests)
        /\ Waiting(pushq') = Waiting(pushq) \cup {[e |-> e, path |-> entry[e].path]}
    BY <2>1, <2>3, AppendWaiting DEF Types
  <2>5. QED
    BY <1>1, <2>2, <2>4 DEF BeginsDelete
<1>2. CASE entry[e].status # "DIRTY"
  BY <1>2 DEF BeginDelete, BeginsDelete, Only, SameFile, Types
<1>3. QED
  BY <1>1, <1>2

LEMMA DestroyIs ==
  ASSUME NEW f \in [Entries -> EntryType], NEW e \in Entries
  PROVE  LET g == Destroy(f, e) IN
         /\ g \in [Entries -> EntryType] /\ \A x \in Entries \ {e} : g[x] = f[x]
         /\ g[e].life = "deleted" /\ g[e].status = "NONEXISTANT"
         /\ g[e].home = Nil /\ g[e].copy = NoFile
<1>1. LET x == [Unborn EXCEPT !.life = "deleted"] IN
      /\ x \in EntryType /\ x.life = "deleted" /\ x.status = "NONEXISTANT"
      /\ x.home = Nil /\ x.copy = NoFile
  BY UnbornIs DEF EntryType
<1>2. QED
  BY <1>1 DEF Destroy

\* The entry of path p is that of path q from now on; nothing else of the entries changes.
Carries(f) ==
  \A e \in Entries : /\ entry'[e].life = f[e].life /\ entry'[e].status = f[e].status
                     /\ entry'[e].copy = f[e].copy /\ entry'[e].home = f[e].home

LEMMA ReboundDoes ==
  ASSUME NEW m \in [Paths -> Entries \cup {0}], NEW f \in [Entries -> EntryType],
         NEW p \in Paths, NEW q \in Paths, Rebound(m, f, p, q)
  PROVE  /\ map' \in [Paths -> Entries \cup {0}] /\ entry' \in [Entries -> EntryType]
         /\ m[p] = 0 => map' = m /\ entry' = f
         /\ m[p] # 0 => /\ map'[q] = m[p] /\ (p # q => map'[p] = 0)
                        /\ \A x \in Paths \ {p, q} : map'[x] = m[x]
                        /\ entry'[m[p]].path = q
         /\ \A e \in Entries : e # m[p] => entry'[e] = f[e]
         /\ Carries(f)
<1>1. CASE m[p] = 0
  BY <1>1 DEF Rebound, Carries
<1>2. CASE m[p] # 0
  <2>1. m[p] \in Entries
    BY <1>2
  <2>2. map' = [m EXCEPT ![p] = 0, ![q] = m[p]] /\ entry' = [f EXCEPT ![m[p]].path = q]
    BY <1>2 DEF Rebound
  <2>3. /\ map' \in [Paths -> Entries \cup {0}] /\ map'[q] = m[p] /\ (p # q => map'[p] = 0)
        /\ \A x \in Paths \ {p, q} : map'[x] = m[x]
    BY <2>1, <2>2
  <2>4. /\ entry' \in [Entries -> EntryType] /\ entry'[m[p]].path = q
        /\ \A e \in Entries : e # m[p] => entry'[e] = f[e]
        /\ entry'[m[p]].life = f[m[p]].life /\ entry'[m[p]].status = f[m[p]].status
        /\ entry'[m[p]].copy = f[m[p]].copy /\ entry'[m[p]].home = f[m[p]].home
    <3>1. PICK e \in Entries : e = m[p]
      BY <2>1
    <3> DEFINE r == [f[e] EXCEPT !.path = q]
    <3>2. /\ r \in EntryType /\ r.path = q /\ r.life = f[e].life /\ r.status = f[e].status
          /\ r.copy = f[e].copy /\ r.home = f[e].home
      BY DEF EntryType
    <3>3. entry' = [f EXCEPT ![e] = r]
      BY <2>2, <3>1
    <3> HIDE DEF r
    <3>4. QED
      BY <3>1, <3>2, <3>3
  <2>5. Carries(f)
    BY <2>1, <2>4 DEF Carries
  <2>6. QED
    BY <1>2, <2>3, <2>4, <2>5
<1>3. QED
  BY <1>1, <1>2

\* The files of the entries change their place, and nothing else does.
Rehomed(p, q) ==
  /\ entry' \in [Entries -> EntryType]
  /\ \A e \in Entries :
       /\ entry'[e].life = entry[e].life /\ entry'[e].path = entry[e].path
       /\ entry'[e].copy = entry[e].copy /\ entry'[e].status = entry[e].status
       /\ entry'[e].home = IF entry[e].home = p THEN q ELSE entry[e].home
       /\ entry[e].home # p => entry'[e] = entry[e]

LEMMA RehomeDoes ==
  ASSUME Types, NEW p \in Paths, NEW q \in Paths \cup {Nil}, entry' = Rehome(p, q)
  PROVE  Rehomed(p, q)
<1>1. ASSUME NEW e \in Entries
      PROVE  /\ [entry[e] EXCEPT !.home = q] \in EntryType
             /\ [entry[e] EXCEPT !.home = q].home = q
             /\ [entry[e] EXCEPT !.home = q].life = entry[e].life
             /\ [entry[e] EXCEPT !.home = q].path = entry[e].path
             /\ [entry[e] EXCEPT !.home = q].copy = entry[e].copy
             /\ [entry[e] EXCEPT !.home = q].status = entry[e].status
  BY DEF Types, EntryType
<1>2. \A e \in Entries :
        entry'[e] = IF entry[e].home = p THEN [entry[e] EXCEPT !.home = q] ELSE entry[e]
  BY DEF Rehome
<1>3. entry' \in [Entries -> EntryType]
  BY <1>1 DEF Rehome, Types
<1>4. QED
  BY <1>1, <1>2, <1>3 DEF Rehomed

\* What the device answers to a pull: nothing, the file, or part of it.
Pulls(e, p) ==
  /\ Only(e) /\ entry'[e].life = entry[e].life /\ entry'[e].path = entry[e].path
  /\ \/ entry'[e].status = "FAIL" /\ entry'[e].copy = entry[e].copy /\ entry'[e].home = entry[e].home
     \/ /\ dev[p] # NoFile /\ entry'[e].copy \in {dev[p], Part}
        /\ entry'[e].status = "AVAILABLE" /\ entry'[e].home = p
PullFaults(e, p) ==
  /\ faults \subseteq faults' /\ faults' \subseteq faults \cup {"stalePull", "twoCopies", "brokenRead"}
  /\ entry'[e].status = "AVAILABLE" =>
       /\ entry[e].path # p => "stalePull" \in faults'
       /\ (\E f \in Entries \ {e} : entry[f].home = p) => "twoCopies" \in faults'
       /\ entry'[e].copy # dev[p] => "brokenRead" \in faults'

LEMMA ServePullDoes ==
  ASSUME Types, ServePull
  PROVE  \E e \in Entries, p \in Paths :
           /\ pullq # <<>> /\ Head(pullq) = [e |-> e, path |-> p] /\ pullq' = Tail(pullq)
           /\ Pulls(e, p) /\ PullFaults(e, p) /\ worker = Nil
           /\ UNCHANGED <<map, writer, dev, treeq, pushq, worker, client, jan, latest>>
<1>1. pullq # <<>> /\ pullq' = Tail(pullq) /\ worker = Nil
  BY DEF ServePull
<1>2. Head(pullq) \in Requests
  BY <1>1, TailWaiting DEF Types
<1>3. PICK e \in Entries, p \in Paths : Head(pullq) = [e |-> e, path |-> p]
  BY <1>2 DEF Requests
<1>4. Head(pullq).e = e /\ Head(pullq).path = p
  BY <1>3
<1>5. PICK got \in IF dev[p] = NoFile THEN {NoFile} ELSE {dev[p], Part, NoFile} :
        /\ entry' = [entry EXCEPT ![e] = IF got = NoFile THEN [@ EXCEPT !.status = "FAIL"]
                    ELSE [@ EXCEPT !.status = "AVAILABLE", !.copy = got, !.home = p]]
        /\ faults' = faults \cup IF got = NoFile THEN {} ELSE
               (IF entry[e].path # p THEN {"stalePull"} ELSE {})
               \cup (IF \E f \in Entries \ {e} : entry[f].home = p THEN {"twoCopies"} ELSE {})
               \cup IF got # dev[p] THEN {"brokenRead"} ELSE {}
  BY <1>4 DEF ServePull
<1>6. UNCHANGED <<map, writer, dev, treeq, pushq, worker, client, jan, latest>>
  BY DEF ServePull
<1>7. Pulls(e, p) /\ PullFaults(e, p)
  <2>1. CASE got = NoFile
    <3>1. entry' = [entry EXCEPT ![e] = [entry[e] EXCEPT !.status = "FAIL"]] /\ faults' = faults
      BY <1>5, <2>1
    <3>2. Only(e) /\ SameFile(e) /\ entry'[e].status = "FAIL"
      BY <3>1 DEF Types, EntryType, Status, Only, SameFile
    <3>3. QED
      BY <3>1, <3>2 DEF Pulls, PullFaults, SameFile
  <2>2. CASE got # NoFile
    <3>1. /\ entry' = [entry EXCEPT ![e] = [entry[e] EXCEPT !.status = "AVAILABLE", !.copy = got, !.home = p]]
          /\ dev[p] # NoFile /\ got \in {dev[p], Part}
      BY <1>5, <2>2
    <3>2. got \in Content
      BY <3>1 DEF Types, Content
    <3>3. /\ Only(e) /\ entry'[e].life = entry[e].life /\ entry'[e].path = entry[e].path
          /\ entry'[e].status = "AVAILABLE" /\ entry'[e].copy = got /\ entry'[e].home = p
      BY <3>1, <3>2 DEF Types, EntryType, Status, Only
    <3>4. PullFaults(e, p)
      BY <1>5, <2>2, <3>3 DEF PullFaults
    <3>5. QED
      BY <3>1, <3>3, <3>4 DEF Pulls
  <2>3. QED
    BY <2>1, <2>2
<1>8. QED
  BY <1>1, <1>3, <1>6, <1>7

\* A push replaces what the device has, if there is something on both sides and the device
\* does not refuse; or it only deletes it.
Replaceable(e, p) == entry[e].copy \notin {NoFile, Empty} /\ dev[p] # NoFile
Pushes(e, p, put) ==
  /\ Only(e) /\ SameFile(e)
  /\ entry'[e].status = IF entry[e].status # "PUSHING" THEN entry[e].status
                        ELSE IF put = "all" THEN "AVAILABLE" ELSE "DIRTY"
  /\ dev' \in [Paths -> Content] /\ (put # "nothing" => Replaceable(e, p))
  /\ dev'[p] = CASE put = "all" -> entry[e].copy [] put = "deletion" -> NoFile [] OTHER -> dev[p]
  /\ \A q \in Paths \ {p} : dev'[q] = dev[q]
PushFaults(e, p, put) ==
  /\ faults \subseteq faults' /\ faults' \subseteq faults \cup {"stalePush", "brokenPush", "refusedPush"}
  /\ entry[e].home # p => "stalePush" \in faults'
  /\ put = "deletion" => "brokenPush" \in faults'
  /\ Replaceable(e, p) /\ put = "nothing" /\ Deleters(e) # {} => "refusedPush" \in faults'

LEMMA ServePushDoes ==
  ASSUME Types, ServePush
  PROVE  \E e \in Entries, p \in Paths :
           /\ pushq # <<>> /\ Head(pushq) = [e |-> e, path |-> p] /\ pushq' = Tail(pushq)
           /\ \E put \in {"all", "nothing", "deletion"} : Pushes(e, p, put) /\ PushFaults(e, p, put)
           /\ worker = Nil /\ UNCHANGED <<map, writer, treeq, pullq, worker, client, jan, latest>>
<1>1. pushq # <<>> /\ pushq' = Tail(pushq) /\ worker = Nil
  BY DEF ServePush
<1>2. Head(pushq) \in Requests
  BY <1>1, TailWaiting DEF Types
<1>3. PICK e \in Entries, p \in Paths : Head(pushq) = [e |-> e, path |-> p]
  BY <1>2 DEF Requests
<1>4. Head(pushq).e = e /\ Head(pushq).path = p
  BY <1>3
<1>5. PICK put \in IF Replaceable(e, p) THEN {"all", "nothing", "deletion"} ELSE {"nothing"} :
        /\ dev' = CASE put = "all" -> [dev EXCEPT ![p] = entry[e].copy]
                    [] put = "deletion" -> [dev EXCEPT ![p] = NoFile]
                    [] OTHER -> dev
        /\ entry' = IF entry[e].status # "PUSHING" THEN entry
                    ELSE [entry EXCEPT ![e].status = IF put = "all" THEN "AVAILABLE" ELSE "DIRTY"]
        /\ faults' = faults
             \cup (IF entry[e].home # p THEN {"stalePush"} ELSE {})
             \cup (IF put = "deletion" THEN {"brokenPush"} ELSE {})
             \cup IF Replaceable(e, p) /\ put = "nothing" /\ Deleters(e) # {} THEN {"refusedPush"} ELSE {}
  BY <1>4 DEF ServePush, Replaceable
<1>6. UNCHANGED <<map, writer, treeq, pullq, worker, client, jan, latest>>
  BY DEF ServePush
<1>7. put \in {"all", "nothing", "deletion"} /\ (put # "nothing" => Replaceable(e, p))
  BY <1>5
<1>8. PushFaults(e, p, put)
  BY <1>5 DEF PushFaults
<1>9. Pushes(e, p, put)
  <2>1. entry[e].copy \in Content /\ NoFile \in Content
    BY DEF Types, EntryType, Content
  <2>2. /\ dev' \in [Paths -> Content]
        /\ dev'[p] = CASE put = "all" -> entry[e].copy [] put = "deletion" -> NoFile [] OTHER -> dev[p]
        /\ \A q \in Paths \ {p} : dev'[q] = dev[q]
    <3>1. CASE put = "all"
      BY <1>5, <2>1, <3>1 DEF Types
    <3>2. CASE put = "deletion"
      BY <1>5, <2>1, <3>2 DEF Types
    <3>3. CASE put = "nothing"
      BY <1>5, <3>3 DEF Types
    <3>4. QED
      BY <1>7, <3>1, <3>2, <3>3
  <2>3. /\ Only(e) /\ SameFile(e)
        /\ entry'[e].status = IF entry[e].status # "PUSHING" THEN entry[e].status
                              ELSE IF put = "all" THEN "AVAILABLE" ELSE "DIRTY"
    <3> DEFINE s == IF put = "all" THEN "AVAILABLE" ELSE "DIRTY"
    <3>1. s \in Status
      BY DEF Status
    <3>2. entry \in [Entries -> EntryType]
      BY DEF Types
    <3>3. CASE entry[e].status # "PUSHING"
      BY <1>5, <3>2, <3>3 DEF Only, SameFile
    <3>4. CASE entry[e].status = "PUSHING"
      <4>1. entry' = [entry EXCEPT ![e].status = s]
        BY <1>5, <3>4
      <4> HIDE DEF s
      <4>2. Only(e) /\ SameFile(e) /\ entry'[e].status = s
        BY <3>1, <3>2, <4>1 DEF EntryType, Only, SameFile
      <4>3. QED
        BY <3>4, <4>2 DEF s
    <3>5. QED
      BY <3>3, <3>4
  <2>4. QED
    BY <1>7, <2>2, <2>3 DEF Pushes
<1>10. QED
  BY <1>1, <1>3, <1>6, <1>7, <1>8, <1>9

\* A finite set as a sequence: whatever waits there is in the set.
LEMMA SetToSeqIs ==
  ASSUME NEW T, NEW S \in SUBSET T, IsFiniteSet(S)
  PROVE  SetToSeq(S) \in Seq(T) /\ \A r \in Waiting(SetToSeq(S)) : r \in S
<1>1. Cardinality(S) \in Nat /\ \E f \in [1 .. Cardinality(S) -> S] : IsInjective(f)
  BY FS_CardinalityType DEF ExistsBijection, Bijection, Injection, IsInjective
<1>2. SetToSeq(S) \in [1 .. Cardinality(S) -> S]
  BY <1>1 DEF SetToSeq
<1> DEFINE s == SetToSeq(S)
<1> HIDE DEF s
<1>3. s \in [1 .. Cardinality(S) -> S]
  BY <1>2 DEF s
<1>4. s \in [1 .. Cardinality(S) -> T]
  BY <1>3
<1>5. s \in Seq(T) /\ Len(s) = Cardinality(S)
  BY <1>1, <1>4, IsASeq, LenProperties
<1>6. \A r \in Waiting(s) : r \in S
  BY <1>3, <1>5 DEF Waiting
<1>7. QED
  BY <1>5, <1>6 DEF s

\* Two queues, one behind the other.
LEMMA ConcatWaiting ==
  ASSUME NEW S, NEW s \in Seq(S), NEW t \in Seq(S)
  PROVE  s \o t \in Seq(S) /\ Waiting(s \o t) \subseteq Waiting(s) \cup Waiting(t)
<1>1. /\ s \o t \in Seq(S) /\ Len(s \o t) = Len(s) + Len(t) /\ Len(s) \in Nat /\ Len(t) \in Nat
      /\ \A i \in 1 .. Len(s) + Len(t) : (s \o t)[i] = IF i <= Len(s) THEN s[i] ELSE t[i - Len(s)]
  BY ConcatProperties, LenProperties
<1>2. ASSUME NEW i \in 1 .. Len(s \o t)
      PROVE  (s \o t)[i] \in Waiting(s) \cup Waiting(t)
  <2>1. CASE i <= Len(s)
    BY <1>1, <1>2, <2>1 DEF Waiting
  <2>2. CASE ~(i <= Len(s))
    <3>1. i - Len(s) \in 1 .. Len(t) /\ (s \o t)[i] = t[i - Len(s)]
      BY <1>1, <1>2, <2>2
    <3>2. QED
      BY <3>1 DEF Waiting
  <2>3. QED
    BY <2>1, <2>2
<1>3. QED
  BY <1>1, <1>2 DEF Waiting

\* The janitor asks for pushes of what is dirty, and makes its list.
Scans(old) ==
  /\ entry' \in [Entries -> EntryType]
  /\ \A e \in Entries :
       /\ SameFile(e)
       /\ entry'[e] = entry[e] \/ (entry[e].status = "DIRTY" /\ entry'[e].status = "PUSHING")
  /\ pushq' \in Seq(Requests)
  /\ \A r \in Waiting(pushq') : r \in Waiting(pushq) \/ Alive(r.e)
  /\ jan' = [jan EXCEPT !.step = "lock", !.victims = old, !.rounds = @ + 1]

LEMMA ScanDoes ==
  ASSUME Types, MapInv, Scan
  PROVE  /\ jan.step = "rest" /\ jan.rounds < MaxRounds
         /\ UNCHANGED <<map, writer, dev, treeq, pullq, worker, client, latest, faults>>
         /\ \E old \in SUBSET Paths : Scans(old)
<1>1. /\ jan.step = "rest" /\ jan.rounds < MaxRounds
      /\ UNCHANGED <<map, writer, dev, treeq, pullq, worker, client, latest, faults>>
  BY DEF Scan
<1> DEFINE here == {p \in Paths : map[p] # 0}
           dirty == {map[p] : p \in {p \in here : entry[map[p]].status = "DIRTY" /\ entry[map[p]].uses["write"] = 0}}
<1>2. PICK push \in SUBSET dirty, old \in SUBSET {p \in here : IsIdle(entry[map[p]])} :
        /\ entry' = [e \in Entries |-> IF e \in push THEN [entry[e] EXCEPT !.status = "PUSHING"] ELSE entry[e]]
        /\ pushq' = pushq \o SetToSeq({[e |-> e, path |-> entry[e].path] : e \in push})
        /\ jan' = [jan EXCEPT !.step = "lock", !.victims = old, !.rounds = @ + 1]
  BY DEF Scan
<1>3. old \in SUBSET Paths
  BY <1>2
<1>4. \A e \in push : e \in Entries /\ Alive(e) /\ entry[e].status = "DIRTY" /\ entry[e].path \in Paths
  <2>1. ASSUME NEW p \in Paths, map[p] # 0 PROVE map[p] \in Entries /\ Alive(map[p])
    BY <2>1 DEF Types, MapInv, MapOf, Alive
  <2>2. \A e \in dirty : e \in Entries /\ Alive(e) /\ entry[e].status = "DIRTY"
    BY <2>1
  <2> HIDE DEF dirty
  <2>3. QED
    BY <1>2, <2>2 DEF MapInv, MapOf, Alive
<1>5. /\ entry' \in [Entries -> EntryType]
      /\ \A e \in Entries :
           /\ SameFile(e)
           /\ entry'[e] = entry[e] \/ (entry[e].status = "DIRTY" /\ entry'[e].status = "PUSHING")
  <2>1. ASSUME NEW e \in Entries
        PROVE  LET x == [entry[e] EXCEPT !.status = "PUSHING"] IN
               /\ x \in EntryType /\ x.status = "PUSHING" /\ x.life = entry[e].life
               /\ x.path = entry[e].path /\ x.copy = entry[e].copy /\ x.home = entry[e].home
    <3>1. entry[e] \in EntryType
      BY DEF Types
    <3>2. QED
      BY <3>1 DEF EntryType, Status
  <2>2. entry' \in [Entries -> EntryType]
    BY <1>2, <2>1 DEF Types
  <2>3. QED
    BY <1>2, <1>4, <2>1, <2>2 DEF SameFile
<1> DEFINE new == {[e |-> e, path |-> entry[e].path] : e \in push}
<1>6. new \in SUBSET Requests /\ \A r \in new : Alive(r.e)
  BY <1>4 DEF Requests
<1>7. IsFiniteSet(new)
  <2>1. IsFiniteSet(push)
    <3>1. push \in SUBSET Entries
      BY <1>4
    <3>2. QED
      BY <3>1, Constants, FS_Subset
  <2> DEFINE f == [e \in push |-> [e |-> e, path |-> entry[e].path]]
  <2>2. f \in Surjection(push, new)
    BY DEF Surjection
  <2> HIDE DEF f, new
  <2>3. QED
    BY <2>1, <2>2, FS_Surjection
<1> HIDE DEF new
<1>8. SetToSeq(new) \in Seq(Requests) /\ \A r \in Waiting(SetToSeq(new)) : r \in new
  BY <1>6, <1>7, SetToSeqIs
<1>9. pushq' = pushq \o SetToSeq(new)
  BY <1>2 DEF new
<1>10. pushq' \in Seq(Requests) /\ \A r \in Waiting(pushq') : r \in Waiting(pushq) \/ Alive(r.e)
  BY <1>6, <1>8, <1>9, ConcatWaiting DEF Types
<1>11. Scans(old)
  BY <1>2, <1>5, <1>10 DEF Scans
<1>12. QED
  BY <1>1, <1>3, <1>11

\* The file at p is gone, or at q, or made: the device, what was written last, and the
\* entries that hold it.
Removed(p) ==
  /\ Rehomed(p, Nil)
  /\ dev' = [dev EXCEPT ![p] = NoFile] /\ latest' = [latest EXCEPT ![p] = NoFile]
Moved(p, q) ==
  /\ dev[p] # NoFile /\ dev[q] = NoFile /\ Rehomed(p, q)
  /\ dev' = [dev EXCEPT ![p] = NoFile, ![q] = dev[p]]
  /\ latest' = [latest EXCEPT ![p] = NoFile, ![q] = latest[p]]
Created(p) ==
  /\ entry' = entry
  /\ dev' = [dev EXCEPT ![p] = IF dev[p] = NoFile THEN Empty ELSE dev[p]]
  /\ latest' = [latest EXCEPT ![p] = IF dev[p] = NoFile THEN Empty ELSE latest[p]]
Untouched == UNCHANGED <<entry, dev, latest>>

\* A request on the tree, of the thread that waits longest.
Serves(u) ==
  LET p == client[u].path  q == client[u].to  e == client[u].e  s == client[u].step IN
  /\ p \in Paths /\ s \notin {"idle", "end", "access", "pulling", "check", "pushing"}
  /\ \/ s = "list" /\ worker' = "listing" /\ Moves(u, "listed", e) /\ Untouched
     \/ s = "mkfile" /\ worker' = worker /\ Ends(u) /\ Created(p)
     \/ /\ s = "exists" /\ worker' = worker /\ q \in Paths
        /\ (Ends(u) \/ Moves(u, "forget", e)) /\ Untouched
     \/ /\ s = "exists" /\ worker' = worker /\ q \in Paths /\ client[u].op # "movedir"
        /\ Moves(u, "forget", e) /\ Removed(q)
     \/ s = "unlink" /\ worker' = worker /\ Ends(u) /\ Removed(p)
     \/ s = "move" /\ worker' = worker /\ Ends(u) /\ Untouched
     \/ s = "move" /\ worker' = worker /\ q \in Paths /\ Moves(u, "lock", e) /\ Moved(p, q)
     \/ s = "isdir" /\ worker' = worker /\ (\E t \in {"rebind", "rebindall"} : Moves(u, t, e)) /\ Untouched
     \/ s = "rebindall" /\ worker' = "rebinding" /\ client' = client /\ Untouched

LEMMA ServeTreeDoes ==
  ASSUME Types, LockInv, ServeTree
  PROVE  /\ worker = Nil /\ UNCHANGED <<map, writer, pullq, pushq, jan, faults>>
         /\ treeq' \in Seq(Users)
         /\ \E u \in Users : Serves(u)
<1>1. worker = Nil /\ treeq # <<>> /\ UNCHANGED <<map, writer, pullq, pushq, jan, faults>>
  BY DEF ServeTree
<1>2. Head(treeq) \in Users /\ Tail(treeq) \in Seq(Users)
  BY <1>1, TailWaiting DEF Types
<1>3. PICK u \in Users : u = Head(treeq)
  BY <1>2
<1> DEFINE p == client[u].path
           q == client[u].to
<1>4. /\ \/ Listing(u) \/ CreateAsFile(u, p) \/ Exists(u, p, q) \/ DeleteNode(u, p)
         \/ MoveNode(u, p, q) \/ IsDir(u) \/ RebindAll(u)
      /\ treeq' = IF At(u, "isdir") /\ client[u].op = "movedir" THEN Append(Tail(treeq), u) ELSE Tail(treeq)
  BY <1>3 DEF ServeTree
<1>5. treeq' \in Seq(Users)
  BY <1>2, <1>4, AppendWaiting
<1>6. client \in [Users -> ClientType] /\ client[u].step \in Steps
  BY DEF Types, ClientType
<1>7. client[u].step \in {"list", "mkfile", "exists", "unlink", "move", "isdir", "rebindall"}
  BY <1>4 DEF Listing, CreateAsFile, Exists, DeleteNode, MoveNode, IsDir, RebindAll, At
<1>8. p \in Paths /\ (client[u].step \in {"exists", "move"} => q \in Paths)
  BY <1>7 DEF LockInv, OnePath
<1>9. {"listed", "forget", "lock", "rebind", "rebindall"} \subseteq Steps
  BY DEF Steps
<1>a. ASSUME NEW s \in {"listed", "forget", "lock", "rebind", "rebindall"}, Go(u, s)
      PROVE  Moves(u, s, client[u].e)
  BY <1>6, <1>9, <1>a, GoMoves
<1>b. Finish(u) => Ends(u)
  BY <1>6, FinishEnds
<1>c. ASSUME NEW x \in Paths, RemoveFile(x) PROVE Removed(x)
  <2>1. /\ entry' = Rehome(x, Nil)
        /\ dev' = [dev EXCEPT ![x] = NoFile] /\ latest' = [latest EXCEPT ![x] = NoFile]
    BY <1>c DEF RemoveFile
  <2>2. Rehomed(x, Nil)
    BY <2>1, RehomeDoes
  <2>3. QED
    BY <2>1, <2>2 DEF Removed
<1>10. Serves(u)
  <2>1. CASE Listing(u)
    <3>1. client[u].step = "list" /\ worker' = "listing" /\ Go(u, "listed") /\ Untouched
      BY <2>1 DEF Listing, At, Untouched
    <3>2. QED
      BY <1>8, <1>a, <3>1 DEF Serves
  <2>2. CASE CreateAsFile(u, p)
    <3>1. client[u].step = "mkfile" /\ worker' = worker /\ Finish(u) /\ Created(p)
      BY <2>2 DEF CreateAsFile, At, Created
    <3>2. QED
      BY <1>8, <1>b, <3>1 DEF Serves
  <2>3. CASE Exists(u, p, q)
    <3>1. /\ client[u].step = "exists" /\ worker' = worker
          /\ \/ (Finish(u) \/ Go(u, "forget")) /\ Untouched
             \/ client[u].op # "movedir" /\ Go(u, "forget") /\ RemoveFile(q)
      BY <2>3 DEF Exists, At, Untouched
    <3>2. QED
      BY <1>8, <1>a, <1>b, <1>c, <3>1 DEF Serves
  <2>4. CASE DeleteNode(u, p)
    <3>1. client[u].step = "unlink" /\ worker' = worker /\ Finish(u) /\ RemoveFile(p)
      BY <2>4 DEF DeleteNode, At
    <3>2. QED
      BY <1>8, <1>b, <1>c, <3>1 DEF Serves
  <2>5. CASE MoveNode(u, p, q)
    <3>1. /\ client[u].step = "move" /\ worker' = worker
          /\ \/ Finish(u) /\ Untouched
             \/ /\ Go(u, "lock") /\ dev[p] # NoFile /\ dev[q] = NoFile /\ entry' = Rehome(p, q)
                /\ dev' = [dev EXCEPT ![p] = NoFile, ![q] = dev[p]]
                /\ latest' = [latest EXCEPT ![p] = NoFile, ![q] = latest[p]]
      BY <2>5 DEF MoveNode, At, Untouched
    <3>2. CASE Finish(u) /\ Untouched
      BY <1>8, <1>b, <3>1, <3>2 DEF Serves
    <3>3. CASE /\ Go(u, "lock") /\ dev[p] # NoFile /\ dev[q] = NoFile /\ entry' = Rehome(p, q)
               /\ dev' = [dev EXCEPT ![p] = NoFile, ![q] = dev[p]]
               /\ latest' = [latest EXCEPT ![p] = NoFile, ![q] = latest[p]]
      <4>1. p \in Paths /\ q \in Paths
        BY <1>8, <3>1
      <4>2. Rehomed(p, q)
        <5> HIDE DEF p, q
        <5>1. QED
          BY <3>3, <4>1, RehomeDoes
      <4>3. Moved(p, q)
        BY <3>3, <4>2 DEF Moved
      <4>4. Moves(u, "lock", client[u].e)
        BY <1>a, <3>3
      <4>5. QED
        BY <3>1, <4>1, <4>3, <4>4 DEF Serves
    <3>4. QED
      BY <3>1, <3>2, <3>3
  <2>6. CASE IsDir(u)
    <3>1. /\ client[u].step = "isdir" /\ worker' = worker /\ Untouched
          /\ Go(u, "rebind") \/ Go(u, "rebindall")
      BY <2>6 DEF IsDir, At, Untouched
    <3>2. \E t \in {"rebind", "rebindall"} : Moves(u, t, client[u].e)
      BY <1>a, <3>1
    <3>3. QED
      BY <1>8, <3>1, <3>2 DEF Serves
  <2>7. CASE RebindAll(u)
    <3>1. client[u].step = "rebindall" /\ worker' = "rebinding" /\ client' = client /\ Untouched
      BY <2>7 DEF RebindAll, At, Untouched
    <3>2. QED
      BY <1>8, <3>1 DEF Serves
  <2>8. QED
    BY <1>4, <2>1, <2>2, <2>3, <2>4, <2>5, <2>6, <2>7
<1>11. QED
  BY <1>1, <1>5, <1>10

-----------------------------------------------------------------------------
(* The map and the lives of its entries.                                   *)

\* No two paths share an entry.
LEMMA OneEach ==
  ASSUME NEW m \in [Paths -> Entries \cup {0}], NEW f, MapOf(m, f),
         NEW p \in Paths, NEW q \in Paths, p # q, m[p] # 0
  PROVE  m[p] # m[q]
BY DEF MapOf

LEMMA DestroyMap ==
  ASSUME NEW m \in [Paths -> Entries \cup {0}], NEW f \in [Entries -> EntryType], MapOf(m, f),
         NEW q \in Paths, NEW e \in Entries, m[q] = e
  PROVE  MapOf([m EXCEPT ![q] = 0], Destroy(f, e))
<1> DEFINE n == [m EXCEPT ![q] = 0]
           g == Destroy(f, e)
<1>1. /\ g \in [Entries -> EntryType] /\ \A x \in Entries \ {e} : g[x] = f[x]
      /\ g[e].life = "deleted" /\ g[e].status = "NONEXISTANT"
      /\ g[e].home = Nil /\ g[e].copy = NoFile
  BY DestroyIs
<1>2. n[q] = 0 /\ \A x \in Paths \ {q} : n[x] = m[x] /\ n[x] # e
  BY Constants, OneEach
<1>3. m[q] # 0 /\ f[e].path = q
  BY Constants DEF MapOf
<1> HIDE DEF n, g
<1>4. ASSUME NEW p \in Paths, n[p] # 0 PROVE g[n[p]].life = "alive" /\ g[n[p]].path = p
  <2>1. n[p] = m[p] /\ m[p] \in Entries \ {e}
    BY <1>2, <1>4
  <2>2. QED
    BY <1>1, <1>4, <2>1 DEF MapOf
<1>5. ASSUME NEW x \in Entries
      PROVE  IF g[x].life = "alive" THEN g[x].path \in Paths /\ n[g[x].path] = x
             ELSE g[x].status = "NONEXISTANT" /\ g[x].home = Nil /\ g[x].copy = NoFile
  <2>1. CASE x = e
    BY <1>1, <2>1
  <2>2. CASE x # e
    BY <1>1, <1>2, <2>2 DEF MapOf
  <2>3. QED
    BY <2>1, <2>2
<1>6. QED
  BY <1>4, <1>5 DEF MapOf, n, g

LEMMA ReboundMap ==
  ASSUME NEW m \in [Paths -> Entries \cup {0}], NEW f \in [Entries -> EntryType], MapOf(m, f),
         NEW p \in Paths, NEW q \in Paths, m[p] = 0 \/ m[q] = 0, Rebound(m, f, p, q)
  PROVE  MapOf(map', entry')
<1>1. CASE m[p] = 0
  BY <1>1, ReboundDoes
<1>2. CASE m[p] # 0
  <2>1. /\ map' \in [Paths -> Entries \cup {0}] /\ entry' \in [Entries -> EntryType]
        /\ map'[q] = m[p] /\ (p # q => map'[p] = 0)
        /\ \A x \in Paths \ {p, q} : map'[x] = m[x]
        /\ entry'[m[p]].path = q
        /\ \A e \in Entries : e # m[p] => entry'[e] = f[e]
        /\ \A e \in Entries : /\ entry'[e].life = f[e].life /\ entry'[e].status = f[e].status
                              /\ entry'[e].copy = f[e].copy /\ entry'[e].home = f[e].home
    BY <1>2, ReboundDoes DEF Carries
  <2>2. m[p] \in Entries /\ f[m[p]].life = "alive" /\ m[q] = 0 /\ p # q
    BY <1>2 DEF MapOf
  <2>3. ASSUME NEW x \in Paths, map'[x] # 0
        PROVE  entry'[map'[x]].life = "alive" /\ entry'[map'[x]].path = x
    <3>1. CASE x = q
      BY <2>1, <2>2, <3>1
    <3>2. CASE x # q
      <4>1. map'[x] = m[x] /\ x # p /\ m[x] # m[p] /\ m[x] \in Entries
        BY <1>2, <2>1, <2>2, <2>3, <3>2, OneEach
      <4>2. QED
        BY <2>1, <2>3, <4>1 DEF MapOf
    <3>3. QED
      BY <3>1, <3>2
  <2>4. ASSUME NEW e \in Entries
        PROVE  IF entry'[e].life = "alive" THEN entry'[e].path \in Paths /\ map'[entry'[e].path] = e
               ELSE entry'[e].status = "NONEXISTANT" /\ entry'[e].home = Nil /\ entry'[e].copy = NoFile
    <3>1. CASE e = m[p]
      BY <2>1, <2>2, <3>1
    <3>2. CASE e # m[p] /\ f[e].life = "alive"
      <4>1. entry'[e] = f[e] /\ f[e].path \in Paths /\ m[f[e].path] = e
        BY <2>1, <3>2 DEF MapOf
      <4>2. f[e].path # p /\ f[e].path # q
        BY <2>2, <3>2, <4>1, Constants
      <4>3. map'[f[e].path] = e
        BY <2>1, <4>1, <4>2
      <4>4. QED
        BY <3>2, <4>1, <4>3
    <3>3. CASE e # m[p] /\ f[e].life # "alive"
      BY <2>1, <3>3 DEF MapOf
    <3>4. QED
      BY <3>1, <3>2, <3>3
  <2>5. QED
    BY <2>3, <2>4 DEF MapOf
<1>3. QED
  BY <1>1, <1>2

\* What becomes of an entry that is deleted at path q by x, who alone may have it.
Destroyed(e, q, x) ==
  /\ e \in Entries /\ q \in Paths
  /\ "freed" \notin faults' =>
       /\ map[q] = e
       /\ \A r \in Waiting(pullq) \cup Waiting(pushq) : r.e # e
       /\ \A u \in Users : client[u].e = e => u = x
       /\ jan.e = e => x = Janitor
  /\ "strayEntry" \notin faults' => entry[e].home \in {q, Nil}
  /\ faults \subseteq faults' /\ faults' \subseteq Faults

LEMMA DestroyFaultsMean ==
  ASSUME Types, NEW e \in Entries, NEW q \in Paths, NEW x, NEW F \in SUBSET Faults,
         faults' = faults \cup DestroyFaults(e, x, q) \cup F
  PROVE  Destroyed(e, q, x)
<1>1. faults \subseteq faults' /\ faults' \subseteq Faults
  BY DEF DestroyFaults, Faults, Types
<1>2. ASSUME "freed" \notin faults'
      PROVE  map[q] = e /\ ~Queued(e) /\ Holders(e) \ {x} = {}
  BY <1>2 DEF DestroyFaults
<1>3. ASSUME ~Queued(e), NEW r \in Waiting(pullq) \cup Waiting(pushq) PROVE r.e # e
  <2>1. DOMAIN pullq = 1 .. Len(pullq) /\ DOMAIN pushq = 1 .. Len(pushq)
    BY LenProperties DEF Types
  <2>2. CASE r \in Waiting(pullq)
    BY <1>3, <2>1, <2>2 DEF Queued, Waiting
  <2>3. CASE r \in Waiting(pushq)
    BY <1>3, <2>1, <2>3 DEF Queued, Waiting
  <2>4. QED
    BY <2>2, <2>3
<1>4. ASSUME Holders(e) \ {x} = {}
      PROVE  (\A u \in Users : client[u].e = e => u = x) /\ (jan.e = e => x = Janitor)
  BY <1>4 DEF Holders
<1>5. ASSUME "strayEntry" \notin faults' PROVE entry[e].home \in {q, Nil}
  <2>1. entry[e].home \notin Paths \ {q}
    BY <1>5 DEF DestroyFaults
  <2>2. entry[e].home \in Paths \cup {Nil}
    BY DEF Types, EntryType
  <2>3. QED
    BY <2>1, <2>2
<1>6. QED
  BY <1>1, <1>2, <1>3, <1>4, <1>5 DEF Destroyed

-----------------------------------------------------------------------------
(* What the threads, the janitor and the worker do.                        *)

\* A thread goes on without touching anything but the lock of the map.
Talks(u) ==
  LET q == client[u].to  e == client[u].e  s == client[u].step IN
  /\ UNCHANGED <<map, entry, dev, latest, pullq, pushq, jan>> /\ treeq' \in Seq(Users)
  /\ faults \subseteq faults' /\ faults' \subseteq faults \cup {"grantedMidPull"}
  /\ \/ s = "pulling" /\ UNCHANGED <<writer, worker>> /\ Moves(u, "check", e)
     \/ /\ s = "check" /\ UNCHANGED <<writer, worker>>
        /\ \/ /\ Moves(u, "access", e) /\ entry[e].status # "FAIL"
              /\ entry[e].status = "PULLING" => "grantedMidPull" \in faults'
           \/ Moves(u, "end", e)
     \/ s = "pushing" /\ UNCHANGED <<writer, worker>> /\ Moves(u, "access", e)
     \/ s = "forgotten" /\ UNCHANGED <<writer, worker>> /\ Moves(u, "unlink", e)
     \/ /\ s = "forget" /\ UNCHANGED <<writer, worker>> /\ q \in Paths
        /\ client[u].op = "movedir" \/ map[q] = 0
        /\ Moves(u, "move", e)
     \/ s = "lock" /\ writer = Nil /\ writer' = u /\ worker' = worker /\ Moves(u, "isdir", e)
     \/ s = "unlock" /\ writer' = Nil /\ worker' = worker /\ Ends(u)
     \/ s = "listed" /\ writer' = writer /\ worker = "listing" /\ worker' = Nil /\ Ends(u)
     \/ /\ s = "idle" /\ UNCHANGED <<writer, worker>>
        /\ client' \in [Users -> ClientType] /\ \A v \in Users \ {u} : client'[v] = client[v]
        /\ client'[u].step \in {"list", "mkfile", "exists"} /\ client'[u].e = 0
        /\ client'[u].path \in Paths /\ client'[u].to \in Paths

LEMMA TalksDo ==
  ASSUME Types, LockInv, NEW u \in Users,
         \/ AwaitAccess(u) \/ CheckAccess(u) \/ Unlink(u)
         \/ Forget(u) /\ (client[u].op = "movedir" \/ map[client[u].to] = 0)
         \/ LockMap(u) \/ UnlockMap(u) \/ \E p, q \in Paths, op \in Menu[u] : Call(u, op, p, q)
  PROVE  Talks(u)
<1> USE DEF queues
<1>0. /\ client \in [Users -> ClientType] /\ client[u] \in ClientType
      /\ treeq \in Seq(Users) /\ Append(treeq, u) \in Seq(Users)
  BY AppendWaiting DEF Types
<1>1. CASE AwaitAccess(u)
  <2>1. /\ UNCHANGED <<map, writer, entry, dev, queues, worker, jan, latest, faults>>
        /\ \/ client[u].step = "pulling" /\ Go(u, "check")
           \/ client[u].step = "pushing" /\ Go(u, "access")
    BY <1>1 DEF AwaitAccess, At
  <2>2. {"access", "check"} \subseteq Steps
    BY DEF Steps
  <2>3. \A s \in {"access", "check"} : Go(u, s) => Moves(u, s, client[u].e)
    BY <1>0, <2>2, GoMoves
  <2>4. QED
    BY <1>0, <2>1, <2>3 DEF Talks
<1>a. CASE CheckAccess(u)
  <2> DEFINE s == entry[client[u].e].status
  <2>1. /\ client[u].step = "check" /\ UNCHANGED <<map, writer, entry, dev, queues, worker, jan, latest>>
        /\ (s = "FAIL" /\ Go(u, "end")) \/ (s # "FAIL" /\ Go(u, "access"))
        /\ faults' = IF s = "PULLING" THEN faults \cup {"grantedMidPull"} ELSE faults
    BY <1>a DEF CheckAccess, At
  <2>2. {"access", "end"} \subseteq Steps
    BY DEF Steps
  <2>3. \A t \in {"access", "end"} : Go(u, t) => Moves(u, t, client[u].e)
    BY <1>0, <2>2, GoMoves
  <2>4. QED
    BY <1>0, <2>1, <2>3 DEF Talks
<1>2. CASE Unlink(u)
  <2>1. /\ client[u].step = "forgotten" /\ Go(u, "unlink") /\ treeq' = Append(treeq, u)
        /\ UNCHANGED <<map, writer, entry, dev, pullq, pushq, worker, jan, latest, faults>>
    BY <1>2 DEF Unlink, At, Ask
  <2>2. Moves(u, "unlink", client[u].e)
    BY <1>0, <2>1, GoMoves DEF Steps
  <2>3. QED
    BY <1>0, <2>1, <2>2 DEF Talks
<1>3. CASE Forget(u) /\ (client[u].op = "movedir" \/ map[client[u].to] = 0)
  <2>1. /\ client[u].step = "forget" /\ Go(u, "move") /\ treeq' = Append(treeq, u)
        /\ UNCHANGED <<map, writer, entry, dev, pullq, pushq, worker, jan, latest, faults>>
    BY <1>3 DEF Forget, At, Ask
  <2>2. Moves(u, "move", client[u].e)
    BY <1>0, <2>1, GoMoves DEF Steps
  <2>3. client[u].to \in Paths
    BY <2>1 DEF LockInv, OnePath
  <2>4. QED
    BY <1>0, <1>3, <2>1, <2>2, <2>3 DEF Talks
<1>4. CASE LockMap(u)
  <2>1. /\ client[u].step = "lock" /\ Go(u, "isdir") /\ treeq' = Append(treeq, u)
        /\ writer = Nil /\ writer' = u
        /\ UNCHANGED <<map, entry, dev, pullq, pushq, worker, jan, latest, faults>>
    BY <1>4 DEF LockMap, At, Ask, Unlocked
  <2>2. Moves(u, "isdir", client[u].e)
    BY <1>0, <2>1, GoMoves DEF Steps
  <2>3. QED
    BY <1>0, <2>1, <2>2 DEF Talks
<1>5. CASE UnlockMap(u)
  <2>1. /\ client[u].step = "unlock" /\ Finish(u) /\ writer' = Nil
        /\ UNCHANGED <<map, entry, dev, queues, worker, jan, latest, faults>>
    BY <1>5 DEF UnlockMap, At
  <2>2. Ends(u)
    BY <1>0, <2>1, FinishEnds
  <2>3. QED
    BY <1>0, <2>1, <2>2 DEF Talks
<1>6. ASSUME NEW p \in Paths, NEW q \in Paths, NEW op \in Menu[u], Call(u, op, p, q)
      PROVE  Talks(u)
  <2> DEFINE s == CASE op = "list" -> "list" [] op = "create" -> "mkfile" [] OTHER -> "exists"
  <2>1. /\ client[u] = Idle /\ op \in {"list", "create", "move", "movedir"}
        /\ client' = [client EXCEPT ![u] = [op |-> op, path |-> p, to |-> q, e |-> 0, step |-> s]]
        /\ treeq' = Append(treeq, u)
        /\ UNCHANGED <<map, writer, entry, dev, pullq, pushq, worker, jan, latest, faults>>
    BY <1>6 DEF Call
  <2>2. s \in {"list", "mkfile", "exists"} /\ s \in Steps /\ op \in Operations
    BY <2>1 DEF Steps, Operations
  <2>3. client[u].step = "idle"
    BY <2>1 DEF Idle
  <2> HIDE DEF s
  <2>4. /\ client' \in [Users -> ClientType] /\ client'[u].step = s /\ client'[u].e = 0
        /\ client'[u].path = p /\ client'[u].to = q
        /\ \A v \in Users \ {u} : client'[v] = client[v]
    BY <1>0, <2>1, <2>2 DEF ClientType
  <2>5. QED
    BY <1>0, <2>1, <2>2, <2>3, <2>4 DEF Talks
<1>7. QED
  BY <1>1, <1>a, <1>2, <1>3, <1>4, <1>5, <1>6

LEMMA EndListingDoes ==
  ASSUME Types, EndListing
  PROVE  \E u \in Users : Talks(u)
<1>1. PICK u \in Users : client[u].step = "listed" /\ Finish(u)
  BY DEF EndListing, At
<1>2. /\ worker = "listing" /\ worker' = Nil
      /\ UNCHANGED <<map, writer, entry, dev, queues, jan, latest, faults>>
  BY DEF EndListing
<1>3. Ends(u)
  BY <1>1, FinishEnds DEF Types
<1>4. QED
  BY <1>1, <1>2, <1>3 DEF Talks, Types, queues

\* A mover begins to delete the entry at its new path.
StartsDeleting(u) ==
  LET q == client[u].to  s == client[u].step IN
  /\ (s = "forget" /\ client[u].op # "movedir") \/ s = "rebind"
  /\ q \in Paths /\ map[q] \in Entries
  /\ BeginsDelete(map[q]) /\ Moves(u, IF s = "forget" THEN "forgetting" ELSE "rebinding", map[q])
  /\ UNCHANGED <<map, writer, dev, latest, treeq, pullq, worker, jan, faults>>

LEMMA StartsDeletingDoes ==
  ASSUME Types, LockInv, MapInv, NEW u \in Users,
         \/ Forget(u) /\ client[u].op # "movedir" /\ map[client[u].to] # 0
         \/ Rebind(u) /\ map[client[u].path] # 0 /\ map[client[u].to] # 0
  PROVE  StartsDeleting(u)
<1> DEFINE q == client[u].to
           s == client[u].step
           t == IF s = "forget" THEN "forgetting" ELSE "rebinding"
<1>1. /\ (s = "forget" /\ client[u].op # "movedir") \/ s = "rebind"
      /\ map[q] # 0 /\ BeginDelete(map[q]) /\ client' = [client EXCEPT ![u].step = t, ![u].e = map[q]]
      /\ UNCHANGED <<map, writer, dev, latest, treeq, pullq, worker, jan, faults>>
  BY DEF Forget, Rebind, At
<1>2. q \in Paths
  BY <1>1 DEF LockInv, OnePath
<1>3. map[q] \in Entries /\ entry[map[q]].path \in Paths
  BY <1>1, <1>2 DEF Types, MapInv, MapOf
<1>4. BeginsDelete(map[q])
  BY <1>1, <1>3, BeginDeleteDoes
<1>5. t \in Steps
  BY DEF Steps
<1>6. Moves(u, t, map[q])
  <2> HIDE DEF t, q
  <2>1. QED
    BY <1>1, <1>3, <1>5, TakesMoves DEF Types
<1>7. QED
  BY <1>1, <1>2, <1>3, <1>4, <1>6 DEF StartsDeleting

\* A mover has deleted the entry at its new path.
Forgets(u) ==
  LET q == client[u].to  e == client[u].e IN
  /\ client[u].step = "forgetting" /\ Moves(u, "move", 0) /\ treeq' \in Seq(Users)
  /\ entry[e].status # "PUSHING" /\ entry' = Destroy(entry, e) /\ map' = [map EXCEPT ![q] = 0]
  /\ Destroyed(e, q, u)
  /\ UNCHANGED <<writer, dev, latest, pullq, pushq, worker, jan>>

LEMMA ForgottenDoes ==
  ASSUME Types, LockInv, NEW u \in Users, Forgotten(u)
  PROVE  Forgets(u)
<1> DEFINE q == client[u].to
           e == client[u].e
<1>1. /\ client[u].step = "forgetting" /\ entry[e].status # "PUSHING"
      /\ entry' = Destroy(entry, e) /\ map' = [map EXCEPT ![q] = 0]
      /\ faults' = faults \cup DestroyFaults(e, u, q)
      /\ client' = [client EXCEPT ![u].step = "move", ![u].e = 0] /\ treeq' = Append(treeq, u)
      /\ UNCHANGED <<writer, dev, latest, pullq, pushq, worker, jan>>
  BY DEF Forgotten, At, Deletable
<1>2. q \in Paths /\ e \in Entries
  BY <1>1 DEF LockInv, OnePath, Using, Types, ClientType
<1>3. Moves(u, "move", 0)
  BY <1>1, TakesMoves DEF Types, Steps
<1>4. treeq' \in Seq(Users)
  BY <1>1, AppendWaiting DEF Types
<1>5. Destroyed(e, q, u)
  <2> HIDE DEF q, e
  <2>1. faults' = faults \cup DestroyFaults(e, u, q) \cup {} /\ {} \in SUBSET Faults
    BY <1>1
  <2>2. QED
    BY <1>2, <2>1, DestroyFaultsMean
<1>6. QED
  BY <1>1, <1>3, <1>4, <1>5 DEF Forgets

\* What is rebound is the file that was moved, and nobody is about to delete it.
RightOne(p, q) ==
  /\ faults \subseteq faults' /\ faults' \subseteq Faults
  /\ map[p] # 0 =>
       /\ "betweenDeletes" \notin faults' =>
            \A u \in Users : client[u].step \in {"forgotten", "unlink"} => client[u].path # q
       /\ "strayEntry" \notin faults' => entry[map[p]].copy = NoFile \/ entry[map[p]].home = q

LEMMA RebindFaultsMean ==
  ASSUME Types, NEW p \in Paths, NEW q \in Paths, NEW F \in SUBSET Faults,
         faults' = faults \cup F \cup RebindFaults(p, q)
  PROVE  RightOne(p, q) /\ RebindFaults(p, q) \in SUBSET Faults
<1>1. RebindFaults(p, q) \in SUBSET Faults
  BY DEF RebindFaults, BetweenDeletes, Faults
<1>2. faults \subseteq faults' /\ faults' \subseteq Faults
  BY <1>1 DEF Types
<1>3. ASSUME map[p] # 0, "betweenDeletes" \notin faults'
      PROVE  \A u \in Users : client[u].step \in {"forgotten", "unlink"} => client[u].path # q
  BY <1>3 DEF RebindFaults, BetweenDeletes
<1>4. ASSUME map[p] # 0, "strayEntry" \notin faults'
      PROVE  entry[map[p]].copy = NoFile \/ entry[map[p]].home = q
  BY <1>4 DEF RebindFaults
<1>5. QED
  BY <1>1, <1>2, <1>3, <1>4 DEF RightOne

\* The entry at the old path of a mover is rebound to the new one, after what was there
\* has been deleted.
Replaces(u, e) ==
  LET p == client[u].path  q == client[u].to IN
  /\ Destroyed(e, q, u) /\ entry[e].status # "PUSHING"
  /\ entry[e].status = "DIRTY" => client[u].step = "rebinding" /\ client[u].e = e
  /\ Rebound([map EXCEPT ![q] = 0], Destroy(entry, e), p, q)
Rebinds(u) ==
  LET p == client[u].path  q == client[u].to  s == client[u].step IN
  /\ p \in Paths /\ q \in Paths /\ RightOne(p, q)
  /\ \/ s \in {"rebind", "rebinding"} /\ worker' = worker /\ writer' = Nil /\ Ends(u)
     \/ /\ s = "rebindall" /\ worker = "rebinding" /\ worker' = Nil
        /\ writer' = writer /\ Moves(u, "unlock", client[u].e)
  /\ \/ (map[p] = 0 \/ map[q] = 0) /\ Rebound(map, entry, p, q)
     \/ \E e \in Entries : Replaces(u, e)
  /\ UNCHANGED <<dev, latest, treeq, pullq, pushq, jan>>

LEMMA RebindDoes ==
  ASSUME Types, LockInv, NEW u \in Users, Rebind(u),
         map[client[u].path] = 0 \/ map[client[u].to] = 0
  PROVE  Rebinds(u)
<1> DEFINE p == client[u].path
           q == client[u].to
<1>1. /\ client[u].step = "rebind" /\ Rebound(map, entry, p, q) /\ Finish(u) /\ writer' = Nil
      /\ faults' = faults \cup RebindFaults(p, q)
      /\ UNCHANGED <<dev, latest, treeq, pullq, pushq, worker, jan>>
  BY DEF Rebind, At
<1>2. p \in Paths /\ q \in Paths
  BY <1>1 DEF LockInv, OnePath
<1>3. RightOne(p, q)
  <2> HIDE DEF p, q
  <2>1. faults' = faults \cup {} \cup RebindFaults(p, q) /\ {} \in SUBSET Faults
    BY <1>1
  <2>2. QED
    BY <1>2, <2>1, RebindFaultsMean
<1>4. Ends(u)
  BY <1>1, FinishEnds DEF Types
<1>5. QED
  BY <1>1, <1>2, <1>3, <1>4 DEF Rebinds

\* The faults of deleting and rebinding.
LEMMA ReplaceFaults ==
  ASSUME Types, NEW e \in Entries, NEW p \in Paths, NEW q \in Paths, NEW u,
         faults' = faults \cup DestroyFaults(e, u, q) \cup RebindFaults(p, q)
  PROVE  Destroyed(e, q, u) /\ RightOne(p, q)
<1>1. DestroyFaults(e, u, q) \in SUBSET Faults
  BY DEF DestroyFaults, Faults
<1>2. RightOne(p, q) /\ RebindFaults(p, q) \in SUBSET Faults
  BY <1>1, RebindFaultsMean
<1>3. QED
  BY <1>2, DestroyFaultsMean

LEMMA RebindingDoes ==
  ASSUME Types, LockInv, NEW u \in Users, Rebinding(u)
  PROVE  Rebinds(u)
<1> DEFINE p == client[u].path
           q == client[u].to
           e == client[u].e
<1>1. /\ client[u].step = "rebinding" /\ entry[e].status # "PUSHING"
      /\ Rebound([map EXCEPT ![q] = 0], Destroy(entry, e), p, q) /\ Finish(u) /\ writer' = Nil
      /\ faults' = faults \cup DestroyFaults(e, u, q) \cup RebindFaults(p, q)
      /\ UNCHANGED <<dev, latest, treeq, pullq, pushq, worker, jan>>
  BY DEF Rebinding, At, Deletable, queues
<1>2. p \in Paths /\ q \in Paths /\ e \in Entries
  BY <1>1 DEF LockInv, OnePath, Using, Types, ClientType
<1>3. Destroyed(e, q, u) /\ RightOne(p, q)
  <2> HIDE DEF p, q, e
  <2>1. QED
    BY <1>1, <1>2, ReplaceFaults
<1>4. Ends(u)
  BY <1>1, FinishEnds DEF Types
<1>5. Replaces(u, e)
  BY <1>1, <1>3 DEF Replaces
<1>6. QED
  BY <1>1, <1>2, <1>3, <1>4, <1>5 DEF Rebinds

\* The worker rebinds the files of a directory, or waits for itself.
GetsStuck ==
  \E e \in Entries : /\ Alive(e) /\ BeginsDelete(e) /\ worker = "rebinding" /\ worker' = "stuck"
                     /\ UNCHANGED <<map, writer, dev, latest, treeq, pullq, client, jan, faults>>

LEMMA CacheRebinderDoes ==
  ASSUME Types, LockInv, MapInv, CacheRebinder
  PROVE  writer \in Users /\ (Rebinds(writer) \/ GetsStuck)
<1>1. worker = "rebinding" /\ writer \in Users /\ client[writer].step = "rebindall"
  BY DEF CacheRebinder, LockInv
<1> DEFINE p == client[writer].path
           q == client[writer].to
           e == map[q]
<1>2. p \in Paths /\ q \in Paths /\ e \in Entries \cup {0}
  BY <1>1 DEF LockInv, OnePath, Types
<1>3. UNCHANGED <<writer, dev, latest, treeq, pullq, jan>>
  BY DEF CacheRebinder
<1>4. CASE /\ map[p] # 0 /\ e # 0 /\ (entry[e].status = "DIRTY" \/ ~Deletable(e))
  <2>1. BeginDelete(e) /\ worker' = "stuck" /\ UNCHANGED <<map, client, faults>>
    BY <1>4 DEF CacheRebinder
  <2>2. e \in Entries /\ Alive(e) /\ entry[e].path \in Paths
    BY <1>2, <1>4 DEF MapInv, MapOf, Alive
  <2>3. BeginsDelete(e)
    <3> HIDE DEF e
    <3>1. QED
      BY <2>1, <2>2, BeginDeleteDoes
  <2>4. QED
    BY <1>1, <1>3, <2>1, <2>2, <2>3 DEF GetsStuck
<1>5. CASE ~(map[p] # 0 /\ e # 0 /\ (entry[e].status = "DIRTY" \/ ~Deletable(e)))
  <2>1. /\ worker' = Nil /\ Go(writer, "unlock") /\ UNCHANGED pushq
        /\ IF map[p] # 0 /\ e # 0
           THEN /\ Rebound([map EXCEPT ![q] = 0], Destroy(entry, e), p, q)
                /\ faults' = faults \cup DestroyFaults(e, writer, q) \cup RebindFaults(p, q)
           ELSE Rebound(map, entry, p, q) /\ faults' = faults \cup RebindFaults(p, q)
    BY <1>5 DEF CacheRebinder
  <2>2. Moves(writer, "unlock", client[writer].e)
    BY <1>1, <2>1, GoMoves DEF Types, Steps
  <2>3. CASE map[p] # 0 /\ e # 0
    <3>1. e \in Entries /\ entry[e].status \notin {"DIRTY", "PUSHING"}
      BY <1>2, <1>5, <2>3 DEF Deletable
    <3>2. Destroyed(e, q, writer) /\ RightOne(p, q)
      <4> HIDE DEF p, q, e
      <4>1. QED
        BY <1>2, <2>1, <2>3, <3>1, ReplaceFaults
    <3>3. Replaces(writer, e)
      BY <2>1, <2>3, <3>1, <3>2 DEF Replaces
    <3>4. QED
      BY <1>1, <1>2, <1>3, <2>1, <2>2, <3>1, <3>2, <3>3 DEF Rebinds
  <2>4. CASE map[p] = 0 \/ e = 0
    <3>1. RightOne(p, q)
      <4> HIDE DEF p, q, e
      <4>1. faults' = faults \cup {} \cup RebindFaults(p, q) /\ {} \in SUBSET Faults
        BY <2>1, <2>4
      <4>2. QED
        BY <1>2, <4>1, RebindFaultsMean
    <3>2. QED
      BY <1>1, <1>2, <1>3, <2>1, <2>2, <2>4, <3>1 DEF Rebinds
  <2>5. QED
    BY <2>3, <2>4
<1>6. QED
  BY <1>1, <1>4, <1>5

\* DokanCleanup: the entry of a file is deleted before the file.
Deletes(u) ==
  LET p == client'[u].path IN
  /\ client[u].step = "idle" /\ p \in Paths /\ writer = Nil
  /\ client' \in [Users -> ClientType] /\ client'[u].step = "forgotten" /\ client'[u].e = 0
  /\ \A v \in Users \ {u} : client'[v] = client[v]
  /\ \/ map[p] = 0 /\ UNCHANGED <<map, entry, faults>>
     \/ \E e \in Entries : /\ map[p] = e /\ map' = [map EXCEPT ![p] = 0] /\ entry' = Destroy(entry, e)
                           /\ Destroyed(e, p, Nil)
  /\ latest' = [latest EXCEPT ![p] = NoFile]
  /\ UNCHANGED <<writer, dev, treeq, pullq, pushq, worker, jan>>

LEMMA DeleteDoes ==
  ASSUME Types, LockInv, NEW u \in Users, NEW p \in Paths, Delete(u, p)
  PROVE  Deletes(u)
<1>1. /\ client[u] = Idle /\ writer = Nil
      /\ client' = [client EXCEPT ![u] = [op |-> "delete", path |-> p, to |-> Nil,
                                          step |-> "forgotten", e |-> 0]]
      /\ latest' = [latest EXCEPT ![p] = NoFile]
      /\ UNCHANGED <<writer, dev, treeq, pullq, pushq, worker, jan>>
  BY DEF Delete, Unlocked, queues
<1>2. client[u].step = "idle"
  BY <1>1 DEF Idle
<1>3. /\ client' \in [Users -> ClientType] /\ client'[u].step = "forgotten" /\ client'[u].e = 0
      /\ client'[u].path = p /\ \A v \in Users \ {u} : client'[v] = client[v]
  BY <1>1 DEF Types, ClientType, Steps, Operations
<1>4. CASE map[p] = 0
  <2>1. UNCHANGED <<map, entry, faults>>
    BY <1>4 DEF Delete
  <2>2. QED
    BY <1>1, <1>2, <1>3, <1>4, <2>1 DEF Deletes
<1>5. CASE map[p] # 0
  <2>1. /\ map' = [map EXCEPT ![p] = 0] /\ entry' = Destroy(entry, map[p])
        /\ faults' = faults \cup DestroyFaults(map[p], Nil, p) \cup {}
    BY <1>5 DEF Delete
  <2>2. map[p] \in Entries /\ {} \in SUBSET Faults
    BY <1>5 DEF Types
  <2>3. Destroyed(map[p], p, Nil)
    BY <2>1, <2>2, DestroyFaultsMean
  <2>4. QED
    BY <1>1, <1>2, <1>3, <2>1, <2>2, <2>3 DEF Deletes
<1>6. QED
  BY <1>4, <1>5

\* The janitor locks and unlocks the map, and finds nothing left to delete.
JanitorTalks ==
  /\ UNCHANGED <<map, entry, dev, latest, treeq, pullq, pushq, worker, client, faults>>
  /\ jan' \in JanitorType /\ jan'.e = jan.e
  /\ \/ jan.step = "lock" /\ writer = Nil /\ writer' = Janitor /\ jan'.step = "delete"
     \/ jan.step = "delete" /\ writer' = Nil /\ jan'.step = "rest"
     \/ jan.step = "delete" /\ writer' = writer /\ jan'.step = "delete"

\* It begins to delete an entry.
JanitorStarts ==
  /\ jan.step = "delete" /\ jan' \in JanitorType /\ jan'.step = "deleting"
  /\ jan'.path \in Paths /\ jan'.e = map[jan'.path] /\ jan'.e \in Entries
  /\ BeginsDelete(jan'.e)
  /\ UNCHANGED <<map, writer, dev, latest, treeq, pullq, worker, client, faults>>

\* It has deleted the entry.
JanitorEnds ==
  /\ jan.step = "deleting" /\ jan' \in JanitorType /\ jan'.step = "delete" /\ jan'.e = 0
  /\ entry[jan.e].status # "PUSHING" /\ entry' = Destroy(entry, jan.e)
  /\ map' = [map EXCEPT ![jan.path] = 0] /\ Destroyed(jan.e, jan.path, Janitor)
  /\ UNCHANGED <<writer, dev, latest, treeq, pullq, pushq, worker, client>>

LEMMA DeletionDoes ==
  ASSUME Types, LockInv, MapInv, Deletion
  PROVE  JanitorTalks \/ JanitorStarts \/ JanitorEnds
<1>0. jan \in JanitorType /\ jan.victims \subseteq Paths
  BY DEF Types, JanitorType
<1>1. CASE LockForDeletion
  <2>1. /\ jan.step = "lock" /\ writer = Nil /\ writer' = Janitor
        /\ jan' = [jan EXCEPT !.step = "delete"]
        /\ UNCHANGED <<map, entry, dev, treeq, pullq, pushq, worker, client, latest, faults>>
    BY <1>1 DEF LockForDeletion, Unlocked, queues
  <2>2. jan' \in JanitorType /\ jan'.step = "delete" /\ jan'.e = jan.e
    BY <1>0, <2>1 DEF JanitorType
  <2>3. QED
    BY <2>1, <2>2 DEF JanitorTalks
<1>2. CASE DeleteThese
  <2>1. jan.step = "delete" /\ UNCHANGED <<map, dev, treeq, pullq, worker, client, latest, faults>>
    BY <1>2 DEF DeleteThese
  <2>2. CASE /\ jan.victims = {} /\ writer' = Nil /\ jan' = [jan EXCEPT !.step = "rest"]
             /\ UNCHANGED <<entry, pushq>>
    <3>1. jan' \in JanitorType /\ jan'.step = "rest" /\ jan'.e = jan.e
      BY <1>0, <2>2 DEF JanitorType
    <3>2. QED
      BY <2>1, <2>2, <3>1 DEF JanitorTalks
  <2>3. ASSUME NEW p \in jan.victims, UNCHANGED writer,
               IF map[p] = 0
               THEN jan' = [jan EXCEPT !.victims = @ \ {p}] /\ UNCHANGED <<entry, pushq>>
               ELSE /\ jan' = [jan EXCEPT !.step = "deleting", !.e = map[p], !.path = p]
                    /\ BeginDelete(map[p])
        PROVE  JanitorTalks \/ JanitorStarts
    <3>1. p \in Paths
      BY <1>0
    <3>2. CASE map[p] = 0
      <4>1. jan' = [jan EXCEPT !.victims = jan.victims \ {p}] /\ UNCHANGED <<entry, pushq>>
        BY <2>3, <3>2
      <4>2. jan.victims \ {p} \in SUBSET Paths
        BY <1>0
      <4>3. jan' \in JanitorType /\ jan'.step = "delete" /\ jan'.e = jan.e
        BY <1>0, <2>1, <4>1, <4>2 DEF JanitorType
      <4>4. QED
        BY <2>1, <2>3, <4>1, <4>3 DEF JanitorTalks
    <3>3. CASE map[p] # 0
      <4>1. map[p] \in Entries /\ entry[map[p]].path \in Paths
        BY <3>1, <3>3 DEF Types, MapInv, MapOf
      <4>2. /\ jan' = [jan EXCEPT !.step = "deleting", !.e = map[p], !.path = p]
            /\ BeginDelete(map[p])
        BY <2>3, <3>3
      <4>3. jan' \in JanitorType /\ jan'.step = "deleting" /\ jan'.e = map[p] /\ jan'.path = p
        BY <1>0, <3>1, <4>1, <4>2 DEF JanitorType
      <4>4. BeginsDelete(map[p])
        BY <4>1, <4>2, BeginDeleteDoes
      <4>5. QED
        BY <2>1, <2>3, <3>1, <4>1, <4>3, <4>4 DEF JanitorStarts
    <3>4. QED
      BY <3>2, <3>3
  <2>4. QED
    BY <1>2, <2>2, <2>3 DEF DeleteThese
<1>3. CASE EndDeletion
  <2>1. /\ jan.step = "deleting" /\ entry[jan.e].status # "PUSHING"
        /\ entry' = Destroy(entry, jan.e) /\ map' = [map EXCEPT ![jan.path] = 0]
        /\ faults' = faults \cup DestroyFaults(jan.e, Janitor, jan.path) \cup {}
        /\ jan' = [jan EXCEPT !.step = "delete", !.victims = jan.victims \ {jan.path}, !.e = 0, !.path = Nil]
        /\ UNCHANGED <<writer, dev, treeq, pullq, pushq, worker, client, latest>>
    BY <1>3 DEF EndDeletion, Deletable, queues
  <2>2. jan.path \in Paths /\ jan.e \in Entries /\ {} \in SUBSET Faults
    BY <1>0, <2>1 DEF LockInv, JanitorType
  <2>3. Destroyed(jan.e, jan.path, Janitor)
    BY <2>1, <2>2, DestroyFaultsMean
  <2>4. jan.victims \ {jan.path} \in SUBSET Paths
    BY <1>0
  <2>5. jan' \in JanitorType /\ jan'.step = "delete" /\ jan'.e = 0
    BY <1>0, <2>1, <2>4 DEF JanitorType
  <2>6. QED
    BY <2>1, <2>3, <2>5 DEF JanitorEnds
<1>4. QED
  BY <1>1, <1>2, <1>3 DEF Deletion

\* The steps of the system, by what they do.
Begun(u, op, p, e) ==
  /\ client[u].step = "idle" /\ op \in {"read", "write"} /\ BeginsWith(u, op, p, e)
  /\ faults' = faults \cup BetweenDeletes(p)
  /\ UNCHANGED <<writer, dev, treeq, pushq, worker, jan, latest>>
Accessed(u) ==
  LET e == client[u].e IN
  /\ client[u].step = "access" /\ e \in Entries /\ Moves(u, "end", e)
  /\ \/ UNCHANGED <<entry, latest>>
     \/ /\ client[u].op = "write" /\ Only(e) /\ entry'[e].copy = u
        /\ entry'[e].life = entry[e].life /\ entry'[e].path = entry[e].path
        /\ entry'[e].status = entry[e].status /\ entry'[e].home = entry[e].home
        /\ latest' \in [Paths -> Content]
        /\ \A p \in Paths : latest'[p] = IF p = entry[e].home THEN u ELSE latest[p]
  /\ UNCHANGED <<map, writer, dev, treeq, pullq, pushq, worker, jan, faults>>
Ended(u, e) ==
  /\ client[u].step = "end" /\ Ends(u) /\ EndsWith(u, e)
  /\ UNCHANGED <<writer, dev, treeq, pullq, pushq, worker, jan, latest>>
Served(u) ==
  /\ worker = Nil /\ Serves(u) /\ treeq' \in Seq(Users)
  /\ UNCHANGED <<map, writer, pullq, pushq, jan, faults>>
Pulled(e, p) ==
  /\ pullq # <<>> /\ Head(pullq) = [e |-> e, path |-> p] /\ pullq' = Tail(pullq)
  /\ Pulls(e, p) /\ worker = Nil
  /\ PullFaults(e, p)
  /\ UNCHANGED <<map, writer, dev, treeq, pushq, worker, client, jan, latest>>
Pushed(e, p) ==
  /\ pushq # <<>> /\ Head(pushq) = [e |-> e, path |-> p] /\ pushq' = Tail(pushq)
  /\ worker = Nil /\ \E put \in {"all", "nothing", "deletion"} : Pushes(e, p, put) /\ PushFaults(e, p, put)
  /\ UNCHANGED <<map, writer, treeq, pullq, worker, client, jan, latest>>
Scanned(old) ==
  /\ jan.step = "rest" /\ jan.rounds < MaxRounds /\ Scans(old)
  /\ UNCHANGED <<map, writer, dev, treeq, pullq, worker, client, latest, faults>>

Does(u) ==
  \/ \E op \in {"read", "write"}, p \in Paths, e \in Entries : Begun(u, op, p, e)
  \/ Accessed(u) \/ (\E e \in Entries : Ended(u, e)) \/ Talks(u)
  \/ StartsDeleting(u) \/ Forgets(u) \/ Rebinds(u) \/ Deletes(u) \/ Served(u)
Happens ==
  \/ \E u \in Users : Does(u)
  \/ GetsStuck
  \/ \E e \in Entries, p \in Paths : Pulled(e, p) \/ Pushed(e, p)
  \/ \E old \in SUBSET Paths : Scanned(old)
  \/ JanitorTalks \/ JanitorStarts \/ JanitorEnds

LEMMA NextHappens ==
  ASSUME Types, LockInv, MapInv, Next
  PROVE  Happens
<1>1. ASSUME NEW u \in Users, New(u) PROVE Does(u)
  <2>1. PICK p \in Paths, q \in Paths, op \in Menu[u] :
          Begin(u, op, p) \/ Call(u, op, p, q) \/ (op = "delete" /\ Delete(u, p))
    BY <1>1 DEF New
  <2>2. CASE Begin(u, op, p)
    <3>1. PICK e \in Entries : BeginsWith(u, op, p, e)
      BY <2>2, BeginDoes
    <3>2. Begun(u, op, p, e) /\ op \in {"read", "write"}
      BY <2>2, <3>1, BeginDoes DEF Begun, Idle
    <3>3. QED
      BY <3>2 DEF Does
  <2>3. CASE Call(u, op, p, q)
    <3>1. \E x, y \in Paths, z \in Menu[u] : Call(u, z, x, y)
      BY <2>3
    <3>2. Talks(u)
      BY <3>1, TalksDo
    <3>3. QED
      BY <3>2 DEF Does
  <2>4. CASE Delete(u, p)
    BY <2>4, DeleteDoes DEF Does
  <2>5. QED
    BY <2>1, <2>2, <2>3, <2>4
<1>2. ASSUME NEW u \in Users, User(u) PROVE Does(u)
  <2>1. CASE \/ AwaitAccess(u) \/ CheckAccess(u) \/ Unlink(u)
             \/ Forget(u) /\ (client[u].op = "movedir" \/ map[client[u].to] = 0)
             \/ LockMap(u) \/ UnlockMap(u)
    BY <2>1, TalksDo DEF Does
  <2>2. CASE Access(u)
    BY <2>2, AccessDoes DEF Does, Accessed, queues
  <2>3. CASE EndAccess(u)
    BY <2>3, EndAccessDoes DEF Does, Ended, queues
  <2>4. CASE \/ Forget(u) /\ client[u].op # "movedir" /\ map[client[u].to] # 0
             \/ Rebind(u) /\ map[client[u].path] # 0 /\ map[client[u].to] # 0
    BY <2>4, StartsDeletingDoes DEF Does
  <2>5. CASE Forgotten(u)
    BY <2>5, ForgottenDoes DEF Does
  <2>6. CASE Rebind(u) /\ (map[client[u].path] = 0 \/ map[client[u].to] = 0)
    BY <2>6, RebindDoes DEF Does
  <2>7. CASE Rebinding(u)
    BY <2>7, RebindingDoes DEF Does
  <2>8. QED
    BY <1>2, <2>1, <2>2, <2>3, <2>4, <2>5, <2>6, <2>7 DEF User
<1>3. CASE Worker
  <2>1. CASE ServeTree
    BY <2>1, ServeTreeDoes DEF Happens, Does, Served
  <2>2. CASE EndListing
    BY <2>2, EndListingDoes DEF Happens, Does
  <2>3. CASE CacheRebinder
    BY <2>3, CacheRebinderDoes DEF Happens, Does
  <2>4. CASE ServePull
    <3>1. \E e \in Entries, p \in Paths : Pulled(e, p)
      BY <2>4, ServePullDoes DEF Pulled
    <3>2. QED
      BY <3>1 DEF Happens
  <2>5. CASE ServePush
    <3>1. \E e \in Entries, p \in Paths : Pushed(e, p)
      BY <2>5, ServePushDoes DEF Pushed
    <3>2. QED
      BY <3>1 DEF Happens
  <2>6. QED
    BY <1>3, <2>1, <2>2, <2>3, <2>4, <2>5 DEF Worker
<1>4. CASE Scan
  BY <1>4, ScanDoes DEF Happens, Scanned
<1>5. CASE Deletion
  BY <1>5, DeletionDoes DEF Happens
<1>6. QED
  BY <1>1, <1>2, <1>3, <1>4, <1>5 DEF Next, Happens

-----------------------------------------------------------------------------
(* Every step keeps the types.                                             *)

LEMMA TypesKept ==
  ASSUME Types, LockInv, MapInv, Happens
  PROVE  Types'
<1>1. ASSUME NEW u \in Users, NEW op, NEW p \in Paths, NEW e \in Entries, Begun(u, op, p, e)
      PROVE  Types'
  <2>1. map' \in [Paths -> Entries \cup {0}]
    BY <1>1, CacheAccessDoes DEF Begun, BeginsWith
  <2>2. pullq' \in Seq(Requests)
    <3>1. [e |-> e, path |-> p] \in Requests
      BY DEF Requests
    <3>2. Append(pullq, [e |-> e, path |-> p]) \in Seq(Requests)
      BY <3>1, AppendWaiting DEF Types
    <3>3. QED
      BY <1>1, <3>2 DEF Begun, BeginsWith, Types
  <2>3. BetweenDeletes(p) \subseteq Faults
    BY DEF BetweenDeletes, Faults
  <2>4. QED
    BY <1>1, <2>1, <2>2, <2>3 DEF Begun, BeginsWith, Only, Types
<1>2. ASSUME NEW u \in Users, Accessed(u) PROVE Types'
  BY <1>2 DEF Accessed, Moves, Only, Types
<1>3. ASSUME NEW u \in Users, NEW e \in Entries, Ended(u, e) PROVE Types'
  <2>1. client[u].path \in Paths /\ CacheAccess(client[u].path, e)
    BY <1>3 DEF Ended, EndsWith
  <2>2. map' \in [Paths -> Entries \cup {0}]
    BY <2>1, CacheAccessDoes
  <2>3. faults' \subseteq Faults
    BY <1>3 DEF Ended, EndsWith, Types, Faults
  <2>4. QED
    BY <1>3, <2>2, <2>3 DEF Ended, EndsWith, Only, Ends, Types
<1>4. ASSUME NEW u \in Users, Talks(u) PROVE Types'
  BY <1>4 DEF Talks, Moves, Ends, Types, Faults
<1>5. ASSUME NEW u \in Users, StartsDeleting(u) PROVE Types'
  BY <1>5 DEF StartsDeleting, BeginsDelete, Only, Moves, Types
<1>6. ASSUME NEW m \in [Paths -> Entries \cup {0}], NEW q \in Paths, NEW e \in Entries
      PROVE  /\ [m EXCEPT ![q] = 0] \in [Paths -> Entries \cup {0}]
             /\ Destroy(entry, e) \in [Entries -> EntryType]
  BY DestroyIs DEF Types
<1>7. ASSUME NEW u \in Users, Forgets(u) PROVE Types'
  <2>1. client[u].to \in Paths /\ client[u].e \in Entries
    BY <1>7 DEF Forgets, Destroyed
  <2>2. map' \in [Paths -> Entries \cup {0}] /\ entry' \in [Entries -> EntryType]
    BY <1>6, <1>7, <2>1 DEF Forgets, Types
  <2>3. QED
    BY <1>7, <2>2 DEF Forgets, Destroyed, Moves, Types
<1>8. ASSUME NEW u \in Users, Rebinds(u) PROVE Types'
  <2>1. client[u].path \in Paths /\ client[u].to \in Paths
    BY <1>8 DEF Rebinds
  <2>2. map' \in [Paths -> Entries \cup {0}] /\ entry' \in [Entries -> EntryType]
    <3>1. CASE Rebound(map, entry, client[u].path, client[u].to)
      BY <2>1, <3>1, ReboundDoes DEF Types
    <3>2. ASSUME NEW e \in Entries, Replaces(u, e)
          PROVE  map' \in [Paths -> Entries \cup {0}] /\ entry' \in [Entries -> EntryType]
      <4>1. Rebound([map EXCEPT ![client[u].to] = 0], Destroy(entry, e), client[u].path, client[u].to)
        BY <3>2 DEF Replaces
      <4>2. /\ [map EXCEPT ![client[u].to] = 0] \in [Paths -> Entries \cup {0}]
            /\ Destroy(entry, e) \in [Entries -> EntryType]
        BY <1>6, <2>1 DEF Types
      <4>3. QED
        BY <2>1, <4>1, <4>2, ReboundDoes
    <3>3. QED
      BY <1>8, <3>1, <3>2 DEF Rebinds
  <2>3. QED
    BY <1>8, <2>2 DEF Rebinds, RightOne, Moves, Ends, Types
<1>9. ASSUME NEW u \in Users, Deletes(u) PROVE Types'
  <2> DEFINE p == client'[u].path
  <2>1. map' \in [Paths -> Entries \cup {0}] /\ entry' \in [Entries -> EntryType] /\ faults' \subseteq Faults
    <3>1. CASE UNCHANGED <<map, entry, faults>>
      BY <3>1 DEF Types
    <3>2. ASSUME NEW e \in Entries, map' = [map EXCEPT ![p] = 0], entry' = Destroy(entry, e),
                 Destroyed(e, p, Nil)
          PROVE  map' \in [Paths -> Entries \cup {0}] /\ entry' \in [Entries -> EntryType] /\ faults' \subseteq Faults
      BY <1>6, <3>2 DEF Destroyed, Types
    <3>3. QED
      BY <1>9, <3>1, <3>2 DEF Deletes
  <2>2. latest' \in [Paths -> Content]
    BY <1>9 DEF Deletes, Types, Content
  <2>3. QED
    BY <1>9, <2>1, <2>2 DEF Deletes, Types
<1>10. ASSUME NEW u \in Users, Served(u) PROVE Types'
  <2>1. \A p \in Paths : dev[p] \in Content /\ latest[p] \in Content
    BY DEF Types
  <2>2. NoFile \in Content /\ Empty \in Content
    BY DEF Content
  <2>3. ASSUME NEW p \in Paths, Removed(p) \/ Created(p)
        PROVE  /\ dev' \in [Paths -> Content] /\ latest' \in [Paths -> Content]
               /\ entry' \in [Entries -> EntryType]
    BY <2>1, <2>2, <2>3 DEF Removed, Created, Rehomed, Types
  <2>4. ASSUME NEW p \in Paths, NEW q \in Paths, Moved(p, q)
        PROVE  /\ dev' \in [Paths -> Content] /\ latest' \in [Paths -> Content]
               /\ entry' \in [Entries -> EntryType]
    BY <2>1, <2>2, <2>4 DEF Moved, Rehomed, Types
  <2>5. /\ dev' \in [Paths -> Content] /\ latest' \in [Paths -> Content]
        /\ entry' \in [Entries -> EntryType]
    BY <1>10, <2>3, <2>4 DEF Served, Serves, Untouched, Types
  <2>6. client' \in [Users -> ClientType] /\ worker' \in {Nil, "listing", "rebinding", "stuck"}
    BY <1>10 DEF Served, Serves, Moves, Ends, Types
  <2>7. QED
    BY <1>10, <2>5, <2>6 DEF Served, Types
<1>11. CASE GetsStuck
  BY <1>11 DEF GetsStuck, BeginsDelete, Only, Types
<1>12. ASSUME NEW e \in Entries, NEW p \in Paths, Pulled(e, p) PROVE Types'
  <2>1. pullq' \in Seq(Requests)
    BY <1>12, TailWaiting DEF Pulled, Types
  <2>2. QED
    BY <1>12, <2>1 DEF Pulled, Pulls, PullFaults, Only, Types, Faults
<1>13. ASSUME NEW e \in Entries, NEW p \in Paths, Pushed(e, p) PROVE Types'
  <2>1. pushq' \in Seq(Requests)
    BY <1>13, TailWaiting DEF Pushed, Types
  <2>2. QED
    BY <1>13, <2>1 DEF Pushed, Pushes, PushFaults, Only, Types, Faults
<1>14. ASSUME NEW old \in SUBSET Paths, Scanned(old) PROVE Types'
  <2>1. jan' \in JanitorType
    <3>1. /\ jan' = [jan EXCEPT !.step = "lock", !.victims = old, !.rounds = jan.rounds + 1]
          /\ jan.rounds < MaxRounds /\ jan \in JanitorType
      BY <1>14 DEF Scanned, Scans, Types
    <3>2. jan.rounds + 1 \in 0 .. MaxRounds
      BY <3>1, BoundsAssumption DEF JanitorType
    <3>3. QED
      BY <3>1, <3>2 DEF JanitorType
  <2>2. QED
    BY <1>14, <2>1 DEF Scanned, Scans, Types
<1>15. CASE JanitorTalks
  BY <1>15 DEF JanitorTalks, Types
<1>16. CASE JanitorStarts
  BY <1>16 DEF JanitorStarts, BeginsDelete, Only, Types
<1>17. CASE JanitorEnds
  <2>1. jan.path \in Paths /\ jan.e \in Entries
    BY <1>17 DEF JanitorEnds, Destroyed
  <2>2. map' \in [Paths -> Entries \cup {0}] /\ entry' \in [Entries -> EntryType]
    BY <1>6, <1>17, <2>1 DEF JanitorEnds, Types
  <2>3. QED
    BY <1>17, <2>2 DEF JanitorEnds, Destroyed, Types
<1>18. QED
  BY <1>1, <1>2, <1>3, <1>4, <1>5, <1>7, <1>8, <1>9, <1>10, <1>11, <1>12, <1>13, <1>14,
     <1>15, <1>16, <1>17 DEF Happens, Does

\* And what can be told from the step everybody is at.
LEMMA LocksKept ==
  ASSUME Types, LockInv, MapInv, Happens
  PROVE  LockInv'
<1> USE Constants DEF Locking, Using, OnePath
<1>1. ASSUME NEW u \in Users, NEW op \in {"read", "write"}, NEW p \in Paths, NEW e \in Entries,
             Begun(u, op, p, e)
      PROVE  LockInv'
  <2>1. /\ client[u].step = "idle" /\ client'[u].step \in {"pulling", "pushing", "access"}
        /\ client'[u].e = e /\ client'[u].path = p /\ client'[u].op = op
        /\ \A v \in Users \ {u} : client'[v] = client[v]
        /\ UNCHANGED <<writer, worker, jan>>
    BY <1>1 DEF Begun, BeginsWith
  <2>2. QED
    BY <2>1 DEF LockInv
<1>2. ASSUME NEW u \in Users, Accessed(u) PROVE LockInv'
  BY <1>2 DEF Accessed, Moves, LockInv
<1>3. ASSUME NEW u \in Users, NEW e \in Entries, Ended(u, e) PROVE LockInv'
  BY <1>3 DEF Ended, Ends, LockInv
<1>4. ASSUME NEW u \in Users, Talks(u) PROVE LockInv'
  <2> DEFINE s == client[u].step
  <2>1. jan' = jan /\ \A v \in Users \ {u} : client'[v] = client[v]
    BY <1>4 DEF Talks, Moves, Ends
  <2>2. CASE s \in {"pulling", "check", "pushing", "forgotten", "forget"}
    BY <1>4, <2>1, <2>2 DEF Talks, Moves, LockInv
  <2>3. CASE s = "lock"
    BY <1>4, <2>1, <2>3 DEF Talks, Moves, LockInv
  <2>4. CASE s = "unlock"
    <3>1. worker # "rebinding"
      BY <2>4 DEF LockInv
    <3>2. QED
      BY <1>4, <2>1, <2>4, <3>1 DEF Talks, Ends, LockInv
  <2>5. CASE s = "listed"
    BY <1>4, <2>1, <2>5 DEF Talks, Ends, LockInv
  <2>6. CASE s = "idle"
    BY <1>4, <2>1, <2>6 DEF Talks, LockInv
  <2>7. QED
    BY <1>4, <2>2, <2>3, <2>4, <2>5, <2>6 DEF Talks
<1>5. ASSUME NEW u \in Users, StartsDeleting(u) PROVE LockInv'
  BY <1>5 DEF StartsDeleting, Moves, LockInv
<1>7. ASSUME NEW u \in Users, Forgets(u) PROVE LockInv'
  BY <1>7 DEF Forgets, Moves, LockInv
<1>8. ASSUME NEW u \in Users, Rebinds(u) PROVE LockInv'
  <2> DEFINE s == client[u].step
  <2>1. jan' = jan /\ writer = u /\ \A v \in Users \ {u} : client'[v] = client[v]
    BY <1>8 DEF Rebinds, Moves, Ends, LockInv
  <2>2. CASE s \in {"rebind", "rebinding"} /\ worker' = worker /\ writer' = Nil /\ Ends(u)
    <3>1. worker # "rebinding"
      BY <2>1, <2>2 DEF LockInv
    <3>2. QED
      BY <2>1, <2>2, <3>1 DEF Ends, LockInv
  <2>3. CASE /\ s = "rebindall" /\ worker' = Nil /\ writer' = writer
             /\ Moves(u, "unlock", client[u].e)
    BY <2>1, <2>3 DEF Moves, LockInv
  <2>4. QED
    BY <1>8, <2>2, <2>3 DEF Rebinds
<1>9. ASSUME NEW u \in Users, Deletes(u) PROVE LockInv'
  BY <1>9 DEF Deletes, LockInv
<1>10. ASSUME NEW u \in Users, Served(u) PROVE LockInv'
  BY <1>10 DEF Served, Serves, Moves, Ends, LockInv
<1>11. CASE GetsStuck
  BY <1>11 DEF GetsStuck, LockInv
<1>12. ASSUME NEW e \in Entries, NEW p \in Paths, Pulled(e, p) PROVE LockInv'
  BY <1>12 DEF Pulled, LockInv
<1>13. ASSUME NEW e \in Entries, NEW p \in Paths, Pushed(e, p) PROVE LockInv'
  BY <1>13 DEF Pushed, LockInv
<1>14. ASSUME NEW old \in SUBSET Paths, Scanned(old) PROVE LockInv'
  <2>1. jan'.step = "lock" /\ jan'.e = jan.e
    BY <1>14 DEF Scanned, Scans, Types, JanitorType
  <2>2. QED
    BY <1>14, <2>1 DEF Scanned, LockInv
<1>15. CASE JanitorTalks
  BY <1>15 DEF JanitorTalks, LockInv
<1>16. CASE JanitorStarts
  BY <1>16 DEF JanitorStarts, LockInv
<1>17. CASE JanitorEnds
  BY <1>17 DEF JanitorEnds, LockInv
<1>18. QED
  BY <1>1, <1>2, <1>3, <1>4, <1>5, <1>7, <1>8, <1>9, <1>10, <1>11, <1>12, <1>13, <1>14,
     <1>15, <1>16, <1>17 DEF Happens, Does

-----------------------------------------------------------------------------
(* Until an entry is freed in use, what is in hand or queued lives, and    *)
(* has its place in the map.                                               *)

StillAlive(e) == entry'[e].life = "alive"

\* Entries that keep life and path stay where they are.
SameLives ==
  \A f \in Entries : /\ entry'[f].life = entry[f].life /\ entry'[f].path = entry[f].path
                     /\ ~Alive(f) => entry'[f] = entry[f]
LEMMA SameMap ==
  ASSUME Types, MapInv, UNCHANGED map, SameLives
  PROVE  MapOf(map', entry') /\ \A f \in Entries : Alive(f) => StillAlive(f)
<1>1. \A p \in Paths : map[p] # 0 => map[p] \in Entries
  BY DEF Types
<1>2. \A p \in Paths : map'[p] # 0 => entry'[map'[p]].life = "alive" /\ entry'[map'[p]].path = p
  BY <1>1 DEF MapInv, MapOf, SameLives
<1>3. \A e \in Entries :
        IF entry'[e].life = "alive" THEN entry'[e].path \in Paths /\ map'[entry'[e].path] = e
        ELSE entry'[e].status = "NONEXISTANT" /\ entry'[e].home = Nil /\ entry'[e].copy = NoFile
  BY DEF MapInv, MapOf, SameLives, Alive, StillAlive
<1>4. QED
  BY <1>2, <1>3 DEF MapOf, SameLives, Alive, StillAlive

\* So do those of an access, and the one that is looked up is in its place.
LEMMA AccessMap ==
  ASSUME Types, MapInv, NEW p \in Paths, NEW e \in Entries, CacheAccess(p, e), Only(e),
         entry'[e].life = "alive", entry'[e].path = p
  PROVE  MapOf(map', entry') /\ \A f \in Entries : f = e \/ Alive(f) => StillAlive(f)
<1>1. /\ map' \in [Paths -> Entries \cup {0}]
      /\ map'[p] = e /\ \A q \in Paths \ {p} : map'[q] = map[q]
      /\ \/ map[p] = e /\ Alive(e) /\ entry[e].path = p
         \/ map[p] = 0 /\ ~Alive(e)
  BY CacheAccessDoes
<1>2. \A q \in Paths \ {p} : map[q] # e
  BY <1>1, Constants DEF MapInv, MapOf, Alive
<1>3. \A f \in Entries \ {e} : entry'[f] = entry[f]
  BY DEF Only
<1>4. ASSUME NEW q \in Paths, map'[q] # 0
      PROVE  entry'[map'[q]].life = "alive" /\ entry'[map'[q]].path = q
  <2>1. CASE q = p
    BY <1>1, <2>1
  <2>2. CASE q # p
    <3>1. map'[q] = map[q] /\ map[q] \in Entries \ {e}
      BY <1>1, <1>2, <1>4, <2>2
    <3>2. QED
      BY <1>3, <1>4, <3>1 DEF MapInv, MapOf
  <2>3. QED
    BY <2>1, <2>2
<1>5. ASSUME NEW f \in Entries
      PROVE  IF entry'[f].life = "alive" THEN entry'[f].path \in Paths /\ map'[entry'[f].path] = f
             ELSE entry'[f].status = "NONEXISTANT" /\ entry'[f].home = Nil /\ entry'[f].copy = NoFile
  <2>1. CASE f = e
    BY <1>1, <2>1
  <2>2. CASE f # e
    <3>1. entry'[f] = entry[f]
      BY <1>3, <2>2
    <3>2. CASE Alive(f)
      <4>1. entry[f].path \in Paths /\ map[entry[f].path] = f
        BY <3>2 DEF MapInv, MapOf, Alive
      <4>2. entry[f].path # p
        BY <1>1, <2>2, <4>1, Constants
      <4>3. QED
        BY <1>1, <3>1, <3>2, <4>1, <4>2 DEF Alive
    <3>3. CASE ~Alive(f)
      BY <3>1, <3>3 DEF MapInv, MapOf, Alive
    <3>4. QED
      BY <3>2, <3>3
  <2>3. QED
    BY <2>1, <2>2
<1>6. QED
  BY <1>3, <1>4, <1>5 DEF MapOf, Alive, StillAlive

\* The entry that is deleted is the only one to go.
LEMMA DestroyedMap ==
  ASSUME Types, MapInv, NEW e, NEW q, NEW x, Destroyed(e, q, x), "freed" \notin faults'
  PROVE  /\ MapOf([map EXCEPT ![q] = 0], Destroy(entry, e))
         /\ \A f \in Entries \ {e} : Alive(f) => Destroy(entry, e)[f].life = "alive"
<1>1. e \in Entries /\ q \in Paths /\ map[q] = e
  BY DEF Destroyed
<1>2. map \in [Paths -> Entries \cup {0}] /\ entry \in [Entries -> EntryType] /\ MapOf(map, entry)
  BY DEF Types, MapInv
<1>3. MapOf([map EXCEPT ![q] = 0], Destroy(entry, e))
  BY <1>1, <1>2, DestroyMap
<1>4. \A f \in Entries \ {e} : Destroy(entry, e)[f] = entry[f]
  BY <1>1, <1>2, DestroyIs
<1>5. QED
  BY <1>3, <1>4 DEF Alive

\* What is in hand or queued lives as long as nothing is deleted ...
LEMMA HandsKept ==
  ASSUME Types, MapInv, MapOf(map', entry'),
         \A f \in Entries : Alive(f) => StillAlive(f),
         \A r \in Waiting(pullq') \cup Waiting(pushq') :
           r \in Waiting(pullq) \cup Waiting(pushq) \/ StillAlive(r.e),
         \A u \in Users : client'[u].e \in {0, client[u].e} \/ StillAlive(client'[u].e),
         jan'.e \in {0, jan.e} \/ StillAlive(jan'.e)
  PROVE  MapInv'
<1>1. ASSUME NEW r \in Waiting(pullq) \cup Waiting(pushq) PROVE r.e \in Entries /\ Alive(r.e)
  <2>1. r \in Requests
    BY LenProperties DEF Types, Waiting
  <2>2. QED
    BY <2>1 DEF Requests, MapInv
<1>2. \A r \in Waiting(pullq') \cup Waiting(pushq') : StillAlive(r.e)
  BY <1>1
<1>3. ASSUME NEW u \in Users, client'[u].e # 0 PROVE StillAlive(client'[u].e)
  <2>1. client[u].e \in Entries \cup {0}
    BY DEF Types, ClientType
  <2>2. QED
    BY <1>3, <2>1 DEF MapInv
<1>4. ASSUME jan'.e # 0 PROVE StillAlive(jan'.e)
  <2>1. jan.e \in Entries \cup {0}
    BY DEF Types, JanitorType
  <2>2. QED
    BY <1>4, <2>1 DEF MapInv
<1>5. QED
  BY <1>2, <1>3, <1>4 DEF MapInv, Alive, StillAlive

\* ... and when an entry is, if nobody has it but who deletes it.
LEMMA OtherHandsKept ==
  ASSUME Types, MapInv, MapOf(map', entry'), NEW e, NEW q, NEW x,
         Destroyed(e, q, x), "freed" \notin faults', UNCHANGED <<pullq, pushq>>,
         \A f \in Entries \ {e} : Alive(f) => StillAlive(f),
         \A u \in Users : client'[u].e = 0 \/ (u # x /\ client'[u].e = client[u].e),
         jan'.e = 0 \/ (x # Janitor /\ jan'.e = jan.e)
  PROVE  MapInv'
<1>1. ASSUME NEW r \in Waiting(pullq) \cup Waiting(pushq)
      PROVE  r.e \in Entries \ {e} /\ Alive(r.e)
  <2>1. r \in Requests
    BY LenProperties DEF Types, Waiting
  <2>2. QED
    BY <2>1 DEF Requests, MapInv, Destroyed
<1>2. \A r \in Waiting(pullq') \cup Waiting(pushq') : StillAlive(r.e)
  BY <1>1
<1>3. ASSUME NEW u \in Users, client'[u].e # 0 PROVE StillAlive(client'[u].e)
  <2>1. client[u].e \in Entries \cup {0}
    BY DEF Types, ClientType
  <2>2. QED
    BY <1>3, <2>1 DEF MapInv, Destroyed
<1>4. ASSUME jan'.e # 0 PROVE StillAlive(jan'.e)
  <2>1. jan.e \in Entries \cup {0}
    BY DEF Types, JanitorType
  <2>2. QED
    BY <1>4, <2>1 DEF MapInv, Destroyed
<1>5. QED
  BY <1>2, <1>3, <1>4 DEF MapInv, Alive, StillAlive

LEMMA MapKept ==
  ASSUME Types, LockInv, MapInv, Happens, "freed" \notin faults'
  PROVE  MapInv'
<1>1. ASSUME NEW u \in Users, NEW op, NEW p \in Paths, NEW e \in Entries, Begun(u, op, p, e)
      PROVE  MapInv'
  <2>1. /\ CacheAccess(p, e) /\ Only(e) /\ entry'[e].life = "alive" /\ entry'[e].path = p
        /\ pullq' = pullq \/ pullq' = Append(pullq, [e |-> e, path |-> p])
        /\ client'[u].e = e /\ \A v \in Users \ {u} : client'[v] = client[v]
        /\ UNCHANGED <<jan, pushq>>
    BY <1>1 DEF Begun, BeginsWith
  <2>2. MapOf(map', entry') /\ \A f \in Entries : f = e \/ Alive(f) => StillAlive(f)
    BY <2>1, AccessMap
  <2>3. [e |-> e, path |-> p] \in Requests
    BY DEF Requests
  <2>4. \A r \in Waiting(pullq') : r \in Waiting(pullq) \/ r.e = e
    <3>1. Waiting(pullq') \subseteq Waiting(pullq) \cup {[e |-> e, path |-> p]}
      <4>1. pullq \in Seq(Requests)
        BY DEF Types
      <4>2. Waiting(Append(pullq, [e |-> e, path |-> p])) = Waiting(pullq) \cup {[e |-> e, path |-> p]}
        BY <2>3, <4>1, AppendWaiting
      <4>3. QED
        BY <2>1, <4>2
    <3>2. [e |-> e, path |-> p].e = e
      OBVIOUS
    <3>3. QED
      BY <3>1, <3>2
  <2>5. QED
    BY <2>1, <2>2, <2>4, HandsKept
<1>2. ASSUME NEW u \in Users, Accessed(u) PROVE MapInv'
  <2>1. Alive(client[u].e)
    BY <1>2, Constants DEF Accessed, MapInv
  <2>2. SameLives
    BY <1>2, <2>1 DEF Accessed, Only, SameLives
  <2>3. QED
    BY <1>2, <2>2, SameMap, HandsKept DEF Accessed, Moves
<1>3. ASSUME NEW u \in Users, NEW e \in Entries, Ended(u, e) PROVE MapInv'
  <2>1. /\ client[u].path \in Paths /\ CacheAccess(client[u].path, e) /\ Only(e)
        /\ entry'[e].life = "alive" /\ entry'[e].path = client[u].path
        /\ client'[u].e = 0 /\ \A v \in Users \ {u} : client'[v] = client[v]
        /\ UNCHANGED <<pullq, pushq, jan>>
    BY <1>3 DEF Ended, EndsWith, Ends
  <2>2. MapOf(map', entry') /\ \A f \in Entries : Alive(f) => StillAlive(f)
    BY <2>1, AccessMap
  <2>3. QED
    BY <2>1, <2>2, HandsKept
<1>4. ASSUME NEW u \in Users, Talks(u) PROVE MapInv'
  <2>1. /\ UNCHANGED <<map, entry, pullq, pushq, jan>> /\ client'[u].e \in {0, client[u].e}
        /\ \A v \in Users \ {u} : client'[v] = client[v]
    BY <1>4 DEF Talks, Moves, Ends
  <2>2. SameLives
    BY <2>1 DEF SameLives
  <2>3. QED
    BY <2>1, <2>2, SameMap, HandsKept
<1>5. ASSUME NEW e \in Entries, Alive(e), BeginsDelete(e), UNCHANGED <<map, pullq>>,
             \A u \in Users : client'[u].e \in {client[u].e, e}, jan'.e \in {jan.e, e}
      PROVE  MapInv'
  <2>1. SameLives
    BY <1>5 DEF BeginsDelete, Only, SameFile, SameLives
  <2>2. MapOf(map', entry') /\ \A f \in Entries : Alive(f) => StillAlive(f)
    BY <1>5, <2>1, SameMap
  <2>3. \A r \in Waiting(pullq') \cup Waiting(pushq') :
          r \in Waiting(pullq) \cup Waiting(pushq) \/ StillAlive(r.e)
    BY <1>5, <2>2 DEF BeginsDelete
  <2>4. (\A u \in Users : client'[u].e = client[u].e \/ StillAlive(client'[u].e))
        /\ (jan'.e = jan.e \/ StillAlive(jan'.e))
    BY <1>5, <2>2
  <2>5. QED
    BY <2>2, <2>3, <2>4, HandsKept
<1>6. ASSUME NEW u \in Users, StartsDeleting(u) PROVE MapInv'
  <2> DEFINE e == map[client[u].to]
  <2>1. e \in Entries /\ Alive(e)
    BY <1>6, Constants DEF StartsDeleting, MapInv, MapOf, Alive
  <2>2. /\ BeginsDelete(e) /\ UNCHANGED <<map, pullq>>
        /\ \A v \in Users : client'[v].e \in {client[v].e, e}
        /\ jan' = jan
    BY <1>6 DEF StartsDeleting, Moves
  <2> HIDE DEF e
  <2>3. QED
    BY <1>5, <2>1, <2>2
<1>7. ASSUME NEW u \in Users, Forgets(u) PROVE MapInv'
  <2>1. /\ Destroyed(client[u].e, client[u].to, u) /\ UNCHANGED <<pullq, pushq, jan>>
        /\ map' = [map EXCEPT ![client[u].to] = 0] /\ entry' = Destroy(entry, client[u].e)
        /\ client'[u].e = 0 /\ \A v \in Users \ {u} : client'[v] = client[v]
    BY <1>7 DEF Forgets, Moves
  <2>2. u # Janitor
    BY Constants
  <2>3. MapOf(map', entry') /\ \A f \in Entries \ {client[u].e} : Alive(f) => StillAlive(f)
    BY <2>1, DestroyedMap DEF StillAlive
  <2>4. QED
    BY <2>1, <2>2, <2>3, OtherHandsKept
<1>8. ASSUME NEW u \in Users, Rebinds(u) PROVE MapInv'
  <2> DEFINE p == client[u].path
             q == client[u].to
  <2>1. /\ p \in Paths /\ q \in Paths /\ UNCHANGED <<pullq, pushq, jan>>
        /\ client'[u].e \in {0, client[u].e} /\ \A v \in Users \ {u} : client'[v] = client[v]
    BY <1>8 DEF Rebinds, Moves, Ends
  <2>2. CASE (map[p] = 0 \/ map[q] = 0) /\ Rebound(map, entry, p, q)
    <3> HIDE DEF p, q
    <3>1. MapOf(map', entry')
      BY <2>1, <2>2, ReboundMap DEF Types, MapInv
    <3>2. \A f \in Entries : Alive(f) => StillAlive(f)
      <4>1. map \in [Paths -> Entries \cup {0}] /\ entry \in [Entries -> EntryType]
        BY DEF Types
      <4>2. Carries(entry)
        BY <2>1, <2>2, <4>1, ReboundDoes
      <4>3. QED
        BY <4>2 DEF Carries, Alive, StillAlive
    <3>3. QED
      BY <2>1, <3>1, <3>2, HandsKept
  <2>3. ASSUME NEW e \in Entries, Replaces(u, e) PROVE MapInv'
    <3>1. /\ Destroyed(e, q, u) /\ Rebound([map EXCEPT ![q] = 0], Destroy(entry, e), p, q)
      BY <2>3 DEF Replaces
    <3>2. client'[u].e = 0
      <4>1. CASE client[u].step = "rebinding"
        BY <1>8, <4>1 DEF Rebinds, Ends
      <4>2. CASE client[u].step # "rebinding"
        BY <1>8, <4>2 DEF Rebinds, Ends, Moves, LockInv, Using
      <4>3. QED
        BY <4>1, <4>2
    <3> HIDE DEF p, q
    <3>3. /\ MapOf([map EXCEPT ![q] = 0], Destroy(entry, e))
          /\ \A f \in Entries \ {e} : Alive(f) => Destroy(entry, e)[f].life = "alive"
      BY <3>1, DestroyedMap
    <3>4. /\ [map EXCEPT ![q] = 0] \in [Paths -> Entries \cup {0}] /\ [map EXCEPT ![q] = 0][q] = 0
          /\ Destroy(entry, e) \in [Entries -> EntryType]
      BY <2>1, DestroyIs DEF Types
    <3>5. MapOf(map', entry')
      BY <2>1, <3>1, <3>3, <3>4, ReboundMap
    <3>6. \A f \in Entries \ {e} : Alive(f) => StillAlive(f)
      <4>1. Carries(Destroy(entry, e))
        BY <2>1, <3>1, <3>4, ReboundDoes
      <4>2. QED
        BY <3>3, <4>1 DEF Carries, StillAlive
    <3>7. u # Janitor
      BY Constants
    <3>8. \A v \in Users : client'[v].e = 0 \/ (v # u /\ client'[v].e = client[v].e)
      BY <2>1, <3>2
    <3>9. QED
      BY <2>1, <3>1, <3>5, <3>6, <3>7, <3>8, OtherHandsKept
  <2>4. QED
    BY <1>8, <2>2, <2>3 DEF Rebinds
<1>9. ASSUME NEW u \in Users, Deletes(u) PROVE MapInv'
  <2> DEFINE p == client'[u].path
  <2>1. /\ UNCHANGED <<pullq, pushq, jan>> /\ client'[u].e = 0
        /\ \A v \in Users \ {u} : client'[v] = client[v]
    BY <1>9 DEF Deletes
  <2>2. CASE UNCHANGED <<map, entry>>
    <3>1. SameLives
      BY <2>2 DEF SameLives
    <3>2. QED
      BY <2>1, <2>2, <3>1, SameMap, HandsKept
  <2>3. ASSUME NEW e \in Entries, map' = [map EXCEPT ![p] = 0], entry' = Destroy(entry, e),
               Destroyed(e, p, Nil)
        PROVE  MapInv'
    <3>1. MapOf(map', entry') /\ \A f \in Entries \ {e} : Alive(f) => StillAlive(f)
      <4> HIDE DEF p
      <4>1. QED
        BY <2>3, DestroyedMap DEF StillAlive
    <3>2. \A v \in Users : client'[v].e = 0 \/ (v # Nil /\ client'[v].e = client[v].e)
      BY <2>1, Constants
    <3>3. Nil # Janitor
      BY Constants
    <3> HIDE DEF p
    <3>4. QED
      BY <2>1, <2>3, <3>1, <3>2, <3>3, OtherHandsKept
  <2>4. QED
    BY <1>9, <2>2, <2>3 DEF Deletes
<1>10. ASSUME NEW u \in Users, Served(u) PROVE MapInv'
  <2>1. /\ UNCHANGED <<map, pullq, pushq, jan>>
        /\ \A v \in Users : client'[v].e \in {0, client[v].e}
    BY <1>10 DEF Served, Serves, Moves, Ends
  <2>2. \/ \E p, q \in Paths \cup {Nil} : p # Nil /\ Rehomed(p, q)
        \/ entry' = entry
    BY <1>10, Constants DEF Served, Serves, Removed, Moved, Created, Untouched
  <2>3. SameLives
    BY <2>2 DEF Rehomed, SameLives, MapInv, MapOf, Alive
  <2>4. QED
    BY <2>1, <2>3, SameMap, HandsKept
<1>11. CASE GetsStuck
  BY <1>5, <1>11 DEF GetsStuck
<1>12. ASSUME NEW e \in Entries, NEW p \in Paths, Pulled(e, p) PROVE MapInv'
  <2>1. [e |-> e, path |-> p] \in Waiting(pullq) /\ Waiting(pullq') \subseteq Waiting(pullq)
    <3>1. pullq # <<>> /\ Head(pullq) = [e |-> e, path |-> p] /\ pullq' = Tail(pullq)
      BY <1>12 DEF Pulled
    <3>2. pullq \in Seq(Requests)
      BY DEF Types
    <3>3. QED
      BY <3>1, <3>2, TailWaiting
  <2>2. Alive(e)
    BY <2>1 DEF MapInv
  <2>3. SameLives
    BY <1>12, <2>2 DEF Pulled, Pulls, Only, SameLives
  <2>4. QED
    BY <1>12, <2>1, <2>3, SameMap, HandsKept DEF Pulled
<1>13. ASSUME NEW e \in Entries, NEW p \in Paths, Pushed(e, p) PROVE MapInv'
  <2>1. [e |-> e, path |-> p] \in Waiting(pushq) /\ Waiting(pushq') \subseteq Waiting(pushq)
    <3>1. pushq # <<>> /\ Head(pushq) = [e |-> e, path |-> p] /\ pushq' = Tail(pushq)
      BY <1>13 DEF Pushed
    <3>2. pushq \in Seq(Requests)
      BY DEF Types
    <3>3. QED
      BY <3>1, <3>2, TailWaiting
  <2>2. Alive(e)
    BY <2>1 DEF MapInv
  <2>3. SameLives
    BY <1>13, <2>2 DEF Pushed, Pushes, Only, SameFile, SameLives
  <2>4. QED
    BY <1>13, <2>1, <2>3, SameMap, HandsKept DEF Pushed
<1>14. ASSUME NEW old \in SUBSET Paths, Scanned(old) PROVE MapInv'
  <2>1. jan'.e = jan.e
    BY <1>14 DEF Scanned, Scans, Types, JanitorType
  <2>2. SameLives
    BY <1>14 DEF Scanned, Scans, SameFile, SameLives, MapInv, MapOf, Alive
  <2>3. MapOf(map', entry') /\ \A f \in Entries : Alive(f) => StillAlive(f)
    <3>1. map' = map
      BY <1>14 DEF Scanned
    <3>2. QED
      BY <2>2, <3>1, SameMap
  <2>4. \A r \in Waiting(pushq') : r.e \in Entries
    <3>1. pushq' \in Seq(Requests)
      BY <1>14 DEF Scanned, Scans
    <3>2. \A r \in Waiting(pushq') : r \in Requests
      BY <3>1, LenProperties DEF Waiting
    <3>3. QED
      BY <3>2 DEF Requests
  <2>5. \A r \in Waiting(pushq') : r \in Waiting(pushq) \/ StillAlive(r.e)
    BY <1>14, <2>3, <2>4 DEF Scanned, Scans
  <2>6. QED
    BY <1>14, <2>1, <2>3, <2>5, HandsKept DEF Scanned
<1>15. CASE JanitorTalks
  <2>1. SameLives
    BY <1>15 DEF JanitorTalks, SameLives
  <2>2. QED
    BY <1>15, <2>1, SameMap, HandsKept DEF JanitorTalks
<1>16. CASE JanitorStarts
  <2>1. jan'.e \in Entries /\ Alive(jan'.e)
    BY <1>16, Constants DEF JanitorStarts, MapInv, MapOf, Alive
  <2>2. /\ BeginsDelete(jan'.e) /\ UNCHANGED <<map, pullq, client>>
    BY <1>16 DEF JanitorStarts
  <2>3. QED
    BY <1>5, <2>1, <2>2
<1>17. CASE JanitorEnds
  <2>1. /\ Destroyed(jan.e, jan.path, Janitor) /\ UNCHANGED <<pullq, pushq, client>>
        /\ map' = [map EXCEPT ![jan.path] = 0] /\ entry' = Destroy(entry, jan.e) /\ jan'.e = 0
    BY <1>17 DEF JanitorEnds
  <2>2. MapOf(map', entry') /\ \A f \in Entries \ {jan.e} : Alive(f) => StillAlive(f)
    BY <2>1, DestroyedMap DEF StillAlive
  <2>3. \A v \in Users : v # Janitor
    BY Constants
  <2>4. QED
    BY <2>1, <2>2, <2>3, OtherHandsKept
<1>18. QED
  BY <1>1, <1>2, <1>3, <1>4, <1>6, <1>7, <1>8, <1>9, <1>10, <1>11, <1>12, <1>13, <1>14,
     <1>15, <1>16, <1>17 DEF Happens, Does

-----------------------------------------------------------------------------
(* As long as nothing goes wrong: what the entries hold.                   *)

Holding == {"AVAILABLE", "DIRTY", "PUSHING"}
Holds(e) == entry[e].status \in Holding
WriterAtEnd(e) ==
  \E u \in Users : client[u].step = "end" /\ client[u].e = e /\ client[u].op = "write"
Deleting(e) ==
  \/ jan.e = e
  \/ \E u \in Users : client[u].e = e /\ client[u].step \in {"forgetting", "rebinding"}

\* An entry has a copy from its pull on, and it is pulled once.
HoldInv ==
  /\ \A e \in Entries :
       /\ entry[e].copy # NoFile <=> Holds(e)
       /\ entry[e].home # Nil => Holds(e)
       /\ Alive(e) => entry[e].status # "NONEXISTANT"
  /\ \A u \in Users : client[u].step \in {"access", "pushing"} => entry[client[u].e].status \in Holding
PullInv ==
  /\ \A r \in Waiting(pullq) : entry[r.e].status = "PULLING"
  /\ Once(pullq) /\ \A r, s \in Waiting(pullq) : r.e = s.e => r = s

\* A file is held by one entry at most, which has what was written last.
HomeInv ==
  \A e \in Entries : entry[e].home # Nil =>
    /\ dev[entry[e].home] # NoFile
    /\ latest[entry[e].home] \in Users => entry[e].copy = latest[entry[e].home]
    /\ \A f \in Entries : entry[f].home = entry[e].home => f = e

\* What the device has not got is in an entry that is to be pushed, or will be once its
\* writer is done.
Brings(e, p) == entry[e].home = p /\ (entry[e].status \in {"DIRTY", "PUSHING"} \/ WriterAtEnd(e))
KeptInv ==
  \A p \in Paths : latest[p] \in Users /\ dev[p] # latest[p] => \E e \in Entries : Brings(e, p)

\* A destructor gives up a push only if nothing was written.
DelInv ==
  \A e \in Entries : Deleting(e) /\ entry[e].status = "DIRTY" =>
    entry[e].copy \notin Users \/ WriterAtEnd(e)

Files == HoldInv /\ PullInv /\ HomeInv /\ KeptInv /\ DelInv

\* Most steps change no file and no copy; a push may be asked for.
Calm ==
  /\ UNCHANGED <<dev, pullq>> /\ \A p \in Paths : latest'[p] = latest[p] \/ latest'[p] = NoFile
  /\ \A e \in Entries :
       /\ entry'[e].life = entry[e].life /\ entry'[e].copy = entry[e].copy
       /\ entry'[e].home = entry[e].home
       /\ \/ entry'[e].status = entry[e].status
          \/ entry[e].status = "DIRTY" /\ entry'[e].status = "PUSHING"
       /\ Deleting(e)' => Deleting(e) \/ entry'[e].status # "DIRTY"
  /\ \A u \in Users :
       /\ client[u].step = "end" => client'[u] = client[u]
       /\ client'[u].step \in {"access", "pushing"} =>
            client'[u] = client[u] \/ entry[client'[u].e].status \in Holding

LEMMA CalmKeeps ==
  ASSUME Types, Types', LockInv', Files, Calm
  PROVE  Files'
<1>1. HoldInv'
  <2>1. \A e \in Entries : /\ entry'[e].copy # NoFile <=> entry'[e].status \in Holding
                           /\ entry'[e].home # Nil => entry'[e].status \in Holding
                           /\ entry'[e].life = "alive" => entry'[e].status # "NONEXISTANT"
    BY DEF Calm, Files, HoldInv, Holds, Holding, Alive
  <2>2. ASSUME NEW u \in Users, client'[u].step \in {"access", "pushing"}
        PROVE  entry'[client'[u].e].status \in Holding
    <3>1. client'[u].e \in Entries
      BY <2>2 DEF Types, ClientType, LockInv, Using
    <3>2. entry[client'[u].e].status \in Holding
      BY <2>2 DEF Calm, Files, HoldInv
    <3>3. QED
      BY <3>1, <3>2 DEF Calm, Holding
  <2>3. QED
    BY <2>1, <2>2 DEF HoldInv, Holds, Alive
<1>2. PullInv'
  <2>1. \A r \in Waiting(pullq) : r \in Requests
    BY LenProperties DEF Types, Waiting
  <2>2. QED
    BY <2>1 DEF Calm, Files, PullInv, Requests
<1>3. HomeInv'
  <2>1. \A e \in Entries : entry[e].home \in Paths \cup {Nil}
    BY DEF Types, EntryType
  <2>2. QED
    BY <2>1, Constants DEF Calm, Files, HomeInv
<1>4. \A e \in Entries : WriterAtEnd(e) => WriterAtEnd(e)'
  BY DEF Calm, WriterAtEnd
<1>5. KeptInv'
  <2>1. \A e \in Entries, p \in Paths : Brings(e, p) => Brings(e, p)'
    BY <1>4 DEF Calm, Brings
  <2>2. QED
    BY <2>1, Constants DEF Calm, Files, KeptInv
<1>6. DelInv'
  BY <1>4 DEF Calm, Files, DelInv
<1>7. QED
  BY <1>1, <1>2, <1>3, <1>5, <1>6 DEF Files

\* An entry goes that nobody needs any more.
Wiped(e) ==
  /\ e \in Entries /\ UNCHANGED <<dev, pullq>>
  /\ entry'[e].life # "alive" /\ entry'[e].status = "NONEXISTANT"
  /\ entry'[e].copy = NoFile /\ entry'[e].home = Nil
  /\ \A f \in Entries \ {e} :
       /\ entry'[f].life = entry[f].life /\ entry'[f].copy = entry[f].copy
       /\ entry'[f].home = entry[f].home /\ entry'[f].status = entry[f].status
  /\ \A f \in Entries : Deleting(f)' => Deleting(f)
  /\ \A r \in Waiting(pullq) : r.e # e
  /\ \A u \in Users :
       /\ client[u].step = "end" => client'[u] = client[u] /\ client[u].e # e
       /\ client'[u].step \in {"access", "pushing"} => client'[u] = client[u] /\ client[u].e # e
  /\ \A p \in Paths : latest'[p] = latest[p] \/ latest'[p] = NoFile
  /\ entry[e].status \in {"DIRTY", "PUSHING"} =>
       entry[e].copy \notin Users \/ \A p \in Paths : entry[e].home = p => latest'[p] = NoFile

LEMMA WipedKeeps ==
  ASSUME Types, Types', LockInv, Files, NEW e, Wiped(e)
  PROVE  Files'
<1>1. HoldInv'
  <2>1. \A f \in Entries : /\ entry'[f].copy # NoFile <=> entry'[f].status \in Holding
                           /\ entry'[f].home # Nil => entry'[f].status \in Holding
                           /\ entry'[f].life = "alive" => entry'[f].status # "NONEXISTANT"
    BY DEF Wiped, Files, HoldInv, Holds, Holding, Alive
  <2>2. ASSUME NEW u \in Users, client'[u].step \in {"access", "pushing"}
        PROVE  entry'[client'[u].e].status \in Holding
    <3>1. client'[u] = client[u] /\ client[u].e \in Entries \ {e}
      BY <2>2 DEF Types, ClientType, LockInv, Using, Wiped
    <3>2. QED
      BY <2>2, <3>1 DEF Wiped, Files, HoldInv
  <2>3. QED
    BY <2>1, <2>2 DEF HoldInv, Holds, Alive
<1>2. PullInv'
  <2>1. \A r \in Waiting(pullq) : r \in Requests
    BY LenProperties DEF Types, Waiting
  <2>2. QED
    BY <2>1 DEF Wiped, Files, PullInv, Requests
<1>3. HomeInv'
  <2>1. \A f \in Entries : entry[f].home \in Paths \cup {Nil}
    BY DEF Types, EntryType
  <2>2. QED
    BY <2>1, Constants DEF Wiped, Files, HomeInv
<1>4. \A f \in Entries : WriterAtEnd(f) => f # e /\ WriterAtEnd(f)'
  BY DEF Wiped, WriterAtEnd
<1>5. KeptInv'
  <2> SUFFICES ASSUME NEW p \in Paths, latest'[p] \in Users, dev'[p] # latest'[p]
               PROVE  \E f \in Entries : Brings(f, p)'
    BY DEF KeptInv
  <2>1. latest'[p] = latest[p] /\ dev'[p] = dev[p]
    BY Constants DEF Wiped
  <2>2. PICK f \in Entries : Brings(f, p)
    BY <2>1 DEF Files, KeptInv
  <2>3. f # e
    <3>1. CASE entry[e].home # p
      BY <2>2, <3>1 DEF Brings
    <3>2. CASE entry[e].home = p
      <4>1. entry[e].copy = latest[p] /\ latest'[p] # NoFile
        BY <2>1, <3>2, Constants DEF Files, HomeInv, Wiped
      <4>2. entry[e].status \notin {"DIRTY", "PUSHING"}
        BY <2>1, <3>2, <4>1 DEF Wiped
      <4>3. QED
        BY <1>4, <2>2, <4>2 DEF Brings
    <3>3. QED
      BY <3>1, <3>2
  <2>4. QED
    BY <1>4, <2>2, <2>3 DEF Wiped, Brings
<1>6. DelInv'
  BY <1>4 DEF Wiped, Files, DelInv
<1>7. QED
  BY <1>1, <1>2, <1>3, <1>5, <1>6 DEF Files

\* A pull is asked for once, for an entry that has no copy.
LEMMA BegunKeeps ==
  ASSUME Types, Types', LockInv, MapInv', Files, NEW u \in Users, NEW op \in {"read", "write"},
         NEW p \in Paths, NEW e \in Entries, Begun(u, op, p, e)
  PROVE  Files'
<1> DEFINE s == entry[e].status
           pull == s \in {"NONEXISTANT", "FAIL"}
<1>1. /\ UNCHANGED <<dev, latest, jan>> /\ client[u].step = "idle"
      /\ \A f \in Entries \ {e} : entry'[f] = entry[f]
      /\ entry'[e].copy = entry[e].copy /\ entry'[e].home = entry[e].home
      /\ entry'[e].status = IF pull THEN "PULLING" ELSE s
      /\ client'[u].e = e
      /\ client'[u].step = IF pull \/ s = "PULLING" THEN "pulling"
                           ELSE IF s = "PUSHING" /\ op = "write" THEN "pushing" ELSE "access"
      /\ \A v \in Users \ {u} : client'[v] = client[v]
      /\ pullq' = IF pull THEN Append(pullq, [e |-> e, path |-> p]) ELSE pullq
  BY DEF Begun, BeginsWith, Only
<1>2. s \in Status /\ (s \in Holding => ~pull /\ s # "PULLING")
  BY DEF Types, EntryType, Holding
<1>3. HoldInv'
  <2>1. ASSUME NEW f \in Entries
        PROVE  /\ entry'[f].copy # NoFile <=> entry'[f].status \in Holding
               /\ entry'[f].home # Nil => entry'[f].status \in Holding
               /\ entry'[f].life = "alive" => entry'[f].status # "NONEXISTANT"
    BY <1>1, <1>2 DEF Files, HoldInv, Holds, Holding, Alive
  <2>2. ASSUME NEW v \in Users, client'[v].step \in {"access", "pushing"}
        PROVE  entry'[client'[v].e].status \in Holding
    <3>1. CASE v = u
      BY <1>1, <1>2, <2>2, <3>1 DEF Status, Holding
    <3>2. CASE v # u
      <4>1. client'[v] = client[v] /\ client[v].e \in Entries
        BY <1>1, <2>2, <3>2 DEF Types, ClientType, LockInv, Using
      <4>2. entry[client[v].e].status \in Holding
        BY <2>2, <4>1 DEF Files, HoldInv
      <4>3. QED
        BY <1>1, <1>2, <4>1, <4>2
    <3>3. QED
      BY <3>1, <3>2
  <2>3. QED
    BY <2>1, <2>2 DEF HoldInv, Holds, Alive
<1>4. PullInv'
  <2> DEFINE x == [e |-> e, path |-> p]
  <2>1. x \in Requests /\ x.e = e
    BY DEF Requests
  <2>2. \A r \in Waiting(pullq) : r.e \in Entries /\ entry[r.e].status = "PULLING"
    <3>1. \A r \in Waiting(pullq) : r \in Requests
      BY LenProperties DEF Types, Waiting
    <3>2. QED
      BY <3>1 DEF Files, PullInv, Requests
  <2> HIDE DEF x
  <2>3. CASE pull
    <3>1. \A r \in Waiting(pullq) : r.e # e /\ r # x
      BY <2>1, <2>2, <2>3
    <3>2. Waiting(pullq') = Waiting(pullq) \cup {x} /\ Once(pullq')
      <4>1. pullq' = Append(pullq, x) /\ pullq \in Seq(Requests) /\ x \notin Waiting(pullq)
        BY <1>1, <2>3, <3>1 DEF x, Types
      <4>2. QED
        BY <2>1, <4>1, AppendWaiting DEF Files, PullInv
    <3>3. \A r \in Waiting(pullq') : entry'[r.e].status = "PULLING"
      BY <1>1, <2>1, <2>2, <2>3, <3>1, <3>2
    <3>4. \A r, t \in Waiting(pullq') : r.e = t.e => r = t
      BY <2>1, <3>1, <3>2 DEF Files, PullInv
    <3>5. QED
      BY <3>2, <3>3, <3>4 DEF PullInv
  <2>4. CASE ~pull
    BY <1>1, <2>2, <2>4 DEF Files, PullInv
  <2>5. QED
    BY <2>3, <2>4
<1>5. HomeInv'
  BY <1>1 DEF Files, HomeInv
<1>6. \A f \in Entries : WriterAtEnd(f) => WriterAtEnd(f)'
  BY <1>1 DEF WriterAtEnd
<1>7. KeptInv'
  <2>1. \A f \in Entries, q \in Paths : Brings(f, q) => Brings(f, q)'
    BY <1>1, <1>6 DEF Brings
  <2>2. QED
    BY <1>1, <2>1 DEF Files, KeptInv
<1>8. DelInv'
  <2>1. \A f \in Entries : Deleting(f)' => Deleting(f)
    BY <1>1 DEF Deleting
  <2>2. QED
    BY <1>1, <1>6, <2>1 DEF Files, DelInv
<1>9. QED
  BY <1>3, <1>4, <1>5, <1>7, <1>8 DEF Files

\* A write makes the copy of the entry the latest of its file, and will bring it there.
LEMMA AccessedKeeps ==
  ASSUME Types, Types', LockInv, MapInv', Files, NEW u \in Users, Accessed(u)
  PROVE  Files'
<1>0. PICK e \in Entries : e = client[u].e
  BY DEF Accessed
<1>1. /\ UNCHANGED <<dev, jan, pullq>> /\ client[u].step = "access" /\ client[u].e = e
      /\ client'[u].step = "end" /\ client'[u].e = e /\ client'[u].op = client[u].op
      /\ \A v \in Users \ {u} : client'[v] = client[v]
  BY <1>0 DEF Accessed, Moves
<1>2. CASE UNCHANGED <<entry, latest>>
  <2>1. Calm
    <3>1. \A f \in Entries : Deleting(f)' => Deleting(f)
      BY <1>1 DEF Deleting
    <3>2. \A v \in Users : client'[v].step \in {"access", "pushing"} => entry[client'[v].e].status \in Holding
      BY <1>1 DEF Files, HoldInv
    <3>3. QED
      BY <1>1, <1>2, <3>1, <3>2 DEF Calm
  <2>2. LockInv'
    BY <1>1, <1>2 DEF Accessed, LockInv, Moves, Using, Locking, OnePath
  <2>3. QED
    BY <2>1, <2>2, CalmKeeps
<1>3. CASE /\ client[u].op = "write" /\ Only(e) /\ entry'[e].copy = u
           /\ entry'[e].life = entry[e].life /\ entry'[e].path = entry[e].path
           /\ entry'[e].status = entry[e].status /\ entry'[e].home = entry[e].home
           /\ latest' \in [Paths -> Content]
           /\ \A p \in Paths : latest'[p] = IF p = entry[e].home THEN u ELSE latest[p]
  <2>1. \A f \in Entries \ {e} : entry'[f] = entry[f]
    BY <1>3 DEF Only
  <2>2. entry[e].status \in Holding /\ u # NoFile
    BY <1>1, Constants DEF Files, HoldInv
  <2>3. HoldInv'
    <3>1. \A f \in Entries : /\ entry'[f].copy # NoFile <=> entry'[f].status \in Holding
                             /\ entry'[f].home # Nil => entry'[f].status \in Holding
                             /\ entry'[f].life = "alive" => entry'[f].status # "NONEXISTANT"
      BY <1>3, <2>1, <2>2 DEF Files, HoldInv, Holds, Alive
    <3>2. ASSUME NEW v \in Users, client'[v].step \in {"access", "pushing"}
          PROVE  entry'[client'[v].e].status \in Holding
      <4>1. client'[v] = client[v] /\ client[v].e \in Entries
        BY <1>1, <3>2 DEF Types, ClientType, LockInv, Using
      <4>2. QED
        BY <1>3, <2>1, <3>2, <4>1 DEF Files, HoldInv
    <3>3. QED
      BY <3>1, <3>2 DEF HoldInv, Holds, Alive
  <2>4. \A f \in Entries : entry'[f].status = entry[f].status /\ entry'[f].home = entry[f].home
    BY <1>3, <2>1
  <2>5. PullInv'
    <3>1. \A r \in Waiting(pullq) : r \in Requests
      BY LenProperties DEF Types, Waiting
    <3>2. QED
      BY <1>1, <2>4, <3>1 DEF Files, PullInv, Requests
  <2>6. HomeInv'
    <3>1. \A f \in Entries : entry[f].home \in Paths \cup {Nil}
      BY DEF Types, EntryType
    <3>2. QED
      BY <1>1, <1>3, <2>1, <2>4, <3>1 DEF Files, HomeInv
  <2>7. (\A f \in Entries : WriterAtEnd(f) => WriterAtEnd(f)') /\ WriterAtEnd(e)'
    BY <1>1, <1>3 DEF WriterAtEnd
  <2>8. KeptInv'
    <3> SUFFICES ASSUME NEW p \in Paths, latest'[p] \in Users, dev'[p] # latest'[p]
                 PROVE  \E f \in Entries : Brings(f, p)'
      BY DEF KeptInv
    <3>1. CASE p = entry[e].home
      BY <1>1, <1>3, <2>7, <3>1 DEF Brings
    <3>2. CASE p # entry[e].home
      <4>1. latest'[p] = latest[p] /\ dev'[p] = dev[p]
        BY <1>1, <1>3, <3>2
      <4>2. PICK f \in Entries : Brings(f, p)
        BY <4>1 DEF Files, KeptInv
      <4>3. QED
        BY <2>4, <2>7, <4>2 DEF Brings
    <3>3. QED
      BY <3>1, <3>2
  <2>9. DelInv'
    <3>1. \A f \in Entries : Deleting(f)' => Deleting(f)
      BY <1>1 DEF Deleting
    <3> SUFFICES ASSUME NEW f \in Entries, Deleting(f)', entry'[f].status = "DIRTY"
                 PROVE  entry'[f].copy \notin Users \/ WriterAtEnd(f)'
      BY DEF DelInv
    <3>2. CASE f = e
      BY <2>7, <3>2 DEF WriterAtEnd
    <3>3. CASE f # e
      <4>1. entry[f].copy \notin Users \/ WriterAtEnd(f)
        BY <2>4, <3>1 DEF Files, DelInv
      <4>2. QED
        BY <2>1, <2>7, <3>3, <4>1
    <3>4. QED
      BY <3>2, <3>3
  <2>10. QED
    BY <2>3, <2>5, <2>6, <2>8, <2>9 DEF Files
<1>4. QED
  BY <1>0, <1>2, <1>3 DEF Accessed

\* The end of a write leaves it to a push.
EndsHere(u, e) ==
  /\ Ended(u, e) /\ e = client[u].e
  /\ client[u].op = "write" => entry[e].copy # NoFile /\ ~Deleting(e)

LEMMA EndedHere ==
  ASSUME Types, LockInv, MapInv, NEW u \in Users, NEW e \in Entries, Ended(u, e), faults' = {}
  PROVE  EndsHere(u, e) /\ map' = map
<1>1. /\ client[u].step = "end" /\ client[u].path \in Paths /\ CacheAccess(client[u].path, e)
      /\ faults' = faults
           \cup (IF e # client[u].e THEN {"endedElsewhere"} ELSE {})
           \cup (IF client[u].op = "write" /\ entry[e].copy = NoFile THEN {"failedWrite"} ELSE {})
           \cup IF client[u].op = "write" /\ Deleters(e) # {} THEN {"writtenWhileDeleted"} ELSE {}
  BY DEF Ended, EndsWith
<1>2. e = client[u].e /\ (client[u].op = "write" => entry[e].copy # NoFile /\ Deleters(e) = {})
  BY <1>1
<1>3. Deleting(e) => Deleters(e) # {}
  <2>1. CASE jan.e = e
    BY <2>1 DEF Deleters, Holders
  <2>2. ASSUME NEW v \in Users, client[v].e = e, client[v].step \in {"forgetting", "rebinding"}
        PROVE  Deleters(e) # {}
    BY <2>2 DEF Deleters, Holders
  <2>3. QED
    BY <2>1, <2>2 DEF Deleting
<1>4. map' = map
  <2>1. Alive(e)
    BY <1>2, Constants DEF MapInv
  <2>2. map[client[u].path] = e /\ map' = [map EXCEPT ![client[u].path] = e]
    BY <1>1, <2>1, CacheAccessDoes DEF CacheAccess
  <2>3. QED
    BY <1>1, <2>2 DEF Types
<1>5. QED
  BY <1>2, <1>3, <1>4 DEF EndsHere

LEMMA EndedKeeps ==
  ASSUME Types, Types', LockInv, MapInv, Files, NEW u \in Users, NEW e \in Entries, EndsHere(u, e)
  PROVE  Files'
<1>1. /\ UNCHANGED <<dev, latest, jan, pullq>> /\ client[u].step = "end" /\ client[u].e = e
      /\ client'[u].step = "idle"
      /\ \A v \in Users \ {u} : client'[v] = client[v]
      /\ \A f \in Entries \ {e} : entry'[f] = entry[f]
      /\ entry'[e].copy = entry[e].copy /\ entry'[e].home = entry[e].home
      /\ entry'[e].status = IF client[u].op = "write" THEN "DIRTY" ELSE entry[e].status
  BY DEF EndsHere, Ended, EndsWith, Ends, Only
<1>2. client[u].op = "write" => entry[e].status \in Holding /\ ~Deleting(e)
  BY DEF EndsHere, Files, HoldInv, Holds
<1>3. \A f \in Entries :
        /\ entry'[f].copy = entry[f].copy /\ entry'[f].home = entry[f].home
        /\ entry[f].status \in Holding <=> entry'[f].status \in Holding
        /\ entry[f].status \in {"DIRTY", "PUSHING"} => entry'[f].status \in {"DIRTY", "PUSHING"}
        /\ entry[f].status = "PULLING" => entry'[f].status = "PULLING"
  BY <1>1, <1>2 DEF Holding
<1>4. HoldInv'
  <2>1. \A f \in Entries : /\ entry'[f].copy # NoFile <=> entry'[f].status \in Holding
                           /\ entry'[f].home # Nil => entry'[f].status \in Holding
                           /\ entry'[f].life = "alive" => entry'[f].status # "NONEXISTANT"
    <3>1. \A f \in Entries : entry'[f].life = "alive" => entry'[f].status # "NONEXISTANT"
      <4>1. entry[e].life = "alive"
        BY <1>1, Constants DEF MapInv, Alive
      <4>2. QED
        BY <1>1, <4>1 DEF Files, HoldInv, Alive
    <3>2. QED
      BY <1>3, <3>1 DEF Files, HoldInv, Holds
  <2>2. ASSUME NEW v \in Users, client'[v].step \in {"access", "pushing"}
        PROVE  entry'[client'[v].e].status \in Holding
    <3>1. client'[v] = client[v] /\ client[v].e \in Entries
      BY <1>1, <2>2 DEF Types, ClientType, LockInv, Using
    <3>2. QED
      BY <1>3, <2>2, <3>1 DEF Files, HoldInv
  <2>3. QED
    BY <2>1, <2>2 DEF HoldInv, Holds, Alive
<1>5. PullInv'
  <2>1. \A r \in Waiting(pullq) : r \in Requests
    BY LenProperties DEF Types, Waiting
  <2>2. QED
    BY <1>1, <1>3, <2>1 DEF Files, PullInv, Requests
<1>6. HomeInv'
  BY <1>1, <1>3 DEF Files, HomeInv
<1>7. \A f \in Entries : WriterAtEnd(f) => WriterAtEnd(f)' \/ (f = e /\ entry'[f].status = "DIRTY")
  BY <1>1 DEF WriterAtEnd
<1>8. KeptInv'
  <2>1. \A f \in Entries, q \in Paths : Brings(f, q) => Brings(f, q)'
    BY <1>3, <1>7 DEF Brings
  <2>2. QED
    BY <1>1, <2>1 DEF Files, KeptInv
<1>9. DelInv'
  <2>1. \A f \in Entries : Deleting(f)' => Deleting(f)
    BY <1>1 DEF Deleting
  <2> SUFFICES ASSUME NEW f \in Entries, Deleting(f), entry'[f].status = "DIRTY"
               PROVE  entry'[f].copy \notin Users \/ WriterAtEnd(f)'
    BY <2>1 DEF DelInv
  <2>2. entry[f].status = "DIRTY" /\ ~(f = e /\ client[u].op = "write")
    BY <1>1, <1>2
  <2>3. entry[f].copy \notin Users \/ WriterAtEnd(f)
    BY <2>2 DEF Files, DelInv
  <2>4. WriterAtEnd(f) => WriterAtEnd(f)'
    BY <1>1, <2>2 DEF WriterAtEnd
  <2>5. QED
    BY <1>3, <2>3, <2>4
<1>10. QED
  BY <1>4, <1>5, <1>6, <1>8, <1>9 DEF Files

\* A file is removed, moved or made: the entry that holds it goes with it.
Passive ==
  /\ UNCHANGED <<pullq, jan>>
  /\ \A v \in Users :
       /\ client[v].step = "end" => client'[v] = client[v]
       /\ client'[v].step \in {"access", "pushing", "forgetting", "rebinding"} => client'[v] = client[v]

LEMMA FileKeeps ==
  ASSUME Types, Types', LockInv, Files, Passive, NEW p \in Paths, NEW q \in Paths,
         Removed(p) \/ Moved(p, q) \/ Created(p)
  PROVE  Files'
<1>1. \A e \in Entries :
        /\ entry'[e].life = entry[e].life /\ entry'[e].copy = entry[e].copy
        /\ entry'[e].status = entry[e].status
        /\ entry[e].home = Nil => entry'[e].home = Nil
  BY Constants DEF Removed, Moved, Created, Rehomed
<1>2. \A e \in Entries : entry[e].home \in Paths \cup {Nil}
  BY DEF Types, EntryType
<1>3. HoldInv'
  <2>1. \A f \in Entries : /\ entry'[f].copy # NoFile <=> entry'[f].status \in Holding
                           /\ entry'[f].home # Nil => entry'[f].status \in Holding
                           /\ entry'[f].life = "alive" => entry'[f].status # "NONEXISTANT"
    BY <1>1 DEF Files, HoldInv, Holds, Alive
  <2>2. ASSUME NEW v \in Users, client'[v].step \in {"access", "pushing"}
        PROVE  entry'[client'[v].e].status \in Holding
    <3>1. client'[v] = client[v] /\ client[v].e \in Entries
      BY <2>2 DEF Passive, Types, ClientType, LockInv, Using
    <3>2. QED
      BY <1>1, <2>2, <3>1 DEF Files, HoldInv
  <2>3. QED
    BY <2>1, <2>2 DEF HoldInv, Holds, Alive
<1>4. PullInv'
  <2>1. \A r \in Waiting(pullq) : r \in Requests
    BY LenProperties DEF Types, Waiting
  <2>2. QED
    BY <1>1, <2>1 DEF Passive, Files, PullInv, Requests
<1>5. \A f \in Entries : WriterAtEnd(f) => WriterAtEnd(f)'
  BY DEF Passive, WriterAtEnd
<1>6. DelInv'
  <2>1. \A f \in Entries : Deleting(f)' => Deleting(f)
    BY DEF Passive, Deleting
  <2>2. QED
    BY <1>1, <1>5, <2>1 DEF Files, DelInv
<1>7. HomeInv'
  <2>1. CASE Removed(p)
    <3>1. \A e \in Entries : entry'[e].home = IF entry[e].home = p THEN Nil ELSE entry[e].home
      BY <2>1 DEF Removed, Rehomed
    <3>2. \A x \in Paths \ {p} : dev'[x] = dev[x] /\ latest'[x] = latest[x]
      BY <2>1 DEF Removed, Types
    <3>3. QED
      BY <1>1, <1>2, <3>1, <3>2 DEF Files, HomeInv
  <2>2. CASE Moved(p, q)
    <3>1. \A e \in Entries : entry'[e].home = IF entry[e].home = p THEN q ELSE entry[e].home
      BY <2>2 DEF Moved, Rehomed
    <3>2. /\ dev[q] = NoFile /\ p # q /\ dev'[q] = dev[p] /\ latest'[q] = latest[p]
          /\ \A x \in Paths \ {p, q} : dev'[x] = dev[x] /\ latest'[x] = latest[x]
      BY <2>2 DEF Moved, Types
    <3>3. q # Nil /\ \A e \in Entries : entry[e].home # q
      BY <3>2, Constants DEF Files, HomeInv
    <3>4. QED
      BY <1>1, <1>2, <3>1, <3>2, <3>3 DEF Files, HomeInv
  <2>3. CASE Created(p)
    <3>1. entry' = entry /\ \A x \in Paths : (dev[x] # NoFile => dev'[x] = dev[x] /\ latest'[x] = latest[x])
      BY <2>3 DEF Created, Types
    <3>2. QED
      BY <1>2, <3>1 DEF Files, HomeInv
  <2>4. QED
    BY <2>1, <2>2, <2>3
<1>8. KeptInv'
  <2> SUFFICES ASSUME NEW x \in Paths, latest'[x] \in Users, dev'[x] # latest'[x]
               PROVE  \E f \in Entries : Brings(f, x)'
    BY DEF KeptInv
  <2>1. ASSUME NEW y \in Paths, latest[y] \in Users, dev[y] # latest[y],
               \A f \in Entries : entry[f].home = y => entry'[f].home = x
        PROVE  \E f \in Entries : Brings(f, x)'
    <3>1. PICK f \in Entries : Brings(f, y)
      BY <2>1 DEF Files, KeptInv
    <3>2. QED
      BY <1>1, <1>5, <2>1, <3>1 DEF Brings
  <2>2. CASE Removed(p)
    <3>1. x # p /\ dev'[x] = dev[x] /\ latest'[x] = latest[x]
      BY <2>2, Constants DEF Removed, Types
    <3>2. \A f \in Entries : entry[f].home = x => entry'[f].home = x
      BY <2>2, <3>1 DEF Removed, Rehomed
    <3>3. QED
      BY <2>1, <3>1, <3>2
  <2>3. CASE Moved(p, q)
    <3>1. /\ x # p /\ p # q /\ dev'[q] = dev[p] /\ latest'[q] = latest[p]
          /\ x # q => dev'[x] = dev[x] /\ latest'[x] = latest[x]
      BY <2>3, Constants DEF Moved, Types
    <3>2. \A f \in Entries : entry'[f].home = IF entry[f].home = p THEN q ELSE entry[f].home
      BY <2>3 DEF Moved, Rehomed
    <3>3. CASE x = q
      BY <2>1, <3>1, <3>2, <3>3
    <3>4. CASE x # q
      BY <2>1, <3>1, <3>2, <3>4
    <3>5. QED
      BY <3>3, <3>4
  <2>4. CASE Created(p)
    <3>1. entry' = entry /\ dev'[x] = dev[x] /\ latest'[x] = latest[x]
      BY <2>4, Constants DEF Created, Types
    <3>2. QED
      BY <2>1, <3>1
  <2>5. QED
    BY <2>2, <2>3, <2>4
<1>9. QED
  BY <1>3, <1>4, <1>6, <1>7, <1>8 DEF Files

\* What is pulled is the latest, or the entry that has it would be the second one.
LEMMA PulledKeeps ==
  ASSUME Types, Types', LockInv, MapInv, Files, NEW e \in Entries, NEW p \in Paths, Pulled(e, p),
         faults' = {}
  PROVE  Files'
<1> DEFINE x == [e |-> e, path |-> p]
<1>1. /\ UNCHANGED <<dev, latest, client, jan>>
      /\ \A f \in Entries \ {e} : entry'[f] = entry[f]
      /\ entry'[e].life = entry[e].life
      /\ \/ entry'[e].status = "FAIL" /\ entry'[e].copy = entry[e].copy /\ entry'[e].home = entry[e].home
         \/ /\ dev[p] # NoFile /\ \A f \in Entries \ {e} : entry[f].home # p
            /\ entry'[e].status = "AVAILABLE" /\ entry'[e].copy = dev[p] /\ entry'[e].home = p
  BY DEF Pulled, Pulls, PullFaults, Only
<1>2. pullq \in Seq(Requests) /\ pullq # <<>> /\ Head(pullq) = x /\ pullq' = Tail(pullq) /\ x.e = e
  BY DEF Pulled, Types
<1> HIDE DEF x
<1>3. /\ x \in Waiting(pullq) /\ Once(pullq') /\ x \notin Waiting(pullq')
      /\ Waiting(pullq') \subseteq Waiting(pullq)
  BY <1>2, TailWaiting DEF Files, PullInv
<1>4. entry[e].status = "PULLING" /\ entry[e].copy = NoFile /\ entry[e].home = Nil
  BY <1>2, <1>3 DEF Files, PullInv, HoldInv, Holds, Holding
<1>5. HoldInv'
  <2>1. \A f \in Entries : /\ entry'[f].copy # NoFile <=> entry'[f].status \in Holding
                           /\ entry'[f].home # Nil => entry'[f].status \in Holding
                           /\ entry'[f].life = "alive" => entry'[f].status # "NONEXISTANT"
    BY <1>1, <1>4 DEF Files, HoldInv, Holds, Alive, Holding
  <2>2. ASSUME NEW v \in Users, client'[v].step \in {"access", "pushing"}
        PROVE  entry'[client'[v].e].status \in Holding
    <3>1. client'[v] = client[v] /\ client[v].e \in Entries
      BY <1>1, <2>2 DEF Types, ClientType, LockInv, Using
    <3>2. entry[client[v].e].status \in Holding /\ client[v].e # e
      BY <1>4, <2>2, <3>1 DEF Files, HoldInv, Holding
    <3>3. QED
      BY <1>1, <3>1, <3>2
  <2>3. QED
    BY <2>1, <2>2 DEF HoldInv, Holds, Alive
<1>6. PullInv'
  <2>1. \A r \in Waiting(pullq) : r \in Requests
    BY LenProperties DEF Types, Waiting
  <2>2. \A r \in Waiting(pullq') : r.e \in Entries \ {e}
    BY <1>2, <1>3, <2>1 DEF Files, PullInv, Requests
  <2>3. \A r \in Waiting(pullq') : entry'[r.e].status = "PULLING"
    BY <1>1, <1>3, <2>2 DEF Files, PullInv
  <2>4. \A r, s \in Waiting(pullq') : r.e = s.e => r = s
    BY <1>3 DEF Files, PullInv
  <2>5. QED
    BY <1>3, <2>3, <2>4 DEF PullInv
<1>7. HomeInv'
  <2>1. CASE entry'[e].status = "FAIL"
    BY <1>1, <2>1 DEF Files, HomeInv
  <2>2. CASE entry'[e].status = "AVAILABLE"
    <3>1. dev[p] # NoFile /\ \A f \in Entries \ {e} : entry[f].home # p
      BY <1>1, <2>2
    <3>2. \A f \in Entries : entry[f].home # p
      BY <1>4, <3>1, Constants
    <3>3. latest[p] \in Users => dev[p] = latest[p]
      BY <3>2 DEF Files, KeptInv, Brings
    <3>4. QED
      BY <1>1, <2>2, <3>1, <3>2, <3>3 DEF Files, HomeInv
  <2>3. QED
    BY <1>1, <2>1, <2>2
<1>8. \A f \in Entries : WriterAtEnd(f) => WriterAtEnd(f)'
  BY <1>1 DEF WriterAtEnd
<1>9. KeptInv'
  <2>1. \A f \in Entries, q \in Paths : Brings(f, q) => Brings(f, q)'
    BY <1>1, <1>4, <1>8, Constants DEF Brings
  <2>2. QED
    BY <1>1, <2>1 DEF Files, KeptInv
<1>10. DelInv'
  <2>1. \A f \in Entries : Deleting(f)' => Deleting(f)
    BY <1>1 DEF Deleting
  <2>2. QED
    BY <1>1, <1>8, <2>1 DEF Files, DelInv
<1>11. QED
  BY <1>5, <1>6, <1>7, <1>9, <1>10 DEF Files

\* A push brings the latest, or what the entry has was never written.
LEMMA PushedKeeps ==
  ASSUME Types, Types', LockInv, Files, NEW e \in Entries, NEW p \in Paths, Pushed(e, p), faults' = {}
  PROVE  Files'
<1>0. PICK put \in {"all", "nothing"} : Pushes(e, p, put) /\ PushFaults(e, p, put)
  BY DEF Pushed, PushFaults
<1> DEFINE ok == put = "all"
<1>1. /\ UNCHANGED <<latest, client, jan, pullq>> /\ entry[e].home = p
      /\ \A f \in Entries \ {e} : entry'[f] = entry[f]
      /\ entry'[e].life = entry[e].life /\ entry'[e].copy = entry[e].copy
      /\ entry'[e].home = entry[e].home
      /\ entry'[e].status = IF entry[e].status # "PUSHING" THEN entry[e].status
                            ELSE IF ok THEN "AVAILABLE" ELSE "DIRTY"
      /\ dev'[p] = IF ok THEN entry[e].copy ELSE dev[p]
      /\ \A q \in Paths \ {p} : dev'[q] = dev[q]
      /\ ok => entry[e].copy \notin {NoFile, Empty}
      /\ ~ok => entry[e].copy \in {NoFile, Empty} \/ dev[p] = NoFile \/ ~Deleting(e)
  <2>1. UNCHANGED <<latest, client, jan, pullq>>
    BY DEF Pushed
  <2>2. Deleting(e) => Deleters(e) # {}
    BY DEF Deleting, Deleters, Holders
  <2>3. "stalePush" \notin faults' /\ "refusedPush" \notin faults'
    OBVIOUS
  <2>4. QED
    BY <1>0, <2>1, <2>2, <2>3 DEF Pushes, PushFaults, Replaceable, Only, SameFile
<1>2. /\ p # Nil /\ dev[p] # NoFile /\ (latest[p] \in Users => entry[e].copy = latest[p])
      /\ \A f \in Entries : entry[f].home = p => f = e
  BY <1>1, Constants DEF Files, HomeInv
<1>3. \A f \in Entries : /\ entry'[f].life = entry[f].life /\ entry'[f].copy = entry[f].copy
                         /\ entry'[f].home = entry[f].home
                         /\ entry[f].status \in Holding <=> entry'[f].status \in Holding
                         /\ entry[f].status \notin Holding => entry'[f].status = entry[f].status
  BY <1>1 DEF Holding
<1>4. HoldInv'
  <2>1. \A f \in Entries : /\ entry'[f].copy # NoFile <=> entry'[f].status \in Holding
                           /\ entry'[f].home # Nil => entry'[f].status \in Holding
                           /\ entry'[f].life = "alive" => entry'[f].status # "NONEXISTANT"
    BY <1>3 DEF Files, HoldInv, Holds, Alive, Holding
  <2>2. ASSUME NEW v \in Users, client'[v].step \in {"access", "pushing"}
        PROVE  entry'[client'[v].e].status \in Holding
    <3>1. client'[v] = client[v] /\ client[v].e \in Entries
      BY <1>1, <2>2 DEF Types, ClientType, LockInv, Using
    <3>2. QED
      BY <1>3, <2>2, <3>1 DEF Files, HoldInv
  <2>3. QED
    BY <2>1, <2>2 DEF HoldInv, Holds, Alive
<1>5. PullInv'
  <2>1. \A r \in Waiting(pullq) : r \in Requests
    BY LenProperties DEF Types, Waiting
  <2>2. QED
    BY <1>1, <1>3, <2>1 DEF Files, PullInv, Requests, Holding
<1>6. HomeInv'
  <2>1. \A f \in Entries : entry[f].home \in Paths \cup {Nil}
    BY DEF Types, EntryType
  <2>2. \A q \in Paths : dev[q] # NoFile => dev'[q] # NoFile
    BY <1>1
  <2>3. QED
    BY <1>1, <1>3, <2>1, <2>2 DEF Files, HomeInv
<1>7. \A f \in Entries : WriterAtEnd(f) => WriterAtEnd(f)'
  BY <1>1 DEF WriterAtEnd
<1>8. KeptInv'
  <2> SUFFICES ASSUME NEW q \in Paths, latest'[q] \in Users, dev'[q] # latest'[q]
               PROVE  \E f \in Entries : Brings(f, q)'
    BY DEF KeptInv
  <2>1. dev'[q] = dev[q] /\ (q = p => ~ok)
    BY <1>1, <1>2
  <2>2. PICK f \in Entries : Brings(f, q)
    BY <1>1, <2>1 DEF Files, KeptInv
  <2>3. CASE f = e
    <3>1. ~ok
      BY <1>1, <2>1, <2>2, <2>3 DEF Brings
    <3>2. QED
      BY <1>1, <1>7, <2>2, <2>3, <3>1 DEF Brings
  <2>4. CASE f # e
    BY <1>1, <1>7, <2>2, <2>4 DEF Brings
  <2>5. QED
    BY <2>3, <2>4
<1>9. DelInv'
  <2>1. \A f \in Entries : Deleting(f)' => Deleting(f)
    BY <1>1 DEF Deleting
  <2> SUFFICES ASSUME NEW f \in Entries, Deleting(f), entry'[f].status = "DIRTY"
               PROVE  entry'[f].copy \notin Users \/ WriterAtEnd(f)'
    BY <2>1 DEF DelInv
  <2>2. CASE entry[f].status = "DIRTY"
    BY <1>3, <1>7, <2>2 DEF Files, DelInv
  <2>3. CASE entry[f].status # "DIRTY"
    <3>1. f = e /\ ~ok
      BY <1>1, <2>3
    <3>2. entry[e].copy \in {NoFile, Empty}
      BY <1>1, <1>2, <2>1, <3>1
    <3>3. QED
      BY <1>1, <3>1, <3>2, Constants
  <2>4. QED
    BY <2>2, <2>3
<1>10. QED
  BY <1>4, <1>5, <1>6, <1>8, <1>9 DEF Files

\* What has gone wrong has gone wrong.
LEMMA FaultsStay ==
  ASSUME Happens
  PROVE  faults \subseteq faults'
<1>1. ASSUME NEW u \in Users, Does(u) PROVE faults \subseteq faults'
  <2>1. ASSUME NEW op, NEW p, NEW e, Begun(u, op, p, e) PROVE faults \subseteq faults'
    BY <2>1 DEF Begun
  <2>2. ASSUME NEW e, Ended(u, e) PROVE faults \subseteq faults'
    BY <2>2 DEF Ended, EndsWith
  <2>3. Accessed(u) \/ Talks(u) \/ StartsDeleting(u) \/ Served(u) => faults \subseteq faults'
    BY DEF Accessed, Talks, StartsDeleting, Served
  <2>4. Forgets(u) \/ Deletes(u) => faults \subseteq faults'
    BY DEF Forgets, Deletes, Destroyed
  <2>5. Rebinds(u) => faults \subseteq faults'
    BY DEF Rebinds, RightOne
  <2>6. QED
    BY <1>1, <2>1, <2>2, <2>3, <2>4, <2>5 DEF Does
<1>2. QED
  BY <1>1 DEF Happens, GetsStuck, Pulled, PullFaults, Pushed, PushFaults, Scanned, JanitorTalks, JanitorStarts,
              JanitorEnds, Destroyed

\* Every step but those of the lemmas above is calm, or deletes what is not needed.
LEMMA StartsCalmly ==
  ASSUME Types, NEW e \in Entries, BeginsDelete(e), UNCHANGED <<dev, latest, pullq>>,
         \A u \in Users : \/ client'[u] = client[u]
                          \/ /\ client[u].step # "end" /\ client'[u].e = e
                             /\ client'[u].step \notin {"access", "pushing"},
         jan'.e \in {jan.e, e}
  PROVE  Calm
<1>1. /\ \A f \in Entries \ {e} : entry'[f] = entry[f]
      /\ entry'[e].life = entry[e].life /\ entry'[e].copy = entry[e].copy
      /\ entry'[e].home = entry[e].home
      /\ entry'[e].status = IF entry[e].status = "DIRTY" THEN "PUSHING" ELSE entry[e].status
  BY DEF BeginsDelete, Only, SameFile
<1>2. \A f \in Entries \ {e} : Deleting(f)' => Deleting(f)
  BY DEF Deleting
<1>3. QED
  BY <1>1, <1>2 DEF Calm

LEMMA TalksCalmly ==
  ASSUME Types, LockInv, MapInv, Files, NEW u \in Users, Talks(u), faults' = {}
  PROVE  Calm
<1>1. /\ UNCHANGED <<entry, dev, latest, pullq, jan>> /\ client[u].step # "end"
      /\ \A v \in Users \ {u} : client'[v] = client[v]
  BY DEF Talks, Moves, Ends
<1>2. client'[u].step \in {"access", "pushing"} => entry[client'[u].e].status \in Holding
  <2> SUFFICES ASSUME client'[u].step \in {"access", "pushing"}
               PROVE  entry[client'[u].e].status \in Holding
    OBVIOUS
  <2>1. /\ client[u].step \in {"check", "pushing"} /\ client'[u].e = client[u].e
        /\ client[u].step = "pushing" \/ entry[client[u].e].status \notin {"PULLING", "FAIL"}
    BY DEF Talks, Moves, Ends
  <2>2. client[u].e \in Entries /\ Alive(client[u].e) /\ entry[client[u].e].status \in Status
    BY <2>1, Constants DEF Types, ClientType, EntryType, LockInv, Using, MapInv
  <2>3. QED
    BY <2>1, <2>2 DEF Files, HoldInv, Holding, Status
<1>3. client'[u].step \notin {"forgetting", "rebinding"}
  BY DEF Talks, Moves, Ends
<1>4. \A f \in Entries : Deleting(f)' => Deleting(f)
  BY <1>1, <1>3 DEF Deleting
<1>5. QED
  BY <1>1, <1>2, <1>4 DEF Calm

\* Who deletes an entry has waited for its push.
LEMMA DestroysNothingNeeded ==
  ASSUME Types, LockInv, MapInv, Files, NEW e, NEW q, NEW x, Destroyed(e, q, x), faults' = {},
         entry[e].status # "PUSHING", entry[e].status = "DIRTY" => Deleting(e),
         x \in Users => client[x].step # "end"
  PROVE  entry[e].status \in {"DIRTY", "PUSHING"} => entry[e].copy \notin Users
<1>1. ~WriterAtEnd(e)
  BY DEF Destroyed, WriterAtEnd
<1>2. e \in Entries
  BY DEF Destroyed
<1>3. QED
  BY <1>1, <1>2 DEF Files, DelInv

LEMMA DestroyWipes ==
  ASSUME Types, LockInv, MapInv, Files, NEW e, NEW q, NEW x, NEW u, x \in {u, Nil, Janitor},
         Destroyed(e, q, x), faults' = {}, UNCHANGED <<dev, pullq>>,
         \A f \in Entries : LET g == Destroy(entry, e) IN
           /\ entry'[f].life = g[f].life /\ entry'[f].copy = g[f].copy
           /\ entry'[f].home = g[f].home /\ entry'[f].status = g[f].status,
         \A v \in Users \ {u} : client'[v] = client[v],
         u \in Users => /\ client[u].step \notin {"end", "access", "pushing"}
                        /\ client'[u].step \notin {"access", "pushing", "forgetting", "rebinding"},
         jan'.e \in {0, jan.e},
         \A p \in Paths : latest'[p] = latest[p] \/ latest'[p] = NoFile,
         entry[e].status \in {"DIRTY", "PUSHING"} =>
           entry[e].copy \notin Users \/ \A p \in Paths : entry[e].home = p => latest'[p] = NoFile
  PROVE  Wiped(e)
<1>1. e \in Entries
  BY DEF Destroyed
<1>2. /\ entry'[e].life # "alive" /\ entry'[e].status = "NONEXISTANT"
      /\ entry'[e].copy = NoFile /\ entry'[e].home = Nil
      /\ \A f \in Entries \ {e} :
           /\ entry'[f].life = entry[f].life /\ entry'[f].copy = entry[f].copy
           /\ entry'[f].home = entry[f].home /\ entry'[f].status = entry[f].status
  <2>1. entry \in [Entries -> EntryType]
    BY DEF Types
  <2> DEFINE g == Destroy(entry, e)
  <2>2. /\ g \in [Entries -> EntryType] /\ \A f \in Entries \ {e} : g[f] = entry[f]
        /\ g[e].life = "deleted" /\ g[e].status = "NONEXISTANT"
        /\ g[e].home = Nil /\ g[e].copy = NoFile
    BY <1>1, <2>1, DestroyIs
  <2> HIDE DEF g
  <2>3. \A f \in Entries : /\ entry'[f].life = g[f].life /\ entry'[f].copy = g[f].copy
                           /\ entry'[f].home = g[f].home /\ entry'[f].status = g[f].status
    BY DEF g
  <2>4. QED
    BY <1>1, <2>2, <2>3
<1>3. \A f \in Entries : Deleting(f)' => Deleting(f)
  BY Constants DEF Deleting
<1>4. \A r \in Waiting(pullq) : r.e # e
  BY DEF Destroyed
<1>5. \A v \in Users :
        /\ client[v].step = "end" => client'[v] = client[v] /\ client[v].e # e
        /\ client'[v].step \in {"access", "pushing"} => client'[v] = client[v] /\ client[v].e # e
  BY Constants DEF Destroyed
<1>6. QED
  BY <1>1, <1>2, <1>3, <1>4, <1>5 DEF Wiped

LEMMA FilesKept ==
  ASSUME Types, Types', LockInv, LockInv', MapInv, MapInv', Files, Happens, faults' = {}
  PROVE  Files'
<1>1. ASSUME NEW u \in Users, NEW op \in {"read", "write"}, NEW p \in Paths, NEW e \in Entries,
             Begun(u, op, p, e)
      PROVE  Files'
  BY <1>1, BegunKeeps
<1>2. ASSUME NEW u \in Users, Accessed(u) PROVE Files'
  BY <1>2, AccessedKeeps
<1>3. ASSUME NEW u \in Users, NEW e \in Entries, Ended(u, e) PROVE Files'
  BY <1>3, EndedHere, EndedKeeps
<1>4. ASSUME NEW u \in Users, Talks(u) PROVE Files'
  BY <1>4, TalksCalmly, CalmKeeps
<1>5. ASSUME NEW u \in Users, StartsDeleting(u) PROVE Files'
  <2>1. PICK e \in Entries : e = map[client[u].to]
    BY <1>5 DEF StartsDeleting
  <2>2. /\ BeginsDelete(e) /\ UNCHANGED <<dev, latest, pullq, jan>>
        /\ client[u].step # "end" /\ client'[u].e = e /\ client'[u].step \notin {"access", "pushing"}
        /\ \A v \in Users \ {u} : client'[v] = client[v]
    BY <1>5, <2>1 DEF StartsDeleting, Moves
  <2>3. Calm
    BY <2>2, StartsCalmly
  <2>4. QED
    BY <2>3, CalmKeeps
<1>6. ASSUME NEW u \in Users, Forgets(u) PROVE Files'
  <2>1. PICK e \in Entries : e = client[u].e
    BY <1>6 DEF Forgets, Destroyed
  <2>2. /\ client[u].step = "forgetting" /\ client'[u].step = "move"
        /\ \A v \in Users \ {u} : client'[v] = client[v]
        /\ entry[e].status # "PUSHING" /\ entry' = Destroy(entry, e)
        /\ Destroyed(e, client[u].to, u) /\ UNCHANGED <<dev, latest, pullq, jan>>
    BY <1>6, <2>1 DEF Forgets, Moves
  <2>3. Deleting(e)
    BY <2>1, <2>2 DEF Deleting
  <2>4. entry[e].status \in {"DIRTY", "PUSHING"} => entry[e].copy \notin Users
    BY <2>2, <2>3, DestroysNothingNeeded
  <2>5. Wiped(e)
    BY <2>2, <2>4, DestroyWipes
  <2>6. QED
    BY <2>5, WipedKeeps
<1>7. ASSUME NEW u \in Users, Rebinds(u) PROVE Files'
  <2> DEFINE p == client[u].path
             q == client[u].to
  <2>1. /\ p \in Paths /\ q \in Paths /\ UNCHANGED <<dev, latest, pullq, jan>>
        /\ client[u].step \in {"rebind", "rebinding", "rebindall"}
        /\ client'[u].step \in {"idle", "unlock"} /\ \A v \in Users \ {u} : client'[v] = client[v]
    BY <1>7 DEF Rebinds, Moves, Ends
  <2>2. CASE Rebound(map, entry, p, q)
    <3>1. Carries(entry)
      BY <2>1, <2>2, ReboundDoes DEF Types
    <3>2. \A f \in Entries : Deleting(f)' => Deleting(f)
      BY <2>1 DEF Deleting
    <3>3. Calm
      BY <2>1, <3>1, <3>2 DEF Carries, Calm
    <3>4. QED
      BY <3>3, CalmKeeps
  <2>3. ASSUME NEW e \in Entries, Replaces(u, e) PROVE Files'
    <3>1. /\ Destroyed(e, q, u) /\ entry[e].status # "PUSHING"
          /\ entry[e].status = "DIRTY" => client[u].step = "rebinding" /\ client[u].e = e
          /\ Rebound([map EXCEPT ![q] = 0], Destroy(entry, e), p, q)
      BY <2>3 DEF Replaces
    <3>2. entry[e].status = "DIRTY" => Deleting(e)
      BY <3>1 DEF Deleting
    <3> HIDE DEF p, q
    <3>3. entry[e].status \in {"DIRTY", "PUSHING"} => entry[e].copy \notin Users
      BY <2>1, <3>1, <3>2, DestroysNothingNeeded
    <3>4. Carries(Destroy(entry, e))
      <4>1. /\ [map EXCEPT ![q] = 0] \in [Paths -> Entries \cup {0}]
            /\ Destroy(entry, e) \in [Entries -> EntryType]
        BY <2>1, DestroyIs DEF Types
      <4>2. QED
        BY <2>1, <3>1, <4>1, ReboundDoes
    <3>5. \A f \in Entries : LET g == Destroy(entry, e) IN
            /\ entry'[f].life = g[f].life /\ entry'[f].copy = g[f].copy
            /\ entry'[f].home = g[f].home /\ entry'[f].status = g[f].status
      BY <3>4 DEF Carries
    <3>6. Wiped(e)
      BY <2>1, <3>1, <3>3, <3>5, DestroyWipes
    <3>7. QED
      BY <3>6, WipedKeeps
  <2>4. QED
    BY <1>7, <2>2, <2>3 DEF Rebinds
<1>8. ASSUME NEW u \in Users, Deletes(u) PROVE Files'
  <2>1. PICK p \in Paths : p = client'[u].path
    BY <1>8 DEF Deletes
  <2>2. /\ client[u].step = "idle" /\ client'[u].step = "forgotten"
        /\ \A v \in Users \ {u} : client'[v] = client[v]
        /\ latest' = [latest EXCEPT ![p] = NoFile] /\ UNCHANGED <<dev, pullq, jan>>
    BY <1>8, <2>1 DEF Deletes
  <2>3. latest'[p] = NoFile /\ \A x \in Paths : latest'[x] = latest[x] \/ latest'[x] = NoFile
    BY <2>2 DEF Types
  <2>4. CASE UNCHANGED entry
    <3>1. \A f \in Entries : Deleting(f)' => Deleting(f)
      BY <2>2 DEF Deleting
    <3>2. Calm
      BY <2>2, <2>3, <2>4, <3>1 DEF Calm
    <3>3. QED
      BY <3>2, CalmKeeps
  <2>5. ASSUME NEW e \in Entries, entry' = Destroy(entry, e), Destroyed(e, p, Nil)
        PROVE  Files'
    <3>1. entry[e].home \in {p, Nil}
      BY <2>5 DEF Destroyed
    <3>2. \A x \in Paths : entry[e].home = x => latest'[x] = NoFile
      BY <2>3, <3>1, Constants
    <3>3. Wiped(e)
      BY <2>2, <2>3, <2>5, <3>2, DestroyWipes
    <3>4. QED
      BY <3>3, WipedKeeps
  <2>6. QED
    BY <1>8, <2>1, <2>4, <2>5 DEF Deletes
<1>9. ASSUME NEW u \in Users, Served(u) PROVE Files'
  <2>1. /\ UNCHANGED <<pullq, jan>>
        /\ client[u].step \notin {"end", "access", "pushing"}
        /\ \A v \in Users \ {u} : client'[v] = client[v]
        /\ \/ client'[u] = client[u]
           \/ client'[u].step \notin {"access", "pushing", "forgetting", "rebinding"}
    BY <1>9 DEF Served, Serves, Moves, Ends
  <2>2. CASE Untouched
    <3>1. \A f \in Entries : Deleting(f)' => Deleting(f)
      BY <2>1 DEF Deleting
    <3>2. Calm
      BY <2>1, <2>2, <3>1 DEF Untouched, Calm
    <3>3. QED
      BY <3>2, CalmKeeps
  <2>3. Passive
    BY <2>1 DEF Passive
  <2>4. ASSUME NEW p \in Paths, NEW q \in Paths, Removed(p) \/ Moved(p, q) \/ Created(p)
        PROVE  Files'
    BY <2>3, <2>4, FileKeeps
  <2>5. QED
    BY <1>9, <2>2, <2>4 DEF Served, Serves
<1>10. CASE GetsStuck
  BY <1>10, StartsCalmly, CalmKeeps DEF GetsStuck
<1>11. ASSUME NEW e \in Entries, NEW p \in Paths, Pulled(e, p) PROVE Files'
  BY <1>11, PulledKeeps
<1>12. ASSUME NEW e \in Entries, NEW p \in Paths, Pushed(e, p) PROVE Files'
  BY <1>12, PushedKeeps
<1>13. ASSUME NEW old \in SUBSET Paths, Scanned(old) PROVE Files'
  <2>1. UNCHANGED <<dev, latest, pullq, client>> /\ jan'.e = jan.e
    BY <1>13 DEF Scanned, Scans, Types, JanitorType
  <2>2. \A f \in Entries : Deleting(f)' => Deleting(f)
    BY <2>1 DEF Deleting
  <2>3. \A e \in Entries :
          /\ SameFile(e)
          /\ entry'[e] = entry[e] \/ (entry[e].status = "DIRTY" /\ entry'[e].status = "PUSHING")
    BY <1>13 DEF Scanned, Scans
  <2>4. Calm
    BY <2>1, <2>2, <2>3 DEF SameFile, Calm
  <2>5. QED
    BY <2>4, CalmKeeps
<1>14. CASE JanitorTalks
  <2>1. UNCHANGED <<entry, dev, latest, pullq, client>> /\ jan'.e = jan.e
    BY <1>14 DEF JanitorTalks
  <2>2. \A f \in Entries : Deleting(f)' => Deleting(f)
    BY <2>1 DEF Deleting
  <2>3. Calm
    BY <2>1, <2>2 DEF Calm
  <2>4. QED
    BY <2>3, CalmKeeps
<1>15. CASE JanitorStarts
  <2>1. PICK e \in Entries : e = jan'.e
    BY <1>15 DEF JanitorStarts
  <2>2. BeginsDelete(e) /\ UNCHANGED <<dev, latest, pullq, client>>
    BY <1>15, <2>1 DEF JanitorStarts
  <2>3. Calm
    BY <2>1, <2>2, StartsCalmly
  <2>4. QED
    BY <2>3, CalmKeeps
<1>16. CASE JanitorEnds
  <2>1. PICK e \in Entries : e = jan.e
    BY <1>16 DEF JanitorEnds, Destroyed
  <2>2. /\ entry[e].status # "PUSHING" /\ entry' = Destroy(entry, e) /\ jan'.e = 0
        /\ Destroyed(e, jan.path, Janitor) /\ UNCHANGED <<dev, latest, pullq, client>>
    BY <1>16, <2>1 DEF JanitorEnds
  <2>3. Deleting(e) /\ Janitor \notin Users
    BY <2>1, Constants DEF Deleting
  <2>4. entry[e].status \in {"DIRTY", "PUSHING"} => entry[e].copy \notin Users
    BY <2>2, <2>3, DestroysNothingNeeded
  <2>5. Wiped(e)
    BY <2>2, <2>3, <2>4, DestroyWipes
  <2>6. QED
    BY <2>5, WipedKeeps
<1>17. QED
  BY <1>1, <1>2, <1>3, <1>4, <1>5, <1>6, <1>7, <1>8, <1>9, <1>10, <1>11, <1>12, <1>13, <1>14,
     <1>15, <1>16 DEF Happens, Does

-----------------------------------------------------------------------------
(* As long as nothing goes wrong: which entry is where in the map.         *)

\* No entry comes back for a file that is about to be deleted.
GoneInv == \A u \in Users : client[u].step \in {"forgotten", "unlink"} => map[client[u].path] = 0

\* A path waits for a mover that is to rebind what is there, or to delete it.
Excused(p) ==
  \E u \in Users :
    \/ client[u].path = p /\ client[u].step \in {"lock", "isdir", "rebindall", "rebind", "rebinding"}
    \/ client[u].to = p /\ client[u].op # "movedir" /\ client[u].step \in {"forget", "forgetting"}
AtHome ==
  \A p \in Paths, e \in Entries : map[p] = e /\ Holds(e) => entry[e].home = p \/ Excused(p)

\* An entry that is deleted is the only one to change.
LEMMA OneGoes ==
  ASSUME NEW f \in [Entries -> EntryType], NEW e \in Entries
  PROVE  /\ Destroy(f, e) \in [Entries -> EntryType]
         /\ \A x \in Entries : Destroy(f, e)[x] = f[x] \/ Destroy(f, e)[x].status = "NONEXISTANT"
<1> DEFINE g == Destroy(f, e)
<1>1. /\ g \in [Entries -> EntryType] /\ \A x \in Entries \ {e} : g[x] = f[x]
      /\ g[e].status = "NONEXISTANT"
  BY DestroyIs
<1> HIDE DEF g
<1>2. \A x \in Entries : g[x] = f[x] \/ g[x].status = "NONEXISTANT"
  BY <1>1
<1>3. QED
  BY <1>1, <1>2 DEF g

\* What is rebound, once the entry at the new path has been deleted.
RebindsFrom(m, f, p, q) ==
  /\ m \in [Paths -> Entries \cup {0}] /\ f \in [Entries -> EntryType] /\ Rebound(m, f, p, q)
  /\ m \in {map, [map EXCEPT ![q] = 0]} /\ (m[p] = 0 \/ m[q] = 0)
  /\ \A e \in Entries : f[e] = entry[e] \/ f[e].status = "NONEXISTANT"

LEMMA RebindsDoes ==
  ASSUME Types, NEW u \in Users, Rebinds(u)
  PROVE  \E m, f : RebindsFrom(m, f, client[u].path, client[u].to)
<1> DEFINE p == client[u].path
           q == client[u].to
           n == [map EXCEPT ![q] = 0]
<1>1. CASE (map[p] = 0 \/ map[q] = 0) /\ Rebound(map, entry, p, q)
  <2>1. RebindsFrom(map, entry, p, q)
    BY <1>1 DEF RebindsFrom, Types
  <2>2. QED
    BY <2>1
<1>2. ASSUME NEW e \in Entries, Replaces(u, e)
      PROVE  RebindsFrom(n, Destroy(entry, e), p, q)
  <2>1. Rebound(n, Destroy(entry, e), p, q) /\ q \in Paths
    BY <1>2 DEF Replaces, Destroyed
  <2>2. n \in [Paths -> Entries \cup {0}] /\ n[q] = 0
    BY <2>1 DEF Types
  <2>3. /\ Destroy(entry, e) \in [Entries -> EntryType]
        /\ \A x \in Entries : Destroy(entry, e)[x] = entry[x] \/ Destroy(entry, e)[x].status = "NONEXISTANT"
    BY OneGoes DEF Types
  <2> HIDE DEF p, q, n
  <2>4. QED
    BY <2>1, <2>2, <2>3 DEF RebindsFrom, n
<1>3. QED
  BY <1>1, <1>2 DEF Rebinds

\* The paths of the map get no other entries, but for those that come from nowhere or
\* are where they belong.
LEMMA GoneKept ==
  ASSUME Types, Types', LockInv, MapInv, GoneInv, Happens, faults' = {}
  PROVE  GoneInv'
<1>1. ASSUME \A u \in Users : client'[u].step \in {"forgotten", "unlink"} =>
               /\ client[u].step \in {"forgotten", "unlink"} /\ client'[u].path = client[u].path
               /\ map[client[u].path] = 0 => map'[client[u].path] = 0
      PROVE  GoneInv'
  BY <1>1 DEF GoneInv
<1>2. ASSUME NEW u \in Users, NEW op \in {"read", "write"}, NEW p \in Paths, NEW e \in Entries,
             Begun(u, op, p, e)
      PROVE  GoneInv'
  <2>1. /\ CacheAccess(p, e) /\ client'[u].step \in {"pulling", "pushing", "access"}
        /\ \A v \in Users \ {u} : client'[v] = client[v]
        /\ faults' = faults \cup BetweenDeletes(p)
    BY <1>2 DEF Begun, BeginsWith
  <2>2. \A x \in Paths \ {p} : map'[x] = map[x]
    BY <2>1, CacheAccessDoes
  <2>3. \A v \in Users : client[v].step \in {"forgotten", "unlink"} => client[v].path # p
    BY <2>1 DEF BetweenDeletes
  <2>4. \A v \in Users : client[v].step \in {"forgotten", "unlink"} => client[v].path \in Paths
    BY DEF LockInv
  <2>5. QED
    BY <1>1, <2>1, <2>2, <2>3, <2>4
<1>3. ASSUME NEW u \in Users, Accessed(u) PROVE GoneInv'
  BY <1>1, <1>3 DEF Accessed, Moves
<1>4. ASSUME NEW u \in Users, NEW e \in Entries, Ended(u, e) PROVE GoneInv'
  <2>1. map' = map
    BY <1>4, EndedHere
  <2>2. QED
    BY <1>1, <1>4, <2>1 DEF Ended, Ends
<1>5. ASSUME NEW u \in Users, Talks(u) PROVE GoneInv'
  BY <1>1, <1>5 DEF Talks, Moves, Ends
<1>6. ASSUME NEW u \in Users, StartsDeleting(u) PROVE GoneInv'
  BY <1>1, <1>6 DEF StartsDeleting, Moves
<1>7. ASSUME NEW q \in Paths, map' = [map EXCEPT ![q] = 0]
      PROVE  map'[q] = 0 /\ \A x \in Paths : map[x] = 0 => map'[x] = 0
  BY <1>7 DEF Types
<1>8. \A u \in Users : client[u].step \in {"forgotten", "unlink"} => client[u].path \in Paths
  BY DEF LockInv
<1>9. ASSUME NEW u \in Users, Forgets(u) PROVE GoneInv'
  <2>1. client[u].to \in Paths /\ map' = [map EXCEPT ![client[u].to] = 0]
    BY <1>9 DEF Forgets, Destroyed
  <2>2. \A x \in Paths : map[x] = 0 => map'[x] = 0
    BY <1>7, <2>1
  <2>3. QED
    BY <1>1, <1>8, <1>9, <2>2 DEF Forgets, Moves
<1>10. ASSUME NEW u \in Users, Rebinds(u) PROVE GoneInv'
  <2> DEFINE p == client[u].path
             q == client[u].to
  <2>1. /\ p \in Paths /\ q \in Paths /\ RightOne(p, q)
        /\ client'[u].step \in {"idle", "unlock"} /\ \A v \in Users \ {u} : client'[v] = client[v]
    BY <1>10 DEF Rebinds, Moves, Ends
  <2> HIDE DEF p, q
  <2>2. PICK m, f : RebindsFrom(m, f, p, q)
    BY <1>10, RebindsDoes DEF p, q
  <2>3. (m[p] # 0 => map[p] # 0) /\ \A x \in Paths \ {q} : m[x] = map[x]
    BY <2>1, <2>2 DEF RebindsFrom, Types
  <2>4. ASSUME NEW x \in Paths \ {q}, map[x] = 0 PROVE map'[x] = 0
    <3>1. CASE m[p] = 0
      <4>1. map' = m
        BY <2>1, <2>2, <3>1, ReboundDoes DEF RebindsFrom
      <4>2. QED
        BY <2>3, <2>4, <4>1
    <3>2. CASE m[p] # 0
      <4>1. (p # q => map'[p] = 0) /\ \A y \in Paths \ {p, q} : map'[y] = m[y]
        BY <2>1, <2>2, <3>2, ReboundDoes DEF RebindsFrom
      <4>2. QED
        BY <2>3, <2>4, <4>1
    <3>3. QED
      BY <3>1, <3>2
  <2>5. ASSUME NEW v \in Users, client[v].step \in {"forgotten", "unlink"}, client[v].path = q, map[q] = 0
        PROVE  map'[q] = 0
    <3>1. map[p] = 0
      BY <2>1, <2>5 DEF RightOne
    <3>2. map' = m
      BY <2>1, <2>2, <2>3, <3>1, ReboundDoes DEF RebindsFrom
    <3>3. QED
      BY <2>1, <2>2, <2>5, <3>2 DEF RebindsFrom, Types
  <2>6. QED
    BY <1>1, <1>8, <2>1, <2>4, <2>5
<1>11. ASSUME NEW u \in Users, Deletes(u) PROVE GoneInv'
  <2>1. PICK p \in Paths : p = client'[u].path
    BY <1>11 DEF Deletes
  <2>2. map'[p] = 0 /\ \A x \in Paths : map[x] = 0 => map'[x] = 0
    BY <1>7, <1>11, <2>1 DEF Deletes
  <2>3. QED
    BY <1>8, <1>11, <2>1, <2>2 DEF Deletes, GoneInv
<1>12. ASSUME NEW u \in Users, Served(u) PROVE GoneInv'
  BY <1>1, <1>12 DEF Served, Serves, Moves, Ends
<1>13. CASE GetsStuck
  BY <1>1, <1>13 DEF GetsStuck
<1>14. ASSUME NEW e \in Entries, NEW p \in Paths, Pulled(e, p) \/ Pushed(e, p) PROVE GoneInv'
  BY <1>1, <1>14 DEF Pulled, Pushed
<1>15. ASSUME NEW old \in SUBSET Paths, Scanned(old) PROVE GoneInv'
  BY <1>1, <1>15 DEF Scanned
<1>16. CASE JanitorTalks \/ JanitorStarts
  BY <1>1, <1>16 DEF JanitorTalks, JanitorStarts
<1>17. CASE JanitorEnds
  <2>1. jan.path \in Paths /\ map' = [map EXCEPT ![jan.path] = 0] /\ client' = client
    BY <1>17 DEF JanitorEnds, Destroyed
  <2>2. \A x \in Paths : map[x] = 0 => map'[x] = 0
    BY <1>7, <2>1
  <2>3. QED
    BY <1>1, <1>8, <2>1, <2>2
<1>18. QED
  BY <1>2, <1>3, <1>4, <1>5, <1>6, <1>9, <1>10, <1>11, <1>12, <1>13, <1>14, <1>15, <1>16, <1>17
  DEF Happens, Does

\* An entry leaves its path with its file, or the file leaves with a mover on its way.
LEMMA AtHomeKept ==
  ASSUME Types, Types', LockInv, MapInv, Files, GoneInv, AtHome, Happens, faults' = {}
  PROVE  AtHome'
<1>1. ASSUME \A p \in Paths : map'[p] \in {map[p], 0},
             \A e \in Entries : entry'[e].status \in Holding =>
               entry[e].status \in Holding /\ entry'[e].home = entry[e].home,
             \A p \in Paths : Excused(p) => Excused(p)' \/ map'[p] = 0
      PROVE  AtHome'
  BY <1>1, Constants DEF AtHome, Holds
<1>2. ASSUME NEW u \in Users, \A v \in Users \ {u} : client'[v] = client[v],
             \/ client[u].step \notin {"lock", "isdir", "rebindall", "rebind", "rebinding", "forget", "forgetting"}
             \/ client'[u] = client[u]
      PROVE  \A p \in Paths : Excused(p) => Excused(p)'
  BY <1>2 DEF Excused
<1>3. ASSUME UNCHANGED client PROVE \A p \in Paths : Excused(p) => Excused(p)'
  BY <1>3 DEF Excused
<1>4. ASSUME NEW e \in Entries, BeginsDelete(e)
      PROVE  \A f \in Entries : entry'[f].status \in Holding =>
               entry[f].status \in Holding /\ entry'[f].home = entry[f].home
  BY <1>4 DEF BeginsDelete, Only, SameFile, Holding
<1>5. ASSUME NEW e \in Entries, entry' = Destroy(entry, e)
      PROVE  \A f \in Entries : entry'[f].status \in Holding =>
               entry[f].status \in Holding /\ entry'[f].home = entry[f].home
  <2>1. \A x \in Entries : Destroy(entry, e)[x] = entry[x] \/ Destroy(entry, e)[x].status = "NONEXISTANT"
    BY OneGoes DEF Types
  <2>2. \A x \in Entries : entry'[x] = entry[x] \/ entry'[x].status = "NONEXISTANT"
    BY <1>5, <2>1
  <2>3. QED
    BY <2>2 DEF Holding
<1>6. ASSUME NEW u \in Users, NEW op \in {"read", "write"}, NEW p \in Paths, NEW e \in Entries,
             Begun(u, op, p, e)
      PROVE  AtHome'
  <2>1. /\ CacheAccess(p, e) /\ client[u].step = "idle"
        /\ \A v \in Users \ {u} : client'[v] = client[v]
        /\ \A f \in Entries \ {e} : entry'[f] = entry[f]
        /\ entry'[e].home = entry[e].home
        /\ entry'[e].status \in {entry[e].status, "PULLING"}
    BY <1>6 DEF Begun, BeginsWith, Only
  <2>2. /\ map'[p] = e /\ \A q \in Paths \ {p} : map'[q] = map[q]
        /\ map[p] = e \/ ~Alive(e)
    BY <2>1, CacheAccessDoes
  <2>3. ~Alive(e) => entry[e].status \notin Holding
    BY DEF MapInv, MapOf, Alive, Holding
  <2>4. ASSUME NEW q \in Paths, NEW f \in Entries, map'[q] = f, entry'[f].status \in Holding
        PROVE  map[q] = f /\ entry[f].status \in Holding /\ entry'[f].home = entry[f].home
    BY <2>1, <2>2, <2>3, <2>4 DEF Holding
  <2>5. \A q \in Paths : Excused(q) => Excused(q)'
    BY <1>2, <2>1
  <2>6. QED
    BY <2>4, <2>5 DEF AtHome, Holds
<1>7. ASSUME NEW u \in Users, Accessed(u) PROVE AtHome'
  <2>1. \A p \in Paths : Excused(p) => Excused(p)'
    BY <1>2, <1>7 DEF Accessed, Moves
  <2>2. \A e \in Entries : entry'[e].status = entry[e].status /\ entry'[e].home = entry[e].home
    BY <1>7 DEF Accessed, Only
  <2>3. QED
    BY <1>1, <1>7, <2>1, <2>2 DEF Accessed
<1>8. ASSUME NEW u \in Users, NEW e \in Entries, Ended(u, e) PROVE AtHome'
  <2>1. map' = map /\ EndsHere(u, e)
    BY <1>8, EndedHere
  <2>2. /\ client[u].step = "end" /\ \A v \in Users \ {u} : client'[v] = client[v]
        /\ \A f \in Entries \ {e} : entry'[f] = entry[f]
        /\ entry'[e].home = entry[e].home
        /\ entry'[e].status = entry[e].status \/ entry[e].copy # NoFile
    BY <2>1 DEF EndsHere, Ended, Ends, EndsWith, Only
  <2>3. \A f \in Entries : entry'[f].status \in Holding =>
          entry[f].status \in Holding /\ entry'[f].home = entry[f].home
    BY <2>2 DEF Files, HoldInv, Holds
  <2>4. \A p \in Paths : Excused(p) => Excused(p)'
    BY <1>2, <2>2
  <2>5. QED
    BY <1>1, <2>1, <2>3, <2>4
<1>9. ASSUME NEW u \in Users, Talks(u) PROVE AtHome'
  <2>1. UNCHANGED <<map, entry>> /\ \A v \in Users \ {u} : client'[v] = client[v]
    BY <1>9 DEF Talks, Moves, Ends
  <2>2. ASSUME NEW p \in Paths, Excused(p) PROVE Excused(p)' \/ map'[p] = 0
    <3>1. CASE client[u].step = "lock"
      BY <1>9, <2>1, <2>2, <3>1 DEF Talks, Moves, Excused
    <3>2. CASE client[u].step = "forget"
      BY <1>9, <2>1, <2>2, <3>2 DEF Talks, Moves, Excused
    <3>3. CASE client[u].step \notin {"lock", "forget"}
      <4>1. client[u].step \notin {"lock", "isdir", "rebindall", "rebind", "rebinding", "forget", "forgetting"}
        BY <1>9, <3>3 DEF Talks
      <4>2. QED
        BY <1>2, <2>1, <2>2, <4>1
    <3>4. QED
      BY <3>1, <3>2, <3>3
  <2>3. QED
    BY <1>1, <2>1, <2>2
<1>10. ASSUME NEW u \in Users, StartsDeleting(u) PROVE AtHome'
  <2>1. \A p \in Paths : Excused(p) => Excused(p)'
    BY <1>10 DEF StartsDeleting, Moves, Excused
  <2>2. QED
    BY <1>1, <1>4, <1>10, <2>1 DEF StartsDeleting
<1>11. ASSUME NEW q \in Paths, map' = [map EXCEPT ![q] = 0]
       PROVE  map'[q] = 0 /\ \A p \in Paths : map'[p] \in {map[p], 0}
  BY <1>11 DEF Types
<1>12. ASSUME NEW u \in Users, Forgets(u) PROVE AtHome'
  <2>1. /\ client[u].e \in Entries /\ client[u].to \in Paths /\ client[u].step = "forgetting"
        /\ entry' = Destroy(entry, client[u].e) /\ map' = [map EXCEPT ![client[u].to] = 0]
        /\ \A v \in Users \ {u} : client'[v] = client[v]
    BY <1>12 DEF Forgets, Destroyed, Moves
  <2>2. \A p \in Paths : Excused(p) => Excused(p)' \/ p = client[u].to
    BY <2>1 DEF Excused
  <2>3. QED
    BY <1>1, <1>5, <1>11, <2>1, <2>2
<1>13. ASSUME NEW u \in Users, Rebinds(u) PROVE AtHome'
  <2> DEFINE p == client[u].path
             q == client[u].to
  <2>1. /\ p \in Paths /\ q \in Paths /\ RightOne(p, q)
        /\ client[u].step \in {"rebind", "rebinding", "rebindall"}
        /\ \A v \in Users \ {u} : client'[v] = client[v]
    BY <1>13 DEF Rebinds, Moves, Ends
  <2>2. \A x \in Paths : Excused(x) => Excused(x)' \/ x = p
    BY <2>1 DEF Excused
  <2>3. PICK m, f : RebindsFrom(m, f, p, q)
    BY <1>13, RebindsDoes
  <2> HIDE DEF p, q
  <2>4. /\ m \in [Paths -> Entries \cup {0}] /\ f \in [Entries -> EntryType]
        /\ Rebound(m, f, p, q) /\ (m[p] = 0 \/ m[q] = 0)
        /\ \A e \in Entries : f[e] = entry[e] \/ f[e].status = "NONEXISTANT"
    BY <2>3 DEF RebindsFrom
  <2>5. \A x \in Paths : m[x] # 0 => map[x] = m[x]
    BY <2>1, <2>3 DEF RebindsFrom, Types
  <2>6. Carries(f)
    BY <2>1, <2>4, ReboundDoes
  <2>7. \A e \in Entries : entry'[e].status \in Holding =>
          /\ entry[e].status \in Holding /\ entry[e].copy # NoFile
          /\ entry'[e].home = entry[e].home
    BY <2>4, <2>6 DEF Carries, Holding, Files, HoldInv, Holds
  <2> SUFFICES ASSUME NEW x \in Paths, NEW e \in Entries, map'[x] = e, entry'[e].status \in Holding
               PROVE  entry'[e].home = x \/ Excused(x)'
    BY DEF AtHome, Holds
  <2>8. e # 0
    BY Constants
  <2>9. ASSUME m[x] = e, x # p PROVE entry'[e].home = x \/ Excused(x)'
    <3>1. map[x] = e
      BY <2>5, <2>8, <2>9
    <3>2. QED
      BY <2>2, <2>7, <2>9, <3>1 DEF AtHome, Holds
  <2>10. CASE m[p] = 0
    <3>1. map' = m
      BY <2>1, <2>4, <2>10, ReboundDoes
    <3>2. QED
      BY <2>8, <2>9, <2>10, <3>1
  <2>11. CASE m[p] # 0
    <3>1. /\ p # q /\ map'[q] = m[p] /\ map'[p] = 0
          /\ \A y \in Paths \ {p, q} : map'[y] = m[y]
      BY <2>1, <2>4, <2>11, ReboundDoes
    <3>2. CASE x = q
      <4>1. map[p] = e /\ map[p] # 0
        BY <2>1, <2>5, <2>11, <3>1, <3>2
      <4>2. entry[e].home = q
        BY <2>1, <2>7, <4>1 DEF RightOne
      <4>3. QED
        BY <2>7, <3>2, <4>2
    <3>3. CASE x # q
      BY <2>8, <2>9, <3>1, <3>3
    <3>4. QED
      BY <3>2, <3>3
  <2>12. QED
    BY <2>10, <2>11
<1>14. ASSUME NEW u \in Users, Deletes(u) PROVE AtHome'
  <2>1. /\ client[u].step = "idle" /\ \A v \in Users \ {u} : client'[v] = client[v]
        /\ client'[u].path \in Paths
    BY <1>14 DEF Deletes
  <2>2. \A p \in Paths : Excused(p) => Excused(p)'
    BY <1>2, <2>1
  <2>3. CASE UNCHANGED <<map, entry>>
    BY <1>1, <2>2, <2>3
  <2>4. ASSUME NEW e \in Entries, NEW p \in Paths, map' = [map EXCEPT ![p] = 0],
               entry' = Destroy(entry, e)
        PROVE  AtHome'
    BY <1>1, <1>5, <1>11, <2>2, <2>4
  <2>5. QED
    BY <1>14, <2>1, <2>3, <2>4 DEF Deletes
<1>15. ASSUME NEW u \in Users, Served(u) PROVE AtHome'
  <2> DEFINE s == client[u].step
  <2>1. /\ map' = map /\ client[u].path \in Paths /\ \A v \in Users \ {u} : client'[v] = client[v]
        /\ s \in {"isdir", "rebindall"} \/ s \in {"list", "mkfile", "exists", "unlink", "move"}
    BY <1>15 DEF Served, Serves, Moves, Ends
  <2>2. \A x \in Paths : Excused(x) => Excused(x)'
    <3>1. CASE s = "isdir"
      BY <1>15, <2>1, <3>1 DEF Served, Serves, Moves, Excused
    <3>2. CASE s = "rebindall"
      BY <1>3, <1>15, <3>2 DEF Served, Serves
    <3>3. CASE s \in {"list", "mkfile", "exists", "unlink", "move"}
      BY <1>2, <2>1, <3>3
    <3>4. QED
      BY <2>1, <3>1, <3>2, <3>3
  <2>3. CASE UNCHANGED entry
    BY <1>1, <2>1, <2>2, <2>3
  <2>4. ASSUME NEW x \in Paths, NEW y \in Paths \cup {Nil}, Rehomed(x, y), map[x] # 0 => Excused(x)'
        PROVE  AtHome'
    <3> SUFFICES ASSUME NEW z \in Paths, NEW e \in Entries, map[z] = e, entry'[e].status \in Holding
                 PROVE  entry'[e].home = z \/ Excused(z)'
      BY <2>1 DEF AtHome, Holds
    <3>1. /\ entry[e].status \in Holding
          /\ entry'[e].home = IF entry[e].home = x THEN y ELSE entry[e].home
      BY <2>4 DEF Rehomed
    <3>2. entry[e].home = z \/ Excused(z)
      BY <3>1 DEF AtHome, Holds
    <3>3. QED
      BY <2>2, <2>4, <3>1, <3>2, Constants
  <2>5. ASSUME NEW q \in Paths, q = client[u].to, client[u].op # "movedir", Moves(u, "forget", client[u].e), Removed(q)
        PROVE  AtHome'
    <3>1. Excused(q)'
      BY <2>5 DEF Moves, Excused
    <3>2. Rehomed(q, Nil)
      BY <2>5 DEF Removed
    <3>3. QED
      BY <2>4, <3>1, <3>2
  <2>6. ASSUME NEW p \in Paths, p = client[u].path, s = "unlink", Removed(p)
        PROVE  AtHome'
    <3>1. map[p] = 0 /\ Rehomed(p, Nil)
      BY <2>6 DEF GoneInv, Removed
    <3>2. QED
      BY <2>4, <3>1
  <2>7. ASSUME NEW p \in Paths, p = client[u].path, NEW q \in Paths,
               Moves(u, "lock", client[u].e), Moved(p, q)
        PROVE  AtHome'
    <3>1. Excused(p)'
      BY <2>7 DEF Moves, Excused
    <3>2. Rehomed(p, q)
      BY <2>7 DEF Moved
    <3>3. QED
      BY <2>4, <3>1, <3>2
  <2>8. QED
    BY <1>15, <2>1, <2>3, <2>5, <2>6, <2>7 DEF Served, Serves, Untouched, Created
<1>16. CASE GetsStuck
  BY <1>1, <1>3, <1>4, <1>16 DEF GetsStuck
<1>17. ASSUME NEW e \in Entries, NEW p \in Paths, Pulled(e, p) PROVE AtHome'
  <2>1. /\ UNCHANGED <<map, client>> /\ \A f \in Entries \ {e} : entry'[f] = entry[f]
        /\ entry'[e].status = "FAIL" \/ (entry'[e].home = p /\ entry[e].path = p)
    <3>1. Pulls(e, p) /\ PullFaults(e, p) /\ UNCHANGED <<map, client>>
      BY <1>17 DEF Pulled
    <3>2. "stalePull" \notin faults'
      OBVIOUS
    <3>3. QED
      BY <3>1, <3>2 DEF Pulls, PullFaults, Only
  <2>2. \A q \in Paths : map[q] = e => entry[e].path = q
    BY Constants DEF MapInv, MapOf
  <2>3. \A q \in Paths : Excused(q) => Excused(q)'
    BY <1>3, <2>1
  <2> SUFFICES ASSUME NEW q \in Paths, NEW f \in Entries, map[q] = f, entry'[f].status \in Holding
               PROVE  entry'[f].home = q \/ Excused(q)'
    BY <2>1 DEF AtHome, Holds
  <2>4. CASE f = e
    BY <2>1, <2>2, <2>4 DEF Holding
  <2>5. CASE f # e
    BY <2>1, <2>3, <2>5 DEF AtHome, Holds
  <2>6. QED
    BY <2>4, <2>5
<1>18. ASSUME NEW e \in Entries, NEW p \in Paths, Pushed(e, p) PROVE AtHome'
  <2>1. /\ UNCHANGED <<map, client>>
        /\ \A f \in Entries : entry'[f].status \in Holding =>
             entry[f].status \in Holding /\ entry'[f].home = entry[f].home
    BY <1>18 DEF Pushed, Pushes, Only, SameFile, Holding
  <2>2. QED
    BY <1>1, <1>3, <2>1
<1>19. ASSUME NEW old \in SUBSET Paths, Scanned(old) PROVE AtHome'
  <2>1. /\ UNCHANGED <<map, client>>
        /\ \A f \in Entries : entry'[f].status \in Holding =>
             entry[f].status \in Holding /\ entry'[f].home = entry[f].home
    BY <1>19 DEF Scanned, Scans, SameFile, Holding
  <2>2. QED
    BY <1>1, <1>3, <2>1
<1>20. CASE JanitorTalks
  BY <1>1, <1>3, <1>20 DEF JanitorTalks
<1>21. CASE JanitorStarts
  <2>1. PICK e \in Entries : BeginsDelete(e) /\ UNCHANGED <<map, client>>
    BY <1>21 DEF JanitorStarts
  <2>2. QED
    BY <1>1, <1>3, <1>4, <2>1
<1>22. CASE JanitorEnds
  <2>1. PICK e \in Entries, p \in Paths :
          entry' = Destroy(entry, e) /\ map' = [map EXCEPT ![p] = 0] /\ UNCHANGED client
    BY <1>22 DEF JanitorEnds, Destroyed
  <2>2. QED
    BY <1>1, <1>3, <1>5, <1>11, <2>1
<1>23. QED
  BY <1>6, <1>7, <1>8, <1>9, <1>10, <1>12, <1>13, <1>14, <1>15, <1>16, <1>17, <1>18, <1>19,
     <1>20, <1>21, <1>22 DEF Happens, Does

-----------------------------------------------------------------------------
(* The invariant.                                                          *)

\* No two paths share an entry, even when an entry is freed in use.
Apart == \A p, q \in Paths : p # q /\ map[p] # 0 => map[p] # map[q]

LEMMA ApartKept ==
  ASSUME Types, Types', LockInv, MapInv, Happens
  PROVE  Apart'
<1>1. Apart
  BY DEF MapInv, MapOf, Apart
<1>2. ASSUME \A p \in Paths : map'[p] \in {map[p], 0} PROVE Apart'
  BY <1>1, <1>2 DEF Apart
<1>3. ASSUME NEW q \in Paths, map' = [map EXCEPT ![q] = 0] PROVE Apart'
  BY <1>2, <1>3 DEF Types
<1>4. ASSUME NEW p \in Paths, NEW e \in Entries, CacheAccess(p, e), Only(e),
             entry'[e].life = "alive", entry'[e].path = p
      PROVE  Apart'
  BY <1>4, AccessMap DEF MapOf, Apart
<1>5. ASSUME NEW u \in Users, Rebinds(u) PROVE Apart'
  <2>1. PICK p \in Paths, q \in Paths : p = client[u].path /\ q = client[u].to
    BY <1>5 DEF Rebinds
  <2>2. PICK m, f : RebindsFrom(m, f, p, q)
    BY <1>5, <2>1, RebindsDoes
  <2>3. /\ m \in [Paths -> Entries \cup {0}] /\ f \in [Entries -> EntryType]
        /\ Rebound(m, f, p, q) /\ (m[p] = 0 \/ m[q] = 0)
    BY <2>2 DEF RebindsFrom
  <2>4. \A x, y \in Paths : x # y /\ m[x] # 0 => m[x] # m[y]
    BY <1>1, <2>2 DEF RebindsFrom, Apart, Types
  <2>5. CASE m[p] = 0
    <3>1. map' = m
      BY <2>3, <2>5, ReboundDoes
    <3>2. QED
      BY <2>4, <3>1 DEF Apart
  <2>6. CASE m[p] # 0
    <3>1. /\ p # q /\ map'[q] = m[p] /\ map'[p] = 0
          /\ \A y \in Paths \ {p, q} : map'[y] = m[y]
      BY <2>3, <2>6, ReboundDoes
    <3>2. QED
      BY <2>4, <2>6, <3>1 DEF Apart
  <2>7. QED
    BY <2>5, <2>6
<1>6. ASSUME NEW u \in Users, Does(u) PROVE Apart'
  <2>1. ASSUME NEW op \in {"read", "write"}, NEW p \in Paths, NEW e \in Entries, Begun(u, op, p, e)
        PROVE  Apart'
    BY <1>4, <2>1 DEF Begun, BeginsWith
  <2>2. ASSUME NEW e \in Entries, Ended(u, e) PROVE Apart'
    <3>1. PICK p \in Paths : p = client[u].path
      BY <2>2 DEF Ended, EndsWith
    <3>2. CacheAccess(p, e) /\ Only(e) /\ entry'[e].life = "alive" /\ entry'[e].path = p
      BY <2>2, <3>1 DEF Ended, EndsWith
    <3>3. QED
      BY <1>4, <3>2
  <2>3. CASE Accessed(u) \/ Talks(u) \/ StartsDeleting(u) \/ Served(u)
    BY <1>2, <2>3 DEF Accessed, Talks, StartsDeleting, Served
  <2>4. CASE Forgets(u)
    BY <1>3, <2>4 DEF Forgets, Destroyed
  <2>5. CASE Deletes(u)
    BY <1>2, <1>3, <2>5 DEF Deletes
  <2>6. QED
    BY <1>5, <1>6, <2>1, <2>2, <2>3, <2>4, <2>5 DEF Does
<1>7. ASSUME NEW e \in Entries, NEW p \in Paths, Pulled(e, p) \/ Pushed(e, p) PROVE Apart'
  BY <1>2, <1>7 DEF Pulled, Pushed
<1>8. ASSUME NEW old \in SUBSET Paths, Scanned(old) PROVE Apart'
  BY <1>2, <1>8 DEF Scanned
<1>9. CASE GetsStuck \/ JanitorTalks \/ JanitorStarts
  BY <1>2, <1>9 DEF GetsStuck, JanitorTalks, JanitorStarts
<1>10. CASE JanitorEnds
  BY <1>3, <1>10 DEF JanitorEnds, Destroyed
<1>11. QED
  BY <1>6, <1>7, <1>8, <1>9, <1>10 DEF Happens

\* The types, the lock and the map as long as the behaviour goes on; the files as long as
\* nothing has gone wrong.
Inv ==
  /\ Types /\ LockInv /\ Apart
  /\ Steady => MapInv
  /\ faults = {} => Files /\ GoneInv /\ AtHome

\* At first there is no entry, and what is on the device is the latest.
LEMMA InitInv ==
  ASSUME Init
  PROVE  Inv
<1>1. /\ map = [p \in Paths |-> 0] /\ writer = Nil /\ entry = [e \in Entries |-> Unborn]
      /\ dev \in [Paths -> Paths \cup {NoFile}] /\ latest = dev /\ faults = {}
      /\ treeq = <<>> /\ pullq = <<>> /\ pushq = <<>> /\ worker = Nil
      /\ client = [u \in Users |-> Idle]
      /\ jan = [step |-> "rest", victims |-> {}, e |-> 0, path |-> Nil, rounds |-> 0]
  BY DEF Init
<1>2. /\ Idle \in ClientType /\ Idle.step = "idle" /\ Idle.e = 0
  BY DEF Idle, ClientType, Operations, Steps
<1>3. \A u \in Users : client[u] = Idle
  BY <1>1
<1>4. \A e \in Entries : entry[e] = Unborn
  BY <1>1
<1>5. jan \in JanitorType /\ jan.step = "rest" /\ jan.e = 0
  BY <1>1, BoundsAssumption DEF JanitorType
<1>6. Types
  BY <1>1, <1>2, <1>5, UnbornIs DEF Types, Content
<1>7. LockInv
  BY <1>1, <1>2, <1>3, <1>5, Constants DEF LockInv, Locking, Using, OnePath
<1>8. Apart
  BY <1>1 DEF Apart
<1>9. Waiting(pullq) = {} /\ Waiting(pushq) = {} /\ Once(pullq)
  BY <1>1, EmptyWaiting
<1>10. MapInv
  BY <1>1, <1>2, <1>3, <1>4, <1>5, <1>9, UnbornIs DEF MapInv, MapOf, Alive
<1>11. Files
  <2>1. HoldInv
    BY <1>2, <1>3, <1>4, UnbornIs DEF HoldInv, Holds, Holding, Alive
  <2>2. PullInv
    BY <1>9 DEF PullInv
  <2>3. HomeInv /\ DelInv
    BY <1>4, UnbornIs DEF HomeInv, DelInv
  <2>4. KeptInv
    BY <1>1 DEF KeptInv
  <2>5. QED
    BY <2>1, <2>2, <2>3, <2>4 DEF Files
<1>12. GoneInv
  BY <1>2, <1>3 DEF GoneInv
<1>13. AtHome
  BY <1>1, Constants DEF AtHome
<1>14. QED
  BY <1>6, <1>7, <1>8, <1>10, <1>11, <1>12, <1>13 DEF Inv

LEMMA NextInv ==
  ASSUME Inv, [Next]_vars
  PROVE  Inv'
<1>1. CASE Next
  <2>1. Types /\ LockInv /\ MapInv /\ Happens
    <3>1. Types /\ LockInv /\ MapInv
      BY <1>1 DEF Inv, Next
    <3>2. QED
      BY <1>1, <3>1, NextHappens
  <2>2. Types' /\ LockInv'
    BY <2>1, TypesKept, LocksKept
  <2>3. Apart'
    BY <2>1, <2>2, ApartKept
  <2>4. Steady' => MapInv'
    BY <2>1, MapKept DEF Steady
  <2>5. ASSUME faults' = {} PROVE Files' /\ GoneInv' /\ AtHome'
    <3>1. faults = {}
      BY <2>1, <2>5, FaultsStay
    <3>2. Files /\ GoneInv /\ AtHome
      BY <3>1 DEF Inv
    <3>3. MapInv'
      BY <2>4, <2>5 DEF Steady
    <3>4. QED
      BY <2>1, <2>2, <2>5, <3>2, <3>3, FilesKept, GoneKept, AtHomeKept
  <2>6. QED
    BY <2>2, <2>3, <2>4, <2>5 DEF Inv
<1>2. CASE UNCHANGED vars
  <2>1. /\ UNCHANGED <<map, writer, entry, dev, treeq, pullq, pushq>>
        /\ UNCHANGED <<worker, client, jan, latest, faults>>
    BY <1>2 DEF vars
  <2>2. Types' /\ LockInv' /\ Apart'
    BY <2>1 DEF Inv, Types, LockInv, Apart
  <2>3. Steady' => MapInv'
    BY <2>1 DEF Inv, Steady, MapInv, MapOf, Alive
  <2>4. Files => Files'
    BY <2>1 DEF Files, HoldInv, PullInv, HomeInv, KeptInv, DelInv, Holds, Alive, Brings,
                WriterAtEnd, Deleting
  <2>5. (GoneInv => GoneInv') /\ (AtHome => AtHome')
    BY <2>1 DEF GoneInv, AtHome, Excused, Holds
  <2>6. QED
    BY <2>1, <2>2, <2>3, <2>4, <2>5 DEF Inv
<1>3. QED
  BY <1>1, <1>2

\* The invariant of the map, its lock and its entries, for every number of threads, paths,
\* entries and rounds.
THEOREM Invariance == Spec => []Inv
<1>1. Init => Inv
  BY InitInv
<1>2. Inv /\ [Next]_vars => Inv'
  BY NextInv
<1>3. QED
  BY <1>1, <1>2, PTL DEF Spec

-----------------------------------------------------------------------------
(* What the runs check.                                                    *)

\* Types, and no two paths share an entry; none has a deleted one until an entry is freed
\* in use (_cacheAccess, _unsyncedCacheDelete and _unsyncedCacheRebind of FileCache.cpp).
THEOREM TypeCorrect == Spec => []TypeOK
<1>1. ASSUME Inv PROVE TypeOK
  <2>1. /\ writer \in Users \cup {Janitor, Nil} /\ dev \in [Paths -> Content]
        /\ worker \in {Nil, "listing", "rebinding", "stuck"} /\ faults \subseteq Faults
        /\ jan.victims \subseteq Paths /\ jan.rounds \in 0 .. MaxRounds
    BY <1>1 DEF Inv, Types, JanitorType
  <2>2. Steady => \A p \in Paths : map[p] # 0 => entry[map[p]].life = "alive"
    BY <1>1 DEF Inv, MapInv, MapOf
  <2>3. \A p, q \in Paths : p # q /\ map[p] # 0 => map[p] # map[q]
    BY <1>1 DEF Inv, Apart
  <2>4. \A p \in Paths : dev[p] \in {NoFile, Empty, Part} \cup Paths \cup Users
    BY <2>1 DEF Content
  <2>5. QED
    BY <2>1, <2>2, <2>3, <2>4 DEF TypeOK, Faults
<1>2. QED
  BY <1>1, Invariance, PTL

\* As long as nothing that the model names has gone wrong, what was written last to a file
\* is on the device or in an entry of the map that is dirty, is being pushed, or will be
\* dirty once its writer is done, wherever the file has been moved in the meantime.
THEOREM WrittenKept == Spec => []WrittenIsKept
<1>1. ASSUME Inv PROVE WrittenIsKept
  <2> SUFFICES ASSUME faults = {}, NEW p \in Paths, latest[p] \in Users, dev[p] # latest[p]
               PROVE  \E e \in Entries :
                        /\ \E q \in Paths : map[q] = e
                        /\ entry[e].home = p /\ entry[e].copy = latest[p]
                        /\ \/ entry[e].status \in {"DIRTY", "PUSHING"}
                           \/ \E u \in Users : At(u, "end") /\ client[u].e = e /\ client[u].op = "write"
    BY DEF WrittenIsKept
  <2>1. KeptInv /\ HomeInv /\ MapInv
    BY <1>1 DEF Inv, Files, Steady
  <2>2. PICK e \in Entries : Brings(e, p)
    BY <2>1 DEF KeptInv
  <2>3. entry[e].home = p /\ entry[e].copy = latest[p] /\ entry[e].home # Nil
    BY <2>1, <2>2, Constants DEF Brings, HomeInv
  <2>4. entry[e].path \in Paths /\ map[entry[e].path] = e
    BY <2>1, <2>3 DEF MapInv, MapOf
  <2>5. QED
    BY <2>2, <2>3, <2>4 DEF Brings, WriterAtEnd, At
<1>2. QED
  BY <1>1, Invariance, PTL

\* As long as nothing that the model names has gone wrong, an entry of the map that has a
\* copy holds the file of its path, but while a mover is between the move of the file and
\* the rebind of its entry (DokanDriveWrapper.h), or before it deletes the replaced entry.
THEOREM EntriesFollowFiles == Spec => []EntriesAreAtHome
<1>1. ASSUME Inv PROVE EntriesAreAtHome
  <2> SUFFICES ASSUME faults = {}, NEW p \in Paths, map[p] # 0,
                      entry[map[p]].status \in {"AVAILABLE", "DIRTY", "PUSHING"}
               PROVE  entry[map[p]].home = p \/ Excused(p)
    BY DEF EntriesAreAtHome, Excused
  <2>1. map[p] \in Entries
    BY <1>1 DEF Inv, Types
  <2>2. QED
    BY <1>1, <2>1 DEF Inv, AtHome, Holds, Holding
<1>2. QED
  BY <1>1, Invariance, PTL
=============================================================================
