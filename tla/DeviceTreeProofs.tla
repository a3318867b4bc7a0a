--------------------------- MODULE DeviceTreeProofs ---------------------------
EXTENDS DeviceTree, TLAPS, WellFoundedInduction, NaturalsInduction, FiniteSetTheorems

-----------------------------------------------------------------------------
(* Functions defined by recursion over an interval.                        *)

\* A nonempty set of numbers has a least one.
LEMMA Least ==
  ASSUME NEW S, S \subseteq Nat, S # {}
  PROVE  \E m \in S : \A n \in S : ~(n < m)
<1>1. IsWellFoundedOn(OpToRel(<, Nat), Nat)
  BY NatLessThanWellFounded, Zenon
<1>2. \A m, n \in Nat : n < m => <<n, m>> \in OpToRel(<, Nat)
  BY Zenon DEF OpToRel
<1>3. PICK m \in S : \A n \in S : ~(<<n, m>> \in OpToRel(<, Nat))
  BY <1>1, WFMin, Zenon
<1> QED BY <1>2, <1>3, Zenon

\* What holds at 0 and passes from each number to the next holds up to N.
LEMMA Climbing ==
  ASSUME NEW N \in Nat, NEW C, NEW W, W[0] \in C[0],
         \A n \in 1 .. N : W[n - 1] \in C[n - 1] => W[n] \in C[n]
  PROVE  \A n \in 0 .. N : W[n] \in C[n]
<1> DEFINE Bad == {n \in 0 .. N : W[n] \notin C[n]}
<1> SUFFICES ASSUME Bad # {} PROVE FALSE
  OBVIOUS
<1>1. Bad \subseteq Nat
  OBVIOUS
<1>2. PICK m \in Bad : \A n \in Bad : ~(n < m)
  <2> HIDE DEF Bad
  <2> QED BY <1>1, Least
<1>3. m # 0 /\ m \in 1 .. N /\ m - 1 \in 0 .. N
  OBVIOUS
<1>4. m - 1 \notin Bad
  BY <1>1, <1>2, <1>3
<1> QED BY <1>3, <1>4

-----------------------------------------------------------------------------
(* What holds of the device and the cache of listings, between the         *)
(* requests and between the steps of one.                                  *)

Keys == Ids \cup {Root}
Nodes == [id : Ids, name : AllNames, dir : BOOLEAN]
Objects == [parent : Keys, name : AllNames, dir : BOOLEAN, content : AllContents \cup {Dir}]
Devices == UNION {[D -> Objects] : D \in SUBSET Ids}
Caches == UNION {[K -> SUBSET Nodes] : K \in SUBSET Keys}
States == [dev : Devices, kids : Caches, bad : SUBSET FaultKinds, left : 0 .. MaxFaults,
           taken : SUBSET Keys]

\* Every object is in the root or in a directory that is there.
Parented(d) == \A i \in DOMAIN d : d[i].parent \in {Root} \cup {j \in DOMAIN d : d[j].dir}
\* What a listing says of an object that is still there is true.
Agree(d, k) == \A i \in DOMAIN k : \A n \in k[i] : n.id \in DOMAIN d =>
                 d[n.id].parent = i /\ d[n.id].name = n.name /\ d[n.id].dir = n.dir
\* An object is in one listing at most.
Unique(k) == \A i, j \in DOMAIN k : \A n \in k[i], m \in k[j] : n.id = m.id => i = j /\ n = m
\* Only directories have listings.
ListsDirs(d, k) == \A i \in DOMAIN k \cap DOMAIN d : d[i].dir
\* No object is below itself, as the device and the listings have it.
NoCycle(d, k) ==
  \A S \in SUBSET Ids : S # {} =>
    \E x \in S : /\ x \in DOMAIN d => d[x].parent \notin S
                 /\ \A i \in DOMAIN k \cap S : \A n \in k[i] : n.id # x
Sound(d, k) == Parented(d) /\ Agree(d, k) /\ Unique(k) /\ ListsDirs(d, k) /\ NoCycle(d, k)

\* The ids a request may hold are taken.
Held(s) == DOMAIN s.dev \subseteq s.taken /\ DOMAIN s.kids \subseteq s.taken \cup {Root} /\ Named(s.kids) \subseteq s.taken
Good(s) == s \in States /\ Sound(s.dev, s.kids) /\ Held(s)

\* What a request may note but the use of a freed node.
DeviceFaults == {"listing", "thrown", "create", "read", "delete", "rename", "full"}

\* How a request changes a state: what was there and still is has not changed, and a
\* listing gets only such of it as was in the listing or in the directory on the device.
Later(s, t) ==
  /\ s.taken \subseteq t.taken /\ s.bad \subseteq t.bad /\ t.bad \subseteq s.bad \cup DeviceFaults
  /\ \A i \in DOMAIN t.dev : i \in s.taken => i \in DOMAIN s.dev /\ t.dev[i] = s.dev[i]
  /\ \A i \in DOMAIN t.kids : \A n \in t.kids[i] : n.id \in s.taken =>
       \/ i \in DOMAIN s.kids /\ n \in s.kids[i]
       \/ n.id \in DOMAIN s.dev /\ s.dev[n.id].parent = i /\ s.dev[n.id].name = n.name /\ s.dev[n.id].dir = n.dir

LEMMA LaterTransitive ==
  ASSUME NEW s, NEW t, NEW u, Later(s, t), Later(t, u)
  PROVE  Later(s, u)
<1>1. s.taken \subseteq u.taken /\ s.bad \subseteq u.bad /\ u.bad \subseteq s.bad \cup DeviceFaults
  BY DEF Later
<1>2. \A i \in DOMAIN u.dev : i \in s.taken => i \in DOMAIN s.dev /\ u.dev[i] = s.dev[i]
  BY DEF Later
<1>3. ASSUME NEW i \in DOMAIN u.kids, NEW n \in u.kids[i], n.id \in s.taken
      PROVE  \/ i \in DOMAIN s.kids /\ n \in s.kids[i]
             \/ n.id \in DOMAIN s.dev /\ s.dev[n.id].parent = i /\ s.dev[n.id].name = n.name /\ s.dev[n.id].dir = n.dir
  <2>1. n.id \in t.taken
    BY <1>3 DEF Later
  <2>2. CASE i \in DOMAIN t.kids /\ n \in t.kids[i]
    BY <1>3, <2>2 DEF Later
  <2>3. CASE n.id \in DOMAIN t.dev /\ t.dev[n.id].parent = i /\ t.dev[n.id].name = n.name /\ t.dev[n.id].dir = n.dir
    BY <1>3, <2>3 DEF Later
  <2> QED BY <1>3, <2>1, <2>2, <2>3 DEF Later
<1> QED BY <1>1, <1>2, <1>3 DEF Later

LEMMA CachesType ==
  ASSUME NEW k \in Caches
  PROVE  DOMAIN k \subseteq Keys /\ \A j \in DOMAIN k : k[j] \subseteq Nodes
<1>1. PICK K \in SUBSET Keys : k \in [K -> SUBSET Nodes]
  BY DEF Caches
<1> QED BY <1>1

LEMMA DevicesType ==
  ASSUME NEW d \in Devices
  PROVE  DOMAIN d \subseteq Ids /\ \A i \in DOMAIN d : d[i] \in Objects
<1>1. PICK D \in SUBSET Ids : d \in [D -> Objects]
  BY DEF Devices
<1> QED BY <1>1

LEMMA SameIsGood ==
  ASSUME NEW s, NEW t \in States, Good(s), t.dev = s.dev, t.kids = s.kids, t.taken = s.taken,
         s.bad \subseteq t.bad, t.bad \subseteq s.bad \cup DeviceFaults
  PROVE  Good(t) /\ Later(s, t)
<1>1. Good(t)
  BY DEF Good, Held
<1>2. Later(s, t)
  BY DEF Later, Good, Held
<1> QED BY <1>1, <1>2

\* A call of the device that fails changes nothing but what is noted of it.
LEMMA FailKeeps ==
  ASSUME NEW s, NEW kind \in DeviceFaults, NEW t \in Fail(s, kind), Good(s)
  PROVE  /\ t.dev = s.dev /\ t.kids = s.kids /\ t.taken = s.taken
         /\ t.bad = s.bad \cup {kind} /\ t.left = s.left - 1
         /\ Good(t) /\ Later(s, t)
<1>1. /\ s \in States /\ s.left \in 0 .. MaxFaults /\ s.left # 0
      /\ t = [s EXCEPT !.bad = @ \cup {kind}, !.left = @ - 1]
  BY DEF Fail, Good, States
<1>2. t.dev = s.dev /\ t.kids = s.kids /\ t.taken = s.taken /\ t.bad = s.bad \cup {kind} /\ t.left = s.left - 1
  BY <1>1 DEF States
<1>3. s.left - 1 \in 0 .. MaxFaults
  BY <1>1, BoundsAssumption
<1>4. t \in States
  BY <1>1, <1>3 DEF States, DeviceFaults, FaultKinds
<1> QED BY <1>2, <1>4, SameIsGood

\* A listing in the cache is a set of nodes.
LEMMA CachedNodes ==
  ASSUME NEW s, Good(s), NEW i
  PROVE  /\ Cached(s, i) \subseteq Nodes
         /\ \A n \in Cached(s, i) : i \in DOMAIN s.kids /\ n \in s.kids[i] /\ n.id \in s.taken
<1>1. s.kids \in Caches
  BY DEF Good, States
<1>2. PICK K \in SUBSET Keys : s.kids \in [K -> SUBSET Nodes]
  BY <1>1 DEF Caches
<1>3. i \in DOMAIN s.kids => s.kids[i] \subseteq Nodes
  BY <1>2
<1>4. \A n : i \in DOMAIN s.kids /\ n \in s.kids[i] => n.id \in s.taken
  BY DEF Good, Held, Named
<1> QED BY <1>3, <1>4 DEF Cached

\* The objects of the device and the nodes that a listing of it gives.
LEMMA ChildrenNodes ==
  ASSUME NEW s, Good(s), NEW i
  PROVE  /\ Children(s.dev, i) \subseteq Nodes
         /\ \A n \in Children(s.dev, i) : /\ n.id \in DOMAIN s.dev /\ n.id \in s.taken /\ n.id \in Ids
                                         /\ s.dev[n.id].parent = i
                                         /\ s.dev[n.id].name = n.name /\ s.dev[n.id].dir = n.dir
         /\ \A x \in DOMAIN s.dev : s.dev[x].parent = i =>
              [id |-> x, name |-> s.dev[x].name, dir |-> s.dev[x].dir] \in Children(s.dev, i)
<1>1. s.dev \in Devices
  BY DEF Good, States
<1>2. PICK D \in SUBSET Ids : s.dev \in [D -> Objects]
  BY <1>1 DEF Devices
<1>3. DOMAIN s.dev \subseteq Ids /\ \A x \in DOMAIN s.dev : s.dev[x] \in Objects
  BY <1>2
<1>4. \A x \in DOMAIN s.dev : x \in s.taken
  BY DEF Good, Held
<1>5. \A n \in Children(s.dev, i) : \E x \in DOMAIN s.dev :
        s.dev[x].parent = i /\ n = [id |-> x, name |-> s.dev[x].name, dir |-> s.dev[x].dir]
  BY DEF Children
<1>6. ASSUME NEW n \in Children(s.dev, i)
      PROVE  /\ n \in Nodes /\ n.id \in DOMAIN s.dev /\ n.id \in s.taken /\ n.id \in Ids
             /\ s.dev[n.id].parent = i /\ s.dev[n.id].name = n.name /\ s.dev[n.id].dir = n.dir
  <2>1. PICK x \in DOMAIN s.dev :
        s.dev[x].parent = i /\ n = [id |-> x, name |-> s.dev[x].name, dir |-> s.dev[x].dir]
    BY <1>5
  <2>2. s.dev[x] \in Objects /\ x \in Ids /\ x \in s.taken
    BY <1>3, <1>4
  <2>3. s.dev[x].name \in AllNames /\ s.dev[x].dir \in BOOLEAN
    BY <2>2 DEF Objects
  <2> QED BY <2>1, <2>2, <2>3 DEF Nodes
<1>7. \A x \in DOMAIN s.dev : s.dev[x].parent = i =>
              [id |-> x, name |-> s.dev[x].name, dir |-> s.dev[x].dir] \in Children(s.dev, i)
  BY DEF Children
<1> QED BY <1>6, <1>7

\* k is the cache of s with found added to the listing of i.
Adds(s, i, found, k) ==
  /\ k \in Caches /\ DOMAIN k = DOMAIN s.kids \cup {i}
  /\ k[i] = Cached(s, i) \cup found
  /\ \A j \in DOMAIN s.kids \ {i} : k[j] = s.kids[j]
  /\ \A j \in DOMAIN k : \A n \in k[j] : (j \in DOMAIN s.kids /\ n \in s.kids[j]) \/ (j = i /\ n \in found)

LEMMA PutListing ==
  ASSUME NEW s, Good(s), NEW i \in Keys, NEW found, found \subseteq Nodes
  PROVE  Adds(s, i, found, Put(s.kids, i, Cached(s, i) \cup found))
<1>0. PICK k : k = Put(s.kids, i, Cached(s, i) \cup found)
  OBVIOUS
<1>1. PICK K \in SUBSET Keys : s.kids \in [K -> SUBSET Nodes]
  BY DEF Good, States, Caches
<1>2. DOMAIN k = DOMAIN s.kids \cup {i} /\ k[i] = Cached(s, i) \cup found
      /\ \A j \in DOMAIN s.kids \ {i} : k[j] = s.kids[j]
  BY <1>0 DEF Put
<1>3. Cached(s, i) \subseteq Nodes
  BY CachedNodes
<1>4. k \in [K \cup {i} -> SUBSET Nodes] /\ K \cup {i} \in SUBSET Keys
  <2>1. \A j \in K \cup {i} : (IF j = i THEN Cached(s, i) \cup found ELSE s.kids[j]) \in SUBSET Nodes
    BY <1>1, <1>3
  <2>2. DOMAIN s.kids = K
    BY <1>1
  <2> QED BY <1>0, <1>1, <2>1, <2>2 DEF Put
<1>5. k \in Caches
  BY <1>4 DEF Caches
<1>6. \A j \in DOMAIN k : \A n \in k[j] : (j \in DOMAIN s.kids /\ n \in s.kids[j]) \/ (j = i /\ n \in found)
  <2>1. \A n \in Cached(s, i) : i \in DOMAIN s.kids /\ n \in s.kids[i]
    BY CachedNodes
  <2> QED BY <1>2, <2>1
<1> QED BY <1>0, <1>2, <1>5, <1>6 DEF Adds

\* A node on a request's hands: its id is taken, and it is a directory if the object is one.
OnHand(s, n) == /\ n.id \in (s.taken \cup {Root}) \cap Keys /\ n.dir \in BOOLEAN
                /\ n.id \in DOMAIN s.dev => s.dev[n.id].dir = n.dir

\* What a listing brings into a state leaves it good.
LEMMA ListingIsGood ==
  ASSUME NEW s, Good(s), NEW i \in Keys, i \in s.taken \cup {Root}, i \in DOMAIN s.dev => s.dev[i].dir,
         NEW found, found \subseteq Children(s.dev, i), NEW t \in States,
         s.bad \subseteq t.bad, t.bad \subseteq s.bad \cup DeviceFaults,
         t.dev = s.dev, t.taken = s.taken, t.kids = Put(s.kids, i, Cached(s, i) \cup found)
  PROVE  Good(t) /\ Later(s, t)
<1>1. found \subseteq Nodes
  BY ChildrenNodes
<1>2. PICK k : k = Put(s.kids, i, Cached(s, i) \cup found) /\ Adds(s, i, found, k)
  BY <1>1, PutListing
<1>20. \A j \in DOMAIN k : \A n \in k[j] : (j \in DOMAIN s.kids /\ n \in s.kids[j]) \/ (j = i /\ n \in found)
  BY <1>2 DEF Adds
<1>21. DOMAIN k = DOMAIN s.kids \cup {i} /\ \A j \in DOMAIN k : k[j] \subseteq Nodes
  <2>1. k \in Caches /\ DOMAIN k = DOMAIN s.kids \cup {i}
    BY <1>2 DEF Adds
  <2> QED BY <2>1, CachesType
<1>3. t.kids = k
  BY <1>2
<1>4. \A n \in found : /\ n.id \in DOMAIN s.dev /\ n.id \in s.taken /\ s.dev[n.id].parent = i
                       /\ s.dev[n.id].name = n.name /\ s.dev[n.id].dir = n.dir
  BY ChildrenNodes
<1>5. Sound(s.dev, s.kids) /\ Held(s)
  BY DEF Good
<1>6. Agree(s.dev, k)
  <2>1. Agree(s.dev, s.kids)
    BY <1>5 DEF Sound
  <2> QED BY <1>20, <1>21, <1>4, <2>1 DEF Agree
<1>7. Unique(k)
  <2> SUFFICES ASSUME NEW x \in DOMAIN k, NEW y \in DOMAIN k, NEW n \in k[x], NEW m \in k[y], n.id = m.id
               PROVE  x = y /\ n = m
    BY DEF Unique
  <2>1. Unique(s.kids) /\ Agree(s.dev, s.kids)
    BY <1>5 DEF Sound
  <2>2. n \in Nodes /\ m \in Nodes
    BY <1>21
  <2>3. CASE (x \in DOMAIN s.kids /\ n \in s.kids[x]) /\ (y \in DOMAIN s.kids /\ m \in s.kids[y])
    BY <2>1, <2>3 DEF Unique
  <2>4. CASE (x = i /\ n \in found) \/ (y = i /\ m \in found)
    <3>1. n.id \in DOMAIN s.dev
      BY <2>4, <1>4
    <3>2. s.dev[n.id].parent = x /\ s.dev[n.id].name = n.name /\ s.dev[n.id].dir = n.dir
      BY <3>1, <1>6 DEF Agree
    <3>3. s.dev[n.id].parent = y /\ s.dev[n.id].name = m.name /\ s.dev[n.id].dir = m.dir
      BY <3>1, <1>6 DEF Agree
    <3>4. n = [id |-> n.id, name |-> n.name, dir |-> n.dir] /\ m = [id |-> m.id, name |-> m.name, dir |-> m.dir]
      BY <2>2 DEF Nodes
    <3> QED BY <3>2, <3>3, <3>4
  <2> QED BY <2>3, <2>4, <1>20
<1>8. ListsDirs(s.dev, k)
  BY <1>2, <1>5 DEF Sound, ListsDirs, Adds
<1>9. NoCycle(s.dev, k)
  <2> SUFFICES ASSUME NEW S \in SUBSET Ids, S # {}
               PROVE  \E x \in S : /\ x \in DOMAIN s.dev => s.dev[x].parent \notin S
                                   /\ \A j \in DOMAIN k \cap S : \A n \in k[j] : n.id # x
    BY DEF NoCycle
  <2>1. PICK x \in S : /\ x \in DOMAIN s.dev => s.dev[x].parent \notin S
                       /\ \A j \in DOMAIN s.kids \cap S : \A n \in s.kids[j] : n.id # x
    BY <1>5 DEF Sound, NoCycle
  <2>2. ASSUME NEW j \in DOMAIN k \cap S, NEW n \in k[j], n.id = x
        PROVE  FALSE
    BY <1>20, <1>4, <2>1, <2>2
  <2> QED BY <2>1, <2>2
<1>10. Held(t)
  <2>1. DOMAIN t.dev \subseteq t.taken /\ DOMAIN t.kids \subseteq t.taken \cup {Root}
    BY <1>2, <1>3, <1>5 DEF Held, Adds
  <2>2. \A j \in DOMAIN k : \A n \in k[j] : n.id \in s.taken
    <3>1. \A j \in DOMAIN s.kids : \A n \in s.kids[j] : n.id \in s.taken
      BY <1>5 DEF Held, Named
    <3> SUFFICES ASSUME NEW j \in DOMAIN k, NEW n \in k[j] PROVE n.id \in s.taken
      OBVIOUS
    <3>2. (j \in DOMAIN s.kids /\ n \in s.kids[j]) \/ (j = i /\ n \in found)
      BY <1>20
    <3> QED BY <3>1, <3>2, <1>4
  <2>3. Named(k) \subseteq t.taken
    BY <2>2 DEF Named
  <2> QED BY <2>1, <2>3, <1>3 DEF Held
<1>11. Sound(t.dev, t.kids)
  BY <1>3, <1>5, <1>6, <1>7, <1>8, <1>9 DEF Sound
<1>12. Later(s, t)
  <2>1. \A j \in DOMAIN t.kids : \A n \in t.kids[j] :
       \/ j \in DOMAIN s.kids /\ n \in s.kids[j]
       \/ n.id \in DOMAIN s.dev /\ s.dev[n.id].parent = j /\ s.dev[n.id].name = n.name /\ s.dev[n.id].dir = n.dir
    BY <1>20, <1>3, <1>4
  <2> QED BY <2>1 DEF Later
<1> QED BY <1>10, <1>11, <1>12 DEF Good

LEMMA KindsOfFaults ==
  {"listing", "thrown", "create", "read", "delete", "rename", "full"} \subseteq DeviceFaults
  BY DEF DeviceFaults

\* Reading a listing: it is added to the cache, or the reading failed and nothing changed.
LEMMA EvaluateChildrenKeeps ==
  ASSUME NEW s, Good(s), NEW i \in Keys, i \in s.taken \cup {Root}, i \in DOMAIN s.dev => s.dev[i].dir,
         NEW o \in EvaluateChildren(s, i)
  PROVE  /\ Good(o.s) /\ Later(s, o.s) /\ o.s.dev = s.dev /\ o.s.taken = s.taken
         /\ \/ /\ o.s.kids = s.kids
               /\ \/ o.r = Nil /\ "listing" \in o.s.bad
                  \/ Halted(o.s)
            \/ /\ o.r \subseteq Children(s.dev, i) /\ o.s.kids = Put(s.kids, i, Cached(s, i) \cup o.r)
               /\ o.r = Children(s.dev, i) \/ "listing" \in o.s.bad
<1> DEFINE nodes == Children(s.dev, i)
<1>0. s \in States
  BY DEF Good
<1>1. \/ o = Listed(s, i, nodes)
      \/ \E t \in Fail(s, "listing") : o = Out(t, Nil)
      \/ \E t \in Fail(s, "listing") : \E n \in nodes :
           o = Listed(t, i, {m \in nodes : m.id < n.id})
      \/ \E t \in Fail(s, "thrown") : o = Out(t, Aborted)
  <2>1. \/ o \in {Listed(s, i, nodes)}
        \/ o \in {Out(t, Nil) : t \in Fail(s, "listing")}
        \/ o \in {Listed(t, i, {m \in nodes : m.id < n.id})
                   : t \in Fail(s, "listing"), n \in nodes}
        \/ o \in {Out(t, Aborted) : t \in IF nodes = {} THEN {} ELSE ReadProperties(s)}
    BY DEF EvaluateChildren
  <2>2. CASE o \in {Listed(t, i, {m \in nodes : m.id < n.id})
                   : t \in Fail(s, "listing"), n \in nodes}
    BY <2>2
  <2>3. CASE o \in {Out(t, Aborted) : t \in IF nodes = {} THEN {} ELSE ReadProperties(s)}
    BY <2>3 DEF ReadProperties
  <2> QED BY <2>1, <2>2, <2>3
<1>2. nodes \subseteq Nodes
  BY ChildrenNodes
<1> HIDE DEF nodes
<1>3. ASSUME NEW t \in States, t.dev = s.dev, t.kids = s.kids, t.taken = s.taken,
             s.bad \subseteq t.bad, t.bad \subseteq s.bad \cup DeviceFaults, NEW found, found \subseteq nodes, o = Listed(t, i, found)
      PROVE  /\ Good(o.s) /\ Later(s, o.s) /\ o.s.dev = s.dev /\ o.s.taken = s.taken /\ o.s.bad = t.bad
             /\ o.r = found /\ o.s.kids = Put(s.kids, i, Cached(s, i) \cup found)
  <2>2. found \subseteq Nodes
    BY <1>2, <1>3
  <2>1. PICK k : k = Put(s.kids, i, Cached(s, i) \cup found) /\ Adds(s, i, found, k)
    BY <2>2, PutListing
  <2>3. k \in Caches
    BY <2>1 DEF Adds
  <2>4. o.s = [t EXCEPT !.kids = k] /\ o.r = found
    BY <2>1, <1>3 DEF Out, Listed, Cached
  <2>5. o.s \in States /\ o.s.dev = t.dev /\ o.s.taken = t.taken /\ o.s.bad = t.bad /\ o.s.kids = k
    BY <2>3, <2>4 DEF States
  <2>6. found \subseteq Children(s.dev, i)
    BY <1>3 DEF nodes
  <2>7. Good(o.s) /\ Later(s, o.s)
    BY <2>1, <2>5, <2>6, <1>3, ListingIsGood
  <2> QED BY <2>1, <2>4, <2>5, <2>7, <1>3
<1>4. CASE o = Listed(s, i, nodes)
  BY <1>0, <1>3, <1>4 DEF nodes
<1>5. CASE \E t \in Fail(s, "listing") : o = Out(t, Nil)
  <2>1. PICK t \in Fail(s, "listing") : o = Out(t, Nil)
    BY <1>5
  <2> QED BY <2>1, FailKeeps, KindsOfFaults DEF Out
<1>6. CASE \E t \in Fail(s, "listing") : \E n \in nodes :
           o = Listed(t, i, {m \in nodes : m.id < n.id})
  <2>1. PICK t \in Fail(s, "listing"), n \in nodes :
           o = Listed(t, i, {m \in nodes : m.id < n.id})
    BY <1>6
  <2>2. PICK found : found = {m \in nodes : m.id < n.id}
    OBVIOUS
  <2>3. found \subseteq nodes
    BY <2>2
  <2>4. o = Listed(t, i, found)
    BY <2>1, <2>2
  <2>5. t.dev = s.dev /\ t.kids = s.kids /\ t.taken = s.taken /\ t.bad = s.bad \cup {"listing"} /\ t \in States
    BY FailKeeps, KindsOfFaults DEF Good
  <2>6. s.bad \subseteq t.bad /\ "listing" \in t.bad /\ t.bad \subseteq s.bad \cup DeviceFaults
    BY <2>5, KindsOfFaults
  <2>7. /\ Good(o.s) /\ Later(s, o.s) /\ o.s.dev = s.dev /\ o.s.taken = s.taken /\ o.s.bad = t.bad
        /\ o.r = found /\ o.s.kids = Put(s.kids, i, Cached(s, i) \cup found)
    BY <1>3, <2>3, <2>4, <2>5, <2>6
  <2> QED BY <2>3, <2>6, <2>7 DEF nodes
<1>7. CASE \E t \in Fail(s, "thrown") : o = Out(t, Aborted)
  <2>1. PICK t \in Fail(s, "thrown") : o = Out(t, Aborted)
    BY <1>7
  <2>2. t.dev = s.dev /\ t.kids = s.kids /\ t.taken = s.taken /\ t.bad = s.bad \cup {"thrown"} /\ Good(t) /\ Later(s, t)
    BY FailKeeps, KindsOfFaults
  <2>3. Halted(t)
    BY <2>2 DEF Halted
  <2> QED BY <2>1, <2>2, <2>3 DEF Out
<1> QED BY <1>1, <1>4, <1>5, <1>6, <1>7

\* How looking for something changes a state: listings are added, and nothing else.  Without
\* a failure they are those of the device.
Grown(s, t) ==
  /\ t.dev = s.dev /\ t.taken = s.taken /\ s.bad \subseteq t.bad
  /\ DOMAIN s.kids \subseteq DOMAIN t.kids
  /\ \A j \in DOMAIN s.kids : t.kids[j] = s.kids[j]
  /\ \A j \in DOMAIN t.kids \ DOMAIN s.kids : "listing" \notin t.bad => t.kids[j] = Children(t.dev, j)

LEMMA GrownTransitive ==
  ASSUME NEW s, NEW t, NEW u, Grown(s, t), Grown(t, u)
  PROVE  Grown(s, u)
  BY DEF Grown

LEMMA LaterReflexive ==
  ASSUME NEW s, Good(s)
  PROVE  Later(s, s) /\ Grown(s, s)
<1>1. s \in States
  BY DEF Good
<1> QED BY <1>1, SameIsGood DEF Grown

LEMMA HaveChildrenKeeps ==
  ASSUME NEW s, Good(s), NEW i \in Keys, i \in s.taken \cup {Root}, i \in DOMAIN s.dev => s.dev[i].dir,
         NEW o \in HaveChildren(s, i)
  PROVE  /\ Good(o.s) /\ Later(s, o.s) /\ Grown(s, o.s)
         /\ Halted(o.s) \/ i \in DOMAIN o.s.kids \/ ("listing" \in o.s.bad /\ Cached(o.s, i) = {})
<1>1. CASE i \in DOMAIN s.kids
  <2>1. o.s = s
    BY <1>1 DEF HaveChildren, Out
  <2> QED BY <2>1, <1>1, LaterReflexive
<1>2. CASE i \notin DOMAIN s.kids
  <2>1. o \in EvaluateChildren(s, i)
    BY <1>2 DEF HaveChildren
  <2>2. /\ Good(o.s) /\ Later(s, o.s) /\ o.s.dev = s.dev /\ o.s.taken = s.taken
        /\ \/ /\ o.s.kids = s.kids
              /\ \/ o.r = Nil /\ "listing" \in o.s.bad
                 \/ Halted(o.s)
           \/ /\ o.r \subseteq Children(s.dev, i) /\ o.s.kids = Put(s.kids, i, Cached(s, i) \cup o.r)
              /\ o.r = Children(s.dev, i) \/ "listing" \in o.s.bad
    BY <2>1, EvaluateChildrenKeeps
  <2>3. s.bad \subseteq o.s.bad
    BY <2>2 DEF Later
  <2>4. CASE o.s.kids = s.kids
    <3>1. Grown(s, o.s)
      BY <2>2, <2>3, <2>4 DEF Grown
    <3>2. Cached(o.s, i) = {}
      BY <2>4, <1>2 DEF Cached
    <3>3. CASE i \in DOMAIN o.s.kids
      BY <3>3, <2>4, <1>2
    <3>4. CASE Halted(o.s) \/ "listing" \in o.s.bad
      BY <3>1, <3>2, <3>4, <2>2
    <3>5. CASE o.r \subseteq Children(s.dev, i) /\ o.s.kids = Put(s.kids, i, Cached(s, i) \cup o.r)
      BY <3>1, <3>5, <2>2 DEF Put
    <3> QED BY <3>4, <3>5, <2>2
  <2>5. CASE /\ o.r \subseteq Children(s.dev, i) /\ o.s.kids = Put(s.kids, i, Cached(s, i) \cup o.r)
             /\ o.r = Children(s.dev, i) \/ "listing" \in o.s.bad
    <3>1. Cached(s, i) = {}
      BY <1>2 DEF Cached
    <3>2. /\ DOMAIN o.s.kids = DOMAIN s.kids \cup {i} /\ o.s.kids[i] = o.r
          /\ \A j \in DOMAIN s.kids : o.s.kids[j] = s.kids[j]
      BY <1>2, <2>5, <3>1 DEF Put
    <3>3. Grown(s, o.s)
      BY <2>2, <2>3, <2>5, <3>2 DEF Grown
    <3> QED BY <2>2, <3>2, <3>3
  <2> QED BY <2>2, <2>4, <2>5
<1> QED BY <1>1, <1>2

\* The oldest of some nodes is one of them.
LEMMA OldestIsOne ==
  ASSUME NEW S, S \subseteq Nodes
  PROVE  /\ S = {} => Oldest(S) = Nil
         /\ S # {} => Oldest(S) \in S
<1> SUFFICES ASSUME S # {} PROVE Oldest(S) \in S
  BY DEF Oldest
<1>1. PICK T : T = {n.id : n \in S}
  OBVIOUS
<1>2. \A n \in S : n.id \in Nat
  BY BoundsAssumption DEF Nodes, Ids
<1>3. T \subseteq Nat /\ T # {}
  BY <1>1, <1>2
<1>4. PICK m \in T : \A n \in T : ~(n < m)
  BY <1>3, Least
<1>5. PICK n \in S : n.id = m
  BY <1>1, <1>4
<1>6. \A x \in S : n.id <= x.id
  <2> TAKE x \in S
  <2>1. x.id \in T /\ x.id \in Nat /\ n.id \in Nat
    BY <1>1, <1>2
  <2> QED BY <2>1, <1>4, <1>5
<1> QED BY <1>6 DEF Oldest

\* What looking up a name in a directory finds.
Finds(t, node, name, r) ==
  \/ r = Nil /\ (~node.dir \/ "listing" \in t.bad)
  \/ /\ node.dir /\ node.id \in DOMAIN t.kids
     /\ r = Oldest({n \in t.kids[node.id] : n.name = name})

LEMMA GetContentByNameKeeps ==
  ASSUME NEW s, Good(s), NEW node, OnHand(s, node), NEW name, NEW o \in GetContentByName(s, node, name)
  PROVE  /\ Good(o.s) /\ Later(s, o.s) /\ Grown(s, o.s)
         /\ Halted(o.s) \/ Finds(o.s, node, name, o.r)
<1>1. CASE ~node.dir
  <2>1. o = Out(s, Nil)
    BY <1>1 DEF GetContentByName
  <2> QED BY <2>1, <1>1, LaterReflexive DEF Out, Finds
<1>2. CASE node.dir
  <2>1. PICK x \in HaveChildren(s, node.id) :
          o \in IF Halted(x.s) THEN {Out(x.s, Aborted)}
                ELSE {Out(x.s, Oldest({n \in Cached(x.s, node.id) : n.name = name}))}
    BY <1>2 DEF GetContentByName, Then
  <2>2. node.id \in Keys /\ node.id \in s.taken \cup {Root} /\ (node.id \in DOMAIN s.dev => s.dev[node.id].dir)
    BY <1>2 DEF OnHand
  <2>3. /\ Good(x.s) /\ Later(s, x.s) /\ Grown(s, x.s)
        /\ Halted(x.s) \/ node.id \in DOMAIN x.s.kids \/ ("listing" \in x.s.bad /\ Cached(x.s, node.id) = {})
    BY <2>2, HaveChildrenKeeps
  <2>4. o.s = x.s
    BY <2>1 DEF Out
  <2>5. CASE Halted(x.s)
    BY <2>3, <2>4, <2>5
  <2>6. CASE ~Halted(x.s)
    <3>1. o.r = Oldest({n \in Cached(x.s, node.id) : n.name = name})
      BY <2>1, <2>6 DEF Out
    <3>2. CASE node.id \in DOMAIN x.s.kids
      BY <1>2, <2>3, <2>4, <3>1, <3>2 DEF Finds, Cached
    <3>3. CASE "listing" \in x.s.bad /\ Cached(x.s, node.id) = {}
      <4>1. {n \in Cached(x.s, node.id) : n.name = name} = {}
        BY <3>3
      <4>2. o.r = Nil
        BY <3>1, <4>1 DEF Oldest
      <4> QED BY <4>2, <3>3, <2>3, <2>4 DEF Finds
    <3> QED BY <2>3, <2>6, <3>2, <3>3
  <2> QED BY <2>5, <2>6
<1> QED BY <1>1, <1>2

LEMMA NilIsNoNode == Nil \notin Nodes /\ Nil # RootNode
<1>1. Nodes \subseteq [id : 0 .. MaxId, name : AllNames \cup {Nil}, dir : BOOLEAN]
  BY BoundsAssumption DEF Nodes, Ids
<1>2. RootNode \in [id : 0 .. MaxId, name : AllNames \cup {Nil}, dir : BOOLEAN]
  BY BoundsAssumption DEF RootNode, Root
<1> QED BY <1>1, <1>2, NilAssumption

\* The first l names of the path lead to node through the listings k, each to the oldest
\* node with its name.
Trail(k, path, l, f) ==
  /\ f[0] = RootNode
  /\ \A i \in 1 .. l : /\ f[i - 1].dir /\ f[i - 1].id \in DOMAIN k
                       /\ f[i] \in k[f[i - 1].id] /\ f[i].name = path[i]
                       /\ f[i] = Oldest({n \in k[f[i - 1].id] : n.name = path[i]})
Reaches(k, path, l, node) == \E f : Trail(k, path, l, f) /\ f[l] = node

\* Some name of the path is found nowhere.
Missing(k, path, l) ==
  \E m \in 1 .. l : \E node :
    /\ Reaches(k, path, m - 1, node)
    /\ \/ ~node.dir
       \/ node.id \in DOMAIN k /\ {n \in k[node.id] : n.name = path[m]} = {}

LEMMA TrailGrows ==
  ASSUME NEW s, NEW t, Grown(s, t), NEW path, NEW l \in Nat, NEW f, Trail(s.kids, path, l, f)
  PROVE  Trail(t.kids, path, l, f)
<1> SUFFICES ASSUME NEW i \in 1 .. l
             PROVE  /\ f[i - 1].dir /\ f[i - 1].id \in DOMAIN t.kids
                    /\ f[i] \in t.kids[f[i - 1].id] /\ f[i].name = path[i]
                    /\ f[i] = Oldest({n \in t.kids[f[i - 1].id] : n.name = path[i]})
  BY DEF Trail
<1>1. /\ f[i - 1].dir /\ f[i - 1].id \in DOMAIN s.kids
      /\ f[i] \in s.kids[f[i - 1].id] /\ f[i].name = path[i]
      /\ f[i] = Oldest({n \in s.kids[f[i - 1].id] : n.name = path[i]})
  BY DEF Trail
<1>2. f[i - 1].id \in DOMAIN t.kids /\ t.kids[f[i - 1].id] = s.kids[f[i - 1].id]
  BY <1>1 DEF Grown
<1> QED BY <1>1, <1>2

LEMMA ReachesGrows ==
  ASSUME NEW s, NEW t, Grown(s, t), NEW path, NEW l \in Nat, NEW node, Reaches(s.kids, path, l, node)
  PROVE  Reaches(t.kids, path, l, node)
<1>1. PICK f : Trail(s.kids, path, l, f) /\ f[l] = node
  BY DEF Reaches
<1>2. Trail(t.kids, path, l, f)
  BY <1>1, TrailGrows
<1> QED BY <1>1, <1>2 DEF Reaches

LEMMA MissingGrows ==
  ASSUME NEW s, NEW t, Grown(s, t), NEW path, NEW l \in Nat, NEW h \in l .. l + 1, Missing(s.kids, path, l)
  PROVE  Missing(t.kids, path, h)
<1>0. PICK m \in 1 .. l : \E node :
        /\ Reaches(s.kids, path, m - 1, node)
        /\ \/ ~node.dir
           \/ node.id \in DOMAIN s.kids /\ {n \in s.kids[node.id] : n.name = path[m]} = {}
  BY DEF Missing
<1>1. PICK node :
        /\ Reaches(s.kids, path, m - 1, node)
        /\ \/ ~node.dir
           \/ node.id \in DOMAIN s.kids /\ {n \in s.kids[node.id] : n.name = path[m]} = {}
  BY <1>0
<1>2. m - 1 \in Nat /\ m \in 1 .. h
  OBVIOUS
<1>3. Reaches(t.kids, path, m - 1, node)
  BY <1>1, <1>2, ReachesGrows
<1>4. node.id \in DOMAIN s.kids => node.id \in DOMAIN t.kids /\ t.kids[node.id] = s.kids[node.id]
  BY DEF Grown
<1> QED BY <1>1, <1>2, <1>3, <1>4 DEF Missing

\* The directory before a node on its path.
Before(k, path, l, node, q) ==
  /\ Reaches(k, path, l - 1, q) /\ q.dir /\ q.id \in DOMAIN k
  /\ node \in k[q.id] /\ node.name = path[l]
  /\ node = Oldest({n \in k[q.id] : n.name = path[l]})

\* A node that is reached is the root or in the listing of the directory before it.
LEMMA ReachedStep ==
  ASSUME NEW k, NEW path, NEW l \in Nat \ {0}, NEW node, Reaches(k, path, l, node)
  PROVE  \E q : Before(k, path, l, node, q)
<1>1. PICK f : Trail(k, path, l, f) /\ f[l] = node
  BY DEF Reaches
<1>2. l \in 1 .. l /\ \A i \in 1 .. l - 1 : i \in 1 .. l
  OBVIOUS
<1>3. Trail(k, path, l - 1, f)
  BY <1>1, <1>2 DEF Trail
<1>4. Reaches(k, path, l - 1, f[l - 1])
  BY <1>3 DEF Reaches
<1>5. /\ f[l - 1].dir /\ f[l - 1].id \in DOMAIN k
      /\ f[l] \in k[f[l - 1].id] /\ f[l].name = path[l]
      /\ f[l] = Oldest({n \in k[f[l - 1].id] : n.name = path[l]})
  BY <1>1, <1>2 DEF Trail
<1> QED BY <1>1, <1>4, <1>5 DEF Before

LEMMA ReachedNode ==
  ASSUME NEW s, Good(s), NEW path, NEW l \in Nat, NEW node, Reaches(s.kids, path, l, node)
  PROVE  /\ OnHand(s, node)
         /\ \/ l = 0 /\ node = RootNode
            \/ /\ l # 0 /\ node \in Nodes
               /\ \E i \in DOMAIN s.kids : node \in s.kids[i]
<1>0. s.kids \in Caches /\ s.dev \in Devices /\ s.taken \subseteq Keys
  BY DEF Good, States
<1>1. CASE l = 0
  <2>1. node = RootNode
    BY <1>1 DEF Reaches, Trail
  <2>2. Root \notin DOMAIN s.dev
    BY <1>0, DevicesType DEF Ids, Root
  <2>3. node.id = Root /\ node.dir
    BY <2>1 DEF RootNode
  <2>4. OnHand(s, node)
    BY <2>2, <2>3 DEF OnHand, Keys, RootNode
  <2> QED BY <1>1, <2>1, <2>4
<1>2. CASE l # 0
  <2>1. PICK q : q.id \in DOMAIN s.kids /\ node \in s.kids[q.id]
    BY <1>2, ReachedStep DEF Before
  <2>2. node \in Nodes
    BY <1>0, <2>1, CachesType
  <2>3. node.id \in s.taken
    BY <2>1 DEF Good, Held, Named
  <2>4. node.id \in DOMAIN s.dev => s.dev[node.id].dir = node.dir
    BY <2>1 DEF Good, Sound, Agree
  <2>5. OnHand(s, node)
    BY <2>2, <2>3, <2>4 DEF OnHand, Nodes, Keys
  <2> QED BY <1>2, <2>1, <2>2, <2>5
<1> QED BY <1>1, <1>2

\* What may come of looking up l names of a path: the node they lead to; Nil, and then one of
\* the names is missing unless a listing failed; or the worker is gone.
Walked(s, path, l, o) ==
  /\ Good(o.s) /\ Later(s, o.s) /\ Grown(s, o.s)
  /\ \/ Halted(o.s)
     \/ o.r # Nil /\ Reaches(o.s.kids, path, l, o.r)
     \/ o.r = Nil /\ ("listing" \in o.s.bad \/ Missing(o.s.kids, path, l))

LEMMA WalkStart ==
  ASSUME NEW s, Good(s), NEW path
  PROVE  Walked(s, path, 0, Out(s, RootNode))
<1>1. Trail(s.kids, path, 0, [i \in 0 .. 0 |-> RootNode])
  BY DEF Trail
<1>2. Reaches(s.kids, path, 0, RootNode)
  BY <1>1 DEF Reaches
<1> QED BY <1>2, LaterReflexive, NilIsNoNode DEF Walked, Out

LEMMA WalkStep ==
  ASSUME NEW s, NEW path, NEW l \in Nat \ {0}, NEW o, Walked(s, path, l - 1, o), ~Halted(o.s), o.r # Nil,
         NEW x \in GetContentByName(o.s, o.r, path[l])
  PROVE  Walked(s, path, l, x)
<1>1. Good(o.s) /\ Later(s, o.s) /\ Grown(s, o.s) /\ Reaches(o.s.kids, path, l - 1, o.r)
  BY DEF Walked
<1>0. l - 1 \in Nat
  OBVIOUS
<1>2. OnHand(o.s, o.r)
  BY <1>0, <1>1, ReachedNode
<1>3. /\ Good(x.s) /\ Later(o.s, x.s) /\ Grown(o.s, x.s)
      /\ Halted(x.s) \/ Finds(x.s, o.r, path[l], x.r)
  BY <1>1, <1>2, GetContentByNameKeeps
<1>4. Later(s, x.s) /\ Grown(s, x.s)
  BY <1>1, <1>3, LaterTransitive, GrownTransitive
<1>5. Reaches(x.s.kids, path, l - 1, o.r)
  BY <1>0, <1>1, <1>3, ReachesGrows
<1>6. CASE x.r = Nil /\ (~o.r.dir \/ "listing" \in x.s.bad)
  <2>1. ~o.r.dir => Missing(x.s.kids, path, l)
    BY <1>5 DEF Missing
  <2> QED BY <2>1, <1>3, <1>4, <1>6 DEF Walked
<1>7. CASE /\ o.r.dir /\ o.r.id \in DOMAIN x.s.kids
           /\ x.r = Oldest({n \in x.s.kids[o.r.id] : n.name = path[l]})
  <2> DEFINE S == {n \in x.s.kids[o.r.id] : n.name = path[l]}
  <2>1. x.s.kids \in Caches
    BY <1>3 DEF Good, States
  <2>2. S \subseteq Nodes
    BY <2>1, <1>7, CachesType
  <2>3. CASE S = {}
    <3>1. x.r = Nil
      BY <1>7, <2>3 DEF Oldest
    <3>2. Missing(x.s.kids, path, l)
      BY <1>5, <1>7, <2>3 DEF Missing
    <3> QED BY <3>1, <3>2, <1>3, <1>4 DEF Walked
  <2>4. CASE S # {}
    <3>1. x.r \in S
      <4> HIDE DEF S
      <4> QED BY <2>2, <2>4, <1>7, OldestIsOne DEF S
    <3>2. x.r # Nil
      BY <3>1, <2>2, NilIsNoNode
    <3>3. PICK f : Trail(x.s.kids, path, l - 1, f) /\ f[l - 1] = o.r
      BY <1>5 DEF Reaches
    <3> DEFINE g == [i \in 0 .. l |-> IF i = l THEN x.r ELSE f[i]]
    <3>4. \A i \in 0 .. l - 1 : g[i] = f[i]
      OBVIOUS
    <3>5. g[l] = x.r
      OBVIOUS
    <3> HIDE DEF g
    <3>6. Trail(x.s.kids, path, l, g)
      <4>1. g[0] = RootNode
        BY <3>3, <3>4 DEF Trail
      <4>2. ASSUME NEW i \in 1 .. l
            PROVE  /\ g[i - 1].dir /\ g[i - 1].id \in DOMAIN x.s.kids
                   /\ g[i] \in x.s.kids[g[i - 1].id] /\ g[i].name = path[i]
                   /\ g[i] = Oldest({n \in x.s.kids[g[i - 1].id] : n.name = path[i]})
        <5>1. CASE i = l
          <6>1. g[i - 1] = o.r
            BY <5>1, <3>3, <3>4
          <6> QED BY <6>1, <5>1, <3>1, <3>5, <1>7
        <5>2. CASE i # l
          <6>1. i \in 1 .. l - 1 /\ g[i] = f[i] /\ g[i - 1] = f[i - 1]
            BY <5>2, <3>4
          <6> QED BY <6>1, <3>3 DEF Trail
        <5> QED BY <5>1, <5>2
      <4> QED BY <4>1, <4>2 DEF Trail
    <3>7. Reaches(x.s.kids, path, l, x.r)
      BY <3>5, <3>6 DEF Reaches
    <3> QED BY <3>2, <3>7, <1>3, <1>4 DEF Walked
  <2> QED BY <2>3, <2>4
<1>8. CASE Halted(x.s)
  BY <1>3, <1>4, <1>8 DEF Walked
<1> QED BY <1>3, <1>6, <1>7, <1>8 DEF Finds

LEMMA WalkOn ==
  ASSUME NEW s, NEW path, NEW l \in Nat \ {0}, NEW o, Walked(s, path, l - 1, o),
         NEW x \in IF Halted(o.s) THEN {Out(o.s, Aborted)}
                   ELSE IF o.r = Nil THEN {Out(o.s, Nil)} ELSE GetContentByName(o.s, o.r, path[l])
  PROVE  Walked(s, path, l, x)
<1>1. CASE Halted(o.s)
  <2>1. x.s = o.s
    BY <1>1 DEF Out
  <2> QED BY <1>1, <2>1 DEF Walked
<1>2. CASE ~Halted(o.s) /\ o.r = Nil
  <2>1. x.s = o.s /\ x.r = Nil
    BY <1>2 DEF Out
  <2>2. Good(o.s) /\ Later(s, o.s) /\ Grown(s, o.s) /\ ("listing" \in o.s.bad \/ Missing(o.s.kids, path, l - 1))
    BY <1>2 DEF Walked
  <2>3. Missing(o.s.kids, path, l - 1) => Missing(o.s.kids, path, l)
    <3>1. Grown(o.s, o.s) /\ l - 1 \in Nat /\ l \in l - 1 .. (l - 1) + 1
      BY <2>2, LaterReflexive
    <3> QED BY <3>1, MissingGrows
  <2> QED BY <2>1, <2>2, <2>3 DEF Walked
<1>3. CASE ~Halted(o.s) /\ o.r # Nil
  BY <1>3, WalkStep
<1> QED BY <1>1, <1>2, <1>3

LEMMA FilePathToNodeKeeps ==
  ASSUME NEW s, Good(s), NEW path, Len(path) \in Nat, NEW o \in FilePathToNode(s, path)
  PROVE  Walked(s, path, Len(path), o)
<1> DEFINE N == Len(path)
           A == {Out(s, RootNode)}
           F(outs, n) ==
             UNION {IF Halted(x.s) THEN {Out(x.s, Aborted)}
                    ELSE IF x.r = Nil THEN {Out(x.s, Nil)} ELSE GetContentByName(x.s, x.r, path[n]) : x \in outs}
           W == CHOOSE W : W = [n \in 0 .. N |-> IF n = 0 THEN A ELSE F(W[n - 1], n)]
<1>0. N \in Nat
  OBVIOUS
<1>2. o \in W[N]
  BY DEF FilePathToNode, Then
<1>3. \A x \in A : Walked(s, path, 0, x)
  BY WalkStart
<1>4. ASSUME NEW n \in 1 .. N, NEW outs, \A x \in outs : Walked(s, path, n - 1, x)
      PROVE  \A x \in F(outs, n) : Walked(s, path, n, x)
  BY <1>4, WalkOn
<1> HIDE DEF F, A, N
<1>1. \E f : f = [n \in 0 .. N |-> IF n = 0 THEN A ELSE F(f[n - 1], n)]
  <2> HIDE DEF F
  <2> DEFINE Bad == {k \in 0 .. N : ~ \E f : f = [n \in 0 .. k |-> IF n = 0 THEN A ELSE F(f[n - 1], n)]}
  <2>1. SUFFICES ASSUME Bad # {} PROVE FALSE
    BY <1>0
  <2>2. Bad \subseteq Nat
    BY <1>0
  <2>3. PICK m \in Bad : \A n \in Bad : ~(n < m)
    <3> HIDE DEF Bad
    <3> QED BY <2>1, <2>2, Least
  <2>4. CASE m = 0
    <3>1. [n \in 0 .. 0 |-> A] = [n \in 0 .. 0 |-> IF n = 0 THEN A ELSE F([i \in 0 .. 0 |-> A][n - 1], n)]
      OBVIOUS
    <3> QED BY <3>1, <2>3, <2>4
  <2>5. CASE m # 0
    <3>0. m \in 0 .. N /\ m - 1 \in 0 .. N /\ m - 1 < m
      BY <2>3, <2>5, <1>0
    <3>1. m - 1 \in 0 .. N /\ m - 1 \notin Bad
      BY <3>0, <2>3
    <3>2. PICK f : f = [n \in 0 .. m - 1 |-> IF n = 0 THEN A ELSE F(f[n - 1], n)]
      BY <3>1
    <3> DEFINE g == [n \in 0 .. m |-> IF n = m THEN F(f[m - 1], m) ELSE f[n]]
    <3>3. \A n \in 0 .. m - 1 : g[n] = f[n]
      BY <3>1, <1>0
    <3>4. ASSUME NEW n \in 0 .. m
          PROVE  g[n] = IF n = 0 THEN A ELSE F(g[n - 1], n)
      <4>1. CASE n = m
        BY <4>1, <3>1, <3>3, <2>5
      <4>2. CASE n # m
        <5>1. n \in 0 .. m - 1 /\ (n # 0 => n - 1 \in 0 .. m - 1)
          BY <4>2, <3>1
        <5>2. f[n] = IF n = 0 THEN A ELSE F(f[n - 1], n)
          BY <5>1, <3>2
        <5> QED BY <5>1, <5>2, <3>3
      <4> QED BY <4>1, <4>2
    <3>5. g = [n \in 0 .. m |-> g[n]]
      OBVIOUS
    <3> HIDE DEF g
    <3>6. g = [n \in 0 .. m |-> IF n = 0 THEN A ELSE F(g[n - 1], n)]
      BY <3>4, <3>5
    <3> QED BY <3>6, <2>3
  <2> QED BY <2>4, <2>5
<1>5. W = [n \in 0 .. N |-> IF n = 0 THEN A ELSE F(W[n - 1], n)]
  BY <1>1
<1> HIDE DEF W
<1> DEFINE C == [n \in 0 .. N |-> IF \A x \in W[n] : Walked(s, path, n, x) THEN {W[n]} ELSE {}]
<1>6. W[0] \in C[0]
  BY <1>0, <1>3, <1>5
<1>7. \A n \in 1 .. N : W[n - 1] \in C[n - 1] => W[n] \in C[n]
  <2> SUFFICES ASSUME NEW n \in 1 .. N, W[n - 1] \in C[n - 1]
               PROVE  W[n] \in C[n]
    OBVIOUS
  <2>1. n - 1 \in 0 .. N /\ n \in 0 .. N /\ n # 0
    BY <1>0
  <2>2. \A x \in W[n - 1] : Walked(s, path, n - 1, x)
    BY <2>1
  <2>3. W[n] = F(W[n - 1], n)
    BY <1>5, <2>1
  <2>4. \A x \in W[n] : Walked(s, path, n, x)
    BY <1>4, <2>2, <2>3
  <2> QED BY <2>1, <2>4
<1>8. \A n \in 0 .. N : W[n] \in C[n]
  <2> HIDE DEF C
  <2> QED BY <1>0, <1>6, <1>7, Climbing
<1>9. \A x \in W[N] : Walked(s, path, N, x)
  <2>1. N \in 0 .. N
    BY <1>0
  <2>2. C[N] = IF \A x \in W[N] : Walked(s, path, N, x) THEN {W[N]} ELSE {}
    BY <2>1
  <2>3. W[N] \in C[N]
    BY <2>1, <1>8
  <2> HIDE DEF C
  <2> QED BY <2>2, <2>3
<1> QED BY <1>2, <1>9 DEF N

\* What is on hand stays on hand.
LEMMA OnHandLater ==
  ASSUME NEW s, NEW t, Good(s), Good(t), Later(s, t), NEW n, OnHand(s, n)
  PROVE  OnHand(t, n)
<1>1. Root \notin DOMAIN t.dev
  <2>1. t.dev \in Devices
    BY DEF Good, States
  <2> QED BY <2>1, DevicesType DEF Ids, Root
<1>2. s.taken \subseteq t.taken /\ \A i \in DOMAIN t.dev : i \in s.taken => i \in DOMAIN s.dev /\ t.dev[i] = s.dev[i]
  BY DEF Later
<1> QED BY <1>1, <1>2 DEF OnHand

-----------------------------------------------------------------------------
(* The calls of the device keep what holds of it.                          *)

LEMMA DeleteSubCacheKeeps ==
  ASSUME NEW s, Good(s), NEW i, NEW t, t = DeleteSubCache(s, i)
  PROVE  /\ Good(t) /\ Later(s, t)
         /\ t.dev = s.dev /\ t.bad = s.bad /\ t.taken = s.taken /\ t.left = s.left
         /\ DOMAIN t.kids = DOMAIN s.kids \ Below(s.kids, i)
         /\ \A j \in DOMAIN t.kids : t.kids[j] = s.kids[j]
<1>0. PICK k : k = Drop(s.kids, Below(s.kids, i))
  OBVIOUS
<1>1. PICK K \in SUBSET Keys : s.kids \in [K -> SUBSET Nodes]
  BY DEF Good, States, Caches
<1>2. DOMAIN k = DOMAIN s.kids \ Below(s.kids, i) /\ \A j \in DOMAIN k : k[j] = s.kids[j]
  BY <1>0 DEF Drop
<1>3. k \in Caches
  <2>1. k \in [K \ Below(s.kids, i) -> SUBSET Nodes]
    BY <1>0, <1>1 DEF Drop
  <2> QED BY <2>1 DEF Caches
<1>4. s \in States /\ t = [s EXCEPT !.kids = k]
  BY <1>0 DEF DeleteSubCache, Good
<1>5. t \in States /\ t.dev = s.dev /\ t.bad = s.bad /\ t.taken = s.taken /\ t.left = s.left /\ t.kids = k
  BY <1>3, <1>4 DEF States
<1>6. Sound(s.dev, s.kids) /\ Held(s)
  BY DEF Good
<1>7. Sound(s.dev, k)
  <2>1. Agree(s.dev, k)
    BY <1>2, <1>6 DEF Sound, Agree
  <2>2. Unique(k)
    BY <1>2, <1>6 DEF Sound, Unique
  <2>3. ListsDirs(s.dev, k)
    BY <1>2, <1>6 DEF Sound, ListsDirs
  <2>4. NoCycle(s.dev, k)
    <3> SUFFICES ASSUME NEW S \in SUBSET Ids, S # {}
                 PROVE  \E x \in S : /\ x \in DOMAIN s.dev => s.dev[x].parent \notin S
                                     /\ \A j \in DOMAIN k \cap S : \A n \in k[j] : n.id # x
      BY DEF NoCycle
    <3>1. PICK x \in S : /\ x \in DOMAIN s.dev => s.dev[x].parent \notin S
                         /\ \A j \in DOMAIN s.kids \cap S : \A n \in s.kids[j] : n.id # x
      BY <1>6 DEF Sound, NoCycle
    <3> QED BY <3>1, <1>2
  <2> QED BY <2>1, <2>2, <2>3, <2>4, <1>6 DEF Sound
<1>8. Held(t)
  BY <1>2, <1>5, <1>6 DEF Held, Named
<1>9. Later(s, t)
  <2>1. \A j \in DOMAIN t.kids : \A n \in t.kids[j] : j \in DOMAIN s.kids /\ n \in s.kids[j]
    BY <1>2, <1>5
  <2> QED BY <2>1, <1>5 DEF Later
<1> QED BY <1>2, <1>5, <1>7, <1>8, <1>9 DEF Good

\* An object is made, or nothing happens.
LEMMA CreateObjectKeeps ==
  ASSUME NEW s, Good(s), NEW node, OnHand(s, node), NEW object \in Objects, object.parent = node.id,
         NEW o \in CreateObject(s, node, object)
  PROVE  /\ Good(o.s) /\ Later(s, o.s) /\ o.s.kids = s.kids
         /\ \/ o.s.dev = s.dev /\ o.r = FALSE
            \/ /\ o.r = TRUE /\ o.s.bad = s.bad
               /\ \E i \in Ids \ s.taken : o.s.dev = Put(s.dev, i, object)
<1>0. s \in States /\ Sound(s.dev, s.kids) /\ Held(s)
  BY DEF Good
<1>1. CASE ~node.dir \/ (node.id # Root /\ node.id \notin DOMAIN s.dev)
  <2>1. o.s = s /\ o.r = FALSE
    BY <1>1 DEF CreateObject, Out
  <2> QED BY <2>1, LaterReflexive
<1>2. CASE node.dir /\ (node.id # Root => node.id \in DOMAIN s.dev) /\ FreeIds(s) = {}
  <2>1. o.s = [s EXCEPT !.bad = @ \cup {"full"}] /\ o.r = FALSE
    BY <1>2 DEF CreateObject, Out
  <2>2. o.s \in States /\ o.s.dev = s.dev /\ o.s.kids = s.kids /\ o.s.taken = s.taken /\ o.s.bad = s.bad \cup {"full"}
    BY <2>1, <1>0 DEF States, FaultKinds
  <2>3. s.bad \subseteq o.s.bad /\ o.s.bad \subseteq s.bad \cup DeviceFaults
    BY <2>2, KindsOfFaults
  <2>4. Good(o.s) /\ Later(s, o.s)
    BY <2>2, <2>3, SameIsGood
  <2> QED BY <2>1, <2>2, <2>4
<1>3. CASE node.dir /\ (node.id # Root => node.id \in DOMAIN s.dev) /\ FreeIds(s) # {}
  <2>1. PICK i : i = CHOOSE g \in FreeIds(s) : \A j \in FreeIds(s) : g <= j
    OBVIOUS
  <2>2. FreeIds(s) \subseteq Nat
    BY BoundsAssumption DEF FreeIds, Ids
  <2>3. i \in FreeIds(s)
    <3>1. PICK m \in FreeIds(s) : \A n \in FreeIds(s) : ~(n < m)
      BY <2>2, <1>3, Least
    <3>2. \A n \in FreeIds(s) : m <= n
      BY <2>2, <3>1
    <3> QED BY <3>2, <2>1
  <2>4. \/ o = Out([s EXCEPT !.dev = Put(@, i, object), !.taken = @ \cup {i}], TRUE)
        \/ \E t \in Fail(s, "create") : o = Out(t, FALSE)
    <3>1. o \in {Out([s EXCEPT !.dev = Put(@, i, object), !.taken = @ \cup {i}], TRUE)}
            \cup {Out(t, FALSE) : t \in Fail(s, "create")}
      BY <1>3, <2>1 DEF CreateObject
    <3> QED BY <3>1
  <2>5. CASE \E t \in Fail(s, "create") : o = Out(t, FALSE)
    <3>1. PICK t \in Fail(s, "create") : o = Out(t, FALSE)
      BY <2>5
    <3>2. o.s = t /\ o.r = FALSE
      BY <3>1 DEF Out
    <3> QED BY <3>2, FailKeeps, KindsOfFaults
  <2>6. CASE o = Out([s EXCEPT !.dev = Put(@, i, object), !.taken = @ \cup {i}], TRUE)
    <3>0. PICK d : d = Put(s.dev, i, object)
      OBVIOUS
    <3>1. o.s = [s EXCEPT !.dev = d, !.taken = @ \cup {i}] /\ o.r = TRUE
      BY <2>6, <3>0 DEF Out
    <3>2. PICK D \in SUBSET Ids : s.dev \in [D -> Objects]
      BY <1>0 DEF States, Devices
    <3>3. i \in Ids /\ i \notin s.taken /\ i # Root
      BY <2>3 DEF FreeIds, Ids, Root
    <3>4. d \in Devices /\ DOMAIN d = DOMAIN s.dev \cup {i} /\ d[i] = object /\ \A j \in DOMAIN s.dev : j # i => d[j] = s.dev[j]
      <4>1. d \in [D \cup {i} -> Objects] /\ D \cup {i} \in SUBSET Ids
        BY <3>0, <3>2, <3>3 DEF Put
      <4>2. d \in Devices
        BY <4>1 DEF Devices
      <4> QED BY <4>2, <3>0 DEF Put
    <3>5. /\ o.s \in States /\ o.s.dev = d /\ o.s.kids = s.kids /\ o.s.bad = s.bad /\ o.s.taken = s.taken \cup {i}
      <4>1. PICK T : T = s.taken \cup {i}
        OBVIOUS
      <4>2. T \in SUBSET Keys
        BY <4>1, <3>3, <1>0 DEF States, Keys
      <4>3. o.s = [s EXCEPT !.dev = d, !.taken = T]
        BY <4>1, <3>1
      <4> QED BY <4>1, <4>2, <4>3, <3>4, <1>0 DEF States
    <3>6. i \notin DOMAIN s.dev /\ i \notin DOMAIN s.kids /\ \A j \in DOMAIN s.kids : \A n \in s.kids[j] : n.id # i
      BY <3>3, <1>0 DEF Held, Named
    <3>7. Parented(s.dev) /\ Agree(s.dev, s.kids) /\ Unique(s.kids) /\ ListsDirs(s.dev, s.kids) /\ NoCycle(s.dev, s.kids)
      BY <1>0 DEF Sound
    <3>8. node.id # i /\ node.id \in {Root} \cup {j \in DOMAIN s.dev : s.dev[j].dir}
      BY <1>3, <3>3, <3>6 DEF OnHand
    <3>9. Parented(d)
      BY <3>4, <3>6, <3>7, <3>8 DEF Parented
    <3>10. Agree(d, s.kids)
      BY <3>4, <3>6, <3>7 DEF Agree
    <3>11. ListsDirs(d, s.kids)
      BY <3>4, <3>6, <3>7 DEF ListsDirs
    <3>12. NoCycle(d, s.kids)
      <4> SUFFICES ASSUME NEW S \in SUBSET Ids, S # {}
                   PROVE  \E x \in S : /\ x \in DOMAIN d => d[x].parent \notin S
                                       /\ \A j \in DOMAIN s.kids \cap S : \A n \in s.kids[j] : n.id # x
        BY DEF NoCycle
      <4>1. CASE S \ {i} = {}
        <5>1. i \in S /\ d[i].parent \notin S
          BY <4>1, <3>4, <3>8
        <5> QED BY <5>1, <3>6
      <4>2. CASE S \ {i} # {}
        <5>0. S \ {i} \in SUBSET Ids
          OBVIOUS
        <5>1. PICK x \in S \ {i} : /\ x \in DOMAIN s.dev => s.dev[x].parent \notin S \ {i}
                             /\ \A j \in DOMAIN s.kids \cap (S \ {i}) : \A n \in s.kids[j] : n.id # x
          BY <3>7, <4>2, <5>0, Zenon DEF NoCycle
        <5>2. x \in DOMAIN d => x \in DOMAIN s.dev /\ d[x] = s.dev[x]
          BY <5>1, <3>4
        <5>3. x \in DOMAIN s.dev => s.dev[x].parent # i
          BY <3>7, <3>6, <3>3 DEF Parented
        <5>4. \A j \in DOMAIN s.kids \cap S : j \in S \ {i}
          BY <3>6
        <5> QED BY <5>1, <5>2, <5>3, <5>4
      <4> QED BY <4>1, <4>2
    <3>13. Sound(o.s.dev, o.s.kids)
      BY <3>5, <3>7, <3>9, <3>10, <3>11, <3>12 DEF Sound
    <3>14. Held(o.s)
      BY <3>4, <3>5, <1>0 DEF Held
    <3>15. Later(s, o.s)
      <4>1. \A j \in DOMAIN o.s.dev : j \in s.taken => j \in DOMAIN s.dev /\ o.s.dev[j] = s.dev[j]
        BY <3>3, <3>4, <3>5
      <4> QED BY <4>1, <3>5 DEF Later
    <3> QED BY <3>0, <3>1, <3>3, <3>5, <3>13, <3>14, <3>15 DEF Good
  <2> QED BY <2>4, <2>5, <2>6
<1> QED BY <1>1, <1>2, <1>3

LEMMA ContentToStreamKeeps ==
  ASSUME NEW s, Good(s), NEW node, NEW o \in ContentToStream(s, node)
  PROVE  /\ Good(o.s) /\ Later(s, o.s) /\ o.s.kids = s.kids /\ o.s.dev = s.dev /\ o.s.taken = s.taken
         /\ \/ o.r = Nil
            \/ o.r = Torn /\ "read" \in o.s.bad
            \/ node.id \in DOMAIN s.dev /\ o.r = s.dev[node.id].content
<1>1. CASE node.dir \/ node.id \notin DOMAIN s.dev
  <2>1. o.s = s /\ o.r = Nil
    BY <1>1 DEF ContentToStream, Out
  <2> QED BY <2>1, LaterReflexive
<1>2. CASE ~(node.dir \/ node.id \notin DOMAIN s.dev)
  <2>1. o \in {Out(s, s.dev[node.id].content)}
         \cup {Out(t, r) : t \in Fail(s, "read"), r \in {Nil, Torn}}
    BY <1>2 DEF ContentToStream
  <2>2. CASE o = Out(s, s.dev[node.id].content)
    <3>1. o.s = s /\ o.r = s.dev[node.id].content
      BY <2>2 DEF Out
    <3> QED BY <3>1, <1>2, LaterReflexive
  <2>3. CASE o \in {Out(t, r) : t \in Fail(s, "read"), r \in {Nil, Torn}}
    <3>1. PICK t \in Fail(s, "read"), r \in {Nil, Torn} : o = Out(t, r)
      BY <2>3
    <3>2. o.s = t /\ o.r \in {Nil, Torn}
      BY <3>1 DEF Out
    <3>3. t.dev = s.dev /\ t.kids = s.kids /\ t.taken = s.taken
         /\ t.bad = s.bad \cup {"read"} /\ Good(t) /\ Later(s, t)
      BY FailKeeps, KindsOfFaults
    <3> QED BY <3>2, <3>3
  <2> QED BY <2>1, <2>2, <2>3
<1> QED BY <1>1, <1>2

\* An object without children goes, or nothing happens.
LEMMA DeleteObjectKeeps ==
  ASSUME NEW s, Good(s), NEW i, NEW o \in DeleteObject(s, i)
  PROVE  /\ Good(o.s) /\ Later(s, o.s) /\ o.s.kids = s.kids /\ o.s.taken = s.taken /\ (o.r = TRUE \/ o.r = FALSE)
         /\ \/ o.s.dev = s.dev
            \/ /\ i \in DOMAIN s.dev /\ Children(s.dev, i) = {} /\ o.r = TRUE
               /\ DOMAIN o.s.dev = DOMAIN s.dev \ {i}
               /\ \A j \in DOMAIN o.s.dev : o.s.dev[j] = s.dev[j]
<1>0. s \in States /\ Sound(s.dev, s.kids) /\ Held(s)
  BY DEF Good
<1>1. CASE i \notin DOMAIN s.dev
  <2>0. o \in {Out(s, TRUE), Out(s, FALSE)}
    BY <1>1 DEF DeleteObject
  <2>1. o.s = s /\ (o.r = TRUE \/ o.r = FALSE)
    BY <2>0 DEF Out
  <2> QED BY <2>1, LaterReflexive
<1>2. CASE i \in DOMAIN s.dev /\ Children(s.dev, i) # {}
  <2>0. o \in {Out(s, FALSE)}
    BY <1>2 DEF DeleteObject
  <2>1. o.s = s /\ (o.r = TRUE \/ o.r = FALSE)
    BY <2>0 DEF Out
  <2> QED BY <2>1, LaterReflexive
<1>3. CASE i \in DOMAIN s.dev /\ Children(s.dev, i) = {}
  <2>1. \/ o = Out([s EXCEPT !.dev = Drop(@, {i})], TRUE)
        \/ \E t \in Fail(s, "delete") : o = Out(t, TRUE) \/ o = Out(t, FALSE)
    BY <1>3 DEF DeleteObject
  <2>2. CASE \E t \in Fail(s, "delete") : o = Out(t, TRUE) \/ o = Out(t, FALSE)
    <3>1. PICK t \in Fail(s, "delete") : o = Out(t, TRUE) \/ o = Out(t, FALSE)
      BY <2>2
    <3>2. o.s = t /\ (o.r = TRUE \/ o.r = FALSE)
      BY <3>1 DEF Out
    <3> QED BY <3>2, FailKeeps, KindsOfFaults
  <2>3. CASE o = Out([s EXCEPT !.dev = Drop(@, {i})], TRUE)
    <3>0. PICK d : d = Drop(s.dev, {i})
      OBVIOUS
    <3>1. o.s = [s EXCEPT !.dev = d] /\ o.r = TRUE
      BY <2>3, <3>0 DEF Out
    <3>2. PICK D \in SUBSET Ids : s.dev \in [D -> Objects]
      BY <1>0 DEF States, Devices
    <3>3. DOMAIN d = DOMAIN s.dev \ {i} /\ \A j \in DOMAIN d : d[j] = s.dev[j]
      BY <3>0 DEF Drop
    <3>4. d \in Devices
      <4>1. d \in [D \ {i} -> Objects]
        BY <3>0, <3>2 DEF Drop
      <4> QED BY <4>1 DEF Devices
    <3>5. o.s \in States /\ o.s.dev = d /\ o.s.kids = s.kids /\ o.s.taken = s.taken /\ o.s.bad = s.bad
      BY <3>1, <3>4, <1>0 DEF States
    <3>6. \A j \in DOMAIN s.dev : s.dev[j].parent # i
      BY <1>3, ChildrenNodes
    <3>7. Parented(s.dev) /\ Agree(s.dev, s.kids) /\ Unique(s.kids) /\ ListsDirs(s.dev, s.kids) /\ NoCycle(s.dev, s.kids)
      BY <1>0 DEF Sound
    <3>8. Parented(d)
      BY <3>3, <3>6, <3>7 DEF Parented
    <3>9. Agree(d, s.kids) /\ ListsDirs(d, s.kids)
      BY <3>3, <3>7 DEF Agree, ListsDirs
    <3>10. NoCycle(d, s.kids)
      BY <3>3, <3>7 DEF NoCycle
    <3>11. Good(o.s)
      BY <3>3, <3>5, <3>7, <3>8, <3>9, <3>10, <1>0 DEF Good, Sound, Held
    <3>12. Later(s, o.s)
      BY <3>3, <3>5 DEF Later
    <3> QED BY <3>1, <3>3, <3>5, <3>11, <3>12, <1>3
  <2> QED BY <2>1, <2>2, <2>3
<1> QED BY <1>1, <1>2, <1>3

LEMMA OutIs ==
  ASSUME NEW s, NEW r, NEW o \in {Out(s, r)}
  PROVE  o.s = s /\ o.r = r
BY DEF Out

-----------------------------------------------------------------------------
(* Deleting a directory: the steps of the run keep the state good.         *)

\* The nodes a request may work on.
Hand(s) == {n \in Nodes : OnHand(s, n)}

LEMMA HandLater ==
  ASSUME NEW s, NEW t, Good(s), Good(t), Later(s, t)
  PROVE  Hand(s) \subseteq Hand(t)
BY OnHandLater DEF Hand

LEMMA ListedOnHand ==
  ASSUME NEW s, Good(s), NEW i
  PROVE  Cached(s, i) \subseteq Hand(s) /\ Children(s.dev, i) \subseteq Hand(s)
<1>1. ASSUME NEW n \in Cached(s, i)
      PROVE  n \in Hand(s)
  <2>1. n \in Nodes /\ i \in DOMAIN s.kids /\ n \in s.kids[i] /\ n.id \in s.taken
    BY CachedNodes
  <2>2. n.id \in DOMAIN s.dev => s.dev[n.id].dir = n.dir
    BY <2>1 DEF Good, Sound, Agree
  <2> QED BY <2>1, <2>2 DEF Hand, OnHand, Nodes, Keys
<1>2. ASSUME NEW n \in Children(s.dev, i)
      PROVE  n \in Hand(s)
  <2>1. n \in Nodes /\ n.id \in s.taken /\ s.dev[n.id].dir = n.dir
    BY ChildrenNodes
  <2> QED BY <2>1 DEF Hand, OnHand, Nodes, Keys
<1> QED BY <1>1, <1>2

DeleteFrames(s) == [dir : {n \in Hand(s) : n.dir}, old : SUBSET Hand(s), found : SUBSET Hand(s)]

\* What holds after a step of deleting that began in s.
Deleting(s, o) ==
  /\ Good(o.s) /\ Later(s, o.s)
  /\ Halted(o.s) \/ o.r = Nil \/ o.r \in Seq(DeleteFrames(o.s))

LEMMA FramesLater ==
  ASSUME NEW s, NEW t, Good(s), Good(t), Later(s, t)
  PROVE  DeleteFrames(s) \subseteq DeleteFrames(t) /\ Seq(DeleteFrames(s)) \subseteq Seq(DeleteFrames(t))
<1>1. Hand(s) \subseteq Hand(t)
  BY HandLater
<1>2. DeleteFrames(s) \subseteq DeleteFrames(t)
  BY <1>1 DEF DeleteFrames
<1> QED BY <1>2

LEMMA Pushed ==
  ASSUME NEW S, NEW x \in S, NEW q \in Seq(S)
  PROVE  /\ <<x>> \o q \in Seq(S) /\ <<x>> \o q # <<>>
         /\ Head(<<x>> \o q) = x /\ Tail(<<x>> \o q) = q
         /\ Len(<<x>> \o q) = Len(q) + 1 /\ (<<x>> \o q)[1] = x
         /\ \A k \in 1 .. Len(q) : (<<x>> \o q)[k + 1] = q[k]
OBVIOUS

LEMMA Popped ==
  ASSUME NEW S, NEW q \in Seq(S), q # <<>>
  PROVE  /\ Head(q) \in S /\ Tail(q) \in Seq(S) /\ Head(q) = q[1]
         /\ Len(q) \in Nat \ {0} /\ Len(Tail(q)) = Len(q) - 1
         /\ \A k \in 1 .. Len(Tail(q)) : Tail(q)[k] = q[k + 1]
OBVIOUS

LEMMA EnterKeeps ==
  ASSUME NEW s, Good(s), NEW dir \in Hand(s), dir.dir, NEW outer \in Seq(DeleteFrames(s)),
         NEW o \in Enter(s, dir, outer)
  PROVE  Deleting(s, o)
<1>1. PICK x \in EvaluateChildren(s, dir.id) :
        o \in IF Halted(x.s) THEN {Out(x.s, Aborted)}
              ELSE {Out(x.s, IF x.r = Nil THEN Nil
                             ELSE <<[dir |-> dir, old |-> Cached(s, dir.id), found |-> x.r]>> \o outer)}
  BY DEF Enter, Then
<1>2. dir.id \in Keys /\ dir.id \in s.taken \cup {Root} /\ (dir.id \in DOMAIN s.dev => s.dev[dir.id].dir)
  BY DEF Hand, OnHand
<1>3. /\ Good(x.s) /\ Later(s, x.s) /\ x.s.dev = s.dev
      /\ Halted(x.s) \/ x.r = Nil \/ x.r \subseteq Children(s.dev, dir.id)
  BY <1>2, EvaluateChildrenKeeps
<1>4. o.s = x.s
  BY <1>1 DEF Out
<1>5. CASE Halted(x.s)
  BY <1>3, <1>4, <1>5 DEF Deleting
<1>6. CASE ~Halted(x.s) /\ x.r = Nil
  <2>1. o.r = Nil
    BY <1>1, <1>6 DEF Out
  <2> QED BY <2>1, <1>3, <1>4 DEF Deleting
<1>7. CASE ~Halted(x.s) /\ x.r # Nil
  <2>1. PICK f : f = [dir |-> dir, old |-> Cached(s, dir.id), found |-> x.r]
    OBVIOUS
  <2>2. o.r = <<f>> \o outer
    BY <1>1, <1>7, <2>1 DEF Out
  <2>3. Hand(s) \subseteq Hand(x.s)
    BY <1>3, HandLater
  <2>4. f.old \subseteq Hand(x.s) /\ f.found \subseteq Hand(x.s)
    BY <2>1, <2>3, <1>3, <1>7, ListedOnHand
  <2>5. f \in DeleteFrames(x.s)
    BY <2>1, <2>3, <2>4 DEF DeleteFrames
  <2>6. outer \in Seq(DeleteFrames(x.s))
    BY <1>3, FramesLater
  <2>7. o.r \in Seq(DeleteFrames(x.s))
    BY <2>2, <2>5, <2>6, Pushed
  <2> QED BY <2>7, <1>3, <1>4 DEF Deleting
<1> QED BY <1>5, <1>6, <1>7

LEMMA DeletingFrom ==
  ASSUME NEW s, NEW t, Later(s, t), NEW o, Deleting(t, o)
  PROVE  Deleting(s, o)
BY LaterTransitive DEF Deleting

LEMMA DeleteAllKeeps ==
  ASSUME NEW s, Good(s), NEW f \in DeleteFrames(s), f.old \cup f.found # {}, NEW outer \in Seq(DeleteFrames(s)),
         NEW o \in DeleteAll(s, f, outer)
  PROVE  Deleting(s, o)
<1> DEFINE n == Oldest(IF f.old # {} THEN f.old ELSE f.found)
           rest == IF f.old # {} THEN [f EXCEPT !.old = @ \ {n}] ELSE [f EXCEPT !.found = @ \ {n}]
<1>1. f.old \subseteq Hand(s) /\ f.found \subseteq Hand(s) /\ Hand(s) \subseteq Nodes
  BY DEF DeleteFrames, Hand
<1>2. n \in Hand(s) /\ n \in f.old \cup f.found
  <2>1. CASE f.old # {}
    <3>1. Oldest(f.old) \in f.old
      BY <1>1, <2>1, OldestIsOne
    <3> QED BY <3>1, <2>1, <1>1
  <2>2. CASE f.old = {}
    <3>1. Oldest(f.found) \in f.found
      BY <1>1, <2>2, OldestIsOne
    <3> QED BY <3>1, <2>2, <1>1
  <2> QED BY <2>1, <2>2
<1>3. rest \in DeleteFrames(s)
  <2> HIDE DEF n
  <2>1. CASE f.old # {}
    BY <2>1 DEF DeleteFrames
  <2>2. CASE f.old = {}
    BY <2>2 DEF DeleteFrames
  <2> QED BY <2>1, <2>2
<1>4. o \in IF n.dir THEN Enter(s, n, <<rest>> \o outer)
            ELSE Then(DeleteObject(s, n.id), LAMBDA t, ok : {Out(t, IF ok THEN <<rest>> \o outer ELSE Nil)})
  BY DEF DeleteAll
<1> HIDE DEF n, rest
<1>5. <<rest>> \o outer \in Seq(DeleteFrames(s))
  BY <1>3, Pushed
<1>6. CASE n.dir
  <2>1. o \in Enter(s, n, <<rest>> \o outer)
    BY <1>4, <1>6
  <2> QED BY <2>1, <1>2, <1>5, <1>6, EnterKeeps
<1>7. CASE ~n.dir
  <2>1. PICK x \in DeleteObject(s, n.id) :
          o \in IF Halted(x.s) THEN {Out(x.s, Aborted)} ELSE {Out(x.s, IF x.r THEN <<rest>> \o outer ELSE Nil)}
    BY <1>4, <1>7 DEF Then
  <2>2. Good(x.s) /\ Later(s, x.s) /\ (x.r = TRUE \/ x.r = FALSE)
    BY DeleteObjectKeeps
  <2>3. o.s = x.s /\ (Halted(x.s) \/ o.r = Nil \/ o.r = <<rest>> \o outer)
    BY <2>1, <2>2 DEF Out
  <2>4. <<rest>> \o outer \in Seq(DeleteFrames(x.s))
    BY <2>2, <1>5, FramesLater
  <2> QED BY <2>2, <2>3, <2>4 DEF Deleting
<1> QED BY <1>6, <1>7

LEMMA DeleteEmptyKeeps ==
  ASSUME NEW s, Good(s), NEW f \in DeleteFrames(s), NEW outer \in Seq(DeleteFrames(s)),
         NEW o \in DeleteEmpty(s, f, outer)
  PROVE  Deleting(s, o)
<1>1. PICK t : t = DeleteSubCache(s, f.dir.id)
  OBVIOUS
<1>2. PICK x \in EvaluateChildren(t, f.dir.id) :
        o \in IF Halted(x.s) THEN {Out(x.s, Aborted)}
              ELSE IF x.r # {} THEN {Out(x.s, Nil)}
              ELSE Then(DeleteObject(x.s, f.dir.id), LAMBDA u, ok : {Out(u, IF ok THEN outer ELSE Nil)})
  BY <1>1 DEF DeleteEmpty, Then
<1>3. Good(t) /\ Later(s, t)
  BY <1>1, DeleteSubCacheKeeps
<1>4. f.dir \in Hand(s) /\ f.dir.dir
  BY DEF DeleteFrames
<1>5. f.dir \in Hand(t)
  BY <1>3, <1>4, HandLater
<1>6. f.dir.id \in Keys /\ f.dir.id \in t.taken \cup {Root} /\ (f.dir.id \in DOMAIN t.dev => t.dev[f.dir.id].dir)
  BY <1>4, <1>5 DEF Hand, OnHand
<1>7. Good(x.s) /\ Later(t, x.s)
  BY <1>3, <1>6, EvaluateChildrenKeeps
<1>8. Later(s, x.s)
  BY <1>3, <1>7, LaterTransitive
<1>9. CASE Halted(x.s)
  <2>1. o \in {Out(x.s, Aborted)}
    BY <1>2, <1>9, Zenon
  <2>2. o.s = x.s
    BY <2>1 DEF Out
  <2> QED BY <2>2, <1>7, <1>8, <1>9 DEF Deleting
<1>10. CASE ~Halted(x.s) /\ x.r # {}
  <2>1. o \in {Out(x.s, Nil)}
    BY <1>2, <1>10, Zenon
  <2>2. o.s = x.s /\ o.r = Nil
    BY <2>1 DEF Out
  <2> QED BY <2>2, <1>7, <1>8 DEF Deleting
<1>11. CASE ~Halted(x.s) /\ x.r = {}
  <2>1. PICK y \in DeleteObject(x.s, f.dir.id) :
          o \in IF Halted(y.s) THEN {Out(y.s, Aborted)} ELSE {Out(y.s, IF y.r THEN outer ELSE Nil)}
    BY <1>2, <1>11 DEF Then
  <2>2. Good(y.s) /\ Later(x.s, y.s) /\ (y.r = TRUE \/ y.r = FALSE)
    BY <1>7, DeleteObjectKeeps
  <2>3. o.s = y.s /\ (Halted(y.s) \/ o.r = Nil \/ o.r = outer)
    BY <2>1, <2>2 DEF Out
  <2>4. Later(s, y.s)
    BY <1>8, <2>2, LaterTransitive
  <2>5. outer \in Seq(DeleteFrames(y.s))
    BY <2>2, <2>4, FramesLater
  <2> QED BY <2>2, <2>3, <2>4, <2>5 DEF Deleting
<1> QED BY <1>9, <1>10, <1>11

LEMMA DeleteStepKeeps ==
  ASSUME NEW s, NEW o, Deleting(s, o), ~Halted(o.s), NEW x \in DeleteStep(o.s, o.r)
  PROVE  Deleting(s, x)
<1>1. Good(o.s) /\ Later(s, o.s) /\ (o.r = Nil \/ o.r \in Seq(DeleteFrames(o.s)))
  BY DEF Deleting
<1>2. CASE o.r = Nil \/ o.r = <<>>
  <2>1. x.s = o.s /\ x.r = o.r
    BY <1>2 DEF DeleteStep, Out
  <2> QED BY <2>1 DEF Deleting
<1>3. CASE o.r # Nil /\ o.r # <<>>
  <2>1. PICK f, outer : f = Head(o.r) /\ outer = Tail(o.r)
    OBVIOUS
  <2>2. f \in DeleteFrames(o.s) /\ outer \in Seq(DeleteFrames(o.s))
    BY <2>1, <1>1, <1>3, Popped
  <2>3. x \in IF f.old \cup f.found # {} THEN DeleteAll(o.s, f, outer) ELSE DeleteEmpty(o.s, f, outer)
    BY <2>1, <1>3 DEF DeleteStep
  <2>4. CASE f.old \cup f.found # {}
    <3>1. Deleting(o.s, x)
      BY <2>2, <2>3, <2>4, <1>1, DeleteAllKeeps
    <3> QED BY <3>1, <1>1, DeletingFrom
  <2>5. CASE f.old \cup f.found = {}
    <3>1. Deleting(o.s, x)
      BY <2>2, <2>3, <2>5, <1>1, DeleteEmptyKeeps
    <3> QED BY <3>1, <1>1, DeletingFrom
  <2> QED BY <2>4, <2>5
<1> QED BY <1>2, <1>3

\* The run of a deletion, as a function of the number of its steps.
DeleteOn(outs) == Then(outs, DeleteStep)
DeleteSteps(N, A, f) == f = [n \in 0 .. N |-> IF n = 0 THEN A ELSE DeleteOn(f[n - 1])]

LEMMA DeleteRun ==
  ASSUME NEW N \in Nat, NEW A
  PROVE  \E f : DeleteSteps(N, A, f)
<1> USE DEF DeleteSteps
<1> DEFINE Bad == {k \in 0 .. N : ~ \E f : f = [n \in 0 .. k |-> IF n = 0 THEN A ELSE DeleteOn(f[n - 1])]}
<1>1. SUFFICES ASSUME Bad # {} PROVE FALSE
  OBVIOUS
<1>2. Bad \subseteq Nat
  OBVIOUS
<1>3. PICK m \in Bad : \A n \in Bad : ~(n < m)
  <2> HIDE DEF Bad
  <2> QED BY <1>1, <1>2, Least
<1>4. CASE m = 0
  <2>1. [n \in 0 .. 0 |-> A] = [n \in 0 .. 0 |-> IF n = 0 THEN A ELSE DeleteOn([i \in 0 .. 0 |-> A][n - 1])]
    OBVIOUS
  <2> QED BY <2>1, <1>3, <1>4
<1>5. CASE m # 0
  <2>0. m \in 0 .. N /\ m - 1 \in 0 .. N /\ m - 1 < m
    BY <1>3, <1>5
  <2>1. m - 1 \in 0 .. N /\ m - 1 \notin Bad
    BY <2>0, <1>3
  <2>2. PICK f : f = [n \in 0 .. m - 1 |-> IF n = 0 THEN A ELSE DeleteOn(f[n - 1])]
    BY <2>1
  <2> DEFINE g == [n \in 0 .. m |-> IF n = m THEN DeleteOn(f[m - 1]) ELSE f[n]]
  <2>3. \A n \in 0 .. m - 1 : g[n] = f[n]
    BY <2>1
  <2>4. ASSUME NEW n \in 0 .. m
        PROVE  g[n] = IF n = 0 THEN A ELSE DeleteOn(g[n - 1])
    <3>1. CASE n = m
      BY <3>1, <2>1, <2>3, <1>5
    <3>2. CASE n # m
      <4>1. n \in 0 .. m - 1 /\ (n # 0 => n - 1 \in 0 .. m - 1)
        BY <3>2, <2>1
      <4>2. f[n] = IF n = 0 THEN A ELSE DeleteOn(f[n - 1])
        BY <4>1, <2>2
      <4> QED BY <4>1, <4>2, <2>3
    <3> QED BY <3>1, <3>2
  <2>5. g = [n \in 0 .. m |-> g[n]]
    OBVIOUS
  <2> HIDE DEF g
  <2>6. g = [n \in 0 .. m |-> IF n = 0 THEN A ELSE DeleteOn(g[n - 1])]
    BY <2>4, <2>5
  <2> QED BY <2>6, <1>3
<1> QED BY <1>4, <1>5

LEMMA DeleteMeKeeps ==
  ASSUME NEW s, Good(s), NEW node \in Hand(s), NEW o \in DeleteMe(s, node)
  PROVE  Good(o.s) /\ Later(s, o.s)
<1>1. CASE ~node.dir
  <2>1. o \in DeleteObject(s, node.id)
    BY <1>1 DEF DeleteMe
  <2> QED BY <2>1, DeleteObjectKeeps
<1>2. CASE node.dir
  <2> DEFINE A == Enter(s, node, <<>>)
             W == CHOOSE W : W = [n \in 0 .. MaxSteps |-> IF n = 0 THEN A ELSE DeleteOn(W[n - 1])]
  <2>1. PICK x \in W[MaxSteps] :
          o \in IF Halted(x.s) THEN {Out(x.s, Aborted)}
                ELSE IF x.r = Nil \/ x.r = <<>> THEN {Out(x.s, x.r # Nil)} ELSE {}
    BY <1>2 DEF DeleteMe, Then, DeleteOn
  <2>2. \A x2 \in A : Deleting(s, x2)
    <3>1. <<>> \in Seq(DeleteFrames(s))
      OBVIOUS
    <3> QED BY <3>1, <1>2, EnterKeeps
  <2>3. ASSUME NEW outs, \A x2 \in outs : Deleting(s, x2)
        PROVE  \A x2 \in DeleteOn(outs) : Deleting(s, x2)
    <3> SUFFICES ASSUME NEW x2 \in DeleteOn(outs) PROVE Deleting(s, x2)
      OBVIOUS
    <3>1. PICK y \in outs : x2 \in IF Halted(y.s) THEN {Out(y.s, Aborted)} ELSE DeleteStep(y.s, y.r)
      BY DEF DeleteOn, Then
    <3>2. CASE Halted(y.s)
      <4>1. x2.s = y.s
        BY <3>1, <3>2 DEF Out
      <4> QED BY <4>1, <3>2, <2>3 DEF Deleting
    <3>3. CASE ~Halted(y.s)
      BY <3>1, <3>3, <2>3, DeleteStepKeeps
    <3> QED BY <3>2, <3>3
  <2>0. MaxSteps \in Nat
    BY BoundsAssumption
  <2> HIDE DEF A
  <2>5. W = [n \in 0 .. MaxSteps |-> IF n = 0 THEN A ELSE DeleteOn(W[n - 1])]
    <3>1. \E f : DeleteSteps(MaxSteps, A, f)
      BY <2>0, DeleteRun
    <3> QED BY <3>1 DEF DeleteSteps
  <2> HIDE DEF W
  <2> DEFINE C == [n \in 0 .. MaxSteps |-> IF \A x2 \in W[n] : Deleting(s, x2) THEN {W[n]} ELSE {}]
  <2>6. W[0] \in C[0]
    BY <2>0, <2>2, <2>5
  <2>7. \A n \in 1 .. MaxSteps : W[n - 1] \in C[n - 1] => W[n] \in C[n]
    <3> SUFFICES ASSUME NEW n \in 1 .. MaxSteps, W[n - 1] \in C[n - 1]
                 PROVE  W[n] \in C[n]
      OBVIOUS
    <3>1. n - 1 \in 0 .. MaxSteps /\ n \in 0 .. MaxSteps /\ n # 0
      BY <2>0
    <3>2. \A x2 \in W[n - 1] : Deleting(s, x2)
      BY <3>1
    <3>3. W[n] = DeleteOn(W[n - 1])
      BY <2>5, <3>1
    <3>4. \A x2 \in W[n] : Deleting(s, x2)
      BY <2>3, <3>2, <3>3
    <3> QED BY <3>1, <3>4
  <2>8. \A n \in 0 .. MaxSteps : W[n] \in C[n]
    <3> HIDE DEF C
    <3> QED BY <2>0, <2>6, <2>7, Climbing
  <2>9. \A x2 \in W[MaxSteps] : Deleting(s, x2)
    <3>1. MaxSteps \in 0 .. MaxSteps
      BY <2>0
    <3>2. C[MaxSteps] = IF \A x2 \in W[MaxSteps] : Deleting(s, x2) THEN {W[MaxSteps]} ELSE {}
      BY <3>1
    <3>3. W[MaxSteps] \in C[MaxSteps]
      BY <3>1, <2>8
    <3> HIDE DEF C
    <3> QED BY <3>2, <3>3
  <2>10. o.s = x.s
    BY <2>1 DEF Out
  <2> QED BY <2>1, <2>9, <2>10 DEF Deleting
<1> QED BY <1>1, <1>2

-----------------------------------------------------------------------------
(* Copying a directory: the steps of the run keep the state good.          *)

LEMMA NewObjects ==
  ASSUME NEW s, Good(s), NEW node, OnHand(s, node), NEW name \in AllNames
  PROVE  /\ \A content \in AllContents \cup {Dir} : FileProperties(node, name, content) \in Objects
         /\ FolderProperties(node, name) \in Objects
         /\ \A content : FileProperties(node, name, content).parent = node.id
         /\ FolderProperties(node, name).parent = node.id
<1>1. node.id \in Keys
  BY DEF OnHand
<1> QED BY <1>1 DEF FileProperties, FolderProperties, Objects

LEMMA ContentsKnown ==
  ASSUME NEW s, Good(s)
  PROVE  \A i \in DOMAIN s.dev : s.dev[i].content \in AllContents \cup {Dir}
<1>1. s.dev \in Devices
  BY DEF Good, States
<1> QED BY <1>1, DevicesType DEF Objects

\* A file is copied to a new object, or nothing is made.  What is copied without a failing
\* read is the content of the file.
Copied(s, o, node, dest, name) ==
  \/ o.s.dev = s.dev /\ o.r = FALSE
  \/ \E i \in Ids \ s.taken : \E content :
       /\ o.s.dev = Put(s.dev, i, FileProperties(dest, name, content))
       /\ o.r = TRUE => \/ "read" \in o.s.bad
                        \/ node.id \in DOMAIN s.dev /\ content = s.dev[node.id].content

Copies(s, node, dest, name, o) ==
  /\ Good(o.s) /\ Later(s, o.s) /\ o.s.kids = s.kids
  /\ Halted(o.s) \/ o.r = TRUE \/ o.r = FALSE
  /\ o.s.dev = s.dev \/ Copied(s, o, node, dest, name)
  /\ Halted(o.s) \/ Copied(s, o, node, dest, name)

LEMMA CopyFileKeeps ==
  ASSUME NEW s, Good(s), NEW node, NEW dest, OnHand(s, dest), NEW name \in AllNames,
         NEW o \in CopyFile(s, node, dest, name)
  PROVE  Copies(s, node, dest, name, o)
<1>1. PICK x \in ContentToStream(s, node) :
        o \in IF Halted(x.s) THEN {Out(x.s, Aborted)}
              ELSE Then(CreateNewFileWithStream(x.s, dest, name, IF x.r = Nil THEN Empty ELSE x.r),
                        LAMBDA u, pushed : {Out(u, x.r # Nil /\ pushed)})
  BY DEF CopyFile, Then
<1>2. /\ Good(x.s) /\ Later(s, x.s) /\ x.s.kids = s.kids /\ x.s.dev = s.dev /\ x.s.taken = s.taken
      /\ \/ x.r = Nil
         \/ x.r = Torn /\ "read" \in x.s.bad
         \/ node.id \in DOMAIN s.dev /\ x.r = s.dev[node.id].content
  BY ContentToStreamKeeps
<1>3. CASE Halted(x.s)
  <2>1. o \in {Out(x.s, Aborted)}
    BY <1>1, <1>3, Zenon
  <2>2. o.s = x.s
    BY <2>1 DEF Out
  <2> QED BY <2>2, <1>2, <1>3 DEF Copies
<1>4. CASE ~Halted(x.s)
  <2>1. PICK content : content = IF x.r = Nil THEN Empty ELSE x.r
    OBVIOUS
  <2>2. PICK y \in CreateNewFileWithStream(x.s, dest, name, content) :
          o \in IF Halted(y.s) THEN {Out(y.s, Aborted)} ELSE {Out(y.s, x.r # Nil /\ y.r)}
    BY <1>1, <1>4, <2>1 DEF Then
  <2>3. content \in AllContents \cup {Dir}
    <3>1. {Empty, Torn} \subseteq AllContents
      BY DEF AllContents
    <3>2. node.id \in DOMAIN s.dev => s.dev[node.id].content \in AllContents \cup {Dir}
      BY ContentsKnown
    <3> QED BY <3>1, <3>2, <2>1, <1>2
  <2>4. OnHand(x.s, dest)
    BY <1>2, OnHandLater
  <2>5. PICK object : object = FileProperties(dest, name, content)
    OBVIOUS
  <2>6. object \in Objects /\ object.parent = dest.id
    BY <2>3, <2>4, <2>5, <1>2, NewObjects
  <2>7. y \in CreateObject(x.s, dest, object)
    BY <2>2, <2>5 DEF CreateNewFileWithStream
  <2>8. /\ Good(y.s) /\ Later(x.s, y.s) /\ y.s.kids = x.s.kids
        /\ \/ y.s.dev = x.s.dev /\ y.r = FALSE
           \/ /\ y.r = TRUE /\ y.s.bad = x.s.bad
              /\ \E i \in Ids \ x.s.taken : y.s.dev = Put(x.s.dev, i, object)
    BY <2>4, <2>6, <2>7, <1>2, CreateObjectKeeps
  <2>9. Later(s, y.s)
    BY <1>2, <2>8, LaterTransitive
  <2>10. o.s = y.s /\ (~Halted(y.s) => o.r = (x.r # Nil /\ y.r))
    BY <2>2 DEF Out
  <2>11. o.s.dev = s.dev \/ \E i \in Ids \ s.taken : o.s.dev = Put(s.dev, i, object)
    BY <2>8, <2>10, <1>2
  <2>12. CASE ~Halted(y.s) /\ y.s.dev = x.s.dev /\ y.r = FALSE
    <3>1. o.r = FALSE
      BY <2>10, <2>12
    <3> QED BY <3>1, <2>8, <2>9, <2>10, <2>12, <1>2 DEF Copied, Copies
  <2>13. CASE /\ y.r = TRUE /\ y.s.bad = x.s.bad
              /\ \E i \in Ids \ x.s.taken : y.s.dev = Put(x.s.dev, i, object)
    <3>0. ~Halted(y.s)
      BY <2>13, <1>4 DEF Halted
    <3>1. (o.r = TRUE /\ x.r # Nil) \/ (o.r = FALSE /\ x.r = Nil)
      BY <3>0, <2>10, <2>13
    <3>2. PICK i \in Ids \ s.taken : o.s.dev = Put(s.dev, i, object)
      BY <2>13, <2>10, <1>2
    <3>3. o.r = TRUE => \/ "read" \in o.s.bad
                        \/ node.id \in DOMAIN s.dev /\ content = s.dev[node.id].content
      BY <3>1, <2>1, <1>2, <2>10, <2>13
    <3>4. Copied(s, o, node, dest, name)
      BY <3>2, <3>3, <2>5 DEF Copied
    <3> QED BY <3>1, <3>4, <2>8, <2>9, <2>10, <1>2 DEF Copies
  <2>14. CASE Halted(y.s) /\ y.s.dev = x.s.dev
    BY <2>14, <2>8, <2>9, <2>10, <1>2 DEF Copies
  <2> QED BY <2>8, <2>12, <2>13, <2>14
<1> QED BY <1>3, <1>4 DEF Copies

\* A frame of the copying: nodes and a directory on hand, and a path.
CopyFrame(s, f) ==
  /\ f = [nodes |-> f.nodes, dest |-> f.dest, path |-> f.path, copied |-> f.copied, error |-> f.error]
  /\ f.nodes \subseteq Hand(s) /\ f.copied \subseteq Hand(s) /\ OnHand(s, f.dest)
  /\ \E T : f.path \in Seq(T)
Outer(s, S) == \A f \in S : CopyFrame(s, f) /\ f.nodes # {}
CopyWork(s, w) ==
  \/ w.frames = <<>>
  \/ \E f, S : \E outer \in Seq(S) : w.frames = <<f>> \o outer /\ CopyFrame(s, f) /\ Outer(s, S)

\* What holds after a step of copying that began in s.
Copying(s, o) ==
  /\ Good(o.s) /\ Later(s, o.s)
  /\ Halted(o.s) \/ CopyWork(o.s, o.r)

LEMMA CopyFrameLater ==
  ASSUME NEW s, NEW t, Good(s), Good(t), Later(s, t), NEW f, CopyFrame(s, f)
  PROVE  CopyFrame(t, f)
<1>1. Hand(s) \subseteq Hand(t)
  BY HandLater
<1>2. OnHand(t, f.dest)
  BY OnHandLater DEF CopyFrame
<1> QED BY <1>1, <1>2 DEF CopyFrame

LEMMA OuterLater ==
  ASSUME NEW s, NEW t, Good(s), Good(t), Later(s, t), NEW S, Outer(s, S)
  PROVE  Outer(t, S)
BY CopyFrameLater DEF Outer

LEMMA PushFrame ==
  ASSUME NEW s, NEW S, Outer(s, S), NEW q \in Seq(S), NEW f, CopyFrame(s, f), NEW ok,
         NEW w, w = Work(<<f>> \o q, ok)
  PROVE  CopyWork(s, w)
<1>1. w.frames = <<f>> \o q
  BY DEF Work
<1> QED BY <1>1 DEF CopyWork

LEMMA CopyingFrom ==
  ASSUME NEW s, NEW t, Later(s, t), NEW o, Copying(t, o)
  PROVE  Copying(s, o)
BY LaterTransitive DEF Copying

LEMMA ChildDoneKeeps ==
  ASSUME NEW s, NEW f, CopyFrame(s, f), NEW ok
  PROVE  f.nodes # {} => CopyFrame(s, ChildDone(f, ok))
<1> SUFFICES ASSUME f.nodes # {} PROVE CopyFrame(s, ChildDone(f, ok))
  OBVIOUS
<1>1. PICK n : n = Oldest(f.nodes)
  OBVIOUS
<1>2. f.nodes \subseteq Hand(s) /\ f.nodes \subseteq Nodes
  BY DEF CopyFrame, Hand
<1>3. n \in Hand(s)
  BY <1>1, <1>2, OldestIsOne
<1>4. PICK c, e : c = (IF ok THEN f.copied \cup {n} ELSE f.copied) /\ e = (f.error \/ ~ok)
  OBVIOUS
<1>5. ChildDone(f, ok) = [nodes |-> f.nodes \ {n}, dest |-> f.dest, path |-> f.path, copied |-> c, error |-> e]
  <2>1. ChildDone(f, ok) = [f EXCEPT !.nodes = @ \ {n}, !.copied = c, !.error = e]
    BY <1>1, <1>4, Zenon DEF ChildDone
  <2> QED BY <2>1 DEF CopyFrame
<1>6. c \subseteq Hand(s) /\ f.nodes \ {n} \subseteq Hand(s)
  BY <1>2, <1>3, <1>4 DEF CopyFrame
<1> QED BY <1>5, <1>6 DEF CopyFrame

LEMMA FoundOnHand ==
  ASSUME NEW s, Good(s), NEW path, Len(path) \in Nat, NEW o \in FilePathToNode(s, path)
  PROVE  /\ Good(o.s) /\ Later(s, o.s) /\ Grown(s, o.s)
         /\ Halted(o.s) \/ o.r = Nil \/ OnHand(o.s, o.r)
         /\ ~Halted(o.s) /\ o.r # Nil /\ Len(path) # 0 =>
              o.r \in Hand(o.s) /\ \E i \in DOMAIN o.s.kids : o.r \in o.s.kids[i]
<1>1. Walked(s, path, Len(path), o)
  BY FilePathToNodeKeeps
<1>2. Good(o.s) /\ Later(s, o.s) /\ Grown(s, o.s)
  BY <1>1 DEF Walked
<1>3. CASE o.r # Nil /\ Reaches(o.s.kids, path, Len(path), o.r)
  <2>1. OnHand(o.s, o.r) /\ (Len(path) = 0 \/ (o.r \in Nodes /\ \E i \in DOMAIN o.s.kids : o.r \in o.s.kids[i]))
    BY <1>2, <1>3, ReachedNode
  <2> QED BY <1>2, <2>1 DEF Hand
<1> QED BY <1>1, <1>2, <1>3 DEF Walked

LEMMA CreateNewFolderKeeps ==
  ASSUME NEW s, Good(s), NEW node, OnHand(s, node), NEW name \in AllNames, NEW o \in CreateNewFolder(s, node, name)
  PROVE  /\ Good(o.s) /\ Later(s, o.s) /\ o.s.kids = s.kids
         /\ \/ o.s.dev = s.dev /\ o.r = FALSE
            \/ /\ o.r = TRUE /\ o.s.bad = s.bad
               /\ \E i \in Ids \ s.taken : o.s.dev = Put(s.dev, i, FolderProperties(node, name))
<1>1. PICK object : object = FolderProperties(node, name)
  OBVIOUS
<1>2. object \in Objects /\ object.parent = node.id
  BY <1>1, NewObjects
<1>3. o \in CreateObject(s, node, object)
  BY <1>1 DEF CreateNewFolder
<1> QED BY <1>1, <1>2, <1>3, CreateObjectKeeps

LEMMA CopyEachKeeps ==
  ASSUME NEW s, Good(s), NEW S, Outer(s, S), NEW outer \in Seq(S),
         NEW f, CopyFrame(s, f), f.nodes # {}, NEW o \in CopyEach(s, f, outer)
  PROVE  Copying(s, o)
<1> DEFINE n == Oldest(f.nodes)
           Done(t, ok) == {Out(t, Work(<<ChildDone(f, ok)>> \o outer, TRUE))}
<1>2. n \in Hand(s)
  <2>1. f.nodes \subseteq Hand(s) /\ f.nodes \subseteq Nodes
    BY DEF CopyFrame, Hand
  <2> QED BY <2>1, OldestIsOne
<1>3. n.name \in AllNames
  BY <1>2 DEF Hand, Nodes
<1> HIDE DEF n
<1>4. OnHand(s, f.dest)
  BY DEF CopyFrame
<1>5. ASSUME NEW t, Good(t), Later(s, t), NEW ok, NEW x \in Done(t, ok)
      PROVE  Copying(s, x)
  <2>1. CopyFrame(t, ChildDone(f, ok))
    BY <1>5, ChildDoneKeeps, CopyFrameLater
  <2>2. Outer(t, S)
    BY <1>5, OuterLater
  <2>0. PICK w : w = Work(<<ChildDone(f, ok)>> \o outer, TRUE)
    OBVIOUS
  <2>3. CopyWork(t, w)
    BY <2>0, <2>1, <2>2, PushFrame
  <2>4. x \in {Out(t, w)}
    BY <2>0, <1>5, Zenon
  <2>5. x.s = t /\ x.r = w
    BY <2>4 DEF Out
  <2> QED BY <2>3, <2>5, <1>5 DEF Copying
<1>6. CASE ~n.dir
  <2>1. o \in Then(CopyFile(s, n, f.dest, n.name), Done)
    BY <1>6 DEF CopyEach, n
  <2> HIDE DEF Done
  <2>2. PICK x \in CopyFile(s, n, f.dest, n.name) : o \in IF Halted(x.s) THEN {Out(x.s, Aborted)} ELSE Done(x.s, x.r)
    BY <2>1 DEF Then
  <2>3. Good(x.s) /\ Later(s, x.s)
    BY <2>2, <1>3, <1>4, CopyFileKeeps DEF Copies
  <2>4. CASE Halted(x.s)
    <3>1. o \in {Out(x.s, Aborted)}
      BY <2>2, <2>4, Zenon
    <3>2. o.s = x.s
      BY <3>1 DEF Out
    <3> QED BY <3>2, <2>3, <2>4 DEF Copying
  <2> QED BY <2>2, <2>3, <2>4, <1>5
<1>7. CASE n.dir
  <2> DEFINE p == Append(f.path, n.name)
  <2>1. PICK x \in CreateNewFolder(s, f.dest, n.name) :
          o \in IF Halted(x.s) THEN {Out(x.s, Aborted)} ELSE
                Then(FilePathToNode(x.s, p), LAMBDA u, folder :
                  IF folder = Nil THEN Done(u, FALSE)
                  ELSE Then(HaveChildren(u, n.id), LAMBDA v, found :
                    {Out(v, Work(<<Frame(Cached(v, n.id), folder, p), f>> \o outer, TRUE))}))
    <3>1. o \in Then(CreateNewFolder(s, f.dest, n.name), LAMBDA t, ignored :
                  Then(FilePathToNode(t, p), LAMBDA u, folder :
                    IF folder = Nil THEN Done(u, FALSE)
                    ELSE Then(HaveChildren(u, n.id), LAMBDA v, found :
                      {Out(v, Work(<<Frame(Cached(v, n.id), folder, p), f>> \o outer, TRUE))})))
      BY <1>7 DEF CopyEach, n
    <3> QED BY <3>1 DEF Then
  <2> HIDE DEF Done, p
  <2>2. Good(x.s) /\ Later(s, x.s)
    BY <2>1, <1>3, <1>4, CreateNewFolderKeeps
  <2>3. CASE Halted(x.s)
    <3>1. o \in {Out(x.s, Aborted)}
      BY <2>1, <2>3, Zenon
    <3>2. o.s = x.s
      BY <3>1 DEF Out
    <3> QED BY <3>2, <2>2, <2>3 DEF Copying
  <2>4. CASE ~Halted(x.s)
    <3>1. PICK y \in FilePathToNode(x.s, p) :
            o \in IF Halted(y.s) THEN {Out(y.s, Aborted)} ELSE
                  IF y.r = Nil THEN Done(y.s, FALSE)
                  ELSE Then(HaveChildren(y.s, n.id), LAMBDA v, found :
                    {Out(v, Work(<<Frame(Cached(v, n.id), y.r, p), f>> \o outer, TRUE))})
      BY <2>1, <2>4 DEF Then
    <3>2. Len(p) \in Nat /\ \E T : p \in Seq(T)
      <4>1. PICK T : f.path \in Seq(T)
        BY DEF CopyFrame
      <4>2. f.path \in Seq(T \cup {n.name})
        BY <4>1
      <4>3. p \in Seq(T \cup {n.name})
        BY <4>2 DEF p
      <4> QED BY <4>3
    <3>3. Good(y.s) /\ Later(x.s, y.s) /\ (Halted(y.s) \/ y.r = Nil \/ OnHand(y.s, y.r))
      BY <2>2, <3>1, <3>2, FoundOnHand
    <3>4. Later(s, y.s)
      BY <2>2, <3>3, LaterTransitive
    <3>5. CASE Halted(y.s)
      <4>1. o \in {Out(y.s, Aborted)}
        BY <3>1, <3>5, Zenon
      <4>2. o.s = y.s
        BY <4>1 DEF Out
      <4> QED BY <4>2, <3>3, <3>4, <3>5 DEF Copying
    <3>6. CASE ~Halted(y.s) /\ y.r = Nil
      <4>1. o \in Done(y.s, FALSE)
        BY <3>1, <3>6, Zenon
      <4> QED BY <4>1, <3>3, <3>4, <1>5
    <3>7. CASE ~Halted(y.s) /\ y.r # Nil
      <4>1. PICK z \in HaveChildren(y.s, n.id) :
              o \in IF Halted(z.s) THEN {Out(z.s, Aborted)} ELSE
                    {Out(z.s, Work(<<Frame(Cached(z.s, n.id), y.r, p), f>> \o outer, TRUE))}
        BY <3>1, <3>7 DEF Then
      <4>2. OnHand(y.s, n)
        BY <1>2, <3>3, <3>4, OnHandLater DEF Hand
      <4>3. n.id \in Keys /\ n.id \in y.s.taken \cup {Root} /\ (n.id \in DOMAIN y.s.dev => y.s.dev[n.id].dir)
        BY <4>2, <1>7 DEF OnHand
      <4>4. Good(z.s) /\ Later(y.s, z.s)
        BY <3>3, <4>1, <4>3, HaveChildrenKeeps
      <4>5. Later(s, z.s)
        BY <3>4, <4>4, LaterTransitive
      <4>6. CASE Halted(z.s)
        <5>1. o.s = z.s
          BY <4>1, <4>6 DEF Out
        <5> QED BY <5>1, <4>4, <4>5, <4>6 DEF Copying
      <4>7. CASE ~Halted(z.s)
        <5>1. PICK g : g = Frame(Cached(z.s, n.id), y.r, p)
          OBVIOUS
        <5>0. PICK w : w = Work(<<g, f>> \o outer, TRUE)
          OBVIOUS
        <5>20. o \in {Out(z.s, w)}
          BY <4>1, <4>7, <5>0, <5>1, Zenon
        <5>2. o.s = z.s /\ o.r = w
          BY <5>20 DEF Out
        <5>3. Cached(z.s, n.id) \subseteq Hand(z.s) /\ OnHand(z.s, y.r)
          BY <3>3, <3>7, <4>4, ListedOnHand, OnHandLater
        <5>4. CopyFrame(z.s, g)
          BY <5>1, <5>3, <3>2 DEF CopyFrame, Frame
        <5>5. Outer(z.s, S \cup {f})
          BY <4>4, <4>5, CopyFrameLater DEF Outer
        <5>6. outer \in Seq(S \cup {f})
          OBVIOUS
        <5>7. <<f>> \o outer \in Seq(S \cup {f}) /\ <<g, f>> \o outer = <<g>> \o (<<f>> \o outer)
          <6>1. <<f>> \o outer \in Seq(S \cup {f})
            BY <5>6, Pushed
          <6> QED BY <6>1, <5>6
        <5>8. CopyWork(z.s, w)
          BY <5>0, <5>4, <5>5, <5>7, PushFrame
        <5> QED BY <5>2, <5>8, <4>4, <4>5 DEF Copying
      <4> QED BY <4>6, <4>7
    <3> QED BY <3>5, <3>6, <3>7
  <2> QED BY <2>3, <2>4
<1> QED BY <1>6, <1>7

LEMMA TidyUpKeeps ==
  ASSUME NEW s, Good(s), NEW S, Outer(s, S), NEW outer \in Seq(S),
         NEW f, CopyFrame(s, f), f.copied # {}, NEW o \in TidyUp(s, f, outer)
  PROVE  Copying(s, o)
<1>1. PICK n : n = Oldest(f.copied)
  OBVIOUS
<1>2. n \in Hand(s)
  <2>1. f.copied \subseteq Hand(s) /\ f.copied \subseteq Nodes
    BY DEF CopyFrame, Hand
  <2> QED BY <2>1, <1>1, OldestIsOne
<1>3. PICK g : g = [f EXCEPT !.copied = @ \ {n}]
  OBVIOUS
<1>0. PICK w : w = Work(<<g>> \o outer, TRUE)
  OBVIOUS
<1>4. PICK x \in DeleteMe(s, n) : o \in IF Halted(x.s) THEN {Out(x.s, Aborted)} ELSE {Out(x.s, w)}
  BY <1>0, <1>1, <1>3 DEF TidyUp, Then
<1>5. Good(x.s) /\ Later(s, x.s)
  BY <1>2, DeleteMeKeeps
<1>6. g = [nodes |-> f.nodes, dest |-> f.dest, path |-> f.path, copied |-> f.copied \ {n}, error |-> f.error]
  BY <1>3 DEF CopyFrame
<1>7. CopyFrame(s, g)
  BY <1>6 DEF CopyFrame
<1>8. CopyFrame(x.s, g) /\ Outer(x.s, S)
  BY <1>5, <1>7, CopyFrameLater, OuterLater
<1>9. CopyWork(x.s, w)
  BY <1>0, <1>8, PushFrame
<1>10. o.s = x.s /\ (Halted(x.s) \/ o.r = w)
  BY <1>4 DEF Out
<1> QED BY <1>5, <1>9, <1>10 DEF Copying

LEMMA CopyStepKeeps ==
  ASSUME NEW s, NEW o, Copying(s, o), ~Halted(o.s), NEW x \in CopyStep(o.s, o.r)
  PROVE  Copying(s, x)
<1>1. Good(o.s) /\ Later(s, o.s)
  BY DEF Copying
<1>2. o.r.frames = <<>> \/ \E f, S : \E outer \in Seq(S) : o.r.frames = <<f>> \o outer /\ CopyFrame(o.s, f) /\ Outer(o.s, S)
  BY DEF Copying, CopyWork
<1>3. CASE o.r.frames = <<>>
  <2>1. x.s = o.s /\ x.r = o.r
    BY <1>3 DEF CopyStep, Out
  <2> QED BY <2>1 DEF Copying
<1>4. CASE o.r.frames # <<>>
  <2>1. PICK f, S : \E outer \in Seq(S) : o.r.frames = <<f>> \o outer /\ CopyFrame(o.s, f) /\ Outer(o.s, S)
    BY <1>2, <1>4
  <2>2. PICK outer \in Seq(S) : o.r.frames = <<f>> \o outer /\ CopyFrame(o.s, f) /\ Outer(o.s, S)
    BY <2>1
  <2>20. Head(o.r.frames) = f /\ Tail(o.r.frames) = outer
    <3>1. outer \in Seq(S \cup {f})
      OBVIOUS
    <3> QED BY <3>1, <2>2, Pushed
  <2>3. x \in IF f.nodes # {} THEN CopyEach(o.s, f, outer)
              ELSE IF f.copied # {} THEN TidyUp(o.s, f, outer)
              ELSE IF outer = <<>> THEN {Out(o.s, Work(<<>>, ~f.error))}
              ELSE {Out(o.s, Work(<<ChildDone(Head(outer), ~f.error)>> \o Tail(outer), TRUE))}
    BY <2>20, <1>4 DEF CopyStep
  <2>4. CASE f.nodes # {}
    <3>1. Copying(o.s, x)
      BY <2>2, <2>3, <2>4, <1>1, CopyEachKeeps
    <3> QED BY <3>1, <1>1, CopyingFrom
  <2>5. CASE f.nodes = {} /\ f.copied # {}
    <3>1. Copying(o.s, x)
      BY <2>2, <2>3, <2>5, <1>1, TidyUpKeeps
    <3> QED BY <3>1, <1>1, CopyingFrom
  <2>6. CASE f.nodes = {} /\ f.copied = {} /\ outer = <<>>
    <3>0. PICK w : w = Work(<<>>, ~f.error)
      OBVIOUS
    <3>1. x.s = o.s /\ x.r = w
      BY <2>3, <2>6, <3>0 DEF Out
    <3>2. CopyWork(x.s, x.r)
      <4>1. w.frames = <<>>
        BY <3>0 DEF Work
      <4> QED BY <3>1, <4>1 DEF CopyWork
    <3> QED BY <3>1, <3>2, <1>1 DEF Copying
  <2>7. CASE f.nodes = {} /\ f.copied = {} /\ outer # <<>>
    <3>1. PICK g, q : g = Head(outer) /\ q = Tail(outer)
      OBVIOUS
    <3>2. g \in S /\ q \in Seq(S)
      BY <3>1, <2>2, <2>7, Popped
    <3>0. PICK w : w = Work(<<ChildDone(g, ~f.error)>> \o q, TRUE)
      OBVIOUS
    <3>3. x \in {Out(o.s, w)}
      BY <2>3, <2>7, <3>0, <3>1, Zenon
    <3>4. x.s = o.s /\ x.r = w
      BY <3>3 DEF Out
    <3>5. CopyFrame(o.s, ChildDone(g, ~f.error))
      BY <3>2, <2>2, ChildDoneKeeps DEF Outer
    <3>6. CopyWork(o.s, w)
      BY <3>0, <3>2, <3>5, <2>2, PushFrame
    <3> QED BY <3>4, <3>6, <1>1 DEF Copying
  <2> QED BY <2>4, <2>5, <2>6, <2>7
<1> QED BY <1>3, <1>4

\* The run of a copying, as a function of the number of its steps.
CopyOn(outs) == Then(outs, CopyStep)
CopySteps(N, A, f) == f = [n \in 0 .. N |-> IF n = 0 THEN A ELSE CopyOn(f[n - 1])]

LEMMA CopyRun ==
  ASSUME NEW N \in Nat, NEW A
  PROVE  \E f : CopySteps(N, A, f)
<1> USE DEF CopySteps
<1> DEFINE Bad == {k \in 0 .. N : ~ \E f : f = [n \in 0 .. k |-> IF n = 0 THEN A ELSE CopyOn(f[n - 1])]}
<1>1. SUFFICES ASSUME Bad # {} PROVE FALSE
  OBVIOUS
<1>2. Bad \subseteq Nat
  OBVIOUS
<1>3. PICK m \in Bad : \A n \in Bad : ~(n < m)
  <2> HIDE DEF Bad
  <2> QED BY <1>1, <1>2, Least
<1>4. CASE m = 0
  <2>1. [n \in 0 .. 0 |-> A] = [n \in 0 .. 0 |-> IF n = 0 THEN A ELSE CopyOn([i \in 0 .. 0 |-> A][n - 1])]
    OBVIOUS
  <2> QED BY <2>1, <1>3, <1>4
<1>5. CASE m # 0
  <2>0. m \in 0 .. N /\ m - 1 \in 0 .. N /\ m - 1 < m
    BY <1>3, <1>5
  <2>1. m - 1 \in 0 .. N /\ m - 1 \notin Bad
    BY <2>0, <1>3
  <2>2. PICK f : f = [n \in 0 .. m - 1 |-> IF n = 0 THEN A ELSE CopyOn(f[n - 1])]
    BY <2>1
  <2> DEFINE g == [n \in 0 .. m |-> IF n = m THEN CopyOn(f[m - 1]) ELSE f[n]]
  <2>3. \A n \in 0 .. m - 1 : g[n] = f[n]
    BY <2>1
  <2>4. ASSUME NEW n \in 0 .. m
        PROVE  g[n] = IF n = 0 THEN A ELSE CopyOn(g[n - 1])
    <3>1. CASE n = m
      BY <3>1, <2>1, <2>3, <1>5
    <3>2. CASE n # m
      <4>1. n \in 0 .. m - 1 /\ (n # 0 => n - 1 \in 0 .. m - 1)
        BY <3>2, <2>1
      <4>2. f[n] = IF n = 0 THEN A ELSE CopyOn(f[n - 1])
        BY <4>1, <2>2
      <4> QED BY <4>1, <4>2, <2>3
    <3> QED BY <3>1, <3>2
  <2>5. g = [n \in 0 .. m |-> g[n]]
    OBVIOUS
  <2> HIDE DEF g
  <2>6. g = [n \in 0 .. m |-> IF n = 0 THEN A ELSE CopyOn(g[n - 1])]
    BY <2>4, <2>5
  <2> QED BY <2>6, <1>3
<1> QED BY <1>4, <1>5

LEMMA CopyAllKeeps ==
  ASSUME NEW s, Good(s), NEW node \in Hand(s), node.dir, NEW dest, OnHand(s, dest), NEW path, \E T : path \in Seq(T),
         NEW o \in CopyAll(s, node, dest, path)
  PROVE  Good(o.s) /\ Later(s, o.s)
<1> DEFINE A == Then(HaveChildren(s, node.id), LAMBDA t, found :
                  {Out(t, Work(<<Frame(Cached(t, node.id), dest, path)>>, TRUE))})
           W == CHOOSE W : W = [n \in 0 .. MaxSteps |-> IF n = 0 THEN A ELSE CopyOn(W[n - 1])]
<1>1. o \in Then(W[MaxSteps], LAMBDA t, w : IF w.frames = <<>> THEN {Out(t, w.ok)} ELSE {})
  BY DEF CopyAll, CopyOn
<1>2. \A x2 \in A : Copying(s, x2)
  <2> SUFFICES ASSUME NEW x2 \in A PROVE Copying(s, x2)
    OBVIOUS
  <2>1. PICK z \in HaveChildren(s, node.id) :
          x2 \in IF Halted(z.s) THEN {Out(z.s, Aborted)}
                 ELSE {Out(z.s, Work(<<Frame(Cached(z.s, node.id), dest, path)>>, TRUE))}
    BY DEF Then
  <2> HIDE DEF A, W
  <2>2. node.id \in Keys /\ node.id \in s.taken \cup {Root} /\ (node.id \in DOMAIN s.dev => s.dev[node.id].dir)
    BY DEF Hand, OnHand
  <2>3. Good(z.s) /\ Later(s, z.s)
    BY <2>2, HaveChildrenKeeps
  <2>4. CASE Halted(z.s)
    <3>1. x2 \in {Out(z.s, Aborted)}
      BY <2>1, <2>4, Zenon
    <3>2. x2.s = z.s
      BY <3>1 DEF Out
    <3> QED BY <3>2, <2>3, <2>4 DEF Copying
  <2>5. CASE ~Halted(z.s)
    <3>1. PICK g : g = Frame(Cached(z.s, node.id), dest, path)
      OBVIOUS
    <3>2. PICK w : w = Work(<<g>>, TRUE)
      OBVIOUS
    <3>3. x2 \in {Out(z.s, w)}
      BY <2>1, <2>5, <3>1, <3>2, Zenon
    <3>4. x2.s = z.s /\ x2.r = w
      BY <3>3 DEF Out
    <3>5. Cached(z.s, node.id) \subseteq Hand(z.s) /\ OnHand(z.s, dest)
      BY <2>3, ListedOnHand, OnHandLater
    <3>6. CopyFrame(z.s, g)
      BY <3>1, <3>5 DEF CopyFrame, Frame
    <3>7. CopyWork(z.s, w)
      <4>1. <<g>> \o <<>> = <<g>> /\ <<>> \in Seq({g})
        OBVIOUS
      <4>2. w.frames = <<g>> \o <<>> /\ <<>> \in Seq({})
        BY <4>1, <3>2 DEF Work
      <4> QED BY <4>2, <3>6 DEF CopyWork, Outer
    <3> QED BY <3>4, <3>7, <2>3 DEF Copying
  <2> QED BY <2>4, <2>5
<1> HIDE DEF A
<1>3. ASSUME NEW outs, \A x2 \in outs : Copying(s, x2)
      PROVE  \A x2 \in CopyOn(outs) : Copying(s, x2)
  <2> SUFFICES ASSUME NEW x2 \in CopyOn(outs) PROVE Copying(s, x2)
    OBVIOUS
  <2>1. PICK y \in outs : x2 \in IF Halted(y.s) THEN {Out(y.s, Aborted)} ELSE CopyStep(y.s, y.r)
    BY DEF CopyOn, Then
  <2>2. CASE Halted(y.s)
    <3>1. x2.s = y.s
      BY <2>1, <2>2 DEF Out
    <3> QED BY <3>1, <2>2, <1>3 DEF Copying
  <2>3. CASE ~Halted(y.s)
    BY <2>1, <2>3, <1>3, CopyStepKeeps
  <2> QED BY <2>2, <2>3
<1>0. MaxSteps \in Nat
  BY BoundsAssumption
<1>5. W = [n \in 0 .. MaxSteps |-> IF n = 0 THEN A ELSE CopyOn(W[n - 1])]
  <2>1. \E f : CopySteps(MaxSteps, A, f)
    BY <1>0, CopyRun
  <2> QED BY <2>1 DEF CopySteps
<1> HIDE DEF W
<1> DEFINE C == [n \in 0 .. MaxSteps |-> IF \A x2 \in W[n] : Copying(s, x2) THEN {W[n]} ELSE {}]
<1>6. W[0] \in C[0]
  BY <1>0, <1>2, <1>5
<1>7. \A n \in 1 .. MaxSteps : W[n - 1] \in C[n - 1] => W[n] \in C[n]
  <2> SUFFICES ASSUME NEW n \in 1 .. MaxSteps, W[n - 1] \in C[n - 1]
               PROVE  W[n] \in C[n]
    OBVIOUS
  <2>1. n - 1 \in 0 .. MaxSteps /\ n \in 0 .. MaxSteps /\ n # 0
    BY <1>0
  <2>2. \A x2 \in W[n - 1] : Copying(s, x2)
    BY <2>1
  <2>3. W[n] = CopyOn(W[n - 1])
    BY <1>5, <2>1
  <2>4. \A x2 \in W[n] : Copying(s, x2)
    BY <1>3, <2>2, <2>3
  <2> QED BY <2>1, <2>4
<1>8. \A n \in 0 .. MaxSteps : W[n] \in C[n]
  <2> HIDE DEF C
  <2> QED BY <1>0, <1>6, <1>7, Climbing
<1>9. \A x2 \in W[MaxSteps] : Copying(s, x2)
  <2>1. MaxSteps \in 0 .. MaxSteps
    BY <1>0
  <2>2. C[MaxSteps] = IF \A x2 \in W[MaxSteps] : Copying(s, x2) THEN {W[MaxSteps]} ELSE {}
    BY <2>1
  <2>3. W[MaxSteps] \in C[MaxSteps]
    BY <2>1, <1>8
  <2> HIDE DEF C
  <2> QED BY <2>2, <2>3
<1> QED
  <2>1. PICK x \in W[MaxSteps] :
          o \in IF Halted(x.s) THEN {Out(x.s, Aborted)} ELSE IF x.r.frames = <<>> THEN {Out(x.s, x.r.ok)} ELSE {}
    BY <1>1 DEF Then
  <2>2. o.s = x.s
    BY <2>1 DEF Out
  <2> QED BY <1>9, <2>2 DEF Copying

-----------------------------------------------------------------------------
(* The listings below a directory.                                         *)

LEMMA BelowSelf ==
  ASSUME NEW k, NEW i \in DOMAIN k
  PROVE  i \in Below(k, i)
BY DEF Below

LEMMA BelowClosed ==
  ASSUME NEW k, NEW i, NEW j \in Below(k, i), NEW n \in k[j], n.dir, n.id \in DOMAIN k
  PROVE  n.id \in Below(k, i)
<1>1. i \in DOMAIN k /\ j \in DOMAIN k
  BY DEF Below
<1>2. SUFFICES ASSUME NEW S \in SUBSET DOMAIN k, i \in S,
                      \A a \in S : \A m \in k[a] : m.dir /\ m.id \in DOMAIN k => m.id \in S
               PROVE  n.id \in S
  BY <1>1 DEF Below
<1>3. j \in S
  BY <1>2 DEF Below
<1> QED BY <1>2, <1>3

LEMMA BelowNamed ==
  ASSUME NEW k, NEW i, NEW x \in Below(k, i), x # i
  PROVE  \E j \in Below(k, i) : \E n \in k[j] : n.id = x
<1> SUFFICES ASSUME \A j \in Below(k, i) : \A n \in k[j] : n.id # x
             PROVE  FALSE
  OBVIOUS
<1>1. PICK S : S = Below(k, i) \ {x}
  OBVIOUS
<1>2. S \subseteq DOMAIN k /\ i \in DOMAIN k /\ i \in S
  <2>1. i \in DOMAIN k /\ Below(k, i) \subseteq DOMAIN k
    BY DEF Below
  <2> QED BY <2>1, <1>1, BelowSelf
<1>3. ASSUME NEW a \in S, NEW m \in k[a], m.dir, m.id \in DOMAIN k
      PROVE  m.id \in S
  BY <1>1, <1>3, BelowClosed
<1>4. x \in S
  BY <1>2, <1>3 DEF Below
<1> QED BY <1>1, <1>4

\* No directory is named in the listings below it.
LEMMA BelowNotSelf ==
  ASSUME NEW s, Good(s), NEW i, NEW j \in Below(s.kids, i), NEW n \in s.kids[j]
  PROVE  n.id # i
<1> SUFFICES ASSUME n.id = i PROVE FALSE
  OBVIOUS
<1>1. PICK S : S = Below(s.kids, i)
  OBVIOUS
<1>2. S \subseteq DOMAIN s.kids /\ j \in S
  BY <1>1 DEF Below
<1>3. \A x \in S : \E a \in S : \E m \in s.kids[a] : m.id = x
  BY <1>1, BelowNamed
<1>4. S \subseteq Ids
  <2>1. s.kids \in Caches
    BY DEF Good, States
  <2>2. \A a \in DOMAIN s.kids : \A m \in s.kids[a] : m.id \in Ids
    BY <2>1, CachesType DEF Nodes
  <2> QED BY <2>2, <1>2, <1>3
<1>5. NoCycle(s.dev, s.kids)
  BY DEF Good, Sound
<1>6. PICK x \in S : \A a \in DOMAIN s.kids \cap S : \A m \in s.kids[a] : m.id # x
  BY <1>2, <1>4, <1>5 DEF NoCycle
<1> QED BY <1>2, <1>3, <1>6

-----------------------------------------------------------------------------
(* What becomes stale.                                                     *)

\* Unless a listing failed, or the worker is gone, no listing has become stale.
Fresh(s, t) == "listing" \in t.bad \/ Halted(t) \/ Stale(t.dev, t.kids) \subseteq Stale(s.dev, s.kids)

LEMMA FreshTransitive ==
  ASSUME NEW s, NEW t, NEW u, Fresh(s, t), Fresh(t, u), Later(t, u)
  PROVE  Fresh(s, u)
BY DEF Fresh, Later, Halted

LEMMA GrownFresh ==
  ASSUME NEW s, NEW t, Grown(s, t)
  PROVE  Fresh(s, t)
<1> SUFFICES ASSUME "listing" \notin t.bad, NEW j \in DOMAIN t.kids, t.kids[j] # Children(t.dev, j)
             PROVE  j \in DOMAIN s.kids /\ s.kids[j] # Children(s.dev, j)
  BY DEF Fresh, Stale
<1> QED BY DEF Grown

LEMMA SameFresh ==
  ASSUME NEW s, NEW t, t.dev = s.dev, t.kids = s.kids
  PROVE  Fresh(s, t)
BY DEF Fresh

\* What changes of the listings of the device when an object goes, comes or gets another name.
LEMMA ChildrenWithout ==
  ASSUME NEW d, NEW e, NEW x \in DOMAIN d, DOMAIN e = DOMAIN d \ {x}, \A y \in DOMAIN e : e[y] = d[y],
         NEW j, d[x].parent # j
  PROVE  Children(e, j) = Children(d, j)
<1>1. \A y \in DOMAIN d : d[y].parent = j => y \in DOMAIN e
  OBVIOUS
<1> QED BY <1>1 DEF Children

LEMMA ChildrenWith ==
  ASSUME NEW d, NEW x, x \notin DOMAIN d, NEW v, NEW e, e = Put(d, x, v), NEW j, v.parent # j
  PROVE  Children(e, j) = Children(d, j)
<1>1. DOMAIN e = DOMAIN d \cup {x} /\ e[x] = v /\ \A y \in DOMAIN d : e[y] = d[y]
  BY DEF Put
<1> QED BY <1>1 DEF Children

LEMMA DeleteObjectStale ==
  ASSUME NEW s, Good(s), NEW j \in DOMAIN s.kids, NEW n \in s.kids[j], NEW o \in DeleteObject(s, n.id)
  PROVE  Stale(o.s.dev, o.s.kids) \subseteq Stale(s.dev, s.kids) \cup {j}
<1>1. /\ o.s.kids = s.kids
      /\ \/ o.s.dev = s.dev
         \/ /\ n.id \in DOMAIN s.dev
            /\ DOMAIN o.s.dev = DOMAIN s.dev \ {n.id}
            /\ \A x \in DOMAIN o.s.dev : o.s.dev[x] = s.dev[x]
  BY DeleteObjectKeeps
<1>2. n.id \in DOMAIN s.dev => s.dev[n.id].parent = j
  BY DEF Good, Sound, Agree
<1>3. ASSUME NEW a, a # j
      PROVE  Children(o.s.dev, a) = Children(s.dev, a)
  BY <1>1, <1>2, <1>3, ChildrenWithout
<1> QED BY <1>1, <1>3 DEF Stale

\* A listing was read and it is complete.
Reads(s, i, o) ==
  /\ Stale(o.s.dev, o.s.kids) \subseteq Stale(s.dev, s.kids)
  /\ DOMAIN o.s.kids = DOMAIN s.kids \cup {i} /\ o.s.dev = s.dev
  /\ \A j \in DOMAIN s.kids \ {i} : o.s.kids[j] = s.kids[j]
  /\ o.s.kids[i] = Cached(s, i) \cup o.r /\ o.r = Children(s.dev, i)

LEMMA EvaluateChildrenFresh ==
  ASSUME NEW s, Good(s), NEW i \in Keys, i \in s.taken \cup {Root}, i \in DOMAIN s.dev => s.dev[i].dir,
         NEW o \in EvaluateChildren(s, i), ~Halted(o.s), "listing" \notin o.s.bad
  PROVE  Reads(s, i, o)
<1>1. /\ o.r = Children(s.dev, i) /\ o.s.kids = Put(s.kids, i, Cached(s, i) \cup o.r) /\ o.s.dev = s.dev
  BY EvaluateChildrenKeeps
<1>2. /\ DOMAIN o.s.kids = DOMAIN s.kids \cup {i} /\ o.s.kids[i] = Cached(s, i) \cup o.r
      /\ \A j \in DOMAIN s.kids \ {i} : o.s.kids[j] = s.kids[j]
  BY <1>1 DEF Put
<1>3. ASSUME NEW j \in DOMAIN o.s.kids, o.s.kids[j] # Children(o.s.dev, j)
      PROVE  j \in DOMAIN s.kids /\ s.kids[j] # Children(s.dev, j)
  <2>1. CASE j = i
    <3>1. Cached(s, i) # Children(s.dev, i) /\ Cached(s, i) # {}
      BY <1>1, <1>2, <1>3, <2>1
    <3> QED BY <3>1, <2>1 DEF Cached
  <2>2. CASE j # i
    BY <2>2, <1>1, <1>2, <1>3
  <2> QED BY <2>1, <2>2
<1>4. Stale(o.s.dev, o.s.kids) \subseteq Stale(s.dev, s.kids)
  BY <1>3 DEF Stale
<1> QED BY <1>1, <1>2, <1>4 DEF Reads

-----------------------------------------------------------------------------
(* Deleting a directory: what its steps make stale is below its parent.    *)

\* The directory above the frame before k: the node of a frame is in its listing.
Up(fs, p, k) == IF k \in 1 .. Len(fs) THEN fs[k].dir.id ELSE p

Chain(s, p, fs) ==
  /\ p \in DOMAIN s.kids
  /\ \A k \in 1 .. Len(fs) :
       /\ fs[k].dir.id \in DOMAIN s.kids /\ Up(fs, p, k + 1) \in DOMAIN s.kids
       /\ fs[k].dir \in s.kids[Up(fs, p, k + 1)]
       /\ fs[k].old \cup fs[k].found \subseteq s.kids[fs[k].dir.id]
Dirty(fs, p) == {p} \cup {fs[k].dir.id : k \in 1 .. Len(fs)}

LEMMA ChainGrows ==
  ASSUME NEW s, NEW t, NEW p, NEW fs, Chain(s, p, fs),
         p \in DOMAIN t.kids, \A k \in 1 .. Len(fs) : fs[k].dir.id \in DOMAIN t.kids /\ Up(fs, p, k + 1) \in DOMAIN t.kids,
         \A j \in DOMAIN s.kids \cap DOMAIN t.kids : s.kids[j] \subseteq t.kids[j]
  PROVE  Chain(t, p, fs)
<1> SUFFICES ASSUME NEW k \in 1 .. Len(fs)
             PROVE  /\ fs[k].dir \in t.kids[Up(fs, p, k + 1)]
                    /\ fs[k].old \cup fs[k].found \subseteq t.kids[fs[k].dir.id]
  BY DEF Chain
<1>1. /\ fs[k].dir.id \in DOMAIN s.kids /\ Up(fs, p, k + 1) \in DOMAIN s.kids
      /\ fs[k].dir \in s.kids[Up(fs, p, k + 1)]
      /\ fs[k].old \cup fs[k].found \subseteq s.kids[fs[k].dir.id]
  BY DEF Chain
<1>2. s.kids[fs[k].dir.id] \subseteq t.kids[fs[k].dir.id] /\ s.kids[Up(fs, p, k + 1)] \subseteq t.kids[Up(fs, p, k + 1)]
  BY <1>1
<1> QED BY <1>1, <1>2

\* The directories of the frames are below the parent.
LEMMA ChainBelow ==
  ASSUME NEW s, Good(s), NEW p, NEW fs \in Seq(DeleteFrames(s)), Chain(s, p, fs)
  PROVE  Dirty(fs, p) \subseteq Below(s.kids, p) /\ p \in DOMAIN s.kids
<1> DEFINE N == Len(fs)
           W == [n \in 0 .. N |-> Up(fs, p, N + 1 - n)]
           C == [n \in 0 .. N |-> Below(s.kids, p)]
<1>0. N \in Nat
  OBVIOUS
<1>1. p \in DOMAIN s.kids
  BY DEF Chain
<1>2. W[0] \in C[0]
  BY <1>0, <1>1, BelowSelf DEF Up
<1>3. \A n \in 1 .. N : W[n - 1] \in C[n - 1] => W[n] \in C[n]
  <2> SUFFICES ASSUME NEW n \in 1 .. N, W[n - 1] \in C[n - 1] PROVE W[n] \in C[n]
    OBVIOUS
  <2>1. PICK k \in 1 .. N : k = N + 1 - n
    BY <1>0
  <2>2. W[n - 1] = Up(fs, p, k + 1) /\ W[n] = Up(fs, p, k) /\ W[n - 1] \in Below(s.kids, p)
    BY <2>1, <1>0
  <2>3. fs[k].dir \in s.kids[Up(fs, p, k + 1)] /\ fs[k].dir.id \in DOMAIN s.kids
    BY <2>1 DEF Chain
  <2>4. fs[k] \in DeleteFrames(s)
    BY <2>1
  <2>5. fs[k].dir.dir
    BY <2>4 DEF DeleteFrames
  <2>6. fs[k].dir.id \in Below(s.kids, p)
    BY <2>2, <2>3, <2>5, BelowClosed
  <2>7. Up(fs, p, k) = fs[k].dir.id
    BY <2>1 DEF Up
  <2> QED BY <2>2, <2>6, <2>7
<1>4. \A n \in 0 .. N : W[n] \in C[n]
  <2> HIDE DEF W, C, N
  <2> QED BY <1>0, <1>2, <1>3, Climbing
<1>5. ASSUME NEW k \in 1 .. N
      PROVE  fs[k].dir.id \in Below(s.kids, p)
  <2>1. N + 1 - k \in 0 .. N /\ N + 1 - (N + 1 - k) = k
    BY <1>0
  <2>2. W[N + 1 - k] = Up(fs, p, k)
    BY <2>1
  <2>3. Up(fs, p, k) \in Below(s.kids, p)
    BY <1>4, <2>1, <2>2
  <2> QED BY <2>3 DEF Up
<1>6. p \in Below(s.kids, p)
  BY <1>1, BelowSelf
<1> QED BY <1>1, <1>5, <1>6 DEF Dirty

OnTop(s, p, f, outer) ==
  /\ f \in DeleteFrames(s) /\ f.dir.id \in DOMAIN s.kids /\ f.dir \in s.kids[Up(outer, p, 1)]
  /\ f.old \cup f.found \subseteq s.kids[f.dir.id]

Taller(s, p, f, outer, fs) == Chain(s, p, fs) /\ Dirty(fs, p) = Dirty(outer, p) \cup {f.dir.id}

LEMMA ChainPushed ==
  ASSUME NEW s, NEW p, NEW outer \in Seq(DeleteFrames(s)), Chain(s, p, outer),
         NEW f, OnTop(s, p, f, outer)
  PROVE  Taller(s, p, f, outer, <<f>> \o outer)
<1> PICK fs : fs = <<f>> \o outer
  OBVIOUS
<1> SUFFICES Chain(s, p, fs) /\ Dirty(fs, p) = Dirty(outer, p) \cup {f.dir.id}
  BY DEF Taller
<1>0. /\ f \in DeleteFrames(s) /\ f.dir.id \in DOMAIN s.kids /\ f.dir \in s.kids[Up(outer, p, 1)]
      /\ f.old \cup f.found \subseteq s.kids[f.dir.id]
  BY DEF OnTop
<1>1. /\ Len(fs) = Len(outer) + 1 /\ fs[1] = f /\ Len(outer) \in Nat
      /\ \A k \in 1 .. Len(outer) : fs[k + 1] = outer[k]
  BY <1>0, Pushed
<1>2. \A k \in 1 .. Len(outer) + 1 : Up(fs, p, k + 1) = Up(outer, p, k)
  BY <1>1 DEF Up
<1>3. Up(outer, p, 1) \in DOMAIN s.kids
  <2>1. CASE Len(outer) = 0
    BY <2>1 DEF Up, Chain
  <2>2. CASE Len(outer) # 0
    <3>1. 1 \in 1 .. Len(outer)
      BY <2>2, <1>1
    <3> QED BY <3>1 DEF Up, Chain
  <2> QED BY <2>1, <2>2
<1>4. ASSUME NEW k \in 1 .. Len(fs)
      PROVE  /\ fs[k].dir.id \in DOMAIN s.kids /\ Up(fs, p, k + 1) \in DOMAIN s.kids
             /\ fs[k].dir \in s.kids[Up(fs, p, k + 1)]
             /\ fs[k].old \cup fs[k].found \subseteq s.kids[fs[k].dir.id]
  <2>1. CASE k = 1
    BY <2>1, <1>0, <1>1, <1>2, <1>3
  <2>2. CASE k # 1
    <3>1. k - 1 \in 1 .. Len(outer) /\ k = (k - 1) + 1
      BY <2>2, <1>1
    <3>2. fs[k] = outer[k - 1] /\ Up(fs, p, k + 1) = Up(outer, p, k)
      BY <3>1, <1>1, <1>2
    <3> QED BY <3>1, <3>2 DEF Chain
  <2> QED BY <2>1, <2>2
<1>5. Dirty(fs, p) = Dirty(outer, p) \cup {f.dir.id}
  <2>1. ASSUME NEW k \in 1 .. Len(fs)
        PROVE  fs[k].dir.id \in Dirty(outer, p) \cup {f.dir.id}
    <3>1. CASE k = 1
      BY <3>1, <1>1
    <3>2. CASE k # 1
      <4>1. k - 1 \in 1 .. Len(outer) /\ k = (k - 1) + 1
        BY <3>2, <1>1
      <4> QED BY <4>1, <1>1 DEF Dirty
    <3> QED BY <3>1, <3>2
  <2>2. ASSUME NEW k \in 1 .. Len(outer)
        PROVE  outer[k].dir.id \in Dirty(fs, p)
    <3>1. k + 1 \in 1 .. Len(fs) /\ fs[k + 1] = outer[k]
      BY <1>1
    <3> QED BY <3>1 DEF Dirty
  <2>3. f.dir.id \in Dirty(fs, p)
    <3>1. 1 \in 1 .. Len(fs)
      BY <1>1
    <3> QED BY <3>1, <1>1 DEF Dirty
  <2> QED BY <2>1, <2>2, <2>3 DEF Dirty
<1> QED BY <1>4, <1>5 DEF Chain

\* The first frame and the others of some frames.
Down(s, p, fs, f, outer) ==
  /\ Chain(s, p, outer) /\ Dirty(fs, p) = Dirty(outer, p) \cup {f.dir.id}
  /\ f.dir.id \in DOMAIN s.kids /\ Up(outer, p, 1) \in DOMAIN s.kids
  /\ f.dir \in s.kids[Up(outer, p, 1)] /\ Up(outer, p, 1) \in Dirty(outer, p)
  /\ f.old \cup f.found \subseteq s.kids[f.dir.id]

LEMMA ChainPopped ==
  ASSUME NEW s, Good(s), NEW p, NEW fs \in Seq(DeleteFrames(s)), Chain(s, p, fs), fs # <<>>,
         NEW f, f = Head(fs), NEW outer, outer = Tail(fs)
  PROVE  Down(s, p, fs, f, outer)
<1>1. /\ Len(fs) \in Nat \ {0} /\ Len(outer) = Len(fs) - 1 /\ fs[1] = f
      /\ \A k \in 1 .. Len(outer) : outer[k] = fs[k + 1]
  BY Popped
<1>2. \A k \in 1 .. Len(fs) : Up(outer, p, k) = Up(fs, p, k + 1)
  <2> TAKE k \in 1 .. Len(fs)
  <2>1. k \in 1 .. Len(outer) <=> k + 1 \in 1 .. Len(fs)
    BY <1>1
  <2> QED BY <2>1, <1>1 DEF Up
<1>3. 1 \in 1 .. Len(fs)
  BY <1>1
<1>4. /\ f.dir.id \in DOMAIN s.kids /\ Up(outer, p, 1) \in DOMAIN s.kids
      /\ f.dir \in s.kids[Up(outer, p, 1)]
      /\ f.old \cup f.found \subseteq s.kids[f.dir.id]
  BY <1>1, <1>2, <1>3 DEF Chain
<1>5. ASSUME NEW k \in 1 .. Len(outer)
      PROVE  /\ outer[k].dir.id \in DOMAIN s.kids /\ Up(outer, p, k + 1) \in DOMAIN s.kids
             /\ outer[k].dir \in s.kids[Up(outer, p, k + 1)]
             /\ outer[k].old \cup outer[k].found \subseteq s.kids[outer[k].dir.id]
  <2>1. k + 1 \in 1 .. Len(fs) /\ outer[k] = fs[k + 1] /\ Up(outer, p, k + 1) = Up(fs, p, k + 2)
    BY <1>1, <1>2
  <2>2. (k + 1) + 1 = k + 2
    OBVIOUS
  <2> QED BY <2>1, <2>2 DEF Chain
<1>6. Chain(s, p, outer)
  BY <1>5 DEF Chain
<1>7. Up(outer, p, 1) \in Dirty(outer, p)
  BY DEF Up, Dirty
<1>8. Dirty(fs, p) = Dirty(outer, p) \cup {f.dir.id}
  <2>1. ASSUME NEW k \in 1 .. Len(fs)
        PROVE  fs[k].dir.id \in Dirty(outer, p) \cup {f.dir.id}
    <3>1. CASE k = 1
      BY <3>1, <1>1
    <3>2. CASE k # 1
      <4>1. k - 1 \in 1 .. Len(outer) /\ k = (k - 1) + 1
        BY <3>2, <1>1
      <4> QED BY <4>1, <1>1 DEF Dirty
    <3> QED BY <3>1, <3>2
  <2>2. ASSUME NEW k \in 1 .. Len(outer)
        PROVE  outer[k].dir.id \in Dirty(fs, p)
    <3>1. k + 1 \in 1 .. Len(fs) /\ fs[k + 1] = outer[k]
      BY <1>1
    <3> QED BY <3>1 DEF Dirty
  <2>3. f.dir.id \in Dirty(fs, p)
    BY <1>1, <1>3 DEF Dirty
  <2>4. p \in Dirty(outer, p) /\ p \in Dirty(fs, p)
    BY DEF Dirty
  <2>5. Dirty(fs, p) \subseteq Dirty(outer, p) \cup {f.dir.id}
    BY <2>1, <2>4 DEF Dirty
  <2>6. Dirty(outer, p) \subseteq Dirty(fs, p)
    BY <2>2, <2>4 DEF Dirty
  <2> QED BY <2>3, <2>5, <2>6
<1> QED BY <1>4, <1>6, <1>7, <1>8 DEF Down

\* The directories of the outer frames and the parent are not below the first.
LEMMA ChainAbove ==
  ASSUME NEW s, Good(s), NEW p, NEW outer \in Seq(DeleteFrames(s)), Chain(s, p, outer),
         NEW n, n \in s.kids[Up(outer, p, 1)]
  PROVE  Dirty(outer, p) \cap Below(s.kids, n.id) = {}
<1> DEFINE N == Len(outer)
           W == [m \in 0 .. N |-> Up(outer, p, m + 1)]
           C == [m \in 0 .. N |-> Dirty(outer, p) \ Below(s.kids, n.id)]
<1>0. N \in Nat
  OBVIOUS
<1>1. W[0] \in C[0]
  <2>1. Up(outer, p, 1) \in Dirty(outer, p)
    BY DEF Up, Dirty
  <2>2. Up(outer, p, 1) \notin Below(s.kids, n.id)
    BY BelowNotSelf
  <2> QED BY <1>0, <2>1, <2>2
<1>2. \A m \in 1 .. N : W[m - 1] \in C[m - 1] => W[m] \in C[m]
  <2> SUFFICES ASSUME NEW m \in 1 .. N, W[m - 1] \in C[m - 1] PROVE W[m] \in C[m]
    OBVIOUS
  <2>1. W[m - 1] = Up(outer, p, m) /\ W[m] = Up(outer, p, m + 1) /\ Up(outer, p, m) \notin Below(s.kids, n.id)
    BY <1>0
  <2>2. Up(outer, p, m) = outer[m].dir.id
    BY DEF Up
  <2>3. outer[m].dir \in s.kids[Up(outer, p, m + 1)] /\ outer[m].dir.id \in DOMAIN s.kids
    BY DEF Chain
  <2>4. outer[m] \in DeleteFrames(s)
    OBVIOUS
  <2>5. outer[m].dir.dir
    BY <2>4 DEF DeleteFrames
  <2>6. Up(outer, p, m + 1) \notin Below(s.kids, n.id)
    BY <2>1, <2>2, <2>3, <2>5, BelowClosed
  <2>7. Up(outer, p, m + 1) \in Dirty(outer, p)
    BY <1>0 DEF Up, Dirty
  <2>8. m \in 0 .. N
    BY <1>0
  <2> QED BY <2>1, <2>6, <2>7, <2>8
<1>3. \A m \in 0 .. N : W[m] \in C[m]
  <2> HIDE DEF W, C, N
  <2> QED BY <1>0, <1>1, <1>2, Climbing
<1>4. ASSUME NEW k \in 1 .. N
      PROVE  outer[k].dir.id \notin Below(s.kids, n.id)
  <2>1. k - 1 \in 0 .. N /\ (k - 1) + 1 = k
    BY <1>0
  <2>2. W[k - 1] = Up(outer, p, k)
    BY <2>1
  <2>3. Up(outer, p, k) \notin Below(s.kids, n.id)
    BY <1>3, <2>1, <2>2
  <2> QED BY <2>3 DEF Up
<1>5. p \notin Below(s.kids, n.id)
  <2>1. N \in 0 .. N /\ Up(outer, p, N + 1) = p
    BY <1>0 DEF Up
  <2>2. W[N] = p
    BY <2>1
  <2> QED BY <2>1, <2>2, <1>3
<1> QED BY <1>4, <1>5 DEF Dirty

\* What holds of the stale listings after a step of deleting: B are those there were before,
\* p is the directory of what is deleted.
Staling(B, p, o) ==
  \/ "listing" \in o.s.bad \/ Halted(o.s)
  \/ o.r = Nil /\ p \in DOMAIN o.s.kids /\ Stale(o.s.dev, o.s.kids) \subseteq B \cup Below(o.s.kids, p)
  \/ /\ o.r # Nil /\ o.r \in Seq(DeleteFrames(o.s)) /\ Chain(o.s, p, o.r)
     /\ Stale(o.s.dev, o.s.kids) \subseteq B \cup Dirty(o.r, p)

LEMMA StalingIs ==
  ASSUME NEW B, NEW p, NEW o, Good(o.s), NEW q \in Seq(DeleteFrames(o.s)), Chain(o.s, p, q),
         Stale(o.s.dev, o.s.kids) \subseteq B \cup Dirty(q, p), o.r = Nil \/ o.r = q
  PROVE  Staling(B, p, o)
<1>1. Dirty(q, p) \subseteq Below(o.s.kids, p) /\ p \in DOMAIN o.s.kids
  BY ChainBelow
<1>2. CASE o.r = Nil
  <2>1. Stale(o.s.dev, o.s.kids) \subseteq B \cup Below(o.s.kids, p)
    BY <1>1
  <2> QED BY <1>1, <1>2, <2>1 DEF Staling
<1>3. CASE o.r # Nil /\ o.r = q
  BY <1>3 DEF Staling
<1> QED BY <1>2, <1>3

LEMMA EnterStale ==
  ASSUME NEW s, Good(s), NEW dir \in Hand(s), dir.dir, NEW q \in Seq(DeleteFrames(s)), NEW p, Chain(s, p, q),
         Up(q, p, 1) \in DOMAIN s.kids, dir \in s.kids[Up(q, p, 1)],
         NEW B, Stale(s.dev, s.kids) \subseteq B \cup Dirty(q, p), NEW o \in Enter(s, dir, q)
  PROVE  Staling(B, p, o)
<1>1. PICK x \in EvaluateChildren(s, dir.id) :
        o \in IF Halted(x.s) THEN {Out(x.s, Aborted)}
              ELSE {Out(x.s, IF x.r = Nil THEN Nil
                             ELSE <<[dir |-> dir, old |-> Cached(s, dir.id), found |-> x.r]>> \o q)}
  BY DEF Enter, Then
<1>2. dir.id \in Keys /\ dir.id \in s.taken \cup {Root} /\ (dir.id \in DOMAIN s.dev => s.dev[dir.id].dir)
  BY DEF Hand, OnHand
<1>3. PICK f : f = [dir |-> dir, old |-> Cached(s, dir.id), found |-> x.r]
  OBVIOUS
<1>4. o.s = x.s /\ (~Halted(x.s) => o.r = IF x.r = Nil THEN Nil ELSE <<f>> \o q)
  <2>1. PICK v : v = IF x.r = Nil THEN Nil ELSE <<f>> \o q
    OBVIOUS
  <2>2. CASE Halted(x.s)
    <3>1. o \in {Out(x.s, Aborted)}
      BY <1>1, <2>2, Zenon
    <3> QED BY <3>1, <2>2, OutIs
  <2>3. CASE ~Halted(x.s)
    <3>1. o \in {Out(x.s, v)}
      BY <1>1, <1>3, <2>1, <2>3, Zenon
    <3> QED BY <2>1, <3>1, OutIs
  <2> QED BY <2>2, <2>3
<1> SUFFICES ASSUME ~Halted(x.s), "listing" \notin x.s.bad
             PROVE  Staling(B, p, o)
  BY <1>4 DEF Staling
<1>5. /\ Stale(x.s.dev, x.s.kids) \subseteq Stale(s.dev, s.kids)
      /\ DOMAIN x.s.kids = DOMAIN s.kids \cup {dir.id} /\ x.s.dev = s.dev
      /\ \A j \in DOMAIN s.kids \ {dir.id} : x.s.kids[j] = s.kids[j]
      /\ x.s.kids[dir.id] = Cached(s, dir.id) \cup x.r /\ x.r = Children(s.dev, dir.id)
  <2>1. Reads(s, dir.id, x)
    BY <1>2, EvaluateChildrenFresh
  <2> QED BY <2>1 DEF Reads
<1>6. Good(x.s) /\ Later(s, x.s)
  BY <1>2, EvaluateChildrenKeeps
<1>7. \A j \in DOMAIN s.kids : j \in DOMAIN x.s.kids /\ s.kids[j] \subseteq x.s.kids[j]
  <2>1. dir.id \in DOMAIN s.kids => s.kids[dir.id] \subseteq x.s.kids[dir.id]
    BY <1>5 DEF Cached
  <2> QED BY <2>1, <1>5
<1>8. Chain(x.s, p, q) /\ Up(q, p, 1) \in DOMAIN x.s.kids /\ dir \in x.s.kids[Up(q, p, 1)]
  <2>1. p \in DOMAIN s.kids /\ \A k \in 1 .. Len(q) : q[k].dir.id \in DOMAIN s.kids /\ Up(q, p, k + 1) \in DOMAIN s.kids
    BY DEF Chain
  <2>2. p \in DOMAIN x.s.kids /\ \A k \in 1 .. Len(q) : q[k].dir.id \in DOMAIN x.s.kids /\ Up(q, p, k + 1) \in DOMAIN x.s.kids
    BY <2>1, <1>7
  <2>3. \A j \in DOMAIN s.kids \cap DOMAIN x.s.kids : s.kids[j] \subseteq x.s.kids[j]
    BY <1>7
  <2>4. Chain(x.s, p, q)
    BY <2>2, <2>3, ChainGrows
  <2> QED BY <2>4, <1>7
<1>9. Stale(x.s.dev, x.s.kids) \subseteq B \cup Dirty(q, p)
  BY <1>5
<1>10. q \in Seq(DeleteFrames(x.s)) /\ Hand(s) \subseteq Hand(x.s)
  BY <1>6, FramesLater, HandLater
<1>11. CASE x.r = Nil
  <2>1. o.r = Nil
    BY <1>4, <1>11
  <2> QED BY <2>1, <1>4, <1>6, <1>8, <1>9, <1>10, StalingIs
<1>12. CASE x.r # Nil
  <2>1. o.r = <<f>> \o q
    BY <1>4, <1>12
  <2>2. f.dir = dir /\ f.old \cup f.found = x.s.kids[dir.id] /\ f.old = Cached(s, dir.id) /\ f.found = Children(s.dev, dir.id)
    BY <1>3, <1>5
  <2>3. f.old \subseteq Hand(s) /\ f.found \subseteq Hand(s)
    BY <2>2, ListedOnHand
  <2>4. f \in DeleteFrames(x.s)
    BY <1>3, <1>10, <2>2, <2>3 DEF DeleteFrames
  <2>5. f.dir.id \in DOMAIN x.s.kids /\ f.dir \in x.s.kids[Up(q, p, 1)] /\ f.old \cup f.found \subseteq x.s.kids[f.dir.id]
    BY <2>2, <1>5, <1>8
  <2>6. PICK fs : fs = <<f>> \o q
    OBVIOUS
  <2>7. Chain(x.s, p, fs) /\ Dirty(fs, p) = Dirty(q, p) \cup {f.dir.id}
    <3>1. OnTop(x.s, p, f, q)
      BY <2>4, <2>5 DEF OnTop
    <3>2. Taller(x.s, p, f, q, <<f>> \o q)
      BY <3>1, <1>8, <1>10, ChainPushed
    <3> QED BY <3>2, <2>6 DEF Taller
  <2>8. fs \in Seq(DeleteFrames(x.s))
    BY <2>4, <2>6, <1>10, Pushed
  <2>9. Stale(x.s.dev, x.s.kids) \subseteq B \cup Dirty(fs, p)
    BY <2>7, <1>9
  <2>10. o.r = fs
    BY <2>1, <2>6
  <2> QED BY <2>7, <2>8, <2>9, <2>10, <1>4, <1>6, StalingIs
<1> QED BY <1>11, <1>12

LEMMA DeleteAllStale ==
  ASSUME NEW s, Good(s), NEW p, NEW f, NEW outer \in Seq(DeleteFrames(s)), OnTop(s, p, f, outer), Chain(s, p, outer),
         Up(outer, p, 1) \in DOMAIN s.kids, f.old \cup f.found # {},
         NEW B, Stale(s.dev, s.kids) \subseteq B \cup Dirty(outer, p) \cup {f.dir.id}, NEW o \in DeleteAll(s, f, outer)
  PROVE  Staling(B, p, o)
<1> DEFINE n == Oldest(IF f.old # {} THEN f.old ELSE f.found)
           rest == IF f.old # {} THEN [f EXCEPT !.old = @ \ {n}] ELSE [f EXCEPT !.found = @ \ {n}]
           q == <<rest>> \o outer
<1>0. /\ f \in DeleteFrames(s) /\ f.dir.id \in DOMAIN s.kids /\ f.dir \in s.kids[Up(outer, p, 1)]
      /\ f.old \cup f.found \subseteq s.kids[f.dir.id]
  BY DEF OnTop
<1>1. f.old \subseteq Hand(s) /\ f.found \subseteq Hand(s) /\ Hand(s) \subseteq Nodes
  BY <1>0 DEF DeleteFrames, Hand
<1>2. n \in Hand(s) /\ n \in f.old \cup f.found
  <2>1. CASE f.old # {}
    <3>1. Oldest(f.old) \in f.old
      BY <1>1, <2>1, OldestIsOne
    <3> QED BY <3>1, <2>1, <1>1
  <2>2. CASE f.old = {}
    <3>1. Oldest(f.found) \in f.found
      BY <1>1, <2>2, OldestIsOne
    <3> QED BY <3>1, <2>2, <1>1
  <2> QED BY <2>1, <2>2
<1>3. rest \in DeleteFrames(s) /\ rest.dir = f.dir /\ rest.old \cup rest.found \subseteq f.old \cup f.found
  <2> HIDE DEF n
  <2>1. CASE f.old # {}
    BY <2>1, <1>0 DEF DeleteFrames
  <2>2. CASE f.old = {}
    BY <2>2, <1>0 DEF DeleteFrames
  <2> QED BY <2>1, <2>2
<1>4. o \in IF n.dir THEN Enter(s, n, q) ELSE Then(DeleteObject(s, n.id), LAMBDA t, ok : {Out(t, IF ok THEN q ELSE Nil)})
  BY DEF DeleteAll
<1> HIDE DEF n, rest
<1>5. q = <<rest>> \o outer
  OBVIOUS
<1> HIDE DEF q
<1>6. OnTop(s, p, rest, outer)
  BY <1>0, <1>3 DEF OnTop
<1>7. Taller(s, p, rest, outer, <<rest>> \o outer)
  BY <1>6, ChainPushed
<1>8. Chain(s, p, q) /\ Dirty(q, p) = Dirty(outer, p) \cup {f.dir.id}
  BY <1>3, <1>5, <1>7 DEF Taller
<1>9. q \in Seq(DeleteFrames(s)) /\ Len(q) = Len(outer) + 1 /\ q[1] = rest
  BY <1>3, <1>5, Pushed
<1>10. Stale(s.dev, s.kids) \subseteq B \cup Dirty(q, p)
  BY <1>8
<1>11. CASE n.dir
  <2>1. o \in Enter(s, n, q)
    BY <1>4, <1>5, <1>11
  <2>2. Up(q, p, 1) = f.dir.id
    <3>1. Len(outer) \in Nat
      OBVIOUS
    <3>2. 1 \in 1 .. Len(q)
      BY <3>1, <1>9
    <3> QED BY <3>2, <1>3, <1>9 DEF Up
  <2>3. n \in s.kids[Up(q, p, 1)] /\ Up(q, p, 1) \in DOMAIN s.kids
    BY <2>2, <1>0, <1>2
  <2> QED BY <2>1, <2>3, <1>2, <1>8, <1>9, <1>10, <1>11, EnterStale
<1>12. CASE ~n.dir
  <2>0. PICK x \in DeleteObject(s, n.id) :
          o \in IF Halted(x.s) THEN {Out(x.s, Aborted)} ELSE {Out(x.s, IF x.r THEN q ELSE Nil)}
    BY <1>4, <1>12 DEF Then
  <2>2. /\ Good(x.s) /\ Later(s, x.s)
        /\ x.s.kids = s.kids
        /\ x.r = TRUE \/ x.r = FALSE
    <3>1. Good(x.s) /\ Later(s, x.s) /\ x.s.kids = s.kids
      BY DeleteObjectKeeps
    <3>2. x.r = TRUE \/ x.r = FALSE
      BY DeleteObjectKeeps
    <3> QED BY <3>1, <3>2
  <2>3. o.s = x.s /\ (Halted(x.s) \/ o.r = Nil \/ o.r = q)
    BY <2>0, <2>2 DEF Out
  <2>4. q \in Seq(DeleteFrames(x.s))
    BY <2>2, <1>9, FramesLater
  <2>5. Stale(x.s.dev, x.s.kids) \subseteq Stale(s.dev, s.kids) \cup {f.dir.id}
    BY <1>0, <1>2, DeleteObjectStale
  <2>6. Stale(x.s.dev, x.s.kids) \subseteq B \cup Dirty(q, p)
    BY <2>5, <1>8, <1>10
  <2>7. Chain(x.s, p, q)
    BY <2>2, <1>8 DEF Chain
  <2>8. CASE Halted(x.s)
    BY <2>3, <2>8 DEF Staling
  <2>9. CASE o.r = Nil \/ o.r = q
    BY <2>2, <2>3, <2>4, <2>6, <2>7, <2>9, StalingIs
  <2> QED BY <2>3, <2>8, <2>9
<1> QED BY <1>11, <1>12

LEMMA DeleteEmptyStale ==
  ASSUME NEW s, Good(s), NEW p, NEW f, NEW outer \in Seq(DeleteFrames(s)), OnTop(s, p, f, outer), Chain(s, p, outer),
         Up(outer, p, 1) \in DOMAIN s.kids, Up(outer, p, 1) \in Dirty(outer, p),
         NEW B, Stale(s.dev, s.kids) \subseteq B \cup Dirty(outer, p) \cup {f.dir.id}, NEW o \in DeleteEmpty(s, f, outer)
  PROVE  Staling(B, p, o)
<1>0. /\ f \in DeleteFrames(s) /\ f.dir.id \in DOMAIN s.kids /\ f.dir \in s.kids[Up(outer, p, 1)]
  BY DEF OnTop
<1>1. PICK t : t = DeleteSubCache(s, f.dir.id)
  OBVIOUS
<1>2. PICK x \in EvaluateChildren(t, f.dir.id) :
        o \in IF Halted(x.s) THEN {Out(x.s, Aborted)}
              ELSE IF x.r # {} THEN {Out(x.s, Nil)}
              ELSE Then(DeleteObject(x.s, f.dir.id), LAMBDA u, ok : {Out(u, IF ok THEN outer ELSE Nil)})
  BY <1>1 DEF DeleteEmpty, Then
<1>3. /\ Good(t) /\ Later(s, t) /\ t.dev = s.dev
      /\ DOMAIN t.kids = DOMAIN s.kids \ Below(s.kids, f.dir.id)
      /\ \A j \in DOMAIN t.kids : t.kids[j] = s.kids[j]
  BY <1>1, DeleteSubCacheKeeps
<1>4. f.dir \in Hand(s) /\ f.dir.dir
  BY <1>0 DEF DeleteFrames
<1>5. f.dir \in Hand(t)
  BY <1>3, <1>4, HandLater
<1>6. f.dir.id \in Keys /\ f.dir.id \in t.taken \cup {Root} /\ (f.dir.id \in DOMAIN t.dev => t.dev[f.dir.id].dir)
  BY <1>4, <1>5 DEF Hand, OnHand
<1>7. Good(x.s) /\ Later(t, x.s)
  BY <1>3, <1>6, EvaluateChildrenKeeps
<1>8. Later(s, x.s)
  BY <1>3, <1>7, LaterTransitive
<1>9. Dirty(outer, p) \cap Below(s.kids, f.dir.id) = {}
  BY <1>0, ChainAbove
<1>10. f.dir.id \in Below(s.kids, f.dir.id)
  BY <1>0, BelowSelf
<1>11. CASE Halted(x.s)
  <2>1. o \in {Out(x.s, Aborted)}
    BY <1>2, <1>11, Zenon
  <2> QED BY <2>1, <1>11, OutIs DEF Staling
<1>12. CASE ~Halted(x.s)
  <2>1. x.r # {} => o \in {Out(x.s, Nil)}
    BY <1>2, <1>12, Zenon
  <2>2. x.r = {} => o \in Then(DeleteObject(x.s, f.dir.id), LAMBDA u, ok : {Out(u, IF ok THEN outer ELSE Nil)})
    BY <1>2, <1>12
  <2>3. CASE "listing" \in x.s.bad
    <3>1. CASE x.r # {}
      BY <2>1, <2>3, <3>1, OutIs DEF Staling
    <3>2. CASE x.r = {}
      <4>1. PICK y \in DeleteObject(x.s, f.dir.id) :
              o \in IF Halted(y.s) THEN {Out(y.s, Aborted)} ELSE {Out(y.s, IF y.r THEN outer ELSE Nil)}
        BY <2>2, <3>2 DEF Then
      <4>2. o.s = y.s
        BY <4>1 DEF Out
      <4>3. Later(x.s, y.s)
        BY <1>7, DeleteObjectKeeps
      <4> QED BY <4>2, <4>3, <2>3 DEF Staling, Later
    <3> QED BY <3>1, <3>2
  <2>4. CASE "listing" \notin x.s.bad
    <3>1. Reads(t, f.dir.id, x)
      BY <2>4, <1>3, <1>6, <1>12, EvaluateChildrenFresh
    <3>2. DOMAIN x.s.kids = DOMAIN t.kids \cup {f.dir.id} /\ \A j \in DOMAIN t.kids \ {f.dir.id} : x.s.kids[j] = t.kids[j]
      BY <3>1 DEF Reads
    <3>3. Stale(x.s.dev, x.s.kids) \subseteq B \cup Dirty(outer, p)
      <4>1. Stale(x.s.dev, x.s.kids) \subseteq Stale(t.dev, t.kids)
        BY <3>1 DEF Reads
      <4>2. Stale(t.dev, t.kids) \subseteq Stale(s.dev, s.kids) \ {f.dir.id}
        BY <1>3, <1>10 DEF Stale
      <4> QED BY <4>1, <4>2
    <3>4. \A j \in DOMAIN s.kids \cap Dirty(outer, p) : j \in DOMAIN x.s.kids /\ x.s.kids[j] = s.kids[j]
      BY <3>2, <1>3, <1>9, <1>10
    <3>5. Chain(x.s, p, outer)
      <4>1. p \in Dirty(outer, p) /\ \A k \in 1 .. Len(outer) : outer[k].dir.id \in Dirty(outer, p)
        BY DEF Dirty
      <4>2. ASSUME NEW k \in 1 .. Len(outer)
            PROVE  Up(outer, p, k + 1) \in Dirty(outer, p)
        BY <4>1 DEF Up
      <4>3. p \in DOMAIN x.s.kids
        BY <3>4, <4>1 DEF Chain
      <4>4. ASSUME NEW k \in 1 .. Len(outer)
            PROVE  /\ outer[k].dir.id \in DOMAIN x.s.kids /\ Up(outer, p, k + 1) \in DOMAIN x.s.kids
                   /\ outer[k].dir \in x.s.kids[Up(outer, p, k + 1)]
                   /\ outer[k].old \cup outer[k].found \subseteq x.s.kids[outer[k].dir.id]
        <5>1. /\ outer[k].dir.id \in DOMAIN s.kids /\ Up(outer, p, k + 1) \in DOMAIN s.kids
              /\ outer[k].dir \in s.kids[Up(outer, p, k + 1)]
              /\ outer[k].old \cup outer[k].found \subseteq s.kids[outer[k].dir.id]
          BY DEF Chain
        <5>2. outer[k].dir.id \in Dirty(outer, p) /\ Up(outer, p, k + 1) \in Dirty(outer, p)
          BY <4>1, <4>2
        <5>3. /\ outer[k].dir.id \in DOMAIN x.s.kids /\ x.s.kids[outer[k].dir.id] = s.kids[outer[k].dir.id]
              /\ Up(outer, p, k + 1) \in DOMAIN x.s.kids /\ x.s.kids[Up(outer, p, k + 1)] = s.kids[Up(outer, p, k + 1)]
          BY <5>1, <5>2, <3>4
        <5> QED BY <5>1, <5>3
      <4> QED BY <4>3, <4>4 DEF Chain
    <3>6. outer \in Seq(DeleteFrames(x.s))
      BY <1>7, <1>8, FramesLater
    <3>7. CASE x.r # {}
      <4>1. o.s = x.s /\ o.r = Nil
        BY <2>1, <3>7, OutIs
      <4> QED BY <4>1, <3>3, <3>5, <3>6, <1>7, StalingIs
    <3>8. CASE x.r = {}
      <4>1. PICK y \in DeleteObject(x.s, f.dir.id) :
              o \in IF Halted(y.s) THEN {Out(y.s, Aborted)} ELSE {Out(y.s, IF y.r THEN outer ELSE Nil)}
        BY <2>2, <3>8 DEF Then
      <4>2. Good(y.s) /\ Later(x.s, y.s) /\ (y.r = TRUE \/ y.r = FALSE) /\ y.s.kids = x.s.kids
        BY <1>7, DeleteObjectKeeps
      <4>3. o.s = y.s /\ (Halted(y.s) \/ o.r = Nil \/ o.r = outer)
        BY <4>1, <4>2 DEF Out
      <4>4. outer \in Seq(DeleteFrames(y.s))
        BY <4>2, <3>6, <1>7, FramesLater
      <4>5. Up(outer, p, 1) \in DOMAIN x.s.kids /\ f.dir \in x.s.kids[Up(outer, p, 1)]
        BY <3>4, <1>0
      <4>6. Stale(y.s.dev, y.s.kids) \subseteq Stale(x.s.dev, x.s.kids) \cup {Up(outer, p, 1)}
        BY <4>5, <1>7, DeleteObjectStale
      <4>7. Stale(y.s.dev, y.s.kids) \subseteq B \cup Dirty(outer, p)
        BY <4>6, <3>3
      <4>8. Chain(y.s, p, outer)
        BY <4>2, <3>5 DEF Chain
      <4>9. CASE Halted(y.s)
        BY <4>3, <4>9 DEF Staling
      <4>10. CASE o.r = Nil \/ o.r = outer
        BY <4>2, <4>3, <4>4, <4>7, <4>8, <4>10, StalingIs
      <4> QED BY <4>3, <4>9, <4>10
    <3> QED BY <3>7, <3>8
  <2> QED BY <2>3, <2>4
<1> QED BY <1>11, <1>12

LEMMA DeleteStepStale ==
  ASSUME NEW B, NEW p, NEW o, Good(o.s), ~Halted(o.s), Staling(B, p, o), NEW x \in DeleteStep(o.s, o.r), Later(o.s, x.s)
  PROVE  Staling(B, p, x)
<1>1. CASE "listing" \in o.s.bad
  BY <1>1 DEF Staling, Later
<1>2. CASE o.r = Nil \/ o.r = <<>>
  <2>1. x.s = o.s /\ x.r = o.r
    BY <1>2 DEF DeleteStep, Out
  <2> QED BY <2>1 DEF Staling
<1>3. CASE "listing" \notin o.s.bad /\ o.r # Nil /\ o.r # <<>>
  <2>1. /\ o.r \in Seq(DeleteFrames(o.s)) /\ Chain(o.s, p, o.r)
        /\ Stale(o.s.dev, o.s.kids) \subseteq B \cup Dirty(o.r, p)
    BY <1>3 DEF Staling
  <2>2. PICK f, outer : f = Head(o.r) /\ outer = Tail(o.r)
    OBVIOUS
  <2>3. f \in DeleteFrames(o.s) /\ outer \in Seq(DeleteFrames(o.s))
    BY <2>1, <2>2, <1>3, Popped
  <2>0. Down(o.s, p, o.r, f, outer)
    BY <2>1, <2>2, <1>3, ChainPopped
  <2>4. /\ Chain(o.s, p, outer) /\ Dirty(o.r, p) = Dirty(outer, p) \cup {f.dir.id}
        /\ f.dir.id \in DOMAIN o.s.kids /\ Up(outer, p, 1) \in DOMAIN o.s.kids
        /\ f.dir \in o.s.kids[Up(outer, p, 1)] /\ Up(outer, p, 1) \in Dirty(outer, p)
        /\ f.old \cup f.found \subseteq o.s.kids[f.dir.id]
    BY <2>0 DEF Down
  <2>5. OnTop(o.s, p, f, outer)
    BY <2>3, <2>4 DEF OnTop
  <2>6. Stale(o.s.dev, o.s.kids) \subseteq B \cup Dirty(outer, p) \cup {f.dir.id}
    BY <2>1, <2>4
  <2>7. x \in IF f.old \cup f.found # {} THEN DeleteAll(o.s, f, outer) ELSE DeleteEmpty(o.s, f, outer)
    BY <2>2, <1>3 DEF DeleteStep
  <2>8. CASE f.old \cup f.found # {}
    BY <2>3, <2>4, <2>5, <2>6, <2>7, <2>8, DeleteAllStale
  <2>9. CASE f.old \cup f.found = {}
    BY <2>3, <2>4, <2>5, <2>6, <2>7, <2>9, DeleteEmptyStale
  <2> QED BY <2>8, <2>9
<1> QED BY <1>1, <1>2, <1>3

\* Deleting a node leaves stale only listings below the directory it is in.
DeletedStale(B, p, t) ==
  \/ "listing" \in t.bad \/ Halted(t)
  \/ p \in DOMAIN t.kids /\ Stale(t.dev, t.kids) \subseteq B \cup Below(t.kids, p)

LEMMA DeleteMeStale ==
  ASSUME NEW s, Good(s), NEW p \in DOMAIN s.kids, NEW node \in s.kids[p], node \in Hand(s), NEW o \in DeleteMe(s, node)
  PROVE  DeletedStale(Stale(s.dev, s.kids), p, o.s)
<1> DEFINE B == Stale(s.dev, s.kids)
<1> HIDE DEF B
<1>1. CASE ~node.dir
  <2>1. o \in DeleteObject(s, node.id)
    BY <1>1 DEF DeleteMe
  <2>2. Stale(o.s.dev, o.s.kids) \subseteq B \cup {p}
    BY <2>1, DeleteObjectStale DEF B
  <2>3. o.s.kids = s.kids
    BY <2>1, DeleteObjectKeeps
  <2>4. p \in Below(o.s.kids, p)
    BY <2>3, BelowSelf
  <2> QED BY <2>2, <2>3, <2>4 DEF DeletedStale, B
<1>2. CASE node.dir
  <2> DEFINE A == Enter(s, node, <<>>)
             W == CHOOSE W : W = [n \in 0 .. MaxSteps |-> IF n = 0 THEN A ELSE DeleteOn(W[n - 1])]
             Ok(x) == Deleting(s, x) /\ Staling(B, p, x)
  <2>1. PICK x \in W[MaxSteps] :
          o \in IF Halted(x.s) THEN {Out(x.s, Aborted)}
                ELSE IF x.r = Nil \/ x.r = <<>> THEN {Out(x.s, x.r # Nil)} ELSE {}
    BY <1>2 DEF DeleteMe, Then, DeleteOn
  <2>2. \A x2 \in A : Ok(x2)
    <3> SUFFICES ASSUME NEW x2 \in A PROVE Ok(x2)
      OBVIOUS
    <3>1. PICK q : q = <<>>
      OBVIOUS
    <3>2. q \in Seq(DeleteFrames(s)) /\ Len(q) = 0 /\ x2 \in Enter(s, node, q)
      BY <3>1
    <3>3. Deleting(s, x2)
      BY <3>2, <1>2, EnterKeeps
    <3>4. 1 .. Len(q) = {} /\ 1 \notin 1 .. Len(q)
      BY <3>2
    <3>5. Up(q, p, 1) = p /\ Chain(s, p, q) /\ p \in Dirty(q, p)
      BY <3>4 DEF Up, Chain, Dirty
    <3>6. Stale(s.dev, s.kids) \subseteq B \cup Dirty(q, p)
      BY DEF B
    <3>7. Staling(B, p, x2)
      BY <3>2, <3>5, <3>6, <1>2, EnterStale
    <3> QED BY <3>3, <3>7
  <2>3. ASSUME NEW outs, \A x2 \in outs : Ok(x2)
        PROVE  \A x2 \in DeleteOn(outs) : Ok(x2)
    <3> SUFFICES ASSUME NEW x2 \in DeleteOn(outs) PROVE Ok(x2)
      OBVIOUS
    <3>1. PICK y \in outs : x2 \in IF Halted(y.s) THEN {Out(y.s, Aborted)} ELSE DeleteStep(y.s, y.r)
      BY DEF DeleteOn, Then
    <3>0. Deleting(s, y) /\ Staling(B, p, y)
      BY <2>3
    <3>2. CASE Halted(y.s)
      <4>1. x2.s = y.s
        BY <3>1, <3>2 DEF Out
      <4> QED BY <4>1, <3>2, <3>0 DEF Deleting, Staling
    <3>3. CASE ~Halted(y.s)
      <4>1. x2 \in DeleteStep(y.s, y.r) /\ Good(y.s)
        BY <3>0, <3>1, <3>3 DEF Deleting
      <4>2. Deleting(s, x2)
        BY <4>1, <3>0, <3>3, DeleteStepKeeps
      <4>3. Deleting(y.s, y)
        BY <3>0, LaterReflexive DEF Deleting
      <4>4. Deleting(y.s, x2)
        BY <4>1, <4>3, <3>3, DeleteStepKeeps
      <4>5. Staling(B, p, x2)
        BY <4>1, <4>4, <3>0, <3>3, DeleteStepStale DEF Deleting
      <4> QED BY <4>2, <4>5
    <3> QED BY <3>2, <3>3
  <2>0. MaxSteps \in Nat
    BY BoundsAssumption
  <2> HIDE DEF A
  <2>5. W = [n \in 0 .. MaxSteps |-> IF n = 0 THEN A ELSE DeleteOn(W[n - 1])]
    <3>1. \E f : DeleteSteps(MaxSteps, A, f)
      BY <2>0, DeleteRun
    <3> QED BY <3>1 DEF DeleteSteps
  <2> HIDE DEF W, Ok
  <2> DEFINE C == [n \in 0 .. MaxSteps |-> IF \A x2 \in W[n] : Ok(x2) THEN {W[n]} ELSE {}]
  <2>6. W[0] \in C[0]
    BY <2>0, <2>2, <2>5
  <2>7. \A n \in 1 .. MaxSteps : W[n - 1] \in C[n - 1] => W[n] \in C[n]
    <3> SUFFICES ASSUME NEW n \in 1 .. MaxSteps, W[n - 1] \in C[n - 1]
                 PROVE  W[n] \in C[n]
      OBVIOUS
    <3>1. n - 1 \in 0 .. MaxSteps /\ n \in 0 .. MaxSteps /\ n # 0
      BY <2>0
    <3>2. \A x2 \in W[n - 1] : Ok(x2)
      BY <3>1
    <3>3. W[n] = DeleteOn(W[n - 1])
      BY <2>5, <3>1
    <3>4. \A x2 \in W[n] : Ok(x2)
      BY <2>3, <3>2, <3>3
    <3> QED BY <3>1, <3>4
  <2>8. \A n \in 0 .. MaxSteps : W[n] \in C[n]
    <3> HIDE DEF C
    <3> QED BY <2>0, <2>6, <2>7, Climbing
  <2>9. \A x2 \in W[MaxSteps] : Ok(x2)
    <3>1. MaxSteps \in 0 .. MaxSteps
      BY <2>0
    <3>2. C[MaxSteps] = IF \A x2 \in W[MaxSteps] : Ok(x2) THEN {W[MaxSteps]} ELSE {}
      BY <3>1
    <3>3. W[MaxSteps] \in C[MaxSteps]
      BY <3>1, <2>8
    <3> HIDE DEF C
    <3> QED BY <3>2, <3>3
  <2>10. o.s = x.s /\ (Halted(x.s) \/ x.r = Nil \/ x.r = <<>>)
    BY <2>1 DEF Out
  <2>11. Deleting(s, x) /\ Staling(B, p, x)
    BY <2>9 DEF Ok
  <2>12. CASE Halted(x.s) \/ "listing" \in x.s.bad
    BY <2>10, <2>12 DEF DeletedStale
  <2>13. CASE x.r = Nil /\ ~Halted(x.s) /\ "listing" \notin x.s.bad
    BY <2>10, <2>11, <2>13 DEF DeletedStale, Staling, B
  <2>14. CASE x.r # Nil /\ x.r = <<>> /\ ~Halted(x.s) /\ "listing" \notin x.s.bad
    <3>1. p \in DOMAIN x.s.kids /\ Stale(x.s.dev, x.s.kids) \subseteq B \cup Dirty(x.r, p)
      BY <2>11, <2>14 DEF Staling, Chain
    <3>2. Len(x.r) = 0
      BY <2>14
    <3>3. Dirty(x.r, p) = {p}
      BY <3>2 DEF Dirty
    <3>4. p \in Below(x.s.kids, p)
      BY <3>1, BelowSelf
    <3>5. Stale(x.s.dev, x.s.kids) \subseteq B \cup Below(x.s.kids, p)
      BY <3>1, <3>3, <3>4
    <3> QED BY <3>1, <3>5, <2>10 DEF DeletedStale, B
  <2> QED BY <2>10, <2>12, <2>13, <2>14
<1> QED BY <1>1, <1>2

\* When the listings below that directory are thrown away nothing has become stale.
LEMMA DeletedFresh ==
  ASSUME NEW s, NEW p, NEW t, Good(t), DeletedStale(Stale(s.dev, s.kids), p, t), NEW u, u = DeleteSubCache(t, p)
  PROVE  Fresh(s, u)
<1>1. /\ u.dev = t.dev /\ u.bad = t.bad
      /\ DOMAIN u.kids = DOMAIN t.kids \ Below(t.kids, p)
      /\ \A j \in DOMAIN u.kids : u.kids[j] = t.kids[j]
  BY DeleteSubCacheKeeps
<1>2. Stale(u.dev, u.kids) \subseteq Stale(t.dev, t.kids) \ Below(t.kids, p)
  BY <1>1 DEF Stale
<1>3. Halted(t) => Halted(u)
  BY <1>1 DEF Halted
<1> QED BY <1>1, <1>2, <1>3 DEF DeletedStale, Fresh

-----------------------------------------------------------------------------
(* The operations on paths: the state stays good, and no listing stale.    *)

Paths == CallPaths \ {<<>>}

LEMMA PathFacts ==
  ASSUME NEW p \in Paths
  PROVE  /\ Len(p) \in Nat \ {0} /\ \E T : p \in Seq(T)
         /\ Len(Front(p)) = Len(p) - 1 /\ Len(Front(p)) \in Nat
         /\ \A i \in 1 .. Len(p) - 1 : Front(p)[i] = p[i]
         /\ Last(p) = p[Len(p)] /\ Last(p) \in AllNames
<1>1. PICK T : p \in Seq(T)
  BY PathAssumption DEF Paths
<1>2. p # <<>> /\ Len(p) \in Nat \ {0}
  BY <1>1 DEF Paths
<1>3. Front(p) = SubSeq(p, 1, Len(p) - 1) /\ Last(p) = p[Len(p)]
  BY DEF Front, Last
<1>4. Len(Front(p)) = Len(p) - 1 /\ \A i \in 1 .. Len(p) - 1 : Front(p)[i] = p[i]
  <2>1. PICK l \in Nat : l = Len(p) - 1
    BY <1>2
  <2>2. Len(SubSeq(p, 1, l)) = l /\ \A i \in 1 .. l : SubSeq(p, 1, l)[i] = p[i]
    BY <1>1, <2>1
  <2> QED BY <2>1, <2>2, <1>3
<1>5. Last(p) \in AllNames
  BY DEF AllNames, Paths
<1> QED BY <1>1, <1>2, <1>3, <1>4, <1>5

\* The directory of a listed node, and the parent as WriteFile makes it.
AsDirectory(p) == [id |-> p, name |-> Nil, dir |-> TRUE]
LEMMA ParentIs ==
  ASSUME NEW s, Good(s), NEW n, \E i \in DOMAIN s.kids : n \in s.kids[i], NEW p, p = Parent(s, n)
  PROVE  /\ p \in DOMAIN s.kids /\ n \in s.kids[p]
         /\ \A i \in DOMAIN s.kids : n \in s.kids[i] => i = p
         /\ OnHand(s, AsDirectory(p))
<1>1. p \in DOMAIN s.kids /\ n \in s.kids[p]
  BY DEF Parent
<1>2. \A i \in DOMAIN s.kids : n \in s.kids[i] => i = p
  BY <1>1 DEF Good, Sound, Unique
<1>3. s.kids \in Caches
  BY DEF Good, States
<1>4. p \in Keys /\ p \in s.taken \cup {Root} /\ (p \in DOMAIN s.dev => s.dev[p].dir)
  BY <1>1, <1>3, CachesType DEF Good, Held, Sound, ListsDirs
<1>5. p \in DOMAIN s.dev => s.dev[p].dir = TRUE
  <2>1. s.dev \in Devices
    BY DEF Good, States
  <2>2. p \in DOMAIN s.dev => s.dev[p].dir \in BOOLEAN
    BY <2>1, DevicesType DEF Objects
  <2> QED BY <2>2, <1>4
<1> QED BY <1>1, <1>2, <1>4, <1>5 DEF OnHand, AsDirectory

\* What a request leaves that neither renames an object nor frees a node in use.
Keeps(s, t) == Good(t) /\ Later(s, t) /\ Fresh(s, t)

LEMMA KeepsOn ==
  ASSUME NEW s, NEW t, Keeps(s, t), NEW u, Keeps(t, u)
  PROVE  Keeps(s, u)
BY LaterTransitive, FreshTransitive DEF Keeps

LEMMA KeepsSame ==
  ASSUME NEW s, Good(s)
  PROVE  Keeps(s, s)
BY LaterReflexive, SameFresh DEF Keeps

\* What looking up a path leaves: what the operations use of it.
Found(s, path, o) ==
  /\ Keeps(s, o.s) /\ Grown(s, o.s)
  /\ Halted(o.s) \/ o.r = Nil \/ OnHand(o.s, o.r)
  /\ ~Halted(o.s) /\ o.r # Nil /\ Len(path) # 0 =>
       o.r \in Hand(o.s) /\ \E i \in DOMAIN o.s.kids : o.r \in o.s.kids[i]

LEMMA Finding ==
  ASSUME NEW s, Good(s), NEW path, Len(path) \in Nat, NEW o \in FilePathToNode(s, path)
  PROVE  Found(s, path, o)
<1>1. Good(o.s) /\ Later(s, o.s) /\ Grown(s, o.s)
  BY FoundOnHand
<1>2. Halted(o.s) \/ o.r = Nil \/ OnHand(o.s, o.r)
  BY FoundOnHand
<1>3. ~Halted(o.s) /\ o.r # Nil /\ Len(path) # 0 =>
        o.r \in Hand(o.s) /\ \E i \in DOMAIN o.s.kids : o.r \in o.s.kids[i]
  BY FoundOnHand
<1> QED BY <1>1, <1>2, <1>3, GrownFresh DEF Found, Keeps

LEMMA DropKeeps ==
  ASSUME NEW s, Good(s), NEW i
  PROVE  Keeps(s, DeleteSubCache(s, i))
<1>1. PICK t : t = DeleteSubCache(s, i)
  OBVIOUS
<1>2. /\ Good(t) /\ Later(s, t) /\ t.dev = s.dev
      /\ DOMAIN t.kids = DOMAIN s.kids \ Below(s.kids, i)
      /\ \A j \in DOMAIN t.kids : t.kids[j] = s.kids[j]
  BY <1>1, DeleteSubCacheKeeps
<1>3. Stale(t.dev, t.kids) \subseteq Stale(s.dev, s.kids)
  BY <1>2 DEF Stale
<1> QED BY <1>1, <1>2, <1>3 DEF Keeps, Fresh

\* An object is made and the listing of its directory thrown away.
Made(s, node, o) ==
  /\ Good(o.s) /\ Later(s, o.s)
  /\ Keeps(s, DeleteSubCache(o.s, node.id))
  /\ o.r = TRUE \/ (o.r = FALSE /\ Keeps(s, o.s))

LEMMA CreateObjectMakes ==
  ASSUME NEW s, Good(s), NEW node, OnHand(s, node), NEW object \in Objects, object.parent = node.id,
         NEW o \in CreateObject(s, node, object)
  PROVE  Made(s, node, o)
<1>0. /\ Good(o.s) /\ Later(s, o.s) /\ o.s.kids = s.kids
      /\ \/ o.s.dev = s.dev /\ o.r = FALSE
         \/ /\ o.r = TRUE /\ o.s.bad = s.bad
            /\ \E i \in Ids \ s.taken : o.s.dev = Put(s.dev, i, object)
  BY CreateObjectKeeps
<1>1. Good(o.s) /\ Later(s, o.s) /\ o.s.kids = s.kids
  BY <1>0
<1>2. \/ o.s.dev = s.dev /\ o.r = FALSE
      \/ o.r = TRUE /\ \E i \in Ids \ s.taken : o.s.dev = Put(s.dev, i, object)
  BY <1>0
<1>3. PICK t : t = DeleteSubCache(o.s, node.id)
  OBVIOUS
<1>4. /\ Good(t) /\ Later(o.s, t) /\ t.dev = o.s.dev
      /\ DOMAIN t.kids = DOMAIN o.s.kids \ Below(o.s.kids, node.id)
      /\ \A j \in DOMAIN t.kids : t.kids[j] = o.s.kids[j]
  BY <1>1, <1>3, DeleteSubCacheKeeps
<1>5. Later(s, t)
  BY <1>1, <1>4, LaterTransitive
<1>6. CASE o.s.dev = s.dev /\ o.r = FALSE
  <2>1. Keeps(s, o.s)
    BY <1>1, <1>6, SameFresh DEF Keeps
  <2>2. Keeps(o.s, t)
    BY <1>1, <1>3, DropKeeps
  <2> QED BY <2>1, <2>2, <1>1, <1>3, <1>6, KeepsOn DEF Made
<1>7. CASE o.r = TRUE /\ \E i \in Ids \ s.taken : o.s.dev = Put(s.dev, i, object)
  <2>1. PICK i \in Ids \ s.taken : o.s.dev = Put(s.dev, i, object)
    BY <1>7
  <2>2. i \notin DOMAIN s.dev
    BY <2>1 DEF Good, Held
  <2>3. \A j : j # node.id => Children(o.s.dev, j) = Children(s.dev, j)
    BY <2>1, <2>2, ChildrenWith
  <2>4. node.id \notin DOMAIN t.kids
    BY <1>4, BelowSelf
  <2>5. Stale(t.dev, t.kids) \subseteq Stale(s.dev, s.kids)
    BY <2>3, <2>4, <1>1, <1>4 DEF Stale
  <2>6. Keeps(s, t)
    BY <2>5, <1>4, <1>5 DEF Keeps, Fresh
  <2>7. o.r = TRUE
    BY <1>7
  <2>8. Keeps(s, DeleteSubCache(o.s, node.id))
    BY <2>6, <1>3
  <2> QED BY <2>7, <2>8, <1>1 DEF Made
<1> QED BY <1>2, <1>6, <1>7

LEMMA ExistsKeeps ==
  ASSUME NEW s, Good(s), NEW path \in Paths
  PROVE  /\ \A o \in Exists(s, path, IsDirectory) : Keeps(s, o.s)
         /\ \A o \in Exists(s, path, IsFile) : Keeps(s, o.s)
         /\ \A o \in Exists(s, path, LAMBDA n : n # Nil) : Keeps(s, o.s)
<1>1. ASSUME NEW x \in FilePathToNode(s, path), NEW r, NEW o \in {Out(x.s, r)}
      PROVE  Keeps(s, o.s)
  <2>1. Found(s, path, x)
    BY PathFacts, Finding
  <2> QED BY <2>1, <1>1, OutIs DEF Found
<1>2. ASSUME NEW o \in Exists(s, path, IsDirectory)
      PROVE  Keeps(s, o.s)
  <2>1. PICK x \in FilePathToNode(s, path) : o \in IF Halted(x.s) THEN {Out(x.s, Aborted)} ELSE {Out(x.s, IsDirectory(x.r))}
    BY DEF Exists, Then
  <2> QED BY <2>1, <1>1
<1>3. ASSUME NEW o \in Exists(s, path, IsFile)
      PROVE  Keeps(s, o.s)
  <2>1. PICK x \in FilePathToNode(s, path) : o \in IF Halted(x.s) THEN {Out(x.s, Aborted)} ELSE {Out(x.s, IsFile(x.r))}
    BY DEF Exists, Then
  <2> QED BY <2>1, <1>1
<1>4. ASSUME NEW o \in Exists(s, path, LAMBDA n : n # Nil)
      PROVE  Keeps(s, o.s)
  <2>1. PICK x \in FilePathToNode(s, path) : o \in IF Halted(x.s) THEN {Out(x.s, Aborted)} ELSE {Out(x.s, x.r # Nil)}
    BY DEF Exists, Then
  <2> QED BY <2>1, <1>1
<1> QED BY <1>2, <1>3, <1>4

LEMMA ReadFileKeeps ==
  ASSUME NEW s, Good(s), NEW path \in Paths, NEW o \in ReadFile(s, path)
  PROVE  Keeps(s, o.s)
<1>1. PICK x \in FilePathToNode(s, path) :
        o \in IF Halted(x.s) THEN {Out(x.s, Aborted)}
              ELSE IF ~IsFile(x.r) THEN {Out(x.s, FALSE)}
              ELSE Then(ContentToStream(x.s, x.r), LAMBDA u, got : {Out(u, got # Nil)})
  BY DEF ReadFile, Then
<1>2. Keeps(s, x.s)
  BY PathFacts, Finding DEF Found
<1>3. CASE o \in {Out(x.s, Aborted)} \/ o \in {Out(x.s, FALSE)}
  BY <1>2, <1>3, OutIs
<1>4. CASE o \in Then(ContentToStream(x.s, x.r), LAMBDA u, got : {Out(u, got # Nil)})
  <2>1. PICK y \in ContentToStream(x.s, x.r) : o \in IF Halted(y.s) THEN {Out(y.s, Aborted)} ELSE {Out(y.s, y.r # Nil)}
    BY <1>4 DEF Then
  <2>2. o.s = y.s
    BY <2>1, OutIs
  <2>3. Good(x.s)
    BY <1>2 DEF Keeps
  <2>4. Good(y.s) /\ Later(x.s, y.s) /\ y.s.kids = x.s.kids /\ y.s.dev = x.s.dev
    BY <2>3, ContentToStreamKeeps
  <2>5. Keeps(x.s, y.s)
    BY <2>4, SameFresh DEF Keeps
  <2> QED BY <2>2, <2>5, <1>2, KeepsOn
<1> QED BY <1>1, <1>3, <1>4

LEMMA DoForAllDirContentKeeps ==
  ASSUME NEW s, Good(s), NEW path \in Paths, NEW o \in DoForAllDirContent(s, path)
  PROVE  Keeps(s, o.s)
<1>1. PICK x \in FilePathToNode(s, path) :
        o \in IF Halted(x.s) THEN {Out(x.s, Aborted)}
              ELSE IF ~IsDirectory(x.r) THEN {Out(x.s, {})}
              ELSE Then(HaveChildren(x.s, x.r.id), LAMBDA u, listed : {Out(u, Cached(u, x.r.id))})
  BY DEF DoForAllDirContent, Then
<1>2. Keeps(s, x.s) /\ (Halted(x.s) \/ x.r = Nil \/ OnHand(x.s, x.r))
  BY PathFacts, Finding DEF Found
<1>3. CASE o \in {Out(x.s, Aborted)} \/ o \in {Out(x.s, {})}
  BY <1>2, <1>3, OutIs
<1>4. CASE ~Halted(x.s) /\ IsDirectory(x.r) /\ o \in Then(HaveChildren(x.s, x.r.id), LAMBDA u, listed : {Out(u, Cached(u, x.r.id))})
  <2>1. PICK y \in HaveChildren(x.s, x.r.id) : o \in IF Halted(y.s) THEN {Out(y.s, Aborted)} ELSE {Out(y.s, Cached(y.s, x.r.id))}
    BY <1>4 DEF Then
  <2>2. o.s = y.s
    BY <2>1, OutIs
  <2>3. x.r.id \in Keys /\ x.r.id \in x.s.taken \cup {Root} /\ (x.r.id \in DOMAIN x.s.dev => x.s.dev[x.r.id].dir)
    BY <1>2, <1>4 DEF OnHand, IsDirectory
  <2>4. Good(x.s)
    BY <1>2 DEF Keeps
  <2>5. Good(y.s) /\ Later(x.s, y.s) /\ Grown(x.s, y.s)
    BY <2>3, <2>4, HaveChildrenKeeps
  <2>6. Keeps(x.s, y.s)
    BY <2>5, GrownFresh DEF Keeps
  <2> QED BY <2>2, <2>6, <1>2, KeepsOn
<1> QED BY <1>1, <1>3, <1>4

LEMMA ListKeeps ==
  ASSUME NEW s, Good(s), NEW path \in Paths, NEW o \in Then(DoForAllDirContent(s, path), LAMBDA t, nodes : {Out(t, nodes # {})})
  PROVE  Keeps(s, o.s)
<1>1. PICK x \in DoForAllDirContent(s, path) : o \in IF Halted(x.s) THEN {Out(x.s, Aborted)} ELSE {Out(x.s, x.r # {})}
  BY DEF Then
<1>2. o.s = x.s
  <2>1. PICK v : v = (x.r # {})
    OBVIOUS
  <2>2. o \in {Out(x.s, Aborted)} \/ o \in {Out(x.s, v)}
    BY <1>1, <2>1, Zenon
  <2> QED BY <2>2, OutIs
<1> QED BY <1>2, DoForAllDirContentKeeps

\* Making an object in a directory that is looked up.
LEMMA CreateInKeeps ==
  ASSUME NEW s, Good(s), NEW base, Len(base) \in Nat, NEW x \in FilePathToNode(s, base), ~Halted(x.s), x.r # Nil,
         NEW y, Made(x.s, x.r, y), NEW o,
         o.s = DeleteSubCache(y.s, x.r.id) \/ (o.s = y.s /\ (Halted(y.s) \/ y.r = FALSE))
  PROVE  Keeps(s, o.s)
<1>1. Keeps(s, x.s)
  BY Finding DEF Found
<1>2. CASE o.s = DeleteSubCache(y.s, x.r.id)
  <2>1. Keeps(x.s, o.s)
    BY <1>2 DEF Made
  <2> QED BY <2>1, <1>1, KeepsOn
<1>3. CASE o.s = y.s /\ y.r = FALSE
  <2>1. Keeps(x.s, o.s)
    BY <1>3 DEF Made
  <2> QED BY <2>1, <1>1, KeepsOn
<1>4. CASE o.s = y.s /\ Halted(y.s)
  <2>1. Keeps(x.s, o.s)
    BY <1>4 DEF Made, Keeps, Fresh
  <2> QED BY <2>1, <1>1, KeepsOn
<1> QED BY <1>2, <1>3, <1>4

LEMMA CreateFileWithStreamKeeps ==
  ASSUME NEW s, Good(s), NEW base, Len(base) \in Nat, NEW name \in AllNames, NEW content \in AllContents,
         NEW o \in CreateFileWithStream(s, base, name, content)
  PROVE  Keeps(s, o.s)
<1>1. PICK x \in FilePathToNode(s, base) :
        o \in IF Halted(x.s) THEN {Out(x.s, Aborted)}
              ELSE IF x.r = Nil THEN {Out(x.s, FALSE)}
              ELSE Then(CreateNewFileWithStream(x.s, x.r, name, content),
                        LAMBDA u, ok : {Out(IF ok THEN DeleteSubCache(u, x.r.id) ELSE u, ok)})
  BY DEF CreateFileWithStream, CreateIn, Then
<1>2. Keeps(s, x.s) /\ (Halted(x.s) \/ x.r = Nil \/ OnHand(x.s, x.r))
  BY Finding DEF Found
<1>3. CASE o \in {Out(x.s, Aborted)} \/ o \in {Out(x.s, FALSE)}
  BY <1>2, <1>3, OutIs
<1>4. CASE /\ ~Halted(x.s) /\ x.r # Nil
           /\ o \in Then(CreateNewFileWithStream(x.s, x.r, name, content),
                         LAMBDA u, ok : {Out(IF ok THEN DeleteSubCache(u, x.r.id) ELSE u, ok)})
  <2>1. PICK y \in CreateNewFileWithStream(x.s, x.r, name, content) :
          o \in IF Halted(y.s) THEN {Out(y.s, Aborted)}
                ELSE {Out(IF y.r THEN DeleteSubCache(y.s, x.r.id) ELSE y.s, y.r)}
    BY <1>4 DEF Then
  <2>2. Good(x.s) /\ OnHand(x.s, x.r)
    BY <1>2, <1>4 DEF Keeps
  <2>3. PICK object : object = FileProperties(x.r, name, content)
    OBVIOUS
  <2>4. object \in Objects /\ object.parent = x.r.id
    BY <2>2, <2>3, NewObjects
  <2>5. y \in CreateObject(x.s, x.r, object)
    BY <2>1, <2>3 DEF CreateNewFileWithStream
  <2>6. Made(x.s, x.r, y)
    BY <2>2, <2>4, <2>5, CreateObjectMakes
  <2>7. y.r = TRUE \/ y.r = FALSE
    BY <2>6 DEF Made
  <2>8. o.s = DeleteSubCache(y.s, x.r.id) \/ (o.s = y.s /\ (Halted(y.s) \/ y.r = FALSE))
    BY <2>1, <2>7 DEF Out
  <2> QED BY <2>6, <2>8, <1>4, CreateInKeeps
<1> QED BY <1>1, <1>3, <1>4

LEMMA CreateFolderKeeps ==
  ASSUME NEW s, Good(s), NEW base, Len(base) \in Nat, NEW name \in AllNames, NEW o \in CreateFolder(s, base, name)
  PROVE  Keeps(s, o.s)
<1>1. PICK x \in FilePathToNode(s, base) :
        o \in IF Halted(x.s) THEN {Out(x.s, Aborted)}
              ELSE IF x.r = Nil THEN {Out(x.s, FALSE)}
              ELSE Then(CreateNewFolder(x.s, x.r, name),
                        LAMBDA u, ok : {Out(IF ok THEN DeleteSubCache(u, x.r.id) ELSE u, ok)})
  BY DEF CreateFolder, CreateIn, Then
<1>2. Keeps(s, x.s) /\ (Halted(x.s) \/ x.r = Nil \/ OnHand(x.s, x.r))
  BY Finding DEF Found
<1>3. CASE o \in {Out(x.s, Aborted)} \/ o \in {Out(x.s, FALSE)}
  BY <1>2, <1>3, OutIs
<1>4. CASE /\ ~Halted(x.s) /\ x.r # Nil
           /\ o \in Then(CreateNewFolder(x.s, x.r, name),
                         LAMBDA u, ok : {Out(IF ok THEN DeleteSubCache(u, x.r.id) ELSE u, ok)})
  <2>1. PICK y \in CreateNewFolder(x.s, x.r, name) :
          o \in IF Halted(y.s) THEN {Out(y.s, Aborted)}
                ELSE {Out(IF y.r THEN DeleteSubCache(y.s, x.r.id) ELSE y.s, y.r)}
    BY <1>4 DEF Then
  <2>2. Good(x.s) /\ OnHand(x.s, x.r)
    BY <1>2, <1>4 DEF Keeps
  <2>3. PICK object : object = FolderProperties(x.r, name)
    OBVIOUS
  <2>4. object \in Objects /\ object.parent = x.r.id
    BY <2>2, <2>3, NewObjects
  <2>5. y \in CreateObject(x.s, x.r, object)
    BY <2>1, <2>3 DEF CreateNewFolder
  <2>6. Made(x.s, x.r, y)
    BY <2>2, <2>4, <2>5, CreateObjectMakes
  <2>7. y.r = TRUE \/ y.r = FALSE
    BY <2>6 DEF Made
  <2>8. o.s = DeleteSubCache(y.s, x.r.id) \/ (o.s = y.s /\ (Halted(y.s) \/ y.r = FALSE))
    BY <2>1, <2>7 DEF Out
  <2> QED BY <2>6, <2>8, <1>4, CreateInKeeps
<1> QED BY <1>1, <1>3, <1>4

\* A node is deleted, and the listings below its directory p thrown away.
Gone(s, n, p, u) ==
  /\ Good(u.s) /\ Later(s, u.s)
  /\ Keeps(s, DeleteSubCache(u.s, p))
  /\ Halted(u.s) => Keeps(s, u.s)
  /\ ~n.dir => u.r = TRUE \/ (u.r = FALSE /\ Keeps(s, u.s))

LEMMA DeleteMeGone ==
  ASSUME NEW s, Good(s), NEW n \in Hand(s), \E i \in DOMAIN s.kids : n \in s.kids[i],
         NEW p, p = Parent(s, n), NEW u \in DeleteMe(s, n)
  PROVE  Gone(s, n, p, u)
<1>1. p \in DOMAIN s.kids /\ n \in s.kids[p]
  BY DEF Parent
<1>2. Good(u.s) /\ Later(s, u.s)
  BY DeleteMeKeeps
<1>3. DeletedStale(Stale(s.dev, s.kids), p, u.s)
  BY <1>1, DeleteMeStale
<1>4. PICK t : t = DeleteSubCache(u.s, p)
  OBVIOUS
<1>5. Good(t) /\ Later(u.s, t)
  BY <1>2, <1>4, DeleteSubCacheKeeps
<1>6. Fresh(s, t)
  BY <1>2, <1>3, <1>4, DeletedFresh
<1>7. Keeps(s, DeleteSubCache(u.s, p))
  BY <1>2, <1>4, <1>5, <1>6, LaterTransitive DEF Keeps
<1>8. Halted(u.s) => Keeps(s, u.s)
  BY <1>2 DEF Keeps, Fresh
<1>9. ASSUME ~n.dir
      PROVE  u.r = TRUE \/ (u.r = FALSE /\ Keeps(s, u.s))
  <2>1. u \in DeleteObject(s, n.id)
    BY <1>9 DEF DeleteMe
  <2>2. u.r = TRUE \/ u.r = FALSE
    BY <2>1, DeleteObjectKeeps
  <2>3. u.s.kids = s.kids
    BY <2>1, DeleteObjectKeeps
  <2>4. u.s.dev = s.dev \/ u.r = TRUE
    BY <2>1, DeleteObjectKeeps
  <2>5. CASE u.r = FALSE
    BY <2>3, <2>4, <2>5, <1>2, SameFresh DEF Keeps
  <2> QED BY <2>2, <2>5
<1> QED BY <1>2, <1>7, <1>8, <1>9 DEF Gone

LEMMA WriteFileKeeps ==
  ASSUME NEW s, Good(s), NEW path \in Paths, NEW content \in AllContents, NEW o \in WriteFile(s, path, content)
  PROVE  Keeps(s, o.s)
<1>1. PICK x \in FilePathToNode(s, path) :
        o \in IF Halted(x.s) THEN {Out(x.s, Aborted)}
              ELSE IF ~IsFile(x.r) THEN {Out(x.s, FALSE)}
              ELSE Then(DeleteMe(x.s, x.r), LAMBDA u, deleted :
                     IF ~deleted THEN {Out(u, FALSE)} ELSE
                     Then(CreateNewFileWithStream(DeleteSubCache(u, Parent(x.s, x.r)), AsDirectory(Parent(x.s, x.r)), x.r.name, content),
                       LAMBDA v, created :
                         Then(FilePathToNode(DeleteSubCache(v, Parent(x.s, x.r)), path), LAMBDA w, found : {Out(w, created)})))
  BY DEF WriteFile, Then, AsDirectory
<1>2. Found(s, path, x) /\ Len(path) # 0
  BY PathFacts, Finding
<1>3. Keeps(s, x.s) /\ Good(x.s)
  BY <1>2 DEF Found, Keeps
<1>4. CASE o \in {Out(x.s, Aborted)} \/ o \in {Out(x.s, FALSE)}
  BY <1>3, <1>4, OutIs
<1> DEFINE p == Parent(x.s, x.r)
<1>5. p = Parent(x.s, x.r)
  OBVIOUS
<1> HIDE DEF p
<1>6. CASE /\ ~Halted(x.s) /\ IsFile(x.r)
           /\ o \in Then(DeleteMe(x.s, x.r), LAMBDA u, deleted :
                     IF ~deleted THEN {Out(u, FALSE)} ELSE
                     Then(CreateNewFileWithStream(DeleteSubCache(u, p), AsDirectory(p), x.r.name, content),
                       LAMBDA v, created :
                         Then(FilePathToNode(DeleteSubCache(v, p), path), LAMBDA w, found : {Out(w, created)})))
  <2>1. PICK y \in DeleteMe(x.s, x.r) :
          o \in IF Halted(y.s) THEN {Out(y.s, Aborted)}
                ELSE IF ~y.r THEN {Out(y.s, FALSE)} ELSE
                     Then(CreateNewFileWithStream(DeleteSubCache(y.s, p), AsDirectory(p), x.r.name, content),
                       LAMBDA v, created :
                         Then(FilePathToNode(DeleteSubCache(v, p), path), LAMBDA w, found : {Out(w, created)}))
    BY <1>6 DEF Then
  <2>2. x.r # Nil /\ ~x.r.dir
    BY <1>6 DEF IsFile
  <2>3. x.r \in Hand(x.s) /\ \E i \in DOMAIN x.s.kids : x.r \in x.s.kids[i]
    BY <1>2, <1>6, <2>2 DEF Found
  <2>4. Gone(x.s, x.r, p, y)
    BY <1>3, <1>5, <2>1, <2>3, DeleteMeGone
  <2>5. y.r = TRUE \/ (y.r = FALSE /\ Keeps(x.s, y.s))
    BY <2>2, <2>4 DEF Gone
  <2>6. CASE Halted(y.s)
    <3>1. o \in {Out(y.s, Aborted)}
      BY <2>1, <2>6, Zenon
    <3>2. Keeps(x.s, o.s)
      BY <3>1, <2>4, <2>6, OutIs DEF Gone
    <3> QED BY <3>2, <1>3, KeepsOn
  <2>7. CASE ~Halted(y.s) /\ y.r = FALSE /\ Keeps(x.s, y.s)
    <3>1. o \in {Out(y.s, FALSE)}
      BY <2>1, <2>7
    <3>2. o.s = y.s
      BY <3>1, OutIs
    <3> QED BY <3>2, <2>7, <1>3, KeepsOn
  <2>8. CASE ~Halted(y.s) /\ y.r = TRUE
    <3>1. PICK t : t = DeleteSubCache(y.s, p)
      OBVIOUS
    <3>2. PICK d : d = AsDirectory(p)
      OBVIOUS
    <3>3. PICK z \in CreateNewFileWithStream(t, d, x.r.name, content) :
            o \in IF Halted(z.s) THEN {Out(z.s, Aborted)}
                  ELSE Then(FilePathToNode(DeleteSubCache(z.s, p), path), LAMBDA w, found : {Out(w, z.r)})
      <4>1. o \in Then(CreateNewFileWithStream(t, d, x.r.name, content),
                       LAMBDA v, created :
                         Then(FilePathToNode(DeleteSubCache(v, p), path), LAMBDA w, found : {Out(w, created)}))
        BY <2>1, <2>8, <3>1, <3>2
      <4> QED BY <4>1 DEF Then
    <3>4. Keeps(x.s, t)
      BY <2>4, <3>1 DEF Gone
    <3>5. Good(t) /\ Keeps(s, t)
      BY <3>4, <1>3, KeepsOn DEF Keeps
    <3>6. OnHand(t, d) /\ d.id = p
      <4>1. OnHand(x.s, d)
        BY <1>3, <1>5, <2>3, <3>2, ParentIs
      <4>2. d.id = p
        BY <3>2 DEF AsDirectory
      <4> QED BY <4>1, <4>2, <1>3, <3>4, <3>5, OnHandLater DEF Keeps
    <3>7. x.r.name \in AllNames
      BY <2>3 DEF Hand, Nodes
    <3>8. PICK object : object = FileProperties(d, x.r.name, content)
      OBVIOUS
    <3>9. object \in Objects /\ object.parent = d.id
      BY <3>5, <3>6, <3>7, <3>8, NewObjects
    <3>10. z \in CreateObject(t, d, object)
      BY <3>3, <3>8 DEF CreateNewFileWithStream
    <3>11. Made(t, d, z)
      BY <3>5, <3>6, <3>9, <3>10, CreateObjectMakes
    <3>12. CASE Halted(z.s)
      <4>1. o \in {Out(z.s, Aborted)}
        BY <3>3, <3>12, Zenon
      <4>2. Keeps(t, o.s)
        BY <4>1, <3>11, <3>12, OutIs DEF Made, Keeps, Fresh
      <4> QED BY <4>2, <3>5, KeepsOn
    <3>13. CASE ~Halted(z.s)
      <4>1. PICK a : a = DeleteSubCache(z.s, p)
        OBVIOUS
      <4>2. o \in Then(FilePathToNode(a, path), LAMBDA w, found : {Out(w, z.r)})
        BY <3>3, <3>13, <4>1
      <4>3. PICK w \in FilePathToNode(a, path) : o \in IF Halted(w.s) THEN {Out(w.s, Aborted)} ELSE {Out(w.s, z.r)}
        BY <4>2 DEF Then
      <4>4. o.s = w.s
        BY <4>3, OutIs
      <4>5. Keeps(t, a)
        BY <3>6, <3>11, <4>1 DEF Made
      <4>6. Good(a)
        BY <4>5 DEF Keeps
      <4>7. Keeps(a, w.s)
        BY <4>6, PathFacts, Finding DEF Found
      <4> QED BY <4>4, <4>5, <4>7, <3>5, KeepsOn
    <3> QED BY <3>12, <3>13
  <2> QED BY <2>5, <2>6, <2>7, <2>8
<1> QED BY <1>1, <1>4, <1>6 DEF p, IsFile

LEMMA DeleteFileOrDirectoryKeeps ==
  ASSUME NEW s, Good(s), NEW path \in Paths, NEW o \in DeleteFileOrDirectory(s, path)
  PROVE  Keeps(s, o.s)
<1>1. PICK x \in FilePathToNode(s, path) :
        o \in IF Halted(x.s) THEN {Out(x.s, Aborted)}
              ELSE IF x.r = Nil \/ x.r = RootNode THEN {Out(x.s, FALSE)}
              ELSE Then(DeleteMe(x.s, x.r), LAMBDA u, ok : {Out(DeleteSubCache(u, Parent(x.s, x.r)), ok)})
  BY DEF DeleteFileOrDirectory, Then
<1>2. Found(s, path, x) /\ Len(path) # 0
  BY PathFacts, Finding
<1>3. Keeps(s, x.s) /\ Good(x.s)
  BY <1>2 DEF Found, Keeps
<1>4. CASE o \in {Out(x.s, Aborted)} \/ o \in {Out(x.s, FALSE)}
  BY <1>3, <1>4, OutIs
<1> DEFINE p == Parent(x.s, x.r)
<1>5. p = Parent(x.s, x.r)
  OBVIOUS
<1> HIDE DEF p
<1>6. CASE /\ ~Halted(x.s) /\ x.r # Nil
           /\ o \in Then(DeleteMe(x.s, x.r), LAMBDA u, ok : {Out(DeleteSubCache(u, p), ok)})
  <2>1. PICK y \in DeleteMe(x.s, x.r) : o \in IF Halted(y.s) THEN {Out(y.s, Aborted)} ELSE {Out(DeleteSubCache(y.s, p), y.r)}
    BY <1>6 DEF Then
  <2>2. x.r \in Hand(x.s) /\ \E i \in DOMAIN x.s.kids : x.r \in x.s.kids[i]
    BY <1>2, <1>6 DEF Found
  <2>3. Gone(x.s, x.r, p, y)
    BY <1>3, <1>5, <2>1, <2>2, DeleteMeGone
  <2>4. Keeps(x.s, o.s)
    <3>1. CASE Halted(y.s)
      BY <3>1, <2>1, <2>3, OutIs DEF Gone
    <3>2. CASE ~Halted(y.s)
      <4>1. o \in {Out(DeleteSubCache(y.s, p), y.r)}
        BY <2>1, <3>2, Zenon
      <4> QED BY <4>1, <2>3, OutIs DEF Gone
    <3> QED BY <3>1, <3>2
  <2> QED BY <2>4, <1>3, KeepsOn
<1> QED BY <1>1, <1>4, <1>6 DEF p

LEMMA DeleteDirOrFileKeeps ==
  ASSUME NEW s, Good(s), NEW path \in Paths, NEW o \in DeleteDirOrFile(s, path)
  PROVE  Keeps(s, o.s)
<1>1. PICK x \in FilePathToNode(s, path) :
        o \in IF Halted(x.s) THEN {Out(x.s, Aborted)}
              ELSE IF x.r = Nil THEN {Out(x.s, TRUE)} ELSE DeleteFileOrDirectory(x.s, path)
  BY DEF DeleteDirOrFile, Then
<1>2. Keeps(s, x.s) /\ Good(x.s)
  BY PathFacts, Finding DEF Found, Keeps
<1>3. CASE o \in {Out(x.s, Aborted)} \/ o \in {Out(x.s, TRUE)}
  BY <1>2, <1>3, OutIs
<1>4. CASE o \in DeleteFileOrDirectory(x.s, path)
  BY <1>2, <1>4, DeleteFileOrDirectoryKeeps, KeepsOn
<1> QED BY <1>1, <1>3, <1>4

LEMMA CreateAsFileKeeps ==
  ASSUME NEW s, Good(s), NEW path \in Paths, NEW o \in CreateAsFile(s, path)
  PROVE  Keeps(s, o.s)
<1>1. PICK x \in FilePathToNode(s, path) :
        o \in IF Halted(x.s) THEN {Out(x.s, Aborted)}
              ELSE IF IsFile(x.r) THEN {Out(x.s, TRUE)}
              ELSE IF IsDirectory(x.r) THEN {Out(x.s, FALSE)}
              ELSE CreateFileWithStream(x.s, Front(path), Last(path), Empty)
  BY DEF CreateAsFile, CreateAs, Then, Paths
<1>2. Keeps(s, x.s) /\ Good(x.s)
  BY PathFacts, Finding DEF Found, Keeps
<1>3. CASE o \in {Out(x.s, Aborted)} \/ o \in {Out(x.s, TRUE)} \/ o \in {Out(x.s, FALSE)}
  BY <1>2, <1>3, OutIs
<1>4. CASE o \in CreateFileWithStream(x.s, Front(path), Last(path), Empty)
  <2>1. Empty \in AllContents /\ Last(path) \in AllNames /\ Len(Front(path)) \in Nat
    BY PathFacts DEF AllContents
  <2> QED BY <2>1, <1>2, <1>4, CreateFileWithStreamKeeps, KeepsOn
<1> QED BY <1>1, <1>3, <1>4

LEMMA CreateAsDirectoryKeeps ==
  ASSUME NEW s, Good(s), NEW path \in Paths, NEW o \in CreateAsDirectory(s, path)
  PROVE  Keeps(s, o.s)
<1>1. PICK x \in FilePathToNode(s, path) :
        o \in IF Halted(x.s) THEN {Out(x.s, Aborted)}
              ELSE IF IsDirectory(x.r) THEN {Out(x.s, TRUE)}
              ELSE IF IsFile(x.r) THEN {Out(x.s, FALSE)}
              ELSE CreateFolder(x.s, Front(path), Last(path))
  BY DEF CreateAsDirectory, CreateAs, Then, Paths
<1>2. Keeps(s, x.s) /\ Good(x.s)
  BY PathFacts, Finding DEF Found, Keeps
<1>3. CASE o \in {Out(x.s, Aborted)} \/ o \in {Out(x.s, TRUE)} \/ o \in {Out(x.s, FALSE)}
  BY <1>2, <1>3, OutIs
<1>4. CASE o \in CreateFolder(x.s, Front(path), Last(path))
  BY <1>2, <1>4, PathFacts, CreateFolderKeeps, KeepsOn
<1> QED BY <1>1, <1>3, <1>4

-----------------------------------------------------------------------------
(* Renaming an object.                                                     *)

\* What a renaming leaves: its own object is not the same.
Renamed(s, t) ==
  /\ Good(t) /\ Fresh(s, t)
  /\ s.bad \subseteq t.bad /\ t.bad \subseteq s.bad \cup DeviceFaults \cup {"dangling"}
  /\ ContentsOn(s.dev) \subseteq ContentsOn(t.dev)

LEMMA KeepsRenamed ==
  ASSUME NEW s, NEW t, Keeps(s, t), NEW u, Renamed(t, u), t.dev = s.dev
  PROVE  Renamed(s, u)
<1>1. s.bad \subseteq t.bad /\ t.bad \subseteq s.bad \cup DeviceFaults
  BY DEF Keeps, Later
<1>2. "listing" \in t.bad => "listing" \in u.bad
  BY DEF Renamed
<1>3. Halted(t) => Halted(u)
  BY DEF Renamed, Halted
<1>4. Fresh(s, u)
  BY <1>2, <1>3 DEF Renamed, Keeps, Fresh
<1> QED BY <1>1, <1>4 DEF Renamed

LEMMA SameRenamed ==
  ASSUME NEW s, NEW t, Keeps(s, t), t.dev = s.dev
  PROVE  Renamed(s, t)
BY DEF Keeps, Later, Renamed

LEMMA SetValuesKeeps ==
  ASSUME NEW s, Good(s), NEW node, \E i \in DOMAIN s.kids : node \in s.kids[i], NEW name \in AllNames,
         NEW o \in SetValues(s, node, name)
  PROVE  Renamed(s, o.s)
<1> DEFINE p == Parent(s, node)
           c == node.id
<1>1. p \in DOMAIN s.kids /\ node \in s.kids[p]
  BY ParentIs
<1>2. CASE c \notin DOMAIN s.dev
  <2>1. o.s = s
    BY <1>2 DEF SetValues, Out
  <2> QED BY <2>1, KeepsSame, SameRenamed
<1>3. CASE c \in DOMAIN s.dev /\ o # Out(DeleteSubCache([s EXCEPT !.dev[node.id].name = name], p), TRUE)
  <2>1. PICK t \in Fail(s, "rename") : o = Out(t, FALSE) \/ o = Out(DeleteSubCache(t, p), TRUE)
    BY <1>3 DEF SetValues
  <2>2. "rename" \in DeviceFaults
    BY KindsOfFaults
  <2>3. Good(t) /\ Later(s, t) /\ t.dev = s.dev /\ t.kids = s.kids
    BY <2>2, FailKeeps
  <2>4. Keeps(s, t)
    BY <2>3, SameFresh DEF Keeps
  <2>5. PICK u : u = DeleteSubCache(t, p)
    OBVIOUS
  <2>6. Keeps(t, u)
    BY <2>3, <2>5, DropKeeps
  <2>7. u.dev = t.dev
    BY <2>3, <2>5, DeleteSubCacheKeeps
  <2>8. Renamed(s, t) /\ Renamed(s, u)
    BY <2>3, <2>4, <2>6, <2>7, KeepsOn, SameRenamed
  <2>9. o.s = t \/ o.s = u
    BY <2>1, <2>5 DEF Out
  <2> QED BY <2>8, <2>9
<1>4. CASE c \in DOMAIN s.dev /\ o = Out(DeleteSubCache([s EXCEPT !.dev[node.id].name = name], p), TRUE)
  <2>1. PICK t : t = DeleteSubCache(s, p)
    OBVIOUS
  <2> DEFINE d == [s.dev EXCEPT ![c].name = name]
             k == t.kids
  <2>0. s \in States /\ s.dev \in Devices /\ s.kids \in Caches
    BY DEF Good, States
  <2>2. /\ Good(t) /\ Later(s, t) /\ t.dev = s.dev /\ t.bad = s.bad /\ t.taken = s.taken /\ t.left = s.left
        /\ DOMAIN t.kids = DOMAIN s.kids \ Below(s.kids, p)
        /\ \A j \in DOMAIN t.kids : t.kids[j] = s.kids[j]
    BY <2>1, DeleteSubCacheKeeps
  <2>3. o.s = [t EXCEPT !.dev = d]
    <3>1. [s EXCEPT !.dev[node.id].name = name] = [s EXCEPT !.dev = d]
      BY <2>0 DEF States
    <3>2. o.s = DeleteSubCache([s EXCEPT !.dev = d], p)
      BY <1>4, <3>1 DEF Out
    <3>3. t = [s EXCEPT !.kids = Drop(s.kids, Below(s.kids, p))]
      BY <2>1, <2>0 DEF DeleteSubCache, States
    <3>4. o.s = [[s EXCEPT !.dev = d] EXCEPT !.kids = Drop(s.kids, Below(s.kids, p))]
      <4> HIDE DEF d
      <4> QED BY <3>2, <2>0 DEF DeleteSubCache, States
    <3> HIDE DEF d
    <3> QED BY <3>3, <3>4, <2>0 DEF States
  <2>4. DOMAIN s.dev \subseteq Ids /\ \A i \in DOMAIN s.dev : s.dev[i] \in Objects
    BY <2>0, DevicesType
  <2>5. DOMAIN d = DOMAIN s.dev /\ \A i \in DOMAIN d : i # c => d[i] = s.dev[i]
    OBVIOUS
  <2>6. d[c] = [s.dev[c] EXCEPT !.name = name]
    BY <1>4
  <2>7. d[c] \in Objects /\ d[c].parent = s.dev[c].parent /\ d[c].dir = s.dev[c].dir /\ d[c].content = s.dev[c].content
    BY <1>4, <2>4, <2>6 DEF Objects
  <2>8. d \in Devices
    <3>1. \A i \in DOMAIN d : d[i] \in Objects
      BY <2>4, <2>5, <2>7
    <3>2. d \in [DOMAIN d -> Objects]
      BY <3>1
    <3> QED BY <3>2, <2>4, <2>5 DEF Devices
  <2> HIDE DEF d
  <2>9. \A i \in DOMAIN d : d[i].parent = s.dev[i].parent /\ d[i].dir = s.dev[i].dir /\ d[i].content = s.dev[i].content
    BY <2>5, <2>7
  <2>10. t \in States /\ Sound(t.dev, t.kids) /\ Held(t)
    BY <2>2 DEF Good
  <2>11. /\ o.s \in States /\ o.s.dev = d /\ o.s.kids = k /\ o.s.bad = s.bad /\ o.s.taken = s.taken
    <3>1. o.s \in States
      BY <2>3, <2>8, <2>10 DEF States
    <3> QED BY <3>1, <2>2, <2>3, <2>10 DEF States
  <2>12. s.dev[c].parent = p
    BY <1>1, <1>4 DEF Good, Sound, Agree
  <2>13. p \notin DOMAIN k
    BY <1>1, <2>2, BelowSelf
  <2>14. Parented(d)
    BY <2>2, <2>5, <2>9, <2>10 DEF Sound, Parented
  <2>15. Agree(d, k)
    <3> SUFFICES ASSUME NEW i \in DOMAIN k, NEW n \in k[i], n.id \in DOMAIN d
                 PROVE  d[n.id].parent = i /\ d[n.id].name = n.name /\ d[n.id].dir = n.dir
      BY DEF Agree
    <3>1. i \in DOMAIN s.kids /\ n \in s.kids[i]
      BY <2>2
    <3>2. n.id # c
      BY <3>1, <1>1, <2>13 DEF Good, Sound, Unique
    <3>3. n.id \in DOMAIN s.dev /\ d[n.id] = s.dev[n.id]
      BY <3>2, <2>5
    <3> QED BY <3>1, <3>3 DEF Good, Sound, Agree
  <2>16. Unique(k)
    BY <2>10 DEF Sound
  <2>17. ListsDirs(d, k)
    BY <2>2, <2>5, <2>9, <2>10 DEF Sound, ListsDirs
  <2>18. NoCycle(d, k)
    <3> SUFFICES ASSUME NEW S \in SUBSET Ids, S # {}
                 PROVE  \E x \in S : /\ x \in DOMAIN d => d[x].parent \notin S
                                     /\ \A i \in DOMAIN k \cap S : \A n \in k[i] : n.id # x
      BY DEF NoCycle
    <3>1. NoCycle(s.dev, k)
      BY <2>2, <2>10 DEF Sound
    <3>2. PICK x \in S : /\ x \in DOMAIN s.dev => s.dev[x].parent \notin S
                         /\ \A i \in DOMAIN k \cap S : \A n \in k[i] : n.id # x
      BY <3>1, Zenon DEF NoCycle
    <3>3. x \in DOMAIN d => d[x].parent \notin S
      BY <3>2, <2>5, <2>9
    <3> QED BY <3>2, <3>3
  <2>19. Sound(o.s.dev, o.s.kids)
    BY <2>11, <2>14, <2>15, <2>16, <2>17, <2>18 DEF Sound
  <2>20. Held(o.s)
    BY <2>2, <2>5, <2>10, <2>11 DEF Held
  <2>21. Fresh(s, o.s)
    <3>1. ASSUME NEW i \in DOMAIN k
          PROVE  Children(d, i) = Children(s.dev, i)
      <4>1. i # p
        BY <2>13
      <4>2. \A x \in DOMAIN d : d[x].parent = i => d[x] = s.dev[x] /\ s.dev[x].parent = i
        BY <4>1, <2>5, <2>9, <2>12
      <4>3. \A x \in DOMAIN s.dev : s.dev[x].parent = i => d[x] = s.dev[x] /\ x \in DOMAIN d
        BY <4>1, <2>5, <2>12
      <4>4. {x \in DOMAIN d : d[x].parent = i} = {x \in DOMAIN s.dev : s.dev[x].parent = i}
        BY <4>2, <4>3, <2>5
      <4> QED BY <4>2, <4>3, <4>4 DEF Children
    <3>2. Stale(d, k) \subseteq Stale(s.dev, s.kids)
      BY <3>1, <2>2 DEF Stale
    <3> QED BY <3>2, <2>11 DEF Fresh
  <2>22. ContentsOn(s.dev) \subseteq ContentsOn(o.s.dev)
    <3> SUFFICES ASSUME NEW x \in ContentsOn(s.dev)
                 PROVE  x \in ContentsOn(d)
      BY <2>11
    <3>1. PICK i \in DOMAIN s.dev : x = s.dev[i].content
      BY DEF ContentsOn
    <3>2. i \in DOMAIN d /\ x = d[i].content
      BY <3>1, <2>5, <2>9
    <3> QED BY <3>2 DEF ContentsOn
  <2> QED BY <2>11, <2>19, <2>20, <2>21, <2>22 DEF Renamed, Good
<1> QED BY <1>2, <1>3, <1>4

\* Using the freed node changes nothing else.
LEMMA RenameDoes ==
  ASSUME NEW s, NEW node, NEW name, NEW o \in Rename(s, node, name)
  PROVE  \E x \in SetValues(s, node, name) : o = x \/ (o.s = UseFreed(x.s) /\ o.r = TRUE)
BY DEF Rename, Out

LEMMA UseFreedRenamed ==
  ASSUME NEW s, NEW t, Renamed(s, t)
  PROVE  Renamed(s, UseFreed(t)) /\ UseFreed(t).dev = t.dev
<1>1. PICK u : u = UseFreed(t)
  OBVIOUS
<1>2. t \in States
  BY DEF Renamed, Good
<1>3. /\ u \in States /\ u.dev = t.dev /\ u.kids = t.kids /\ u.taken = t.taken
      /\ u.bad = t.bad \cup {"dangling"}
  BY <1>1, <1>2 DEF UseFreed, States, FaultKinds
<1>4. Good(u)
  BY <1>3 DEF Renamed, Good, Held
<1>5. Fresh(s, u)
  BY <1>3 DEF Fresh, Halted
<1>6. Renamed(s, u)
  BY <1>3, <1>4, <1>5 DEF Renamed
<1> QED BY <1>1, <1>3, <1>6

LEMMA RenameKeeps ==
  ASSUME NEW s, Good(s), NEW node, \E i \in DOMAIN s.kids : node \in s.kids[i], NEW name \in AllNames,
         NEW o \in Rename(s, node, name)
  PROVE  Renamed(s, o.s)
<1>1. PICK x \in SetValues(s, node, name) : o = x \/ (o.s = UseFreed(x.s) /\ o.r = TRUE)
  BY RenameDoes
<1>2. Renamed(s, x.s)
  BY SetValuesKeeps
<1> QED BY <1>1, <1>2, UseFreedRenamed

LEMMA RenameObjectKeeps ==
  ASSUME NEW s, Good(s), NEW path \in Paths, NEW to \in Paths, NEW o \in RenameObject(s, path, Last(to))
  PROVE  Renamed(s, o.s)
<1> DEFINE name == Last(to)
           new == Append(Front(path), name)
<1>1. PICK x \in FilePathToNode(s, path) :
        o \in IF Halted(x.s) THEN {Out(x.s, Aborted)}
              ELSE Then(FilePathToNode(x.s, new), LAMBDA u, m :
                     IF x.r = Nil \/ m # Nil THEN {Out(u, FALSE)} ELSE Rename(u, x.r, name))
  BY DEF RenameObject, Then
<1>2. Len(new) \in Nat
  <2>1. PICK T : path \in Seq(T)
    BY PathFacts
  <2>2. Front(path) \in Seq(T)
    BY <2>1, PathFacts DEF Front
  <2>3. Front(path) \in Seq(T \cup {name})
    BY <2>2
  <2>4. new \in Seq(T \cup {name})
    BY <2>3
  <2> QED BY <2>4
<1> HIDE DEF new
<1>3. Found(s, path, x) /\ Len(path) # 0
  BY PathFacts, Finding
<1>4. Keeps(s, x.s) /\ Good(x.s) /\ x.s.dev = s.dev
  BY <1>3 DEF Found, Keeps, Grown
<1>5. CASE Halted(x.s)
  <2>1. o \in {Out(x.s, Aborted)}
    BY <1>1, <1>5, Zenon
  <2> QED BY <2>1, <1>4, OutIs, SameRenamed
<1>6. CASE ~Halted(x.s)
  <2>1. PICK y \in FilePathToNode(x.s, new) :
          o \in IF Halted(y.s) THEN {Out(y.s, Aborted)}
                ELSE IF x.r = Nil \/ y.r # Nil THEN {Out(y.s, FALSE)} ELSE Rename(y.s, x.r, name)
    BY <1>1, <1>6 DEF Then
  <2>2. Found(x.s, new, y)
    BY <1>2, <1>4, Finding
  <2>3. Keeps(x.s, y.s) /\ Good(y.s) /\ y.s.dev = s.dev /\ Grown(x.s, y.s)
    BY <2>2, <1>4 DEF Found, Keeps, Grown
  <2>4. Keeps(s, y.s)
    BY <2>3, <1>4, KeepsOn
  <2>5. CASE o \in {Out(y.s, Aborted)} \/ o \in {Out(y.s, FALSE)}
    BY <2>3, <2>4, <2>5, OutIs, SameRenamed
  <2>6. CASE x.r # Nil /\ o \in Rename(y.s, x.r, name)
    <3>1. \E i \in DOMAIN x.s.kids : x.r \in x.s.kids[i]
      BY <1>3, <1>6, <2>6 DEF Found
    <3>2. \E i \in DOMAIN y.s.kids : x.r \in y.s.kids[i]
      BY <3>1, <2>3 DEF Grown
    <3>3. name \in AllNames
      BY PathFacts
    <3>4. Renamed(y.s, o.s)
      BY <2>3, <2>6, <3>2, <3>3, RenameKeeps
    <3> QED BY <3>4, <2>3, <2>4, KeepsRenamed
  <2> QED BY <2>1, <2>5, <2>6
<1> QED BY <1>5, <1>6

-----------------------------------------------------------------------------
(* Moving: paths lead to one node, and one that is missing leads nowhere.  *)

LEMMA TrailsAgree ==
  ASSUME NEW k, NEW path, NEW l \in Nat, NEW m \in Nat, NEW f, NEW g, Trail(k, path, l, f), Trail(k, path, m, g)
  PROVE  \A i \in 0 .. l : i <= m => f[i] = g[i]
<1> DEFINE W == [i \in 0 .. l |-> i]
           C == [i \in 0 .. l |-> IF i <= m => f[i] = g[i] THEN {i} ELSE {}]
<1>1. W[0] \in C[0]
  BY DEF Trail
<1>2. \A i \in 1 .. l : W[i - 1] \in C[i - 1] => W[i] \in C[i]
  <2> SUFFICES ASSUME NEW i \in 1 .. l, W[i - 1] \in C[i - 1]
               PROVE  W[i] \in C[i]
    OBVIOUS
  <2>1. i - 1 \in 0 .. l /\ i \in 0 .. l
    OBVIOUS
  <2> SUFFICES ASSUME i <= m
               PROVE  f[i] = g[i]
    BY <2>1
  <2>2. f[i - 1] = g[i - 1]
    BY <2>1
  <2>3. f[i] = Oldest({n \in k[f[i - 1].id] : n.name = path[i]}) /\ g[i] = Oldest({n \in k[g[i - 1].id] : n.name = path[i]})
    BY DEF Trail
  <2> QED BY <2>2, <2>3
<1>3. \A i \in 0 .. l : W[i] \in C[i]
  <2> HIDE DEF W, C
  <2> QED BY <1>1, <1>2, Climbing
<1> QED BY <1>3

LEMMA MissingIsNotReached ==
  ASSUME NEW k, NEW path, NEW l \in Nat, NEW node, Missing(k, path, l), Reaches(k, path, l, node)
  PROVE  FALSE
<1>0. PICK m \in 1 .. l : \E q : /\ Reaches(k, path, m - 1, q)
                                 /\ ~q.dir \/ (q.id \in DOMAIN k /\ {n \in k[q.id] : n.name = path[m]} = {})
  BY DEF Missing
<1>1. PICK q : /\ Reaches(k, path, m - 1, q)
               /\ ~q.dir \/ (q.id \in DOMAIN k /\ {n \in k[q.id] : n.name = path[m]} = {})
  BY <1>0
<1>2. PICK f : Trail(k, path, l, f)
  BY DEF Reaches
<1>3. PICK g : Trail(k, path, m - 1, g) /\ g[m - 1] = q
  BY <1>1 DEF Reaches
<1>4. m - 1 \in Nat /\ m - 1 \in 0 .. l
  OBVIOUS
<1>5. f[m - 1] = q
  BY <1>2, <1>3, <1>4, TrailsAgree
<1>6. q.dir /\ f[m] \in k[q.id] /\ f[m].name = path[m]
  BY <1>2, <1>5 DEF Trail
<1> QED BY <1>1, <1>6

\* i's listings name j, in a state that w came to.
Nests(w, i, j) ==
  \E z : Good(z) /\ Later(w, z) /\ i # j /\ \E k \in Below(z.kids, i) : \E n \in z.kids[k] : n.id = j

\* What deleteSubCache leaves, called for i and then for j.
Dropped(z, i, j, u) ==
  /\ Good(u) /\ u.dev = z.dev
  /\ \/ /\ u.bad = z.bad \cup {"dangling"} /\ i # j
        /\ \E k \in Below(z.kids, i) : \E n \in z.kids[k] : n.id = j
     \/ /\ u.bad = z.bad /\ Later(z, u)
        /\ DOMAIN u.kids \subseteq DOMAIN z.kids \ {i, j}
        /\ \A k \in DOMAIN u.kids : u.kids[k] = z.kids[k]

LEMMA DeleteSubCachesDrops ==
  ASSUME NEW z, Good(z), NEW i, NEW j
  PROVE  Dropped(z, i, j, DeleteSubCaches(z, i, j))
<1> DEFINE Inner == UNION {{n.id : n \in z.kids[k]} : k \in Below(z.kids, i)}
<1>1. PICK u : u = DeleteSubCaches(z, i, j)
  OBVIOUS
<1>2. CASE i # j /\ j \in Inner
  <2>1. u = [z EXCEPT !.bad = @ \cup {"dangling"}]
    BY <1>1, <1>2 DEF DeleteSubCaches, UseFreed
  <2>2. z \in States
    BY DEF Good
  <2>3. u \in States /\ u.dev = z.dev /\ u.kids = z.kids /\ u.taken = z.taken /\ u.bad = z.bad \cup {"dangling"}
    BY <2>1, <2>2 DEF States, FaultKinds
  <2>4. Good(u)
    BY <2>3 DEF Good, Held
  <2>5. \E k \in Below(z.kids, i) : \E n \in z.kids[k] : n.id = j
    BY <1>2
  <2> QED BY <1>1, <1>2, <2>3, <2>4, <2>5 DEF Dropped
<1>3. CASE ~(i # j /\ j \in Inner)
  <2>1. PICK t : t = DeleteSubCache(z, i)
    OBVIOUS
  <2>2. u = DeleteSubCache(t, j)
    BY <1>1, <1>3, <2>1 DEF DeleteSubCaches
  <2>3. /\ Good(t) /\ Later(z, t) /\ t.dev = z.dev /\ t.bad = z.bad
        /\ DOMAIN t.kids = DOMAIN z.kids \ Below(z.kids, i)
        /\ \A k \in DOMAIN t.kids : t.kids[k] = z.kids[k]
    BY <2>1, DeleteSubCacheKeeps
  <2>4. /\ Good(u) /\ Later(t, u) /\ u.dev = t.dev /\ u.bad = t.bad
        /\ DOMAIN u.kids = DOMAIN t.kids \ Below(t.kids, j)
        /\ \A k \in DOMAIN u.kids : u.kids[k] = t.kids[k]
    BY <2>2, <2>3, DeleteSubCacheKeeps
  <2>5. i \notin DOMAIN t.kids /\ j \notin DOMAIN u.kids
    BY <2>3, <2>4, BelowSelf
  <2>6. Later(z, u)
    BY <2>3, <2>4, LaterTransitive
  <2> QED BY <1>1, <2>3, <2>4, <2>5, <2>6 DEF Dropped
<1> QED BY <1>2, <1>3

\* What a move leaves: i and j are the directories whose listings are thrown away.
Moved(w, i, j, o) ==
  /\ Good(o.s) /\ w.bad \subseteq o.s.bad /\ o.s.bad \subseteq w.bad \cup DeviceFaults \cup {"dangling"}
  /\ "dangling" \in o.s.bad => "dangling" \in w.bad \/ Nests(w, i, j)
  /\ o.r = TRUE => Fresh(w, o.s)
  /\ "listing" \notin o.s.bad /\ "read" \notin o.s.bad => ContentsOn(w.dev) \subseteq ContentsOn(o.s.dev)

\* Before anything was deleted.
LEMMA NotYetMoved ==
  ASSUME NEW w, NEW t, Good(t), Later(w, t), ContentsOn(w.dev) \subseteq ContentsOn(t.dev),
         NEW i, NEW j, NEW o, o.s = t, o.r # TRUE \/ Halted(t)
  PROVE  Moved(w, i, j, o)
<1>1. "dangling" \notin DeviceFaults
  BY DEF DeviceFaults
<1> QED BY <1>1 DEF Later, Moved, Fresh

LEMMA ContentsGrow ==
  ASSUME NEW d, NEW i, i \notin DOMAIN d, NEW v, NEW e, e = Put(d, i, v)
  PROVE  /\ ContentsOn(d) \subseteq ContentsOn(e) /\ i \in DOMAIN e /\ e[i] = v
         /\ \A j \in DOMAIN d : j \in DOMAIN e /\ e[j] = d[j]
<1>1. DOMAIN e = DOMAIN d \cup {i} /\ e[i] = v /\ \A j \in DOMAIN d : e[j] = d[j]
  BY DEF Put
<1> QED BY <1>1 DEF ContentsOn

\* What is copied of the old file stays when it is deleted.
LEMMA MoveFileContents ==
  ASSUME NEW w, Good(w), NEW node, NEW base, NEW name, NEW v, v.r = TRUE, Copied(w, v, node, base, name),
         "read" \notin v.s.bad, Good(v.s), NEW y \in DeleteObject(v.s, node.id)
  PROVE  ContentsOn(w.dev) \subseteq ContentsOn(y.s.dev)
<1>0. PICK i \in Ids \ w.taken : \E content :
        /\ v.s.dev = Put(w.dev, i, FileProperties(base, name, content))
        /\ node.id \in DOMAIN w.dev /\ content = w.dev[node.id].content
  BY DEF Copied
<1>1. PICK content :
        /\ v.s.dev = Put(w.dev, i, FileProperties(base, name, content))
        /\ node.id \in DOMAIN w.dev /\ content = w.dev[node.id].content
  BY <1>0
<1>2. PICK object : object = FileProperties(base, name, content)
  OBVIOUS
<1>3. i \notin DOMAIN w.dev /\ object.content = content
  BY <1>1, <1>2 DEF Good, Held, FileProperties
<1>4. /\ i \in DOMAIN v.s.dev /\ v.s.dev[i] = object
      /\ \A j \in DOMAIN w.dev : j \in DOMAIN v.s.dev /\ v.s.dev[j] = w.dev[j]
  BY <1>1, <1>2, <1>3, ContentsGrow
<1>5. \A j \in DOMAIN v.s.dev : j # node.id => j \in DOMAIN y.s.dev /\ y.s.dev[j] = v.s.dev[j]
  <2>1. \/ y.s.dev = v.s.dev
        \/ DOMAIN y.s.dev = DOMAIN v.s.dev \ {node.id} /\ \A j \in DOMAIN y.s.dev : y.s.dev[j] = v.s.dev[j]
    BY DeleteObjectKeeps
  <2> QED BY <2>1
<1>6. i # node.id /\ i \in DOMAIN y.s.dev /\ y.s.dev[i].content = content
  BY <1>1, <1>3, <1>4, <1>5
<1> SUFFICES ASSUME NEW x \in ContentsOn(w.dev)
             PROVE  x \in ContentsOn(y.s.dev)
  OBVIOUS
<1>7. PICK j \in DOMAIN w.dev : x = w.dev[j].content
  BY DEF ContentsOn
<1>8. x \notin {Dir, Empty, Torn}
  BY DEF ContentsOn
<1>9. \E k \in DOMAIN y.s.dev : x = y.s.dev[k].content
  <2>1. CASE j = node.id
    BY <2>1, <1>1, <1>6, <1>7
  <2>2. CASE j # node.id
    BY <2>2, <1>4, <1>5, <1>7
  <2> QED BY <2>1, <2>2
<1> QED BY <1>8, <1>9 DEF ContentsOn

LEMMA MoveFileKeeps ==
  ASSUME NEW w, Good(w), NEW node \in Hand(w), ~node.dir, \E i \in DOMAIN w.kids : node \in w.kids[i],
         NEW base, OnHand(w, base), NEW name \in AllNames, NEW p, p = Parent(w, node), NEW o \in MoveFile(w, node, base, name)
  PROVE  Moved(w, base.id, p, o)
<1>1. PICK x \in CopyFile(w, node, base, name) :
        o \in IF Halted(x.s) THEN {Out(x.s, Aborted)}
              ELSE IF ~x.r THEN {Out(x.s, FALSE)}
              ELSE Then(DeleteMe(x.s, node), LAMBDA u, ignored : {Out(DeleteSubCaches(u, base.id, p), TRUE)})
  BY DEF MoveFile, Then
<1>0. Copies(w, node, base, name, x)
  BY CopyFileKeeps
<1>2. Good(x.s) /\ Later(w, x.s) /\ x.s.kids = w.kids
  BY <1>0 DEF Copies
<1>4. x.s.dev = w.dev \/ Copied(w, x, node, base, name)
  BY <1>0 DEF Copies
<1>5. Halted(x.s) \/ Copied(w, x, node, base, name)
  BY <1>0 DEF Copies
<1>6. Halted(x.s) \/ x.r = TRUE \/ x.r = FALSE
  BY <1>0 DEF Copies
<1>7. \/ x.s.dev = w.dev
      \/ \E i \in Ids \ w.taken : \E v : x.s.dev = Put(w.dev, i, v)
  BY <1>4 DEF Copied
<1>8. \A i \in Ids \ w.taken : i \notin DOMAIN w.dev
  BY DEF Good, Held
<1>9. ContentsOn(w.dev) \subseteq ContentsOn(x.s.dev)
  <2>1. CASE x.s.dev = w.dev
    BY <2>1
  <2>2. ASSUME NEW i \in Ids \ w.taken, NEW v, x.s.dev = Put(w.dev, i, v)
        PROVE  ContentsOn(w.dev) \subseteq ContentsOn(x.s.dev)
    BY <2>2, <1>8, ContentsGrow
  <2> QED BY <2>1, <2>2, <1>7
<1>10. CASE Halted(x.s)
  <2>1. o \in {Out(x.s, Aborted)}
    BY <1>1, <1>10, Zenon
  <2>2. o.s = x.s
    BY <2>1, OutIs
  <2> QED BY <2>2, <1>2, <1>9, <1>10, NotYetMoved
<1>11. CASE ~Halted(x.s) /\ x.r = FALSE
  <2>1. o \in {Out(x.s, FALSE)}
    BY <1>1, <1>11
  <2>3. o.s = x.s /\ o.r = FALSE
    BY <2>1, OutIs
  <2>2. o.s = x.s /\ o.r # TRUE
    BY <2>3
  <2> QED BY <2>2, <1>2, <1>9, NotYetMoved
<1>12. CASE ~Halted(x.s) /\ x.r = TRUE
  <2>1. o \in Then(DeleteMe(x.s, node), LAMBDA u, ignored : {Out(DeleteSubCaches(u, base.id, p), TRUE)})
    BY <1>1, <1>12
  <2>2. PICK y \in DeleteMe(x.s, node) :
          o \in IF Halted(y.s) THEN {Out(y.s, Aborted)} ELSE {Out(DeleteSubCaches(y.s, base.id, p), TRUE)}
    BY <2>1 DEF Then
  <2>3. y \in DeleteObject(x.s, node.id)
    BY <2>2 DEF DeleteMe
  <2>4. Good(y.s) /\ Later(x.s, y.s) /\ y.s.kids = x.s.kids
    BY <2>3, <1>2, DeleteObjectKeeps
  <2>5. Later(w, y.s)
    BY <1>2, <2>4, LaterTransitive
  <2>6. "read" \in y.s.bad \/ ContentsOn(w.dev) \subseteq ContentsOn(y.s.dev)
    <3>1. CASE "read" \in x.s.bad
      BY <3>1, <2>4 DEF Later
    <3>2. CASE "read" \notin x.s.bad
      BY <3>2, <2>3, <1>2, <1>5, <1>12, MoveFileContents
    <3> QED BY <3>1, <3>2
  <2>7. "dangling" \notin DeviceFaults
    BY DEF DeviceFaults
  <2>8. CASE Halted(y.s)
    <3>0. o \in {Out(y.s, Aborted)}
      BY <2>2, <2>8, Zenon
    <3>1. o.s = y.s
      BY <3>0, OutIs
    <3> QED BY <3>1, <2>4, <2>5, <2>6, <2>7, <2>8 DEF Later, Moved, Fresh
  <2>9. CASE ~Halted(y.s)
    <3>1. o \in {Out(DeleteSubCaches(y.s, base.id, p), TRUE)}
      BY <2>2, <2>9, Zenon
    <3>2. o.s = DeleteSubCaches(y.s, base.id, p)
      BY <3>1, OutIs
    <3>3. Dropped(y.s, base.id, p, o.s)
      BY <3>2, <2>4, DeleteSubCachesDrops
    <3>4. Good(o.s) /\ o.s.dev = y.s.dev
      BY <3>3 DEF Dropped
    <3>5. CASE /\ o.s.bad = y.s.bad \cup {"dangling"} /\ base.id # p
               /\ \E k \in Below(y.s.kids, base.id) : \E n \in y.s.kids[k] : n.id = p
      <4>1. Nests(w, base.id, p)
        BY <3>5, <2>4, <2>5 DEF Nests
      <4>2. Halted(o.s)
        BY <3>5 DEF Halted
      <4> QED BY <4>1, <4>2, <3>4, <3>5, <2>5, <2>6 DEF Moved, Later, Fresh
    <3>6. CASE /\ o.s.bad = y.s.bad /\ Later(y.s, o.s)
               /\ DOMAIN o.s.kids \subseteq DOMAIN y.s.kids \ {base.id, p}
               /\ \A k \in DOMAIN o.s.kids : o.s.kids[k] = y.s.kids[k]
      <4>1. node \in w.kids[p] /\ p \in DOMAIN w.kids
        BY ParentIs
      <4>2. Stale(y.s.dev, y.s.kids) \subseteq Stale(x.s.dev, x.s.kids) \cup {p}
        BY <4>1, <2>3, <1>2, DeleteObjectStale
      <4>3. Stale(x.s.dev, x.s.kids) \subseteq Stale(w.dev, w.kids) \cup {base.id}
        <5>0. PICK i \in Ids \ w.taken : \E content : x.s.dev = Put(w.dev, i, FileProperties(base, name, content))
          BY <1>5, <1>12 DEF Copied
        <5>1. PICK content : x.s.dev = Put(w.dev, i, FileProperties(base, name, content))
          BY <5>0
        <5>2. PICK object : object = FileProperties(base, name, content)
          OBVIOUS
        <5>3. object.parent = base.id
          BY <5>2 DEF FileProperties
        <5>4. x.s.dev = Put(w.dev, i, object) /\ i \notin DOMAIN w.dev
          BY <5>1, <5>2, <1>8
        <5>5. \A j : j # base.id => Children(x.s.dev, j) = Children(w.dev, j)
          BY <5>3, <5>4, ChildrenWith
        <5> QED BY <5>5, <1>2 DEF Stale
      <4>4. Stale(o.s.dev, o.s.kids) \subseteq Stale(y.s.dev, y.s.kids) \ {base.id, p}
        BY <3>4, <3>6 DEF Stale
      <4>5. Fresh(w, o.s)
        BY <4>2, <4>3, <4>4 DEF Fresh
      <4> QED BY <4>5, <3>4, <3>6, <2>5, <2>6, <2>7 DEF Moved, Later
    <3> QED BY <3>3, <3>5, <3>6 DEF Dropped
  <2> QED BY <2>8, <2>9
<1> QED BY <1>6, <1>10, <1>11, <1>12

\* Once a listing has failed.
LEMMA MovedBlindly ==
  ASSUME NEW w, NEW t, Later(w, t), "listing" \in t.bad, NEW i, NEW j,
         NEW o, Good(o.s), t.bad \subseteq o.s.bad, o.s.bad \subseteq t.bad \cup DeviceFaults \cup {"dangling"},
         "dangling" \in o.s.bad => "dangling" \in t.bad \/ Nests(w, i, j)
  PROVE  Moved(w, i, j, o)
<1>1. "dangling" \notin DeviceFaults
  BY DEF DeviceFaults
<1> QED BY <1>1 DEF Later, Moved, Fresh

LEMMA MoveDirectoryKeeps ==
  ASSUME NEW w, Good(w), NEW node \in Hand(w), node.dir, NEW base, OnHand(w, base), NEW path \in Paths,
         "listing" \in w.bad \/ Missing(w.kids, path, Len(path)),
         NEW o \in MoveDirectory(w, node, base, path)
  PROVE  Moved(w, Parent(w, node), base.id, o)
<1> DEFINE p == Parent(w, node)
           Rest(t) == Then(FilePathToNode(t, path), LAMBDA u, folder :
                IF folder = Nil THEN {Out(u, FALSE)} ELSE
                Then(CopyAll(u, node, folder, path), LAMBDA v, ok :
                  IF ~ok THEN {Out(DeleteSubCache(DeleteSubCache(v, node.id), base.id), FALSE)} ELSE
                  Then(DeleteMe(v, node), LAMBDA z, ignored : {Out(DeleteSubCaches(z, p, base.id), TRUE)})))
<1>0. o \in Then(CreateNewFolder(w, base, Last(path)), LAMBDA t, created :
              IF ~created THEN {Out(t, FALSE)} ELSE Rest(t))
  BY DEF MoveDirectory
<1> SUFFICES Moved(w, p, base.id, o)
  OBVIOUS
<1> HIDE DEF p
<1>1. PICK x \in CreateNewFolder(w, base, Last(path)) :
        o \in IF Halted(x.s) THEN {Out(x.s, Aborted)} ELSE IF ~x.r THEN {Out(x.s, FALSE)} ELSE Rest(x.s)
  <2> HIDE DEF Rest
  <2> QED BY <1>0 DEF Then
<1>2. Len(path) \in Nat \ {0} /\ Last(path) \in AllNames /\ \E T : path \in Seq(T)
  BY PathFacts
<1>3. /\ Good(x.s) /\ Later(w, x.s) /\ x.s.kids = w.kids
      /\ \/ x.s.dev = w.dev /\ x.r = FALSE
         \/ /\ x.r = TRUE /\ x.s.bad = w.bad
            /\ \E i \in Ids \ w.taken : x.s.dev = Put(w.dev, i, FolderProperties(base, Last(path)))
  BY <1>2, CreateNewFolderKeeps
<1>4. x.r = TRUE \/ x.r = FALSE
  BY <1>3
<1>5. ContentsOn(w.dev) \subseteq ContentsOn(x.s.dev)
  <2>1. CASE x.s.dev = w.dev
    BY <2>1
  <2>2. ASSUME NEW i \in Ids \ w.taken, x.s.dev = Put(w.dev, i, FolderProperties(base, Last(path)))
        PROVE  ContentsOn(w.dev) \subseteq ContentsOn(x.s.dev)
    <3>1. i \notin DOMAIN w.dev
      BY DEF Good, Held
    <3> QED BY <3>1, <2>2, ContentsGrow
  <2> QED BY <2>1, <2>2, <1>3
<1>6. CASE o \in {Out(x.s, Aborted)} /\ Halted(x.s)
  <2>1. o.s = x.s
    BY <1>6, OutIs
  <2> QED BY <2>1, <1>3, <1>5, <1>6, NotYetMoved
<1>7. CASE o \in {Out(x.s, FALSE)}
  <2>1. o.s = x.s /\ o.r = FALSE
    BY <1>7, OutIs
  <2>2. o.r # TRUE
    BY <2>1
  <2> QED BY <2>1, <2>2, <1>3, <1>5, NotYetMoved
<1>8. CASE o \in Rest(x.s)
  <2>1. PICK y \in FilePathToNode(x.s, path) :
          o \in IF Halted(y.s) THEN {Out(y.s, Aborted)}
                ELSE IF y.r = Nil THEN {Out(y.s, FALSE)} ELSE
                Then(CopyAll(y.s, node, y.r, path), LAMBDA v, ok :
                  IF ~ok THEN {Out(DeleteSubCache(DeleteSubCache(v, node.id), base.id), FALSE)} ELSE
                  Then(DeleteMe(v, node), LAMBDA z, ignored : {Out(DeleteSubCaches(z, p, base.id), TRUE)}))
    BY <1>8 DEF Then
  <2>2. Walked(x.s, path, Len(path), y)
    BY <1>2, <1>3, FilePathToNodeKeeps
  <2>3. Found(x.s, path, y)
    BY <1>2, <1>3, Finding
  <2>4. Good(y.s) /\ Later(x.s, y.s) /\ Grown(x.s, y.s)
    BY <2>2 DEF Walked
  <2>5. Later(w, y.s)
    BY <2>4, <1>3, LaterTransitive
  <2>6. ContentsOn(w.dev) \subseteq ContentsOn(y.s.dev)
    BY <2>4, <1>5 DEF Grown
  <2>7. CASE o \in {Out(y.s, Aborted)} /\ Halted(y.s)
    <3>1. o.s = y.s
      BY <2>7, OutIs
    <3> QED BY <3>1, <2>4, <2>5, <2>6, <2>7, NotYetMoved
  <2>8. CASE o \in {Out(y.s, FALSE)}
    <3>1. o.s = y.s /\ o.r = FALSE
      BY <2>8, OutIs
    <3>2. o.r # TRUE
      BY <3>1
    <3> QED BY <3>1, <3>2, <2>4, <2>5, <2>6, NotYetMoved
  <2>9. CASE /\ ~Halted(y.s) /\ y.r # Nil
             /\ o \in Then(CopyAll(y.s, node, y.r, path), LAMBDA v, ok :
                  IF ~ok THEN {Out(DeleteSubCache(DeleteSubCache(v, node.id), base.id), FALSE)} ELSE
                  Then(DeleteMe(v, node), LAMBDA z, ignored : {Out(DeleteSubCaches(z, p, base.id), TRUE)}))
    <3>1. "listing" \in y.s.bad
      <4>1. CASE "listing" \in w.bad
        BY <4>1, <2>5 DEF Later
      <4>2. CASE Missing(w.kids, path, Len(path))
        <5>1. Len(path) \in Len(path) .. Len(path) + 1
          BY <1>2
        <5>2. Missing(x.s.kids, path, Len(path))
          BY <4>2, <1>3
        <5>3. Missing(y.s.kids, path, Len(path))
          BY <5>1, <5>2, <2>4, <1>2, MissingGrows
        <5>4. Reaches(y.s.kids, path, Len(path), y.r)
          BY <2>2, <2>9 DEF Walked
        <5> QED BY <5>3, <5>4, <1>2, MissingIsNotReached
      <4> QED BY <4>1, <4>2
    <3>2. OnHand(y.s, y.r)
      BY <2>3, <2>9 DEF Found
    <3>3. node \in Hand(y.s)
      BY <2>4, <2>5, HandLater
    <3>4. PICK v \in CopyAll(y.s, node, y.r, path) :
            o \in IF Halted(v.s) THEN {Out(v.s, Aborted)}
                  ELSE IF ~v.r THEN {Out(DeleteSubCache(DeleteSubCache(v.s, node.id), base.id), FALSE)} ELSE
                  Then(DeleteMe(v.s, node), LAMBDA z, ignored : {Out(DeleteSubCaches(z, p, base.id), TRUE)})
      BY <2>9 DEF Then
    <3>5. Good(v.s) /\ Later(y.s, v.s)
      BY <3>2, <3>3, <3>4, <2>4, <1>2, CopyAllKeeps
    <3>6. Later(w, v.s) /\ "listing" \in v.s.bad
      BY <3>1, <3>5, <2>5, LaterTransitive DEF Later
    <3>7. CASE o \in {Out(v.s, Aborted)}
      <4>1. o.s = v.s
        BY <3>7, OutIs
      <4> QED BY <4>1, <3>5, <3>6, MovedBlindly
    <3>8. CASE o \in {Out(DeleteSubCache(DeleteSubCache(v.s, node.id), base.id), FALSE)}
      <4>1. o.s = DeleteSubCache(DeleteSubCache(v.s, node.id), base.id)
        BY <3>8, OutIs
      <4>2. PICK t : t = DeleteSubCache(v.s, node.id)
        OBVIOUS
      <4>3. Good(t) /\ t.bad = v.s.bad
        BY <3>5, <4>2, DeleteSubCacheKeeps
      <4>4. o.s = DeleteSubCache(t, base.id)
        BY <4>1, <4>2
      <4>5. Good(o.s) /\ o.s.bad = t.bad
        BY <4>3, <4>4, DeleteSubCacheKeeps
      <4> QED BY <4>3, <4>5, <3>6, MovedBlindly
    <3>9. CASE o \in Then(DeleteMe(v.s, node), LAMBDA z, ignored : {Out(DeleteSubCaches(z, p, base.id), TRUE)})
      <4>1. PICK z \in DeleteMe(v.s, node) :
              o \in IF Halted(z.s) THEN {Out(z.s, Aborted)} ELSE {Out(DeleteSubCaches(z.s, p, base.id), TRUE)}
        BY <3>9 DEF Then
      <4>2. node \in Hand(v.s)
        BY <3>5, <3>6, HandLater
      <4>3. Good(z.s) /\ Later(v.s, z.s)
        BY <4>2, <3>5, <4>1, DeleteMeKeeps
      <4>4. Later(w, z.s) /\ "listing" \in z.s.bad
        BY <4>3, <3>6, LaterTransitive DEF Later
      <4>5. CASE Halted(z.s)
        <5>0. o \in {Out(z.s, Aborted)}
          BY <4>1, <4>5, Zenon
        <5>1. o.s = z.s
          BY <5>0, OutIs
        <5> QED BY <5>1, <4>3, <4>4, MovedBlindly
      <4>6. CASE ~Halted(z.s)
        <5>0. o \in {Out(DeleteSubCaches(z.s, p, base.id), TRUE)}
          BY <4>1, <4>6, Zenon
        <5>1. o.s = DeleteSubCaches(z.s, p, base.id)
          BY <5>0, OutIs
        <5>2. Dropped(z.s, p, base.id, o.s)
          BY <5>1, <4>3, DeleteSubCachesDrops
        <5>3. Good(o.s)
          BY <5>2 DEF Dropped
        <5>4. \/ o.s.bad = z.s.bad
              \/ o.s.bad = z.s.bad \cup {"dangling"} /\ Nests(w, p, base.id)
          <6>1. CASE /\ o.s.bad = z.s.bad \cup {"dangling"} /\ p # base.id
                     /\ \E k \in Below(z.s.kids, p) : \E n \in z.s.kids[k] : n.id = base.id
            <7>1. Nests(w, p, base.id)
              BY <6>1, <4>3, <4>4 DEF Nests
            <7> QED BY <6>1, <7>1
          <6>2. CASE o.s.bad = z.s.bad
            BY <6>2
          <6>3. o.s.bad = z.s.bad \/ ( /\ o.s.bad = z.s.bad \cup {"dangling"} /\ p # base.id
                   /\ \E k \in Below(z.s.kids, p) : \E n \in z.s.kids[k] : n.id = base.id)
            BY <5>2 DEF Dropped
          <6> QED BY <6>1, <6>2, <6>3
        <5> QED BY <5>3, <5>4, <4>4, MovedBlindly
      <4> QED BY <4>5, <4>6
    <3> QED BY <3>4, <3>7, <3>8, <3>9, Zenon
  <2> QED BY <2>1, <2>7, <2>8, <2>9
<1> HIDE DEF Rest
<1>9. CASE Halted(x.s)
  <2>1. o \in {Out(x.s, Aborted)}
    BY <1>1, <1>9, Zenon
  <2> QED BY <2>1, <1>6, <1>9
<1> QED BY <1>1, <1>4, <1>7, <1>8, <1>9

\* The nodes along a trail but the first are objects, each in one listing only.
Leads(w, path, l, f) ==
  /\ f[0].id = Root
  /\ \A i \in 1 .. l : /\ f[i].id \in Ids /\ f[i].id # Root /\ f[i].id \in w.taken
                       /\ f[i - 1].id \in DOMAIN w.kids /\ f[i] \in w.kids[f[i - 1].id] /\ f[i].name = path[i]
Agrees(A, B, l) == \A i \in 1 .. l : A[i] = B[i]

LEMMA TrailNodes ==
  ASSUME NEW w, Good(w), NEW path, NEW l \in Nat, NEW f, Trail(w.kids, path, l, f)
  PROVE  Leads(w, path, l, f)
<1>1. f[0].id = Root
  BY DEF Trail, RootNode
<1>2. ASSUME NEW i \in 1 .. l
      PROVE  /\ f[i].id \in Ids /\ f[i].id # Root /\ f[i].id \in w.taken
             /\ f[i - 1].id \in DOMAIN w.kids /\ f[i] \in w.kids[f[i - 1].id] /\ f[i].name = path[i]
  <2>1. f[i - 1].id \in DOMAIN w.kids /\ f[i] \in w.kids[f[i - 1].id] /\ f[i].name = path[i]
    BY DEF Trail
  <2>2. w.kids \in Caches
    BY DEF Good, States
  <2>3. f[i] \in Nodes
    BY <2>1, <2>2, CachesType
  <2>4. f[i].id \in Ids /\ f[i].id # Root
    BY <2>3, BoundsAssumption DEF Nodes, Ids, Root
  <2>5. f[i].id \in w.taken
    BY <2>1 DEF Good, Held, Named
  <2> QED BY <2>1, <2>4, <2>5
<1> QED BY <1>1, <1>2 DEF Leads

\* Two trails to one object are the same.
LEMMA TrailsBack ==
  ASSUME NEW w, Good(w), NEW A, NEW a \in Nat, NEW f, Trail(w.kids, A, a, f),
         NEW B, NEW b \in Nat, NEW g, Trail(w.kids, B, b, g), f[a].id = g[b].id
  PROVE  a = b /\ Agrees(A, B, a)
<1>9. Leads(w, A, a, f) /\ Leads(w, B, b, g)
  BY TrailNodes
<1> DEFINE W == [i \in 0 .. a |-> i]
           C == [i \in 0 .. a |-> IF i <= b => f[a - i].id = g[b - i].id THEN {i} ELSE {}]
<1>0. ASSUME NEW i \in 1 .. a, NEW j \in 1 .. b, f[i].id = g[j].id
      PROVE  f[i - 1].id = g[j - 1].id /\ A[i] = B[j]
  <2>1. f[i - 1].id \in DOMAIN w.kids /\ f[i] \in w.kids[f[i - 1].id] /\ f[i].name = A[i]
    BY <1>9 DEF Leads
  <2>2. g[j - 1].id \in DOMAIN w.kids /\ g[j] \in w.kids[g[j - 1].id] /\ g[j].name = B[j]
    BY <1>9 DEF Leads
  <2> QED BY <2>1, <2>2, <1>0 DEF Good, Sound, Unique
<1>1. W[0] \in C[0]
  <2>1. a - 0 = a /\ b - 0 = b /\ 0 \in 0 .. a
    OBVIOUS
  <2> QED BY <2>1
<1>2. \A i \in 1 .. a : W[i - 1] \in C[i - 1] => W[i] \in C[i]
  <2> SUFFICES ASSUME NEW i \in 1 .. a, W[i - 1] \in C[i - 1]
               PROVE  W[i] \in C[i]
    OBVIOUS
  <2>1. i - 1 \in 0 .. a /\ i \in 0 .. a
    OBVIOUS
  <2> SUFFICES ASSUME i <= b
               PROVE  f[a - i].id = g[b - i].id
    BY <2>1
  <2>2. f[a - (i - 1)].id = g[b - (i - 1)].id
    BY <2>1
  <2>3. a - (i - 1) \in 1 .. a /\ b - (i - 1) \in 1 .. b /\ a - (i - 1) - 1 = a - i /\ b - (i - 1) - 1 = b - i
    OBVIOUS
  <2> QED BY <2>2, <2>3, <1>0
<1>3. \A i \in 0 .. a : W[i] \in C[i]
  <2> HIDE DEF W, C
  <2> QED BY <1>1, <1>2, Climbing
<1>4. \A i \in 0 .. a : i <= b => f[a - i].id = g[b - i].id
  BY <1>3
<1> HIDE DEF W, C
<1>5. ~(a > b)
  <2> SUFFICES ASSUME a > b PROVE FALSE
    OBVIOUS
  <2>1. b \in 0 .. a /\ a - b \in 1 .. a /\ b - b = 0
    OBVIOUS
  <2>2. f[a - b].id = g[0].id
    BY <2>1, <1>4
  <2>3. f[a - b].id # Root
    BY <2>1, <1>9 DEF Leads
  <2>4. g[0].id = Root
    BY <1>9 DEF Leads
  <2> QED BY <2>2, <2>3, <2>4
<1>6. ~(a < b)
  <2> SUFFICES ASSUME a < b PROVE FALSE
    OBVIOUS
  <2>1. a \in 0 .. a /\ a <= b /\ b - a \in 1 .. b /\ a - a = 0
    OBVIOUS
  <2>2. f[0].id = g[b - a].id
    BY <2>1, <1>4
  <2>3. g[b - a].id # Root
    BY <2>1, <1>9 DEF Leads
  <2>4. f[0].id = Root
    BY <1>9 DEF Leads
  <2> QED BY <2>2, <2>3, <2>4
<1>7. a = b
  BY <1>5, <1>6
<1>8. ASSUME NEW i \in 1 .. a
      PROVE  A[i] = B[i]
  <2>1. a - i \in 0 .. a /\ a - i <= b /\ a - (a - i) = i /\ b - (a - i) = i /\ i \in 1 .. b
    BY <1>7
  <2>2. f[i].id = g[i].id
    BY <2>1, <1>4
  <2> QED BY <2>1, <2>2, <1>0
<1> QED BY <1>7, <1>8 DEF Agrees

\* The listings below the end of one trail name the end of another only when the first is
\* the beginning of the second, now and in every later state of the request.
LEMMA NestsBelow ==
  ASSUME NEW w, Good(w), NEW A, NEW a \in Nat, NEW f, Trail(w.kids, A, a, f),
         NEW B, NEW b \in Nat, NEW g, Trail(w.kids, B, b, g), Nests(w, f[a].id, g[b].id)
  PROVE  a <= b /\ Agrees(A, B, a)
<1>13. Leads(w, A, a, f) /\ Leads(w, B, b, g)
  BY TrailNodes
<1>1. PICK x, y : x = f[a].id /\ y = g[b].id
  OBVIOUS
<1>2. PICK z : Good(z) /\ Later(w, z) /\ x # y /\ \E k \in Below(z.kids, x) : \E n \in z.kids[k] : n.id = y
  BY <1>1 DEF Nests
<1> DEFINE Is(id) == \E k \in Below(z.kids, x) : \E n \in z.kids[k] : n.id = id
           S == {i \in 1 .. b : Is(g[i].id)}
<1>3. ~Is(Root)
  <2> SUFFICES ASSUME NEW k \in Below(z.kids, x), NEW n \in z.kids[k], n.id = Root PROVE FALSE
    OBVIOUS
  <2>1. z.kids \in Caches /\ k \in DOMAIN z.kids
    BY <1>2 DEF Good, States, Below
  <2>2. n \in Nodes
    BY <2>1, CachesType
  <2> QED BY <2>2, BoundsAssumption DEF Nodes, Ids, Root
<1>4. b \in S
  <2>1. Is(g[b].id)
    BY <1>1, <1>2
  <2>2. b # 0
    <3> SUFFICES ASSUME b = 0 PROVE FALSE
      OBVIOUS
    <3>1. g[b].id = Root
      BY <1>13 DEF Leads
    <3> QED BY <3>1, <2>1, <1>3
  <2> QED BY <2>1, <2>2
<1>5. PICK m \in S : \A i \in S : ~(i < m)
  <2>1. S \subseteq Nat /\ S # {}
    BY <1>4
  <2> HIDE DEF S
  <2> QED BY <2>1, Least
<1>6. m \in 1 .. b /\ m - 1 \in Nat
  OBVIOUS
<1>7. PICK k \in Below(z.kids, x) : \E n \in z.kids[k] : n.id = g[m].id
  OBVIOUS
<1>12. PICK n \in z.kids[k] : n.id = g[m].id
  BY <1>7
<1>8. k = g[m - 1].id
  <2>1. g[m].id \in w.taken /\ g[m - 1].id \in DOMAIN w.kids /\ g[m] \in w.kids[g[m - 1].id]
    BY <1>6, <1>13 DEF Leads
  <2>2. k \in DOMAIN z.kids
    BY DEF Below
  <2>3. \/ k \in DOMAIN w.kids /\ n \in w.kids[k]
        \/ n.id \in DOMAIN w.dev /\ w.dev[n.id].parent = k
    BY <1>2, <1>12, <2>1, <2>2 DEF Later
  <2>4. CASE k \in DOMAIN w.kids /\ n \in w.kids[k]
    BY <2>1, <2>4, <1>12 DEF Good, Sound, Unique
  <2>5. CASE n.id \in DOMAIN w.dev /\ w.dev[n.id].parent = k
    BY <2>1, <2>5, <1>12 DEF Good, Sound, Agree
  <2> QED BY <2>3, <2>4, <2>5
<1>9. k = x
  <2> SUFFICES ASSUME k # x PROVE FALSE
    OBVIOUS
  <2>1. Is(g[m - 1].id)
    BY <1>8, BelowNamed
  <2>2. CASE m = 1
    <3>1. g[m - 1].id = Root
      BY <2>2, <1>13 DEF Leads
    <3> QED BY <3>1, <2>1, <1>3
  <2>3. CASE m # 1
    <3>1. m - 1 \in 1 .. b /\ m - 1 < m
      BY <2>3, <1>6
    <3>2. m - 1 \in S
      BY <3>1, <2>1
    <3> QED BY <3>1, <3>2, <1>5
  <2> QED BY <2>2, <2>3
<1>14. \A i \in 1 .. m - 1 : i \in 1 .. b
  BY <1>6
<1> HIDE DEF S
<1>10. Trail(w.kids, B, m - 1, g)
  <2>1. PICK l : l = m - 1
    OBVIOUS
  <2>2. Trail(w.kids, B, l, g)
    BY <1>14, <2>1 DEF Trail
  <2> QED BY <2>1, <2>2
<1>11. a = m - 1 /\ Agrees(A, B, a)
  <2>1. f[a].id = g[m - 1].id
    BY <1>1, <1>8, <1>9
  <2> QED BY <2>1, <1>6, <1>10, TrailsBack
<1> QED BY <1>6, <1>11

LEMMA PrefixIs ==
  ASSUME NEW T, NEW A \in Seq(T), NEW U, NEW B \in Seq(U), Len(A) <= Len(B), Agrees(A, B, Len(A))
  PROVE  IsPrefix(A, B)
<1>1. PICK l \in Nat : l = Len(A)
  OBVIOUS
<1>2. Len(SubSeq(A, 1, l)) = l /\ \A i \in 1 .. l : SubSeq(A, 1, l)[i] = A[i]
  BY <1>1
<1>3. Len(SubSeq(B, 1, l)) = l /\ \A i \in 1 .. l : SubSeq(B, 1, l)[i] = B[i]
  BY <1>1
<1>4. \A i \in 1 .. l : A[i] = B[i]
  BY <1>1 DEF Agrees
<1>5. SubSeq(A, 1, l) = SubSeq(B, 1, l)
  <2>1. SubSeq(A, 1, l) \in Seq(T) /\ SubSeq(B, 1, l) \in Seq(U)
    BY <1>1
  <2> QED BY <2>1, <1>2, <1>3, <1>4
<1> QED BY <1>1, <1>5 DEF IsPrefix

\* A file or directory is moved from the path old to the path new.
MovedTo(s, old, new, o) ==
  /\ Good(o.s) /\ s.bad \subseteq o.s.bad /\ o.s.bad \subseteq s.bad \cup DeviceFaults \cup {"dangling"}
  /\ "dangling" \in o.s.bad => \/ "dangling" \in s.bad
                               \/ IsPrefix(Front(old), Front(new)) \/ IsPrefix(Front(new), Front(old))
  /\ o.r = TRUE => Fresh(s, o.s)
  /\ "listing" \notin o.s.bad /\ "read" \notin o.s.bad => ContentsOn(s.dev) \subseteq ContentsOn(o.s.dev)

\* While the paths are looked up.
LEMMA LookedUp ==
  ASSUME NEW s, NEW t, Keeps(s, t), Grown(s, t), NEW old, NEW new, NEW o, o.s = t, o.r # TRUE \/ Halted(t)
  PROVE  MovedTo(s, old, new, o)
<1>1. "dangling" \notin DeviceFaults
  BY DEF DeviceFaults
<1> QED BY <1>1 DEF Keeps, Later, Grown, MovedTo, Fresh

LEMMA MovedFrom ==
  ASSUME NEW s, NEW w, Keeps(s, w), Grown(s, w), NEW i, NEW j, NEW o, Moved(w, i, j, o), NEW old, NEW new,
         Nests(w, i, j) => IsPrefix(Front(old), Front(new)) \/ IsPrefix(Front(new), Front(old))
  PROVE  MovedTo(s, old, new, o)
<1>1. s.bad \subseteq w.bad /\ w.bad \subseteq s.bad \cup DeviceFaults /\ w.dev = s.dev
  BY DEF Keeps, Later, Grown
<1>2. "dangling" \notin DeviceFaults
  BY DEF DeviceFaults
<1>3. Halted(w) => Halted(o.s)
  BY DEF Halted, Moved
<1>4. o.r = TRUE => Fresh(s, o.s)
  BY <1>3 DEF Moved, Keeps, Fresh
<1> QED BY <1>1, <1>2, <1>4 DEF Moved, MovedTo

LEMMA GrownKeeps ==
  ASSUME NEW s, NEW t, NEW u, Keeps(s, t), Grown(s, t), Keeps(t, u), Grown(t, u)
  PROVE  Keeps(s, u) /\ Grown(s, u) /\ Good(u)
<1>1. Good(u)
  BY DEF Keeps
<1> QED BY <1>1, KeepsOn, GrownTransitive

\* The node at the path old and the directory at the front of the path new.
LEMMA MovesNested ==
  ASSUME NEW w, Good(w), NEW old \in Paths, NEW new \in Paths, NEW n, NEW base,
         Reaches(w.kids, old, Len(old), n), Reaches(w.kids, Front(new), Len(Front(new)), base),
         NEW p, p = Parent(w, n)
  PROVE  /\ Nests(w, p, base.id) => IsPrefix(Front(old), Front(new))
         /\ Nests(w, base.id, p) => IsPrefix(Front(new), Front(old))
<1>1. PICK a, b : a = Len(old) - 1 /\ b = Len(new) - 1
  OBVIOUS
<1>2. a \in Nat /\ b \in Nat /\ Len(Front(old)) = a /\ Len(Front(new)) = b /\ Len(old) \in Nat \ {0}
  BY <1>1, PathFacts
<1>3. PICK q : Reaches(w.kids, old, a, q) /\ q.id \in DOMAIN w.kids /\ n \in w.kids[q.id]
  <2>1. PICK l \in Nat \ {0} : l = Len(old)
    BY <1>2
  <2>2. Reaches(w.kids, old, l, n)
    BY <2>1
  <2>3. PICK q : Before(w.kids, old, l, n, q)
    BY <2>2, ReachedStep
  <2>4. l - 1 = a
    BY <2>1, <1>1
  <2> QED BY <2>3, <2>4 DEF Before
<1>4. p = q.id
  BY <1>3, ParentIs
<1>5. PICK f : Trail(w.kids, old, a, f) /\ f[a] = q
  BY <1>3 DEF Reaches
<1>6. PICK g : Trail(w.kids, Front(new), b, g) /\ g[b] = base
  BY <1>2 DEF Reaches
<1>7. (\E T : Front(old) \in Seq(T)) /\ \E T : Front(new) \in Seq(T)
  <2>1. PICK T : old \in Seq(T)
    BY PathFacts
  <2>2. PICK U : new \in Seq(U)
    BY PathFacts
  <2>3. Front(old) \in Seq(T) /\ Front(new) \in Seq(U)
    BY <2>1, <2>2, <1>1, <1>2, PathFacts DEF Front
  <2> QED BY <2>3
<1>8. \A i \in 1 .. a : Front(old)[i] = old[i]
  BY <1>1, PathFacts
<1>9. ASSUME Nests(w, p, base.id)
      PROVE  IsPrefix(Front(old), Front(new))
  <2>1. Nests(w, f[a].id, g[b].id)
    BY <1>4, <1>5, <1>6, <1>9
  <2>2. a <= b /\ Agrees(old, Front(new), a)
    BY <2>1, <1>2, <1>5, <1>6, NestsBelow
  <2>3. Agrees(Front(old), Front(new), a)
    BY <2>2, <1>8 DEF Agrees
  <2> QED BY <2>2, <2>3, <1>2, <1>7, PrefixIs
<1>10. ASSUME Nests(w, base.id, p)
       PROVE  IsPrefix(Front(new), Front(old))
  <2>1. Nests(w, g[b].id, f[a].id)
    BY <1>4, <1>5, <1>6, <1>10
  <2>2. b <= a /\ Agrees(Front(new), old, b)
    BY <2>1, <1>2, <1>5, <1>6, NestsBelow
  <2>3. Agrees(Front(new), Front(old), b)
    BY <2>2, <1>2, <1>8 DEF Agrees
  <2> QED BY <2>2, <2>3, <1>2, <1>7, PrefixIs
<1> QED BY <1>9, <1>10

LEMMA MoveNodeKeeps ==
  ASSUME NEW s, Good(s), NEW old \in Paths, NEW new \in Paths, NEW o \in MoveNode(s, old, new)
  PROVE  MovedTo(s, old, new, o)
<1> DEFINE Last2(w, n, m, base) ==
             IF m # Nil \/ base = Nil THEN {Out(w, FALSE)}
             ELSE IF n.dir THEN MoveDirectory(w, n, base, new) ELSE MoveFile(w, n, base, Last(new))
           Third(v, n, m) == Then(FilePathToNode(v, Front(new)), LAMBDA w, base : Last2(w, n, m, base))
           Second(u, n, m) == IF n = Nil \/ m # Nil THEN {Out(u, FALSE)} ELSE
                              Then(FilePathToNode(u, new), LAMBDA v, m2 : Third(v, n, m2))
           First(t, n) == Then(FilePathToNode(t, new), LAMBDA u, m : Second(u, n, m))
<1>0. o \in Then(FilePathToNode(s, old), LAMBDA t, n : First(t, n))
  BY DEF MoveNode
<1>1. PICK x \in FilePathToNode(s, old) : o \in IF Halted(x.s) THEN {Out(x.s, Aborted)} ELSE First(x.s, x.r)
  <2> HIDE DEF First
  <2> QED BY <1>0 DEF Then
<1>2. Len(old) \in Nat \ {0} /\ Len(new) \in Nat \ {0} /\ Len(Front(new)) \in Nat /\ Last(new) \in AllNames
  BY PathFacts
<1>3. Walked(s, old, Len(old), x) /\ Found(s, old, x)
  BY <1>2, FilePathToNodeKeeps, Finding
<1>4. Keeps(s, x.s) /\ Grown(s, x.s) /\ Good(x.s)
  BY <1>3 DEF Found, Keeps
<1>5. CASE Halted(x.s)
  <2>1. o \in {Out(x.s, Aborted)}
    BY <1>1, <1>5, Zenon
  <2>2. o.s = x.s
    BY <2>1, OutIs
  <2> QED BY <2>2, <1>4, <1>5, LookedUp
<1>6. CASE ~Halted(x.s)
  <2>0. o \in First(x.s, x.r)
    BY <1>1, <1>6, Zenon
  <2>1. PICK y \in FilePathToNode(x.s, new) : o \in IF Halted(y.s) THEN {Out(y.s, Aborted)} ELSE Second(y.s, x.r, y.r)
    <3> HIDE DEF Second
    <3> QED BY <2>0 DEF Then
  <2>2. Found(x.s, new, y)
    BY <1>2, <1>4, Finding
  <2>3. Keeps(s, y.s) /\ Grown(s, y.s) /\ Good(y.s) /\ Grown(x.s, y.s)
    BY <2>2, <1>4, GrownKeeps DEF Found
  <2>4. CASE Halted(y.s)
    <3>1. o \in {Out(y.s, Aborted)}
      BY <2>1, <2>4, Zenon
    <3>2. o.s = y.s
      BY <3>1, OutIs
    <3> QED BY <3>2, <2>3, <2>4, LookedUp
  <2>5. CASE o \in {Out(y.s, FALSE)}
    <3>1. o.s = y.s /\ o.r = FALSE
      BY <2>5, OutIs
    <3>2. o.r # TRUE
      BY <3>1
    <3> QED BY <3>1, <3>2, <2>3, LookedUp
  <2>6. CASE x.r # Nil /\ o \in Then(FilePathToNode(y.s, new), LAMBDA v, m2 : Third(v, x.r, m2))
    <3>1. PICK v \in FilePathToNode(y.s, new) : o \in IF Halted(v.s) THEN {Out(v.s, Aborted)} ELSE Third(v.s, x.r, v.r)
      <4> HIDE DEF Third
      <4> QED BY <2>6 DEF Then
    <3>2. Walked(y.s, new, Len(new), v) /\ Found(y.s, new, v)
      BY <1>2, <2>3, FilePathToNodeKeeps, Finding
    <3>3. Keeps(s, v.s) /\ Grown(s, v.s) /\ Good(v.s) /\ Grown(y.s, v.s)
      BY <3>2, <2>3, GrownKeeps DEF Found
    <3>4. CASE Halted(v.s)
      <4>1. o \in {Out(v.s, Aborted)}
        BY <3>1, <3>4, Zenon
      <4>2. o.s = v.s
        BY <4>1, OutIs
      <4> QED BY <4>2, <3>3, <3>4, LookedUp
    <3>5. CASE ~Halted(v.s)
      <4>0. o \in Third(v.s, x.r, v.r)
        BY <3>1, <3>5, Zenon
      <4>1. PICK w \in FilePathToNode(v.s, Front(new)) :
              o \in IF Halted(w.s) THEN {Out(w.s, Aborted)} ELSE Last2(w.s, x.r, v.r, w.r)
        <5> HIDE DEF Last2
        <5> QED BY <4>0 DEF Then
      <4>2. Walked(v.s, Front(new), Len(Front(new)), w) /\ Found(v.s, Front(new), w)
        BY <1>2, <3>3, FilePathToNodeKeeps, Finding
      <4>3. Keeps(s, w.s) /\ Grown(s, w.s) /\ Good(w.s) /\ Grown(v.s, w.s)
        BY <4>2, <3>3, GrownKeeps DEF Found
      <4>4. CASE Halted(w.s)
        <5>1. o \in {Out(w.s, Aborted)}
          BY <4>1, <4>4, Zenon
        <5>2. o.s = w.s
          BY <5>1, OutIs
        <5> QED BY <5>2, <4>3, <4>4, LookedUp
      <4>5. CASE o \in {Out(w.s, FALSE)}
        <5>1. o.s = w.s /\ o.r = FALSE
          BY <4>5, OutIs
        <5>2. o.r # TRUE
          BY <5>1
        <5> QED BY <5>1, <5>2, <4>3, LookedUp
      <4>6. CASE /\ ~Halted(w.s) /\ v.r = Nil /\ w.r # Nil
                 /\ o \in IF x.r.dir THEN MoveDirectory(w.s, x.r, w.r, new) ELSE MoveFile(w.s, x.r, w.r, Last(new))
        <5>1. Reaches(w.s.kids, old, Len(old), x.r)
          <6>1. Reaches(x.s.kids, old, Len(old), x.r)
            BY <1>3, <1>6, <2>6 DEF Walked
          <6>2. Grown(x.s, w.s)
            BY <2>3, <3>3, <4>3, GrownTransitive
          <6> QED BY <6>1, <6>2, <1>2, ReachesGrows
        <5>2. Reaches(w.s.kids, Front(new), Len(Front(new)), w.r) /\ OnHand(w.s, w.r)
          BY <4>2, <4>6 DEF Walked, Found
        <5>3. "listing" \in w.s.bad \/ Missing(w.s.kids, new, Len(new))
          <6>1. "listing" \in v.s.bad \/ Missing(v.s.kids, new, Len(new))
            BY <3>2, <3>5, <4>6 DEF Walked
          <6>2. v.s.bad \subseteq w.s.bad
            BY <4>3 DEF Grown
          <6>3. Len(new) \in Len(new) .. Len(new) + 1
            BY <1>2
          <6> QED BY <6>1, <6>2, <6>3, <1>2, <4>3, MissingGrows
        <5>4. \E i \in DOMAIN w.s.kids : x.r \in w.s.kids[i]
          <6>1. \E i \in DOMAIN x.s.kids : x.r \in x.s.kids[i]
            BY <1>2, <1>3, <1>6, <2>6 DEF Found
          <6>2. Grown(x.s, w.s)
            BY <2>3, <3>3, <4>3, GrownTransitive
          <6> QED BY <6>1, <6>2 DEF Grown
        <5>5. x.r \in Hand(w.s)
          <6>1. PICK i \in DOMAIN w.s.kids : x.r \in w.s.kids[i]
            BY <5>4
          <6>2. x.r \in Cached(w.s, i)
            BY <6>1 DEF Cached
          <6> QED BY <6>2, <4>3, ListedOnHand
        <5>6. PICK p : p = Parent(w.s, x.r)
          OBVIOUS
        <5>7. /\ Nests(w.s, p, w.r.id) => IsPrefix(Front(old), Front(new))
              /\ Nests(w.s, w.r.id, p) => IsPrefix(Front(new), Front(old))
          BY <5>1, <5>2, <5>6, <4>3, MovesNested
        <5>8. x.r.dir \in BOOLEAN
          BY <5>5 DEF Hand, Nodes
        <5>9. CASE x.r.dir
          <6>1. o \in MoveDirectory(w.s, x.r, w.r, new)
            BY <4>6, <5>9
          <6>2. Moved(w.s, p, w.r.id, o)
            BY <6>1, <4>3, <5>2, <5>3, <5>5, <5>6, <5>9, MoveDirectoryKeeps
          <6> QED BY <6>2, <4>3, <5>7, MovedFrom
        <5>10. CASE ~x.r.dir
          <6>1. o \in MoveFile(w.s, x.r, w.r, Last(new))
            BY <4>6, <5>10
          <6>2. Moved(w.s, w.r.id, p, o)
            BY <6>1, <4>3, <1>2, <5>2, <5>4, <5>5, <5>6, <5>10, MoveFileKeeps
          <6> QED BY <6>2, <4>3, <5>7, MovedFrom
        <5> QED BY <5>9, <5>10
      <4> QED BY <4>1, <4>4, <4>5, <4>6
    <3> QED BY <3>4, <3>5
  <2> QED BY <2>1, <2>4, <2>5, <2>6
<1> QED BY <1>5, <1>6

-----------------------------------------------------------------------------
(* The requests.                                                           *)

Kinds == {"isdir", "isfile", "inode", "list", "mkfile", "mkdir", "delete", "move", "pull", "push"}

\* What a request leaves of the state it found.
Served(s, q, o) ==
  /\ Good(o.s) /\ s.bad \subseteq o.s.bad /\ o.s.bad \subseteq s.bad \cup DeviceFaults \cup {"dangling"}
  /\ "dangling" \in o.s.bad =>
       \/ "dangling" \in s.bad
       \/ /\ q.kind = "move"
          /\ \/ Front(q.path) = Front(q.to)
             \/ IsPrefix(Front(q.path), Front(q.to)) \/ IsPrefix(Front(q.to), Front(q.path))
  /\ Fresh(s, o.s) \/ (q.kind = "move" /\ o.r # TRUE)
  /\ q.kind = "move" /\ "listing" \notin o.s.bad /\ "read" \notin o.s.bad
       => ContentsOn(s.dev) \subseteq ContentsOn(o.s.dev)

LEMMA KeepsServes ==
  ASSUME NEW s, NEW q, NEW o, Keeps(s, o.s), q.kind # "move"
  PROVE  Served(s, q, o)
<1>1. "dangling" \notin DeviceFaults
  BY DEF DeviceFaults
<1> QED BY <1>1 DEF Keeps, Later, Served

LEMMA MoveServes ==
  ASSUME NEW s, Good(s), NEW q, q.kind = "move", q.path \in Paths, q.to \in Paths,
         NEW o \in (IF MustMove(q.path, q.to) THEN MoveNode(s, q.path, q.to)
                    ELSE RenameObject(s, q.path, Last(q.to)))
  PROVE  Served(s, q, o)
<1>1. "dangling" \notin DeviceFaults
  BY DEF DeviceFaults
<1>2. PICK old \in Paths, new \in Paths : old = q.path /\ new = q.to
  OBVIOUS
<1>3. CASE MustMove(old, new)
  <2>1. o \in MoveNode(s, old, new)
    BY <1>2, <1>3
  <2>2. MovedTo(s, old, new, o)
    BY <2>1, MoveNodeKeeps
  <2> QED BY <1>2, <1>3, <2>2 DEF MovedTo, Served, MustMove
<1>4. CASE ~MustMove(old, new)
  <2>1. o \in RenameObject(s, old, Last(new))
    BY <1>2, <1>4
  <2>2. Renamed(s, o.s)
    BY <2>1, RenameObjectKeeps
  <2> QED BY <1>1, <1>2, <1>4, <2>2 DEF Renamed, Served, MustMove
<1> QED BY <1>3, <1>4

\* Every request leaves a sound tree and listings that are true of it.
LEMMA HandleServes ==
  ASSUME NEW s, Good(s), NEW q, q.kind \in Kinds, q.path \in Paths, q.to \in Paths, NEW o \in Handle(s, q)
  PROVE  Served(s, q, o)
<1>1. PICK path \in Paths : path = q.path
  OBVIOUS
<1>2. CASE q.kind \in {"isdir", "isfile", "inode"}
  <2>1. \/ o \in Exists(s, path, IsDirectory) \/ o \in Exists(s, path, IsFile)
        \/ o \in Exists(s, path, LAMBDA n : n # Nil)
    BY <1>1, <1>2 DEF Handle
  <2>2. Keeps(s, o.s)
    BY <2>1, ExistsKeeps
  <2> QED BY <1>2, <2>2, KeepsServes
<1>3. CASE q.kind = "list"
  <2>1. o \in Then(DoForAllDirContent(s, path), LAMBDA t, nodes : {Out(t, nodes # {})})
    BY <1>1, <1>3 DEF Handle
  <2> QED BY <1>3, <2>1, ListKeeps, KeepsServes
<1>4. CASE q.kind = "mkfile"
  <2>1. o \in CreateAsFile(s, path)
    BY <1>1, <1>4 DEF Handle
  <2> QED BY <1>4, <2>1, CreateAsFileKeeps, KeepsServes
<1>5. CASE q.kind = "mkdir"
  <2>1. o \in CreateAsDirectory(s, path)
    BY <1>1, <1>5 DEF Handle
  <2> QED BY <1>5, <2>1, CreateAsDirectoryKeeps, KeepsServes
<1>6. CASE q.kind = "delete"
  <2>1. o \in DeleteDirOrFile(s, path)
    BY <1>1, <1>6 DEF Handle
  <2> QED BY <1>6, <2>1, DeleteDirOrFileKeeps, KeepsServes
<1>7. CASE q.kind = "pull"
  <2>1. o \in ReadFile(s, path)
    BY <1>1, <1>7 DEF Handle, HandleFilePull
  <2> QED BY <1>7, <2>1, ReadFileKeeps, KeepsServes
<1>8. CASE q.kind = "push"
  <2>1. o \in WriteFile(s, path, New)
    BY <1>1, <1>8 DEF Handle, HandleFilePush
  <2>2. New \in AllContents
    BY DEF AllContents
  <2> QED BY <1>8, <2>1, <2>2, WriteFileKeeps, KeepsServes
<1>9. CASE q.kind = "move"
  <2>1. o \in (IF MustMove(q.path, q.to) THEN MoveNode(s, q.path, q.to) ELSE RenameObject(s, q.path, Last(q.to)))
    BY <1>9 DEF Handle
  <2> QED BY <1>9, <2>1, MoveServes
<1> QED BY <1>2, <1>3, <1>4, <1>5, <1>6, <1>7, <1>8, <1>9 DEF Kinds

-----------------------------------------------------------------------------
(* The paths of the objects.                                               *)

\* The names p lead down from a along the objects f on the device d.
Descent(d, a, p, f) ==
  /\ f[0] = a
  /\ \A j \in 1 .. Len(p) : f[j] \in DOMAIN d /\ d[f[j]].parent = f[j - 1] /\ d[f[j]].name = p[j]
Links(d, a, i, p) == \E f : Descent(d, a, p, f) /\ f[Len(p)] = i

\* No object is below itself.
Rooted(d) == \A S \in SUBSET Ids : S # {} => \E x \in S : x \in DOMAIN d => d[x].parent \notin S

LEMMA LinksNone ==
  ASSUME NEW d, NEW a
  PROVE  Links(d, a, a, <<>>)
<1>1. Descent(d, a, <<>>, [j \in {0} |-> a]) /\ [j \in {0} |-> a][Len(<<>>)] = a
  BY DEF Descent
<1> QED BY <1>1 DEF Links

\* One name more at the front.
LEMMA LinksUp ==
  ASSUME NEW d, NEW a \in DOMAIN d, NEW i, NEW T, NEW p \in Seq(T), Links(d, a, i, p),
         NEW n \in T, n = d[a].name
  PROVE  Links(d, d[a].parent, i, <<n>> \o p)
<1>1. PICK f : Descent(d, a, p, f) /\ f[Len(p)] = i
  BY DEF Links
<1>2. PICK l \in Nat : l = Len(p)
  OBVIOUS
<1>3. PICK q : q = <<n>> \o p
  OBVIOUS
<1>4. Len(q) = l + 1 /\ q[1] = n /\ \A j \in 1 .. l : q[j + 1] = p[j]
  BY <1>2, <1>3, Pushed
<1> DEFINE g == [j \in 0 .. l + 1 |-> IF j = 0 THEN d[a].parent ELSE f[j - 1]]
<1>5. g[0] = d[a].parent /\ g[l + 1] = f[l] /\ \A j \in 1 .. l + 1 : g[j] = f[j - 1]
  BY <1>2
<1> HIDE DEF g
<1>6. \A j \in 1 .. l + 1 : g[j] \in DOMAIN d /\ d[g[j]].parent = g[j - 1] /\ d[g[j]].name = q[j]
  <2> SUFFICES ASSUME NEW j \in 1 .. l + 1
               PROVE  g[j] \in DOMAIN d /\ d[g[j]].parent = g[j - 1] /\ d[g[j]].name = q[j]
    OBVIOUS
  <2>1. CASE j = 1
    BY <2>1, <1>1, <1>4, <1>5 DEF Descent
  <2>2. CASE j # 1
    <3>1. PICK k \in 1 .. l : j = k + 1
      <4>1. j - 1 \in 1 .. l /\ j = (j - 1) + 1
        BY <2>2, <1>2
      <4> QED BY <4>1
    <3>2. f[k] \in DOMAIN d /\ d[f[k]].parent = f[k - 1] /\ d[f[k]].name = p[k]
      BY <1>1, <1>2 DEF Descent
    <3>3. g[j] = f[k]
      BY <3>1, <1>5
    <3>4. g[k] = f[k - 1] /\ j - 1 = k
      BY <3>1, <1>5
    <3>5. q[j] = p[k]
      BY <3>1, <1>4
    <3> QED BY <3>2, <3>3, <3>4, <3>5
  <2> QED BY <2>1, <2>2
<1>7. Descent(d, d[a].parent, q, g) /\ g[Len(q)] = i
  BY <1>1, <1>2, <1>4, <1>5, <1>6 DEF Descent
<1> QED BY <1>3, <1>7 DEF Links

\* One name more at the end.
LEMMA LinksDown ==
  ASSUME NEW d, NEW a, NEW i, NEW T, NEW p \in Seq(T), Links(d, a, i, p),
         NEW j \in DOMAIN d, d[j].parent = i, NEW n \in T, n = d[j].name
  PROVE  Links(d, a, j, Append(p, n))
<1>1. PICK f : Descent(d, a, p, f) /\ f[Len(p)] = i
  BY DEF Links
<1>2. PICK l \in Nat : l = Len(p)
  OBVIOUS
<1>3. PICK q : q = Append(p, n)
  OBVIOUS
<1>4. Len(q) = l + 1 /\ q[l + 1] = n /\ \A k \in 1 .. l : q[k] = p[k]
  BY <1>2, <1>3
<1> DEFINE g == [k \in 0 .. l + 1 |-> IF k = l + 1 THEN j ELSE f[k]]
<1>5. g[l + 1] = j /\ \A k \in 0 .. l : g[k] = f[k]
  BY <1>2
<1> HIDE DEF g
<1>6. \A k \in 1 .. l + 1 : g[k] \in DOMAIN d /\ d[g[k]].parent = g[k - 1] /\ d[g[k]].name = q[k]
  <2> SUFFICES ASSUME NEW k \in 1 .. l + 1
               PROVE  g[k] \in DOMAIN d /\ d[g[k]].parent = g[k - 1] /\ d[g[k]].name = q[k]
    OBVIOUS
  <2>1. CASE k = l + 1
    <3>1. k - 1 = l /\ l \in 0 .. l
      BY <2>1, <1>2
    <3> QED BY <2>1, <3>1, <1>1, <1>2, <1>4, <1>5
  <2>2. CASE k # l + 1
    <3>1. k \in 1 .. l /\ k \in 0 .. l /\ k - 1 \in 0 .. l
      BY <2>2, <1>2
    <3>2. f[k] \in DOMAIN d /\ d[f[k]].parent = f[k - 1] /\ d[f[k]].name = p[k]
      BY <3>1, <1>1, <1>2 DEF Descent
    <3> QED BY <3>1, <3>2, <1>4, <1>5
  <2> QED BY <2>1, <2>2
<1>7. g[0] = a
  <2>1. 0 \in 0 .. l
    BY <1>2
  <2> QED BY <2>1, <1>1, <1>5 DEF Descent
<1>8. Descent(d, a, q, g) /\ g[Len(q)] = j
  BY <1>4, <1>5, <1>6, <1>7 DEF Descent
<1> QED BY <1>3, <1>8 DEF Links

\* The last name leads from the directory an object is in.
LEMMA LinksLast ==
  ASSUME NEW d, NEW a, NEW i, NEW T, NEW p \in Seq(T), p # <<>>, Links(d, a, i, p)
  PROVE  /\ i \in DOMAIN d /\ d[i].name = Last(p) /\ Last(p) \in T
         /\ Front(p) \in Seq(T) /\ Links(d, a, d[i].parent, Front(p))
<1>1. PICK f : Descent(d, a, p, f) /\ f[Len(p)] = i
  BY DEF Links
<1>2. PICK l \in Nat \ {0} : l = Len(p)
  OBVIOUS
<1>3. l \in 1 .. l /\ Last(p) = p[l] /\ p[l] \in T
  BY <1>2 DEF Last
<1>4. i \in DOMAIN d /\ d[i].parent = f[l - 1] /\ d[i].name = p[l]
  BY <1>1, <1>2, <1>3 DEF Descent
<1>5. PICK q : q = Front(p)
  OBVIOUS
<1>6. q \in Seq(T) /\ Len(q) = l - 1 /\ \A j \in 1 .. l - 1 : q[j] = p[j]
  BY <1>2, <1>5 DEF Front
<1>7. Descent(d, a, q, f)
  <2>1. \A j \in 1 .. l - 1 : j \in 1 .. l
    BY <1>2
  <2> QED BY <2>1, <1>1, <1>2, <1>6 DEF Descent
<1>8. Links(d, a, d[i].parent, q)
  BY <1>4, <1>6, <1>7 DEF Links
<1> QED BY <1>3, <1>4, <1>5, <1>6, <1>8

\* A chain passes through one object of a set closed upwards, or stays in it.
LEMMA ChainsAgree ==
  ASSUME NEW d, NEW a, a \notin DOMAIN d, NEW T, NEW p \in Seq(T), NEW U, NEW q \in Seq(U), NEW f, NEW g,
         Descent(d, a, p, f), Descent(d, a, q, g), f[Len(p)] = g[Len(q)]
  PROVE  Len(p) = Len(q) /\ \A j \in 0 .. Len(p) : f[j] = g[j]
<1>1. PICK l \in Nat, m \in Nat : l = Len(p) /\ m = Len(q)
  OBVIOUS
<1> DEFINE Bad == {k \in Nat : k <= l /\ k <= m /\ f[l - k] # g[m - k]}
<1>2. Bad = {}
  <2> SUFFICES ASSUME Bad # {} PROVE FALSE
    OBVIOUS
  <2>1. PICK k \in Bad : \A n \in Bad : ~(n < k)
    <3>1. Bad \subseteq Nat
      OBVIOUS
    <3> HIDE DEF Bad
    <3> QED BY <3>1, Least
  <2>2. k \in Nat /\ k <= l /\ k <= m /\ f[l - k] # g[m - k]
    BY <2>1
  <2>0. k # 0
    <3> SUFFICES ASSUME k = 0 PROVE FALSE
      OBVIOUS
    <3>1. l - k = l /\ m - k = m
      BY <1>1
    <3> QED BY <3>1, <2>2, <1>1
  <2>3. k - 1 \in Nat /\ k - 1 <= l /\ k - 1 <= m /\ k - 1 \notin Bad
    <3>1. k - 1 \in Nat /\ k - 1 <= l /\ k - 1 <= m /\ k - 1 < k
      BY <2>2, <2>0, <1>1
    <3> QED BY <3>1, <2>1
  <2>4. f[l - (k - 1)] = g[m - (k - 1)]
    BY <2>3
  <2>5. /\ l - (k - 1) \in 1 .. l /\ m - (k - 1) \in 1 .. m
        /\ l - (k - 1) - 1 = l - k /\ m - (k - 1) - 1 = m - k
    BY <2>0, <2>2, <1>1
  <2>6. d[f[l - (k - 1)]].parent = f[l - k]
    BY <2>5, <1>1 DEF Descent
  <2>7. d[g[m - (k - 1)]].parent = g[m - k]
    BY <2>5, <1>1 DEF Descent
  <2> QED BY <2>1, <2>4, <2>6, <2>7
<1>3. \A k \in Nat : k <= l /\ k <= m => f[l - k] = g[m - k]
  BY <1>2
<1> HIDE DEF Bad
<1>4. ~(l < m)
  <2> SUFFICES ASSUME l < m PROVE FALSE
    OBVIOUS
  <2>1. f[l - l] = g[m - l]
    BY <1>1, <1>3
  <2>2. g[m - l] = a
    BY <2>1, <1>1 DEF Descent
  <2>3. m - l \in 1 .. m
    BY <1>1
  <2> QED BY <2>2, <2>3, <1>1 DEF Descent
<1>5. ~(m < l)
  <2> SUFFICES ASSUME m < l PROVE FALSE
    OBVIOUS
  <2>1. f[l - m] = g[m - m]
    BY <1>1, <1>3
  <2>2. f[l - m] = a
    BY <2>1, <1>1 DEF Descent
  <2>3. l - m \in 1 .. l
    BY <1>1
  <2> QED BY <2>2, <2>3, <1>1 DEF Descent
<1>6. l = m
  BY <1>1, <1>4, <1>5
<1>7. \A j \in 0 .. l : f[j] = g[j]
  <2> SUFFICES ASSUME NEW j \in 0 .. l PROVE f[j] = g[j]
    OBVIOUS
  <2>1. l - j \in Nat /\ l - j <= l /\ l - j <= m /\ l - (l - j) = j /\ m - (l - j) = j
    BY <1>1, <1>6
  <2> QED BY <2>1, <1>3
<1> QED BY <1>1, <1>6, <1>7

\* An object has one path.
LEMMA LinksOnce ==
  ASSUME NEW d, NEW a, a \notin DOMAIN d, NEW i, NEW T, NEW p \in Seq(T), NEW U, NEW q \in Seq(U),
         Links(d, a, i, p), Links(d, a, i, q)
  PROVE  p = q
<1>1. PICK f : Descent(d, a, p, f) /\ f[Len(p)] = i
  BY DEF Links
<1>2. PICK g : Descent(d, a, q, g) /\ g[Len(q)] = i
  BY DEF Links
<1>3. Len(p) = Len(q) /\ \A j \in 0 .. Len(p) : f[j] = g[j]
  BY <1>1, <1>2, ChainsAgree
<1>4. \A j \in 1 .. Len(p) : p[j] = q[j]
  <2> SUFFICES ASSUME NEW j \in 1 .. Len(p) PROVE p[j] = q[j]
    OBVIOUS
  <2>1. j \in 0 .. Len(p)
    OBVIOUS
  <2> QED BY <2>1, <1>1, <1>2, <1>3 DEF Descent
<1> QED BY <1>3, <1>4

\* A chain of objects is no longer than there are objects.
LEMMA LinksShort ==
  ASSUME NEW d, DOMAIN d \subseteq Ids, Rooted(d), NEW a \in DOMAIN d, NEW i, NEW T, NEW p \in Seq(T), Links(d, a, i, p)
  PROVE  Len(p) < MaxId
<1>1. PICK f : Descent(d, a, p, f) /\ f[Len(p)] = i
  BY DEF Links
<1>2. PICK l \in Nat : l = Len(p)
  OBVIOUS
<1>3. \A j \in 0 .. l : f[j] \in Ids
  BY <1>1, <1>2 DEF Descent
<1>4. \A j, k \in 0 .. l : j < k => f[j] # f[k]
  <2> SUFFICES ASSUME NEW j \in 0 .. l, NEW k \in 0 .. l, j < k, f[j] = f[k]
               PROVE  FALSE
    OBVIOUS
  <2> DEFINE S == {f[h] : h \in j + 1 .. k}
  <2>1. S \subseteq Ids
    <3>1. \A h \in j + 1 .. k : h \in 0 .. l
      BY <1>2
    <3> QED BY <3>1, <1>3
  <2>2. f[k] \in S
    OBVIOUS
  <2>3. PICK x \in S : x \in DOMAIN d => d[x].parent \notin S
    <3>1. S # {}
      BY <2>2
    <3> HIDE DEF S
    <3> QED BY <2>1, <3>1 DEF Rooted
  <2>4. PICK h \in j + 1 .. k : x = f[h]
    BY <2>3
  <2>5. h \in 1 .. l
    BY <1>2
  <2>6. x \in DOMAIN d /\ d[x].parent = f[h - 1]
    BY <2>4, <2>5, <1>1, <1>2 DEF Descent
  <2>7. CASE h = j + 1
    BY <2>2, <2>3, <2>6, <2>7
  <2>8. CASE h # j + 1
    <3>1. h - 1 \in j + 1 .. k
      BY <2>4, <2>8
    <3> QED BY <3>1, <2>3, <2>6
  <2> QED BY <2>7, <2>8
<1> DEFINE g == [j \in 0 .. l |-> f[j]]
<1>5. g \in [0 .. l -> Ids] /\ \A j, k \in 0 .. l : j # k => g[j] # g[k]
  <2>1. \A j, k \in 0 .. l : j # k => j < k \/ k < j
    BY <1>2
  <2> QED BY <2>1, <1>3, <1>4
<1>6. IsFiniteSet(0 .. l) /\ Cardinality(0 .. l) = l + 1
  <2>1. 0 \in Int /\ l \in Int /\ ~(0 > l)
    BY <1>2
  <2>2. IsFiniteSet(0 .. l) /\ Cardinality(0 .. l) = IF 0 > l THEN 0 ELSE l - 0 + 1
    BY <2>1, FS_Interval
  <2> QED BY <2>1, <2>2
<1>7. IsFiniteSet(Ids) /\ Cardinality(Ids) = MaxId
  <2>1. MaxId \in Nat /\ 1 \in Int /\ MaxId \in Int
    BY BoundsAssumption
  <2>2. IsFiniteSet(1 .. MaxId) /\ Cardinality(1 .. MaxId) = IF 1 > MaxId THEN 0 ELSE MaxId - 1 + 1
    BY <2>1, FS_Interval
  <2> QED BY <2>1, <2>2 DEF Ids
<1> HIDE DEF g
<1>8. ~(MaxId < l + 1)
  <2> SUFFICES ASSUME MaxId < l + 1 PROVE FALSE
    OBVIOUS
  <2>1. \E j, k \in 0 .. l : j # k /\ g[j] = g[k]
    BY <1>5, <1>6, <1>7, FS_PigeonHole
  <2> QED BY <2>1, <1>5
<1> QED BY <1>2, <1>8, BoundsAssumption

\* The names of a path of objects are theirs.
LEMMA LinksTyped ==
  ASSUME NEW d \in Devices, NEW a, NEW i, NEW T, NEW p \in Seq(T), Links(d, a, i, p)
  PROVE  p \in Seq(AllNames)
<1>1. PICK f : Descent(d, a, p, f) /\ f[Len(p)] = i
  BY DEF Links
<1>2. \A j \in 1 .. Len(p) : p[j] \in AllNames
  BY <1>1, DevicesType DEF Descent, Objects
<1>3. DOMAIN p = 1 .. Len(p) /\ p = [j \in DOMAIN p |-> p[j]] /\ Len(p) \in Nat
  OBVIOUS
<1> QED BY <1>2, <1>3

\* Only the empty path leads to the root.
LEMMA LinksRoot ==
  ASSUME NEW d \in Devices, NEW a, NEW T, NEW p \in Seq(T), Links(d, a, Root, p)
  PROVE  p = <<>> /\ a = Root
<1>1. PICK f : Descent(d, a, p, f) /\ f[Len(p)] = Root
  BY DEF Links
<1>2. Root \notin DOMAIN d
  BY DevicesType, BoundsAssumption DEF Ids, Root
<1>3. CASE p # <<>>
  <2>1. Len(p) \in 1 .. Len(p)
    BY <1>3
  <2> QED BY <2>1, <1>1, <1>2 DEF Descent
<1>4. CASE p = <<>>
  BY <1>1, <1>4 DEF Descent
<1> QED BY <1>3, <1>4

\* The path of an object that is on both of two devices that agree on what they share.
LEMMA LinksKeep ==
  ASSUME NEW d \in Devices, NEW e \in Devices, Parented(d), \A j \in DOMAIN d : j \in DOMAIN e => e[j] = d[j],
         NEW i \in DOMAIN d, NEW T, NEW p \in Seq(T), Links(e, Root, i, p)
  PROVE  Links(d, Root, i, p)
<1>1. PICK f : Descent(e, Root, p, f) /\ f[Len(p)] = i
  BY DEF Links
<1>2. PICK l \in Nat : l = Len(p)
  OBVIOUS
<1> DEFINE Bad == {k \in Nat : k < l /\ f[l - k] \notin DOMAIN d}
<1>3. Bad = {}
  <2> SUFFICES ASSUME Bad # {} PROVE FALSE
    OBVIOUS
  <2>1. PICK k \in Bad : \A n \in Bad : ~(n < k)
    <3>1. Bad \subseteq Nat
      OBVIOUS
    <3> HIDE DEF Bad
    <3> QED BY <3>1, Least
  <2>2. k # 0
    <3> SUFFICES ASSUME k = 0 PROVE FALSE
      OBVIOUS
    <3>1. l - k = l
      BY <1>2
    <3> QED BY <3>1, <2>1, <1>1, <1>2
  <2>3. k - 1 \in Nat /\ k - 1 < l /\ k - 1 \notin Bad
    BY <2>1, <2>2, <1>2
  <2>4. f[l - (k - 1)] \in DOMAIN d
    BY <2>3
  <2>5. l - (k - 1) \in 1 .. l /\ l - (k - 1) - 1 = l - k /\ l - k \in 1 .. l
    BY <2>1, <2>2, <1>2
  <2>6. f[l - (k - 1)] \in DOMAIN e /\ e[f[l - (k - 1)]].parent = f[l - k]
    BY <2>5, <1>1, <1>2 DEF Descent
  <2>7. f[l - k] \in {Root} \cup DOMAIN d
    BY <2>4, <2>6 DEF Parented
  <2>8. f[l - k] \in DOMAIN e
    BY <2>5, <1>1, <1>2 DEF Descent
  <2>9. Root \notin DOMAIN e
    BY DevicesType, BoundsAssumption DEF Ids, Root
  <2> QED BY <2>1, <2>7, <2>8, <2>9
<1>4. \A k \in Nat : k < l => f[l - k] \in DOMAIN d
  BY <1>3
<1> HIDE DEF Bad
<1>5. \A j \in 1 .. l : f[j] \in DOMAIN d
  <2> SUFFICES ASSUME NEW j \in 1 .. l PROVE f[j] \in DOMAIN d
    OBVIOUS
  <2>1. l - j \in Nat /\ l - j < l /\ l - (l - j) = j
    BY <1>2
  <2> QED BY <2>1, <1>4
<1>6. Descent(d, Root, p, f)
  BY <1>1, <1>2, <1>5 DEF Descent
<1> QED BY <1>1, <1>6 DEF Links

\* The paths of the view, as they are made: from the last name up.
ClimbUp(d, u) == IF u.at = Root THEN u
                 ELSE [u EXCEPT !.at = d[u.at].parent, !.path = <<d[u.at].name>> \o @]
ClimbAll(d, us) == {ClimbUp(d, u) : u \in us}
ClimbSteps(d, N, A, f) == f = [n \in 0 .. N |-> IF n = 0 THEN A ELSE ClimbAll(d, f[n - 1])]

LEMMA ClimbRun ==
  ASSUME NEW d, NEW N \in Nat, NEW A
  PROVE  \E f : ClimbSteps(d, N, A, f)
<1> USE DEF ClimbSteps
<1> DEFINE Bad == {k \in 0 .. N : ~ \E f : f = [n \in 0 .. k |-> IF n = 0 THEN A ELSE ClimbAll(d, f[n - 1])]}
<1>1. SUFFICES ASSUME Bad # {} PROVE FALSE
  OBVIOUS
<1>2. Bad \subseteq Nat
  OBVIOUS
<1>3. PICK m \in Bad : \A n \in Bad : ~(n < m)
  <2> HIDE DEF Bad
  <2> QED BY <1>1, <1>2, Least
<1>4. CASE m = 0
  <2>1. [n \in 0 .. 0 |-> A] = [n \in 0 .. 0 |-> IF n = 0 THEN A ELSE ClimbAll(d, [i \in 0 .. 0 |-> A][n - 1])]
    OBVIOUS
  <2> QED BY <2>1, <1>3, <1>4
<1>5. CASE m # 0
  <2>0. m \in 0 .. N /\ m - 1 \in 0 .. N /\ m - 1 < m
    BY <1>3, <1>5
  <2>1. m - 1 \in 0 .. N /\ m - 1 \notin Bad
    BY <2>0, <1>3
  <2>2. PICK f : f = [n \in 0 .. m - 1 |-> IF n = 0 THEN A ELSE ClimbAll(d, f[n - 1])]
    BY <2>1
  <2> DEFINE g == [n \in 0 .. m |-> IF n = m THEN ClimbAll(d, f[m - 1]) ELSE f[n]]
  <2>3. \A n \in 0 .. m - 1 : g[n] = f[n]
    BY <2>1
  <2>4. ASSUME NEW n \in 0 .. m
        PROVE  g[n] = IF n = 0 THEN A ELSE ClimbAll(d, g[n - 1])
    <3>1. CASE n = m
      BY <3>1, <2>1, <2>3, <1>5
    <3>2. CASE n # m
      <4>1. n \in 0 .. m - 1 /\ (n # 0 => n - 1 \in 0 .. m - 1)
        BY <3>2, <2>1
      <4>2. f[n] = IF n = 0 THEN A ELSE ClimbAll(d, f[n - 1])
        BY <4>1, <2>2
      <4> QED BY <4>1, <4>2, <2>3
    <3> QED BY <3>1, <3>2
  <2>5. g = [n \in 0 .. m |-> g[n]]
    OBVIOUS
  <2> HIDE DEF g
  <2>6. g = [n \in 0 .. m |-> IF n = 0 THEN A ELSE ClimbAll(d, g[n - 1])]
    BY <2>4, <2>5
  <2> QED BY <2>6, <1>3
<1> QED BY <1>4, <1>5

\* n names up from the object i.
Climbed(d, i, n, u) ==
  /\ u = [at |-> u.at, path |-> u.path, content |-> d[i].content]
  /\ u.path \in Seq(AllNames) /\ Links(d, u.at, i, u.path)
  /\ u.at = Root \/ (u.at \in DOMAIN d /\ Len(u.path) = n)

LEMMA ClimbedUp ==
  ASSUME NEW d \in Devices, Parented(d), NEW i \in DOMAIN d, NEW n \in Nat \ {0}, NEW u, Climbed(d, i, n - 1, u)
  PROVE  Climbed(d, i, n, ClimbUp(d, u))
<1>1. PICK a, p : a = u.at /\ p = u.path
  OBVIOUS
<1>2. u = [at |-> a, path |-> p, content |-> d[i].content] /\ p \in Seq(AllNames) /\ Links(d, a, i, p)
  BY <1>1 DEF Climbed
<1>3. CASE a = Root
  <2>1. ClimbUp(d, u) = u
    BY <1>1, <1>3 DEF ClimbUp
  <2> QED BY <2>1, <1>1, <1>3 DEF Climbed
<1>4. CASE a # Root
  <2>1. a \in DOMAIN d /\ Len(p) = n - 1
    BY <1>1, <1>4 DEF Climbed
  <2>2. PICK b, m, q : b = d[a].parent /\ m = d[a].name /\ q = <<m>> \o p
    OBVIOUS
  <2>3. m \in AllNames /\ (b = Root \/ b \in DOMAIN d)
    BY <2>1, <2>2, DevicesType DEF Objects, Parented
  <2>4. q \in Seq(AllNames) /\ Len(q) = n
    BY <2>1, <2>2, <2>3, <1>2, Pushed
  <2>5. Links(d, b, i, q)
    BY <2>1, <2>2, <2>3, <1>2, LinksUp
  <2>6. ClimbUp(d, u) = [at |-> b, path |-> q, content |-> d[i].content]
    <3>1. ClimbUp(d, u) = [u EXCEPT !.at = b, !.path = q]
      BY <1>1, <1>4, <2>2 DEF ClimbUp
    <3> QED BY <3>1, <1>2
  <2> QED BY <2>3, <2>4, <2>5, <2>6 DEF Climbed
<1> QED BY <1>3, <1>4

\* The view has an entry for every object, with its path from the root.
Entry(d, e) ==
  \E i \in DOMAIN d : \E p \in Seq(AllNames) : Links(d, Root, i, p) /\ e = [path |-> p, content |-> d[i].content]
EachClimbed(d, n, us) ==
  /\ \A u \in us : \E i \in DOMAIN d : Climbed(d, i, n, u)
  /\ \A i \in DOMAIN d : \E u \in us : Climbed(d, i, n, u)

LEMMA ViewIs ==
  ASSUME NEW d \in Devices, Rooted(d), Parented(d), NEW e
  PROVE  e \in View(d) <=> Entry(d, e)
<1> DEFINE A == {[at |-> i, path |-> <<>>, content |-> d[i].content] : i \in DOMAIN d}
           W == CHOOSE W : W = [n \in 0 .. MaxId |-> IF n = 0 THEN A ELSE ClimbAll(d, W[n - 1])]
<1>0. MaxId \in Nat
  BY BoundsAssumption
<1>1. View(d) = {[path |-> u.path, content |-> u.content] : u \in W[MaxId]}
  BY DEF View, ClimbAll, ClimbUp
<1>2. EachClimbed(d, 0, A)
  <2>1. ASSUME NEW i \in DOMAIN d
        PROVE  Climbed(d, i, 0, [at |-> i, path |-> <<>>, content |-> d[i].content])
    <3>1. Links(d, i, i, <<>>)
      BY LinksNone
    <3>2. <<>> \in Seq(AllNames) /\ Len(<<>>) = 0
      OBVIOUS
    <3> QED BY <3>1, <3>2 DEF Climbed
  <2> QED BY <2>1 DEF EachClimbed
<1>3. ASSUME NEW n \in Nat \ {0}, NEW us, EachClimbed(d, n - 1, us)
      PROVE  EachClimbed(d, n, ClimbAll(d, us))
  <2>1. \A u \in us, i \in DOMAIN d : Climbed(d, i, n - 1, u) => Climbed(d, i, n, ClimbUp(d, u))
    BY ClimbedUp
  <2> QED BY <2>1, <1>3 DEF EachClimbed, ClimbAll
<1> HIDE DEF A
<1>4. W = [n \in 0 .. MaxId |-> IF n = 0 THEN A ELSE ClimbAll(d, W[n - 1])]
  <2>1. \E f : ClimbSteps(d, MaxId, A, f)
    BY <1>0, ClimbRun
  <2> QED BY <2>1 DEF ClimbSteps
<1> HIDE DEF W
<1> DEFINE C == [n \in 0 .. MaxId |-> IF EachClimbed(d, n, W[n]) THEN {W[n]} ELSE {}]
<1>5. W[0] \in C[0]
  BY <1>0, <1>2, <1>4
<1>6. \A n \in 1 .. MaxId : W[n - 1] \in C[n - 1] => W[n] \in C[n]
  <2> SUFFICES ASSUME NEW n \in 1 .. MaxId, W[n - 1] \in C[n - 1]
               PROVE  W[n] \in C[n]
    OBVIOUS
  <2>1. n - 1 \in 0 .. MaxId /\ n \in 0 .. MaxId /\ n \in Nat \ {0}
    BY <1>0
  <2>2. EachClimbed(d, n - 1, W[n - 1])
    BY <2>1
  <2>3. W[n] = ClimbAll(d, W[n - 1])
    BY <1>4, <2>1
  <2>4. EachClimbed(d, n, W[n])
    BY <1>3, <2>1, <2>2, <2>3
  <2> QED BY <2>1, <2>4
<1>7. \A n \in 0 .. MaxId : W[n] \in C[n]
  <2> HIDE DEF C
  <2> QED BY <1>0, <1>5, <1>6, Climbing
<1>8. EachClimbed(d, MaxId, W[MaxId])
  <2>1. MaxId \in 0 .. MaxId
    BY <1>0
  <2>2. C[MaxId] = IF EachClimbed(d, MaxId, W[MaxId]) THEN {W[MaxId]} ELSE {}
    BY <2>1
  <2>3. W[MaxId] \in C[MaxId]
    BY <2>1, <1>7
  <2> HIDE DEF C
  <2> QED BY <2>2, <2>3
<1> HIDE DEF C
<1>9. \A u, i : i \in DOMAIN d /\ Climbed(d, i, MaxId, u) => u.at = Root
  <2> SUFFICES ASSUME NEW u, NEW i \in DOMAIN d, Climbed(d, i, MaxId, u), u.at # Root
               PROVE  FALSE
    OBVIOUS
  <2>1. u.at \in DOMAIN d /\ Len(u.path) = MaxId /\ u.path \in Seq(AllNames) /\ Links(d, u.at, i, u.path)
    BY DEF Climbed
  <2>2. Len(u.path) < MaxId
    BY <2>1, DevicesType, LinksShort
  <2> QED BY <2>1, <2>2, <1>0
<1>10. ASSUME e \in View(d)
       PROVE  Entry(d, e)
  <2>1. PICK u \in W[MaxId] : e = [path |-> u.path, content |-> u.content]
    BY <1>1, <1>10
  <2>2. PICK i \in DOMAIN d : Climbed(d, i, MaxId, u)
    BY <1>8 DEF EachClimbed
  <2>3. u.at = Root
    BY <1>9, <2>2
  <2>4. u.path \in Seq(AllNames) /\ Links(d, Root, i, u.path) /\ u.content = d[i].content
    BY <2>2, <2>3 DEF Climbed
  <2> QED BY <2>1, <2>4 DEF Entry
<1>11. ASSUME Entry(d, e)
       PROVE  e \in View(d)
  <2>1. PICK i \in DOMAIN d : \E p \in Seq(AllNames) : Links(d, Root, i, p) /\ e = [path |-> p, content |-> d[i].content]
    BY <1>11 DEF Entry
  <2>2. PICK p \in Seq(AllNames) : Links(d, Root, i, p) /\ e = [path |-> p, content |-> d[i].content]
    BY <2>1
  <2>3. PICK u \in W[MaxId] : Climbed(d, i, MaxId, u)
    BY <1>8 DEF EachClimbed
  <2>4. u.at = Root
    BY <1>9, <2>3
  <2>5. u.path \in Seq(AllNames) /\ Links(d, Root, i, u.path) /\ u.content = d[i].content
    BY <2>3, <2>4 DEF Climbed
  <2>6. Root \notin DOMAIN d
    BY DevicesType, BoundsAssumption DEF Ids, Root
  <2>7. u.path = p
    BY <2>2, <2>5, <2>6, LinksOnce
  <2> QED BY <2>2, <2>5, <2>7, <1>1
<1> QED BY <1>10, <1>11

-----------------------------------------------------------------------------
(* What lies at or under the paths of a request.                           *)

LEMMA PrefixAgrees ==
  ASSUME NEW T, NEW A \in Seq(T), NEW U, NEW B \in Seq(U), IsPrefix(A, B)
  PROVE  Len(A) <= Len(B) /\ Agrees(A, B, Len(A))
<1>1. Len(A) <= Len(B) /\ SubSeq(A, 1, Len(A)) = SubSeq(B, 1, Len(A))
  BY DEF IsPrefix
<1>2. PICK X, Y : X = SubSeq(A, 1, Len(A)) /\ Y = SubSeq(B, 1, Len(A))
  OBVIOUS
<1>3. \A i \in 1 .. Len(A) : X[i] = A[i] /\ Y[i] = B[i]
  BY <1>1, <1>2
<1> QED BY <1>1, <1>2, <1>3 DEF Agrees

LEMMA PrefixGrows ==
  ASSUME NEW T, NEW A \in Seq(T), NEW U, NEW B \in Seq(U), IsPrefix(A, B), NEW n \in U
  PROVE  IsPrefix(A, Append(B, n))
<1>1. PICK C : C = Append(B, n)
  OBVIOUS
<1>2. C \in Seq(U) /\ Len(C) = Len(B) + 1 /\ \A i \in 1 .. Len(B) : C[i] = B[i]
  BY <1>1
<1>3. Len(A) <= Len(B) /\ Agrees(A, B, Len(A)) /\ Len(A) \in Nat /\ Len(B) \in Nat
  BY PrefixAgrees
<1>4. Len(A) <= Len(C) /\ Agrees(A, C, Len(A))
  BY <1>2, <1>3 DEF Agrees
<1> QED BY <1>1, <1>2, <1>4, PrefixIs

LEMMA PrefixSelf ==
  ASSUME NEW T, NEW A \in Seq(T)
  PROVE  IsPrefix(A, A)
BY DEF IsPrefix

\* The object is at or under one of the paths.
Lies(d, i, R) == \E p \in Seq(AllNames) : Links(d, Root, i, p) /\ \E r \in R : IsPrefix(r, p)
\* The node is, if its object is there.
Under(s, n, R) == n.id \in DOMAIN s.dev => Lies(s.dev, n.id, R)
\* The node is at the path, if its object is there.
Place(s, n, p) == n.id \in DOMAIN s.dev \cup {Root} => Links(s.dev, Root, n.id, p)
\* What comes and what goes is at or under the paths.
Local(s, t, R) ==
  /\ \A i \in DOMAIN s.dev \ DOMAIN t.dev : Lies(s.dev, i, R)
  /\ \A i \in DOMAIN t.dev \ DOMAIN s.dev : Lies(t.dev, i, R)
\* The paths of a request.
Given(R) == \A r \in R : \E T : r \in Seq(T)

LEMMA GoodDevice ==
  ASSUME NEW s, Good(s)
  PROVE  s.dev \in Devices /\ Parented(s.dev) /\ Rooted(s.dev) /\ DOMAIN s.dev \subseteq Ids /\ Root \notin DOMAIN s.dev
<1>1. s.dev \in Devices /\ Parented(s.dev) /\ NoCycle(s.dev, s.kids)
  BY DEF Good, Sound, States
<1>2. Rooted(s.dev)
  BY <1>1 DEF NoCycle, Rooted
<1>3. DOMAIN s.dev \subseteq Ids /\ Root \notin DOMAIN s.dev
  BY <1>1, DevicesType, BoundsAssumption DEF Ids, Root
<1> QED BY <1>1, <1>2, <1>3

LEMMA SharedSame ==
  ASSUME NEW s, NEW t, Good(s), Later(s, t)
  PROVE  /\ \A j \in DOMAIN s.dev : j \in DOMAIN t.dev => t.dev[j] = s.dev[j]
         /\ \A j \in DOMAIN t.dev : j \in s.taken => j \in DOMAIN s.dev
BY DEF Good, Held, Later

LEMMA LiesKeep ==
  ASSUME NEW s, NEW t, Good(s), Good(t), Later(s, t), NEW R,
         NEW i \in DOMAIN s.dev \cap DOMAIN t.dev
  PROVE  Lies(s.dev, i, R) <=> Lies(t.dev, i, R)
<1>1. /\ \A j \in DOMAIN s.dev : j \in DOMAIN t.dev => t.dev[j] = s.dev[j]
      /\ \A j \in DOMAIN t.dev : j \in DOMAIN s.dev => s.dev[j] = t.dev[j]
  BY SharedSame
<1>2. s.dev \in Devices /\ Parented(s.dev) /\ t.dev \in Devices /\ Parented(t.dev)
  BY GoodDevice
<1>3. \A p \in Seq(AllNames) : Links(s.dev, Root, i, p) => Links(t.dev, Root, i, p)
  BY <1>1, <1>2, LinksKeep
<1>4. \A p \in Seq(AllNames) : Links(t.dev, Root, i, p) => Links(s.dev, Root, i, p)
  BY <1>1, <1>2, LinksKeep
<1> QED BY <1>3, <1>4 DEF Lies

LEMMA UnderLater ==
  ASSUME NEW s, NEW t, Good(s), Good(t), Later(s, t), NEW R, NEW n, n.id \in s.taken, Under(s, n, R)
  PROVE  Under(t, n, R)
<1> SUFFICES ASSUME n.id \in DOMAIN t.dev PROVE Lies(t.dev, n.id, R)
  BY DEF Under
<1>1. n.id \in DOMAIN s.dev
  BY SharedSame
<1> QED BY <1>1, LiesKeep DEF Under

LEMMA LocalTransitive ==
  ASSUME NEW s, NEW t, NEW u, Good(s), Good(t), Good(u), Later(s, t), Later(t, u), NEW R,
         Local(s, t, R), Local(t, u, R)
  PROVE  Local(s, u, R)
<1>1. ASSUME NEW i \in DOMAIN s.dev \ DOMAIN u.dev
      PROVE  Lies(s.dev, i, R)
  <2>1. CASE i \notin DOMAIN t.dev
    BY <2>1 DEF Local
  <2>2. CASE i \in DOMAIN t.dev
    <3>1. Lies(t.dev, i, R)
      BY <2>2 DEF Local
    <3> QED BY <3>1, <2>2, LiesKeep
  <2> QED BY <2>1, <2>2
<1>2. ASSUME NEW i \in DOMAIN u.dev \ DOMAIN s.dev
      PROVE  Lies(u.dev, i, R)
  <2>1. CASE i \notin DOMAIN t.dev
    BY <2>1 DEF Local
  <2>2. CASE i \in DOMAIN t.dev
    <3>1. Lies(t.dev, i, R)
      BY <2>2 DEF Local
    <3> QED BY <3>1, <2>2, LiesKeep
  <2> QED BY <2>1, <2>2
<1> QED BY <1>1, <1>2 DEF Local

LEMMA SameLocal ==
  ASSUME NEW s, NEW t, DOMAIN t.dev = DOMAIN s.dev, NEW R
  PROVE  Local(s, t, R)
BY DEF Local

\* What is in a directory that lies there does so too.
LEMMA LiesBelow ==
  ASSUME NEW s, Good(s), NEW R, Given(R), NEW i \in DOMAIN s.dev, NEW j \in DOMAIN s.dev, s.dev[i].parent = j,
         Lies(s.dev, j, R)
  PROVE  Lies(s.dev, i, R)
<1>1. PICK p \in Seq(AllNames) : Links(s.dev, Root, j, p) /\ \E r \in R : IsPrefix(r, p)
  BY DEF Lies
<1>2. PICK r \in R : IsPrefix(r, p)
  BY <1>1
<1>3. PICK T : r \in Seq(T)
  BY DEF Given
<1>4. PICK n \in AllNames : n = s.dev[i].name
  BY GoodDevice, DevicesType DEF Objects
<1>5. Links(s.dev, Root, i, Append(p, n))
  BY <1>1, <1>4, LinksDown
<1>6. IsPrefix(r, Append(p, n))
  BY <1>2, <1>3, <1>4, PrefixGrows
<1>7. Append(p, n) \in Seq(AllNames)
  BY <1>4
<1> QED BY <1>2, <1>5, <1>6, <1>7 DEF Lies

LEMMA ListedUnder ==
  ASSUME NEW s, Good(s), NEW R, Given(R), NEW n \in Hand(s), Under(s, n, R),
         NEW m \in Cached(s, n.id) \cup Children(s.dev, n.id)
  PROVE  Under(s, m, R)
<1> SUFFICES ASSUME m.id \in DOMAIN s.dev PROVE Lies(s.dev, m.id, R)
  BY DEF Under
<1>1. s.dev[m.id].parent = n.id
  <2>1. CASE m \in Cached(s, n.id)
    BY <2>1, CachedNodes DEF Good, Sound, Agree
  <2>2. CASE m \in Children(s.dev, n.id)
    BY <2>2, ChildrenNodes
  <2> QED BY <2>1, <2>2
<1>2. n.id \in DOMAIN s.dev
  <2>1. n.id # Root
    BY BoundsAssumption DEF Hand, Nodes, Ids, Root
  <2> QED BY <2>1, <1>1, GoodDevice DEF Parented
<1> QED BY <1>1, <1>2, LiesBelow DEF Under

\* A node that a path leads to through the listings is at that path.
LEMMA ReachedPlace ==
  ASSUME NEW s, Good(s), NEW T, NEW path \in Seq(T), NEW node, Reaches(s.kids, path, Len(path), node)
  PROVE  Place(s, node, path)
<1>1. PICK l \in Nat : l = Len(path)
  OBVIOUS
<1>2. PICK f : Trail(s.kids, path, l, f) /\ f[l] = node
  BY <1>1 DEF Reaches
<1>3. Leads(s, path, l, f)
  BY <1>2, TrailNodes
<1>4. f[0].id = Root
  BY <1>3 DEF Leads
<1>5. \A j \in 1 .. l : /\ f[j].id \in Ids /\ f[j].id # Root
                        /\ f[j - 1].id \in DOMAIN s.kids /\ f[j] \in s.kids[f[j - 1].id] /\ f[j].name = path[j]
  BY <1>3 DEF Leads
<1>6. \A j \in 1 .. l : f[j].id \in DOMAIN s.dev =>
        s.dev[f[j].id].parent = f[j - 1].id /\ s.dev[f[j].id].name = path[j]
  BY <1>5 DEF Good, Sound, Agree
<1> SUFFICES ASSUME node.id \in DOMAIN s.dev \cup {Root}
             PROVE  Links(s.dev, Root, node.id, path)
  BY DEF Place
<1>7. CASE l = 0
  <2>1. path = <<>> /\ node.id = Root
    <3>1. f[0] = node
      BY <1>2, <1>7
    <3>2. Len(path) = 0
      BY <1>1, <1>7
    <3>3. path = <<>>
      BY <3>2
    <3> QED BY <3>1, <3>3, <1>4
  <2> QED BY <2>1, LinksNone
<1>8. CASE l # 0
  <2>1. l \in 1 .. l
    BY <1>8
  <2>2. node.id \in DOMAIN s.dev
    BY <2>1, <1>2, <1>5
  <2> DEFINE Bad == {k \in Nat : k < l /\ f[l - k].id \notin DOMAIN s.dev}
  <2>3. Bad = {}
    <3> SUFFICES ASSUME Bad # {} PROVE FALSE
      OBVIOUS
    <3>1. PICK k \in Bad : \A n \in Bad : ~(n < k)
      <4>1. Bad \subseteq Nat
        OBVIOUS
      <4> HIDE DEF Bad
      <4> QED BY <4>1, Least
    <3>2. k \in Nat /\ k < l /\ f[l - k].id \notin DOMAIN s.dev
      BY <3>1
    <3>3. k # 0
      <4> SUFFICES ASSUME k = 0 PROVE FALSE
        OBVIOUS
      <4>1. l - k = l
        OBVIOUS
      <4> QED BY <4>1, <3>2, <2>2, <1>2
    <3>4. k - 1 \in Nat /\ k - 1 < l /\ k - 1 < k
      BY <3>2, <3>3
    <3>5. k - 1 \notin Bad
      BY <3>1, <3>4
    <3>6. f[l - (k - 1)].id \in DOMAIN s.dev
      BY <3>4, <3>5
    <3>7. l - (k - 1) \in 1 .. l /\ l - (k - 1) - 1 = l - k /\ l - k \in 1 .. l
      BY <3>2, <3>3
    <3>8. s.dev[f[l - (k - 1)].id].parent = f[l - k].id
      BY <3>6, <3>7, <1>6
    <3>9. f[l - k].id # Root
      BY <3>7, <1>5
    <3> QED BY <3>2, <3>6, <3>8, <3>9, GoodDevice DEF Parented
  <2>4. \A k \in Nat : k < l => f[l - k].id \in DOMAIN s.dev
    BY <2>3
  <2> HIDE DEF Bad
  <2>5. \A j \in 1 .. l : f[j].id \in DOMAIN s.dev
    <3> SUFFICES ASSUME NEW j \in 1 .. l PROVE f[j].id \in DOMAIN s.dev
      OBVIOUS
    <3>1. l - j \in Nat /\ l - j < l /\ l - (l - j) = j
      OBVIOUS
    <3> QED BY <3>1, <2>4
  <2> DEFINE g == [j \in 0 .. l |-> f[j].id]
  <2>6. g[0] = Root /\ g[l] = node.id
    BY <1>2, <1>4
  <2>7. \A j \in 1 .. l : g[j] = f[j].id /\ g[j - 1] = f[j - 1].id
    OBVIOUS
  <2> HIDE DEF g
  <2>8. Descent(s.dev, Root, path, g)
    BY <2>5, <2>6, <2>7, <1>1, <1>6 DEF Descent
  <2> QED BY <2>6, <2>8, <1>1 DEF Links
<1> QED BY <1>7, <1>8

LEMMA PlaceLater ==
  ASSUME NEW s, NEW t, Good(s), Good(t), Later(s, t), NEW n, n.id \in s.taken \cup {Root},
         NEW T, NEW p \in Seq(T), Place(s, n, p)
  PROVE  Place(t, n, p)
<1> SUFFICES ASSUME n.id \in DOMAIN t.dev \cup {Root}
             PROVE  Links(t.dev, Root, n.id, p)
  BY DEF Place
<1>1. CASE n.id = Root
  <2>1. p = <<>>
    BY <1>1, GoodDevice, LinksRoot DEF Place
  <2> QED BY <2>1, <1>1, LinksNone
<1>2. CASE n.id # Root
  <2>1. n.id \in DOMAIN s.dev /\ n.id \in DOMAIN t.dev
    BY <1>2, SharedSame
  <2>2. \A j \in DOMAIN t.dev : j \in DOMAIN s.dev => s.dev[j] = t.dev[j]
    BY SharedSame
  <2> QED BY <2>1, <2>2, GoodDevice, LinksKeep DEF Place
<1> QED BY <1>1, <1>2

\* What is at one of the paths lies there.
LEMMA PlaceUnder ==
  ASSUME NEW s, Good(s), NEW R, NEW r \in R, NEW T, r \in Seq(T), NEW U, NEW p \in Seq(U), IsPrefix(r, p),
         NEW n, Place(s, n, p)
  PROVE  Under(s, n, R)
<1> SUFFICES ASSUME n.id \in DOMAIN s.dev PROVE Lies(s.dev, n.id, R)
  BY DEF Under
<1>1. Links(s.dev, Root, n.id, p)
  BY DEF Place
<1>2. p \in Seq(AllNames)
  BY <1>1, GoodDevice, LinksTyped
<1> QED BY <1>1, <1>2 DEF Lies

\* A new object.
LEMMA NewOne ==
  ASSUME NEW s, NEW t, Good(s), Good(t), Later(s, t), NEW i \in Ids \ s.taken, NEW object, t.dev = Put(s.dev, i, object)
  PROVE  /\ DOMAIN t.dev = DOMAIN s.dev \cup {i} /\ i \notin DOMAIN s.dev /\ t.dev[i] = object
         /\ object.parent \in s.taken \cup {Root} => object.parent \in {Root} \cup DOMAIN s.dev
<1>1. i \notin DOMAIN s.dev
  BY DEF Good, Held
<1>2. DOMAIN t.dev = DOMAIN s.dev \cup {i} /\ t.dev[i] = object
  BY DEF Put
<1>3. object.parent \in {Root} \cup DOMAIN t.dev
  BY <1>2, GoodDevice DEF Parented
<1> QED BY <1>1, <1>2, <1>3

\* An object made in a directory that lies there.
LEMMA MadeUnder ==
  ASSUME NEW s, NEW t, Good(s), Good(t), Later(s, t), NEW R, Given(R), NEW node \in Hand(s), Under(s, node, R),
         NEW i \in Ids \ s.taken, NEW object, object.parent = node.id, t.dev = Put(s.dev, i, object)
  PROVE  Local(s, t, R)
<1>1. node.id \in s.taken /\ node.id # Root
  BY BoundsAssumption DEF Hand, OnHand, Nodes, Ids, Root
<1>2. DOMAIN t.dev = DOMAIN s.dev \cup {i} /\ t.dev[i] = object /\ node.id \in DOMAIN s.dev
  BY <1>1, NewOne
<1>3. Lies(t.dev, node.id, R)
  BY <1>2, LiesKeep DEF Under
<1>4. Lies(t.dev, i, R)
  BY <1>2, <1>3, LiesBelow
<1> QED BY <1>2, <1>4 DEF Local

\* An object made at one of the paths.
LEMMA MadeAt ==
  ASSUME NEW s, NEW t, Good(s), Good(t), Later(s, t), NEW R, NEW base, OnHand(s, base), NEW T, NEW p \in Seq(T), Place(s, base, p),
         NEW name \in T, Append(p, name) \in R,
         NEW i \in Ids \ s.taken, NEW object, object.parent = base.id, object.name = name, t.dev = Put(s.dev, i, object)
  PROVE  Local(s, t, R)
<1>1. base.id \in s.taken \cup {Root}
  BY DEF OnHand
<1>2. /\ DOMAIN t.dev = DOMAIN s.dev \cup {i} /\ t.dev[i] = object /\ i \notin DOMAIN s.dev
      /\ base.id \in {Root} \cup DOMAIN s.dev
  <2>1. object.parent \in s.taken \cup {Root}
    BY <1>1
  <2>2. /\ DOMAIN t.dev = DOMAIN s.dev \cup {i} /\ i \notin DOMAIN s.dev /\ t.dev[i] = object
        /\ object.parent \in s.taken \cup {Root} => object.parent \in {Root} \cup DOMAIN s.dev
    BY NewOne
  <2> QED BY <2>1, <2>2
<1>3. Place(t, base, p)
  BY <1>1, PlaceLater
<1>4. Links(t.dev, Root, base.id, p)
  BY <1>2, <1>3 DEF Place
<1>5. Links(t.dev, Root, i, Append(p, name))
  BY <1>2, <1>4, LinksDown
<1>6. Append(p, name) \in Seq(T)
  OBVIOUS
<1>7. Append(p, name) \in Seq(AllNames)
  BY <1>5, <1>6, GoodDevice, LinksTyped
<1>8. IsPrefix(Append(p, name), Append(p, name))
  BY <1>6, PrefixSelf
<1>9. Lies(t.dev, i, R)
  BY <1>5, <1>7, <1>8 DEF Lies
<1> QED BY <1>2, <1>9 DEF Local

-----------------------------------------------------------------------------
(* A deletion takes only what lies under what is deleted.                  *)

\* The nodes on hand that lie at or under the paths.
Region(s, R) == {n \in Hand(s) : Under(s, n, R)}
UnderFrames(s, R) ==
  [dir : {n \in Region(s, R) : n.dir}, old : SUBSET Region(s, R), found : SUBSET Region(s, R)]
DeletingUnder(s, R, o) ==
  /\ Good(o.s) /\ Later(s, o.s) /\ Local(s, o.s, R)
  /\ Halted(o.s) \/ o.r = Nil \/ o.r \in Seq(UnderFrames(o.s, R))

LEMMA RegionLater ==
  ASSUME NEW s, NEW t, Good(s), Good(t), Later(s, t), NEW R
  PROVE  Region(s, R) \subseteq Region(t, R) /\ Seq(UnderFrames(s, R)) \subseteq Seq(UnderFrames(t, R))
<1>1. Hand(s) \subseteq Hand(t)
  BY HandLater
<1>2. ASSUME NEW n \in Region(s, R)
      PROVE  n \in Region(t, R)
  <2>1. n.id \in s.taken
    BY BoundsAssumption DEF Region, Hand, OnHand, Nodes, Ids, Root
  <2>2. Under(s, n, R) /\ n \in Hand(s)
    BY DEF Region
  <2>3. Under(t, n, R)
    BY <2>1, <2>2, UnderLater
  <2> QED BY <2>2, <2>3, <1>1 DEF Region
<1>3. Region(s, R) \subseteq Region(t, R)
  BY <1>2
<1>4. UnderFrames(s, R) \subseteq UnderFrames(t, R)
  BY <1>3 DEF UnderFrames
<1> QED BY <1>3, <1>4

LEMMA RegionListed ==
  ASSUME NEW s, Good(s), NEW R, Given(R), NEW n \in Region(s, R)
  PROVE  Cached(s, n.id) \subseteq Region(s, R) /\ Children(s.dev, n.id) \subseteq Region(s, R)
<1>1. n \in Hand(s) /\ Under(s, n, R)
  BY DEF Region
<1>2. Cached(s, n.id) \subseteq Hand(s) /\ Children(s.dev, n.id) \subseteq Hand(s)
  BY ListedOnHand
<1>3. \A m \in Cached(s, n.id) \cup Children(s.dev, n.id) : Under(s, m, R)
  BY <1>1, ListedUnder
<1> QED BY <1>2, <1>3 DEF Region

LEMMA DeletingUnderFrom ==
  ASSUME NEW s, NEW t, Good(s), Good(t), Later(s, t), NEW R, Local(s, t, R), NEW o, DeletingUnder(t, R, o)
  PROVE  DeletingUnder(s, R, o)
BY LaterTransitive, LocalTransitive DEF DeletingUnder

\* Deleting one object that lies there.
LEMMA DeleteObjectUnder ==
  ASSUME NEW s, Good(s), NEW R, NEW n \in Region(s, R), NEW o \in DeleteObject(s, n.id)
  PROVE  Local(s, o.s, R)
<1>1. \/ o.s.dev = s.dev
      \/ n.id \in DOMAIN s.dev /\ DOMAIN o.s.dev = DOMAIN s.dev \ {n.id}
  BY DeleteObjectKeeps
<1>2. Under(s, n, R)
  BY DEF Region
<1> QED BY <1>1, <1>2 DEF Local, Under

LEMMA EnterUnder ==
  ASSUME NEW s, Good(s), NEW R, Given(R), NEW dir \in Region(s, R), dir.dir, NEW outer \in Seq(UnderFrames(s, R)),
         NEW o \in Enter(s, dir, outer)
  PROVE  DeletingUnder(s, R, o)
<1>1. PICK x \in EvaluateChildren(s, dir.id) :
        o \in IF Halted(x.s) THEN {Out(x.s, Aborted)}
              ELSE {Out(x.s, IF x.r = Nil THEN Nil
                             ELSE <<[dir |-> dir, old |-> Cached(s, dir.id), found |-> x.r]>> \o outer)}
  BY DEF Enter, Then
<1>2. dir.id \in Keys /\ dir.id \in s.taken \cup {Root} /\ (dir.id \in DOMAIN s.dev => s.dev[dir.id].dir)
  BY DEF Region, Hand, OnHand
<1>3. /\ Good(x.s) /\ Later(s, x.s) /\ x.s.dev = s.dev
      /\ Halted(x.s) \/ x.r = Nil \/ x.r \subseteq Children(s.dev, dir.id)
  BY <1>2, EvaluateChildrenKeeps
<1>4. o.s = x.s /\ Local(s, x.s, R)
  <2>1. o.s = x.s
    BY <1>1 DEF Out
  <2>2. Local(s, x.s, R)
    BY <1>3, SameLocal
  <2> QED BY <2>1, <2>2
<1>5. CASE Halted(x.s)
  BY <1>3, <1>4, <1>5 DEF DeletingUnder
<1>6. CASE ~Halted(x.s) /\ x.r = Nil
  <2>1. o.r = Nil
    BY <1>1, <1>6 DEF Out
  <2> QED BY <2>1, <1>3, <1>4 DEF DeletingUnder
<1>7. CASE ~Halted(x.s) /\ x.r # Nil
  <2>1. PICK f : f = [dir |-> dir, old |-> Cached(s, dir.id), found |-> x.r]
    OBVIOUS
  <2>2. o.r = <<f>> \o outer
    BY <1>1, <1>7, <2>1 DEF Out
  <2>3. Region(s, R) \subseteq Region(x.s, R)
    BY <1>3, RegionLater
  <2>4. f.old \subseteq Region(x.s, R) /\ f.found \subseteq Region(x.s, R)
    BY <2>1, <2>3, <1>3, <1>7, RegionListed
  <2>5. f \in UnderFrames(x.s, R)
    BY <2>1, <2>3, <2>4 DEF UnderFrames
  <2>6. outer \in Seq(UnderFrames(x.s, R))
    BY <1>3, RegionLater
  <2>7. o.r \in Seq(UnderFrames(x.s, R))
    BY <2>2, <2>5, <2>6, Pushed
  <2> QED BY <2>7, <1>3, <1>4 DEF DeletingUnder
<1> QED BY <1>5, <1>6, <1>7

LEMMA DeleteAllUnder ==
  ASSUME NEW s, Good(s), NEW R, Given(R), NEW f \in UnderFrames(s, R), f.old \cup f.found # {},
         NEW outer \in Seq(UnderFrames(s, R)), NEW o \in DeleteAll(s, f, outer)
  PROVE  DeletingUnder(s, R, o)
<1> DEFINE n == Oldest(IF f.old # {} THEN f.old ELSE f.found)
           rest == IF f.old # {} THEN [f EXCEPT !.old = @ \ {n}] ELSE [f EXCEPT !.found = @ \ {n}]
<1>1. f.old \subseteq Region(s, R) /\ f.found \subseteq Region(s, R) /\ Region(s, R) \subseteq Nodes
  BY DEF UnderFrames, Region, Hand
<1>2. n \in Region(s, R)
  <2>1. CASE f.old # {}
    <3>1. Oldest(f.old) \in f.old
      BY <1>1, <2>1, OldestIsOne
    <3> QED BY <3>1, <2>1, <1>1
  <2>2. CASE f.old = {}
    <3>1. Oldest(f.found) \in f.found
      BY <1>1, <2>2, OldestIsOne
    <3> QED BY <3>1, <2>2, <1>1
  <2> QED BY <2>1, <2>2
<1>3. rest \in UnderFrames(s, R)
  <2> HIDE DEF n
  <2>1. CASE f.old # {}
    BY <2>1 DEF UnderFrames
  <2>2. CASE f.old = {}
    BY <2>2 DEF UnderFrames
  <2> QED BY <2>1, <2>2
<1>4. o \in IF n.dir THEN Enter(s, n, <<rest>> \o outer)
            ELSE Then(DeleteObject(s, n.id), LAMBDA t, ok : {Out(t, IF ok THEN <<rest>> \o outer ELSE Nil)})
  BY DEF DeleteAll
<1> HIDE DEF n, rest
<1>5. <<rest>> \o outer \in Seq(UnderFrames(s, R))
  BY <1>3, Pushed
<1>6. CASE n.dir
  <2>1. o \in Enter(s, n, <<rest>> \o outer)
    BY <1>4, <1>6
  <2> QED BY <2>1, <1>2, <1>5, <1>6, EnterUnder
<1>7. CASE ~n.dir
  <2>1. PICK x \in DeleteObject(s, n.id) :
          o \in IF Halted(x.s) THEN {Out(x.s, Aborted)} ELSE {Out(x.s, IF x.r THEN <<rest>> \o outer ELSE Nil)}
    BY <1>4, <1>7 DEF Then
  <2>2. Good(x.s) /\ Later(s, x.s) /\ (x.r = TRUE \/ x.r = FALSE)
    BY DeleteObjectKeeps
  <2>3. o.s = x.s /\ (Halted(x.s) \/ o.r = Nil \/ o.r = <<rest>> \o outer)
    BY <2>1, <2>2 DEF Out
  <2>4. <<rest>> \o outer \in Seq(UnderFrames(x.s, R))
    BY <2>2, <1>5, RegionLater
  <2>5. Local(s, x.s, R)
    BY <1>2, DeleteObjectUnder
  <2> QED BY <2>2, <2>3, <2>4, <2>5 DEF DeletingUnder
<1> QED BY <1>6, <1>7

LEMMA DeleteEmptyUnder ==
  ASSUME NEW s, Good(s), NEW R, NEW f \in UnderFrames(s, R), NEW outer \in Seq(UnderFrames(s, R)),
         NEW o \in DeleteEmpty(s, f, outer)
  PROVE  DeletingUnder(s, R, o)
<1>1. PICK t : t = DeleteSubCache(s, f.dir.id)
  OBVIOUS
<1>2. PICK x \in EvaluateChildren(t, f.dir.id) :
        o \in IF Halted(x.s) THEN {Out(x.s, Aborted)}
              ELSE IF x.r # {} THEN {Out(x.s, Nil)}
              ELSE Then(DeleteObject(x.s, f.dir.id), LAMBDA u, ok : {Out(u, IF ok THEN outer ELSE Nil)})
  BY <1>1 DEF DeleteEmpty, Then
<1>3. Good(t) /\ Later(s, t) /\ t.dev = s.dev
  BY <1>1, DeleteSubCacheKeeps
<1>4. f.dir \in Region(s, R) /\ f.dir.dir
  BY DEF UnderFrames
<1>5. f.dir \in Hand(t)
  BY <1>3, <1>4, HandLater DEF Region
<1>6. f.dir.id \in Keys /\ f.dir.id \in t.taken \cup {Root} /\ (f.dir.id \in DOMAIN t.dev => t.dev[f.dir.id].dir)
  BY <1>4, <1>5 DEF Hand, OnHand
<1>7. Good(x.s) /\ Later(t, x.s) /\ x.s.dev = t.dev
  BY <1>3, <1>6, EvaluateChildrenKeeps
<1>8. Later(s, x.s) /\ Local(s, x.s, R)
  BY <1>3, <1>7, LaterTransitive, SameLocal
<1>9. CASE Halted(x.s)
  <2>1. o \in {Out(x.s, Aborted)}
    BY <1>2, <1>9, Zenon
  <2>2. o.s = x.s
    BY <2>1 DEF Out
  <2> QED BY <2>2, <1>7, <1>8, <1>9 DEF DeletingUnder
<1>10. CASE ~Halted(x.s) /\ x.r # {}
  <2>1. o \in {Out(x.s, Nil)}
    BY <1>2, <1>10, Zenon
  <2>2. o.s = x.s /\ o.r = Nil
    BY <2>1 DEF Out
  <2> QED BY <2>2, <1>7, <1>8 DEF DeletingUnder
<1>11. CASE ~Halted(x.s) /\ x.r = {}
  <2>1. PICK y \in DeleteObject(x.s, f.dir.id) :
          o \in IF Halted(y.s) THEN {Out(y.s, Aborted)} ELSE {Out(y.s, IF y.r THEN outer ELSE Nil)}
    BY <1>2, <1>11 DEF Then
  <2>2. Good(y.s) /\ Later(x.s, y.s) /\ (y.r = TRUE \/ y.r = FALSE)
    <3>1. Good(x.s)
      BY <1>7
    <3> QED BY <3>1, DeleteObjectKeeps
  <2>3. o.s = y.s /\ (Halted(y.s) \/ o.r = Nil \/ o.r = outer)
    BY <2>1, <2>2 DEF Out
  <2>4. Later(s, y.s)
    BY <1>8, <2>2, LaterTransitive
  <2>5. outer \in Seq(UnderFrames(y.s, R))
    BY <2>2, <2>4, RegionLater
  <2>6. f.dir \in Region(x.s, R)
    BY <1>4, <1>7, <1>8, RegionLater
  <2>7. Local(x.s, y.s, R)
    BY <2>6, <1>7, DeleteObjectUnder
  <2>8. Local(s, y.s, R)
    BY <2>2, <2>7, <1>7, <1>8, LocalTransitive
  <2> QED BY <2>2, <2>3, <2>4, <2>5, <2>8 DEF DeletingUnder
<1> QED BY <1>9, <1>10, <1>11

LEMMA DeleteStepUnder ==
  ASSUME NEW s, Good(s), NEW R, Given(R), NEW o, DeletingUnder(s, R, o), ~Halted(o.s), NEW x \in DeleteStep(o.s, o.r)
  PROVE  DeletingUnder(s, R, x)
<1>1. Good(o.s) /\ Later(s, o.s) /\ Local(s, o.s, R) /\ (o.r = Nil \/ o.r \in Seq(UnderFrames(o.s, R)))
  BY DEF DeletingUnder
<1>2. CASE o.r = Nil \/ o.r = <<>>
  <2>1. x.s = o.s /\ x.r = o.r
    BY <1>2 DEF DeleteStep, Out
  <2> QED BY <2>1 DEF DeletingUnder
<1>3. CASE o.r # Nil /\ o.r # <<>>
  <2>1. PICK f, outer : f = Head(o.r) /\ outer = Tail(o.r)
    OBVIOUS
  <2>2. f \in UnderFrames(o.s, R) /\ outer \in Seq(UnderFrames(o.s, R))
    BY <2>1, <1>1, <1>3, Popped
  <2>3. x \in IF f.old \cup f.found # {} THEN DeleteAll(o.s, f, outer) ELSE DeleteEmpty(o.s, f, outer)
    BY <2>1, <1>3 DEF DeleteStep
  <2>4. CASE f.old \cup f.found # {}
    <3>1. DeletingUnder(o.s, R, x)
      BY <2>2, <2>3, <2>4, <1>1, DeleteAllUnder
    <3> QED BY <3>1, <1>1, DeletingUnderFrom
  <2>5. CASE f.old \cup f.found = {}
    <3>1. DeletingUnder(o.s, R, x)
      BY <2>2, <2>3, <2>5, <1>1, DeleteEmptyUnder
    <3> QED BY <3>1, <1>1, DeletingUnderFrom
  <2> QED BY <2>4, <2>5
<1> QED BY <1>2, <1>3

LEMMA DeleteMeUnder ==
  ASSUME NEW s, Good(s), NEW R, Given(R), NEW node \in Region(s, R), NEW o \in DeleteMe(s, node)
  PROVE  Local(s, o.s, R)
<1>1. CASE ~node.dir
  <2>1. o \in DeleteObject(s, node.id)
    BY <1>1 DEF DeleteMe
  <2> QED BY <2>1, DeleteObjectUnder
<1>2. CASE node.dir
  <2> DEFINE A == Enter(s, node, <<>>)
             W == CHOOSE W : W = [n \in 0 .. MaxSteps |-> IF n = 0 THEN A ELSE DeleteOn(W[n - 1])]
  <2>1. PICK x \in W[MaxSteps] :
          o \in IF Halted(x.s) THEN {Out(x.s, Aborted)}
                ELSE IF x.r = Nil \/ x.r = <<>> THEN {Out(x.s, x.r # Nil)} ELSE {}
    BY <1>2 DEF DeleteMe, Then, DeleteOn
  <2>2. \A x2 \in A : DeletingUnder(s, R, x2)
    <3>1. <<>> \in Seq(UnderFrames(s, R))
      OBVIOUS
    <3> QED BY <3>1, <1>2, EnterUnder
  <2>3. ASSUME NEW outs, \A x2 \in outs : DeletingUnder(s, R, x2)
        PROVE  \A x2 \in DeleteOn(outs) : DeletingUnder(s, R, x2)
    <3> SUFFICES ASSUME NEW x2 \in DeleteOn(outs) PROVE DeletingUnder(s, R, x2)
      OBVIOUS
    <3>1. PICK y \in outs : x2 \in IF Halted(y.s) THEN {Out(y.s, Aborted)} ELSE DeleteStep(y.s, y.r)
      BY DEF DeleteOn, Then
    <3>2. CASE Halted(y.s)
      <4>1. x2.s = y.s
        BY <3>1, <3>2 DEF Out
      <4> QED BY <4>1, <3>2, <2>3 DEF DeletingUnder
    <3>3. CASE ~Halted(y.s)
      BY <3>1, <3>3, <2>3, DeleteStepUnder
    <3> QED BY <3>2, <3>3
  <2>0. MaxSteps \in Nat
    BY BoundsAssumption
  <2> HIDE DEF A
  <2>5. W = [n \in 0 .. MaxSteps |-> IF n = 0 THEN A ELSE DeleteOn(W[n - 1])]
    <3>1. \E f : DeleteSteps(MaxSteps, A, f)
      BY <2>0, DeleteRun
    <3> QED BY <3>1 DEF DeleteSteps
  <2> HIDE DEF W
  <2> DEFINE C == [n \in 0 .. MaxSteps |-> IF \A x2 \in W[n] : DeletingUnder(s, R, x2) THEN {W[n]} ELSE {}]
  <2>6. W[0] \in C[0]
    BY <2>0, <2>2, <2>5
  <2>7. \A n \in 1 .. MaxSteps : W[n - 1] \in C[n - 1] => W[n] \in C[n]
    <3> SUFFICES ASSUME NEW n \in 1 .. MaxSteps, W[n - 1] \in C[n - 1]
                 PROVE  W[n] \in C[n]
      OBVIOUS
    <3>1. n - 1 \in 0 .. MaxSteps /\ n \in 0 .. MaxSteps /\ n # 0
      BY <2>0
    <3>2. \A x2 \in W[n - 1] : DeletingUnder(s, R, x2)
      BY <3>1
    <3>3. W[n] = DeleteOn(W[n - 1])
      BY <2>5, <3>1
    <3>4. \A x2 \in W[n] : DeletingUnder(s, R, x2)
      BY <2>3, <3>2, <3>3
    <3> QED BY <3>1, <3>4
  <2>8. \A n \in 0 .. MaxSteps : W[n] \in C[n]
    <3> HIDE DEF C
    <3> QED BY <2>0, <2>6, <2>7, Climbing
  <2>9. \A x2 \in W[MaxSteps] : DeletingUnder(s, R, x2)
    <3>1. MaxSteps \in 0 .. MaxSteps
      BY <2>0
    <3>2. C[MaxSteps] = IF \A x2 \in W[MaxSteps] : DeletingUnder(s, R, x2) THEN {W[MaxSteps]} ELSE {}
      BY <3>1
    <3>3. W[MaxSteps] \in C[MaxSteps]
      BY <3>1, <2>8
    <3> HIDE DEF C
    <3> QED BY <3>2, <3>3
  <2>10. o.s = x.s
    BY <2>1 DEF Out
  <2> QED BY <2>1, <2>9, <2>10 DEF DeletingUnder
<1> QED BY <1>1, <1>2

-----------------------------------------------------------------------------
(* A copy is made, and what was copied deleted, only where the paths lead. *)

\* What a path leads to is at the path.
LEMMA FoundPlace ==
  ASSUME NEW s, Good(s), NEW T, NEW path \in Seq(T), NEW o \in FilePathToNode(s, path)
  PROVE  /\ Halted(o.s) \/ o.r = Nil \/ Place(o.s, o.r, path)
         /\ Good(o.s) /\ Later(s, o.s) /\ o.s.dev = s.dev
<1>1. Walked(s, path, Len(path), o)
  BY FilePathToNodeKeeps
<1>2. Good(o.s) /\ Later(s, o.s) /\ o.s.dev = s.dev
  BY <1>1 DEF Walked, Grown
<1>3. ASSUME o.r # Nil, Reaches(o.s.kids, path, Len(path), o.r)
      PROVE  Place(o.s, o.r, path)
  BY <1>2, <1>3, ReachedPlace
<1> QED BY <1>1, <1>2, <1>3 DEF Walked

LEMMA FoundUnder ==
  ASSUME NEW s, Good(s), NEW R, Given(R), NEW r \in R, NEW T, NEW path \in Seq(T), path # <<>>, IsPrefix(r, path),
         NEW o \in FilePathToNode(s, path), ~Halted(o.s), o.r # Nil
  PROVE  o.r \in Region(o.s, R)
<1>1. Good(o.s) /\ Place(o.s, o.r, path)
  BY FoundPlace
<1>2. PICK U : r \in Seq(U)
  BY DEF Given
<1>3. Under(o.s, o.r, R)
  BY <1>1, <1>2, PlaceUnder
<1>4. Len(path) \in Nat /\ Len(path) # 0
  OBVIOUS
<1>5. o.r \in Hand(o.s)
  BY <1>4, FoundOnHand
<1> QED BY <1>3, <1>5 DEF Region

CopyFrameUnder(s, R, f) ==
  /\ CopyFrame(s, f) /\ f.nodes \subseteq Region(s, R) /\ f.copied \subseteq Region(s, R) /\ f.dest \in Region(s, R)
  /\ \E r \in R : IsPrefix(r, f.path)
OuterUnder(s, R, S) == \A f \in S : CopyFrameUnder(s, R, f) /\ f.nodes # {}
CopyWorkUnder(s, R, w) ==
  \/ w.frames = <<>>
  \/ \E f, S : \E outer \in Seq(S) : w.frames = <<f>> \o outer /\ CopyFrameUnder(s, R, f) /\ OuterUnder(s, R, S)
CopyingUnder(s, R, o) ==
  /\ Good(o.s) /\ Later(s, o.s) /\ Local(s, o.s, R)
  /\ Halted(o.s) \/ CopyWorkUnder(o.s, R, o.r)

LEMMA CopyFrameUnderLater ==
  ASSUME NEW s, NEW t, Good(s), Good(t), Later(s, t), NEW R, NEW f, CopyFrameUnder(s, R, f)
  PROVE  CopyFrameUnder(t, R, f)
<1>1. Region(s, R) \subseteq Region(t, R)
  BY RegionLater
<1>2. CopyFrame(t, f)
  BY CopyFrameLater DEF CopyFrameUnder
<1> QED BY <1>1, <1>2 DEF CopyFrameUnder

LEMMA OuterUnderLater ==
  ASSUME NEW s, NEW t, Good(s), Good(t), Later(s, t), NEW R, NEW S, OuterUnder(s, R, S)
  PROVE  OuterUnder(t, R, S)
BY CopyFrameUnderLater DEF OuterUnder

LEMMA PushFrameUnder ==
  ASSUME NEW s, NEW R, NEW S, OuterUnder(s, R, S), NEW q \in Seq(S), NEW f, CopyFrameUnder(s, R, f), NEW ok,
         NEW w, w = Work(<<f>> \o q, ok)
  PROVE  CopyWorkUnder(s, R, w)
<1>1. w.frames = <<f>> \o q
  BY DEF Work
<1> QED BY <1>1 DEF CopyWorkUnder

LEMMA CopyingUnderFrom ==
  ASSUME NEW s, NEW t, Good(s), Good(t), Later(s, t), NEW R, Local(s, t, R), NEW o, CopyingUnder(t, R, o)
  PROVE  CopyingUnder(s, R, o)
BY LaterTransitive, LocalTransitive DEF CopyingUnder

LEMMA ChildDoneUnder ==
  ASSUME NEW s, NEW R, NEW f, CopyFrameUnder(s, R, f), f.nodes # {}, NEW ok
  PROVE  CopyFrameUnder(s, R, ChildDone(f, ok))
<1>1. PICK n : n = Oldest(f.nodes)
  OBVIOUS
<1>2. f.nodes \subseteq Region(s, R) /\ f.nodes \subseteq Nodes /\ CopyFrame(s, f)
  BY DEF CopyFrameUnder, CopyFrame, Hand
<1>3. n \in Region(s, R)
  BY <1>1, <1>2, OldestIsOne
<1>4. PICK c, e : c = (IF ok THEN f.copied \cup {n} ELSE f.copied) /\ e = (f.error \/ ~ok)
  OBVIOUS
<1>5. ChildDone(f, ok) = [nodes |-> f.nodes \ {n}, dest |-> f.dest, path |-> f.path, copied |-> c, error |-> e]
  <2>1. ChildDone(f, ok) = [f EXCEPT !.nodes = @ \ {n}, !.copied = c, !.error = e]
    BY <1>1, <1>4, Zenon DEF ChildDone
  <2> QED BY <2>1, <1>2 DEF CopyFrame
<1>6. c \subseteq Region(s, R) /\ f.nodes \ {n} \subseteq Region(s, R)
  BY <1>2, <1>3, <1>4 DEF CopyFrameUnder
<1>7. CopyFrame(s, ChildDone(f, ok))
  BY <1>2, ChildDoneKeeps
<1> QED BY <1>5, <1>6, <1>7 DEF CopyFrameUnder

\* A file or a directory is made in a directory that lies there.
LEMMA CopyFileUnder ==
  ASSUME NEW s, Good(s), NEW R, Given(R), NEW node, NEW dest \in Region(s, R), NEW name \in AllNames,
         NEW o \in CopyFile(s, node, dest, name)
  PROVE  Good(o.s) /\ Later(s, o.s) /\ Local(s, o.s, R)
<1>1. dest \in Hand(s) /\ OnHand(s, dest) /\ Under(s, dest, R)
  BY DEF Region, Hand
<1>2. Copies(s, node, dest, name, o)
  BY <1>1, CopyFileKeeps
<1>3. Good(o.s) /\ Later(s, o.s) /\ (o.s.dev = s.dev \/ Copied(s, o, node, dest, name))
  BY <1>2 DEF Copies
<1>4. CASE o.s.dev = s.dev
  BY <1>3, <1>4, SameLocal
<1>5. CASE o.s.dev # s.dev
  <2>1. PICK i \in Ids \ s.taken : \E content : o.s.dev = Put(s.dev, i, FileProperties(dest, name, content))
    BY <1>3, <1>5 DEF Copied
  <2>2. PICK object : o.s.dev = Put(s.dev, i, object) /\ object.parent = dest.id
    BY <2>1, <1>1, NewObjects
  <2> QED BY <2>2, <1>1, <1>3, MadeUnder
<1> QED BY <1>4, <1>5

LEMMA CreateNewFolderUnder ==
  ASSUME NEW s, Good(s), NEW R, Given(R), NEW node \in Region(s, R), NEW name \in AllNames, NEW o \in CreateNewFolder(s, node, name)
  PROVE  Good(o.s) /\ Later(s, o.s) /\ Local(s, o.s, R)
<1>1. node \in Hand(s) /\ OnHand(s, node) /\ Under(s, node, R)
  BY DEF Region, Hand
<1>2. /\ Good(o.s) /\ Later(s, o.s)
      /\ o.s.dev = s.dev \/ \E i \in Ids \ s.taken : o.s.dev = Put(s.dev, i, FolderProperties(node, name))
  <2>1. OnHand(s, node)
    BY <1>1
  <2>2. /\ Good(o.s) /\ Later(s, o.s)
        /\ \/ o.s.dev = s.dev /\ o.r = FALSE
           \/ /\ o.r = TRUE /\ o.s.bad = s.bad
              /\ \E i \in Ids \ s.taken : o.s.dev = Put(s.dev, i, FolderProperties(node, name))
    BY <2>1, CreateNewFolderKeeps
  <2> QED BY <2>2
<1>3. CASE o.s.dev = s.dev
  BY <1>2, <1>3, SameLocal
<1>4. CASE o.s.dev # s.dev
  <2>1. PICK i \in Ids \ s.taken : o.s.dev = Put(s.dev, i, FolderProperties(node, name))
    BY <1>2, <1>4
  <2>2. PICK object : o.s.dev = Put(s.dev, i, object) /\ object.parent = node.id
    BY <2>1, <1>1, NewObjects
  <2> QED BY <2>2, <1>1, <1>2, MadeUnder
<1> QED BY <1>3, <1>4

LEMMA CopyEachUnder ==
  ASSUME NEW s, Good(s), NEW R, Given(R), NEW S, OuterUnder(s, R, S), NEW outer \in Seq(S),
         NEW f, CopyFrameUnder(s, R, f), f.nodes # {}, NEW o \in CopyEach(s, f, outer)
  PROVE  CopyingUnder(s, R, o)
<1> DEFINE n == Oldest(f.nodes)
           Done(t, ok) == {Out(t, Work(<<ChildDone(f, ok)>> \o outer, TRUE))}
<1>1. CopyFrame(s, f) /\ f.nodes \subseteq Region(s, R) /\ f.dest \in Region(s, R)
  BY DEF CopyFrameUnder
<1>2. n \in Region(s, R)
  <2>1. f.nodes \subseteq Nodes
    BY <1>1 DEF Region, Hand
  <2> QED BY <2>1, <1>1, OldestIsOne
<1>3. n.name \in AllNames
  BY <1>2 DEF Region, Hand, Nodes
<1> HIDE DEF n
<1>5. ASSUME NEW t, Good(t), Later(s, t), Local(s, t, R), NEW ok, NEW x \in Done(t, ok)
      PROVE  CopyingUnder(s, R, x)
  <2>1. CopyFrameUnder(t, R, ChildDone(f, ok))
    <3>1. CopyFrameUnder(s, R, ChildDone(f, ok))
      BY ChildDoneUnder
    <3> QED BY <3>1, <1>5, CopyFrameUnderLater
  <2>2. OuterUnder(t, R, S)
    BY <1>5, OuterUnderLater
  <2>0. PICK w : w = Work(<<ChildDone(f, ok)>> \o outer, TRUE)
    OBVIOUS
  <2>3. CopyWorkUnder(t, R, w)
    BY <2>0, <2>1, <2>2, PushFrameUnder
  <2>4. x \in {Out(t, w)}
    BY <2>0, <1>5, Zenon
  <2>5. x.s = t /\ x.r = w
    BY <2>4 DEF Out
  <2> QED BY <2>3, <2>5, <1>5 DEF CopyingUnder
<1>6. CASE ~n.dir
  <2>1. o \in Then(CopyFile(s, n, f.dest, n.name), Done)
    BY <1>6 DEF CopyEach, n
  <2> HIDE DEF Done
  <2>2. PICK x \in CopyFile(s, n, f.dest, n.name) : o \in IF Halted(x.s) THEN {Out(x.s, Aborted)} ELSE Done(x.s, x.r)
    BY <2>1 DEF Then
  <2>3. Good(x.s) /\ Later(s, x.s) /\ Local(s, x.s, R)
    BY <2>2, <1>1, <1>3, CopyFileUnder
  <2>4. CASE Halted(x.s)
    <3>1. o \in {Out(x.s, Aborted)}
      BY <2>2, <2>4, Zenon
    <3>2. o.s = x.s
      BY <3>1 DEF Out
    <3> QED BY <3>2, <2>3, <2>4 DEF CopyingUnder
  <2> QED BY <2>2, <2>3, <2>4, <1>5
<1>7. CASE n.dir
  <2> DEFINE p == Append(f.path, n.name)
  <2>1. PICK x \in CreateNewFolder(s, f.dest, n.name) :
          o \in IF Halted(x.s) THEN {Out(x.s, Aborted)} ELSE
                Then(FilePathToNode(x.s, p), LAMBDA u, folder :
                  IF folder = Nil THEN Done(u, FALSE)
                  ELSE Then(HaveChildren(u, n.id), LAMBDA v, found :
                    {Out(v, Work(<<Frame(Cached(v, n.id), folder, p), f>> \o outer, TRUE))}))
    <3>1. o \in Then(CreateNewFolder(s, f.dest, n.name), LAMBDA t, ignored :
                  Then(FilePathToNode(t, p), LAMBDA u, folder :
                    IF folder = Nil THEN Done(u, FALSE)
                    ELSE Then(HaveChildren(u, n.id), LAMBDA v, found :
                      {Out(v, Work(<<Frame(Cached(v, n.id), folder, p), f>> \o outer, TRUE))})))
      BY <1>7 DEF CopyEach, n
    <3> QED BY <3>1 DEF Then
  <2> HIDE DEF Done, p
  <2>0. /\ \E T : p \in Seq(T)
        /\ p # <<>> /\ Len(p) \in Nat /\ \E r \in R : IsPrefix(r, p)
    <3>1. PICK U : f.path \in Seq(U)
      BY <1>1 DEF CopyFrame
    <3>2. PICK r \in R : IsPrefix(r, f.path)
      BY DEF CopyFrameUnder
    <3>3. PICK V : r \in Seq(V)
      BY DEF Given
    <3>4. PICK q : q = f.path /\ q \in Seq(U \cup {n.name})
      BY <3>1
    <3>5. IsPrefix(r, Append(q, n.name))
      BY <3>2, <3>3, <3>4, PrefixGrows
    <3>6. Append(q, n.name) \in Seq(U \cup {n.name}) /\ Append(q, n.name) # <<>> /\ Len(Append(q, n.name)) \in Nat
      BY <3>4
    <3>7. p = Append(q, n.name)
      BY <3>4 DEF p
    <3>8. p \in Seq(U \cup {n.name}) /\ p # <<>> /\ Len(p) \in Nat /\ IsPrefix(r, p)
      BY <3>5, <3>6, <3>7
    <3> QED BY <3>2, <3>8
  <2>2. Good(x.s) /\ Later(s, x.s) /\ Local(s, x.s, R)
    BY <2>1, <1>1, <1>3, CreateNewFolderUnder
  <2>3. CASE Halted(x.s)
    <3>1. o \in {Out(x.s, Aborted)}
      BY <2>1, <2>3, Zenon
    <3>2. o.s = x.s
      BY <3>1 DEF Out
    <3> QED BY <3>2, <2>2, <2>3 DEF CopyingUnder
  <2>4. CASE ~Halted(x.s)
    <3>1. PICK y \in FilePathToNode(x.s, p) :
            o \in IF Halted(y.s) THEN {Out(y.s, Aborted)} ELSE
                  IF y.r = Nil THEN Done(y.s, FALSE)
                  ELSE Then(HaveChildren(y.s, n.id), LAMBDA v, found :
                    {Out(v, Work(<<Frame(Cached(v, n.id), y.r, p), f>> \o outer, TRUE))})
      BY <2>1, <2>4 DEF Then
    <3>3. Good(y.s) /\ Later(x.s, y.s) /\ y.s.dev = x.s.dev
      BY <2>0, <2>2, <3>1, FoundPlace
    <3>4. Later(s, y.s) /\ Local(s, y.s, R)
      <4>1. Local(x.s, y.s, R)
        BY <3>3, SameLocal
      <4> QED BY <4>1, <2>2, <3>3, LaterTransitive, LocalTransitive
    <3>5. CASE Halted(y.s)
      <4>1. o \in {Out(y.s, Aborted)}
        BY <3>1, <3>5, Zenon
      <4>2. o.s = y.s
        BY <4>1 DEF Out
      <4> QED BY <4>2, <3>3, <3>4, <3>5 DEF CopyingUnder
    <3>6. CASE ~Halted(y.s) /\ y.r = Nil
      <4>1. o \in Done(y.s, FALSE)
        BY <3>1, <3>6, Zenon
      <4> QED BY <4>1, <3>3, <3>4, <1>5
    <3>7. CASE ~Halted(y.s) /\ y.r # Nil
      <4>1. PICK z \in HaveChildren(y.s, n.id) :
              o \in IF Halted(z.s) THEN {Out(z.s, Aborted)} ELSE
                    {Out(z.s, Work(<<Frame(Cached(z.s, n.id), y.r, p), f>> \o outer, TRUE))}
        BY <3>1, <3>7 DEF Then
      <4>2. n \in Region(y.s, R)
        BY <1>2, <3>3, <3>4, RegionLater
      <4>3. n.id \in Keys /\ n.id \in y.s.taken \cup {Root} /\ (n.id \in DOMAIN y.s.dev => y.s.dev[n.id].dir)
        BY <4>2, <1>7 DEF Region, Hand, OnHand
      <4>4. Good(z.s) /\ Later(y.s, z.s) /\ z.s.dev = y.s.dev
        BY <3>3, <4>1, <4>3, HaveChildrenKeeps DEF Grown
      <4>5. Later(s, z.s) /\ Local(s, z.s, R)
        <5>1. Local(y.s, z.s, R)
          BY <4>4, SameLocal
        <5> QED BY <5>1, <3>3, <3>4, <4>4, LaterTransitive, LocalTransitive
      <4>6. CASE Halted(z.s)
        <5>1. o.s = z.s
          BY <4>1, <4>6 DEF Out
        <5> QED BY <5>1, <4>4, <4>5, <4>6 DEF CopyingUnder
      <4>7. CASE ~Halted(z.s)
        <5>1. PICK g : g = Frame(Cached(z.s, n.id), y.r, p)
          OBVIOUS
        <5>0. PICK w : w = Work(<<g, f>> \o outer, TRUE)
          OBVIOUS
        <5>20. o \in {Out(z.s, w)}
          BY <4>1, <4>7, <5>0, <5>1, Zenon
        <5>2. o.s = z.s /\ o.r = w
          BY <5>20 DEF Out
        <5>21. y.r \in Region(y.s, R)
          BY <2>0, <2>2, <3>1, <3>7, FoundUnder
        <5>22. y.r \in Region(z.s, R) /\ n \in Region(z.s, R)
          BY <5>21, <4>2, <3>3, <4>4, RegionLater
        <5>3. Cached(z.s, n.id) \subseteq Region(z.s, R)
          BY <5>22, <4>4, RegionListed
        <5>4. CopyFrameUnder(z.s, R, g)
          <6>1. Cached(z.s, n.id) \subseteq Hand(z.s) /\ OnHand(z.s, y.r)
            BY <5>3, <5>22 DEF Region, Hand
          <6>2. CopyFrame(z.s, g)
            BY <5>1, <6>1, <2>0 DEF CopyFrame, Frame
          <6>3. g.nodes = Cached(z.s, n.id) /\ g.copied = {} /\ g.dest = y.r /\ g.path = p
            BY <5>1 DEF Frame
          <6> QED BY <6>2, <6>3, <5>3, <5>22, <2>0 DEF CopyFrameUnder
        <5>5. OuterUnder(z.s, R, S \cup {f})
          BY <4>4, <4>5, CopyFrameUnderLater DEF OuterUnder
        <5>6. outer \in Seq(S \cup {f})
          OBVIOUS
        <5>7. <<f>> \o outer \in Seq(S \cup {f}) /\ <<g, f>> \o outer = <<g>> \o (<<f>> \o outer)
          <6>1. <<f>> \o outer \in Seq(S \cup {f})
            BY <5>6, Pushed
          <6> QED BY <6>1, <5>6
        <5>8. CopyWorkUnder(z.s, R, w)
          BY <5>0, <5>4, <5>5, <5>7, PushFrameUnder
        <5> QED BY <5>2, <5>8, <4>4, <4>5 DEF CopyingUnder
      <4> QED BY <4>6, <4>7
    <3> QED BY <3>5, <3>6, <3>7
  <2> QED BY <2>3, <2>4
<1> QED BY <1>6, <1>7

LEMMA TidyUpUnder ==
  ASSUME NEW s, Good(s), NEW R, Given(R), NEW S, OuterUnder(s, R, S), NEW outer \in Seq(S),
         NEW f, CopyFrameUnder(s, R, f), f.copied # {}, NEW o \in TidyUp(s, f, outer)
  PROVE  CopyingUnder(s, R, o)
<1>1. PICK n : n = Oldest(f.copied)
  OBVIOUS
<1>2. n \in Region(s, R)
  <2>1. f.copied \subseteq Region(s, R) /\ f.copied \subseteq Nodes
    BY DEF CopyFrameUnder, Region, Hand
  <2> QED BY <2>1, <1>1, OldestIsOne
<1>3. PICK g : g = [f EXCEPT !.copied = @ \ {n}]
  OBVIOUS
<1>0. PICK w : w = Work(<<g>> \o outer, TRUE)
  OBVIOUS
<1>4. PICK x \in DeleteMe(s, n) : o \in IF Halted(x.s) THEN {Out(x.s, Aborted)} ELSE {Out(x.s, w)}
  BY <1>0, <1>1, <1>3 DEF TidyUp, Then
<1>5. Good(x.s) /\ Later(s, x.s) /\ Local(s, x.s, R)
  <2>1. n \in Hand(s)
    BY <1>2 DEF Region
  <2>2. Good(x.s) /\ Later(s, x.s)
    BY <2>1, DeleteMeKeeps
  <2> QED BY <2>2, <1>2, DeleteMeUnder
<1>6. g = [nodes |-> f.nodes, dest |-> f.dest, path |-> f.path, copied |-> f.copied \ {n}, error |-> f.error]
  BY <1>3 DEF CopyFrameUnder, CopyFrame
<1>7. CopyFrameUnder(s, R, g)
  <2>1. CopyFrame(s, g)
    BY <1>6 DEF CopyFrameUnder, CopyFrame
  <2> QED BY <2>1, <1>6 DEF CopyFrameUnder
<1>8. CopyFrameUnder(x.s, R, g) /\ OuterUnder(x.s, R, S)
  BY <1>5, <1>7, CopyFrameUnderLater, OuterUnderLater
<1>9. CopyWorkUnder(x.s, R, w)
  BY <1>0, <1>8, PushFrameUnder
<1>10. o.s = x.s /\ (Halted(x.s) \/ o.r = w)
  BY <1>4 DEF Out
<1> QED BY <1>5, <1>9, <1>10 DEF CopyingUnder

LEMMA CopyStepUnder ==
  ASSUME NEW s, Good(s), NEW R, Given(R), NEW o, CopyingUnder(s, R, o), ~Halted(o.s), NEW x \in CopyStep(o.s, o.r)
  PROVE  CopyingUnder(s, R, x)
<1>1. Good(o.s) /\ Later(s, o.s) /\ Local(s, o.s, R)
  BY DEF CopyingUnder
<1>2. \/ o.r.frames = <<>>
      \/ \E f, S : \E outer \in Seq(S) :
           o.r.frames = <<f>> \o outer /\ CopyFrameUnder(o.s, R, f) /\ OuterUnder(o.s, R, S)
  BY DEF CopyingUnder, CopyWorkUnder
<1>3. CASE o.r.frames = <<>>
  <2>1. x.s = o.s /\ x.r = o.r
    BY <1>3 DEF CopyStep, Out
  <2> QED BY <2>1 DEF CopyingUnder
<1>4. CASE o.r.frames # <<>>
  <2>1. PICK f, S : \E outer \in Seq(S) :
          o.r.frames = <<f>> \o outer /\ CopyFrameUnder(o.s, R, f) /\ OuterUnder(o.s, R, S)
    BY <1>2, <1>4
  <2>2. PICK outer \in Seq(S) : o.r.frames = <<f>> \o outer /\ CopyFrameUnder(o.s, R, f) /\ OuterUnder(o.s, R, S)
    BY <2>1
  <2>20. Head(o.r.frames) = f /\ Tail(o.r.frames) = outer
    <3>1. outer \in Seq(S \cup {f})
      OBVIOUS
    <3> QED BY <3>1, <2>2, Pushed
  <2>3. x \in IF f.nodes # {} THEN CopyEach(o.s, f, outer)
              ELSE IF f.copied # {} THEN TidyUp(o.s, f, outer)
              ELSE IF outer = <<>> THEN {Out(o.s, Work(<<>>, ~f.error))}
              ELSE {Out(o.s, Work(<<ChildDone(Head(outer), ~f.error)>> \o Tail(outer), TRUE))}
    BY <2>20, <1>4 DEF CopyStep
  <2>4. CASE f.nodes # {}
    <3>1. CopyingUnder(o.s, R, x)
      BY <2>2, <2>3, <2>4, <1>1, CopyEachUnder
    <3> QED BY <3>1, <1>1, CopyingUnderFrom
  <2>5. CASE f.nodes = {} /\ f.copied # {}
    <3>1. CopyingUnder(o.s, R, x)
      BY <2>2, <2>3, <2>5, <1>1, TidyUpUnder
    <3> QED BY <3>1, <1>1, CopyingUnderFrom
  <2>6. CASE f.nodes = {} /\ f.copied = {} /\ outer = <<>>
    <3>0. PICK w : w = Work(<<>>, ~f.error)
      OBVIOUS
    <3>1. x.s = o.s /\ x.r = w
      BY <2>3, <2>6, <3>0 DEF Out
    <3>2. CopyWorkUnder(x.s, R, x.r)
      <4>1. w.frames = <<>>
        BY <3>0 DEF Work
      <4> QED BY <3>1, <4>1 DEF CopyWorkUnder
    <3> QED BY <3>1, <3>2, <1>1 DEF CopyingUnder
  <2>7. CASE f.nodes = {} /\ f.copied = {} /\ outer # <<>>
    <3>1. PICK g, q : g = Head(outer) /\ q = Tail(outer)
      OBVIOUS
    <3>2. g \in S /\ q \in Seq(S)
      BY <3>1, <2>2, <2>7, Popped
    <3>0. PICK w : w = Work(<<ChildDone(g, ~f.error)>> \o q, TRUE)
      OBVIOUS
    <3>3. x \in {Out(o.s, w)}
      BY <2>3, <2>7, <3>0, <3>1, Zenon
    <3>4. x.s = o.s /\ x.r = w
      BY <3>3 DEF Out
    <3>5. CopyFrameUnder(o.s, R, ChildDone(g, ~f.error))
      <4>1. CopyFrameUnder(o.s, R, g) /\ g.nodes # {}
        BY <3>2, <2>2 DEF OuterUnder
      <4> QED BY <4>1, ChildDoneUnder
    <3>6. CopyWorkUnder(o.s, R, w)
      BY <3>0, <3>2, <3>5, <2>2, PushFrameUnder
    <3> QED BY <3>4, <3>6, <1>1 DEF CopyingUnder
  <2> QED BY <2>4, <2>5, <2>6, <2>7
<1> QED BY <1>3, <1>4

LEMMA CopyAllUnder ==
  ASSUME NEW s, Good(s), NEW R, Given(R), NEW node \in Region(s, R), node.dir, NEW dest \in Region(s, R),
         NEW path, \E T : path \in Seq(T), \E r \in R : IsPrefix(r, path), NEW o \in CopyAll(s, node, dest, path)
  PROVE  Local(s, o.s, R)
<1> DEFINE A == Then(HaveChildren(s, node.id), LAMBDA t, found :
                  {Out(t, Work(<<Frame(Cached(t, node.id), dest, path)>>, TRUE))})
           W == CHOOSE W : W = [n \in 0 .. MaxSteps |-> IF n = 0 THEN A ELSE CopyOn(W[n - 1])]
<1>1. o \in Then(W[MaxSteps], LAMBDA t, w : IF w.frames = <<>> THEN {Out(t, w.ok)} ELSE {})
  BY DEF CopyAll, CopyOn
<1>2. \A x2 \in A : CopyingUnder(s, R, x2)
  <2> SUFFICES ASSUME NEW x2 \in A PROVE CopyingUnder(s, R, x2)
    OBVIOUS
  <2>1. PICK z \in HaveChildren(s, node.id) :
          x2 \in IF Halted(z.s) THEN {Out(z.s, Aborted)}
                 ELSE {Out(z.s, Work(<<Frame(Cached(z.s, node.id), dest, path)>>, TRUE))}
    BY DEF Then
  <2> HIDE DEF A, W
  <2>2. node.id \in Keys /\ node.id \in s.taken \cup {Root} /\ (node.id \in DOMAIN s.dev => s.dev[node.id].dir)
    BY DEF Region, Hand, OnHand
  <2>3. Good(z.s) /\ Later(s, z.s) /\ z.s.dev = s.dev
    BY <2>2, HaveChildrenKeeps DEF Grown
  <2>30. Local(s, z.s, R)
    BY <2>3, SameLocal
  <2>4. CASE Halted(z.s)
    <3>1. x2 \in {Out(z.s, Aborted)}
      BY <2>1, <2>4, Zenon
    <3>2. x2.s = z.s
      BY <3>1 DEF Out
    <3> QED BY <3>2, <2>3, <2>30, <2>4 DEF CopyingUnder
  <2>5. CASE ~Halted(z.s)
    <3>1. PICK g : g = Frame(Cached(z.s, node.id), dest, path)
      OBVIOUS
    <3>2. PICK w : w = Work(<<g>>, TRUE)
      OBVIOUS
    <3>3. x2 \in {Out(z.s, w)}
      BY <2>1, <2>5, <3>1, <3>2, Zenon
    <3>4. x2.s = z.s /\ x2.r = w
      BY <3>3 DEF Out
    <3>50. node \in Region(z.s, R) /\ dest \in Region(z.s, R)
      BY <2>3, RegionLater
    <3>51. Cached(z.s, node.id) \subseteq Region(z.s, R)
      BY <3>50, <2>3, RegionListed
    <3>5. Cached(z.s, node.id) \subseteq Hand(z.s) /\ OnHand(z.s, dest)
      BY <3>50, <3>51 DEF Region, Hand
    <3>6. CopyFrameUnder(z.s, R, g)
      <4>1. CopyFrame(z.s, g)
        BY <3>1, <3>5 DEF CopyFrame, Frame
      <4>2. g.nodes = Cached(z.s, node.id) /\ g.copied = {} /\ g.dest = dest /\ g.path = path
        BY <3>1 DEF Frame
      <4> QED BY <4>1, <4>2, <3>50, <3>51 DEF CopyFrameUnder
    <3>7. CopyWorkUnder(z.s, R, w)
      <4>1. <<g>> \o <<>> = <<g>> /\ <<>> \in Seq({g})
        OBVIOUS
      <4>2. w.frames = <<g>> \o <<>> /\ <<>> \in Seq({})
        BY <4>1, <3>2 DEF Work
      <4> QED BY <4>2, <3>6 DEF CopyWorkUnder, OuterUnder
    <3> QED BY <3>4, <3>7, <2>3, <2>30 DEF CopyingUnder
  <2> QED BY <2>4, <2>5
<1> HIDE DEF A
<1>3. ASSUME NEW outs, \A x2 \in outs : CopyingUnder(s, R, x2)
      PROVE  \A x2 \in CopyOn(outs) : CopyingUnder(s, R, x2)
  <2> SUFFICES ASSUME NEW x2 \in CopyOn(outs) PROVE CopyingUnder(s, R, x2)
    OBVIOUS
  <2>1. PICK y \in outs : x2 \in IF Halted(y.s) THEN {Out(y.s, Aborted)} ELSE CopyStep(y.s, y.r)
    BY DEF CopyOn, Then
  <2>2. CASE Halted(y.s)
    <3>1. x2.s = y.s
      BY <2>1, <2>2 DEF Out
    <3> QED BY <3>1, <2>2, <1>3 DEF CopyingUnder
  <2>3. CASE ~Halted(y.s)
    BY <2>1, <2>3, <1>3, CopyStepUnder
  <2> QED BY <2>2, <2>3
<1>0. MaxSteps \in Nat
  BY BoundsAssumption
<1>5. W = [n \in 0 .. MaxSteps |-> IF n = 0 THEN A ELSE CopyOn(W[n - 1])]
  <2>1. \E f : CopySteps(MaxSteps, A, f)
    BY <1>0, CopyRun
  <2> QED BY <2>1 DEF CopySteps
<1> HIDE DEF W
<1> DEFINE C == [n \in 0 .. MaxSteps |-> IF \A x2 \in W[n] : CopyingUnder(s, R, x2) THEN {W[n]} ELSE {}]
<1>6. W[0] \in C[0]
  BY <1>0, <1>2, <1>5
<1>7. \A n \in 1 .. MaxSteps : W[n - 1] \in C[n - 1] => W[n] \in C[n]
  <2> SUFFICES ASSUME NEW n \in 1 .. MaxSteps, W[n - 1] \in C[n - 1]
               PROVE  W[n] \in C[n]
    OBVIOUS
  <2>1. n - 1 \in 0 .. MaxSteps /\ n \in 0 .. MaxSteps /\ n # 0
    BY <1>0
  <2>2. \A x2 \in W[n - 1] : CopyingUnder(s, R, x2)
    BY <2>1
  <2>3. W[n] = CopyOn(W[n - 1])
    BY <1>5, <2>1
  <2>4. \A x2 \in W[n] : CopyingUnder(s, R, x2)
    BY <1>3, <2>2, <2>3
  <2> QED BY <2>1, <2>4
<1>8. \A n \in 0 .. MaxSteps : W[n] \in C[n]
  <2> HIDE DEF C
  <2> QED BY <1>0, <1>6, <1>7, Climbing
<1>9. \A x2 \in W[MaxSteps] : CopyingUnder(s, R, x2)
  <2>1. MaxSteps \in 0 .. MaxSteps
    BY <1>0
  <2>2. C[MaxSteps] = IF \A x2 \in W[MaxSteps] : CopyingUnder(s, R, x2) THEN {W[MaxSteps]} ELSE {}
    BY <2>1
  <2>3. W[MaxSteps] \in C[MaxSteps]
    BY <2>1, <1>8
  <2> HIDE DEF C
  <2> QED BY <2>2, <2>3
<1> QED
  <2>1. PICK x \in W[MaxSteps] :
          o \in IF Halted(x.s) THEN {Out(x.s, Aborted)} ELSE IF x.r.frames = <<>> THEN {Out(x.s, x.r.ok)} ELSE {}
    BY <1>1 DEF Then
  <2>2. o.s = x.s
    BY <2>1 DEF Out
  <2> QED BY <1>9, <2>2 DEF CopyingUnder

-----------------------------------------------------------------------------
(* The operations on paths touch only what lies at or under their paths.   *)

\* What an operation leaves that renames no object and frees no node in use.
Inside(s, t, R) == Good(t) /\ Later(s, t) /\ Local(s, t, R)

LEMMA InsideOn ==
  ASSUME NEW s, Good(s), NEW R, NEW t, Inside(s, t, R), NEW u, Inside(t, u, R)
  PROVE  Inside(s, u, R)
BY LaterTransitive, LocalTransitive DEF Inside

LEMMA InsideSame ==
  ASSUME NEW s, NEW R, NEW t, Good(t), Later(s, t), t.dev = s.dev
  PROVE  Inside(s, t, R)
BY SameLocal DEF Inside

LEMMA InsideDrop ==
  ASSUME NEW s, Good(s), NEW R, NEW i
  PROVE  Inside(s, DeleteSubCache(s, i), R)
<1>1. PICK t : t = DeleteSubCache(s, i)
  OBVIOUS
<1>2. Good(t) /\ Later(s, t) /\ t.dev = s.dev
  BY <1>1, DeleteSubCacheKeeps
<1> QED BY <1>1, <1>2, InsideSame

LEMMA InsideFound ==
  ASSUME NEW s, Good(s), NEW R, NEW path, Len(path) \in Nat, NEW o \in FilePathToNode(s, path)
  PROVE  Inside(s, o.s, R)
BY FoundOnHand, InsideSame DEF Grown

\* A path is the name at its end and the path before it.
Parts(path, T) == /\ path \in Seq(T) /\ path # <<>> /\ Len(path) \in Nat
                  /\ Front(path) \in Seq(T) /\ Last(path) \in T /\ Append(Front(path), Last(path)) = path
LEMMA PathParts ==
  ASSUME NEW path \in Paths
  PROVE  \E T : Parts(path, T)
<1>1. PICK T : path \in Seq(T)
  BY PathFacts
<1>2. path # <<>> /\ Len(path) \in Nat \ {0}
  BY PathFacts DEF Paths
<1>3. Front(path) = SubSeq(path, 1, Len(path) - 1) /\ Last(path) = path[Len(path)]
  BY DEF Front, Last
<1>4. PICK l \in Nat : Len(path) = l + 1
  <2>1. Len(path) - 1 \in Nat /\ Len(path) = (Len(path) - 1) + 1
    BY <1>2
  <2> QED BY <2>1
<1>5. Front(path) = SubSeq(path, 1, l) /\ Last(path) = path[l + 1]
  BY <1>3, <1>4
<1>6. SubSeq(path, 1, l) \in Seq(T) /\ path[l + 1] \in T
  BY <1>1, <1>4
<1>7. Append(SubSeq(path, 1, l), path[l + 1]) = path
  BY <1>1, <1>4
<1> QED BY <1>1, <1>2, <1>5, <1>6, <1>7 DEF Parts

\* The directory that the path before a path leads to.
LEMMA FrontFound ==
  ASSUME NEW s, Good(s), NEW path, NEW T, Parts(path, T), NEW x \in FilePathToNode(s, Front(path)),
         ~Halted(x.s), x.r # Nil
  PROVE  Good(x.s) /\ OnHand(x.s, x.r) /\ Place(x.s, x.r, Front(path))
<1>1. Front(path) \in Seq(T) /\ Len(Front(path)) \in Nat
  BY DEF Parts
<1> QED BY <1>1, FoundPlace, FoundOnHand

\* An object is made at one of the paths.
LEMMA MadeInside ==
  ASSUME NEW s, Good(s), NEW R, NEW path \in R, NEW T, Parts(path, T),
         NEW base, OnHand(s, base), Place(s, base, Front(path)),
         NEW object \in Objects, object.parent = base.id, object.name = Last(path),
         NEW y \in CreateObject(s, base, object)
  PROVE  Inside(s, y.s, R)
<1>1. Front(path) \in Seq(T) /\ Last(path) \in T /\ Append(Front(path), Last(path)) \in R
  BY DEF Parts
<1>2. /\ Good(y.s) /\ Later(s, y.s) /\ y.s.kids = s.kids
      /\ \/ y.s.dev = s.dev /\ y.r = FALSE
         \/ /\ y.r = TRUE /\ y.s.bad = s.bad
            /\ \E i \in Ids \ s.taken : y.s.dev = Put(s.dev, i, object)
  BY CreateObjectKeeps
<1>3. ASSUME NEW i \in Ids \ s.taken, y.s.dev = Put(s.dev, i, object)
      PROVE  Local(s, y.s, R)
  BY <1>1, <1>2, <1>3, MadeAt
<1>4. CASE y.s.dev = s.dev
  BY <1>2, <1>4, InsideSame
<1> QED BY <1>2, <1>3, <1>4 DEF Inside

LEMMA ExistsInside ==
  ASSUME NEW s, Good(s), NEW R, NEW path \in Paths
  PROVE  /\ \A o \in Exists(s, path, IsDirectory) : Inside(s, o.s, R)
         /\ \A o \in Exists(s, path, IsFile) : Inside(s, o.s, R)
         /\ \A o \in Exists(s, path, LAMBDA n : n # Nil) : Inside(s, o.s, R)
<1>1. ASSUME NEW x \in FilePathToNode(s, path), NEW r, NEW o \in {Out(x.s, r)}
      PROVE  Inside(s, o.s, R)
  <2>1. Inside(s, x.s, R)
    BY PathFacts, InsideFound
  <2>2. o.s = x.s
    BY <1>1 DEF Out
  <2> QED BY <2>1, <2>2
<1>2. ASSUME NEW o \in Exists(s, path, IsDirectory)
      PROVE  Inside(s, o.s, R)
  <2>1. PICK x \in FilePathToNode(s, path) : o \in IF Halted(x.s) THEN {Out(x.s, Aborted)} ELSE {Out(x.s, IsDirectory(x.r))}
    BY DEF Exists, Then
  <2> QED BY <2>1, <1>1
<1>3. ASSUME NEW o \in Exists(s, path, IsFile)
      PROVE  Inside(s, o.s, R)
  <2>1. PICK x \in FilePathToNode(s, path) : o \in IF Halted(x.s) THEN {Out(x.s, Aborted)} ELSE {Out(x.s, IsFile(x.r))}
    BY DEF Exists, Then
  <2> QED BY <2>1, <1>1
<1>4. ASSUME NEW o \in Exists(s, path, LAMBDA n : n # Nil)
      PROVE  Inside(s, o.s, R)
  <2>1. PICK x \in FilePathToNode(s, path) : o \in IF Halted(x.s) THEN {Out(x.s, Aborted)} ELSE {Out(x.s, x.r # Nil)}
    BY DEF Exists, Then
  <2> QED BY <2>1, <1>1
<1> QED BY <1>2, <1>3, <1>4

LEMMA ReadFileInside ==
  ASSUME NEW s, Good(s), NEW R, NEW path \in Paths, NEW o \in ReadFile(s, path)
  PROVE  Inside(s, o.s, R)
<1>1. PICK x \in FilePathToNode(s, path) :
        o \in IF Halted(x.s) THEN {Out(x.s, Aborted)}
              ELSE IF ~IsFile(x.r) THEN {Out(x.s, FALSE)}
              ELSE Then(ContentToStream(x.s, x.r), LAMBDA u, got : {Out(u, got # Nil)})
  BY DEF ReadFile, Then
<1>2. Inside(s, x.s, R) /\ Good(x.s)
  BY PathFacts, InsideFound DEF Inside
<1>3. CASE o \in {Out(x.s, Aborted)} \/ o \in {Out(x.s, FALSE)}
  BY <1>2, <1>3, OutIs
<1>4. CASE o \in Then(ContentToStream(x.s, x.r), LAMBDA u, got : {Out(u, got # Nil)})
  <2>1. PICK y \in ContentToStream(x.s, x.r) : o \in IF Halted(y.s) THEN {Out(y.s, Aborted)} ELSE {Out(y.s, y.r # Nil)}
    BY <1>4 DEF Then
  <2>2. o.s = y.s
    BY <2>1, OutIs
  <2>3. Good(y.s) /\ Later(x.s, y.s) /\ y.s.dev = x.s.dev
    BY <1>2, ContentToStreamKeeps
  <2>4. Inside(x.s, y.s, R)
    BY <2>3, InsideSame
  <2> QED BY <2>2, <2>4, <1>2, InsideOn
<1> QED BY <1>1, <1>3, <1>4

LEMMA ListInside ==
  ASSUME NEW s, Good(s), NEW R, NEW path \in Paths,
         NEW o \in Then(DoForAllDirContent(s, path), LAMBDA t, nodes : {Out(t, nodes # {})})
  PROVE  Inside(s, o.s, R)
<1>1. PICK z \in DoForAllDirContent(s, path) : o \in IF Halted(z.s) THEN {Out(z.s, Aborted)} ELSE {Out(z.s, z.r # {})}
  BY DEF Then
<1>2. o.s = z.s
  <2>1. PICK v : v = (z.r # {})
    OBVIOUS
  <2>2. o \in {Out(z.s, Aborted)} \/ o \in {Out(z.s, v)}
    BY <1>1, <2>1, Zenon
  <2> QED BY <2>2, OutIs
<1>3. PICK x \in FilePathToNode(s, path) :
        z \in IF Halted(x.s) THEN {Out(x.s, Aborted)}
              ELSE IF ~IsDirectory(x.r) THEN {Out(x.s, {})}
              ELSE Then(HaveChildren(x.s, x.r.id), LAMBDA u, listed : {Out(u, Cached(u, x.r.id))})
  BY DEF DoForAllDirContent, Then
<1>4. Inside(s, x.s, R) /\ Good(x.s)
  BY PathFacts, InsideFound DEF Inside
<1>5. CASE z \in {Out(x.s, Aborted)} \/ z \in {Out(x.s, {})}
  BY <1>2, <1>4, <1>5, OutIs
<1>6. CASE ~Halted(x.s) /\ IsDirectory(x.r) /\ z \in Then(HaveChildren(x.s, x.r.id), LAMBDA u, listed : {Out(u, Cached(u, x.r.id))})
  <2>1. PICK y \in HaveChildren(x.s, x.r.id) : z \in IF Halted(y.s) THEN {Out(y.s, Aborted)} ELSE {Out(y.s, Cached(y.s, x.r.id))}
    BY <1>6 DEF Then
  <2>2. z.s = y.s
    BY <2>1, OutIs
  <2>3. Halted(x.s) \/ x.r = Nil \/ OnHand(x.s, x.r)
    BY PathFacts, Finding DEF Found
  <2>4. x.r.id \in Keys /\ x.r.id \in x.s.taken \cup {Root} /\ (x.r.id \in DOMAIN x.s.dev => x.s.dev[x.r.id].dir)
    BY <2>3, <1>6 DEF OnHand, IsDirectory
  <2>5. Good(y.s) /\ Later(x.s, y.s) /\ Grown(x.s, y.s)
    BY <2>4, <1>4, HaveChildrenKeeps
  <2>6. Inside(x.s, y.s, R)
    BY <2>5, InsideSame DEF Grown
  <2> QED BY <2>2, <2>6, <1>2, <1>4, InsideOn
<1> QED BY <1>3, <1>5, <1>6

LEMMA DeleteMeInside ==
  ASSUME NEW s, Good(s), NEW R, Given(R), NEW node \in Region(s, R), NEW o \in DeleteMe(s, node)
  PROVE  Inside(s, o.s, R)
<1>1. node \in Hand(s)
  BY DEF Region
<1>2. Good(o.s) /\ Later(s, o.s)
  BY <1>1, DeleteMeKeeps
<1>3. Local(s, o.s, R)
  BY DeleteMeUnder
<1> QED BY <1>2, <1>3 DEF Inside

\* What one of the paths leads to.
LEMMA AtPath ==
  ASSUME NEW s, Good(s), NEW R, Given(R), NEW path \in Paths, path \in R, NEW o \in FilePathToNode(s, path),
         ~Halted(o.s), o.r # Nil
  PROVE  o.r \in Region(o.s, R)
<1>1. PICK T : Parts(path, T)
  BY PathParts
<1>2. path \in Seq(T) /\ path # <<>> /\ IsPrefix(path, path)
  BY <1>1, PrefixSelf DEF Parts
<1> QED BY <1>2, FoundUnder

LEMMA DeleteFileOrDirectoryInside ==
  ASSUME NEW s, Good(s), NEW R, Given(R), NEW path \in Paths, path \in R, NEW o \in DeleteFileOrDirectory(s, path)
  PROVE  Inside(s, o.s, R)
<1>1. PICK x \in FilePathToNode(s, path) :
        o \in IF Halted(x.s) THEN {Out(x.s, Aborted)}
              ELSE IF x.r = Nil \/ x.r = RootNode THEN {Out(x.s, FALSE)}
              ELSE Then(DeleteMe(x.s, x.r), LAMBDA u, ok : {Out(DeleteSubCache(u, Parent(x.s, x.r)), ok)})
  BY DEF DeleteFileOrDirectory, Then
<1>2. Inside(s, x.s, R) /\ Good(x.s)
  BY PathFacts, InsideFound DEF Inside
<1>3. CASE o \in {Out(x.s, Aborted)} \/ o \in {Out(x.s, FALSE)}
  BY <1>2, <1>3, OutIs
<1> DEFINE p == Parent(x.s, x.r)
<1>4. p = Parent(x.s, x.r)
  OBVIOUS
<1> HIDE DEF p
<1>5. CASE /\ ~Halted(x.s) /\ x.r # Nil
           /\ o \in Then(DeleteMe(x.s, x.r), LAMBDA u, ok : {Out(DeleteSubCache(u, p), ok)})
  <2>1. PICK y \in DeleteMe(x.s, x.r) : o \in IF Halted(y.s) THEN {Out(y.s, Aborted)} ELSE {Out(DeleteSubCache(y.s, p), y.r)}
    BY <1>5 DEF Then
  <2>2. x.r \in Region(x.s, R)
    BY <1>5, AtPath
  <2>3. Inside(x.s, y.s, R) /\ Good(y.s)
    BY <1>2, <2>2, DeleteMeInside DEF Inside
  <2>4. Inside(s, y.s, R)
    BY <1>2, <2>3, InsideOn
  <2>5. o.s = y.s \/ o.s = DeleteSubCache(y.s, p)
    <3>1. o \in {Out(y.s, Aborted)} \/ o \in {Out(DeleteSubCache(y.s, p), y.r)}
      BY <2>1, Zenon
    <3> QED BY <3>1, OutIs
  <2>6. Inside(y.s, DeleteSubCache(y.s, p), R)
    BY <2>3, InsideDrop
  <2>7. Inside(s, DeleteSubCache(y.s, p), R)
    BY <2>4, <2>6, InsideOn
  <2> QED BY <2>4, <2>5, <2>7
<1> QED BY <1>1, <1>3, <1>5 DEF p

LEMMA DeleteDirOrFileInside ==
  ASSUME NEW s, Good(s), NEW R, Given(R), NEW path \in Paths, path \in R, NEW o \in DeleteDirOrFile(s, path)
  PROVE  Inside(s, o.s, R)
<1>1. PICK x \in FilePathToNode(s, path) :
        o \in IF Halted(x.s) THEN {Out(x.s, Aborted)}
              ELSE IF x.r = Nil THEN {Out(x.s, TRUE)} ELSE DeleteFileOrDirectory(x.s, path)
  BY DEF DeleteDirOrFile, Then
<1>2. Inside(s, x.s, R) /\ Good(x.s)
  BY PathFacts, InsideFound DEF Inside
<1>3. CASE o \in {Out(x.s, Aborted)} \/ o \in {Out(x.s, TRUE)}
  BY <1>2, <1>3, OutIs
<1>4. CASE o \in DeleteFileOrDirectory(x.s, path)
  BY <1>2, <1>4, DeleteFileOrDirectoryInside, InsideOn
<1> QED BY <1>1, <1>3, <1>4

LEMMA FolderInside ==
  ASSUME NEW s, Good(s), NEW R, NEW path \in Paths, path \in R, NEW T, Parts(path, T),
         NEW base, OnHand(s, base), Place(s, base, Front(path)), NEW y \in CreateNewFolder(s, base, Last(path))
  PROVE  Inside(s, y.s, R)
<1>1. PICK object : object = FolderProperties(base, Last(path))
  OBVIOUS
<1>2. object \in Objects /\ object.parent = base.id /\ object.name = Last(path)
  BY <1>1, NewObjects, PathFacts DEF FolderProperties
<1>3. y \in CreateObject(s, base, object)
  BY <1>1 DEF CreateNewFolder
<1> QED BY <1>2, <1>3, MadeInside

LEMMA CreateFileWithStreamInside ==
  ASSUME NEW s, Good(s), NEW R, NEW path \in Paths, path \in R, NEW content \in AllContents,
         NEW o \in CreateFileWithStream(s, Front(path), Last(path), content)
  PROVE  Inside(s, o.s, R)
<1>1. PICK x \in FilePathToNode(s, Front(path)) :
        o \in IF Halted(x.s) THEN {Out(x.s, Aborted)}
              ELSE IF x.r = Nil THEN {Out(x.s, FALSE)}
              ELSE Then(CreateNewFileWithStream(x.s, x.r, Last(path), content),
                        LAMBDA u, ok : {Out(IF ok THEN DeleteSubCache(u, x.r.id) ELSE u, ok)})
  BY DEF CreateFileWithStream, CreateIn, Then
<1>2. PICK T : Parts(path, T)
  BY PathParts
<1>3. Inside(s, x.s, R) /\ Good(x.s)
  BY PathFacts, InsideFound DEF Inside
<1>4. CASE o \in {Out(x.s, Aborted)} \/ o \in {Out(x.s, FALSE)}
  BY <1>3, <1>4, OutIs
<1>5. CASE /\ ~Halted(x.s) /\ x.r # Nil
           /\ o \in Then(CreateNewFileWithStream(x.s, x.r, Last(path), content),
                         LAMBDA u, ok : {Out(IF ok THEN DeleteSubCache(u, x.r.id) ELSE u, ok)})
  <2>1. PICK y \in CreateNewFileWithStream(x.s, x.r, Last(path), content) :
          o \in IF Halted(y.s) THEN {Out(y.s, Aborted)}
                ELSE {Out(IF y.r THEN DeleteSubCache(y.s, x.r.id) ELSE y.s, y.r)}
    BY <1>5 DEF Then
  <2>2. OnHand(x.s, x.r) /\ Place(x.s, x.r, Front(path))
    BY <1>2, <1>5, FrontFound
  <2>3. PICK object : object = FileProperties(x.r, Last(path), content)
    OBVIOUS
  <2>4. object \in Objects /\ object.parent = x.r.id /\ object.name = Last(path)
    BY <1>3, <2>2, <2>3, NewObjects, PathFacts DEF FileProperties
  <2>5. y \in CreateObject(x.s, x.r, object)
    BY <2>1, <2>3 DEF CreateNewFileWithStream
  <2>6. Inside(x.s, y.s, R) /\ Good(y.s)
    BY <1>2, <1>3, <2>2, <2>4, <2>5, MadeInside DEF Inside
  <2>7. Inside(s, y.s, R)
    BY <1>3, <2>6, InsideOn
  <2>8. Inside(y.s, DeleteSubCache(y.s, x.r.id), R)
    BY <2>6, InsideDrop
  <2>9. Inside(s, DeleteSubCache(y.s, x.r.id), R)
    BY <2>7, <2>8, InsideOn
  <2>10. o.s = y.s \/ o.s = DeleteSubCache(y.s, x.r.id)
    BY <2>1 DEF Out
  <2> QED BY <2>7, <2>9, <2>10
<1> QED BY <1>1, <1>4, <1>5

LEMMA CreateFolderInside ==
  ASSUME NEW s, Good(s), NEW R, NEW path \in Paths, path \in R, NEW o \in CreateFolder(s, Front(path), Last(path))
  PROVE  Inside(s, o.s, R)
<1>1. PICK x \in FilePathToNode(s, Front(path)) :
        o \in IF Halted(x.s) THEN {Out(x.s, Aborted)}
              ELSE IF x.r = Nil THEN {Out(x.s, FALSE)}
              ELSE Then(CreateNewFolder(x.s, x.r, Last(path)),
                        LAMBDA u, ok : {Out(IF ok THEN DeleteSubCache(u, x.r.id) ELSE u, ok)})
  BY DEF CreateFolder, CreateIn, Then
<1>2. PICK T : Parts(path, T)
  BY PathParts
<1>3. Inside(s, x.s, R) /\ Good(x.s)
  BY PathFacts, InsideFound DEF Inside
<1>4. CASE o \in {Out(x.s, Aborted)} \/ o \in {Out(x.s, FALSE)}
  BY <1>3, <1>4, OutIs
<1>5. CASE /\ ~Halted(x.s) /\ x.r # Nil
           /\ o \in Then(CreateNewFolder(x.s, x.r, Last(path)),
                         LAMBDA u, ok : {Out(IF ok THEN DeleteSubCache(u, x.r.id) ELSE u, ok)})
  <2>1. PICK y \in CreateNewFolder(x.s, x.r, Last(path)) :
          o \in IF Halted(y.s) THEN {Out(y.s, Aborted)}
                ELSE {Out(IF y.r THEN DeleteSubCache(y.s, x.r.id) ELSE y.s, y.r)}
    BY <1>5 DEF Then
  <2>2. OnHand(x.s, x.r) /\ Place(x.s, x.r, Front(path))
    BY <1>2, <1>5, FrontFound
  <2>3. Inside(x.s, y.s, R) /\ Good(y.s)
    BY <1>2, <1>3, <2>1, <2>2, FolderInside DEF Inside
  <2>7. Inside(s, y.s, R)
    BY <1>3, <2>3, InsideOn
  <2>8. Inside(y.s, DeleteSubCache(y.s, x.r.id), R)
    BY <2>3, InsideDrop
  <2>9. Inside(s, DeleteSubCache(y.s, x.r.id), R)
    BY <2>7, <2>8, InsideOn
  <2>10. o.s = y.s \/ o.s = DeleteSubCache(y.s, x.r.id)
    BY <2>1 DEF Out
  <2> QED BY <2>7, <2>9, <2>10
<1> QED BY <1>1, <1>4, <1>5

LEMMA CreateAsFileInside ==
  ASSUME NEW s, Good(s), NEW R, NEW path \in Paths, path \in R, NEW o \in CreateAsFile(s, path)
  PROVE  Inside(s, o.s, R)
<1>1. PICK x \in FilePathToNode(s, path) :
        o \in IF Halted(x.s) THEN {Out(x.s, Aborted)}
              ELSE IF IsFile(x.r) THEN {Out(x.s, TRUE)}
              ELSE IF IsDirectory(x.r) THEN {Out(x.s, FALSE)}
              ELSE CreateFileWithStream(x.s, Front(path), Last(path), Empty)
  BY DEF CreateAsFile, CreateAs, Then, Paths
<1>2. Inside(s, x.s, R) /\ Good(x.s)
  BY PathFacts, InsideFound DEF Inside
<1>3. CASE o \in {Out(x.s, Aborted)} \/ o \in {Out(x.s, TRUE)} \/ o \in {Out(x.s, FALSE)}
  BY <1>2, <1>3, OutIs
<1>4. CASE o \in CreateFileWithStream(x.s, Front(path), Last(path), Empty)
  <2>1. Empty \in AllContents
    BY DEF AllContents
  <2>2. Inside(x.s, o.s, R)
    BY <2>1, <1>2, <1>4, CreateFileWithStreamInside
  <2> QED BY <2>2, <1>2, InsideOn
<1> QED BY <1>1, <1>3, <1>4

LEMMA CreateAsDirectoryInside ==
  ASSUME NEW s, Good(s), NEW R, NEW path \in Paths, path \in R, NEW o \in CreateAsDirectory(s, path)
  PROVE  Inside(s, o.s, R)
<1>1. PICK x \in FilePathToNode(s, path) :
        o \in IF Halted(x.s) THEN {Out(x.s, Aborted)}
              ELSE IF IsDirectory(x.r) THEN {Out(x.s, TRUE)}
              ELSE IF IsFile(x.r) THEN {Out(x.s, FALSE)}
              ELSE CreateFolder(x.s, Front(path), Last(path))
  BY DEF CreateAsDirectory, CreateAs, Then, Paths
<1>2. Inside(s, x.s, R) /\ Good(x.s)
  BY PathFacts, InsideFound DEF Inside
<1>3. CASE o \in {Out(x.s, Aborted)} \/ o \in {Out(x.s, TRUE)} \/ o \in {Out(x.s, FALSE)}
  BY <1>2, <1>3, OutIs
<1>4. CASE o \in CreateFolder(x.s, Front(path), Last(path))
  BY <1>2, <1>4, CreateFolderInside, InsideOn
<1> QED BY <1>1, <1>3, <1>4

\* What a path leads to has the name at its end, and is in what the path before it leads to.
LEMMA ParentPlace ==
  ASSUME NEW s, Good(s), NEW path, NEW T, Parts(path, T), NEW x \in FilePathToNode(s, path), ~Halted(x.s), x.r # Nil,
         NEW p, p = Parent(x.s, x.r)
  PROVE  /\ x.r.name = Last(path) /\ x.r.id \in Ids /\ p \in x.s.taken \cup {Root}
         /\ OnHand(x.s, AsDirectory(p)) /\ Place(x.s, AsDirectory(p), Front(path))
<1>1. path \in Seq(T) /\ path # <<>> /\ Len(path) \in Nat \ {0} /\ Front(path) \in Seq(T)
  BY DEF Parts
<1>2. Good(x.s) /\ Reaches(x.s.kids, path, Len(path), x.r)
  <2>1. Walked(s, path, Len(path), x)
    BY <1>1, FilePathToNodeKeeps
  <2> QED BY <2>1 DEF Walked
<1>3. PICK q : Before(x.s.kids, path, Len(path), x.r, q)
  BY <1>1, <1>2, ReachedStep
<1>4. /\ Reaches(x.s.kids, path, Len(path) - 1, q) /\ q.id \in DOMAIN x.s.kids /\ x.r \in x.s.kids[q.id]
      /\ x.r.name = path[Len(path)]
  BY <1>3 DEF Before
<1>5. PICK l \in Nat : Len(path) = l + 1
  <2>1. Len(path) - 1 \in Nat /\ Len(path) = (Len(path) - 1) + 1
    BY <1>1
  <2> QED BY <2>1
<1>6. Last(path) = path[Len(path)] /\ Front(path) = SubSeq(path, 1, l)
  BY <1>5, <1>1 DEF Front, Last
<1>7. Len(Front(path)) = l /\ \A i \in 1 .. l : Front(path)[i] = path[i]
  BY <1>1, <1>5, <1>6
<1>8. Reaches(x.s.kids, Front(path), l, q)
  <2>1. Reaches(x.s.kids, path, l, q)
    BY <1>4, <1>5
  <2>2. PICK f : Trail(x.s.kids, path, l, f) /\ f[l] = q
    BY <2>1 DEF Reaches
  <2>3. Trail(x.s.kids, Front(path), l, f)
    <3>1. ASSUME NEW i \in 1 .. l
          PROVE  /\ f[i - 1].dir /\ f[i - 1].id \in DOMAIN x.s.kids
                 /\ f[i] \in x.s.kids[f[i - 1].id] /\ f[i].name = Front(path)[i]
                 /\ f[i] = Oldest({n \in x.s.kids[f[i - 1].id] : n.name = Front(path)[i]})
      <4>1. PICK name : name = path[i] /\ name = Front(path)[i]
        BY <1>7
      <4>2. /\ f[i - 1].dir /\ f[i - 1].id \in DOMAIN x.s.kids
            /\ f[i] \in x.s.kids[f[i - 1].id] /\ f[i].name = name
            /\ f[i] = Oldest({n \in x.s.kids[f[i - 1].id] : n.name = name})
        BY <2>2, <4>1 DEF Trail
      <4> QED BY <4>1, <4>2
    <3> QED BY <3>1, <2>2 DEF Trail
  <2> QED BY <2>2, <2>3 DEF Reaches
<1>9. Place(x.s, q, Front(path))
  BY <1>1, <1>2, <1>7, <1>8, ReachedPlace
<1>10. \E i \in DOMAIN x.s.kids : x.r \in x.s.kids[i]
  BY <1>4
<1>11. p = q.id /\ OnHand(x.s, AsDirectory(p))
  BY <1>2, <1>4, <1>10, ParentIs
<1>12. AsDirectory(p).id = q.id
  BY <1>11 DEF AsDirectory
<1>13. Place(x.s, AsDirectory(p), Front(path))
  BY <1>9, <1>12 DEF Place
<1>14. x.r.id \in Ids
  <2>1. x.s.kids \in Caches
    BY <1>2 DEF Good, States
  <2>2. x.s.kids[q.id] \subseteq Nodes
    BY <2>1, <1>4, CachesType
  <2> QED BY <2>2, <1>4 DEF Nodes
<1>15. p \in x.s.taken \cup {Root}
  BY <1>11 DEF OnHand, AsDirectory
<1> QED BY <1>4, <1>6, <1>11, <1>13, <1>14, <1>15

LEMMA WriteFileInside ==
  ASSUME NEW s, Good(s), NEW R, Given(R), NEW path \in Paths, path \in R, NEW content \in AllContents,
         NEW o \in WriteFile(s, path, content)
  PROVE  Inside(s, o.s, R)
<1>1. PICK x \in FilePathToNode(s, path) :
        o \in IF Halted(x.s) THEN {Out(x.s, Aborted)}
              ELSE IF ~IsFile(x.r) THEN {Out(x.s, FALSE)}
              ELSE Then(DeleteMe(x.s, x.r), LAMBDA u, deleted :
                     IF ~deleted THEN {Out(u, FALSE)} ELSE
                     Then(CreateNewFileWithStream(DeleteSubCache(u, Parent(x.s, x.r)), AsDirectory(Parent(x.s, x.r)), x.r.name, content),
                       LAMBDA v, created :
                         Then(FilePathToNode(DeleteSubCache(v, Parent(x.s, x.r)), path), LAMBDA w, found : {Out(w, created)})))
  BY DEF WriteFile, Then, AsDirectory
<1>2. PICK T : Parts(path, T)
  BY PathParts
<1>3. Inside(s, x.s, R) /\ Good(x.s)
  BY PathFacts, InsideFound DEF Inside
<1>4. CASE o \in {Out(x.s, Aborted)} \/ o \in {Out(x.s, FALSE)}
  BY <1>3, <1>4, OutIs
<1> DEFINE p == Parent(x.s, x.r)
<1>5. p = Parent(x.s, x.r)
  OBVIOUS
<1> HIDE DEF p
<1>6. CASE /\ ~Halted(x.s) /\ IsFile(x.r)
           /\ o \in Then(DeleteMe(x.s, x.r), LAMBDA u, deleted :
                     IF ~deleted THEN {Out(u, FALSE)} ELSE
                     Then(CreateNewFileWithStream(DeleteSubCache(u, p), AsDirectory(p), x.r.name, content),
                       LAMBDA v, created :
                         Then(FilePathToNode(DeleteSubCache(v, p), path), LAMBDA w, found : {Out(w, created)})))
  <2>1. PICK y \in DeleteMe(x.s, x.r) :
          o \in IF Halted(y.s) THEN {Out(y.s, Aborted)}
                ELSE IF ~y.r THEN {Out(y.s, FALSE)} ELSE
                     Then(CreateNewFileWithStream(DeleteSubCache(y.s, p), AsDirectory(p), x.r.name, content),
                       LAMBDA v, created :
                         Then(FilePathToNode(DeleteSubCache(v, p), path), LAMBDA w, found : {Out(w, created)}))
    BY <1>6 DEF Then
  <2>2. x.r # Nil /\ ~x.r.dir
    BY <1>6 DEF IsFile
  <2>3. x.r \in Region(x.s, R)
    BY <1>6, <2>2, AtPath
  <2>4. Inside(x.s, y.s, R) /\ Good(y.s)
    BY <1>3, <2>3, DeleteMeInside DEF Inside
  <2>5. Inside(s, y.s, R)
    BY <1>3, <2>4, InsideOn
  <2>6. y.r = TRUE \/ y.r = FALSE
    <3>1. y \in DeleteObject(x.s, x.r.id)
      BY <2>1, <2>2 DEF DeleteMe
    <3> QED BY <3>1, <1>3, DeleteObjectKeeps
  <2>7. CASE o \in {Out(y.s, Aborted)} \/ o \in {Out(y.s, FALSE)}
    BY <2>5, <2>7, OutIs
  <2>8. CASE ~Halted(y.s) /\ y.r = TRUE
    <3>1. PICK t : t = DeleteSubCache(y.s, p)
      OBVIOUS
    <3>2. PICK d : d = AsDirectory(p)
      OBVIOUS
    <3>3. PICK z \in CreateNewFileWithStream(t, d, x.r.name, content) :
            o \in IF Halted(z.s) THEN {Out(z.s, Aborted)}
                  ELSE Then(FilePathToNode(DeleteSubCache(z.s, p), path), LAMBDA w, found : {Out(w, z.r)})
      <4>1. o \in Then(CreateNewFileWithStream(t, d, x.r.name, content),
                       LAMBDA v, created :
                         Then(FilePathToNode(DeleteSubCache(v, p), path), LAMBDA w, found : {Out(w, created)}))
        BY <2>1, <2>8, <3>1, <3>2
      <4> QED BY <4>1 DEF Then
    <3>4. Inside(y.s, t, R)
      BY <2>4, <3>1, InsideDrop
    <3>5. Inside(x.s, t, R) /\ Inside(s, t, R) /\ Good(t)
      BY <3>4, <1>3, <2>4, <2>5, InsideOn DEF Inside
    <3>6. x.r.name = Last(path) /\ p \in x.s.taken \cup {Root} /\ OnHand(x.s, d) /\ Place(x.s, d, Front(path))
      BY <1>2, <1>5, <1>6, <2>2, <3>2, ParentPlace
    <3>7. d.id \in x.s.taken \cup {Root} /\ Front(path) \in Seq(T)
      BY <3>2, <3>6, <1>2 DEF AsDirectory, Parts
    <3>8. OnHand(t, d) /\ Place(t, d, Front(path))
      BY <1>3, <3>5, <3>6, <3>7, OnHandLater, PlaceLater DEF Inside
    <3>9. PICK object : object = FileProperties(d, Last(path), content)
      OBVIOUS
    <3>10. object \in Objects /\ object.parent = d.id /\ object.name = Last(path)
      BY <3>5, <3>8, <3>9, NewObjects, PathFacts DEF FileProperties
    <3>11. z \in CreateObject(t, d, object)
      BY <3>3, <3>6, <3>9 DEF CreateNewFileWithStream
    <3>12. Inside(t, z.s, R) /\ Good(z.s)
      BY <1>2, <3>5, <3>8, <3>10, <3>11, MadeInside DEF Inside
    <3>13. Inside(s, z.s, R)
      BY <3>5, <3>12, InsideOn
    <3>14. CASE o \in {Out(z.s, Aborted)}
      BY <3>13, <3>14, OutIs
    <3>15. CASE ~Halted(z.s)
      <4>1. PICK a : a = DeleteSubCache(z.s, p)
        OBVIOUS
      <4>2. o \in Then(FilePathToNode(a, path), LAMBDA w, found : {Out(w, z.r)})
        BY <3>3, <3>15, <4>1
      <4>3. PICK w \in FilePathToNode(a, path) : o \in IF Halted(w.s) THEN {Out(w.s, Aborted)} ELSE {Out(w.s, z.r)}
        BY <4>2 DEF Then
      <4>4. o.s = w.s
        BY <4>3, OutIs
      <4>5. Inside(z.s, a, R) /\ Good(a)
        BY <3>12, <4>1, InsideDrop DEF Inside
      <4>6. Inside(a, w.s, R)
        BY <4>5, PathFacts, InsideFound
      <4>7. Inside(s, a, R)
        BY <3>13, <4>5, InsideOn
      <4> QED BY <4>4, <4>6, <4>7, InsideOn
    <3> QED BY <3>3, <3>14, <3>15, Zenon
  <2> QED BY <2>1, <2>6, <2>7, <2>8, Zenon
<1> QED BY <1>1, <1>4, <1>6 DEF p, IsFile

\* The device as such an operation leaves it, even when it then uses a node it freed.
Leaves(s, t, R) == \E u : Inside(s, u, R) /\ t.dev = u.dev

LEMMA LeavesInside ==
  ASSUME NEW s, NEW R, NEW u, Inside(s, u, R), NEW t, t.dev = u.dev
  PROVE  Leaves(s, t, R)
BY DEF Leaves

LEMMA LeavesOn ==
  ASSUME NEW s, Good(s), NEW R, NEW t, Inside(s, t, R), NEW u, Leaves(t, u, R)
  PROVE  Leaves(s, u, R)
BY InsideOn DEF Leaves

\* Deleting what was copied, and the listings.
LEMMA DroppedInside ==
  ASSUME NEW s, Good(s), NEW R, Given(R), NEW node \in Region(s, R), NEW i, NEW j, NEW z \in DeleteMe(s, node),
         NEW o, o.s = z.s \/ o.s = DeleteSubCaches(z.s, i, j)
  PROVE  Leaves(s, o.s, R)
<1>1. Inside(s, z.s, R) /\ Good(z.s)
  BY DeleteMeInside DEF Inside
<1>2. Dropped(z.s, i, j, DeleteSubCaches(z.s, i, j))
  BY <1>1, DeleteSubCachesDrops
<1>3. o.s.dev = z.s.dev
  BY <1>2 DEF Dropped
<1> QED BY <1>1, <1>3, LeavesInside

LEMMA MoveFileInside ==
  ASSUME NEW w, Good(w), NEW R, Given(R), NEW path \in Paths, path \in R, NEW T, Parts(path, T),
         NEW node \in Region(w, R), NEW base, OnHand(w, base), Place(w, base, Front(path)),
         NEW o \in MoveFile(w, node, base, Last(path))
  PROVE  Leaves(w, o.s, R)
<1> DEFINE p == Parent(w, node)
<1>1. PICK x \in CopyFile(w, node, base, Last(path)) :
        o \in IF Halted(x.s) THEN {Out(x.s, Aborted)}
              ELSE IF ~x.r THEN {Out(x.s, FALSE)}
              ELSE Then(DeleteMe(x.s, node), LAMBDA u, ignored : {Out(DeleteSubCaches(u, base.id, p), TRUE)})
  BY DEF MoveFile, Then
<1> HIDE DEF p
<1>2. Last(path) \in AllNames
  BY PathFacts
<1>3. Copies(w, node, base, Last(path), x)
  BY <1>2, CopyFileKeeps
<1>4. /\ Good(x.s) /\ Later(w, x.s)
      /\ x.s.dev = w.dev \/ Copied(w, x, node, base, Last(path))
      /\ Halted(x.s) \/ x.r = TRUE \/ x.r = FALSE
  BY <1>3 DEF Copies
<1>5. Local(w, x.s, R)
  <2>1. CASE x.s.dev = w.dev
    BY <2>1, SameLocal
  <2>2. CASE x.s.dev # w.dev
    <3>1. PICK i \in Ids \ w.taken : \E content : x.s.dev = Put(w.dev, i, FileProperties(base, Last(path), content))
      BY <1>4, <2>2 DEF Copied
    <3>2. PICK object : x.s.dev = Put(w.dev, i, object) /\ object.parent = base.id /\ object.name = Last(path)
      BY <3>1 DEF FileProperties
    <3>3. Front(path) \in Seq(T) /\ Last(path) \in T /\ Append(Front(path), Last(path)) \in R
      BY DEF Parts
    <3> QED BY <3>2, <3>3, <1>4, MadeAt
  <2> QED BY <2>1, <2>2
<1>6. Inside(w, x.s, R)
  BY <1>4, <1>5 DEF Inside
<1>7. CASE o \in {Out(x.s, Aborted)} \/ o \in {Out(x.s, FALSE)}
  <2>1. o.s = x.s
    BY <1>7, OutIs
  <2> QED BY <2>1, <1>6, LeavesInside
<1>8. CASE o \in Then(DeleteMe(x.s, node), LAMBDA u, ignored : {Out(DeleteSubCaches(u, base.id, p), TRUE)})
  <2>1. PICK y \in DeleteMe(x.s, node) :
          o \in IF Halted(y.s) THEN {Out(y.s, Aborted)} ELSE {Out(DeleteSubCaches(y.s, base.id, p), TRUE)}
    BY <1>8 DEF Then
  <2>2. o.s = y.s \/ o.s = DeleteSubCaches(y.s, base.id, p)
    <3>1. o \in {Out(y.s, Aborted)} \/ o \in {Out(DeleteSubCaches(y.s, base.id, p), TRUE)}
      BY <2>1, Zenon
    <3> QED BY <3>1 DEF Out
  <2>3. node \in Region(x.s, R)
    BY <1>4, RegionLater
  <2>4. Leaves(x.s, o.s, R)
    BY <1>4, <2>1, <2>2, <2>3, DroppedInside
  <2> QED BY <1>6, <2>4, LeavesOn
<1> QED BY <1>1, <1>4, <1>7, <1>8, Zenon

LEMMA MoveDirectoryInside ==
  ASSUME NEW w, Good(w), NEW R, Given(R), NEW path \in Paths, path \in R, NEW T, Parts(path, T),
         NEW node \in Region(w, R), node.dir, NEW base, OnHand(w, base), Place(w, base, Front(path)),
         NEW o \in MoveDirectory(w, node, base, path)
  PROVE  Leaves(w, o.s, R)
<1> DEFINE p == Parent(w, node)
           Rest(t) == Then(FilePathToNode(t, path), LAMBDA u, folder :
                IF folder = Nil THEN {Out(u, FALSE)} ELSE
                Then(CopyAll(u, node, folder, path), LAMBDA v, ok :
                  IF ~ok THEN {Out(DeleteSubCache(DeleteSubCache(v, node.id), base.id), FALSE)} ELSE
                  Then(DeleteMe(v, node), LAMBDA z, ignored : {Out(DeleteSubCaches(z, p, base.id), TRUE)})))
<1>0. o \in Then(CreateNewFolder(w, base, Last(path)), LAMBDA t, created :
              IF ~created THEN {Out(t, FALSE)} ELSE Rest(t))
  BY DEF MoveDirectory
<1> HIDE DEF p
<1>1. PICK x \in CreateNewFolder(w, base, Last(path)) :
        o \in IF Halted(x.s) THEN {Out(x.s, Aborted)} ELSE IF ~x.r THEN {Out(x.s, FALSE)} ELSE Rest(x.s)
  <2> HIDE DEF Rest
  <2> QED BY <1>0 DEF Then
<1>2. Inside(w, x.s, R) /\ Good(x.s) /\ Later(w, x.s)
  BY FolderInside DEF Inside
<1>3. CASE o \in {Out(x.s, Aborted)} \/ o \in {Out(x.s, FALSE)}
  <2>1. o.s = x.s
    BY <1>3 DEF Out
  <2> QED BY <2>1, <1>2, LeavesInside
<1>4. CASE o \in Rest(x.s)
  <2>1. PICK y \in FilePathToNode(x.s, path) :
          o \in IF Halted(y.s) THEN {Out(y.s, Aborted)}
                ELSE IF y.r = Nil THEN {Out(y.s, FALSE)} ELSE
                Then(CopyAll(y.s, node, y.r, path), LAMBDA v, ok :
                  IF ~ok THEN {Out(DeleteSubCache(DeleteSubCache(v, node.id), base.id), FALSE)} ELSE
                  Then(DeleteMe(v, node), LAMBDA z, ignored : {Out(DeleteSubCaches(z, p, base.id), TRUE)}))
    BY <1>4 DEF Then
  <2>2. Inside(x.s, y.s, R) /\ Good(y.s) /\ Later(x.s, y.s)
    BY <1>2, PathFacts, InsideFound DEF Inside
  <2>3. Inside(w, y.s, R) /\ Later(w, y.s)
    BY <1>2, <2>2, InsideOn DEF Inside
  <2>4. CASE o \in {Out(y.s, Aborted)} \/ o \in {Out(y.s, FALSE)}
    <3>1. o.s = y.s
      BY <2>4 DEF Out
    <3> QED BY <3>1, <2>3, LeavesInside
  <2>5. CASE /\ ~Halted(y.s) /\ y.r # Nil
             /\ o \in Then(CopyAll(y.s, node, y.r, path), LAMBDA v, ok :
                  IF ~ok THEN {Out(DeleteSubCache(DeleteSubCache(v, node.id), base.id), FALSE)} ELSE
                  Then(DeleteMe(v, node), LAMBDA z, ignored : {Out(DeleteSubCaches(z, p, base.id), TRUE)}))
    <3>1. y.r \in Region(y.s, R)
      BY <1>2, <2>1, <2>5, AtPath
    <3>2. node \in Region(y.s, R)
      BY <2>2, <2>3, RegionLater
    <3>3. PICK v \in CopyAll(y.s, node, y.r, path) :
            o \in IF Halted(v.s) THEN {Out(v.s, Aborted)}
                  ELSE IF ~v.r THEN {Out(DeleteSubCache(DeleteSubCache(v.s, node.id), base.id), FALSE)} ELSE
                  Then(DeleteMe(v.s, node), LAMBDA z, ignored : {Out(DeleteSubCaches(z, p, base.id), TRUE)})
      BY <2>5 DEF Then
    <3>4. path \in Seq(T) /\ IsPrefix(path, path)
      BY PrefixSelf DEF Parts
    <3>5. Local(y.s, v.s, R)
      BY <2>2, <3>1, <3>2, <3>3, <3>4, CopyAllUnder
    <3>6. Good(v.s) /\ Later(y.s, v.s)
      BY <2>2, <3>1, <3>2, <3>3, <3>4, CopyAllKeeps DEF Region, Hand
    <3>7. Inside(y.s, v.s, R)
      BY <3>5, <3>6 DEF Inside
    <3>8. Inside(w, v.s, R) /\ Later(w, v.s)
      BY <2>3, <3>7, InsideOn DEF Inside
    <3>9. CASE o \in {Out(v.s, Aborted)}
      BY <3>8, <3>9, OutIs, LeavesInside
    <3>10. CASE o \in {Out(DeleteSubCache(DeleteSubCache(v.s, node.id), base.id), FALSE)}
      <4>1. o.s = DeleteSubCache(DeleteSubCache(v.s, node.id), base.id)
        BY <3>10, OutIs
      <4>2. PICK t : t = DeleteSubCache(v.s, node.id)
        OBVIOUS
      <4>3. Good(t) /\ t.dev = v.s.dev
        BY <3>6, <4>2, DeleteSubCacheKeeps
      <4>4. o.s = DeleteSubCache(t, base.id)
        BY <4>1, <4>2
      <4>5. o.s.dev = v.s.dev
        BY <4>3, <4>4, DeleteSubCacheKeeps
      <4> QED BY <4>5, <3>8, LeavesInside
    <3>11. CASE o \in Then(DeleteMe(v.s, node), LAMBDA z, ignored : {Out(DeleteSubCaches(z, p, base.id), TRUE)})
      <4>1. PICK z \in DeleteMe(v.s, node) :
              o \in IF Halted(z.s) THEN {Out(z.s, Aborted)} ELSE {Out(DeleteSubCaches(z.s, p, base.id), TRUE)}
        BY <3>11 DEF Then
      <4>2. o.s = z.s \/ o.s = DeleteSubCaches(z.s, p, base.id)
        <5>1. o \in {Out(z.s, Aborted)} \/ o \in {Out(DeleteSubCaches(z.s, p, base.id), TRUE)}
          BY <4>1, Zenon
        <5> QED BY <5>1 DEF Out
      <4>3. node \in Region(v.s, R)
        BY <3>6, <3>8, RegionLater
      <4>4. Leaves(v.s, o.s, R)
        BY <3>6, <4>1, <4>2, <4>3, DroppedInside
      <4> QED BY <3>8, <4>4, LeavesOn
    <3> QED BY <3>3, <3>9, <3>10, <3>11, Zenon
  <2> QED BY <2>1, <2>4, <2>5
<1> HIDE DEF Rest
<1> QED BY <1>1, <1>3, <1>4, Zenon

LEMMA MoveNodeInside ==
  ASSUME NEW s, Good(s), NEW R, Given(R), NEW old \in Paths, old \in R, NEW new \in Paths, new \in R,
         NEW o \in MoveNode(s, old, new)
  PROVE  Leaves(s, o.s, R)
<1> DEFINE Last2(w, n, m, base) ==
             IF m # Nil \/ base = Nil THEN {Out(w, FALSE)}
             ELSE IF n.dir THEN MoveDirectory(w, n, base, new) ELSE MoveFile(w, n, base, Last(new))
           Third(v, n, m) == Then(FilePathToNode(v, Front(new)), LAMBDA w, base : Last2(w, n, m, base))
           Second(u, n, m) == IF n = Nil \/ m # Nil THEN {Out(u, FALSE)} ELSE
                              Then(FilePathToNode(u, new), LAMBDA v, m2 : Third(v, n, m2))
           First(t, n) == Then(FilePathToNode(t, new), LAMBDA u, m : Second(u, n, m))
<1>0. o \in Then(FilePathToNode(s, old), LAMBDA t, n : First(t, n))
  BY DEF MoveNode
<1>1. PICK x \in FilePathToNode(s, old) : o \in IF Halted(x.s) THEN {Out(x.s, Aborted)} ELSE First(x.s, x.r)
  <2> HIDE DEF First
  <2> QED BY <1>0 DEF Then
<1>2. Len(old) \in Nat /\ Len(new) \in Nat /\ Len(Front(new)) \in Nat
  BY PathFacts
<1>3. Inside(s, x.s, R) /\ Good(x.s)
  BY <1>2, InsideFound DEF Inside
<1>4. ASSUME NEW t, Inside(s, t, R), NEW r, o \in {Out(t, r)}
      PROVE  Leaves(s, o.s, R)
  <2>1. o.s = t
    BY <1>4 DEF Out
  <2> QED BY <2>1, <1>4, LeavesInside
<1>5. PICK T : Parts(new, T)
  BY PathParts
<1>6. CASE ~Halted(x.s)
  <2>0. o \in First(x.s, x.r)
    BY <1>1, <1>6, Zenon
  <2>1. PICK y \in FilePathToNode(x.s, new) : o \in IF Halted(y.s) THEN {Out(y.s, Aborted)} ELSE Second(y.s, x.r, y.r)
    <3> HIDE DEF Second
    <3> QED BY <2>0 DEF Then
  <2>2. Inside(x.s, y.s, R) /\ Good(y.s)
    BY <1>2, <1>3, InsideFound DEF Inside
  <2>3. Inside(s, y.s, R)
    BY <1>3, <2>2, InsideOn
  <2>4. CASE o \in {Out(y.s, Aborted)} \/ o \in {Out(y.s, FALSE)}
    <3>1. CASE o \in {Out(y.s, Aborted)}
      BY <2>3, <3>1, <1>4
    <3>2. CASE o \in {Out(y.s, FALSE)}
      <4>1. o.s = y.s
        BY <3>2 DEF Out
      <4> QED BY <4>1, <2>3, LeavesInside
    <3> QED BY <2>4, <3>1, <3>2
  <2>5. CASE x.r # Nil /\ o \in Then(FilePathToNode(y.s, new), LAMBDA v, m2 : Third(v, x.r, m2))
    <3>1. PICK v \in FilePathToNode(y.s, new) : o \in IF Halted(v.s) THEN {Out(v.s, Aborted)} ELSE Third(v.s, x.r, v.r)
      <4> HIDE DEF Third
      <4> QED BY <2>5 DEF Then
    <3>2. Inside(y.s, v.s, R) /\ Good(v.s)
      BY <1>2, <2>2, InsideFound DEF Inside
    <3>3. Inside(s, v.s, R)
      BY <1>3, <2>3, <3>2, InsideOn
    <3>4. CASE o \in {Out(v.s, Aborted)}
      BY <3>3, <3>4, <1>4
    <3>5. CASE o \in Third(v.s, x.r, v.r)
      <4>1. PICK w \in FilePathToNode(v.s, Front(new)) :
              o \in IF Halted(w.s) THEN {Out(w.s, Aborted)} ELSE Last2(w.s, x.r, v.r, w.r)
        <5> HIDE DEF Last2
        <5> QED BY <3>5 DEF Then
      <4>2. Inside(v.s, w.s, R) /\ Good(w.s)
        BY <1>2, <3>2, InsideFound DEF Inside
      <4>3. Inside(s, w.s, R)
        BY <1>3, <3>3, <4>2, InsideOn
      <4>4. CASE o \in {Out(w.s, Aborted)} \/ o \in {Out(w.s, FALSE)}
        <5>1. CASE o \in {Out(w.s, Aborted)}
          BY <4>3, <5>1, <1>4
        <5>2. CASE o \in {Out(w.s, FALSE)}
          <6>1. o.s = w.s
            BY <5>2 DEF Out
          <6> QED BY <6>1, <4>3, LeavesInside
        <5> QED BY <4>4, <5>1, <5>2
      <4>5. CASE /\ ~Halted(w.s) /\ w.r # Nil
                 /\ o \in IF x.r.dir THEN MoveDirectory(w.s, x.r, w.r, new) ELSE MoveFile(w.s, x.r, w.r, Last(new))
        <5>1. x.r \in Region(x.s, R)
          BY <1>6, <2>5, AtPath
        <5>2. Inside(x.s, v.s, R)
          BY <1>3, <2>2, <3>2, InsideOn
        <5>3. Inside(x.s, w.s, R)
          BY <1>3, <4>2, <5>2, InsideOn
        <5>4. x.r \in Region(w.s, R)
          BY <1>3, <4>2, <5>1, <5>3, RegionLater DEF Inside
        <5>5. OnHand(w.s, w.r) /\ Place(w.s, w.r, Front(new))
          BY <1>5, <3>2, <4>1, <4>5, FrontFound
        <5>6. x.r.dir \in BOOLEAN
          BY <5>4 DEF Region, Hand, Nodes
        <5>7. CASE x.r.dir
          <6>1. o \in MoveDirectory(w.s, x.r, w.r, new)
            BY <4>5, <5>7
          <6>2. Leaves(w.s, o.s, R)
            BY <6>1, <1>5, <4>2, <5>4, <5>5, <5>7, MoveDirectoryInside
          <6> QED BY <6>2, <4>3, LeavesOn
        <5>8. CASE ~x.r.dir
          <6>1. o \in MoveFile(w.s, x.r, w.r, Last(new))
            BY <4>5, <5>8
          <6>2. Leaves(w.s, o.s, R)
            BY <6>1, <1>5, <4>2, <5>4, <5>5, MoveFileInside
          <6> QED BY <6>2, <4>3, LeavesOn
        <5> QED BY <5>6, <5>7, <5>8
      <4>6. CASE Halted(w.s)
        <5>1. o \in {Out(w.s, Aborted)}
          BY <4>1, <4>6, Zenon
        <5> QED BY <5>1, <4>4
      <4> QED BY <4>1, <4>4, <4>5, <4>6
    <3> HIDE DEF Third
    <3> QED BY <3>1, <3>4, <3>5, Zenon
  <2> QED BY <2>1, <2>4, <2>5
<1>7. CASE Halted(x.s)
  <2>1. o \in {Out(x.s, Aborted)}
    BY <1>1, <1>7, Zenon
  <2> QED BY <2>1, <1>3, <1>4
<1> QED BY <1>6, <1>7

-----------------------------------------------------------------------------
(* What the views of the device then differ in.                            *)

\* What two devices differ in lies at or under the paths.
Confined(d, e, R) ==
  \A x \in (View(d) \ View(e)) \cup (View(e) \ View(d)) : \E r \in R : IsPrefix(r, x.path)

\* An entry that only one of two devices has.
LEMMA OneSided ==
  ASSUME NEW d \in Devices, Rooted(d), Parented(d), Root \notin DOMAIN d,
         NEW e \in Devices, Rooted(e), Parented(e),
         \A j \in DOMAIN d : j \in DOMAIN e => e[j] = d[j],
         NEW R, \A i \in DOMAIN d \ DOMAIN e : Lies(d, i, R), NEW x \in View(d) \ View(e)
  PROVE  \E r \in R : IsPrefix(r, x.path)
<1>1. Entry(d, x)
  BY ViewIs
<1>2. PICK i \in DOMAIN d : \E p \in Seq(AllNames) : Links(d, Root, i, p) /\ x = [path |-> p, content |-> d[i].content]
  BY <1>1 DEF Entry
<1>3. PICK p \in Seq(AllNames) : Links(d, Root, i, p) /\ x = [path |-> p, content |-> d[i].content]
  BY <1>2
<1>4. i \notin DOMAIN e
  <2>1. SUFFICES ASSUME i \in DOMAIN e PROVE FALSE
    OBVIOUS
  <2>2. \A j \in DOMAIN e : j \in DOMAIN d => d[j] = e[j]
    OBVIOUS
  <2>3. Links(e, Root, i, p)
    BY <2>1, <2>2, <1>3, LinksKeep
  <2>4. x = [path |-> p, content |-> e[i].content]
    BY <2>1, <1>3
  <2>5. Entry(e, x)
    BY <2>1, <2>3, <2>4 DEF Entry
  <2> QED BY <2>5, ViewIs
<1>5. PICK q \in Seq(AllNames) : Links(d, Root, i, q) /\ \E r \in R : IsPrefix(r, q)
  BY <1>4 DEF Lies
<1>6. p = q
  BY <1>3, <1>5, LinksOnce
<1>7. x.path = q
  BY <1>3, <1>6
<1> QED BY <1>5, <1>7

LEMMA LeavesConfined ==
  ASSUME NEW s, Good(s), NEW R, NEW t, Leaves(s, t, R)
  PROVE  Confined(s.dev, t.dev, R)
<1>1. PICK u : Inside(s, u, R) /\ t.dev = u.dev
  BY DEF Leaves
<1>2. Good(u) /\ Later(s, u) /\ Local(s, u, R)
  BY <1>1 DEF Inside
<1>3. s.dev \in Devices /\ Parented(s.dev) /\ Rooted(s.dev) /\ Root \notin DOMAIN s.dev
  BY GoodDevice
<1>4. u.dev \in Devices /\ Parented(u.dev) /\ Rooted(u.dev) /\ Root \notin DOMAIN u.dev
  BY <1>2, GoodDevice
<1>5. \A j \in DOMAIN s.dev : j \in DOMAIN u.dev => u.dev[j] = s.dev[j]
  BY <1>2, SharedSame
<1>6. \A x \in View(s.dev) \ View(u.dev) : \E r \in R : IsPrefix(r, x.path)
  <2>1. \A i \in DOMAIN s.dev \ DOMAIN u.dev : Lies(s.dev, i, R)
    BY <1>2 DEF Local
  <2> QED BY <2>1, <1>3, <1>4, <1>5, OneSided
<1>7. \A x \in View(u.dev) \ View(s.dev) : \E r \in R : IsPrefix(r, x.path)
  <2>1. \A i \in DOMAIN u.dev \ DOMAIN s.dev : Lies(u.dev, i, R)
    BY <1>2 DEF Local
  <2>2. \A j \in DOMAIN u.dev : j \in DOMAIN s.dev => s.dev[j] = u.dev[j]
    BY <1>5
  <2> QED BY <2>1, <2>2, <1>3, <1>4, OneSided
<1> QED BY <1>1, <1>6, <1>7 DEF Confined

-----------------------------------------------------------------------------
(* Renaming: what lies under the object is under the old path and then     *)
(* under the new one.                                                      *)

\* An object that a chain passes through is at the beginning of its names, once.
LEMMA ChainThrough ==
  ASSUME NEW d, Root \notin DOMAIN d, NEW T, NEW p \in Seq(T), NEW f, Descent(d, Root, p, f), NEW j \in 1 .. Len(p)
  PROVE  /\ SubSeq(p, 1, j) \in Seq(T) /\ Links(d, Root, f[j], SubSeq(p, 1, j)) /\ IsPrefix(SubSeq(p, 1, j), p)
         /\ \A k \in 1 .. j - 1 : f[k] # f[j]
<1>0. Len(p) \in Nat
  OBVIOUS
<1>1. ASSUME NEW k \in 1 .. Len(p)
      PROVE  /\ SubSeq(p, 1, k) \in Seq(T) /\ Len(SubSeq(p, 1, k)) = k
             /\ \A i \in 1 .. k : SubSeq(p, 1, k)[i] = p[i]
             /\ Links(d, Root, f[k], SubSeq(p, 1, k))
  <2>1. k \in Nat /\ k <= Len(p)
    BY <1>0
  <2>2. SubSeq(p, 1, k) \in Seq(T) /\ Len(SubSeq(p, 1, k)) = k /\ \A i \in 1 .. k : SubSeq(p, 1, k)[i] = p[i]
    BY <2>1
  <2>3. \A i \in 1 .. k : i \in 1 .. Len(p)
    BY <2>1, <1>0
  <2>4. Descent(d, Root, SubSeq(p, 1, k), f)
    BY <2>2, <2>3 DEF Descent
  <2> QED BY <2>2, <2>4 DEF Links
<1>2. IsPrefix(SubSeq(p, 1, j), p)
  <2>1. Len(SubSeq(p, 1, j)) = j /\ j <= Len(p) /\ SubSeq(p, 1, j) \in Seq(T)
    BY <1>0, <1>1
  <2>2. Agrees(SubSeq(p, 1, j), p, Len(SubSeq(p, 1, j)))
    BY <1>1, <2>1 DEF Agrees
  <2> QED BY <2>1, <2>2, PrefixIs
<1>3. ASSUME NEW k \in 1 .. j - 1, f[k] = f[j]
      PROVE  FALSE
  <2>1. k \in 1 .. Len(p) /\ k # j
    BY <1>0
  <2>2. /\ SubSeq(p, 1, k) \in Seq(T) /\ Len(SubSeq(p, 1, k)) = k /\ Links(d, Root, f[j], SubSeq(p, 1, k))
    BY <1>1, <1>3, <2>1
  <2>3. /\ SubSeq(p, 1, j) \in Seq(T) /\ Len(SubSeq(p, 1, j)) = j /\ Links(d, Root, f[j], SubSeq(p, 1, j))
    BY <1>1
  <2>4. SubSeq(p, 1, k) = SubSeq(p, 1, j)
    BY <2>2, <2>3, LinksOnce
  <2> QED BY <2>1, <2>2, <2>3, <2>4
<1> QED BY <1>1, <1>2, <1>3

\* A device on which one object has another name.
OtherName(d, e, m) ==
  /\ m \in DOMAIN d /\ DOMAIN e = DOMAIN d /\ e[m].parent = d[m].parent
  /\ \A j \in DOMAIN d : e[j].content = d[j].content
  /\ \A j \in DOMAIN d : j # m => e[j] = d[j]

LEMMA OtherNameBack ==
  ASSUME NEW d, NEW e, NEW m, OtherName(d, e, m)
  PROVE  OtherName(e, d, m)
BY DEF OtherName

\* A chain that does not pass through the object.
LEMMA ChainAround ==
  ASSUME NEW d, NEW e, NEW m, OtherName(d, e, m), NEW T, NEW p \in Seq(T), NEW f, Descent(d, Root, p, f),
         \A k \in 1 .. Len(p) : f[k] # m
  PROVE  Descent(e, Root, p, f)
BY DEF OtherName, Descent

\* An entry that has gone or come lies under the object.
LEMMA OtherNameEntry ==
  ASSUME NEW d \in Devices, Rooted(d), Parented(d), Root \notin DOMAIN d,
         NEW e \in Devices, Rooted(e), Parented(e), NEW m, OtherName(d, e, m), NEW x \in View(d) \ View(e)
  PROVE  \E p \in Seq(AllNames) : \E f : \E j \in 1 .. Len(p) : x.path = p /\ Descent(d, Root, p, f) /\ f[j] = m
<1>1. Entry(d, x)
  BY ViewIs
<1>2. PICK i \in DOMAIN d : \E p \in Seq(AllNames) : Links(d, Root, i, p) /\ x = [path |-> p, content |-> d[i].content]
  BY <1>1 DEF Entry
<1>3. PICK p \in Seq(AllNames) : Links(d, Root, i, p) /\ x = [path |-> p, content |-> d[i].content]
  BY <1>2
<1>4. PICK f : Descent(d, Root, p, f) /\ f[Len(p)] = i
  BY <1>3 DEF Links
<1>5. \E j \in 1 .. Len(p) : f[j] = m
  <2>1. SUFFICES ASSUME \A j \in 1 .. Len(p) : f[j] # m PROVE FALSE
    OBVIOUS
  <2>2. Descent(e, Root, p, f)
    BY <2>1, <1>4, ChainAround
  <2>3. Links(e, Root, i, p)
    BY <2>2, <1>4 DEF Links
  <2>4. i \in DOMAIN e /\ e[i].content = d[i].content
    BY DEF OtherName
  <2>5. x = [path |-> p, content |-> e[i].content]
    BY <2>4, <1>3
  <2>6. Entry(e, x)
    BY <2>3, <2>4, <2>5 DEF Entry
  <2> QED BY <2>6, ViewIs
<1>6. x.path = p
  BY <1>3
<1> QED BY <1>4, <1>5, <1>6

LEMMA OtherNameConfined ==
  ASSUME NEW d \in Devices, Rooted(d), Parented(d), Root \notin DOMAIN d,
         NEW e \in Devices, Rooted(e), Parented(e), Root \notin DOMAIN e,
         NEW m, OtherName(d, e, m), NEW path, NEW T, Parts(path, T), Links(d, Root, m, path),
         NEW to, NEW U, Parts(to, U), Front(to) = Front(path), e[m].name = Last(to)
  PROVE  Confined(d, e, {path, to})
<1>1. ASSUME NEW x \in View(d) \ View(e)
      PROVE  IsPrefix(path, x.path)
  <2>1. PICK p \in Seq(AllNames) : \E f : \E j \in 1 .. Len(p) : x.path = p /\ Descent(d, Root, p, f) /\ f[j] = m
    BY OtherNameEntry
  <2>2. PICK f : \E j \in 1 .. Len(p) : x.path = p /\ Descent(d, Root, p, f) /\ f[j] = m
    BY <2>1
  <2>3. PICK j \in 1 .. Len(p) : x.path = p /\ Descent(d, Root, p, f) /\ f[j] = m
    BY <2>2
  <2>4. SubSeq(p, 1, j) \in Seq(AllNames) /\ Links(d, Root, m, SubSeq(p, 1, j)) /\ IsPrefix(SubSeq(p, 1, j), p)
    BY <2>3, ChainThrough
  <2>5. path \in Seq(T)
    BY DEF Parts
  <2>6. SubSeq(p, 1, j) = path
    BY <2>4, <2>5, LinksOnce
  <2> QED BY <2>3, <2>4, <2>6
<1>2. ASSUME NEW x \in View(e) \ View(d)
      PROVE  IsPrefix(to, x.path)
  <2>0. OtherName(e, d, m)
    BY OtherNameBack
  <2>1. PICK p \in Seq(AllNames) : \E f : \E j \in 1 .. Len(p) : x.path = p /\ Descent(e, Root, p, f) /\ f[j] = m
    BY <2>0, OtherNameEntry
  <2>2. PICK f : \E j \in 1 .. Len(p) : x.path = p /\ Descent(e, Root, p, f) /\ f[j] = m
    BY <2>1
  <2>3. PICK j \in 1 .. Len(p) : x.path = p /\ Descent(e, Root, p, f) /\ f[j] = m
    BY <2>2
  <2>4. /\ SubSeq(p, 1, j) \in Seq(AllNames) /\ IsPrefix(SubSeq(p, 1, j), p)
        /\ \A k \in 1 .. j - 1 : f[k] # m
    BY <2>3, ChainThrough
  <2>5. PICK l \in Nat : j = l + 1
    <3>1. j - 1 \in Nat /\ j = (j - 1) + 1
      OBVIOUS
    <3> QED BY <3>1
  <2>6. l <= Len(p) /\ Len(p) \in Nat
    BY <2>5
  <2> DEFINE q == SubSeq(p, 1, l)
  <2>7. q \in Seq(AllNames) /\ Len(q) = l /\ \A k \in 1 .. l : q[k] = p[k]
    BY <2>6
  <2>8. SubSeq(p, 1, j) = Append(q, p[j])
    BY <2>5, <2>6
  <2> HIDE DEF q
  <2>9. Descent(e, Root, q, f)
    <3>1. \A k \in 1 .. l : k \in 1 .. Len(p)
      BY <2>6
    <3> QED BY <2>3, <2>7, <3>1 DEF Descent
  <2>10. Descent(d, Root, q, f)
    <3>1. \A k \in 1 .. Len(q) : f[k] # m
      BY <2>4, <2>5, <2>7
    <3> QED BY <2>0, <2>7, <2>9, <3>1, ChainAround
  <2>11. f[l] = d[m].parent /\ p[j] = Last(to)
    <3>1. j - 1 = l
      BY <2>5
    <3>2. e[f[j]].parent = f[j - 1] /\ e[f[j]].name = p[j]
      BY <2>3 DEF Descent
    <3> QED BY <2>3, <3>1, <3>2 DEF OtherName
  <2>12. Links(d, Root, d[m].parent, q)
    BY <2>7, <2>10, <2>11 DEF Links
  <2>13. Links(d, Root, d[m].parent, Front(path)) /\ Front(path) \in Seq(T)
    BY LinksLast DEF Parts
  <2>14. q = Front(path)
    BY <2>7, <2>12, <2>13, LinksOnce
  <2>15. Append(Front(to), Last(to)) = to
    BY DEF Parts
  <2>16. SubSeq(p, 1, j) = to
    BY <2>8, <2>11, <2>14, <2>15
  <2> QED BY <2>3, <2>4, <2>16
<1> QED BY <1>1, <1>2 DEF Confined

LEMMA SetValuesDevice ==
  ASSUME NEW s, Good(s), NEW node, NEW name, NEW o \in SetValues(s, node, name)
  PROVE  o.s.dev = s.dev \/ (OtherName(s.dev, o.s.dev, node.id) /\ o.s.dev[node.id].name = name)
<1> DEFINE p == Parent(s, node)
           c == node.id
           d == [s.dev EXCEPT ![c].name = name]
<1>1. CASE c \notin DOMAIN s.dev
  BY <1>1 DEF SetValues, Out
<1>2. CASE c \in DOMAIN s.dev /\ o # Out(DeleteSubCache([s EXCEPT !.dev[node.id].name = name], p), TRUE)
  <2>1. PICK t \in Fail(s, "rename") : o = Out(t, FALSE) \/ o = Out(DeleteSubCache(t, p), TRUE)
    BY <1>2 DEF SetValues
  <2>2. Good(t) /\ t.dev = s.dev
    BY KindsOfFaults, FailKeeps
  <2>3. PICK u : u = DeleteSubCache(t, p)
    OBVIOUS
  <2>4. u.dev = t.dev
    BY <2>2, <2>3, DeleteSubCacheKeeps
  <2>5. o.s = t \/ o.s = u
    BY <2>1, <2>3 DEF Out
  <2> QED BY <2>2, <2>4, <2>5
<1>3. CASE c \in DOMAIN s.dev /\ o = Out(DeleteSubCache([s EXCEPT !.dev[node.id].name = name], p), TRUE)
  <2>0. s \in States /\ s.dev \in Devices
    BY DEF Good, States
  <2>1. [s EXCEPT !.dev[node.id].name = name] = [s EXCEPT !.dev = d]
    BY <2>0 DEF States
  <2>2. o.s = DeleteSubCache([s EXCEPT !.dev = d], p)
    BY <1>3, <2>1 DEF Out
  <2> HIDE DEF d
  <2>3. PICK v : v = [s EXCEPT !.dev = d]
    OBVIOUS
  <2>4. v.dev = d /\ v = [dev |-> d, kids |-> s.kids, bad |-> s.bad, left |-> s.left, taken |-> s.taken]
    BY <2>0, <2>3 DEF States
  <2>5. o.s.dev = d
    BY <2>2, <2>3, <2>4 DEF DeleteSubCache
  <2> USE DEF d
  <2>6. \A j \in DOMAIN s.dev : s.dev[j] \in Objects
    BY <2>0, DevicesType
  <2>7. DOMAIN d = DOMAIN s.dev /\ d[c] = [s.dev[c] EXCEPT !.name = name] /\ \A j \in DOMAIN s.dev : j # c => d[j] = s.dev[j]
    BY <1>3, <2>0 DEF Devices
  <2>8. d[c].name = name /\ d[c].parent = s.dev[c].parent /\ d[c].content = s.dev[c].content
    BY <1>3, <2>6, <2>7 DEF Objects
  <2> QED BY <1>3, <2>5, <2>7, <2>8 DEF OtherName
<1> QED BY <1>1, <1>2, <1>3

LEMMA RenameDevice ==
  ASSUME NEW s, Good(s), NEW node, \E i \in DOMAIN s.kids : node \in s.kids[i], NEW name \in AllNames,
         NEW o \in Rename(s, node, name)
  PROVE  o.s.dev = s.dev \/ (OtherName(s.dev, o.s.dev, node.id) /\ o.s.dev[node.id].name = name)
<1>1. PICK x \in SetValues(s, node, name) : o = x \/ (o.s = UseFreed(x.s) /\ o.r = TRUE)
  BY RenameDoes
<1>2. Renamed(s, x.s)
  BY SetValuesKeeps
<1>3. o.s.dev = x.s.dev
  BY <1>1, <1>2, UseFreedRenamed
<1> QED BY <1>3, SetValuesDevice

LEMMA SameConfined ==
  ASSUME NEW d, NEW R
  PROVE  Confined(d, d, R)
BY DEF Confined

LEMMA RenameObjectConfined ==
  ASSUME NEW s, Good(s), NEW path \in Paths, NEW to \in Paths, Front(path) = Front(to),
         NEW o \in RenameObject(s, path, Last(to))
  PROVE  Confined(s.dev, o.s.dev, {path, to})
<1>1. PICK x \in FilePathToNode(s, path) :
        o \in IF Halted(x.s) THEN {Out(x.s, Aborted)}
              ELSE Then(FilePathToNode(x.s, Append(Front(path), Last(to))), LAMBDA u, m :
                     IF x.r = Nil \/ m # Nil THEN {Out(u, FALSE)} ELSE Rename(u, x.r, Last(to)))
  BY DEF RenameObject, Then
<1>2. PICK T : Parts(path, T)
  BY PathParts
<1>3. PICK U : Parts(to, U)
  BY PathParts
<1>4. Append(Front(path), Last(to)) = to
  BY <1>3 DEF Parts
<1>5. Len(path) \in Nat /\ Len(to) \in Nat
  BY PathFacts
<1>6. Good(x.s) /\ x.s.dev = s.dev
  BY <1>5, FoundOnHand DEF Grown
<1>7. CASE Halted(x.s)
  <2>1. o \in {Out(x.s, Aborted)}
    BY <1>1, <1>7, Zenon
  <2>2. o.s = x.s
    BY <2>1, OutIs
  <2> QED BY <2>2, <1>6, SameConfined
<1>8. CASE ~Halted(x.s)
  <2>0. o \in Then(FilePathToNode(x.s, to), LAMBDA u, m :
                     IF x.r = Nil \/ m # Nil THEN {Out(u, FALSE)} ELSE Rename(u, x.r, Last(to)))
    BY <1>1, <1>4, <1>8
  <2>1. PICK y \in FilePathToNode(x.s, to) :
          o \in IF Halted(y.s) THEN {Out(y.s, Aborted)}
                ELSE IF x.r = Nil \/ y.r # Nil THEN {Out(y.s, FALSE)} ELSE Rename(y.s, x.r, Last(to))
    BY <2>0 DEF Then
  <2>2. Good(y.s) /\ Later(x.s, y.s) /\ y.s.dev = s.dev
    BY <1>5, <1>6, FoundOnHand DEF Grown
  <2>3. CASE o \in {Out(y.s, Aborted)} \/ o \in {Out(y.s, FALSE)}
    <3>1. o.s = y.s
      BY <2>3 DEF Out
    <3> QED BY <3>1, <2>2, SameConfined
  <2>4. CASE x.r # Nil /\ o \in Rename(y.s, x.r, Last(to))
    <3>1. o.s.dev = s.dev \/ (OtherName(s.dev, o.s.dev, x.r.id) /\ o.s.dev[x.r.id].name = Last(to))
      <4>1. Found(s, path, x) /\ Len(path) # 0 /\ Last(to) \in AllNames
        BY PathFacts, Finding
      <4>2. Found(x.s, to, y)
        BY <1>5, <1>6, <2>1, Finding
      <4>3. \E i \in DOMAIN x.s.kids : x.r \in x.s.kids[i]
        BY <4>1, <1>8, <2>4 DEF Found
      <4>4. \E i \in DOMAIN y.s.kids : x.r \in y.s.kids[i]
        BY <4>2, <4>3 DEF Found, Grown
      <4> QED BY <2>2, <2>4, <4>1, <4>4, RenameDevice
    <3>2. CASE o.s.dev = s.dev
      BY <3>2, SameConfined
    <3>3. CASE OtherName(s.dev, o.s.dev, x.r.id) /\ o.s.dev[x.r.id].name = Last(to)
      <4>1. Place(x.s, x.r, path)
        BY <1>2, <1>8, <2>4, FoundPlace DEF Parts
      <4>2. Links(s.dev, Root, x.r.id, path)
        BY <4>1, <3>3, <1>6 DEF Place, OtherName
      <4>3. s.dev \in Devices /\ Parented(s.dev) /\ Rooted(s.dev) /\ Root \notin DOMAIN s.dev
        BY GoodDevice
      <4>4. Good(o.s)
        BY RenameObjectKeeps DEF Renamed
      <4>5. o.s.dev \in Devices /\ Parented(o.s.dev) /\ Rooted(o.s.dev) /\ Root \notin DOMAIN o.s.dev
        BY <4>4, GoodDevice
      <4> QED BY <4>2, <4>3, <4>5, <3>3, <1>2, <1>3, OtherNameConfined
    <3> QED BY <3>1, <3>2, <3>3
  <2> QED BY <2>1, <2>3, <2>4
<1> QED BY <1>7, <1>8

-----------------------------------------------------------------------------
(* Every request.                                                          *)

LEMMA InsideConfined ==
  ASSUME NEW s, Good(s), NEW R, NEW t, Inside(s, t, R)
  PROVE  Confined(s.dev, t.dev, R)
BY LeavesInside, LeavesConfined

LEMMA HandleConfined ==
  ASSUME NEW s, Good(s), NEW q, q.kind \in Kinds, q.path \in Paths, q.to \in Paths, NEW o \in Handle(s, q)
  PROVE  Confined(s.dev, o.s.dev, {q.path, q.to})
<1>1. PICK path \in Paths : path = q.path
  OBVIOUS
<1>2. PICK to \in Paths : to = q.to
  OBVIOUS
<1> DEFINE R == {path, to}
<1>3. path \in R /\ to \in R /\ Given(R)
  <2>1. (\E T : path \in Seq(T)) /\ (\E T : to \in Seq(T))
    BY PathFacts
  <2> QED BY <2>1 DEF Given
<1>4. R = {q.path, q.to}
  BY <1>1, <1>2
<1> HIDE DEF R
<1> SUFFICES Confined(s.dev, o.s.dev, R)
  BY <1>4
<1>5. CASE q.kind \in {"isdir", "isfile", "inode"}
  <2>1. \/ o \in Exists(s, path, IsDirectory) \/ o \in Exists(s, path, IsFile)
        \/ o \in Exists(s, path, LAMBDA n : n # Nil)
    BY <1>1, <1>5 DEF Handle
  <2>2. Inside(s, o.s, R)
    BY <2>1, ExistsInside
  <2> QED BY <2>2, InsideConfined
<1>6. CASE q.kind = "list"
  <2>1. o \in Then(DoForAllDirContent(s, path), LAMBDA t, nodes : {Out(t, nodes # {})})
    BY <1>1, <1>6 DEF Handle
  <2> QED BY <2>1, ListInside, InsideConfined
<1>7. CASE q.kind = "mkfile"
  <2>1. o \in CreateAsFile(s, path)
    BY <1>1, <1>7 DEF Handle
  <2> QED BY <1>3, <2>1, CreateAsFileInside, InsideConfined
<1>8. CASE q.kind = "mkdir"
  <2>1. o \in CreateAsDirectory(s, path)
    BY <1>1, <1>8 DEF Handle
  <2> QED BY <1>3, <2>1, CreateAsDirectoryInside, InsideConfined
<1>9. CASE q.kind = "delete"
  <2>1. o \in DeleteDirOrFile(s, path)
    BY <1>1, <1>9 DEF Handle
  <2> QED BY <1>3, <2>1, DeleteDirOrFileInside, InsideConfined
<1>10. CASE q.kind = "pull"
  <2>1. o \in ReadFile(s, path)
    BY <1>1, <1>10 DEF Handle, HandleFilePull
  <2> QED BY <2>1, ReadFileInside, InsideConfined
<1>11. CASE q.kind = "push"
  <2>1. o \in WriteFile(s, path, New)
    BY <1>1, <1>11 DEF Handle, HandleFilePush
  <2>2. New \in AllContents
    BY DEF AllContents
  <2> QED BY <1>3, <2>1, <2>2, WriteFileInside, InsideConfined
<1>12. CASE q.kind = "move"
  <2>1. o \in (IF MustMove(path, to) THEN MoveNode(s, path, to) ELSE RenameObject(s, path, Last(to)))
    BY <1>1, <1>2, <1>12 DEF Handle
  <2>2. CASE MustMove(path, to)
    BY <1>3, <2>1, <2>2, MoveNodeInside, LeavesConfined
  <2>3. CASE ~MustMove(path, to)
    BY <2>1, <2>3, RenameObjectConfined DEF MustMove, R
  <2> QED BY <2>2, <2>3
<1> QED BY <1>5, <1>6, <1>7, <1>8, <1>9, <1>10, <1>11, <1>12 DEF Kinds

-----------------------------------------------------------------------------
(* The drive's threads.                                                    *)

Ops == {"create", "mkdir", "rmdir", "unlink", "find", "inode", "push", "pull", "move", "moveover"}
Steps == {"isdir", "isfile", "inode", "list", "mkfile", "mkdir", "delete", "newfile", "oldfile", "newdir",
          "replace", "move", "rebind", "relist", "pull", "push"}
Working == [op : Ops, path : Paths, to : Paths, step : Steps, late : BOOLEAN]

LEMMA FirstSteps ==
  ASSUME NEW op \in Ops
  PROVE  FirstStep(op) \in Steps
BY DEF Ops, Steps, FirstStep

LEMMA StepsAfter ==
  ASSUME NEW op, NEW step \in Steps, NEW r
  PROVE  StepAfter(op, step, r) \in Steps \cup {"idle"}
<1>1. DokanCreateFile(op, step, r) \in Steps \cup {"idle"}
  BY DEF DokanCreateFile, Steps
<1>2. DokanFindFiles(step, r) \in Steps \cup {"idle"}
  BY DEF DokanFindFiles, Steps
<1>3. \A b : DokanCleanup(b) \in Steps \cup {"idle"}
  BY DEF DokanCleanup, Steps
<1>4. DokanDeleteDirectory(step, r) \in Steps \cup {"idle"}
  BY <1>3 DEF DokanDeleteDirectory, Steps
<1>5. DokanDeleteFile(step, r) \in Steps \cup {"idle"}
  BY <1>3 DEF DokanDeleteFile
<1>6. DokanMoveFile(op, step, r) \in Steps \cup {"idle"}
  BY DEF DokanMoveFile, Steps
<1>7. RebindAfterMove(step, r) \in Steps \cup {"idle"}
  BY DEF RebindAfterMove, Steps
<1> QED BY <1>1, <1>2, <1>4, <1>5, <1>6, <1>7 DEF StepAfter

\* A thread asks for a request on its paths.
LEMMA Requests ==
  ASSUME NEW k \in Working
  PROVE  Request(k).kind \in Kinds /\ Request(k).path \in Paths /\ Request(k).to \in Paths
<1>1. k.step \in Steps /\ k.path \in Paths /\ k.to \in Paths
  BY DEF Working
<1> QED BY <1>1 DEF Request, Kinds, Steps

-----------------------------------------------------------------------------
(* The invariant, and what is proved from it.                              *)

Start(d, k) == [dev |-> d, kids |-> k, bad |-> {}, left |-> left, taken |-> DOMAIN d \cup DOMAIN k \cup Named(k)]

IInv ==
  /\ dev \in Devices /\ kids \in Caches /\ Sound(dev, kids)
  /\ client \in [Clients -> Working \cup {Idle}]
  /\ trouble \subseteq FaultKinds /\ left \in 0 .. MaxFaults /\ calls \in 0 .. MaxCalls
  /\ DanglingOnlyByRenameOrNestedMove

LEMMA IInvTypeOK ==
  ASSUME IInv
  PROVE  TypeOK
<1>1. dev \in Devices /\ kids \in Caches /\ Parented(dev)
  BY DEF IInv, Sound
<1>2. DOMAIN dev \subseteq Ids
  BY <1>1, DevicesType
<1>3. \A i \in DOMAIN dev : dev[i] \in [parent : {Root} \cup {j \in DOMAIN dev : dev[j].dir},
        name : AllNames, dir : BOOLEAN, content : AllContents \cup {Dir}]
  <2> SUFFICES ASSUME NEW i \in DOMAIN dev
               PROVE  dev[i] \in [parent : {Root} \cup {j \in DOMAIN dev : dev[j].dir},
                        name : AllNames, dir : BOOLEAN, content : AllContents \cup {Dir}]
    OBVIOUS
  <2>1. dev[i] \in Objects
    BY <1>1, DevicesType
  <2>2. dev[i].parent \in {Root} \cup {j \in DOMAIN dev : dev[j].dir}
    BY <1>1 DEF Parented
  <2> QED BY <2>1, <2>2 DEF Objects
<1>4. \A i \in DOMAIN kids : kids[i] \subseteq [id : Ids, name : AllNames, dir : BOOLEAN]
  BY <1>1, CachesType DEF Nodes
<1> QED BY <1>2, <1>3, <1>4 DEF IInv, TypeOK

LEMMA InitIInv ==
  ASSUME Init
  PROVE  IInv
<1>1. dev = InitTree /\ kids = <<>> /\ DOMAIN kids = {}
  BY DEF Init
<1>2. /\ DOMAIN InitTree \subseteq Ids
      /\ \A i \in DOMAIN InitTree :
           /\ InitTree[i].dir \in BOOLEAN
           /\ InitTree[i].parent \in {Root} \cup {j \in DOMAIN InitTree : InitTree[j].dir}
      /\ \A S \in SUBSET DOMAIN InitTree : S # {} => \E i \in S : InitTree[i].parent \notin S
  BY TreeAssumption
<1>3. dev \in Devices
  <2>1. InitTree = [i \in DOMAIN InitTree |-> [parent |-> InitTree[i].parent, name |-> InitTree[i].name,
                                            dir |-> InitTree[i].dir, content |-> InitTree[i].content]]
    BY TreeAssumption
  <2>2. \A i \in DOMAIN InitTree :
          [parent |-> InitTree[i].parent, name |-> InitTree[i].name,
           dir |-> InitTree[i].dir, content |-> InitTree[i].content] \in Objects
    <3> SUFFICES ASSUME NEW i \in DOMAIN InitTree
                 PROVE  [parent |-> InitTree[i].parent, name |-> InitTree[i].name,
                         dir |-> InitTree[i].dir, content |-> InitTree[i].content] \in Objects
      OBVIOUS
    <3>1. InitTree[i].parent \in Keys
      BY <1>2 DEF Keys
    <3>2. InitTree[i].name \in AllNames /\ InitTree[i].content \in AllContents
      BY DEF AllNames, AllContents
    <3> QED BY <3>1, <3>2, <1>2 DEF Objects
  <2>3. InitTree \in [DOMAIN InitTree -> Objects]
    BY <2>1, <2>2
  <2> QED BY <1>1, <1>2, <2>3 DEF Devices
<1>4. kids \in Caches
  <2>1. kids \in [{} -> SUBSET Nodes]
    BY <1>1
  <2> QED BY <2>1 DEF Caches
<1>5. Parented(dev) /\ Agree(dev, kids) /\ Unique(kids) /\ ListsDirs(dev, kids)
  BY <1>1, <1>2 DEF Parented, Agree, Unique, ListsDirs
<1>6. NoCycle(dev, kids)
  <2> SUFFICES ASSUME NEW S \in SUBSET Ids, S # {}
               PROVE  \E x \in S : x \in DOMAIN InitTree => InitTree[x].parent \notin S
    BY <1>1 DEF NoCycle
  <2>1. CASE S \subseteq DOMAIN InitTree
    BY <1>2, <2>1
  <2>2. CASE ~(S \subseteq DOMAIN InitTree)
    BY <2>2
  <2> QED BY <2>1, <2>2
<1>7. client \in [Clients -> Working \cup {Idle}]
  BY DEF Init
<1>8. trouble \subseteq FaultKinds /\ left \in 0 .. MaxFaults /\ calls \in 0 .. MaxCalls
  BY BoundsAssumption DEF Init
<1>9. DanglingOnlyByRenameOrNestedMove
  BY DEF Init, DanglingOnlyByRenameOrNestedMove
<1> QED BY <1>3, <1>4, <1>5, <1>6, <1>7, <1>8, <1>9 DEF IInv, Sound

\* A request begins in a good state.
LEMMA StartIsGood ==
  ASSUME IInv
  PROVE  Good(Start(dev, kids))
<1>1. dev \in Devices /\ kids \in Caches /\ Sound(dev, kids) /\ left \in 0 .. MaxFaults
  BY DEF IInv
<1>2. DOMAIN dev \subseteq Keys /\ DOMAIN kids \subseteq Keys
  BY <1>1, DevicesType, CachesType DEF Keys
<1>3. Named(kids) \subseteq Keys
  BY <1>1, CachesType DEF Named, Nodes, Keys
<1> QED BY <1>1, <1>2, <1>3 DEF Start, Good, States, Held

\* A thread at work has its paths and a request to make.
LEMMA AtWork ==
  ASSUME IInv, NEW c \in Clients, client[c] # Idle
  PROVE  client[c] \in Working
BY DEF IInv

\* The outcome of the request that a step of the worker serves.
Outcome(c, o) ==
  /\ o \in Handle(Start(dev, kids), Request(client[c]))
  /\ dev' = o.s.dev /\ kids' = o.s.kids /\ left' = o.s.left
  /\ last' = [kind |-> Request(client[c]).kind, path |-> Request(client[c]).path, to |-> Request(client[c]).to,
              ok |-> o.r = TRUE /\ ~Halted(o.s), bad |-> o.s.bad]
  /\ trouble' = trouble \cup o.s.bad \cup IF o.r # TRUE /\ o.s.dev # dev THEN {"half"} ELSE {}
  /\ client' = [d \in Clients |->
       IF d = c
       THEN (IF (IF Halted(o.s) THEN "idle" ELSE StepAfter(client[c].op, client[c].step, o.r)) = "idle"
             THEN Idle
             ELSE [client[c] EXCEPT
                    !.step = IF Halted(o.s) THEN "idle" ELSE StepAfter(client[c].op, client[c].step, o.r)])
       ELSE IF client[d] = Idle THEN Idle ELSE [client[d] EXCEPT !.late = @ \/ o.s.dev # dev]]

LEMMA ServeOutcome ==
  ASSUME NEW c \in Clients, Serve(c)
  PROVE  client[c] # Idle /\ UNCHANGED calls /\ \E o : Outcome(c, o)
BY DEF Serve, Outcome, Start

LEMMA ServedOutcome ==
  ASSUME IInv, NEW c \in Clients, client[c] # Idle, NEW o, Outcome(c, o)
  PROVE  Served(Start(dev, kids), Request(client[c]), o)
<1>1. o \in Handle(Start(dev, kids), Request(client[c]))
  BY DEF Outcome
<1> QED BY <1>1, AtWork, Requests, StartIsGood, HandleServes

LEMMA CallIInv ==
  ASSUME IInv, NEW c \in Clients, Call(c)
  PROVE  IInv'
<1>1. /\ calls > 0 /\ calls' = calls - 1
      /\ UNCHANGED <<dev, kids, last, trouble, left>>
  BY DEF Call
<1>2. client' \in [Clients -> Working \cup {Idle}]
  <2>1. PICK op \in Ops, path \in Paths, to \in Paths :
          client' = [client EXCEPT ![c] = [op |-> op, path |-> path, to |-> to, step |-> FirstStep(op), late |-> FALSE]]
    BY DEF Call, Ops, Paths
  <2>2. [op |-> op, path |-> path, to |-> to, step |-> FirstStep(op), late |-> FALSE] \in Working
    BY FirstSteps DEF Working
  <2> QED BY <2>1, <2>2 DEF IInv
<1>3. calls' \in 0 .. MaxCalls
  BY <1>1, BoundsAssumption DEF IInv
<1>4. DanglingOnlyByRenameOrNestedMove'
  BY <1>1 DEF IInv, DanglingOnlyByRenameOrNestedMove
<1> QED BY <1>1, <1>2, <1>3, <1>4 DEF IInv

LEMMA ServeIInv ==
  ASSUME IInv, NEW c \in Clients, Serve(c)
  PROVE  IInv'
<1>1. client[c] # Idle /\ UNCHANGED calls
  BY ServeOutcome
<1>2. PICK o : Outcome(c, o)
  BY ServeOutcome
<1>3. PICK q : q = Request(client[c])
  OBVIOUS
<1>4. Served(Start(dev, kids), q, o)
  BY <1>1, <1>2, <1>3, ServedOutcome
<1>5. dev' = o.s.dev /\ kids' = o.s.kids /\ left' = o.s.left
  BY <1>2 DEF Outcome
<1>6. o.s \in States /\ Sound(o.s.dev, o.s.kids)
  BY <1>4 DEF Served, Good
<1>7. dev' \in Devices /\ kids' \in Caches /\ Sound(dev, kids)' /\ left' \in 0 .. MaxFaults
  <2>1. o.s.dev \in Devices /\ o.s.kids \in Caches /\ o.s.left \in 0 .. MaxFaults
    BY <1>6 DEF States
  <2>2. Sound(dev', kids')
    BY <1>5, <1>6
  <2>3. Sound(dev, kids)'
    BY <2>2 DEF Sound, Parented, Agree, Unique, ListsDirs, NoCycle
  <2> QED BY <1>5, <2>1, <2>3
<1>8. trouble' \subseteq FaultKinds
  <2>1. o.s.bad \subseteq FaultKinds
    BY <1>6 DEF States
  <2>2. "half" \in FaultKinds
    BY DEF FaultKinds
  <2> QED BY <1>2, <2>1, <2>2 DEF Outcome, IInv
<1>9. client' \in [Clients -> Working \cup {Idle}]
  <2>1. PICK step : step = IF Halted(o.s) THEN "idle" ELSE StepAfter(client[c].op, client[c].step, o.r)
    OBVIOUS
  <2>2. client[c] \in Working
    BY <1>1, AtWork
  <2>3. step \in Steps \cup {"idle"}
    BY <2>1, <2>2, StepsAfter DEF Working
  <2>4. client' = [d \in Clients |->
          IF d = c THEN (IF step = "idle" THEN Idle ELSE [client[c] EXCEPT !.step = step])
          ELSE IF client[d] = Idle THEN Idle ELSE [client[d] EXCEPT !.late = @ \/ o.s.dev # dev]]
    BY <1>2, <2>1 DEF Outcome
  <2>5. step # "idle" => [client[c] EXCEPT !.step = step] \in Working
    BY <2>2, <2>3 DEF Working
  <2>6. \A d \in Clients : client[d] # Idle => [client[d] EXCEPT !.late = @ \/ o.s.dev # dev] \in Working
    <3> SUFFICES ASSUME NEW d \in Clients, client[d] # Idle
                 PROVE  [client[d] EXCEPT !.late = @ \/ o.s.dev # dev] \in Working
      OBVIOUS
    <3>1. client[d] \in Working
      BY AtWork
    <3> QED BY <3>1 DEF Working
  <2> QED BY <2>4, <2>5, <2>6
<1>10. DanglingOnlyByRenameOrNestedMove'
  <2>1. last'.kind = q.kind /\ last'.path = q.path /\ last'.to = q.to /\ last'.bad = o.s.bad
    BY <1>2, <1>3 DEF Outcome
  <2>2. "dangling" \notin Start(dev, kids).bad
    BY DEF Start
  <2> QED BY <1>4, <2>1, <2>2 DEF Served, DanglingOnlyByRenameOrNestedMove
<1> QED BY <1>1, <1>7, <1>8, <1>9, <1>10 DEF IInv

LEMMA NextIInv ==
  ASSUME IInv, [Next]_vars
  PROVE  IInv'
<1>1. CASE Next
  BY <1>1, CallIInv, ServeIInv DEF Next
<1>2. CASE UNCHANGED vars
  BY <1>2 DEF vars, IInv, Sound, Parented, Agree, Unique, ListsDirs, NoCycle, DanglingOnlyByRenameOrNestedMove
<1> QED BY <1>1, <1>2

\* The invariant holds whatever the requests and the failures of the device.
THEOREM Invariance == Spec => []IInv
<1>1. Init => IInv
  BY InitIInv
<1>2. IInv /\ [Next]_vars => IInv'
  BY NextIInv
<1> QED BY <1>1, <1>2, PTL DEF Spec

\* The device stays a tree of named objects, the listings name objects, and no request,
\* however its device calls fail, leaves anything else.
THEOREM TypeCorrect == Spec => []TypeOK
BY Invariance, IInvTypeOK, PTL

\* No object comes to lie below itself, what a listing says of an object that is there is
\* true, and an object is in one listing at most: deleteSubCache, deleteMe and the copying
\* of a directory, which go down the tree, come to an end.
THEOREM SoundTree == Spec => []Sound(dev, kids)
<1>1. IInv => Sound(dev, kids)
  BY DEF IInv
<1> QED BY <1>1, Invariance, PTL

\* The worker is lost to a node that was freed only in a rename, which frees the node it is
\* about, or in a move between two directories one of which holds the other: deleteSubCache
\* of one frees the other (rename, moveDirectory, moveFile).
THEOREM FreedNodes == Spec => []DanglingOnlyByRenameOrNestedMove
<1>1. IInv => DanglingOnlyByRenameOrNestedMove
  BY DEF IInv
<1> QED BY <1>1, Invariance, PTL

\* Every request throws away the listings it made stale, but for a move that failed, a
\* listing of the device that broke off, and the exception that ends the worker.
THEOREM ListingsThrownAway == Spec => StaleOnlyByFailedMove
<1> DEFINE Exact == \/ Stale(dev', kids') \subseteq Stale(dev, kids)
                    \/ last'.kind = "move" /\ ~last'.ok
                    \/ last'.bad \cap {"listing", "thrown"} # {}
<1>1. IInv /\ [Next]_vars => [Exact]_<<dev, kids, last>>
  <2> SUFFICES ASSUME IInv, [Next]_vars
               PROVE  [Exact]_<<dev, kids, last>>
    OBVIOUS
  <2>1. CASE \E c \in Clients : Serve(c)
    <3>1. PICK c \in Clients : client[c] # Idle /\ \E o : Outcome(c, o)
      BY <2>1, ServeOutcome
    <3>2. PICK o : Outcome(c, o)
      BY <3>1
    <3>3. Served(Start(dev, kids), Request(client[c]), o)
      BY <3>1, <3>2, ServedOutcome
    <3>4. /\ dev' = o.s.dev /\ kids' = o.s.kids /\ last'.bad = o.s.bad
          /\ last'.kind = Request(client[c]).kind /\ last'.ok = (o.r = TRUE /\ ~Halted(o.s))
      BY <3>2 DEF Outcome
    <3>5. Start(dev, kids).dev = dev /\ Start(dev, kids).kids = kids
      BY DEF Start
    <3>6. CASE Fresh(Start(dev, kids), o.s) /\ ~Halted(o.s)
      BY <3>4, <3>5, <3>6 DEF Fresh
    <3>7. CASE Halted(o.s) /\ "dangling" \notin o.s.bad
      BY <3>4, <3>7 DEF Halted
    <3>8. CASE "dangling" \in o.s.bad
      <4>1. Halted(o.s) /\ "dangling" \notin Start(dev, kids).bad
        BY <3>8 DEF Halted, Start
      <4>2. last'.kind = "move"
        BY <3>3, <3>4, <3>8, <4>1 DEF Served
      <4> QED BY <3>4, <4>1, <4>2
    <3>9. CASE Request(client[c]).kind = "move" /\ o.r # TRUE
      BY <3>4, <3>9
    <3> QED BY <3>3, <3>6, <3>7, <3>8, <3>9 DEF Served
  <2>2. CASE \E c \in Clients : Call(c)
    BY <2>2 DEF Call
  <2>3. CASE UNCHANGED vars
    BY <2>3 DEF vars
  <2> QED BY <2>1, <2>2, <2>3 DEF Next
<1> QED BY <1>1, Invariance, PTL DEF Spec, StaleOnlyByFailedMove

\* A move loses the content of no file, unless a read or a listing of the device broke off
\* and was taken for complete: the old file is deleted only once its copy is there.
THEOREM MovesKeepContents == Spec => MoveLosesOnlyUnread
<1> DEFINE Lossless == last'.kind = "move" /\ trouble' \cap {"listing", "read"} = {}
                         => ContentsOn(dev) \subseteq ContentsOn(dev')
<1>1. IInv /\ [Next]_vars => [Lossless]_<<dev, last>>
  <2> SUFFICES ASSUME IInv, [Next]_vars
               PROVE  [Lossless]_<<dev, last>>
    OBVIOUS
  <2>1. CASE \E c \in Clients : Serve(c)
    <3>1. PICK c \in Clients : client[c] # Idle /\ \E o : Outcome(c, o)
      BY <2>1, ServeOutcome
    <3>2. PICK o : Outcome(c, o)
      BY <3>1
    <3>3. Served(Start(dev, kids), Request(client[c]), o)
      BY <3>1, <3>2, ServedOutcome
    <3>4. dev' = o.s.dev /\ o.s.bad \subseteq trouble' /\ last'.kind = Request(client[c]).kind
      BY <3>2 DEF Outcome
    <3>5. Start(dev, kids).dev = dev
      BY DEF Start
    <3> QED BY <3>3, <3>4, <3>5 DEF Served
  <2>2. CASE \E c \in Clients : Call(c)
    BY <2>2 DEF Call
  <2>3. CASE UNCHANGED vars
    BY <2>3 DEF vars
  <2> QED BY <2>1, <2>2, <2>3 DEF Next
<1> QED BY <1>1, Invariance, PTL DEF Spec, MoveLosesOnlyUnread

\* What a request takes away or makes lies at or under its paths.
LEMMA ServeConfined ==
  ASSUME IInv, NEW c \in Clients, client[c] # Idle, NEW o, Outcome(c, o)
  PROVE  Confined(dev, dev', {last'.path, last'.to})
<1> DEFINE q == Request(client[c])
<1>1. q.kind \in Kinds /\ q.path \in Paths /\ q.to \in Paths
  BY AtWork, Requests
<1>2. dev' = o.s.dev /\ last'.path = q.path /\ last'.to = q.to /\ o \in Handle(Start(dev, kids), q)
  BY DEF Outcome
<1>3. Start(dev, kids).dev = dev
  BY DEF Start
<1> HIDE DEF q
<1>4. PICK s : s = Start(dev, kids)
  OBVIOUS
<1>5. Good(s) /\ o \in Handle(s, q) /\ s.dev = dev
  BY <1>2, <1>3, <1>4, StartIsGood
<1>6. Confined(s.dev, o.s.dev, {q.path, q.to})
  BY <1>1, <1>5, HandleConfined
<1> QED BY <1>2, <1>5, <1>6

\* What a request takes away or makes lies at or under its own paths, whatever fails in it and
\* however it ends: a deletion or a move of one directory takes nothing from another.
THEOREM RequestsStayOnTheirPaths == Spec => TouchesOnlyItsPaths
<1> DEFINE Stays == \A e \in (View(dev) \ View(dev')) \cup (View(dev') \ View(dev)) :
                      IsPrefix(last'.path, e.path) \/ IsPrefix(last'.to, e.path)
<1>1. IInv /\ [Next]_vars => [Stays]_<<dev, last>>
  <2> SUFFICES ASSUME IInv, [Next]_vars
               PROVE  [Stays]_<<dev, last>>
    OBVIOUS
  <2>1. CASE \E c \in Clients : Serve(c)
    <3>1. PICK c \in Clients : client[c] # Idle /\ \E o : Outcome(c, o)
      BY <2>1, ServeOutcome
    <3>2. Confined(dev, dev', {last'.path, last'.to})
      BY <3>1, ServeConfined
    <3> QED BY <3>2 DEF Confined
  <2>2. CASE \E c \in Clients : Call(c)
    BY <2>2 DEF Call
  <2>3. CASE UNCHANGED vars
    BY <2>3 DEF vars
  <2> QED BY <2>1, <2>2, <2>3 DEF Next
<1> QED BY <1>1, Invariance, PTL DEF Spec, TouchesOnlyItsPaths

\* The refinement of DriveTree for every request that is refused, and for every one once
\* something has gone wrong: what is refused without trouble has changed nothing, and what
\* comes with or after trouble stays on its paths.
THEOREM TreeUnlessDone ==
  Spec => Tree!Init /\ [][trouble' # {} \/ ~last'.ok => Tree!Next]_(Tree!vars)
<1> DEFINE Step == trouble' # {} \/ ~last'.ok => Tree!Next
<1>1. IInv /\ [Next]_vars => [Step]_(Tree!vars)
  <2> SUFFICES ASSUME IInv, [Next]_vars
               PROVE  [Step]_(Tree!vars)
    OBVIOUS
  <2>1. CASE \E c \in Clients : Serve(c)
    <3>1. PICK c \in Clients : client[c] # Idle /\ \E o : Outcome(c, o)
      BY <2>1, ServeOutcome
    <3>2. PICK o : Outcome(c, o)
      BY <3>1
    <3>3. /\ dev' = o.s.dev /\ last'.ok = (o.r = TRUE /\ ~Halted(o.s))
          /\ trouble' = trouble \cup o.s.bad \cup IF o.r # TRUE /\ o.s.dev # dev THEN {"half"} ELSE {}
      BY <3>2 DEF Outcome
    <3>4. CASE trouble' # {}
      <4>1. Confined(dev, dev', {last'.path, last'.to})
        BY <3>1, <3>2, ServeConfined
      <4>2. \A e \in (View(dev) \ View(dev')) \cup (View(dev') \ View(dev)) :
              IsPrefix(last'.path, e.path) \/ IsPrefix(last'.to, e.path)
        BY <4>1 DEF Confined
      <4>3. \A p, r : Tree!IsPrefix(p, r) <=> IsPrefix(p, r)
        BY DEF IsPrefix, Tree!IsPrefix
      <4>4. \A e \in (View(dev) \ View(dev)') \cup (View(dev)' \ View(dev)) :
              Tree!IsPrefix(last'.path, e.path) \/ Tree!IsPrefix(last'.to, e.path)
        BY <4>2, <4>3
      <4>5. trouble \subseteq trouble'
        BY <3>3
      <4>6. Tree!Irregular
        BY <3>4, <4>4, <4>5 DEF Tree!Irregular
      <4> QED BY <4>6 DEF Tree!Next
    <3>5. CASE trouble' = {} /\ ~last'.ok
      <4>1. o.s.bad = {} /\ "half" \notin trouble'
        BY <3>3, <3>5
      <4>2. ~Halted(o.s)
        BY <4>1 DEF Halted
      <4>3. dev' = dev
        BY <3>3, <3>5, <4>1, <4>2
      <4>4. Tree!Regular
        BY <3>5, <4>3 DEF Tree!Regular
      <4> QED BY <4>4 DEF Tree!Next
    <3> QED BY <3>4, <3>5
  <2>2. CASE \E c \in Clients : Call(c)
    BY <2>2 DEF Call, Tree!vars
  <2>3. CASE UNCHANGED vars
    BY <2>3 DEF vars, Tree!vars
  <2> QED BY <2>1, <2>2, <2>3 DEF Next
<1>2. Init => Tree!Init
  BY DEF Init, Tree!Init
<1> QED BY <1>1, <1>2, Invariance, PTL DEF Spec
=============================================================================
