----------------------------- MODULE MountProofs -----------------------------
(***************************************************************************)
(* What Mount's runs check of the commands mount, unmount, unplug and list *)
(* holds for every set of devices and storage media, every number of       *)
(* letters and without a bound on the commands, by the inductive invariant *)
(* Inv: the store, the list of drives and what the thread of the commands  *)
(* is doing tell the same story.                                           *)
(***************************************************************************)
EXTENDS Mount, FiniteSetTheorems, SequenceTheorems, WellFoundedInduction, TLAPS

Wrappers == Devices \X Storages
Statuses == {"starting", "mounted", "leaving", "returning", "unmounted"}
Drives == [letter : Letters, status : Statuses]

\* A shared connection is counted; a list that is not empty lacks what was overlooked.
Connections ==
  {p \in [ref : Nat \ {0}, live : BOOLEAN, found : SUBSET Storages, empty : BOOLEAN,
          overlooked : SUBSET Storages] : p.found # {} => p.overlooked = Storages \ p.found}

\* What the thread of the commands does for mount, and for unmount and unplug.
Building == main.step \in {"ctor", "ctorGap", "ctorWait"}
Destroying == main.step \in {"dtor", "dtorGap", "dtorWait"}
Mounting == [step : {"ctor", "ctorGap", "ctorWait", "failed"}, w : Wrappers, cmd : {"mount"},
             letter : Letters]
Unmapping == [step : {"unmap", "dtor", "dtorGap", "dtorWait"}, cmd : {"unmount", "unplug"},
              w : Wrappers, todo : SUBSET Storages]

WorldOK ==
  /\ plugged \subseteq Devices /\ locked \subseteq Devices /\ listed \subseteq Devices
  /\ others \subseteq Letters
PoolOK == DOMAIN pool \subseteq Devices /\ \A d \in DOMAIN pool : pool[d] \in Connections
StoreOK == DOMAIN conn \subseteq DOMAIN pool /\ \A d \in DOMAIN conn : conn[d] \subseteq Storages
NumbersOK == ids \in Seq((Devices \cup {""}) \X Storages) /\ IsInjective(ids)
DriveOK == DOMAIN drive \subseteq Wrappers /\ \A w \in DOMAIN drive : drive[w] \in Drives
MainOK == main = Idle \/ main \in Mounting \/ main \in Unmapping
FateOK == fate \in {"running", "crashed", "freed"} /\ ejects \in Nat
Types == WorldOK /\ PoolOK /\ StoreOK /\ NumbersOK /\ DriveOK /\ MainOK /\ FateOK

\* The drive that the store keeps for a wrapper.
OnStore(w) == w[1] \in DOMAIN conn /\ w[2] \in conn[w[1]]

\* A wrapper exists when the store has it or the constructor waits for it; what is
\* being built is not in the store yet, what is being destroyed still is.
SameStory ==
  /\ \A w \in Wrappers : w \in DOMAIN drive <=> OnStore(w) \/ (Building /\ main.w = w)
  /\ Building \/ main.step = "failed" => main.w[1] \in DOMAIN conn /\ ~OnStore(main.w)
  /\ Building => drive[main.w].letter = main.letter
  /\ Destroying => OnStore(main.w)
  /\ Destroying \/ main.step = "unmap" =>
       main.w[1] \in DOMAIN conn /\ main.todo \subseteq conn[main.w[1]]

\* A drive of the store is mounted, but for the one that is being destroyed.
MountedUnlessEjected ==
  \A w \in Wrappers : OnStore(w) =>
    (Destroying /\ main.w = w) \/ drive[w].status = "mounted" \/ ejects > 0

\* No two mounted drives have one letter.
LettersApart ==
  \A v, w \in DOMAIN drive : Mounted(v) /\ Mounted(w) /\ v # w => drive[v].letter # drive[w].letter

\* What mount has reported last is in the store as long as nothing else is done.
WhereSaid ==
  answer.cmd = "mount" /\ answer.code = "ok" /\ main = Idle =>
    /\ answer.dev \in DOMAIN conn /\ answer.st \in conn[answer.dev]
    /\ ~answer.again => drive[<<answer.dev, answer.st>>].letter = answer.letter
    /\ answer.again => drive[<<answer.dev, answer.st>>].letter # answer.letter \/ ejects > 0

Inv == /\ Types /\ SameStory /\ MountedUnlessEjected /\ LettersApart /\ WhereSaid
       /\ EndsBadlyOnlyAfterEject

-----------------------------------------------------------------------------
(* The operators.                                                          *)

\* One more binding, or another.
LEMMA Bound ==
  ASSUME NEW f, NEW x, NEW v
  PROVE  /\ DOMAIN Bind(f, x, v) = {x} \cup DOMAIN f
         /\ Bind(f, x, v)[x] = v
         /\ \A y \in DOMAIN f \ {x} : Bind(f, x, v)[y] = f[y]
  BY DEF Bind

LEMMA Restricted ==
  ASSUME NEW f, NEW S
  PROVE  DOMAIN Restrict(f, S) = S /\ \A x \in S : Restrict(f, S)[x] = f[x]
  BY DEF Restrict

\* The letters that are left are letters, and one of them is the last.
LEMMA AvailableAreLetters ==
  /\ GetAvailableDrives \subseteq Letters
  /\ GetAvailableDrives # {} => Max(GetAvailableDrives) \in GetAvailableDrives
<1>1. GetAvailableDrives \subseteq Letters
  BY DEF GetAvailableDrives
<1>2. ASSUME GetAvailableDrives # {}
      PROVE  \E l \in GetAvailableDrives : \A k \in GetAvailableDrives : l >= k
  <2> DEFINE S == {n \in Nat : LastLetter - n \in GetAvailableDrives}
             Less == OpToRel(<, Nat)
  <2>1. PICK l \in GetAvailableDrives : TRUE
    BY <1>2
  <2>2. l \in 1 .. LastLetter
    BY <1>1, <2>1 DEF Letters
  <2>3. LastLetter - l \in S
    BY <2>1, <2>2, LettersAssumption
  <2>4. PICK n \in S : \A m \in S : ~(<<m, n>> \in Less)
    <3>1. IsWellFoundedOn(Less, Nat)
      BY NatLessThanWellFounded
    <3>2. S \subseteq Nat /\ S # {}
      BY <2>3
    <3> HIDE DEF Less, S
    <3>3. QED
      BY <3>1, <3>2, WFMin
  <2>5. n \in Nat /\ \A m \in S : n <= m
    <3>1. S \subseteq Nat /\ n \in S
      BY <2>4
    <3> HIDE DEF S
    <3>2. \A m \in S : ~(m < n)
      BY <2>4, <3>1 DEF OpToRel
    <3>3. QED
      BY <3>1, <3>2
  <2> HIDE DEF Less
  <2>6. LastLetter - n \in GetAvailableDrives
    BY <2>4
  <2>7. ASSUME NEW k \in GetAvailableDrives PROVE LastLetter - n >= k
    <3>1. k \in 1 .. LastLetter
      BY <1>1 DEF Letters
    <3>2. LastLetter - k \in S
      BY <3>1, LettersAssumption
    <3>3. n <= LastLetter - k
      BY <2>5, <3>2
    <3>4. QED
      BY <2>5, <3>1, <3>3, LettersAssumption
  <2>8. QED
    BY <2>6, <2>7
<1>3. ASSUME GetAvailableDrives # {} PROVE Max(GetAvailableDrives) \in GetAvailableDrives
  BY <1>2, <1>3 DEF Max
<1>4. QED
  BY <1>1, <1>3

\* Sequences without repetition and with nothing in common, one after the other.
LEMMA InjectiveConcat ==
  ASSUME NEW T, NEW s \in Seq(T), NEW t \in Seq(T), IsInjective(s), IsInjective(t),
         \A i \in 1 .. Len(s), j \in 1 .. Len(t) : s[i] # t[j]
  PROVE  s \o t \in Seq(T) /\ IsInjective(s \o t)
<1> DEFINE r == s \o t
<1>1. /\ r \in Seq(T) /\ Len(r) = Len(s) + Len(t) /\ Len(s) \in Nat /\ Len(t) \in Nat
      /\ \A i \in 1 .. Len(s) + Len(t) : r[i] = IF i <= Len(s) THEN s[i] ELSE t[i - Len(s)]
  BY ConcatProperties, LenProperties
<1>2. DOMAIN s = 1 .. Len(s) /\ DOMAIN t = 1 .. Len(t)
  BY LenProperties
<1>3. /\ \A i, j \in 1 .. Len(s) : s[i] = s[j] => i = j
      /\ \A i, j \in 1 .. Len(t) : t[i] = t[j] => i = j
  BY <1>2 DEF IsInjective
<1>4. DOMAIN r = 1 .. Len(s) + Len(t)
  BY <1>1, LenProperties
<1> HIDE DEF r
<1>5. ASSUME NEW i \in 1 .. Len(s) + Len(t), NEW j \in 1 .. Len(s) + Len(t), r[i] = r[j]
      PROVE  i = j
  <2>1. CASE i <= Len(s) /\ j <= Len(s)
    BY <1>1, <1>3, <1>5, <2>1
  <2>2. CASE i <= Len(s) /\ j > Len(s)
    <3>1. i \in 1 .. Len(s) /\ j - Len(s) \in 1 .. Len(t)
      BY <1>1, <2>2
    <3>2. r[i] = s[i] /\ r[j] = t[j - Len(s)]
      BY <1>1, <2>2
    <3>3. QED
      BY <1>5, <3>1, <3>2
  <2>3. CASE i > Len(s) /\ j <= Len(s)
    <3>1. j \in 1 .. Len(s) /\ i - Len(s) \in 1 .. Len(t)
      BY <1>1, <2>3
    <3>2. r[j] = s[j] /\ r[i] = t[i - Len(s)]
      BY <1>1, <2>3
    <3>3. QED
      BY <1>5, <3>1, <3>2
  <2>4. CASE i > Len(s) /\ j > Len(s)
    <3>1. i - Len(s) \in 1 .. Len(t) /\ j - Len(s) \in 1 .. Len(t)
      BY <1>1, <2>4
    <3>2. t[i - Len(s)] = t[j - Len(s)]
      BY <1>1, <1>5, <2>4
    <3>3. i - Len(s) = j - Len(s)
      BY <1>3, <3>1, <3>2
    <3>4. QED
      BY <1>1, <3>3
  <2>5. QED
    BY <1>1, <2>1, <2>2, <2>3, <2>4
<1>6. QED
  BY <1>1, <1>4, <1>5 DEF IsInjective, r

LEMMA FunctionIsSequence ==
  ASSUME NEW T, NEW n \in Nat, NEW f \in [1 .. n -> T]
  PROVE  f \in Seq(T) /\ Len(f) = n
<1>1. f \in Seq(T)
  OBVIOUS
<1>2. Len(f) \in Nat /\ 1 .. Len(f) = 1 .. n
  BY <1>1, LenProperties
<1>3. QED
  <2>1. CASE n = 0 \/ Len(f) = 0
    BY <1>1, <1>2, <2>1
  <2>2. CASE n # 0 /\ Len(f) # 0
    <3>1. n \in 1 .. Len(f) /\ Len(f) \in 1 .. n
      BY <1>2, <2>2
    <3>2. QED
      BY <1>1, <1>2, <3>1
  <2>3. QED
    BY <1>1, <2>1, <2>2

\* Storage media get numbers of their own.
LEMMA NumberedOnce ==
  ASSUME NumbersOK, NEW media, media \subseteq (Devices \cup {""}) \X Storages, ToStorageEnum(media)
  PROVE  NumbersOK'
<1> DEFINE T == (Devices \cup {""}) \X Storages
<1>1. PICK order \in SetToAllKPermutations(media \ Range(ids)) : ids' = ids \o order
  BY DEF ToStorageEnum
<1>2. PICK s \in SUBSET (media \ Range(ids)) : order \in SetToSeqs(s)
  BY <1>1 DEF SetToAllKPermutations
<1> DEFINE n == Cardinality(s)
<1>3. order \in [1 .. n -> s] /\ \A i, j \in 1 .. n : i # j => order[i] # order[j]
  BY <1>2 DEF SetToSeqs
<1>4. n \in Nat
  <2>1. IsFiniteSet(Devices \cup {""})
    BY DevicesAssumption, FS_AddElement
  <2>2. IsFiniteSet(T)
    BY <2>1, StoragesAssumption, FS_Product
  <2>3. s \subseteq T
    BY <1>2
  <2>4. IsFiniteSet(s)
    BY <2>2, <2>3, FS_Subset
  <2>5. QED
    BY <2>4, FS_CardinalityType
<1> HIDE DEF n
<1>5. order \in Seq(T) /\ Len(order) = n
  <2>1. order \in [1 .. n -> T]
    BY <1>2, <1>3
  <2> HIDE DEF T
  <2>2. QED
    BY <1>4, <2>1, FunctionIsSequence
<1>6. IsInjective(order)
  BY <1>3, <1>4 DEF IsInjective
<1>7. ids \in Seq(T) /\ IsInjective(ids)
  BY DEF NumbersOK
<1>8. ASSUME NEW i \in 1 .. Len(ids), NEW j \in 1 .. Len(order) PROVE ids[i] # order[j]
  <2>1. order[j] \notin Range(ids)
    BY <1>2, <1>3, <1>5
  <2>2. i \in DOMAIN ids
    BY <1>7, LenProperties
  <2>3. ids[i] \in Range(ids)
    BY <2>2 DEF Range
  <2>4. QED
    BY <2>1, <2>3
<1>9. ids' \in Seq(T) /\ IsInjective(ids')
  <2> HIDE DEF T
  <2>1. ids \o order \in Seq(T) /\ IsInjective(ids \o order)
    BY <1>5, <1>6, <1>7, <1>8, InjectiveConcat
  <2>2. QED
    BY <1>1, <2>1
<1>10. QED
  BY <1>9 DEF NumbersOK

-----------------------------------------------------------------------------
(* Connections.                                                            *)

LEMMA OpenIsAConnection ==
  ASSUME PoolOK, NEW d
  PROVE  OpenConnectionToDevice(d) \in Connections
<1>1. CASE d \in DOMAIN pool
  <2>1. pool[d] \in Connections
    BY <1>1 DEF PoolOK
  <2>2. pool[d].ref + 1 \in Nat \ {0}
    BY <2>1 DEF Connections
  <2>3. [pool[d] EXCEPT !.ref = pool[d].ref + 1] \in Connections
    BY <2>1, <2>2 DEF Connections
  <2>4. QED
    BY <1>1, <2>3 DEF OpenConnectionToDevice
<1>2. CASE d \notin DOMAIN pool
  BY <1>2 DEF OpenConnectionToDevice, Connections
<1>3. QED
  BY <1>1, <1>2

\* Reading the list of a device changes what is known of the device, and nothing else.
LEMMA LookedAtIsAConnection ==
  ASSUME NEW p \in Connections, NEW d, p.found = {}, NEW q \in LookForMappableDrives(p, d)
  PROVE  /\ q \in Connections /\ q.live = p.live /\ q.ref = p.ref
         /\ d \in locked \/ ~q.live \/ q.overlooked = Storages \ q.found
<1> DEFINE shown == IF d \in locked THEN {} ELSE Storages
<1>1. CASE ~p.live
  BY <1>1 DEF LookForMappableDrives
<1>2. CASE p.live /\ q = [p EXCEPT !.overlooked = shown]
  <2>1. shown \in SUBSET Storages /\ (d \notin locked => shown = Storages)
    OBVIOUS
  <2> HIDE DEF shown
  <2>2. q.found = {} /\ q.live = p.live /\ q.ref = p.ref /\ q.overlooked = shown
    BY <1>2 DEF Connections
  <2>3. q \in Connections
    BY <1>2, <2>1, <2>2 DEF Connections
  <2>4. QED
    BY <2>1, <2>2, <2>3
<1>3. ASSUME p.live, NEW found \in SUBSET shown,
             q = [p EXCEPT !.found = found, !.empty = (found = {}), !.overlooked = shown \ found]
      PROVE  /\ q \in Connections /\ q.live = p.live /\ q.ref = p.ref
             /\ d \in locked \/ q.overlooked = Storages \ q.found
  <2>1. found \in SUBSET Storages /\ shown \ found \in SUBSET Storages
        /\ (found # {} => d \notin locked) /\ (d \notin locked => shown = Storages)
    OBVIOUS
  <2> HIDE DEF shown
  <2>2. (found = {}) \in BOOLEAN
    OBVIOUS
  <2>3. q.found = found /\ q.live = p.live /\ q.ref = p.ref /\ q.overlooked = shown \ found
    BY <1>3 DEF Connections
  <2>4. q \in [ref : Nat \ {0}, live : BOOLEAN, found : SUBSET Storages, empty : BOOLEAN,
               overlooked : SUBSET Storages]
    BY <1>3, <2>1, <2>2 DEF Connections
  <2>5. q \in Connections
    BY <2>1, <2>3, <2>4 DEF Connections
  <2>6. QED
    BY <2>1, <2>3, <2>5
<1>4. QED
  BY <1>1, <1>2, <1>3 DEF LookForMappableDrives

LEMMA AskedIsAConnection ==
  ASSUME NEW p \in Connections, NEW d, NEW b \in BOOLEAN, NEW q \in GetMappableDriveNames(p, d, b)
  PROVE  q \in Connections /\ q.live = p.live /\ q.ref = p.ref
<1>1. q = p \/ (p.found = {} /\ q \in LookForMappableDrives(p, d))
  BY DEF GetMappableDriveNames
<1>2. QED
  BY <1>1, LookedAtIsAConnection

LEMMA MapNewDriveIsAConnection ==
  ASSUME NEW p \in Connections, NEW d, NEW s, NEW q \in MapNewDrive(p, d, s)
  PROVE  q \in Connections
<1>1. PICK first \in GetMappableDriveNames(p, d, FALSE) :
        q = first \/ q \in GetMappableDriveNames(first, d, TRUE)
  BY DEF MapNewDrive
<1>2. first \in Connections
  BY AskedIsAConnection
<1>3. QED
  BY <1>1, <1>2, AskedIsAConnection

\* A medium that is not found although it exists is locked, overlooked, or gone.
LEMMA NotFoundIsTrue ==
  ASSUME NEW p \in Connections, NEW d, NEW s \in Storages, NEW q \in MapNewDrive(p, d, s),
         s \notin q.found
  PROVE  d \in locked \/ ~q.live \/ s \in q.overlooked
<1>1. PICK first \in GetMappableDriveNames(p, d, FALSE) :
        q \in IF s \in first.found THEN {first} ELSE GetMappableDriveNames(first, d, TRUE)
  BY DEF MapNewDrive
<1>2. first \in Connections /\ q \in GetMappableDriveNames(first, d, TRUE)
  BY <1>1, AskedIsAConnection
<1>3. CASE first.found # {}
  <2>1. q = first
    BY <1>2, <1>3 DEF GetMappableDriveNames
  <2>2. QED
    BY <1>2, <1>3, <2>1 DEF Connections
<1>4. CASE first.found = {}
  <2>1. q \in LookForMappableDrives(first, d)
    BY <1>2, <1>4 DEF GetMappableDriveNames
  <2>2. QED
    BY <1>2, <1>4, <2>1, LookedAtIsAConnection
<1>5. QED
  BY <1>3, <1>4

LEMMA PoolBound ==
  ASSUME PoolOK, NEW d \in Devices, NEW p \in Connections, pool' = Bind(pool, d, p)
  PROVE  PoolOK' /\ DOMAIN pool' = {d} \cup DOMAIN pool
<1>1. /\ DOMAIN pool' = {d} \cup DOMAIN pool /\ pool'[d] = p
      /\ \A e \in DOMAIN pool \ {d} : pool'[e] = pool[e]
  BY DEF Bind
<1>2. \A e \in DOMAIN pool' : pool'[e] \in Connections
  BY <1>1 DEF PoolOK
<1>3. QED
  BY <1>1, <1>2 DEF PoolOK, Connections

-----------------------------------------------------------------------------
(* The thread of the commands.                                             *)

\* A turn of a loop that waits: another step of the same constructor or destructor.
Turns ==
  \/ main' = main
  \/ \E step \in {"ctor", "ctorGap", "ctorWait"} : Building /\ main' = [main EXCEPT !.step = step]
  \/ \E step \in {"dtor", "dtorGap", "dtorWait"} : Destroying /\ main' = [main EXCEPT !.step = step]

LEMMA MainIs ==
  ASSUME MainOK
  PROVE  /\ main = Idle <=> main.step = "idle"
         /\ Building \/ main.step = "failed" <=> main \in Mounting
         /\ Destroying \/ main.step = "unmap" <=> main \in Unmapping
  BY DEF MainOK, Idle, Building, Destroying, Mounting, Unmapping

LEMMA TurnsKeep ==
  ASSUME MainOK, Turns
  PROVE  /\ MainOK' /\ Building' = Building /\ Destroying' = Destroying
         /\ (main = Idle)' = (main = Idle)
         /\ main.step \in {"idle", "failed", "unmap"} => main' = main
         /\ main'.step = "failed" <=> main.step = "failed"
         /\ main'.step = "unmap" <=> main.step = "unmap"
         /\ Building => main'.w = main.w /\ main'.letter = main.letter
         /\ Destroying => main'.w = main.w /\ main'.todo = main.todo
<1>1. CASE main' = main
  BY <1>1 DEF MainOK, Building, Destroying, Mounting, Unmapping, Idle
<1>2. ASSUME NEW step \in {"ctor", "ctorGap", "ctorWait"}, Building,
             main' = [main EXCEPT !.step = step]
      PROVE  main \in Mounting /\ main' \in Mounting /\ main'.step = step /\ Building'
             /\ main'.w = main.w /\ main'.letter = main.letter
  <2>1. main \in Mounting
    BY <1>2, MainIs
  <2>2. QED
    BY <1>2, <2>1 DEF Mounting, Building
<1>3. ASSUME NEW step \in {"dtor", "dtorGap", "dtorWait"}, Destroying,
             main' = [main EXCEPT !.step = step]
      PROVE  main \in Unmapping /\ main' \in Unmapping /\ main'.step = step /\ Destroying'
             /\ main'.w = main.w /\ main'.todo = main.todo
  <2>1. main \in Unmapping
    BY <1>3, MainIs
  <2>2. QED
    BY <1>3, <2>1 DEF Unmapping, Destroying
<1>4. CASE \E step \in {"ctor", "ctorGap", "ctorWait"} : Building /\ main' = [main EXCEPT !.step = step]
  <2>1. PICK step \in {"ctor", "ctorGap", "ctorWait"} : Building /\ main' = [main EXCEPT !.step = step]
    BY <1>4
  <2>2. /\ main' \in Mounting /\ main'.step = step /\ Building'
        /\ main'.w = main.w /\ main'.letter = main.letter
    BY <1>2, <2>1
  <2>3. main.step # "idle" /\ main'.step # "idle"
    BY <2>1, <2>2 DEF Building
  <2>4. main # Idle /\ main' # Idle
    BY <2>3 DEF Idle
  <2>5. QED
    BY <2>1, <2>2, <2>3, <2>4 DEF MainOK, Building, Destroying
<1>5. CASE \E step \in {"dtor", "dtorGap", "dtorWait"} : Destroying /\ main' = [main EXCEPT !.step = step]
  <2>1. PICK step \in {"dtor", "dtorGap", "dtorWait"} : Destroying /\ main' = [main EXCEPT !.step = step]
    BY <1>5
  <2>2. /\ main' \in Unmapping /\ main'.step = step /\ Destroying'
        /\ main'.w = main.w /\ main'.todo = main.todo
    BY <1>3, <2>1
  <2>3. main.step # "idle" /\ main'.step # "idle"
    BY <2>1, <2>2 DEF Destroying
  <2>4. main # Idle /\ main' # Idle
    BY <2>3 DEF Idle
  <2>5. QED
    BY <2>1, <2>2, <2>3, <2>4 DEF MainOK, Building, Destroying
<1>6. QED
  BY <1>1, <1>4, <1>5 DEF Turns

-----------------------------------------------------------------------------
(* Steps of one kind.                                                      *)

\* The drives stay, but for their statuses; the thread goes on as it does.
LEMMA StatusesStep ==
  ASSUME Inv, Turns, Types', UNCHANGED <<conn, answer, fate>>,
         DOMAIN drive' = DOMAIN drive, LettersApart', ejects > 0 => ejects' > 0,
         \A w \in DOMAIN drive : /\ drive'[w].letter = drive[w].letter
                                 /\ drive[w].status = "mounted" => drive'[w].status = "mounted" \/ ejects' > 0
  PROVE  Inv'
<1>0. MainOK /\ PoolOK /\ StoreOK
  BY DEF Inv, Types
<1> USE DEF Inv
<1>1. /\ Building' = Building /\ Destroying' = Destroying /\ (main = Idle)' = (main = Idle)
      /\ main.step \in {"idle", "failed", "unmap"} => main' = main
      /\ main'.step = "failed" <=> main.step = "failed"
      /\ main'.step = "unmap" <=> main.step = "unmap"
      /\ Building => main'.w = main.w /\ main'.letter = main.letter
      /\ Destroying => main'.w = main.w /\ main'.todo = main.todo
  BY <1>0, TurnsKeep
<1>2. \A w : OnStore(w)' = OnStore(w)
  BY DEF OnStore
<1>3. \A w \in Wrappers : OnStore(w) => w \in DOMAIN drive
  BY DEF SameStory
<1>4. Building => main.w \in DOMAIN drive
  <2>1. Building => main.w \in Wrappers
    BY <1>0, MainIs DEF Mounting
  <2>2. QED
    BY <2>1 DEF SameStory
<1>5. SameStory'
  <2>1. \A w \in Wrappers : w \in DOMAIN drive' <=> OnStore(w)' \/ (Building' /\ main'.w = w)
    BY <1>1, <1>2 DEF SameStory
  <2> main'.w = main.w \/ ~(Building \/ Destroying \/ main.step \in {"failed", "unmap"})
    BY <1>1
  <2>2. Building' \/ main'.step = "failed" => main'.w[1] \in DOMAIN conn' /\ ~OnStore(main.w)'
    BY <1>1, <1>2 DEF SameStory
  <2>3. Building' => drive'[main'.w].letter = main'.letter
    <3>1. ASSUME Building PROVE drive'[main.w].letter = main.letter
      BY <1>4, <3>1 DEF SameStory
    <3>2. QED
      BY <1>1, <3>1
  <2>4. Destroying' => OnStore(main.w)'
    BY <1>1, <1>2 DEF SameStory
  <2>5. Destroying' \/ main'.step = "unmap" =>
          main'.w[1] \in DOMAIN conn' /\ main'.todo \subseteq conn'[main'.w[1]]
    BY <1>1 DEF SameStory
  <2>6. QED
    BY <2>1, <2>2, <2>3, <2>4, <2>5 DEF SameStory, OnStore
<1>6. MountedUnlessEjected'
  BY <1>1, <1>2, <1>3 DEF MountedUnlessEjected
<1>7. WhereSaid'
  <2>1. ASSUME answer.cmd = "mount", answer.code = "ok", main = Idle
        PROVE  <<answer.dev, answer.st>> \in DOMAIN drive
    <3>1. answer.dev \in Devices /\ answer.st \in Storages
      BY <1>0, <2>1 DEF WhereSaid, StoreOK, PoolOK
    <3>2. <<answer.dev, answer.st>> \in Wrappers /\ OnStore(<<answer.dev, answer.st>>)
      BY <2>1, <3>1 DEF WhereSaid, OnStore, Wrappers
    <3>3. QED
      BY <1>3, <3>2
  <2>2. QED
    BY <1>1, <2>1 DEF WhereSaid
<1>8. EndsBadlyOnlyAfterEject'
  BY DEF EndsBadlyOnlyAfterEject
<1>9. QED
  BY <1>5, <1>6, <1>7, <1>8

\* A command is answered, or the daemon has died, and nothing is mounted or unmounted.
LEMMA AnsweredStep ==
  ASSUME Inv, Types', UNCHANGED <<conn, drive, ejects>>,
         \/ main' = main /\ answer' = answer
         \/ main = Idle /\ main' = Idle /\ ~(answer'.cmd = "mount" /\ answer'.code = "ok"),
         fate' = fate \/ ejects > 0
  PROVE  Inv'
<1> USE DEF Inv, Types
<1>1. main' = main
  OBVIOUS
<1>2. SameStory' /\ MountedUnlessEjected' /\ LettersApart'
  BY <1>1 DEF SameStory, MountedUnlessEjected, LettersApart, OnStore, Building, Destroying, Mounted
<1>3. WhereSaid'
  BY <1>1 DEF WhereSaid
<1>4. EndsBadlyOnlyAfterEject'
  BY DEF EndsBadlyOnlyAfterEject
<1>5. QED
  BY <1>2, <1>3, <1>4

\* getDriveLetters throws only when a drive was ejected, unless one is being destroyed.
LEMMA ThrowsAfterEject ==
  ASSUME Inv, NEW d \in DOMAIN conn, ~Destroying, GetDriveLettersThrows(d)
  PROVE  ejects > 0
<1>1. PICK s \in conn[d] : ~Mounted(<<d, s>>)
  BY DEF GetDriveLettersThrows
<1>2. d \in Devices /\ s \in Storages
  BY DEF Inv, Types, StoreOK, PoolOK
<1>3. <<d, s>> \in Wrappers /\ OnStore(<<d, s>>)
  BY <1>2 DEF Wrappers, OnStore
<1>4. drive[<<d, s>>].status # "mounted"
  BY <1>1 DEF Mounted
<1>5. QED
  BY <1>3, <1>4 DEF Inv, MountedUnlessEjected

\* One drive gets another status.
LEMMA StatusStep ==
  ASSUME Inv, NEW w \in DOMAIN drive, NEW status \in Statuses,
         drive' = [drive EXCEPT ![w].status = status],
         status \in {"mounted", "leaving"} => Mounted(w) \/ drive[w].letter \notin InUse
  PROVE  /\ DriveOK' /\ DOMAIN drive' = DOMAIN drive /\ LettersApart'
         /\ \A v \in DOMAIN drive : /\ drive'[v].letter = drive[v].letter
                                    /\ v # w => drive'[v].status = drive[v].status
         /\ drive'[w].status = status
<1>1. drive[w] \in Drives
  BY DEF Inv, Types, DriveOK
<1>2. [drive[w] EXCEPT !.status = status] \in Drives
  BY <1>1 DEF Drives
<1>3. /\ DOMAIN drive' = DOMAIN drive /\ drive'[w] = [drive[w] EXCEPT !.status = status]
      /\ \A v \in DOMAIN drive \ {w} : drive'[v] = drive[v]
  OBVIOUS
<1>4. drive'[w].letter = drive[w].letter /\ drive'[w].status = status
  BY <1>1, <1>3 DEF Drives
<1>5. \A v \in DOMAIN drive : drive'[v].letter = drive[v].letter
                              /\ (v # w => drive'[v].status = drive[v].status)
  BY <1>3, <1>4
<1>6. DriveOK'
  BY <1>2, <1>3 DEF Inv, Types, DriveOK, Drives, Wrappers
<1>7. \A v \in DOMAIN drive : Mounted(v)' <=> IF v = w THEN status \in {"mounted", "leaving"} ELSE Mounted(v)
  BY <1>4, <1>5 DEF Mounted
<1>8. LettersApart'
  <2> SUFFICES ASSUME NEW u \in DOMAIN drive, NEW v \in DOMAIN drive, Mounted(u)', Mounted(v)', u # v
               PROVE  drive[u].letter # drive[v].letter
    BY <1>3, <1>5 DEF LettersApart
  <2>1. CASE Mounted(u) /\ Mounted(v)
    BY <2>1 DEF Inv, LettersApart
  <2>2. CASE u = w /\ ~Mounted(u)
    <3>1. Mounted(v) /\ drive[u].letter \notin InUse
      BY <1>7, <2>2
    <3>2. QED
      BY <3>1 DEF InUse
  <2>3. CASE v = w /\ ~Mounted(v)
    <3>1. Mounted(u) /\ drive[v].letter \notin InUse
      BY <1>7, <2>3
    <3>2. QED
      BY <3>1 DEF InUse
  <2>4. QED
    BY <1>7, <2>1, <2>2, <2>3
<1>9. QED
  BY <1>3, <1>4, <1>5, <1>6, <1>8

\* A wrapper is deleted.
LEMMA DeletedStep ==
  ASSUME DriveOK, LettersApart, NEW w, drive' = Restrict(drive, DOMAIN drive \ {w})
  PROVE  /\ DriveOK' /\ LettersApart' /\ DOMAIN drive' = DOMAIN drive \ {w}
         /\ \A v \in DOMAIN drive \ {w} : drive'[v] = drive[v]
<1>1. DOMAIN drive' = DOMAIN drive \ {w} /\ \A v \in DOMAIN drive \ {w} : drive'[v] = drive[v]
  BY DEF Restrict
<1>2. DriveOK'
  BY <1>1 DEF DriveOK, Wrappers, Drives
<1>3. LettersApart'
  BY <1>1 DEF LettersApart, Mounted
<1>4. QED
  BY <1>1, <1>2, <1>3

\* A command is answered when nothing is built or destroyed any more; a connection
\* without drives may have been closed.
LEMMA IdleStep ==
  ASSUME Inv, Types', ~Building, ~Destroying, main' = Idle, UNCHANGED <<drive, fate, ejects>>,
         \A w \in Wrappers : OnStore(w)' <=> OnStore(w),
         ~(answer'.cmd = "mount" /\ answer'.code = "ok")
  PROVE  Inv'
<1>1. main'.step = "idle" /\ ~Building' /\ ~Destroying'
  BY DEF Idle, Building, Destroying
<1>2. SameStory'
  BY <1>1 DEF Inv, SameStory, OnStore, Wrappers, Building, Destroying
<1>3. MountedUnlessEjected' /\ LettersApart' /\ WhereSaid' /\ EndsBadlyOnlyAfterEject'
  BY <1>1 DEF Inv, MountedUnlessEjected, LettersApart, Mounted, WhereSaid, EndsBadlyOnlyAfterEject, Wrappers
<1>4. QED
  BY <1>2, <1>3 DEF Inv

-----------------------------------------------------------------------------
(* mount.                                                                  *)

LEMMA MountRefusedStep ==
  ASSUME Inv, NEW d \in Devices, NEW s \in Storages, NEW l \in Letters \cup {0}, MountRefused(d, s, l)
  PROVE  Inv'
<1>1. /\ main = Idle /\ main' = Idle
      /\ UNCHANGED <<plugged, locked, others, pool, conn, ids, drive, fate, missed, ejects>>
      /\ answer'.code \in {"letter", "connection"} /\ listed' \in {listed, Refreshed}
  BY DEF MountRefused, Ready, Answer, devices, store, ghosts
<1>2. listed' \subseteq Devices
  BY <1>1 DEF Inv, Types, WorldOK, Refreshed
<1>3. Types'
  BY <1>1, <1>2 DEF Inv, Types, WorldOK, PoolOK, StoreOK, NumbersOK, DriveOK, MainOK, FateOK, Wrappers,
       Drives, Connections, Mounting, Unmapping
<1>4. QED
  BY <1>1, <1>3, AnsweredStep

LEMMA MountStep ==
  ASSUME Inv, NEW d \in Devices, NEW s \in Storages, NEW l \in Letters \cup {0}, Mount(d, s, l)
  PROVE  Inv'
<1> DEFINE letter == IF l = 0 THEN Max(GetAvailableDrives) ELSE l
           p == IF d \in DOMAIN conn THEN pool[d] ELSE OpenConnectionToDevice(d)
           mapped == d \in DOMAIN conn /\ s \in conn[d]
           w == <<d, s>>
<1>0. PICK asked \in IF mapped THEN {p} ELSE MapNewDrive(p, d, s) :
        /\ listed' = IF d \in DOMAIN conn THEN listed ELSE Refreshed
        /\ pool' = Bind(pool, d, asked)
        /\ conn' = IF d \in DOMAIN conn THEN conn ELSE Bind(conn, d, {})
        /\ \/ mapped /\ AnswerAgain(d, s, letter) /\ UNCHANGED drive
           \/ /\ ~mapped /\ s \in asked.found
              /\ drive' = Bind(drive, w, [letter |-> letter, status |-> "starting"])
              /\ main' = [step |-> "ctor", w |-> w, cmd |-> "mount", letter |-> letter]
              /\ UNCHANGED answer
           \/ /\ ~mapped /\ s \notin asked.found
              /\ main' = [step |-> "failed", w |-> w, cmd |-> "mount", letter |-> letter]
              /\ UNCHANGED <<drive, answer>>
  BY DEF Mount
<1>1. /\ main = Idle /\ UNCHANGED <<plugged, locked, others, ids, fate, missed, ejects>>
      /\ listed' \in {listed, Refreshed} /\ pool' = Bind(pool, d, asked)
      /\ conn' = IF d \in DOMAIN conn THEN conn ELSE Bind(conn, d, {})
  BY <1>0 DEF Mount, Ready, devices, ghosts
<1>2. letter \in Letters /\ letter \notin InUse
  <2>1. letter \in GetAvailableDrives
    BY AvailableAreLetters DEF Mount
  <2>2. QED
    BY <2>1 DEF GetAvailableDrives
<1>3. asked \in Connections
  <2>1. p \in Connections
    BY OpenIsAConnection DEF Inv, Types, PoolOK, StoreOK
  <2> HIDE DEF p, mapped
  <2>2. QED
    BY <1>0, <2>1, MapNewDriveIsAConnection
<1>4. PoolOK' /\ DOMAIN pool' = {d} \cup DOMAIN pool
  BY <1>1, <1>3, PoolBound DEF Inv, Types
<1>5. /\ DOMAIN conn' = {d} \cup DOMAIN conn /\ \A e \in DOMAIN conn : conn'[e] = conn[e]
      /\ d \notin DOMAIN conn => conn'[d] = {}
  BY <1>1 DEF Bind
<1>6. WorldOK' /\ StoreOK' /\ NumbersOK' /\ FateOK'
  <2>1. WorldOK'
    BY <1>1 DEF Inv, Types, WorldOK, Refreshed
  <2>2. StoreOK'
    BY <1>4, <1>5 DEF Inv, Types, StoreOK
  <2>3. NumbersOK' /\ FateOK'
    BY <1>1 DEF Inv, Types, NumbersOK, FateOK
  <2>4. QED
    BY <2>1, <2>2, <2>3
<1>7. w \in Wrappers /\ w[1] = d /\ w[2] = s
  BY DEF Wrappers
<1>8. \A v : OnStore(v)' <=> OnStore(v)
  BY <1>5 DEF OnStore
<1>9. /\ mapped <=> OnStore(w)
      /\ ~Building /\ ~Destroying /\ main.step = "idle"
  BY <1>1, <1>7 DEF OnStore, Idle, Building, Destroying
<1>10. EndsBadlyOnlyAfterEject'
  BY <1>1 DEF Inv, EndsBadlyOnlyAfterEject
<1>11. \/ mapped /\ AnswerAgain(d, s, letter) /\ drive' = drive
       \/ /\ ~mapped /\ answer' = answer
          /\ drive' = Bind(drive, w, [letter |-> letter, status |-> "starting"])
          /\ main' = [step |-> "ctor", w |-> w, cmd |-> "mount", letter |-> letter]
       \/ /\ ~mapped /\ answer' = answer /\ drive' = drive
          /\ main' = [step |-> "failed", w |-> w, cmd |-> "mount", letter |-> letter]
  BY <1>0
<1> HIDE DEF letter, mapped, w, p
<1>12. CASE mapped /\ AnswerAgain(d, s, letter) /\ drive' = drive
  <2>1. /\ main' = Idle /\ answer'.again /\ answer'.dev = d /\ answer'.st = s
        /\ answer'.letter = letter
    BY <1>12 DEF AnswerAgain
  <2>2. DriveOK' /\ MainOK'
    BY <1>12, <2>1 DEF Inv, Types, DriveOK, MainOK, Drives, Wrappers
  <2>3. SameStory' /\ MountedUnlessEjected' /\ LettersApart'
    BY <1>1, <1>5, <1>8, <1>12, <2>1 DEF Inv, SameStory, MountedUnlessEjected, LettersApart, Mounted,
         Building, Destroying, OnStore
  <2>4. drive[w].status = "mounted" \/ ejects > 0
    BY <1>7, <1>9, <1>12 DEF Inv, MountedUnlessEjected
  <2>5. drive[w].letter # letter \/ ejects > 0
    <3>1. w \in DOMAIN drive
      BY <1>7, <1>9, <1>12 DEF Inv, SameStory
    <3>2. QED
      BY <1>2, <2>4, <3>1 DEF InUse, Mounted
  <2>6. WhereSaid'
    <3>1. d \in DOMAIN conn' /\ s \in conn'[d]
      BY <1>5, <1>7, <1>9, <1>12 DEF OnStore
    <3>2. drive'[<<d, s>>].letter # letter \/ ejects' > 0
      BY <1>1, <1>12, <2>5 DEF w
    <3>3. QED
      BY <2>1, <3>1, <3>2 DEF WhereSaid
  <2>7. QED
    BY <1>4, <1>6, <1>10, <2>2, <2>3, <2>6 DEF Inv, Types
<1>13. CASE /\ ~mapped /\ answer' = answer
            /\ drive' = Bind(drive, w, [letter |-> letter, status |-> "starting"])
            /\ main' = [step |-> "ctor", w |-> w, cmd |-> "mount", letter |-> letter]
  <2> DEFINE new == [letter |-> letter, status |-> "starting"]
  <2>1. new \in Drives /\ new.letter = letter /\ new.status = "starting"
    BY <1>2 DEF Drives, Statuses
  <2> HIDE DEF new
  <2>2. /\ DOMAIN drive' = {w} \cup DOMAIN drive /\ drive'[w] = new
        /\ \A v \in DOMAIN drive \ {w} : drive'[v] = drive[v]
    BY <1>13 DEF Bind, new
  <2>3. DriveOK'
    BY <1>7, <2>1, <2>2 DEF Inv, Types, DriveOK, Wrappers, Drives, Letters
  <2>4. main' \in Mounting /\ main'.w = w /\ main'.letter = letter /\ main'.step = "ctor"
    BY <1>2, <1>7, <1>13 DEF Mounting
  <2>5. Building' /\ ~Destroying' /\ main' # Idle
    BY <2>4 DEF Building, Destroying, Idle
  <2>6. MainOK'
    BY <2>4 DEF MainOK, Mounting, Wrappers, Letters
  <2>7. SameStory'
    <3>1. \A v \in Wrappers : v \in DOMAIN drive' <=> OnStore(v)' \/ v = w
      BY <1>8, <1>9, <2>2 DEF Inv, SameStory
    <3>2. d \in DOMAIN conn' /\ ~OnStore(w)'
      BY <1>5, <1>8, <1>9, <1>13
    <3>3. main'.w = w /\ drive'[main'.w].letter = main'.letter
      BY <2>1, <2>2, <2>4
    <3>4. QED
      BY <1>7, <2>4, <2>5, <3>1, <3>2, <3>3 DEF SameStory, OnStore, Wrappers
  <2>8. MountedUnlessEjected'
    <3>1. \A v \in Wrappers : OnStore(v) => v \in DOMAIN drive /\ v # w
      BY <1>9, <1>13 DEF Inv, SameStory
    <3>2. QED
      BY <1>1, <1>8, <1>9, <2>2, <3>1 DEF Inv, MountedUnlessEjected, Wrappers
  <2>9. LettersApart'
    <3>1. \A v \in DOMAIN drive' : Mounted(v)' => v \in DOMAIN drive /\ v # w /\ Mounted(v)
      BY <2>1, <2>2 DEF Mounted
    <3>2. QED
      BY <2>2, <3>1 DEF Inv, LettersApart
  <2>10. WhereSaid'
    BY <2>5 DEF WhereSaid
  <2>11. QED
    BY <1>4, <1>6, <1>10, <2>3, <2>6, <2>7, <2>8, <2>9, <2>10 DEF Inv, Types
<1>14. CASE /\ ~mapped /\ answer' = answer /\ drive' = drive
            /\ main' = [step |-> "failed", w |-> w, cmd |-> "mount", letter |-> letter]
  <2>1. main' \in Mounting /\ main'.w = w /\ main'.step = "failed"
    BY <1>2, <1>7, <1>14 DEF Mounting
  <2>2. ~Building' /\ ~Destroying' /\ main' # Idle
    BY <2>1 DEF Building, Destroying, Idle
  <2>3. MainOK' /\ DriveOK'
    BY <1>14, <2>1 DEF Inv, Types, DriveOK, MainOK, Mounting, Wrappers, Letters, Drives
  <2>4. SameStory'
    <3>1. \A v \in Wrappers : v \in DOMAIN drive' <=> OnStore(v)'
      BY <1>8, <1>9, <1>14 DEF Inv, SameStory
    <3>2. main'.w[1] \in DOMAIN conn' /\ ~OnStore(w)'
      BY <1>5, <1>7, <1>8, <1>9, <1>14, <2>1
    <3>3. QED
      BY <2>1, <2>2, <3>1, <3>2 DEF SameStory, OnStore, Wrappers
  <2>5. MountedUnlessEjected' /\ LettersApart'
    BY <1>1, <1>8, <1>9, <1>14 DEF Inv, MountedUnlessEjected, Wrappers, LettersApart, Mounted
  <2>6. WhereSaid'
    BY <2>2 DEF WhereSaid
  <2>7. QED
    BY <1>4, <1>6, <1>10, <2>3, <2>4, <2>5, <2>6 DEF Inv, Types
<1>15. QED
  BY <1>11, <1>12, <1>13, <1>14

\* The constructor tests the status: it goes on waiting, keeps the drive, or gives up.
LEMMA CtorTestStep ==
  ASSUME Inv, CtorTest
  PROVE  Inv'
<1>0. /\ main.step = "ctor" /\ UNCHANGED <<plugged, locked, others, listed, pool, ids, fate, missed, ejects>>
      /\ Building /\ ~Destroying
  BY DEF CtorTest, At, devices, provider, ghosts, Building, Destroying
<1>1. main \in Mounting
  BY <1>0, MainIs DEF Inv, Types
<1>w. PICK w \in Wrappers : w = main.w
  BY <1>1 DEF Mounting
<1>2. /\ w \in Wrappers /\ w \in DOMAIN drive /\ main.letter \in Letters /\ w[1] \in DOMAIN conn
      /\ ~OnStore(w) /\ drive[w].letter = main.letter /\ w = <<w[1], w[2]>>
      /\ w[1] \in Devices /\ w[2] \in Storages
  BY <1>0, <1>1, <1>w DEF Inv, SameStory, Mounting, Wrappers
<1>3. WorldOK' /\ PoolOK' /\ NumbersOK' /\ FateOK' /\ EndsBadlyOnlyAfterEject'
  BY <1>0 DEF Inv, Types, WorldOK, PoolOK, NumbersOK, FateOK, Connections, EndsBadlyOnlyAfterEject
<1>4. \/ drive[w].status = "starting" /\ main' = [main EXCEPT !.step = "ctorGap"]
         /\ UNCHANGED <<conn, drive, answer>>
      \/ /\ drive[w].status = "mounted" /\ conn' = [conn EXCEPT ![w[1]] = conn[w[1]] \cup {w[2]}]
         /\ Answer("mount", w[1], w[2], main.letter, "ok") /\ drive' = drive
      \/ /\ drive' = Restrict(drive, DOMAIN drive \ {w})
         /\ main' = [main EXCEPT !.step = "failed"] /\ UNCHANGED <<conn, answer>>
  <2>1. CASE drive[w].status = "starting"
    BY <1>w, <2>1 DEF CtorTest
  <2>2. CASE drive[w].status = "mounted"
    BY <1>w, <2>2 DEF CtorTest
  <2>3. CASE drive[w].status \notin {"starting", "mounted"}
    BY <1>w, <2>3 DEF CtorTest
  <2>4. QED
    BY <2>1, <2>2, <2>3
<1>5. CASE drive[w].status = "starting" /\ main' = [main EXCEPT !.step = "ctorGap"]
           /\ UNCHANGED <<conn, drive, answer>>
  <2>1. Turns
    BY <1>0, <1>5 DEF Turns
  <2>2. Types'
    BY <1>3, <1>0, <1>5, <2>1, TurnsKeep DEF Inv, Types, StoreOK, DriveOK, Wrappers, Drives
  <2>3. LettersApart'
    BY <1>5 DEF Inv, LettersApart, Mounted
  <2>4. QED
    BY <1>0, <1>5, <2>1, <2>2, <2>3, StatusesStep
<1>6. CASE /\ drive[w].status = "mounted" /\ conn' = [conn EXCEPT ![w[1]] = conn[w[1]] \cup {w[2]}]
           /\ Answer("mount", w[1], w[2], main.letter, "ok") /\ drive' = drive
  <2>1. /\ main' = Idle /\ answer'.dev = w[1] /\ answer'.st = w[2] /\ answer'.letter = main.letter
        /\ ~answer'.again
    BY <1>6 DEF Answer
  <2>2. main'.step = "idle" /\ ~Building' /\ ~Destroying'
    BY <2>1 DEF Idle, Building, Destroying
  <2>3. /\ DOMAIN conn' = DOMAIN conn /\ conn'[w[1]] = conn[w[1]] \cup {w[2]}
        /\ \A e \in DOMAIN conn \ {w[1]} : conn'[e] = conn[e]
    BY <1>2, <1>6
  <2>4. \A v \in Wrappers : OnStore(v)' <=> OnStore(v) \/ v = w
    BY <1>2, <2>3 DEF OnStore, Wrappers
  <2>5. StoreOK'
    BY <1>0, <1>2, <2>3 DEF Inv, Types, StoreOK
  <2>6. DriveOK' /\ MainOK'
    BY <1>6, <2>1 DEF Inv, Types, DriveOK, Wrappers, Drives, MainOK
  <2>7. SameStory'
    <3>1. \A v \in Wrappers : v \in DOMAIN drive' <=> OnStore(v)'
      BY <1>0, <1>6, <1>w, <2>4 DEF Inv, SameStory
    <3>2. QED
      BY <2>2, <3>1 DEF SameStory, OnStore, Wrappers
  <2>8. MountedUnlessEjected'
    BY <1>0, <1>6, <2>4 DEF Inv, MountedUnlessEjected, Wrappers, OnStore
  <2>9. LettersApart'
    BY <1>6 DEF Inv, LettersApart, Mounted
  <2>10. WhereSaid'
    BY <1>2, <1>6, <2>1, <2>3 DEF WhereSaid
  <2>11. QED
    BY <1>3, <2>5, <2>6, <2>7, <2>8, <2>9, <2>10 DEF Inv, Types
<1>7. CASE /\ drive' = Restrict(drive, DOMAIN drive \ {w})
           /\ main' = [main EXCEPT !.step = "failed"] /\ UNCHANGED <<conn, answer>>
  <2>1. /\ DriveOK' /\ LettersApart' /\ DOMAIN drive' = DOMAIN drive \ {w}
        /\ \A v \in DOMAIN drive \ {w} : drive'[v] = drive[v]
    BY <1>7, DeletedStep DEF Inv, Types
  <2>2. main' \in Mounting /\ main'.w = w /\ main'.step = "failed"
    BY <1>1, <1>7, <1>w DEF Mounting
  <2>3. ~Building' /\ ~Destroying' /\ main' # Idle
    BY <2>2 DEF Building, Destroying, Idle
  <2>4. MainOK' /\ StoreOK'
    BY <1>0, <1>7, <2>2 DEF Inv, Types, MainOK, Mounting, Wrappers, Letters, StoreOK
  <2>5. \A v : OnStore(v)' <=> OnStore(v)
    BY <1>7 DEF OnStore
  <2>6. SameStory'
    <3>1. \A v \in Wrappers : v \in DOMAIN drive' <=> OnStore(v)'
      BY <1>0, <1>2, <1>w, <2>1, <2>5 DEF Inv, SameStory
    <3>2. main'.w[1] \in DOMAIN conn' /\ ~OnStore(w)'
      BY <1>2, <1>7, <2>2, <2>5
    <3>3. QED
      BY <2>2, <2>3, <3>1, <3>2 DEF SameStory, OnStore, Wrappers
  <2>7. MountedUnlessEjected'
    <3>1. \A v \in Wrappers : OnStore(v) => v \in DOMAIN drive \ {w}
      BY <1>2 DEF Inv, SameStory
    <3>2. QED
      BY <1>0, <2>1, <2>5, <3>1 DEF Inv, MountedUnlessEjected, Wrappers
  <2>8. WhereSaid'
    BY <2>3 DEF WhereSaid
  <2>9. QED
    BY <1>3, <2>1, <2>4, <2>6, <2>7, <2>8 DEF Inv, Types
<1>8. QED
  BY <1>4, <1>5, <1>6, <1>7

\* A connection without drives is closed.
LEMMA ClosedStep ==
  ASSUME Inv, NEW d \in DOMAIN conn, conn' = (IF conn[d] = {} THEN Closed(d) ELSE conn),
         UNCHANGED pool
  PROVE  StoreOK' /\ \A w \in Wrappers : OnStore(w)' <=> OnStore(w)
<1>1. CASE conn[d] = {}
  <2>1. DOMAIN conn' = DOMAIN conn \ {d} /\ \A e \in DOMAIN conn \ {d} : conn'[e] = conn[e]
    BY <1>1 DEF Closed, Restrict
  <2>2. QED
    BY <1>1, <2>1 DEF Inv, Types, StoreOK, OnStore
<1>2. CASE conn[d] # {}
  BY <1>2 DEF Inv, Types, StoreOK, OnStore
<1>3. QED
  BY <1>1, <1>2

LEMMA MountFailedStep ==
  ASSUME Inv, MountFailed
  PROVE  Inv'
<1> DEFINE d == main.w[1]
<1>1. /\ main.step = "failed"
      /\ UNCHANGED <<plugged, locked, others, listed, pool, ids, drive, ejects>>
      /\ \/ GetDriveLettersThrows(d) /\ fate' = "crashed" /\ UNCHANGED <<main, answer, conn>>
         \/ /\ conn' = (IF conn[d] = {} THEN Closed(d) ELSE conn) /\ fate' = fate
            /\ main' = Idle /\ answer'.code = "unavailable"
  BY DEF MountFailed, At, Crash, Answer, devices, provider, ghosts
<1>2. ~Building /\ ~Destroying /\ main.step # "idle" /\ d \in DOMAIN conn
  BY <1>1 DEF Building, Destroying, Inv, SameStory
<1> HIDE DEF d
<1>3. WorldOK' /\ PoolOK' /\ NumbersOK' /\ DriveOK'
  BY <1>1 DEF Inv, Types, WorldOK, PoolOK, NumbersOK, Connections, DriveOK, Wrappers, Drives
<1>4. CASE GetDriveLettersThrows(d) /\ fate' = "crashed" /\ UNCHANGED <<main, answer, conn>>
  <2>1. ejects > 0
    BY <1>2, <1>4, ThrowsAfterEject
  <2>2. Types'
    BY <1>1, <1>3, <1>4 DEF Inv, Types, StoreOK, MainOK, Mounting, Unmapping, Wrappers, FateOK
  <2>3. QED
    BY <1>1, <1>4, <2>1, <2>2, AnsweredStep
<1>5. CASE /\ conn' = (IF conn[d] = {} THEN Closed(d) ELSE conn) /\ fate' = fate
           /\ main' = Idle /\ answer'.code = "unavailable"
  <2>1. StoreOK' /\ \A w \in Wrappers : OnStore(w)' <=> OnStore(w)
    BY <1>1, <1>2, <1>5, ClosedStep
  <2>2. Types'
    BY <1>1, <1>3, <1>5, <2>1 DEF Inv, Types, MainOK, FateOK
  <2>3. QED
    BY <1>1, <1>2, <1>5, <2>1, <2>2, IdleStep
<1>6. QED
  BY <1>1, <1>4, <1>5

-----------------------------------------------------------------------------
(* unmount and unplug.                                                     *)

\* They begin with the drives that are to be destroyed.
LEMMA UnmapStep ==
  ASSUME Inv, main = Idle, NEW cmd \in {"unmount", "unplug"}, NEW d \in DOMAIN conn,
         NEW todo \in SUBSET conn[d], Unmap(cmd, d, todo), UNCHANGED <<devices, provider, conn, drive>>
  PROVE  Inv'
<1> DEFINE w == <<d, CHOOSE s \in Storages : TRUE>>
<1>1. /\ main' = [step |-> "unmap", cmd |-> cmd, w |-> w, todo |-> todo]
      /\ UNCHANGED <<ids, answer, fate, missed, ejects>>
  BY DEF Unmap, ghosts
<1>2. d \in Devices /\ conn[d] \subseteq Storages
  BY DEF Inv, Types, StoreOK, PoolOK
<1>3. w \in Wrappers /\ w[1] = d
  BY <1>2, StoragesAssumption DEF Wrappers
<1> HIDE DEF w
<1>4. main' \in Unmapping /\ main'.step = "unmap" /\ main'.w = w /\ main'.todo = todo
  BY <1>1, <1>2, <1>3 DEF Unmapping
<1>5. ~Building' /\ ~Destroying' /\ ~Building /\ ~Destroying /\ main' # Idle
  BY <1>4 DEF Building, Destroying, Idle
<1>6. Types'
  BY <1>1, <1>4 DEF Inv, Types, WorldOK, PoolOK, Connections, StoreOK, NumbersOK, DriveOK, Wrappers,
       Drives, MainOK, FateOK, devices, provider
<1>7. SameStory'
  <2>1. \A v \in Wrappers : v \in DOMAIN drive' <=> OnStore(v)'
    BY <1>5 DEF Inv, SameStory, OnStore
  <2>2. main'.w[1] \in DOMAIN conn' /\ main'.todo \subseteq conn'[main'.w[1]]
    BY <1>3, <1>4
  <2>3. QED
    BY <1>4, <1>5, <2>1, <2>2 DEF SameStory, OnStore, Wrappers
<1>8. MountedUnlessEjected' /\ LettersApart' /\ WhereSaid' /\ EndsBadlyOnlyAfterEject'
  BY <1>1, <1>5 DEF Inv, MountedUnlessEjected, LettersApart, Mounted, WhereSaid, EndsBadlyOnlyAfterEject,
       Wrappers, OnStore
<1>9. QED
  BY <1>6, <1>7, <1>8 DEF Inv

\* Drives of the store are given numbers.
LEMMA StoreNumbered ==
  ASSUME Inv, NEW D \in SUBSET DOMAIN conn, ToStorageEnum(UNION {{d} \X conn[d] : d \in D})
  PROVE  NumbersOK'
<1>1. UNION {{d} \X conn[d] : d \in D} \subseteq (Devices \cup {""}) \X Storages
  <2>1. \A d \in D : d \in Devices /\ conn[d] \subseteq Storages
    BY DEF Inv, Types, StoreOK, PoolOK
  <2>2. \A d \in D : {d} \X conn[d] \subseteq (Devices \cup {""}) \X Storages
    BY <2>1
  <2>3. QED
    BY <2>2
<1>2. QED
  BY <1>1, NumberedOnce DEF Inv, Types

\* Types after a command at the end of which nothing is different but the numbers.
LEMMA AnsweredTypes ==
  ASSUME Inv, UNCHANGED <<devices, provider, conn, drive, ejects>>, NumbersOK',
         main' = main \/ main' = Idle, fate' \in {fate, "crashed"}
  PROVE  Types'
  BY DEF Inv, Types, WorldOK, PoolOK, Connections, StoreOK, DriveOK, Wrappers, Drives, MainOK,
       Mounting, Unmapping, Letters, FateOK, devices, provider

LEMMA UnmountStep ==
  ASSUME Inv, NEW d \in Devices, NEW s \in Storages, Unmount(d, s)
  PROVE  Inv'
<1>1. main = Idle /\ UNCHANGED <<devices, provider, conn, drive>>
  BY DEF Unmount, Ready
<1>2. ~Destroying
  BY <1>1 DEF Idle, Destroying
<1>3. NumbersOK /\ (ids' = ids => NumbersOK')
  BY DEF Inv, Types, NumbersOK
<1>4. CASE d \notin DOMAIN conn
  <2>1. main' = Idle /\ answer'.cmd = "unmount" /\ UNCHANGED <<ids, fate, ejects>>
    BY <1>4 DEF Unmount, Answer, ghosts
  <2>2. QED
    BY <1>1, <1>3, <2>1, AnsweredTypes, AnsweredStep
<1>5. CASE d \in DOMAIN conn /\ s \in conn[d]
  <2>1. Unmap("unmount", d, {s})
    BY <1>5 DEF Unmount
  <2>2. QED
    BY <1>1, <1>5, <2>1, UnmapStep
<1>6. CASE d \in DOMAIN conn /\ s \notin conn[d] /\ GetDriveLettersThrows(d)
  <2>1. UNCHANGED <<main, answer, ids, ejects>> /\ fate' = "crashed"
    BY <1>6 DEF Unmount, Crash
  <2>2. ejects > 0
    BY <1>2, <1>6, ThrowsAfterEject
  <2>3. QED
    BY <1>1, <1>3, <2>1, <2>2, AnsweredTypes, AnsweredStep
<1>7. CASE d \in DOMAIN conn /\ s \notin conn[d] /\ ~GetDriveLettersThrows(d)
  <2>1. /\ main' = Idle /\ answer'.cmd = "unmount" /\ UNCHANGED <<fate, ejects>>
        /\ ToStorageEnum({d} \X conn[d])
    BY <1>7 DEF Unmount, Answer, ghosts
  <2>2. {d} \X conn[d] \subseteq (Devices \cup {""}) \X Storages
    BY <1>7 DEF Inv, Types, StoreOK
  <2>3. NumbersOK'
    BY <1>3, <2>1, <2>2, NumberedOnce
  <2>4. QED
    BY <1>1, <2>1, <2>3, AnsweredTypes, AnsweredStep
<1>8. QED
  BY <1>4, <1>5, <1>6, <1>7

LEMMA UnmountLetterStep ==
  ASSUME Inv, NEW l \in Letters, UnmountLetter(l)
  PROVE  Inv'
<1>1. main = Idle /\ UNCHANGED <<devices, provider, conn, drive>>
  BY DEF UnmountLetter, Ready
<1>2. ~Destroying /\ ~Building
  BY <1>1 DEF Idle, Destroying, Building
<1>3. ids' = ids => NumbersOK'
  BY DEF Inv, Types, NumbersOK
<1>4. CASE \E w \in DOMAIN drive :
              /\ Mounted(w) /\ drive[w].letter = l /\ ~GetDriveLettersThrows(w[1])
              /\ Unmap("unmount", w[1], {w[2]})
  <2>1. PICK w \in DOMAIN drive : Unmap("unmount", w[1], {w[2]})
    BY <1>4
  <2>2. w \in Wrappers /\ OnStore(w)
    BY <1>2 DEF Inv, Types, DriveOK, SameStory
  <2>3. w[1] \in DOMAIN conn /\ {w[2]} \in SUBSET conn[w[1]]
    BY <2>2 DEF OnStore
  <2>4. QED
    BY <1>1, <2>1, <2>3, UnmapStep
<1>5. CASE (\E d \in DOMAIN conn : GetDriveLettersThrows(d)) /\ Crash /\ UNCHANGED ids
  <2>1. UNCHANGED <<main, answer, ids, ejects>> /\ fate' = "crashed"
    BY <1>5 DEF Crash
  <2>2. ejects > 0
    BY <1>2, <1>5, ThrowsAfterEject
  <2>3. QED
    BY <1>1, <1>3, <2>1, <2>2, AnsweredTypes, AnsweredStep
<1>6. CASE Answer("unmount", "", "", l, "unmapped") /\ UNCHANGED <<ids, ghosts>>
  <2>1. main' = Idle /\ answer'.cmd = "unmount" /\ UNCHANGED <<ids, fate, ejects>>
    BY <1>6 DEF Answer, ghosts
  <2>2. QED
    BY <1>1, <1>3, <2>1, AnsweredTypes, AnsweredStep
<1>7. QED
  BY <1>4, <1>5, <1>6 DEF UnmountLetter

LEMMA UnplugStep ==
  ASSUME Inv, NEW d \in Devices, Unplug(d)
  PROVE  Inv'
<1>1. main = Idle /\ UNCHANGED <<devices, provider, conn, drive>>
  BY DEF Unplug, Ready
<1>2. ids' = ids => NumbersOK'
  BY DEF Inv, Types, NumbersOK
<1>3. CASE d \notin DOMAIN conn
  <2>1. main' = Idle /\ answer'.cmd = "unplug" /\ UNCHANGED <<ids, fate, ejects>>
    <3>1. Answer("unplug", d, "", 0, "closed") /\ UNCHANGED <<ids, ghosts>>
      BY <1>3 DEF Unplug
    <3>2. QED
      BY <3>1 DEF Answer, ghosts
  <2>2. QED
    BY <1>1, <1>2, <2>1, AnsweredTypes, AnsweredStep
<1>4. CASE d \in DOMAIN conn
  <2>1. Unmap("unplug", d, conn[d])
    BY <1>4 DEF Unplug
  <2>2. QED
    BY <1>1, <1>4, <2>1, UnmapStep
<1>5. QED
  BY <1>3, <1>4

\* A wrapper leaves the store, and is deleted.
LEMMA TakenFromStore ==
  ASSUME Inv, NEW w \in Wrappers, OnStore(w), conn' = [conn EXCEPT ![w[1]] = @ \ {w[2]}], UNCHANGED pool,
         drive' = Restrict(drive, DOMAIN drive \ {w})
  PROVE  /\ StoreOK' /\ DOMAIN conn' = DOMAIN conn /\ conn'[w[1]] = conn[w[1]] \ {w[2]}
         /\ \A v \in Wrappers : OnStore(v)' <=> OnStore(v) /\ v # w
<1>1. w[1] \in DOMAIN conn /\ w = <<w[1], w[2]>>
  BY DEF OnStore, Wrappers
<1>2. /\ DOMAIN conn' = DOMAIN conn /\ conn'[w[1]] = conn[w[1]] \ {w[2]}
      /\ \A e \in DOMAIN conn \ {w[1]} : conn'[e] = conn[e]
  BY <1>1
<1>3. StoreOK'
  BY <1>2 DEF Inv, Types, StoreOK
<1>4. \A v \in Wrappers : OnStore(v)' <=> OnStore(v) /\ v # w
  BY <1>1, <1>2 DEF OnStore, Wrappers
<1>5. QED
  BY <1>2, <1>3, <1>4

\* The destructor asks Dokan to unmount, or finds the drive ejected already.
LEMMA DeleteWrapperStep ==
  ASSUME Inv, DeleteWrapper
  PROVE  Inv'
<1>1. /\ main.step = "unmap" /\ ~Building /\ ~Destroying
      /\ UNCHANGED <<plugged, locked, others, listed, pool, ids, answer, ejects>>
  BY DEF DeleteWrapper, At, Building, Destroying, devices, provider
<1>2. main \in Unmapping
  BY <1>1, MainIs DEF Inv, Types
<1>d. PICK d \in Devices : d = main.w[1]
  BY <1>2 DEF Unmapping, Wrappers
<1>3. PICK s \in main.todo :
        \/ /\ Mounted(<<d, s>>) /\ drive' = [drive EXCEPT ![<<d, s>>].status = "leaving"]
           /\ main' = [main EXCEPT !.step = "dtor", !.w = <<d, s>>] /\ UNCHANGED <<conn, fate>>
        \/ /\ ~Mounted(<<d, s>>) /\ drive' = Restrict(drive, DOMAIN drive \ {<<d, s>>})
           /\ conn' = [conn EXCEPT ![d] = @ \ {s}]
           /\ main' = [main EXCEPT !.todo = @ \ {s}]
           /\ fate' = IF drive[<<d, s>>].status = "returning" THEN "freed" ELSE fate
  <2>1. PICK s \in main.todo :
          LET w == <<d, s>> IN
          IF Mounted(w)
          THEN /\ drive' = [drive EXCEPT ![w].status = "leaving"]
               /\ main' = [main EXCEPT !.step = "dtor", !.w = w] /\ UNCHANGED <<conn, fate>>
          ELSE /\ drive' = Restrict(drive, DOMAIN drive \ {w})
               /\ conn' = [conn EXCEPT ![w[1]] = @ \ {s}]
               /\ main' = [main EXCEPT !.todo = @ \ {s}]
               /\ fate' = IF drive[w].status = "returning" THEN "freed" ELSE fate
    BY <1>d DEF DeleteWrapper
  <2>2. QED
    BY <2>1
<1>w. PICK w \in Wrappers : w = <<d, s>>
  BY <1>2, <1>3 DEF Unmapping, Wrappers
<1>4. /\ w[1] = d /\ w[2] = s /\ OnStore(w) /\ w \in DOMAIN drive
      /\ d \in DOMAIN conn /\ main.todo \subseteq conn[d]
  BY <1>1, <1>3, <1>d, <1>w DEF Inv, SameStory, OnStore
<1>5. WorldOK' /\ PoolOK' /\ NumbersOK'
  BY <1>1 DEF Inv, Types, WorldOK, PoolOK, NumbersOK, Connections
<1>6. CASE /\ Mounted(w) /\ drive' = [drive EXCEPT ![w].status = "leaving"]
           /\ main' = [main EXCEPT !.step = "dtor", !.w = w] /\ UNCHANGED <<conn, fate>>
  <2>1. /\ DriveOK' /\ DOMAIN drive' = DOMAIN drive /\ LettersApart'
        /\ \A v \in DOMAIN drive : /\ drive'[v].letter = drive[v].letter
                                   /\ v # w => drive'[v].status = drive[v].status
    BY <1>4, <1>6, StatusStep DEF Statuses
  <2>2. main' \in Unmapping /\ main'.step = "dtor" /\ main'.w = w /\ main'.todo = main.todo
    BY <1>2, <1>6 DEF Unmapping
  <2>3. Destroying' /\ ~Building' /\ main' # Idle
    BY <2>2 DEF Destroying, Building, Idle
  <2>4. MainOK' /\ StoreOK' /\ FateOK'
    BY <1>1, <1>6, <2>2 DEF Inv, Types, MainOK, Unmapping, Wrappers, StoreOK, FateOK
  <2>5. \A v : OnStore(v)' <=> OnStore(v)
    BY <1>6 DEF OnStore
  <2>6. SameStory'
    <3>1. \A v \in Wrappers : v \in DOMAIN drive' <=> OnStore(v)'
      BY <1>1, <2>1, <2>5 DEF Inv, SameStory
    <3>2. OnStore(w)' /\ main'.w[1] \in DOMAIN conn' /\ main'.todo \subseteq conn'[main'.w[1]]
      BY <1>4, <1>6, <2>2, <2>5
    <3>3. QED
      BY <2>2, <2>3, <3>1, <3>2 DEF SameStory, OnStore, Wrappers
  <2>7. MountedUnlessEjected'
    <3>1. \A v \in Wrappers : OnStore(v) => v \in DOMAIN drive
      BY DEF Inv, SameStory
    <3>2. QED
      BY <1>1, <2>1, <2>2, <2>3, <2>5, <3>1 DEF Inv, MountedUnlessEjected, Wrappers
  <2>8. WhereSaid' /\ EndsBadlyOnlyAfterEject'
    BY <1>1, <1>6, <2>3 DEF WhereSaid, Inv, EndsBadlyOnlyAfterEject
  <2>9. QED
    BY <1>5, <2>1, <2>4, <2>6, <2>7, <2>8 DEF Inv, Types
<1>7. CASE /\ ~Mounted(w) /\ drive' = Restrict(drive, DOMAIN drive \ {w})
           /\ conn' = [conn EXCEPT ![d] = @ \ {s}]
           /\ main' = [main EXCEPT !.todo = @ \ {s}]
           /\ fate' = IF drive[w].status = "returning" THEN "freed" ELSE fate
  <2>1. /\ DriveOK' /\ LettersApart' /\ DOMAIN drive' = DOMAIN drive \ {w}
        /\ \A v \in DOMAIN drive \ {w} : drive'[v] = drive[v]
    BY <1>7, DeletedStep DEF Inv, Types
  <2>2. conn' = [conn EXCEPT ![w[1]] = @ \ {w[2]}]
    BY <1>4, <1>7
  <2>3. /\ StoreOK' /\ DOMAIN conn' = DOMAIN conn /\ conn'[d] = conn[d] \ {s}
        /\ \A v \in Wrappers : OnStore(v)' <=> OnStore(v) /\ v # w
    BY <1>1, <1>4, <1>7, <2>2, TakenFromStore
  <2>4. main' \in Unmapping /\ main'.step = "unmap" /\ main'.w = main.w /\ main'.todo = main.todo \ {s}
    BY <1>1, <1>2, <1>7 DEF Unmapping
  <2>5. ~Destroying' /\ ~Building' /\ main' # Idle
    BY <2>4 DEF Destroying, Building, Idle
  <2>6. ejects > 0
    <3>1. drive[w].status # "mounted"
      BY <1>7 DEF Mounted
    <3>2. QED
      BY <1>1, <1>4, <3>1 DEF Inv, MountedUnlessEjected
  <2>7. MainOK' /\ FateOK'
    BY <1>1, <1>7, <2>4 DEF Inv, Types, MainOK, Unmapping, Wrappers, FateOK
  <2>8. SameStory'
    <3>1. \A v \in Wrappers : v \in DOMAIN drive' <=> OnStore(v)'
      BY <1>1, <2>1, <2>3 DEF Inv, SameStory
    <3>2. main'.w[1] = d /\ d \in DOMAIN conn' /\ main'.todo \subseteq conn'[d]
      BY <1>4, <1>d, <2>3, <2>4
    <3>3. QED
      BY <2>4, <2>5, <3>1, <3>2 DEF SameStory, OnStore, Wrappers
  <2>9. MountedUnlessEjected' /\ WhereSaid' /\ EndsBadlyOnlyAfterEject'
    BY <1>1, <2>5, <2>6 DEF MountedUnlessEjected, WhereSaid, EndsBadlyOnlyAfterEject
  <2>10. QED
    BY <1>5, <2>1, <2>3, <2>7, <2>8, <2>9 DEF Inv, Types
<1>8. QED
  BY <1>3, <1>6, <1>7, <1>w

\* The destructor tests the status: it goes on waiting, or the wrapper is gone.
LEMMA DtorTestStep ==
  ASSUME Inv, DtorTest
  PROVE  Inv'
<1>1. /\ main.step = "dtor" /\ ~Building /\ Destroying
      /\ UNCHANGED <<plugged, locked, others, listed, pool, ids, answer, fate, missed, ejects>>
  BY DEF DtorTest, At, Building, Destroying, devices, provider, ghosts
<1>2. main \in Unmapping
  BY <1>1, MainIs DEF Inv, Types
<1>w. PICK w \in Wrappers : w = main.w
  BY <1>2 DEF Unmapping
<1>3. /\ OnStore(w) /\ w \in DOMAIN drive /\ w[1] \in DOMAIN conn /\ main.todo \subseteq conn[w[1]]
      /\ w = <<w[1], w[2]>>
  BY <1>1, <1>w DEF Inv, SameStory, Wrappers
<1>4. \/ main' = [main EXCEPT !.step = "dtorGap"] /\ UNCHANGED <<conn, drive>>
      \/ /\ drive' = Restrict(drive, DOMAIN drive \ {w})
         /\ conn' = [conn EXCEPT ![w[1]] = @ \ {w[2]}]
         /\ main' = [main EXCEPT !.step = "unmap", !.todo = @ \ {w[2]}]
  BY <1>w DEF DtorTest
<1>5. WorldOK' /\ PoolOK' /\ NumbersOK' /\ FateOK' /\ EndsBadlyOnlyAfterEject'
  BY <1>1 DEF Inv, Types, WorldOK, PoolOK, NumbersOK, Connections, FateOK, EndsBadlyOnlyAfterEject
<1>6. CASE main' = [main EXCEPT !.step = "dtorGap"] /\ UNCHANGED <<conn, drive>>
  <2>1. Turns
    BY <1>1, <1>6 DEF Turns
  <2>2. Types'
    BY <1>1, <1>5, <1>6, <2>1, TurnsKeep DEF Inv, Types, StoreOK, DriveOK, Wrappers, Drives
  <2>3. LettersApart'
    BY <1>6 DEF Inv, LettersApart, Mounted
  <2>4. QED
    BY <1>1, <1>6, <2>1, <2>2, <2>3, StatusesStep
<1>7. CASE /\ drive' = Restrict(drive, DOMAIN drive \ {w})
           /\ conn' = [conn EXCEPT ![w[1]] = @ \ {w[2]}]
           /\ main' = [main EXCEPT !.step = "unmap", !.todo = @ \ {w[2]}]
  <2>1. /\ DriveOK' /\ LettersApart' /\ DOMAIN drive' = DOMAIN drive \ {w}
        /\ \A v \in DOMAIN drive \ {w} : drive'[v] = drive[v]
    BY <1>7, DeletedStep DEF Inv, Types
  <2>2. /\ StoreOK' /\ DOMAIN conn' = DOMAIN conn /\ conn'[w[1]] = conn[w[1]] \ {w[2]}
        /\ \A v \in Wrappers : OnStore(v)' <=> OnStore(v) /\ v # w
    BY <1>1, <1>3, <1>7, TakenFromStore
  <2>3. main' \in Unmapping /\ main'.step = "unmap" /\ main'.w = w /\ main'.todo = main.todo \ {w[2]}
    BY <1>2, <1>7, <1>w DEF Unmapping
  <2>4. ~Destroying' /\ ~Building' /\ main' # Idle
    BY <2>3 DEF Destroying, Building, Idle
  <2>5. MainOK'
    BY <2>3 DEF MainOK, Unmapping, Wrappers
  <2>6. SameStory'
    <3>1. \A v \in Wrappers : v \in DOMAIN drive' <=> OnStore(v)'
      BY <1>1, <2>1, <2>2 DEF Inv, SameStory
    <3>2. main'.w[1] \in DOMAIN conn' /\ main'.todo \subseteq conn'[main'.w[1]]
      BY <1>3, <2>2, <2>3
    <3>3. QED
      BY <2>3, <2>4, <3>1, <3>2 DEF SameStory, OnStore, Wrappers
  <2>7. MountedUnlessEjected'
    <3>1. \A v \in Wrappers : OnStore(v)' => OnStore(v) /\ v \in DOMAIN drive \ {w}
      BY <2>2 DEF Inv, SameStory
    <3>2. \A v \in Wrappers : OnStore(v)' => drive'[v].status = "mounted" \/ ejects > 0
      BY <1>w, <2>1, <3>1 DEF Inv, MountedUnlessEjected
    <3>3. QED
      BY <1>1, <3>2 DEF MountedUnlessEjected, OnStore, Wrappers
  <2>8. WhereSaid'
    BY <2>4 DEF WhereSaid
  <2>9. QED
    BY <1>5, <2>1, <2>2, <2>5, <2>6, <2>7, <2>8 DEF Inv, Types
<1>8. QED
  BY <1>4, <1>6, <1>7

LEMMA UnmappedStep ==
  ASSUME Inv, Unmapped
  PROVE  Inv'
<1> DEFINE d == main.w[1]
<1>1. /\ main.step = "unmap" /\ main \in Unmapping
      /\ UNCHANGED <<plugged, locked, others, listed, pool, ids, drive, ejects>>
      /\ \/ GetDriveLettersThrows(d) /\ fate' = "crashed" /\ UNCHANGED <<main, answer, conn>>
         \/ /\ conn' = (IF conn[d] = {} THEN Closed(d) ELSE conn) /\ fate' = fate
            /\ main' = Idle /\ answer'.cmd = main.cmd
  BY MainIs DEF Unmapped, At, Crash, Answer, devices, provider, ghosts, Inv, Types
<1>2. ~Building /\ ~Destroying /\ d \in DOMAIN conn /\ main.cmd # "mount"
  BY <1>1 DEF Building, Destroying, Inv, SameStory, Unmapping
<1> HIDE DEF d
<1>3. WorldOK' /\ PoolOK' /\ NumbersOK' /\ DriveOK'
  BY <1>1 DEF Inv, Types, WorldOK, PoolOK, NumbersOK, Connections, DriveOK, Wrappers, Drives
<1>4. CASE GetDriveLettersThrows(d) /\ fate' = "crashed" /\ UNCHANGED <<main, answer, conn>>
  <2>1. ejects > 0
    BY <1>2, <1>4, ThrowsAfterEject
  <2>2. Types'
    BY <1>1, <1>3, <1>4 DEF Inv, Types, StoreOK, MainOK, Mounting, Unmapping, Wrappers, FateOK
  <2>3. QED
    BY <1>1, <1>4, <2>1, <2>2, AnsweredStep
<1>5. CASE /\ conn' = (IF conn[d] = {} THEN Closed(d) ELSE conn) /\ fate' = fate
           /\ main' = Idle /\ answer'.cmd = main.cmd
  <2>1. StoreOK' /\ \A w \in Wrappers : OnStore(w)' <=> OnStore(w)
    BY <1>1, <1>2, <1>5, ClosedStep
  <2>2. Types'
    BY <1>1, <1>3, <1>5, <2>1 DEF Inv, Types, MainOK, FateOK
  <2>3. QED
    BY <1>1, <1>2, <1>5, <2>1, <2>2, IdleStep
<1>6. QED
  BY <1>1, <1>4, <1>5

\* Between the test and the wait, and when the wait ends for nothing.
LEMMA WaitStep ==
  ASSUME Inv, FallAsleep \/ SpuriousWakeup
  PROVE  Inv'
<1>1. /\ UNCHANGED <<plugged, locked, others, listed, pool, conn, ids, drive, answer, fate, missed, ejects>>
      /\ \/ main.step \in {"ctorGap", "dtorGap"}
            /\ main' = [main EXCEPT !.step = IF @ = "ctorGap" THEN "ctorWait" ELSE "dtorWait"]
         \/ main.step \in {"ctorWait", "dtorWait"}
            /\ main' = [main EXCEPT !.step = IF @ = "ctorWait" THEN "ctor" ELSE "dtor"]
  BY DEF FallAsleep, SpuriousWakeup, At, devices, provider, store, ghosts
<1>2. Turns
  <2>1. CASE main.step \in {"ctorGap", "dtorGap"}
    BY <1>1, <2>1 DEF Turns, Building, Destroying
  <2>2. CASE main.step \in {"ctorWait", "dtorWait"}
    BY <1>1, <2>2 DEF Turns, Building, Destroying
  <2>3. QED
    BY <1>1, <2>1, <2>2
<1>3. MainOK'
  BY <1>2, TurnsKeep DEF Inv, Types
<1>4. Types'
  BY <1>1, <1>3 DEF Inv, Types, WorldOK, PoolOK, Connections, StoreOK, NumbersOK, DriveOK, Wrappers, Drives,
       FateOK
<1>5. LettersApart'
  BY <1>1 DEF Inv, LettersApart, Mounted
<1>6. QED
  BY <1>1, <1>2, <1>4, <1>5, StatusesStep

-----------------------------------------------------------------------------
(* list.                                                                   *)

LEMMA ListActiveStep ==
  ASSUME Inv, ListActive
  PROVE  Inv'
<1>1. main = Idle /\ UNCHANGED <<devices, provider, conn, drive>>
  BY DEF ListActive, Ready
<1>2. ~Destroying
  BY <1>1 DEF Idle, Destroying
<1>3. CASE \E d \in DOMAIN conn : GetDriveLettersThrows(d)
  <2>1. UNCHANGED <<main, answer, ids, ejects>> /\ fate' = "crashed"
    BY <1>3 DEF ListActive, Crash
  <2>2. ejects > 0
    BY <1>2, <1>3, ThrowsAfterEject
  <2>3. NumbersOK'
    BY <2>1 DEF Inv, Types, NumbersOK
  <2>4. QED
    BY <1>1, <2>1, <2>2, <2>3, AnsweredTypes, AnsweredStep
<1>4. CASE ~\E d \in DOMAIN conn : GetDriveLettersThrows(d)
  <2>1. /\ ToStorageEnum(UNION {{d} \X conn[d] : d \in DOMAIN conn})
        /\ Answer("list", "", "", 0, "ok") /\ UNCHANGED ghosts
    BY <1>4 DEF ListActive
  <2>2. main' = Idle /\ answer'.cmd = "list" /\ UNCHANGED <<fate, ejects>>
    BY <2>1 DEF Answer, ghosts
  <2>3. NumbersOK'
    BY <2>1, StoreNumbered
  <2>4. QED
    BY <1>1, <2>2, <2>3, AnsweredTypes, AnsweredStep
<1>5. QED
  BY <1>3, <1>4

\* Closing a connection that was open before leaves it counted as it was.
LEMMA ClosedAgain ==
  ASSUME PoolOK, NEW d, NEW p \in Connections
  PROVE  /\ d \in DOMAIN CloseConnectionToDevice(p, d) =>
              /\ p.ref - 1 >= 1
              /\ CloseConnectionToDevice(p, d)[d] \in Connections
         /\ p.ref - 1 >= 1 => d \in DOMAIN CloseConnectionToDevice(p, d)
<1> DEFINE q == [p EXCEPT !.ref = @ - 1]
<1>1. CASE p.ref - 1 < 1
  <2>1. d \notin DOMAIN CloseConnectionToDevice(p, d)
    BY <1>1 DEF CloseConnectionToDevice, Restrict
  <2>2. QED
    BY <1>1, <2>1 DEF Connections
<1>2. CASE ~(p.ref - 1 < 1)
  <2>1. p.ref \in Nat /\ p.ref - 1 >= 1
    BY <1>2 DEF Connections
  <2>2. q \in Connections
    BY <2>1 DEF Connections
  <2> HIDE DEF q
  <2>3. CloseConnectionToDevice(p, d) = Bind(pool, d, q)
    BY <1>2 DEF CloseConnectionToDevice, q
  <2>4. d \in DOMAIN Bind(pool, d, q) /\ Bind(pool, d, q)[d] = q
    BY DEF Bind
  <2>5. QED
    BY <2>1, <2>2, <2>3, <2>4
<1>3. QED
  BY <1>1, <1>2

LEMMA ListAvailableStep ==
  ASSUME Inv, ListAvailable
  PROVE  Inv'
<1> DEFINE there == {d \in listed' : d \in DOMAIN pool \/ d \in plugged}
           names(d) == GetMappableDriveNames(OpenConnectionToDevice(d), d, FALSE)
<1>0. PICK asked \in [there -> UNION {names(d) : d \in there}] :
        /\ \A d \in there : asked[d] \in names(d)
        /\ pool' = [d \in {d \in DOMAIN pool \cup there :
                            d \notin there \/ d \in DOMAIN CloseConnectionToDevice(asked[d], d)} |->
                     IF d \in there THEN CloseConnectionToDevice(asked[d], d)[d] ELSE pool[d]]
        /\ ToStorageEnum(UNION {{FriendlyName(d)} \X asked[d].found : d \in there})
  BY DEF ListAvailable
<1> DEFINE closed(d) == CloseConnectionToDevice(asked[d], d)
           media == UNION {{FriendlyName(d)} \X asked[d].found : d \in there}
<1>1. /\ main = Idle /\ listed' = Refreshed
      /\ UNCHANGED <<plugged, locked, others, conn, drive, fate, missed, ejects>>
      /\ main' = Idle /\ answer'.cmd = "list"
      /\ ToStorageEnum(media)
  BY <1>0 DEF ListAvailable, Ready, Answer, devices, ghosts
<1>2. /\ DOMAIN pool' = {d \in DOMAIN pool \cup there : d \notin there \/ d \in DOMAIN closed(d)}
      /\ \A d \in DOMAIN pool' : pool'[d] = IF d \in there THEN closed(d)[d] ELSE pool[d]
  BY <1>0
<1>3. listed' \subseteq Devices /\ there \subseteq Devices
  BY <1>1 DEF Inv, Types, WorldOK, Refreshed
<1>4. \A d \in there : /\ asked[d] \in Connections
                       /\ d \in DOMAIN pool => asked[d].ref = pool[d].ref + 1
  <2> SUFFICES ASSUME NEW d \in there
               PROVE  /\ asked[d] \in Connections
                      /\ d \in DOMAIN pool => asked[d].ref = pool[d].ref + 1
    OBVIOUS
  <2> DEFINE p == OpenConnectionToDevice(d)
  <2>1. p \in Connections
    BY OpenIsAConnection DEF Inv, Types
  <2>2. d \in DOMAIN pool => p.ref = pool[d].ref + 1
    BY DEF OpenConnectionToDevice, Inv, Types, PoolOK, Connections
  <2>3. asked[d] \in GetMappableDriveNames(p, d, FALSE)
    BY <1>0
  <2> HIDE DEF p
  <2>4. asked[d] \in Connections /\ asked[d].ref = p.ref
    BY <2>1, <2>3, AskedIsAConnection
  <2>5. QED
    BY <2>2, <2>4
<1>5. \A d \in there : d \in DOMAIN closed(d) => closed(d)[d] \in Connections
  BY <1>4, ClosedAgain DEF Inv, Types
<1>6. \A d \in DOMAIN pool : d \in there => d \in DOMAIN closed(d)
  <2> SUFFICES ASSUME NEW d \in DOMAIN pool, d \in there PROVE d \in DOMAIN closed(d)
    OBVIOUS
  <2>1. pool[d].ref \in Nat \ {0}
    BY DEF Inv, Types, PoolOK, Connections
  <2>2. asked[d] \in Connections /\ asked[d].ref - 1 >= 1
    BY <1>4, <2>1
  <2>3. QED
    BY <2>2, ClosedAgain DEF Inv, Types
<1>7. media \subseteq (Devices \cup {""}) \X Storages
  <2>1. \A d \in there : FriendlyName(d) \in Devices \cup {""} /\ asked[d].found \subseteq Storages
    BY <1>3, <1>4 DEF FriendlyName, Connections
  <2>2. \A d \in there : {FriendlyName(d)} \X asked[d].found \subseteq (Devices \cup {""}) \X Storages
    BY <2>1
  <2> HIDE DEF there
  <2>3. QED
    BY <2>2
<1> HIDE DEF closed, media
<1>8. NumbersOK'
  BY <1>1, <1>7, NumberedOnce DEF Inv, Types
<1>9. PoolOK' /\ DOMAIN pool \subseteq DOMAIN pool'
  <2>1. \A d \in DOMAIN pool' : pool'[d] \in Connections
    BY <1>2, <1>5 DEF Inv, Types, PoolOK
  <2>2. QED
    BY <1>2, <1>3, <1>6, <2>1 DEF Inv, Types, PoolOK, Connections
<1>10. Types'
  <2>1. WorldOK' /\ DriveOK' /\ MainOK' /\ FateOK'
    BY <1>1, <1>3 DEF Inv, Types, WorldOK, DriveOK, Wrappers, Drives, MainOK, FateOK
  <2>2. StoreOK'
    BY <1>1, <1>9 DEF Inv, Types, StoreOK
  <2>3. QED
    BY <1>8, <1>9, <2>1, <2>2 DEF Types
<1>11. QED
  BY <1>1, <1>10, AnsweredStep

-----------------------------------------------------------------------------
(* The threads of the drives, and the world.                               *)

LEMMA NotifyTurns ==
  ASSUME NEW w, Notify(w)
  PROVE  Turns
  BY DEF Notify, Turns, Building, Destroying

LEMMA DokanThreadStep ==
  ASSUME Inv, NEW w \in Wrappers, DokanThread(w)
  PROVE  Inv'
<1>1. /\ UNCHANGED <<plugged, locked, others, listed, pool, conn, ids, answer>>
      /\ w \in DOMAIN drive /\ (DokanMounted(w) \/ DokanReturns(w) \/ DokanThreadEnds(w))
  BY DEF DokanThread, devices, provider, store
<1>2. PICK status \in {"mounted", "returning", "unmounted"} :
        /\ drive' = [drive EXCEPT ![w].status = status]
        /\ Turns /\ UNCHANGED <<fate, ejects>> /\ drive[w].status # "mounted"
        /\ status = "mounted" => drive[w].letter \notin InUse
  <2>1. CASE DokanMounted(w)
    BY <2>1, NotifyTurns DEF DokanMounted
  <2>2. CASE DokanReturns(w)
    BY <2>2 DEF DokanReturns, Turns, ghosts
  <2>3. CASE DokanThreadEnds(w)
    BY <2>3, NotifyTurns DEF DokanThreadEnds
  <2>4. QED
    BY <1>1, <2>1, <2>2, <2>3
<1>3. status \in Statuses /\ (status \in {"mounted", "leaving"} => drive[w].letter \notin InUse)
  BY <1>2 DEF Statuses
<1>4. /\ DriveOK' /\ DOMAIN drive' = DOMAIN drive /\ LettersApart'
      /\ \A v \in DOMAIN drive : /\ drive'[v].letter = drive[v].letter
                                 /\ v # w => drive'[v].status = drive[v].status
  BY <1>1, <1>2, <1>3, StatusStep
<1>5. MainOK'
  BY <1>2, TurnsKeep DEF Inv, Types
<1>6. Types'
  BY <1>1, <1>2, <1>4, <1>5 DEF Inv, Types, WorldOK, PoolOK, Connections, StoreOK, NumbersOK, FateOK
<1>7. QED
  BY <1>1, <1>2, <1>4, <1>6, StatusesStep

\* What happens to devices and letters does not touch a drive.
LEMMA DevicesStep ==
  ASSUME Inv, UNCHANGED <<listed, store, main, answer, fate, drive, ejects>>, WorldOK', PoolOK',
         DOMAIN pool' = DOMAIN pool
  PROVE  Inv'
<1>1. Types'
  BY DEF Inv, Types, StoreOK, NumbersOK, DriveOK, Wrappers, Drives, MainOK, Mounting, Unmapping, FateOK, store
<1>2. QED
  BY <1>1, AnsweredStep DEF store

LEMMA WorldStep ==
  ASSUME Inv, World
  PROVE  Inv'
<1>1. UNCHANGED <<listed, store, main, answer, fate>>
  BY DEF World, Plug, PullOut, TurnLock, Others, Eject, Event
<1>2. ASSUME NEW d \in Devices, Plug(d) \/ TurnLock(d) PROVE Inv'
  <2>1. UNCHANGED <<pool, drive, ejects>> /\ WorldOK'
    BY <1>1, <1>2 DEF Plug, TurnLock, Inv, Types, WorldOK
  <2>2. PoolOK'
    BY <2>1 DEF Inv, Types, PoolOK, Connections
  <2>3. QED
    BY <1>1, <2>1, <2>2, DevicesStep
<1>3. ASSUME NEW d \in Devices, PullOut(d) PROVE Inv'
  <2>1. UNCHANGED <<drive, ejects>> /\ WorldOK'
    BY <1>1, <1>3 DEF PullOut, Inv, Types, WorldOK
  <2>2. DOMAIN pool' = DOMAIN pool /\ PoolOK'
    <3>1. pool' = [e \in DOMAIN pool |-> IF e = d THEN [pool[e] EXCEPT !.live = FALSE] ELSE pool[e]]
      BY <1>3 DEF PullOut
    <3>2. \A e \in DOMAIN pool : [pool[e] EXCEPT !.live = FALSE] \in Connections
      BY DEF Inv, Types, PoolOK, Connections
    <3>3. QED
      BY <3>1, <3>2 DEF Inv, Types, PoolOK, Connections
  <2>3. QED
    BY <1>1, <2>1, <2>2, DevicesStep
<1>4. ASSUME NEW l \in Letters, Others(l) PROVE Inv'
  <2>1. UNCHANGED <<pool, drive, ejects>> /\ WorldOK'
    BY <1>1, <1>4 DEF Others, Inv, Types, WorldOK, Letters
  <2>2. PoolOK'
    BY <2>1 DEF Inv, Types, PoolOK, Connections
  <2>3. QED
    BY <1>1, <2>1, <2>2, DevicesStep
<1>5. ASSUME NEW w \in Wrappers, Eject(w) PROVE Inv'
  <2>1. /\ w \in DOMAIN drive /\ drive' = [drive EXCEPT ![w].status = "returning"]
        /\ ejects' = ejects + 1 /\ UNCHANGED <<plugged, locked, others, pool>>
    BY <1>5 DEF Eject, devices
  <2>2. ejects \in Nat /\ ejects' \in Nat /\ ejects' > 0
    BY <2>1 DEF Inv, Types, FateOK
  <2>3. /\ DriveOK' /\ DOMAIN drive' = DOMAIN drive /\ LettersApart'
        /\ \A v \in DOMAIN drive : drive'[v].letter = drive[v].letter
    BY <2>1, StatusStep DEF Statuses
  <2>4. Types'
    BY <1>1, <2>1, <2>2, <2>3 DEF Inv, Types, WorldOK, PoolOK, Connections, StoreOK, NumbersOK, MainOK,
         Mounting, Unmapping, Wrappers, FateOK, store
  <2>5. QED
    BY <1>1, <2>2, <2>3, <2>4, StatusesStep DEF Turns, store
<1>6. QED
  BY <1>2, <1>3, <1>4, <1>5 DEF World, Wrappers

-----------------------------------------------------------------------------
(* The theorems.                                                           *)

LEMMA InitInv == Init => Inv
<1> SUFFICES ASSUME Init PROVE Inv
  OBVIOUS
<1>1. main.step = "idle" /\ DOMAIN pool = {} /\ DOMAIN conn = {} /\ DOMAIN drive = {} /\ DOMAIN ids = {}
  <2>1. DOMAIN <<>> = {}
    OBVIOUS
  <2>2. main = Idle /\ pool = <<>> /\ conn = <<>> /\ drive = <<>> /\ ids = <<>>
    BY DEF Init
  <2>3. QED
    BY <2>1, <2>2 DEF Idle
<1>2. NumbersOK
  <2>1. ids \in Seq((Devices \cup {""}) \X Storages)
    BY EmptySeq DEF Init
  <2>2. IsInjective(ids)
    BY <1>1 DEF IsInjective
  <2>3. QED
    BY <2>1, <2>2 DEF NumbersOK
<1>3. Types
  BY <1>1, <1>2 DEF Init, Types, WorldOK, PoolOK, StoreOK, DriveOK, MainOK, FateOK
<1>4. SameStory /\ MountedUnlessEjected /\ LettersApart /\ WhereSaid /\ EndsBadlyOnlyAfterEject
  BY <1>1 DEF Init, SameStory, MountedUnlessEjected, LettersApart, WhereSaid, EndsBadlyOnlyAfterEject,
       Building, Destroying, OnStore
<1>5. QED
  BY <1>3, <1>4 DEF Inv

LEMMA NextInv == Inv /\ [Next]_vars => Inv'
<1> SUFFICES ASSUME Inv, [Next]_vars PROVE Inv'
  OBVIOUS
<1>1. CASE Command
  BY <1>1, MountStep, MountRefusedStep, UnmountStep, UnmountLetterStep, UnplugStep, ListActiveStep,
     ListAvailableStep DEF Command
<1>2. CASE Go
  BY <1>2, CtorTestStep, MountFailedStep, DeleteWrapperStep, DtorTestStep, UnmappedStep, WaitStep DEF Go
<1>3. CASE SpuriousWakeup
  BY <1>3, WaitStep
<1>4. CASE DokanThreads
  BY <1>4, DokanThreadStep DEF DokanThreads, Wrappers
<1>5. CASE World
  BY <1>5, WorldStep
<1>6. CASE UNCHANGED vars
  <2>1. UNCHANGED <<devices, provider, store, drive, main, answer, ghosts>>
    BY <1>6 DEF vars
  <2>2. WorldOK' /\ PoolOK' /\ DOMAIN pool' = DOMAIN pool
    BY <2>1 DEF Inv, Types, WorldOK, PoolOK, Connections, devices, provider
  <2>3. QED
    BY <2>1, <2>2, DevicesStep DEF devices, provider, ghosts
<1>7. QED
  BY <1>1, <1>2, <1>3, <1>4, <1>5, <1>6 DEF Next

\* The store, the drives and the thread of the commands tell the same story, always.
THEOREM Invariance == Spec => []Inv
<1>1. Init => Inv
  BY InitInv
<1>2. Inv /\ [Next]_vars => Inv'
  BY NextInv
<1>3. QED
  BY <1>1, <1>2, PTL DEF Spec

\* Types, and every storage medium has one number.
THEOREM TypeCorrect == Spec => []TypeOK
<1>1. Inv => TypeOK
  <2> SUFFICES ASSUME Inv PROVE TypeOK
    OBVIOUS
  <2>1. main = Idle \/ (main.step \in Steps /\ main.w \in Devices \X Storages)
    BY DEF Inv, Types, MainOK, Mounting, Unmapping, Steps, Wrappers
  <2>2. \A d \in DOMAIN pool : pool[d] \in
          [ref : Nat, live : BOOLEAN, found : SUBSET Storages, empty : BOOLEAN, overlooked : SUBSET Storages]
    BY DEF Inv, Types, PoolOK, Connections
  <2>3. DOMAIN conn \subseteq Devices
    BY DEF Inv, Types, StoreOK, PoolOK
  <2>4. QED
    BY <2>1, <2>2, <2>3 DEF Inv, Types, TypeOK, WorldOK, PoolOK, StoreOK, NumbersOK, DriveOK, FateOK,
         Wrappers, Drives, Statuses
<1>2. QED
  BY <1>1, Invariance, PTL

\* The connection of a mounted device is open and counted: MtpConnectionProvider does
\* not delete it while MountAddressStore keeps it, whatever list and unmount do.
THEOREM ConnectionsAreCounted == Spec => []NoFreedConnection
<1>1. Inv => NoFreedConnection
  BY DEF Inv, Types, PoolOK, StoreOK, Connections, NoFreedConnection
<1>2. QED
  BY <1>1, Invariance, PTL

\* Only an ejected drive makes a command throw or a thread use a deleted wrapper.
THEOREM EndsBadly == Spec => []EndsBadlyOnlyAfterEject
<1>1. Inv => EndsBadlyOnlyAfterEject
  BY DEF Inv
<1>2. QED
  BY <1>1, Invariance, PTL

\* What mount reports the first time is mounted where it says; what it reports of a medium
\* that was mapped already names a letter where the drive is not; and no two drives have
\* one letter.
THEOREM WhereMountSays == Spec => []MountedWhereFirstSaid
<1>1. Inv => MountedWhereFirstSaid
  <2> SUFFICES ASSUME Inv PROVE MountedWhereFirstSaid
    OBVIOUS
  <2>1. ASSUME answer.cmd = "mount", answer.code = "ok", main = Idle
        PROVE  drive[<<answer.dev, answer.st>>].status = "mounted" \/ ejects > 0
    <3>1. answer.dev \in Devices /\ answer.st \in Storages
      BY <2>1 DEF Inv, WhereSaid, Types, StoreOK, PoolOK
    <3>2. <<answer.dev, answer.st>> \in Wrappers /\ OnStore(<<answer.dev, answer.st>>)
      BY <2>1, <3>1 DEF Inv, WhereSaid, OnStore, Wrappers
    <3>3. ~Destroying
      BY <2>1 DEF Idle, Destroying
    <3>4. QED
      BY <3>2, <3>3 DEF Inv, MountedUnlessEjected
  <2>2. QED
    BY <2>1 DEF MountedWhereFirstSaid, Inv, WhereSaid, LettersApart
<1>2. QED
  BY <1>1, Invariance, PTL

\* How a command ends, or goes on.
LEMMA Outcomes ==
  /\ \A cmd, d, s, l, code : Answer(cmd, d, s, l, code) => main' = Idle /\ answer'.code = code
  /\ \A cmd, d, todo : Unmap(cmd, d, todo) => main'.step = "unmap" /\ answer' = answer
  /\ Crash => main' = main /\ answer' = answer
  BY DEF Answer, Unmap, Crash

\* Only mount builds, and no command but mount goes on to fail.
LEMMA OtherCommands ==
  ASSUME Command
  PROVE  \/ \E d \in Devices, s \in Storages, l \in Letters \cup {0} : Mount(d, s, l)
         \/ /\ main' = Idle \/ main' = main \/ main'.step = "unmap"
            /\ answer' = answer \/ answer'.code # "unavailable"
<1> DEFINE Elsewise ==
      /\ main' = Idle \/ main' = main \/ main'.step = "unmap"
      /\ answer' = answer \/ answer'.code # "unavailable"
<1>1. ASSUME NEW d \in Devices, NEW s \in Storages, Unmount(d, s) PROVE Elsewise
  BY <1>1, Outcomes DEF Unmount
<1>2. ASSUME NEW d \in Devices, Unplug(d) PROVE Elsewise
  <2>1. CASE d \notin DOMAIN conn
    <3>1. Answer("unplug", d, "", 0, "closed")
      BY <1>2, <2>1 DEF Unplug
    <3>2. QED
      BY <3>1 DEF Answer
  <2>2. CASE d \in DOMAIN conn
    <3>1. Unmap("unplug", d, conn[d])
      BY <1>2, <2>2 DEF Unplug
    <3>2. QED
      BY <3>1, Outcomes
  <2>3. QED
    BY <2>1, <2>2
<1>3. ASSUME NEW l \in Letters, UnmountLetter(l) PROVE Elsewise
  <2>1. CASE \E w \in DOMAIN drive : Unmap("unmount", w[1], {w[2]})
    BY <2>1, Outcomes
  <2>2. CASE Crash
    BY <2>2, Outcomes
  <2>3. CASE Answer("unmount", "", "", l, "unmapped")
    BY <2>3 DEF Answer
  <2>4. QED
    BY <1>3, <2>1, <2>2, <2>3 DEF UnmountLetter
<1>4. ASSUME NEW d \in Devices, NEW s \in Storages, NEW l \in Letters \cup {0}, MountRefused(d, s, l)
      PROVE  Elsewise
  BY <1>4, Outcomes DEF MountRefused
<1>5. ASSUME ListActive PROVE Elsewise
  <2>1. Crash \/ Answer("list", "", "", 0, "ok")
    BY <1>5 DEF ListActive
  <2>2. ASSUME Answer("list", "", "", 0, "ok") PROVE Elsewise
    BY <2>2 DEF Answer
  <2>3. QED
    BY <2>1, <2>2, Outcomes
<1>6. ASSUME ListAvailable PROVE Elsewise
  <2>1. Answer("list", "", "", 0, "ok")
    BY <1>6 DEF ListAvailable
  <2>2. QED
    BY <2>1 DEF Answer
<1> HIDE DEF Elsewise
<1>7. Elsewise \/ \E d \in Devices, s \in Storages, l \in Letters \cup {0} : Mount(d, s, l)
  BY <1>1, <1>2, <1>3, <1>4, <1>5, <1>6 DEF Command
<1>8. QED
  BY <1>7 DEF Elsewise

\* mount does not find a medium only when the device does not show it, is gone, or its
\* list was read with a gap, although the connection may remember an earlier answer; and
\* what it reports as unavailable leaves no wrapper behind.
THEOREM UnavailableForAReason == Spec => NotFoundForAReason
<1> DEFINE Reason ==
      main = Idle /\ main' # Idle /\ main'.step = "failed" =>
        LET d == main'.w[1]
        IN d \in locked \/ ~pool'[d].live \/ main'.w[2] \in pool'[d].overlooked
    NoneLeft ==
      answer'.code = "unavailable" /\ answer' # answer => <<answer'.dev, answer'.st>> \notin DOMAIN drive'
<1>1. Inv /\ [Next]_vars => Reason
  <2> SUFFICES ASSUME Inv, [Next]_vars, main = Idle, main' # Idle, main'.step = "failed"
               PROVE  \/ main'.w[1] \in locked \/ ~pool'[main'.w[1]].live
                      \/ main'.w[2] \in pool'[main'.w[1]].overlooked
    BY Zenon
  <2>1. PICK d \in Devices, s \in Storages, l \in Letters \cup {0} : Mount(d, s, l)
    <3>1. ~World /\ ~DokanThreads /\ ~SpuriousWakeup /\ ~Go
      <4>1. main.step = "idle"
        BY DEF Idle
      <4>2. ~SpuriousWakeup /\ ~Go
        BY <4>1 DEF SpuriousWakeup, Go, At, CtorTest, MountFailed, DeleteWrapper, DtorTest, Unmapped, FallAsleep
      <4>3. World => main' = main
        BY DEF World, Plug, PullOut, TurnLock, Others, Eject, Event
      <4>4. DokanThreads => main' = main
        BY DEF DokanThreads, DokanThread, DokanMounted, DokanReturns, DokanThreadEnds, Notify
      <4>5. QED
        BY <4>2, <4>3, <4>4
    <3>2. Command
      BY <3>1 DEF Next, vars
    <3>3. QED
      BY <3>2, OtherCommands
  <2> DEFINE p == IF d \in DOMAIN conn THEN pool[d] ELSE OpenConnectionToDevice(d)
  <2>2. p \in Connections
    BY OpenIsAConnection DEF Inv, Types, PoolOK, StoreOK
  <2>3. PICK asked \in MapNewDrive(p, d, s) :
          s \notin asked.found /\ pool' = Bind(pool, d, asked) /\ main'.w = <<d, s>>
    BY <2>1 DEF Mount, AnswerAgain
  <2>4. pool'[d] = asked
    BY <2>3 DEF Bind
  <2> HIDE DEF p
  <2>5. d \in locked \/ ~asked.live \/ s \in asked.overlooked
    BY <2>2, <2>3, NotFoundIsTrue
  <2>6. QED
    BY <2>3, <2>4, <2>5
<1>2. Inv /\ [Next]_vars => NoneLeft
  <2> SUFFICES ASSUME Inv, [Next]_vars, answer'.code = "unavailable", answer' # answer
               PROVE  <<answer'.dev, answer'.st>> \notin DOMAIN drive'
    OBVIOUS
  <2>1. MountFailed
    <3>1. ~World /\ ~SpuriousWakeup
      BY DEF World, Plug, PullOut, TurnLock, Others, Eject, Event, SpuriousWakeup
    <3>2. ~DokanThreads
      BY DEF DokanThreads, DokanThread
    <3>3. ~Command
      <4>1. ASSUME NEW d, NEW s, NEW l, Mount(d, s, l) PROVE FALSE
        BY <4>1 DEF Mount, AnswerAgain
      <4>2. QED
        BY <4>1, OtherCommands
    <3>4. ~CtorTest /\ ~DeleteWrapper /\ ~DtorTest /\ ~FallAsleep
      <4>1. CtorTest => answer' = answer \/ answer'.code = "ok"
        BY Outcomes DEF CtorTest
      <4>2. QED
        BY <4>1 DEF DeleteWrapper, DtorTest, FallAsleep
    <3>5. ~Unmapped
      BY Outcomes DEF Unmapped
    <3>6. QED
      BY <3>1, <3>2, <3>3, <3>4, <3>5 DEF Next, vars, Go
  <2>2. /\ main.step = "failed" /\ drive' = drive
        /\ answer'.dev = main.w[1] /\ answer'.st = main.w[2]
    BY <2>1 DEF MountFailed, At, Answer, Crash
  <2>3. main.w \in Wrappers /\ main.w \notin DOMAIN drive /\ main.w = <<main.w[1], main.w[2]>>
    <3>1. main.w \in Wrappers
      BY <2>2, MainIs DEF Mounting, Inv, Types
    <3>2. QED
      BY <2>2, <3>1 DEF Inv, SameStory, Building, Wrappers
  <2>4. QED
    BY <2>2, <2>3
<1>3. QED
  BY <1>1, <1>2, Invariance, PTL DEF Spec, NotFoundForAReason
=============================================================================
