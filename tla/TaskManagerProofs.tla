-------------------------- MODULE TaskManagerProofs --------------------------
(***************************************************************************)
(* Theorems about TaskManager, for any types, file ids, sub keys,          *)
(* lifetimes and interval: nested dicts that are pruned as they empty are  *)
(* the flat table that TaskRegistry describes.                             *)
(***************************************************************************)
EXTENDS TaskManager, TLAPS

\* The entry of m under a key.
At(m, k) == m[k[1]][k[2]][k[3]]

\* No map in m is empty.
Pruned(m) == \A t \in DOMAIN m :
    DOMAIN m[t] # {} /\ \A f \in DOMAIN m[t] : DOMAIN m[t][f] # {}

-------------------------------------------------------------------------------
(* The keys of a nested dict.                                              *)

\* A key of m is one of its leaves.
LEMMA InKeys ==
  ASSUME NEW m, NEW t, NEW f, NEW s
  PROVE  <<t, f, s>> \in KeysOf(m) <=>
            t \in DOMAIN m /\ f \in DOMAIN m[t] /\ s \in DOMAIN m[t][f]
  BY DEF KeysOf

\* Its three parts lead to that leaf.
LEMMA KeyForm ==
  ASSUME NEW m, NEW k \in KeysOf(m)
  PROVE  /\ k = <<k[1], k[2], k[3]>>
         /\ k[1] \in DOMAIN m /\ k[2] \in DOMAIN m[k[1]] /\ k[3] \in DOMAIN m[k[1]][k[2]]
  BY DEF KeysOf

\* The dict starts without keys.
LEMMA EmptyHasNone == DOMAIN Empty = {} /\ KeysOf(Empty) = {} /\ Pruned(Empty)
  BY DEF Empty, KeysOf, Pruned

\* m[t][f][s] is set, whatever maps were there, and nothing else changes.
LEMMA InsertIs ==
  ASSUME NEW m, Pruned(m), NEW t, NEW f, NEW s, NEW e, NEW n, n = Insert(m, t, f, s, e)
  PROVE  /\ KeysOf(n) = KeysOf(m) \cup {<<t, f, s>>}
         /\ \A k \in KeysOf(n) : At(n, k) = IF k = <<t, f, s>> THEN e ELSE At(m, k)
         /\ Pruned(n)
  <1> DEFINE fileMap == GetMap(m, t)
             subMap  == GetMap(fileMap, f)
             newSubs == SetItem(subMap, s, e)
             newFiles == SetItem(fileMap, f, newSubs)
  <1>1. n = SetItem(m, t, newFiles)
    BY DEF Insert
  <1>2. /\ DOMAIN newSubs = DOMAIN subMap \cup {s}
        /\ newSubs[s] = e /\ \A x \in DOMAIN subMap : x # s => newSubs[x] = subMap[x]
    BY DEF SetItem
  <1>3. /\ DOMAIN newFiles = DOMAIN fileMap \cup {f}
        /\ newFiles[f] = newSubs
        /\ \A x \in DOMAIN fileMap : x # f => newFiles[x] = fileMap[x]
    BY DEF SetItem
  <1>4. /\ DOMAIN n = DOMAIN m \cup {t}
        /\ n[t] = newFiles /\ \A x \in DOMAIN m : x # t => n[x] = m[x]
    BY <1>1 DEF SetItem
  <1>5. /\ t \in DOMAIN m => fileMap = m[t]
        /\ t \notin DOMAIN m => DOMAIN fileMap = {}
        /\ f \in DOMAIN fileMap => subMap = fileMap[f]
        /\ f \notin DOMAIN fileMap => DOMAIN subMap = {}
    BY EmptyHasNone DEF GetMap
  <1> HIDE DEF fileMap, subMap, newSubs, newFiles
  <1>6. ASSUME NEW a, NEW b, NEW c
        PROVE  (a \in DOMAIN n /\ b \in DOMAIN n[a] /\ c \in DOMAIN n[a][b])
                 <=> \/ a \in DOMAIN m /\ b \in DOMAIN m[a] /\ c \in DOMAIN m[a][b]
                     \/ a = t /\ b = f /\ c = s
    BY <1>2, <1>3, <1>4, <1>5
  <1>7. ASSUME NEW a \in DOMAIN n, NEW b \in DOMAIN n[a], NEW c \in DOMAIN n[a][b]
        PROVE  n[a][b][c] = IF a = t /\ b = f /\ c = s THEN e ELSE m[a][b][c]
    BY <1>2, <1>3, <1>4, <1>5
  <1>8. Pruned(n)
    <2>1. ASSUME NEW a \in DOMAIN n
          PROVE  DOMAIN n[a] # {} /\ \A b \in DOMAIN n[a] : DOMAIN n[a][b] # {}
      <3>1. CASE a # t
        BY <1>4, <3>1 DEF Pruned
      <3>2. CASE a = t
        <4>1. n[a] = newFiles /\ f \in DOMAIN newFiles /\ s \in DOMAIN newFiles[f]
          BY <1>2, <1>3, <1>4, <3>2
        <4>2. ASSUME NEW b \in DOMAIN newFiles, b # f PROVE DOMAIN newFiles[b] # {}
          <5>1. t \in DOMAIN m /\ b \in DOMAIN m[t] /\ newFiles[b] = m[t][b]
            BY <1>3, <1>5, <4>2
          <5> QED
            BY <5>1 DEF Pruned
        <4> QED
          BY <4>1, <4>2
      <3> QED
        BY <3>1, <3>2
    <2> QED
      BY <2>1 DEF Pruned
  <1>9. KeysOf(n) = KeysOf(m) \cup {<<t, f, s>>}
    <2>1. ASSUME NEW k \in KeysOf(n) PROVE k \in KeysOf(m) \cup {<<t, f, s>>}
      <3>1. PICK a, b, c : k = <<a, b, c>> /\ a \in DOMAIN n /\ b \in DOMAIN n[a]
                                           /\ c \in DOMAIN n[a][b]
        BY KeyForm
      <3> QED
        BY <1>6, <3>1, InKeys
    <2>2. ASSUME NEW k \in KeysOf(m) PROVE k \in KeysOf(n)
      <3>1. PICK a, b, c : k = <<a, b, c>> /\ a \in DOMAIN m /\ b \in DOMAIN m[a]
                                           /\ c \in DOMAIN m[a][b]
        BY KeyForm
      <3> QED
        BY <1>6, <3>1, InKeys
    <2>3. <<t, f, s>> \in KeysOf(n)
      BY <1>6, InKeys
    <2> QED
      BY <2>1, <2>2, <2>3
  <1>10. ASSUME NEW k \in KeysOf(n)
         PROVE  At(n, k) = IF k = <<t, f, s>> THEN e ELSE At(m, k)
    <2>1. PICK a, b, c : k = <<a, b, c>> /\ a \in DOMAIN n /\ b \in DOMAIN n[a]
                                         /\ c \in DOMAIN n[a][b]
      BY KeyForm
    <2>2. At(n, k) = n[a][b][c] /\ At(m, k) = m[a][b][c]
      BY <2>1 DEF At
    <2>3. k = <<t, f, s>> <=> a = t /\ b = f /\ c = s
      BY <2>1
    <2> QED
      BY <1>7, <2>1, <2>2, <2>3
  <1> QED
    BY <1>8, <1>9, <1>10

\* The entries of K go, each map with the last of its entries; no other does.
LEMMA WithoutIs ==
  ASSUME NEW m, NEW K, NEW n, n = Without(m, K)
  PROVE  /\ KeysOf(n) = KeysOf(m) \ K
         /\ \A k \in KeysOf(n) : At(n, k) = At(m, k)
         /\ Pruned(n)
  <1>1. /\ DOMAIN n = {u \in DOMAIN m : FilesLeft(m, K, u) # {}}
        /\ \A t \in DOMAIN n : n[t] = [f \in FilesLeft(m, K, t) |->
                                         [s \in SubsLeft(m, K, t, f) |-> m[t][f][s]]]
    BY DEF Without
  <1>2. \A t \in DOMAIN n :
           /\ DOMAIN n[t] = FilesLeft(m, K, t)
           /\ \A f \in DOMAIN n[t] : n[t][f] = [s \in SubsLeft(m, K, t, f) |-> m[t][f][s]]
    BY <1>1
  <1>3. \A t \in DOMAIN n : \A f \in DOMAIN n[t] :
           /\ DOMAIN n[t][f] = SubsLeft(m, K, t, f)
           /\ \A s \in DOMAIN n[t][f] : n[t][f][s] = m[t][f][s]
    BY <1>2
  <1>4. ASSUME NEW a, NEW b, NEW c
        PROVE  (a \in DOMAIN n /\ b \in DOMAIN n[a] /\ c \in DOMAIN n[a][b])
                 <=> /\ a \in DOMAIN m /\ b \in DOMAIN m[a] /\ c \in DOMAIN m[a][b]
                     /\ <<a, b, c>> \notin K
    <2>1. ASSUME a \in DOMAIN n, b \in DOMAIN n[a], c \in DOMAIN n[a][b]
          PROVE  /\ a \in DOMAIN m /\ b \in DOMAIN m[a] /\ c \in DOMAIN m[a][b]
                 /\ <<a, b, c>> \notin K
      <3>1. a \in DOMAIN m /\ b \in FilesLeft(m, K, a) /\ c \in SubsLeft(m, K, a, b)
        BY <1>1, <1>2, <1>3, <2>1
      <3>2. b \in DOMAIN m[a]
        BY <3>1 DEF FilesLeft
      <3> QED
        BY <3>1, <3>2 DEF SubsLeft
    <2>2. ASSUME a \in DOMAIN m, b \in DOMAIN m[a], c \in DOMAIN m[a][b], <<a, b, c>> \notin K
          PROVE  a \in DOMAIN n /\ b \in DOMAIN n[a] /\ c \in DOMAIN n[a][b]
      <3>1. c \in SubsLeft(m, K, a, b)
        BY <2>2 DEF SubsLeft
      <3>2. b \in FilesLeft(m, K, a)
        BY <2>2, <3>1 DEF FilesLeft
      <3> QED
        BY <1>1, <1>2, <1>3, <2>2, <3>1, <3>2
    <2> QED
      BY <2>1, <2>2
  <1>5. Pruned(n)
    BY <1>1, <1>2, <1>3 DEF Pruned, FilesLeft
  <1>6. KeysOf(n) = KeysOf(m) \ K
    <2>1. ASSUME NEW k \in KeysOf(n) PROVE k \in KeysOf(m) \ K
      <3>1. PICK a, b, c : k = <<a, b, c>> /\ a \in DOMAIN n /\ b \in DOMAIN n[a]
                                           /\ c \in DOMAIN n[a][b]
        BY KeyForm
      <3> QED
        BY <1>4, <3>1, InKeys
    <2>2. ASSUME NEW k \in KeysOf(m) \ K PROVE k \in KeysOf(n)
      <3>1. PICK a, b, c : k = <<a, b, c>> /\ a \in DOMAIN m /\ b \in DOMAIN m[a]
                                           /\ c \in DOMAIN m[a][b]
        BY KeyForm
      <3> QED
        BY <1>4, <3>1, InKeys
    <2> QED
      BY <2>1, <2>2
  <1>7. ASSUME NEW k \in KeysOf(n) PROVE At(n, k) = At(m, k)
    <2>1. PICK a, b, c : k = <<a, b, c>> /\ a \in DOMAIN n /\ b \in DOMAIN n[a]
                                         /\ c \in DOMAIN n[a][b]
      BY KeyForm
    <2> QED
      BY <1>3, <2>1 DEF At
  <1> QED
    BY <1>5, <1>6, <1>7

-------------------------------------------------------------------------------
(* The invariant: every entry expires after the last round of the loop, and *)
(* the next round is due within one interval.                               *)

Entries == [task : Instances, expiry : Nat]

Shape == /\ KeysOf(tasks) \subseteq Types \X Files \X Subs
         /\ \A k \in KeysOf(tasks) : At(tasks, k) \in Entries
         /\ Pruned(tasks)

Clock == now \in Nat /\ wakeAt \in Nat /\ now <= wakeAt /\ wakeAt <= now + Interval

Fresh == \A k \in KeysOf(tasks) : wakeAt < At(tasks, k).expiry + Interval

Inv == Shape /\ Clock /\ Fresh

\* An entry that was registered is the new one, in the old ones' midst.
LEMMA CreateInv ==
  ASSUME Inv, NEW t \in Types, NEW f \in Files, NEW s \in Subs, NEW x \in Instances,
         NEW ttl \in Ttls \cup {None}, create_task(t, f, s, x, ttl)
  PROVE  Inv'
  <1>1. PICK life \in Nat \ {0} : life = Lifetime(ttl)
    BY ManagerAssumption DEF Lifetime
  <1>2. PICK e \in Entries : e = [task |-> x, expiry |-> now + life] /\ e.expiry = now + life
    <2>1. PICK late \in Nat : late = now + life
      BY DEF Inv, Clock
    <2>2. [task |-> x, expiry |-> late] \in Entries
      BY DEF Entries
    <2> QED
      BY <2>1, <2>2
  <1>3. PICK n : n = tasks'
    OBVIOUS
  <1>4. n = Insert(tasks, t, f, s, e) /\ UNCHANGED <<now, wakeAt>>
    BY <1>1, <1>2, <1>3 DEF create_task
  <1>5. /\ KeysOf(n) = KeysOf(tasks) \cup {<<t, f, s>>}
        /\ \A k \in KeysOf(n) : At(n, k) = IF k = <<t, f, s>> THEN e ELSE At(tasks, k)
        /\ Pruned(n)
    <2>1. PICK m : m = tasks
      OBVIOUS
    <2> QED
      BY <1>4, <2>1, InsertIs DEF Inv, Shape
  <1>6. Shape'
    <2>1. <<t, f, s>> \in Types \X Files \X Subs
      OBVIOUS
    <2> QED
      BY <1>3, <1>5, <2>1 DEF Inv, Shape
  <1>7. Clock'
    BY <1>4 DEF Inv, Clock
  <1>8. Fresh'
    <2>1. wakeAt < e.expiry + Interval
      BY <1>2, ManagerAssumption DEF Inv, Clock
    <2> QED
      BY <1>3, <1>4, <1>5, <2>1 DEF Inv, Fresh
  <1> QED
    BY <1>6, <1>7, <1>8 DEF Inv

\* Entries are taken away.
LEMMA LessInv ==
  ASSUME Inv, NEW K, tasks' = Without(tasks, K)
  PROVE  /\ Shape'
         /\ KeysOf(tasks') = KeysOf(tasks) \ K
         /\ \A k \in KeysOf(tasks') : At(tasks', k) = At(tasks, k)
  <1>1. PICK m, n : m = tasks /\ n = tasks'
    OBVIOUS
  <1>2. /\ KeysOf(n) = KeysOf(m) \ K
        /\ \A k \in KeysOf(n) : At(n, k) = At(m, k)
        /\ Pruned(n)
    BY <1>1, WithoutIs
  <1> QED
    BY <1>1, <1>2 DEF Inv, Shape

\* A round of the loop takes away whatever has expired.
LEMMA RoundInv ==
  ASSUME Inv, _cleanup_task
  PROVE  Inv'
  <1>1. tasks' = Without(tasks, ExpiredKeys) /\ wakeAt' = now + Interval /\ now' = now
    BY DEF _cleanup_task
  <1>2. /\ Shape'
        /\ KeysOf(tasks') = KeysOf(tasks) \ ExpiredKeys
        /\ \A k \in KeysOf(tasks') : At(tasks', k) = At(tasks, k)
    <2>1. PICK K : K = ExpiredKeys
      OBVIOUS
    <2> QED
      BY <1>1, <2>1, LessInv
  <1>3. Clock'
    BY <1>1, ManagerAssumption DEF Inv, Clock
  <1>4. ASSUME NEW k \in KeysOf(tasks') PROVE wakeAt' < At(tasks', k).expiry + Interval
    <2>1. k \in KeysOf(tasks) /\ k \notin ExpiredKeys
      BY <1>2
    <2>2. ~(At(tasks, k).expiry <= now)
      BY <2>1 DEF ExpiredKeys, At
    <2>3. At(tasks, k).expiry \in Nat
      BY <2>1 DEF Inv, Shape, Entries
    <2> QED
      BY <1>1, <1>2, <2>2, <2>3, ManagerAssumption DEF Inv, Clock
  <1> QED
    BY <1>2, <1>3, <1>4 DEF Inv, Fresh

\* Every step keeps the invariant.
LEMMA NextInv == Inv /\ [Next]_vars => Inv'
  <1> SUFFICES ASSUME Inv, [Next]_vars PROVE Inv'
    OBVIOUS
  <1>1. ASSUME NEW t \in Types, NEW f \in Files, NEW s \in Subs, remove_task(t, f, s)
        PROVE  Inv'
    <2>1. tasks' = Without(tasks, {<<t, f, s>>}) /\ UNCHANGED <<now, wakeAt>>
      BY <1>1 DEF remove_task
    <2>2. /\ Shape'
          /\ KeysOf(tasks') = KeysOf(tasks) \ {<<t, f, s>>}
          /\ \A k \in KeysOf(tasks') : At(tasks', k) = At(tasks, k)
      BY <2>1, LessInv
    <2>3. Clock'
      BY <2>1 DEF Inv, Clock
    <2> QED
      BY <2>1, <2>2, <2>3 DEF Inv, Fresh
  <1>2. CASE Tick
    BY <1>2, ManagerAssumption DEF Tick, Inv, Shape, Clock, Fresh
  <1>3. CASE UNCHANGED vars
    BY <1>3 DEF vars, Inv, Shape, Clock, Fresh
  <1> QED
    BY <1>1, <1>2, <1>3, CreateInv, RoundInv DEF Next

\* It holds of the empty dict.
LEMMA InitInv == Init => Inv
  <1> SUFFICES ASSUME Init PROVE Inv
    OBVIOUS
  <1>1. KeysOf(tasks) = {} /\ Pruned(tasks)
    BY EmptyHasNone DEF Init
  <1> QED
    BY <1>1, ManagerAssumption DEF Init, Inv, Shape, Clock, Fresh

-------------------------------------------------------------------------------
(* The theorems.                                                           *)

\* Every reachable state satisfies the invariant.
THEOREM Invariance == Spec => []Inv
  BY InitInv, NextInv, PTL DEF Spec

\* Keys and entries stay what they are registered as.
THEOREM TypeCorrect == Spec => []TypeOK
  <1>1. Inv => TypeOK
    BY DEF Inv, Shape, Clock, Entries, At, TypeOK
  <1> QED
    BY <1>1, Invariance, PTL

\* However entries come and go, no empty map stays behind.
THEOREM NothingLeaks == Spec => []NoEmptyMaps
  <1>1. Inv => NoEmptyMaps
    BY EmptyHasNone DEF Inv, Shape, Pruned, NoEmptyMaps
  <1> QED
    BY <1>1, Invariance, PTL

\* An expired entry is readable for less than one interval of the loop.
THEOREM EntriesExpire == Spec => []NoOverstay
  <1>1. ASSUME Inv, NEW t \in Types, NEW f \in Files, NEW s \in Subs,
               get_task(t, f, s) # None
        PROVE  now < tasks[t][f][s].expiry + Interval
    <2>1. t \in DOMAIN tasks /\ f \in DOMAIN tasks[t] /\ s \in DOMAIN tasks[t][f]
      BY <1>1, EmptyHasNone DEF get_task, GetMap
    <2>2. PICK k \in KeysOf(tasks) : k = <<t, f, s>>
      BY <2>1, InKeys
    <2>3. At(tasks, k) = tasks[t][f][s]
      BY <2>2 DEF At
    <2>4. wakeAt < tasks[t][f][s].expiry + Interval /\ tasks[t][f][s].expiry \in Nat
      BY <1>1, <2>3 DEF Inv, Fresh, Shape, Entries
    <2> QED
      BY <1>1, <2>4, ManagerAssumption DEF Inv, Clock
  <1>2. Inv => NoOverstay
    BY <1>1 DEF NoOverstay
  <1> QED
    BY <1>2, Invariance, PTL

-------------------------------------------------------------------------------
(* The refinement: every step is one of the flat table's.                  *)

\* The table that the mapping describes.
LEMMA FlatIs ==
  /\ DOMAIN Flat = KeysOf(tasks)
  /\ \A k \in KeysOf(tasks) : Flat[k] = At(tasks, k)
  /\ Flat = [k \in KeysOf(tasks) |-> At(tasks, k)]
  BY DEF Flat, At

\* The empty dict is the empty table.
LEMMA InitMaps == Init => TR!RegistryInit
  <1> SUFFICES ASSUME Init PROVE TR!RegistryInit
    OBVIOUS
  <1>1. KeysOf(tasks) = {}
    BY EmptyHasNone DEF Init
  <1>2. Flat = [k \in {} |-> TR!Entry(k, 0)]
    BY <1>1, FlatIs
  <1> QED
    BY <1>2 DEF Init, TR!RegistryInit

\* create_task registers one entry of it.
LEMMA CreateMaps ==
  ASSUME Inv, NEW t \in Types, NEW f \in Files, NEW s \in Subs, NEW x \in Instances,
         NEW ttl \in Ttls \cup {None}, create_task(t, f, s, x, ttl)
  PROVE  \E k \in Types \X Files \X Subs : TR!Put(k)
  <1>1. PICK k \in Types \X Files \X Subs : k = <<t, f, s>>
    OBVIOUS
  <1>2. PICK life \in Ttls \cup {DefaultTtl} : life = Lifetime(ttl)
    BY DEF Lifetime
  <1>3. PICK e : e = [task |-> x, expiry |-> now + life]
    OBVIOUS
  <1>4. PICK m, n : m = tasks /\ n = tasks'
    OBVIOUS
  <1>5. n = Insert(m, t, f, s, e) /\ UNCHANGED now
    BY <1>2, <1>3, <1>4 DEF create_task
  <1>6. /\ KeysOf(n) = KeysOf(m) \cup {k}
        /\ \A j \in KeysOf(n) : At(n, j) = IF j = k THEN e ELSE At(m, j)
    <2>1. Pruned(m)
      BY <1>4 DEF Inv, Shape
    <2> QED
      BY <1>1, <1>5, <2>1, InsertIs
  <1>7. Flat' = [j \in DOMAIN Flat \cup {k} |-> IF j = k THEN e ELSE Flat[j]]
    <2>1. Flat' = [j \in KeysOf(n) |-> At(n, j)]
      BY <1>4, FlatIs DEF Flat, At
    <2>2. DOMAIN Flat = KeysOf(m) /\ \A j \in KeysOf(m) : Flat[j] = At(m, j)
      BY <1>4, FlatIs
    <2>3. KeysOf(n) = DOMAIN Flat \cup {k}
      BY <1>6, <2>2
    <2>4. \A j \in DOMAIN Flat \cup {k} : At(n, j) = IF j = k THEN e ELSE Flat[j]
      BY <1>6, <2>2
    <2> QED
      BY <2>1, <2>3, <2>4
  <1> QED
    BY <1>3, <1>5, <1>7 DEF TR!Put, TR!Entry

\* Without is the flat table without the keys.
LEMMA WithoutMaps ==
  ASSUME NEW K, tasks' = Without(tasks, K)
  PROVE  Flat' = [j \in DOMAIN Flat \ K |-> Flat[j]]
  <1>1. PICK m, n : m = tasks /\ n = tasks'
    OBVIOUS
  <1>2. KeysOf(n) = KeysOf(m) \ K /\ \A k \in KeysOf(n) : At(n, k) = At(m, k)
    BY <1>1, WithoutIs
  <1>3. Flat' = [j \in KeysOf(n) |-> At(n, j)]
    BY <1>1 DEF Flat, At
  <1>4. DOMAIN Flat = KeysOf(m) /\ \A j \in KeysOf(m) : Flat[j] = At(m, j)
    BY <1>1, FlatIs
  <1>5. KeysOf(n) = DOMAIN Flat \ K /\ \A j \in DOMAIN Flat \ K : At(n, j) = Flat[j]
    BY <1>2, <1>4
  <1> QED
    BY <1>3, <1>5

\* Every step is one of the table, or none.
LEMMA NextMaps == Inv /\ [Next]_vars => [TR!RegistryNext]_TR!rvars
  <1> SUFFICES ASSUME Inv, [Next]_vars PROVE [TR!RegistryNext]_TR!rvars
    OBVIOUS
  <1>1. ASSUME NEW t \in Types, NEW f \in Files, NEW s \in Subs, remove_task(t, f, s)
        PROVE  \E k \in Types \X Files \X Subs : TR!Drop(k)
    <2>1. PICK k \in Types \X Files \X Subs : k = <<t, f, s>>
      OBVIOUS
    <2>2. tasks' = Without(tasks, {k}) /\ UNCHANGED now
      BY <1>1, <2>1 DEF remove_task
    <2>3. Flat' = [j \in DOMAIN Flat \ {k} |-> Flat[j]]
      BY <2>2, WithoutMaps
    <2> QED
      BY <2>2, <2>3 DEF TR!Drop
  <1>2. CASE _cleanup_task
    <2>1. PICK K : K = ExpiredKeys
      OBVIOUS
    <2>2. Flat' = [j \in DOMAIN Flat \ K |-> Flat[j]]
      BY <1>2, <2>1, WithoutMaps DEF _cleanup_task
    <2>3. K = TR!Expired(Flat)
      BY <2>1, FlatIs DEF ExpiredKeys, TR!Expired, At
    <2> QED
      BY <1>2, <2>2, <2>3 DEF TR!RegistryNext, TR!Sweep, _cleanup_task
  <1>3. CASE Tick
    BY <1>3 DEF Tick, TR!RegistryNext, TR!Tick, Flat
  <1>4. CASE UNCHANGED vars
    BY <1>4 DEF vars, TR!rvars, Flat
  <1>5. ASSUME NEW t \in Types, NEW f \in Files, NEW s \in Subs, NEW x \in Instances,
               NEW ttl \in Ttls \cup {None}, create_task(t, f, s, x, ttl)
        PROVE  TR!RegistryNext
    BY <1>5, CreateMaps DEF TR!RegistryNext
  <1> QED
    BY <1>1, <1>2, <1>3, <1>4, <1>5 DEF Next, TR!RegistryNext

\* The nested dict is, for its callers, the flat table of TaskRegistry: no
\* call, and no round of the loop, touches the entry of another key.
THEOREM Implements == Spec => ImplementsRegistry
  BY InitMaps, NextMaps, Invariance, PTL DEF Spec, ImplementsRegistry, TR!RegistrySpec
===============================================================================
