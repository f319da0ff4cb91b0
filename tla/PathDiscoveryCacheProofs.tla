---------------------- MODULE PathDiscoveryCacheProofs ----------------------
(***************************************************************************)
(* The path discovery cache keeps its types and the order of its lists, and  *)
(* implements the map of PathCache, for every set of pairs, amounts, account *)
(* limits and paths.                                                         *)
(***************************************************************************)
EXTENDS PathDiscoveryCache, DataLemmas

(* Requests for less than 2^53 units: their amounts survive `as f64`. *)
Representable == \A a \in Amounts : F64(a) = a

Buckets == {Bucket(m) : m \in MaxAccounts}

(* The list insert finds for a key. *)
ListOf(k) == IF cache[k] = None THEN <<>> ELSE cache[k]

NewEntry(a, m, t, p) ==
    [timestamp |-> t, in_amount |-> F64(a), max_account |-> Bucket(m), edges |-> p]

LEMMA EntryKeys == Keyed(Entry) /\ \A x \in Entry : x.timestamp \in Nat /\ x.edges \in Paths
  <1>1. \A a \in Amounts : F64(a) \in Int
    BY CacheAssumption DEF F64
  <1>2. \A m \in MaxAccounts : Bucket(m) \in Int
    BY CacheAssumption DEF Bucket
  <1> QED
    BY <1>1, <1>2 DEF Keyed, Entry

(* insert, as one list replaced by another. *)
LEMMA InsertList ==
    ASSUME TypeOK, NEW k \in Keys, NEW a \in Amounts, NEW m \in MaxAccounts,
           NEW t \in Nat, NEW p \in Paths, CacheInsert(k, a, m, t, p)
    PROVE  /\ ListOf(k) \in Seq(Entry) /\ NewEntry(a, m, t, p) \in Entry
           /\ \E pos \in SearchPositions(ListOf(k), <<a, Bucket(m)>>) :
                 /\ Inserted(ListOf(k), pos, a, NewEntry(a, m, t, p)) \in Seq(Entry)
                 /\ cache' = [cache EXCEPT ![k] =
                                 Inserted(ListOf(k), pos, a, NewEntry(a, m, t, p))]
  <1> DEFINE s == ListOf(k)  x == NewEntry(a, m, t, p)
  <1>1. s \in Seq(Entry)
    BY DEF ListOf, TypeOK
  <1>2. x \in Entry /\ x.max_account = Bucket(m)
    BY DEF Entry, NewEntry
  <1>3. PICK pos \in SearchPositions(s, <<a, x.max_account>>) :
           cache' = [cache EXCEPT ![k] = Inserted(s, pos, a, x)]
    BY DEF CacheInsert, ListOf, NewEntry
  <1> HIDE DEF s, x
  <1>4. Inserted(s, pos, a, x) \in Seq(Entry)
    BY <1>1, <1>2, InsertedElements
  <1> QED
    BY <1>1, <1>2, <1>3, <1>4 DEF s, x

(* get answers with cached paths. *)
LEMMA GetAnswers ==
    ASSUME TypeOK, NEW k \in Keys, NEW a, NEW m
    PROVE  CacheGet(k, a, m) \in [lower : Paths \union {None}, upper : Paths \union {None}]
  <1>1. CASE cache[k] = None
    BY <1>1 DEF CacheGet
  <1>2. CASE cache[k] # None
    <2> DEFINE s == Retained(cache[k], now)
    <2>1. cache[k] \in Seq(Entry)
      BY <1>2 DEF TypeOK
    <2>2. s \in Seq(Entry)
      BY <2>1, RetainedProperties
    <2>3. CacheGet(k, a, m) = Lookup(s, a, Bucket(m))
      BY <1>2 DEF CacheGet
    <2> HIDE DEF s
    <2>4. PICK lower, upper :
              /\ Lookup(s, a, Bucket(m)) = [lower |-> lower, upper |-> upper]
              /\ lower = None \/ \E x \in Range(s) : lower = x.edges
              /\ upper = None \/ \E x \in Range(s) : upper = x.edges
      BY <2>2, LookupIsCached
    <2>5. \A x \in Range(s) : x \in Entry
      BY <2>2 DEF Range
    <2>6. lower \in Paths \union {None} /\ upper \in Paths \union {None}
      BY <2>4, <2>5, EntryKeys
    <2> QED BY <2>3, <2>4, <2>6
  <1> QED
    BY <1>1, <1>2

(* Every step keeps the types. *)
LEMMA TypeStep == TypeOK /\ [Next]_vars => TypeOK'
  <1> SUFFICES ASSUME TypeOK, [Next]_vars PROVE TypeOK'
    OBVIOUS
  <1>1. \A s \in Seq(Entry) : \A t : Retained(s, t) \in Seq(Entry)
    BY RetainedProperties
  <1>2. \A s \in Seq(Entry) : \A b : WithoutBucket(s, b) \in Seq(Entry)
    BY WithoutBucketProperties
  <1>3. CASE UNCHANGED vars
    BY <1>3 DEF vars, TypeOK
  <1>4. ASSUME NEW k \in Keys, NEW a \in Amounts, NEW m \in MaxAccounts, NEW p \in Paths,
               NEW t \in (now - MaxSearch .. now) \intersect Nat, Insert(k, a, m, t, p)
        PROVE  TypeOK'
    <2>1. PICK s \in Seq(Entry) : cache' = [cache EXCEPT ![k] = s]
      BY <1>4, InsertList DEF Insert
    <2>2. cache' \in [Keys -> Seq(Entry) \union {None}]
      BY <2>1 DEF TypeOK
    <2> QED BY <1>4, <2>2 DEF Insert, TypeOK
  <1>5. ASSUME NEW k \in Keys, NEW a \in Amounts, NEW m \in MaxAccounts, Get(k, a, m)
        PROVE  TypeOK'
    <2>1. answer' \in [lower : Paths \union {None}, upper : Paths \union {None}]
      BY <1>5, GetAnswers DEF Get
    <2>2. cache' \in [Keys -> Seq(Entry) \union {None}]
      BY <1>1, <1>5 DEF Get, CacheExpireKey, TypeOK
    <2> QED BY <1>5, <2>1, <2>2 DEF Get, TypeOK
  <1>6. ASSUME NEW pair \in Pairs, NEW m \in MaxAccounts, Invalidate(pair, m)
        PROVE  TypeOK'
    <2>1. cache' \in [Keys -> Seq(Entry) \union {None}]
      BY <1>2, <1>6 DEF Invalidate, CacheInvalidate, TypeOK
    <2> QED BY <1>6, <2>1 DEF Invalidate, TypeOK
  <1>7. CASE ExpireOld
    <2>1. cache' \in [Keys -> Seq(Entry) \union {None}]
      BY <1>1, <1>7 DEF ExpireOld, CacheExpire, TypeOK
    <2> QED BY <1>7, <2>1 DEF ExpireOld, CacheExpire, TypeOK
  <1>8. CASE Tick
    BY <1>8 DEF Tick, TypeOK
  <1>9. CASE SetBack
    BY <1>9 DEF SetBack, TypeOK
  <1>10. CASE Poisoned
    BY <1>10 DEF Poisoned, vars, TypeOK
  <1> QED
    BY <1>3, <1>4, <1>5, <1>6, <1>7, <1>8, <1>9, <1>10 DEF Next

LEMMA TypeInit == Init => TypeOK
  <1> SUFFICES ASSUME Init PROVE TypeOK
    OBVIOUS
  <1>1. cache \in [Keys -> Seq(Entry) \union {None}]
    BY DEF Init
  <1> QED
    BY <1>1 DEF Init, TypeOK

(* PathDiscoveryCache keeps its types. *)
THEOREM CacheTypes == Spec => []TypeOK
  BY TypeInit, TypeStep, PTL DEF Spec

-----------------------------------------------------------------------------
(* Every step keeps the lists sorted. *)
LEMMA SortedStep ==
    ASSUME Representable
    PROVE  TypeOK /\ EntriesSorted /\ [Next]_vars => EntriesSorted'
  <1> SUFFICES ASSUME TypeOK, EntriesSorted, [Next]_vars,
                      NEW l \in Keys, cache'[l] # None
               PROVE  Sorted(cache'[l])
    BY DEF EntriesSorted
  <1>1. cache[l] # None => cache[l] \in Seq(Entry) /\ Sorted(cache[l])
    BY DEF EntriesSorted, TypeOK
  <1>2. cache[l] # None => Sorted(Retained(cache[l], now))
    BY <1>1, RetainedProperties
  <1>3. \A b : cache[l] # None => Sorted(WithoutBucket(cache[l], b))
    BY <1>1, WithoutBucketProperties
  <1>4. CASE UNCHANGED cache
    BY <1>1, <1>4
  <1>5. ASSUME NEW k \in Keys, NEW a \in Amounts, NEW m \in MaxAccounts, NEW p \in Paths,
               NEW t \in (now - MaxSearch .. now) \intersect Nat, Insert(k, a, m, t, p)
        PROVE  Sorted(cache'[l])
    <2> DEFINE s == ListOf(k)  x == NewEntry(a, m, t, p)
    <2>1. /\ s \in Seq(Entry) /\ x \in Entry
          /\ \E pos \in SearchPositions(s, <<a, Bucket(m)>>) :
                cache' = [cache EXCEPT ![k] = Inserted(s, pos, a, x)]
      BY <1>5, InsertList DEF Insert
    <2>2. SortKey(x) = <<a, Bucket(m)>> /\ x.in_amount = a
      BY DEF SortKey, NewEntry, Representable
    <2>3. Sorted(s)
      BY DEF ListOf, Sorted, EntriesSorted
    <2> HIDE DEF s, x
    <2>4. PICK pos \in SearchPositions(s, SortKey(x)) :
                cache' = [cache EXCEPT ![k] = Inserted(s, pos, x.in_amount, x)]
      BY <2>1, <2>2
    <2>5. Sorted(Inserted(s, pos, x.in_amount, x))
      BY <2>1, <2>3, EntryKeys, InsertedSorted
    <2>6. cache'[l] = Inserted(s, pos, x.in_amount, x) \/ cache'[l] = cache[l]
      BY <2>4 DEF TypeOK
    <2> QED BY <1>1, <2>5, <2>6
  <1>6. ASSUME NEW k \in Keys, NEW a \in Amounts, NEW m \in MaxAccounts, Get(k, a, m)
        PROVE  Sorted(cache'[l])
    BY <1>1, <1>2, <1>6 DEF Get, CacheExpireKey, TypeOK
  <1>7. ASSUME NEW pair \in Pairs, NEW m \in MaxAccounts, Invalidate(pair, m)
        PROVE  Sorted(cache'[l])
    BY <1>1, <1>3, <1>7 DEF Invalidate, CacheInvalidate
  <1>8. CASE ExpireOld
    BY <1>1, <1>2, <1>8 DEF ExpireOld, CacheExpire
  <1> QED
    BY <1>4, <1>5, <1>6, <1>7, <1>8 DEF Next, Tick, SetBack, Poisoned, vars

(* insert, get: the lists are sorted whenever the binary search or the scan
   relies on it, as long as amounts are exact in f64. *)
THEOREM CacheSorted ==
    ASSUME Representable
    PROVE  Spec => []EntriesSorted
  <1>1. Init => EntriesSorted
    BY DEF Init, EntriesSorted
  <1>2. TypeOK /\ EntriesSorted /\ [Next]_vars => EntriesSorted'
    BY SortedStep
  <1> QED
    BY <1>1, <1>2, CacheTypes, PTL DEF Spec

-----------------------------------------------------------------------------
(* The refinement.  What the map holds for an entry. *)
Content(x) == [timestamp |-> x.timestamp, edges |-> x.edges]

(* In a sorted list the entry of a key is the one the map holds. *)
LEMMA SlotOfEntry ==
    ASSUME NEW s \in Seq(Entry), Sorted(s), NEW x \in Range(s)
    PROVE  Slot(s, SortKey(x)) = Content(x) /\ Content(x) # None
  <1> DEFINE hits == {y \in Range(s) : SortKey(y) = SortKey(x)}
  <1>1. s # None /\ x \in Entry
    BY CacheAssumption DEF Range
  <1>2. \A y \in hits : y = x
    <2> SUFFICES ASSUME NEW y \in Range(s), SortKey(y) = SortKey(x) PROVE y = x
      OBVIOUS
    <2>1. PICK i \in DOMAIN s, j \in DOMAIN s : y = s[i] /\ x = s[j]
      BY DEF Range
    <2>2. i = j
      BY <2>1, EntryKeys, SortedKeysDiffer
    <2> QED BY <2>1, <2>2
  <1>3. hits = {x}
    BY <1>2
  <1>4. (CHOOSE y \in {x} : TRUE) = x
    OBVIOUS
  <1>5. Slot(s, SortKey(x)) = Content(x)
    BY <1>1, <1>3, <1>4 DEF Slot, Content
  <1>6. Content(x) \in [timestamp : Nat, edges : Paths]
    BY <1>1, EntryKeys DEF Content
  <1> QED
    BY <1>5, <1>6, CacheAssumption

LEMMA SlotOfNone ==
    ASSUME NEW s, NEW key, s = None \/ \A x \in Range(s) : SortKey(x) # key
    PROVE  Slot(s, key) = None
  <1>1. (IF s = None THEN {} ELSE {x \in Range(s) : SortKey(x) = key}) = {}
    OBVIOUS
  <1> QED
    BY <1>1 DEF Slot

(* A list that lost some entries of s: a slot is as it was, or its entry went. *)
LEMMA SlotOfPart ==
    ASSUME NEW s \in Seq(Entry), NEW t \in Seq(Entry), Sorted(s), Sorted(t),
           Range(t) \subseteq Range(s), NEW key
    PROVE  \/ Slot(t, key) = Slot(s, key)
           \/ /\ Slot(t, key) = None
              /\ \E x \in Range(s) : /\ x \notin Range(t) /\ SortKey(x) = key
                                     /\ Slot(s, key) = Content(x)
  <1>1. CASE \E x \in Range(t) : SortKey(x) = key
    <2>1. PICK x \in Range(t) : SortKey(x) = key
      BY <1>1
    <2>2. x \in Range(s)
      OBVIOUS
    <2> QED BY <2>1, <2>2, SlotOfEntry
  <1>2. CASE \A x \in Range(t) : SortKey(x) # key
    <2>1. Slot(t, key) = None
      BY <1>2, SlotOfNone
    <2>2. CASE \E x \in Range(s) : SortKey(x) = key
      <3>1. PICK x \in Range(s) : SortKey(x) = key
        BY <2>2
      <3>2. x \notin Range(t) /\ Slot(s, key) = Content(x)
        BY <1>2, <3>1, SlotOfEntry
      <3> QED BY <2>1, <3>1, <3>2
    <2>3. CASE \A x \in Range(s) : SortKey(x) # key
      <3>1. Slot(s, key) = None
        BY <2>3, SlotOfNone
      <3> QED BY <2>1, <3>1
    <2> QED BY <2>2, <2>3
  <1> QED
    BY <1>1, <1>2

(* The slots of the map, by key of the cache. *)
LEMMA StoredAt ==
    ASSUME NEW z \in Map!Slots
    PROVE  /\ <<z[1], z[2]>> \in Keys /\ z[3] \in Amounts /\ z[4] \in Buckets
           /\ Stored[z] = Slot(cache[<<z[1], z[2]>>], <<z[3], z[4]>>)
           /\ Stored'[z] = Slot(cache'[<<z[1], z[2]>>], <<z[3], z[4]>>)
  BY DEF Map!Slots, Keys, Buckets, Stored

LEMMA StoredDomain ==
    /\ DOMAIN Stored = Map!Slots /\ DOMAIN (Stored') = Map!Slots
    /\ Stored = [z \in Map!Slots |-> Stored[z]] /\ Stored' = [z \in Map!Slots |-> Stored'[z]]
  BY DEF Map!Slots, Stored

(* An entry get or expire_old removes is not live in the map. *)
LEMMA RetainedSlot ==
    ASSUME NEW s \in Seq(Entry), Sorted(s), NEW key
    PROVE  \/ Slot(Retained(s, now), key) = Slot(s, key)
           \/ /\ Slot(Retained(s, now), key) = None
              /\ ~Map!Live(Slot(s, key))
  <1> DEFINE t == Retained(s, now)
  <1>1. t \in Seq(Entry) /\ Range(t) = {x \in Range(s) : Alive(x, now)} /\ Sorted(t)
    BY RetainedProperties
  <1> HIDE DEF t
  <1>2. Range(t) \subseteq Range(s)
    BY <1>1
  <1>3. \/ Slot(t, key) = Slot(s, key)
        \/ /\ Slot(t, key) = None
           /\ \E x \in Range(s) : /\ x \notin Range(t) /\ SortKey(x) = key
                                  /\ Slot(s, key) = Content(x)
    BY <1>1, <1>2, SlotOfPart
  <1>4. \A x \in Range(s) : x \notin Range(t) => ~Map!Live(Content(x))
    BY <1>1 DEF Map!Live, Content, Alive
  <1> QED
    BY <1>3, <1>4 DEF t

(* Steps that leave the lists alone forget nothing. *)
LEMMA SameLists ==
    ASSUME UNCHANGED cache, NEW S
    PROVE  Stored' = Stored /\ Map!Forget(S)
  <1>1. Stored' = Stored
    BY DEF Stored
  <1> QED
    BY <1>1, StoredDomain DEF Map!Forget

(* get forgets expired entries of its key, ... *)
LEMMA GetForgets ==
    ASSUME TypeOK, EntriesSorted, NEW k \in Keys, CacheExpireKey(k)
    PROVE  Map!Forget({z \in Map!Slots : z[1] = k[1] /\ z[2] = k[2]})
  <1> DEFINE S == {z \in Map!Slots : z[1] = k[1] /\ z[2] = k[2]}
  <1>1. CASE cache[k] = None
    BY <1>1, SameLists DEF CacheExpireKey
  <1>2. CASE cache[k] # None
    <2>1. cache' = [cache EXCEPT ![k] = Retained(cache[k], now)]
      BY <1>2 DEF CacheExpireKey
    <2>2. cache[k] \in Seq(Entry) /\ Sorted(cache[k]) /\ k = <<k[1], k[2]>>
      BY <1>2 DEF TypeOK, EntriesSorted, Keys
    <2>3. ASSUME NEW z \in Map!Slots
          PROVE  \/ Stored'[z] = Stored[z]
                 \/ z \in S /\ ~Map!Live(Stored[z]) /\ Stored'[z] = None
      <3> DEFINE l == <<z[1], z[2]>>  key == <<z[3], z[4]>>
      <3>1. l \in Keys /\ Stored[z] = Slot(cache[l], key) /\ Stored'[z] = Slot(cache'[l], key)
        BY StoredAt
      <3>2. CASE l # k
        BY <2>1, <3>1, <3>2 DEF TypeOK
      <3>3. CASE l = k
        <4>1. cache'[l] = Retained(cache[l], now) /\ z \in S
          BY <2>1, <2>2, <3>3 DEF TypeOK
        <4>2. cache[l] \in Seq(Entry) /\ Sorted(cache[l])
          BY <2>2, <3>3
        <4> HIDE DEF l, key, S
        <4> QED BY <3>1, <4>1, <4>2, RetainedSlot
      <3> QED BY <3>2, <3>3
    <2> HIDE DEF S
    <2>4. Map!Forget(S)
      BY <2>3, StoredDomain DEF Map!Forget
    <2> QED BY <2>4 DEF S
  <1> QED
    BY <1>1, <1>2

(* ... and so does expire_old, of every key. *)
LEMMA ExpireForgets ==
    ASSUME TypeOK, EntriesSorted, CacheExpire
    PROVE  Map!Forget(Map!Slots)
  <1>1. CASE UNCHANGED cache
    BY <1>1, SameLists
  <1>2. CASE cache' = [k \in Keys |-> IF cache[k] = None \/ Retained(cache[k], now) = <<>>
                                     THEN None ELSE Retained(cache[k], now)]
    <2>1. ASSUME NEW z \in Map!Slots
          PROVE  \/ Stored'[z] = Stored[z]
                 \/ ~Map!Live(Stored[z]) /\ Stored'[z] = None
      <3> DEFINE l == <<z[1], z[2]>>  key == <<z[3], z[4]>>
      <3>1. l \in Keys /\ Stored[z] = Slot(cache[l], key) /\ Stored'[z] = Slot(cache'[l], key)
        BY StoredAt
      <3>2. cache'[l] = IF cache[l] = None \/ Retained(cache[l], now) = <<>>
                        THEN None ELSE Retained(cache[l], now)
        BY <1>2, <3>1
      <3> HIDE DEF l, key
      <3>3. CASE cache[l] = None
        BY <3>1, <3>2, <3>3
      <3>4. CASE cache[l] # None
        <4>1. cache[l] \in Seq(Entry) /\ Sorted(cache[l])
          BY <3>1, <3>4 DEF TypeOK, EntriesSorted
        <4>2. Slot(cache'[l], key) = Slot(Retained(cache[l], now), key)
          <5>1. CASE Retained(cache[l], now) = <<>>
            <6>1. Range(<<>>) = {}
              BY DEF Range
            <6>2. Slot(<<>>, key) = None /\ Slot(None, key) = None
              BY <6>1, SlotOfNone
            <6> QED BY <3>2, <5>1, <6>2
          <5>2. CASE Retained(cache[l], now) # <<>>
            BY <3>2, <3>4, <5>2
          <5> QED BY <5>1, <5>2
        <4> QED BY <3>1, <4>1, <4>2, RetainedSlot
      <3> QED BY <3>3, <3>4
    <2> QED BY <2>1, StoredDomain DEF Map!Forget
  <1> QED
    BY <1>1, <1>2 DEF CacheExpire

(* insert changes one slot of the map. *)
LEMMA InsertImplements ==
    ASSUME Representable, TypeOK, EntriesSorted, NEW k \in Keys, NEW a \in Amounts,
           NEW m \in MaxAccounts, NEW t \in Nat, NEW p \in Paths, Insert(k, a, m, t, p)
    PROVE  Map!Insert
  <1> DEFINE s == ListOf(k)  x == NewEntry(a, m, t, p)
             zz == <<k[1], k[2], a, Bucket(m)>>
  <1>1. /\ s \in Seq(Entry) /\ x \in Entry
        /\ \E pos \in SearchPositions(s, <<a, Bucket(m)>>) :
              /\ Inserted(s, pos, a, x) \in Seq(Entry)
              /\ cache' = [cache EXCEPT ![k] = Inserted(s, pos, a, x)]
    BY InsertList DEF Insert
  <1>2. SortKey(x) = <<a, Bucket(m)>> /\ x.in_amount = a
    BY DEF SortKey, NewEntry, Representable
  <1>3. Sorted(s)
    BY DEF ListOf, Sorted, EntriesSorted
  <1>4. zz \in Map!Slots /\ <<zz[1], zz[2]>> = k /\ <<zz[3], zz[4]>> = <<a, Bucket(m)>>
    BY DEF Map!Slots, Keys
  <1>5. \A key : Slot(cache[k], key) = Slot(s, key)
    <2>1. CASE cache[k] = None
      <3>1. Range(<<>>) = {}
        BY DEF Range
      <3> QED BY <2>1, <3>1, SlotOfNone DEF ListOf
    <2> QED BY <2>1 DEF ListOf
  <1> HIDE DEF s, x, zz
  <1>6. PICK pos \in SearchPositions(s, SortKey(x)) :
           /\ Inserted(s, pos, x.in_amount, x) \in Seq(Entry)
           /\ cache' = [cache EXCEPT ![k] = Inserted(s, pos, x.in_amount, x)]
    BY <1>1, <1>2
  <1> DEFINE t1 == Inserted(s, pos, x.in_amount, x)
  <1>7. Sorted(t1) /\ Range(t1) = {y \in Range(s) : SortKey(y) # SortKey(x)} \union {x}
    BY <1>1, <1>3, EntryKeys, InsertedSorted
  <1>8. t1 \in Seq(Entry) /\ cache'[k] = t1 /\ \A l \in Keys : l # k => cache'[l] = cache[l]
    BY <1>6 DEF TypeOK
  <1> HIDE DEF t1
  <1>9. Stored'[zz] # None
    <2>1. x \in Range(t1)
      BY <1>7
    <2>2. Slot(t1, SortKey(x)) # None
      BY <1>7, <1>8, <2>1, SlotOfEntry
    <2>3. Stored'[zz] = Slot(t1, SortKey(x))
      BY <1>2, <1>4, <1>8, StoredAt
    <2> QED BY <2>2, <2>3
  <1>10. ASSUME NEW z \in Map!Slots, z # zz PROVE Stored'[z] = Stored[z]
    <2> DEFINE l == <<z[1], z[2]>>  key == <<z[3], z[4]>>
    <2>1. l \in Keys /\ Stored[z] = Slot(cache[l], key) /\ Stored'[z] = Slot(cache'[l], key)
      BY StoredAt
    <2>2. l # k \/ key # SortKey(x)
      BY <1>2, <1>4, <1>10 DEF Map!Slots, zz
    <2> HIDE DEF l, key
    <2>3. CASE l # k
      BY <1>8, <2>1, <2>3
    <2>4. CASE l = k /\ key # SortKey(x)
      <3>1. CASE \E y \in Range(s) : SortKey(y) = key
        <4>1. PICK y \in Range(s) : SortKey(y) = key
          BY <3>1
        <4>2. y \in Range(t1)
          BY <1>7, <2>4, <4>1
        <4>3. Slot(s, key) = Content(y) /\ Slot(t1, key) = Content(y)
          BY <1>1, <1>3, <1>7, <1>8, <4>1, <4>2, SlotOfEntry
        <4> QED BY <1>5, <1>8, <2>1, <2>4, <4>3
      <3>2. CASE \A y \in Range(s) : SortKey(y) # key
        <4>1. \A y \in Range(t1) : SortKey(y) # key
          BY <1>7, <2>4, <3>2
        <4>2. Slot(s, key) = None /\ Slot(t1, key) = None
          BY <3>2, <4>1, SlotOfNone
        <4> QED BY <1>5, <1>8, <2>1, <2>4, <4>2
      <3> QED BY <3>1, <3>2
    <2> QED BY <2>2, <2>3, <2>4
  <1>11. Stored' = [Stored EXCEPT ![zz] = Stored'[zz]]
    BY <1>4, <1>10, StoredDomain
  <1> QED
    BY <1>4, <1>9, <1>11 DEF Map!Insert, Insert

(* invalidate removes the slots of the pair and bucket. *)
LEMMA InvalidateImplements ==
    ASSUME TypeOK, EntriesSorted, NEW pair \in Pairs, NEW m \in MaxAccounts,
           Invalidate(pair, m)
    PROVE  Map!Invalidate(pair, Bucket(m))
  <1> DEFINE b == Bucket(m)
  <1>0. CacheAssumption
    BY CacheAssumption
  <1>1. ASSUME NEW z \in Map!Slots
        PROVE  LET hit == z[1] = pair /\ z[4] = b
               IN /\ hit /\ z[2] = "ExactIn" => Stored'[z] = None
                  /\ hit /\ z[2] = "ExactOut" => Stored'[z] \in {None, Stored[z]}
                  /\ ~hit => Stored'[z] = Stored[z]
    <2> DEFINE l == <<z[1], z[2]>>  key == <<z[3], z[4]>>
               t == WithoutBucket(cache[l], b)
    <2>1. l \in Keys /\ Stored[z] = Slot(cache[l], key) /\ Stored'[z] = Slot(cache'[l], key)
      BY StoredAt
    <2>2. cache'[l] = IF z[1] = pair /\ cache[l] # None /\ cache[<<pair, "ExactIn">>] # None
                      THEN t ELSE cache[l]
      BY <2>1 DEF Invalidate, CacheInvalidate
    <2>3. CASE ~(z[1] = pair /\ cache[l] # None /\ cache[<<pair, "ExactIn">>] # None)
      <3>1. Stored'[z] = Stored[z]
        BY <2>1, <2>2, <2>3
      <3>2. z[1] = pair /\ z[2] = "ExactIn" => cache[l] = None
        BY <2>3
      <3>3. cache[l] = None => Stored[z] = None
        BY <2>1, SlotOfNone
      <3> QED BY <3>1, <3>2, <3>3
    <2>4. CASE z[1] = pair /\ cache[l] # None /\ cache[<<pair, "ExactIn">>] # None
      <3>1. cache[l] \in Seq(Entry) /\ Sorted(cache[l])
        BY <2>1, <2>4 DEF TypeOK, EntriesSorted
      <3>2. /\ t \in Seq(Entry) /\ Sorted(t)
            /\ Range(t) = {x \in Range(cache[l]) : x.max_account # b}
        BY <3>1, WithoutBucketProperties
      <3>3. cache'[l] = t
        BY <2>2, <2>4
      <3> HIDE DEF t, l, b
      <3>4. Range(t) \subseteq Range(cache[l])
        BY <3>2
      <3>5. CASE z[4] = b
        <4>1. \A x \in Range(t) : SortKey(x) # key
          BY <3>2, <3>5 DEF SortKey
        <4>2. Slot(t, key) = None
          BY <4>1, SlotOfNone
        <4>3. Stored'[z] = None
          BY <2>1, <3>3, <4>2
        <4> QED BY <2>4, <3>5, <4>3
      <3>6. CASE z[4] # b
        <4>1. \A x \in Range(cache[l]) : SortKey(x) = key => x \in Range(t)
          BY <3>2, <3>6 DEF SortKey
        <4>2. Slot(t, key) = Slot(cache[l], key)
          <5> HIDE DEF key
          <5>1. \/ Slot(t, key) = Slot(cache[l], key)
                \/ \E x \in Range(cache[l]) : x \notin Range(t) /\ SortKey(x) = key
            BY <3>1, <3>2, <3>4, SlotOfPart
          <5> QED BY <4>1, <5>1
        <4> QED BY <2>1, <3>3, <3>6, <4>2
      <3> QED BY <3>5, <3>6
    <2> QED BY <2>3, <2>4
  <1> QED
    BY <1>1, StoredDomain DEF Map!Invalidate, Invalidate

(* What is live in the map is what get finds when it has dropped the expired
   entries. *)
LEMMA LiveSlots ==
    ASSUME TypeOK, EntriesSorted, NEW k \in Keys, cache[k] # None,
           NEW c \in Amounts, NEW b \in Buckets
    PROVE  /\ Map!Live(Stored[<<k[1], k[2], c, b>>])
                 => \E x \in Range(Retained(cache[k], now)) : SortKey(x) = <<c, b>>
           /\ \A x \in Range(Retained(cache[k], now)) : SortKey(x) = <<c, b>> =>
                 /\ Map!Live(Stored[<<k[1], k[2], c, b>>])
                 /\ Stored[<<k[1], k[2], c, b>>].edges = x.edges
  <1> DEFINE z == <<k[1], k[2], c, b>>  s == cache[k]  t == Retained(cache[k], now)
             key == <<c, b>>
  <1>1. s \in Seq(Entry) /\ Sorted(s)
    BY DEF TypeOK, EntriesSorted
  <1>2. z \in Map!Slots /\ <<z[1], z[2]>> = k /\ <<z[3], z[4]>> = key
    BY DEF Map!Slots, Keys, Buckets
  <1>3. Stored[z] = Slot(s, key)
    BY <1>2, StoredAt
  <1>4. Range(t) = {x \in Range(s) : Alive(x, now)}
    BY <1>1, RetainedProperties
  <1> HIDE DEF z, s, t, key
  <1>5. ASSUME NEW x \in Range(t), SortKey(x) = key
        PROVE  Map!Live(Stored[z]) /\ Stored[z].edges = x.edges
    <2>1. Stored[z] = Content(x) /\ Content(x) # None /\ Alive(x, now)
      BY <1>1, <1>3, <1>4, <1>5, SlotOfEntry
    <2> QED BY <2>1 DEF Map!Live, Content, Alive
  <1>6. ASSUME Map!Live(Stored[z]) PROVE \E x \in Range(t) : SortKey(x) = key
    <2>1. Slot(s, key) # None
      BY <1>3, <1>6 DEF Map!Live
    <2>2. PICK x \in Range(s) : SortKey(x) = key
      BY <2>1, SlotOfNone
    <2>3. Stored[z] = Content(x)
      BY <1>1, <1>3, <2>2, SlotOfEntry
    <2>4. Alive(x, now)
      BY <1>6, <2>3 DEF Map!Live, Content, Alive
    <2> QED BY <1>4, <2>2, <2>4
  <1> QED
    BY <1>5, <1>6 DEF z, t, key

(* get: the scan gives the nearest live amounts of the map. *)
LEMMA GetIsNearest ==
    ASSUME Representable, TypeOK, EntriesSorted, NEW k \in Keys, NEW a \in Amounts,
           NEW m \in MaxAccounts
    PROVE  CacheGet(k, a, m) = Map!Nearest(k[1], k[2], a, Bucket(m))
  <1> DEFINE b == Bucket(m)
             Z(c) == <<k[1], k[2], c, b>>
             live == {c \in Amounts : Map!Live(Stored[Z(c)])}
             below == {c \in live : c <= a}
             above == live \ below
             EdgesAt(c) == Stored[Z(c)].edges
             lo == IF below = {} THEN None
                   ELSE EdgesAt(CHOOSE c \in below : \A d \in below : d <= c)
             up == IF above = {} THEN None
                   ELSE EdgesAt(CHOOSE c \in above : \A d \in above : c <= d)
  <1>1. Map!Nearest(k[1], k[2], a, b) = [lower |-> lo, upper |-> up]
    BY DEF Map!Nearest
  <1>2. Amounts \subseteq Int /\ b \in Buckets /\ a \in Int /\ F64(a) = a
    BY CacheAssumption DEF Buckets, Representable
  <1>3. CASE cache[k] = None
    <2>1. live = {}
      <3> SUFFICES ASSUME NEW c \in Amounts, Map!Live(Stored[Z(c)]) PROVE FALSE
        OBVIOUS
      <3>1. Z(c) \in Map!Slots /\ <<Z(c)[1], Z(c)[2]>> = k
        BY <1>2 DEF Map!Slots, Keys, Buckets
      <3>2. Stored[Z(c)] = None
        <4> HIDE DEF Z
        <4> QED BY <1>3, <3>1, StoredAt, SlotOfNone
      <3> QED BY <3>2 DEF Map!Live
    <2>2. below = {} /\ above = {}
      BY <2>1
    <2> QED BY <1>1, <1>3, <2>2 DEF CacheGet
  <1>4. CASE cache[k] # None
    <2> DEFINE s == Retained(cache[k], now)
    <2>1. cache[k] \in Seq(Entry) /\ Sorted(cache[k])
      BY <1>4 DEF TypeOK, EntriesSorted
    <2>2. s \in Seq(Entry) /\ Sorted(s)
      BY <2>1, RetainedProperties
    <2>3. CacheGet(k, a, m) = Lookup(s, a, b)
      BY <1>4 DEF CacheGet
    <2>4. \A c \in live : \E x \in Range(s) : SortKey(x) = <<c, b>>
      BY <1>2, <1>4, LiveSlots
    <2>5. \A c \in Amounts : \A x \in Range(s) : SortKey(x) = <<c, b>> =>
              c \in live /\ EdgesAt(c) = x.edges
      BY <1>2, <1>4, LiveSlots
    <2> HIDE DEF s, live, EdgesAt
    <2>6. PICK lower, upper :
              /\ Lookup(s, a, b) = [lower |-> lower, upper |-> upper]
              /\ IsLargestOf(Below(s, a, b), lower)
              /\ IsSmallestOf(Above(s, a, b), upper)
      BY <1>2, <2>2, EntryKeys, LookupIsNearest
    <2>7. \A x \in Range(s) : x.in_amount \in Amounts
      <3>1. \A x \in Range(s) : x \in Entry
        BY <2>2 DEF Range
      <3> QED BY <3>1 DEF Entry, Representable
    <2>8. ASSUME NEW x \in Range(s), x.max_account = b
          PROVE  x.in_amount \in live /\ EdgesAt(x.in_amount) = x.edges
      <3>1. SortKey(x) = <<x.in_amount, b>>
        BY <2>8 DEF SortKey
      <3> QED BY <2>5, <2>7, <3>1
    <2>9. ASSUME NEW c \in live
          PROVE  \E x \in Range(s) : x.max_account = b /\ x.in_amount = c
      BY <2>4 DEF SortKey
    <2>10. /\ live \in SUBSET Int /\ below \in SUBSET Int /\ above \in SUBSET Int
           /\ above = {c \in live : c > a}
      <3>1. live \in SUBSET Int
        BY <1>2 DEF live
      <3>2. \A c \in live : c <= a \/ c > a
        BY <1>2, <3>1
      <3>3. \A c \in live : c > a => ~(c <= a)
        BY <1>2, <3>1
      <3> QED BY <3>1, <3>2, <3>3
    <2>11. lower = lo
      <3>1. CASE Below(s, a, b) = {} /\ lower = None
        <4>1. below = {}
          BY <2>9, <3>1 DEF Below
        <4> QED BY <3>1, <4>1
      <3>2. CASE \E x \in Below(s, a, b) : /\ lower = x.edges
                    /\ \A y \in Below(s, a, b) : y.in_amount <= x.in_amount
        <4>1. PICK x \in Below(s, a, b) : /\ lower = x.edges
                    /\ \A y \in Below(s, a, b) : y.in_amount <= x.in_amount
          BY <3>2
        <4> DEFINE c == x.in_amount
        <4>2. c \in below /\ EdgesAt(c) = lower
          BY <2>8, <4>1 DEF Below
        <4>3. \A d \in below : d <= c
          BY <2>9, <4>1 DEF Below
        <4>4. lo = EdgesAt(CHOOSE e \in below : \A d \in below : d <= e)
          BY <4>2
        <4> HIDE DEF c, below, lo
        <4>5. (CHOOSE e \in below : \A d \in below : d <= e) = c
          BY <2>10, <4>2, <4>3, ChosenGreatest
        <4> QED BY <4>2, <4>4, <4>5
      <3> QED BY <2>6, <3>1, <3>2 DEF IsLargestOf
    <2>12. upper = up
      <3> HIDE DEF above
      <3>1. CASE Above(s, a, b) = {} /\ upper = None
        <4>1. above = {}
          BY <2>9, <2>10, <3>1 DEF Above
        <4> QED BY <3>1, <4>1
      <3>2. CASE \E x \in Above(s, a, b) : /\ upper = x.edges
                    /\ \A y \in Above(s, a, b) : x.in_amount <= y.in_amount
        <4>1. PICK x \in Above(s, a, b) : /\ upper = x.edges
                    /\ \A y \in Above(s, a, b) : x.in_amount <= y.in_amount
          BY <3>2
        <4> DEFINE c == x.in_amount
        <4>2. c \in above /\ EdgesAt(c) = upper
          BY <2>8, <2>10, <4>1 DEF Above
        <4>3. \A d \in above : c <= d
          BY <2>9, <2>10, <4>1 DEF Above
        <4>4. up = EdgesAt(CHOOSE e \in above : \A d \in above : e <= d)
          BY <4>2
        <4> HIDE DEF c, up
        <4>5. (CHOOSE e \in above : \A d \in above : e <= d) = c
          BY <2>10, <4>2, <4>3, ChosenLeast
        <4> QED BY <4>2, <4>4, <4>5
      <3> QED BY <2>6, <3>1, <3>2 DEF IsSmallestOf
    <2> HIDE DEF lo, up
    <2> QED BY <1>1, <2>3, <2>6, <2>11, <2>12
  <1> QED
    BY <1>3, <1>4

(* Every step of the cache is one of the map, or leaves the map alone. *)
LEMMA StepImplements ==
    ASSUME Representable
    PROVE  TypeOK /\ EntriesSorted /\ [Next]_vars => [Map!Next]_<<Stored, answer>>
  <1> SUFFICES ASSUME TypeOK, EntriesSorted, [Next]_vars
               PROVE  Map!Next \/ (Stored' = Stored /\ answer' = answer)
    BY Zenon
  <1>1. CASE UNCHANGED vars
    BY <1>1, SameLists DEF vars
  <1>2. ASSUME NEW k \in Keys, NEW a \in Amounts, NEW m \in MaxAccounts, NEW p \in Paths,
               NEW t \in (now - MaxSearch .. now) \intersect Nat, Insert(k, a, m, t, p)
        PROVE  Map!Next
    BY <1>2, InsertImplements DEF Map!Next
  <1>3. ASSUME NEW k \in Keys, NEW a \in Amounts, NEW m \in MaxAccounts, Get(k, a, m)
        PROVE  Map!Next
    <2>1. CacheExpireKey(k) /\ answer' = CacheGet(k, a, m)
      BY <1>3 DEF Get
    <2>2. Map!Get(k[1], k[2], a, Bucket(m))
      BY <2>1, GetForgets, GetIsNearest DEF Map!Get
    <2>3. k[1] \in Pairs /\ k[2] \in Modes
      BY DEF Keys
    <2> QED BY <2>2, <2>3 DEF Map!Next
  <1>4. ASSUME NEW pair \in Pairs, NEW m \in MaxAccounts, Invalidate(pair, m)
        PROVE  Map!Next
    BY <1>4, InvalidateImplements DEF Map!Next
  <1>5. CASE ExpireOld
    BY <1>5, ExpireForgets DEF ExpireOld, Map!Next
  <1>6. CASE Tick \/ SetBack
    BY <1>6, SameLists DEF Tick, SetBack, Map!Next
  <1>7. CASE Poisoned
    BY <1>7, SameLists DEF Poisoned, vars
  <1> QED
    BY <1>1, <1>2, <1>3, <1>4, <1>5, <1>6, <1>7 DEF Next

(* PathDiscoveryCache: insert, get, invalidate and expire_old on sorted lists
   implement the map of PathCache. *)
THEOREM CacheImplementsMap ==
    ASSUME Representable
    PROVE  Spec => ImplementsMap
  <1>1. Init => Map!Init
    <2> SUFFICES ASSUME Init PROVE Map!Init
      OBVIOUS
    <2>1. ASSUME NEW z \in Map!Slots PROVE Stored[z] = None
      BY StoredAt, SlotOfNone DEF Init
    <2>2. Stored = [z \in Map!Slots |-> None]
      BY <2>1, StoredDomain
    <2> QED BY <2>2 DEF Map!Init, Init
  <1>2. TypeOK /\ EntriesSorted /\ [Next]_vars => [Map!Next]_<<Stored, answer>>
    BY StepImplements
  <1> QED
    BY <1>1, <1>2, CacheTypes, CacheSorted, PTL DEF Spec, ImplementsMap, Map!Spec
=============================================================================
