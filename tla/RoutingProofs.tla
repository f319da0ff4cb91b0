--------------------------- MODULE RoutingProofs ---------------------------
(***************************************************************************)
(* Route requests and the warmer over the shared path discovery cache, for   *)
(* any number of requests, mints and edges.                                  *)
(***************************************************************************)
EXTENDS Routing, DataLemmas

(* The cached paths may be used for every limit of the bucket. *)
Fits(p, bucket) == Cost(p) <= Budget(5 * bucket + 4)

RouteEntry == [timestamp : Nat, in_amount : Int, max_account : Nat,
               edges : SUBSET Seq(Edges)]

(* The entries a key may have: paths of their bucket, for exact in from the first
   mint of the pair to the second. *)
EntryFor(k, x) ==
    /\ x \in RouteEntry
    /\ \A p \in x.edges : Fits(p, x.max_account)
    /\ k[2] = "ExactIn" => \A p \in x.edges : Connects(p, k[1][1], k[1][2])

EntriesFor(k) == {x \in RouteEntry : EntryFor(k, x)}

(* What a search from `start` leaves for the nodes. *)
FoundFrom(f, start, mode, max_accounts) ==
    /\ f \in [Mints -> SUBSET Seq(Edges)]
    /\ \A n \in Mints : \A p \in f[n] : Fits(p, Bucket(max_accounts))
    /\ mode = "ExactIn" => \A n \in Mints : \A p \in f[n] : Connects(p, start, n)

(* The candidates of a call: direct paths are not measured. *)
PathsOf(c) ==
    /\ \A p \in c.paths : Len(p) = 1 \/ Fits(p, Bucket(c.asked.max_accounts))
    /\ c.asked.mode = "ExactIn" =>
          \A p \in c.paths : Connects(p, c.asked.input, c.asked.output)

(* What the retries rely on: see find_route_with_relaxed_constraints_or_fail. *)
Relaxing(c) ==
    /\ c.pc \in {"search", "insert"} => Known(c)
    /\ c.pc = "insert" => c.todo # {}
    /\ c.pc \in {"begin", "select", "write", "lookup", "search", "insert"} => ~c.used_cached
    /\ c.used_cached => Known(c)
    /\ c.ignore_cache => c.len = MaxPathLength /\ ~c.used_cached
    /\ c.pc \in {"insert", "direct", "evaluate", "build"} /\ ~c.used_cached
          /\ c.len = MaxPathLength => c.full_search
    /\ c.pc = "no_path" => c.full_search
    /\ \/ c.attempt = 1
       \/ c.attempt = 2 /\ c.len = MaxPathLength
       \/ c.attempt = 3 /\ c.len = MaxPathLength /\ c.ignore_cache

CallsMade ==
    {c \in Calls : /\ Relaxing(c) /\ PathsOf(c)
                   /\ FoundFrom(c.found, c.asked.input, c.asked.mode, c.asked.max_accounts)}

Jobs == [mint : Mints, amount : Nat, max_accounts : Nat, timestamp : Nat,
         found : [Modes -> [Mints -> SUBSET Seq(Edges)]]]

JobDone(j) ==
    j \in Jobs /\ \A m \in Modes : FoundFrom(j.found[m], j.mint, m, j.max_accounts)

Selections == [mode : Modes, edges : SUBSET Edges, waiting : BOOLEAN]

SharedInv ==
    /\ now \in Nat /\ last_expire \in Nat /\ poisoned \in BOOLEAN
    /\ valid \subseteq Edges /\ flips \in Nat /\ rounds \in Nat
    /\ pruned \in [Modes -> (SUBSET Edges) \union {None}]
    /\ stamp \in [Modes -> Nat \union {None}]
    /\ selection \in [Pruners -> Selections \union {None}]

WarmInv ==
    /\ warm \in [pc : {"idle", "in", "next", "out", "jobs", "insert"},
                 todo : SUBSET Warmed, job : Jobs \union {None}]
    /\ warm.pc = "insert" => JobDone(warm.job)

Keys == (Mints \X Mints) \X Modes

CacheInv ==
    /\ DOMAIN cache = Keys
    /\ \A k \in Keys : cache[k] = None \/ cache[k] \in Seq(EntriesFor(k))

CallInv == call \in [Requests -> CallsMade \union {None}]

HoldsLock(c, m) ==
    /\ c # None /\ c.asked.mode = m
    /\ \/ c.pc = "insert"
       \/ c.pc = "direct" /\ ~c.used_cached

LockInv ==
    /\ readers \in [Modes -> SUBSET Requests]
    /\ \A m \in Modes, r \in Requests : r \in readers[m] <=> HoldsLock(call[r], m)

RoutingInv == SharedInv /\ WarmInv /\ CacheInv /\ CallInv /\ LockInv

-----------------------------------------------------------------------------
(* Numbers *)
LEMMA BudgetGrows ==
    ASSUME NEW m \in Nat, NEW n \in Nat, m <= n
    PROVE  Budget(m) \in Nat /\ Budget(n) \in Nat /\ Budget(m) <= Budget(n)
  <1> DEFINE left(x) == IF x < 7 THEN 0 ELSE x - 7
             T(x) == {40, left(x)}
  <1>1. ASSUME NEW x \in Nat
        PROVE  Budget(x) \in T(x) /\ Budget(x) <= 40 /\ Budget(x) <= left(x)
    <2>1. T(x) \in SUBSET Nat /\ T(x) # {}
      OBVIOUS
    <2>2. Budget(x) = Min(T(x))
      BY DEF Budget
    <2> HIDE DEF T
    <2>3. Budget(x) \in T(x) /\ \A y \in T(x) : Budget(x) <= y
      BY <2>1, <2>2, MinIsLeast
    <2> QED BY <2>3 DEF T
  <1>2. left(m) <= left(n) /\ left(m) \in Nat /\ left(n) \in Nat
    OBVIOUS
  <1> HIDE DEF left
  <1> QED
    BY <1>1, <1>2

LEMMA CostIsNumber ==
    ASSUME NEW p \in Seq(Edges)
    PROVE  Cost(p) \in Int
  <1> DEFINE f == [i \in DOMAIN p |-> AccountsNeeded[p[i]]]
  <1>1. IsFiniteSet(DOMAIN p)
    BY FS_Interval
  <1>2. f \in [DOMAIN p -> Int] /\ DOMAIN f = DOMAIN p
    BY RoutingAssumption
  <1>3. Cost(p) = Sum(f, DOMAIN p)
    BY <1>2 DEF Cost, SumFunction, SumFunctionOnSet, FoldFunctionOnSet, Sum, MapThenSumSet
  <1> HIDE DEF f
  <1>4. Shifted(f, f, f, 0, DOMAIN p)
    BY <1>2 DEF Shifted
  <1> QED
    BY <1>1, <1>2, <1>3, <1>4, SumShifted

LEMMA NumbersOfCalls ==
    /\ ShortLength \in Nat
    /\ \A a \in Nat : Overquote(a) \in Nat
    /\ \A a \in Nat : F64(a) \in Int
    /\ \A m \in Nat : Bucket(m) \in Nat
  <1>1. ShortLength \in Nat
    <2> DEFINE T == {MaxPathLength - 1, 1}
    <2>1. T \in SUBSET (0 .. MaxPathLength) /\ T # {} /\ MaxPathLength \in Nat
      BY RoutingAssumption
    <2>2. ShortLength = Max(T)
      BY DEF ShortLength
    <2> HIDE DEF T
    <2>3. Max(T) \in T
      BY <2>1, MaxIsGreatest
    <2> QED BY <2>2, <2>3, RoutingAssumption DEF T
  <1>2. ASSUME NEW a \in Nat PROVE Overquote(a) \in Nat
    <2>1. a * (100 + OverquotePct) \in Nat
      BY RoutingAssumption
    <2> QED BY <2>1 DEF Overquote
  <1>3. \A a \in Nat : F64(a) \in Int
    BY DEF F64
  <1>4. \A m \in Nat : Bucket(m) \in Nat
    BY DEF Bucket
  <1> QED
    BY <1>1, <1>2, <1>3, <1>4

(* What is within a limit is within that of its bucket. *)
LEMMA WithinBucket ==
    ASSUME NEW m \in Nat, NEW p \in Seq(Edges), Cost(p) <= Budget(m)
    PROVE  Fits(p, Bucket(m))
  <1>1. m <= 5 * Bucket(m) + 4 /\ 5 * Bucket(m) + 4 \in Nat
    BY DEF Bucket
  <1> QED
    BY <1>1, CostIsNumber, BudgetGrows DEF Fits

-----------------------------------------------------------------------------
(* The search: what best_price_paths_depth_search keeps leads where it says and
   fits the bucket. *)
LEMMA FoundIsRight ==
    ASSUME valid \subseteq Edges, NEW start, NEW mode \in Modes, NEW len \in Nat, NEW m \in Nat,
           NEW f \in Found(start, mode, len, m)
    PROVE  FoundFrom(f, start, mode, m)
  <1> DEFINE usable == pruned[mode] \intersect valid
             All(n) == Admissible(start, mode, n, len, Budget(m), usable)
  <1>1. /\ f \in [Mints -> SUBSET UNION {All(n) : n \in Mints}]
        /\ \A n \in Mints : f[n] \subseteq All(n)
    BY DEF Found
  <1>2. usable \subseteq Edges
    OBVIOUS
  <1> HIDE DEF usable
  <1>3. ASSUME NEW n, NEW p \in All(n)
        PROVE  /\ p \in Seq(Edges) /\ Fits(p, Bucket(m))
               /\ mode = "ExactIn" => Connects(p, start, n)
    <2>1. PICK l \in 1 .. len : p \in [1 .. l -> usable]
      BY <1>3 DEF Admissible
    <2>2. l \in Nat /\ p \in [1 .. l -> Edges]
      BY <1>2, <2>1
    <2>3. p \in Seq(Edges) /\ Len(p) = l
      BY <2>2, SeqDef
    <2>4. Cost(p) <= Budget(m)
      BY <1>3 DEF Admissible
    <2>5. Fits(p, Bucket(m))
      BY <2>3, <2>4, WithinBucket
    <2>6. ASSUME mode = "ExactIn" PROVE Connects(p, start, n)
      <3>1. /\ Source(p[1], mode) = start /\ Target(p[Len(p)], mode) = n
            /\ \A i \in 1 .. Len(p) - 1 : Target(p[i], mode) = Source(p[i + 1], mode)
        BY <1>3 DEF Admissible
      <3> QED BY <2>1, <2>3, <2>6, <3>1 DEF Connects, Source, Target
    <2> QED BY <2>3, <2>5, <2>6
  <1> HIDE DEF All
  <1>4. f \in [Mints -> SUBSET Seq(Edges)]
    BY <1>1, <1>3
  <1>5. \A n \in Mints : \A p \in f[n] : Fits(p, Bucket(m))
    BY <1>1, <1>3
  <1>6. mode = "ExactIn" => \A n \in Mints : \A p \in f[n] : Connects(p, start, n)
    BY <1>1, <1>3
  <1> QED
    BY <1>4, <1>5, <1>6 DEF FoundFrom

-----------------------------------------------------------------------------
(* The operations of the cache are those of PathDiscoveryCache. *)
LEMMA CacheOperations ==
    /\ Cache!Keys = Keys
    /\ \A s, t : Cache!Retained(s, t) = Retained(s, t)
    /\ \A s, b : Cache!WithoutBucket(s, b) = WithoutBucket(s, b)
    /\ \A s, a, b : Cache!Lookup(s, a, b) = Lookup(s, a, b)
    /\ \A s, k : Cache!SearchPositions(s, k) = SearchPositions(s, k)
    /\ \A s, i, a, x : Cache!Inserted(s, i, a, x) = Inserted(s, i, a, x)
    /\ \A a : Cache!F64(a) = F64(a)
    /\ \A m : Cache!Bucket(m) = Bucket(m)
  <1>1. Cache!Keys = Keys
    BY DEF Cache!Keys, Keys
  <1>2. \A s, t : Cache!Retained(s, t) = Retained(s, t)
    BY DEF Cache!Retained, Retained, Cache!Alive, Alive, Cache!Kept, Kept
  <1>3. \A s, b : Cache!WithoutBucket(s, b) = WithoutBucket(s, b)
    BY DEF Cache!WithoutBucket, WithoutBucket, Cache!Kept, Kept
  <1>4. \A s, a, b : Cache!Lookup(s, a, b) = Lookup(s, a, b)
    BY DEF Cache!Lookup, Lookup, Cache!F64, F64, Cache!Min, Min, Cache!Max, Max
  <1>5. \A s, k : Cache!SearchPositions(s, k) = SearchPositions(s, k)
    BY DEF Cache!SearchPositions, SearchPositions, Cache!SortKey, SortKey, Cache!Less, Less
  <1>6. \A s, i, a, x : Cache!Inserted(s, i, a, x) = Inserted(s, i, a, x)
    BY DEF Cache!Inserted, Inserted, Cache!SortKey, SortKey,
           Cache!ReplaceAt, ReplaceAt, Cache!InsertAt, InsertAt
  <1>7. \A a : Cache!F64(a) = F64(a)
    BY DEF Cache!F64, F64
  <1>8. \A m : Cache!Bucket(m) = Bucket(m)
    BY DEF Cache!Bucket, Bucket
  <1> QED
    BY <1>1, <1>2, <1>3, <1>4, <1>5, <1>6, <1>7, <1>8

LEMMA EntriesAreKeyed ==
    ASSUME NEW k
    PROVE  Keyed(EntriesFor(k))
  BY DEF Keyed, EntriesFor, RouteEntry

LEMMA CacheExpires ==
    ASSUME CacheInv, Cache!CacheExpire
    PROVE  CacheInv'
  <1>1. \A k : \A s \in Seq(EntriesFor(k)) : \A t : Retained(s, t) \in Seq(EntriesFor(k))
    BY RetainedProperties
  <1>2. \/ cache' = cache
        \/ cache' = [k \in Keys |->
               IF cache[k] = None \/ Retained(cache[k], now) = <<>> THEN None
               ELSE Retained(cache[k], now)]
    BY CacheOperations DEF Cache!CacheExpire
  <1> QED
    BY <1>1, <1>2 DEF CacheInv

LEMMA CacheKeyExpires ==
    ASSUME CacheInv, NEW k \in Keys, Cache!CacheExpireKey(k)
    PROVE  CacheInv'
  <1>1. \A s \in Seq(EntriesFor(k)) : \A t : Retained(s, t) \in Seq(EntriesFor(k))
    BY RetainedProperties
  <1>2. cache' = IF cache[k] = None THEN cache
                 ELSE [cache EXCEPT ![k] = Retained(cache[k], now)]
    BY CacheOperations DEF Cache!CacheExpireKey
  <1> QED
    BY <1>1, <1>2 DEF CacheInv

Answers(paths, k, bucket) ==
    paths = None \/ \E x \in EntriesFor(k) : x.max_account = bucket /\ paths = x.edges

(* get answers with paths of the bucket that lead from the one mint to the other. *)
LEMMA CacheAnswers ==
    ASSUME CacheInv, NEW k \in Keys, NEW a, NEW m
    PROVE  \E lower, upper :
              /\ Cache!CacheGet(k, a, m) = [lower |-> lower, upper |-> upper]
              /\ Answers(lower, k, Bucket(m)) /\ Answers(upper, k, Bucket(m))
  <1>1. CASE cache[k] = None
    BY <1>1, CacheOperations DEF Cache!CacheGet, Answers
  <1>2. CASE cache[k] # None
    <2> DEFINE s == Retained(cache[k], now)
    <2>1. cache[k] \in Seq(EntriesFor(k))
      BY <1>2 DEF CacheInv
    <2>2. s \in Seq(EntriesFor(k))
      BY <2>1, RetainedProperties
    <2>3. Cache!CacheGet(k, a, m) = Lookup(s, a, Bucket(m))
      BY <1>2, CacheOperations DEF Cache!CacheGet
    <2> HIDE DEF s
    <2>4. PICK lower, upper :
              /\ Lookup(s, a, Bucket(m)) = [lower |-> lower, upper |-> upper]
              /\ \/ lower = None
                 \/ \E x \in Range(s) : x.max_account = Bucket(m) /\ lower = x.edges
              /\ \/ upper = None
                 \/ \E x \in Range(s) : x.max_account = Bucket(m) /\ upper = x.edges
      BY <2>2, LookupIsCached
    <2>5. \A x \in Range(s) : x \in EntriesFor(k)
      BY <2>2 DEF Range
    <2>6. Answers(lower, k, Bucket(m)) /\ Answers(upper, k, Bucket(m))
      BY <2>4, <2>5 DEF Answers
    <2>7. Cache!CacheGet(k, a, m) = [lower |-> lower, upper |-> upper]
      BY <2>3, <2>4
    <2> QED BY <2>6, <2>7
  <1> QED
    BY <1>1, <1>2

LEMMA CacheInvalidates ==
    ASSUME CacheInv, NEW pair, NEW m, Cache!CacheInvalidate(pair, m)
    PROVE  CacheInv'
  <1>1. \A k : \A s \in Seq(EntriesFor(k)) : \A b : WithoutBucket(s, b) \in Seq(EntriesFor(k))
    BY WithoutBucketProperties
  <1>2. cache' = [k \in Keys |->
                IF k[1] = pair /\ cache[k] # None /\ cache[<<pair, "ExactIn">>] # None
                THEN WithoutBucket(cache[k], Bucket(m)) ELSE cache[k]]
    BY CacheOperations DEF Cache!CacheInvalidate
  <1> QED
    BY <1>1, <1>2 DEF CacheInv

(* The paths of a search make a proper entry. *)
LEMMA NewEntry ==
    ASSUME NEW k \in Keys, NEW f, NEW a \in Nat, NEW m \in Nat, NEW t \in Nat,
           FoundFrom(f, k[1][1], k[2], m)
    PROVE  [timestamp |-> t, in_amount |-> F64(a), max_account |-> Bucket(m),
            edges |-> f[k[1][2]]] \in EntriesFor(k)
  <1>1. k[1][2] \in Mints
    BY DEF Keys
  <1> QED
    BY <1>1, NumbersOfCalls DEF EntriesFor, EntryFor, RouteEntry, FoundFrom

LEMMA CacheInserts ==
    ASSUME CacheInv, NEW k \in Keys, NEW f, NEW a \in Nat, NEW m \in Nat, NEW t \in Nat,
           FoundFrom(f, k[1][1], k[2], m),
           Cache!CacheInsert(k, a, m, t, f[k[1][2]])
    PROVE  CacheInv'
  <1> DEFINE s == IF cache[k] = None THEN <<>> ELSE cache[k]
             x == [timestamp |-> t, in_amount |-> F64(a), max_account |-> Bucket(m),
                   edges |-> f[k[1][2]]]
  <1>1. s \in Seq(EntriesFor(k))
    BY DEF CacheInv
  <1>2. x \in EntriesFor(k)
    BY NewEntry
  <1>3. PICK pos \in SearchPositions(s, <<a, x.max_account>>) :
           cache' = [cache EXCEPT ![k] = Inserted(s, pos, a, x)]
    BY CacheOperations DEF Cache!CacheInsert
  <1> HIDE DEF s, x
  <1>4. Inserted(s, pos, a, x) \in Seq(EntriesFor(k))
    BY <1>1, <1>2, InsertedElements
  <1> QED
    BY <1>3, <1>4 DEF CacheInv

(* The warmer inserts for all nodes at once. *)
LEMMA WarmerInserts ==
    ASSUME CacheInv, WarmInv, WarmerInsert
    PROVE  CacheInv'
  <1> DEFINE j == warm.job
             bucket == Bucket(j.max_accounts)
             s(k) == IF cache[k] = None THEN <<>> ELSE cache[k]
             x(k) == [timestamp |-> j.timestamp, in_amount |-> F64(j.amount),
                      max_account |-> bucket, edges |-> j.found[k[2]][k[1][2]]]
             pos(k) == CHOOSE p \in SearchPositions(s(k), <<j.amount, bucket>>) : TRUE
             After(k) == Inserted(s(k), pos(k), j.amount, x(k))
  <1>1. JobDone(j)
    BY DEF WarmInv, WarmerInsert
  <1>2. j.amount \in Nat /\ j.max_accounts \in Nat /\ j.timestamp \in Nat
    BY <1>1 DEF JobDone, Jobs
  <1>3. cache' = [k \in DOMAIN cache |-> IF k[1][1] = j.mint THEN After(k) ELSE cache[k]]
    BY DEF WarmerInsert
  <1>4. ASSUME NEW k \in Keys, k[1][1] = j.mint
        PROVE  After(k) \in Seq(EntriesFor(k))
    <2>1. s(k) \in Seq(EntriesFor(k))
      BY DEF CacheInv
    <2>2. FoundFrom(j.found[k[2]], k[1][1], k[2], j.max_accounts)
      BY <1>1, <1>4 DEF JobDone, Keys
    <2> HIDE DEF j
    <2>3. x(k) \in EntriesFor(k) /\ x(k).max_account = bucket
      BY <1>2, <2>2, NewEntry
    <2>4. bucket \in Int /\ j.amount \in Int
      BY <1>2, NumbersOfCalls
    <2> HIDE DEF s, x, bucket
    <2>5. SearchPositions(s(k), <<j.amount, bucket>>) # {}
      BY <2>1, <2>4, EntriesAreKeyed, SearchEnds
    <2>6. pos(k) \in SearchPositions(s(k), <<j.amount, x(k).max_account>>)
      BY <2>3, <2>5
    <2> HIDE DEF pos
    <2> QED BY <2>1, <2>3, <2>6, InsertedElements
  <1> HIDE DEF After, j
  <1> QED
    BY <1>3, <1>4 DEF CacheInv

-----------------------------------------------------------------------------
(* The calls.  A step of r replaces its call and takes, keeps or drops its lock. *)
Locks(r, c) ==
    /\ readers' \in [Modes -> SUBSET Requests]
    /\ \A m \in Modes, q \in Requests :
          q \in readers'[m] <=> IF q = r THEN HoldsLock(c, m) ELSE q \in readers[m]

LEMMA MadeIsCall ==
    ASSUME NEW c \in CallsMade
    PROVE  /\ c # None /\ c \in Calls /\ c.asked \in Asked
           /\ c.asked.mode \in Modes /\ c.asked.amount \in Nat /\ c.asked.max_accounts \in Nat
           /\ c.original \in Nat /\ c.len \in Nat /\ c.attempt \in Nat /\ c.todo \subseteq Mints
  <1>1. c \in Calls /\ c # None
    BY RoutingAssumption DEF CallsMade
  <1>2. c.asked \in Asked /\ c.original \in Nat /\ c.len \in Nat /\ c.attempt \in Nat
        /\ c.todo \subseteq Mints
    BY <1>1 DEF Calls
  <1> QED
    BY <1>1, <1>2, RoutingAssumption

LEMMA CallReplaced ==
    ASSUME CallInv, LockInv, NEW r \in Requests, NEW c \in CallsMade,
           call' = [call EXCEPT ![r] = c],
           \/ Locks(r, c)
           \/ readers' = readers /\ \A m \in Modes : HoldsLock(c, m) <=> HoldsLock(call[r], m)
    PROVE  CallInv' /\ LockInv'
  <1>1. CallInv' /\ call'[r] = c /\ \A q \in Requests : q # r => call'[q] = call[q]
    BY DEF CallInv
  <1>2. CASE Locks(r, c)
    <2>1. \A m \in Modes, q \in Requests : q \in readers'[m] <=> HoldsLock(call'[q], m)
      BY <1>1, <1>2 DEF Locks, LockInv
    <2> QED BY <1>1, <1>2, <2>1 DEF LockInv, Locks
  <1>3. CASE readers' = readers /\ \A m \in Modes : HoldsLock(c, m) <=> HoldsLock(call[r], m)
    <2>1. \A m \in Modes, q \in Requests : q \in readers'[m] <=> HoldsLock(call'[q], m)
      BY <1>1, <1>3 DEF LockInv
    <2> QED BY <1>1, <1>3, <2>1 DEF LockInv
  <1> QED
    BY <1>1, <1>2, <1>3

(* A new call, of a request or of a retry. *)
LEMMA NewCall ==
    ASSUME NEW a \in Asked, NEW original \in Nat, NEW ignore \in BOOLEAN, NEW len \in Nat,
           NEW attempt \in Nat, NEW full \in BOOLEAN,
           ignore => len = MaxPathLength,
           \/ attempt = 1
           \/ attempt = 2 /\ len = MaxPathLength
           \/ attempt = 3 /\ len = MaxPathLength /\ ignore
    PROVE  /\ Call(a, original, ignore, len, attempt, full) \in CallsMade
           /\ \A m : ~HoldsLock(Call(a, original, ignore, len, attempt, full), m)
  <1> DEFINE c == Call(a, original, ignore, len, attempt, full)
  <1>1. c \in Calls
    BY DEF Call, Calls, Labels
  <1>2. /\ c.pc = "begin" /\ c.used_cached = FALSE /\ c.ignore_cache = ignore /\ c.len = len
        /\ c.attempt = attempt /\ c.paths = {} /\ c.found = [n \in Mints |-> {}]
    BY DEF Call
  <1> HIDE DEF c
  <1>3. Relaxing(c) /\ PathsOf(c)
    BY <1>2 DEF Relaxing, PathsOf
  <1>4. FoundFrom(c.found, c.asked.input, c.asked.mode, c.asked.max_accounts)
    BY <1>2 DEF FoundFrom
  <1>5. \A m : ~HoldsLock(c, m)
    BY <1>2 DEF HoldsLock
  <1> QED
    BY <1>1, <1>3, <1>4, <1>5 DEF CallsMade, c

LEMMA RequestStep ==
    ASSUME CallInv, LockInv, NEW r \in Requests, NEW a \in Asked, Request(r, a)
    PROVE  CallInv' /\ LockInv'
  <1> DEFINE c == Call(a, a.amount, FALSE, ShortLength, 1, FALSE)
  <1>1. a.amount \in Nat
    BY RoutingAssumption
  <1>2. c \in CallsMade /\ \A m : ~HoldsLock(c, m)
    BY <1>1, NumbersOfCalls, NewCall
  <1>3. call[r] = None /\ call' = [call EXCEPT ![r] = c] /\ readers' = readers
    BY DEF Request, pruneVars
  <1> HIDE DEF c
  <1>4. \A m : ~HoldsLock(call[r], m)
    BY <1>3 DEF HoldsLock
  <1> QED
    BY <1>2, <1>3, <1>4, CallReplaced

(* A step that only moves on, to a place where nothing new is known. *)
LEMMA GotoStep ==
    ASSUME CallInv, LockInv, NEW r \in Requests, call[r] # None,
           NEW label \in {"select", "write", "lookup", "error"}, Goto(r, label),
           call[r].pc \in {"begin", "select", "write", "lookup"}, readers' = readers
    PROVE  CallInv' /\ LockInv'
  <1> DEFINE c == call[r]  d == [c EXCEPT !.pc = label]
  <1>1. c \in CallsMade /\ call' = [call EXCEPT ![r] = d]
    BY DEF CallInv, Goto
  <1>2. c \in Calls /\ Relaxing(c) /\ PathsOf(c)
        /\ FoundFrom(c.found, c.asked.input, c.asked.mode, c.asked.max_accounts)
    BY <1>1 DEF CallsMade
  <1> HIDE DEF c
  <1>3. /\ d \in Calls /\ d.pc = label /\ d.asked = c.asked /\ d.paths = c.paths
        /\ d.found = c.found /\ d.used_cached = c.used_cached /\ d.len = c.len
        /\ d.ignore_cache = c.ignore_cache /\ d.attempt = c.attempt
    BY <1>2 DEF Calls, Labels
  <1> HIDE DEF d
  <1>4. d \in CallsMade
    BY <1>2, <1>3 DEF CallsMade, Relaxing, PathsOf, c
  <1>5. \A m : ~HoldsLock(c, m) /\ ~HoldsLock(d, m)
    BY <1>3 DEF HoldsLock, c
  <1> QED
    BY <1>1, <1>4, <1>5, CallReplaced DEF c

(* The cached paths a call may use. *)
LEMMA AnswersAreRight ==
    ASSUME NEW ps, NEW k, NEW b, Answers(ps, k, b), ps # None
    PROVE  /\ ps \subseteq Seq(Edges) /\ \A p \in ps : Fits(p, b)
           /\ k[2] = "ExactIn" => \A p \in ps : Connects(p, k[1][1], k[1][2])
  BY DEF Answers, EntriesFor, EntryFor, RouteEntry

LEMMA LookupStep ==
    ASSUME CacheInv, CallInv, LockInv, NEW r \in Requests, call[r] # None, LookupCache(r)
    PROVE  CacheInv' /\ CallInv' /\ LockInv'
  <1> DEFINE c == call[r]
             k == <<Pair(c), c.asked.mode>>
             hit == Cache!CacheGet(k, Amount(c), c.asked.max_accounts)
             used == ~c.ignore_cache /\ (hit.lower # None \/ hit.upper # None)
             Of(x) == IF x = None THEN {} ELSE x
             ps == IF used THEN Of(hit.lower) \union Of(hit.upper) ELSE {}
             d == [c EXCEPT !.pc = IF used THEN "direct" ELSE "search",
                            !.used_cached = used, !.paths = ps]
  <1>1. c \in CallsMade /\ c.pc = "lookup" /\ Known(c) /\ readers' = readers
        /\ call' = [call EXCEPT ![r] = d]
    BY DEF CallInv, LookupCache, pruneVars
  <1>2. c \in Calls /\ Relaxing(c)
        /\ FoundFrom(c.found, c.asked.input, c.asked.mode, c.asked.max_accounts)
    BY <1>1 DEF CallsMade
  <1>3. k \in Keys /\ k[2] = c.asked.mode /\ k[1][1] = c.asked.input /\ k[1][2] = c.asked.output
    BY <1>1, MadeIsCall DEF Keys, Known, Pair
  <1>4. CacheInv'
    BY <1>3, CacheKeyExpires DEF LookupCache
  <1>5. PICK lower, upper :
           /\ hit = [lower |-> lower, upper |-> upper]
           /\ Answers(lower, k, Bucket(c.asked.max_accounts))
           /\ Answers(upper, k, Bucket(c.asked.max_accounts))
    BY <1>3, CacheAnswers
  <1>6. hit.lower = lower /\ hit.upper = upper
    BY <1>5
  <1> HIDE DEF c, hit, k
  <1>7. /\ ps \subseteq Seq(Edges) /\ \A p \in ps : Fits(p, Bucket(c.asked.max_accounts))
        /\ c.asked.mode = "ExactIn" =>
              \A p \in ps : Connects(p, c.asked.input, c.asked.output)
    BY <1>3, <1>5, <1>6, AnswersAreRight
  <1>8. used \in BOOLEAN /\ (c.ignore_cache => used = FALSE)
    OBVIOUS
  <1> HIDE DEF used, ps
  <1>9. /\ d \in Calls /\ d.pc = (IF used THEN "direct" ELSE "search") /\ d.asked = c.asked
        /\ d.paths = ps /\ d.used_cached = used /\ d.found = c.found /\ d.len = c.len
        /\ d.ignore_cache = c.ignore_cache /\ d.attempt = c.attempt
    BY <1>2, <1>7, <1>8 DEF Calls, Labels
  <1> HIDE DEF d
  <1>10. Relaxing(d)
    BY <1>1, <1>2, <1>8, <1>9 DEF Relaxing, Known
  <1>11. PathsOf(d)
    BY <1>7, <1>9 DEF PathsOf
  <1>12. d \in CallsMade
    BY <1>2, <1>9, <1>10, <1>11 DEF CallsMade
  <1>13. \A m : ~HoldsLock(c, m) /\ ~HoldsLock(d, m)
    BY <1>1, <1>8, <1>9 DEF HoldsLock
  <1> QED
    BY <1>1, <1>4, <1>12, <1>13, CallReplaced DEF c

LEMMA SearchStep ==
    ASSUME SharedInv, CallInv, LockInv, NEW r \in Requests, call[r] # None, SearchPaths(r)
    PROVE  CallInv' /\ LockInv'
  <1> DEFINE c == call[r]  mode == c.asked.mode
             start == IF mode = "ExactIn" THEN c.asked.input ELSE c.asked.output
             goal  == IF mode = "ExactIn" THEN c.asked.output ELSE c.asked.input
             full == c.full_search \/ c.len = MaxPathLength
             D(f) == [c EXCEPT !.pc = "insert", !.found = f, !.paths = f[goal], !.todo = Mints,
                               !.full_search = full]
  <1>1. PICK f \in Found(start, mode, c.len, c.asked.max_accounts) :
           call' = [call EXCEPT ![r] = D(f)]
    <2>1. PICK f \in Found(start, mode, c.len, c.asked.max_accounts) :
             call' = [call EXCEPT ![r].pc = "insert", ![r].found = f, ![r].paths = f[goal],
                                  ![r].todo = Mints,
                                  ![r].full_search = @ \/ c.len = MaxPathLength]
      BY DEF SearchPaths
    <2>2. call' = [call EXCEPT ![r].pc = "insert", ![r].found = f, ![r].paths = f[goal],
                               ![r].todo = Mints, ![r].full_search = full]
      BY <2>1
    <2> HIDE DEF full, goal
    <2>3. call' = [call EXCEPT ![r] = D(f)]
      BY <2>2 DEF CallInv
    <2> QED BY <2>3
  <1>2. c \in CallsMade /\ c.pc = "search" /\ readers' = [readers EXCEPT ![mode] = @ \union {r}]
    BY DEF CallInv, SearchPaths
  <1>3. c \in Calls /\ Relaxing(c)
    BY <1>2 DEF CallsMade
  <1>4. c.asked.max_accounts \in Nat /\ c.len \in Nat /\ mode \in Modes
    BY <1>2, MadeIsCall
  <1>5. Known(c) /\ goal \in Mints /\ Mints # {}
    BY <1>2, <1>3 DEF Relaxing, Known
  <1> HIDE DEF c
  <1>6. FoundFrom(f, start, mode, c.asked.max_accounts)
    BY <1>1, <1>4, FoundIsRight DEF SharedInv
  <1> DEFINE d == D(f)
  <1>7. full \in BOOLEAN
    OBVIOUS
  <1>8. d = [c EXCEPT !.pc = "insert", !.found = f, !.paths = f[goal], !.todo = Mints,
                      !.full_search = full]
    OBVIOUS
  <1>9. f \in [Mints -> SUBSET Seq(Edges)] /\ f[goal] \in SUBSET Seq(Edges)
    BY <1>5, <1>6 DEF FoundFrom
  <1>10. c.len = MaxPathLength => full = TRUE
    OBVIOUS
  <1> HIDE DEF full, d, goal
  <1>11. /\ d \in Calls /\ d.pc = "insert" /\ d.asked = c.asked /\ d.todo = Mints
         /\ d.paths = f[goal] /\ d.used_cached = c.used_cached /\ d.found = f /\ d.len = c.len
         /\ d.ignore_cache = c.ignore_cache /\ d.attempt = c.attempt /\ d.full_search = full
    BY <1>3, <1>7, <1>8, <1>9 DEF Calls, Labels
  <1>12. Relaxing(d)
    BY <1>2, <1>3, <1>5, <1>10, <1>11 DEF Relaxing, Known
  <1>13. FoundFrom(d.found, d.asked.input, d.asked.mode, d.asked.max_accounts)
    BY <1>6, <1>11 DEF FoundFrom
  <1>14. PathsOf(d)
    BY <1>5, <1>6, <1>11 DEF FoundFrom, PathsOf, goal
  <1>15. d \in CallsMade
    BY <1>11, <1>12, <1>13, <1>14 DEF CallsMade
  <1>16. \A m : ~HoldsLock(c, m)
    BY <1>2 DEF HoldsLock
  <1>17. \A m : HoldsLock(d, m) <=> m = mode
    BY <1>11, <1>15, MadeIsCall DEF HoldsLock
  <1>18. Locks(r, d)
    BY <1>2, <1>4, <1>16, <1>17 DEF Locks, LockInv, c
  <1> QED
    BY <1>1, <1>15, <1>18, CallReplaced DEF d

LEMMA InsertStep ==
    ASSUME SharedInv, CacheInv, CallInv, LockInv,
           NEW r \in Requests, call[r] # None, InsertFound(r)
    PROVE  CacheInv' /\ CallInv' /\ LockInv'
  <1> DEFINE c == call[r]  n == Min(c.todo)
             d == [c EXCEPT !.todo = @ \ {n}, !.pc = IF c.todo = {n} THEN "direct" ELSE @]
             k == KeyOf(c, n)
  <1>1. c \in CallsMade /\ c.pc = "insert" /\ readers' = readers
        /\ call' = [call EXCEPT ![r] = d]
    BY DEF CallInv, InsertFound, pruneVars
  <1>2. c \in Calls /\ Relaxing(c) /\ PathsOf(c)
        /\ FoundFrom(c.found, c.asked.input, c.asked.mode, c.asked.max_accounts)
    BY <1>1 DEF CallsMade
  <1>3. c.todo # {} /\ c.todo \subseteq Mints /\ c.todo \in SUBSET Nat
    BY <1>1, <1>2, MadeIsCall, RoutingAssumption DEF Relaxing
  <1>4. n \in c.todo /\ n \in Mints
    BY <1>3, MinIsLeast
  <1>5. c.asked.input \in Mints /\ c.asked.mode \in Modes /\ c.asked.max_accounts \in Nat
        /\ Amount(c) \in Nat
    BY <1>1, <1>2, MadeIsCall, NumbersOfCalls DEF Relaxing, Known, Amount
  <1>6. k \in Keys /\ k[2] = c.asked.mode /\ k[1][1] = c.asked.input /\ k[1][2] = n
    BY <1>4, <1>5 DEF Keys, KeyOf
  <1>7. Cache!CacheInsert(k, Amount(c), c.asked.max_accounts, now, c.found[k[1][2]])
    BY <1>6 DEF InsertFound
  <1>8. FoundFrom(c.found, k[1][1], k[2], c.asked.max_accounts)
    BY <1>2, <1>6
  <1> HIDE DEF c, k, n
  <1>9. CacheInv'
    BY <1>5, <1>6, <1>7, <1>8, CacheInserts DEF SharedInv
  <1>10. /\ d \in Calls /\ d.pc = (IF c.todo = {n} THEN "direct" ELSE "insert")
         /\ d.asked = c.asked /\ d.todo = c.todo \ {n} /\ d.paths = c.paths
         /\ d.used_cached = c.used_cached /\ d.found = c.found /\ d.len = c.len
         /\ d.ignore_cache = c.ignore_cache /\ d.attempt = c.attempt
         /\ d.full_search = c.full_search
    BY <1>1, <1>2 DEF Calls, Labels
  <1> HIDE DEF d
  <1>11. d.pc = "insert" => d.todo # {}
    BY <1>3, <1>4, <1>10
  <1>12. Relaxing(d)
    BY <1>1, <1>2, <1>10, <1>11 DEF Relaxing, Known
  <1>13. d \in CallsMade
    BY <1>2, <1>10, <1>12 DEF CallsMade, PathsOf
  <1>14. c.used_cached = FALSE
    BY <1>1, <1>2 DEF Relaxing, Calls
  <1>15. \A m : HoldsLock(d, m) <=> HoldsLock(c, m)
    BY <1>1, <1>10, <1>13, <1>14, MadeIsCall DEF HoldsLock
  <1> QED
    BY <1>1, <1>9, <1>13, <1>15, CallReplaced DEF c

LEMMA DirectStep ==
    ASSUME SharedInv, CallInv, LockInv, NEW r \in Requests, call[r] # None, AddDirect(r)
    PROVE  CallInv' /\ LockInv'
  <1> DEFINE c == call[r]  mode == c.asked.mode
             ds == {<<e>> : e \in Direct(c)}
             none == [n \in Mints |-> {}]
             d == [c EXCEPT !.pc = "evaluate", !.found = none, !.paths = @ \union ds]
  <1>1. c \in CallsMade /\ c.pc = "direct" /\ readers' = [readers EXCEPT ![mode] = @ \ {r}]
        /\ call' = [call EXCEPT ![r] = d]
    BY DEF CallInv, AddDirect, Released
  <1>2. c \in Calls /\ Relaxing(c) /\ PathsOf(c) /\ mode \in Modes
    BY <1>1, MadeIsCall DEF CallsMade
  <1>3. ASSUME NEW p \in ds
        PROVE  /\ p \in Seq(Edges) /\ Len(p) = 1
               /\ mode = "ExactIn" => Connects(p, c.asked.input, c.asked.output)
    <2>1. PICK e \in Direct(c) : p = <<e>>
      BY <1>3
    <2>2. e \in Edges /\ Source(e, mode) = c.asked.input /\ Target(e, mode) = c.asked.output
      BY <2>1 DEF Direct, SharedInv
    <2> QED BY <2>1, <2>2 DEF Connects, Source, Target
  <1>4. none \in [Mints -> SUBSET Seq(Edges)]
    OBVIOUS
  <1>5. \A f : f = none => FoundFrom(f, c.asked.input, mode, c.asked.max_accounts)
    BY DEF FoundFrom
  <1> HIDE DEF c, ds, none
  <1>6. /\ d \in Calls /\ d.pc = "evaluate" /\ d.asked = c.asked /\ d.paths = c.paths \union ds
        /\ d.used_cached = c.used_cached /\ d.found = none /\ d.len = c.len
        /\ d.ignore_cache = c.ignore_cache /\ d.attempt = c.attempt
        /\ d.full_search = c.full_search
    BY <1>1, <1>2, <1>3, <1>4 DEF Calls, Labels
  <1> HIDE DEF d
  <1>7. Relaxing(d)
    BY <1>1, <1>2, <1>6 DEF Relaxing, Known
  <1>8. PathsOf(d)
    BY <1>2, <1>3, <1>6 DEF PathsOf
  <1>9. d \in CallsMade
    BY <1>5, <1>6, <1>7, <1>8 DEF CallsMade
  <1>10. \A m : ~HoldsLock(d, m) /\ (m # mode => ~HoldsLock(c, m))
    BY <1>6 DEF HoldsLock
  <1>11. Locks(r, d)
    BY <1>1, <1>2, <1>10 DEF Locks, LockInv, c
  <1> QED
    BY <1>1, <1>9, <1>11, CallReplaced

(* Steps that drop candidates. *)
LEMMA FewerPaths ==
    ASSUME CallInv, LockInv, NEW r \in Requests, call[r] # None, readers' = readers,
           NEW label \in {"build", "route", "error"}, NEW ps \in SUBSET call[r].paths,
           NEW built \in Nat \union {None},
           call[r].pc \in {"evaluate", "build"},
           call' = [call EXCEPT ![r].pc = label, ![r].paths = ps, ![r].built_for = built]
    PROVE  CallInv' /\ LockInv'
  <1> DEFINE c == call[r]
             d == [c EXCEPT !.pc = label, !.paths = ps, !.built_for = built]
  <1>1. c \in CallsMade /\ call' = [call EXCEPT ![r] = d]
    BY DEF CallInv
  <1>2. c \in Calls /\ Relaxing(c) /\ PathsOf(c)
        /\ FoundFrom(c.found, c.asked.input, c.asked.mode, c.asked.max_accounts)
    BY <1>1 DEF CallsMade
  <1>3. c.pc \in {"evaluate", "build"} /\ ps \subseteq c.paths
    OBVIOUS
  <1> HIDE DEF c
  <1>4. /\ d \in Calls /\ d.pc = label /\ d.asked = c.asked /\ d.paths = ps
        /\ d.used_cached = c.used_cached /\ d.found = c.found /\ d.len = c.len
        /\ d.ignore_cache = c.ignore_cache /\ d.attempt = c.attempt
        /\ d.full_search = c.full_search
    BY <1>2, <1>3 DEF Calls, Labels
  <1> HIDE DEF d
  <1>5. Relaxing(d)
    BY <1>2, <1>3, <1>4 DEF Relaxing, Known
  <1>6. d \in CallsMade
    BY <1>2, <1>3, <1>4, <1>5 DEF CallsMade, PathsOf
  <1>7. \A m : ~HoldsLock(c, m) /\ ~HoldsLock(d, m)
    BY <1>3, <1>4 DEF HoldsLock
  <1> QED
    BY <1>1, <1>6, <1>7, CallReplaced DEF c

LEMMA EvaluateStep ==
    ASSUME CallInv, LockInv, NEW r \in Requests, call[r] # None, Evaluate(r)
    PROVE  CallInv' /\ LockInv'
  <1>1. PICK ok \in SUBSET Usable(call[r]) :
           call' = [call EXCEPT ![r].pc = "build", ![r].paths = ok]
    BY DEF Evaluate
  <1>2. call[r] \in CallsMade /\ call[r].pc = "evaluate" /\ readers' = readers
    BY DEF CallInv, Evaluate, pruneVars
  <1>3. call[r] \in Calls /\ call[r].built_for \in Nat \union {None}
    BY <1>2 DEF CallsMade, Calls
  <1>4. ok \in SUBSET call[r].paths
    BY <1>1 DEF Usable
  <1>5. call' = [call EXCEPT ![r].pc = "build", ![r].paths = ok,
                             ![r].built_for = call[r].built_for]
    BY <1>1, <1>3 DEF Calls, CallInv
  <1> QED
    BY <1>2, <1>3, <1>4, <1>5, FewerPaths

LEMMA BuildStep ==
    ASSUME CallInv, LockInv, NEW r \in Requests, call[r] # None,
           NEW p \in call[r].paths, NEW o \in {"route", "zero", "error"}, BuildRoute(r, p, o)
    PROVE  CallInv' /\ LockInv'
  <1> DEFINE c == call[r]
             label == IF o = "zero" THEN c.pc ELSE o
             built == IF o = "route" THEN c.original ELSE c.built_for
             ps == IF o = "route" THEN {p} ELSE IF o = "zero" THEN c.paths \ {p} ELSE {}
  <1>1. c \in CallsMade /\ c.pc = "build" /\ readers' = readers
    BY DEF CallInv, BuildRoute, pruneVars
  <1>2. c \in Calls /\ built \in Nat \union {None} /\ label \in {"build", "route", "error"}
        /\ ps \in SUBSET c.paths
    BY <1>1 DEF CallsMade, Calls
  <1>3. call' = [call EXCEPT ![r].pc = label, ![r].built_for = built, ![r].paths = ps]
    BY <1>1 DEF BuildRoute, CallInv
  <1> HIDE DEF label, built, ps
  <1>4. call' = [call EXCEPT ![r].pc = label, ![r].paths = ps, ![r].built_for = built]
    BY <1>2, <1>3 DEF Calls, CallInv
  <1> QED
    BY <1>1, <1>2, <1>4, FewerPaths

(* The retries: two at most, and a refusal only after a full search. *)
LEMMA RelaxStep ==
    ASSUME CacheInv, CallInv, LockInv, NEW r \in Requests, call[r] # None, Relax(r)
    PROVE  CacheInv' /\ CallInv' /\ LockInv'
  <1> DEFINE c == call[r]
             retry == ~c.ignore_cache /\ (c.used_cached \/ c.len # MaxPathLength)
             d == IF retry THEN Retry(c) ELSE [c EXCEPT !.pc = "no_path"]
  <1>1. c \in CallsMade /\ c.pc = "build" /\ readers' = readers
        /\ call' = [call EXCEPT ![r] = d]
    BY DEF CallInv, Relax, pruneVars
  <1>2. CacheInv'
    <2>1. CASE UNCHANGED cache
      BY <2>1 DEF CacheInv
    <2>2. CASE Cache!CacheInvalidate(Pair(c), c.asked.max_accounts)
      BY <2>2, CacheInvalidates
    <2> QED BY <2>1, <2>2 DEF Relax
  <1>3. c \in Calls /\ Relaxing(c) /\ PathsOf(c)
        /\ FoundFrom(c.found, c.asked.input, c.asked.mode, c.asked.max_accounts)
    BY <1>1 DEF CallsMade
  <1>4. /\ c.asked \in Asked /\ c.original \in Nat /\ c.ignore_cache \in BOOLEAN
        /\ c.used_cached \in BOOLEAN /\ c.full_search \in BOOLEAN /\ c.len \in Nat
        /\ c.attempt \in Nat /\ Amount(c) \in Nat /\ MaxPathLength \in Nat
    BY <1>3, NumbersOfCalls, RoutingAssumption DEF Calls, Amount
  <1> HIDE DEF c
  <1>5. ASSUME retry PROVE d \in CallsMade /\ \A m : ~HoldsLock(d, m)
    <2>1. d = Call(c.asked, Amount(c), c.used_cached, MaxPathLength, c.attempt + 1, c.full_search)
      BY <1>5 DEF Retry
    <2>2. c.attempt + 1 \in Nat /\
          (c.attempt + 1 = 2 \/ (c.attempt + 1 = 3 /\ c.used_cached))
      BY <1>3, <1>4, <1>5 DEF Relaxing
    <2> HIDE DEF d
    <2>3. d \in CallsMade /\ \A m : ~HoldsLock(d, m)
      BY <1>4, <2>1, <2>2, NewCall
    <2> QED BY <2>3
  <1>6. ASSUME ~retry PROVE d \in CallsMade /\ \A m : ~HoldsLock(d, m)
    <2>1. d = [c EXCEPT !.pc = "no_path"]
      BY <1>6
    <2>2. c.full_search
      BY <1>1, <1>3, <1>4, <1>6 DEF Relaxing
    <2> HIDE DEF d, retry
    <2>3. /\ d \in Calls /\ d.pc = "no_path" /\ d.asked = c.asked /\ d.paths = c.paths
          /\ d.used_cached = c.used_cached /\ d.found = c.found /\ d.len = c.len
          /\ d.ignore_cache = c.ignore_cache /\ d.attempt = c.attempt
          /\ d.full_search = c.full_search
      BY <1>3, <2>1 DEF Calls, Labels
    <2>4. Relaxing(d)
      BY <1>3, <2>2, <2>3 DEF Relaxing, Known
    <2>5. d \in CallsMade
      BY <1>3, <2>3, <2>4 DEF CallsMade, PathsOf
    <2> QED BY <2>3, <2>5 DEF HoldsLock
  <1> HIDE DEF d, retry
  <1>7. d \in CallsMade /\ \A m : ~HoldsLock(d, m)
    BY <1>5, <1>6
  <1>8. \A m : ~HoldsLock(c, m)
    BY <1>1 DEF HoldsLock
  <1> QED
    BY <1>1, <1>2, <1>7, <1>8, CallReplaced DEF c

-----------------------------------------------------------------------------
(* The selected edges *)
LEMMA SelectStep ==
    ASSUME SharedInv, CacheInv, NEW q \in Pruners, NEW mode \in Modes, Select(q, mode),
           rounds' \in Nat
    PROVE  SharedInv' /\ CacheInv' /\ readers' = readers
  <1>1. PICK es \in SUBSET Selectable(mode) :
           selection' = [selection EXCEPT ![q] = [mode |-> mode, edges |-> es, waiting |-> FALSE]]
    BY DEF Select
  <1>2. es \in SUBSET Edges
    BY <1>1 DEF Selectable, SharedInv
  <1>3. selection' \in [Pruners -> Selections \union {None}]
    BY <1>1, <1>2 DEF SharedInv, Selections
  <1>4. last_expire' \in Nat /\ poisoned' \in BOOLEAN
    BY DEF Select, Cache!CacheExpire, SharedInv
  <1>5. CacheInv'
    BY CacheExpires DEF Select
  <1> QED
    BY <1>3, <1>4, <1>5 DEF Select, SharedInv

LEMMA WriteStep ==
    ASSUME SharedInv, NEW q \in Pruners, WritePruned(q), rounds' \in Nat
    PROVE  SharedInv' /\ cache' = cache /\ readers' = readers
  <1>1. selection[q] \in Selections
    BY DEF WritePruned, SharedInv
  <1>2. selection[q].mode \in Modes /\ selection[q].edges \in SUBSET Edges
    BY <1>1 DEF Selections
  <1>3. pruned' \in [Modes -> (SUBSET Edges) \union {None}]
    BY <1>2 DEF WritePruned, SharedInv
  <1>4. stamp' \in [Modes -> Nat \union {None}]
    BY <1>2 DEF WritePruned, SharedInv
  <1>5. selection' \in [Pruners -> Selections \union {None}]
    BY DEF WritePruned, SharedInv
  <1> QED
    BY <1>3, <1>4, <1>5 DEF WritePruned, SharedInv, cacheVars

LEMMA AwaitStep ==
    ASSUME SharedInv, NEW q \in Pruners, AwaitWrite(q)
    PROVE  SharedInv'
  <1>1. selection[q] \in Selections
    BY DEF AwaitWrite, SharedInv
  <1>2. [selection[q] EXCEPT !.waiting = TRUE] \in Selections
    BY <1>1 DEF Selections
  <1>3. selection' = [selection EXCEPT ![q] = [selection[q] EXCEPT !.waiting = TRUE]]
    BY DEF AwaitWrite
  <1>4. selection' \in [Pruners -> Selections \union {None}]
    BY <1>2, <1>3 DEF SharedInv
  <1> QED
    BY <1>4 DEF AwaitWrite, SharedInv, cacheVars, warmVars

-----------------------------------------------------------------------------
(* The warmer *)
LEMMA WarmerSearches ==
    ASSUME SharedInv, WarmInv, NEW w \in Warmed, WarmerSearch(w)
    PROVE  WarmInv'
  <1>1. w[1] \in Mints /\ w[2] \in Nat /\ w[3] \in Nat /\ MaxPathLength \in Nat
    BY RoutingAssumption
  <1>2. PICK f \in Found(w[1], "ExactIn", MaxPathLength, w[3]),
             g \in Found(w[1], "ExactOut", MaxPathLength, w[3]) :
          warm' = [pc |-> "insert", todo |-> warm.todo \ {w},
                   job |-> [mint |-> w[1], amount |-> w[2], max_accounts |-> w[3],
                            timestamp |-> now,
                            found |-> [m \in Modes |-> IF m = "ExactIn" THEN f ELSE g]]]
    BY DEF WarmerSearch
  <1>3. FoundFrom(f, w[1], "ExactIn", w[3]) /\ FoundFrom(g, w[1], "ExactOut", w[3])
    BY <1>1, <1>2, FoundIsRight DEF SharedInv, Modes
  <1> DEFINE fg == [m \in Modes |-> IF m = "ExactIn" THEN f ELSE g]
             j == [mint |-> w[1], amount |-> w[2], max_accounts |-> w[3],
                   timestamp |-> now, found |-> fg]
  <1>4. \A m \in Modes : FoundFrom(fg[m], w[1], m, w[3])
    BY <1>3 DEF Modes
  <1>5. fg \in [Modes -> [Mints -> SUBSET Seq(Edges)]]
    BY <1>3 DEF FoundFrom
  <1> HIDE DEF fg
  <1>6. j \in Jobs
    BY <1>1, <1>5 DEF Jobs, SharedInv
  <1>7. JobDone(j)
    BY <1>4, <1>6 DEF JobDone
  <1>8. warm' = [pc |-> "insert", todo |-> warm.todo \ {w}, job |-> j]
    BY <1>2 DEF fg
  <1>9. warm.todo \ {w} \in SUBSET Warmed
    BY DEF WarmInv
  <1> HIDE DEF j
  <1> QED
    BY <1>6, <1>7, <1>8, <1>9 DEF WarmInv

LEMMA WarmerMoves ==
    ASSUME WarmInv,
           \/ \E label \in {"in", "next", "out", "idle"} : warm' = [warm EXCEPT !.pc = label]
           \/ warm' = [warm EXCEPT !.pc = "jobs", !.todo = Warmed]
           \/ warm' = [warm EXCEPT !.pc = "jobs", !.job = None]
    PROVE  WarmInv'
  BY DEF WarmInv

LEMMA WarmerSkips ==
    ASSUME WarmInv, NEW w, WarmerSkip(w)
    PROVE  WarmInv'
  <1>1. warm.pc = "jobs" /\ warm' = [warm EXCEPT !.todo = {v \in warm.todo : v[1] # w[1]}]
    BY DEF WarmerSkip, WarmInv
  <1>2. {v \in warm.todo : v[1] # w[1]} \in SUBSET Warmed
    BY DEF WarmInv
  <1> QED
    BY <1>1, <1>2 DEF WarmInv

-----------------------------------------------------------------------------
LEMMA Unmoved ==
    ASSUME CallInv, LockInv, call' = call, readers' = readers
    PROVE  CallInv' /\ LockInv'
  BY DEF CallInv, LockInv

LEMMA RequestKeeps ==
    ASSUME RoutingInv, NEW r \in Requests, Step(r)
    PROVE  RoutingInv'
  <1> USE DEF RoutingInv
  <1>1. call[r] # None /\ r \in Pruners /\ call[r].asked.mode \in Modes
    BY MadeIsCall DEF Step, CallInv, Pruners
  <1>2. CASE CheckPruned(r)
    <2>1. CallInv' /\ LockInv'
      BY <1>1, <1>2, GotoStep DEF CheckPruned, pruneVars
    <2> QED BY <1>2, <2>1 DEF CheckPruned, SharedInv, WarmInv, CacheInv, cacheVars, pruneVars, warmVars
  <1>3. CASE RequestSelect(r)
    <2>1. SharedInv' /\ CacheInv' /\ readers' = readers
      BY <1>1, <1>3, SelectStep DEF RequestSelect, warmVars, SharedInv
    <2>2. CallInv' /\ LockInv'
      BY <1>1, <1>3, <2>1, GotoStep DEF RequestSelect
    <2> QED BY <1>3, <2>1, <2>2 DEF RequestSelect, WarmInv, warmVars
  <1>4. CASE RequestWrite(r)
    <2>1. SharedInv' /\ cache' = cache /\ readers' = readers
      BY <1>1, <1>4, WriteStep DEF RequestWrite, warmVars, SharedInv
    <2>2. CallInv' /\ LockInv'
      BY <1>1, <1>4, <2>1, GotoStep DEF RequestWrite
    <2> QED BY <1>4, <2>1, <2>2 DEF RequestWrite, WarmInv, CacheInv, warmVars
  <1>5. CASE LookupCache(r)
    <2>1. CacheInv' /\ CallInv' /\ LockInv'
      BY <1>1, <1>5, LookupStep
    <2> QED BY <1>5, <2>1 DEF LookupCache, SharedInv, WarmInv, pruneVars, warmVars
  <1>6. CASE Unsupported(r)
    <2>1. CallInv' /\ LockInv'
      BY <1>1, <1>6, GotoStep DEF Unsupported, pruneVars
    <2> QED BY <1>6, <2>1 DEF Unsupported, SharedInv, WarmInv, CacheInv, cacheVars, pruneVars, warmVars
  <1>7. CASE SearchPaths(r)
    <2>1. CallInv' /\ LockInv'
      BY <1>1, <1>7, SearchStep
    <2> QED BY <1>7, <2>1 DEF SearchPaths, SharedInv, WarmInv, CacheInv, cacheVars, warmVars
  <1>8. CASE InsertFound(r)
    <2>1. CacheInv' /\ CallInv' /\ LockInv'
      BY <1>1, <1>8, InsertStep
    <2> QED BY <1>8, <2>1 DEF InsertFound, SharedInv, WarmInv, pruneVars, warmVars
  <1>9. CASE AddDirect(r)
    <2>1. CallInv' /\ LockInv'
      BY <1>1, <1>9, DirectStep
    <2> QED BY <1>9, <2>1 DEF AddDirect, SharedInv, WarmInv, CacheInv, cacheVars, warmVars
  <1>10. CASE Evaluate(r)
    <2>1. CallInv' /\ LockInv'
      BY <1>1, <1>10, EvaluateStep
    <2>2. valid' \subseteq Edges
      BY <1>10 DEF Evaluate, SharedInv
    <2> QED BY <1>10, <2>1, <2>2 DEF Evaluate, SharedInv, WarmInv, CacheInv, cacheVars, pruneVars, warmVars
  <1>11. CASE Relax(r)
    <2>1. CacheInv' /\ CallInv' /\ LockInv'
      BY <1>1, <1>11, RelaxStep
    <2> QED BY <1>11, <2>1 DEF Relax, SharedInv, WarmInv, pruneVars, warmVars
  <1>12. ASSUME NEW p \in call[r].paths, NEW o \in {"route", "zero", "error"}, BuildRoute(r, p, o)
         PROVE  RoutingInv'
    <2>1. CallInv' /\ LockInv'
      BY <1>1, <1>12, BuildStep
    <2> QED BY <1>12, <2>1 DEF BuildRoute, SharedInv, WarmInv, CacheInv, cacheVars, pruneVars, warmVars
  <1> QED
    BY <1>2, <1>3, <1>4, <1>5, <1>6, <1>7, <1>8, <1>9, <1>10, <1>11, <1>12 DEF Step

LEMMA WarmerKeeps ==
    ASSUME RoutingInv,
           \/ WarmerSelect \/ WarmerWrite \/ WarmerInsert \/ WarmerEnd
           \/ \E w \in Warmed : WarmerSkip(w) \/ WarmerSearch(w)
    PROVE  RoutingInv'
  <1> USE DEF RoutingInv
  <1>1. Warmer \in Pruners /\ "ExactIn" \in Modes /\ "ExactOut" \in Modes
    BY DEF Pruners, Modes
  <1>2. CASE WarmerSelect
    <2>1. PICK mode \in Modes : Select(Warmer, mode)
      BY <1>1, <1>2 DEF WarmerSelect
    <2>2. rounds' \in Nat
      BY <1>2 DEF WarmerSelect, SharedInv
    <2>3. SharedInv' /\ CacheInv' /\ readers' = readers
      BY <1>1, <2>1, <2>2, SelectStep
    <2>4. WarmInv'
      BY <1>2, WarmerMoves DEF WarmerSelect
    <2> QED BY <1>2, <2>3, <2>4, Unmoved DEF WarmerSelect
  <1>3. CASE WarmerWrite
    <2>1. SharedInv' /\ cache' = cache /\ readers' = readers
      BY <1>1, <1>3, WriteStep DEF WarmerWrite, SharedInv
    <2>2. WarmInv'
      BY <1>3, WarmerMoves DEF WarmerWrite
    <2> QED BY <1>3, <2>1, <2>2, Unmoved DEF WarmerWrite, CacheInv
  <1>4. CASE WarmerInsert
    <2>1. CacheInv'
      BY <1>4, WarmerInserts
    <2>2. WarmInv'
      BY <1>4, WarmerMoves DEF WarmerInsert
    <2> QED BY <1>4, <2>1, <2>2, Unmoved DEF WarmerInsert, SharedInv, pruneVars
  <1>5. CASE WarmerEnd
    <2>1. WarmInv'
      BY <1>5, WarmerMoves DEF WarmerEnd
    <2> QED BY <1>5, <2>1, Unmoved DEF WarmerEnd, SharedInv, CacheInv, cacheVars, pruneVars
  <1>6. ASSUME NEW w \in Warmed, WarmerSkip(w)
        PROVE  RoutingInv'
    <2>1. WarmInv'
      BY <1>6, WarmerSkips
    <2> QED BY <1>6, <2>1, Unmoved DEF WarmerSkip, SharedInv, CacheInv, cacheVars, pruneVars
  <1>7. ASSUME NEW w \in Warmed, WarmerSearch(w)
        PROVE  RoutingInv'
    <2>1. WarmInv'
      BY <1>7, WarmerSearches
    <2> QED BY <1>7, <2>1, Unmoved DEF WarmerSearch, SharedInv, CacheInv, cacheVars, pruneVars
  <1> QED
    BY <1>2, <1>3, <1>4, <1>5, <1>6, <1>7

LEMMA EnvironmentKeeps ==
    ASSUME RoutingInv,
           \/ Tick \/ Done \/ UNCHANGED vars
           \/ \E e \in Edges : Flip(e)
           \/ \E q \in Pruners : AwaitWrite(q)
           \/ \E r \in Requests, a \in Asked : Request(r, a)
    PROVE  RoutingInv'
  <1> USE DEF RoutingInv
  <1>1. CASE Tick
    BY <1>1, Unmoved DEF Tick, SharedInv, WarmInv, CacheInv, cacheVars, pruneVars, warmVars
  <1>2. CASE Done \/ UNCHANGED vars
    BY <1>2, Unmoved DEF Done, vars, SharedInv, WarmInv, CacheInv, cacheVars, pruneVars, warmVars
  <1>3. ASSUME NEW e \in Edges, Flip(e)
        PROVE  RoutingInv'
    <2>1. valid' \subseteq Edges
      BY <1>3 DEF Flip, SharedInv
    <2> QED BY <1>3, <2>1, Unmoved DEF Flip, SharedInv, WarmInv, CacheInv, cacheVars, pruneVars, warmVars
  <1>4. ASSUME NEW q \in Pruners, AwaitWrite(q)
        PROVE  RoutingInv'
    BY <1>4, AwaitStep, Unmoved DEF AwaitWrite, WarmInv, CacheInv, cacheVars, warmVars
  <1>5. ASSUME NEW r \in Requests, NEW a \in Asked, Request(r, a)
        PROVE  RoutingInv'
    BY <1>5, RequestStep DEF Request, SharedInv, WarmInv, CacheInv, cacheVars, pruneVars, warmVars
  <1> QED
    BY <1>1, <1>2, <1>3, <1>4, <1>5

LEMMA RoutingStarts == Init => RoutingInv
  <1> SUFFICES ASSUME Init PROVE RoutingInv
    OBVIOUS
  <1>1. SharedInv
    BY DEF Init, SharedInv
  <1>2. WarmInv
    BY DEF Init, WarmInv
  <1>3. CacheInv
    BY DEF Init, CacheInv, Keys
  <1>4. CallInv /\ LockInv
    BY DEF Init, CallInv, LockInv, HoldsLock
  <1> QED
    BY <1>1, <1>2, <1>3, <1>4 DEF RoutingInv

LEMMA RoutingInvariant == Spec => []RoutingInv
  <1>1. RoutingInv /\ [Next]_vars => RoutingInv'
    BY RequestKeeps, WarmerKeeps, EnvironmentKeeps DEF Next
  <1> QED
    BY <1>1, RoutingStarts, PTL DEF Spec

-----------------------------------------------------------------------------
(* find_best_route keeps its types, and a request holds the read lock on the
   selected edges exactly from its search to its direct paths. *)
THEOREM RoutingTypes == Spec => []TypeOK
  <1>1. RoutingInv => TypeOK
    <2> SUFFICES ASSUME RoutingInv PROVE TypeOK
      OBVIOUS
    <2>1. call \in [Requests -> Calls \union {None}]
      BY DEF RoutingInv, CallInv, CallsMade
    <2>2. ASSUME NEW m \in Modes
          PROVE  readers[m] = {r \in Requests :
                                  /\ call[r] # None /\ call[r].asked.mode = m
                                  /\ \/ call[r].pc = "insert"
                                     \/ call[r].pc = "direct" /\ ~call[r].used_cached}
      BY DEF RoutingInv, LockInv, HoldsLock
    <2>3. \A m \in Modes : pruned[m] = None \/ pruned[m] \subseteq Edges
      BY DEF RoutingInv, SharedInv
    <2> QED BY <2>1, <2>2, <2>3 DEF RoutingInv, SharedInv, WarmInv, TypeOK
  <1> QED
    BY <1>1, RoutingInvariant, PTL

(* find_route_with_relaxed_constraints_or_fail: at most three calls, and a
   refusal only after a search with the full length, for any number of requests
   that fill, invalidate and expire the cache of each other. *)
THEOREM RefusalsFollowSearch == Spec => []RefusedAfterFullSearch
  <1>1. RoutingInv => RefusedAfterFullSearch
    <2> SUFFICES ASSUME RoutingInv, NEW r \in Requests, call[r] # None
                 PROVE  /\ call[r].attempt <= 3
                        /\ call[r].pc = "no_path" => call[r].full_search
      BY DEF RefusedAfterFullSearch
    <2>1. Relaxing(call[r])
      BY DEF RoutingInv, CallInv, CallsMade
    <2> QED BY <2>1 DEF Relaxing
  <1> QED
    BY <1>1, RoutingInvariant, PTL

(* insert: the exact-in paths cached for a pair lead from its first to its second
   mint. *)
THEOREM CachedConnect == Spec => []CachedPathsConnectPair
  <1>1. RoutingInv => CachedPathsConnectPair
    <2> SUFFICES ASSUME RoutingInv, NEW k \in DOMAIN cache, k[2] = "ExactIn", cache[k] # None,
                        NEW i \in DOMAIN cache[k], NEW p \in cache[k][i].edges
                 PROVE  Connects(p, k[1][1], k[1][2])
      BY DEF CachedPathsConnectPair
    <2>1. cache[k] \in Seq(EntriesFor(k))
      BY DEF RoutingInv, CacheInv
    <2>2. cache[k][i] \in EntriesFor(k)
      BY <2>1
    <2> QED BY <2>2 DEF EntriesFor, EntryFor
  <1> QED
    BY <1>1, RoutingInvariant, PTL

(* compute_account_bucket: a route of several hops fits the limit of its bucket,
   whichever request or warmer round found it. *)
THEOREM RoutesFit == Spec => []RouteFitsAccountBucket
  <1>1. RoutingInv => RouteFitsAccountBucket
    <2> SUFFICES ASSUME RoutingInv, NEW r \in Requests, call[r] # None, NEW p \in call[r].paths
                 PROVE  Len(p) = 1 \/ Cost(p) <= Budget(5 * Bucket(call[r].asked.max_accounts) + 4)
      BY DEF RouteFitsAccountBucket, Answered
    <2>1. PathsOf(call[r])
      BY DEF RoutingInv, CallInv, CallsMade
    <2> QED BY <2>1 DEF PathsOf, Fits
  <1> QED
    BY <1>1, RoutingInvariant, PTL

(* add_direct_paths and the keys of the cache are only right for exact in. *)
ExactInRequests == \A a \in Asked : a.mode = "ExactIn"

(* find_best_route: an exact-in route leads from the input to the output mint. *)
THEOREM RoutesConnect ==
    ASSUME ExactInRequests
    PROVE  Spec => []RouteConnectsMints
  <1>1. RoutingInv => RouteConnectsMints
    <2> SUFFICES ASSUME RoutingInv, NEW r \in Requests, call[r] # None, NEW p \in call[r].paths
                 PROVE  Connects(Steps(call[r], p), call[r].asked.input, call[r].asked.output)
      BY DEF RouteConnectsMints, Answered
    <2>1. call[r] \in CallsMade /\ PathsOf(call[r])
      BY DEF RoutingInv, CallInv, CallsMade
    <2>2. call[r].asked.mode = "ExactIn"
      BY <2>1, MadeIsCall DEF ExactInRequests
    <2> QED BY <2>1, <2>2 DEF PathsOf, Steps
  <1> QED
    BY <1>1, RoutingInvariant, PTL
=============================================================================
