------------------------ MODULE PathDiscoveryCache ------------------------
(***************************************************************************)
(* PathDiscoveryCache (bin/autobahn-router/src/routing.rs): the paths found *)
(* for a pair and mode, in a list sorted by amount and account bucket, with *)
(* a binary search to insert and a scan to look up.  Every operation runs   *)
(* under the write lock of the cache; a panic inside one poisons the lock   *)
(* and every later operation panics on unwrap().                            *)
(*                                                                         *)
(* Paths are opaque here.  Amounts are u64 in requests and f64 in entries;  *)
(* Exact is 2^53, the last integer below which every u64 is an f64.         *)
(***************************************************************************)
EXTENDS PathList

CONSTANTS
    Pairs, Paths,
    Modes,                  \* SwapMode, or the part of it a run looks at
    Amounts, MaxAccounts,   \* the values requests use
    ExpireInterval,         \* 1000 ms
    MaxSearch,              \* time between taking a timestamp and inserting
    MaxTime, MaxBack, MaxInserts   \* bounds of the model

Keys == Pairs \X Modes

Entry == [timestamp : Nat, in_amount : {F64(a) : a \in Amounts},
          max_account : {Bucket(m) : m \in MaxAccounts}, edges : Paths]

ASSUME CacheAssumption ==
    /\ "ExactIn" \in Modes /\ Modes \subseteq {"ExactIn", "ExactOut"}
    /\ Exact \in Nat /\ Exact % 4 = 0
    /\ Amounts \subseteq 0 .. 2 * Exact
    /\ MaxAccounts \subseteq Nat
    /\ {MaxAge, ExpireInterval, MaxSearch, MaxTime, MaxBack, MaxInserts} \subseteq Nat
    /\ None \notin Paths /\ None \notin Seq(Entry) /\ None \notin [timestamp : Nat, edges : Paths]

VARIABLES
    cache,          \* <<pair, mode>> -> list of entries, None for a missing key
    last_expire,    \* last_expire_timestamp_millis
    poisoned,
    now,
    answer,         \* the (lower, upper) of the last step, if it was a lookup
    inserts, backs  \* bound the model

vars == <<cache, last_expire, poisoned, now, answer, inserts, backs>>

Init ==
    /\ cache = [k \in Keys |-> None]
    /\ last_expire = 0 /\ poisoned = FALSE /\ now = 1
    /\ answer = None /\ inserts = 0 /\ backs = 0

-----------------------------------------------------------------------------
(* Variant of CacheInsert: max_accounts is stored instead of its bucket. *)
CacheInsertRaw(k, in_amount, max_accounts, timestamp, edges) ==
    LET entries == IF cache[k] = None THEN <<>> ELSE cache[k]
        elem    == [timestamp |-> timestamp, in_amount |-> F64(in_amount),
                    max_account |-> max_accounts, edges |-> edges]
    IN \E pos \in SearchPositions(entries, <<in_amount, max_accounts>>) :
          cache' = [cache EXCEPT ![k] = Inserted(entries, pos, in_amount, elem)]

CacheInsert(k, in_amount, max_accounts, timestamp, edges) ==
    LET entries == IF cache[k] = None THEN <<>> ELSE cache[k]
        elem    == [timestamp |-> timestamp, in_amount |-> F64(in_amount),
                    max_account |-> Bucket(max_accounts), edges |-> edges]
    IN \E pos \in SearchPositions(entries, <<in_amount, elem.max_account>>) :
          cache' = [cache EXCEPT ![k] = Inserted(entries, pos, in_amount, elem)]

(* The caller may have taken the timestamp before it started its search. *)
Insert(k, in_amount, max_accounts, timestamp, edges) ==
    /\ ~poisoned /\ inserts < MaxInserts /\ inserts' = inserts + 1
    /\ CacheInsert(k, in_amount, max_accounts, timestamp, edges)
    /\ answer' = None /\ UNCHANGED <<last_expire, poisoned, now, backs>>

(* get: drop the expired entries of the key, then scan. *)
CacheExpireKey(k) ==
    cache' = IF cache[k] = None THEN cache
             ELSE [cache EXCEPT ![k] = Retained(cache[k], now)]

CacheGet(k, in_amount, max_accounts) ==
    IF cache[k] = None THEN [lower |-> None, upper |-> None]
    ELSE Lookup(Retained(cache[k], now), in_amount, Bucket(max_accounts))

Get(k, in_amount, max_accounts) ==
    /\ ~poisoned
    /\ CacheExpireKey(k)
    /\ answer' = CacheGet(k, in_amount, max_accounts)
    /\ UNCHANGED <<last_expire, poisoned, now, inserts, backs>>

(* The exact-out entries are only reached when the pair has an exact-in key. *)
CacheInvalidate(pair, max_accounts) ==
    cache' = [k \in Keys |->
                IF k[1] = pair /\ cache[k] # None /\ cache[<<pair, "ExactIn">>] # None
                THEN WithoutBucket(cache[k], Bucket(max_accounts)) ELSE cache[k]]

Invalidate(pair, max_accounts) ==
    /\ ~poisoned
    /\ CacheInvalidate(pair, max_accounts)
    /\ answer' = None /\ UNCHANGED <<last_expire, poisoned, now, inserts, backs>>

(* expire_old: throttled; the subtraction of the throttle panics when the clock
   has been set back (overflow-checks are on in release builds). Keys left
   without entries are dropped. *)
CacheExpire ==
    \/ /\ now < last_expire /\ poisoned' = TRUE
       /\ UNCHANGED <<cache, last_expire>>
    \/ /\ now >= last_expire /\ now - last_expire < ExpireInterval
       /\ UNCHANGED <<cache, last_expire, poisoned>>
    \/ /\ now >= last_expire /\ now - last_expire >= ExpireInterval
       /\ cache' = [k \in Keys |->
             IF cache[k] = None \/ Retained(cache[k], now) = <<>> THEN None
             ELSE Retained(cache[k], now)]
       /\ last_expire' = now /\ UNCHANGED poisoned

ExpireOld == /\ ~poisoned /\ CacheExpire
             /\ answer' = None /\ UNCHANGED <<now, inserts, backs>>

(* The wall clock; it may be set back. *)
Tick == /\ now < MaxTime /\ now' = now + 1
        /\ answer' = None /\ UNCHANGED <<cache, last_expire, poisoned, inserts, backs>>

SetBack == /\ now > 0 /\ backs < MaxBack /\ now' = now - 1 /\ backs' = backs + 1
           /\ answer' = None /\ UNCHANGED <<cache, last_expire, poisoned, inserts>>

Poisoned == poisoned /\ UNCHANGED vars

Next ==
    \/ \E k \in Keys, a \in Amounts, m \in MaxAccounts, p \in Paths :
          \E t \in (now - MaxSearch .. now) \intersect Nat : Insert(k, a, m, t, p)
    \/ \E k \in Keys, a \in Amounts, m \in MaxAccounts : Get(k, a, m)
    \/ \E pair \in Pairs, m \in MaxAccounts : Invalidate(pair, m)
    \/ ExpireOld \/ Tick \/ SetBack \/ Poisoned

Spec == Init /\ [][Next]_vars

-----------------------------------------------------------------------------
TypeOK ==
    /\ cache \in [Keys -> Seq(Entry) \union {None}]
    /\ last_expire \in Nat /\ now \in Nat /\ poisoned \in BOOLEAN
    /\ answer \in [lower : Paths \union {None}, upper : Paths \union {None}] \union {None}
    /\ inserts \in Nat /\ backs \in Nat

(* insert / get: the list of a key is strictly sorted by (in_amount,
   max_account), which the binary search of insert and the early end of get's
   scan rely on. *)
EntriesSorted == \A k \in Keys : cache[k] # None => Sorted(cache[k])

(* The map the lists stand for. *)
Slot(entries, key) ==
    LET hits == IF entries = None THEN {} ELSE {x \in Range(entries) : SortKey(x) = key}
        x    == CHOOSE x \in hits : TRUE
    IN IF hits = {} THEN None ELSE [timestamp |-> x.timestamp, edges |-> x.edges]

Stored ==
    [s \in Pairs \X Modes \X Amounts \X {Bucket(m) : m \in MaxAccounts} |->
        Slot(cache[<<s[1], s[2]>>], <<s[3], s[4]>>)]

Map == INSTANCE PathCache WITH
          Buckets <- {Bucket(m) : m \in MaxAccounts}, stored <- Stored

(* insert, get, invalidate, expire_old: the sorted lists, the binary search and
   the scan implement the map of PathCache. *)
ImplementsMap == Map!Spec
=============================================================================
