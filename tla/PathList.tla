------------------------------ MODULE PathList ------------------------------
(***************************************************************************)
(* The list of a key of the path discovery cache                            *)
(* (bin/autobahn-router/src/routing.rs): entries sorted by amount and bucket *)
(* of max accounts, with a binary search to insert and a scan to look up.    *)
(* Amounts are u64 in requests and f64 in entries.                           *)
(***************************************************************************)
EXTENDS Lists, SequencesExt

CONSTANTS
    None,
    MaxAge,         \* path_cache_validity_ms
    Exact           \* 2^53: up to it every u64 is an f64

(* `as f64`, rounding half to even, for values up to 2 * Exact. *)
F64(n) == IF n <= Exact \/ n % 2 = 0 THEN n
          ELSE IF (n - 1) % 4 = 0 THEN n - 1 ELSE n + 1

Bucket(max_accounts) == max_accounts \div 5   \* compute_account_bucket

SortKey(x) == <<x.in_amount, x.max_account>>
Less(k, l) == k[1] < l[1] \/ (k[1] = l[1] /\ k[2] < l[2])

(* The positions binary_search_by_key may give: an equal element, or a place
   between a smaller and a larger one (the one place, in a sorted list). *)
SearchPositions(entries, k) ==
    {i \in DOMAIN entries : SortKey(entries[i]) = k} \union
    {i \in 1 .. Len(entries) + 1 :
        /\ i > 1 => Less(SortKey(entries[i - 1]), k)
        /\ i <= Len(entries) => Less(k, SortKey(entries[i]))}

(* Variant of Inserted: new entries go to the end. *)
InsertedLast(entries, pos, in_amount, elem) ==
    IF pos <= Len(entries) /\ SortKey(entries[pos]) = <<in_amount, elem.max_account>>
    THEN ReplaceAt(entries, pos, elem) ELSE Append(entries, elem)

(* insert, at the position the search gave: replace the entry or shift. *)
Inserted(entries, pos, in_amount, elem) ==
    IF pos <= Len(entries) /\ SortKey(entries[pos]) = <<in_amount, elem.max_account>>
    THEN ReplaceAt(entries, pos, elem)
    ELSE InsertAt(entries, pos, elem)

Alive(x, t) == x.timestamp > t \/ t - x.timestamp < MaxAge

(* expire_old_by_key *)
Retained(entries, t) == Kept(entries, {i \in DOMAIN entries : Alive(entries[i], t)})

(* Variant of Lookup: a larger amount of any bucket ends the scan. *)
LookupAnyBucket(entries, in_amount, bucket) ==
    LET same   == {i \in DOMAIN entries : entries[i].max_account = bucket}
        larger == {i \in DOMAIN entries : entries[i].in_amount > F64(in_amount)}
        stop   == IF larger = {} THEN Len(entries) + 1 ELSE Min(larger)
        before == {i \in same : i < stop}
    IN [lower |-> IF before = {} THEN None ELSE entries[Max(before)].edges,
        upper |-> IF stop \notin same THEN None ELSE entries[stop].edges]

(* The scan of get over the entries of the bucket: it stops at the first larger
   amount. *)
Lookup(entries, in_amount, bucket) ==
    LET same   == {i \in DOMAIN entries : entries[i].max_account = bucket}
        larger == {i \in same : entries[i].in_amount > F64(in_amount)}
        stop   == IF larger = {} THEN Len(entries) + 1 ELSE Min(larger)
        before == {i \in same : i < stop}
    IN [lower |-> IF before = {} THEN None ELSE entries[Max(before)].edges,
        upper |-> IF larger = {} THEN None ELSE entries[stop].edges]

(* entries.retain of invalidate *)
WithoutBucket(entries, bucket) ==
    Kept(entries, {i \in DOMAIN entries : entries[i].max_account # bucket})

(* The order insert keeps, which its binary search and the early end of get's
   scan rely on. *)
Sorted(entries) ==
    \A i, j \in DOMAIN entries : i < j => Less(SortKey(entries[i]), SortKey(entries[j]))
=============================================================================
