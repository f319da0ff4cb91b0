------------------------------ MODULE Routing ------------------------------
(***************************************************************************)
(* Concurrent route requests (Routing::find_best_route and its retries) and *)
(* the path warmer, sharing the path discovery cache and the pruned edges.  *)
(*   bin/autobahn-router/src/routing.rs, path_warmer.rs                      *)
(*                                                                         *)
(* Data abstraction.  An edge is valid or not (EdgeUpdater); a path search   *)
(* returns any set of the admissible paths over valid pruned edges, the     *)
(* prices and hot mints that rank and prune them being left open; so are the *)
(* outcomes of quotes.  A cached list of paths is the set of its paths.     *)
(***************************************************************************)
EXTENDS PathList, FiniteSets

CONSTANTS
    Requests, Warmer,          \* request threads, the path warmer job
    Mints, Edges,              \* mints are numbers (MintNodeIndex)
    InputMint, OutputMint,
    AccountsNeeded,            \* Edge::accounts_needed
    SupportsExactOut,          \* a set of edges
    Asked,                     \* the requests that may come in
    Warmed,                    \* the <<mint, amount, max accounts>> warmed up
    MaxPathLength,             \* Routing::max_path_length
    OverquotePct,              \* Routing::overquote, in percent
    RefreshAge,                \* 15 minutes
    ExpireInterval,
    MaxTime, MaxFlips, MaxRounds  \* bounds of the model

Modes == {"ExactIn", "ExactOut"}
Pruners == Requests \union {Warmer}
Labels  == {"begin", "select", "write", "lookup", "search", "insert", "direct",
            "evaluate", "build", "route", "error", "no_path"}

(* The state of a call of find_best_route. *)
Calls ==
    [pc : Labels, asked : Asked, original : Nat, ignore_cache : BOOLEAN,
     len : Nat, attempt : Nat,       \* which of the calls of its request
     full_search : BOOLEAN,          \* one of them searched with the full length
     used_cached : BOOLEAN,
     paths : SUBSET Seq(Edges),      \* the candidates left
     found : [Mints -> SUBSET Seq(Edges)], todo : SUBSET Mints,  \* to be cached
     built_for : Nat \union {None}]

ASSUME RoutingAssumption ==
    /\ InputMint \in [Edges -> Mints] /\ OutputMint \in [Edges -> Mints]
    /\ AccountsNeeded \in [Edges -> Nat] /\ SupportsExactOut \subseteq Edges
    /\ Mints \subseteq Nat
    /\ Asked \subseteq [input : Nat, output : Nat, mode : Modes,
                        amount : Nat, max_accounts : Nat]
    /\ Warmed \subseteq Mints \X Nat \X Nat
    /\ MaxPathLength \in Nat \ {0} /\ OverquotePct \in Nat
    /\ {RefreshAge, MaxAge, ExpireInterval, Exact, MaxTime, MaxFlips, MaxRounds} \subseteq Nat
    /\ Warmer \notin Requests
    /\ None \notin Calls

VARIABLES
    now,
    cache, last_expire, poisoned,   \* of the path discovery cache
    valid,          \* edges with is_valid()
    flips,          \* bounds the changes of valid
    pruned,         \* mode -> selected edges, None before the first selection
    stamp,          \* mode -> time of the last selection that was not empty
    readers,        \* mode -> holders of the read lock on pruned
    selection,      \* process -> [mode, edges, waiting] to be written, or None
    warm,           \* the state of the path warmer
    rounds,         \* of the warmer
    call            \* request -> the state of its find_best_route call

cacheVars == <<cache, last_expire, poisoned>>
pruneVars == <<pruned, stamp, readers, selection>>
warmVars  == <<warm, rounds>>
vars == <<now, cacheVars, valid, flips, pruneVars, warmVars, call>>

Cache == INSTANCE PathDiscoveryCache WITH
            Pairs <- Mints \X Mints, Paths <- {}, Amounts <- {}, MaxAccounts <- {},
            MaxSearch <- 0, MaxBack <- 0, MaxInserts <- 0,
            answer <- None, inserts <- 0, backs <- 0

-----------------------------------------------------------------------------
(* The direction of the search: exact out walks the edges backwards. *)
Source(e, mode) == IF mode = "ExactIn" THEN InputMint[e] ELSE OutputMint[e]
Target(e, mode) == IF mode = "ExactIn" THEN OutputMint[e] ELSE InputMint[e]

Cost(p) == SumFunction([i \in DOMAIN p |-> AccountsNeeded[p[i]]])

(* generate_best_paths passes max_accounts less 7 on; the search caps it. *)
Budget(max_accounts) ==
    Min({40, IF max_accounts < 7 THEN 0 ELSE max_accounts - 7})

(* Variant of Admissible: no check of the accounts of the last hop. *)
AdmissibleUnchecked(start, mode, node, len, budget, edges) ==
    {p \in UNION {[1 .. n -> edges] : n \in 1 .. len} :
        /\ Source(p[1], mode) = start /\ Target(p[Len(p)], mode) = node
        /\ \A i \in 1 .. Len(p) - 1 : Target(p[i], mode) = Source(p[i + 1], mode)}

(* best_price_paths_depth_search: the paths it may keep for `node`. A longer
   path than one hop needs room for 4 accounts at every hop. *)
Admissible(start, mode, node, len, budget, edges) ==
    {p \in UNION {[1 .. n -> edges] : n \in 1 .. len} :
        /\ Source(p[1], mode) = start /\ Target(p[Len(p)], mode) = node
        /\ \A i \in 1 .. Len(p) - 1 : Target(p[i], mode) = Source(p[i + 1], mode)
        /\ \A i, j \in DOMAIN p : i < j => Target(p[j], mode) # Source(p[i], mode)
        /\ Cost(p) <= budget
        /\ \A i \in 2 .. Len(p) : Cost(SubSeq(p, 1, i - 1)) + 4 <= budget}

Found(start, mode, len, max_accounts) ==
    LET usable == pruned[mode] \intersect valid
        All(n) == Admissible(start, mode, n, len, Budget(max_accounts), usable)
    IN {f \in [Mints -> SUBSET UNION {All(n) : n \in Mints}] :
          \A n \in Mints : f[n] \subseteq All(n)}

(* (original_amount as f64 * (1.0 + self.overquote)).round() *)
Overquote(amount) == (amount * (100 + OverquotePct) + 50) \div 100

(* `max_path_length.unwrap_or((self.max_path_length - 1).max(1))` *)
ShortLength == Max({MaxPathLength - 1, 1})

(* A call of find_best_route for request `a`. *)
Call(a, original, ignore_cache, len, attempt, full) ==
    [pc |-> "begin", asked |-> a, original |-> original, ignore_cache |-> ignore_cache,
     len |-> len, attempt |-> attempt, full_search |-> full,
     used_cached |-> FALSE, paths |-> {}, found |-> [n \in Mints |-> {}], todo |-> {},
     built_for |-> None]

Amount(c) == Overquote(c.original)
Pair(c) == <<c.asked.input, c.asked.output>>
Goto(r, label) == call' = [call EXCEPT ![r].pc = label]

Init ==
    /\ now = 0
    /\ cache = [k \in (Mints \X Mints) \X Modes |-> None]
    /\ last_expire = 0 /\ poisoned = FALSE
    /\ valid \in SUBSET Edges /\ flips = 0
    /\ pruned = [m \in Modes |-> None] /\ stamp = [m \in Modes |-> None]
    /\ readers = [m \in Modes |-> {}] /\ selection = [q \in Pruners |-> None]
    /\ warm = [pc |-> "idle", todo |-> {}, job |-> None] /\ rounds = 0
    /\ call = [r \in Requests |-> None]

-----------------------------------------------------------------------------
(* The environment: time; updater and cooldowns change the validity of edges. *)
Tick == /\ now < MaxTime /\ now' = now + 1
        /\ UNCHANGED <<cacheVars, valid, flips, pruneVars, warmVars, call>>

Flip(e) ==
    /\ flips < MaxFlips /\ flips' = flips + 1
    /\ valid' = IF e \in valid THEN valid \ {e} ELSE valid \union {e}
    /\ UNCHANGED <<now, cacheVars, pruneVars, warmVars, call>>

(* The locks on pruned: a reader waits while a writer waits. *)
Awaited(mode) ==
    \E q \in Pruners : selection[q] # None /\ selection[q].mode = mode /\ selection[q].waiting

(* select_best_pools keeps some of these. *)
Selectable(mode) == IF mode = "ExactIn" THEN valid ELSE valid \intersect SupportsExactOut

(* prepare_pruned_edges_and_cleanup_cache up to the write lock. *)
Select(q, mode) ==
    /\ selection[q] = None
    /\ Cache!CacheExpire
    /\ \E es \in SUBSET Selectable(mode) :
          selection' = [selection EXCEPT ![q] = [mode |-> mode, edges |-> es, waiting |-> FALSE]]
    /\ UNCHANGED <<now, valid, flips, pruned, stamp, readers>>

AwaitWrite(q) ==
    /\ selection[q] # None /\ ~selection[q].waiting /\ readers[selection[q].mode] # {}
    /\ selection' = [selection EXCEPT ![q].waiting = TRUE]
    /\ UNCHANGED <<now, cacheVars, valid, flips, pruned, stamp, readers, warmVars, call>>

(* The rest of it. An empty selection is kept but leaves the time as it was. *)
WritePruned(q) ==
    /\ selection[q] # None /\ readers[selection[q].mode] = {}
    /\ LET mode == selection[q].mode  es == selection[q].edges
       IN /\ pruned' = [pruned EXCEPT ![mode] = es]
          /\ stamp' = [stamp EXCEPT ![mode] = IF es = {} THEN @ ELSE now]
    /\ selection' = [selection EXCEPT ![q] = None]
    /\ UNCHANGED <<now, cacheVars, valid, flips, readers>>

-----------------------------------------------------------------------------
(* The path warmer: a round selects the edges of both modes, then warms the
   cache for every mint, amount and max_accounts; mints without price or
   decimals are skipped. *)
WarmerSelect ==
    /\ \/ /\ warm.pc = "idle" /\ rounds < MaxRounds /\ rounds' = rounds + 1
          /\ Select(Warmer, "ExactIn") /\ warm' = [warm EXCEPT !.pc = "in"]
       \/ /\ warm.pc = "next" /\ UNCHANGED rounds
          /\ Select(Warmer, "ExactOut") /\ warm' = [warm EXCEPT !.pc = "out"]
    /\ UNCHANGED call

WarmerWrite ==
    /\ WritePruned(Warmer)
    /\ warm' = IF warm.pc = "in" THEN [warm EXCEPT !.pc = "next"]
               ELSE [warm EXCEPT !.pc = "jobs", !.todo = Warmed]
    /\ UNCHANGED <<rounds, call>>

WarmerSkip(w) ==
    /\ warm.pc = "jobs" /\ w \in warm.todo
    /\ warm' = [warm EXCEPT !.todo = {v \in @ : v[1] # w[1]}]
    /\ UNCHANGED <<now, cacheVars, valid, flips, pruneVars, rounds, call>>

WarmerEnd ==
    /\ warm.pc = "jobs" /\ warm.todo = {} /\ warm' = [warm EXCEPT !.pc = "idle"]
    /\ UNCHANGED <<now, cacheVars, valid, flips, pruneVars, rounds, call>>

(* prepare_cache_for_input_mint: two searches, both from the warmed mint, ... *)
WarmerSearch(w) ==
    /\ warm.pc = "jobs" /\ w \in warm.todo
    /\ \A m \in Modes : ~Awaited(m)
    /\ \E f \in Found(w[1], "ExactIn", MaxPathLength, w[3]),
          g \in Found(w[1], "ExactOut", MaxPathLength, w[3]) :
          warm' = [pc |-> "insert", todo |-> warm.todo \ {w},
                   job |-> [mint |-> w[1], amount |-> w[2], max_accounts |-> w[3],
                            timestamp |-> now,
                            found |-> [m \in Modes |-> IF m = "ExactIn" THEN f ELSE g]]]
    /\ UNCHANGED <<now, cacheVars, valid, flips, pruneVars, rounds, call>>

(* ... and all results inserted under one lock, for the pairs <<mint, node>>. *)
WarmerInsert ==
    LET j == warm.job
        bucket == Bucket(j.max_accounts)
        After(k) ==
            LET entries == IF cache[k] = None THEN <<>> ELSE cache[k]
                elem == [timestamp |-> j.timestamp, in_amount |-> F64(j.amount),
                         max_account |-> bucket, edges |-> j.found[k[2]][k[1][2]]]
                pos == CHOOSE p \in SearchPositions(entries, <<j.amount, bucket>>) : TRUE
            IN Inserted(entries, pos, j.amount, elem)
    IN /\ warm.pc = "insert"
       /\ cache' = [k \in DOMAIN cache |-> IF k[1][1] = j.mint THEN After(k) ELSE cache[k]]
       /\ warm' = [warm EXCEPT !.pc = "jobs", !.job = None]
       /\ UNCHANGED <<now, last_expire, poisoned, valid, flips, pruneVars, rounds, call>>

-----------------------------------------------------------------------------
(* find_best_route *)
Request(r, a) ==
    /\ call[r] = None
    /\ call' = [call EXCEPT ![r] = Call(a, a.amount, FALSE, ShortLength, 1, FALSE)]
    /\ UNCHANGED <<now, cacheVars, valid, flips, pruneVars, warmVars>>

(* prepare_pruned_edges_if_not_initialized: the read lock is released before the
   refresh. *)
NeedRefresh(mode) ==
    pruned[mode] = None \/ stamp[mode] = None \/ now - stamp[mode] > RefreshAge

CheckPruned(r) ==
    LET mode == call[r].asked.mode
    IN /\ call[r].pc = "begin" /\ ~Awaited(mode)
       /\ Goto(r, IF NeedRefresh(mode) THEN "select" ELSE "lookup")
       /\ UNCHANGED <<now, cacheVars, valid, flips, pruneVars, warmVars>>

RequestSelect(r) == /\ call[r].pc = "select" /\ Select(r, call[r].asked.mode)
                    /\ Goto(r, "write") /\ UNCHANGED warmVars

(* Variant of RequestWrite: select again until some edge is selected. *)
RequestWriteAgain(r) == /\ call[r].pc = "write" /\ WritePruned(r)
                        /\ Goto(r, "begin") /\ UNCHANGED warmVars

RequestWrite(r) == /\ call[r].pc = "write" /\ WritePruned(r)
                   /\ Goto(r, "lookup") /\ UNCHANGED warmVars

Known(c) == {c.asked.input, c.asked.output} \subseteq Mints

(* UnsupportedInputMint, UnsupportedOutputMint *)
Unsupported(r) ==
    /\ call[r].pc = "lookup" /\ ~Known(call[r]) /\ Goto(r, "error")
    /\ UNCHANGED <<now, cacheVars, valid, flips, pruneVars, warmVars>>

(* The lookup is made, and expires entries, even when its result is ignored. *)
LookupCache(r) ==
    LET c == call[r]  k == <<Pair(c), c.asked.mode>>
        hit == Cache!CacheGet(k, Amount(c), c.asked.max_accounts)
        used == ~c.ignore_cache /\ (hit.lower # None \/ hit.upper # None)
        Of(x) == IF x = None THEN {} ELSE x
    IN /\ c.pc = "lookup" /\ Known(c)
       /\ Cache!CacheExpireKey(k)
       /\ call' = [call EXCEPT ![r].pc = IF used THEN "direct" ELSE "search",
                               ![r].used_cached = used,
                               ![r].paths = IF used THEN Of(hit.lower) \union Of(hit.upper)
                                            ELSE {}]
       /\ UNCHANGED <<now, last_expire, poisoned, valid, flips, pruneVars, warmVars>>

(* The search, under the read lock; exact out starts from the output mint. *)
SearchPaths(r) ==
    LET c == call[r]  mode == c.asked.mode
        start == IF mode = "ExactIn" THEN c.asked.input ELSE c.asked.output
        goal  == IF mode = "ExactIn" THEN c.asked.output ELSE c.asked.input
    IN /\ c.pc = "search" /\ ~Awaited(mode)
       /\ readers' = [readers EXCEPT ![mode] = @ \union {r}]
       /\ \E f \in Found(start, mode, c.len, c.asked.max_accounts) :
             call' = [call EXCEPT ![r].pc = "insert", ![r].found = f, ![r].paths = f[goal],
                                  ![r].todo = Mints,
                                  ![r].full_search = @ \/ c.len = MaxPathLength]
       /\ UNCHANGED <<now, cacheVars, valid, flips, pruned, stamp, selection, warmVars>>

(* Variant of KeyOf: the pair in the wrong order. *)
KeyOfSwapped(c, n) == <<<<n, c.asked.input>>, c.asked.mode>>

KeyOf(c, n) == <<<<c.asked.input, n>>, c.asked.mode>>

(* The results go into the cache, one lock per node, under <<input, node>>. *)
InsertFound(r) ==
    LET c == call[r]  n == Min(c.todo)
    IN /\ c.pc = "insert"
       /\ Cache!CacheInsert(KeyOf(c, n), Amount(c), c.asked.max_accounts, now, c.found[n])
       /\ call' = [call EXCEPT ![r].todo = @ \ {n},
                               ![r].pc = IF c.todo = {n} THEN "direct" ELSE @]
       /\ UNCHANGED <<now, last_expire, poisoned, valid, flips, pruneVars, warmVars>>

(* Variant of Direct: any edge out of the input mint. *)
DirectAnyTarget(c) ==
    {e \in pruned[c.asked.mode] \intersect valid : Source(e, c.asked.mode) = c.asked.input}

(* add_direct_paths: edges listed for the input mint whose target is the output
   mint. *)
Direct(c) ==
    {e \in pruned[c.asked.mode] \intersect valid :
        /\ Source(e, c.asked.mode) = c.asked.input
        /\ Target(e, c.asked.mode) = c.asked.output}

(* Variant of Released: the read lock is kept over the recursion. *)
ReleasedLater(r, mode) == readers

Released(r, mode) == [readers EXCEPT ![mode] = @ \ {r}]   \* drop(pruned)

(* The lock is taken here when the cache was used. *)
AddDirect(r) ==
    LET c == call[r]  mode == c.asked.mode
    IN /\ c.pc = "direct" /\ (r \in readers[mode] \/ ~Awaited(mode))
       /\ call' = [call EXCEPT ![r].pc = "evaluate", ![r].found = [n \in Mints |-> {}],
                               ![r].paths = @ \union {<<e>> : e \in Direct(c)}]
       /\ readers' = Released(r, mode)
       /\ UNCHANGED <<now, cacheVars, valid, flips, pruned, stamp, selection, warmVars>>

(* compute_out_amount_from_path, compute_in_amount_from_path go along the path
   up to the first edge that is not valid, or cannot quote exact out: the paths
   without such an edge, and the edges reached on any of a set of paths. *)
Quotable(c, p, i) == p[i] \in valid /\ (c.asked.mode = "ExactOut" => p[i] \in SupportsExactOut)

Usable(c) == {p \in c.paths : \A i \in DOMAIN p : Quotable(c, p, i)}

Reached(c, paths) ==
    UNION {{p[i] : i \in {j \in DOMAIN p : \A h \in 1 .. j : Quotable(c, p, h)}} : p \in paths}

(* A usable path may yield an amount; of one that does not, an edge whose quote
   failed, was zero or far from its cached price may be cooled. *)
Evaluate(r) ==
    LET c == call[r]
    IN /\ c.pc = "evaluate"
       /\ \E ok \in SUBSET Usable(c) : \E cooled \in SUBSET Reached(c, c.paths \ ok) :
             /\ call' = [call EXCEPT ![r].pc = "build", ![r].paths = ok]
             /\ valid' = valid \ cooled
       /\ UNCHANGED <<now, cacheVars, flips, pruneVars, warmVars>>

(* The output for the best remaining path: its steps, an amount of zero (next
   path), or the error of a quote, which ends the request. *)
BuildRoute(r, p, outcome) ==
    /\ call[r].pc = "build" /\ p \in call[r].paths
    /\ call' = [call EXCEPT
          ![r].pc = IF outcome = "zero" THEN @ ELSE outcome,
          ![r].built_for = IF outcome = "route" THEN call[r].original ELSE @,
          ![r].paths = IF outcome = "route" THEN {p} ELSE IF outcome = "zero" THEN @ \ {p} ELSE {}]
    /\ UNCHANGED <<now, cacheVars, valid, flips, pruneVars, warmVars>>

(* Variant of Retry: no longer paths than before. *)
RetrySameLength(c) ==
    Call(c.asked, Amount(c), c.used_cached, c.len, c.attempt + 1, c.full_search)

(* The recursive call; it gets the overquoted amount. *)
Retry(c) ==
    Call(c.asked, Amount(c), c.used_cached, MaxPathLength, c.attempt + 1, c.full_search)

(* find_route_with_relaxed_constraints_or_fail *)
Relax(r) ==
    LET c == call[r]
        retry == ~c.ignore_cache /\ (c.used_cached \/ c.len # MaxPathLength)
    IN /\ c.pc = "build" /\ c.paths = {}
       /\ IF retry /\ c.used_cached
          THEN Cache!CacheInvalidate(Pair(c), c.asked.max_accounts)
          ELSE UNCHANGED cache
       /\ call' = [call EXCEPT ![r] =
             IF retry THEN Retry(c) ELSE [@ EXCEPT !.pc = "no_path"]]
       /\ UNCHANGED <<now, last_expire, poisoned, valid, flips, pruneVars, warmVars>>

Answered(r) == call[r] # None /\ call[r].pc \in {"route", "error", "no_path"}

Step(r) ==
    /\ call[r] # None
    /\ \/ CheckPruned(r) \/ RequestSelect(r) \/ RequestWrite(r) \/ LookupCache(r)
       \/ Unsupported(r) \/ SearchPaths(r) \/ InsertFound(r) \/ AddDirect(r)
       \/ Evaluate(r) \/ Relax(r)
       \/ \E p \in call[r].paths, o \in {"route", "zero", "error"} : BuildRoute(r, p, o)

Done == (\A r \in Requests : Answered(r)) /\ UNCHANGED vars

Next ==
    \/ Tick \/ WarmerSelect \/ WarmerWrite \/ WarmerInsert \/ WarmerEnd \/ Done
    \/ \E e \in Edges : Flip(e)
    \/ \E q \in Pruners : AwaitWrite(q)
    \/ \E w \in Warmed : WarmerSkip(w) \/ WarmerSearch(w)
    \/ \E r \in Requests : Step(r)
    \/ \E r \in Requests, a \in Asked : Request(r, a)

Spec == Init /\ [][Next]_vars

(* Fairness: the request threads run, and so does the warmer when it has
   selected edges. *)
LiveSpec == /\ Spec /\ WF_vars(WarmerWrite)
            /\ \A r \in Requests : WF_vars(Step(r))

-----------------------------------------------------------------------------
(* Types; the read lock is held while searching and inserting, and only then. *)
TypeOK ==
    /\ now \in Nat /\ last_expire \in Nat /\ poisoned \in BOOLEAN
    /\ valid \subseteq Edges /\ flips \in Nat /\ rounds \in Nat
    /\ \A m \in Modes : pruned[m] = None \/ pruned[m] \subseteq Edges
    /\ stamp \in [Modes -> Nat \union {None}]
    /\ \A m \in Modes :
          readers[m] = {r \in Requests : /\ call[r] # None /\ call[r].asked.mode = m
                                        /\ \/ call[r].pc = "insert"
                                           \/ call[r].pc = "direct" /\ ~call[r].used_cached}
    /\ warm.pc \in {"idle", "in", "next", "out", "jobs", "insert"} /\ warm.todo \subseteq Warmed
    /\ call \in [Requests -> Calls \union {None}]

Connects(p, from, to) ==
    /\ Len(p) > 0 /\ InputMint[p[1]] = from /\ OutputMint[p[Len(p)]] = to
    /\ \A i \in 1 .. Len(p) - 1 : OutputMint[p[i]] = InputMint[p[i + 1]]

(* The steps of a route in the order they are executed: exact out builds them
   from the output mint and reverses them. *)
Steps(c, p) == IF c.asked.mode = "ExactIn" THEN p ELSE Reverse(p)

(* find_best_route: "find candidate paths for the pair": the steps of a route
   lead from the requested input mint to the requested output mint, whether its
   path was cached, searched or added as a direct one. *)
RouteConnectsMints ==
    \A r \in Requests : Answered(r) /\ call[r].pc = "route" =>
        \A p \in call[r].paths :
            Connects(Steps(call[r], p), call[r].asked.input, call[r].asked.output)

(* insert / get: a path cached for a pair and exact in leads from its first to its
   second mint. *)
CachedPathsConnectPair ==
    \A k \in DOMAIN cache : k[2] = "ExactIn" /\ cache[k] # None =>
        \A i \in DOMAIN cache[k] : \A p \in cache[k][i].edges :
            Connects(p, k[1][1], k[1][2])

(* "Restore requested `in_amount` for route building here": an exact-in route is
   built for the amount of the request. *)
RouteIsForRequestedAmount ==
    \A r \in Requests : Answered(r) /\ call[r].pc = "route" =>
        call[r].built_for = call[r].asked.amount

(* find_route_with_relaxed_constraints_or_fail: "If we can't find anything, will
   retry with +1": a request is refused for want of a path only after a search
   of its own with the full path length, however other requests and the warmer
   fill, invalidate and expire the cache meanwhile; and it takes three calls at
   most. *)
RefusedAfterFullSearch ==
    \A r \in Requests : call[r] # None =>
        /\ call[r].attempt <= 3
        /\ call[r].pc = "no_path" => call[r].full_search

(* compute_account_bucket: a cached path may have been found for another
   max_accounts of the bucket, but never needs more than the bucket allows; only
   a direct path may. *)
RouteFitsAccountBucket ==
    \A r \in Requests : Answered(r) /\ call[r].pc = "route" =>
        \A p \in call[r].paths :
            Len(p) = 1 \/ Cost(p) <= Budget(5 * Bucket(call[r].asked.max_accounts) + 4)

(* The retry of r leaves no entry of the bucket in the list it was looked up in. *)
DropsInvalid(r) ==
    /\ call[r] # None /\ Relax(r)
    /\ call[r].used_cached /\ ~call[r].ignore_cache
    => LET k == <<Pair(call[r]), call[r].asked.mode>>
       IN cache'[k] # None =>
            \A i \in DOMAIN cache'[k] :
               cache'[k][i].max_account # Bucket(call[r].asked.max_accounts)

(* find_route_with_relaxed_constraints_or_fail, invalidate: "Invalid cached path,
   retrying without cache": after the cached paths of a request failed, exact in
   or exact out, no entry of theirs is left for the next one. *)
InvalidPathsAreDropped == [][\A r \in Requests : DropsInvalid(r)]_vars

(* "Do not keep that locked - deadlock with recursion": every request is
   answered, although readers wait for waiting writers. *)
EveryRequestAnswered == \A r \in Requests : call[r] # None ~> Answered(r)
=============================================================================
