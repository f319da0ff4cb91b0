---------------------------- MODULE QuoteServer -----------------------------
(***************************************************************************)
(* The HTTP server: a client asks for a quote, then for the swap of that     *)
(* quote.  Handlers run concurrently and share the caches of the latest      *)
(* block hash and of the lookup tables, each filled by an RPC call during    *)
(* which other handlers run.                                                *)
(*   bin/autobahn-router/src/server/http_server.rs, alt_provider.rs,          *)
(*   hash_provider.rs, route_provider.rs, alt/alt_optimizer.rs, hot_mints.rs  *)
(*                                                                         *)
(* Data abstraction.  A block hash is the time the network made it, a table  *)
(* is known by the time it was read.  The route search (Routing) is a choice *)
(* of a route within the bound on accounts.  A transaction is the set of its *)
(* addresses; its size is what they cost.  An RPC call is answered from the  *)
(* state of the network when it was sent, at most Latency later; what a      *)
(* handler does between two calls takes no time against that.               *)
(***************************************************************************)
EXTENDS HotMints, AltOptimizer

CONSTANTS
    Clients,
    Asks,                \* Asks[c]: the pairs of mints client c may ask for
    Routes,              \* Routes[r]: [pair, needed (accounts_needed), addresses, static, bytes]
    AccountsAsked,       \* max_accounts of the requests
    MaxAccountsPerTx, MaxTxSize,
    RetryStep, RetryFloor,                 \* 5, 10
    Tables,              \* address_lookup_table_addresses, in order
    Contents,            \* Contents[t]: the addresses of table t
    HashTTL, AltTTL,     \* 500 ms, 5 minutes
    Latency,             \* the RPC client's timeout
    None,
    MaxTime              \* bound

ASSUME ServerAssumption ==
    /\ {MaxAccountsPerTx, MaxTxSize, Latency, MaxTime} \subseteq Nat
    /\ {HashTTL, AltTTL} \subseteq Nat \ {0}
    /\ Tables \in Seq(DOMAIN Contents)
    /\ \A r \in DOMAIN Routes :
          /\ IsFiniteSet(Routes[r].addresses) /\ Routes[r].static \subseteq Routes[r].addresses
          /\ Routes[r].bytes \in Nat
    /\ RetryStep \in Nat \ {0} /\ RetryFloor \in Nat /\ RetryFloor >= RetryStep
    /\ AccountsAsked \subseteq Nat
    /\ MaxCount \in Nat \ {0}
    /\ None \notin Nat

VARIABLES
    now,
    last_update,   \* RpcHashProvider: None or [at, hash]
    cache,         \* RpcAltProvider: cache[t], None or [at, as_of, found]
    hot,           \* HotMintsCache
    history,       \* all mints ever added to it, latest first, the always hot left out
    job            \* job[c]: the handler of client c

vars == <<now, last_update, cache, hot, history, job>>

Idle == [pc |-> "idle", kind |-> "quote", pair |-> None, max_accounts |-> 0,
         route |-> None, table |-> 1, call |-> None, alts |-> <<>>, hash |-> None]

Init ==
    /\ now = 0
    /\ last_update = None
    /\ cache = [t \in DOMAIN Contents |-> None]
    /\ hot = EmptyHotMints /\ history = <<>>
    /\ job = [c \in Clients |-> Idle]

Server == <<last_update, cache>>

-----------------------------------------------------------------------------
(* The lookup tables.                                                       *)

\* AddressLookupTableAccount: the key and the addresses, as of the call.
Accounts(alts) == [i \in DOMAIN alts |-> [key |-> alts[i].key, as_of |-> alts[i].as_of,
                                          addresses |-> Contents[alts[i].key]]]

-----------------------------------------------------------------------------
(* The handlers.  A step runs from one await to the next.                   *)

Becomes(c, j) == job' = [job EXCEPT ![c] = j]

\* What is left of a job that was answered.
Answered(j, pc) ==
    [Idle EXCEPT !.pc = pc, !.route = IF pc = "quoted" THEN j.route ELSE None]

\* What there was to remember once a mint was added, without a limit.
Recall(s, mint) ==
    IF mint \in AlwaysHot THEN s
    ELSE <<mint>> \o (IF mint \in Range(s) THEN RemoveAt(s, Position(s, mint)) ELSE s)

\* best_quote: both mints become hot, then a route of the pair within the
\* bound, or none (no path, a bad price, a missing one); build_ixs may fail.
Search(c, j) ==
    LET fits == {r \in DOMAIN Routes : Routes[r].pair = j.pair /\ Routes[r].needed <= j.max_accounts}
    IN  /\ \E h \in {add(hot, j.pair[1])} : hot' = add(h, j.pair[2])
        /\ history' = Recall(Recall(history, j.pair[1]), j.pair[2])
        /\ \/ Becomes(c, Answered(j, "failed"))
           \/ \E r \in fits :
                 Becomes(c, [j EXCEPT !.pc = "alts", !.route = r, !.table = 1, !.alts = <<>>,
                                      !.hash = None])

\* GET /quote
QuoteRequest(c) ==
    /\ job[c].pc = "idle"
    /\ \E pair \in Asks[c], m \in AccountsAsked :
          Search(c, [Idle EXCEPT !.pair = pair, !.max_accounts = m])
    /\ UNCHANGED <<Server, now>>

\* POST /swap or /swap-instructions with the quote.  try_from looks the edges
\* of the plan up again, so the route is the quoted one, or fails, or build_ixs
\* does; the transaction is not measured again.
SwapRequest(c) ==
    /\ job[c].pc = "quoted"
    /\ \/ Becomes(c, Answered(job[c], "failed"))
       \/ \E k \in {"swap", "swap-instructions"} :
             Becomes(c, [job[c] EXCEPT !.pc = "alts", !.kind = k, !.table = 1, !.alts = <<>>])
    /\ UNCHANGED <<Server, now, hot, history>>

\* load_all_alts leaves out the tables that could not be read.
Loaded(j, t, entry) ==
    [j EXCEPT !.table = @ + 1, !.call = None,
              !.alts = IF entry.found THEN Append(@, [key |-> t, as_of |-> entry.as_of]) ELSE @]

Fresh(entry, ttl) == now - entry.at < ttl

AltHit(t) == cache[t] # None /\ Fresh(cache[t], AltTTL)

\* load_all_alts: one table after the other; get_alt from the cache.
AltFromCache(c) ==
    /\ job[c].pc = "alts" /\ job[c].call = None /\ job[c].table <= Len(Tables)
    /\ LET t == Tables[job[c].table]
       IN  AltHit(t) /\ Becomes(c, Loaded(job[c], t, cache[t]))
    /\ UNCHANGED <<Server, now, hot, history>>

\* get_alt asks the network.
AltCall(c) ==
    /\ job[c].pc = "alts" /\ job[c].call = None /\ job[c].table <= Len(Tables)
    /\ LET t == Tables[job[c].table]
       IN  /\ ~AltHit(t)
           /\ Becomes(c, [job[c] EXCEPT !.call = now])
    /\ UNCHANGED <<Server, now, hot, history>>

\* The answer, or an error: both are cached under the time of the answer.  An
\* account that is no lookup table ends the handler by a panic.
AltAnswer(c) ==
    /\ job[c].pc = "alts" /\ job[c].call # None
    /\ \/ LET t == Tables[job[c].table]
          IN  \E found \in BOOLEAN :
                 LET entry == [at |-> now, as_of |-> job[c].call, found |-> found]
                 IN  /\ cache' = [cache EXCEPT ![t] = entry]
                     /\ Becomes(c, Loaded(job[c], t, entry))
       \/ Becomes(c, Answered(job[c], "failed")) /\ UNCHANGED cache
    /\ UNCHANGED <<last_update, now, hot, history>>

\* All tables are loaded and the best are chosen: /swap-instructions answers,
\* the others go on to the block hash.
AltsDone(c) ==
    /\ job[c].pc = "alts" /\ job[c].table > Len(Tables)
    /\ \E j \in {job[c]} :
          IF j.kind = "swap-instructions" THEN Becomes(c, Answered(j, "done"))
          ELSE \E alts \in {get_best_alt(Accounts(j.alts), Routes[j.route].addresses)} :
                  Becomes(c, [j EXCEPT !.pc = "hash", !.alts = alts])
    /\ UNCHANGED <<Server, now, hot, history>>

\* Variant of HashHit: the age is not looked at.
HashHitAlways == last_update # None

HashHit == last_update # None /\ Fresh(last_update, HashTTL)

HashFromCache(c) ==
    /\ job[c].pc = "hash" /\ job[c].call = None /\ HashHit
    /\ Becomes(c, [job[c] EXCEPT !.pc = "built", !.hash = last_update.hash])
    /\ UNCHANGED <<Server, now, hot, history>>

HashCall(c) ==
    /\ job[c].pc = "hash" /\ job[c].call = None /\ ~HashHit
    /\ Becomes(c, [job[c] EXCEPT !.call = now])
    /\ UNCHANGED <<Server, now, hot, history>>

\* A late answer overwrites a newer hash, and is then taken for new.
HashAnswer(c) ==
    /\ job[c].pc = "hash" /\ job[c].call # None
    /\ \/ /\ last_update' = [at |-> now, hash |-> job[c].call]
          /\ Becomes(c, [job[c] EXCEPT !.pc = "built", !.call = None, !.hash = job[c].call])
       \/ /\ Becomes(c, Answered(job[c], "failed"))
          /\ UNCHANGED last_update
    /\ UNCHANGED <<cache, now, hot, history>>

Size(r, alts) == TxSize(Routes[r].bytes, Routes[r].addresses, Routes[r].static, alts)

Fits(j) ==
    /\ AccountsCount(j.alts, Routes[j.route].addresses) <= MaxAccountsPerTx
    /\ Size(j.route, j.alts) < MaxTxSize

\* Variant of FewerAccounts: the bound is not lowered.
SameAccounts(n) == n

FewerAccounts(n) == n - RetryStep

MayRetry(n) == n >= RetryFloor

\* The transaction is compiled, or can not be.  A quote whose transaction does
\* not fit is searched again with fewer accounts; a swap is answered as it is.
TxBuilt(c) ==
    /\ job[c].pc = "built"
    /\ LET j == job[c]
           end(pc) == Becomes(c, Answered(j, pc)) /\ UNCHANGED <<hot, history>>
       IN  \/ end("failed")
           \/ j.kind = "swap" /\ end("done")
           \/ j.kind # "swap" /\ Fits(j) /\ end("quoted")
           \/ /\ j.kind # "swap" /\ ~Fits(j) /\ MayRetry(j.max_accounts)
              /\ Search(c, [j EXCEPT !.max_accounts = FewerAccounts(@)])
    /\ UNCHANGED <<Server, now>>

-----------------------------------------------------------------------------
(* The network.                                                             *)

Running(j) == j.pc \in {"alts", "hash", "built"}

\* Time passes in calls only, and none outlasts the client's timeout.
Tick ==
    /\ now < MaxTime
    /\ \A c \in Clients : Running(job[c]) => job[c].call # None /\ now < job[c].call + Latency
    /\ now' = now + 1
    /\ UNCHANGED <<Server, hot, history, job>>

Handle(c) ==
    \/ AltFromCache(c) \/ AltCall(c) \/ AltAnswer(c) \/ AltsDone(c)
    \/ HashFromCache(c) \/ HashCall(c) \/ HashAnswer(c) \/ TxBuilt(c)

Next ==
    \/ \E c \in Clients : QuoteRequest(c) \/ SwapRequest(c) \/ Handle(c)
    \/ Tick

\* The runtime polls every handler, and an RPC call returns or times out.
Fairness == \A c \in Clients : WF_vars(Handle(c))

Spec == Init /\ [][Next]_vars /\ Fairness

-----------------------------------------------------------------------------
(* Properties                                                               *)

\* The handler is about to answer, or to build its transaction.
Answering(j) == j.pc = "built" \/ (j.pc = "alts" /\ j.table > Len(Tables))

\* No answer rests on old data: however the answers of concurrent RPC calls
\* overtake each other in the caches, the block hash of a transaction was the
\* network's latest within the cache's age and the timeout, and its lookup
\* tables what the network said within theirs and the calls that follow: one
\* for each further table and one for the hash.
AnswersAreRecent ==
    \A c \in Clients : Answering(job[c]) =>
        /\ job[c].pc = "built" => now - job[c].hash < HashTTL + Latency
        /\ \A i \in DOMAIN job[c].alts :
              now - job[c].alts[i].as_of < AltTTL + (Len(Tables) + 1) * Latency

\* The chosen tables pay: at most four of them, and the transaction is larger
\* with them than without by no more than one table, less the key it saves, for
\* each static address they hold: get_best_alt counts those too.
TablesPay ==
    \A c \in Clients : job[c].pc \in {"hash", "built"} =>
        LET r == Routes[job[c].route]
            loss == TableSize + IndexSize - KeySize
        IN  /\ Len(job[c].alts) <= 4
            /\ Size(job[c].route, job[c].alts)
                  <= Size(job[c].route, <<>>) + loss * Cardinality(Covered(job[c].alts, r.static))

\* "Only use LUT if it replaces 2 or more addr" (alt_optimizer.rs:32), of the
\* message that try_compile makes.  Violated: a signer or an invoked program is
\* counted and not replaced.
TablesReplaceTwo ==
    \A c \in Clients : job[c].pc = "hash" =>
        LET r == Routes[job[c].route]
        IN  \A i \in DOMAIN job[c].alts :
               Cardinality(MovedBy(job[c].alts, r.addresses \ r.static, i)) >= 2

\* The hot mints are the MaxCount mints asked for last, latest first and each
\* once, by whichever client and handler, without the ones that are always hot;
\* the deque and the set of HotMintsCache agree.
HotMintsAreLatest ==
    /\ IsInjective(history)
    /\ Range(history) \cap AlwaysHot = {}
    /\ hot.ordered = SubSeq(history, 1, IF Len(history) < MaxCount THEN Len(history) ELSE MaxCount)
    /\ hot.unordered = Range(hot.ordered)

\* Every request is answered: the retries with fewer accounts come to an end.
EveryRequestIsAnswered ==
    \A c \in Clients : (job[c].pc \in {"alts", "hash", "built"}) ~> (job[c].pc \in {"quoted", "done", "failed"})
=============================================================================
