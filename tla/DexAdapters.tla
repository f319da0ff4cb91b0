----------------------------- MODULE DexAdapters -----------------------------
(***************************************************************************)
(* What the dex adapters tell the router on start: which pools they keep,    *)
(* which accounts are listed for the edges of each, and which accounts they   *)
(* ask the feed for; and what they read when an edge is loaded.             *)
(*   lib/dex-raydium/src/raydium_dex.rs, dex-raydium-cp/src/raydium_cp.rs,    *)
(*   dex-saber/src/saber.rs, dex-openbook-v2/src/openbook_v2_dex.rs,          *)
(*   dex-infinity/src/infinity.rs, dex-invariant/src/invariant_dex.rs         *)
(*                                                                         *)
(* The two edges of a pool are listed together: an edge is its pool.  An     *)
(* account is <<owner, role>>.  A pool is [dex, key, vaults, extra, ticks,    *)
(* flags]: extra are the accounts of its kind besides the vaults (config,     *)
(* books, tickmap, stake pool), ticks the initialised ticks of an Invariant   *)
(* pool, flags what the filters look at.  A staking token of Infinity is a    *)
(* pool: its vaults are its reserves, extra what its calculator reads.       *)
(* A write reaches the chain data, if subscribed to, in the step it is made.  *)
(***************************************************************************)
EXTENDS Integers, Sequences, FiniteSets, FiniteSetsExt, Functions

CONSTANTS
    Dexes,
    OnChain,             \* the pools, in the order the RPC node gives them
    MaxAccountWrites     \* bound

DexNames == {"raydium", "raydium_cp", "saber", "openbook_v2", "infinity", "invariant"}

\* The accounts of a pool besides its ticks.
PoolAccount(p) == <<p.key, "pool">>
AccountsOf(p) == {PoolAccount(p)} \cup p.vaults \cup p.extra

\* The vaults of Raydium and Saber pools and the books of OpenBook markets are
\* made for their pool: no other pool has them.
ASSUME AdaptersAssumption ==
    /\ Dexes \subseteq DexNames
    /\ DOMAIN OnChain \subseteq Nat /\ \A i \in DOMAIN OnChain : OnChain[i].dex \in DexNames
    /\ \A i, j \in DOMAIN OnChain : i # j =>
          /\ OnChain[i].key # OnChain[j].key
          /\ OnChain[i].dex = OnChain[j].dex /\ OnChain[i].dex \in {"raydium", "saber", "openbook_v2"}
                => AccountsOf(OnChain[i]) \cap AccountsOf(OnChain[j]) = {}

VARIABLES
    ready,               \* dexes that are initialised
    edges_per_pk,        \* edges_per_pk[a]: the pools whose edges are reloaded
    subscribed,          \* accounts the feed delivers
    running,             \* the snapshot has come and the edges were loaded
    version,             \* version[a] on chain
    loaded               \* loaded[key][a]: the version the edges of a pool were loaded from
adapters == <<ready, edges_per_pk, subscribed, running, version, loaded>>

Pool(key) == CHOOSE p \in Range(OnChain) : p.key = key
\* The pools of a dex, by their place.
PoolsOf(dex) == {i \in DOMAIN OnChain : OnChain[i].dex = dex}
TickAccounts(key, ticks) == {<<key, t>> : t \in ticks}
Clock == <<"sysvar", "clock">>
\* The accounts of the one pool of Infinity.
infinity_pool ==
    {<<"infinity", "lst_state_list">>, <<"infinity", "pool_state">>,
     <<"infinity", "lp_mint">>, <<"infinity", "pricing">>}
Accounts ==
    (UNION {AccountsOf(p) \cup TickAccounts(p.key, p.ticks) : p \in Range(OnChain)})
        \cup infinity_pool \cup {Clock}

-----------------------------------------------------------------------------
(* A dex as initialize leaves it: the kept pools' listing and what to         *)
(* subscribe to.  lists[i] is what is listed for the kept pool at place i.   *)

\* HashMap::insert: the last pool wins.  A variant of insert_or_extend too.
insert(pools, lists) ==
    [a \in UNION Range(lists) |->
        {OnChain[CHOOSE i \in pools :
                    a \in lists[i] /\ \A j \in pools : a \in lists[j] => j <= i].key}]

insert_or_extend(pools, lists) ==
    [a \in UNION Range(lists) |-> {OnChain[i].key : i \in {j \in pools : a \in lists[j]}}]

Without(pools, flags) == {i \in pools : OnChain[i].flags \cap flags = {}}
ProgramOwned(dex) ==
    UNION {{PoolAccount(OnChain[i])} \cup OnChain[i].extra
              \cup TickAccounts(OnChain[i].key, OnChain[i].ticks) : i \in PoolsOf(dex)}
VaultsOf(dex) == UNION {OnChain[i].vaults : i \in PoolsOf(dex)}
Dex(pools, listing, subscription) ==
    [keys |-> {OnChain[i].key : i \in pools}, listing |-> listing, subscription |-> subscription]

\* Pools that may be swapped on, not on a book, of two mints, open already.
raydium_initialize ==
    LET pools == Without(PoolsOf("raydium"), {"no_swap", "order_book", "same_mint", "not_open"})
        lists == [i \in pools |-> {PoolAccount(OnChain[i])} \cup OnChain[i].vaults]
    IN  Dex(pools, insert(pools, lists), ProgramOwned("raydium") \cup VaultsOf("raydium"))

\* Pools of plain tokens, no vault of which is frozen; they share configs.
raydium_cp_initialize ==
    LET pools == Without(PoolsOf("raydium_cp"), {"token2022", "frozen"})
        lists == [i \in pools |->
                     {PoolAccount(OnChain[i])} \cup OnChain[i].extra \cup OnChain[i].vaults]
    IN  Dex(pools, insert_or_extend(pools, lists),
            ProgramOwned("raydium_cp") \cup VaultsOf("raydium_cp"))

saber_initialize ==
    LET pools == PoolsOf("saber")
        lists == [i \in pools |-> {PoolAccount(OnChain[i])} \cup OnChain[i].vaults]
        listing == insert(pools, lists)
    IN  Dex(pools, listing, DOMAIN listing)

\* Markets anyone may trade on; the books are listed, the event heap is not.
\* No other dex subscribes to the Clock.
openbook_v2_initialize ==
    LET pools == Without(PoolsOf("openbook_v2"), {"open_orders_admin"})
        lists == [i \in pools |-> {PoolAccount(OnChain[i])} \cup OnChain[i].extra]
    IN  Dex(pools, insert(pools, lists), ProgramOwned("openbook_v2") \cup {Clock})

\* get_accounts_to_update_full
infinity_accounts ==
    infinity_pool \cup UNION {OnChain[i].extra \cup OnChain[i].vaults : i \in PoolsOf("infinity")}

\* The pairs of the staking tokens that are ready and may be sold, listed for
\* the accounts of their calculator only.
infinity_initialize ==
    LET pools == Without(PoolsOf("infinity"), {"not_ready", "input_disabled"})
        listing == insert_or_extend(pools, [i \in pools |-> OnChain[i].extra])
    IN  Dex(pools, listing, DOMAIN listing \cup infinity_accounts)

\* The tickmaps come back in the order of a hash set: order[i] is the pool whose
\* tickmap, and the ticks found in it, are listed for the pool at place i.
invariant_initialize(pools, order) ==
    LET lists == [i \in pools |->
                     {PoolAccount(OnChain[i])} \cup OnChain[order[i]].extra
                         \cup TickAccounts(OnChain[i].key, OnChain[order[i]].ticks)]
    IN  Dex(pools, insert(pools, lists), ProgramOwned("invariant"))
invariant_pools == Without(PoolsOf("invariant"), {"frozen"})

Orders(pools) == {f \in [pools -> pools] : \A i, j \in pools : f[i] = f[j] => i = j}

initialize(dex) ==
    CASE dex = "raydium" -> {raydium_initialize}
      [] dex = "raydium_cp" -> {raydium_cp_initialize}
      [] dex = "saber" -> {saber_initialize}
      [] dex = "openbook_v2" -> {openbook_v2_initialize}
      [] dex = "infinity" -> {infinity_initialize}
      [] dex = "invariant" ->
            {invariant_initialize(invariant_pools, o) : o \in Orders(invariant_pools)}

-----------------------------------------------------------------------------
(* load, and what quote reads besides.                                      *)

raydium_load(p) == {PoolAccount(p)} \cup p.vaults
raydium_cp_load(p) == {PoolAccount(p)} \cup p.extra \cup p.vaults
saber_load(p) == {PoolAccount(p), Clock} \cup p.vaults
openbook_v2_load(p) == {PoolAccount(p)} \cup p.extra
infinity_load(p) == infinity_accounts
invariant_load(p) == {PoolAccount(p)} \cup p.extra \cup TickAccounts(p.key, p.ticks)

load(p) ==
    CASE p.dex = "raydium" -> raydium_load(p)
      [] p.dex = "raydium_cp" -> raydium_cp_load(p)
      [] p.dex = "saber" -> saber_load(p)
      [] p.dex = "openbook_v2" -> openbook_v2_load(p)
      [] p.dex = "infinity" -> infinity_load(p)
      [] p.dex = "invariant" -> invariant_load(p)

\* What a quote reads from the chain data.
quote_reads(p) == IF p.dex \in {"raydium_cp", "openbook_v2"} THEN {Clock} ELSE {}

\* The edges of some pools are loaded, at version v of the accounts.  A load
\* fails when the chain data lacks an account.
Loads(keys, v) ==
    LET loadable == {k \in keys : load(Pool(k)) \subseteq subscribed}
    IN  [k \in loadable \cup DOMAIN loaded |->
            IF k \in loadable THEN [a \in load(Pool(k)) |-> v[a]] ELSE loaded[k]]

Listed == UNION {edges_per_pk[a] : a \in Accounts}

-----------------------------------------------------------------------------
AdaptersInit ==
    /\ ready = {} /\ subscribed = {} /\ running = FALSE
    /\ edges_per_pk = [a \in Accounts |-> {}]
    /\ version = [a \in Accounts |-> 0]
    /\ loaded = [k \in {} |-> 0]
AdaptersOff ==
    /\ ready = {"off"} /\ subscribed = {} /\ running = FALSE
    /\ edges_per_pk = [a \in Accounts |-> {}]
    /\ version = [a \in Accounts |-> 0]
    /\ loaded = [k \in {} |-> 0]

\* A dex starts: its edges are listed and its accounts are to be subscribed.
StartDex ==
    /\ ready # {"off"} /\ ~running
    /\ \E dex \in Dexes \ ready : \E d \in initialize(dex) :
          /\ ready' = ready \cup {dex}
          /\ edges_per_pk' = [a \in Accounts |->
                edges_per_pk[a] \cup IF a \in DOMAIN d.listing THEN d.listing[a] ELSE {}]
          /\ subscribed' = subscribed \cup d.subscription
    /\ UNCHANGED <<running, version, loaded>>

\* The snapshot of what all dexes subscribed to is there: every edge is loaded.
FirstLoad ==
    /\ ready = Dexes /\ ~running
    /\ running' = TRUE
    /\ loaded' = Loads(Listed, version)
    /\ UNCHANGED <<ready, edges_per_pk, subscribed, version>>

\* An account changes; if it is delivered, the edges listed for it are loaded.
AccountWrite ==
    /\ ready # {"off"}
    /\ \E a \in Accounts :
          /\ MapThenSumSet(LAMBDA b : version[b], Accounts) < MaxAccountWrites
          /\ version' = [version EXCEPT ![a] = @ + 1]
          /\ loaded' = IF running /\ a \in subscribed THEN Loads(edges_per_pk[a], version')
                       ELSE loaded
    /\ UNCHANGED <<ready, edges_per_pk, subscribed, running>>

AdaptersNext == StartDex \/ FirstLoad \/ AccountWrite

AdaptersSpec == AdaptersInit /\ [][AdaptersNext]_adapters

-----------------------------------------------------------------------------
(* Properties                                                               *)

\* No edge is left behind: the edges of every pool a dex kept get loaded, and
\* after any updates they were loaded from the present version of every account
\* load read, whether or not other pools share it.  The Clock is the exception:
\* nothing is listed for it, so Saber's edges keep the time of their last load;
\* the quotes that read it read one the feed delivers.
EdgesFollowTheirAccounts ==
    running =>
        /\ Listed \subseteq DOMAIN loaded
        /\ \A k \in DOMAIN loaded :
              /\ \A a \in load(Pool(k)) \ {Clock} : loaded[k][a] = version[a]
              /\ quote_reads(Pool(k)) \subseteq subscribed
=============================================================================
