# TLA+ specifications of the Autobahn router

Autobahn is a swap router for Solana. A router process follows the accounts of
many pools, keeps for every direction of every pool (an *edge*) a small table of
prices, answers quote requests with the best path of edges, and builds the
transaction; an on-chain program (the executor) runs the swaps of the path one
after the other. These modules model the router where state lives and threads
meet (price pipeline, path discovery cache, route requests, account feed, quote
server, price feeds, start and end), the transaction from the route to the
ledger, and the arithmetic of the pools. Paths below are relative to the
repository.

## 1. Inventory

| Part | State | Operations | Interacts with |
|---|---|---|---|
| Edge (`bin/autobahn-router/src/edge.rs`) | `cached_prices`, `is_valid`, `cooldown_event`, `cooldown_until` under a lock per instance | `update`, `update_internal`, `add_cooldown`, `reset_cooldown`, price lookups | updater, transaction watcher, router |
| Dex construction (`dex/generic/generic_adapter.rs`) | `edges_per_pk`: one `Arc<Edge>` per (account, edge); `Dex::edges()`: one of them per unique id | built once | updater (all instances), router (one per edge) |
| Edge updater (`edge_updater.rs`) | dirty edges, received accounts, ready flag, slots, lag start | a `select!` loop: account update, metadata, price, slot, timeout, exit; `refresh_some` with a 100 ms budget | account broadcast channel, price feed, slot channel, ready watcher |
| Chain data job (`main.rs`) | account contents | write an account and broadcast its key under the chain-data lock | all updaters |
| Price feed and price cache (`lib/router-lib/src/price_feeds`) | latest price per mint; a receiver per subscriber | publish, insert | updater, `Edge::update` |
| Transaction watcher (`tx_watcher.rs`) | none | cool or reset the edges of a swap transaction | edges |
| Path discovery cache (`routing.rs`) | sorted list of entries per (pair, mode), last expiry | `insert`, `get`, `invalidate`, `expire_old` | requests, warmer (one lock) |
| Routing (`routing.rs`) | selected edges per mode with a time, a lock each | `find_best_route`, two retries, `prepare_*` | cache, edges, warmer |
| Path warmer (`path_warmer.rs`) | none of its own | rounds: select the edges of both modes, then fill the cache | routing |
| Quote server (`server/*`, `alt/*`, `hot_mints.rs`) | latest block hash, lookup tables with their ages, deque and set of hot mints | `/quote` with its loop over account limits, `/swap`, `/swap-instructions`; RPC calls during which other handlers run | routing, RPC server |
| Liquidity (`liquidity/*`) | amount per edge and mint | measure every edge by doubling, add up per mint | edges, `/liquidity` |
| Geyser feed (`source/*`) | error count, first full slot, snapshot flag and buffer, write versions per slot | reconnect; receive slots, account writes, snapshots; re-snapshot; filter and deduplicate | RPC server, chain data job, updaters (metadata) |
| Start and end (`main.rs`) | which tasks run, who is subscribed to the exit message | spawn in order, SIGINT, join the first task that ends. The server is started without waiting for readiness; the ready watcher only logs that the setup is complete | all |
| Instruction builder (`ix_builder.rs`, `swap.rs`, `lib/dex-*/src/*ix_builder.rs`) | none | setup, packed swap, cleanup | quote server, executor |
| Executor program (`programs/autobahn-executor`) | token accounts | chain of swaps v2 and v3, order-book swap, fees, referral vaults | the instruction, the pools' programs |
| Dex adapters (`lib/dex-*`) | pool state decoded from accounts, accounts listed per edge | initialize, load, quote, quote exact out, build swap | edges, feed |

What is hard here. Everything in the router process runs as tokio tasks or
threads that share edges, cache and channels. Notifications are lossy (the
broadcast channel overwrites), accounts may change while they are read, writes
arrive out of slot order, prices reach two receivers at different times, the
budget ends a refresh halfway, cooldowns come from three sides, and cached paths
are used for other amounts, other account limits and later edge states than the
ones they were found for. `hazards` in `PROJECT.json` lists these places, each
with its line and the properties that watch it.

What makes the parts correct:

* an edge offered to the router has a price for every warming amount, computed
  from the present accounts, or a refresh of it is due; a cooldown lasts;
* an updater always tells the ready watcher something, refreshes what it
  marked, and ends the process only for a lag that lasted;
* after a recent enough snapshot the feed leaves the newest content of every
  wanted account, whatever was lost, repeated or reordered before; it announces
  a snapshot with its accounts on their way;
* the cache is a map from (pair, mode, amount, account bucket) to paths;
* a route leads from the requested input to the requested output, for the
  requested amount, within the account limit; a request is always answered and
  only refused after a full search;
* a transaction carries a recent block hash and lookup tables that are worth
  their size; the executor can unpack what the router packed, spends at most the
  limit, brings at least the promise, and leaves nothing wrapped behind; fees
  reach their owners;
* a quote swaps against liquidity that is there, never lowers the product of a
  pool's reserves, and every account it reads refreshes it;
* the price of a mint reaches the cache, and the process ends with its tasks.

## 2. Modules

| Module | Models |
|---|---|
| `Edge` | `EdgeState` and its operations, as operators |
| `EdgeUpdater` | one dex: chain-data job, price feed, price cache, updater job, transaction watcher, router cooldowns |
| `MCEdgeUpdater` | small dexs for TLC |
| `PathCache` | the abstract map the path discovery cache promises |
| `Lists` | what `Vec::retain` leaves of a list |
| `PathList` | the list of a cache key: order, binary search, insert, retain, scan |
| `PathDiscoveryCache`, `MCPathDiscoveryCache` | the cache over these lists; shown to implement `PathCache` |
| `GeyserFeed`, `MCGeyserFeed` | the gRPC account feed: connection, snapshots, deduplication, chain data |
| `Routing`, `MCRouting` | concurrent requests and the warmer over the operators of `PathList` |
| `SwapInstructions` | what the seven dexs' `build_swap_ix`, `build_ixs` and `generate_swap_ix_data` make of a route |
| `Executor` | the transaction run by the runtime and the executor program |
| `ReferralFees` | `ChargeFees`, `ChargeFeesV2`, `CreateReferral`, `WithdrawReferral` |
| `HotMints`, `AltOptimizer` | the hot mints cache; the choice of lookup tables, as operators |
| `QuoteServer` | concurrent quote and swap handlers over the hash and table caches |
| `InvariantPool`, `RaydiumPool`, `OrcaTicks` | quotes of Invariant, Raydium AMM and CP, and Orca pools |
| `DexAdapters` | what the adapters list, ask the feed for and read |
| `Liquidity` | liquidity updater, computer and provider |
| `PriceFeeds` | composite, fillcity and birdeye feeds, price cache |
| `Startup` | `main`: tasks, exit broadcast, SIGINT, joins |
| `MCExecutor`, `MCQuoteServer`, `MCPools`, `MCServices` | instances of the above for TLC |
| `DataLemmas` | lemmas on least elements, sums over finite sets, kept elements and the lists of the path cache |
| `EdgeUpdaterProofs`, `PathDiscoveryCacheProofs`, `RoutingProofs`, `GeyserFeedProofs`, `QuoteServerProofs` | theorems about the modules they are named after |
| `ExecutorProofs` | theorems about `SwapInstructions`, `Executor` and `ReferralFees` |
| `PoolProofs` | theorems about the pools, the adapters and `Liquidity` |

**EdgeUpdater.** The variables carry the names of the fields of
`EdgeUpdaterState`. `edge_state` has one state per *instance* `<<account, edge>>`,
since `build_dex_internal` allocates an edge per entry of `edges_per_pk`;
`routed` chooses, once, the instance `Dex::edges()` keeps. `AccountWrite` is
`handle_updated_account` (content and notification under one lock).
`RecvAccountUpdate`, `RecvLagged`, `RecvInvalidAccount`, `RecvSnapshotEnd`,
`RecvPriceUpdate`, `RecvSlot` and `LoopExit` are the branches of the `select!`
loop; each includes `check_readiness` and `on_ready` where the code calls them.
`RefreshStart`, `UpdateWithoutQuote`, `BeginQuote`, `StoreQuote`, `RefreshEnd`
are `refresh_some`; a quote is two steps because `prepare` and `quote` read
accounts one by one while the chain-data job goes on: every account is read in
some version between the two. `pc` is the updater's position. An account's
content is its version number; `priced_at` records the versions an instance was
quoted from. A price is the index of its amount and whether it is above 1e-7; a
quote may also fail or be NaN; the mint's price is missing, good, or so small
that the amount saturates. `missed`, `last_dirty`, `slot_in_time` are history
variables: no guard reads them.

**PathDiscoveryCache.** One action per method; lists are TLA+ sequences, paths
are opaque. The operations on one list are operators of `PathList`, which
`Routing` uses too. `SearchPositions` gives every answer the binary search may
give, so a list that lost its order would show. `F64` is the rounding of amounts, scaled
to a small `Exact` in place of 2^53. The clock may be set back: the unsigned
subtraction of `expire_old` then panics (overflow checks are on in release
builds) and the lock is poisoned for good. `PathCache` is the promise: a map,
lookups that give the nearest live amounts on either side, and no removal
except by age, replacement or invalidation. `Stored` is the refinement mapping.

**Routing.** A request is a call record with a position; the steps are those at
which locks are taken or shared state is read and written: `CheckPruned`,
`RequestSelect`, `RequestWrite` (initialisation of the selected edges),
`Unsupported`, `LookupCache`, `SearchPaths`, `InsertFound` (one lock per node),
`AddDirect` (drops the read lock), `Evaluate` (may cool edges), `BuildRoute`,
`Relax` (invalidate and retry). Reader-writer locks are `readers` and
`selection`: a reader waits while a writer waits. A search returns *any* set of
admissible paths over valid selected edges, so the results hold however prices
rank and prune them; `Admissible` keeps the rules on cycles, length and
accounts. `select_best_pools` returns any subset of the valid edges.

**GeyserFeed.** `pc` is the source job of `process_events` (between connections,
connected, given up); the variables below it are the locals of
`feed_data_geyser`, which `Fail` throws away with its channels and requests.
`RecvFinalized`, `RecvAccount`, `RecvSnapshot` and `ReSnapshot` are the branches
of its loop, `Disconnect` a closed or silent stream. `FetchSnapshot` is a
spawned request: it answers for any finalized slot, so the RPC server may lag,
or fails. `ProcessWrite`, `ProcessSnapshot`, `FinishSnapshot` and `ProcessSlot` are
`process_account_updated_from_sources`: a snapshot is two sends to two channels
(`Send`), each of which may wait, and `ending` is the snapshot between them.
`StoreAccounts` is the chain-data job,
`Newer` the rule of the external `ChainData`. The content of an account is the
number of its writes. Write versions are `node` plus that number, a different
base for each node. Writes may arrive in any order, more than the code's comment
assumes. `missed_until`, `snapshot_slot` and `fresh` are history variables. Forks,
accounts missing from a snapshot and processed or confirmed slots are left out.

**SwapInstructions, Executor.** An instruction is a program, a sequence of
accounts and a sequence of fields with their widths in bytes, so that the offset
at which the executor patches the amount of a hop selects a field or tears it.
`build_ixs` gives setup, swap and cleanup; `generate_swap_ix_data` packs the
hops into one flat list. `Executor` runs it: `BuildTransaction`, `Setup`,
`EnterSwap` (unpacking), one `ExecuteHop` per hop, `EndSwap` (the event of v3),
`Cleanup`. A failure at any step restores the ledger. A pool is external: it
gives any amount its instruction's limit allows, an order book also fills part
of an order, in lots.

**ReferralFees.** One action per instruction, v1 and v2 of the charge, with the
order of their checks. A vault is named by its referrer, the seed of its
address. Anyone may send SOL to a vault's address before it is created
(`FundVaultAddress`), which is what `create_pda_account` is written for.

**QuoteServer.** A handler is a job per client with a position: `QuoteRequest`
and `SwapRequest` start it; `Handle` is the union of the steps between two
awaits: look the tables up (cached or by RPC), search a route and optimise the
tables, retry with fewer accounts, get a hash, answer. Every error path ends the
job: no route, a quoted plan that is gone, instructions or a message that cannot
be built, a failed call, the panic on an account that is no table. A hash is the
time it was made and a table keeps the time it was asked for up to the answer, so
their ages are known; an RPC answer describes the network when the question
was sent and arrives up to `Latency` later, in any order. Time passes while all
running handlers wait for calls: what a handler does between two awaits takes no
time on this scale. The size of a transaction is that of the message
`try_compile` makes: signers and invoked programs keep their keys, an address is
taken from the first table that holds it, and a table that moves nothing is left
out. `history` is what the hot
mints would be without a limit; no guard reads it.

**InvariantPool.** Prices lie on a line with `PerTick` points to a tick instead
of on powers of 1.0001: moving by *d* points in liquidity *L* takes *L d* of
either token. Kept: the bitmap slice and its byte-wise searches, the choice and
loading of ticks, the swap loop with its limit, fee, rounding direction, virtual
crossings and early break, one action per turn of the loop; a load fails when the
chain data lacks a tick. **RaydiumPool** has
the arithmetic as it is, with small fees. **OrcaTicks** has the index arithmetic
of the tick arrays with truncating division; the swap itself belongs to the
whirlpool client and moves the tick anywhere up to the limit. **DexAdapters**
has one rule per dex for the pools kept, the accounts listed and the accounts
subscribed, put together with `insert` (the last pool that lists an account
wins) or `insert_or_extend`, the first load of all edges once the snapshot is
there, and the loads a write causes. A load fails when an account it reads is not
subscribed to. The Clock is an account like the others: Saber's load reads it,
the quotes of Raydium CP and OpenBook do, and OpenBook alone subscribes to it.

**PriceFeeds.** The feed's task goes from request to request (`FeedStep`), each
of which may fail; local and outer broadcast channels have tokio's capacities, a
power of two. **Startup.** A stage is a stretch of `main` without an await;
`absent` says which optional tasks the configuration leaves out.

Definitions whose comment starts with "Variant of" are altered forms of the
definition that follows. They are not part of the specification: putting one in
place of its original shows that a property notices that mistake.

## 3. Runs

| Run | Instance | Shows |
|---|---|---|
| `updater_shared` | one edge under two accounts, channel of 2, 2 writes per account in slots 1 and 2 in any order, 1 price, symmetric accounts | `TypeOK`; `SlotProgress`; `LatestInstanceTracksChain`: the instance last marked dirty never keeps a stale valid price unless a refresh is due or the channel dropped the notification |
| `updater_valid` | one edge, two warming amounts, any quotes and prices, two cooldowns, time 0..2 | `ValidEdgeHasEveryPrice`; `CooldownNeverCutShort` |
| `updater_live` | two edges under one account each, all three kinds of subscription, two writes each, time to the init timeout and past it | `EventuallyReported`, `DirtyIsRefreshed`; `RoutedEdgeTracksChain` for the router's instance |
| `cache_map` | one pair, amounts 1..3, two account limits of different buckets, two paths, clock steps both ways, three inserts with timestamps up to one step old | `TypeOK`, `EntriesSorted`, `ImplementsMap` |
| `routing_paths` | two requests with account limits 14, 15 or 19 (the last two of one bucket) over 1-2-3, one change of validity | `RouteConnectsMints`, `CachedPathsConnectPair`, `RouteFitsAccountBucket` |
| `routing_live` | a request (known or unknown mint) against a warmer round, expiring entries, one change of validity | `TypeOK` with the lock discipline, `RefusedAfterFullSearch`, `EveryRequestAnswered` |
| `geyser_feed` | two accounts in a snapshot, one of them wanted and written twice, slots 2..5, a queue of 2, two nodes, one reconnect, one re-snapshot | `TypeOK`; `SnapshotThenStreamIsComplete`, `OldSnapshotIsRequestedAgain`, `AnnouncedIsQueued` |
| `swap_tx` | routes of 1 to 3 hops over seven dexs and four mints, SOL at an end or in between, wrapped or not, missing accounts, hops giving up to 3, lots of 2; apart from it five fee instructions of two referrers, percentages 0 to 255, fees to 3 | `SwapHonoursLimits`, `EventMatchesLedger`, `NothingLeftWrapped`, `BuiltSwapIsWellFormed`; `FeesReachTheirOwners` |
| `quote_server` | two clients with a quote and a swap each, one of them for either of two pairs with a mint that is always hot, limits 9 and 14 (floor 10, step 5), a hash kept 1 and a table kept 2, answers 1 late, time to 3 | `AnswersAreRecent`, `HotMintsAreLatest`, `EveryRequestIsAnswered` |
| `pools` | Invariant: bytes of 2 bits, search range 4, three crossings, one or two positions or chains of them, at zero and the ends of the range; Raydium: vaults of 0, 1, 6, 40, two trades; Orca: arrays of 3 ticks, spacings 1 and 2, the ends of the range; adapters: Raydium, Raydium CP, Saber and OpenBook with pools that share accounts, two writes; liquidity: two edges, three refreshes | `TickSearchIsSound`, `SimulatedLiquidityIsReal`, `TradesKeepProduct`, `ExactOutNearlyCovered`, `WindowFollowsTick`, `EdgesFollowTheirAccounts`, `LiquidityIsMeasured` |
| `services` | four mints in requests of 2, a channel of 2, one retry, two failures; apart from it the start with one dex, with and without Mango tokens and path warmer; apart from both a client of the quote server, six overlapping tables of which any may be missing, two of them with programs the transaction invokes, the sizes of the code | `PricesReachTheCache`; `RunEndsWithItsJobs`; `TablesPay` |
| `updater_routed_stale` | as `updater_shared` | violation of `RoutedEdgeTracksChain` |

`swap_tx`, `pools` and `services` put parts that share no state into one state
graph: an initial choice, or the independent starts of the parts, decides which
of them moves.

Why the bounds suffice. Two accounts are the least for torn reads and for an
edge with two instances; a channel of two with two writes per account overflows;
two prices (in `updater_valid`) allow a good one followed by a saturating one; two warming amounts
give every mix of failed and good quotes; two cooldowns give a long one followed
by a short one and time 2 lets the shortest expire. Three inserts fill, replace
and overfill the entries around a lookup. The path 1-2-3 is the least that needs
the retry with full length (`MaxPathLength` 2, so first attempts use 1), and its
cost of 9 fits a limit of 19 and not of 15, although both share a bucket; with 14,
of the bucket below, it must never be found.
For the feed, two writes in one slot give the write versions an order to get
wrong, a snapshot can be requested once slot 4 is finalized (buffer 0, step 1),
older and younger than the writes, and two nodes with write versions from 0 and
from 2 make a reconnect bring lower ones; with nothing allowed out of order a
write behind the rooted slot ends the connection. The second request after a too
old snapshot lies past the last slot; second requests come from `ReSnapshot`.
Three hops are the least with a hop that is neither first nor last; a third
instruction after a charge and a withdrawal meets a vault in every state. With
a limit of 14 the quote loop retries once and stops, with 9 it is below the floor
at once; a hash that outlives its age while a second one is under way needs two
clients and a late answer. Of six tables five are worth taking one by one, so
the limit of four, the overlaps and the tables that hold static addresses all
decide. Two writes to each of two accounts, of slots 1 and 2, come
in every order, also with one of them pushed out of the channel. Slices of the bitmap start inside a byte and at the
ends of it, and three crossings meet the early break. In vaults of 1 every
quotient is below one. Vaults of 40 are too small to tell the fee on the fee
from a bound slightly too low (at a fee of 1/8 that takes an input of 4096), which is
why `ExactOutNearlyCovered` rests on its proof more than on this run. With five mints to a refresh and two to a request a
refresh has a last, partial request, and a channel of 2 overruns.

Deadlock is checked in the runs of the updater, the cache, routing and the feed:
their end states are the explicit `Stopped`, `Poisoned`, `Done` and `Ended`
steps. A transaction, a handler, a quote and the process end, so `swap_tx`,
`quote_server`, `pools` and `services` do not check it.

Fairness. `updater_live`: time passes, the timeout branch, the receiving
branches and the refresh steps are each weakly fair. The `select!` loop polls
its branches at random and `refresh_some` follows every turn of it, so a branch
that stays ready is taken. Nothing is assumed of accounts, prices, slots or
swaps. `routing_live`: request threads run, and the warmer, once it has selected
edges, writes them; a new warmer round is not assumed. `quote_server`: handlers
are polled and RPC calls answer or time out; clients need not ask, and time need
not pass. `services`: the feed's and the cache's task run; the feed's `select!`
takes its arms in random order, so a mint in its queue is taken in the end
(strong fairness: the arm is disabled during a refresh). `main`, the SIGINT task
once the signal came, the warmer and every task that has the exit message run;
that a task fails or a channel closes is never assumed.

## 4. Theorems

TLAPS proves them for every value of the constants that satisfies the named
assumption of the module, which TLC evaluates for the instances of the runs. Each
inductive invariant was model-checked on the instance of its run as well (`HotInv` in
the form of `HotMintsAreLatest`, to which it only adds that `history` is a sequence; the
unbounded quantifiers of `SearchInv`, `RealInv`, `OrcaInv` and the choice in `Joined` in
an equivalent bounded form).

**Edge updater** (`UpdaterAssumption`, `EdgeAssumption`: types of the constants,
every edge listed somewhere, a channel of at least one message).

* `TypeCorrect`: `TypeOK` is inductive by itself. One lemma per group of actions.
* `ValidEdges`: a valid edge has every price. `ValidInv` (a valid state has the
  domain `1..NWarm` and a non-zero price) is inductive because `EdgeSteps` shows
  that a step leaves an instance alone or applies one operation of `Edge`.
* `Cooldowns`: from `EdgeSteps`, with one lemma on `add_cooldown`.
* `LatestTracks`: freshness is not inductive: it says nothing about a refresh in
  progress. `TrackInv` adds: the dirty entry is the one last marked (`DirtyInv`);
  a valid instance was marked once (`PricedInv`); while quoting, an account that
  changed since the first read is pending, that is notified or dropped
  (`ReadingInv`); an edge not dirty, or refreshed in this round, is priced from
  accounts that are current or pending (`SettledInv`). The heart of it is
  `WriteIsPending`: a write makes its account pending and leaves pending what was,
  a message pushed out of a full channel being dropped and counted.
* `RoutedTracks`: when every edge is listed under a single account, the instance
  last marked is the only one, hence the router's.
* `SlotsProgress`: pending and processed slot never move back.

**Path discovery cache** (`CacheAssumption`: types, exact in is a mode, amounts up
to 2 * `Exact`, the representable range being a multiple of 4; `None` is none of the
values it stands beside).

* `CacheTypes`: `TypeOK`, for all amounts.
* `CacheSorted`: the lists stay sorted without duplicates. `CacheImplementsMap`: the
  cache implements `PathCache`; a lookup gives the nearest live amounts on
  either side. Both assume `Representable`, amounts that `as f64` leaves alone (in
  the code, below 2^53): above that an entry may double (section 5), and the run
  `cache_map` stays within the range as well.
  `DataLemmas` says what the operations do to a list: `InsertedSorted` (binary
  search and insert keep the order, through any answer the search may give),
  `InsertedElements`, `RetainedProperties`, `WithoutBucketProperties` (elements
  left), `LookupIsNearest` (the scan finds the nearest entries of a sorted list).
  The refinement has one lemma per method: `InsertImplements`,
  `InvalidateImplements`, `ExpireForgets`, `GetForgets`, `GetIsNearest`.

**Routing** (`RoutingAssumption`: types of the graph and of the requests). One
invariant carries all of it. `RoutingInv` says: every cached path fits the budget
of its bucket and, for exact in, leads from the first mint of its pair to the
second (`CacheInv`); a call's paths, and those it still has to insert, fit and
connect, and its attempt number agrees with what it has tried (`CallInv`); what
the warmer has found from a mint starts there (`WarmInv`); a request holds the
read lock exactly from its search to its direct paths (`LockInv`).

* `RoutingTypes`: `TypeOK` with the lock discipline, for any number of requests.
* `RefusalsFollowSearch`: a request is only refused after a full search.
* `CachedConnect`, `RoutesFit`: cached paths connect their pair; routes of several
  hops fit the bucket. The cache's bucket is coarser than the limit, so the
  step needs that every path put in fits the *whole* bucket (`WithinBucket`).
* `RoutesConnect` assumes `ExactInRequests`. For exact out the code adds direct
  paths of the wrong mint (section 5), and it does not hold there.

**Geyser feed** (`FeedAssumption`: types; the snapshot's write version is above
those of all nodes; slots start above the out-of-order and retention windows).

* `FeedTypes`, `SnapshotThenStream`, `OldSnapshotRetried`, `AnnouncedQueued`: the
  four invariants of `geyser_feed`.
* `SnapshotThenStreamIsComplete` says nothing of messages under way, so it is far
  from inductive. `FeedInv` follows a write from the node to the chain data: every
  message in the stream, the channel, the queue or the chain data tells of a
  write or is what a finalized slot held (`Right`), and this stays true as the
  network goes on (`MessagesStay`; a snapshot is of a finalized slot and writes go
  to the present one); the last write of an account, if of a slot the connection
  covers, is in the stream, in the channel, queued, or the stored data is at
  least as new, and only in the last two cases does the deduplication count it as
  seen (`DeliveredInv`); a remembered version of a covered slot is at most that of the last write
  (`LatestInv`); stored data is at least as new as every snapshot stored before
  (`DataInv`). Versions of different nodes cannot be compared: what saves the
  argument is that `latest_write` is kept per slot, and slots after `missed_until`
  were never seen before this connection.
* `OldSnapshotRetried` and `AnnouncedQueued` each add one inductive part (`Retried`,
  `Announced`) to it. `Announced` says of the snapshot between its two sends, too,
  that its accounts are queued or stored, which `StoreAccounts` may do in between.

**Quote server** (`ServerAssumption`: types, both cache ages and `MaxCount` at least
1, routes with finitely many addresses, the static ones among them; `SizeAssumption`:
an index is no larger than a key, a key no larger than a table with an index, and a
table with two indices no larger than two keys, as 1, 32, 35, 36 and 64 bytes are).

* `AnswersRecent`: what a handler holds was read before an await, so the invariant
  follows it across. `ServerInv` says: a call under way has not outlasted the
  timeout (`InTime`); what a cache holds arrived at most `Latency` after it was asked
  for (`Arrived`); the tables a handler holds after *n* of its calls are younger than
  `AltTTL + n * Latency`, counted to when it last ran (`RecentTables`, `AgeAt`, `RanAt`;
  a further call adds at most one `Latency`, `OneCallOlder`), and its hash than
  `HashTTL + Latency`; the tables chosen are among those loaded (`ChosenRecent`).
  That a handler does not pause outside of calls is the model's (section 2): the
  bound is on data, not on a busy machine. One lemma per step of a handler;
  `OneHandler` leaves the others alone, `StepTick` ages all of them.
* `ChosenTablesPay`: `FourLevels` unfolds the recursion over the four levels. A level
  takes a table for `k > 1` addresses, `s` of them static: `k - s` keys become indices,
  and a table is added unless `k = s`. `TableSaves` shows that this costs at most
  `s * (TableSize + IndexSize - KeySize)` more; `TakeBestSaves` adds it up over the
  levels, for which the addresses a table moves in the message must be those the
  level counted (`MovedLast`, `Grown`), and `SizeIsCost` relates the sum to `TxSize`.
  With no static address in the tables the bound is zero.
* `LatestAreHot`: the deque is a prefix of `history`, and the set holds its elements.
  `AddKeepsLatest` has the three cases of `add`: a known mint moves to the front of
  both lists from the same place (`ToFront`); a new one is put there; or it pushes the
  oldest out, since a full set has as many elements as the deque has places
  (`UniqueCount`).

**Executor** (`ExecutorAssumption`: routes of the search, in which each step takes
what the one before it brings and no mint comes twice, as `walk` sees to; ledgers
of natural balances; bps, amounts and lots of any size). A transaction is
correct by what all its instructions do together, so one invariant goes through it
phase by phase. `ExecInv` says: during the setup the wallet owns what it did before,
wrapped or not, and every account already created is there (`InSetup`); before hop
*i* the executor stands at that hop's accounts, the wallet has spent at most the
limit, holds exactly `in_amount` more of the mint the hop before it brought, has
not touched the mints to come and lost none of the others (`InHops`, `Between`); after the hops at
least the promised output is there and the event's numbers are the ledger's (`Done`);
the cleanup comes by a wrapped SOL account at most once (`InCleanup`); a failed
transaction has the ledger it began with, and has not failed for being malformed.

* That the executor stands at the right accounts is about flat lists: packing is
  a `FlattenSeq` of parts, so `FlattenHoldsParts` gives each part its place and
  `HopsAreAt` and `HopUnpacked` the accounts and data a hop is given. The amount is
  patched at a byte offset: `OffsetsGrow` and `ReadOverwritten` show that the patch
  hits one field and no other. Each of the seven builders has two lemmas
  (`raydium_data`, `raydium_accounts`, ...): the program finds its amount, direction
  and token accounts where the builder put them. `HopIsAsBuilt` puts this together.
* `SwapLimitsHonoured`, `SwapEventTrue`, `SolUnwrapped` follow from `ExecutorInvariant`.
  Without "no mint twice" they would be false: a hop that brings the input mint back
  would be counted against the limit.
* `SwapWellFormed` adds that `accounts_needed` covers the accounts of each builder, by
  counting the distinct keys (`NeedsCovered`). An instruction of Invariant names every
  tick its quote crossed, and nothing bounds these (`invariant_ticks.cfg`): the bound is
  `accounts_needed` and the ticks past the five it reserves.

**Referral fees** (`FeesAssumption`: finitely many referrers, percentages of a
byte). `FeesArrive`: what users pay reaches the platform or the referrer's vault
and accounts, to the unit, for every percentage and amount. The invariant adds
the types of the balances (`Balances`); the sum over referrers moves with one
charge by `SumShifted`, and `PlatformFeeBounds` bounds the rounded part.

**Raydium** (`RaydiumAssumption`: a fee below one, natural vaults). `ProductKept`: the
arithmetic is by `CurveKeepsProduct` (a quotient rounded down in favour of the pool)
and `CeilDivBounds` (the ceiling that rounds to the nearest below one, which costs the
pool at most half of the reserve the output comes from); the invariant is that
vaults and what is owed of them are natural (`IsPool`). `ExactOutCovered`: CP counts the fee twice, which covers it
(`CpCovered`); the AMM leaves the fee on the fee out, and what makes up for it is
`FeeOnFee`, a series whose tail the rounding eats (`FeeSeries`). The property used to
allow only the first term of that series; the proof did not go through because it
is not enough for large amounts.

**Liquidity** (`LiquidityAssumption`). `LiquidityMeasured`: the measurement in progress
holds the quote of its last accepted input (`MeasureInv`); the total of a mint is a sum
over its edges that moves with one of them (`TotalFollows`) and saturates
(`SaturatedGivesWay`).

**Orca** (`OrcaAssumption`). `WindowFollows`: `StartTick` says which multiple the
truncating divisions give, for negative ticks too; hence the window holds the tick
(`WindowHolds`), and as long as the tick is within the scanned range of the start all
its arrays are listed (`WindowListed`).

**Adapters** (`AdaptersAssumption`: keys of pools are unique, and pools of Raydium,
Saber and OpenBook share no vault or book with others of their dex, since these are
created for the pool). `EdgesFollow`: every kept pool is listed under, and subscribed
to, all accounts its load reads (`Follows`, one lemma per dex); where `insert` keeps the
last pool only, the assumption leaves one. The Clock is read and listed nowhere, so
only its being subscribed is shown. Assumes that Infinity and Invariant are not among
the dexs, where the property fails (`listing.cfg`), and that
OpenBook is, which subscribes to the Clock: without it no edge of Saber would load.

**Invariant** (`InvariantAssumption`; `SliceAssumption`: the slice fits the bitmap, a
search covers two bytes, and real and virtual crossings together are at most
`2 * ByteBits + 2`, in the code 14 of 18: a crossing down may go one tick past the
search range, which the spare bytes of the slice must make up for).

* `TickSearchSound`: `NextFound` and `PrevFound` show that the byte-wise searches give
  the nearest bit; that they never leave the slice needs to know how far the price
  has come. `SearchInv` says that the slice was taken at some tick and that the pool
  has since moved at most one search range and one tick per crossing (`CameFrom`,
  `Travelled`); `SliceCovers` turns this into bytes.
* `LiquidityReal`: `RealInv` says that all initialised ticks still ahead in the slice
  are among those loaded, that the loaded ones are met in their order, and that `next`
  is the rank of the first one ahead (`OnCourse`). Crossing a tick changes the sum
  over the positions by that tick's share (`LiquidityAcross`, from the additivity of
  sums), and a step that stops short of its target has used up the input
  (`StopsWithNothing`).

`DataLemmas` has the facts about data. The provers cannot instantiate an induction
theorem with an operator, so what a sum or a kept list is for every input is shown
by the absence of a least counterexample: `LeastNatural`, `MinimalSubset`, and from
them `SumExists` and `KeptProperties`.

Every safety invariant and action property of the passing runs is stated by a
theorem. Model-checked only: the liveness properties (`EventuallyReported`,
`DirtyIsRefreshed`, `EveryRequestAnswered`, `EveryRequestIsAnswered`,
`PricesReachTheCache`, `RunEndsWithItsJobs`), since fairness and `ENABLED` are outside
the prover; and the counterexamples of section 5. `InvalidPathsAreDropped`,
`TablesReplaceTwo`, `QuoteUsesReservedTicks` and `OutputHasAPrice` say what comments of
the code say, and are refuted there.

## 5. Where code and documentation differ

With a run that shows it:

* `updater_routed_stale`: an edge listed under two accounts has two states. An
  update of one account refreshes that account's instance; the router's stays
  valid with the old price and nothing is scheduled (`generic_adapter.rs:57`).

Each of the following has a configuration that violates the named property; it
is run by hand (`tlc -config <cfg> <module>`):

* `slot_lag.cfg`, `MCEdgeUpdater`, `PanicMeansSustainedLag`:
  `detect_and_handle_slot_lag` returns early when the lag is gone and keeps the
  start of the last lag, so two short lags far apart look like a long one and
  end the process (`edge_updater.rs:218`).
* `exact_out_direct.cfg`, `MCRouting`, `RouteConnectsMints`: for exact out, edges
  are indexed by their output mint, but `add_direct_paths` takes those listed
  under the input mint (`routing.rs:1710`).
* `retry_amount.cfg`, `MCRouting`, `RouteIsForRequestedAmount`: the retry hands
  the overquoted amount on as the original one (`routing.rs:1562`).
* `fees_v2.cfg`, `ReferralFees`, `PayableChargeIsPaid`: no charge of `ChargeFeesV2`
  is ever paid. `token::transfer` does not pass the authority and the mint on to
  the instruction's accounts (`token.rs:102`), and the fifth account is taken for
  the referrer's (`execute_charge_fees_v2.rs:60`).
* `invalidate_exact_out.cfg`, `MCRouting`, `InvalidPathsAreDropped`: "Invalid cached
  path, retrying without cache" (`routing.rs:1552`), but `invalidate` returns before the
  exact-out entries when the pair has no exact-in key (`routing.rs:483`), so paths
  that failed stay cached.
* `static_keys.cfg`, `MCQuoteServer`, `TablesReplaceTwo`: "Only use LUT if it replaces 2
  or more addr" (`alt_optimizer.rs:32`) counts signers and invoked programs, which
  the message keeps static (`http_server.rs:399`); such a table may enlarge the
  transaction, by no more than `TablesPay` says.
* `invariant_ticks.cfg`, `MCPools`, `QuoteUsesReservedTicks`: an initialised crossing does
  not apply `break_swap_loop_early`, so a quote may use more ticks than
  `accounts_needed` reserves (`invariant_edge.rs:51`, `192`).
* `free_output.cfg`, `MCPools`, `OutputHasAPrice`: below one half `checked_ceil_div` gives
  zero where its comment says "instead fail" (`dex-raydium/src/internal/math.rs:315`),
  so an exact-out quote may ask for no input. `TradesKeepProduct` bounds what a
  trade at such a quote costs the pool.
* `listing.cfg`, `MCPools`, `EdgesFollowTheirAccounts`: "reference edges by the
  subscribed_pks so they can be updated on account change" (`edge_updater.rs:24`).
  Infinity subscribes to and reads its pool's accounts and the reserves, but lists
  no edge under them (`infinity.rs:79`; line 105 asks why). Invariant zips pools, tick
  maps and edges although the tick maps come back in the order of a hash map, so
  an edge may be listed under another pool's tick map (`invariant_dex.rs:289`); the
  configuration says which constants show that.

Seen while modelling, in the model but without a run of their own:

* `insert` searches with the `u64` amount and stores the `f64`; above 2^53 an
  entry may not be recognised again and doubles (`routing.rs:427-443`).
* exact-out results are cached under (input mint, node) although they lead from
  the node to the output mint (`routing.rs:1347`).
* `handle_tx` cools one edge per description; adapters describe an edge by its
  pool, so the other direction is left alone (`tx_watcher.rs:106`).
* `first_full_slot`, "the first slot that we will receive _all_ account writes
  for" (`grpc_plugin_source.rs:233`), is the slot after the first finalized one.
  Writes of later slots sent before the subscription, or received before that
  message, are lost; a snapshot older than those slots is accepted without a
  retry. `SnapshotThenStreamIsComplete` therefore asks for a snapshot of
  `missed_until`, the slot that was current at that message.
* the write version rewritten at `grpc_plugin_source.rs:430` stays in a clone;
  the node's own version is sent on and deduplicated.
* `error_count` is reset when the last error is 10 minutes old, which is looked
  at right after the retry sleep (`grpc_plugin_source.rs:556`): with a shorter
  sleep the errors add up over the life of the process.
* `expire_old` panics when the clock is set back, and the cache's lock stays
  poisoned (`routing.rs:376`).
* Price feeds: fillcity sends a price more per request than the local channel
  has room for whenever n + ceil(n/50) exceeds the power of two at or above
  n + 1 (n = 63, 126 and 127, 251 to 255, ... 8032 to 8191) and it knows them
  all: every refresh then fails (`composite.rs:149`). A price cache that was
  overtaken once never reads again (`price_cache.rs:28`). A failed birdeye
  request drops the prices of that round's earlier requests.
* Start: a SIGINT between the subscriptions of the chain-data task and of the
  price feed is lost when no path warmer looks at the flag. Two boolean arguments
  of the Invariant dex are swapped (`main.rs:307`). The ready watcher waits
  forever for a dex that is Disabled. The Clock is subscribed by openbook alone
  though saber and raydium_cp read it (`main.rs:647`), and no edge is listed under
  it: Saber's edges quote with the time of their last load.
* Server: a late hash answer overwrites a newer one, within the bound that
  `AnswersAreRecent` states. `/swap` answers the context slot as
  `last_valid_block_height` and does not measure the transaction. A table that
  cannot be decoded panics in the handler. `keep_latest_count` 0 panics.
* Executor: vaults of token-2022 mints cannot be created: `token.rs:91` initialises
  them with the instruction of the other token program.
* Raydium: exact-out quotes take the fee on the amount without fee;
  `ExactOutNearlyCovered` leaves out amounts priced below one (`BelowOne`), where
  the input asked for is rounded to the nearest; a frozen vault refuses exact-in
  quotes only. CP counts the fee twice for exact out.
* Openbook: a quote reports the full input although lots round it down.
* Orca: the third array is fetched even when the second is missing; the listing
  is fixed at the start (`orca_dex.rs:251`).
* Invariant: ticks initialised after the start are not listed; a long series of
  initialised crossings may read past the slice and panic (`tickmap.rs:177`).
* Liquidity: the midpoint is tried against the factor 1.7 of the doubled amount
  and never accepted on a concave curve; the last value stays when a
  measurement fails.

## 6. Not modelled

* Object pools, metrics, logging and the read-only endpoints: no state a property
  is about.
* The quic twin of the account feed and the mint source: I/O around the same
  processing; the gRPC feed is the one modelled.
* The swap mathematics of saber, openbook, infinity and the whirlpool client:
  external crates, used as relations between input and output.
* The other binaries under `bin/` (command line tools, comparison bots, log
  tools) and the dumping of chain data for tests.
* RPC and gRPC transport.

Within the modelled parts: the ranking of paths and pools by price and the
repricing of routes, `last_update` of an edge (it only feeds logs and the context
slot), the Disabled subscription mode, the decimal arithmetic of Invariant
prices (a linear price stands for it, so its overflow checks are left out), a tick
account of Invariant that is there and does not decode (it counts as a tick without
liquidity, `invariant_dex.rs:217`), rent and transaction fees.

## 7. Plan

1. *Done*: all modules above; proofs of every safety property of the runs.
2. `PathSearch` (recursive, TLC only): `best_price_paths_depth_search` and
   `walk` against the definition by enumeration that `Admissible` states;
   `SelectBestPools` against the ranking it promises.
3. The decimal arithmetic of Invariant prices in place of the linear one.
