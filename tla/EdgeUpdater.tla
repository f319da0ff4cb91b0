---------------------------- MODULE EdgeUpdater ----------------------------
(***************************************************************************)
(* The live price pipeline of one dex: the chain-data job writes accounts   *)
(* and broadcasts their keys, the price feed publishes mint prices to the   *)
(* price cache and to the updater, the updater job marks edges dirty and    *)
(* re-quotes them, and the transaction watcher and the router put edges on  *)
(* cooldown.  The jobs are tokio tasks and interleave freely.               *)
(*   bin/autobahn-router/src/edge_updater.rs, tx_watcher.rs, main.rs,        *)
(*   dex/generic/generic_adapter.rs, lib/router-lib/.../price_cache.rs       *)
(*                                                                         *)
(* build_dex_internal allocates one Edge per entry of edges_per_pk, so an   *)
(* edge listed under several accounts has several instances <<pk, edge>>,   *)
(* each with a state of its own; Dex::edges() keeps one of them per         *)
(* unique_id, and that one is what the router reads.                        *)
(***************************************************************************)
EXTENDS Edge, Sequences, FiniteSets

CONSTANTS
    Pubkeys, Mints, Programs,
    Edges,                 \* unique ids
    EdgesPerPk,            \* Dex::edges_per_pk: account -> sequence of edges
    InputMint, OutputMint, \* of an edge
    Desc,                  \* DexEdgeIdentifier::desc of an edge
    Owner,                 \* program owning an account
    Decimals,              \* mints the token cache knows
    FeedPrices,            \* the <<mint, price>> updates the feed may publish
    ForeignMints,          \* mints other dexs register with the price feed
    Subscription,          \* DexSubscriptionMode
    ChannelCap,            \* capacity of the account-update broadcast channel
    CooldownMultihop, CooldownSinglehop, CooldownRouting,
    MaxLag, MaxLagDuration, InitTimeout,
    TxAccounts,            \* account lists of the swap transactions considered
    MaxWrites, MaxPrices, MaxTime, MaxSlot, MaxCooldowns  \* bounds of the model

VARIABLES
    chain,                 \* ChainData: version of every account
    account_updates,       \* broadcast channel: accounts written, with the slot
    account_lagged,        \* the receiver lost messages and has not been told yet
    price_cache,           \* PriceCache::latest_prices
    price_to_cache, price_to_updater,   \* the two receivers of the price feed
    published,             \* number of price updates so far
    registered_mints,
    now, slot, slot_received,
    edge_state,            \* Edge::state of every instance
    routed,                \* the instance the router holds, per edge
    pc, refreshed, reading,             \* the updater's control state
    is_ready, ready_sent,
    received_account, dirty_programs, dirty_token_accounts_for_owners,
    dirty_edges,           \* unique id -> instance (its account), or None
    latest_slot_pending, latest_slot_processed, slot_excessive_lagging_since,
    missed,                \* history: accounts whose notification was dropped
    slot_in_time,          \* history: last time the lag was seen below MaxLag
    last_dirty             \* history: the instance last put into dirty_edges

sourceVars == <<chain, account_updates, account_lagged, missed>>
priceVars  == <<price_cache, price_to_cache, price_to_updater, published>>
clockVars  == <<now, slot>>
readyVars  == <<is_ready, ready_sent, registered_mints, received_account,
                dirty_programs, dirty_token_accounts_for_owners>>
dirtyVars  == <<dirty_edges, last_dirty>>
slotVars   == <<latest_slot_pending, latest_slot_processed,
                slot_excessive_lagging_since, slot_received, slot_in_time>>
ctlVars    == <<pc, refreshed, reading>>
vars == <<sourceVars, priceVars, clockVars, readyVars, dirtyVars, slotVars,
          ctlVars, edge_state, routed>>

-----------------------------------------------------------------------------
Listed(pk) == {EdgesPerPk[pk][i] : i \in DOMAIN EdgesPerPk[pk]}
Listing(e) == {pk \in DOMAIN EdgesPerPk : e \in Listed(pk)}
Instances  == {i \in (DOMAIN EdgesPerPk) \X Edges : i[2] \in Listed(i[1])}
Versions   == [Pubkeys -> Nat]

ASSUME UpdaterAssumption ==
    /\ DOMAIN EdgesPerPk \subseteq Pubkeys
    /\ \A pk \in DOMAIN EdgesPerPk : EdgesPerPk[pk] \in Seq(Edges)
    /\ \A e \in Edges : Listing(e) # {}
    /\ InputMint \in [Edges -> Mints] /\ OutputMint \in [Edges -> Mints]
    /\ Owner \in [Pubkeys -> Programs]
    /\ None \notin Pubkeys
    /\ Subscription.mode \in {"Accounts", "Programs", "Mixed"}
    /\ Subscription.accounts \subseteq Pubkeys
    /\ Subscription.programs \subseteq Programs
    /\ Subscription.token_accounts_for_owner \subseteq Pubkeys
    /\ ChannelCap \in Nat \ {0}
    /\ {CooldownMultihop, CooldownSinglehop, CooldownRouting} \subseteq Nat
    /\ {MaxLag, MaxLagDuration, InitTimeout} \subseteq Nat
    /\ {MaxWrites, MaxPrices, MaxTime, MaxSlot, MaxCooldowns} \subseteq Nat
    /\ FeedPrices \subseteq Mints \X {"ok", "tiny"}
    /\ TxAccounts \subseteq Seq(Pubkeys)

PriceMsg == [mint : Mints, price : {"ok", "tiny"}]
Message  == [pk : Pubkeys, slot : Nat]

Init ==
    /\ chain = [pk \in Pubkeys |-> 0]
    /\ account_updates = <<>> /\ account_lagged = FALSE /\ missed = {}
    /\ price_cache = [m \in Mints |-> None]
    /\ price_to_cache = <<>> /\ price_to_updater = <<>> /\ published = 0
    /\ registered_mints = {}
    /\ now = 0 /\ slot = 1 /\ slot_received = 0 /\ slot_in_time = 0
    /\ edge_state = [i \in Instances |-> DefaultEdge([pk \in Pubkeys |-> 0])]
    /\ routed \in {r \in [Edges -> Pubkeys] : \A e \in Edges : r[e] \in Listing(e)}
    /\ pc = "select" /\ refreshed = {} /\ reading = None
    /\ is_ready = FALSE /\ ready_sent = FALSE
    /\ received_account = {} /\ dirty_programs = {}
    /\ dirty_token_accounts_for_owners = FALSE
    /\ dirty_edges = [e \in Edges |-> None]
    /\ last_dirty = [e \in Edges |-> None]
    /\ latest_slot_pending = 0 /\ latest_slot_processed = 0
    /\ slot_excessive_lagging_since = None

-----------------------------------------------------------------------------
(* Environment: time, the network's slots. *)
Tick == /\ now < MaxTime /\ now' = now + 1
        /\ UNCHANGED <<sourceVars, priceVars, slot, readyVars, dirtyVars,
                       slotVars, ctlVars, edge_state, routed>>

NextSlot == /\ slot < MaxSlot /\ slot' = slot + 1
            /\ UNCHANGED <<sourceVars, priceVars, now, readyVars, dirtyVars,
                           slotVars, ctlVars, edge_state, routed>>

(* The chain-data job, handle_updated_account: the new account content and its
   notification, under the chain_data write lock. tokio's broadcast channel
   overwrites the oldest message when it is full. Writes of an older slot may
   follow those of a newer one. *)
AccountWrite(pk, s) ==
    LET full == Len(account_updates) = ChannelCap
        kept == IF full THEN Tail(account_updates) ELSE account_updates
    IN /\ chain[pk] < MaxWrites /\ s <= slot
       /\ chain' = [chain EXCEPT ![pk] = @ + 1]
       /\ account_updates' = Append(kept, [pk |-> pk, slot |-> s])
       /\ account_lagged' = (account_lagged \/ full)
       /\ missed' = IF full THEN missed \union {Head(account_updates).pk} ELSE missed
       /\ UNCHANGED <<priceVars, clockVars, readyVars, dirtyVars, slotVars,
                      ctlVars, edge_state, routed>>

(* The price feed fetches registered mints and sends one update to every
   receiver. *)
PublishPrice(m, p) ==
    /\ m \in registered_mints \union ForeignMints
    /\ published < MaxPrices /\ published' = published + 1
    /\ LET msg == [mint |-> m, price |-> p]
       IN /\ price_to_cache' = Append(price_to_cache, msg)
          /\ price_to_updater' = Append(price_to_updater, msg)
    /\ UNCHANGED <<sourceVars, price_cache, clockVars, readyVars, dirtyVars,
                   slotVars, ctlVars, edge_state, routed>>

(* PriceCache's job: its own receiver, its own task. *)
PriceCacheInsert ==
    /\ price_to_cache # <<>>
    /\ price_cache' = [price_cache EXCEPT ![Head(price_to_cache).mint] =
                                              Head(price_to_cache).price]
    /\ price_to_cache' = Tail(price_to_cache)
    /\ UNCHANGED <<sourceVars, price_to_updater, published, clockVars, readyVars,
                   dirtyVars, slotVars, ctlVars, edge_state, routed>>

-----------------------------------------------------------------------------
(* Variant of NeedsUpdate: an account counts once. *)
NeedsUpdateOnce(pk) == pk \in DOMAIN EdgesPerPk /\ pk \notin received_account

NeedsUpdate(pk) ==   \* do_update
    \/ pk \in DOMAIN EdgesPerPk
    \/ /\ Subscription.mode \in {"Accounts", "Mixed"}
       /\ pk \in Subscription.accounts
    \/ /\ Subscription.mode \in {"Programs", "Mixed"}
       /\ pk \in Subscription.programs \/ Owner[pk] \in Subscription.programs
    \/ /\ Subscription.mode = "Mixed"
       /\ pk \in Subscription.token_accounts_for_owner

IsReady(received, programs, tokens) ==
    CASE Subscription.mode = "Accounts" -> Subscription.accounts \subseteq received
      [] Subscription.mode = "Programs" -> Subscription.programs \subseteq programs
      [] Subscription.mode = "Mixed" ->
            /\ Subscription.accounts \subseteq received
            /\ Subscription.programs \subseteq programs
            /\ tokens \/ Subscription.token_accounts_for_owner = {}

(* check_readiness and on_ready, given the new contents of the three sets. *)
CheckReadiness(received, programs, tokens) ==
    LET ready == is_ready \/ IsReady(received, programs, tokens)
    IN /\ received_account' = received
       /\ dirty_programs' = programs
       /\ dirty_token_accounts_for_owners' = tokens
       /\ is_ready' = ready
       /\ ready_sent' = (ready_sent \/ ready)
       /\ registered_mints' = IF ready THEN {InputMint[e] : e \in Edges} \union
                                            {OutputMint[e] : e \in Edges}
                                       ELSE registered_mints

MarkDirty(es, instance) ==
    /\ dirty_edges' = [e \in Edges |-> IF e \in es THEN instance[e] ELSE dirty_edges[e]]
    /\ last_dirty'  = [e \in Edges |-> IF e \in es THEN instance[e] ELSE last_dirty[e]]

(* Variant of LaterSlot: the slot received last counts. *)
LastSlot(pending, s) == s

LaterSlot(pending, s) == IF pending < s THEN s ELSE pending

(* invalidate_one(Ok(..)) *)
RecvAccountUpdate ==
    LET msg == Head(account_updates) pk == Head(account_updates).pk
        edges == IF pk \in DOMAIN EdgesPerPk THEN Listed(pk) ELSE {}
    IN /\ pc = "select" /\ account_updates # <<>> /\ ~account_lagged
       /\ account_updates' = Tail(account_updates)
       /\ missed' = missed \ {pk}
       /\ \/ /\ NeedsUpdate(pk)
             /\ MarkDirty(edges, [e \in Edges |-> pk])
             /\ latest_slot_pending' = LaterSlot(latest_slot_pending, msg.slot)
             /\ CheckReadiness(received_account \union {pk}, dirty_programs,
                               dirty_token_accounts_for_owners)
          \/ /\ ~NeedsUpdate(pk)
             /\ UNCHANGED <<dirtyVars, latest_slot_pending, readyVars>>
       /\ UNCHANGED <<chain, account_lagged, priceVars, clockVars, slot_received,
                      latest_slot_processed, slot_excessive_lagging_since, slot_in_time,
                      ctlVars, edge_state, routed>>

(* invalidate_one(Err(Lagged)) *)
RecvLagged ==
    /\ pc = "select" /\ account_lagged
    /\ account_lagged' = FALSE
    /\ UNCHANGED <<chain, account_updates, missed, priceVars, clockVars, readyVars,
                   dirtyVars, slotVars, ctlVars, edge_state, routed>>

(* on_metadata_update: a subscribed account does not exist, or the snapshot of
   a program (or of the owners' token accounts) has been sent. *)
RecvInvalidAccount(pk) ==
    /\ pc = "select" /\ pk \in Subscription.accounts
    /\ CheckReadiness(received_account \union {pk}, dirty_programs,
                      dirty_token_accounts_for_owners)
    /\ UNCHANGED <<sourceVars, priceVars, clockVars, dirtyVars, slotVars,
                   ctlVars, edge_state, routed>>

RecvSnapshotEnd(programs, tokens) ==
    /\ pc = "select"
    /\ CheckReadiness(received_account, dirty_programs \union programs,
                      dirty_token_accounts_for_owners \/ tokens)
    /\ UNCHANGED <<sourceVars, priceVars, clockVars, dirtyVars, slotVars,
                   ctlVars, edge_state, routed>>

(* A price update dirties the instances of edges_per_mint, that is of
   Dex::edges(). *)
RecvPriceUpdate ==
    LET mint == Head(price_to_updater).mint
    IN /\ pc = "select" /\ price_to_updater # <<>>
       /\ price_to_updater' = Tail(price_to_updater)
       /\ MarkDirty({e \in Edges : mint \in {InputMint[e], OutputMint[e]}},
                    routed)
       /\ UNCHANGED <<sourceVars, price_cache, price_to_cache, published, clockVars, readyVars,
                      slotVars, ctlVars, edge_state, routed>>

(* detect_and_handle_slot_lag: slots arrive in order, some may be skipped. *)
RecvSlot(s) ==
    LET lag == s - latest_slot_processed
        lagging == latest_slot_processed # 0 /\ lag > 0
    IN /\ pc = "select" /\ slot_received < s /\ s <= slot
       /\ slot_received' = s
       /\ slot_in_time' = IF lag < MaxLag THEN now ELSE slot_in_time
       /\ \/ /\ ~lagging
             /\ UNCHANGED <<pc, slot_excessive_lagging_since>>
          \/ /\ lagging /\ lag >= MaxLag /\ slot_excessive_lagging_since = None
             /\ slot_excessive_lagging_since' = now /\ UNCHANGED pc
          \/ /\ lagging /\ lag >= MaxLag /\ slot_excessive_lagging_since # None
             /\ pc' = IF now - slot_excessive_lagging_since > MaxLagDuration
                      THEN "panicked" ELSE pc
             /\ UNCHANGED slot_excessive_lagging_since
          \/ /\ lagging /\ lag < MaxLag
             /\ slot_excessive_lagging_since' = None /\ UNCHANGED pc
       /\ UNCHANGED <<sourceVars, priceVars, clockVars, readyVars, dirtyVars,
                      latest_slot_pending, latest_slot_processed, refreshed, reading,
                      edge_state, routed>>

(* Variant of LoopExit: nothing is sent at the end. *)
LoopExitSilent(reason) ==
    /\ pc = "select"
    /\ reason = "timeout" => ~is_ready /\ InitTimeout < now
    /\ pc' = "exited"
    /\ UNCHANGED <<sourceVars, priceVars, clockVars, readyVars,
                   dirtyVars, slotVars, refreshed, reading, edge_state, routed>>

(* The select loop ends (exit signal, account channel closed, or not ready in
   time) and unblocks the ready watcher. *)
LoopExit(reason) ==
    /\ pc = "select"
    /\ reason = "timeout" => ~is_ready /\ InitTimeout < now
    /\ pc' = "exited" /\ ready_sent' = TRUE
    /\ UNCHANGED <<sourceVars, priceVars, clockVars, is_ready, registered_mints,
                   received_account, dirty_programs, dirty_token_accounts_for_owners,
                   dirtyVars, slotVars, refreshed, reading, edge_state, routed>>

-----------------------------------------------------------------------------
(* Variant of RefreshStart: refresh only once per slot. *)
RefreshStartOncePerSlot ==
    /\ pc = "select" /\ is_ready
    /\ \E e \in Edges : dirty_edges[e] # None
    /\ latest_slot_processed < latest_slot_pending
    /\ pc' = "refresh"
    /\ UNCHANGED <<sourceVars, priceVars, clockVars, readyVars, dirtyVars, slotVars,
                   refreshed, reading, edge_state, routed>>

(* refresh_some: one Edge::update after the other, in the map's order; after
   each of them the 100ms budget may be used up. *)
RefreshStart ==
    /\ pc = "select" /\ is_ready
    /\ \E e \in Edges : dirty_edges[e] # None
    /\ pc' = "refresh"
    /\ UNCHANGED <<sourceVars, priceVars, clockVars, readyVars, dirtyVars, slotVars,
                   refreshed, reading, edge_state, routed>>

Dirty(e) == dirty_edges[e] # None /\ e \notin refreshed
Instance(e) == <<dirty_edges[e], e>>

(* Edge::update up to its early returns, or up to the first quote. *)
UpdateWithoutQuote(e) ==
    LET mint == InputMint[e]
    IN /\ pc = "refresh" /\ Dirty(e)
       /\ \/ /\ mint \notin Decimals \/ price_cache[mint] = None
             /\ edge_state' = [edge_state EXCEPT ![Instance(e)] = Disable(@)]
          \/ /\ mint \in Decimals /\ price_cache[mint] = "tiny"
             /\ edge_state' = [edge_state EXCEPT ![Instance(e)] = AmountOverflow(@)]
       /\ refreshed' = refreshed \union {e}
       /\ UNCHANGED <<sourceVars, priceVars, clockVars, readyVars, dirtyVars, slotVars,
                      pc, reading, routed>>

BeginQuote(e) ==
    /\ pc = "refresh" /\ Dirty(e)
    /\ InputMint[e] \in Decimals /\ price_cache[InputMint[e]] = "ok"
    /\ pc' = "quoting" /\ reading' = [edge |-> e, from |-> chain]
    /\ UNCHANGED <<sourceVars, priceVars, clockVars, readyVars, dirtyVars, slotVars,
                   refreshed, edge_state, routed>>

(* prepare and quote read one account after the other while the chain-data job
   goes on writing: each version lies between the first and the last moment. *)
StoreQuote(quotes, data) ==
    LET e == reading.edge
    IN /\ pc = "quoting"
       /\ \A pk \in Pubkeys : reading.from[pk] <= data[pk] /\ data[pk] <= chain[pk]
       /\ edge_state' = [edge_state EXCEPT ![Instance(e)] =
                             StoreQuotes(@, now, quotes, data)]
       /\ refreshed' = refreshed \union {e}
       /\ pc' = "refresh" /\ reading' = None
       /\ UNCHANGED <<sourceVars, priceVars, clockVars, readyVars, dirtyVars, slotVars,
                      routed>>

(* Variant of RefreshEnd: all dirty edges are forgotten. *)
RefreshEndForgets ==
    /\ pc = "refresh" /\ refreshed # {}
    /\ dirty_edges' = [e \in Edges |-> None]
    /\ latest_slot_processed' = latest_slot_pending
    /\ pc' = "select" /\ refreshed' = {}
    /\ UNCHANGED <<sourceVars, priceVars, clockVars, readyVars, last_dirty,
                   latest_slot_pending, slot_excessive_lagging_since, slot_received,
                   slot_in_time, reading, edge_state, routed>>

RefreshEnd ==
    /\ pc = "refresh" /\ refreshed # {}
    /\ dirty_edges' = [e \in Edges |-> IF e \in refreshed THEN None ELSE dirty_edges[e]]
    /\ latest_slot_processed' = latest_slot_pending
    /\ pc' = "select" /\ refreshed' = {}
    /\ UNCHANGED <<sourceVars, priceVars, clockVars, readyVars, last_dirty,
                   latest_slot_pending, slot_excessive_lagging_since, slot_received,
                   slot_in_time, reading, edge_state, routed>>

-----------------------------------------------------------------------------
(* tx_watcher::handle_tx: the edges found through the transaction's accounts,
   in order, one per description. *)
Position(accounts) ==
    UNION {{i} \X DOMAIN EdgesPerPk[accounts[i]] :
             i \in {k \in 1 .. Len(accounts) : accounts[k] \in DOMAIN EdgesPerPk}}
EdgeAt(accounts, p) == EdgesPerPk[accounts[p[1]]][p[2]]
Before(p, q) == p[1] < q[1] \/ (p[1] = q[1] /\ p[2] < q[2])
Impacted(accounts) ==
    {<<accounts[p[1]], EdgeAt(accounts, p)>> :
        p \in {q \in Position(accounts) :
                 \A r \in Position(accounts) :
                    Before(r, q) => Desc[EdgeAt(accounts, r)] # Desc[EdgeAt(accounts, q)]}}

Cooled(instances, duration) ==
    /\ \A i \in instances : edge_state[i].cooldown_event < MaxCooldowns
    /\ edge_state' = [i \in Instances |->
                        IF i \in instances THEN AddCooldown(edge_state[i], now, duration)
                                           ELSE edge_state[i]]

HandleTx(accounts, is_success, number_of_ix) ==
    /\ \/ /\ is_success
          /\ edge_state' = [i \in Instances |->
                              IF i \in Impacted(accounts) THEN ResetCooldown(edge_state[i])
                                                          ELSE edge_state[i]]
       \/ /\ ~is_success
          /\ Cooled(Impacted(accounts),
                    IF number_of_ix > 1 THEN CooldownMultihop ELSE CooldownSinglehop)
    /\ UNCHANGED <<sourceVars, priceVars, clockVars, readyVars, dirtyVars, slotVars,
                   ctlVars, routed>>

(* find_best_route cools an edge of the path it just found unusable. *)
RouterCooldown(e) ==
    /\ Cooled({<<routed[e], e>>}, CooldownRouting)
    /\ UNCHANGED <<sourceVars, priceVars, clockVars, readyVars, dirtyVars, slotVars,
                   ctlVars, routed>>

-----------------------------------------------------------------------------
(* main: once a job has ended the process exits. *)
Stopped == pc \in {"exited", "panicked"} /\ UNCHANGED vars

Environment ==
    \/ Tick \/ NextSlot
    \/ \E pk \in Pubkeys, s \in {slot - 1, slot} \ {0} : AccountWrite(pk, s)
    \/ \E mp \in FeedPrices : PublishPrice(mp[1], mp[2])
    \/ \E a \in TxAccounts, ok \in BOOLEAN, n \in {1, 2} : HandleTx(a, ok, n)
    \/ \E e \in Edges : RouterCooldown(e)

Receive ==
    \/ RecvAccountUpdate \/ RecvLagged \/ RecvPriceUpdate
    \/ \E pk \in Pubkeys : RecvInvalidAccount(pk)
    \/ \E p \in Subscription.programs : RecvSnapshotEnd({p}, FALSE)
    \/ Subscription.token_accounts_for_owner # {} /\ RecvSnapshotEnd({}, TRUE)
    \/ \E s \in 1 .. slot : RecvSlot(s)

Refresh ==
    \/ RefreshStart \/ RefreshEnd
    \/ \E e \in Edges : UpdateWithoutQuote(e) \/ BeginQuote(e)
    \/ \E quotes \in [Amount -> QuoteResult] :
         \E data \in [Pubkeys -> 0 .. MaxWrites] : StoreQuote(quotes, data)

Next ==
    \/ Environment /\ pc \notin {"exited", "panicked"}
    \/ PriceCacheInsert /\ pc \notin {"exited", "panicked"}
    \/ Receive \/ Refresh
    \/ \E reason \in {"exit", "timeout", "closed"} : LoopExit(reason)
    \/ Stopped

Spec == Init /\ [][Next]_vars

-----------------------------------------------------------------------------
(* Every variable has its type; the channel respects its capacity. *)
TypeOK ==
    /\ chain \in Versions
    /\ account_updates \in Seq(Message) /\ Len(account_updates) <= ChannelCap
    /\ account_lagged \in BOOLEAN /\ missed \subseteq Pubkeys
    /\ price_cache \in [Mints -> {"ok", "tiny", None}]
    /\ price_to_cache \in Seq(PriceMsg) /\ price_to_updater \in Seq(PriceMsg)
    /\ published \in Nat
    /\ registered_mints \subseteq Mints
    /\ now \in Nat /\ slot \in Nat \ {0} /\ slot_received \in Nat /\ slot_in_time \in Nat
    /\ edge_state \in [Instances -> EdgeState(Versions)]
    /\ routed \in [Edges -> Pubkeys] /\ \A e \in Edges : routed[e] \in Listing(e)
    /\ pc \in {"select", "refresh", "quoting", "exited", "panicked"}
    /\ refreshed \subseteq Edges
    /\ reading \in [edge : Edges, from : Versions] \union {None}
    /\ pc = "quoting" => reading \in [edge : Edges, from : Versions]
    /\ is_ready \in BOOLEAN /\ ready_sent \in BOOLEAN
    /\ received_account \subseteq Pubkeys /\ dirty_programs \subseteq Programs
    /\ dirty_token_accounts_for_owners \in BOOLEAN
    /\ dirty_edges \in [Edges -> Pubkeys \union {None}]
    /\ \A e \in Edges : dirty_edges[e] # None => dirty_edges[e] \in Listing(e)
    /\ last_dirty \in [Edges -> Pubkeys \union {None}]
    /\ latest_slot_pending \in Nat /\ latest_slot_processed \in Nat
    /\ slot_excessive_lagging_since \in Nat \union {None}

(* update_internal / cached_price_for / cached_price_exact_out_for: an edge the
   router may use has a price for every warming amount, so a lookup returns the
   price of the amount asked for, positional access to cached_prices
   (select_best_pools) stays in range and last().unwrap() cannot panic. *)
ValidEdgeHasEveryPrice ==
    \A i \in Instances :
        LET st == edge_state[i]
        IN /\ st.is_valid => DOMAIN st.cached_prices = Amount /\ Amount # {}
           /\ ~ExactOutPanics(st)
           /\ IsValid(st) =>
                \A a \in 1 .. NWarm + 1 :
                    CachedPriceFor(st, a) = IF a <= NWarm THEN a ELSE NWarm

Notified(pk) == \E i \in 1 .. Len(account_updates) : account_updates[i].pk = pk
Scheduled(e) ==
    \/ dirty_edges[e] # None
    \/ \E pk \in Listing(e) : Notified(pk) \/ pk \in missed
Stale(st, e) == \E pk \in Listing(e) : st.priced_at[pk] # chain[pk]

(* invalidate_one and refresh_some: the instance last marked dirty never keeps a
   valid price computed from superseded account data without a refresh being
   due, unless the broadcast channel dropped the notification.  Account writes,
   notifications, readiness, the budget of refresh_some and torn reads
   interleave. *)
LatestInstanceTracksChain ==
    \A e \in Edges :
        LET st == edge_state[<<last_dirty[e], e>>]
        IN last_dirty[e] # None /\ st.is_valid /\ Stale(st, e) => Scheduled(e)

(* The same for the instance the router reads (Dex::edges()). *)
RoutedEdgeTracksChain ==
    \A e \in Edges :
        LET st == edge_state[<<routed[e], e>>]
        IN st.is_valid /\ Stale(st, e) => Scheduled(e)

CooldownKept(i) ==
    LET old == edge_state[i].cooldown_until
        new == edge_state'[i].cooldown_until
    IN old # None =>
         \/ new # None /\ new >= old
         \/ new = None /\ old < now
         \/ \E a \in TxAccounts, n \in {1, 2} : HandleTx(a, TRUE, n)

(* add_cooldown / update_internal / reset_cooldown: a cooldown is never
   shortened, and it ends before its time only through a successful swap. *)
CooldownNeverCutShort == [][\A i \in Instances : CooldownKept(i)]_vars

(* detect_and_handle_slot_lag: "Lagging a lot .. for more than ..s": when the
   updater gives up, the lag has been excessive ever since. *)
PanicMeansSustainedLag ==
    pc = "panicked" => slot_in_time <= slot_excessive_lagging_since

(* invalidate_one / refresh_some: whatever order the slots of the writes come
   in, the slot the lag is measured from never moves back, nor beyond what has
   been received. *)
SlotProgress ==
    [][/\ latest_slot_pending <= latest_slot_pending'
       /\ latest_slot_processed <= latest_slot_processed'
       /\ latest_slot_processed' <= latest_slot_pending']_vars

(* Fairness: the tasks run, and time goes on. Nothing is assumed of the
   outside world. *)
Fairness ==
    /\ WF_vars(Tick)
    /\ WF_vars(LoopExit("timeout"))
    /\ WF_vars(RecvAccountUpdate \/ RecvLagged \/ RecvPriceUpdate)
    /\ WF_vars(Refresh)

LiveSpec == Spec /\ Fairness

(* The updater always reports to the ready watcher, which waits for every dex
   in turn: ready, or given up. *)
EventuallyReported == <>ready_sent

(* A dirty edge of a ready dex is eventually re-quoted, if the process lives. *)
DirtyIsRefreshed ==
    \A e \in Edges :
        is_ready /\ dirty_edges[e] # None
           ~> dirty_edges[e] = None \/ pc \in {"exited", "panicked"}
=============================================================================
