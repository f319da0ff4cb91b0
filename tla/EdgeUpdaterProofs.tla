------------------------- MODULE EdgeUpdaterProofs -------------------------
(***************************************************************************)
(* Proofs about EdgeUpdater, for every dex, every capacity and every bound. *)
(***************************************************************************)
EXTENDS EdgeUpdater, TLAPS

(* What an operation of Edge returns is again an edge state. *)
LEMMA EdgeOpsType ==
    ASSUME NEW Data, NEW st \in EdgeState(Data)
    PROVE  /\ Disable(st) \in EdgeState(Data)
           /\ AmountOverflow(st) \in EdgeState(Data)
           /\ ResetCooldown(st) \in EdgeState(Data)
  <1>1. NoPrices \in CachedPrices
    BY DEF NoPrices, CachedPrices, Amount, Price
  <1>2. QED
    BY <1>1 DEF EdgeState, Disable, AmountOverflow, ResetCooldown

(* The end of update_internal gives an edge state again. *)
LEMMA StoreQuotesType ==
    ASSUME NEW Data, NEW st \in EdgeState(Data), NEW t \in Nat,
           NEW quotes \in [Amount -> QuoteResult], NEW data \in Data
    PROVE  StoreQuotes(st, t, quotes, data) \in EdgeState(Data)
  <1> DEFINE S == {j \in Amount : quotes[j] \in Price}
  <1>1. [i \in S |-> quotes[i]] \in CachedPrices
    <2>1. S \in SUBSET Amount /\ [i \in S |-> quotes[i]] \in [S -> Price]
      OBVIOUS
    <2>2. QED
      BY <2>1 DEF CachedPrices
  <1>2. QED
    BY <1>1 DEF EdgeState, StoreQuotes

(* So does add_cooldown, up to any number of events. *)
LEMMA AddCooldownType ==
    ASSUME NEW Data, NEW st \in EdgeState(Data), NEW t \in Nat, NEW d \in Nat
    PROVE  AddCooldown(st, t, d) \in EdgeState(Data)
  <1> DEFINE n == IF st.cooldown_event + 1 < 5 THEN st.cooldown_event + 1 ELSE 5
             until == t + d * CooldownFactor[n]
             u == IF st.cooldown_until # None /\ st.cooldown_until > until
                  THEN st.cooldown_until ELSE until
  <1>1. st.cooldown_event \in Nat /\ n \in 1 .. 5
    BY DEF EdgeState
  <1>2. CooldownFactor[n] \in Nat
    BY <1>1 DEF CooldownFactor
  <1>3. until \in Nat
    BY <1>2
  <1>4. u \in Nat \union {None}
    BY <1>3 DEF EdgeState
  <1>5. AddCooldown(st, t, d) =
          [st EXCEPT !.cooldown_event = st.cooldown_event + 1, !.cooldown_until = u]
    BY DEF AddCooldown
  <1>6. st.cooldown_event + 1 \in Nat
    BY <1>1
  <1> HIDE DEF n, until, u
  <1>7. ASSUME NEW ev \in Nat, NEW v \in Nat \union {None}
        PROVE  [st EXCEPT !.cooldown_event = ev, !.cooldown_until = v] \in EdgeState(Data)
    BY DEF EdgeState
  <1>8. QED
    BY <1>4, <1>5, <1>6, <1>7

-----------------------------------------------------------------------------
(* An entry of edges_per_pk is an instance. *)
LEMMA InstanceType ==
    ASSUME NEW e \in Edges, NEW pk \in Listing(e)
    PROVE  <<pk, e>> \in Instances
  BY DEF Listing, Listed, Instances

(* The accounts that list an edge are accounts. *)
LEMMA ListingType ==
    /\ \A e \in Edges : Listing(e) \subseteq Pubkeys
    /\ \A pk \in DOMAIN EdgesPerPk : Listed(pk) \subseteq Edges
    /\ \A pk \in DOMAIN EdgesPerPk : \A e \in Listed(pk) : pk \in Listing(e)
  BY UpdaterAssumption DEF Listing, Listed

(* The initial state has the types. *)
LEMMA InitTypeOK == Init => TypeOK
  <1> SUFFICES ASSUME Init PROVE TypeOK
    OBVIOUS
  <1>1. NoPrices \in CachedPrices
    BY DEF NoPrices, CachedPrices, Amount, Price
  <1>2. [pk \in Pubkeys |-> 0] \in Versions
    BY DEF Versions
  <1>3. edge_state \in [Instances -> EdgeState(Versions)]
    BY <1>1, <1>2 DEF Init, DefaultEdge, EdgeState
  <1>4. /\ account_updates \in Seq(Message) /\ Len(account_updates) <= ChannelCap
        /\ price_to_cache \in Seq(PriceMsg) /\ price_to_updater \in Seq(PriceMsg)
    BY UpdaterAssumption DEF Init
  <1>5. /\ dirty_edges \in [Edges -> Pubkeys \union {None}]
        /\ last_dirty \in [Edges -> Pubkeys \union {None}]
        /\ \A e \in Edges : dirty_edges[e] # None => dirty_edges[e] \in Listing(e)
        /\ price_cache \in [Mints -> {"ok", "tiny", None}]
    BY DEF Init
  <1>6. /\ account_lagged \in BOOLEAN /\ is_ready \in BOOLEAN /\ ready_sent \in BOOLEAN
        /\ dirty_token_accounts_for_owners \in BOOLEAN
    BY Zenon DEF Init
  <1>7. /\ chain \in Versions /\ missed \subseteq Pubkeys /\ published \in Nat
        /\ registered_mints \subseteq Mints
        /\ now \in Nat /\ slot \in Nat \ {0} /\ slot_received \in Nat /\ slot_in_time \in Nat
        /\ routed \in [Edges -> Pubkeys] /\ \A e \in Edges : routed[e] \in Listing(e)
        /\ pc \in {"select", "refresh", "quoting", "exited", "panicked"}
        /\ refreshed \subseteq Edges
        /\ reading \in [edge : Edges, from : Versions] \union {None}
        /\ pc = "quoting" => reading \in [edge : Edges, from : Versions]
        /\ received_account \subseteq Pubkeys /\ dirty_programs \subseteq Programs
        /\ latest_slot_pending \in Nat /\ latest_slot_processed \in Nat
        /\ slot_excessive_lagging_since \in Nat \union {None}
    BY <1>2 DEF Init
  <1>8. QED
    BY <1>3, <1>4, <1>5, <1>6, <1>7, Zenon DEF TypeOK

(* The other jobs (chain data, prices, transactions, routing) keep the types. *)
LEMMA EnvironmentTypeOK ==
    ASSUME TypeOK, Environment \/ PriceCacheInsert
    PROVE  TypeOK'
  <1> USE UpdaterAssumption, EdgeAssumption DEF TypeOK, vars, sourceVars, priceVars, clockVars,
          readyVars, dirtyVars, slotVars, ctlVars
  <1>1. CASE Tick
    BY <1>1 DEF Tick
  <1>2. CASE NextSlot
    BY <1>2 DEF NextSlot
  <1>3. ASSUME NEW pk \in Pubkeys, NEW s \in {slot - 1, slot} \ {0}, AccountWrite(pk, s)
        PROVE  TypeOK'
    <2>0. s \in Nat
      BY <1>3
    <2>1. chain' \in Versions
      BY <1>3 DEF AccountWrite, Versions
    <2>2. [pk |-> pk, slot |-> s] \in Message
      BY <2>0 DEF Message
    <2>3. account_updates' \in Seq(Message) /\ Len(account_updates') <= ChannelCap
      <3>1. CASE Len(account_updates) = ChannelCap
        <4>1. /\ Tail(account_updates) \in Seq(Message)
              /\ Len(Tail(account_updates)) = ChannelCap - 1
          BY <3>1
        <4>2. account_updates' = Append(Tail(account_updates), [pk |-> pk, slot |-> s])
          BY <1>3, <3>1 DEF AccountWrite
        <4>3. QED
          BY <4>1, <4>2, <2>2
      <3>2. CASE Len(account_updates) # ChannelCap
        <4>1. account_updates' = Append(account_updates, [pk |-> pk, slot |-> s])
          BY <1>3, <3>2 DEF AccountWrite
        <4>2. QED
          BY <3>2, <4>1, <2>2
      <3>3. QED
        BY <3>1, <3>2
    <2>4. missed' \subseteq Pubkeys
      <3>1. Len(account_updates) = ChannelCap => Head(account_updates) \in Message
        OBVIOUS
      <3>2. Len(account_updates) = ChannelCap => Head(account_updates).pk \in Pubkeys
        BY <3>1 DEF Message
      <3>3. QED
        BY <1>3, <3>2 DEF AccountWrite
    <2>5. account_lagged' \in BOOLEAN
      BY <1>3 DEF AccountWrite
    <2>6. QED
      BY <1>3, <2>1, <2>3, <2>4, <2>5 DEF AccountWrite
  <1>4. ASSUME NEW mp \in FeedPrices, PublishPrice(mp[1], mp[2])
        PROVE  TypeOK'
    <2>1. [mint |-> mp[1], price |-> mp[2]] \in PriceMsg
      BY DEF PriceMsg
    <2>2. QED
      <3>1. /\ price_to_cache' \in Seq(PriceMsg) /\ price_to_updater' \in Seq(PriceMsg)
            /\ published' \in Nat
        BY <1>4, <2>1 DEF PublishPrice
      <3>2. QED
        BY <1>4, <3>1 DEF PublishPrice
  <1>5. CASE PriceCacheInsert
    <2>1. Head(price_to_cache) \in PriceMsg
      BY <1>5 DEF PriceCacheInsert
    <2>2. price_cache' \in [Mints -> {"ok", "tiny", None}]
      BY <1>5, <2>1 DEF PriceCacheInsert, PriceMsg
    <2>3. QED
      BY <1>5, <2>2 DEF PriceCacheInsert
  <1>6. ASSUME NEW is, NEW d \in Nat, Cooled(is, d)
        PROVE  edge_state' \in [Instances -> EdgeState(Versions)]
    BY <1>6, AddCooldownType DEF Cooled
  <1>7. ASSUME NEW a \in TxAccounts, NEW ok \in BOOLEAN, NEW n \in {1, 2}, HandleTx(a, ok, n)
        PROVE  TypeOK'
    <2>1. edge_state' \in [Instances -> EdgeState(Versions)]
      <3>1. CASE ok
        <4>1. edge_state' = [i \in Instances |->
                 IF i \in Impacted(a) THEN ResetCooldown(edge_state[i]) ELSE edge_state[i]]
          BY <1>7, <3>1, Zenon DEF HandleTx
        <4>2. \A i \in Instances : ResetCooldown(edge_state[i]) \in EdgeState(Versions)
          BY EdgeOpsType
        <4>3. QED
          BY <4>1, <4>2
      <3>2. CASE ~ok
        <4>1. PICK d \in Nat : Cooled(Impacted(a), d)
          BY <1>7, <3>2 DEF HandleTx
        <4>2. QED
          BY <4>1, <1>6
      <3>3. QED
        BY <3>1, <3>2
    <2>2. QED
      BY <1>7, <2>1 DEF HandleTx
  <1>8. ASSUME NEW e \in Edges, RouterCooldown(e)
        PROVE  TypeOK'
    <2>1. edge_state' \in [Instances -> EdgeState(Versions)]
      BY <1>6, <1>8 DEF RouterCooldown
    <2>2. QED
      BY <1>8, <2>1 DEF RouterCooldown
  <1> HIDE DEF TypeOK
  <1>9. QED
    BY <1>1, <1>2, <1>3, <1>4, <1>5, <1>7, <1>8 DEF Environment
(* check_readiness keeps the types of what it touches. *)
LEMMA CheckReadinessType ==
    ASSUME TypeOK, NEW r \in SUBSET Pubkeys, NEW p \in SUBSET Programs, NEW t \in BOOLEAN,
           CheckReadiness(r, p, t)
    PROVE  /\ is_ready' \in BOOLEAN /\ ready_sent' \in BOOLEAN
           /\ registered_mints' \subseteq Mints
           /\ received_account' \subseteq Pubkeys /\ dirty_programs' \subseteq Programs
           /\ dirty_token_accounts_for_owners' \in BOOLEAN
  <1>1. /\ is_ready' \in BOOLEAN /\ ready_sent' \in BOOLEAN
        /\ dirty_token_accounts_for_owners' \in BOOLEAN
    BY Zenon DEF CheckReadiness, TypeOK
  <1>2. received_account' \subseteq Pubkeys /\ dirty_programs' \subseteq Programs
    BY DEF CheckReadiness
  <1>3. registered_mints' \subseteq Mints
    <2> DEFINE M == {InputMint[e] : e \in Edges} \union {OutputMint[e] : e \in Edges}
    <2>1. M \subseteq Mints
      BY UpdaterAssumption
    <2>2. registered_mints' = M \/ registered_mints' = registered_mints
      BY Zenon DEF CheckReadiness
    <2>3. QED
      BY <2>1, <2>2 DEF TypeOK
  <1>4. QED
    BY <1>1, <1>2, <1>3

(* The oldest notification of a non-empty channel is a message, and the rest a channel. *)
LEMMA HeadMessage ==
    ASSUME TypeOK, account_updates # <<>>
    PROVE  /\ Head(account_updates) \in Message
           /\ Head(account_updates).pk \in Pubkeys /\ Head(account_updates).slot \in Nat
           /\ Tail(account_updates) \in Seq(Message)
           /\ Len(Tail(account_updates)) <= ChannelCap
  <1>1. /\ Head(account_updates) \in Message
        /\ Tail(account_updates) \in Seq(Message)
        /\ Len(Tail(account_updates)) <= ChannelCap
    BY UpdaterAssumption DEF TypeOK
  <1>2. QED
    BY <1>1 DEF Message

(* The receiving branches of the select loop keep the types. *)
LEMMA ReceiveTypeOK ==
    ASSUME TypeOK, Receive
    PROVE  TypeOK'
  <1> USE UpdaterAssumption, EdgeAssumption DEF vars, sourceVars, priceVars, clockVars,
          readyVars, dirtyVars, slotVars, ctlVars
  <1>1. CASE RecvAccountUpdate
    <2> DEFINE pk == Head(account_updates).pk
               es == IF pk \in DOMAIN EdgesPerPk THEN Listed(pk) ELSE {}
    <2>1. /\ account_updates' = Tail(account_updates) /\ missed' = missed \ {pk}
          /\ account_updates # <<>>
      BY <1>1 DEF RecvAccountUpdate
    <2>2. /\ account_updates' \in Seq(Message) /\ Len(account_updates') <= ChannelCap
          /\ missed' \subseteq Pubkeys /\ pk \in Pubkeys /\ Head(account_updates).slot \in Nat
      BY <2>1, HeadMessage DEF TypeOK
    <2>3. CASE NeedsUpdate(pk)
      <3>1. /\ MarkDirty(es, [e \in Edges |-> pk])
            /\ CheckReadiness(received_account \union {pk}, dirty_programs,
                               dirty_token_accounts_for_owners)
            /\ latest_slot_pending' = IF latest_slot_pending < Head(account_updates).slot
                  THEN Head(account_updates).slot ELSE latest_slot_pending
        BY <1>1, <2>3, Zenon DEF RecvAccountUpdate, LaterSlot
      <3>2. /\ dirty_edges' \in [Edges -> Pubkeys \union {None}]
            /\ \A e \in Edges : dirty_edges'[e] # None => dirty_edges'[e] \in Listing(e)
            /\ last_dirty' \in [Edges -> Pubkeys \union {None}]
        BY <3>1, <2>2, ListingType DEF MarkDirty, TypeOK
      <3>3. /\ is_ready' \in BOOLEAN /\ ready_sent' \in BOOLEAN
            /\ registered_mints' \subseteq Mints
            /\ received_account' \subseteq Pubkeys /\ dirty_programs' \subseteq Programs
            /\ dirty_token_accounts_for_owners' \in BOOLEAN
        <4> DEFINE r == received_account \union {pk}
        <4>1. /\ r \in SUBSET Pubkeys /\ dirty_programs \in SUBSET Programs
              /\ dirty_token_accounts_for_owners \in BOOLEAN
          BY <2>2 DEF TypeOK
        <4>2. CheckReadiness(r, dirty_programs, dirty_token_accounts_for_owners)
          BY <3>1
        <4> HIDE DEF r, pk, es
        <4>3. QED
          BY ONLY <4>1, <4>2, TypeOK, CheckReadinessType
      <3>4. latest_slot_pending' \in Nat
        BY <3>1, <2>2 DEF TypeOK
      <3>5. QED
        BY <1>1, <2>2, <3>2, <3>3, <3>4 DEF RecvAccountUpdate, TypeOK
    <2>4. CASE ~NeedsUpdate(pk)
      <3>1. UNCHANGED <<dirtyVars, latest_slot_pending, readyVars>>
        BY <1>1, <2>4, Zenon DEF RecvAccountUpdate
      <3>2. QED
        BY <1>1, <2>2, <3>1 DEF RecvAccountUpdate, TypeOK
    <2>5. QED
      BY <2>3, <2>4
  <1>2. CASE RecvLagged
    BY <1>2 DEF RecvLagged, TypeOK
  <1>3. CASE RecvPriceUpdate
    <2> DEFINE mint == Head(price_to_updater).mint
               es == {e \in Edges : mint \in {InputMint[e], OutputMint[e]}}
    <2>1. MarkDirty(es, routed) /\ price_to_updater' \in Seq(PriceMsg)
      BY <1>3 DEF RecvPriceUpdate, TypeOK
    <2>2. /\ dirty_edges' \in [Edges -> Pubkeys \union {None}]
          /\ \A e \in Edges : dirty_edges'[e] # None => dirty_edges'[e] \in Listing(e)
          /\ last_dirty' \in [Edges -> Pubkeys \union {None}]
      BY <2>1 DEF MarkDirty, TypeOK
    <2>3. QED
      BY <1>3, <2>1, <2>2 DEF RecvPriceUpdate, TypeOK
  <1>4. ASSUME NEW pk \in Pubkeys, RecvInvalidAccount(pk) PROVE TypeOK'
    <2>1. CheckReadiness(received_account \union {pk}, dirty_programs,
                         dirty_token_accounts_for_owners)
      BY <1>4 DEF RecvInvalidAccount
    <2>2. /\ is_ready' \in BOOLEAN /\ ready_sent' \in BOOLEAN
          /\ registered_mints' \subseteq Mints
          /\ received_account' \subseteq Pubkeys /\ dirty_programs' \subseteq Programs
          /\ dirty_token_accounts_for_owners' \in BOOLEAN
      <3>1. /\ (received_account \union {pk}) \in SUBSET Pubkeys
            /\ dirty_programs \in SUBSET Programs
            /\ dirty_token_accounts_for_owners \in BOOLEAN
        BY DEF TypeOK
      <3>2. QED
        BY ONLY <2>1, <3>1, TypeOK, CheckReadinessType
    <2>3. QED
      BY <1>4, <2>2 DEF RecvInvalidAccount, TypeOK
  <1>5. ASSUME NEW p \in SUBSET Programs, NEW t \in BOOLEAN, RecvSnapshotEnd(p, t)
        PROVE  TypeOK'
    <2>1. CheckReadiness(received_account, dirty_programs \union p,
                         dirty_token_accounts_for_owners \/ t)
      BY <1>5 DEF RecvSnapshotEnd
    <2>2. (dirty_token_accounts_for_owners \/ t) \in BOOLEAN
      BY Zenon
    <2>3. /\ is_ready' \in BOOLEAN /\ ready_sent' \in BOOLEAN
          /\ registered_mints' \subseteq Mints
          /\ received_account' \subseteq Pubkeys /\ dirty_programs' \subseteq Programs
          /\ dirty_token_accounts_for_owners' \in BOOLEAN
      BY <2>1, <2>2, CheckReadinessType DEF TypeOK
    <2>4. QED
      BY <1>5, <2>3 DEF RecvSnapshotEnd, TypeOK
  <1>6. ASSUME NEW s \in 1 .. slot, RecvSlot(s) PROVE TypeOK'
    <2>1. /\ slot_received' \in Nat /\ slot_in_time' \in Nat
          /\ slot_excessive_lagging_since' \in Nat \union {None}
          /\ pc' \in {"select", "panicked"}
      BY <1>6 DEF RecvSlot, TypeOK
    <2>2. QED
      BY <1>6, <2>1 DEF RecvSlot, TypeOK
  <1>7. QED
    BY <1>1, <1>2, <1>3, <1>4, <1>5, <1>6 DEF Receive

(* The steps of refresh_some keep the types. *)
LEMMA RefreshTypeOK ==
    ASSUME TypeOK, Refresh
    PROVE  TypeOK'
  <1> USE UpdaterAssumption, EdgeAssumption DEF vars, sourceVars, priceVars, clockVars,
          readyVars, dirtyVars, slotVars, ctlVars
  <1>1. CASE RefreshStart
    BY <1>1 DEF RefreshStart, TypeOK
  <1>2. CASE RefreshEnd
    <2>1. /\ dirty_edges' \in [Edges -> Pubkeys \union {None}]
          /\ \A e \in Edges : dirty_edges'[e] # None => dirty_edges'[e] \in Listing(e)
      BY <1>2 DEF RefreshEnd, TypeOK
    <2>2. QED
      BY <1>2, <2>1 DEF RefreshEnd, TypeOK
  <1>3. ASSUME NEW e \in Edges, UpdateWithoutQuote(e) PROVE TypeOK'
    <2>1. \/ edge_state' = [edge_state EXCEPT ![Instance(e)] = Disable(@)]
          \/ edge_state' = [edge_state EXCEPT ![Instance(e)] = AmountOverflow(@)]
      BY <1>3 DEF UpdateWithoutQuote
    <2>2. \A i \in Instances : /\ Disable(edge_state[i]) \in EdgeState(Versions)
                               /\ AmountOverflow(edge_state[i]) \in EdgeState(Versions)
      BY EdgeOpsType DEF TypeOK
    <2>3. edge_state \in [Instances -> EdgeState(Versions)]
      BY DEF TypeOK
    <2>4. edge_state' \in [Instances -> EdgeState(Versions)]
      BY <2>1, <2>2, <2>3
    <2>5. QED
      BY <1>3, <2>4 DEF UpdateWithoutQuote, TypeOK
  <1>4. ASSUME NEW e \in Edges, BeginQuote(e) PROVE TypeOK'
    <2>1. reading' \in [edge : Edges, from : Versions]
      BY <1>4 DEF BeginQuote, TypeOK
    <2>2. QED
      BY <1>4, <2>1 DEF BeginQuote, TypeOK
  <1>5. ASSUME NEW quotes \in [Amount -> QuoteResult], NEW data \in [Pubkeys -> 0 .. MaxWrites],
               StoreQuote(quotes, data)
        PROVE  TypeOK'
    <2>1. data \in Versions
      BY DEF Versions
    <2>2. \A i \in Instances :
             StoreQuotes(edge_state[i], now, quotes, data) \in EdgeState(Versions)
      BY <2>1, StoreQuotesType DEF TypeOK
    <2>3. edge_state' \in [Instances -> EdgeState(Versions)]
      BY <1>5, <2>2 DEF StoreQuote, TypeOK
    <2>4. reading.edge \in Edges
      BY <1>5 DEF StoreQuote, TypeOK
    <2>5. QED
      BY <1>5, <2>3, <2>4 DEF StoreQuote, TypeOK
  <1>6. QED
    BY <1>1, <1>2, <1>3, <1>4, <1>5 DEF Refresh
(* Type correctness: the types above hold in every reachable state. *)
THEOREM TypeCorrect == Spec => []TypeOK
  <1>1. Init => TypeOK
    BY InitTypeOK
  <1>2. TypeOK /\ [Next]_vars => TypeOK'
    <2> SUFFICES ASSUME TypeOK, [Next]_vars PROVE TypeOK'
      OBVIOUS
    <2>1. CASE Environment \/ PriceCacheInsert
      BY <2>1, EnvironmentTypeOK
    <2>2. CASE Receive
      BY <2>2, ReceiveTypeOK
    <2>3. CASE Refresh
      BY <2>3, RefreshTypeOK
    <2>4. ASSUME NEW reason, LoopExit(reason) PROVE TypeOK'
      BY <2>4 DEF LoopExit, TypeOK, sourceVars, priceVars, clockVars, dirtyVars, slotVars
    <2>5. CASE UNCHANGED vars
      BY <2>5 DEF vars, TypeOK, sourceVars, priceVars, clockVars, readyVars, dirtyVars,
                  slotVars, ctlVars
    <2>6. QED
      BY <2>1, <2>2, <2>3, <2>4, <2>5 DEF Next, Stopped
  <1>3. QED
    BY <1>1, <1>2, PTL DEF Spec
-----------------------------------------------------------------------------
(* All that a step can do to one edge instance. *)
EdgeStep(i) ==
    LET st == edge_state[i] new == edge_state'[i]
    IN \/ new = st
       \/ new = Disable(st)
       \/ new = AmountOverflow(st)
       \/ \E d \in Nat : new = AddCooldown(st, now, d)
       \/ /\ new = ResetCooldown(st)
          /\ \E a \in TxAccounts, n \in {1, 2} : HandleTx(a, TRUE, n)
       \/ \E q \in [Amount -> QuoteResult], data \in Versions :
             new = StoreQuotes(st, now, q, data)

(* What a cooldown does to an instance. *)
LEMMA CooledStep ==
    ASSUME TypeOK, NEW is, NEW d \in Nat, Cooled(is, d), NEW i \in Instances
    PROVE  EdgeStep(i)
  BY DEF Cooled, EdgeStep

(* Whatever the step, an instance is untouched or the result of one Edge operation. *)
LEMMA EdgeSteps ==
    ASSUME TypeOK, [Next]_vars, NEW i \in Instances
    PROVE  EdgeStep(i)
  <1>1. CASE UNCHANGED edge_state
    BY <1>1 DEF EdgeStep
  <1>2. ASSUME NEW a \in TxAccounts, NEW ok \in BOOLEAN, NEW n \in {1, 2}, HandleTx(a, ok, n)
        PROVE  EdgeStep(i)
    <2>1. CASE ok = TRUE
      <3>1. HandleTx(a, TRUE, n)
        BY <1>2, <2>1
      <3>2. edge_state' = [j \in Instances |->
               IF j \in Impacted(a) THEN ResetCooldown(edge_state[j]) ELSE edge_state[j]]
        BY <3>1, Zenon DEF HandleTx
      <3>3. edge_state'[i] = edge_state[i] \/ edge_state'[i] = ResetCooldown(edge_state[i])
        BY <3>2
      <3>4. QED
        BY <3>1, <3>3, Zenon DEF EdgeStep
    <2>2. CASE ok = FALSE
      <3>1. PICK d \in Nat : Cooled(Impacted(a), d)
        BY <1>2, <2>2, UpdaterAssumption DEF HandleTx
      <3>2. QED
        BY <3>1, CooledStep
    <2>3. QED
      BY <1>2, <2>1, <2>2
  <1>3. ASSUME NEW e \in Edges, RouterCooldown(e) PROVE EdgeStep(i)
    BY <1>3, CooledStep, UpdaterAssumption DEF RouterCooldown
  <1>4. ASSUME NEW e \in Edges, UpdateWithoutQuote(e) PROVE EdgeStep(i)
    <2>1. \/ edge_state' = [edge_state EXCEPT ![Instance(e)] = Disable(@)]
          \/ edge_state' = [edge_state EXCEPT ![Instance(e)] = AmountOverflow(@)]
      BY <1>4 DEF UpdateWithoutQuote
    <2>2. \/ edge_state'[i] = edge_state[i]
          \/ edge_state'[i] = Disable(edge_state[i])
          \/ edge_state'[i] = AmountOverflow(edge_state[i])
      BY <2>1 DEF TypeOK
    <2>3. QED
      BY <2>2 DEF EdgeStep
  <1>5. ASSUME NEW q \in [Amount -> QuoteResult], NEW data \in [Pubkeys -> 0 .. MaxWrites],
               StoreQuote(q, data)
        PROVE  EdgeStep(i)
    <2>1. data \in Versions
      BY UpdaterAssumption DEF Versions
    <2>2. \/ edge_state'[i] = edge_state[i]
          \/ edge_state'[i] = StoreQuotes(edge_state[i], now, q, data)
      BY <1>5 DEF StoreQuote, TypeOK
    <2>3. QED
      BY <2>1, <2>2 DEF EdgeStep
  <1>6. CASE PriceCacheInsert \/ Receive \/ (\E r \in {"exit", "timeout", "closed"} : LoopExit(r))
             \/ Tick \/ NextSlot \/ RefreshStart \/ RefreshEnd
             \/ (\E pk \in Pubkeys, s \in {slot - 1, slot} \ {0} : AccountWrite(pk, s))
             \/ (\E mp \in FeedPrices : PublishPrice(mp[1], mp[2]))
             \/ (\E e \in Edges : BeginQuote(e)) \/ UNCHANGED vars
    <2>1. UNCHANGED edge_state
      BY <1>6 DEF PriceCacheInsert, Receive, LoopExit, Tick, NextSlot, RefreshStart, RefreshEnd,
                  AccountWrite, PublishPrice, BeginQuote, vars, RecvAccountUpdate, RecvLagged,
                  RecvPriceUpdate, RecvInvalidAccount, RecvSnapshotEnd, RecvSlot
    <2>2. QED
      BY <1>1, <2>1
  <1>7. QED
    BY <1>2, <1>3, <1>4, <1>5, <1>6 DEF Next, Environment, Refresh, Stopped

-----------------------------------------------------------------------------
(* The part of ValidEdgeHasEveryPrice that is inductive by itself. *)
ValidInv ==
    \A i \in Instances :
        edge_state[i].is_valid => DOMAIN edge_state[i].cached_prices = Amount /\ Amount # {}

(* The invariant about valid edges is inductive, given the types. *)
LEMMA ValidInvStep == TypeOK /\ ValidInv /\ [Next]_vars => ValidInv'
  <1> SUFFICES ASSUME TypeOK, ValidInv, [Next]_vars, NEW i \in Instances,
                      edge_state'[i].is_valid
               PROVE  DOMAIN edge_state'[i].cached_prices = Amount /\ Amount # {}
    BY DEF ValidInv
  <1> DEFINE st == edge_state[i]
  <1>0. st \in EdgeState(Versions) /\ (st.is_valid => DOMAIN st.cached_prices = Amount /\ Amount # {})
    BY DEF TypeOK, ValidInv
  <1>1. EdgeStep(i)
    BY EdgeSteps
  <1>2. CASE edge_state'[i] = st \/ edge_state'[i] = ResetCooldown(st)
    BY <1>0, <1>2 DEF ResetCooldown, EdgeState
  <1>3. CASE edge_state'[i] = Disable(st) \/ edge_state'[i] = AmountOverflow(st)
    BY <1>0, <1>3 DEF Disable, AmountOverflow, EdgeState
  <1>4. ASSUME NEW d \in Nat, edge_state'[i] = AddCooldown(st, now, d)
        PROVE  DOMAIN edge_state'[i].cached_prices = Amount /\ Amount # {}
    <2>1. /\ edge_state'[i].cached_prices = st.cached_prices
          /\ edge_state'[i].is_valid = st.is_valid
      BY <1>0, <1>4 DEF AddCooldown, EdgeState
    <2>2. QED
      BY <1>0, <2>1
  <1>5. ASSUME NEW q \in [Amount -> QuoteResult], NEW data \in Versions,
               edge_state'[i] = StoreQuotes(st, now, q, data)
        PROVE  DOMAIN edge_state'[i].cached_prices = Amount /\ Amount # {}
    <2> DEFINE S == {j \in Amount : q[j] \in Price}
    <2>1. /\ edge_state'[i].cached_prices = [j \in S |-> q[j]]
          /\ edge_state'[i].is_valid = (/\ \A j \in Amount : q[j] \in Price
                                       /\ \E j \in Amount : q[j] = "ok")
      BY <1>0, <1>5 DEF StoreQuotes, EdgeState
    <2>2. S = Amount /\ Amount # {}
      BY <2>1
    <2>3. QED
      BY <2>1, <2>2
  <1>6. QED
    BY <1>1, <1>2, <1>3, <1>4, <1>5 DEF EdgeStep

(* cached_price_for on an edge that has every price. *)
LEMMA LookupWithEveryPrice ==
    ASSUME NEW st, IsValid(st), DOMAIN st.cached_prices = Amount, Amount # {},
           NEW a \in 1 .. NWarm + 1
    PROVE  CachedPriceFor(st, a) = IF a <= NWarm THEN a ELSE NWarm
  <1> DEFINE fits == {i \in Amount : i >= a}
  <1>0. NWarm \in Nat \ {0}
    BY EdgeAssumption DEF Amount
  <1>1. CASE a <= NWarm
    <2>1. a \in fits /\ \A j \in fits : a <= j
      BY <1>0, <1>1 DEF Amount
    <2>2. \A i \in fits : (\A j \in fits : i <= j) => i = a
      BY <1>0, <2>1 DEF Amount
    <2>3. (CHOOSE i \in fits : \A j \in fits : i <= j) = a
      BY <2>1, <2>2
    <2>4. fits # {}
      BY <2>1
    <2>5. QED
      BY <1>1, <2>3, <2>4 DEF CachedPriceFor
  <1>2. CASE a = NWarm + 1
    <2>1. fits = {}
      BY <1>0, <1>2 DEF Amount
    <2>2. NWarm \in Amount /\ \A j \in Amount : j <= NWarm
      BY <1>0 DEF Amount
    <2>3. \A i \in Amount : (\A j \in Amount : j <= i) => i = NWarm
      BY <1>0, <2>2 DEF Amount
    <2>4. (CHOOSE i \in Amount : \A j \in Amount : j <= i) = NWarm
      BY <2>2, <2>3
    <2>5. ~(a <= NWarm)
      BY <1>0, <1>2
    <2>6. QED
      BY <2>1, <2>4, <2>5 DEF CachedPriceFor
  <1>3. QED
    BY <1>0, <1>1, <1>2

(* It implies what the readers of cached_prices rely on. *)
LEMMA ValidInvSuffices == ValidInv => ValidEdgeHasEveryPrice
  <1> SUFFICES ASSUME ValidInv, NEW i \in Instances
               PROVE  LET st == edge_state[i]
                      IN /\ st.is_valid => DOMAIN st.cached_prices = Amount /\ Amount # {}
                         /\ ~ExactOutPanics(st)
                         /\ IsValid(st) =>
                              \A a \in 1 .. NWarm + 1 :
                                 CachedPriceFor(st, a) = IF a <= NWarm THEN a ELSE NWarm
    BY Zenon DEF ValidEdgeHasEveryPrice
  <1> DEFINE st == edge_state[i]
  <1>1. st.is_valid => DOMAIN st.cached_prices = Amount /\ Amount # {}
    BY DEF ValidInv
  <1>2. ~ExactOutPanics(st)
    BY <1>1 DEF ExactOutPanics, IsValid
  <1>3. IsValid(st) => \A a \in 1 .. NWarm + 1 :
                          CachedPriceFor(st, a) = IF a <= NWarm THEN a ELSE NWarm
    BY <1>1, LookupWithEveryPrice DEF IsValid
  <1>4. QED
    BY <1>1, <1>2, <1>3

(* An edge the router may use has a price for every warming amount: for every
   dex, price stream and interleaving of updates, lookups return the price of
   the amount asked for and the unwrap in cached_price_exact_out_for is safe. *)
THEOREM ValidEdges == Spec => []ValidEdgeHasEveryPrice
  <1>1. Init => ValidInv
    <2> SUFFICES ASSUME Init, NEW i \in Instances PROVE ~edge_state[i].is_valid
      BY DEF ValidInv
    <2>1. QED
      BY DEF Init, DefaultEdge
  <1>2. QED
    BY <1>1, ValidInvStep, ValidInvSuffices, TypeCorrect, PTL DEF Spec

-----------------------------------------------------------------------------
(* add_cooldown never brings the end of a cooldown nearer. *)
LEMMA AddCooldownExtends ==
    ASSUME NEW st \in EdgeState(Versions), NEW t \in Nat, NEW d \in Nat,
           st.cooldown_until # None
    PROVE  LET new == AddCooldown(st, t, d).cooldown_until
           IN new # None /\ new >= st.cooldown_until
  <1> DEFINE n == IF st.cooldown_event + 1 < 5 THEN st.cooldown_event + 1 ELSE 5
             until == t + d * CooldownFactor[n]
             new == IF st.cooldown_until > until THEN st.cooldown_until ELSE until
  <1>1. st.cooldown_event \in Nat /\ st.cooldown_until \in Nat
    BY DEF EdgeState
  <1>2. n \in 1 .. 5
    BY <1>1
  <1>3. CooldownFactor[n] \in Nat
    BY <1>2 DEF CooldownFactor
  <1>4. until \in Nat
    BY <1>3
  <1>5. AddCooldown(st, t, d).cooldown_until = new
    BY DEF AddCooldown, EdgeState
  <1> HIDE DEF n, until
  <1>6. new \in Nat /\ new >= st.cooldown_until
    BY <1>1, <1>4
  <1>7. QED
    BY <1>5, <1>6, EdgeAssumption

(* A cooldown is never shortened, and only expiry at a refresh or a successful
   swap ends it, whatever the number of cooldowns and their durations. *)
THEOREM Cooldowns == Spec => CooldownNeverCutShort
  <1>1. ASSUME TypeOK, [Next]_vars, NEW i \in Instances PROVE CooldownKept(i)
    <2> DEFINE st == edge_state[i]
    <2>0. st \in EdgeState(Versions) /\ now \in Nat
      BY <1>1 DEF TypeOK
    <2> SUFFICES ASSUME st.cooldown_until # None PROVE CooldownKept(i)
      BY Zenon DEF CooldownKept
    <2>1. st.cooldown_until \in Nat
      BY <2>0 DEF EdgeState
    <2>2. EdgeStep(i)
      BY <1>1, EdgeSteps
    <2>3. CASE edge_state'[i] = st \/ edge_state'[i] = Disable(st)
               \/ edge_state'[i] = AmountOverflow(st)
      <3>1. edge_state'[i].cooldown_until = st.cooldown_until
        BY <2>0, <2>3 DEF Disable, AmountOverflow, EdgeState
      <3>2. /\ edge_state'[i].cooldown_until # None
            /\ edge_state'[i].cooldown_until >= st.cooldown_until
        BY <2>1, <3>1
      <3>3. QED
        BY <3>2, Zenon DEF CooldownKept
    <2>4. ASSUME NEW d \in Nat, edge_state'[i] = AddCooldown(st, now, d) PROVE CooldownKept(i)
      BY <2>0, <2>4, AddCooldownExtends DEF CooldownKept
    <2>5. ASSUME NEW q \in [Amount -> QuoteResult], NEW data \in Versions,
                 edge_state'[i] = StoreQuotes(st, now, q, data)
          PROVE  CooldownKept(i)
      <3>1. edge_state'[i].cooldown_until =
               IF st.cooldown_until < now THEN None ELSE st.cooldown_until
        BY <2>0, <2>5 DEF StoreQuotes, EdgeState
      <3>2. \/ /\ edge_state'[i].cooldown_until # None
               /\ edge_state'[i].cooldown_until >= st.cooldown_until
            \/ edge_state'[i].cooldown_until = None /\ st.cooldown_until < now
        BY <2>0, <2>1, <3>1
      <3>3. QED
        BY <3>2, Zenon DEF CooldownKept
    <2>6. CASE \E a \in TxAccounts, n \in {1, 2} : HandleTx(a, TRUE, n)
      BY <2>6, Zenon DEF CooldownKept
    <2>7. QED
      BY <2>2, <2>3, <2>4, <2>5, <2>6 DEF EdgeStep
  <1>2. TypeOK /\ [Next]_vars => [\A i \in Instances : CooldownKept(i)]_vars
    BY <1>1
  <1>3. QED
    BY <1>2, TypeCorrect, PTL DEF Spec, CooldownNeverCutShort

-----------------------------------------------------------------------------
(* Freshness of the prices: the inductive invariant behind
   LatestInstanceTracksChain, and what follows for the instances the router reads
   when every edge is listed under one account only. *)
(* The updater will still hear of the account, or the channel dropped it. *)
Pending(pk) == Notified(pk) \/ pk \in missed

(* The instance last marked dirty is invalid, or priced from accounts that are
   current or pending. *)
Settled(e) ==
    LET st == edge_state[<<last_dirty[e], e>>]
    IN last_dirty[e] # None /\ st.is_valid =>
          \A pk \in Listing(e) : st.priced_at[pk] # chain[pk] => Pending(pk)

DirtyInv ==
    /\ pc = "select" => refreshed = {}
    /\ \A e \in Edges : last_dirty[e] # None => last_dirty[e] \in Listing(e)
    /\ \A e \in Edges : dirty_edges[e] # None => last_dirty[e] = dirty_edges[e]

PricedInv == \A i \in Instances : edge_state[i].is_valid => last_dirty[i[2]] # None

ReadingInv ==
    pc = "quoting" =>
       /\ dirty_edges[reading.edge] # None
       /\ \A pk \in Pubkeys : reading.from[pk] # chain[pk] => Pending(pk)

SettledInv == \A e \in Edges : dirty_edges[e] = None \/ e \in refreshed => Settled(e)

TrackInv == DirtyInv /\ PricedInv /\ ReadingInv /\ SettledInv

(* The step leaves the quotes of every instance alone. *)
SameQuotes ==
    \A i \in Instances : /\ edge_state'[i].is_valid = edge_state[i].is_valid
                         /\ edge_state'[i].priced_at = edge_state[i].priced_at

-----------------------------------------------------------------------------
(* add_cooldown and reset_cooldown leave validity and data of the prices alone. *)
LEMMA CooldownOpsKeepQuotes ==
    ASSUME NEW st \in EdgeState(Versions), NEW t, NEW d
    PROVE  /\ AddCooldown(st, t, d).is_valid = st.is_valid
           /\ AddCooldown(st, t, d).priced_at = st.priced_at
           /\ ResetCooldown(st).is_valid = st.is_valid
           /\ ResetCooldown(st).priced_at = st.priced_at
  BY DEF AddCooldown, ResetCooldown, EdgeState

(* A failed swap or routing failure changes no quote of any instance. *)
LEMMA CooledKeepsQuotes ==
    ASSUME TypeOK, NEW is, NEW d, Cooled(is, d)
    PROVE  SameQuotes
  <1> SUFFICES ASSUME NEW i \in Instances
               PROVE  /\ edge_state'[i].is_valid = edge_state[i].is_valid
                      /\ edge_state'[i].priced_at = edge_state[i].priced_at
    BY DEF SameQuotes
  <1>1. edge_state[i] \in EdgeState(Versions)
    BY DEF TypeOK
  <1>2. edge_state'[i] = edge_state[i] \/ edge_state'[i] = AddCooldown(edge_state[i], now, d)
    BY DEF Cooled
  <1>3. QED
    BY <1>1, <1>2, CooldownOpsKeepQuotes

(* A watched transaction changes no quote of any instance. *)
LEMMA HandleTxKeepsQuotes ==
    ASSUME TypeOK, NEW a, NEW ok, NEW n, HandleTx(a, ok, n)
    PROVE  SameQuotes
  <1>1. CASE edge_state' = [i \in Instances |->
               IF i \in Impacted(a) THEN ResetCooldown(edge_state[i]) ELSE edge_state[i]]
    <2> SUFFICES ASSUME NEW i \in Instances
                 PROVE  /\ edge_state'[i].is_valid = edge_state[i].is_valid
                        /\ edge_state'[i].priced_at = edge_state[i].priced_at
      BY DEF SameQuotes
    <2>1. edge_state[i] \in EdgeState(Versions)
      BY DEF TypeOK
    <2>2. edge_state'[i] = edge_state[i] \/ edge_state'[i] = ResetCooldown(edge_state[i])
      BY <1>1
    <2>3. QED
      BY <2>1, <2>2, CooldownOpsKeepQuotes
  <1>2. CASE \E d : Cooled(Impacted(a), d)
    BY <1>2, CooledKeepsQuotes
  <1>3. QED
    BY <1>1, <1>2, Zenon DEF HandleTx

(* A step that touches neither accounts, dirty edges nor quotes, and enters
   neither "select" nor "quoting". *)
LEMMA QuietStep ==
    ASSUME TypeOK, TrackInv, SameQuotes,
           UNCHANGED <<refreshed, reading, dirty_edges, last_dirty, chain,
                       account_updates, missed>>,
           pc' = pc \/ pc' \notin {"select", "quoting"}
    PROVE  TrackInv'
  <1>1. DirtyInv'
    BY DEF DirtyInv, TrackInv
  <1>2. PricedInv'
    BY DEF PricedInv, SameQuotes, TrackInv
  <1>3. \A pk : Pending(pk)' <=> Pending(pk)
    BY DEF Pending, Notified
  <1>4. ReadingInv'
    BY <1>3 DEF ReadingInv, TrackInv
  <1>5. ASSUME NEW e \in Edges, Settled(e) PROVE Settled(e)'
    <2>1. CASE last_dirty[e] = None
      BY <2>1 DEF Settled
    <2>2. CASE last_dirty[e] # None
      <3>1. <<last_dirty[e], e>> \in Instances
        BY <2>2, InstanceType DEF TrackInv, DirtyInv
      <3>2. QED
        BY <1>3, <1>5, <3>1 DEF Settled, SameQuotes
    <2>3. QED
      BY <2>1, <2>2
  <1>6. SettledInv'
    BY <1>5 DEF SettledInv, TrackInv
  <1>7. QED
    BY <1>1, <1>2, <1>4, <1>6 DEF TrackInv

-----------------------------------------------------------------------------
(* A write is pending afterwards, and nothing pending is forgotten: what falls
   out of a full channel is missed. *)
LEMMA WriteIsPending ==
    ASSUME TypeOK, NEW pk \in Pubkeys, NEW s \in Nat, AccountWrite(pk, s)
    PROVE  Pending(pk)' /\ \A q : Pending(q) => Pending(q)'
  <1> DEFINE m == [pk |-> pk, slot |-> s]
  <1>0. account_updates \in Seq(Message) /\ m \in Message /\ m.pk = pk
    BY DEF TypeOK, Message
  <1>1. CASE Len(account_updates) # ChannelCap
    <2>1. account_updates' = Append(account_updates, m) /\ missed' = missed
      BY <1>1 DEF AccountWrite
    <2>2. /\ Len(account_updates') = Len(account_updates) + 1
          /\ account_updates'[Len(account_updates) + 1] = m
          /\ \A i \in 1 .. Len(account_updates) : account_updates'[i] = account_updates[i]
      BY <1>0, <2>1
    <2>3. Notified(pk)'
      BY <1>0, <2>2 DEF Notified
    <2>4. \A q : Notified(q) => Notified(q)'
      BY <1>0, <2>2 DEF Notified
    <2>5. QED
      BY <2>1, <2>3, <2>4 DEF Pending
  <1>2. CASE Len(account_updates) = ChannelCap
    <2> DEFINE n == Len(account_updates)
    <2>0. n \in Nat \ {0}
      BY <1>2, UpdaterAssumption
    <2>1. /\ account_updates' = Append(Tail(account_updates), m)
          /\ missed' = missed \union {Head(account_updates).pk}
      BY <1>2 DEF AccountWrite
    <2>2. /\ Tail(account_updates) \in Seq(Message) /\ Len(Tail(account_updates)) = n - 1
          /\ \A i \in 1 .. n - 1 : Tail(account_updates)[i] = account_updates[i + 1]
          /\ Head(account_updates) = account_updates[1]
      BY <1>0, <2>0
    <2>3. /\ Len(account_updates') = n
          /\ account_updates'[n] = m
          /\ \A i \in 1 .. n - 1 : account_updates'[i] = account_updates[i + 1]
      BY <1>0, <2>0, <2>1, <2>2
    <2>4. Notified(pk)'
      BY <1>0, <2>0, <2>3 DEF Notified
    <2>5. ASSUME NEW q, Notified(q) PROVE Notified(q)' \/ q \in missed'
      <3>1. PICK i \in 1 .. n : account_updates[i].pk = q
        BY <2>5 DEF Notified
      <3>2. CASE i = 1
        BY <2>1, <2>2, <3>1, <3>2
      <3>3. CASE i # 1
        <4>1. i - 1 \in 1 .. n - 1 /\ i - 1 \in 1 .. n /\ (i - 1) + 1 = i
          BY <2>0, <3>3
        <4>2. account_updates'[i - 1].pk = q
          BY <2>3, <3>1, <4>1
        <4>3. QED
          BY <2>3, <4>1, <4>2 DEF Notified
      <3>4. QED
        BY <3>2, <3>3
    <2>6. QED
      BY <2>1, <2>4, <2>5 DEF Pending
  <1>3. QED
    BY <1>1, <1>2

(* A write of the chain-data job keeps the invariant: what it makes stale is pending. *)
LEMMA AccountWriteTracks ==
    ASSUME TypeOK, TrackInv, NEW pk \in Pubkeys, NEW s \in Nat, AccountWrite(pk, s)
    PROVE  TrackInv'
  <1> USE DEF sourceVars, priceVars, clockVars, readyVars, dirtyVars, slotVars, ctlVars
  <1>1. Pending(pk)' /\ \A q : Pending(q) => Pending(q)'
    BY WriteIsPending
  <1>2. /\ UNCHANGED <<pc, refreshed, reading, dirty_edges, last_dirty, edge_state>>
        /\ \A q \in Pubkeys : q # pk => chain'[q] = chain[q]
    BY DEF AccountWrite, TypeOK, Versions
  <1>3. DirtyInv' /\ PricedInv'
    BY <1>2 DEF TrackInv, DirtyInv, PricedInv
  <1>4. ReadingInv'
    BY <1>1, <1>2 DEF TrackInv, ReadingInv
  <1>5. ASSUME NEW e \in Edges, Settled(e) PROVE Settled(e)'
    BY <1>1, <1>2, <1>5, ListingType DEF Settled
  <1>6. SettledInv'
    BY <1>2, <1>5 DEF TrackInv, SettledInv
  <1>7. QED
    BY <1>3, <1>4, <1>6 DEF TrackInv

(* Marking edges dirty, when only the accounts of `gone` stop being pending and
   all edges listed under them are marked. *)
LEMMA MarkTracks ==
    ASSUME TypeOK, TrackInv, pc = "select",
           UNCHANGED <<pc, refreshed, reading, chain, edge_state>>,
           NEW es, NEW inst, NEW gone,
           \A e \in Edges : e \in es => inst[e] \in Listing(e),
           dirty_edges' = [e \in Edges |-> IF e \in es THEN inst[e] ELSE dirty_edges[e]],
           last_dirty'  = [e \in Edges |-> IF e \in es THEN inst[e] ELSE last_dirty[e]],
           \A q : q \notin gone /\ Pending(q) => Pending(q)',
           \A e \in Edges : (\E q \in Listing(e) : q \in gone) => e \in es
    PROVE  TrackInv'
  <1>0. \A e \in Edges : e \in es => inst[e] # None
    BY ListingType, UpdaterAssumption
  <1>1. DirtyInv'
    BY DEF TrackInv, DirtyInv, TypeOK
  <1>2. PricedInv'
    <2>1. \A i \in Instances : i[2] \in Edges
      BY DEF Instances
    <2>2. QED
      BY <1>0, <2>1 DEF TrackInv, PricedInv
  <1>3. ReadingInv'
    BY DEF ReadingInv
  <1>4. ASSUME NEW e \in Edges, dirty_edges'[e] = None PROVE Settled(e)'
    <2>1. e \notin es /\ dirty_edges[e] = None /\ last_dirty'[e] = last_dirty[e]
      BY <1>0, <1>4
    <2>2. Settled(e)
      BY <2>1 DEF TrackInv, SettledInv
    <2>3. \A q \in Listing(e) : Pending(q) => Pending(q)'
      BY <2>1
    <2>4. QED
      BY <2>1, <2>2, <2>3 DEF Settled
  <1>5. SettledInv'
    BY <1>4 DEF SettledInv, TrackInv, DirtyInv
  <1>6. QED
    BY <1>1, <1>2, <1>3, <1>5 DEF TrackInv

(* Every branch of the select loop that receives something keeps the invariant. *)
LEMMA ReceiveTracks ==
    ASSUME TypeOK, TrackInv, Receive
    PROVE  TrackInv'
  <1> USE DEF sourceVars, priceVars, clockVars, readyVars, dirtyVars, slotVars, ctlVars
  <1>1. CASE RecvAccountUpdate
    <2> DEFINE pk == Head(account_updates).pk
               es == IF pk \in DOMAIN EdgesPerPk THEN Listed(pk) ELSE {}
               inst == [e \in Edges |-> pk]
    <2>0. /\ pc = "select" /\ account_updates # <<>>
          /\ UNCHANGED <<pc, refreshed, reading, chain, edge_state>>
          /\ account_updates' = Tail(account_updates) /\ missed' = missed \ {pk}
      BY <1>1 DEF RecvAccountUpdate
    <2>1. ASSUME NEW q, q # pk, Pending(q) PROVE Pending(q)'
      <3>1. CASE q \in missed
        BY <2>0, <2>1, <3>1 DEF Pending
      <3>2. CASE Notified(q)
        <4>1. PICK i \in 1 .. Len(account_updates) : account_updates[i].pk = q
          BY <3>2 DEF Notified
        <4>2. account_updates \in Seq(Message)
          BY DEF TypeOK
        <4>3. i # 1
          BY <2>0, <2>1, <4>1, <4>2
        <4>4. /\ i - 1 \in 1 .. Len(Tail(account_updates))
              /\ Tail(account_updates)[i - 1] = account_updates[i]
          BY <2>0, <4>2, <4>3
        <4>5. QED
          BY <2>0, <4>1, <4>4 DEF Pending, Notified
      <3>3. QED
        BY <2>1, <3>1, <3>2 DEF Pending
    <2>2. \A e \in Edges : pk \in Listing(e) => e \in es
      BY DEF Listing
    <2>3. \A e \in Edges : e \in es => inst[e] \in Listing(e)
      BY ListingType
    <2>4. /\ \A q : q \notin {pk} /\ Pending(q) => Pending(q)'
          /\ \A e \in Edges : (\E q \in Listing(e) : q \in {pk}) => e \in es
      BY <2>1, <2>2
    <2>5. CASE NeedsUpdate(pk)
      <3>1. MarkDirty(es, [e \in Edges |-> pk])
        BY <1>1, <2>5 DEF RecvAccountUpdate
      <3>2. /\ dirty_edges' = [e \in Edges |-> IF e \in es THEN inst[e] ELSE dirty_edges[e]]
            /\ last_dirty'  = [e \in Edges |-> IF e \in es THEN inst[e] ELSE last_dirty[e]]
        BY <3>1 DEF MarkDirty
      <3> HIDE DEF es, inst, pk
      <3>3. QED
        BY <2>0, <2>3, <2>4, <3>2, MarkTracks, Zenon
    <2>6. CASE ~NeedsUpdate(pk)
      <3>1. es = {} /\ UNCHANGED <<dirty_edges, last_dirty>>
        BY <1>1, <2>6 DEF RecvAccountUpdate, NeedsUpdate
      <3>2. /\ dirty_edges' = [e \in Edges |-> IF e \in es THEN inst[e] ELSE dirty_edges[e]]
            /\ last_dirty'  = [e \in Edges |-> IF e \in es THEN inst[e] ELSE last_dirty[e]]
        BY <3>1 DEF TypeOK
      <3> HIDE DEF es, inst, pk
      <3>3. QED
        BY <2>0, <2>3, <2>4, <3>2, MarkTracks, Zenon
    <2>7. QED
      BY <2>5, <2>6
  <1>2. CASE RecvPriceUpdate
    <2> DEFINE mint == Head(price_to_updater).mint
               es == {e \in Edges : mint \in {InputMint[e], OutputMint[e]}}
               gone == {}
    <2>0. /\ pc = "select"
          /\ UNCHANGED <<pc, refreshed, reading, chain, edge_state, account_updates, missed>>
          /\ MarkDirty(es, routed)
      BY <1>2 DEF RecvPriceUpdate
    <2>1. /\ dirty_edges' = [e \in Edges |-> IF e \in es THEN routed[e] ELSE dirty_edges[e]]
          /\ last_dirty'  = [e \in Edges |-> IF e \in es THEN routed[e] ELSE last_dirty[e]]
      BY <2>0 DEF MarkDirty
    <2>2. \A q : q \notin gone /\ Pending(q) => Pending(q)'
      BY <2>0 DEF Pending, Notified
    <2>3. \A e \in Edges : e \in es => routed[e] \in Listing(e)
      BY DEF TypeOK
    <2>4. \A e \in Edges : (\E q \in Listing(e) : q \in gone) => e \in es
      OBVIOUS
    <2>5. pc = "select" /\ UNCHANGED <<pc, refreshed, reading, chain, edge_state>>
      BY <2>0
    <2> HIDE DEF es, mint, gone
    <2>6. QED
      BY <2>1, <2>2, <2>3, <2>4, <2>5, MarkTracks, Zenon
  <1>3. CASE RecvLagged \/ (\E s \in 1 .. slot : RecvSlot(s))
             \/ (\E pk \in Pubkeys : RecvInvalidAccount(pk))
             \/ (\E programs, tokens : RecvSnapshotEnd(programs, tokens))
    <2>1. /\ UNCHANGED <<refreshed, reading, dirty_edges, last_dirty, chain,
                         account_updates, missed, edge_state>>
          /\ pc' = pc \/ pc' \notin {"select", "quoting"}
      BY <1>3 DEF RecvLagged, RecvSlot, RecvInvalidAccount, RecvSnapshotEnd
    <2>2. SameQuotes
      BY <2>1 DEF SameQuotes
    <2>3. QED
      BY <2>1, <2>2, QuietStep
  <1>4. QED
    BY <1>1, <1>2, <1>3 DEF Receive

-----------------------------------------------------------------------------
(* One Edge::update: the dirty instance of `e` gets a state that is invalid or
   priced from accounts current or pending; the other instances keep theirs. *)
LEMMA UpdateTracks ==
    ASSUME TypeOK, TrackInv, NEW e \in Edges, dirty_edges[e] # None, NEW st,
           edge_state' = [edge_state EXCEPT ![Instance(e)] = st],
           st.is_valid => \A q \in Listing(e) : st.priced_at[q] # chain[q] => Pending(q),
           pc' = "refresh", refreshed' = refreshed \union {e},
           UNCHANGED <<dirty_edges, last_dirty, chain, account_updates, missed>>
    PROVE  TrackInv'
  <1>0. /\ last_dirty[e] = dirty_edges[e] /\ Instance(e) = <<last_dirty[e], e>>
        /\ Instance(e) \in Instances
    BY InstanceType DEF TrackInv, DirtyInv, Instance, TypeOK
  <1>1. DirtyInv'
    BY DEF TrackInv, DirtyInv
  <1>2. PricedInv'
    <2>1. ASSUME NEW i \in Instances, edge_state'[i].is_valid PROVE last_dirty[i[2]] # None
      <3>1. CASE i = Instance(e)
        BY <1>0, <3>1 DEF Instance
      <3>2. CASE i # Instance(e)
        BY <2>1, <3>2 DEF TrackInv, PricedInv, TypeOK
      <3>3. QED
        BY <3>1, <3>2
    <2>2. QED
      BY <2>1 DEF PricedInv
  <1>3. ReadingInv'
    BY DEF ReadingInv
  <1>4. \A q : Pending(q)' <=> Pending(q)
    BY DEF Pending, Notified
  <1>5. ASSUME NEW f \in Edges, dirty_edges'[f] = None \/ f \in refreshed' PROVE Settled(f)'
    <2>1. CASE f = e
      <3>1. edge_state'[<<last_dirty[e], e>>] = st
        BY <1>0 DEF TypeOK
      <3>2. QED
        BY <1>4, <2>1, <3>1 DEF Settled
    <2>2. CASE f # e
      <3>1. Settled(f)
        BY <1>5, <2>2 DEF TrackInv, SettledInv
      <3>2. CASE last_dirty[f] = None
        BY <3>2 DEF Settled
      <3>3. CASE last_dirty[f] # None
        <4>1. <<last_dirty[f], f>> \in Instances /\ <<last_dirty[f], f>> # Instance(e)
          BY <2>2, <3>3, InstanceType DEF TrackInv, DirtyInv, Instance
        <4>2. edge_state'[<<last_dirty[f], f>>] = edge_state[<<last_dirty[f], f>>]
          BY <4>1 DEF TypeOK
        <4>3. QED
          BY <1>4, <3>1, <4>2 DEF Settled
      <3>4. QED
        BY <3>2, <3>3
    <2>3. QED
      BY <2>1, <2>2
  <1>6. QED
    BY <1>1, <1>2, <1>3, <1>5 DEF TrackInv, SettledInv

(* Every step of refresh_some keeps the invariant. *)
LEMMA RefreshTracks ==
    ASSUME TypeOK, TrackInv, Refresh
    PROVE  TrackInv'
  <1> USE DEF sourceVars, priceVars, clockVars, readyVars, dirtyVars, slotVars, ctlVars
  <1>1. CASE RefreshStart
    <2>1. /\ UNCHANGED <<refreshed, reading, dirty_edges, last_dirty, chain,
                         account_updates, missed, edge_state>>
          /\ pc' \notin {"select", "quoting"}
      BY <1>1 DEF RefreshStart
    <2>2. SameQuotes
      BY <2>1 DEF SameQuotes
    <2>3. QED
      BY <2>1, <2>2, QuietStep
  <1>2. CASE RefreshEnd
    <2>1. /\ UNCHANGED <<reading, last_dirty, chain, account_updates, missed, edge_state>>
          /\ pc' = "select" /\ refreshed' = {}
          /\ dirty_edges' = [e \in Edges |-> IF e \in refreshed THEN None ELSE dirty_edges[e]]
      BY <1>2 DEF RefreshEnd
    <2>2. DirtyInv' /\ PricedInv' /\ ReadingInv'
      BY <2>1 DEF TrackInv, DirtyInv, PricedInv, ReadingInv
    <2>3. \A q : Pending(q)' <=> Pending(q)
      BY <2>1 DEF Pending, Notified
    <2>4. \A e \in Edges : dirty_edges'[e] = None => Settled(e)
      BY <2>1 DEF TrackInv, SettledInv
    <2>5. \A e \in Edges : Settled(e) => Settled(e)'
      BY <2>1, <2>3 DEF Settled
    <2>6. SettledInv'
      BY <2>1, <2>4, <2>5 DEF SettledInv
    <2>7. QED
      BY <2>2, <2>6 DEF TrackInv
  <1>3. ASSUME NEW e \in Edges, UpdateWithoutQuote(e) PROVE TrackInv'
    <2>0. /\ dirty_edges[e] # None /\ Instance(e) \in Instances
          /\ edge_state[Instance(e)] \in EdgeState(Versions)
      BY <1>3, InstanceType DEF UpdateWithoutQuote, Dirty, TypeOK, Instance
    <2>1. /\ pc' = "refresh" /\ refreshed' = refreshed \union {e}
          /\ UNCHANGED <<dirty_edges, last_dirty, chain, account_updates, missed>>
      BY <1>3 DEF UpdateWithoutQuote
    <2>2. PICK st : /\ edge_state' = [edge_state EXCEPT ![Instance(e)] = st]
                    /\ ~st.is_valid
      <3>1. /\ ~Disable(edge_state[Instance(e)]).is_valid
            /\ ~AmountOverflow(edge_state[Instance(e)]).is_valid
        BY <2>0 DEF Disable, AmountOverflow, EdgeState
      <3>2. \/ edge_state' = [edge_state EXCEPT ![Instance(e)] = Disable(@)]
            \/ edge_state' = [edge_state EXCEPT ![Instance(e)] = AmountOverflow(@)]
        BY <1>3 DEF UpdateWithoutQuote
      <3>3. QED
        BY <3>1, <3>2
    <2>3. QED
      BY <2>0, <2>1, <2>2, UpdateTracks
  <1>4. ASSUME NEW e \in Edges, BeginQuote(e) PROVE TrackInv'
    <2>1. /\ UNCHANGED <<refreshed, dirty_edges, last_dirty, chain, account_updates,
                         missed, edge_state>>
          /\ pc' = "quoting" /\ reading' = [edge |-> e, from |-> chain]
          /\ dirty_edges[e] # None
      BY <1>4 DEF BeginQuote, Dirty
    <2>2. DirtyInv' /\ PricedInv'
      BY <2>1 DEF TrackInv, DirtyInv, PricedInv
    <2>3. ReadingInv'
      BY <2>1 DEF ReadingInv
    <2>4. \A q : Pending(q)' <=> Pending(q)
      BY <2>1 DEF Pending, Notified
    <2>5. \A f \in Edges : Settled(f) => Settled(f)'
      BY <2>1, <2>4 DEF Settled
    <2>6. SettledInv'
      BY <2>1, <2>5 DEF TrackInv, SettledInv
    <2>7. QED
      BY <2>2, <2>3, <2>6 DEF TrackInv
  <1>5. ASSUME NEW quotes \in [Amount -> QuoteResult], NEW data \in [Pubkeys -> 0 .. MaxWrites],
               StoreQuote(quotes, data)
        PROVE  TrackInv'
    <2> DEFINE e == reading.edge
               st == StoreQuotes(edge_state[Instance(e)], now, quotes, data)
    <2>0. /\ e \in Edges /\ reading.from \in Versions /\ dirty_edges[e] # None
          /\ \A q \in Pubkeys : reading.from[q] # chain[q] => Pending(q)
      BY <1>5 DEF StoreQuote, TypeOK, TrackInv, ReadingInv
    <2>1. /\ pc' = "refresh" /\ refreshed' = refreshed \union {e}
          /\ UNCHANGED <<dirty_edges, last_dirty, chain, account_updates, missed>>
          /\ edge_state' = [edge_state EXCEPT ![Instance(e)] = st]
      BY <1>5 DEF StoreQuote
    <2>2. edge_state[Instance(e)] \in EdgeState(Versions)
      BY <2>0, InstanceType DEF TypeOK, Instance
    <2>3. st.priced_at = data
      BY <2>2 DEF StoreQuotes, EdgeState
    <2>4. \A q \in Pubkeys : data[q] # chain[q] => Pending(q)
      <3> SUFFICES ASSUME NEW q \in Pubkeys, data[q] # chain[q] PROVE Pending(q)
        OBVIOUS
      <3>1. reading.from[q] <= data[q] /\ data[q] <= chain[q]
        BY <1>5 DEF StoreQuote
      <3>2. reading.from[q] \in Nat /\ data[q] \in Nat /\ chain[q] \in Nat
        BY <2>0, UpdaterAssumption DEF Versions, TypeOK
      <3>3. reading.from[q] # chain[q]
        BY <3>1, <3>2
      <3>4. QED
        BY <2>0, <3>3
    <2>5. \A q \in Listing(e) : st.priced_at[q] # chain[q] => Pending(q)
      BY <2>0, <2>3, <2>4, ListingType
    <2> HIDE DEF e, st
    <2>6. QED
      BY <2>0, <2>1, <2>5, UpdateTracks
  <1>6. QED
    BY <1>1, <1>2, <1>3, <1>4, <1>5 DEF Refresh

(* The freshness invariant is inductive, given the types. *)
LEMMA TrackInvStep == TypeOK /\ TrackInv /\ [Next]_vars => TrackInv'
  <1> SUFFICES ASSUME TypeOK, TrackInv, [Next]_vars PROVE TrackInv'
    OBVIOUS
  <1> USE DEF sourceVars, priceVars, clockVars, readyVars, dirtyVars, slotVars, ctlVars
  <1>1. ASSUME NEW pk \in Pubkeys, NEW s \in {slot - 1, slot} \ {0}, AccountWrite(pk, s)
        PROVE  TrackInv'
    <2>1. s \in Nat
      BY DEF TypeOK
    <2>2. QED
      BY <1>1, <2>1, AccountWriteTracks
  <1>2. ASSUME NEW a \in TxAccounts, NEW ok \in BOOLEAN, NEW n \in {1, 2}, HandleTx(a, ok, n)
        PROVE  TrackInv'
    <2>1. UNCHANGED <<pc, refreshed, reading, dirty_edges, last_dirty, chain,
                      account_updates, missed>>
      BY <1>2 DEF HandleTx
    <2>2. QED
      BY <1>2, <2>1, HandleTxKeepsQuotes, QuietStep
  <1>3. ASSUME NEW e \in Edges, RouterCooldown(e) PROVE TrackInv'
    <2>1. UNCHANGED <<pc, refreshed, reading, dirty_edges, last_dirty, chain,
                      account_updates, missed>>
      BY <1>3 DEF RouterCooldown
    <2>2. SameQuotes
      BY <1>3, CooledKeepsQuotes DEF RouterCooldown
    <2>3. QED
      BY <2>1, <2>2, QuietStep
  <1>4. CASE Tick \/ NextSlot \/ PriceCacheInsert \/ UNCHANGED vars
             \/ (\E mp \in FeedPrices : PublishPrice(mp[1], mp[2]))
             \/ (\E reason \in {"exit", "timeout", "closed"} : LoopExit(reason))
    <2>1. /\ UNCHANGED <<refreshed, reading, dirty_edges, last_dirty, chain,
                         account_updates, missed, edge_state>>
          /\ pc' = pc \/ pc' \notin {"select", "quoting"}
      BY <1>4 DEF Tick, NextSlot, PriceCacheInsert, PublishPrice, LoopExit, vars
    <2>2. SameQuotes
      BY <2>1 DEF SameQuotes
    <2>3. QED
      BY <2>1, <2>2, QuietStep
  <1>5. CASE Receive \/ Refresh
    BY <1>5, ReceiveTracks, RefreshTracks
  <1>6. QED
    BY <1>1, <1>2, <1>3, <1>4, <1>5 DEF Next, Environment, Stopped

(* It holds at the start, where no instance is valid. *)
LEMMA InitTracks == Init => TrackInv
  <1> SUFFICES ASSUME Init PROVE TrackInv
    OBVIOUS
  <1>1. \A i \in Instances : ~edge_state[i].is_valid
    BY DEF Init, DefaultEdge
  <1>2. \A e \in Edges : last_dirty[e] = None /\ dirty_edges[e] = None
    BY DEF Init
  <1>3. pc = "select" /\ refreshed = {}
    BY DEF Init
  <1>4. QED
    BY <1>1, <1>2, <1>3 DEF TrackInv, DirtyInv, PricedInv, ReadingInv, SettledInv, Settled

(* So it holds in every reachable state. *)
LEMMA TrackInvariant == Spec => []TrackInv
  BY InitTracks, TrackInvStep, TypeCorrect, PTL DEF Spec

(* The instance last marked dirty never keeps a valid price of superseded
   account data unless a refresh is due or the channel dropped a notification:
   for every listing of edges, channel capacity and interleaving of account
   writes, notifications, budgets of refresh_some and torn reads. *)
THEOREM LatestTracks == Spec => []LatestInstanceTracksChain
  <1>1. ASSUME SettledInv PROVE LatestInstanceTracksChain
    <2> SUFFICES ASSUME NEW e \in Edges, last_dirty[e] # None,
                        edge_state[<<last_dirty[e], e>>].is_valid,
                        Stale(edge_state[<<last_dirty[e], e>>], e),
                        dirty_edges[e] = None
                 PROVE  \E pk \in Listing(e) : Notified(pk) \/ pk \in missed
      BY Zenon DEF LatestInstanceTracksChain, Scheduled
    <2>1. Settled(e)
      BY <1>1 DEF SettledInv
    <2>2. QED
      BY <2>1 DEF Settled, Stale, Pending
  <1>2. TrackInv => LatestInstanceTracksChain
    BY <1>1 DEF TrackInv
  <1>3. QED
    BY <1>2, TrackInvariant, PTL

(* Where every edge is listed under one account, the same holds of the instance
   the router reads; run updater_routed_stale shows that the hypothesis cannot
   be dropped. *)
THEOREM RoutedTracks ==
    ASSUME \A e \in Edges : \A p, q \in Listing(e) : p = q
    PROVE  Spec => []RoutedEdgeTracksChain
  <1>1. ASSUME TypeOK, TrackInv PROVE RoutedEdgeTracksChain
    <2> SUFFICES ASSUME NEW e \in Edges, edge_state[<<routed[e], e>>].is_valid,
                        Stale(edge_state[<<routed[e], e>>], e), dirty_edges[e] = None
                 PROVE  \E pk \in Listing(e) : Notified(pk) \/ pk \in missed
      BY Zenon DEF RoutedEdgeTracksChain, Scheduled
    <2>1. routed[e] \in Listing(e) /\ <<routed[e], e>> \in Instances
      BY <1>1, InstanceType DEF TypeOK
    <2>2. last_dirty[e] # None
      BY <1>1, <2>1 DEF TrackInv, PricedInv
    <2>3. last_dirty[e] = routed[e]
      BY <1>1, <2>1, <2>2 DEF TrackInv, DirtyInv
    <2>4. Settled(e)
      BY <1>1 DEF TrackInv, SettledInv
    <2>5. QED
      BY <2>2, <2>3, <2>4 DEF Settled, Stale, Pending
  <1>2. TypeOK /\ TrackInv => RoutedEdgeTracksChain
    BY <1>1
  <1>3. QED
    BY <1>2, TypeCorrect, TrackInvariant, PTL

-----------------------------------------------------------------------------
(* The slot a lag is measured from never moves back and never passes what was
   received, whatever the order of the slots of the writes. *)
THEOREM SlotsProgress == Spec => SlotProgress
  <1> DEFINE I == latest_slot_processed <= latest_slot_pending
             A == /\ latest_slot_pending <= latest_slot_pending'
                  /\ latest_slot_processed <= latest_slot_processed'
                  /\ latest_slot_processed' <= latest_slot_pending'
  <1> USE DEF sourceVars, priceVars, clockVars, readyVars, dirtyVars, slotVars, ctlVars
  <1>1. Init => I
    BY DEF Init
  <1>2. ASSUME TypeOK, I, [Next]_vars PROVE A
    <2>0. latest_slot_pending \in Nat /\ latest_slot_processed \in Nat
      BY <1>2 DEF TypeOK
    <2>1. CASE UNCHANGED <<latest_slot_pending, latest_slot_processed>>
      BY <1>2, <2>0, <2>1
    <2>2. CASE RecvAccountUpdate
      <3>1. Head(account_updates).slot \in Nat
        BY <1>2, <2>2, HeadMessage DEF RecvAccountUpdate
      <3>2. QED
        BY <1>2, <2>0, <2>2, <3>1 DEF RecvAccountUpdate, LaterSlot
    <2>3. CASE RefreshEnd
      BY <1>2, <2>0, <2>3 DEF RefreshEnd
    <2>4. CASE Environment \/ PriceCacheInsert \/ UNCHANGED vars
      <3>1. UNCHANGED <<latest_slot_pending, latest_slot_processed>>
        BY <2>4 DEF Environment, PriceCacheInsert, vars, Tick, NextSlot, AccountWrite,
                    PublishPrice, HandleTx, RouterCooldown
      <3>2. QED
        BY <2>1, <3>1
    <2>5. CASE RecvLagged \/ RecvPriceUpdate
               \/ (\E pk \in Pubkeys : RecvInvalidAccount(pk))
               \/ (\E programs, tokens : RecvSnapshotEnd(programs, tokens))
               \/ (\E s \in 1 .. slot : RecvSlot(s))
               \/ (\E reason \in {"exit", "timeout", "closed"} : LoopExit(reason))
      <3>1. UNCHANGED <<latest_slot_pending, latest_slot_processed>>
        BY <2>5 DEF RecvLagged, RecvPriceUpdate, RecvInvalidAccount, RecvSnapshotEnd,
                    RecvSlot, LoopExit
      <3>2. QED
        BY <2>1, <3>1
    <2>6. CASE RefreshStart
               \/ (\E e \in Edges : UpdateWithoutQuote(e) \/ BeginQuote(e))
               \/ (\E quotes, data : StoreQuote(quotes, data))
      <3>1. UNCHANGED <<latest_slot_pending, latest_slot_processed>>
        BY <2>6 DEF RefreshStart, UpdateWithoutQuote, BeginQuote, StoreQuote
      <3>2. QED
        BY <2>1, <3>1
    <2> HIDE DEF A
    <2>7. QED
      BY <1>2, <2>2, <2>3, <2>4, <2>5, <2>6 DEF Next, Receive, Refresh, Stopped
  <1>3. TypeOK /\ I /\ [Next]_vars => A /\ I'
    BY <1>2
  <1>4. QED
    BY <1>1, <1>3, TypeCorrect, PTL DEF Spec, SlotProgress
=============================================================================
