----------------------------- MODULE GeyserFeed -----------------------------
(***************************************************************************)
(* The account feed: feed_data_geyser follows the account writes and slots  *)
(* a node streams and asks an RPC server for snapshots, process_events      *)
(* reconnects it, filters and deduplicates its messages, and the chain-data *)
(* job stores them.                                                         *)
(*   bin/autobahn-router/src/source/grpc_plugin_source.rs, main.rs           *)
(*   lib/router-feed-lib/src/get_program_account.rs, account_write.rs        *)
(*                                                                         *)
(* Data abstraction.  The content of an account is the number of writes it   *)
(* has seen.  A snapshot of a slot holds the contents at the end of that     *)
(* slot, so a message names its slot only.  Forks are left out: every slot   *)
(* is finalized in the end, so a slot update, which moves the chain data's   *)
(* root, does not change what is newest.                                    *)
(* The slots of a run start above OutOfOrder and Retention, as those of the  *)
(* network do, so no subtraction of slots underflows.                       *)
(***************************************************************************)
EXTENDS Integers, Sequences, FiniteSets, SequencesExt

CONSTANTS
    Pubkeys, Filters,      \* accounts streamed, accounts wanted
    Snapshots, Covers,     \* the requests of a snapshot, the accounts of each
    NodeBases,             \* write versions are private to a node
    SnapVersion,           \* SNAP_ACCOUNT_WRITE_VERSION
    Buffer, BufferStep,    \* rooted_to_finalized_slots: 30, and 25 more
    OutOfOrder,            \* max_out_of_order_slots: 40
    Retention,             \* latest_write_retention: 50
    DedupQueueSize,
    MaxErrors,             \* 10
    RetrySleep,            \* retry_connection_sleep_secs
    ErrorWindow,           \* 10 minutes
    None,
    FirstSlot, MaxSlot, MaxWrites, MaxResnapshots   \* bounds of the model

Slots == FirstSlot .. MaxSlot

Message == [pk : Pubkeys, slot : Slots, content : Nat, version : Nat]
Result  == [snapshot : Snapshots, slot : Slots \union {None}]
Taken   == [snapshot : Snapshots, slot : Slots]    \* a snapshot that came

ASSUME FeedAssumption ==
    /\ Filters \subseteq Pubkeys
    /\ Covers \in [Snapshots -> SUBSET Pubkeys]
    /\ NodeBases \subseteq Nat
    /\ MaxWrites \in [Pubkeys -> Nat]
    /\ \A b \in NodeBases, pk \in Pubkeys : SnapVersion > b + MaxWrites[pk]
    /\ {Buffer, BufferStep, OutOfOrder, Retention, MaxErrors, RetrySleep, ErrorWindow,
        SnapVersion, MaxSlot, MaxResnapshots} \subseteq Nat
    /\ DedupQueueSize \in Nat \ {0}
    /\ FirstSlot \in Nat /\ FirstSlot > OutOfOrder /\ FirstSlot > Retention
    /\ FirstSlot < MaxSlot
    /\ None \notin Nat /\ None \notin Message /\ None \notin Taken

VARIABLES
    slot, finalized, writes,   \* the network: writes[pk] lists the slots of its writes
    pc,                        \* the source job: "down", "up", or "ended"
    error_count,
    node,                      \* NodeBases of the connection
    account_stream,            \* writes in flight from the node
    slot_stream,               \* the last finalized slot the node has told
    first_full_slot,           \* None for u64::MAX
    snapshot_needed, max_rooted_slot, rooted_to_finalized_slots, newest_write_slot,
    slot_pubkey_writes,        \* slot -> account -> first write version, or None
    requested,                 \* snapshot requests under way, per snapshot
    results,                   \* snapshot_gma_receiver
    resnapshots,               \* bounds the interval's ticks
    dedup,                     \* msg_receiver
    latest_write,              \* slot -> account -> write version
    ending,                    \* snapshot whose end is still to be announced, or None
    announced,                 \* snapshots with FeedMetadata::SnapshotEnd sent
    account_queue,             \* account_write_receiver
    chain_data,                \* newest data of an account, or None
    missed_until,  \* history: until this slot the connection may lack writes
    snapshot_slot, \* history: newest snapshot stored, per account
    fresh          \* history: snapshots received that were not too old

netVars  == <<slot, finalized, writes>>
connVars == <<node, slot_stream, first_full_slot, snapshot_needed, max_rooted_slot,
              rooted_to_finalized_slots, newest_write_slot, slot_pubkey_writes,
              requested, results, fresh, missed_until>>
procVars == <<latest_write, ending, announced, account_queue>>
dataVars == <<chain_data, snapshot_slot>>
vars == <<netVars, pc, error_count, account_stream, connVars, resnapshots, dedup,
          procVars, dataVars>>

NoWrites(v) == [s \in Slots |-> [pk \in Pubkeys |-> v]]

Init ==
    /\ slot = FirstSlot + 1 /\ finalized = FirstSlot /\ writes = [pk \in Pubkeys |-> <<>>]
    /\ pc = "down" /\ error_count = 0
    /\ node = None /\ account_stream = <<>> /\ slot_stream = 0
    /\ first_full_slot = None /\ snapshot_needed = TRUE /\ max_rooted_slot = 0
    /\ rooted_to_finalized_slots = Buffer /\ newest_write_slot = 0
    /\ slot_pubkey_writes = NoWrites(None)
    /\ requested = [q \in Snapshots |-> 0] /\ results = <<>>
    /\ resnapshots = 0 /\ dedup = <<>> /\ latest_write = NoWrites(0)
    /\ ending = None /\ announced = {} /\ account_queue = <<>>
    /\ chain_data = [pk \in Pubkeys |-> None]
    /\ missed_until = 0 /\ snapshot_slot = [pk \in Pubkeys |-> 0] /\ fresh = {}

-----------------------------------------------------------------------------
(* The network. A node streams the writes while it is connected. *)
Write(pk) ==
    /\ Len(writes[pk]) < MaxWrites[pk]
    /\ writes' = [writes EXCEPT ![pk] = Append(@, slot)]
    /\ account_stream' =
          IF pc = "up" THEN Append(account_stream,
                                   [pk |-> pk, slot |-> slot, content |-> Len(writes'[pk]),
                                    version |-> node + Len(writes'[pk])])
                       ELSE account_stream
    /\ UNCHANGED <<slot, finalized, pc, error_count, connVars, resnapshots, dedup,
                   procVars, dataVars>>

NextSlot == /\ slot < MaxSlot /\ slot' = slot + 1
            /\ UNCHANGED <<finalized, writes, pc, error_count, account_stream, connVars,
                           resnapshots, dedup, procVars, dataVars>>

Finalize == /\ finalized + 1 < slot /\ finalized' = finalized + 1
            /\ UNCHANGED <<slot, writes, pc, error_count, account_stream, connVars,
                           resnapshots, dedup, procVars, dataVars>>

-----------------------------------------------------------------------------
(* Variant of TooManyErrors: one error later. *)
TooManyErrorsLate(count) == count > MaxErrors + 1

TooManyErrors(count) == count > MaxErrors

(* process_events, the source job: connect, or give up. error_count is reset
   when the last error is old, which is looked at right after the sleep. *)
Connect ==
    LET count == IF RetrySleep > ErrorWindow THEN 0 ELSE error_count
    IN /\ pc = "down" /\ error_count' = count
       /\ \/ /\ TooManyErrors(count) /\ pc' = "ended" /\ UNCHANGED node
          \/ /\ ~TooManyErrors(count) /\ pc' = "up"
             /\ node' \in NodeBases
       /\ UNCHANGED <<netVars, account_stream, slot_stream, first_full_slot, snapshot_needed,
                      max_rooted_slot, rooted_to_finalized_slots, newest_write_slot,
                      slot_pubkey_writes, requested, results, fresh, missed_until,
                      resnapshots, dedup, procVars, dataVars>>

(* feed_data_geyser returns an error: its locals, channels and requests are gone. *)
Fail == /\ pc' = "down" /\ error_count' = error_count + 1
        /\ node' = None /\ account_stream' = <<>> /\ slot_stream' = 0
        /\ first_full_slot' = None /\ snapshot_needed' = TRUE /\ max_rooted_slot' = 0
        /\ rooted_to_finalized_slots' = Buffer /\ newest_write_slot' = 0
        /\ slot_pubkey_writes' = NoWrites(None)
        /\ requested' = [q \in Snapshots |-> 0] /\ results' = <<>>
        /\ fresh' = {} /\ missed_until' = 0
        /\ UNCHANGED <<dedup, latest_write>>

(* The stream closes or is silent for 15s. *)
Disconnect == /\ pc = "up" /\ Fail
              /\ UNCHANGED <<netVars, resnapshots, ending, announced, account_queue, dataVars>>

(* Data of slots well below the rooted one is dropped. *)
Kept(s, rooted) == s >= rooted - OutOfOrder

(* A slot became finalized: it may start the snapshot tasks. *)
RecvFinalized(s) ==
    LET full   == IF first_full_slot = None THEN s + 1 ELSE first_full_slot
        rooted == IF s > max_rooted_slot THEN s ELSE max_rooted_slot
        start  == snapshot_needed /\ rooted > full + rooted_to_finalized_slots
    IN /\ pc = "up" /\ s > slot_stream /\ slot_stream' = s
       /\ Len(dedup) < DedupQueueSize
       /\ dedup' = Append(dedup, [kind |-> "slot", write |-> s])
       /\ first_full_slot' = full /\ max_rooted_slot' = rooted
       /\ missed_until' = IF first_full_slot = None THEN slot ELSE missed_until
       /\ slot_pubkey_writes' =
             [t \in Slots |-> IF Kept(t, rooted) THEN slot_pubkey_writes[t]
                              ELSE [pk \in Pubkeys |-> None]]
       /\ snapshot_needed' = (snapshot_needed /\ ~start)
       /\ requested' = [q \in Snapshots |-> requested[q] + IF start THEN 1 ELSE 0]
       /\ UNCHANGED <<netVars, pc, error_count, account_stream, node,
                      rooted_to_finalized_slots, newest_write_slot, results, fresh,
                      resnapshots, procVars, dataVars>>

TooEarly(m) == first_full_slot # None => m.slot < first_full_slot   \* or u64::MAX
TooLate(m)  == /\ m.slot <= newest_write_slot /\ max_rooted_slot > 0
               /\ ~Kept(m.slot, max_rooted_slot)
Reordered(m) == LET first == slot_pubkey_writes[m.slot][m.pk]
                IN first # None /\ m.version < first

(* An account write, in whatever order the writes come: skipped, fatal, or passed
   on. Its rewritten write version stays in a copy; the original is sent. *)
RecvAccount(i) ==
    LET m == account_stream[i]
    IN /\ pc = "up"
       /\ \/ /\ ~TooEarly(m) /\ (TooLate(m) \/ Reordered(m))
             /\ Fail
          \/ /\ TooEarly(m)
             /\ account_stream' = RemoveAt(account_stream, i)
             /\ UNCHANGED <<pc, error_count, connVars, dedup, latest_write>>
          \/ /\ ~TooEarly(m) /\ ~TooLate(m) /\ ~Reordered(m) /\ Len(dedup) < DedupQueueSize
             /\ account_stream' = RemoveAt(account_stream, i)
             /\ newest_write_slot' =
                   IF m.slot > newest_write_slot THEN m.slot ELSE newest_write_slot
             /\ slot_pubkey_writes' =
                   [slot_pubkey_writes EXCEPT ![m.slot][m.pk] = IF @ = None THEN m.version ELSE @]
             /\ dedup' = Append(dedup, [kind |-> "account", write |-> m])
             /\ UNCHANGED <<pc, error_count, node, slot_stream, first_full_slot,
                            snapshot_needed, max_rooted_slot, rooted_to_finalized_slots,
                            requested, results, fresh, missed_until, latest_write>>
       /\ UNCHANGED <<netVars, resnapshots, ending, announced, account_queue, dataVars>>

-----------------------------------------------------------------------------
(* get_snapshot_gma, get_snapshot_gpa, get_snapshot_gta: the RPC server, which
   may lag behind, answers for a finalized slot; or the request fails. *)
FetchSnapshot(q, s) ==
    /\ pc = "up" /\ requested[q] > 0 /\ requested' = [requested EXCEPT ![q] = @ - 1]
    /\ results' = Append(results, [snapshot |-> q, slot |-> s])
    /\ UNCHANGED <<netVars, pc, error_count, account_stream, node, slot_stream,
                   first_full_slot, snapshot_needed, max_rooted_slot,
                   rooted_to_finalized_slots, newest_write_slot, slot_pubkey_writes, fresh,
                   missed_until, resnapshots, dedup, procVars, dataVars>>

(* Variant of TooOld: every snapshot will do. *)
TooOldNever(s) == FALSE

TooOld(s) == s < first_full_slot

(* A snapshot arrives: it is used in any case, and asked for again if it is too
   old. An error ends the connection. *)
RecvSnapshot ==
    LET r == Head(results)
    IN /\ pc = "up" /\ results # <<>>
       /\ \/ r.slot = None /\ Fail
          \/ /\ r.slot # None /\ Len(dedup) < DedupQueueSize
             /\ results' = Tail(results)
             /\ snapshot_needed' = (snapshot_needed \/ TooOld(r.slot))
             /\ rooted_to_finalized_slots' =
                   rooted_to_finalized_slots + IF TooOld(r.slot) THEN BufferStep ELSE 0
             /\ fresh' = IF r.slot < first_full_slot THEN fresh ELSE fresh \union {r.snapshot}
             /\ dedup' = Append(dedup, [kind |-> "snapshot", write |-> r])
             /\ UNCHANGED <<pc, error_count, account_stream, node, slot_stream,
                            first_full_slot, max_rooted_slot, newest_write_slot,
                            slot_pubkey_writes, requested, missed_until, latest_write>>
       /\ UNCHANGED <<netVars, resnapshots, ending, announced, account_queue, dataVars>>

(* The re-snapshot interval. *)
ReSnapshot ==
    /\ pc = "up" /\ resnapshots < MaxResnapshots /\ resnapshots' = resnapshots + 1
    /\ snapshot_needed' = TRUE
    /\ UNCHANGED <<netVars, pc, error_count, account_stream, node, slot_stream,
                   first_full_slot, max_rooted_slot, rooted_to_finalized_slots,
                   newest_write_slot, slot_pubkey_writes, requested, results, fresh,
                   missed_until, dedup, procVars, dataVars>>

-----------------------------------------------------------------------------
(* process_account_updated_from_sources *)

(* Variant of New: one write of an account in a slot is enough. *)
NewInSlot(m) == m.pk \in Filters /\ latest_write[m.slot][m.pk] = 0

New(m) == m.pk \in Filters /\ m.version > latest_write[m.slot][m.pk]

ProcessWrite ==
    LET m == Head(dedup).write
    IN /\ dedup # <<>> /\ Head(dedup).kind = "account"
       /\ dedup' = Tail(dedup)
       /\ \/ /\ New(m) /\ account_queue' = Append(account_queue, {m})
             /\ latest_write' =
                   [t \in Slots |->
                      IF t < m.slot - Retention THEN [pk \in Pubkeys |-> 0]
                      ELSE IF t = m.slot THEN [latest_write[t] EXCEPT ![m.pk] = m.version]
                      ELSE latest_write[t]]
          \/ ~New(m) /\ UNCHANGED <<account_queue, latest_write>>

ContentAt(pk, s) == Cardinality({i \in DOMAIN writes[pk] : writes[pk][i] <= s})

Wanted(q) == Covers[q] \intersect Filters

QueueAccounts(r) ==
    /\ account_queue' =
          Append(account_queue,
                 {[pk |-> pk, slot |-> r.slot, version |-> SnapVersion,
                   content |-> ContentAt(pk, r.slot)] : pk \in Wanted(r.snapshot)})
    /\ UNCHANGED announced

AnnounceEnd(r) == announced' = announced \union {r} /\ UNCHANGED account_queue

(* Variant of Send: the end is announced first. *)
SendEndFirst(r, n) == (n = 1 /\ AnnounceEnd(r)) \/ (n = 2 /\ QueueAccounts(r))

(* What is sent for a snapshot, first and second; each may wait for its channel. *)
Send(r, n) == (n = 1 /\ QueueAccounts(r)) \/ (n = 2 /\ AnnounceEnd(r))

ProcessSnapshot ==
    /\ dedup # <<>> /\ Head(dedup).kind = "snapshot"
    /\ dedup' = Tail(dedup)
    /\ Send(Head(dedup).write, 1) /\ ending' = Head(dedup).write

FinishSnapshot == Send(ending, 2) /\ ending' = None /\ UNCHANGED dedup

(* A slot update goes to the slot queue. *)
ProcessSlot == /\ dedup # <<>> /\ Head(dedup).kind = "slot"
               /\ dedup' = Tail(dedup) /\ UNCHANGED account_queue

(* One message after the other; it may go on for a while when the source job has
   ended. *)
Process == /\ \/ ending = None /\ ProcessWrite /\ UNCHANGED <<ending, announced>>
              \/ ending = None /\ ProcessSnapshot /\ UNCHANGED latest_write
              \/ ending # None /\ FinishSnapshot /\ UNCHANGED latest_write
              \/ ending = None /\ ProcessSlot /\ UNCHANGED <<ending, announced, latest_write>>
           /\ UNCHANGED <<netVars, pc, error_count, account_stream, connVars,
                          resnapshots, dataVars>>

(* ChainData::update_account keeps the data of the newest slot, and within a slot
   that of the highest write version. *)
Newer(m, old) ==
    old = None \/ m.slot > old.slot \/ (m.slot = old.slot /\ m.version >= old.version)

(* handle_updated_account *)
StoreAccounts ==
    LET update == Head(account_queue)
        Of(pk) == CHOOSE m \in update : m.pk = pk
        pks == {m.pk : m \in update}
        snap == {m.pk : m \in {n \in update : n.version = SnapVersion}}
    IN /\ account_queue # <<>> /\ account_queue' = Tail(account_queue)
       /\ chain_data' =
             [pk \in Pubkeys |-> IF pk \in pks /\ Newer(Of(pk), chain_data[pk])
                                 THEN Of(pk) ELSE chain_data[pk]]
       /\ snapshot_slot' =
             [pk \in Pubkeys |-> IF pk \in snap /\ Of(pk).slot > snapshot_slot[pk]
                                 THEN Of(pk).slot ELSE snapshot_slot[pk]]
       /\ UNCHANGED <<netVars, pc, error_count, account_stream, connVars, resnapshots,
                      dedup, latest_write, ending, announced>>

Ended == pc = "ended" /\ UNCHANGED vars

Next ==
    \/ \E pk \in Pubkeys : Write(pk)
    \/ NextSlot \/ Finalize \/ Connect \/ Disconnect \/ RecvSnapshot \/ ReSnapshot
    \/ \E s \in FirstSlot .. finalized : RecvFinalized(s)
    \/ \E i \in DOMAIN account_stream : RecvAccount(i)
    \/ \E q \in Snapshots, s \in (FirstSlot .. finalized) \union {None} : FetchSnapshot(q, s)
    \/ Process \/ StoreAccounts \/ Ended

Spec == Init /\ [][Next]_vars

-----------------------------------------------------------------------------
TypeOK ==
    /\ slot \in Slots /\ finalized \in Slots /\ writes \in [Pubkeys -> Seq(Slots)]
    /\ pc \in {"down", "up", "ended"} /\ error_count \in 0 .. MaxErrors + 1
    /\ node \in NodeBases \union {None} /\ account_stream \in Seq(Message) /\ slot_stream \in Nat
    /\ first_full_slot \in Nat \union {None} /\ snapshot_needed \in BOOLEAN
    /\ max_rooted_slot \in Nat /\ rooted_to_finalized_slots \in Nat
    /\ newest_write_slot \in Nat
    /\ slot_pubkey_writes \in [Slots -> [Pubkeys -> Nat \union {None}]]
    /\ requested \in [Snapshots -> Nat] /\ results \in Seq(Result)
    /\ resnapshots \in Nat /\ Len(dedup) <= DedupQueueSize
    /\ dedup \in Seq([kind : {"account"}, write : Message] \union
                     [kind : {"snapshot"}, write : Taken] \union
                     [kind : {"slot"}, write : Slots])
    /\ latest_write \in [Slots -> [Pubkeys -> Nat]] /\ announced \subseteq Taken
    /\ ending \in Taken \union {None} /\ account_queue \in Seq(SUBSET Message)
    /\ chain_data \in [Pubkeys -> Message \union {None}]
    /\ missed_until \in Nat /\ snapshot_slot \in [Pubkeys -> Nat] /\ fresh \subseteq Snapshots

(* Still on its way to the chain data. *)
InFlight(pk) ==
    \/ \E i \in DOMAIN account_stream : account_stream[i].pk = pk
    \/ \E i \in DOMAIN dedup : dedup[i].kind = "account" /\ dedup[i].write.pk = pk
    \/ \E i \in DOMAIN account_queue : \E m \in account_queue[i] : m.pk = pk

(* feed_data_geyser, process_account_updated_from_sources, handle_updated_account:
   while the connection lasts, an account whose snapshot reaches the slot from
   which the connection has all writes is up to date as soon as nothing of it is
   in flight, whatever the order of snapshots, writes and slots, the reconnects
   before and the nodes they led to. *)
SnapshotThenStreamIsComplete ==
    \A pk \in Filters :
        /\ pc = "up" /\ first_full_slot # None
        /\ snapshot_slot[pk] >= missed_until /\ ~InFlight(pk)
        => chain_data[pk].content = Len(writes[pk])

(* "If that buffer isn't sufficient, there'll be a retry": until a snapshot
   comes that is not too old, another one is wanted or under way. *)
OldSnapshotIsRequestedAgain ==
    pc = "up" => \A q \in Snapshots :
        \/ q \in fresh \/ snapshot_needed \/ requested[q] > 0
        \/ \E i \in DOMAIN results : results[i].snapshot = q

(* process_account_updated_from_sources: FeedMetadata::SnapshotEnd makes a dex
   ready, and goes another way than the accounts: when it is sent, the accounts
   of the snapshot are stored, or at least queued, as they were at its slot or
   newer. *)
AnnouncedIsQueued ==
    \A r \in announced : \A pk \in Covers[r.snapshot] \intersect Filters :
        \/ chain_data[pk] # None /\ chain_data[pk].slot >= r.slot
        \/ \E i \in DOMAIN account_queue : \E m \in account_queue[i] :
              m.pk = pk /\ m.slot >= r.slot
=============================================================================
