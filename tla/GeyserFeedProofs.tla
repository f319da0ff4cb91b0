-------------------------- MODULE GeyserFeedProofs --------------------------
(***************************************************************************)
(* The account feed leaves the newest content of every wanted account, for    *)
(* any accounts, nodes, channel sizes and bounds.                            *)
(***************************************************************************)
EXTENDS GeyserFeed, TLAPS, SequenceTheorems, FiniteSetTheorems

(* The connection streams all writes of slot s. *)
Covered(s) == pc = "up" /\ first_full_slot # None /\ s > missed_until

(* A message that tells of a write, and one out of a snapshot. *)
Streamed(m) ==
    /\ m.content \in 1 .. Len(writes[m.pk]) /\ writes[m.pk][m.content] = m.slot
    /\ m.version < SnapVersion
    /\ Covered(m.slot) => m.version = node + m.content

Snapped(m) ==
    m.version = SnapVersion /\ m.slot <= finalized /\ m.content = ContentAt(m.pk, m.slot)

Right(m) == m \in Message /\ (Streamed(m) \/ Snapped(m))

(* The network: writes come in the order of their slots. *)
NetInv ==
    /\ slot \in Slots /\ finalized \in Slots /\ finalized < slot
    /\ writes \in [Pubkeys -> Seq(Slots)]
    /\ \A pk \in Pubkeys :
          /\ Len(writes[pk]) <= MaxWrites[pk]
          /\ \A i \in 1 .. Len(writes[pk]) : writes[pk][i] <= slot
          /\ \A i, j \in 1 .. Len(writes[pk]) : i <= j => writes[pk][i] <= writes[pk][j]

(* The connection: outside of it nothing of it is left, inside it missed_until is
   a slot of the past. *)
ConnInv ==
    /\ pc \in {"down", "up", "ended"} /\ error_count \in 0 .. MaxErrors + 1
    /\ node \in NodeBases \union {None} /\ slot_stream \in Nat
    /\ first_full_slot \in Nat \union {None} /\ snapshot_needed \in BOOLEAN
    /\ max_rooted_slot \in Nat /\ rooted_to_finalized_slots \in Nat
    /\ newest_write_slot \in Nat /\ missed_until \in Nat /\ resnapshots \in Nat
    /\ slot_pubkey_writes \in [Slots -> [Pubkeys -> Nat \union {None}]]
    /\ pc = "up" => node \in NodeBases /\ error_count <= MaxErrors
    /\ pc # "up" => first_full_slot = None /\ snapshot_needed /\ account_stream = <<>>
    /\ first_full_slot # None =>
          /\ first_full_slot <= missed_until /\ missed_until <= slot /\ missed_until >= FirstSlot

(* The snapshots under way. *)
RequestInv ==
    /\ requested \in [Snapshots -> Nat]
    /\ results \in Seq(Result)
    /\ \A r \in Range(results) : r.slot # None => r.slot <= finalized
    /\ fresh \subseteq Snapshots /\ announced \subseteq Taken /\ ending \in Taken \union {None}

StreamInv ==
    /\ account_stream \in Seq(Message)
    /\ \A m \in Range(account_stream) : Streamed(m) /\ m.version = node + m.content

Dedups == [kind : {"account"}, write : Message] \union
          [kind : {"snapshot"}, write : Taken] \union
          [kind : {"slot"}, write : Slots]

DedupInv ==
    /\ dedup \in Seq(Dedups) /\ Len(dedup) <= DedupQueueSize
    /\ \A x \in Range(dedup) :
          /\ x.kind = "account" => Streamed(x.write)
          /\ x.kind = "snapshot" => x.write.slot <= finalized

(* An update holds one message of an account. *)
Update(u) == /\ u \subseteq Message /\ \A m \in u : Right(m)
             /\ \A m, n \in u : m.pk = n.pk => m = n

QueueInv ==
    /\ account_queue \in Seq(SUBSET Message)
    /\ \A u \in Range(account_queue) : Update(u)

(* What is stored is at least as new as every snapshot stored before. *)
DataInv ==
    /\ chain_data \in [Pubkeys -> Message \union {None}]
    /\ snapshot_slot \in [Pubkeys -> Nat]
    /\ \A pk \in Pubkeys :
          /\ chain_data[pk] # None =>
                /\ Right(chain_data[pk]) /\ chain_data[pk].pk = pk
                /\ chain_data[pk].version = SnapVersion =>
                      chain_data[pk].slot <= snapshot_slot[pk]
          /\ snapshot_slot[pk] > 0 =>
                /\ chain_data[pk] # None /\ chain_data[pk].slot >= snapshot_slot[pk]
                /\ chain_data[pk].slot = snapshot_slot[pk] =>
                      chain_data[pk].version = SnapVersion

(* The write versions the deduplication remembers. *)
LatestInv ==
    /\ latest_write \in [Slots -> [Pubkeys -> Nat]]
    /\ \A t \in Slots, pk \in Pubkeys :
          /\ t > slot => latest_write[t][pk] = 0
          /\ Covered(t) => latest_write[t][pk] <= node + Len(writes[pk])

(* The last write of an account, as this connection tells it. *)
IsLast(m, pk) ==
    m.pk = pk /\ m.content = Len(writes[pk]) /\ m.version = node + m.content

Queued(pk) == \E u \in Range(account_queue) : \E m \in u : IsLast(m, pk)

(* The chain data of the account is at least as new as its last write. *)
Reached(pk) ==
    LET w == Len(writes[pk])  d == chain_data[pk]
    IN d # None /\ (d.slot > writes[pk][w] \/ (d.slot = writes[pk][w] /\ d.version >= node + w))

(* A last write that the connection covers is on its way or stored. *)
DeliveredInv ==
    \A pk \in Filters :
        LET w == Len(writes[pk]) 
        IN w > 0 /\ Covered(writes[pk][w]) =>
            /\ \/ \E m \in Range(account_stream) : IsLast(m, pk)
               \/ \E x \in Range(dedup) : x.kind = "account" /\ IsLast(x.write, pk)
               \/ Queued(pk) \/ Reached(pk)
            /\ latest_write[writes[pk][w]][pk] >= node + w => Queued(pk) \/ Reached(pk)

FeedInv == /\ NetInv /\ ConnInv /\ RequestInv /\ StreamInv /\ DedupInv /\ QueueInv /\ DataInv
           /\ LatestInv /\ DeliveredInv

-----------------------------------------------------------------------------
(* Lists *)
LEMMA AppendRange ==
    ASSUME NEW S, NEW s \in Seq(S), NEW x \in S
    PROVE  Append(s, x) \in Seq(S) /\ Range(Append(s, x)) = Range(s) \union {x}
  <1> DEFINE t == Append(s, x)
  <1>1. /\ t \in Seq(S) /\ DOMAIN t = 1 .. Len(s) + 1 /\ DOMAIN s = 1 .. Len(s) /\ Len(s) \in Nat
        /\ t[Len(s) + 1] = x /\ \A i \in 1 .. Len(s) : t[i] = s[i]
    OBVIOUS
  <1> HIDE DEF t
  <1>2. Range(t) = Range(s) \union {x}
    BY <1>1 DEF Range
  <1> QED
    BY <1>1, <1>2 DEF t

LEMMA TailRange ==
    ASSUME NEW S, NEW s \in Seq(S), s # <<>>
    PROVE  /\ Tail(s) \in Seq(S) /\ Len(Tail(s)) < Len(s) /\ Head(s) \in S /\ Head(s) \in Range(s)
           /\ Range(Tail(s)) \subseteq Range(s)
           /\ Range(s) \subseteq Range(Tail(s)) \union {Head(s)}
  <1> DEFINE t == Tail(s)
  <1>1. /\ t \in Seq(S) /\ DOMAIN t = 1 .. Len(s) - 1 /\ DOMAIN s = 1 .. Len(s)
        /\ Len(s) \in Nat /\ Len(s) > 0 /\ Len(t) = Len(s) - 1
        /\ Head(s) = s[1] /\ \A i \in 1 .. Len(s) - 1 : t[i] = s[i + 1]
    OBVIOUS
  <1> HIDE DEF t
  <1>2. Head(s) \in S /\ Head(s) \in Range(s)
    BY <1>1 DEF Range
  <1>3. Range(t) \subseteq Range(s)
    BY <1>1 DEF Range
  <1>4. ASSUME NEW i \in DOMAIN s PROVE s[i] \in Range(t) \union {Head(s)}
    <2>1. CASE i = 1
      BY <1>1, <2>1
    <2>2. CASE i # 1
      <3>1. i - 1 \in 1 .. Len(s) - 1 /\ (i - 1) + 1 = i
        BY <1>1, <2>2
      <3>2. t[i - 1] = s[i]
        BY <1>1, <3>1
      <3> QED BY <1>1, <3>1, <3>2 DEF Range
    <2> QED BY <2>1, <2>2
  <1> QED
    BY <1>1, <1>2, <1>3, <1>4 DEF Range, t

LEMMA RemoveRange ==
    ASSUME NEW S, NEW s \in Seq(S), NEW i \in DOMAIN s
    PROVE  /\ RemoveAt(s, i) \in Seq(S)
           /\ Range(RemoveAt(s, i)) \subseteq Range(s)
           /\ Range(s) \subseteq Range(RemoveAt(s, i)) \union {s[i]}
  <1> DEFINE p == SubSeq(s, 1, i - 1)
             q == SubSeq(s, i + 1, Len(s))
             t == p \o q
  <1>1. RemoveAt(s, i) = t
    BY DEF RemoveAt
  <1>2. i \in 1 .. Len(s) /\ Len(s) \in Nat /\ DOMAIN s = 1 .. Len(s)
    OBVIOUS
  <1>3. /\ p \in Seq(S) /\ Len(p) = i - 1 /\ \A j \in 1 .. i - 1 : p[j] = s[j]
    BY <1>2
  <1>4. /\ q \in Seq(S) /\ Len(q) = Len(s) - i
        /\ \A j \in 1 .. Len(s) - i : q[j] = s[i + j]
    BY <1>2
  <1> HIDE DEF p, q
  <1>5. /\ t \in Seq(S) /\ DOMAIN t = 1 .. Len(s) - 1
        /\ \A j \in 1 .. Len(s) - 1 : t[j] = IF j <= i - 1 THEN p[j] ELSE q[j - (i - 1)]
    <2>1. /\ t \in Seq(S) /\ Len(t) = Len(p) + Len(q)
          /\ \A j \in 1 .. Len(p) + Len(q) : t[j] = IF j <= Len(p) THEN p[j] ELSE q[j - Len(p)]
      BY <1>3, <1>4, ConcatProperties
    <2> HIDE DEF t
    <2>2. Len(p) + Len(q) = Len(s) - 1
      BY <1>2, <1>3, <1>4
    <2>3. DOMAIN t = 1 .. Len(s) - 1
      BY <2>1, <2>2
    <2> QED BY <1>3, <2>1, <2>2, <2>3
  <1> HIDE DEF t
  <1>6. ASSUME NEW j \in 1 .. Len(s) - 1
        PROVE  t[j] = IF j < i THEN s[j] ELSE s[j + 1]
    <2>1. CASE j < i
      BY <1>2, <1>3, <1>5, <2>1
    <2>2. CASE j >= i
      <3>1. j - (i - 1) \in 1 .. Len(s) - i /\ i + (j - (i - 1)) = j + 1
        BY <1>2, <2>2
      <3>2. t[j] = q[j - (i - 1)]
        BY <1>2, <1>5, <2>2
      <3> QED BY <1>2, <1>4, <2>2, <3>1, <3>2
    <2> QED BY <1>2, <2>1, <2>2
  <1>7. Range(t) \subseteq Range(s)
    <2>1. ASSUME NEW j \in 1 .. Len(s) - 1
          PROVE  \E k \in 1 .. Len(s) : t[j] = s[k]
      <3>1. j \in 1 .. Len(s) /\ j + 1 \in 1 .. Len(s)
        BY <1>2
      <3> QED BY <1>6, <3>1
    <2>2. Range(t) = {t[j] : j \in 1 .. Len(s) - 1} /\ Range(s) = {s[k] : k \in 1 .. Len(s)}
      BY <1>2, <1>5 DEF Range
    <2> QED BY <2>1, <2>2
  <1>8. ASSUME NEW k \in 1 .. Len(s), k # i PROVE s[k] \in Range(t)
    <2>1. CASE k < i
      <3>1. k \in 1 .. Len(s) - 1 /\ t[k] = s[k]
        BY <1>2, <1>6, <2>1
      <3> QED BY <1>5, <3>1 DEF Range
    <2>2. CASE k > i
      <3>1. k - 1 \in 1 .. Len(s) - 1 /\ ~(k - 1 < i) /\ (k - 1) + 1 = k
        BY <1>2, <2>2
      <3>2. t[k - 1] = s[k]
        BY <1>6, <3>1
      <3> QED BY <1>5, <3>1, <3>2 DEF Range
    <2> QED BY <1>2, <1>8, <2>1, <2>2
  <1>9. Range(s) \subseteq Range(t) \union {s[i]}
    BY <1>2, <1>8 DEF Range
  <1> QED
    BY <1>1, <1>5, <1>7, <1>9

-----------------------------------------------------------------------------
LEMMA SlotsAreNumbers == Slots \subseteq Nat /\ FirstSlot \in Nat /\ MaxSlot \in Nat
  BY FeedAssumption DEF Slots

(* The network only goes on: writes are added for the present slot. *)
Grows ==
    /\ slot <= slot' /\ finalized <= finalized' /\ finalized < slot
    /\ \A pk \in Pubkeys :
          /\ writes'[pk] \in Seq(Slots) /\ Len(writes[pk]) <= Len(writes'[pk])
          /\ \A i \in 1 .. Len(writes'[pk]) :
                writes'[pk][i] = IF i <= Len(writes[pk]) THEN writes[pk][i] ELSE slot

LEMMA WriteGrows ==
    ASSUME NetInv, NEW pk \in Pubkeys, Write(pk)
    PROVE  NetInv' /\ Grows
  <1>1. writes[pk] \in Seq(Slots) /\ slot \in Slots /\ slot \in Nat
    BY FeedAssumption DEF NetInv, Slots
  <1>2. /\ writes' = [writes EXCEPT ![pk] = Append(writes[pk], slot)]
        /\ slot' = slot /\ finalized' = finalized /\ Len(writes[pk]) < MaxWrites[pk]
    BY DEF Write
  <1>3. writes' \in [Pubkeys -> Seq(Slots)]
    BY <1>1, <1>2 DEF NetInv
  <1>4. /\ Len(writes'[pk]) = Len(writes[pk]) + 1
        /\ \A i \in 1 .. Len(writes'[pk]) :
              writes'[pk][i] = IF i <= Len(writes[pk]) THEN writes[pk][i] ELSE slot
    BY <1>1, <1>2 DEF NetInv
  <1>5. \A qk \in Pubkeys : qk # pk => writes'[qk] = writes[qk]
    BY <1>2 DEF NetInv
  <1>6. ASSUME NEW qk \in Pubkeys
        PROVE  /\ Len(writes'[qk]) <= MaxWrites[qk]
               /\ \A i \in 1 .. Len(writes'[qk]) : writes'[qk][i] <= slot
               /\ \A i, j \in 1 .. Len(writes'[qk]) : i <= j => writes'[qk][i] <= writes'[qk][j]
    <2>1. CASE qk # pk
      BY <1>5, <2>1 DEF NetInv
    <2>2. CASE qk = pk
      <3>1. Len(writes'[qk]) <= MaxWrites[qk]
        BY <1>1, <1>2, <1>4, <2>2, FeedAssumption
      <3>2. /\ \A i \in 1 .. Len(writes[pk]) : writes[pk][i] <= slot
            /\ \A i, j \in 1 .. Len(writes[pk]) : i <= j => writes[pk][i] <= writes[pk][j]
        BY DEF NetInv
      <3>3. ASSUME NEW i \in 1 .. Len(writes[pk]) PROVE writes[pk][i] \in Nat
        <4>1. writes[pk][i] \in Slots
          BY <1>1
        <4> QED BY <4>1, SlotsAreNumbers
      <3>4. \A i \in 1 .. Len(writes'[pk]) :
               \/ i \in 1 .. Len(writes[pk]) /\ writes'[pk][i] = writes[pk][i]
               \/ i = Len(writes[pk]) + 1 /\ writes'[pk][i] = slot
        BY <1>1, <1>4
      <3>5. \A i \in 1 .. Len(writes'[pk]) : writes'[pk][i] <= slot
        BY <1>1, <3>2, <3>4
      <3>6. \A i, j \in 1 .. Len(writes'[pk]) : i <= j => writes'[pk][i] <= writes'[pk][j]
        BY <1>1, <3>2, <3>3, <3>4
      <3> QED BY <2>2, <3>1, <3>5, <3>6
    <2> QED BY <2>1, <2>2
  <1>7. NetInv'
    BY <1>2, <1>3, <1>6 DEF NetInv
  <1>8. ASSUME NEW qk \in Pubkeys
        PROVE  /\ writes'[qk] \in Seq(Slots) /\ Len(writes[qk]) <= Len(writes'[qk])
               /\ \A i \in 1 .. Len(writes'[qk]) :
                    writes'[qk][i] = IF i <= Len(writes[qk]) THEN writes[qk][i] ELSE slot
    <2>1. writes[qk] \in Seq(Slots) /\ writes'[qk] \in Seq(Slots)
      BY <1>3 DEF NetInv
    <2>2. CASE qk # pk
      BY <1>5, <2>1, <2>2
    <2>3. CASE qk = pk
      BY <1>1, <1>4, <2>1, <2>3
    <2> QED BY <2>2, <2>3
  <1> QED
    BY <1>1, <1>2, <1>7, <1>8, SlotsAreNumbers DEF Grows, NetInv

LEMMA NetworkGrows ==
    ASSUME NetInv, [Next]_vars
    PROVE  NetInv' /\ Grows
  <1>1. slot \in Nat /\ finalized \in Nat /\ \A pk \in Pubkeys : writes[pk] \in Seq(Slots)
    BY FeedAssumption DEF NetInv, Slots
  <1>2. CASE UNCHANGED netVars
    BY <1>1, <1>2 DEF netVars, NetInv, Grows
  <1>3. CASE NextSlot
    <2>1. slot' \in Slots /\ slot' = slot + 1 /\ finalized' = finalized /\ writes' = writes
      BY <1>1, <1>3, FeedAssumption DEF NextSlot, NetInv, Slots
    <2>2. \A pk \in Pubkeys : \A i \in 1 .. Len(writes[pk]) : writes[pk][i] \in Nat
      BY <1>1, FeedAssumption DEF Slots
    <2> QED BY <1>1, <2>1, <2>2 DEF NetInv, Grows
  <1>4. CASE Finalize
    <2>1. finalized' \in Slots /\ finalized' = finalized + 1 /\ slot' = slot /\ writes' = writes
          /\ finalized' < slot
      BY <1>1, <1>4, FeedAssumption DEF Finalize, NetInv, Slots
    <2> QED BY <1>1, <2>1 DEF NetInv, Grows
  <1>5. ASSUME NEW pk \in Pubkeys, Write(pk)
        PROVE  NetInv' /\ Grows
    BY <1>5, WriteGrows
  <1> QED
    BY <1>2, <1>3, <1>4, <1>5
       DEF Next, vars, netVars, Connect, Disconnect, RecvSnapshot, ReSnapshot, RecvFinalized,
           RecvAccount, FetchSnapshot, Process, StoreAccounts, Ended

(* A connection covers the slots after its first finalized one. *)
LEMMA Coverage ==
    ASSUME NetInv, ConnInv, [Next]_vars
    PROVE  \A s \in Nat : Covered(s)' =>
              /\ node' = node /\ pc = "up" /\ (s <= slot \/ first_full_slot # None => Covered(s))
  <1>1. CASE UNCHANGED <<pc, first_full_slot, missed_until, node>>
    BY <1>1 DEF Covered
  <1>2. CASE Fail
    BY <1>2 DEF Fail, Covered
  <1>3. CASE Connect
    BY <1>3 DEF Connect, Covered, ConnInv
  <1>4. ASSUME NEW s \in FirstSlot .. finalized, RecvFinalized(s)
        PROVE  \A t \in Nat : Covered(t)' =>
                  /\ node' = node /\ pc = "up"
                  /\ (t <= slot \/ first_full_slot # None => Covered(t))
    BY <1>4, SlotsAreNumbers DEF RecvFinalized, Covered, NetInv
  <1> QED
    BY <1>1, <1>2, <1>3, <1>4
       DEF Next, vars, connVars, Write, NextSlot, Finalize, Disconnect, RecvSnapshot, ReSnapshot,
           RecvAccount, FetchSnapshot, Process, StoreAccounts, Ended

(* What a message says stays true. *)
LEMMA MessagesStay ==
    ASSUME NetInv, ConnInv, [Next]_vars, NEW m \in Message
    PROVE  (Streamed(m) => Streamed(m)') /\ (Snapped(m) => Snapped(m)')
  <1>1. m.pk \in Pubkeys /\ m.slot \in Nat /\ m.content \in Nat
    BY SlotsAreNumbers DEF Message
  <1>2. Grows
    BY NetworkGrows
  <1>3. writes[m.pk] \in Seq(Slots) /\ writes'[m.pk] \in Seq(Slots) 
        /\ Len(writes[m.pk]) <= Len(writes'[m.pk])
        /\ \A i \in 1 .. Len(writes'[m.pk]) :
              writes'[m.pk][i] = IF i <= Len(writes[m.pk]) THEN writes[m.pk][i] ELSE slot
    BY <1>1, <1>2 DEF Grows, NetInv
  <1>4. ASSUME Streamed(m) PROVE Streamed(m)'
    <2>1. m.content \in 1 .. Len(writes[m.pk]) /\ writes[m.pk][m.content] = m.slot
      BY <1>4 DEF Streamed
    <2>2. m.slot <= slot
      BY <1>1, <2>1 DEF NetInv
    <2>3. m.content \in 1 .. Len(writes'[m.pk]) /\ writes'[m.pk][m.content] = m.slot
      BY <1>3, <2>1
    <2>4. Covered(m.slot)' => m.version = node' + m.content
      BY <1>1, <1>4, <2>2, Coverage DEF Streamed
    <2> QED BY <1>4, <2>3, <2>4 DEF Streamed
  <1>5. ASSUME Snapped(m) PROVE Snapped(m)'
    <2>1. m.slot <= finalized /\ finalized < slot /\ finalized <= finalized'
          /\ finalized \in Nat /\ finalized' \in Nat /\ slot \in Nat
      BY <1>2, <1>5, NetworkGrows, SlotsAreNumbers DEF Snapped, NetInv, Grows
    <2>2. {i \in DOMAIN writes[m.pk] : writes[m.pk][i] <= m.slot}
            = {i \in DOMAIN writes'[m.pk] : writes'[m.pk][i] <= m.slot}
      <3>1. DOMAIN writes[m.pk] = 1 .. Len(writes[m.pk])
            /\ DOMAIN writes'[m.pk] = 1 .. Len(writes'[m.pk])
            /\ Len(writes[m.pk]) \in Nat /\ Len(writes'[m.pk]) \in Nat
        BY <1>3
      <3>2. ~(slot <= m.slot)
        BY <1>1, <2>1
      <3> QED BY <1>3, <3>1, <3>2
    <2>3. ContentAt(m.pk, m.slot)' = ContentAt(m.pk, m.slot)
      BY <2>2 DEF ContentAt
    <2> QED BY <1>1, <1>5, <2>1, <2>3 DEF Snapped
  <1> QED
    BY <1>4, <1>5

-----------------------------------------------------------------------------
(* The connection *)
LEMMA ConnectionStep ==
    ASSUME NetInv, ConnInv, StreamInv, [Next]_vars
    PROVE  ConnInv'
  <1>1. slot \in Nat /\ slot' \in Nat /\ slot <= slot' /\ FirstSlot \in Nat
        /\ MaxErrors \in Nat /\ NodeBases \subseteq Nat
    BY NetworkGrows, SlotsAreNumbers, FeedAssumption DEF Grows, NetInv
  <1>2. CASE UNCHANGED <<pc, error_count, account_stream, connVars, resnapshots>>
    BY <1>1, <1>2 DEF ConnInv, connVars
  <1>3. CASE Fail /\ pc = "up" /\ resnapshots' = resnapshots
    <2>1. slot_pubkey_writes' \in [Slots -> [Pubkeys -> Nat \union {None}]]
      BY <1>3 DEF Fail, NoWrites
    <2>2. error_count' \in 0 .. MaxErrors + 1
      BY <1>1, <1>3 DEF ConnInv, Fail
    <2>3. Buffer \in Nat
      BY FeedAssumption
    <2>4. /\ pc' = "down" /\ node' = None /\ slot_stream' = 0 /\ first_full_slot' = None
          /\ snapshot_needed' = TRUE /\ max_rooted_slot' = 0 /\ account_stream' = <<>>
          /\ rooted_to_finalized_slots' = Buffer /\ newest_write_slot' = 0
          /\ missed_until' = 0 /\ resnapshots' = resnapshots /\ resnapshots \in Nat
      BY <1>3 DEF ConnInv, Fail
    <2> QED BY <2>1, <2>2, <2>3, <2>4 DEF ConnInv
  <1>4. CASE Connect
    <2>1. /\ pc = "down" /\ error_count' \in {0, error_count}
          /\ UNCHANGED <<account_stream, slot_stream, first_full_slot, snapshot_needed,
                        max_rooted_slot, rooted_to_finalized_slots, newest_write_slot,
                        slot_pubkey_writes, missed_until, resnapshots, slot>>
      BY <1>4 DEF Connect, netVars
    <2>2. \/ pc' = "ended" /\ node' = node
          \/ pc' = "up" /\ node' \in NodeBases /\ ~(error_count' > MaxErrors)
      BY <1>4 DEF Connect, TooManyErrors
    <2>3. /\ error_count' \in 0 .. MaxErrors + 1 /\ node' \in NodeBases \union {None}
          /\ pc' = "up" => node' \in NodeBases /\ error_count' <= MaxErrors
      BY <1>1, <2>1, <2>2 DEF ConnInv
    <2>4. /\ first_full_slot = None /\ snapshot_needed /\ account_stream = <<>>
          /\ pc' \in {"up", "ended"}
      BY <2>1, <2>2 DEF ConnInv
    <2> QED BY <2>1, <2>3, <2>4 DEF ConnInv
  <1>5. ASSUME NEW s \in FirstSlot .. finalized, RecvFinalized(s)
        PROVE  ConnInv'
    <2>1. slot_pubkey_writes' \in [Slots -> [Pubkeys -> Nat \union {None}]]
      BY <1>5 DEF RecvFinalized, ConnInv
    <2>2. s \in Nat /\ s + 1 <= slot /\ slot' = slot
      BY <1>1, <1>5, SlotsAreNumbers DEF RecvFinalized, netVars, NetInv
    <2>3. first_full_slot' # None =>
            /\ first_full_slot' <= missed_until' /\ missed_until' <= slot
            /\ missed_until' >= FirstSlot
      BY <1>1, <1>5, <2>2 DEF RecvFinalized, ConnInv, NetInv, Slots
    <2> QED BY <1>1, <1>5, <2>1, <2>2, <2>3 DEF RecvFinalized, ConnInv
  <1>6. ASSUME NEW i \in DOMAIN account_stream, RecvAccount(i)
        PROVE  ConnInv'
    <2> DEFINE m == account_stream[i]
    <2>1. m \in Message
      BY <1>6 DEF StreamInv
    <2>2. m.slot \in Nat /\ m.slot \in Slots /\ m.version \in Nat /\ m.pk \in Pubkeys
      BY <2>1, SlotsAreNumbers DEF Message
    <2> HIDE DEF m
    <2>3. CASE Fail
      BY <1>3, <1>6, <2>3 DEF RecvAccount
    <2>4. CASE UNCHANGED <<pc, error_count, connVars>>
      BY <1>1, <1>6, <2>4 DEF RecvAccount, ConnInv, connVars, netVars
    <2>5. CASE /\ newest_write_slot' =
                     (IF m.slot > newest_write_slot THEN m.slot ELSE newest_write_slot)
               /\ slot_pubkey_writes' = [slot_pubkey_writes EXCEPT
                     ![m.slot][m.pk] = IF @ = None THEN m.version ELSE @]
               /\ UNCHANGED <<pc, error_count, node, slot_stream, first_full_slot,
                            snapshot_needed, max_rooted_slot, rooted_to_finalized_slots,
                            requested, results, fresh, missed_until, latest_write>>
      <3>1. slot_pubkey_writes' \in [Slots -> [Pubkeys -> Nat \union {None}]]
        BY <2>2, <2>5 DEF ConnInv
      <3>2. pc = "up" /\ slot' = slot /\ resnapshots' = resnapshots
        BY <1>6 DEF RecvAccount, netVars
      <3> QED BY <2>2, <2>5, <3>1, <3>2 DEF ConnInv
    <2> QED BY <1>6, <2>3, <2>4, <2>5 DEF RecvAccount, m
  <1>7. CASE RecvSnapshot
    <2>1. CASE Fail
      BY <1>3, <1>7, <2>1 DEF RecvSnapshot
    <2>2. CASE ~Fail
      <3> DEFINE old == TooOld(Head(results).slot)
      <3>1. /\ snapshot_needed' = (snapshot_needed \/ old)
            /\ rooted_to_finalized_slots' =
                  rooted_to_finalized_slots + IF old THEN BufferStep ELSE 0
            /\ UNCHANGED <<pc, error_count, account_stream, node, slot_stream, first_full_slot,
                          max_rooted_slot, newest_write_slot, slot_pubkey_writes, missed_until,
                          resnapshots, slot>> /\ pc = "up"
        BY <1>7, <2>2 DEF RecvSnapshot, netVars
      <3> HIDE DEF old
      <3>2. snapshot_needed' \in BOOLEAN
        BY <3>1
      <3>3. rooted_to_finalized_slots' \in Nat
        BY <3>1, FeedAssumption DEF ConnInv
      <3> QED BY <3>1, <3>2, <3>3 DEF ConnInv
    <2> QED BY <2>1, <2>2
  <1>8. CASE ReSnapshot
    BY <1>1, <1>8 DEF ReSnapshot, ConnInv, netVars
  <1>9. ASSUME NEW q \in Snapshots, NEW s, FetchSnapshot(q, s)
        PROVE  ConnInv'
    BY <1>1, <1>9 DEF FetchSnapshot, ConnInv, netVars
  <1>10. ASSUME NEW pk \in Pubkeys, Write(pk)
         PROVE  ConnInv'
    BY <1>1, <1>10 DEF Write, ConnInv, connVars
  <1> QED
    BY <1>2, <1>3, <1>4, <1>5, <1>6, <1>7, <1>8, <1>9, <1>10
       DEF Next, vars, connVars, NextSlot, Finalize, Disconnect, Process, StoreAccounts, Ended

-----------------------------------------------------------------------------
(* The snapshots, the stream, and the channel of process_events *)
LEMMA RangeIn ==
    ASSUME NEW S, NEW s \in Seq(S), NEW x \in Range(s)
    PROVE  x \in S
  BY DEF Range

LEMMA DedupParts ==
    ASSUME DedupInv, dedup # <<>>
    PROVE  /\ Head(dedup) \in Dedups /\ Head(dedup) \in Range(dedup)
           /\ Head(dedup).kind = "account" =>
                 Head(dedup).write \in Message /\ Streamed(Head(dedup).write)
           /\ Head(dedup).kind = "snapshot" =>
                 /\ Head(dedup).write \in Taken /\ Head(dedup).write.snapshot \in Snapshots
                 /\ Head(dedup).write.slot \in Slots /\ Head(dedup).write.slot <= finalized
  <1> DEFINE x == Head(dedup)
  <1>1. x \in Dedups /\ x \in Range(dedup)
    BY TailRange DEF DedupInv
  <1>2. /\ x.kind = "account" => Streamed(x.write)
        /\ x.kind = "snapshot" => x.write.slot <= finalized
    BY <1>1 DEF DedupInv
  <1> HIDE DEF x
  <1>3. /\ x.kind = "account" => x.write \in Message
        /\ x.kind = "snapshot" =>
              x.write \in Taken /\ x.write.snapshot \in Snapshots /\ x.write.slot \in Slots
    BY <1>1 DEF Dedups, Taken
  <1> QED
    BY <1>1, <1>2, <1>3 DEF x

(* The two sends of a snapshot, in their order. *)
LEMMA SnapshotSends ==
    /\ ProcessSnapshot =>
          /\ QueueAccounts(Head(dedup).write) /\ announced' = announced
          /\ ending' = Head(dedup).write /\ dedup # <<>> /\ dedup' = Tail(dedup)
    /\ FinishSnapshot =>
          /\ announced' = announced \union {ending} /\ ending' = None
          /\ account_queue' = account_queue /\ dedup' = dedup
  BY DEF ProcessSnapshot, FinishSnapshot, Send, QueueAccounts, AnnounceEnd

LEMMA RequestStep ==
    ASSUME NetInv, RequestInv, DedupInv, [Next]_vars
    PROVE  RequestInv'
  <1>1. finalized \in Nat /\ finalized' \in Nat /\ finalized <= finalized'
    BY NetworkGrows, SlotsAreNumbers DEF Grows, NetInv
  <1>2. ASSUME NEW r \in Range(results) PROVE r.slot # None => r.slot \in Nat
    <2>1. r \in Result
      BY RangeIn DEF RequestInv
    <2> QED BY <2>1, SlotsAreNumbers DEF Result
  <1>3. \A r \in Range(results) : r.slot # None => r.slot <= finalized'
    BY <1>1, <1>2 DEF RequestInv
  <1>4. CASE UNCHANGED <<requested, results, fresh, ending, announced>>
    BY <1>3, <1>4 DEF RequestInv
  <1>5. CASE Fail /\ announced' = announced /\ ending' = ending
    BY <1>5 DEF RequestInv, Fail, Range
  <1>6. ASSUME NEW s \in FirstSlot .. finalized, RecvFinalized(s)
        PROVE  RequestInv'
    <2> DEFINE n == IF snapshot_needed /\ 
                       (IF s > max_rooted_slot THEN s ELSE max_rooted_slot) >
                       (IF first_full_slot = None THEN s + 1 ELSE first_full_slot) +
                         rooted_to_finalized_slots THEN 1 ELSE 0
    <2>1. requested' = [q \in Snapshots |-> requested[q] + n]
      BY <1>6 DEF RecvFinalized
    <2>2. n \in Nat
      OBVIOUS
    <2> HIDE DEF n
    <2>3. requested' \in [Snapshots -> Nat]
      BY <2>1, <2>2 DEF RequestInv
    <2> QED BY <1>3, <1>6, <2>3 DEF RequestInv, RecvFinalized, procVars
  <1>7. ASSUME NEW q \in Snapshots, NEW s \in (FirstSlot .. finalized) \union {None},
               FetchSnapshot(q, s)
        PROVE  RequestInv'
    <2> DEFINE r == [snapshot |-> q, slot |-> s]
    <2>1. r \in Result /\ (r.slot # None => r.slot <= finalized)
      BY <1>1, FeedAssumption DEF Result, Slots, NetInv
    <2>2. results' = Append(results, r) /\ requested' = [requested EXCEPT ![q] = @ - 1]
          /\ requested[q] > 0 /\ fresh' = fresh /\ announced' = announced /\ ending' = ending
          /\ finalized' = finalized
      BY <1>7 DEF FetchSnapshot, procVars, netVars
    <2> HIDE DEF r
    <2>3. results' \in Seq(Result) /\ Range(results') = Range(results) \union {r}
      BY <2>1, <2>2, AppendRange DEF RequestInv
    <2>4. requested' \in [Snapshots -> Nat]
      BY <2>2 DEF RequestInv
    <2> QED BY <2>1, <2>2, <2>3, <2>4 DEF RequestInv
  <1>8. CASE RecvSnapshot /\ ~Fail
    <2>1. results # <<>> /\ results' = Tail(results) /\ requested' = requested
          /\ announced' = announced /\ ending' = ending /\ finalized' = finalized
          /\ fresh' \subseteq fresh \union {Head(results).snapshot}
      BY <1>8 DEF RecvSnapshot, netVars
    <2>2. Tail(results) \in Seq(Result) /\ Head(results) \in Result
          /\ Range(Tail(results)) \subseteq Range(results)
      BY <2>1, TailRange DEF RequestInv
    <2>3. Head(results).snapshot \in Snapshots
      BY <2>2 DEF Result
    <2> QED BY <2>1, <2>2, <2>3 DEF RequestInv
  <1>9. CASE Process
    <2>1. announced' \subseteq Taken /\ ending' \in Taken \union {None}
      BY <1>9, DedupParts, SnapshotSends DEF Process, ProcessSnapshot, RequestInv
    <2> QED BY <1>3, <1>9, <2>1 DEF RequestInv, Process, connVars, netVars
  <1>10. ASSUME NEW i \in DOMAIN account_stream, RecvAccount(i)
         PROVE  RequestInv'
    BY <1>4, <1>5, <1>10 DEF RecvAccount, connVars
  <1>11. CASE RecvSnapshot
    BY <1>5, <1>8, <1>11 DEF RecvSnapshot
  <1> QED
    BY <1>4, <1>5, <1>6, <1>7, <1>9, <1>10, <1>11
       DEF Next, vars, connVars, procVars, Write, NextSlot, Finalize, Connect, Disconnect,
           ReSnapshot, StoreAccounts, Ended

LEMMA StreamStep ==
    ASSUME NetInv, ConnInv, StreamInv, [Next]_vars
    PROVE  StreamInv'
  <1>1. \A m \in Range(account_stream) :
            m \in Message /\ Streamed(m)' /\ m.version = node + m.content
    BY RangeIn, MessagesStay DEF StreamInv
  <1>2. CASE account_stream' = account_stream /\ node' = node
    BY <1>1, <1>2 DEF StreamInv
  <1>3. CASE account_stream' = <<>>
    BY <1>3 DEF StreamInv, Range
  <1>4. ASSUME NEW pk \in Pubkeys, Write(pk)
        PROVE  StreamInv'
    <2>1. CASE pc # "up"
      BY <1>2, <1>4, <2>1 DEF Write, connVars
    <2>2. CASE pc = "up"
      <3>1. writes'[pk] = Append(writes[pk], slot) /\ writes[pk] \in Seq(Slots) /\ slot \in Slots
        BY <1>4 DEF Write, NetInv
      <3>2. PICK w \in Nat : w = Len(writes'[pk])
        BY <3>1
      <3>3. w \in 1 .. w /\ writes'[pk][w] = slot
        BY <3>1, <3>2
      <3>4. node \in Nat /\ node \in NodeBases
        BY <2>2, FeedAssumption DEF ConnInv
      <3>5. w <= MaxWrites[pk]
        BY <3>2, NetworkGrows DEF NetInv
      <3>6. node + w < SnapVersion
        <4>1. SnapVersion > node + MaxWrites[pk] /\ MaxWrites[pk] \in Nat /\ SnapVersion \in Nat
          BY <3>4, FeedAssumption
        <4> QED BY <3>4, <3>5, <4>1
      <3>7. PICK m \in Message :
                m = [pk |-> pk, slot |-> slot, content |-> w, version |-> node + w]
        <4>1. node + w \in Nat
          BY <3>4
        <4>2. [pk |-> pk, slot |-> slot, content |-> w, version |-> node + w] \in Message
          BY <3>1, <4>1 DEF Message
        <4> QED BY <4>2
      <3>8. m.pk = pk /\ m.slot = slot /\ m.content = w /\ m.version = node + w
        BY <3>7
      <3>9. account_stream' = Append(account_stream, m) /\ node' = node
        BY <1>4, <2>2, <3>2, <3>7 DEF Write, connVars
      <3>10. Streamed(m)'
        BY <3>2, <3>3, <3>6, <3>8, <3>9 DEF Streamed
      <3>11. /\ account_stream' \in Seq(Message)
             /\ Range(account_stream') = Range(account_stream) \union {m}
        BY <3>9, AppendRange DEF StreamInv
      <3> QED BY <1>1, <3>8, <3>9, <3>10, <3>11 DEF StreamInv
    <2> QED BY <2>1, <2>2
  <1>5. ASSUME NEW i \in DOMAIN account_stream, RecvAccount(i)
        PROVE  StreamInv'
    <2>1. CASE Fail
      BY <1>3, <2>1 DEF Fail
    <2>2. CASE account_stream' = RemoveAt(account_stream, i) /\ node' = node
      <3>1. /\ account_stream' \in Seq(Message)
            /\ Range(account_stream') \subseteq Range(account_stream)
        BY <2>2, RemoveRange DEF StreamInv
      <3> QED BY <1>1, <2>2, <3>1 DEF StreamInv
    <2> QED BY <1>5, <2>1, <2>2 DEF RecvAccount, connVars
  <1>6. CASE Connect
    BY <1>3, <1>6 DEF Connect, ConnInv
  <1>7. CASE RecvSnapshot
    BY <1>2, <1>3, <1>7 DEF RecvSnapshot, Fail
  <1> QED
    BY <1>2, <1>3, <1>4, <1>5, <1>6, <1>7
       DEF Next, vars, connVars, NextSlot, Finalize, Disconnect, Fail, ReSnapshot, RecvFinalized,
           FetchSnapshot, Process, StoreAccounts, Ended

(* What an element of the channel says stays true. *)
LEMMA DedupStays ==
    ASSUME NetInv, ConnInv, DedupInv, [Next]_vars, NEW x \in Range(dedup)
    PROVE  /\ x.kind = "account" => Streamed(x.write)'
           /\ x.kind = "snapshot" => x.write.slot <= finalized'
  <1>1. x \in Dedups
    BY RangeIn DEF DedupInv
  <1>2. x.kind = "account" => Streamed(x.write) /\ x.write \in Message
    BY <1>1 DEF DedupInv, Dedups
  <1>3. x.kind = "snapshot" => x.write.slot <= finalized /\ x.write.slot \in Nat
    BY <1>1, SlotsAreNumbers DEF DedupInv, Dedups, Taken
  <1>4. finalized \in Nat /\ finalized' \in Nat /\ finalized <= finalized'
    BY NetworkGrows, SlotsAreNumbers DEF Grows, NetInv
  <1> QED
    BY <1>2, <1>3, <1>4, MessagesStay

LEMMA DedupStep ==
    ASSUME NetInv, ConnInv, RequestInv, StreamInv, DedupInv, [Next]_vars
    PROVE  DedupInv'
  <1> DEFINE Good(x) == /\ x.kind = "account" => Streamed(x.write)'
                        /\ x.kind = "snapshot" => x.write.slot <= finalized'
  <1>1. \A x \in Range(dedup) : Good(x)
    BY DedupStays
  <1>2. CASE dedup' = dedup
    BY <1>1, <1>2 DEF DedupInv
  <1>3. ASSUME NEW x \in Dedups, Good(x), dedup' = Append(dedup, x), Len(dedup) < DedupQueueSize
        PROVE  DedupInv'
    <2>1. dedup' \in Seq(Dedups) /\ Range(dedup') = Range(dedup) \union {x}
      BY <1>3, AppendRange DEF DedupInv
    <2>2. Len(dedup') <= DedupQueueSize
      <3>1. Len(dedup') = Len(dedup) + 1 /\ Len(dedup) \in Nat
        BY <1>3 DEF DedupInv
      <3> QED BY <1>3, <3>1, FeedAssumption
    <2> QED BY <1>1, <1>3, <2>1, <2>2 DEF DedupInv
  <1>4. ASSUME NEW i \in DOMAIN account_stream, RecvAccount(i)
        PROVE  DedupInv'
    <2>1. PICK m \in Message : m = account_stream[i] /\ m \in Range(account_stream)
      BY DEF StreamInv, Range
    <2>2. Streamed(m)'
      BY <2>1, MessagesStay DEF StreamInv
    <2> DEFINE x == [kind |-> "account", write |-> m]
    <2>3. dedup' = dedup \/ (dedup' = Append(dedup, x) /\ Len(dedup) < DedupQueueSize)
      BY <1>4, <2>1 DEF RecvAccount, Fail
    <2>4. x \in Dedups /\ Good(x)
      BY <2>1, <2>2 DEF Dedups
    <2> HIDE DEF x, Good
    <2> QED BY <1>2, <1>3, <2>3, <2>4
  <1>5. CASE RecvSnapshot
    <2>0. PICK r : r = Head(results)
      OBVIOUS
    <2> DEFINE x == [kind |-> "snapshot", write |-> r]
    <2>1. \/ dedup' = dedup
          \/ /\ dedup' = Append(dedup, x) /\ Len(dedup) < DedupQueueSize
             /\ results # <<>> /\ r.slot # None /\ finalized' = finalized
      BY <1>5, <2>0 DEF RecvSnapshot, Fail, netVars
    <2>2. ASSUME results # <<>>, r.slot # None, finalized' = finalized PROVE x \in Dedups /\ Good(x)
      <3>1. r \in Result /\ r \in Range(results)
        BY <2>0, <2>2, TailRange DEF RequestInv
      <3>2. r.slot <= finalized'
        BY <2>2, <3>1 DEF RequestInv
      <3>3. r \in Taken
        BY <2>2, <3>1 DEF Result, Taken
      <3> QED BY <3>2, <3>3 DEF Dedups
    <2> HIDE DEF x, Good
    <2> QED BY <1>2, <1>3, <2>1, <2>2
  <1>6. ASSUME NEW s \in FirstSlot .. finalized, RecvFinalized(s)
        PROVE  DedupInv'
    <2> DEFINE x == [kind |-> "slot", write |-> s]
    <2>1. s \in Slots
      BY SlotsAreNumbers DEF NetInv, Slots
    <2>2. x \in Dedups /\ Good(x)
      BY <2>1 DEF Dedups
    <2>3. dedup' = Append(dedup, x) /\ Len(dedup) < DedupQueueSize
      BY <1>6 DEF RecvFinalized
    <2> HIDE DEF x, Good
    <2> QED BY <1>3, <2>2, <2>3
  <1>7. CASE dedup # <<>> /\ dedup' = Tail(dedup)
    <2>1. dedup' \in Seq(Dedups) /\ Range(dedup') \subseteq Range(dedup) /\ Len(dedup') < Len(dedup)
      BY <1>7, TailRange DEF DedupInv
    <2>2. Len(dedup') <= DedupQueueSize
      BY <2>1, FeedAssumption DEF DedupInv
    <2> QED BY <1>1, <2>1, <2>2 DEF DedupInv
  <1> HIDE DEF Good
  <1> QED
    BY <1>2, <1>4, <1>5, <1>6, <1>7
       DEF Next, vars, Write, NextSlot, Finalize, Connect, Disconnect, Fail, ReSnapshot,
           FetchSnapshot, Process, ProcessWrite, ProcessSnapshot, FinishSnapshot, ProcessSlot,
           StoreAccounts, Ended

-----------------------------------------------------------------------------
(* The updates on their way to the chain data *)
LEMMA ContentIsNumber ==
    ASSUME NetInv, NEW pk \in Pubkeys, NEW s
    PROVE  ContentAt(pk, s) \in Nat
  <1>1. DOMAIN writes[pk] = 1 .. Len(writes[pk]) /\ Len(writes[pk]) \in Nat
    BY DEF NetInv
  <1>2. IsFiniteSet(1 .. Len(writes[pk]))
    <2>1. PICK n \in Int : n = Len(writes[pk])
      BY <1>1
    <2>2. IsFiniteSet(1 .. n)
      BY FS_Interval
    <2> QED BY <2>1, <2>2
  <1>3. IsFiniteSet({i \in DOMAIN writes[pk] : writes[pk][i] <= s})
    BY <1>1, <1>2, FS_Subset
  <1> QED
    BY <1>3, FS_CardinalityType DEF ContentAt

LEMMA UpdatesStay ==
    ASSUME NetInv, ConnInv, [Next]_vars, NEW u, Update(u)
    PROVE  Update(u)'
  BY MessagesStay DEF Update, Right

(* The set of messages that ProcessSnapshot makes of a snapshot. *)
LEMMA SnapshotUpdate ==
    ASSUME NetInv, NEW q \in Snapshots, NEW s \in Slots, s <= finalized, NEW u,
           u = {[pk |-> pk, slot |-> s, version |-> SnapVersion,
                 content |-> ContentAt(pk, s)] : pk \in Wanted(q)}
    PROVE  Update(u)
  <1>1. Wanted(q) \subseteq Pubkeys
    BY FeedAssumption DEF Wanted
  <1>2. ASSUME NEW m \in u
        PROVE  m \in Message /\ Snapped(m)
    <2>1. PICK pk \in Wanted(q) : m = [pk |-> pk, slot |-> s, version |-> SnapVersion,
                                       content |-> ContentAt(pk, s)]
      OBVIOUS
    <2>2. ContentAt(pk, s) \in Nat /\ SnapVersion \in Nat /\ pk \in Pubkeys
      BY <1>1, ContentIsNumber, FeedAssumption
    <2>3. m.pk = pk /\ m.slot = s /\ m.version = SnapVersion /\ m.content = ContentAt(pk, s)
      BY <2>1
    <2>4. m \in Message
      BY <2>1, <2>2 DEF Message
    <2> QED BY <2>3, <2>4 DEF Snapped
  <1>3. \A m, n \in u : m.pk = n.pk => m = n
    OBVIOUS
  <1> QED
    BY <1>2, <1>3 DEF Update, Right

LEMMA QueueStep ==
    ASSUME NetInv, ConnInv, DedupInv, QueueInv, [Next]_vars
    PROVE  QueueInv'
  <1>1. \A u \in Range(account_queue) : Update(u)'
    BY UpdatesStay DEF QueueInv
  <1>2. CASE account_queue' = account_queue
    BY <1>1, <1>2 DEF QueueInv
  <1>3. ASSUME NEW u, Update(u), account_queue' = Append(account_queue, u)
        PROVE  QueueInv'
    <2>1. u \in SUBSET Message
      BY <1>3 DEF Update
    <2>2. account_queue' \in Seq(SUBSET Message)
          /\ Range(account_queue') = Range(account_queue) \union {u}
      BY <1>3, <2>1, AppendRange DEF QueueInv
    <2>3. Update(u)'
      BY <1>3, UpdatesStay
    <2> QED BY <1>1, <2>2, <2>3 DEF QueueInv
  <1>4. CASE account_queue # <<>> /\ account_queue' = Tail(account_queue)
    <2>1. /\ account_queue' \in Seq(SUBSET Message)
          /\ Range(account_queue') \subseteq Range(account_queue)
      BY <1>4, TailRange DEF QueueInv
    <2> QED BY <1>1, <2>1 DEF QueueInv
  <1>5. CASE ProcessWrite
    <2>1. PICK m : m = Head(dedup).write
      OBVIOUS
    <2>2. m \in Message /\ Streamed(m)
      BY <1>5, <2>1, DedupParts DEF ProcessWrite
    <2>3. Update({m})
      BY <2>2 DEF Update, Right
    <2> QED BY <1>2, <1>3, <1>5, <2>1, <2>3 DEF ProcessWrite
  <1>6. CASE ProcessSnapshot
    <2>1. PICK q, s : q = Head(dedup).write.snapshot /\ s = Head(dedup).write.slot
      OBVIOUS
    <2>2. q \in Snapshots /\ s \in Slots /\ s <= finalized
      BY <1>6, <2>1, DedupParts DEF ProcessSnapshot
    <2>3. PICK u : u = {[pk |-> pk, slot |-> s, version |-> SnapVersion,
                         content |-> ContentAt(pk, s)] : pk \in Wanted(q)}
      OBVIOUS
    <2>4. Update(u)
      BY <2>2, <2>3, SnapshotUpdate
    <2>5. account_queue' = Append(account_queue, u)
      BY <1>6, <2>1, <2>3, SnapshotSends DEF QueueAccounts
    <2> QED BY <1>3, <2>4, <2>5
  <1>7. CASE Process
    BY <1>2, <1>5, <1>6, <1>7, SnapshotSends DEF Process, ProcessSlot
  <1> QED
    BY <1>2, <1>4, <1>7
       DEF Next, vars, procVars, Write, NextSlot, Finalize, Connect, Disconnect, RecvSnapshot,
           ReSnapshot, RecvFinalized, RecvAccount, FetchSnapshot, StoreAccounts, Ended

-----------------------------------------------------------------------------
(* The chain data *)

(* What handle_updated_account does to one account. *)
StoresOne(m, pk) ==
    /\ m.pk = pk
    /\ chain_data'[pk] = IF Newer(m, chain_data[pk]) THEN m ELSE chain_data[pk]
    /\ snapshot_slot'[pk] = IF m.version = SnapVersion /\ m.slot > snapshot_slot[pk]
                            THEN m.slot ELSE snapshot_slot[pk]

LEMMA StoreOne ==
    ASSUME QueueInv, StoreAccounts, NEW pk \in Pubkeys
    PROVE  LET u == Head(account_queue)
           IN  /\ Update(u)
               /\ \/ /\ \A m \in u : m.pk # pk
                     /\ chain_data'[pk] = chain_data[pk] /\ snapshot_slot'[pk] = snapshot_slot[pk]
                  \/ \E m \in u : StoresOne(m, pk)
  <1>1. PICK u : u = Head(account_queue)
    OBVIOUS
  <1>2. Update(u)
    BY <1>1, TailRange DEF QueueInv, StoreAccounts
  <1> DEFINE Of == CHOOSE m \in u : m.pk = pk
             snap == {m.pk : m \in {n \in u : n.version = SnapVersion}}
  <1>3. /\ chain_data'[pk] = IF pk \in {m.pk : m \in u} /\ Newer(Of, chain_data[pk])
                             THEN Of ELSE chain_data[pk]
        /\ snapshot_slot'[pk] = IF pk \in snap /\ Of.slot > snapshot_slot[pk]
                                THEN Of.slot ELSE snapshot_slot[pk]
    BY <1>1 DEF StoreAccounts
  <1>4. CASE \A m \in u : m.pk # pk
    BY <1>1, <1>2, <1>3, <1>4
  <1>5. CASE \E m \in u : m.pk = pk
    <2>1. PICK m : m = Of
      OBVIOUS
    <2>2. m \in u /\ m.pk = pk
      BY <1>5, <2>1
    <2>3. pk \in snap <=> m.version = SnapVersion
      BY <1>2, <2>2 DEF Update
    <2>4. pk \in {n.pk : n \in u}
      BY <2>2
    <2> HIDE DEF Of, snap
    <2>5. StoresOne(m, pk)
      BY <1>3, <2>1, <2>2, <2>3, <2>4 DEF StoresOne
    <2> QED BY <1>1, <1>2, <2>2, <2>5
  <1> QED
    BY <1>4, <1>5

LEMMA RightParts ==
    ASSUME NEW m, Right(m)
    PROVE  /\ m \in Message /\ m # None /\ m.pk \in Pubkeys /\ m.slot \in Nat /\ m.slot \in Slots
           /\ m.content \in Nat /\ m.version \in Nat /\ m.version <= SnapVersion
           /\ SnapVersion \in Nat
  <1>1. m \in Message /\ SnapVersion \in Nat /\ None \notin Message
    BY FeedAssumption DEF Right
  <1>2. m.version <= SnapVersion
    BY <1>1 DEF Right, Streamed, Snapped, Message
  <1> QED
    BY <1>1, <1>2, SlotsAreNumbers DEF Message

LEMMA DataStep ==
    ASSUME NetInv, ConnInv, QueueInv, DataInv, [Next]_vars
    PROVE  DataInv'
  <1>1. \A pk \in Pubkeys :
            chain_data[pk] # None => Right(chain_data[pk]) /\ chain_data[pk] \in Message
    BY RightParts DEF DataInv
  <1>2. ASSUME NEW m, Right(m) PROVE Right(m)'
    BY <1>2, MessagesStay DEF Right
  <1>3. CASE UNCHANGED dataVars
    <2>1. ASSUME NEW pk \in Pubkeys, NEW d, d = chain_data'[pk], d # None PROVE Right(d)'
      BY <1>1, <1>2, <1>3, <2>1 DEF dataVars
    <2>2. ASSUME NEW pk \in Pubkeys, chain_data'[pk] # None
          PROVE  Right(chain_data[pk])'
      BY <2>1, <2>2
    <2> QED BY <1>3, <2>2 DEF dataVars, DataInv
  <1>4. CASE StoreAccounts
    <2>1. ASSUME NEW pk \in Pubkeys, NEW d, NEW s, d = chain_data'[pk], s = snapshot_slot'[pk]
          PROVE  /\ d \in Message \union {None} /\ s \in Nat
                 /\ d # None => Right(d)' /\ d.pk = pk /\ (d.version = SnapVersion => d.slot <= s)
                 /\ s > 0 => d # None /\ d.slot >= s /\ (d.slot = s => d.version = SnapVersion)
      <3>1. PICK e, r : e = chain_data[pk] /\ r = snapshot_slot[pk]
        OBVIOUS
      <3>2. /\ e \in Message \union {None} /\ r \in Nat
            /\ e # None => Right(e) /\ e.pk = pk /\ (e.version = SnapVersion => e.slot <= r)
            /\ r > 0 => e # None /\ e.slot >= r /\ (e.slot = r => e.version = SnapVersion)
        BY <3>1 DEF DataInv
      <3>3. CASE d = e /\ s = r
        BY <1>2, <3>2, <3>3
      <3>4. ASSUME NEW m \in Head(account_queue), Right(m), StoresOne(m, pk)
            PROVE  /\ d \in Message \union {None} /\ s \in Nat
                   /\ d # None => Right(d)' /\ d.pk = pk /\ (d.version = SnapVersion => d.slot <= s)
                   /\ s > 0 => d # None /\ d.slot >= s /\ (d.slot = s => d.version = SnapVersion)
        <4>1. /\ m.pk = pk /\ d = (IF Newer(m, e) THEN m ELSE e)
              /\ s = IF m.version = SnapVersion /\ m.slot > r THEN m.slot ELSE r
          BY <2>1, <3>1, <3>4 DEF StoresOne
        <4>2. /\ m \in Message /\ m # None /\ m.slot \in Nat /\ m.version \in Nat
              /\ m.version <= SnapVersion /\ SnapVersion \in Nat
          BY <3>4, RightParts
        <4>3. e # None => /\ e \in Message /\ e.slot \in Nat /\ e.version \in Nat
                          /\ e.version <= SnapVersion
          BY <3>2, RightParts
        <4>4. CASE Newer(m, e)
          <5>1. Right(d)' /\ d = m
            BY <1>2, <3>4, <4>1, <4>4
          <5>2. e # None => m.slot > e.slot \/ (m.slot = e.slot /\ m.version >= e.version)
            BY <4>4 DEF Newer
          <5> QED BY <3>2, <4>1, <4>2, <4>3, <5>1, <5>2
        <4>5. CASE ~Newer(m, e)
          <5>1. d = e /\ e # None /\ (m.slot < e.slot \/ (m.slot = e.slot /\ m.version < e.version))
            BY <4>1, <4>2, <4>3, <4>5 DEF Newer
          <5>2. Right(d)'
            BY <1>2, <3>2, <5>1
          <5> QED BY <3>2, <4>1, <4>2, <4>3, <5>1, <5>2
        <4> QED BY <4>4, <4>5
      <3> QED BY <1>4, <2>1, <3>1, <3>3, <3>4, StoreOne DEF Update
    <2>2. ASSUME NEW pk \in Pubkeys, chain_data'[pk] # None
          PROVE  Right(chain_data[pk])'
      BY <2>1, <2>2
    <2>3. chain_data' \in [Pubkeys -> Message \union {None}] /\ snapshot_slot' \in [Pubkeys -> Nat]
      <3>1. DOMAIN chain_data' = Pubkeys /\ DOMAIN snapshot_slot' = Pubkeys
            /\ chain_data' = [pk \in Pubkeys |-> chain_data'[pk]]
            /\ snapshot_slot' = [pk \in Pubkeys |-> snapshot_slot'[pk]]
        BY <1>4 DEF StoreAccounts
      <3> QED BY <2>1, <3>1
    <2> QED BY <2>1, <2>2, <2>3 DEF DataInv
  <1> QED
    BY <1>3, <1>4
       DEF Next, vars, Write, NextSlot, Finalize, Connect, Disconnect, RecvSnapshot,
           ReSnapshot, RecvFinalized, RecvAccount, FetchSnapshot, Process, Ended

-----------------------------------------------------------------------------
(* The deduplication *)

(* The write version that process_account_updated_from_sources remembers of an
   account in slot t is the one before, none, or that of a write it has queued. *)
Remembers(t, pk) ==
    \/ latest_write'[t][pk] \in {0, latest_write[t][pk]}
    \/ \E m \in Message : /\ Streamed(m) /\ m.slot = t /\ m.pk = pk
                          /\ latest_write'[t][pk] = m.version
                          /\ account_queue' = Append(account_queue, {m})

LEMMA LatestWrite ==
    ASSUME DedupInv, LatestInv, [Next]_vars
    PROVE  /\ latest_write' \in [Slots -> [Pubkeys -> Nat]]
           /\ \A t \in Slots, pk \in Pubkeys : Remembers(t, pk)
  <1>1. CASE latest_write' = latest_write
    BY <1>1 DEF Remembers, LatestInv
  <1>2. CASE ProcessWrite /\ latest_write' # latest_write
    <2>1. PICK m : m = Head(dedup).write
      OBVIOUS
    <2>2. m \in Message /\ Streamed(m)
      BY <1>2, <2>1, DedupParts DEF ProcessWrite
    <2>3. m.pk \in Pubkeys /\ m.version \in Nat /\ m.slot \in Slots
      BY <2>2 DEF Message
    <2>4. /\ account_queue' = Append(account_queue, {m})
          /\ latest_write' =
                [t \in Slots |->
                   IF t < m.slot - Retention THEN [pk \in Pubkeys |-> 0]
                   ELSE IF t = m.slot THEN [latest_write[t] EXCEPT ![m.pk] = m.version]
                   ELSE latest_write[t]]
      BY <1>2, <2>1 DEF ProcessWrite
    <2>5. ASSUME NEW t \in Slots
          PROVE  /\ latest_write'[t] \in [Pubkeys -> Nat]
                 /\ \A pk \in Pubkeys : Remembers(t, pk)
      <3>1. CASE latest_write'[t] = [pk \in Pubkeys |-> 0]
        BY <3>1 DEF Remembers
      <3>2. CASE latest_write'[t] = latest_write[t]
        BY <3>2 DEF Remembers, LatestInv
      <3>3. CASE t = m.slot /\ latest_write'[t] = [latest_write[t] EXCEPT ![m.pk] = m.version]
        <4>1. latest_write[t] \in [Pubkeys -> Nat]
          BY DEF LatestInv
        <4>2. latest_write'[t] \in [Pubkeys -> Nat]
          BY <2>3, <3>3, <4>1
        <4>3. ASSUME NEW pk \in Pubkeys PROVE Remembers(t, pk)
          <5>1. CASE pk = m.pk
            BY <2>2, <2>3, <2>4, <3>3, <4>1, <5>1 DEF Remembers
          <5>2. CASE pk # m.pk
            BY <3>3, <4>1, <5>2 DEF Remembers
          <5> QED BY <5>1, <5>2
        <4> QED BY <4>2, <4>3
      <3> QED BY <2>4, <3>1, <3>2, <3>3
    <2>6. latest_write' = [t \in Slots |-> latest_write'[t]]
      BY <2>4
    <2> QED BY <2>5, <2>6
  <1> QED
    BY <1>1, <1>2
       DEF Next, vars, procVars, Write, NextSlot, Finalize, Connect, Disconnect, Fail,
           RecvSnapshot, ReSnapshot, RecvFinalized, RecvAccount, FetchSnapshot, Process,
           ProcessSnapshot, ProcessSlot, StoreAccounts, Ended

LEMMA LatestStep ==
    ASSUME NetInv, ConnInv, DedupInv, LatestInv, [Next]_vars
    PROVE  LatestInv'
  <1>1. ASSUME NEW t \in Slots, NEW pk \in Pubkeys
        PROVE  /\ t > slot' => latest_write'[t][pk] = 0
               /\ Covered(t)' => latest_write'[t][pk] <= node' + Len(writes'[pk])
    <2>1. /\ t \in Nat /\ slot \in Nat /\ slot' \in Nat /\ slot <= slot'
          /\ Len(writes[pk]) \in Nat /\ Len(writes'[pk]) \in Nat
          /\ Len(writes[pk]) <= Len(writes'[pk])
      <3>1. writes[pk] \in Seq(Slots) /\ writes'[pk] \in Seq(Slots) /\ Grows
        BY NetworkGrows DEF Grows, NetInv
      <3>2. slot \in Slots /\ slot' \in Slots
        BY NetworkGrows DEF NetInv
      <3> QED BY <3>1, <3>2, SlotsAreNumbers DEF Grows
    <2>lens. PICK a \in Nat, b \in Nat : a = Len(writes[pk]) /\ b = Len(writes'[pk]) /\ a <= b
      BY <2>1
    <2>2. latest_write[t][pk] \in Nat /\ latest_write'[t][pk] \in Nat
      BY LatestWrite DEF LatestInv
    <2>3. Covered(t)' => /\ node' = node /\ node \in Nat
                         /\ (t <= slot \/ first_full_slot # None => Covered(t))
      BY <2>1, Coverage, FeedAssumption DEF ConnInv
    <2>4. CASE latest_write'[t][pk] = 0
      BY <2>1, <2>3, <2>4
    <2>5. CASE latest_write'[t][pk] = latest_write[t][pk]
      <3>1. t > slot => latest_write[t][pk] = 0
        BY DEF LatestInv
      <3>2. Covered(t) => latest_write[t][pk] <= node + Len(writes[pk])
        BY DEF LatestInv
      <3>3. t > slot' => latest_write'[t][pk] = 0
        BY <2>1, <2>5, <3>1
      <3>4. ASSUME Covered(t)' PROVE latest_write'[t][pk] <= node' + Len(writes'[pk])
        <4>1. node' = node /\ node \in Nat
          BY <2>3, <3>4
        <4>2. CASE t <= slot
          <5>1. latest_write[t][pk] <= node + a
            BY <2>3, <2>lens, <3>2, <3>4, <4>2
          <5>2. latest_write'[t][pk] <= node' + b
            BY <2>2, <2>5, <2>lens, <4>1, <5>1
          <5> QED BY <2>lens, <5>2
        <4>3. CASE ~(t <= slot)
          BY <2>1, <2>5, <3>1, <4>1, <4>3
        <4> QED BY <4>2, <4>3
      <3> QED BY <3>3, <3>4
    <2>6. ASSUME NEW m \in Message, Streamed(m), m.slot = t, m.pk = pk,
                 latest_write'[t][pk] = m.version
          PROVE  /\ t > slot' => latest_write'[t][pk] = 0
                 /\ Covered(t)' => latest_write'[t][pk] <= node' + Len(writes'[pk])
      <3>1. m.content \in 1 .. Len(writes[pk]) /\ writes[pk][m.content] = t
        BY <2>6 DEF Streamed
      <3>2. t <= slot
        BY <3>1 DEF NetInv
      <3>3. Covered(t) => m.version = node + m.content
        BY <2>6 DEF Streamed
      <3>4. ASSUME Covered(t)' PROVE latest_write'[t][pk] <= node' + Len(writes'[pk])
        <4>1. node' = node /\ node \in Nat /\ m.version = node + m.content
          BY <2>3, <3>2, <3>3, <3>4
        <4>2. PICK c \in Nat : c = m.content /\ c <= a
          BY <2>lens, <3>1
        <4>3. latest_write'[t][pk] = node + c
          BY <2>6, <4>1, <4>2
        <4>4. c <= b
          BY <2>lens, <4>2
        <4>5. node + c <= node + b
          BY <4>1, <4>4
        <4> QED BY <2>lens, <4>1, <4>3, <4>5
      <3>5. ~(t > slot')
        BY <2>1, <3>2
      <3> QED BY <3>4, <3>5
    <2> QED BY <2>4, <2>5, <2>6, LatestWrite DEF Remembers
  <1> QED
    BY <1>1, LatestWrite DEF LatestInv

-----------------------------------------------------------------------------
(* The last write of an account *)

(* A last write of a covered slot, queued or in the stream, is of that slot. *)
LEMMA LastIsStreamed ==
    ASSUME NetInv, ConnInv, NEW m, Right(m), NEW pk \in Pubkeys, IsLast(m, pk), pc = "up"
    PROVE  m.slot = writes[pk][Len(writes[pk])] /\ m.version = node + Len(writes[pk])
  <1>1. /\ m.pk = pk /\ m.content = Len(writes[pk]) /\ m.version = node + Len(writes[pk])
    BY DEF IsLast
  <1>2. /\ node \in NodeBases /\ node \in Nat /\ Len(writes[pk]) \in Nat
        /\ Len(writes[pk]) <= MaxWrites[pk]
    <2>1. node \in NodeBases
      BY DEF ConnInv
    <2>2. node \in Nat
      BY <2>1, FeedAssumption
    <2> QED BY <2>1, <2>2 DEF NetInv
  <1>3. SnapVersion > node + MaxWrites[pk] /\ MaxWrites[pk] \in Nat /\ SnapVersion \in Nat
    BY <1>2, FeedAssumption
  <1>4. m.version # SnapVersion
    BY <1>1, <1>2, <1>3
  <1> QED
    BY <1>1, <1>4 DEF Right, Streamed, Snapped

(* Data at least as new as the last write stays so. *)
LEMMA ReachedStays ==
    ASSUME NetInv, ConnInv, QueueInv, DataInv, StoreAccounts, NEW pk \in Pubkeys, pc = "up",
           Len(writes[pk]) > 0,
           Reached(pk) \/ \E m \in Head(account_queue) : IsLast(m, pk)
    PROVE  Reached(pk)'
  <1>1. PICK u : u = Head(account_queue)
    OBVIOUS
  <1>2. PICK e, t, w : /\ e = chain_data[pk] /\ w = Len(writes[pk]) /\ t = writes[pk][w]
    OBVIOUS
  <1>3. t \in Nat /\ w \in Nat /\ node \in Nat
    <2>1. t \in Slots /\ w \in Nat
      BY <1>2 DEF NetInv
    <2> QED BY <2>1, SlotsAreNumbers, FeedAssumption DEF ConnInv
  <1>4. e # None => e.slot \in Nat /\ e.version \in Nat
    BY <1>2, RightParts DEF DataInv
  <1>5. writes' = writes /\ node' = node
    BY DEF StoreAccounts, netVars, connVars
  <1>6. Reached(pk) <=> e # None /\ (e.slot > t \/ (e.slot = t /\ e.version >= node + w))
    BY <1>2 DEF Reached
  <1>7. CASE /\ \A m \in u : m.pk # pk
             /\ chain_data'[pk] = e
    BY <1>1, <1>2, <1>5, <1>6, <1>7 DEF Reached, IsLast
  <1>8. ASSUME NEW m \in u, StoresOne(m, pk), Update(u)
        PROVE  Reached(pk)'
    <2>1. Right(m) /\ m.pk = pk /\ chain_data'[pk] = (IF Newer(m, e) THEN m ELSE e)
      BY <1>2, <1>8 DEF StoresOne, Update
    <2>2. m.slot \in Nat /\ m.version \in Nat /\ m # None
      BY <2>1, RightParts
    <2>3. ASSUME NEW n \in u, IsLast(n, pk) PROVE m.slot = t /\ m.version = node + w
      <3>1. n = m
        BY <1>8, <2>1, <2>3 DEF Update, IsLast
      <3> QED BY <1>2, <2>1, <2>3, <3>1, LastIsStreamed
    <2>4. \/ e # None /\ (e.slot > t \/ (e.slot = t /\ e.version >= node + w))
          \/ m.slot = t /\ m.version = node + w
      BY <1>1, <1>6, <2>3
    <2>5. CASE Newer(m, e)
      <3>1. chain_data'[pk] = m
        BY <2>1, <2>5
      <3>2. m.slot > t \/ (m.slot = t /\ m.version >= node + w)
        BY <1>3, <1>4, <2>2, <2>4, <2>5 DEF Newer
      <3> QED BY <1>2, <1>5, <2>2, <3>1, <3>2 DEF Reached
    <2>6. CASE ~Newer(m, e)
      <3>1. chain_data'[pk] = e /\ e # None
        BY <2>1, <2>6 DEF Newer
      <3>2. e.slot > t \/ (e.slot = t /\ e.version >= node + w)
        BY <1>3, <1>4, <2>2, <2>4, <2>6 DEF Newer
      <3> QED BY <1>2, <1>5, <3>1, <3>2 DEF Reached
    <2> QED BY <2>5, <2>6
  <1> QED
    BY <1>1, <1>2, <1>7, <1>8, StoreOne

LEMMA ProcessAppends ==
    ASSUME NetInv, DedupInv, Process
    PROVE  \/ account_queue' = account_queue
           \/ \E u \in SUBSET Message : account_queue' = Append(account_queue, u)
  <1>1. CASE ProcessWrite
    <2>1. {Head(dedup).write} \in SUBSET Message
      BY <1>1, DedupParts DEF ProcessWrite
    <2> QED BY <1>1, <2>1 DEF ProcessWrite
  <1>2. CASE ProcessSnapshot
    <2>1. PICK q, s : q = Head(dedup).write.snapshot /\ s = Head(dedup).write.slot
      OBVIOUS
    <2>2. q \in Snapshots /\ s \in Slots /\ s <= finalized
      BY <1>2, <2>1, DedupParts DEF ProcessSnapshot
    <2>3. PICK u : u = {[pk |-> k, slot |-> s, version |-> SnapVersion,
                         content |-> ContentAt(k, s)] : k \in Wanted(q)}
      OBVIOUS
    <2>4. u \in SUBSET Message
      BY <2>2, <2>3, SnapshotUpdate DEF Update
    <2> QED BY <1>2, <2>1, <2>3, <2>4, SnapshotSends DEF QueueAccounts
  <1> QED
    BY <1>1, <1>2, SnapshotSends DEF Process, ProcessSlot

(* A last write that is queued or stored stays queued or stored. *)
LEMMA ArrivedStays ==
    ASSUME NetInv, ConnInv, DedupInv, QueueInv, DataInv, [Next]_vars, NEW pk \in Pubkeys, pc = "up",
           Len(writes[pk]) > 0, writes'[pk] = writes[pk], node' = node,
           Queued(pk) \/ Reached(pk)
    PROVE  Queued(pk)' \/ Reached(pk)'
  <1>1. CASE Range(account_queue) \subseteq Range(account_queue') /\ chain_data' = chain_data
    BY <1>1 DEF Queued, Reached, IsLast
  <1>2. CASE StoreAccounts
    <2>1. Range(account_queue) \subseteq Range(account_queue') \union {Head(account_queue)}
      BY <1>2, TailRange DEF StoreAccounts, QueueInv
    <2>2. CASE Reached(pk) \/ \E m \in Head(account_queue) : IsLast(m, pk)
      BY <1>2, <2>2, ReachedStays
    <2>3. CASE ~Reached(pk) /\ ~\E m \in Head(account_queue) : IsLast(m, pk)
      BY <2>1, <2>3 DEF Queued, IsLast
    <2> QED BY <2>2, <2>3
  <1>3. ASSUME NEW u \in SUBSET Message, account_queue' = Append(account_queue, u)
        PROVE  Range(account_queue) \subseteq Range(account_queue')
    BY <1>3, AppendRange DEF QueueInv
  <1>4. CASE Process
    <2>1. \/ account_queue' = account_queue
          \/ \E u \in SUBSET Message : account_queue' = Append(account_queue, u)
      BY <1>4, ProcessAppends
    <2>2. chain_data' = chain_data
      BY <1>4 DEF Process, dataVars
    <2> QED BY <1>1, <1>3, <2>1, <2>2
  <1>5. CASE UNCHANGED <<account_queue, chain_data>>
    BY <1>1, <1>5
  <1> QED
    BY <1>2, <1>4, <1>5
       DEF Next, vars, dataVars, procVars, Write, NextSlot, Finalize, Connect, Disconnect,
           RecvSnapshot, ReSnapshot, RecvFinalized, RecvAccount, FetchSnapshot, Ended

(* The write on its way through the stream and the channel. *)
Travels(pk) ==
    \/ \E m \in Range(account_stream) : IsLast(m, pk)
    \/ \E x \in Range(dedup) : x.kind = "account" /\ IsLast(x.write, pk)

(* A write that travels goes on, or is queued, or is a write of its slot seen before. *)
LEMMA TravelStep ==
    ASSUME NetInv, ConnInv, StreamInv, DedupInv, QueueInv, LatestInv, [Next]_vars,
           NEW pk \in Filters,
           writes'[pk] = writes[pk], node' = node, pc = "up", pc' = "up",
           Covered(writes[pk][Len(writes[pk])]), Travels(pk)
    PROVE  \/ Travels(pk)' \/ Queued(pk)'
           \/ latest_write[writes[pk][Len(writes[pk])]][pk] >= node + Len(writes[pk])
  <1>1. pk \in Pubkeys
    BY FeedAssumption
  <1>2. \A m : IsLast(m, pk)' <=> IsLast(m, pk)
    BY DEF IsLast
  <1>3. ~Fail
    BY DEF Fail
  <1>4. ASSUME Range(account_stream) \subseteq Range(account_stream'),
               Range(dedup) \subseteq Range(dedup')
        PROVE  Travels(pk)'
    BY <1>2, <1>4 DEF Travels
  <1>5. ASSUME NEW x \in Dedups, dedup' = Append(dedup, x)
        PROVE  Range(dedup') = Range(dedup) \union {x}
    BY <1>5, AppendRange DEF DedupInv
  <1>6. ASSUME NEW qk \in Pubkeys, Write(qk)
        PROVE  Travels(pk)'
    <2>1. CASE account_stream' = account_stream /\ dedup' = dedup
      BY <1>4, <2>1
    <2>2. CASE ~(account_stream' = account_stream) /\ dedup' = dedup
      <3>1. PICK m : account_stream' = Append(account_stream, m)
        BY <1>6, <2>2 DEF Write
      <3>2. Range(account_stream) \subseteq Range(account_stream')
        <4>1. \A i \in 1 .. Len(account_stream) : Append(account_stream, m)[i] = account_stream[i]
          BY DEF StreamInv
        <4>2. DOMAIN account_stream = 1 .. Len(account_stream) /\ Len(account_stream) \in Nat
              /\ DOMAIN Append(account_stream, m) = 1 .. Len(account_stream) + 1
          BY DEF StreamInv
        <4> QED BY <3>1, <4>1, <4>2 DEF Range
      <3> QED BY <1>4, <2>2, <3>2
    <2> QED BY <1>6, <2>1, <2>2 DEF Write
  <1>7. ASSUME NEW i \in DOMAIN account_stream, RecvAccount(i)
        PROVE  Travels(pk)'
    <2>1. PICK m \in Message : m = account_stream[i] /\ m \in Range(account_stream)
      BY DEF StreamInv, Range
    <2>2. account_stream' = RemoveAt(account_stream, i)
      BY <1>3, <1>7 DEF RecvAccount
    <2>3. Range(account_stream) \subseteq Range(account_stream') \union {m}
      BY <2>1, <2>2, RemoveRange DEF StreamInv
    <2>4. ASSUME IsLast(m, pk) PROVE ~TooEarly(m)
      <3>1. Right(m) /\ m.slot \in Nat
        BY <2>1, SlotsAreNumbers DEF StreamInv, Right, Message
      <3>2. m.slot = writes[pk][Len(writes[pk])]
        BY <1>1, <2>4, <3>1, LastIsStreamed
      <3>3. Covered(m.slot)
        BY <3>2
      <3> QED BY <3>1, <3>3 DEF TooEarly, Covered, ConnInv
    <2>5. CASE TooEarly(m)
      <3>1. dedup' = dedup
        BY <1>3, <1>7, <2>1, <2>5 DEF RecvAccount
      <3> QED BY <1>2, <2>3, <2>4, <2>5, <3>1 DEF Travels
    <2>6. CASE ~TooEarly(m)
      <3> DEFINE x == [kind |-> "account", write |-> m]
      <3>1. dedup' = Append(dedup, x)
        BY <1>3, <1>7, <2>1, <2>6 DEF RecvAccount
      <3>2. x \in Dedups /\ x.kind = "account" /\ x.write = m
        BY DEF Dedups
      <3> HIDE DEF x
      <3>3. Range(dedup') = Range(dedup) \union {x}
        BY <1>5, <3>1, <3>2
      <3> QED BY <1>2, <2>3, <3>2, <3>3 DEF Travels
    <2> QED BY <2>5, <2>6
  <1>8. CASE RecvSnapshot
    <2> DEFINE x == [kind |-> "snapshot", write |-> Head(results)]
    <2>1. account_stream' = account_stream /\ dedup' = Append(dedup, x)
      BY <1>3, <1>8 DEF RecvSnapshot
    <2>2. Range(dedup) \subseteq Range(dedup')
      <3>1. \A i \in 1 .. Len(dedup) : Append(dedup, x)[i] = dedup[i]
        BY DEF DedupInv
      <3>2. DOMAIN dedup = 1 .. Len(dedup) /\ Len(dedup) \in Nat
            /\ DOMAIN Append(dedup, x) = 1 .. Len(dedup) + 1
        BY DEF DedupInv
      <3> QED BY <2>1, <3>1, <3>2 DEF Range
    <2> QED BY <1>4, <2>1, <2>2
  <1>9. ASSUME NEW s \in FirstSlot .. finalized, RecvFinalized(s)
        PROVE  Travels(pk)'
    <2> DEFINE x == [kind |-> "slot", write |-> s]
    <2>1. account_stream' = account_stream /\ dedup' = Append(dedup, x)
      BY <1>9 DEF RecvFinalized
    <2>2. s \in Slots
      BY SlotsAreNumbers DEF NetInv, Slots
    <2>3. x \in Dedups
      BY <2>2 DEF Dedups
    <2> HIDE DEF x
    <2>4. Range(dedup') = Range(dedup) \union {x}
      BY <1>5, <2>1, <2>3
    <2> QED BY <1>4, <2>1, <2>4
  <1>10. CASE Process /\ ~FinishSnapshot
    <2>1. dedup # <<>> /\ dedup' = Tail(dedup) /\ account_stream' = account_stream
      BY <1>10 DEF Process, ProcessWrite, ProcessSnapshot, ProcessSlot
    <2>2. Range(dedup) \subseteq Range(dedup') \union {Head(dedup)}
      BY <2>1, TailRange DEF DedupInv
    <2>3. CASE Travels(pk)'
      BY <2>3
    <2>4. CASE ~Travels(pk)'
      <3>1. Head(dedup).kind = "account" /\ IsLast(Head(dedup).write, pk)
        BY <1>2, <2>1, <2>2, <2>4 DEF Travels
      <3>2. PICK m : m = Head(dedup).write
        OBVIOUS
      <3>3. m \in Message /\ Streamed(m) /\ Right(m)
        BY <2>1, <3>1, <3>2, DedupParts DEF Right
      <3>4. m.slot = writes[pk][Len(writes[pk])] /\ m.version = node + Len(writes[pk]) /\ m.pk = pk
        BY <1>1, <3>1, <3>2, <3>3, LastIsStreamed DEF IsLast
      <3>5. ProcessWrite
        BY <1>10, <3>1 DEF Process, ProcessSnapshot, ProcessSlot
      <3>6. CASE account_queue' = Append(account_queue, {m})
        <4>1. {m} \in SUBSET Message
          BY <3>3
        <4>2. {m} \in Range(account_queue')
          BY <3>6, <4>1, AppendRange DEF QueueInv
        <4> QED BY <1>2, <3>1, <3>2, <4>2 DEF Queued
      <3>7. CASE ~New(m)
        <4>1. m.version \in Nat /\ m.slot \in Slots
          BY <3>3 DEF Message
        <4>2. latest_write[m.slot][pk] \in Nat
          BY <1>1, <4>1 DEF LatestInv
        <4>3. latest_write[m.slot][pk] >= m.version
          BY <3>4, <3>7, <4>1, <4>2 DEF New
        <4> QED BY <3>4, <4>3
      <3> QED BY <3>2, <3>5, <3>6, <3>7 DEF ProcessWrite
    <2> QED BY <2>3, <2>4
  <1>11. CASE UNCHANGED <<account_stream, dedup>>
    BY <1>4, <1>11
  <1>12. CASE Process /\ FinishSnapshot
    BY <1>11, <1>12, SnapshotSends DEF Process
  <1> QED
    BY <1>3, <1>6, <1>7, <1>8, <1>9, <1>10, <1>11, <1>12
       DEF Next, vars, NextSlot, Finalize, Connect, Disconnect, ReSnapshot, FetchSnapshot,
           StoreAccounts, Ended

LEMMA DeliveredStep ==
    ASSUME NetInv, ConnInv, StreamInv, DedupInv, QueueInv, DataInv, LatestInv, DeliveredInv,
           [Next]_vars
    PROVE  DeliveredInv'
  <1>1. SUFFICES ASSUME NEW pk \in Filters, NEW w, NEW t, w = Len(writes'[pk]), t = writes'[pk][w],
                        w > 0, Covered(t)'
                 PROVE  /\ Travels(pk)' \/ Queued(pk)' \/ Reached(pk)'
                        /\ latest_write'[t][pk] >= node' + w => Queued(pk)' \/ Reached(pk)'
    BY DEF DeliveredInv, Travels
  <1>2. pk \in Pubkeys
    BY FeedAssumption
  <1>3. w \in Nat /\ t \in Slots /\ t \in Nat /\ t <= slot
    <2>1. writes'[pk] \in Seq(Slots) /\ writes[pk] \in Seq(Slots) /\ w \in Nat
      BY <1>1, <1>2, NetworkGrows DEF NetInv
    <2>2. t \in Slots
      BY <1>1, <2>1
    <2>3. writes'[pk][w] = (IF w <= Len(writes[pk]) THEN writes[pk][w] ELSE slot)
      BY <1>1, <1>2, <2>1, NetworkGrows DEF Grows
    <2>4. t <= slot
      BY <1>1, <1>2, <2>1, <2>3, SlotsAreNumbers DEF NetInv
    <2> QED BY <2>1, <2>2, <2>4, SlotsAreNumbers
  <1>4. Covered(t) /\ node' = node /\ pc = "up" /\ pc' = "up"
    BY <1>1, <1>3, Coverage DEF Covered
  <1>5. node \in Nat
    BY <1>4, FeedAssumption DEF ConnInv
  <1>6. CASE Write(pk)
    <2>1. writes'[pk] = Append(writes[pk], slot) /\ writes[pk] \in Seq(Slots) /\ slot \in Slots
      BY <1>2, <1>6 DEF Write, NetInv
    <2>2. w = Len(writes[pk]) + 1 /\ t = slot /\ Len(writes[pk]) \in Nat
      BY <1>1, <2>1
    <2>3. PICK m : m = [pk |-> pk, slot |-> slot, content |-> w, version |-> node + w]
      OBVIOUS
    <2>4. m.pk = pk /\ m.slot = slot /\ m.content = w /\ m.version = node + w
      BY <2>3
    <2>5. m \in Message
      <3>1. node + w \in Nat
        BY <1>3, <1>5
      <3> QED BY <1>2, <1>3, <2>1, <2>3, <3>1 DEF Message
    <2>6. account_stream' = Append(account_stream, m) /\ latest_write' = latest_write
      BY <1>1, <1>4, <1>6, <2>3 DEF Write, procVars
    <2>7. m \in Range(account_stream')
      BY <2>5, <2>6, AppendRange DEF StreamInv
    <2>8. IsLast(m, pk)'
      BY <1>1, <1>4, <2>4 DEF IsLast
    <2>9. Travels(pk)'
      BY <2>7, <2>8 DEF Travels
    <2>10. latest_write[t][pk] \in Nat /\ latest_write[t][pk] <= node + Len(writes[pk])
      BY <1>2, <1>3, <1>4 DEF LatestInv
    <2>11. ~(latest_write'[t][pk] >= node' + w)
      <3>1. PICK l \in Nat, n \in Nat : l = latest_write[t][pk] /\ n = Len(writes[pk])
        BY <2>2, <2>10
      <3>2. l <= node + n /\ w = n + 1
        BY <2>2, <2>10, <3>1
      <3>3. ~(l >= node + w)
        BY <1>5, <3>2
      <3> QED BY <1>4, <2>6, <3>1, <3>3
    <2> QED BY <2>9, <2>11
  <1>7. CASE ~Write(pk)
    <2>1. writes'[pk] = writes[pk]
      <3>1. CASE UNCHANGED writes
        BY <3>1
      <3>2. ASSUME NEW qk \in Pubkeys, Write(qk) PROVE writes'[pk] = writes[pk]
        BY <1>2, <1>7, <3>2 DEF Write, NetInv
      <3> QED
        BY <3>1, <3>2
           DEF Next, vars, netVars, NextSlot, Finalize, Connect, Disconnect, RecvSnapshot,
               ReSnapshot, RecvFinalized, RecvAccount, FetchSnapshot, Process, StoreAccounts, Ended
    <2>2. w = Len(writes[pk]) /\ t = writes[pk][w]
      BY <1>1, <2>1
    <2>3. /\ Travels(pk) \/ Queued(pk) \/ Reached(pk)
          /\ latest_write[t][pk] >= node + w => Queued(pk) \/ Reached(pk)
      BY <1>1, <1>4, <2>2 DEF DeliveredInv, Travels
    <2>4. Queued(pk) \/ Reached(pk) => Queued(pk)' \/ Reached(pk)'
      BY <1>1, <1>2, <1>4, <2>1, <2>2, ArrivedStays
    <2>5. Travels(pk) => Travels(pk)' \/ Queued(pk)' \/ latest_write[t][pk] >= node + w
      BY <1>4, <2>1, <2>2, TravelStep
    <2>6. ASSUME latest_write'[t][pk] >= node' + w PROVE Queued(pk)' \/ Reached(pk)'
      <3>1. PICK l \in Nat : l = latest_write'[t][pk]
        BY <1>2, <1>3, LatestWrite
      <3>2. l >= node + w /\ w > 0
        BY <1>1, <1>4, <2>6, <3>1
      <3>3. CASE l = 0
        BY <1>3, <1>5, <3>2, <3>3
      <3>4. CASE l = latest_write[t][pk]
        BY <2>3, <2>4, <3>2, <3>4
      <3>5. ASSUME NEW m \in Message, Streamed(m), m.slot = t, m.pk = pk, l = m.version,
                   account_queue' = Append(account_queue, {m})
            PROVE  Queued(pk)'
        <4>1. PICK c \in Nat : c = m.content /\ c <= w
          BY <1>3, <2>2, <3>5 DEF Streamed
        <4>2. l = node + c
          BY <1>4, <3>5, <4>1 DEF Streamed
        <4>3. c = w
          BY <1>3, <1>5, <3>2, <4>1, <4>2
        <4>4. IsLast(m, pk)'
          BY <1>1, <1>4, <3>5, <4>1, <4>2, <4>3 DEF IsLast
        <4>5. {m} \in SUBSET Message
          OBVIOUS
        <4>6. {m} \in Range(account_queue')
          BY <3>5, <4>5, AppendRange DEF QueueInv
        <4> QED BY <4>4, <4>6 DEF Queued
      <3>6. Remembers(t, pk)
        BY <1>2, <1>3, LatestWrite
      <3> QED BY <3>1, <3>3, <3>4, <3>5, <3>6 DEF Remembers
    <2> QED BY <2>3, <2>4, <2>5, <2>6
  <1> QED
    BY <1>6, <1>7

-----------------------------------------------------------------------------
LEMMA FeedInit == Init => FeedInv
  <1> SUFFICES ASSUME Init PROVE FeedInv
    OBVIOUS
  <1>1. \A S : <<>> \in Seq(S) /\ Len(<<>>) = 0
    OBVIOUS
  <1>2. NetInv
    BY FeedAssumption DEF Init, NetInv, Slots
  <1>3. ConnInv
    BY FeedAssumption DEF Init, ConnInv, NoWrites
  <1>4. RequestInv /\ StreamInv /\ QueueInv
    BY DEF Init, RequestInv, StreamInv, QueueInv, Range
  <1>5. DedupInv
    BY FeedAssumption DEF Init, DedupInv, Range
  <1>6. DataInv
    BY DEF Init, DataInv
  <1>7. LatestInv
    BY DEF Init, LatestInv, NoWrites, Covered
  <1>8. DeliveredInv
    BY DEF Init, DeliveredInv, Covered
  <1> QED
    BY <1>2, <1>3, <1>4, <1>5, <1>6, <1>7, <1>8 DEF FeedInv

LEMMA FeedStep == FeedInv /\ [Next]_vars => FeedInv'
  BY NetworkGrows, ConnectionStep, RequestStep, StreamStep, DedupStep, QueueStep, DataStep,
     LatestStep, DeliveredStep
     DEF FeedInv

(* process_events and its channels: the feed keeps FeedInv. *)
THEOREM FeedInvariant == Spec => []FeedInv
  BY FeedInit, FeedStep, PTL DEF Spec

(* Every variable of the feed has its type, and the channel of process_events
   never holds more than its capacity. *)
THEOREM FeedTypes == Spec => []TypeOK
  <1>1. FeedInv => TypeOK
    BY DEF FeedInv, NetInv, ConnInv, RequestInv, StreamInv, DedupInv, QueueInv, DataInv, LatestInv,
           TypeOK, Dedups
  <1> QED
    BY <1>1, FeedInvariant, PTL

-----------------------------------------------------------------------------
(* A snapshot of a slot at or after the last write holds all writes. *)
LEMMA ContentIsAll ==
    ASSUME NetInv, NEW pk \in Pubkeys, NEW s \in Nat,
           Len(writes[pk]) > 0 => writes[pk][Len(writes[pk])] <= s
    PROVE  ContentAt(pk, s) = Len(writes[pk])
  <1>1. writes[pk] \in Seq(Slots)
    BY DEF NetInv
  <1>2. PICK n \in Nat : n = Len(writes[pk])
    BY <1>1
  <1>3. DOMAIN writes[pk] = 1 .. n
    BY <1>1, <1>2
  <1>4. ASSUME NEW i \in 1 .. n PROVE writes[pk][i] <= s
    <2>1. n \in 1 .. n /\ i <= n /\ n > 0
      BY <1>2
    <2>2. writes[pk][i] <= writes[pk][n] /\ writes[pk][n] <= s
      BY <1>2, <2>1 DEF NetInv
    <2>3. writes[pk][i] \in Slots /\ writes[pk][n] \in Slots
      BY <1>1, <1>2, <2>1
    <2>4. PICK a \in Nat, b \in Nat : a = writes[pk][i] /\ b = writes[pk][n]
      BY <2>3, SlotsAreNumbers
    <2>5. a <= s
      BY <2>2, <2>4
    <2> QED BY <2>4, <2>5
  <1>5. {i \in DOMAIN writes[pk] : writes[pk][i] <= s} = 1 .. n
    BY <1>3, <1>4
  <1>6. Cardinality(1 .. n) = n
    <2>1. 1 \in Int /\ n \in Int
      OBVIOUS
    <2>2. Cardinality(1 .. n) = IF 1 > n THEN 0 ELSE n - 1 + 1
      BY <2>1, FS_Interval
    <2> QED BY <2>2
  <1> QED
    BY <1>2, <1>5, <1>6 DEF ContentAt

(* feed_data_geyser, process_account_updated_from_sources, handle_updated_account:
   an account whose snapshot reaches the slot from which the connection has all
   writes is up to date as soon as nothing of it is in flight. *)
THEOREM SnapshotThenStream == Spec => []SnapshotThenStreamIsComplete
  <1>1. ASSUME FeedInv, NEW pk \in Filters, pc = "up", first_full_slot # None,
               snapshot_slot[pk] >= missed_until, ~InFlight(pk)
        PROVE  chain_data[pk].content = Len(writes[pk])
    <2>1. pk \in Pubkeys /\ NetInv /\ ConnInv /\ DataInv
      BY <1>1, FeedAssumption DEF FeedInv
    <2>2. PICK d, s, w : d = chain_data[pk] /\ s = snapshot_slot[pk] /\ w = Len(writes[pk])
      OBVIOUS
    <2>3. s \in Nat /\ w \in Nat /\ missed_until \in Nat /\ s > 0
      <3>1. s \in Nat
        BY <2>1, <2>2 DEF DataInv
      <3>2. w \in Nat
        BY <2>1, <2>2 DEF NetInv
      <3>3. missed_until \in Nat /\ missed_until >= FirstSlot
        BY <1>1, <2>1 DEF ConnInv
      <3>4. FirstSlot \in Nat /\ FirstSlot > 0
        BY FeedAssumption
      <3>5. s >= missed_until
        BY <1>1, <2>2
      <3> QED BY <3>1, <3>2, <3>3, <3>4, <3>5
    <2>4. /\ d # None /\ Right(d) /\ d.pk = pk /\ d.slot >= s
          /\ d.version = SnapVersion => d.slot <= s
          /\ d.slot = s => d.version = SnapVersion
      BY <2>1, <2>2, <2>3 DEF DataInv
    <2>5. d.slot \in Nat /\ d.version \in Nat /\ d.content \in Nat /\ SnapVersion \in Nat
      BY <2>4, RightParts
    <2>6. CASE d.version = SnapVersion
      <3>1. d.content = ContentAt(pk, d.slot) /\ d.slot = s
        BY <2>3, <2>4, <2>5, <2>6 DEF Right, Streamed, Snapped
      <3>2. CASE w > 0 => writes[pk][w] <= s
        BY <2>1, <2>2, <2>3, <3>1, <3>2, ContentIsAll
      <3>3. ASSUME w > 0, ~(writes[pk][w] <= s) PROVE FALSE
        <4>1. PICK t \in Nat : t = writes[pk][w] /\ t > s
          <5>1. writes[pk][w] \in Slots
            BY <2>1, <2>2, <2>3, <3>3 DEF NetInv
          <5>2. PICK t \in Nat : t = writes[pk][w]
            BY <5>1, SlotsAreNumbers
          <5>3. t > s
            BY <2>3, <3>3, <5>2
          <5> QED BY <5>2, <5>3
        <4>2. Covered(t)
          BY <1>1, <2>2, <2>3, <4>1 DEF Covered
        <4>3. Travels(pk) \/ Queued(pk) \/ Reached(pk)
          BY <1>1, <2>2, <3>3, <4>1, <4>2 DEF FeedInv, DeliveredInv, Travels
        <4>4. ~Travels(pk) /\ ~Queued(pk)
          BY <1>1 DEF InFlight, Travels, Queued, IsLast, Range
        <4>5. d.slot >= t
          BY <2>2, <2>5, <4>1, <4>3, <4>4 DEF Reached
        <4> QED BY <2>3, <2>5, <3>1, <4>1, <4>5
      <3> QED BY <3>2, <3>3
    <2>7. CASE d.version # SnapVersion
      <3>1. Streamed(d) /\ d.slot > s
        BY <2>3, <2>4, <2>5, <2>7 DEF Right, Snapped
      <3>2. PICK c \in Nat : c = d.content
        BY <2>5
      <3>3. c \in 1 .. w /\ writes[pk][c] = d.slot
        BY <2>2, <2>4, <3>1, <3>2 DEF Streamed
      <3>4. w \in 1 .. w /\ w > 0
        BY <2>3, <3>3
      <3>5. PICK t \in Nat : t = writes[pk][w]
        <4>1. writes[pk][w] \in Slots
          BY <2>1, <2>2, <3>4 DEF NetInv
        <4> QED BY <4>1, SlotsAreNumbers
      <3>6. t >= d.slot
        BY <2>1, <2>2, <3>3, <3>4, <3>5 DEF NetInv
      <3>7. Covered(t) /\ Covered(d.slot)
        BY <1>1, <2>2, <2>3, <2>5, <3>1, <3>5, <3>6 DEF Covered
      <3>8. Travels(pk) \/ Queued(pk) \/ Reached(pk)
        BY <1>1, <2>2, <3>4, <3>5, <3>7 DEF FeedInv, DeliveredInv, Travels
      <3>9. ~Travels(pk) /\ ~Queued(pk)
        BY <1>1 DEF InFlight, Travels, Queued, IsLast, Range
      <3>10. d.slot > t \/ (d.slot = t /\ d.version >= node + w)
        BY <2>2, <3>5, <3>8, <3>9 DEF Reached
      <3>11. d.version >= node + w /\ d.version = node + c
        BY <2>5, <3>1, <3>2, <3>5, <3>6, <3>7, <3>10 DEF Streamed
      <3>12. node \in Nat
        BY <1>1, <2>1, FeedAssumption DEF ConnInv
      <3>13. c >= w
        BY <2>3, <3>11, <3>12
      <3> QED BY <2>2, <2>3, <3>2, <3>3, <3>13
    <2> QED BY <2>6, <2>7
  <1>2. FeedInv => SnapshotThenStreamIsComplete
    BY <1>1 DEF SnapshotThenStreamIsComplete
  <1> QED
    BY <1>2, FeedInvariant, PTL

-----------------------------------------------------------------------------
(* feed_data_geyser: until a snapshot comes that is not too old, another one is
   wanted or under way. *)
Retried(q) == q \in fresh \/ snapshot_needed \/ requested[q] > 0
              \/ \E r \in Range(results) : r.snapshot = q

LEMMA RetryStep ==
    ASSUME FeedInv, NEW q \in Snapshots, Retried(q), [Next]_vars
    PROVE  Retried(q)'
  <1>1. RequestInv /\ ConnInv
    BY DEF FeedInv
  <1>2. CASE UNCHANGED <<fresh, snapshot_needed, requested, results>>
    BY <1>2 DEF Retried
  <1>3. CASE Fail
    BY <1>3 DEF Fail, Retried
  <1>4. CASE ReSnapshot
    BY <1>4 DEF ReSnapshot, Retried
  <1>5. ASSUME NEW s \in FirstSlot .. finalized, RecvFinalized(s)
        PROVE  Retried(q)'
    <2> DEFINE start == /\ snapshot_needed
                        /\ (IF s > max_rooted_slot THEN s ELSE max_rooted_slot) >
                           (IF first_full_slot = None THEN s + 1 ELSE first_full_slot) +
                             rooted_to_finalized_slots
    <2>1. /\ snapshot_needed' = (snapshot_needed /\ ~start)
          /\ requested' = [k \in Snapshots |-> requested[k] + IF start THEN 1 ELSE 0]
          /\ fresh' = fresh /\ results' = results
      BY <1>5 DEF RecvFinalized
    <2> HIDE DEF start
    <2>2. requested[q] \in Nat
      BY <1>1 DEF RequestInv
    <2>3. CASE start
      <3>1. requested'[q] = requested[q] + 1
        BY <2>1, <2>3
      <3> QED BY <2>2, <3>1 DEF Retried
    <2>4. CASE ~start
      <3>1. requested'[q] = requested[q] + 0 /\ snapshot_needed' = snapshot_needed
        BY <1>1, <2>1, <2>4 DEF ConnInv
      <3> QED BY <2>1, <2>2, <3>1 DEF Retried
    <2> QED BY <2>3, <2>4
  <1>6. ASSUME NEW k \in Snapshots, NEW s \in (FirstSlot .. finalized) \union {None},
               FetchSnapshot(k, s)
        PROVE  Retried(q)'
    <2>1. PICK r : r = [snapshot |-> k, slot |-> s]
      OBVIOUS
    <2>2. r \in Result /\ r.snapshot = k
      <3>1. s \in Slots \union {None}
        BY <1>1, SlotsAreNumbers DEF FeedInv, NetInv, Slots
      <3> QED BY <2>1, <3>1 DEF Result
    <2>3. /\ results' = Append(results, r) /\ requested' = [requested EXCEPT ![k] = @ - 1]
          /\ fresh' = fresh /\ snapshot_needed' = snapshot_needed
      BY <1>6, <2>1 DEF FetchSnapshot
    <2>4. Range(results') = Range(results) \union {r}
      BY <1>1, <2>2, <2>3, AppendRange DEF RequestInv
    <2>5. CASE q = k
      BY <2>2, <2>4, <2>5 DEF Retried
    <2>6. CASE q # k
      <3>1. requested'[q] = requested[q]
        BY <1>1, <2>3, <2>6 DEF RequestInv
      <3> QED BY <2>3, <2>4, <3>1 DEF Retried
    <2> QED BY <2>5, <2>6
  <1>7. CASE RecvSnapshot
    <2>1. CASE Fail
      BY <1>3, <2>1
    <2>2. CASE ~Fail
      <3>1. PICK r : r = Head(results)
        OBVIOUS
      <3>2. /\ results # <<>> /\ results' = Tail(results) /\ requested' = requested
            /\ snapshot_needed' = (snapshot_needed \/ TooOld(r.slot))
            /\ fresh' = IF r.slot < first_full_slot THEN fresh ELSE fresh \union {r.snapshot}
        BY <1>7, <2>2, <3>1 DEF RecvSnapshot
      <3>3. Range(results) \subseteq Range(results') \union {r}
        BY <1>1, <3>1, <3>2, TailRange DEF RequestInv
      <3>4. CASE TooOld(r.slot)
        BY <3>2, <3>4 DEF Retried
      <3>5. CASE ~TooOld(r.slot)
        <4>1. fresh' = fresh \union {r.snapshot} /\ (snapshot_needed => snapshot_needed')
          BY <3>2, <3>5 DEF TooOld
        <4> QED BY <3>2, <3>3, <4>1 DEF Retried
      <3> QED BY <3>4, <3>5
    <2> QED BY <2>1, <2>2
  <1>8. ASSUME NEW i \in DOMAIN account_stream, RecvAccount(i)
        PROVE  Retried(q)'
    BY <1>2, <1>3, <1>8 DEF RecvAccount, connVars
  <1> QED
    BY <1>2, <1>3, <1>4, <1>5, <1>6, <1>7, <1>8
       DEF Next, vars, connVars, Write, NextSlot, Finalize, Connect, Disconnect, Process,
           StoreAccounts, Ended

(* feed_data_geyser: "If that buffer isn't sufficient, there'll be a retry": a
   snapshot that came too old is wanted or under way again. *)
THEOREM OldSnapshotRetried == Spec => []OldSnapshotIsRequestedAgain
  <1> DEFINE Inv == \A q \in Snapshots : Retried(q)
  <1>1. Init => Inv
    BY DEF Init, Retried
  <1>2. FeedInv /\ Inv /\ [Next]_vars => Inv'
    BY RetryStep
  <1>3. FeedInv /\ Inv => OldSnapshotIsRequestedAgain
    BY DEF Retried, OldSnapshotIsRequestedAgain, Range, FeedInv, RequestInv
  <1> QED
    BY <1>1, <1>2, <1>3, FeedInvariant, PTL DEF Spec

-----------------------------------------------------------------------------
(* The account is stored or queued, with data of slot t or newer. *)
AtHand(pk, t) ==
    \/ chain_data[pk] # None /\ chain_data[pk].slot >= t
    \/ \E u \in Range(account_queue) : \E m \in u : m.pk = pk /\ m.slot >= t

(* So are the accounts of a snapshot whose end is announced, or is next to be. *)
SnapshotAtHand(r) == \A pk \in Wanted(r.snapshot) : AtHand(pk, r.slot)

Announced == /\ \A r \in announced : SnapshotAtHand(r)
             /\ ending # None => SnapshotAtHand(ending)

LEMMA AtHandStays ==
    ASSUME FeedInv, [Next]_vars, NEW pk \in Pubkeys, NEW t \in Slots, AtHand(pk, t)
    PROVE  AtHand(pk, t)'
  <1>1. QueueInv /\ DataInv /\ DedupInv /\ NetInv
    BY DEF FeedInv
  <1>2. CASE Range(account_queue) \subseteq Range(account_queue') /\ chain_data' = chain_data
    BY <1>2 DEF AtHand
  <1>3. CASE StoreAccounts
    <2>1. account_queue # <<>> /\ account_queue' = Tail(account_queue)
      BY <1>3 DEF StoreAccounts
    <2>2. Range(account_queue) \subseteq Range(account_queue') \union {Head(account_queue)}
      BY <1>1, <2>1, TailRange DEF QueueInv
    <2>3. chain_data[pk] # None => chain_data[pk] \in Message /\ chain_data[pk].slot \in Nat
      BY <1>1, SlotsAreNumbers DEF DataInv, Message
    <2>4. t \in Nat
      BY SlotsAreNumbers
    <2>5. ASSUME NEW m \in Head(account_queue), StoresOne(m, pk), Right(m)
          PROVE  /\ chain_data'[pk] # None
                 /\ m.slot >= t => chain_data'[pk].slot >= t
                 /\ chain_data[pk] # None /\ chain_data[pk].slot >= t =>
                       chain_data'[pk].slot >= t
      <3>1. m # None /\ m.slot \in Nat
        BY <2>5, RightParts, SlotsAreNumbers DEF Right, Message
      <3> QED BY <2>3, <2>4, <2>5, <3>1 DEF StoresOne, Newer
    <2>6. CASE \E m \in Head(account_queue) : StoresOne(m, pk) /\ Right(m)
      <3>1. PICK m \in Head(account_queue) : StoresOne(m, pk) /\ Right(m)
        BY <2>6
      <3>2. CASE \E u \in Range(account_queue') : \E n \in u : n.pk = pk /\ n.slot >= t
        BY <3>2 DEF AtHand
      <3>3. CASE \E n \in Head(account_queue) : n.pk = pk /\ n.slot >= t
        <4>1. Update(Head(account_queue))
          BY <1>1, <2>1, TailRange DEF QueueInv
        <4>2. m.slot >= t
          BY <3>1, <3>3, <4>1 DEF Update, StoresOne
        <4> QED BY <2>5, <3>1, <4>2 DEF AtHand
      <3>4. CASE chain_data[pk] # None /\ chain_data[pk].slot >= t
        BY <2>5, <3>1, <3>4 DEF AtHand
      <3> QED BY <2>2, <3>2, <3>3, <3>4 DEF AtHand
    <2>7. CASE chain_data'[pk] = chain_data[pk] /\ \A m \in Head(account_queue) : m.pk # pk
      BY <2>2, <2>7 DEF AtHand
    <2> QED BY <1>1, <1>3, <2>6, <2>7, StoreOne DEF Update
  <1>4. CASE Process
    <2>1. \/ account_queue' = account_queue
          \/ \E u \in SUBSET Message : account_queue' = Append(account_queue, u)
      BY <1>1, <1>4, ProcessAppends
    <2>2. Range(account_queue) \subseteq Range(account_queue')
      <3>1. ASSUME NEW u \in SUBSET Message, account_queue' = Append(account_queue, u)
            PROVE  Range(account_queue) \subseteq Range(account_queue')
        BY <1>1, <3>1, AppendRange DEF QueueInv
      <3> QED BY <2>1, <3>1
    <2> QED BY <1>2, <1>4, <2>2 DEF Process, dataVars
  <1>5. CASE UNCHANGED <<account_queue, chain_data>>
    BY <1>2, <1>5
  <1> QED
    BY <1>3, <1>4, <1>5
       DEF Next, vars, dataVars, procVars, Write, NextSlot, Finalize, Connect, Disconnect,
           RecvSnapshot, ReSnapshot, RecvFinalized, RecvAccount, FetchSnapshot, Ended

LEMMA AnnouncedStep ==
    ASSUME FeedInv, Announced, [Next]_vars
    PROVE  Announced'
  <1>1. \A r \in Taken : r.snapshot \in Snapshots /\ r.slot \in Slots
                         /\ Wanted(r.snapshot) \subseteq Pubkeys
    BY FeedAssumption DEF Wanted, Taken
  <1>2. announced \subseteq Taken /\ ending \in Taken \union {None} /\ DedupInv /\ QueueInv /\ NetInv
    BY DEF FeedInv, RequestInv
  <1>3. \A r \in Taken : SnapshotAtHand(r) => SnapshotAtHand(r)'
    BY <1>1, AtHandStays DEF SnapshotAtHand
  <1>4. \A r \in announced : SnapshotAtHand(r)'
    BY <1>2, <1>3 DEF Announced
  <1>5. CASE announced' = announced /\ ending' = ending
    <2>1. PICK e : e = ending
      OBVIOUS
    <2>2. e # None => SnapshotAtHand(e)'
      BY <1>2, <1>3, <2>1 DEF Announced
    <2>3. ending' = e
      BY <1>5, <2>1
    <2> QED BY <1>4, <1>5, <2>2, <2>3 DEF Announced, SnapshotAtHand, AtHand
  <1>6. CASE ProcessSnapshot
    <2>1. PICK r : r = Head(dedup).write
      OBVIOUS
    <2>2. r \in Taken /\ r.slot <= finalized
      BY <1>2, <1>6, <2>1, DedupParts DEF ProcessSnapshot
    <2>3. PICK q, s : q = r.snapshot /\ s = r.slot
      OBVIOUS
    <2>4. PICK u : u = {[pk |-> k, slot |-> s, version |-> SnapVersion,
                         content |-> ContentAt(k, s)] : k \in Wanted(q)}
      OBVIOUS
    <2>5. u \in SUBSET Message
      BY <1>1, <1>2, <2>2, <2>3, <2>4, SnapshotUpdate DEF Update
    <2>6. account_queue' = Append(account_queue, u) /\ announced' = announced /\ ending' = r
      BY <1>6, <2>1, <2>3, <2>4, SnapshotSends DEF QueueAccounts
    <2>7. u \in Range(account_queue')
      BY <1>2, <2>5, <2>6, AppendRange DEF QueueInv
    <2>8. ASSUME NEW pk \in Wanted(q) PROVE AtHand(pk, s)'
      <3> DEFINE n == [pk |-> pk, slot |-> s, version |-> SnapVersion,
                       content |-> ContentAt(pk, s)]
      <3>1. n \in u /\ n.pk = pk /\ n.slot = s
        BY <2>4
      <3> HIDE DEF n
      <3>2. PICK m \in u : m.pk = pk /\ m.slot = s
        BY <3>1
      <3>3. s \in Nat
        BY <1>1, <2>2, <2>3, SlotsAreNumbers
      <3> QED BY <2>7, <3>2, <3>3 DEF AtHand
    <2>9. \A pk \in Wanted(q) : AtHand(pk, s)'
      BY <2>8
    <2> QED BY <1>4, <2>3, <2>6, <2>9 DEF Announced, SnapshotAtHand, AtHand
  <1>7. CASE FinishSnapshot /\ ending # None
    <2>1. announced' = announced \union {ending} /\ ending' = None
      BY <1>7, SnapshotSends
    <2>2. PICK e : e = ending
      OBVIOUS
    <2>3. SnapshotAtHand(e)'
      BY <1>2, <1>3, <1>7, <2>2 DEF Announced
    <2> QED BY <1>4, <1>7, <2>1, <2>2, <2>3 DEF Announced
  <1> QED
    BY <1>5, <1>6, <1>7
       DEF Next, vars, procVars, Write, NextSlot, Finalize, Connect, Disconnect, Process,
           RecvSnapshot, ReSnapshot, RecvFinalized, RecvAccount, FetchSnapshot, StoreAccounts, Ended

(* FeedMetadata::SnapshotEnd makes a dex ready: the wanted accounts of the snapshot
   are then stored or at least queued, no older than the snapshot, and stay so
   over every reconnect, although accounts and announcement are sent one after
   the other over two channels. *)
THEOREM AnnouncedQueued == Spec => []AnnouncedIsQueued
  <1>1. Init => Announced
    BY DEF Init, Announced
  <1>2. FeedInv /\ Announced /\ [Next]_vars => Announced'
    BY AnnouncedStep
  <1>3. FeedInv /\ Announced => AnnouncedIsQueued
    BY DEF Announced, SnapshotAtHand, AtHand, AnnouncedIsQueued, Wanted, Range
  <1> QED
    BY <1>1, <1>2, <1>3, FeedInvariant, PTL DEF Spec
=============================================================================
