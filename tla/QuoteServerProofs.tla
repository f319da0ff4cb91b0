------------------------- MODULE QuoteServerProofs -------------------------
(***************************************************************************)
(* What the handlers of the server answer with is recent, and the lookup     *)
(* tables they choose pay, for any clients, routes, tables and RPC delays.   *)
(***************************************************************************)
EXTENDS QuoteServer, TLAPS, SequenceTheorems, FiniteSetTheorems, WellFoundedInduction

(* A job has all fields of Idle. *)
IsJob(j) ==
    j = [pc |-> j.pc, kind |-> j.kind, pair |-> j.pair, max_accounts |-> j.max_accounts,
         route |-> j.route, table |-> j.table, call |-> j.call, alts |-> j.alts,
         hash |-> j.hash]

(* Tables as they are loaded; and tables no older than age at time t. *)
Loads == [key : DOMAIN Contents, as_of : Nat]

RecentTables(alts, t, age) ==
    \A i \in DOMAIN alts : alts[i].as_of \in Nat /\ t - alts[i].as_of < age

(* What a table costs more than the one key it saves. *)
Loss == TableSize + IndexSize - KeySize

(* The tables of a transaction make it larger by their static addresses only. *)
Pays(r, alts) ==
    /\ Len(alts) <= 4
    /\ TxSize(r.bytes, r.addresses, r.static, alts)
          <= TxSize(r.bytes, r.addresses, r.static, <<>>)
                + Loss * Cardinality(Covered(alts, r.static))

(* At time t a call has not outlasted the timeout. *)
InTime(call, t) == call \in Nat /\ call <= t /\ t <= call + Latency

(* The time at which a handler last ran, and the age its tables may have then. *)
RanAt(j, t) == IF j.call = None THEN t ELSE j.call

AgeAt(j) == AltTTL + (j.table - 1) * Latency

(* A handler at time t. *)
JobInv(j, t) ==
    /\ IsJob(j)
    /\ j.call # None => InTime(j.call, t) /\ j.pc \in {"alts", "hash"}
    /\ j.pc = "alts" => /\ j.alts \in Seq(Loads) /\ RecentTables(j.alts, RanAt(j, t), AgeAt(j))
                        /\ j.table \in 1 .. Len(Tables) + 1
                        /\ j.call # None => j.table <= Len(Tables)
    /\ j.pc = "hash" => /\ RecentTables(j.alts, RanAt(j, t), AgeAt(j))
                        /\ j.table = Len(Tables) + 1
    /\ j.pc = "built" => /\ t - j.hash < HashTTL + Latency
                         /\ RecentTables(j.alts, t, AltTTL + (Len(Tables) + 1) * Latency)
    /\ j.pc \in {"alts", "hash", "built", "quoted"} => j.route \in DOMAIN Routes
    /\ j.pc \in {"hash", "built"} => Pays(Routes[j.route], j.alts)

(* What a cache holds at time t came at most Latency after it was asked for. *)
Arrived(at, asked, t) ==
    /\ at \in Nat /\ asked \in Nat
    /\ asked <= at /\ at <= t /\ at <= asked + Latency

HashInv(u, t) == u # None => Arrived(u.at, u.hash, t)

TablesInv(held, t) ==
    /\ DOMAIN held = DOMAIN Contents
    /\ \A x \in DOMAIN Contents :
          held[x] # None => Arrived(held[x].at, held[x].as_of, t) /\ held[x].found \in BOOLEAN

ServerInv ==
    /\ now \in Nat /\ HashInv(last_update, now) /\ TablesInv(cache, now)
    /\ job = [c \in Clients |-> job[c]]
    /\ \A c \in Clients : JobInv(job[c], now)

-----------------------------------------------------------------------------
(* The choice of the tables *)

(* One more table moves k addresses and holds m static ones. *)
LEMMA TableSaves ==
    ASSUME NEW k \in Nat, NEW m \in Nat, k + m > 1
    PROVE  TableSize * (IF k > 0 THEN 1 ELSE 0) + IndexSize * k <= KeySize * k + Loss * m
  <1>1. /\ KeySize \in Nat /\ IndexSize \in Nat /\ TableSize \in Nat
        /\ IndexSize <= KeySize /\ TableSize <= 2 * (KeySize - IndexSize)
        /\ KeySize - IndexSize <= TableSize
    BY SizeAssumption
  <1>2. PICK d \in Nat : d = KeySize - IndexSize
    BY <1>1
  <1>3. PICK l \in Nat : l = TableSize - d /\ l = Loss
    BY <1>1, <1>2 DEF Loss
  <1>4. k * d \in Nat /\ m * l \in Nat /\ KeySize * k = IndexSize * k + k * d /\ Loss * m = m * l
        /\ IndexSize * k \in Nat
    <2>1. KeySize = IndexSize + d
      BY <1>1, <1>2
    <2>2. (IndexSize + d) * k = IndexSize * k + k * d
      BY <1>1
    <2> QED BY <1>1, <1>3, <2>1, <2>2
  <1>5. SUFFICES TableSize * (IF k > 0 THEN 1 ELSE 0) <= k * d + m * l
    BY <1>1, <1>4
  <1>6. CASE k = 0
    BY <1>1, <1>4, <1>6
  <1>7. CASE k = 1
    <2>1. m - 1 \in Nat /\ m * l = (m - 1) * l + l
      BY <1>7
    <2>2. (m - 1) * l \in Nat
      BY <2>1
    <2> QED BY <1>1, <1>2, <1>3, <1>7, <2>1, <2>2
  <1>8. CASE k > 1
    <2>1. k - 2 \in Nat /\ k * d = (k - 2) * d + 2 * d
      BY <1>8
    <2>2. (k - 2) * d \in Nat
      BY <2>1
    <2> QED BY <1>1, <1>2, <1>4, <1>8, <2>1, <2>2
  <1> QED
    BY <1>6, <1>7, <1>8

(* What the tables taken so far cost, and what they save. *)
Costs(moved, tables, stay) ==
    TableSize * tables + IndexSize * moved <= KeySize * moved + Loss * stay

LEMMA CostsMore ==
    ASSUME NEW b \in Nat, NEW n \in Nat, NEW z \in Nat, Costs(b, n, z),
           NEW k \in Nat, NEW m \in Nat, k + m > 1, NEW u \in Nat, u = IF k > 0 THEN 1 ELSE 0
    PROVE  Costs(b + k, n + u, z + m)
  <1>1. KeySize \in Int /\ IndexSize \in Int /\ TableSize \in Int /\ Loss \in Int
    BY SizeAssumption DEF Loss
  <1>2. PICK K \in Int, I \in Int, T \in Int, L \in Int :
           K = KeySize /\ I = IndexSize /\ T = TableSize /\ L = Loss
    BY <1>1
  <1>3. T * u + I * k <= K * k + L * m
    BY <1>2, TableSaves
  <1>4. T * n + I * b <= K * b + L * z
    BY <1>2 DEF Costs
  <1>5. /\ T * (n + u) = T * n + T * u /\ I * (b + k) = I * b + I * k
        /\ K * (b + k) = K * b + K * k /\ L * (z + m) = L * z + L * m
    OBVIOUS
  <1>6. T * (n + u) + I * (b + k) <= K * (b + k) + L * (z + m)
    <2>1. /\ T * n \in Int /\ T * u \in Int /\ I * b \in Int /\ I * k \in Int
          /\ K * b \in Int /\ K * k \in Int /\ L * z \in Int /\ L * m \in Int
      OBVIOUS
    <2> QED BY <1>3, <1>4, <1>5, <2>1
  <1> QED
    BY <1>2, <1>6 DEF Costs

(* The tables taken so far cover the addresses that are no longer open; the
   movable ones are moved, and the static ones are what they may cost. *)
Saving(p, addresses, static) ==
    /\ \E S : p.taken \in Seq(S)
    /\ p.open \subseteq addresses /\ Covered(p.taken, addresses) = addresses \ p.open
    /\ IsFiniteSet(LookedUp(p.taken, addresses \ static))
    /\ Costs(Cardinality((addresses \ static) \ p.open),
             Cardinality(LookedUp(p.taken, addresses \ static)),
             Cardinality(static \ p.open))

(* What tables cover of a part of the addresses. *)
LEMMA CoveredPart ==
    ASSUME NEW alts, NEW addresses, NEW part, part \subseteq addresses
    PROVE  Covered(alts, part) = Covered(alts, addresses) \cap part
  BY DEF Covered, Covers

(* The table taken last moves what was open of the movable addresses. *)
AllMoved(s, M, open) == Covered(s, M) = M \ open

LastMoves(q, s, x, M, open) ==
    /\ x.addresses \cap open \cap M # {} => LookedUp(q, M) = LookedUp(s, M) \cup {Len(s) + 1}
    /\ x.addresses \cap open \cap M = {} => LookedUp(q, M) = LookedUp(s, M)

LEMMA MovedLast ==
    ASSUME NEW S, NEW s \in Seq(S), NEW x \in S, NEW M, NEW open, AllMoved(s, M, open)
    PROVE  LastMoves(Append(s, x), s, x, M, open)
  <1>0. PICK q : q = Append(s, x)
    OBVIOUS
  <1>1. PICK n \in Nat : n = Len(s) /\ DOMAIN s = 1 .. n
    OBVIOUS
  <1>2. /\ DOMAIN q = 1 .. n + 1 /\ q[n + 1] = x
        /\ \A i \in 1 .. n : q[i] = s[i]
    BY <1>0, <1>1
  <1>3. ASSUME NEW i \in 1 .. n
        PROVE  MovedBy(q, M, i) = MovedBy(s, M, i)
    <2>1. \A j \in 1 .. i - 1 : j \in 1 .. n
      OBVIOUS
    <2>2. {Covers(q[j], M) : j \in 1 .. i - 1} = {Covers(s[j], M) : j \in 1 .. i - 1}
      BY <1>2, <2>1
    <2> QED BY <1>2, <2>2 DEF MovedBy
  <1>4. MovedBy(q, M, n + 1) = x.addresses \cap open \cap M
    <2>1. n + 1 - 1 = n /\ {Covers(q[j], M) : j \in 1 .. n} = {Covers(s[j], M) : j \in 1 .. n}
      BY <1>2
    <2>2. UNION {Covers(s[j], M) : j \in 1 .. n} = M \ open
      BY <1>1 DEF AllMoved, Covered
    <2>3. MovedBy(q, M, n + 1) = Covers(x, M) \ (M \ open)
      BY <1>2, <2>1, <2>2 DEF MovedBy
    <2> QED BY <2>3 DEF Covers
  <1>5. 1 .. n + 1 = (1 .. n) \cup {n + 1}
    OBVIOUS
  <1>6. LookedUp(q, M) = {i \in 1 .. n : MovedBy(q, M, i) # {}}
                           \cup {i \in {n + 1} : MovedBy(q, M, i) # {}}
    BY <1>2, <1>5 DEF LookedUp
  <1>7. LookedUp(s, M) = {i \in 1 .. n : MovedBy(s, M, i) # {}}
    BY <1>1 DEF LookedUp
  <1>8. {i \in 1 .. n : MovedBy(q, M, i) # {}} = LookedUp(s, M)
    BY <1>3, <1>7
  <1> QED
    BY <1>0, <1>1, <1>4, <1>6, <1>8 DEF LastMoves

(* The sizes of a finite set and of a part of it that goes. *)
LEMMA Grown ==
    ASSUME NEW A, IsFiniteSet(A), NEW open, NEW out, out \subseteq open
    PROVE  /\ Cardinality(A \ open) \in Nat /\ Cardinality(out \cap A) \in Nat
           /\ Cardinality(A \ (open \ out)) = Cardinality(A \ open) + Cardinality(out \cap A)
  <1>1. PICK P, Q : P = A \ open /\ Q = out \cap A
    OBVIOUS
  <1>2. IsFiniteSet(P) /\ IsFiniteSet(Q)
    BY <1>1, FS_Subset
  <1>3. A \ (open \ out) = P \cup Q /\ P \cap Q = {}
    BY <1>1
  <1>4. PICK b \in Nat, k \in Nat : b = Cardinality(P) /\ k = Cardinality(Q)
    BY <1>2, FS_CardinalityType
  <1>5. Cardinality(P \cup Q) = b + k - Cardinality(P \cap Q)
    BY <1>2, <1>4, FS_Union
  <1>6. Cardinality(P \cap Q) = 0
    BY <1>3, FS_EmptySet
  <1>7. Cardinality(P \cup Q) = b + k
    BY <1>5, <1>6
  <1> QED
    BY <1>1, <1>3, <1>4, <1>7

LEMMA TakeBestSaves ==
    ASSUME NEW p, NEW addresses, NEW static, static \subseteq addresses, IsFiniteSet(addresses),
           Saving(p, addresses, static)
    PROVE  /\ Saving(TakeBest(p), addresses, static)
           /\ Len(TakeBest(p).taken) \in {Len(p.taken), Len(p.taken) + 1}
  <1> DEFINE x == p.left[BestOf(p.left, p.open)]
             out == Covers(x, p.open)
             q == [left |-> RemoveAt(p.left, BestOf(p.left, p.open)), open |-> p.open \ out,
                   taken |-> Append(p.taken, x)]
  <1>1. CASE TakeBest(p) = p
    BY <1>1
  <1>2. CASE TakeBest(p) # p
    <2>1. TakeBest(p) = q /\ Worth(x, p.open)
      BY <1>2 DEF TakeBest
    <2>2. q.open = p.open \ out /\ q.taken = Append(p.taken, x)
      OBVIOUS
    <2> HIDE DEF q
    <2>3. out \subseteq p.open /\ out = x.addresses \cap p.open
      BY DEF Covers
    <2>4. Cardinality(out) > 1
      BY <2>1 DEF Worth
    <2> HIDE DEF out
    <2>5. p.open \subseteq addresses /\ Covered(p.taken, addresses) = addresses \ p.open
      BY DEF Saving
    <2>6. PICK S : p.taken \in Seq(S)
      BY DEF Saving
    <2> DEFINE R == S \union {x}
    <2>7. p.taken \in Seq(R) /\ x \in R
      BY <2>6
    <2> HIDE DEF x, R
    <2>8. /\ q.taken \in Seq(R) /\ Len(q.taken) = Len(p.taken) + 1 /\ Len(p.taken) \in Nat
          /\ q.taken[Len(p.taken) + 1] = x
          /\ \A i \in 1 .. Len(p.taken) : q.taken[i] = p.taken[i]
          /\ DOMAIN q.taken = 1 .. Len(p.taken) + 1 /\ DOMAIN p.taken = 1 .. Len(p.taken)
      BY <2>2, <2>7
    <2>9. Covered(q.taken, addresses) = Covered(p.taken, addresses) \union Covers(x, addresses)
      <3>1. 1 .. Len(p.taken) + 1 = (1 .. Len(p.taken)) \union {Len(p.taken) + 1}
        BY <2>8
      <3>2. {Covers(q.taken[i], addresses) : i \in 1 .. Len(p.taken) + 1}
               = {Covers(p.taken[i], addresses) : i \in 1 .. Len(p.taken)} \union {Covers(x, addresses)}
        BY <2>8, <3>1
      <3> QED BY <2>8, <3>2 DEF Covered
    <2>10. addresses \ q.open = (addresses \ p.open) \union out
      BY <2>2, <2>3, <2>5
    <2>11. Covered(q.taken, addresses) = addresses \ q.open
      BY <2>3, <2>5, <2>9, <2>10 DEF Covers
    <2>12. PICK M : M = addresses \ static
      OBVIOUS
    <2>13. IsFiniteSet(M) /\ IsFiniteSet(static) /\ IsFiniteSet(out)
      BY <2>3, <2>5, <2>12, FS_Subset
    <2>14. PICK b \in Nat, k \in Nat :
              /\ b = Cardinality(M \ p.open) /\ k = Cardinality(out \cap M)
              /\ Cardinality(M \ q.open) = b + k
      <3>1. /\ Cardinality(M \ p.open) \in Nat /\ Cardinality(out \cap M) \in Nat
            /\ Cardinality(M \ (p.open \ out)) = Cardinality(M \ p.open) + Cardinality(out \cap M)
        BY <2>3, <2>13, Grown
      <3> QED BY <2>2, <3>1
    <2>15. PICK z \in Nat, m \in Nat :
              /\ z = Cardinality(static \ p.open) /\ m = Cardinality(out \cap static)
              /\ Cardinality(static \ q.open) = z + m
      <3>1. /\ Cardinality(static \ p.open) \in Nat /\ Cardinality(out \cap static) \in Nat
            /\ Cardinality(static \ (p.open \ out)) = Cardinality(static \ p.open) + Cardinality(out \cap static)
        BY <2>3, <2>13, Grown
      <3> QED BY <2>2, <3>1
    <2>16. k + m > 1
      <3>1. out = (out \cap M) \cup (out \cap static) /\ (out \cap M) \cap (out \cap static) = {}
        BY <2>3, <2>5, <2>12
      <3>2. IsFiniteSet(out \cap M) /\ IsFiniteSet(out \cap static)
        BY <2>13, FS_Subset
      <3>3. Cardinality((out \cap M) \cup (out \cap static))
               = k + m - Cardinality((out \cap M) \cap (out \cap static))
        BY <2>14, <2>15, <3>2, FS_Union
      <3>4. Cardinality({}) = 0
        BY FS_EmptySet
      <3>5. Cardinality(out) = k + m - 0
        BY <3>1, <3>3, <3>4
      <3> QED BY <2>4, <3>5
    <2>17. PICK U : U = LookedUp(p.taken, M) /\ IsFiniteSet(U)
      BY <2>12 DEF Saving
    <2>18. PICK n \in Nat : n = Cardinality(U)
      BY <2>17, FS_CardinalityType
    <2>19. PICK u \in Nat : u = IF k > 0 THEN 1 ELSE 0
      OBVIOUS
    <2>20. /\ out \cap M # {} => LookedUp(q.taken, M) = U \cup {Len(p.taken) + 1}
           /\ out \cap M = {} => LookedUp(q.taken, M) = U
      <3>1. Covered(p.taken, M) = M \ p.open
        <4>1. Covered(p.taken, M) = Covered(p.taken, addresses) \cap M
          BY <2>12, CoveredPart
        <4> QED BY <2>5, <2>12, <4>1
      <3>2. AllMoved(p.taken, M, p.open)
        BY <3>1 DEF AllMoved
      <3>3. p.taken \in Seq(R)
        BY <2>7
      <3>4. x \in R
        BY <2>7
      <3>5. LastMoves(Append(p.taken, x), p.taken, x, M, p.open)
        BY ONLY <3>2, <3>3, <3>4, MovedLast
      <3> QED BY <2>2, <2>3, <2>17, <3>5 DEF LastMoves
    <2>21. out \cap M # {} <=> k > 0
      <3>1. IsFiniteSet(out \cap M)
        BY <2>13, FS_Subset
      <3>2. Cardinality(out \cap M) = 0 <=> out \cap M = {}
        BY <3>1, FS_EmptySet
      <3> QED BY <2>14, <3>2
    <2>22. Len(p.taken) + 1 \notin U
      <3>1. U \subseteq DOMAIN p.taken
        BY <2>17 DEF LookedUp
      <3> QED BY <2>8, <3>1
    <2>23. IsFiniteSet(LookedUp(q.taken, M)) /\ Cardinality(LookedUp(q.taken, M)) = n + u
      <3>1. CASE k > 0
        <4>1. LookedUp(q.taken, M) = U \cup {Len(p.taken) + 1}
          BY <2>20, <2>21, <3>1
        <4>2. /\ IsFiniteSet(U \cup {Len(p.taken) + 1})
              /\ Cardinality(U \cup {Len(p.taken) + 1}) = n + 1
          BY <2>17, <2>18, <2>22, FS_AddElement
        <4> QED BY <2>19, <3>1, <4>1, <4>2
      <3>2. CASE ~(k > 0)
        <4>1. LookedUp(q.taken, M) = U
          BY <2>20, <2>21, <3>2
        <4>2. n + u = n
          BY <2>19, <3>2
        <4> QED BY <2>17, <2>18, <4>1, <4>2
      <3> QED BY <3>1, <3>2
    <2>24. Costs(b, n, z)
      BY <2>12, <2>14, <2>15, <2>17, <2>18 DEF Saving
    <2>25. Costs(b + k, n + u, z + m)
      BY <2>16, <2>19, <2>24, CostsMore
    <2>26. q.open \subseteq addresses
      BY <2>2, <2>5
    <2>27. Saving(q, addresses, static)
      BY <2>8, <2>11, <2>12, <2>14, <2>15, <2>23, <2>25, <2>26 DEF Saving
    <2> QED BY <2>1, <2>8, <2>27
  <1> QED
    BY <1>1, <1>2

(* get_best_alt_internal: the levels follow one another. *)
LEMMA FourLevels ==
    ASSUME NEW alts, NEW addresses
    PROVE  get_best_alt(alts, addresses)
             = TakeBest(TakeBest(TakeBest(TakeBest(
                  [left |-> alts, open |-> addresses, taken |-> <<>>])))).taken
  <1> DEFINE p0 == [left |-> alts, open |-> addresses, taken |-> <<>>]
             p1 == TakeBest(p0)
             p2 == TakeBest(p1)
             p3 == TakeBest(p2)
             p4 == TakeBest(p3)
             Step(f) == [level \in 0..4 |->
                           IF level = 0 THEN p0
                           ELSE CHOOSE q \in {TakeBest(p) : p \in {f[level - 1]}} : TRUE]
             pick == CHOOSE f : f = Step(f)
             G == [level \in 0..4 |-> IF level = 0 THEN p0 ELSE IF level = 1 THEN p1
                                      ELSE IF level = 2 THEN p2 ELSE IF level = 3 THEN p3 ELSE p4]
  <1>1. get_best_alt(alts, addresses) = pick[4].taken
    BY DEF get_best_alt
  <1>2. \A r : (CHOOSE q \in {TakeBest(p) : p \in {r}} : TRUE) = TakeBest(r)
    OBVIOUS
  <1>3. \A f : Step(f) = [level \in 0..4 |-> IF level = 0 THEN p0 ELSE TakeBest(f[level - 1])]
    BY <1>2
  <1> HIDE DEF Step
  <1>4. G = Step(G)
    <2>1. G[0] = p0 /\ G[1] = TakeBest(p0) /\ G[2] = TakeBest(G[1]) /\ G[3] = TakeBest(G[2])
          /\ G[4] = TakeBest(G[3]) /\ DOMAIN G = 0..4
      OBVIOUS
    <2>2. G = [level \in 0..4 |-> G[level]]
      OBVIOUS
    <2> HIDE DEF G, p0, p1, p2, p3, p4
    <2>3. ASSUME NEW level \in 0..4
          PROVE  G[level] = IF level = 0 THEN p0 ELSE TakeBest(G[level - 1])
      <3>1. level \in {0, 1, 2, 3, 4}
        OBVIOUS
      <3> QED BY <2>1, <3>1
    <2> QED BY <1>3, <2>2, <2>3
  <1>5. pick = Step(pick)
    BY <1>4
  <1> HIDE DEF pick, G
  <1>6. pick[0] = p0 /\ pick[1] = TakeBest(pick[0]) /\ pick[2] = TakeBest(pick[1])
        /\ pick[3] = TakeBest(pick[2]) /\ pick[4] = TakeBest(pick[3])
    <2>1. \A level \in 0..4 : pick[level] = IF level = 0 THEN p0 ELSE TakeBest(pick[level - 1])
      BY <1>3, <1>5
    <2> QED BY <2>1
  <1> QED
    BY <1>1, <1>6

(* A level takes at most one more. *)
Within(p, n) == Len(p.taken) \in 0 .. n

LEMMA OneMore ==
    ASSUME NEW p, NEW q, NEW addresses, NEW static, NEW n \in Nat, IsFiniteSet(addresses),
           static \subseteq addresses,
           Saving(p, addresses, static), Within(p, n), q = TakeBest(p)
    PROVE  Saving(q, addresses, static) /\ Within(q, n + 1)
  <1>1. Saving(q, addresses, static) /\ Len(q.taken) \in {Len(p.taken), Len(p.taken) + 1}
    BY TakeBestSaves
  <1> QED
    BY <1>1 DEF Within

(* The size of a transaction is what its parts cost. *)
Moved(alts, addresses, static) == Covered(alts, addresses \ static)

Lookups(alts, addresses, static) == Cardinality(LookedUp(alts, addresses \ static))

Parts(rest, a, b, n) == rest + KeySize * a - KeySize * b + IndexSize * b + TableSize * n

LEMMA SizeIsCost ==
    ASSUME NEW alts, NEW addresses, NEW static, NEW rest \in Nat, IsFiniteSet(addresses),
           Lookups(alts, addresses, static) \in Nat
    PROVE  /\ Cardinality(addresses) \in Nat /\ Cardinality(Moved(alts, addresses, static)) \in Nat
           /\ TxSize(rest, addresses, static, alts)
                = Parts(rest, Cardinality(addresses), Cardinality(Moved(alts, addresses, static)),
                        Lookups(alts, addresses, static))
  <1>0. PICK moved, n :
           moved = Covered(alts, addresses \ static) /\ n = Lookups(alts, addresses, static)
    OBVIOUS
  <1>1. moved \subseteq addresses
    BY <1>0 DEF Covered, Covers
  <1>2. PICK a \in Nat, b \in Nat :
           /\ a = Cardinality(addresses) /\ b = Cardinality(moved)
           /\ Cardinality(addresses \ moved) = a - b
    <2>1. IsFiniteSet(moved) /\ addresses \cap moved = moved
      BY <1>1, FS_Subset
    <2>2. Cardinality(addresses \ moved) = Cardinality(addresses) - Cardinality(addresses \cap moved)
      BY <2>1, FS_Difference
    <2> QED BY <2>1, <2>2, FS_CardinalityType
  <1>3. TxSize(rest, addresses, static, alts)
          = rest + KeySize * (a - b) + IndexSize * b + TableSize * n
    BY <1>0, <1>2 DEF TxSize, Lookups
  <1>4. KeySize \in Int /\ IndexSize \in Int /\ TableSize \in Int /\ n \in Int
    BY <1>0, SizeAssumption
  <1>5. KeySize * (a - b) = KeySize * a - KeySize * b
    BY <1>4
  <1>6. KeySize * a \in Int /\ KeySize * b \in Int /\ IndexSize * b \in Int /\ TableSize * n \in Int
    BY <1>4
  <1>7. TxSize(rest, addresses, static, alts)
          = rest + KeySize * a - KeySize * b + IndexSize * b + TableSize * n
    BY <1>3, <1>5, <1>6
  <1> QED
    BY <1>0, <1>2, <1>7 DEF Parts, Moved

(* Nothing is taken at first. *)
LEMMA NothingTaken ==
    ASSUME NEW p, NEW addresses, NEW static, IsFiniteSet(addresses), static \subseteq addresses,
           p.open = addresses, p.taken = <<>>
    PROVE  Saving(p, addresses, static) /\ Len(p.taken) = 0
  <1>1. /\ Len(<<>>) = 0 /\ <<>> \in Seq({}) /\ addresses \ addresses = {}
        /\ Cardinality({}) = 0 /\ IsFiniteSet({}) /\ DOMAIN <<>> = {}
    BY FS_EmptySet
  <1>2. Covered(<<>>, addresses) = {} /\ LookedUp(<<>>, addresses \ static) = {}
    BY <1>1 DEF Covered, LookedUp
  <1>3. (addresses \ static) \ addresses = {} /\ static \ addresses = {}
    OBVIOUS
  <1>4. Costs(0, 0, 0)
    BY SizeAssumption DEF Costs, Loss
  <1> QED
    BY <1>1, <1>2, <1>3, <1>4 DEF Saving

(* get_best_alt: at most four tables, which make the transaction larger by their
   static addresses only. *)
LEMMA BestAltPays ==
    ASSUME NEW alts, NEW r, IsFiniteSet(r.addresses), r.static \subseteq r.addresses,
           r.bytes \in Nat
    PROVE  Pays(r, get_best_alt(alts, r.addresses))
  <1>1. PICK A, St, rest : A = r.addresses /\ St = r.static /\ rest = r.bytes
    OBVIOUS
  <1>2. IsFiniteSet(A) /\ St \subseteq A /\ rest \in Nat
    BY <1>1
  <1>3. PICK p0 : p0 = [left |-> alts, open |-> A, taken |-> <<>>]
    OBVIOUS
  <1>4. PICK p1, p2, p3, p4 :
           p1 = TakeBest(p0) /\ p2 = TakeBest(p1) /\ p3 = TakeBest(p2) /\ p4 = TakeBest(p3)
    OBVIOUS
  <1>5. get_best_alt(alts, A) = p4.taken
    <2>1. get_best_alt(alts, A) = TakeBest(TakeBest(TakeBest(TakeBest(p0)))).taken
      BY <1>3, FourLevels
    <2> QED BY <1>4, <2>1
  <1>6. Saving(p0, A, St) /\ Within(p0, 0)
    <2>1. p0.open = A /\ p0.taken = <<>>
      BY <1>3
    <2>2. Saving(p0, A, St) /\ Len(p0.taken) = 0
      BY <1>2, <2>1, NothingTaken
    <2> QED BY <2>2 DEF Within
  <1>7. Saving(p1, A, St) /\ Within(p1, 1)
    <2>1. Saving(p1, A, St) /\ Within(p1, 0 + 1)
      BY <1>2, <1>4, <1>6, OneMore
    <2> QED BY <2>1
  <1>8. Saving(p2, A, St) /\ Within(p2, 2)
    <2>1. Saving(p2, A, St) /\ Within(p2, 1 + 1)
      BY <1>2, <1>4, <1>7, OneMore
    <2> QED BY <2>1
  <1>9. Saving(p3, A, St) /\ Within(p3, 3)
    <2>1. Saving(p3, A, St) /\ Within(p3, 2 + 1)
      BY <1>2, <1>4, <1>8, OneMore
    <2> QED BY <2>1
  <1>10. Saving(p4, A, St) /\ Within(p4, 4)
    <2>1. Saving(p4, A, St) /\ Within(p4, 3 + 1)
      BY <1>2, <1>4, <1>9, OneMore
    <2> QED BY <2>1
  <1>11. Len(p4.taken) <= 4
    <2>1. PICK n \in 0 .. 4 : n = Len(p4.taken)
      BY <1>10 DEF Within
    <2>2. n <= 4
      OBVIOUS
    <2> QED BY <2>1, <2>2
  <1>12. PICK moved, U, cov :
           /\ moved = Covered(p4.taken, A \ St) /\ cov = Covered(p4.taken, St)
           /\ U = LookedUp(p4.taken, A \ St) /\ IsFiniteSet(U)
    BY <1>10 DEF Saving
  <1>13. moved = (A \ St) \ p4.open /\ cov = St \ p4.open
    <2>1. Covered(p4.taken, A) = A \ p4.open
      BY <1>10 DEF Saving
    <2>2. moved = Covered(p4.taken, A) \cap (A \ St) /\ cov = Covered(p4.taken, A) \cap St
      BY <1>2, <1>12, CoveredPart
    <2> QED BY <1>2, <2>1, <2>2
  <1>14. PICK n \in Nat, z \in Nat : n = Cardinality(U) /\ z = Cardinality(cov)
    <2>1. IsFiniteSet(cov)
      BY <1>2, <1>13, FS_Subset
    <2> QED BY <1>12, <2>1, FS_CardinalityType
  <1>15. PICK a \in Nat, b \in Nat :
           /\ a = Cardinality(A) /\ b = Cardinality(moved)
           /\ TxSize(rest, A, St, p4.taken) = Parts(rest, a, b, n)
    <2>1. Lookups(p4.taken, A, St) = n /\ Moved(p4.taken, A, St) = moved
      BY <1>12, <1>14 DEF Lookups, Moved
    <2>2. Lookups(p4.taken, A, St) \in Nat
      BY <2>1
    <2>3. /\ Cardinality(A) \in Nat /\ Cardinality(Moved(p4.taken, A, St)) \in Nat
          /\ TxSize(rest, A, St, p4.taken)
               = Parts(rest, Cardinality(A), Cardinality(Moved(p4.taken, A, St)),
                       Lookups(p4.taken, A, St))
      BY <1>2, <2>2, SizeIsCost
    <2> QED BY <2>1, <2>3
  <1>16. TxSize(rest, A, St, <<>>) = Parts(rest, a, 0, 0)
    <2>1. Lookups(<<>>, A, St) = 0 /\ Moved(<<>>, A, St) = {} /\ Cardinality({}) = 0
      BY FS_EmptySet DEF Lookups, Moved, Covered, LookedUp
    <2>2. Lookups(<<>>, A, St) \in Nat
      BY <2>1
    <2>3. TxSize(rest, A, St, <<>>)
            = Parts(rest, Cardinality(A), Cardinality(Moved(<<>>, A, St)), Lookups(<<>>, A, St))
      BY <1>2, <2>2, SizeIsCost
    <2> QED BY <1>15, <2>1, <2>3
  <1>17. Costs(b, n, z)
    BY <1>10, <1>12, <1>13, <1>14, <1>15 DEF Saving
  <1>18. TxSize(rest, A, St, p4.taken) <= TxSize(rest, A, St, <<>>) + Loss * z
    <2>1. KeySize \in Int /\ IndexSize \in Int /\ TableSize \in Int /\ Loss \in Int
      BY SizeAssumption DEF Loss
    <2>2. /\ KeySize * a \in Int /\ KeySize * b \in Int /\ IndexSize * b \in Int
          /\ TableSize * n \in Int /\ Loss * z \in Int
          /\ KeySize * 0 = 0 /\ IndexSize * 0 = 0 /\ TableSize * 0 = 0
      BY <2>1
    <2>3. TableSize * n + IndexSize * b <= KeySize * b + Loss * z
      BY <1>17 DEF Costs
    <2>4. PICK v \in Int, w \in Int, x \in Int, y \in Int, l \in Int :
            /\ v = KeySize * a /\ w = KeySize * b /\ x = IndexSize * b /\ y = TableSize * n
            /\ l = Loss * z
      BY <2>2
    <2>5. y + x <= w + l
      BY <2>3, <2>4
    <2>6. /\ TxSize(rest, A, St, p4.taken) = rest + v - w + x + y
          /\ TxSize(rest, A, St, <<>>) = rest + v - 0 + 0 + 0
      BY <1>15, <1>16, <2>2, <2>4 DEF Parts
    <2>7. rest + v - w + x + y <= rest + v - 0 + 0 + 0 + l
      BY <1>2, <2>5
    <2> QED BY <2>4, <2>6, <2>7
  <1> QED
    BY <1>1, <1>5, <1>11, <1>12, <1>14, <1>18 DEF Pays

-----------------------------------------------------------------------------
(* The hot mints *)

Kept(n) == IF n < MaxCount THEN n ELSE MaxCount

(* h holds the latest mints of s. *)
Latest(h, s) ==
    /\ \E S : s \in Seq(S)
    /\ IsInjective(s) /\ Range(s) \cap AlwaysHot = {}
    /\ h.ordered = SubSeq(s, 1, Kept(Len(s)))
    /\ h.unordered = Range(h.ordered)

(* The first n elements. *)
LEMMA Prefix ==
    ASSUME NEW S, NEW s \in Seq(S), NEW n \in 0 .. Len(s), NEW t, t = SubSeq(s, 1, n)
    PROVE  /\ t \in Seq(S) /\ Len(t) = n /\ DOMAIN t = 1 .. n
           /\ \A i \in 1 .. n : t[i] = s[i]
  <1>1. \A i \in 1 .. n : s[i] \in S
    OBVIOUS
  <1>2. /\ t \in Seq(S) /\ Len(t) = (IF 1 <= n THEN n - 1 + 1 ELSE 0)
        /\ \A i \in 1 .. n - 1 + 1 : t[i] = s[1 + i - 1]
    BY <1>1, SubSeqProperties
  <1>3. Len(t) = n
    BY <1>2
  <1>4. \A i \in 1 .. n : t[i] = s[i]
    BY <1>2
  <1> QED
    BY <1>2, <1>3, <1>4

(* Two sequences with the same elements at the same places. *)
LEMMA SameSequence ==
    ASSUME NEW S, NEW s \in Seq(S), NEW t \in Seq(S), Len(s) = Len(t),
           \A i \in 1 .. Len(s) : s[i] = t[i]
    PROVE  s = t
  <1>1. DOMAIN s = 1 .. Len(s) /\ DOMAIN t = 1 .. Len(s)
    OBVIOUS
  <1>2. s = [i \in 1 .. Len(s) |-> s[i]] /\ t = [i \in 1 .. Len(s) |-> t[i]]
    BY <1>1
  <1> QED
    BY <1>2

(* A new first element. *)
LEMMA Pushed ==
    ASSUME NEW S, NEW s \in Seq(S), NEW m \in S, NEW t, t = <<m>> \o s
    PROVE  /\ t \in Seq(S) /\ Len(t) = Len(s) + 1
           /\ \A i \in 1 .. Len(s) + 1 : t[i] = IF i = 1 THEN m ELSE s[i - 1]
  <1>1. <<m>> \in Seq(S) /\ Len(<<m>>) = 1 /\ <<m>>[1] = m
    OBVIOUS
  <1>2. /\ t \in Seq(S) /\ Len(t) = 1 + Len(s)
        /\ \A i \in 1 .. 1 + Len(s) : t[i] = IF i <= 1 THEN <<m>>[i] ELSE s[i - 1]
    BY <1>1, ConcatProperties
  <1>3. Len(s) \in Nat
    OBVIOUS
  <1> QED
    BY <1>1, <1>2, <1>3

(* Without the element at place p. *)
LEMMA Removed ==
    ASSUME NEW S, NEW s \in Seq(S), NEW p \in 1 .. Len(s), NEW t, t = RemoveAt(s, p)
    PROVE  /\ t \in Seq(S) /\ Len(t) = Len(s) - 1
           /\ \A i \in 1 .. Len(s) - 1 : t[i] = IF i < p THEN s[i] ELSE s[i + 1]
  <1>1. PICK n \in Nat : n = Len(s)
    OBVIOUS
  <1>2. PICK a, b : a = SubSeq(s, 1, p - 1) /\ b = SubSeq(s, p + 1, n)
    OBVIOUS
  <1>3. /\ a \in Seq(S) /\ Len(a) = p - 1
        /\ \A i \in 1 .. p - 1 : a[i] = s[i]
    <2>1. p - 1 \in 0 .. Len(s)
      BY <1>1
    <2> QED BY <1>2, <2>1, Prefix
  <1>4. /\ b \in Seq(S) /\ Len(b) = n - p
        /\ \A i \in 1 .. n - p : b[i] = s[p + i]
    <2>1. p \in Int /\ p + 1 \in Int /\ n \in Int /\ p <= n /\ 1 <= p
      BY <1>1
    <2>2. \A i \in p + 1 .. n : s[i] \in S
      BY <1>1, <2>1
    <2>3. /\ b \in Seq(S) /\ Len(b) = (IF p + 1 <= n THEN n - (p + 1) + 1 ELSE 0)
          /\ \A i \in 1 .. n - (p + 1) + 1 : b[i] = s[p + 1 + i - 1]
      BY <1>2, <2>1, <2>2, SubSeqProperties
    <2>4. Len(b) = n - p
      BY <2>1, <2>3
    <2>5. n - (p + 1) + 1 = n - p /\ \A i \in Int : p + 1 + i - 1 = p + i
      BY <2>1
    <2> QED BY <2>3, <2>4, <2>5
  <1>5. t = a \o b
    BY <1>1, <1>2 DEF RemoveAt
  <1>6. /\ t \in Seq(S) /\ Len(t) = (p - 1) + (n - p)
        /\ \A i \in 1 .. (p - 1) + (n - p) : t[i] = IF i <= p - 1 THEN a[i] ELSE b[i - (p - 1)]
    <2>0. a \in Seq(S) /\ b \in Seq(S)
      BY <1>3, <1>4
    <2>1. /\ t \in Seq(S) /\ Len(t) = Len(a) + Len(b)
          /\ \A i \in 1 .. Len(a) + Len(b) : t[i] = IF i <= Len(a) THEN a[i] ELSE b[i - Len(a)]
      BY ONLY <2>0, <1>5, ConcatProperties
    <2>2. Len(a) = p - 1 /\ Len(b) = n - p
      BY <1>3, <1>4
    <2> QED BY ONLY <2>1, <2>2
  <1>7. (p - 1) + (n - p) = n - 1
    BY <1>1
  <1>8. ASSUME NEW i \in 1 .. n - 1
        PROVE  t[i] = IF i < p THEN s[i] ELSE s[i + 1]
    <2>1. CASE i < p
      <3>1. i <= p - 1 /\ i \in 1 .. p - 1
        BY <2>1, <1>1
      <3> QED BY <1>3, <1>6, <1>7, <2>1, <3>1
    <2>2. CASE ~(i < p)
      <3>1. ~(i <= p - 1) /\ i - (p - 1) \in 1 .. n - p /\ p + (i - (p - 1)) = i + 1
        BY <2>2, <1>1
      <3>2. t[i] = b[i - (p - 1)]
        BY <1>6, <1>7, <3>1
      <3>3. b[i - (p - 1)] = s[p + (i - (p - 1))]
        BY <1>4, <3>1
      <3> QED BY <2>2, <3>1, <3>2, <3>3
    <2> QED BY <2>1, <2>2
  <1> QED
    BY <1>1, <1>6, <1>7, <1>8

(* A list without duplicates has as many elements as places. *)
LEMMA UniqueCount ==
    ASSUME NEW S, NEW s \in Seq(S), IsInjective(s)
    PROVE  Cardinality(Range(s)) = Len(s)
  <1>1. DOMAIN s = 1 .. Len(s) /\ Len(s) \in Nat /\ s = [i \in 1 .. Len(s) |-> s[i]]
    OBVIOUS
  <1>2. s \in Bijection(1 .. Len(s), Range(s))
    BY <1>1 DEF Bijection, Injection, Surjection, Range, IsInjective
  <1>3. ExistsBijection(1 .. Len(s), Range(s))
    BY <1>2 DEF ExistsBijection
  <1> QED
    BY <1>1, <1>3, FS_CountingElements

(* The place of an element of a list without duplicates. *)
LEMMA PositionIs ==
    ASSUME NEW s, NEW n \in Nat, DOMAIN s = 1 .. n, IsInjective(s), NEW p \in 1 .. n
    PROVE  Position(s, s[p]) = p
  <1>1. \A j \in 1 .. p - 1 : s[j] # s[p]
    BY DEF IsInjective
  <1>2. \A i \in 1 .. n : s[i] = s[p] => i = p
    BY DEF IsInjective
  <1> QED
    BY <1>1, <1>2 DEF Position

(* t is s with m moved to the front from place p, or put there. *)
AtFront(t, s, m, p) ==
    /\ p <= Len(s) => s[p] = m
    /\ p > Len(s) => m \notin Range(s)
    /\ Len(t) = IF p <= Len(s) THEN Len(s) ELSE Len(s) + 1
    /\ \A i \in 1 .. Len(t) : t[i] = IF i = 1 THEN m ELSE IF i <= p THEN s[i - 1] ELSE s[i]

LEMMA ToFront ==
    ASSUME NEW S, NEW s \in Seq(S), NEW m \in S, IsInjective(s), NEW t,
           t = <<m>> \o (IF m \in Range(s) THEN RemoveAt(s, Position(s, m)) ELSE s)
    PROVE  t \in Seq(S) /\ \E p \in 1 .. Len(s) + 1 : AtFront(t, s, m, p)
  <1>1. PICK n \in Nat : n = Len(s) /\ DOMAIN s = 1 .. n
    OBVIOUS
  <1>2. CASE m \in Range(s)
    <2>1. PICK p \in 1 .. n : s[p] = m
      BY <1>1, <1>2 DEF Range
    <2>2. Position(s, m) = p
      BY <1>1, <2>1, PositionIs
    <2>3. PICK r : r = RemoveAt(s, p)
      OBVIOUS
    <2>4. t = <<m>> \o r
      BY <1>2, <2>2, <2>3
    <2>5. /\ r \in Seq(S) /\ Len(r) = n - 1
          /\ \A i \in 1 .. n - 1 : r[i] = IF i < p THEN s[i] ELSE s[i + 1]
      BY <1>1, <2>3, Removed
    <2>6. /\ t \in Seq(S) /\ Len(t) = Len(r) + 1
          /\ \A i \in 1 .. Len(r) + 1 : t[i] = IF i = 1 THEN m ELSE r[i - 1]
      <3>1. r \in Seq(S)
        BY <2>5
      <3> QED BY ONLY <3>1, m \in S, <2>4, Pushed
    <2>7. Len(t) = n
      BY <2>5, <2>6
    <2>8. ASSUME NEW i \in 1 .. n
          PROVE  t[i] = IF i = 1 THEN m ELSE IF i <= p THEN s[i - 1] ELSE s[i]
      <3>1. t[i] = IF i = 1 THEN m ELSE r[i - 1]
        BY <2>5, <2>6
      <3>2. CASE i # 1
        <4>1. i - 1 \in 1 .. n - 1 /\ (i - 1 < p <=> i <= p) /\ i - 1 + 1 = i
          BY <3>2
        <4>2. r[i - 1] = IF i - 1 < p THEN s[i - 1] ELSE s[i - 1 + 1]
          BY <2>5, <4>1
        <4> QED BY <3>1, <3>2, <4>1, <4>2
      <3> QED BY <3>1, <3>2
    <2>9. p \in 1 .. n + 1 /\ p <= n /\ ~(p > n)
      OBVIOUS
    <2>10. AtFront(t, s, m, p)
      BY <1>1, <2>1, <2>7, <2>8, <2>9 DEF AtFront
    <2> QED BY <1>1, <2>6, <2>9, <2>10
  <1>3. CASE m \notin Range(s)
    <2>1. /\ t \in Seq(S) /\ Len(t) = Len(s) + 1
          /\ \A i \in 1 .. Len(s) + 1 : t[i] = IF i = 1 THEN m ELSE s[i - 1]
      BY <1>3, Pushed
    <2>2. \A i \in 1 .. n + 1 : i <= n + 1
      OBVIOUS
    <2>3. n + 1 > n /\ ~(n + 1 <= n) /\ n + 1 \in 1 .. n + 1
      OBVIOUS
    <2>4. AtFront(t, s, m, n + 1)
      BY <1>1, <1>3, <2>1, <2>2, <2>3 DEF AtFront
    <2> QED BY <1>1, <2>1, <2>3, <2>4
  <1> QED
    BY <1>2, <1>3

(* A list without duplicates has none either after a move to the front. *)
LEMMA FrontUnique ==
    ASSUME NEW S, NEW s \in Seq(S), NEW t \in Seq(S), NEW m, NEW p \in 1 .. Len(s) + 1,
           IsInjective(s), AtFront(t, s, m, p)
    PROVE  IsInjective(t) /\ Range(t) \subseteq Range(s) \union {m}
  <1>1. PICK n \in Nat : n = Len(s) /\ DOMAIN s = 1 .. n
    OBVIOUS
  <1>2. PICK l \in Nat : l = Len(t) /\ DOMAIN t = 1 .. l
    OBVIOUS
  <1>3. l = (IF p <= n THEN n ELSE n + 1) /\ p \in 1 .. n + 1
    BY <1>1, <1>2 DEF AtFront
  <1>4. \A i \in 1 .. l : t[i] = IF i = 1 THEN m ELSE IF i <= p THEN s[i - 1] ELSE s[i]
    BY <1>2 DEF AtFront
  <1>5. \A i \in 1 .. n : i # p => s[i] # m
    <2>1. CASE p <= n
      <3>1. s[p] = m /\ p \in 1 .. n
        BY <1>1, <2>1 DEF AtFront
      <3> QED BY <1>1, <3>1 DEF IsInjective
    <2>2. CASE p > n
      <3>1. m \notin Range(s)
        BY <1>1, <2>2 DEF AtFront
      <3> QED BY <1>1, <3>1 DEF Range
    <2> QED BY <1>3, <2>1, <2>2
  <1>6. \A i, j \in 1 .. n : s[i] = s[j] => i = j
    BY <1>1 DEF IsInjective
  <1> DEFINE from(i) == IF i <= p THEN i - 1 ELSE i
  <1>7. \A i \in 2 .. l : from(i) \in 1 .. n /\ from(i) # p /\ t[i] = s[from(i)]
    BY <1>3, <1>4
  <1>8. \A i, j \in 2 .. l : from(i) = from(j) => i = j
    BY <1>3
  <1>9. \A i \in 1 .. l : i = 1 \/ i \in 2 .. l
    OBVIOUS
  <1> HIDE DEF from
  <1>10. t[1] = m \/ l = 0
    BY <1>4
  <1>11. \A i, j \in 1 .. l : t[i] = t[j] => i = j
    BY <1>5, <1>6, <1>7, <1>8, <1>9, <1>10
  <1>12. \A i \in 1 .. l : t[i] \in Range(s) \union {m}
    BY <1>1, <1>7, <1>9, <1>10 DEF Range
  <1> QED
    BY <1>2, <1>11, <1>12 DEF IsInjective, Range

(* HotMintsCache::add keeps the latest mints, whatever is added. *)
LEMMA AddKeepsLatest ==
    ASSUME NEW h, NEW s, NEW m, Latest(h, s), NEW g, g = add(h, m), NEW t, t = Recall(s, m)
    PROVE  Latest(g, t)
  <1>1. PICK S0 : s \in Seq(S0)
    BY DEF Latest
  <1>2. PICK S : S = S0 \union {m}
    OBVIOUS
  <1>3. s \in Seq(S) /\ m \in S
    BY <1>1, <1>2
  <1>4. PICK n \in Nat : n = Len(s) /\ DOMAIN s = 1 .. n
    BY <1>3
  <1>5. MaxCount \in Nat \ {0}
    BY ServerAssumption
  <1>6. PICK k \in 0 .. n : k = Kept(n) /\ k = IF n < MaxCount THEN n ELSE MaxCount
    BY <1>5 DEF Kept
  <1>7. PICK o : o = h.ordered /\ o = SubSeq(s, 1, k) /\ h.unordered = Range(o)
    BY <1>4, <1>6 DEF Latest
  <1>8. o \in Seq(S) /\ Len(o) = k /\ DOMAIN o = 1 .. k /\ \A i \in 1 .. k : o[i] = s[i]
    BY <1>3, <1>4, <1>7, Prefix
  <1>9. IsInjective(s) /\ Range(s) \cap AlwaysHot = {}
    BY DEF Latest
  <1>10. IsInjective(o)
    BY <1>4, <1>8, <1>9 DEF IsInjective
  <1>11. Cardinality(Range(o)) = k
    BY <1>8, <1>10, UniqueCount
  <1>12. CASE m \in AlwaysHot
    BY <1>12 DEF add, Recall
  <1>13. CASE m \notin AlwaysHot
    <2>1. t = <<m>> \o (IF m \in Range(s) THEN RemoveAt(s, Position(s, m)) ELSE s)
      BY <1>13 DEF Recall
    <2>2. t \in Seq(S) /\ \E p \in 1 .. Len(s) + 1 : AtFront(t, s, m, p)
      BY <1>3, <1>9, <2>1, ToFront
    <2>3. PICK p \in 1 .. n + 1 : AtFront(t, s, m, p)
      BY <1>4, <2>2
    <2>4. PICK l \in Nat : l = Len(t) /\ l = IF p <= n THEN n ELSE n + 1
      BY <1>4, <2>3 DEF AtFront
    <2>5. \A i \in 1 .. l : t[i] = IF i = 1 THEN m ELSE IF i <= p THEN s[i - 1] ELSE s[i]
      BY <2>3, <2>4 DEF AtFront
    <2>6. IsInjective(t) /\ Range(t) \subseteq Range(s) \union {m}
      BY <1>3, <1>4, <1>9, <2>2, <2>3, FrontUnique
    <2>7. Range(t) \cap AlwaysHot = {}
      BY <1>9, <1>13, <2>6
    <2> DEFINE Follows(w) == /\ w \in Seq(S) /\ Len(w) = Kept(l)
                             /\ \A i \in 1 .. Kept(l) : w[i] = t[i]
    <2>8. Kept(l) \in 0 .. l /\ Kept(l) = IF l < MaxCount THEN l ELSE MaxCount
      BY <1>5 DEF Kept
    <2>9. SUFFICES Follows(g.ordered) /\ g.unordered = Range(g.ordered)
      <3>1. PICK v : v = SubSeq(t, 1, Kept(l))
        OBVIOUS
      <3>2. v \in Seq(S) /\ Len(v) = Kept(l) /\ \A i \in 1 .. Kept(l) : v[i] = t[i]
        <4>1. PICK z : z = Kept(l)
          OBVIOUS
        <4>2. z \in 0 .. Len(t) /\ v = SubSeq(t, 1, z) /\ t \in Seq(S)
          BY <2>2, <2>4, <2>8, <3>1, <4>1
        <4>3. v \in Seq(S) /\ Len(v) = z /\ \A i \in 1 .. z : v[i] = t[i]
          BY ONLY <4>2, Prefix
        <4> QED BY <4>1, <4>3
      <3>3. Follows(g.ordered) => g.ordered = v
        BY <3>2, SameSequence
      <3> QED BY <2>2, <2>4, <2>6, <2>7, <3>1, <3>3 DEF Latest
    <2>10. CASE m \in Range(o)
      <3>1. g = [unordered |-> Range(o) \union {m},
                 ordered |-> <<m>> \o RemoveAt(o, Position(o, m))]
        BY <1>7, <1>13, <2>10 DEF add
      <3>2. PICK w : w = g.ordered
        OBVIOUS
      <3>3. w = <<m>> \o RemoveAt(o, Position(o, m)) /\ g.unordered = Range(o) \union {m}
        BY <3>1, <3>2
      <3>4. w \in Seq(S) /\ \E q \in 1 .. Len(o) + 1 : AtFront(w, o, m, q)
        <4>1. w = <<m>> \o (IF m \in Range(o) THEN RemoveAt(o, Position(o, m)) ELSE o)
          BY <2>10, <3>3
        <4>2. o \in Seq(S) /\ m \in S
          BY <1>3, <1>8
        <4>3. o \in Seq(S)
          BY <4>2
        <4>4. m \in S
          BY <4>2
        <4> QED BY <4>1, <4>3, <4>4, <1>10, ToFront
      <3>5. PICK q \in 1 .. k + 1 : AtFront(w, o, m, q)
        BY <1>8, <3>4
      <3>6. q <= k /\ o[q] = m
        BY <1>8, <2>10, <3>5 DEF AtFront
      <3>7. q = p /\ p <= n
        <4>1. q \in 1 .. n /\ q \in 1 .. k /\ s[q] = m
          BY <1>8, <3>6
        <4>2. m \in Range(s)
          BY <1>4, <4>1 DEF Range
        <4>3. ~(p > n)
          BY <1>4, <2>3, <4>2 DEF AtFront
        <4>4. p \in 1 .. n /\ s[p] = m
          BY <1>4, <2>3, <4>3 DEF AtFront
        <4> QED BY <1>4, <1>9, <4>1, <4>4 DEF IsInjective
      <3>8. Kept(l) = k /\ Len(w) = k
        BY <1>6, <1>8, <2>4, <3>5, <3>6, <3>7 DEF AtFront
      <3>9. \A i \in 1 .. k : w[i] = IF i = 1 THEN m ELSE IF i <= p THEN o[i - 1] ELSE o[i]
        BY <3>5, <3>7, <3>8 DEF AtFront
      <3>10. \A i \in 1 .. k : w[i] = t[i]
        BY <1>8, <2>4, <2>5, <3>7, <3>9
      <3>11. Range(w) = Range(o) \union {m}
        <4>1. Range(w) \subseteq Range(o) \union {m}
          BY <1>8, <1>10, <3>4, <3>5, FrontUnique
        <4>2. ASSUME NEW j \in 1 .. k PROVE o[j] \in Range(w)
          <5>1. DOMAIN w = 1 .. k
            BY <3>4, <3>8
          <5>2. \E i \in 1 .. k : w[i] = o[j]
            <6>1. CASE j < p
              <7>1. j + 1 \in 1 .. k /\ j + 1 # 1 /\ j + 1 <= p /\ j + 1 - 1 = j
                BY <3>6, <3>7, <6>1
              <7> QED BY <3>9, <7>1
            <6>2. CASE j = p
              BY <3>6, <3>7, <3>9, <6>2
            <6>3. CASE j > p
              BY <3>9, <6>3
            <6> QED BY <6>1, <6>2, <6>3
          <5> QED BY <5>1, <5>2 DEF Range
        <4>3. Range(o) \subseteq Range(w)
          BY <1>8, <4>2 DEF Range
        <4> QED BY <2>10, <4>1, <4>3
      <3> QED BY <3>2, <3>3, <3>4, <3>8, <3>10, <3>11
    <2>11. CASE m \notin Range(o) /\ k < MaxCount
      <3>1. g = [unordered |-> Range(o) \union {m}, ordered |-> <<m>> \o o]
        <4>1. m \notin h.unordered /\ ~(Cardinality(h.unordered) >= MaxCount) /\ h.ordered = o
          BY <1>5, <1>7, <1>11, <2>11
        <4> QED BY <1>7, <1>13, <4>1 DEF add
      <3>2. PICK w : w = g.ordered
        OBVIOUS
      <3>3. w = <<m>> \o o /\ g.unordered = Range(o) \union {m}
        BY <3>1, <3>2
      <3>4. /\ w \in Seq(S) /\ Len(w) = k + 1
            /\ \A i \in 1 .. k + 1 : w[i] = IF i = 1 THEN m ELSE o[i - 1]
        BY <1>3, <1>8, <3>3, Pushed
      <3>5. k = n
        BY <1>5, <1>6, <2>11
      <3>6. p = n + 1
        <4>1. ASSUME p <= n PROVE FALSE
          BY <1>4, <1>8, <2>3, <2>11, <3>5, <4>1 DEF AtFront, Range
        <4> QED BY <4>1
      <3>7. l = n + 1 /\ Kept(l) = k + 1
        BY <1>5, <2>4, <2>8, <2>11, <3>5, <3>6
      <3>8. \A i \in 1 .. k + 1 : w[i] = t[i]
        BY <1>8, <2>5, <3>4, <3>5, <3>6, <3>7
      <3>9. Range(w) = Range(o) \union {m}
        <4>1. DOMAIN w = 1 .. k + 1
          BY <3>4
        <4>2. \A i \in 1 .. k + 1 : w[i] = m \/ \E j \in 1 .. k : w[i] = o[j]
          BY <3>4
        <4>3. \A j \in 1 .. k : j + 1 \in 1 .. k + 1 /\ w[j + 1] = o[j]
          BY <3>4
        <4>4. w[1] = m /\ 1 \in 1 .. k + 1
          BY <3>4
        <4>5. Range(w) = {w[i] : i \in 1 .. k + 1} /\ Range(o) = {o[j] : j \in 1 .. k}
          BY <1>8, <4>1 DEF Range
        <4> QED BY <4>2, <4>3, <4>4, <4>5
      <3> QED BY <3>2, <3>3, <3>4, <3>7, <3>8, <3>9
    <2>12. CASE m \notin Range(o) /\ ~(k < MaxCount)
      <3>1. g = [unordered |-> (Range(o) \ {Last(o)}) \union {m}, ordered |-> <<m>> \o Front(o)]
        <4>1. m \notin h.unordered /\ Cardinality(h.unordered) >= MaxCount /\ h.ordered = o
          BY <1>5, <1>7, <1>11, <2>12
        <4> QED BY <1>7, <1>13, <4>1 DEF add
      <3>2. PICK w, f : w = g.ordered /\ f = SubSeq(o, 1, k - 1)
        OBVIOUS
      <3>3. w = <<m>> \o f /\ g.unordered = (Range(o) \ {o[k]}) \union {m}
        BY <1>8, <3>1, <3>2 DEF Front, Last
      <3>4. k = MaxCount /\ k - 1 \in 0 .. k
        BY <1>5, <1>6, <2>12
      <3>5. f \in Seq(S) /\ Len(f) = k - 1 /\ \A i \in 1 .. k - 1 : f[i] = o[i]
        BY <1>8, <3>2, <3>4, Prefix
      <3>6. /\ w \in Seq(S) /\ Len(w) = Len(f) + 1
            /\ \A i \in 1 .. Len(f) + 1 : w[i] = IF i = 1 THEN m ELSE f[i - 1]
        BY <1>3, <3>3, <3>5, Pushed
      <3>7. Len(w) = k /\ \A i \in 1 .. k : w[i] = IF i = 1 THEN m ELSE o[i - 1]
        BY <3>5, <3>6
      <3>8. k < p
        <4>1. ASSUME p <= k PROVE FALSE
          <5>1. s[p] = m /\ p \in 1 .. k
            BY <1>4, <2>3, <4>1 DEF AtFront
          <5> QED BY <1>8, <2>12, <5>1 DEF Range
        <4> QED BY <4>1
      <3>9. Kept(l) = k
        BY <1>6, <2>4, <2>8, <3>4
      <3>10. \A i \in 1 .. k : w[i] = t[i]
        BY <1>8, <2>4, <2>5, <3>7, <3>8
      <3>11. Range(w) = (Range(o) \ {o[k]}) \union {m}
        <4>1. DOMAIN w = 1 .. k
          BY <3>6, <3>7
        <4>2. \A i \in 1 .. k : w[i] = m \/ \E j \in 1 .. k - 1 : w[i] = o[j]
          BY <3>7
        <4>3. \A j \in 1 .. k - 1 : j + 1 \in 1 .. k /\ w[j + 1] = o[j]
          BY <3>7
        <4>4. w[1] = m /\ 1 \in 1 .. k
          BY <1>5, <3>4, <3>7
        <4>5. Range(o) \ {o[k]} = {o[j] : j \in 1 .. k - 1}
          <5>1. \A j \in 1 .. k - 1 : j \in 1 .. k /\ o[j] # o[k]
            BY <1>8, <1>10, <3>4 DEF IsInjective
          <5>2. \A j \in 1 .. k : j = k \/ j \in 1 .. k - 1
            OBVIOUS
          <5> QED BY <1>8, <5>1, <5>2 DEF Range
        <4>6. Range(w) = {w[i] : i \in 1 .. k}
          BY <4>1 DEF Range
        <4>7. {w[i] : i \in 1 .. k} = {o[j] : j \in 1 .. k - 1} \union {m}
          BY ONLY <4>2, <4>3, <4>4
        <4> QED BY <4>5, <4>6, <4>7
      <3> QED BY <3>2, <3>3, <3>6, <3>7, <3>9, <3>10, <3>11
    <2> QED BY <2>10, <2>11, <2>12
  <1> QED
    BY <1>12, <1>13

(* Init and the handlers keep the hot mints. *)
HotInv == Latest(hot, history)

LEMMA HotSearch ==
    ASSUME HotInv, NEW c, NEW j, Search(c, j)
    PROVE  HotInv'
  <1>1. PICK h, s : h = add(hot, j.pair[1]) /\ s = Recall(history, j.pair[1])
    OBVIOUS
  <1>2. Latest(h, s)
    BY <1>1, AddKeepsLatest DEF HotInv
  <1>3. hot' = add(h, j.pair[2]) /\ history' = Recall(s, j.pair[2])
    BY <1>1 DEF Search
  <1>4. Latest(hot', history')
    BY <1>2, <1>3, AddKeepsLatest
  <1> QED
    BY <1>4 DEF HotInv

LEMMA HotStart == Init => HotInv
  <1> SUFFICES ASSUME Init PROVE HotInv
    OBVIOUS
  <1>1. history = <<>> /\ hot.ordered = <<>> /\ hot.unordered = {}
    BY DEF Init, EmptyHotMints
  <1>2. <<>> \in Seq({}) /\ Len(<<>>) = 0 /\ DOMAIN <<>> = {}
    OBVIOUS
  <1>3. Kept(0) = 0
    BY ServerAssumption DEF Kept
  <1>4. SubSeq(<<>>, 1, 0) = <<>>
    BY SubSeqEmpty
  <1> QED
    BY <1>1, <1>2, <1>3, <1>4 DEF HotInv, Latest, Range, IsInjective

LEMMA HotStep == HotInv /\ [Next]_vars => HotInv'
  <1> SUFFICES ASSUME HotInv, [Next]_vars PROVE HotInv'
    OBVIOUS
  <1>1. ASSUME hot' = hot /\ history' = history
        PROVE  HotInv'
    BY <1>1 DEF HotInv
  <1>2. ASSUME NEW c \in Clients, QuoteRequest(c)
        PROVE  HotInv'
    BY <1>2, HotSearch DEF QuoteRequest
  <1>3. ASSUME NEW c \in Clients, TxBuilt(c)
        PROVE  HotInv'
    BY <1>1, <1>3, HotSearch DEF TxBuilt
  <1>4. ASSUME NEW c \in Clients, SwapRequest(c) \/ (Handle(c) /\ ~TxBuilt(c))
        PROVE  hot' = hot /\ history' = history
    BY <1>4 DEF SwapRequest, Handle, AltFromCache, AltCall, AltAnswer, AltsDone,
                HashFromCache, HashCall, HashAnswer
  <1>5. Tick \/ UNCHANGED vars => hot' = hot /\ history' = history
    BY DEF Tick, vars
  <1> QED
    BY <1>1, <1>2, <1>3, <1>4, <1>5 DEF Next

-----------------------------------------------------------------------------
(* The chosen tables are some of those loaded *)

(* A set of naturals that is not empty has a least element. *)
LEMMA LeastOf ==
    ASSUME NEW T \in SUBSET Nat, T # {}
    PROVE  \E x \in T : \A y \in T : x <= y
  <1> DEFINE R == OpToRel(<, Nat)
  <1>1. IsWellFoundedOn(R, Nat)
    BY NatLessThanWellFounded, Zenon
  <1>2. R = {ss \in Nat \X Nat : ss[1] < ss[2]}
    BY DEF OpToRel
  <1> HIDE DEF R
  <1>3. PICK x \in T : \A y \in T : ~(<<y, x>> \in R)
    BY <1>1, WFMin
  <1>4. \A y \in T : ~(y < x)
    BY <1>2, <1>3
  <1> QED
    BY <1>4

(* There is a table that covers most, and a first of those. *)
LEMMA BestExists ==
    ASSUME NEW S, NEW alts \in Seq(S), alts # <<>>, NEW addresses, IsFiniteSet(addresses)
    PROVE  BestOf(alts, addresses) \in DOMAIN alts
  <1> DEFINE count(i) == Cardinality(Covers(alts[i], addresses))
             N == Cardinality(addresses)
             D == DOMAIN alts
  <1>1. D = 1 .. Len(alts) /\ Len(alts) \in Nat /\ 1 \in D
    BY EmptySeq
  <1>2. N \in Nat /\ \A i \in D : count(i) \in 0 .. N
    <2>1. ASSUME NEW i \in D
          PROVE  count(i) \in Nat /\ count(i) <= N
      <3>1. Covers(alts[i], addresses) \subseteq addresses
        BY DEF Covers
      <3> QED BY <3>1, FS_Subset, FS_CardinalityType
    <2>2. N \in Nat
      BY FS_CardinalityType
    <2> QED BY <2>1, <2>2
  <1> HIDE DEF count, N
  <1>3. PICK i \in D : \A j \in D : count(j) <= count(i)
    <2> DEFINE T == {N - count(j) : j \in D}
    <2>1. T \in SUBSET Nat /\ T # {}
      BY <1>1, <1>2
    <2>2. PICK x \in T : \A y \in T : x <= y
      BY <2>1, LeastOf
    <2>3. PICK i \in D : x = N - count(i)
      BY <2>2
    <2>4. \A j \in D : N - count(i) <= N - count(j)
      BY <2>2, <2>3
    <2> QED BY <1>2, <2>4
  <1>4. PICK b \in D : count(b) = count(i) /\ \A j \in 1 .. b - 1 : count(j) < count(i)
    <2> DEFINE T == {j \in D : count(j) = count(i)}
    <2>1. T \in SUBSET Nat /\ T # {}
      BY <1>1
    <2>2. PICK b \in T : \A y \in T : b <= y
      BY <2>1, LeastOf
    <2>3. ASSUME NEW j \in 1 .. b - 1
          PROVE  count(j) < count(i)
      <3>1. j \in D /\ j \notin T /\ count(j) <= count(i)
        BY <1>1, <1>3, <2>2
      <3> QED BY <1>2, <1>3, <3>1
    <2> QED BY <2>2, <2>3
  <1>5. \E k \in D : /\ \A j \in D : count(j) <= count(k)
                     /\ \A j \in 1 .. k - 1 : count(j) < count(k)
    BY <1>3, <1>4
  <1> QED
    BY <1>5 DEF BestOf, count

(* Nothing but loaded tables is chosen. *)
Choosing(p, T, addresses) ==
    p.left \in Seq(T) /\ p.taken \in Seq(T) /\ p.open \subseteq addresses

LEMMA TakeBestChooses ==
    ASSUME NEW p, NEW T, NEW addresses, IsFiniteSet(addresses), Choosing(p, T, addresses)
    PROVE  Choosing(TakeBest(p), T, addresses)
  <1>1. PICK left, open, b : left = p.left /\ open = p.open /\ b = BestOf(left, open)
    OBVIOUS
  <1>2. left \in Seq(T) /\ p.taken \in Seq(T) /\ open \subseteq addresses /\ IsFiniteSet(open)
    BY <1>1, FS_Subset DEF Choosing
  <1>3. CASE TakeBest(p) = p
    BY <1>3
  <1>4. CASE TakeBest(p) # p
    <2>1. /\ left # <<>>
          /\ TakeBest(p) = [left |-> RemoveAt(left, b), open |-> open \ Covers(left[b], open),
                            taken |-> Append(p.taken, left[b])]
      BY <1>1, <1>4 DEF TakeBest
    <2>2. left \in Seq(T)
      BY <1>2
    <2>3. b \in 1 .. Len(left)
      <3>1. b \in DOMAIN left
        BY <1>1, <1>2, <2>1, <2>2, BestExists
      <3> QED BY <2>2, <3>1
    <2>4. RemoveAt(left, b) \in Seq(T)
      BY <2>2, <2>3, Removed
    <2>5. Append(p.taken, left[b]) \in Seq(T)
      BY <1>2, <2>2, <2>3
    <2>6. open \ Covers(left[b], open) \subseteq addresses
      BY <1>2
    <2> QED BY <2>1, <2>4, <2>5, <2>6 DEF Choosing
  <1> QED
    BY <1>3, <1>4

LEMMA ChosenOf ==
    ASSUME NEW T, NEW alts \in Seq(T), NEW addresses, IsFiniteSet(addresses)
    PROVE  get_best_alt(alts, addresses) \in Seq(T)
  <1>1. PICK p0 : p0 = [left |-> alts, open |-> addresses, taken |-> <<>>]
    OBVIOUS
  <1>2. PICK p1, p2, p3, p4 :
           p1 = TakeBest(p0) /\ p2 = TakeBest(p1) /\ p3 = TakeBest(p2) /\ p4 = TakeBest(p3)
    OBVIOUS
  <1>3. get_best_alt(alts, addresses) = p4.taken
    <2>1. get_best_alt(alts, addresses) = TakeBest(TakeBest(TakeBest(TakeBest(p0)))).taken
      BY <1>1, FourLevels
    <2> QED BY <1>2, <2>1
  <1>4. Choosing(p0, T, addresses)
    BY <1>1 DEF Choosing
  <1>5. Choosing(p1, T, addresses)
    BY <1>2, <1>4, TakeBestChooses
  <1>6. Choosing(p2, T, addresses)
    BY <1>2, <1>5, TakeBestChooses
  <1>7. Choosing(p3, T, addresses)
    BY <1>2, <1>6, TakeBestChooses
  <1>8. Choosing(p4, T, addresses)
    BY <1>2, <1>7, TakeBestChooses
  <1> QED
    BY <1>3, <1>8 DEF Choosing

(* So they are as recent as those. *)
LEMMA ChosenRecent ==
    ASSUME NEW loaded \in Seq(Loads), NEW t, NEW age, RecentTables(loaded, t, age),
           NEW addresses, IsFiniteSet(addresses)
    PROVE  RecentTables(get_best_alt(Accounts(loaded), addresses), t, age)
  <1> DEFINE T == {Accounts(loaded)[i] : i \in DOMAIN loaded}
  <1>1. DOMAIN loaded = 1 .. Len(loaded) /\ Len(loaded) \in Nat
    OBVIOUS
  <1>2. Accounts(loaded) \in Seq(T)
    <2>1. Accounts(loaded) = [i \in 1 .. Len(loaded) |-> Accounts(loaded)[i]]
      BY <1>1 DEF Accounts
    <2>2. \A i \in 1 .. Len(loaded) : Accounts(loaded)[i] \in T
      BY <1>1
    <2> HIDE DEF T
    <2>3. Accounts(loaded) \in [1 .. Len(loaded) -> T]
      BY <2>1, <2>2
    <2> QED BY <1>1, <2>3
  <1>3. \A x \in T : x.as_of \in Nat /\ t - x.as_of < age
    BY DEF Accounts, RecentTables
  <1> HIDE DEF T
  <1>4. PICK chosen : chosen = get_best_alt(Accounts(loaded), addresses)
    OBVIOUS
  <1>5. chosen \in Seq(T)
    BY <1>2, <1>4, ChosenOf
  <1>6. \A i \in DOMAIN chosen : chosen[i] \in T
    BY <1>5
  <1> QED
    BY <1>3, <1>4, <1>6 DEF RecentTables

-----------------------------------------------------------------------------
(* The steps *)

LEMMA Bounds ==
    /\ Latency \in Nat /\ HashTTL \in Nat \ {0} /\ AltTTL \in Nat \ {0} /\ None \notin Nat
    /\ Tables \in Seq(DOMAIN Contents)
  BY ServerAssumption

(* A handler steps and the caches stay in order. *)
LEMMA OneHandler ==
    ASSUME ServerInv, NEW c \in Clients, NEW k, Becomes(c, k), JobInv(k, now), now' = now,
           HashInv(last_update', now), TablesInv(cache', now)
    PROVE  ServerInv'
  <1>1. job' = [job EXCEPT ![c] = k] /\ job = [d \in Clients |-> job[d]]
    BY DEF Becomes, ServerInv
  <1>2. job' = [d \in Clients |-> job'[d]]
    BY <1>1
  <1>3. ASSUME NEW d \in Clients
        PROVE  JobInv(job'[d], now')
    <2>1. JobInv(job[d], now)
      BY DEF ServerInv
    <2>2. job'[d] = IF d = c THEN k ELSE job[d]
      BY <1>1
    <2> QED BY <2>1, <2>2
  <1>4. now' \in Nat /\ HashInv(last_update', now') /\ TablesInv(cache', now')
    BY DEF ServerInv
  <1> QED
    BY <1>2, <1>3, <1>4 DEF ServerInv

LEMMA AnsweredOk ==
    ASSUME NEW j, NEW pc \in {"quoted", "done", "failed"}, NEW t,
           pc = "quoted" => j.route \in DOMAIN Routes
    PROVE  JobInv(Answered(j, pc), t)
  <1>1. PICK k : k = Answered(j, pc)
    OBVIOUS
  <1>2. IsJob(k) /\ k.pc = pc /\ k.call = None
    BY <1>1 DEF IsJob, Answered, Idle
  <1>3. pc = "quoted" => k.route = j.route
    BY <1>1 DEF Answered, Idle
  <1>4. JobInv(k, t)
    BY <1>2, <1>3 DEF JobInv
  <1> QED
    BY <1>1, <1>4

(* The loading of the tables begins. *)
LEMMA NoneLoaded ==
    ASSUME NEW k, NEW t, IsJob(k), k.call = None, k.pc = "alts", k.alts = <<>>, k.table = 1,
           k.route \in DOMAIN Routes
    PROVE  JobInv(k, t)
  <1>1. <<>> \in Seq(Loads) /\ DOMAIN <<>> = {} /\ 1 \in 1 .. Len(Tables) + 1
    BY Bounds
  <1>2. RecentTables(k.alts, RanAt(k, t), AgeAt(k))
    BY <1>1 DEF RecentTables
  <1> QED
    BY <1>1, <1>2 DEF JobInv

LEMMA SearchOk ==
    ASSUME NEW c, NEW j, IsJob(j), j.call = None, Search(c, j)
    PROVE  \E k : JobInv(k, now) /\ Becomes(c, k)
  <1>1. CASE Becomes(c, Answered(j, "failed"))
    <2>1. JobInv(Answered(j, "failed"), now)
      BY AnsweredOk
    <2> QED BY <1>1, <2>1
  <1>2. CASE \E r \in DOMAIN Routes :
                Becomes(c, [j EXCEPT !.pc = "alts", !.route = r, !.table = 1, !.alts = <<>>,
                                     !.hash = None])
    <2>1. PICK r \in DOMAIN Routes :
                Becomes(c, [j EXCEPT !.pc = "alts", !.route = r, !.table = 1, !.alts = <<>>,
                                     !.hash = None])
      BY <1>2
    <2>2. PICK k : k = [j EXCEPT !.pc = "alts", !.route = r, !.table = 1, !.alts = <<>>,
                                 !.hash = None]
      OBVIOUS
    <2>3. /\ IsJob(k) /\ k.call = None /\ k.pc = "alts" /\ k.alts = <<>> /\ k.table = 1
          /\ k.route = r
      BY <2>2 DEF IsJob
    <2>4. JobInv(k, now)
      BY <2>3, NoneLoaded
    <2> QED BY <2>1, <2>2, <2>4
  <1> QED
    BY <1>1, <1>2 DEF Search

(* Tables stay recent enough while the handler waits for a call, or makes none. *)
LEMMA OneCallOlder ==
    ASSUME NEW j, JobInv(j, now), now \in Nat, j.table \in Nat \ {0},
           RecentTables(j.alts, RanAt(j, now), AgeAt(j))
    PROVE  RecentTables(j.alts, now, AltTTL + j.table * Latency)
  <1>1. PICK n \in Nat, l \in Nat : n = j.table - 1 /\ l = Latency
    BY Bounds
  <1>2. /\ j.table * Latency = n * l + l /\ AgeAt(j) = AltTTL + n * l
        /\ n * l \in Nat /\ AltTTL \in Nat
    <2>1. j.table = n + 1
      BY <1>1
    <2>2. (n + 1) * l = n * l + l /\ n * l \in Nat
      OBVIOUS
    <2>3. j.table * Latency = (n + 1) * l
      BY <1>1, <2>1
    <2>4. AgeAt(j) = AltTTL + n * l
      BY <1>1 DEF AgeAt
    <2> QED BY <2>2, <2>3, <2>4, Bounds
  <1>3. RanAt(j, now) \in Nat /\ now <= RanAt(j, now) + l
    BY <1>1, Bounds DEF RanAt, JobInv, InTime
  <1> SUFFICES ASSUME NEW i \in DOMAIN j.alts
               PROVE  j.alts[i].as_of \in Nat /\ now - j.alts[i].as_of < AltTTL + j.table * Latency
    BY DEF RecentTables
  <1>4. j.alts[i].as_of \in Nat /\ RanAt(j, now) - j.alts[i].as_of < AgeAt(j)
    BY DEF RecentTables
  <1>5. PICK a \in Nat, s \in Nat, v \in Nat, w \in Nat :
          a = j.alts[i].as_of /\ s = RanAt(j, now) /\ v = n * l /\ w = AltTTL
    BY <1>2, <1>3, <1>4
  <1>6. s - a < w + v /\ now <= s + l
    BY <1>2, <1>3, <1>4, <1>5
  <1>7. now - a < w + (v + l)
    BY <1>1, <1>6
  <1> QED BY <1>2, <1>4, <1>5, <1>7

(* A table that was loaded is young enough. *)
LEMMA LoadedOk ==
    ASSUME NEW j, JobInv(j, now), j.pc = "alts", j.table <= Len(Tables),
           NEW t, t \in DOMAIN Contents, NEW entry,
           now \in Nat, Arrived(entry.at, entry.as_of, now), now - entry.at < AltTTL,
           entry.found \in BOOLEAN
    PROVE  JobInv(Loaded(j, t, entry), now)
  <1>1. PICK k : k = Loaded(j, t, entry)
    OBVIOUS
  <1>2. PICK load : load = [key |-> t, as_of |-> entry.as_of]
    OBVIOUS
  <1>3. /\ IsJob(j) /\ j.alts \in Seq(Loads) /\ j.table \in 1 .. Len(Tables) + 1
        /\ j.table \in Nat \ {0} /\ j.route \in DOMAIN Routes
        /\ RecentTables(j.alts, RanAt(j, now), AgeAt(j))
    BY Bounds DEF JobInv
  <1>4. /\ IsJob(k) /\ k.pc = "alts" /\ k.call = None /\ k.route = j.route
        /\ k.table = j.table + 1
        /\ k.alts = IF entry.found THEN Append(j.alts, load) ELSE j.alts
    BY <1>1, <1>2, <1>3 DEF IsJob, Loaded
  <1>5. load \in Loads /\ load.as_of = entry.as_of
    BY <1>2 DEF Loads, Arrived
  <1>6. k.alts \in Seq(Loads)
    BY <1>3, <1>4, <1>5
  <1>7. k.table \in 1 .. Len(Tables) + 1
    BY <1>3, <1>4, Bounds
  <1>8. RanAt(k, now) = now /\ AgeAt(k) = AltTTL + j.table * Latency
    BY <1>3, <1>4 DEF RanAt, AgeAt
  <1>9. RecentTables(j.alts, now, AltTTL + j.table * Latency)
    BY <1>3, OneCallOlder
  <1>10. entry.as_of \in Nat /\ now - entry.as_of < AltTTL + j.table * Latency
    <2>1. PICK n \in Nat, l \in Nat : n = j.table - 1 /\ l = Latency
      BY <1>3, Bounds
    <2>2. j.table * Latency = n * l + l /\ n * l \in Nat
      <3>1. j.table = n + 1
        BY <1>3, <2>1
      <3>2. (n + 1) * l = n * l + l /\ n * l \in Nat
        OBVIOUS
      <3>3. j.table * Latency = (n + 1) * l
        BY <2>1, <3>1
      <3> QED BY <3>2, <3>3
    <2>3. now - entry.as_of < AltTTL + l /\ entry.as_of \in Nat
      BY <2>1, Bounds DEF Arrived
    <2>4. PICK v \in Nat, a \in Nat, w \in Nat : v = n * l /\ a = entry.as_of /\ w = AltTTL
      BY <2>2, <2>3, Bounds
    <2>5. now - a < w + l
      BY <2>3, <2>4
    <2>6. now - a < w + (v + l)
      BY <2>5
    <2> QED BY <2>2, <2>4, <2>6
  <1>11. RecentTables(k.alts, RanAt(k, now), AgeAt(k))
    <2>1. CASE entry.found
      <3>1. k.alts = Append(j.alts, load)
        BY <1>4, <2>1
      <3>2. PICK n \in Nat : n = Len(j.alts) /\ DOMAIN j.alts = 1 .. n
        BY <1>3
      <3>3. /\ DOMAIN k.alts = 1 .. n + 1 /\ k.alts[n + 1] = load
            /\ \A i \in 1 .. n : k.alts[i] = j.alts[i]
        BY <1>3, <1>5, <3>1, <3>2
      <3>4. \A i \in 1 .. n + 1 : i = n + 1 \/ i \in 1 .. n
        OBVIOUS
      <3> QED BY <1>5, <1>8, <1>9, <1>10, <3>2, <3>3, <3>4 DEF RecentTables
    <2>2. CASE ~entry.found
      BY <1>4, <1>8, <1>9, <2>2
    <2> QED BY <2>1, <2>2
  <1>12. JobInv(k, now)
    BY <1>3, <1>4, <1>6, <1>7, <1>11 DEF JobInv
  <1> QED
    BY <1>1, <1>12

LEMMA CallOk ==
    ASSUME NEW j, JobInv(j, now), now \in Nat, j.pc \in {"alts", "hash"}, j.call = None,
           j.pc = "alts" => j.table <= Len(Tables)
    PROVE  JobInv([j EXCEPT !.call = now], now)
  <1>1. PICK k : k = [j EXCEPT !.call = now]
    OBVIOUS
  <1>2. IsJob(j)
    BY DEF JobInv
  <1>3. /\ IsJob(k) /\ k.call = now /\ k.pc = j.pc /\ k.alts = j.alts /\ k.table = j.table
        /\ k.route = j.route
    BY <1>1, <1>2 DEF IsJob
  <1>4. InTime(now, now)
    BY Bounds DEF InTime
  <1>5. RanAt(k, now) = RanAt(j, now) /\ AgeAt(k) = AgeAt(j)
    BY <1>3 DEF RanAt, AgeAt
  <1>6. JobInv(k, now)
    BY <1>3, <1>4, <1>5 DEF JobInv
  <1> QED
    BY <1>1, <1>6

(* A transaction is built with a hash and tables that are young enough. *)
LEMMA BuiltOk ==
    ASSUME NEW j, JobInv(j, now), j.pc = "hash", now \in Nat, NEW k,
           IsJob(k), k.pc = "built", k.call = None, now - k.hash < HashTTL + Latency,
           k.route = j.route, k.alts = j.alts
    PROVE  JobInv(k, now)
  <1>1. j.table = Len(Tables) + 1 /\ j.table \in Nat \ {0}
    BY Bounds DEF JobInv
  <1>2. RecentTables(j.alts, RanAt(j, now), AgeAt(j))
    BY DEF JobInv
  <1>3. RecentTables(j.alts, now, AltTTL + j.table * Latency)
    BY <1>1, <1>2, OneCallOlder
  <1>4. RecentTables(k.alts, now, AltTTL + (Len(Tables) + 1) * Latency)
    BY <1>1, <1>3
  <1> QED
    BY <1>4 DEF JobInv

LEMMA StepQuoteRequest ==
    ASSUME ServerInv, NEW c \in Clients, QuoteRequest(c)
    PROVE  ServerInv'
  <1>1. PICK pair \in Asks[c], m \in AccountsAsked :
          Search(c, [Idle EXCEPT !.pair = pair, !.max_accounts = m])
    BY DEF QuoteRequest
  <1>2. PICK j : j = [Idle EXCEPT !.pair = pair, !.max_accounts = m]
    OBVIOUS
  <1>3. IsJob(j) /\ j.call = None
    BY <1>2 DEF IsJob, Idle
  <1>4. Search(c, j)
    BY <1>1, <1>2
  <1>5. PICK k : JobInv(k, now) /\ Becomes(c, k)
    BY <1>3, <1>4, SearchOk
  <1>6. now' = now /\ last_update' = last_update /\ cache' = cache
    BY DEF QuoteRequest, Server
  <1>7. HashInv(last_update', now) /\ TablesInv(cache', now)
    BY <1>6 DEF ServerInv
  <1> QED
    BY <1>5, <1>6, <1>7, OneHandler

LEMMA StepSwapRequest ==
    ASSUME ServerInv, NEW c \in Clients, SwapRequest(c)
    PROVE  ServerInv'
  <1>1. PICK j : j = job[c]
    OBVIOUS
  <1>2. JobInv(j, now) /\ j.pc = "quoted" /\ now \in Nat
    BY <1>1 DEF ServerInv, SwapRequest
  <1>3. IsJob(j) /\ j.call = None /\ j.route \in DOMAIN Routes
    BY <1>2 DEF JobInv
  <1>4. now' = now /\ last_update' = last_update /\ cache' = cache
    BY DEF SwapRequest, Server
  <1>5. HashInv(last_update', now) /\ TablesInv(cache', now)
    BY <1>4 DEF ServerInv
  <1>6. CASE Becomes(c, Answered(j, "failed"))
    <2>1. JobInv(Answered(j, "failed"), now)
      BY AnsweredOk
    <2> QED BY <1>4, <1>5, <1>6, <2>1, OneHandler
  <1>7. CASE \E kind \in {"swap", "swap-instructions"} :
                Becomes(c, [j EXCEPT !.pc = "alts", !.kind = kind, !.table = 1, !.alts = <<>>])
    <2>1. PICK kind \in {"swap", "swap-instructions"} :
             Becomes(c, [j EXCEPT !.pc = "alts", !.kind = kind, !.table = 1, !.alts = <<>>])
      BY <1>7
    <2>2. PICK k : k = [j EXCEPT !.pc = "alts", !.kind = kind, !.table = 1, !.alts = <<>>]
      OBVIOUS
    <2>3. /\ IsJob(k) /\ k.call = None /\ k.pc = "alts" /\ k.alts = <<>> /\ k.table = 1
          /\ k.route = j.route
      BY <1>3, <2>2 DEF IsJob
    <2>4. JobInv(k, now)
      BY <1>3, <2>3, NoneLoaded
    <2>5. Becomes(c, k)
      BY <2>1, <2>2
    <2> QED BY <1>4, <1>5, <2>4, <2>5, OneHandler
  <1> QED
    BY <1>1, <1>6, <1>7 DEF SwapRequest

LEMMA StepAltFromCache ==
    ASSUME ServerInv, NEW c \in Clients, AltFromCache(c)
    PROVE  ServerInv'
  <1>1. PICK j, t : j = job[c] /\ t = Tables[j.table]
    OBVIOUS
  <1>2. JobInv(j, now) /\ j.pc = "alts" /\ j.table <= Len(Tables) /\ now \in Nat
    BY <1>1 DEF ServerInv, AltFromCache
  <1>3. AltHit(t) /\ Becomes(c, Loaded(j, t, cache[t]))
    BY <1>1 DEF AltFromCache
  <1>4. t \in DOMAIN Contents
    <2>1. j.table \in 1 .. Len(Tables)
      BY <1>2, Bounds DEF JobInv
    <2> QED BY <1>1, <2>1, Bounds
  <1>5. PICK entry : entry = cache[t]
    OBVIOUS
  <1>6. Arrived(entry.at, entry.as_of, now) /\ entry.found \in BOOLEAN /\ now - entry.at < AltTTL
    BY <1>3, <1>4, <1>5 DEF ServerInv, TablesInv, AltHit, Fresh
  <1>7. JobInv(Loaded(j, t, entry), now)
    BY <1>2, <1>4, <1>6, LoadedOk
  <1>8. now' = now /\ last_update' = last_update /\ cache' = cache
    BY DEF AltFromCache, Server
  <1>9. HashInv(last_update', now) /\ TablesInv(cache', now)
    BY <1>8 DEF ServerInv
  <1> QED
    BY <1>3, <1>5, <1>7, <1>8, <1>9, OneHandler

LEMMA StepAltCall ==
    ASSUME ServerInv, NEW c \in Clients, AltCall(c)
    PROVE  ServerInv'
  <1>1. PICK j : j = job[c]
    OBVIOUS
  <1>2. JobInv(j, now) /\ j.pc = "alts" /\ j.table <= Len(Tables) /\ j.call = None /\ now \in Nat
    BY <1>1 DEF ServerInv, AltCall
  <1>3. JobInv([j EXCEPT !.call = now], now)
    BY <1>2, CallOk
  <1>4. Becomes(c, [j EXCEPT !.call = now])
    BY <1>1 DEF AltCall
  <1>5. now' = now /\ last_update' = last_update /\ cache' = cache
    BY DEF AltCall, Server
  <1>6. HashInv(last_update', now) /\ TablesInv(cache', now)
    BY <1>5 DEF ServerInv
  <1> QED
    BY <1>3, <1>4, <1>5, <1>6, OneHandler

(* What has just arrived was asked for at most Latency ago. *)
LEMMA JustArrived ==
    ASSUME NEW j, JobInv(j, now), j.call # None, now \in Nat
    PROVE  Arrived(now, j.call, now)
  BY Bounds DEF JobInv, InTime, Arrived

LEMMA StepAltAnswer ==
    ASSUME ServerInv, NEW c \in Clients, AltAnswer(c)
    PROVE  ServerInv'
  <1>1. PICK j, t : j = job[c] /\ t = Tables[j.table]
    OBVIOUS
  <1>2. JobInv(j, now) /\ j.pc = "alts" /\ j.call # None /\ now \in Nat
    BY <1>1 DEF ServerInv, AltAnswer
  <1>3. now' = now /\ HashInv(last_update', now)
    BY DEF AltAnswer, ServerInv
  <1>4. CASE Becomes(c, Answered(j, "failed")) /\ cache' = cache
    <2>1. JobInv(Answered(j, "failed"), now)
      BY AnsweredOk
    <2>2. TablesInv(cache', now)
      BY <1>4 DEF ServerInv
    <2> QED BY <1>3, <1>4, <2>1, <2>2, OneHandler
  <1>5. CASE \E found \in BOOLEAN :
           /\ cache' = [cache EXCEPT ![t] = [at |-> now, as_of |-> j.call, found |-> found]]
           /\ Becomes(c, Loaded(j, t, [at |-> now, as_of |-> j.call, found |-> found]))
    <2>1. PICK found \in BOOLEAN :
             /\ cache' = [cache EXCEPT ![t] = [at |-> now, as_of |-> j.call, found |-> found]]
             /\ Becomes(c, Loaded(j, t, [at |-> now, as_of |-> j.call, found |-> found]))
      BY <1>5
    <2>2. PICK entry : entry = [at |-> now, as_of |-> j.call, found |-> found]
      OBVIOUS
    <2>3. entry.at = now /\ entry.as_of = j.call /\ entry.found \in BOOLEAN
      BY <2>2
    <2>4. j.table <= Len(Tables) /\ t \in DOMAIN Contents
      <3>1. j.table \in 1 .. Len(Tables)
        BY <1>2, Bounds DEF JobInv
      <3> QED BY <1>1, <3>1, Bounds
    <2>5. Arrived(entry.at, entry.as_of, now)
      BY <1>2, <2>3, JustArrived
    <2>6. now - entry.at < AltTTL
      BY <1>2, <2>3, Bounds
    <2>7. JobInv(Loaded(j, t, entry), now)
      BY <1>2, <2>3, <2>4, <2>5, <2>6, LoadedOk
    <2>8. TablesInv(cache', now)
      <3>1. TablesInv(cache, now)
        BY DEF ServerInv
      <3>2. cache' = [cache EXCEPT ![t] = entry]
        BY <2>1, <2>2
      <3> QED BY <2>3, <2>5, <3>1, <3>2 DEF TablesInv
    <2>9. Becomes(c, Loaded(j, t, entry))
      BY <2>1, <2>2
    <2> QED BY <1>3, <2>7, <2>8, <2>9, OneHandler
  <1> QED
    BY <1>1, <1>4, <1>5 DEF AltAnswer

LEMMA StepAltsDone ==
    ASSUME ServerInv, NEW c \in Clients, AltsDone(c)
    PROVE  ServerInv'
  <1>1. PICK j : j = job[c]
    OBVIOUS
  <1>2. JobInv(j, now) /\ j.pc = "alts" /\ j.table > Len(Tables) /\ IsJob(j) /\ j.route \in DOMAIN Routes
    BY <1>1 DEF ServerInv, AltsDone, JobInv
  <1>3. now' = now /\ last_update' = last_update /\ cache' = cache
    BY DEF AltsDone, Server
  <1>4. HashInv(last_update', now) /\ TablesInv(cache', now)
    BY <1>3 DEF ServerInv
  <1>5. CASE Becomes(c, Answered(j, "done"))
    <2>1. JobInv(Answered(j, "done"), now)
      BY AnsweredOk
    <2> QED BY <1>3, <1>4, <1>5, <2>1, OneHandler
  <1>6. CASE \E alts \in {get_best_alt(Accounts(j.alts), Routes[j.route].addresses)} :
                Becomes(c, [j EXCEPT !.pc = "hash", !.alts = alts])
    <2>1. PICK alts : /\ alts = get_best_alt(Accounts(j.alts), Routes[j.route].addresses)
                      /\ Becomes(c, [j EXCEPT !.pc = "hash", !.alts = alts])
      BY <1>6
    <2>2. PICK r : r = Routes[j.route]
      OBVIOUS
    <2>3. IsFiniteSet(r.addresses) /\ r.static \subseteq r.addresses /\ r.bytes \in Nat
      BY <1>2, <2>2, ServerAssumption
    <2>4. Pays(r, alts)
      BY <2>1, <2>2, <2>3, BestAltPays
    <2>5. PICK k : k = [j EXCEPT !.pc = "hash", !.alts = alts]
      OBVIOUS
    <2>6. /\ IsJob(k) /\ k.pc = "hash" /\ k.alts = alts /\ k.route = j.route /\ k.call = j.call
          /\ k.table = j.table
      BY <1>2, <2>5 DEF IsJob
    <2>7. j.call = None /\ k.table = Len(Tables) + 1
      BY <1>2, <2>6, Bounds DEF JobInv, InTime
    <2>8. RecentTables(k.alts, RanAt(k, now), AgeAt(k))
      <3>1. j.alts \in Seq(Loads)
        BY <1>2 DEF JobInv
      <3>2. RecentTables(j.alts, RanAt(j, now), AgeAt(j))
        BY <1>2 DEF JobInv
      <3>3. RecentTables(get_best_alt(Accounts(j.alts), r.addresses), RanAt(j, now), AgeAt(j))
        BY <2>3, <3>1, <3>2, ChosenRecent
      <3>4. RanAt(k, now) = RanAt(j, now) /\ AgeAt(k) = AgeAt(j)
        BY <2>6 DEF RanAt, AgeAt
      <3> QED BY <2>1, <2>2, <2>6, <3>3, <3>4
    <2>9. JobInv(k, now)
      BY <1>2, <2>2, <2>4, <2>6, <2>7, <2>8 DEF JobInv
    <2> QED BY <1>3, <1>4, <2>1, <2>5, <2>9, OneHandler
  <1> QED
    BY <1>1, <1>5, <1>6 DEF AltsDone

LEMMA StepHashFromCache ==
    ASSUME ServerInv, NEW c \in Clients, HashFromCache(c)
    PROVE  ServerInv'
  <1>1. PICK j, u : j = job[c] /\ u = last_update
    OBVIOUS
  <1>2. JobInv(j, now) /\ j.pc = "hash" /\ j.call = None /\ now \in Nat /\ IsJob(j)
    BY <1>1 DEF ServerInv, HashFromCache, JobInv
  <1>3. Arrived(u.at, u.hash, now) /\ now - u.at < HashTTL
    BY <1>1 DEF ServerInv, HashInv, HashFromCache, HashHit, Fresh
  <1>4. now - u.hash < HashTTL + Latency
    BY <1>2, <1>3, Bounds DEF Arrived
  <1>5. PICK k : k = [j EXCEPT !.pc = "built", !.hash = u.hash]
    OBVIOUS
  <1>6. /\ IsJob(k) /\ k.pc = "built" /\ k.call = None /\ k.hash = u.hash
        /\ k.route = j.route /\ k.alts = j.alts
    BY <1>2, <1>5 DEF IsJob
  <1>7. JobInv(k, now)
    BY <1>2, <1>4, <1>6, BuiltOk
  <1>8. Becomes(c, k)
    BY <1>1, <1>5 DEF HashFromCache
  <1>9. now' = now /\ last_update' = last_update /\ cache' = cache
    BY DEF HashFromCache, Server
  <1>10. HashInv(last_update', now) /\ TablesInv(cache', now)
    BY <1>9 DEF ServerInv
  <1> QED
    BY <1>7, <1>8, <1>9, <1>10, OneHandler

LEMMA StepHashCall ==
    ASSUME ServerInv, NEW c \in Clients, HashCall(c)
    PROVE  ServerInv'
  <1>1. PICK j : j = job[c]
    OBVIOUS
  <1>2. JobInv(j, now) /\ j.pc = "hash" /\ j.call = None /\ now \in Nat
    BY <1>1 DEF ServerInv, HashCall
  <1>3. JobInv([j EXCEPT !.call = now], now)
    BY <1>2, CallOk
  <1>4. Becomes(c, [j EXCEPT !.call = now])
    BY <1>1 DEF HashCall
  <1>5. now' = now /\ last_update' = last_update /\ cache' = cache
    BY DEF HashCall, Server
  <1>6. HashInv(last_update', now) /\ TablesInv(cache', now)
    BY <1>5 DEF ServerInv
  <1> QED
    BY <1>3, <1>4, <1>5, <1>6, OneHandler

LEMMA StepHashAnswer ==
    ASSUME ServerInv, NEW c \in Clients, HashAnswer(c)
    PROVE  ServerInv'
  <1>1. PICK j : j = job[c]
    OBVIOUS
  <1>2. JobInv(j, now) /\ j.pc = "hash" /\ j.call # None /\ now \in Nat /\ IsJob(j)
    BY <1>1 DEF ServerInv, HashAnswer, JobInv
  <1>3. now' = now /\ TablesInv(cache', now)
    BY DEF HashAnswer, ServerInv
  <1>4. CASE /\ last_update' = [at |-> now, hash |-> j.call]
             /\ Becomes(c, [j EXCEPT !.pc = "built", !.call = None, !.hash = j.call])
    <2>1. Arrived(now, j.call, now)
      BY <1>2, JustArrived
    <2>2. HashInv(last_update', now)
      <3>1. last_update'.at = now /\ last_update'.hash = j.call
        BY <1>4
      <3> QED BY <2>1, <3>1 DEF HashInv
    <2>3. now - j.call < HashTTL + Latency
      BY <1>2, <2>1, Bounds DEF Arrived
    <2>4. PICK k : k = [j EXCEPT !.pc = "built", !.call = None, !.hash = j.call]
      OBVIOUS
    <2>5. /\ IsJob(k) /\ k.pc = "built" /\ k.call = None /\ k.hash = j.call
          /\ k.route = j.route /\ k.alts = j.alts
      BY <1>2, <2>4 DEF IsJob
    <2>6. JobInv(k, now)
      BY <1>2, <2>3, <2>5, BuiltOk
    <2>7. Becomes(c, k)
      BY <1>4, <2>4
    <2> QED BY <1>3, <2>2, <2>6, <2>7, OneHandler
  <1>5. CASE Becomes(c, Answered(j, "failed")) /\ last_update' = last_update
    <2>1. JobInv(Answered(j, "failed"), now)
      BY AnsweredOk
    <2>2. HashInv(last_update', now)
      BY <1>5 DEF ServerInv
    <2> QED BY <1>3, <1>5, <2>1, <2>2, OneHandler
  <1> QED
    BY <1>1, <1>4, <1>5 DEF HashAnswer

LEMMA StepTxBuilt ==
    ASSUME ServerInv, NEW c \in Clients, TxBuilt(c)
    PROVE  ServerInv'
  <1>1. PICK j : j = job[c]
    OBVIOUS
  <1>2. JobInv(j, now) /\ j.pc = "built"
    BY <1>1 DEF ServerInv, TxBuilt
  <1>3. IsJob(j) /\ j.call = None /\ j.route \in DOMAIN Routes
    BY <1>2 DEF JobInv
  <1>4. now' = now /\ last_update' = last_update /\ cache' = cache
    BY DEF TxBuilt, Server
  <1>5. HashInv(last_update', now) /\ TablesInv(cache', now)
    BY <1>4 DEF ServerInv
  <1>6. CASE \E pc \in {"quoted", "done", "failed"} : Becomes(c, Answered(j, pc))
    <2>1. PICK pc \in {"quoted", "done", "failed"} : Becomes(c, Answered(j, pc))
      BY <1>6
    <2>2. JobInv(Answered(j, pc), now)
      BY <1>3, AnsweredOk
    <2> QED BY <1>4, <1>5, <2>1, <2>2, OneHandler
  <1>7. CASE Search(c, [j EXCEPT !.max_accounts = FewerAccounts(@)])
    <2>1. PICK n : n = FewerAccounts(j.max_accounts)
      OBVIOUS
    <2>2. PICK i : i = [j EXCEPT !.max_accounts = n]
      OBVIOUS
    <2>3. IsJob(i) /\ i.call = None
      BY <1>3, <2>2 DEF IsJob
    <2>4. Search(c, i)
      BY <1>7, <2>1, <2>2
    <2>5. PICK k : JobInv(k, now) /\ Becomes(c, k)
      BY <2>3, <2>4, SearchOk
    <2> QED BY <1>4, <1>5, <2>5, OneHandler
  <1> QED
    BY <1>1, <1>6, <1>7 DEF TxBuilt

LEMMA StepTick ==
    ASSUME ServerInv, Tick
    PROVE  ServerInv'
  <1>1. /\ now \in Nat /\ now' = now + 1 /\ job' = job /\ last_update' = last_update
        /\ cache' = cache
    BY DEF ServerInv, Tick, Server
  <1>2. \A at, asked : Arrived(at, asked, now) => Arrived(at, asked, now + 1)
    BY <1>1 DEF Arrived
  <1>3. HashInv(last_update, now + 1) /\ TablesInv(cache, now + 1)
    BY <1>2 DEF ServerInv, HashInv, TablesInv
  <1>4. ASSUME NEW c \in Clients
        PROVE  JobInv(job[c], now + 1)
    <2>1. PICK j : j = job[c]
      OBVIOUS
    <2>2. JobInv(j, now) /\ (Running(j) => j.call # None /\ now < j.call + Latency)
      BY <2>1 DEF ServerInv, Tick
    <2>3. j.call # None => InTime(j.call, now + 1)
      BY <1>1, <2>2, Bounds DEF JobInv, InTime, Running
    <2>4. CASE Running(j)
      <3>1. j.call # None /\ j.pc \in {"alts", "hash"}
        BY <2>2, <2>4 DEF JobInv
      <3>2. RanAt(j, now + 1) = RanAt(j, now)
        BY <3>1 DEF RanAt
      <3> QED BY <2>1, <2>2, <2>3, <3>1, <3>2 DEF JobInv
    <2>5. CASE ~Running(j)
      <3>1. j.pc \notin {"alts", "hash", "built"}
        BY <2>5 DEF Running
      <3> QED BY <2>1, <2>2, <2>3, <3>1 DEF JobInv
    <2> QED BY <2>4, <2>5
  <1> QED
    BY <1>1, <1>3, <1>4 DEF ServerInv

LEMMA StartOk == Init => ServerInv
  <1> SUFFICES ASSUME Init PROVE ServerInv
    OBVIOUS
  <1>1. now \in Nat /\ HashInv(last_update, now)
    BY DEF Init, HashInv
  <1>2. TablesInv(cache, now)
    BY DEF Init, TablesInv
  <1>3. \A c \in Clients : JobInv(Idle, now)
    BY DEF JobInv, IsJob, Idle
  <1>4. job = [c \in Clients |-> job[c]] /\ \A c \in Clients : job[c] = Idle
    BY DEF Init
  <1> QED
    BY <1>1, <1>2, <1>3, <1>4 DEF ServerInv

LEMMA ServerStep == ServerInv /\ [Next]_vars => ServerInv'
  <1> SUFFICES ASSUME ServerInv, [Next]_vars PROVE ServerInv'
    OBVIOUS
  <1>1. ASSUME NEW c \in Clients, QuoteRequest(c) \/ SwapRequest(c) \/ Handle(c)
        PROVE  ServerInv'
    BY <1>1, StepQuoteRequest, StepSwapRequest, StepAltFromCache, StepAltCall, StepAltAnswer,
       StepAltsDone, StepHashFromCache, StepHashCall, StepHashAnswer, StepTxBuilt DEF Handle
  <1>2. CASE UNCHANGED vars
    BY <1>2 DEF vars, ServerInv
  <1> QED
    BY <1>1, <1>2, StepTick DEF Next

-----------------------------------------------------------------------------
(* Theorems *)

(* hash_provider.rs, alt_provider.rs: however the answers of concurrent calls
   overtake each other in the caches, when a handler answers, its block hash is
   younger than the cache's age and the timeout together, and each of its tables
   younger than theirs and the calls that may follow its loading. *)
THEOREM AnswersRecent == Spec => []AnswersAreRecent
  <1>1. ServerInv => AnswersAreRecent
    <2> SUFFICES ASSUME ServerInv, NEW c \in Clients, Answering(job[c])
                 PROVE  /\ job[c].pc = "built" => now - job[c].hash < HashTTL + Latency
                        /\ \A i \in DOMAIN job[c].alts :
                              now - job[c].alts[i].as_of < AltTTL + (Len(Tables) + 1) * Latency
      BY DEF AnswersAreRecent
    <2>1. PICK j : j = job[c]
      OBVIOUS
    <2>2. JobInv(j, now) /\ Answering(j) /\ now \in Nat
      BY <2>1 DEF ServerInv
    <2>3. CASE j.pc = "built"
      BY <2>1, <2>2, <2>3 DEF JobInv, RecentTables
    <2>4. CASE j.pc = "alts" /\ j.table > Len(Tables)
      <3>1. j.table = Len(Tables) + 1 /\ j.table \in Nat \ {0}
        BY <2>2, <2>4, Bounds DEF JobInv
      <3>2. RecentTables(j.alts, RanAt(j, now), AgeAt(j))
        BY <2>2, <2>4 DEF JobInv
      <3>3. RecentTables(j.alts, now, AltTTL + j.table * Latency)
        BY <2>2, <3>1, <3>2, OneCallOlder
      <3> QED BY <2>1, <2>4, <3>1, <3>3 DEF RecentTables
    <2> QED BY <2>2, <2>3, <2>4 DEF Answering
  <1> QED
    BY <1>1, StartOk, ServerStep, PTL DEF Spec

(* alt_optimizer.rs: of whatever tables could be read, at most four are used, and
   a transaction is larger with them than without by no more than Loss for each
   signer or invoked program they hold. *)
THEOREM ChosenTablesPay == Spec => []TablesPay
  <1>1. ServerInv => TablesPay
    BY DEF ServerInv, JobInv, Pays, TablesPay, Size, Loss
  <1> QED
    BY <1>1, StartOk, ServerStep, PTL DEF Spec

(* hot_mints.rs: however the handlers' requests follow each other, the hot mints
   are the latest MaxCount of all mints asked for, in order, each once, and the set
   beside the deque holds the same ones. *)
THEOREM LatestAreHot == Spec => []HotMintsAreLatest
  <1>1. HotInv => HotMintsAreLatest
    BY DEF HotInv, Latest, Kept, HotMintsAreLatest
  <1> QED
    BY <1>1, HotStart, HotStep, PTL DEF Spec
=============================================================================
