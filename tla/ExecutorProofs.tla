--------------------------- MODULE ExecutorProofs ---------------------------
(***************************************************************************)
(* The swap transaction, for every route, wallet and price: what the router's *)
(* build_ixs packs, the executor's execute_swap_v2 and execute_swap_v3 unpack *)
(* as it was meant, and a committed swap honours its limits, reports what it  *)
(* did and leaves nothing wrapped.  At the end, the fees of the program.      *)
(*                                                                         *)
(* The argument has four parts.                                             *)
(*  1. Lists: FlattenSeq joins its parts one after the other (HoldsParts),  *)
(*     and the byte offsets of the fields of an instruction add up.          *)
(*  2. Builders: each dex's instruction has its amount, its direction and its *)
(*     two token accounts where its program looks for them (BuilderFits), so  *)
(*     that the hop the executor cuts out of the account list and overwrites  *)
(*     is the one the router built (HopIsAsBuilt).                           *)
(*  3. Ledger: a hop sells what the hop before it brought, and a route comes  *)
(*     by no mint twice (HopKeepsBooks).                                    *)
(*  4. ExecInv, phase by phase of the transaction, and the theorems.         *)
(***************************************************************************)
EXTENDS Executor, ReferralFees, DataLemmas, SequenceTheorems

-----------------------------------------------------------------------------
(* Lists of lists.                                                          *)

(* F[i] is the first i parts joined. *)
JoinsUpTo(F, ss, n) ==
    F = [i \in 1 .. n |-> IF i = 1 THEN ss[i] ELSE F[i - 1] \o ss[i]]

(* The recursion of FlattenSeq has a solution. *)
LEMMA JoinExists ==
    ASSUME NEW ss, NEW n \in Nat
    PROVE  \E F : JoinsUpTo(F, ss, n)
  <1> DEFINE P == {m \in Nat : \E F : JoinsUpTo(F, ss, m)}
  <1>1. 0 \in P
    <2>1. JoinsUpTo([i \in 1 .. 0 |-> <<>>], ss, 0)
      BY DEF JoinsUpTo
    <2> QED BY <2>1
  <1>2. ASSUME NEW m \in Nat, m \in P PROVE m + 1 \in P
    <2>1. PICK F : JoinsUpTo(F, ss, m)
      BY <1>2
    <2> DEFINE x == IF m = 0 THEN ss[1] ELSE F[m] \o ss[m + 1]
               H == [i \in 1 .. m + 1 |-> IF i = m + 1 THEN x ELSE F[i]]
    <2>2. \A i \in 1 .. m : F[i] = IF i = 1 THEN ss[i] ELSE F[i - 1] \o ss[i]
      BY <2>1 DEF JoinsUpTo
    <2>3. \A i \in 1 .. m + 1 : H[i] = IF i = 1 THEN ss[i] ELSE H[i - 1] \o ss[i]
      BY <2>2
    <2>4. JoinsUpTo(H, ss, m + 1)
      <3>1. H = [i \in 1 .. m + 1 |-> H[i]]
        OBVIOUS
      <3> HIDE DEF H
      <3> QED BY <2>3, <3>1 DEF JoinsUpTo
    <2> QED BY <2>4
  <1> HIDE DEF P
  <1>3. Nat \subseteq P
    BY <1>1, <1>2, NaturalInduction
  <1> QED
    BY <1>3 DEF P

Joined(ss) == CHOOSE F : JoinsUpTo(F, ss, Len(ss))

(* Where part i begins, less one. *)
StartOf(ss, i) == IF i = 1 THEN 0 ELSE Len(Joined(ss)[i - 1])

(* t has the parts of ss up to n one after the other, and nothing else. *)
HoldsParts(t, ss, n) ==
    /\ \A i \in 1 .. n :
          /\ StartOf(ss, i) \in Nat
          /\ StartOf(ss, i) + Len(ss[i]) <= Len(t)
          /\ \A k \in 1 .. Len(ss[i]) : t[StartOf(ss, i) + k] = ss[i][k]
    /\ \A j \in 1 .. Len(t) : \E i \in 1 .. n : \E k \in 1 .. Len(ss[i]) : j = StartOf(ss, i) + k

(* u is t with p behind it. *)
IsConcat(u, t, p) ==
    /\ Len(u) = Len(t) + Len(p)
    /\ \A j \in 1 .. Len(t) + Len(p) : u[j] = IF j <= Len(t) THEN t[j] ELSE p[j - Len(t)]

LEMMA ConcatIs ==
    ASSUME NEW S, NEW t \in Seq(S), NEW p \in Seq(S)
    PROVE  t \o p \in Seq(S) /\ IsConcat(t \o p, t, p)
  BY ConcatProperties DEF IsConcat

IsList(s) == \E S : s \in Seq(S)

LEMMA ListConcat ==
    ASSUME NEW p, NEW q, IsList(p), IsList(q)
    PROVE  \E u : u = p \o q /\ IsList(u) /\ IsConcat(u, p, q)
  <1>1. PICK S, T : p \in Seq(S) /\ q \in Seq(T)
    BY DEF IsList
  <1>2. PICK R : S \subseteq R /\ T \subseteq R
    <2>1. S \subseteq S \cup T /\ T \subseteq S \cup T
      OBVIOUS
    <2> QED BY <2>1
  <1>3. p \in Seq(R) /\ q \in Seq(R)
    BY <1>1, <1>2
  <1>4. p \o q \in Seq(R) /\ IsConcat(p \o q, p, q)
    BY <1>3, ConcatIs
  <1> QED BY <1>4 DEF IsList

(* One more part. *)
LEMMA JoinOneMore ==
    ASSUME NEW S, NEW ss \in Seq(Seq(S)), NEW n \in Nat \ {0}, n + 1 <= Len(ss),
           NEW t \in Seq(S), HoldsParts(t, ss, n), StartOf(ss, n + 1) = Len(t),
           NEW u \in Seq(S), IsConcat(u, t, ss[n + 1])
    PROVE  HoldsParts(u, ss, n + 1)
  <1> DEFINE p == ss[n + 1]
  <1>0. p \in Seq(S)
    OBVIOUS
  <1>1. /\ Len(u) = Len(t) + Len(p)
        /\ \A j \in 1 .. Len(t) + Len(p) : u[j] = IF j <= Len(t) THEN t[j] ELSE p[j - Len(t)]
    BY DEF IsConcat
  <1> HIDE DEF p
  <1>2. Len(t) \in Nat /\ Len(p) \in Nat
    BY <1>0
  <1>3. ASSUME NEW i \in 1 .. n + 1
        PROVE  /\ StartOf(ss, i) \in Nat
               /\ StartOf(ss, i) + Len(ss[i]) <= Len(u)
               /\ \A k \in 1 .. Len(ss[i]) : u[StartOf(ss, i) + k] = ss[i][k]
    <2>1. CASE i = n + 1
      <3>1. ss[i] = p /\ StartOf(ss, i) = Len(t)
        BY <2>1 DEF p
      <3>2. ASSUME NEW k \in 1 .. Len(p) PROVE u[Len(t) + k] = p[k]
        <4>0. PICK j : j = Len(t) + k
          OBVIOUS
        <4>1. j \in 1 .. Len(t) + Len(p) /\ ~(j <= Len(t)) /\ j - Len(t) = k
          BY ONLY <1>2, k \in 1 .. Len(p), <4>0
        <4>2. u[j] = p[j - Len(t)]
          BY <4>1, <1>1, Zenon
        <4> QED BY <4>0, <4>1, <4>2, Zenon
      <3>3. Len(t) + Len(p) <= Len(u)
        BY ONLY <1>1, <1>2
      <3> QED BY <3>1, <3>2, <3>3, <1>2
    <2>2. CASE i \in 1 .. n
      <3>1. /\ StartOf(ss, i) \in Nat
            /\ StartOf(ss, i) + Len(ss[i]) <= Len(t)
            /\ \A k \in 1 .. Len(ss[i]) : t[StartOf(ss, i) + k] = ss[i][k]
        BY <2>2 DEF HoldsParts
      <3>2. ss[i] \in Seq(S)
        BY <2>2
      <3>3. Len(ss[i]) \in Nat
        BY <3>2
      <3>4. PICK a, b : a = StartOf(ss, i) /\ b = Len(ss[i])
        OBVIOUS
      <3>5. ASSUME NEW k \in 1 .. b PROVE u[a + k] = ss[i][k]
        <4>0. a \in Nat /\ b \in Nat /\ a + b <= Len(t) /\ t[a + k] = ss[i][k]
          BY <3>1, <3>3, <3>4
        <4>1. a + k \in 1 .. Len(t) + Len(p) /\ a + k <= Len(t)
          BY ONLY <4>0, <1>2, k \in 1 .. b
        <4>2. u[a + k] = t[a + k]
          BY <4>1, <1>1
        <4> QED BY <4>0, <4>2
      <3>6. a \in Nat /\ a + b <= Len(u)
        BY <3>1, <3>3, <3>4, <1>1, <1>2
      <3> QED BY <3>4, <3>5, <3>6
    <2>3. i = n + 1 \/ i \in 1 .. n
      OBVIOUS
    <2> QED BY <2>1, <2>2, <2>3
  <1>4. ASSUME NEW j \in 1 .. Len(u)
        PROVE  \E i \in 1 .. n + 1 : \E k \in 1 .. Len(ss[i]) : j = StartOf(ss, i) + k
    <2>1. CASE j <= Len(t)
      <3>1. PICK i \in 1 .. n : \E k \in 1 .. Len(ss[i]) : j = StartOf(ss, i) + k
        BY <2>1, <1>2 DEF HoldsParts
      <3> QED BY <3>1
    <2>2. CASE j > Len(t)
      <3>1. j - Len(t) \in 1 .. Len(ss[n + 1]) /\ j = StartOf(ss, n + 1) + (j - Len(t))
        <4>1. StartOf(ss, n + 1) = Len(t) /\ ss[n + 1] = p
          BY DEF p
        <4>2. j \in 1 .. Len(t) + Len(p)
          BY <1>1
        <4>3. j - Len(t) \in 1 .. Len(p) /\ j = Len(t) + (j - Len(t))
          BY ONLY <4>2, <2>2, <1>2
        <4> QED BY <4>1, <4>3
      <3>2. n + 1 \in 1 .. n + 1
        OBVIOUS
      <3>3. \E k \in 1 .. Len(ss[n + 1]) : j = StartOf(ss, n + 1) + k
        BY <3>1
      <3> QED BY <3>2, <3>3
    <2> QED BY <2>1, <2>2, <1>1, <1>2
  <1> QED
    BY <1>3, <1>4 DEF HoldsParts

(* What is to be shown of the first m parts. *)
JoinedWell(F, S, ss, m) ==
    /\ F[m] \in Seq(S) /\ HoldsParts(F[m], ss, m)
    /\ StartOf(ss, m + 1) = StartOf(ss, m) + Len(ss[m])

LEMMA JoinsWell ==
    ASSUME NEW S, NEW ss \in Seq(Seq(S)), NEW F, JoinsUpTo(F, ss, Len(ss)),
           StartOf(ss, 1) = 0, \A i \in 1 .. Len(ss) : StartOf(ss, i + 1) = Len(F[i]),
           NEW n \in Nat \ {0}, n <= Len(ss)
    PROVE  JoinedWell(F, S, ss, n)
  <1> DEFINE P == {m \in Nat : m + 1 <= Len(ss) => JoinedWell(F, S, ss, m + 1)}
  <1>0. Len(ss) \in Nat /\ \A i \in 1 .. Len(ss) : ss[i] \in Seq(S)
    OBVIOUS
  <1>1. \A i \in 1 .. Len(ss) : F[i] = IF i = 1 THEN ss[i] ELSE F[i - 1] \o ss[i]
    BY DEF JoinsUpTo
  <1>2. ASSUME 1 <= Len(ss) PROVE JoinedWell(F, S, ss, 1)
    <2>1. 1 \in 1 .. Len(ss)
      BY ONLY <1>0, <1>2
    <2>2. F[1] = ss[1] /\ ss[1] \in Seq(S) /\ StartOf(ss, 1 + 1) = Len(F[1])
      BY <2>1, <1>0, <1>1
    <2>3. Len(ss[1]) \in Nat
      BY ONLY <2>2, LenProperties
    <2>4. HoldsParts(F[1], ss, 1)
      <3>1. \A i \in 1 .. 1 : i = 1
        OBVIOUS
      <3>2. \A k \in 1 .. Len(ss[1]) : 0 + k = k
        BY ONLY <2>3
      <3>3. 0 + Len(ss[1]) = Len(ss[1]) /\ Len(ss[1]) <= Len(ss[1])
        BY ONLY <2>3
      <3>4. \A j \in 1 .. Len(F[1]) : \E k \in 1 .. Len(ss[1]) : j = StartOf(ss, 1) + k
        BY <2>2, <3>2
      <3>5. 1 \in 1 .. 1 /\ 0 \in Nat
        OBVIOUS
      <3> QED BY <2>2, <3>1, <3>2, <3>3, <3>4, <3>5 DEF HoldsParts
    <2>5. StartOf(ss, 1 + 1) = StartOf(ss, 1) + Len(ss[1])
      BY ONLY <2>2, <2>3, StartOf(ss, 1) = 0
    <2> QED BY <2>2, <2>4, <2>5 DEF JoinedWell
  <1>3. ASSUME NEW m \in Nat \ {0}, m + 1 <= Len(ss), JoinedWell(F, S, ss, m)
        PROVE  JoinedWell(F, S, ss, m + 1)
    <2>1. m \in 1 .. Len(ss) /\ m + 1 \in 1 .. Len(ss) /\ m + 1 # 1 /\ m + 1 - 1 = m
      BY ONLY <1>0, <1>3
    <2>2. /\ F[m + 1] = F[m] \o ss[m + 1]
          /\ StartOf(ss, m + 1) = Len(F[m]) /\ StartOf(ss, m + 1 + 1) = Len(F[m + 1])
      <3>1. F[m + 1] = F[m] \o ss[m + 1]
        <4>1. PICK k : k = m + 1
          OBVIOUS
        <4>2. k \in 1 .. Len(ss) /\ k # 1 /\ k - 1 = m
          BY <2>1, <4>1
        <4>3. F[k] = F[k - 1] \o ss[k]
          BY <1>1, <4>2, Zenon
        <4> QED BY <4>1, <4>2, <4>3, Zenon
      <3> QED BY <3>1, <2>1
    <2>3. F[m] \in Seq(S) /\ HoldsParts(F[m], ss, m)
      BY <1>3 DEF JoinedWell
    <2>4. PICK t, u : t = F[m] /\ u = F[m + 1]
      OBVIOUS
    <2>5. t \in Seq(S) /\ ss[m + 1] \in Seq(S) /\ u = t \o ss[m + 1]
      BY <2>1, <2>2, <2>3, <2>4, <1>0
    <2>6. u \in Seq(S) /\ IsConcat(u, t, ss[m + 1])
      BY <2>5, ConcatIs
    <2>7. HoldsParts(t, ss, m) /\ StartOf(ss, m + 1) = Len(t)
      BY <2>2, <2>3, <2>4
    <2>8. HoldsParts(u, ss, m + 1)
      BY <1>3, <2>5, <2>6, <2>7, JoinOneMore
    <2>9. Len(u) = Len(t) + Len(ss[m + 1])
      BY <2>6 DEF IsConcat
    <2> QED BY <2>2, <2>4, <2>6, <2>7, <2>8, <2>9 DEF JoinedWell
  <1>4. 0 \in P
    <2>1. 0 + 1 = 1
      OBVIOUS
    <2> QED BY <2>1, <1>2
  <1>5. ASSUME NEW m \in Nat, m \in P PROVE m + 1 \in P
    <2>1. m + 1 \in Nat \ {0} /\ (m + 1 + 1 <= Len(ss) => m + 1 <= Len(ss))
      BY <1>0
    <2> QED BY <2>1, <1>5, <1>3
  <1> HIDE DEF P
  <1>6. Nat \subseteq P
    BY <1>4, <1>5, NaturalInduction
  <1>7. n - 1 \in P /\ n - 1 + 1 = n
    BY <1>6
  <1> QED
    BY <1>7 DEF P

(* flatten: the parts one after the other. *)
LEMMA FlattenHoldsParts ==
    ASSUME NEW S, NEW ss \in Seq(Seq(S))
    PROVE  /\ FlattenSeq(ss) \in Seq(S)
           /\ HoldsParts(FlattenSeq(ss), ss, Len(ss))
           /\ StartOf(ss, 1) = 0
           /\ \A i \in 1 .. Len(ss) : StartOf(ss, i + 1) = StartOf(ss, i) + Len(ss[i])
  <1> DEFINE F == Joined(ss)
  <1>0. Len(ss) \in Nat
    OBVIOUS
  <1>1. JoinsUpTo(F, ss, Len(ss))
    BY <1>0, JoinExists DEF Joined
  <1>2. FlattenSeq(ss) = IF Len(ss) = 0 THEN ss ELSE F[Len(ss)]
    BY DEF FlattenSeq, Joined, JoinsUpTo
  <1>3. \A i \in 1 .. Len(ss) : StartOf(ss, i + 1) = Len(F[i])
    <2>1. \A i \in 1 .. Len(ss) : i + 1 # 1 /\ i + 1 - 1 = i
      BY <1>0
    <2> QED BY <2>1 DEF StartOf
  <1>4. StartOf(ss, 1) = 0
    BY DEF StartOf
  <1> HIDE DEF F
  <1>5. \A i \in 1 .. Len(ss) : JoinedWell(F, S, ss, i)
    <2> TAKE i \in 1 .. Len(ss)
    <2>1. i \in Nat \ {0} /\ i <= Len(ss)
      BY <1>0
    <2> QED BY <1>1, <1>3, <1>4, <2>1, JoinsWell
  <1>6. CASE Len(ss) = 0
    <2>1. FlattenSeq(ss) = <<>> /\ <<>> \in Seq(S) /\ Len(<<>>) = 0
      BY <1>2, <1>6
    <2>2. 1 .. 0 = {}
      OBVIOUS
    <2> QED BY <1>4, <1>6, <2>1, <2>2 DEF HoldsParts
  <1>7. CASE Len(ss) # 0
    <2>1. Len(ss) \in 1 .. Len(ss)
      BY <1>0, <1>7
    <2> QED BY <1>2, <1>4, <1>5, <1>7, <2>1 DEF JoinedWell
  <1> QED
    BY <1>6, <1>7

-----------------------------------------------------------------------------
(* Fields of instruction data.                                              *)

AddsUpTo(F, data, n) ==
    F = [k \in 1 .. n |-> IF k = 1 THEN 0 ELSE F[k - 1] + data[k - 1].width]

(* The recursion of OffsetOf has a solution. *)
LEMMA OffsetExists ==
    ASSUME NEW data, NEW n \in Nat
    PROVE  \E F : AddsUpTo(F, data, n)
  <1> DEFINE P == {m \in Nat : \E F : AddsUpTo(F, data, m)}
  <1>1. 0 \in P
    <2>1. AddsUpTo([i \in 1 .. 0 |-> 0], data, 0)
      BY DEF AddsUpTo
    <2> QED BY <2>1
  <1>2. ASSUME NEW m \in Nat, m \in P PROVE m + 1 \in P
    <2>1. PICK F : AddsUpTo(F, data, m)
      BY <1>2
    <2> DEFINE x == IF m = 0 THEN 0 ELSE F[m] + data[m].width
               H == [i \in 1 .. m + 1 |-> IF i = m + 1 THEN x ELSE F[i]]
    <2>2. \A i \in 1 .. m : F[i] = IF i = 1 THEN 0 ELSE F[i - 1] + data[i - 1].width
      BY <2>1 DEF AddsUpTo
    <2>3. \A i \in 1 .. m + 1 : H[i] = IF i = 1 THEN 0 ELSE H[i - 1] + data[i - 1].width
      BY <2>2
    <2>4. AddsUpTo(H, data, m + 1)
      <3>1. H = [i \in 1 .. m + 1 |-> H[i]]
        OBVIOUS
      <3> HIDE DEF H
      <3> QED BY <2>3, <3>1 DEF AddsUpTo
    <2> QED BY <2>4
  <1> HIDE DEF P
  <1>3. Nat \subseteq P
    BY <1>1, <1>2, NaturalInduction
  <1> QED
    BY <1>3 DEF P

IsData(data) ==
    /\ Len(data) \in Nat /\ DOMAIN data = 1 .. Len(data)
    /\ \A k \in 1 .. Len(data) : data[k].width \in Nat \ {0}

(* A field begins where the one before it ends. *)
LEMMA OffsetSteps ==
    ASSUME NEW data, IsData(data)
    PROVE  \A k \in 1 .. Len(data) :
              /\ OffsetOf(data, k) \in Nat
              /\ k = 1 => OffsetOf(data, k) = 0
              /\ k # 1 => OffsetOf(data, k) = OffsetOf(data, k - 1) + data[k - 1].width
  <1> DEFINE F == CHOOSE H : AddsUpTo(H, data, Len(data))
  <1>0. Len(data) \in Nat /\ \A k \in 1 .. Len(data) : data[k].width \in Nat
    BY DEF IsData
  <1>1. AddsUpTo(F, data, Len(data))
    BY <1>0, OffsetExists
  <1>2. \A k : OffsetOf(data, k) = F[k]
    BY DEF OffsetOf, AddsUpTo
  <1> HIDE DEF F
  <1>3. \A k \in 1 .. Len(data) : F[k] = IF k = 1 THEN 0 ELSE F[k - 1] + data[k - 1].width
    BY <1>1 DEF AddsUpTo
  <1> DEFINE P == {m \in Nat : m + 1 <= Len(data) => F[m + 1] \in Nat}
  <1>4. 0 \in P
    BY <1>3
  <1>5. ASSUME NEW m \in Nat, m \in P PROVE m + 1 \in P
    <2> SUFFICES ASSUME m + 1 + 1 <= Len(data) PROVE F[m + 1 + 1] \in Nat
      OBVIOUS
    <2>1. /\ m + 1 + 1 \in 1 .. Len(data) /\ m + 1 + 1 # 1 /\ m + 1 \in 1 .. Len(data)
          /\ m + 1 + 1 - 1 = m + 1 /\ m + 1 <= Len(data)
      BY <1>0
    <2>2. F[m + 1] \in Nat /\ data[m + 1].width \in Nat
      BY <1>5, <2>1, <1>0
    <2>3. F[m + 1 + 1] = F[m + 1] + data[m + 1].width
      BY <1>3, <2>1
    <2> QED BY <2>2, <2>3
  <1> HIDE DEF P
  <1>6. Nat \subseteq P
    BY <1>4, <1>5, NaturalInduction
  <1>7. \A k \in 1 .. Len(data) : F[k] \in Nat
    <2> TAKE k \in 1 .. Len(data)
    <2>1. k - 1 \in P /\ k - 1 + 1 = k /\ k <= Len(data)
      BY <1>6, <1>0
    <2> QED BY <2>1 DEF P
  <1> QED
    BY <1>2, <1>3, <1>7

LEMMA OffsetFirst ==
    ASSUME NEW data, IsData(data), 1 \in 1 .. Len(data)
    PROVE  OffsetOf(data, 1) = 0
  BY OffsetSteps

(* Fields do not overlap. *)
LEMMA OffsetsGrow ==
    ASSUME NEW data, IsData(data), NEW j \in 1 .. Len(data), NEW k \in 1 .. Len(data), j < k
    PROVE  OffsetOf(data, j) + data[j].width <= OffsetOf(data, k)
  <1> DEFINE P == {m \in Nat : j + m + 1 <= Len(data) =>
                      OffsetOf(data, j) + data[j].width <= OffsetOf(data, j + m + 1)}
  <1>0. /\ Len(data) \in Nat /\ \A i \in 1 .. Len(data) : data[i].width \in Nat \ {0}
        /\ \A i \in 1 .. Len(data) : OffsetOf(data, i) \in Nat
        /\ \A i \in 1 .. Len(data) :
              i # 1 => OffsetOf(data, i) = OffsetOf(data, i - 1) + data[i - 1].width
    BY OffsetSteps DEF IsData
  <1>1. 0 \in P
    <2> SUFFICES ASSUME j + 0 + 1 <= Len(data)
                 PROVE  OffsetOf(data, j) + data[j].width <= OffsetOf(data, j + 0 + 1)
      OBVIOUS
    <2>1. PICK i : i = j + 0 + 1
      OBVIOUS
    <2>2. i \in 1 .. Len(data) /\ i # 1 /\ i - 1 = j
      BY <2>1, <1>0
    <2>3. OffsetOf(data, i) = OffsetOf(data, j) + data[j].width
      BY <2>2, <1>0
    <2>4. OffsetOf(data, i) \in Nat
      BY <2>2, <1>0
    <2> QED BY <2>1, <2>3, <2>4
  <1>2. ASSUME NEW m \in Nat, m \in P PROVE m + 1 \in P
    <2> SUFFICES ASSUME j + (m + 1) + 1 <= Len(data)
                 PROVE  OffsetOf(data, j) + data[j].width <= OffsetOf(data, j + (m + 1) + 1)
      OBVIOUS
    <2>1. PICK i, h : i = j + (m + 1) + 1 /\ h = j + m + 1
      OBVIOUS
    <2>2. i \in 1 .. Len(data) /\ i # 1 /\ i - 1 = h /\ h \in 1 .. Len(data) /\ h <= Len(data)
      BY <2>1, <1>0
    <2>3. OffsetOf(data, i) = OffsetOf(data, h) + data[h].width
      BY <2>2, <1>0
    <2>4. OffsetOf(data, j) + data[j].width <= OffsetOf(data, h)
      BY <1>2, <2>1, <2>2
    <2>5. /\ OffsetOf(data, h) \in Nat /\ data[h].width \in Nat
          /\ OffsetOf(data, j) \in Nat /\ data[j].width \in Nat
      BY <2>2, <1>0
    <2>6. OffsetOf(data, j) + data[j].width <= OffsetOf(data, i)
      BY <2>3, <2>4, <2>5
    <2> QED BY <2>1, <2>6
  <1> HIDE DEF P
  <1>3. Nat \subseteq P
    BY <1>1, <1>2, NaturalInduction
  <1>4. k - j - 1 \in P /\ j + (k - j - 1) + 1 = k /\ k <= Len(data)
    BY <1>3, <1>0
  <1> QED
    BY <1>4 DEF P

(* A program that reads at the offset of a field gets that field. *)
LEMMA ReadField ==
    ASSUME NEW data, IsData(data), NEW k \in 1 .. Len(data)
    PROVE  ReadAt(data, OffsetOf(data, k), data[k].width) = data[k].value
  <1> DEFINE hit == {i \in DOMAIN data : OffsetOf(data, i) = OffsetOf(data, k)
                                             /\ data[i].width = data[k].width}
  <1>1. hit = {k}
    <2>0. DOMAIN data = 1 .. Len(data) /\ Len(data) \in Nat
      BY DEF IsData
    <2>1. ASSUME NEW i \in 1 .. Len(data), i # k PROVE OffsetOf(data, i) # OffsetOf(data, k)
      <3>0. /\ OffsetOf(data, i) \in Nat /\ OffsetOf(data, k) \in Nat
            /\ data[i].width \in Nat \ {0} /\ data[k].width \in Nat \ {0}
        BY OffsetSteps DEF IsData
      <3>1. CASE i < k
        <4>1. OffsetOf(data, i) + data[i].width <= OffsetOf(data, k)
          BY <3>1, OffsetsGrow
        <4> QED BY <4>1, <3>0
      <3>2. CASE k < i
        <4>1. OffsetOf(data, k) + data[k].width <= OffsetOf(data, i)
          BY <3>2, OffsetsGrow
        <4> QED BY <4>1, <3>0
      <3> QED BY <3>1, <3>2, <2>1, <2>0
    <2> QED BY <2>0, <2>1
  <1>2. ReadAt(data, OffsetOf(data, k), data[k].width)
           = IF hit = {} THEN Torn ELSE data[CHOOSE i \in hit : TRUE].value
    BY DEF ReadAt
  <1> HIDE DEF hit
  <1>3. hit # {} /\ (CHOOSE i \in hit : TRUE) = k
    BY <1>1
  <1> QED
    BY <1>2, <1>3

(* Writing to a field of eight bytes changes its value and nothing else. *)
LEMMA OverwriteField ==
    ASSUME NEW data, IsData(data), NEW k \in 1 .. Len(data), data[k].width = 8,
           \A i \in 1 .. Len(data) : data[i] = Field(data[i].name, data[i].width, data[i].value),
           NEW n, NEW u, u = Overwritten(data, OffsetOf(data, k), n)
    PROVE  /\ DOMAIN u = 1 .. Len(data)
           /\ u[k] = [data[k] EXCEPT !.value = n]
           /\ \A i \in 1 .. Len(data) : i # k => u[i] = data[i]
  <1>0. DOMAIN data = 1 .. Len(data) /\ Len(data) \in Nat
    BY DEF IsData
  <1>1. DOMAIN u = 1 .. Len(data)
    BY <1>0 DEF Overwritten
  <1> DEFINE from == OffsetOf(data, k)
  <1>2. \A i \in 1 .. Len(data) :
           u[i] = IF OffsetOf(data, i) = from /\ data[i].width = 8
                  THEN [data[i] EXCEPT !.value = n]
                  ELSE IF OffsetOf(data, i) < from + 8 /\ from < OffsetOf(data, i) + data[i].width
                  THEN [data[i] EXCEPT !.value = Torn] ELSE data[i]
    BY <1>0 DEF Overwritten
  <1>3. u[k] = [data[k] EXCEPT !.value = n]
    BY <1>2
  <1>4. ASSUME NEW i \in 1 .. Len(data), i # k PROVE u[i] = data[i]
    <2>0. /\ OffsetOf(data, i) \in Nat /\ OffsetOf(data, k) \in Nat
          /\ data[i].width \in Nat \ {0} /\ data[k].width \in Nat \ {0}
      BY OffsetSteps DEF IsData
    <2>1. CASE i < k
      <3>1. OffsetOf(data, i) + data[i].width <= from
        BY <2>1, OffsetsGrow
      <3>2. OffsetOf(data, i) # from /\ ~(from < OffsetOf(data, i) + data[i].width)
        BY <3>1, <2>0
      <3> QED BY <3>2, <1>2
    <2>2. CASE k < i
      <3>1. from + data[k].width <= OffsetOf(data, i)
        BY <2>2, OffsetsGrow
      <3>2. OffsetOf(data, i) # from /\ ~(OffsetOf(data, i) < from + 8)
        BY <3>1, <2>0
      <3> QED BY <3>2, <1>2
    <2> QED BY <2>1, <2>2, <1>4, <1>0
  <1> QED
    BY <1>1, <1>3, <1>4

(* The offsets depend on the widths alone. *)
LEMMA OffsetsSame ==
    ASSUME NEW data, IsData(data), NEW u, IsData(u), Len(u) = Len(data),
           \A i \in 1 .. Len(data) : u[i].width = data[i].width
    PROVE  \A k \in 1 .. Len(data) : OffsetOf(u, k) = OffsetOf(data, k)
  <1> DEFINE P == {m \in Nat : m + 1 <= Len(data) => OffsetOf(u, m + 1) = OffsetOf(data, m + 1)}
  <1>0. Len(data) \in Nat
    BY DEF IsData
  <1>1. \A k \in 1 .. Len(data) :
           /\ k = 1 => OffsetOf(data, k) = 0 /\ OffsetOf(u, k) = 0
           /\ k # 1 => /\ OffsetOf(data, k) = OffsetOf(data, k - 1) + data[k - 1].width
                       /\ OffsetOf(u, k) = OffsetOf(u, k - 1) + u[k - 1].width
    BY OffsetSteps
  <1>2. 0 \in P
    BY <1>1, <1>0
  <1>3. ASSUME NEW m \in Nat, m \in P PROVE m + 1 \in P
    <2> SUFFICES ASSUME m + 1 + 1 <= Len(data)
                 PROVE  OffsetOf(u, m + 1 + 1) = OffsetOf(data, m + 1 + 1)
      OBVIOUS
    <2>1. PICK k, h : k = m + 1 + 1 /\ h = m + 1
      OBVIOUS
    <2>2. k \in 1 .. Len(data) /\ k # 1 /\ k - 1 = h /\ h \in 1 .. Len(data) /\ h <= Len(data)
      BY <2>1, <1>0
    <2>3. OffsetOf(u, h) = OffsetOf(data, h) /\ u[h].width = data[h].width
      BY <1>3, <2>1, <2>2
    <2>4. OffsetOf(u, k) = OffsetOf(data, k)
      BY <1>1, <2>2, <2>3
    <2> QED BY <2>1, <2>4
  <1> HIDE DEF P
  <1>4. Nat \subseteq P
    BY <1>2, <1>3, NaturalInduction
  <1> QED
    <2> TAKE k \in 1 .. Len(data)
    <2>1. k - 1 \in P /\ k - 1 + 1 = k /\ k <= Len(data)
      BY <1>4, <1>0
    <2> QED BY <2>1 DEF P

IsFields(data) ==
    \A i \in 1 .. Len(data) : data[i] = Field(data[i].name, data[i].width, data[i].value)

(* What a program reads after the executor wrote the amount. *)
LEMMA ReadOverwritten ==
    ASSUME NEW data, IsData(data), IsFields(data), NEW k \in 1 .. Len(data), data[k].width = 8,
           NEW n, NEW u, u = Overwritten(data, OffsetOf(data, k), n)
    PROVE  /\ ReadAt(u, OffsetOf(data, k), 8) = n
           /\ \A i \in 1 .. Len(data) : i # k =>
                 ReadAt(u, OffsetOf(data, i), data[i].width) = data[i].value
  <1>1. /\ DOMAIN u = 1 .. Len(data)
        /\ u[k] = [data[k] EXCEPT !.value = n]
        /\ \A i \in 1 .. Len(data) : i # k => u[i] = data[i]
    BY OverwriteField DEF IsFields
  <1>2. Len(data) \in Nat /\ \A i \in 1 .. Len(data) : data[i].width \in Nat \ {0}
    BY DEF IsData
  <1>3. u[k].width = data[k].width /\ u[k].value = n
    <2>1. data[k] = Field(data[k].name, data[k].width, data[k].value)
      BY DEF IsFields
    <2>2. PICK a, b, c : data[k] = [name |-> a, width |-> b, value |-> c]
      BY <2>1 DEF Field
    <2> QED BY <1>1, <2>2
  <1>4. \A i \in 1 .. Len(data) : u[i].width = data[i].width
    BY <1>1, <1>3
  <1>5. Len(u) = Len(data)
    <2>1. u = [i \in 1 .. Len(data) |-> u[i]]
      BY <1>1 DEF Overwritten
    <2> QED BY <2>1, <1>2
  <1>6. IsData(u)
    BY <1>1, <1>2, <1>4, <1>5 DEF IsData
  <1>7. \A i \in 1 .. Len(data) : OffsetOf(u, i) = OffsetOf(data, i)
    BY <1>4, <1>5, <1>6, OffsetsSame
  <1>8. \A i \in 1 .. Len(data) : ReadAt(u, OffsetOf(data, i), data[i].width) = u[i].value
    <2> TAKE i \in 1 .. Len(data)
    <2>1. ReadAt(u, OffsetOf(u, i), u[i].width) = u[i].value
      BY <1>5, <1>6, ReadField
    <2> QED BY <2>1, <1>4, <1>7
  <1> QED
    BY <1>1, <1>3, <1>8

-----------------------------------------------------------------------------
(* What each dex builds is what its program expects.                        *)

Edges == [dex : Dexs, in : Mints, out : Mints, aToB : BOOLEAN, more : Seq(STRING)]

FaceOf(ix) == Interface[ix.program_id[2]]

(* Whether the program sells the account at a. *)
Direct(ix, e) == FaceOf(ix).flag = Absent \/ e.aToB

(* The accounts are where the program looks for them. *)
AccountsFit(ix, e) ==
    /\ ix.program_id[2] \in DOMAIN Interface
    /\ ix.out_pubkey = Ata(e.out)
    /\ IsList(ix.accounts)
    /\ FaceOf(ix).a \in 1 .. Len(ix.accounts) /\ FaceOf(ix).b \in 1 .. Len(ix.accounts)
    /\ ix.accounts[FaceOf(ix).a] = Ata(IF Direct(ix, e) THEN e.in ELSE e.out)
    /\ ix.accounts[FaceOf(ix).b] = Ata(IF Direct(ix, e) THEN e.out ELSE e.in)
    /\ Wallet \in Range(ix.accounts)

(* So are the amount and the direction, and the executor overwrites the amount. *)
DataFits(ix, e, amount) ==
    /\ IsData(ix.data) /\ IsFields(ix.data)
    /\ ix.in_amount_offset = FaceOf(ix).amount
    /\ \E k \in 1 .. Len(ix.data) :
          /\ OffsetOf(ix.data, k) = FaceOf(ix).amount /\ ix.data[k].width = 8
          /\ ix.data[k].value = amount
          /\ FaceOf(ix).flag # Absent =>
                \E j \in 1 .. Len(ix.data) :
                   /\ j # k /\ OffsetOf(ix.data, j) = FaceOf(ix).flag /\ ix.data[j].width = 1
                   /\ ix.data[j].value = IF e.aToB = (ix.program_id[2] # "executor") THEN 1 ELSE 0

(* The elements of two lists behind each other. *)
LEMMA ConcatAt ==
    ASSUME NEW u, NEW t, NEW p, IsConcat(u, t, p), Len(t) \in Nat, Len(p) \in Nat
    PROVE  /\ Len(u) = Len(t) + Len(p)
           /\ \A j \in 1 .. Len(t) : u[j] = t[j]
           /\ \A j \in 1 .. Len(p) : u[Len(t) + j] = p[j]
  <1>0. PICK a, b : a = Len(t) /\ b = Len(p)
    OBVIOUS
  <1>1. \A j \in 1 .. a + b : u[j] = IF j <= a THEN t[j] ELSE p[j - a]
    BY <1>0 DEF IsConcat
  <1>2. ASSUME NEW j \in 1 .. b PROVE u[a + j] = p[j]
    <2>1. PICK i : i = a + j
      OBVIOUS
    <2>2. i \in 1 .. a + b /\ ~(i <= a) /\ i - a = j
      BY <1>0, <2>1
    <2>3. u[i] = p[i - a]
      BY <1>1, <2>2, Zenon
    <2> QED BY <2>1, <2>2, <2>3, Zenon
  <1>3. \A j \in 1 .. a : j \in 1 .. a + b /\ j <= a
    BY <1>0
  <1> QED
    BY <1>0, <1>1, <1>2, <1>3 DEF IsConcat

LEMMA raydium_data ==
    ASSUME NEW e \in Edges, NEW in, NEW out, NEW bps
    PROVE  DataFits(raydium_ix(e, in, out, bps), e, in)
  <1>1. PICK ix : ix = raydium_ix(e, in, out, bps)
    OBVIOUS
  <1>2. /\ Len(ix.data) = 3 /\ ix.program_id[2] = "raydium" /\ ix.in_amount_offset = 1
        /\ ix.data[1].width = 1 /\ ix.data[2].width = 8 /\ ix.data[2].value = in
    BY <1>1 DEF raydium_ix, SwapInstruction, Field, Amount, MinOut
  <1>3. IsData(ix.data) /\ IsFields(ix.data)
    BY <1>1 DEF raydium_ix, SwapInstruction, Field, Amount, MinOut, IsData, IsFields
  <1>4. OffsetOf(ix.data, 2) = 1
    BY <1>2, <1>3, OffsetSteps
  <1>5. FaceOf(ix).amount = 1 /\ FaceOf(ix).flag = Absent
    BY <1>2 DEF FaceOf, Interface
  <1>6. DataFits(ix, e, in)
    BY <1>2, <1>3, <1>4, <1>5 DEF DataFits
  <1> QED
    BY <1>1, <1>6

(* A list ranges over its elements. *)
LEMMA InRange ==
    ASSUME NEW u, IsList(u), NEW w \in 1 .. Len(u)
    PROVE  u[w] \in Range(u)
  <1>1. DOMAIN u = 1 .. Len(u)
    BY DEF IsList
  <1> QED BY <1>1 DEF Range

LEMMA raydium_accounts ==
    ASSUME NEW e \in Edges, NEW in, NEW out, NEW bps
    PROVE  AccountsFit(raydium_ix(e, in, out, bps), e)
  <1> DEFINE p == <<TokenProgram, Pool(e, "amm"), Pool(e, "authority"), Pool(e, "amm"),
                    VaultOf(e, TokenA(e)), VaultOf(e, TokenB(e))>>
             q == [i \in 1..8 |-> Pool(e, "amm")]
             r == <<Ata(e.in), Ata(e.out), Wallet>>
  <1>1. PICK ix : ix = raydium_ix(e, in, out, bps)
    OBVIOUS
  <1>2. /\ ix.accounts = p \o q \o r /\ ix.program_id[2] = "raydium" /\ ix.out_pubkey = Ata(e.out)
    BY <1>1 DEF raydium_ix, SwapInstruction
  <1> DEFINE S == {TokenProgram, Pool(e, "amm"), Pool(e, "authority"), VaultOf(e, TokenA(e)),
                   VaultOf(e, TokenB(e)), Ata(e.in), Ata(e.out), Wallet}
  <1>5. p \in Seq(S) /\ Len(p) = 6
    OBVIOUS
  <1>6. q \in Seq(S) /\ Len(q) = 8
    OBVIOUS
  <1>7. r \in Seq(S) /\ Len(r) = 3 /\ r[1] = Ata(e.in) /\ r[2] = Ata(e.out) /\ r[3] = Wallet
    OBVIOUS
  <1> HIDE DEF p, q, r, S
  <1>8. PICK t : t = p \o q /\ t \in Seq(S) /\ IsConcat(t, p, q)
    BY <1>5, <1>6, ConcatIs, Zenon
  <1>9. PICK u : u = t \o r /\ u \in Seq(S) /\ IsConcat(u, t, r)
    BY <1>7, <1>8, ConcatIs, Zenon
  <1>a. Len(t) = 14
    BY <1>5, <1>6, <1>8 DEF IsConcat
  <1>b. Len(u) = 17 /\ u[15] = Ata(e.in) /\ u[16] = Ata(e.out) /\ u[17] = Wallet
    <2>0. Len(t) \in Nat /\ Len(r) \in Nat
      BY <1>a, <1>7
    <2>1. Len(u) = Len(t) + Len(r) /\ \A j \in 1 .. Len(r) : u[Len(t) + j] = r[j]
      BY <2>0, <1>9, ConcatAt
    <2>2. Len(u) = 14 + 3 /\ \A j \in 1 .. 3 : u[14 + j] = r[j]
      BY <1>7, <1>a, <2>1, Zenon
    <2> QED BY <2>2, <1>7
  <1>c. ix.accounts = u
    BY <1>2, <1>8, <1>9
  <1>10. FaceOf(ix).a = 15 /\ FaceOf(ix).b = 16 /\ FaceOf(ix).flag = Absent
         /\ "raydium" \in DOMAIN Interface
    BY <1>2 DEF FaceOf, Interface
  <1>11. Wallet \in Range(u)
    <2>1. 17 \in 1 .. Len(u)
      BY <1>b
    <2>2. u[17] \in Range(u)
      BY <1>9, <2>1, InRange, Zenon DEF IsList
    <2> QED BY <2>2, <1>b
  <1>12. AccountsFit(ix, e)
    BY <1>2, <1>9, <1>b, <1>c, <1>10, <1>11 DEF AccountsFit, Direct, IsList
  <1> QED
    BY <1>1, <1>12

BeginsWith(u, p, n) ==
    /\ IsList(u) /\ Len(u) \in Nat /\ n <= Len(u)
    /\ \A j \in 1 .. n : j \in 1 .. Len(u) /\ u[j] = p[j]

(* A list with another behind it begins with the first. *)
LEMMA PrefixOf ==
    ASSUME NEW p, NEW q, IsList(p), IsList(q), NEW n \in Nat, n <= Len(p)
    PROVE  BeginsWith(p \o q, p, n)
  <1>1. PICK u : u = p \o q /\ IsList(u) /\ IsConcat(u, p, q)
    BY ListConcat
  <1>2. Len(p) \in Nat /\ Len(q) \in Nat
    BY DEF IsList
  <1>3. Len(u) = Len(p) + Len(q) /\ \A j \in 1 .. Len(p) : u[j] = p[j]
    BY <1>1, <1>2, ConcatAt
  <1>4. Len(u) \in Nat /\ n <= Len(u) /\ \A j \in 1 .. n : j \in 1 .. Len(p) /\ j \in 1 .. Len(u)
    BY <1>2, <1>3
  <1> QED BY <1>1, <1>3, <1>4 DEF BeginsWith

LEMMA PrefixSelf ==
    ASSUME NEW p, IsList(p), NEW n \in Nat, n <= Len(p)
    PROVE  BeginsWith(p, p, n)
  <1>1. Len(p) \in Nat
    BY DEF IsList
  <1> QED BY <1>1 DEF BeginsWith

(* The accounts an edge lists besides. *)
LEMMA PoolsAreList ==
    ASSUME NEW e \in Edges
    PROVE  IsList([i \in DOMAIN e.more |-> Pool(e, e.more[i])])
  <1> DEFINE n == Len(e.more)
             S == {Pool(e, e.more[i]) : i \in 1 .. n}
             q == [i \in 1 .. n |-> Pool(e, e.more[i])]
  <1>1. DOMAIN e.more = 1 .. n /\ n \in Nat
    BY DEF Edges
  <1> HIDE DEF n
  <1>2. q \in Seq(S)
    BY <1>1
  <1> QED BY <1>1, <1>2 DEF IsList

LEMMA MakersAreList ==
    ASSUME NEW e \in Edges
    PROVE  IsList(included_makers(e)) /\ Len(included_makers(e)) \in Nat
           /\ Len(included_makers(e)) <= 2
  <1> DEFINE n == IF Len(e.more) < 2 THEN Len(e.more) ELSE 2
             two == SubSeq(e.more, 1, n)
             S == {Pool(e, two[i]) : i \in 1 .. n}
             q == [i \in 1 .. n |-> Pool(e, two[i])]
  <1>1. e.more \in Seq(STRING) /\ Len(e.more) \in Nat
    BY DEF Edges
  <1>2. n \in Nat /\ two \in Seq(STRING) /\ Len(two) = n /\ DOMAIN two = 1 .. n
    <2>1. n \in Nat /\ 1 \in 1 .. Len(e.more) + 1 /\ n \in 1 - 1 .. Len(e.more)
      BY <1>1
    <2> QED BY <1>1, <2>1
  <1>3. included_makers(e) = IF Len(two) = 2 /\ two[1] = two[2] THEN <<Pool(e, two[1])>>
                             ELSE [i \in DOMAIN two |-> Pool(e, two[i])]
    BY DEF included_makers
  <1>7. n \in Nat /\ n <= 2
    BY <1>1
  <1> HIDE DEF n, two
  <1>4. q \in Seq(S) /\ Len(q) = n
    BY <1>2
  <1>5. <<Pool(e, two[1])>> \in Seq({Pool(e, two[1])}) /\ Len(<<Pool(e, two[1])>>) = 1
    OBVIOUS
  <1>6. included_makers(e) \in {q, <<Pool(e, two[1])>>}
    BY <1>2, <1>3
  <1>8. IsList(q) /\ IsList(<<Pool(e, two[1])>>)
    BY <1>4, <1>5 DEF IsList
  <1> HIDE DEF q
  <1>9. PICK m : m = included_makers(e)
    OBVIOUS
  <1>10. CASE m = q
    BY <1>4, <1>7, <1>8, <1>9, <1>10
  <1>11. CASE m = <<Pool(e, two[1])>>
    BY <1>5, <1>8, <1>9, <1>11
  <1> QED BY <1>6, <1>9, <1>10, <1>11

LEMMA TickArraysAreList ==
    ASSUME NEW e \in Edges
    PROVE  IsList(orca_tick_arrays(e)) /\ Len(orca_tick_arrays(e)) = 3
  <1> DEFINE f(i) == Pool(e, IF i > Len(e.more) \/ e.more[i] = "" THEN e.more[1] ELSE e.more[i])
  <1>1. PICK q : q = orca_tick_arrays(e)
    OBVIOUS
  <1>2. q = [i \in 1 .. 3 |-> q[i]]
    <2>1. q = [i \in 1 .. 3 |-> f(i)]
      BY <1>1, Zenon DEF orca_tick_arrays
    <2> HIDE DEF f
    <2> QED BY <2>1
  <1>3. q \in Seq({q[i] : i \in 1 .. 3}) /\ Len(q) = 3
    BY <1>2
  <1> QED BY <1>1, <1>3 DEF IsList

LEMMA raydium_cp_data ==
    ASSUME NEW e \in Edges, NEW in, NEW out, NEW bps
    PROVE  DataFits(raydium_cp_ix(e, in, out, bps), e, in)
  <1>1. PICK ix : ix = raydium_cp_ix(e, in, out, bps)
    OBVIOUS
  <1>2. /\ Len(ix.data) = 3 /\ ix.program_id[2] = "raydium_cp" /\ ix.in_amount_offset = 8
        /\ ix.data[1].width = 8 /\ ix.data[2].width = 8
        /\ ix.data[2].value = in
    BY <1>1 DEF raydium_cp_ix, SwapInstruction, Field, Amount, MinOut
  <1>3. IsData(ix.data) /\ IsFields(ix.data)
    BY <1>1 DEF raydium_cp_ix, SwapInstruction, Field, Amount, MinOut, IsData, IsFields
  <1>4. OffsetOf(ix.data, 1) = 0 /\ OffsetOf(ix.data, 2) = 8
    <2>1. PICK d : d = ix.data
      OBVIOUS
    <2>2. \A k \in 1 .. Len(d) : /\ k = 1 => OffsetOf(d, k) = 0
                                /\ k # 1 => OffsetOf(d, k) = OffsetOf(d, k - 1) + d[k - 1].width
      BY <1>3, <2>1, OffsetSteps
    <2>0. 1 \in 1 .. Len(d) /\ 2 \in 1 .. Len(d)
      BY ONLY <1>2, <2>1
    <2>3. OffsetOf(d, 1) = 0
      BY <1>3, <2>0, <2>1, OffsetFirst
    <2>4. OffsetOf(d, 2) = 8
      BY <1>2, <2>0, <2>1, <2>3, <2>2
    <2> QED BY <2>1, <2>3, <2>4
  <1>5. FaceOf(ix).amount = 8 /\ FaceOf(ix).flag = Absent
    BY <1>2 DEF FaceOf, Interface
  <1>6. DataFits(ix, e, in)
    BY <1>2, <1>3, <1>4, <1>5 DEF DataFits
  <1> QED
    BY <1>1, <1>6

LEMMA raydium_cp_accounts ==
    ASSUME NEW e \in Edges, NEW in, NEW out, NEW bps
    PROVE  AccountsFit(raydium_cp_ix(e, in, out, bps), e)
  <1> DEFINE p == <<Wallet, Pool(e, "authority"), Pool(e, "amm_config"), Pool(e, "pool_state"),
                    Ata(e.in), Ata(e.out), VaultOf(e, e.in), VaultOf(e, e.out),
                    TokenProgram, TokenProgram, <<"mint", e.in>>, <<"mint", e.out>>,
                    Pool(e, "observation_state")>>
  <1>1. PICK ix : ix = raydium_cp_ix(e, in, out, bps)
    OBVIOUS
  <1>2. ix.accounts = p /\ ix.program_id[2] = "raydium_cp" /\ ix.out_pubkey = Ata(e.out)
    BY <1>1 DEF raydium_cp_ix, SwapInstruction
  <1>3. /\ Len(p) = 13 /\ p[1] = Wallet
        /\ p[5] = Ata(e.in) /\ p[6] = Ata(e.out)
    BY DEF TokenA, TokenB
  <1>4. IsList(p)
    <2> DEFINE S == {p[i] : i \in 1 .. 13}
    <2>1. p \in Seq(S)
      OBVIOUS
    <2> QED BY <2>1 DEF IsList
  <1> HIDE DEF p
  <1>8. PICK u : u = p /\ BeginsWith(u, p, 13)
    <2>1. 13 \in Nat /\ 13 <= Len(p)
      BY <1>3
    <2> QED BY <1>4, <2>1, PrefixSelf, Zenon
  <1>9. ix.accounts = u
    BY <1>2, <1>8
  <1>10. FaceOf(ix).a = 5 /\ FaceOf(ix).b = 6 /\ FaceOf(ix).flag = Absent
         /\ "raydium_cp" \in DOMAIN Interface
    BY <1>2 DEF FaceOf, Interface, Absent
  <1>11. Wallet \in Range(u)
    <2>0. \A j \in 1 .. 13 : j \in 1 .. Len(u) /\ u[j] = p[j]
      BY <1>8 DEF BeginsWith
    <2>a. 1 \in 1 .. 13
      OBVIOUS
    <2>1. 1 \in 1 .. Len(u) /\ u[1] = Wallet
      BY <1>3, <2>0, <2>a, Zenon
    <2>2. IsList(u)
      BY <1>8 DEF BeginsWith
    <2>3. u[1] \in Range(u)
      BY <2>1, <2>2, InRange, Zenon
    <2> QED BY <2>1, <2>3, Zenon
  <1>12. /\ 5 \in 1 .. Len(u) /\ 6 \in 1 .. Len(u)
         /\ u[5] = Ata(e.in) /\ u[6] = Ata(e.out)
    BY <1>3, <1>8 DEF BeginsWith
  <1>13. AccountsFit(ix, e)
    BY <1>2, <1>8, <1>9, <1>10, <1>11, <1>12 DEF AccountsFit, Direct, BeginsWith
  <1> QED
    BY <1>1, <1>13

LEMMA saber_data ==
    ASSUME NEW e \in Edges, NEW in, NEW out, NEW bps
    PROVE  DataFits(saber_ix(e, in, out, bps), e, in)
  <1>1. PICK ix : ix = saber_ix(e, in, out, bps)
    OBVIOUS
  <1>2. /\ Len(ix.data) = 3 /\ ix.program_id[2] = "saber" /\ ix.in_amount_offset = 1
        /\ ix.data[1].width = 1 /\ ix.data[2].width = 8
        /\ ix.data[2].value = in
    BY <1>1 DEF saber_ix, SwapInstruction, Field, Amount, MinOut
  <1>3. IsData(ix.data) /\ IsFields(ix.data)
    BY <1>1 DEF saber_ix, SwapInstruction, Field, Amount, MinOut, IsData, IsFields
  <1>4. OffsetOf(ix.data, 1) = 0 /\ OffsetOf(ix.data, 2) = 1
    <2>1. PICK d : d = ix.data
      OBVIOUS
    <2>2. \A k \in 1 .. Len(d) : /\ k = 1 => OffsetOf(d, k) = 0
                                /\ k # 1 => OffsetOf(d, k) = OffsetOf(d, k - 1) + d[k - 1].width
      BY <1>3, <2>1, OffsetSteps
    <2>0. 1 \in 1 .. Len(d) /\ 2 \in 1 .. Len(d)
      BY ONLY <1>2, <2>1
    <2>3. OffsetOf(d, 1) = 0
      BY <1>3, <2>0, <2>1, OffsetFirst
    <2>4. OffsetOf(d, 2) = 1
      BY <1>2, <2>0, <2>1, <2>3, <2>2
    <2> QED BY <2>1, <2>3, <2>4
  <1>5. FaceOf(ix).amount = 1 /\ FaceOf(ix).flag = Absent
    BY <1>2 DEF FaceOf, Interface
  <1>6. DataFits(ix, e, in)
    BY <1>2, <1>3, <1>4, <1>5 DEF DataFits
  <1> QED
    BY <1>1, <1>6

LEMMA saber_accounts ==
    ASSUME NEW e \in Edges, NEW in, NEW out, NEW bps
    PROVE  AccountsFit(saber_ix(e, in, out, bps), e)
  <1> DEFINE p == <<Pool(e, "pool"), Pool(e, "authority"), Wallet, Ata(e.in),
                    VaultOf(e, e.in), VaultOf(e, e.out), Ata(e.out),
                    Pool(e, "admin_fees_" \o e.out), TokenProgram>>
  <1>1. PICK ix : ix = saber_ix(e, in, out, bps)
    OBVIOUS
  <1>2. ix.accounts = p /\ ix.program_id[2] = "saber" /\ ix.out_pubkey = Ata(e.out)
    BY <1>1 DEF saber_ix, SwapInstruction
  <1>3. /\ Len(p) = 9 /\ p[3] = Wallet
        /\ p[4] = Ata(e.in) /\ p[7] = Ata(e.out)
    BY DEF TokenA, TokenB
  <1>4. IsList(p)
    <2> DEFINE S == {p[i] : i \in 1 .. 9}
    <2>1. p \in Seq(S)
      OBVIOUS
    <2> QED BY <2>1 DEF IsList
  <1> HIDE DEF p
  <1>8. PICK u : u = p /\ BeginsWith(u, p, 9)
    <2>1. 9 \in Nat /\ 9 <= Len(p)
      BY <1>3
    <2> QED BY <1>4, <2>1, PrefixSelf, Zenon
  <1>9. ix.accounts = u
    BY <1>2, <1>8
  <1>10. FaceOf(ix).a = 4 /\ FaceOf(ix).b = 7 /\ FaceOf(ix).flag = Absent
         /\ "saber" \in DOMAIN Interface
    BY <1>2 DEF FaceOf, Interface, Absent
  <1>11. Wallet \in Range(u)
    <2>0. \A j \in 1 .. 9 : j \in 1 .. Len(u) /\ u[j] = p[j]
      BY <1>8 DEF BeginsWith
    <2>a. 3 \in 1 .. 9
      OBVIOUS
    <2>1. 3 \in 1 .. Len(u) /\ u[3] = Wallet
      BY <1>3, <2>0, <2>a, Zenon
    <2>2. IsList(u)
      BY <1>8 DEF BeginsWith
    <2>3. u[3] \in Range(u)
      BY <2>1, <2>2, InRange, Zenon
    <2> QED BY <2>1, <2>3, Zenon
  <1>12. /\ 4 \in 1 .. Len(u) /\ 7 \in 1 .. Len(u)
         /\ u[4] = Ata(e.in) /\ u[7] = Ata(e.out)
    BY <1>3, <1>8 DEF BeginsWith
  <1>13. AccountsFit(ix, e)
    BY <1>2, <1>8, <1>9, <1>10, <1>11, <1>12 DEF AccountsFit, Direct, BeginsWith
  <1> QED
    BY <1>1, <1>13

LEMMA openbook_v2_data ==
    ASSUME NEW e \in Edges, NEW in, NEW out, NEW bps
    PROVE  DataFits(openbook_v2_ix(e, in, out, bps), e, in)
  <1>1. PICK ix : ix = openbook_v2_ix(e, in, out, bps)
    OBVIOUS
  <1>2. /\ Len(ix.data) = 4 /\ ix.program_id[2] = "executor" /\ ix.in_amount_offset = 1
        /\ ix.data[1].width = 1 /\ ix.data[2].width = 8 /\ ix.data[3].width = 1
        /\ ix.data[2].value = in
        /\ ix.data[3].value = IF e.aToB THEN 0 ELSE 1
    BY <1>1 DEF openbook_v2_ix, SwapInstruction, Field, Amount, MinOut
  <1>3. IsData(ix.data) /\ IsFields(ix.data)
    BY <1>1 DEF openbook_v2_ix, SwapInstruction, Field, Amount, MinOut, IsData, IsFields
  <1>4. OffsetOf(ix.data, 1) = 0 /\ OffsetOf(ix.data, 2) = 1 /\ OffsetOf(ix.data, 3) = 9
    <2>1. PICK d : d = ix.data
      OBVIOUS
    <2>2. \A k \in 1 .. Len(d) : /\ k = 1 => OffsetOf(d, k) = 0
                                /\ k # 1 => OffsetOf(d, k) = OffsetOf(d, k - 1) + d[k - 1].width
      BY <1>3, <2>1, OffsetSteps
    <2>0. 1 \in 1 .. Len(d) /\ 2 \in 1 .. Len(d) /\ 3 \in 1 .. Len(d)
      BY ONLY <1>2, <2>1
    <2>3. OffsetOf(d, 1) = 0
      BY <1>3, <2>0, <2>1, OffsetFirst
    <2>4. OffsetOf(d, 2) = 1
      BY <1>2, <2>0, <2>1, <2>3, <2>2
    <2>5. OffsetOf(d, 3) = 9
      BY <1>2, <2>0, <2>1, <2>4, <2>2
    <2> QED BY <2>1, <2>3, <2>4, <2>5
  <1>5. FaceOf(ix).amount = 1 /\ FaceOf(ix).flag = 9
    BY <1>2 DEF FaceOf, Interface
  <1>6. DataFits(ix, e, in)
    BY <1>2, <1>3, <1>4, <1>5 DEF DataFits, Edges
  <1> QED
    BY <1>1, <1>6

LEMMA openbook_v2_accounts ==
    ASSUME NEW e \in Edges, NEW in, NEW out, NEW bps
    PROVE  AccountsFit(openbook_v2_ix(e, in, out, bps), e)
  <1> DEFINE p == <<<<"program", "openbook_v2">>, Wallet, Wallet, Pool(e, "market"),
                    Pool(e, "market_authority"), Pool(e, "bids"), Pool(e, "asks"),
                    VaultOf(e, TokenA(e)), VaultOf(e, TokenB(e)), Pool(e, "event_heap"),
                    Ata(TokenA(e)), Ata(TokenB(e)), <<"program", "openbook_v2">>,
                    <<"program", "openbook_v2">>, TokenProgram, SystemProgram,
                    <<"program", "openbook_v2">>>>
             q == included_makers(e)
  <1>1. PICK ix : ix = openbook_v2_ix(e, in, out, bps)
    OBVIOUS
  <1>2. ix.accounts = p \o q /\ ix.program_id[2] = "executor" /\ ix.out_pubkey = Ata(e.out)
    BY <1>1 DEF openbook_v2_ix, SwapInstruction
  <1>3. /\ Len(p) = 17 /\ p[2] = Wallet
        /\ p[11] = Ata(IF e.aToB THEN e.in ELSE e.out)
           /\ p[12] = Ata(IF e.aToB THEN e.out ELSE e.in)
    BY DEF TokenA, TokenB
  <1>4. IsList(p)
    <2> DEFINE S == {p[i] : i \in 1 .. 17}
    <2>1. p \in Seq(S)
      OBVIOUS
    <2> QED BY <2>1 DEF IsList
  <1>5. IsList(q)
    BY MakersAreList
  <1> HIDE DEF p, q
  <1>8. PICK u : u = p \o q /\ BeginsWith(u, p, 17)
    <2>1. 17 \in Nat /\ 17 <= Len(p)
      BY <1>3
    <2> QED BY <1>4, <1>5, <2>1, PrefixOf, Zenon
  <1>9. ix.accounts = u
    BY <1>2, <1>8
  <1>10. FaceOf(ix).a = 11 /\ FaceOf(ix).b = 12 /\ FaceOf(ix).flag # Absent
         /\ "executor" \in DOMAIN Interface
    BY <1>2 DEF FaceOf, Interface, Absent
  <1>11. Wallet \in Range(u)
    <2>0. \A j \in 1 .. 17 : j \in 1 .. Len(u) /\ u[j] = p[j]
      BY <1>8 DEF BeginsWith
    <2>a. 2 \in 1 .. 17
      OBVIOUS
    <2>1. 2 \in 1 .. Len(u) /\ u[2] = Wallet
      BY <1>3, <2>0, <2>a, Zenon
    <2>2. IsList(u)
      BY <1>8 DEF BeginsWith
    <2>3. u[2] \in Range(u)
      BY <2>1, <2>2, InRange, Zenon
    <2> QED BY <2>1, <2>3, Zenon
  <1>12. /\ 11 \in 1 .. Len(u) /\ 12 \in 1 .. Len(u)
         /\ u[11] = Ata(IF e.aToB THEN e.in ELSE e.out)
            /\ u[12] = Ata(IF e.aToB THEN e.out ELSE e.in)
    BY <1>3, <1>8 DEF BeginsWith
  <1>13. AccountsFit(ix, e)
    BY <1>2, <1>8, <1>9, <1>10, <1>11, <1>12 DEF AccountsFit, Direct, BeginsWith
  <1> QED
    BY <1>1, <1>13

LEMMA invariant_data ==
    ASSUME NEW e \in Edges, NEW in, NEW out, NEW bps
    PROVE  DataFits(invariant_ix(e, in, out, bps), e, in)
  <1>1. PICK ix : ix = invariant_ix(e, in, out, bps)
    OBVIOUS
  <1>2. /\ Len(ix.data) = 5 /\ ix.program_id[2] = "invariant" /\ ix.in_amount_offset = 9
        /\ ix.data[1].width = 8 /\ ix.data[2].width = 1 /\ ix.data[3].width = 8
        /\ ix.data[3].value = in
        /\ ix.data[2].value = IF e.aToB THEN 1 ELSE 0
    BY <1>1 DEF invariant_ix, SwapInstruction, Field, Amount, MinOut
  <1>3. IsData(ix.data) /\ IsFields(ix.data)
    BY <1>1 DEF invariant_ix, SwapInstruction, Field, Amount, MinOut, IsData, IsFields
  <1>4. OffsetOf(ix.data, 1) = 0 /\ OffsetOf(ix.data, 2) = 8 /\ OffsetOf(ix.data, 3) = 9
    <2>1. PICK d : d = ix.data
      OBVIOUS
    <2>2. \A k \in 1 .. Len(d) : /\ k = 1 => OffsetOf(d, k) = 0
                                /\ k # 1 => OffsetOf(d, k) = OffsetOf(d, k - 1) + d[k - 1].width
      BY <1>3, <2>1, OffsetSteps
    <2>0. 1 \in 1 .. Len(d) /\ 2 \in 1 .. Len(d) /\ 3 \in 1 .. Len(d)
      BY ONLY <1>2, <2>1
    <2>3. OffsetOf(d, 1) = 0
      BY <1>3, <2>0, <2>1, OffsetFirst
    <2>4. OffsetOf(d, 2) = 8
      BY <1>2, <2>0, <2>1, <2>3, <2>2
    <2>5. OffsetOf(d, 3) = 9
      BY <1>2, <2>0, <2>1, <2>4, <2>2
    <2> QED BY <2>1, <2>3, <2>4, <2>5
  <1>5. FaceOf(ix).amount = 9 /\ FaceOf(ix).flag = 8
    BY <1>2 DEF FaceOf, Interface
  <1>6. DataFits(ix, e, in)
    BY <1>2, <1>3, <1>4, <1>5 DEF DataFits, Edges
  <1> QED
    BY <1>1, <1>6

LEMMA invariant_accounts ==
    ASSUME NEW e \in Edges, NEW in, NEW out, NEW bps
    PROVE  AccountsFit(invariant_ix(e, in, out, bps), e)
  <1> DEFINE p == <<Pool(e, "state"), Pool(e, "pool"), Pool(e, "tickmap"),
                    <<"mint", TokenA(e)>>, <<"mint", TokenB(e)>>, Ata(TokenA(e)), Ata(TokenB(e)),
                    VaultOf(e, TokenA(e)), VaultOf(e, TokenB(e)), Wallet, Pool(e, "authority"),
                    TokenProgram, TokenProgram>>
             q == [i \in DOMAIN e.more |-> Pool(e, e.more[i])]
  <1>1. PICK ix : ix = invariant_ix(e, in, out, bps)
    OBVIOUS
  <1>2. ix.accounts = p \o q /\ ix.program_id[2] = "invariant" /\ ix.out_pubkey = Ata(e.out)
    BY <1>1 DEF invariant_ix, SwapInstruction
  <1>3. /\ Len(p) = 13 /\ p[10] = Wallet
        /\ p[6] = Ata(IF e.aToB THEN e.in ELSE e.out) /\ p[7] = Ata(IF e.aToB THEN e.out ELSE e.in)
    BY DEF TokenA, TokenB
  <1>4. IsList(p)
    <2> DEFINE S == {p[i] : i \in 1 .. 13}
    <2>1. p \in Seq(S)
      OBVIOUS
    <2> QED BY <2>1 DEF IsList
  <1>5. IsList(q)
    BY PoolsAreList
  <1> HIDE DEF p, q
  <1>8. PICK u : u = p \o q /\ BeginsWith(u, p, 13)
    <2>1. 13 \in Nat /\ 13 <= Len(p)
      BY <1>3
    <2> QED BY <1>4, <1>5, <2>1, PrefixOf, Zenon
  <1>9. ix.accounts = u
    BY <1>2, <1>8
  <1>10. FaceOf(ix).a = 6 /\ FaceOf(ix).b = 7 /\ FaceOf(ix).flag # Absent
         /\ "invariant" \in DOMAIN Interface
    BY <1>2 DEF FaceOf, Interface, Absent
  <1>11. Wallet \in Range(u)
    <2>0. \A j \in 1 .. 13 : j \in 1 .. Len(u) /\ u[j] = p[j]
      BY <1>8 DEF BeginsWith
    <2>a. 10 \in 1 .. 13
      OBVIOUS
    <2>1. 10 \in 1 .. Len(u) /\ u[10] = Wallet
      BY <1>3, <2>0, <2>a, Zenon
    <2>2. IsList(u)
      BY <1>8 DEF BeginsWith
    <2>3. u[10] \in Range(u)
      BY <2>1, <2>2, InRange, Zenon
    <2> QED BY <2>1, <2>3, Zenon
  <1>12. /\ 6 \in 1 .. Len(u) /\ 7 \in 1 .. Len(u)
         /\ u[6] = Ata(IF e.aToB THEN e.in ELSE e.out) /\ u[7] = Ata(IF e.aToB THEN e.out ELSE e.in)
    BY <1>3, <1>8 DEF BeginsWith
  <1>13. AccountsFit(ix, e)
    BY <1>2, <1>8, <1>9, <1>10, <1>11, <1>12 DEF AccountsFit, Direct, BeginsWith
  <1> QED
    BY <1>1, <1>13

LEMMA orca_data ==
    ASSUME NEW e \in Edges, NEW in, NEW out, NEW bps
    PROVE  DataFits(orca_ix(e, in, out, bps), e, in)
  <1>1. PICK ix : ix = orca_ix(e, in, out, bps)
    OBVIOUS
  <1>2. /\ Len(ix.data) = 6 /\ ix.program_id[2] = "orca" /\ ix.in_amount_offset = 8
        /\ ix.data[1].width = 8 /\ ix.data[2].width = 8 /\ ix.data[3].width = 8
           /\ ix.data[4].width = 16 /\ ix.data[5].width = 1 /\ ix.data[6].width = 1
        /\ ix.data[2].value = in
        /\ ix.data[6].value = IF e.aToB THEN 1 ELSE 0
    BY <1>1 DEF orca_ix, SwapInstruction, Field, Amount, MinOut
  <1>3. IsData(ix.data) /\ IsFields(ix.data)
    BY <1>1 DEF orca_ix, SwapInstruction, Field, Amount, MinOut, IsData, IsFields
  <1>4. OffsetOf(ix.data, 1) = 0 /\ OffsetOf(ix.data, 2) = 8 /\ OffsetOf(ix.data, 3) = 16
        /\ OffsetOf(ix.data, 4) = 24 /\ OffsetOf(ix.data, 5) = 40 /\ OffsetOf(ix.data, 6) = 41
    <2>1. PICK d : d = ix.data
      OBVIOUS
    <2>2. \A k \in 1 .. Len(d) : /\ k = 1 => OffsetOf(d, k) = 0
                                /\ k # 1 => OffsetOf(d, k) = OffsetOf(d, k - 1) + d[k - 1].width
      BY <1>3, <2>1, OffsetSteps
    <2>0. 1 \in 1 .. Len(d) /\ 2 \in 1 .. Len(d) /\ 3 \in 1 .. Len(d) /\ 4 \in 1 .. Len(d)
          /\ 5 \in 1 .. Len(d) /\ 6 \in 1 .. Len(d)
      BY ONLY <1>2, <2>1
    <2>3. OffsetOf(d, 1) = 0
      BY <1>3, <2>0, <2>1, OffsetFirst
    <2>4. OffsetOf(d, 2) = 8
      BY <1>2, <2>0, <2>1, <2>3, <2>2
    <2>5. OffsetOf(d, 3) = 16
      BY <1>2, <2>0, <2>1, <2>4, <2>2
    <2>6. OffsetOf(d, 4) = 24
      BY <1>2, <2>0, <2>1, <2>5, <2>2
    <2>7. OffsetOf(d, 5) = 40
      BY <1>2, <2>0, <2>1, <2>6, <2>2
    <2>8. OffsetOf(d, 6) = 41
      BY <1>2, <2>0, <2>1, <2>7, <2>2
    <2> QED BY <2>1, <2>3, <2>4, <2>5, <2>6, <2>7, <2>8
  <1>5. FaceOf(ix).amount = 8 /\ FaceOf(ix).flag = 41
    BY <1>2 DEF FaceOf, Interface
  <1>6. DataFits(ix, e, in)
    BY <1>2, <1>3, <1>4, <1>5 DEF DataFits, Edges
  <1> QED
    BY <1>1, <1>6

LEMMA orca_accounts ==
    ASSUME NEW e \in Edges, NEW in, NEW out, NEW bps
    PROVE  AccountsFit(orca_ix(e, in, out, bps), e)
  <1> DEFINE p == <<TokenProgram, Wallet, Pool(e, "pool"), Ata(TokenA(e)), VaultOf(e, TokenA(e)),
                    Ata(TokenB(e)), VaultOf(e, TokenB(e))>>
             q == orca_tick_arrays(e)
             r == <<Pool(e, "oracle")>>
  <1>1. PICK ix : ix = orca_ix(e, in, out, bps)
    OBVIOUS
  <1>2. ix.accounts = p \o q \o r /\ ix.program_id[2] = "orca" /\ ix.out_pubkey = Ata(e.out)
    BY <1>1 DEF orca_ix, SwapInstruction
  <1>3. /\ Len(p) = 7 /\ p[2] = Wallet
        /\ p[4] = Ata(IF e.aToB THEN e.in ELSE e.out) /\ p[6] = Ata(IF e.aToB THEN e.out ELSE e.in)
    BY DEF TokenA, TokenB
  <1>4. IsList(p)
    <2> DEFINE S == {p[i] : i \in 1 .. 7}
    <2>1. p \in Seq(S)
      OBVIOUS
    <2> QED BY <2>1 DEF IsList
  <1>5. IsList(q)
    BY TickArraysAreList
  <1>6. IsList(r)
    <2>1. r \in Seq({Pool(e, "oracle")})
      OBVIOUS
    <2> QED BY <2>1 DEF IsList
  <1> HIDE DEF p, q, r
  <1>7. PICK t : t = p \o q /\ BeginsWith(t, p, 7)
    <2>1. 7 \in Nat /\ 7 <= Len(p)
      BY <1>3
    <2> QED BY <1>4, <1>5, <2>1, PrefixOf, Zenon
  <1>8. PICK u : u = t \o r /\ BeginsWith(u, p, 7)
    <2>1. 7 \in Nat /\ 7 <= Len(t) /\ IsList(t)
      BY <1>7 DEF BeginsWith
    <2>2. PICK v : v = t \o r /\ BeginsWith(v, t, 7)
      BY <1>6, <2>1, PrefixOf, Zenon
    <2>3. BeginsWith(v, p, 7)
      BY <1>7, <2>2 DEF BeginsWith
    <2> QED BY <2>2, <2>3
  <1>9. ix.accounts = u
    BY <1>2, <1>7, <1>8
  <1>10. FaceOf(ix).a = 4 /\ FaceOf(ix).b = 6 /\ FaceOf(ix).flag # Absent
         /\ "orca" \in DOMAIN Interface
    BY <1>2 DEF FaceOf, Interface, Absent
  <1>11. Wallet \in Range(u)
    <2>0. \A j \in 1 .. 7 : j \in 1 .. Len(u) /\ u[j] = p[j]
      BY <1>8 DEF BeginsWith
    <2>a. 2 \in 1 .. 7
      OBVIOUS
    <2>1. 2 \in 1 .. Len(u) /\ u[2] = Wallet
      BY <1>3, <2>0, <2>a, Zenon
    <2>2. IsList(u)
      BY <1>8 DEF BeginsWith
    <2>3. u[2] \in Range(u)
      BY <2>1, <2>2, InRange, Zenon
    <2> QED BY <2>1, <2>3, Zenon
  <1>12. /\ 4 \in 1 .. Len(u) /\ 6 \in 1 .. Len(u)
         /\ u[4] = Ata(IF e.aToB THEN e.in ELSE e.out) /\ u[6] = Ata(IF e.aToB THEN e.out ELSE e.in)
    BY <1>3, <1>8 DEF BeginsWith
  <1>13. AccountsFit(ix, e)
    BY <1>2, <1>8, <1>9, <1>10, <1>11, <1>12 DEF AccountsFit, Direct, BeginsWith
  <1> QED
    BY <1>1, <1>13

LEMMA infinity_data ==
    ASSUME NEW e \in Edges, NEW in, NEW out, NEW bps
    PROVE  DataFits(infinity_ix(e, in, out, bps), e, in)
  <1>1. PICK ix : ix = infinity_ix(e, in, out, bps)
    OBVIOUS
  <1>2. /\ Len(ix.data) = 5 /\ ix.program_id[2] = "infinity" /\ ix.in_amount_offset = 6
        /\ ix.data[1].width = 1 /\ ix.data[2].width = 1 /\ ix.data[3].width = 4
           /\ ix.data[4].width = 8
        /\ ix.data[4].value = in
    BY <1>1 DEF infinity_ix, SwapInstruction, Field, Amount, MinOut
  <1>3. IsData(ix.data) /\ IsFields(ix.data)
    <2>1. PICK c, m : c = Len(e.more) /\ m = HopMinOut(out, bps)
      OBVIOUS
    <2>2. ix.data = <<Field("discriminator", 1, 3), Field("calculator_accounts", 1, c),
                      Field("lst_index", 4, 0), Amount(in), MinOut(m)>>
      BY <1>1, <2>1 DEF infinity_ix, SwapInstruction
    <2> QED BY ONLY <2>2 DEF Field, Amount, MinOut, IsData, IsFields
  <1>4. OffsetOf(ix.data, 1) = 0 /\ OffsetOf(ix.data, 2) = 1 /\ OffsetOf(ix.data, 3) = 2
        /\ OffsetOf(ix.data, 4) = 6
    <2>1. PICK d : d = ix.data
      OBVIOUS
    <2>2. \A k \in 1 .. Len(d) : /\ k = 1 => OffsetOf(d, k) = 0
                                /\ k # 1 => OffsetOf(d, k) = OffsetOf(d, k - 1) + d[k - 1].width
      BY <1>3, <2>1, OffsetSteps
    <2>0. 1 \in 1 .. Len(d) /\ 2 \in 1 .. Len(d) /\ 3 \in 1 .. Len(d) /\ 4 \in 1 .. Len(d)
      BY ONLY <1>2, <2>1
    <2>3. OffsetOf(d, 1) = 0
      BY <1>3, <2>0, <2>1, OffsetFirst
    <2>4. OffsetOf(d, 2) = 1
      BY <1>2, <2>0, <2>1, <2>3, <2>2
    <2>5. OffsetOf(d, 3) = 2
      BY <1>2, <2>0, <2>1, <2>4, <2>2
    <2>6. OffsetOf(d, 4) = 6
      BY <1>2, <2>0, <2>1, <2>5, <2>2
    <2> QED BY <2>1, <2>3, <2>4, <2>5, <2>6
  <1>5. FaceOf(ix).amount = 6 /\ FaceOf(ix).flag = Absent
    BY <1>2 DEF FaceOf, Interface
  <1>6. DataFits(ix, e, in)
    BY <1>2, <1>3, <1>4, <1>5 DEF DataFits
  <1> QED
    BY <1>1, <1>6

LEMMA infinity_accounts ==
    ASSUME NEW e \in Edges, NEW in, NEW out, NEW bps
    PROVE  AccountsFit(infinity_ix(e, in, out, bps), e)
  <1> DEFINE p == <<Wallet, <<"mint", e.in>>, Ata(e.in), Ata(e.out), <<"mint", e.out>>,
                    Pool(e, "protocol_fee"), TokenProgram, Pool(e, "pool_state"),
                    Pool(e, "lst_state_list"), Pool(e, "reserves"), Pool(e, "pricing")>>
             q == [i \in DOMAIN e.more |-> Pool(e, e.more[i])]
  <1>1. PICK ix : ix = infinity_ix(e, in, out, bps)
    OBVIOUS
  <1>2. ix.accounts = p \o q /\ ix.program_id[2] = "infinity" /\ ix.out_pubkey = Ata(e.out)
    BY <1>1 DEF infinity_ix, SwapInstruction
  <1>3. /\ Len(p) = 11 /\ p[1] = Wallet
        /\ p[3] = Ata(e.in) /\ p[4] = Ata(e.out)
    BY DEF TokenA, TokenB
  <1>4. IsList(p)
    <2> DEFINE S == {p[i] : i \in 1 .. 11}
    <2>1. p \in Seq(S)
      OBVIOUS
    <2> QED BY <2>1 DEF IsList
  <1>5. IsList(q)
    BY PoolsAreList
  <1> HIDE DEF p, q
  <1>8. PICK u : u = p \o q /\ BeginsWith(u, p, 11)
    <2>1. 11 \in Nat /\ 11 <= Len(p)
      BY <1>3
    <2> QED BY <1>4, <1>5, <2>1, PrefixOf, Zenon
  <1>9. ix.accounts = u
    BY <1>2, <1>8
  <1>10. FaceOf(ix).a = 3 /\ FaceOf(ix).b = 4 /\ FaceOf(ix).flag = Absent
         /\ "infinity" \in DOMAIN Interface
    BY <1>2 DEF FaceOf, Interface, Absent
  <1>11. Wallet \in Range(u)
    <2>0. \A j \in 1 .. 11 : j \in 1 .. Len(u) /\ u[j] = p[j]
      BY <1>8 DEF BeginsWith
    <2>a. 1 \in 1 .. 11
      OBVIOUS
    <2>1. 1 \in 1 .. Len(u) /\ u[1] = Wallet
      BY <1>3, <2>0, <2>a, Zenon
    <2>2. IsList(u)
      BY <1>8 DEF BeginsWith
    <2>3. u[1] \in Range(u)
      BY <2>1, <2>2, InRange, Zenon
    <2> QED BY <2>1, <2>3, Zenon
  <1>12. /\ 3 \in 1 .. Len(u) /\ 4 \in 1 .. Len(u)
         /\ u[3] = Ata(e.in) /\ u[4] = Ata(e.out)
    BY <1>3, <1>8 DEF BeginsWith
  <1>13. AccountsFit(ix, e)
    BY <1>2, <1>8, <1>9, <1>10, <1>11, <1>12 DEF AccountsFit, Direct, BeginsWith
  <1> QED
    BY <1>1, <1>13

(* After the builders. *)
(* Every dex builds what its program expects. *)
LEMMA BuilderFits ==
    ASSUME NEW e \in Edges, NEW in, NEW out, NEW bps, NEW ix, ix = build_swap_ix(e, in, out, bps)
    PROVE  DataFits(ix, e, in) /\ AccountsFit(ix, e)
  <1>0. e.dex \in Dexs
    BY DEF Edges
  <1>1. CASE e.dex = "raydium"
    <2>1. ix = raydium_ix(e, in, out, bps)
      BY <1>1 DEF build_swap_ix
    <2> QED BY <2>1, raydium_data, raydium_accounts
  <1>2. CASE e.dex = "raydium_cp"
    <2>1. ix = raydium_cp_ix(e, in, out, bps)
      BY <1>2 DEF build_swap_ix
    <2> QED BY <2>1, raydium_cp_data, raydium_cp_accounts
  <1>3. CASE e.dex = "saber"
    <2>1. ix = saber_ix(e, in, out, bps)
      BY <1>3 DEF build_swap_ix
    <2> QED BY <2>1, saber_data, saber_accounts
  <1>4. CASE e.dex = "openbook_v2"
    <2>1. ix = openbook_v2_ix(e, in, out, bps)
      BY <1>4 DEF build_swap_ix
    <2> QED BY <2>1, openbook_v2_data, openbook_v2_accounts
  <1>5. CASE e.dex = "invariant"
    <2>1. ix = invariant_ix(e, in, out, bps)
      BY <1>5 DEF build_swap_ix
    <2> QED BY <2>1, invariant_data, invariant_accounts
  <1>6. CASE e.dex = "orca"
    <2>1. ix = orca_ix(e, in, out, bps)
      BY <1>6 DEF build_swap_ix
    <2> QED BY <2>1, orca_data, orca_accounts
  <1>7. CASE e.dex = "infinity"
    <2>1. ix = infinity_ix(e, in, out, bps)
      BY <1>7 DEF build_swap_ix
    <2> QED BY <2>1, infinity_data, infinity_accounts
  <1> QED
    BY <1>0, <1>1, <1>2, <1>3, <1>4, <1>5, <1>6, <1>7 DEF Dexs

(* What the program finds in the data of a hop: the amount built, or the one *)
(* the executor wrote over it, and the direction of the edge.                *)
LEMMA Decode ==
    ASSUME NEW e \in Edges, NEW ix, NEW built, DataFits(ix, e, built), NEW n, NEW d, NEW m,
           \/ d = ix.data /\ m = built
           \/ d = Overwritten(ix.data, ix.in_amount_offset, n) /\ m = n
    PROVE  /\ ReadAt(d, FaceOf(ix).amount, 8) = m
           /\ SellsA(ix.program_id[2], d) <=> Direct(ix, e)
  <1>0. PICK data, f, prog : data = ix.data /\ f = FaceOf(ix) /\ prog = ix.program_id[2]
    OBVIOUS
  <1>1. PICK k \in 1 .. Len(data) :
           /\ OffsetOf(data, k) = f.amount /\ data[k].width = 8
           /\ data[k].value = built
           /\ f.flag # Absent =>
                \E j \in 1 .. Len(data) :
                   /\ j # k /\ OffsetOf(data, j) = f.flag /\ data[j].width = 1
                   /\ data[j].value = IF e.aToB = (prog # "executor") THEN 1 ELSE 0
    BY <1>0 DEF DataFits
  <1>2. IsData(data) /\ IsFields(data) /\ ix.in_amount_offset = OffsetOf(data, k)
    BY <1>0, <1>1 DEF DataFits
  <1>3. /\ ReadAt(d, OffsetOf(data, k), 8) = m
        /\ \A j \in 1 .. Len(data) : j # k => ReadAt(d, OffsetOf(data, j), data[j].width) = data[j].value
    <2>1. CASE d = ix.data /\ m = built
      <3>1. \A j \in 1 .. Len(data) : ReadAt(data, OffsetOf(data, j), data[j].width) = data[j].value
        BY <1>2, ReadField
      <3> QED BY <1>0, <1>1, <2>1, <3>1
    <2>2. CASE d = Overwritten(ix.data, ix.in_amount_offset, n) /\ m = n
      <3>1. d = Overwritten(data, OffsetOf(data, k), n)
        BY <1>0, <1>2, <2>2
      <3> QED BY <1>1, <1>2, <2>2, <3>1, ReadOverwritten
    <2> QED BY <2>1, <2>2
  <1>4. SellsA(prog, d) <=> (f.flag = Absent \/ e.aToB)
    <2>1. CASE f.flag = Absent
      BY <2>1, <1>0 DEF SellsA, FaceOf
    <2>2. CASE f.flag # Absent
      <3>1. PICK j \in 1 .. Len(data) :
                   /\ j # k /\ OffsetOf(data, j) = f.flag /\ data[j].width = 1
                   /\ data[j].value = IF e.aToB = (prog # "executor") THEN 1 ELSE 0
        BY <1>1, <2>2
      <3>2. ReadAt(d, f.flag, 1) = IF e.aToB = (prog # "executor") THEN 1 ELSE 0
        BY <1>3, <3>1
      <3>3. e.aToB \in BOOLEAN
        BY DEF Edges
      <3>4. SellsA(prog, d) <=> (ReadAt(d, f.flag, 1) = (IF prog = "executor" THEN 0 ELSE 1))
        BY <2>2, <1>0 DEF SellsA, FaceOf
      <3>5. CASE prog = "executor"
        <4>1. CASE e.aToB
          <5>1. ReadAt(d, f.flag, 1) = 0
            BY <3>2, <3>5, <4>1
          <5> QED BY <5>1, <3>4, <3>5, <4>1
        <4>2. CASE ~e.aToB
          <5>1. ReadAt(d, f.flag, 1) = 1
            BY <3>2, <3>5, <4>2, <3>3
          <5>2. ~(ReadAt(d, f.flag, 1) = 0)
            BY <5>1
          <5> QED BY <5>2, <3>4, <3>5, <4>2, <2>2
        <4> QED BY <4>1, <4>2
      <3>6. CASE prog # "executor"
        <4>1. CASE e.aToB
          <5>1. ReadAt(d, f.flag, 1) = 1
            BY <3>2, <3>6, <4>1, <3>3
          <5> QED BY <5>1, <3>4, <3>6, <4>1
        <4>2. CASE ~e.aToB
          <5>1. ReadAt(d, f.flag, 1) = 0
            BY <3>2, <3>6, <4>2
          <5>2. ~(ReadAt(d, f.flag, 1) = 1)
            BY <5>1
          <5> QED BY <5>2, <3>4, <3>6, <4>2, <2>2
        <4> QED BY <4>1, <4>2
      <3> QED BY <3>5, <3>6
    <2> QED BY <2>1, <2>2
  <1> QED
    BY <1>0, <1>1, <1>3, <1>4 DEF Direct
-----------------------------------------------------------------------------
(* The swap instruction the router packs, as the executor unpacks it.       *)

HopsOf(r) == Len(r.route.steps)
EdgeAt(r, i) == r.route.steps[i].edge
BuiltAmount(r, i) == IF r.mode = "ExactIn" THEN r.route.steps[i].in_amount ELSE r.other_amount

IxAt(r, i) == build_ix(r.route.steps[i], 2 * r.bps, r.mode, r.other_amount)
PartAt(r, i) == <<IxAt(r, i).out_pubkey, IxAt(r, i).program_id>> \o IxAt(r, i).accounts
PartsOf(r) == [i \in 1 .. HopsOf(r) |-> PartAt(r, i)]
Built(r) == build_ixs(r.route, r.wrap, r.create, r.bps, r.other_amount, r.mode)

(* What the search guarantees of the route of a request. *)
LEMMA RouteOf ==
    ASSUME NEW r \in Requests
    PROVE  /\ HopsOf(r) \in Nat \ {0} /\ DOMAIN r.route.steps = 1 .. HopsOf(r)
           /\ \A i \in 1 .. HopsOf(r) : EdgeAt(r, i) \in Edges /\ BuiltAmount(r, i) \in Nat
           /\ r.route.input_mint = EdgeAt(r, 1).in
           /\ \A i \in 2 .. HopsOf(r) : EdgeAt(r, i).in = EdgeAt(r, i - 1).out
           /\ \A i \in 1 .. HopsOf(r) : EdgeAt(r, i).out # r.route.input_mint
           /\ \A i \in 1 .. HopsOf(r) : \A j \in 1 .. i - 1 : EdgeAt(r, i).out # EdgeAt(r, j).out
           /\ r.route.in_amount = r.route.steps[1].in_amount
           /\ r.route.in_amount \in Nat /\ r.route.out_amount \in Nat
           /\ r.mode \in {"ExactIn", "ExactOut"} /\ r.wrap \in BOOLEAN /\ r.create \in BOOLEAN
           /\ r.other_amount \in Nat
  <1>1. /\ IsRoute(r.route)
        /\ r.mode \in {"ExactIn", "ExactOut"} /\ {r.wrap, r.create} \subseteq BOOLEAN
        /\ {r.bps, r.other_amount} \subseteq Nat
    BY ExecutorAssumption
  <1>2. /\ r.route.steps = [i \in 1 .. HopsOf(r) |-> r.route.steps[i]] /\ HopsOf(r) \in Nat \ {0}
        /\ \A i \in 1 .. HopsOf(r) : IsStep(r.route.steps[i])
        /\ r.route.input_mint = r.route.steps[1].edge.in
        /\ r.route.in_amount = r.route.steps[1].in_amount /\ r.route.out_amount \in Nat
        /\ \A i \in 2 .. HopsOf(r) : EdgeAt(r, i).in = EdgeAt(r, i - 1).out
        /\ \A i \in 1 .. HopsOf(r) : EdgeAt(r, i).out # r.route.input_mint
        /\ \A i \in 1 .. HopsOf(r) : \A j \in 1 .. i - 1 : EdgeAt(r, i).out # EdgeAt(r, j).out
    BY <1>1 DEF IsRoute, HopsOf, EdgeAt
  <1>3. DOMAIN r.route.steps = 1 .. HopsOf(r)
    <2>1. PICK s, n : s = r.route.steps /\ n = HopsOf(r)
      OBVIOUS
    <2>2. s = [i \in 1 .. n |-> s[i]]
      BY <1>2, <2>1
    <2>3. DOMAIN s = 1 .. n
      BY <2>2
    <2> QED BY <2>1, <2>3
  <1>4. \A i \in 1 .. HopsOf(r) :
           /\ EdgeAt(r, i) \in Edges
           /\ r.route.steps[i].in_amount \in Nat
    BY <1>2 DEF IsStep, EdgeAt, Edges
  <1>5. \A i \in 1 .. HopsOf(r) : BuiltAmount(r, i) \in Nat
    BY <1>1, <1>4 DEF BuiltAmount
  <1>6. r.route.in_amount \in Nat
    BY <1>2, <1>4
  <1>7. r.route.input_mint = EdgeAt(r, 1).in
    BY <1>2 DEF EdgeAt
  <1> QED
    BY <1>1, <1>2, <1>3, <1>4, <1>5, <1>6, <1>7

(* The shape of the transaction. *)
LEMMA BuiltShape ==
    ASSUME NEW r \in Requests
    PROVE  /\ Built(r).setup = SetupOf(r.route, r.wrap, r.create, r.mode, r.other_amount)
           /\ Built(r).cleanup = CleanupOf(r.route, r.wrap)
           /\ Built(r).swap.accounts = <<Ata(r.route.input_mint)>> \o FlattenSeq(PartsOf(r))
           /\ Built(r).swap.min_out_amount = IF r.mode = "ExactIn" THEN r.other_amount
                                             ELSE r.route.out_amount
           /\ Len(Built(r).swap.hops) = HopsOf(r)
           /\ \A i \in 1 .. HopsOf(r) :
                 Built(r).swap.hops[i] = [in_amount_offset |-> IxAt(r, i).in_amount_offset,
                                          data |-> IxAt(r, i).data,
                                          ix_account_count |-> 2 + Len(IxAt(r, i).accounts)]
  <1>0. HopsOf(r) \in Nat /\ DOMAIN r.route.steps = 1 .. HopsOf(r)
    BY RouteOf
  <1> DEFINE ixs == [i \in 1 .. HopsOf(r) |-> IxAt(r, i)]
             gen == generate_swap_ix_data(
                       IF r.mode = "ExactIn" THEN r.other_amount ELSE r.route.out_amount,
                       ixs, Ata(r.route.input_mint))
  <1>1. Built(r) = [setup |-> SetupOf(r.route, r.wrap, r.create, r.mode, r.other_amount),
                    swap |-> gen, cleanup |-> CleanupOf(r.route, r.wrap),
                    cu_estimate |-> CuEstimate(r.route, ixs, r.wrap, r.create)]
    BY <1>0, Zenon DEF Built, build_ixs, IxAt
  <1>2. DOMAIN ixs = 1 .. HopsOf(r) /\ \A i \in 1 .. HopsOf(r) : ixs[i] = IxAt(r, i)
    OBVIOUS
  <1>3. gen = [accounts |-> <<Ata(r.route.input_mint)>> \o FlattenSeq([i \in 1 .. HopsOf(r) |->
                     <<ixs[i].out_pubkey, ixs[i].program_id>> \o ixs[i].accounts]),
               min_out_amount |-> IF r.mode = "ExactIn" THEN r.other_amount ELSE r.route.out_amount,
               hops |-> [i \in 1 .. HopsOf(r) |->
                 [in_amount_offset |-> ixs[i].in_amount_offset, data |-> ixs[i].data,
                  ix_account_count |-> 2 + Len(ixs[i].accounts)]]]
    BY <1>2, Zenon DEF generate_swap_ix_data
  <1>4. [i \in 1 .. HopsOf(r) |-> <<ixs[i].out_pubkey, ixs[i].program_id>> \o ixs[i].accounts]
           = PartsOf(r)
    BY <1>2, Zenon DEF PartsOf, PartAt
  <1> HIDE DEF ixs, gen
  <1>5. /\ gen.accounts = <<Ata(r.route.input_mint)>> \o FlattenSeq(PartsOf(r))
        /\ gen.min_out_amount = IF r.mode = "ExactIn" THEN r.other_amount ELSE r.route.out_amount
    BY <1>3, <1>4
  <1>6. PICK h : h = gen.hops
    OBVIOUS
  <1>7. h = [i \in 1 .. HopsOf(r) |->
                 [in_amount_offset |-> ixs[i].in_amount_offset, data |-> ixs[i].data,
                  ix_account_count |-> 2 + Len(ixs[i].accounts)]]
    BY <1>3, <1>6
  <1>8. Len(h) = HopsOf(r)
    BY <1>0, <1>7
  <1>9. \A i \in 1 .. HopsOf(r) : h[i] = [in_amount_offset |-> IxAt(r, i).in_amount_offset,
                                          data |-> IxAt(r, i).data,
                                          ix_account_count |-> 2 + Len(IxAt(r, i).accounts)]
    BY <1>2, <1>7
  <1> QED
    BY <1>1, <1>5, <1>6, <1>8, <1>9
(* A hop's part of the account list: its output account, its program and the *)
(* accounts of its instruction.                                             *)
LEMMA PartIs ==
    ASSUME NEW r \in Requests, NEW i \in 1 .. HopsOf(r)
    PROVE  /\ IsList(PartAt(r, i))
           /\ Len(IxAt(r, i).accounts) \in Nat
           /\ Len(PartAt(r, i)) = 2 + Len(IxAt(r, i).accounts)
           /\ PartAt(r, i)[1] = IxAt(r, i).out_pubkey
           /\ PartAt(r, i)[2] = IxAt(r, i).program_id
           /\ \A k \in 1 .. Len(IxAt(r, i).accounts) : PartAt(r, i)[2 + k] = IxAt(r, i).accounts[k]
  <1>1. IxAt(r, i) = build_swap_ix(EdgeAt(r, i), BuiltAmount(r, i), r.route.steps[i].out_amount, 2 * r.bps)
    BY DEF IxAt, build_ix, EdgeAt, BuiltAmount
  <1>2. EdgeAt(r, i) \in Edges
    BY RouteOf
  <1>3. AccountsFit(IxAt(r, i), EdgeAt(r, i))
    BY <1>1, <1>2, BuilderFits, Zenon
  <1>4. PICK p, q : p = <<IxAt(r, i).out_pubkey, IxAt(r, i).program_id>> /\ q = IxAt(r, i).accounts
    OBVIOUS
  <1>5. IsList(q)
    BY <1>3, <1>4 DEF AccountsFit
  <1>6. Len(p) = 2 /\ p[1] = IxAt(r, i).out_pubkey /\ p[2] = IxAt(r, i).program_id
    BY <1>4
  <1>7. IsList(p)
    <2>1. p \in Seq({IxAt(r, i).out_pubkey, IxAt(r, i).program_id})
      BY <1>4
    <2> QED BY <2>1 DEF IsList
  <1>8. PICK u : u = p \o q /\ IsList(u) /\ IsConcat(u, p, q)
    BY <1>5, <1>7, ListConcat
  <1>9. Len(p) \in Nat /\ Len(q) \in Nat
    BY <1>5, <1>7 DEF IsList
  <1>10. /\ Len(u) = Len(p) + Len(q)
         /\ \A j \in 1 .. Len(p) : u[j] = p[j]
         /\ \A j \in 1 .. Len(q) : u[Len(p) + j] = q[j]
    BY <1>8, <1>9, ConcatAt
  <1>11. u[1] = p[1] /\ u[2] = p[2]
    BY <1>6, <1>10
  <1>12. Len(u) = 2 + Len(q) /\ \A j \in 1 .. Len(q) : u[2 + j] = q[j]
    BY <1>6, <1>10
  <1>13. PartAt(r, i) = u
    BY <1>4, <1>8 DEF PartAt
  <1> QED
    BY <1>4, <1>6, <1>8, <1>9, <1>11, <1>12, <1>13

(* All parts are lists over one set. *)
LEMMA PartsAreLists ==
    ASSUME NEW r \in Requests
    PROVE  \E S : PartsOf(r) \in Seq(Seq(S))
  <1> DEFINE S == UNION {{PartAt(r, i)[k] : k \in 1 .. Len(PartAt(r, i))} : i \in 1 .. HopsOf(r)}
  <1>0. HopsOf(r) \in Nat
    BY RouteOf
  <1>1. ASSUME NEW i \in 1 .. HopsOf(r) PROVE PartAt(r, i) \in Seq(S)
    <2>1. PICK p : p = PartAt(r, i)
      OBVIOUS
    <2>2. PICK T : p \in Seq(T)
      BY <2>1, PartIs DEF IsList
    <2>3. \A k \in 1 .. Len(p) : p[k] \in S
      BY <2>1
    <2> HIDE DEF S
    <2>4. Len(p) \in Nat /\ p = [k \in 1 .. Len(p) |-> p[k]]
      BY <2>2
    <2>5. p \in Seq(S)
      BY <2>3, <2>4
    <2> QED BY <2>1, <2>5
  <1> HIDE DEF S
  <1>2. PartsOf(r) \in Seq(Seq(S))
    BY <1>0, <1>1 DEF PartsOf
  <1> QED
    BY <1>2

(* What the executor is given: the account list, without its first entry for *)
(* execute_swap_v2.                                                         *)
Given(r, v) == IF v = "v3" THEN Built(r).swap.accounts ELSE Tail(Built(r).swap.accounts)
Skipped(v) == IF v = "v3" THEN 1 ELSE 0
IndexAt(r, v, i) == Skipped(v) + StartOf(PartsOf(r), i)

(* Where the accounts of hop i are. *)
HopIsAt(r, v, i) ==
    /\ IndexAt(r, v, i) \in Nat
    /\ IndexAt(r, v, i) + Len(PartAt(r, i)) <= Len(Given(r, v))
    /\ \A k \in 1 .. Len(PartAt(r, i)) : Given(r, v)[IndexAt(r, v, i) + k] = PartAt(r, i)[k]

LEMMA HopsAreAt ==
    ASSUME NEW r \in Requests, NEW v \in {"v2", "v3"}
    PROVE  /\ IndexAt(r, v, 1) = Skipped(v)
           /\ \A i \in 1 .. HopsOf(r) : /\ HopIsAt(r, v, i)
                                        /\ IndexAt(r, v, i + 1) = IndexAt(r, v, i) + Len(PartAt(r, i))
           /\ IsList(Given(r, v))
  <1>0. HopsOf(r) \in Nat
    BY RouteOf
  <1>1. PICK S : PartsOf(r) \in Seq(Seq(S))
    BY PartsAreLists
  <1>2. PICK ss : ss = PartsOf(r)
    OBVIOUS
  <1>3. Len(ss) = HopsOf(r) /\ \A i \in 1 .. HopsOf(r) : ss[i] = PartAt(r, i)
    BY <1>0, <1>2 DEF PartsOf
  <1>4. PICK f : f = FlattenSeq(ss)
    OBVIOUS
  <1>5. /\ f \in Seq(S) /\ HoldsParts(f, ss, HopsOf(r)) /\ StartOf(ss, 1) = 0
        /\ \A i \in 1 .. HopsOf(r) : StartOf(ss, i + 1) = StartOf(ss, i) + Len(ss[i])
    BY <1>1, <1>2, <1>3, <1>4, FlattenHoldsParts
  <1>6. PICK a : a = <<Ata(r.route.input_mint)>>
    OBVIOUS
  <1>7. IsList(a) /\ Len(a) = 1
    <2>1. a \in Seq({Ata(r.route.input_mint)})
      BY <1>6
    <2> QED BY <1>6, <2>1 DEF IsList
  <1>8. IsList(f)
    BY <1>5 DEF IsList
  <1>9. PICK u : u = a \o f /\ IsList(u) /\ IsConcat(u, a, f)
    BY <1>7, <1>8, ListConcat
  <1>10. Len(f) \in Nat
    BY <1>5
  <1>11. Len(u) = 1 + Len(f) /\ \A j \in 1 .. Len(f) : u[1 + j] = f[j]
    <2>1. Len(a) \in Nat
      BY <1>7
    <2>2. Len(u) = Len(a) + Len(f) /\ \A j \in 1 .. Len(f) : u[Len(a) + j] = f[j]
      BY <1>9, <1>10, <2>1, ConcatAt
    <2> QED BY <1>7, <2>2
  <1>12. Built(r).swap.accounts = u
    BY <1>2, <1>4, <1>6, <1>9, BuiltShape
  <1>13. PICK g, s : g = Given(r, v) /\ s = Skipped(v)
    OBVIOUS
  <1>14. s \in Nat /\ Len(g) = s + Len(f) /\ \A j \in 1 .. Len(f) : g[s + j] = f[j]
    <2>1. CASE v = "v3"
      BY <2>1, <1>11, <1>12, <1>13 DEF Given, Skipped
    <2>2. CASE v = "v2"
      <3>1. g = Tail(u) /\ s = 0
        BY <2>2, <1>12, <1>13 DEF Given, Skipped
      <3>2. PICK T : u \in Seq(T)
        BY <1>9 DEF IsList
      <3>3. u # <<>>
        BY <1>10, <1>11
      <3>4. Len(g) = Len(u) - 1 /\ \A j \in 1 .. Len(u) - 1 : g[j] = u[j + 1]
        BY <3>1, <3>2, <3>3, HeadTailProperties
      <3>5. Len(g) = Len(f)
        BY <3>4, <1>10, <1>11
      <3>6. ASSUME NEW j \in 1 .. Len(f) PROVE g[0 + j] = f[j]
        <4>1. j \in 1 .. Len(u) - 1 /\ 0 + j = j /\ j + 1 = 1 + j
          BY <1>10, <1>11
        <4>2. g[j] = u[j + 1] /\ u[1 + j] = f[j]
          BY <4>1, <3>4, <1>11
        <4> QED BY <4>1, <4>2
      <3> QED BY <3>1, <3>5, <3>6, <1>10
    <2> QED BY <2>1, <2>2
  <1>15. \A i : IndexAt(r, v, i) = s + StartOf(ss, i)
    BY <1>2, <1>13 DEF IndexAt
  <1>16. IndexAt(r, v, 1) = Skipped(v)
    BY <1>5, <1>13, <1>14, <1>15
  <1>17. ASSUME NEW i \in 1 .. HopsOf(r)
         PROVE  HopIsAt(r, v, i) /\ IndexAt(r, v, i + 1) = IndexAt(r, v, i) + Len(PartAt(r, i))
    <2>1. PICK p, b, c : p = PartAt(r, i) /\ b = StartOf(ss, i) /\ c = Len(PartAt(r, i))
      OBVIOUS
    <2>2. b \in Nat /\ b + c <= Len(f) /\ \A k \in 1 .. c : f[b + k] = p[k]
      <3>1. ss[i] = p
        BY <1>3, <2>1
      <3>2. /\ StartOf(ss, i) \in Nat
            /\ StartOf(ss, i) + Len(ss[i]) <= Len(f)
            /\ \A k \in 1 .. Len(ss[i]) : f[StartOf(ss, i) + k] = ss[i][k]
        BY <1>5, Zenon DEF HoldsParts
      <3> QED BY <2>1, <3>1, <3>2, Zenon
    <2>3. c \in Nat
      BY <2>1, PartIs
    <2>4. IndexAt(r, v, i) = s + b /\ IndexAt(r, v, i + 1) = s + (b + c)
      <3>1. StartOf(ss, i + 1) = b + c
        BY <1>3, <1>5, <2>1
      <3> QED BY <3>1, <1>15, <2>1
    <2>5. s + b + c <= Len(g)
      BY <1>10, <1>14, <2>2, <2>3
    <2>6. ASSUME NEW k \in 1 .. c PROVE g[(s + b) + k] = p[k]
      <3>1. PICK j : j = b + k
        OBVIOUS
      <3>2. j \in 1 .. Len(f) /\ (s + b) + k = s + j
        BY <1>10, <1>14, <2>2, <2>3, <3>1
      <3>3. g[s + j] = f[j] /\ f[b + k] = p[k]
        BY <1>14, <2>2, <3>2
      <3> QED BY <3>1, <3>2, <3>3
    <2>7. s + b \in Nat /\ s + (b + c) = (s + b) + c
      BY <1>14, <2>2, <2>3
    <2> QED BY <1>13, <2>1, <2>4, <2>5, <2>6, <2>7 DEF HopIsAt
  <1>18. IsList(g)
    <2>1. CASE v = "v3"
      BY <2>1, <1>9, <1>12, <1>13 DEF Given
    <2>2. CASE v = "v2"
      <3>1. g = Tail(u)
        BY <2>2, <1>12, <1>13 DEF Given
      <3>2. PICK T : u \in Seq(T)
        BY <1>9 DEF IsList
      <3>3. u # <<>>
        BY <1>10, <1>11
      <3>4. g \in Seq(T)
        BY <3>1, <3>2, <3>3, HeadTailProperties
      <3> QED BY <3>4 DEF IsList
    <2> QED BY <2>1, <2>2
  <1> QED
    BY <1>13, <1>16, <1>17, <1>18
(* Lists with the same elements are equal. *)
LEMMA ListEqual ==
    ASSUME NEW p, NEW q, IsList(p), IsList(q), Len(p) = Len(q), \A k \in 1 .. Len(p) : p[k] = q[k]
    PROVE  p = q
  <1>1. p = [k \in 1 .. Len(p) |-> p[k]] /\ q = [k \in 1 .. Len(q) |-> q[k]]
    BY DEF IsList
  <1> QED BY <1>1

IsPiece(t, s, x, c) == IsList(t) /\ Len(t) = c /\ \A k \in 1 .. c : t[k] = s[x + k]

LEMMA SubList ==
    ASSUME NEW s, IsList(s), NEW x \in Nat, NEW c \in Nat, x + c <= Len(s)
    PROVE  IsPiece(SubSeq(s, x + 1, x + c), s, x, c)
  <1>0. PICK t : t = SubSeq(s, x + 1, x + c)
    OBVIOUS
  <1>1. PICK S : s \in Seq(S)
    BY DEF IsList
  <1>2. PICK m, n : m = x + 1 /\ n = x + c
    OBVIOUS
  <1>3. m \in Int /\ n \in Int /\ m <= n + 1 /\ \A i \in m .. n : s[i] \in S
    BY <1>1, <1>2
  <1>4. /\ SubSeq(s, m, n) \in Seq(S) /\ Len(SubSeq(s, m, n)) = n - m + 1
        /\ \A k \in 1 .. n - m + 1 : SubSeq(s, m, n)[k] = s[m + k - 1]
    BY <1>1, <1>3, SubSeqProperties
  <1>5. t = SubSeq(s, m, n) /\ n - m + 1 = c /\ \A k \in 1 .. c : m + k - 1 = x + k
    BY <1>0, <1>2
  <1>6. IsPiece(t, s, x, c)
    BY <1>4, <1>5 DEF IsList, IsPiece
  <1> QED BY <1>0, <1>6

(* The executor cuts the accounts of a hop out of what it is given. *)
LEMMA HopUnpacked ==
    ASSUME NEW r \in Requests, NEW v \in {"v2", "v3"}, NEW i \in 1 .. HopsOf(r),
           NEW x, x = IndexAt(r, v, i), NEW c, c = 2 + Len(IxAt(r, i).accounts)
    PROVE  /\ c \in Nat /\ c >= 2 /\ x + c <= Len(Given(r, v)) /\ Len(PartAt(r, i)) = c
           /\ IndexAt(r, v, i + 1) = x + c
           /\ SubSeq(Given(r, v), x + 1, x + c) = PartAt(r, i)
           /\ SubSeq(PartAt(r, i), 3, Len(PartAt(r, i))) = IxAt(r, i).accounts
  <1>1. PICK p, q : p = PartAt(r, i) /\ q = IxAt(r, i).accounts
    OBVIOUS
  <1>2. /\ IsList(p) /\ Len(q) \in Nat /\ Len(p) = 2 + Len(q)
        /\ \A k \in 1 .. Len(q) : p[2 + k] = q[k]
    BY <1>1, PartIs
  <1>3. IsList(q)
    <2>1. IxAt(r, i) = build_swap_ix(EdgeAt(r, i), BuiltAmount(r, i), r.route.steps[i].out_amount, 2 * r.bps)
      BY DEF IxAt, build_ix, EdgeAt, BuiltAmount
    <2>2. EdgeAt(r, i) \in Edges
      BY RouteOf
    <2>3. AccountsFit(IxAt(r, i), EdgeAt(r, i))
      BY <2>1, <2>2, BuilderFits, Zenon
    <2> QED BY <1>1, <2>3 DEF AccountsFit
  <1>4. PICK g : g = Given(r, v)
    OBVIOUS
  <1>5. /\ IsList(g) /\ x \in Nat /\ x + Len(p) <= Len(g)
        /\ \A k \in 1 .. Len(p) : g[x + k] = p[k]
        /\ IndexAt(r, v, i + 1) = x + Len(p)
    <2>1. IsList(g) /\ HopIsAt(r, v, i)
          /\ IndexAt(r, v, i + 1) = IndexAt(r, v, i) + Len(PartAt(r, i))
      BY <1>4, HopsAreAt
    <2> QED BY <1>1, <1>4, <2>1 DEF HopIsAt
  <1>6. c \in Nat /\ c >= 2 /\ c = Len(p)
    BY <1>1, <1>2
  <1>7. PICK t : t = SubSeq(g, x + 1, x + c)
    OBVIOUS
  <1>8. IsList(t) /\ Len(t) = c /\ \A k \in 1 .. c : t[k] = g[x + k]
    <2>1. x + c <= Len(g)
      BY <1>5, <1>6
    <2>2. IsPiece(SubSeq(g, x + 1, x + c), g, x, c)
      BY <1>5, <1>6, <2>1, SubList
    <2> QED BY <1>7, <2>2 DEF IsPiece
  <1>9. t = p
    BY <1>2, <1>5, <1>6, <1>8, ListEqual
  <1>10. PICK w : w = SubSeq(p, 3, Len(p))
    OBVIOUS
  <1>11. IsList(w) /\ Len(w) = Len(q) /\ \A k \in 1 .. Len(q) : w[k] = p[2 + k]
    <2>1. w = SubSeq(p, 2 + 1, 2 + Len(q)) /\ 2 + Len(q) <= Len(p)
      BY <1>2, <1>10
    <2>2. 2 \in Nat
      OBVIOUS
    <2>3. IsPiece(SubSeq(p, 2 + 1, 2 + Len(q)), p, 2, Len(q))
      BY <1>2, <2>1, <2>2, SubList
    <2> QED BY <2>1, <2>3 DEF IsPiece
  <1>12. w = q
    BY <1>2, <1>3, <1>11, ListEqual
  <1> QED
    BY <1>1, <1>4, <1>5, <1>6, <1>7, <1>9, <1>10, <1>12
-----------------------------------------------------------------------------
(* What the instructions do to the ledger.                                  *)

Present(l, m) == l.ata[m] # Absent

(* l2 has the accounts of l, and of every mint as much. *)
SameWealth(l, l2) ==
    /\ IsLedger(l2)
    /\ \A m \in Mints : Owns(l2, m) = Owns(l, m)

Keeps(l, l2) == \A m \in Mints : Present(l, m) => Present(l2, m)

LEMMA OwnsInt ==
    ASSUME NEW l, IsLedger(l), NEW m \in Mints
    PROVE  Owns(l, m) \in Int
  BY DEF IsLedger, Owns, Absent

LEMMA Created ==
    ASSUME NEW l, IsLedger(l), NEW x \in Mints,
           NEW l2, l2 = [l EXCEPT !.ata[x] = IF @ = Absent THEN 0 ELSE @]
    PROVE  SameWealth(l, l2) /\ Keeps(l, l2) /\ Present(l2, x)
  <1>1. PICK n \in Nat, f \in [Mints -> Nat \cup {Absent}] : l = [native |-> n, ata |-> f]
    BY DEF IsLedger
  <1>2. PICK g : g = [f EXCEPT ![x] = IF f[x] = Absent THEN 0 ELSE f[x]]
    OBVIOUS
  <1>3. l2 = [native |-> n, ata |-> g]
    BY <1>1, <1>2
  <1>4. g \in [Mints -> Nat \cup {Absent}]
    BY <1>2
  <1>5. \A m \in Mints : g[m] = IF m = x /\ f[x] = Absent THEN 0 ELSE f[m]
    BY <1>2
  <1>6. l.ata = f /\ l2.ata = g /\ l.native = n /\ l2.native = n
    BY <1>1, <1>3
  <1>7. IsLedger(l2)
    BY <1>3, <1>4, <1>6 DEF IsLedger
  <1>8. Keeps(l, l2) /\ Present(l2, x)
    BY <1>5, <1>6 DEF Keeps, Present, Absent
  <1>9. \A m \in Mints : Owns(l2, m) = Owns(l, m)
    BY <1>5, <1>6 DEF Owns, Absent
  <1> QED
    BY <1>7, <1>8, <1>9 DEF SameWealth

LEMMA Wrapped ==
    ASSUME NEW l, IsLedger(l), NEW a \in Nat, a <= l.native, Present(l, SOL),
           NEW l2, l2 = [l EXCEPT !.native = @ - a, !.ata[SOL] = @ + a]
    PROVE  SameWealth(l, l2) /\ Keeps(l, l2)
  <1>0. SOL \in Mints
    BY ExecutorAssumption
  <1>1. PICK n \in Nat, f \in [Mints -> Nat \cup {Absent}] : l = [native |-> n, ata |-> f]
    BY DEF IsLedger
  <1>2. PICK g : g = [f EXCEPT ![SOL] = f[SOL] + a]
    OBVIOUS
  <1>3. l2 = [native |-> n - a, ata |-> g]
    BY <1>1, <1>2
  <1>6. l.ata = f /\ l2.ata = g /\ l.native = n /\ l2.native = n - a
    BY ONLY <1>1, <1>3
  <1>4. f[SOL] \in Nat /\ f[SOL] + a \in Nat /\ n - a \in Nat
    BY <1>0, <1>1, <1>6 DEF Present
  <1>a. g \in [Mints -> Nat \cup {Absent}]
    BY <1>2, <1>4
  <1>5. \A m \in Mints : g[m] = IF m = SOL THEN f[SOL] + a ELSE f[m]
    BY <1>2
  <1>7. IsLedger(l2)
    BY <1>3, <1>4, <1>6, <1>a DEF IsLedger
  <1>8. Keeps(l, l2)
    BY <1>4, <1>5, <1>6 DEF Keeps, Present, Absent
  <1>9. ASSUME NEW m \in Mints PROVE Owns(l2, m) = Owns(l, m)
    <2>1. CASE m = SOL
      <3>1. g[SOL] = f[SOL] + a /\ f[SOL] # Absent /\ g[SOL] # Absent
        BY <1>0, <1>4, <1>5 DEF Absent
      <3> QED BY <2>1, <3>1, <1>4, <1>6 DEF Owns
    <2>2. CASE m # SOL
      BY <2>2, <1>5, <1>6 DEF Owns
    <2> QED BY <2>1, <2>2
  <1> QED
    BY <1>7, <1>8, <1>9 DEF SameWealth

LEMMA Closed ==
    ASSUME NEW l, IsLedger(l), Present(l, SOL),
           NEW l2, l2 = [l EXCEPT !.native = @ + l.ata[SOL], !.ata[SOL] = Absent]
    PROVE  SameWealth(l, l2) /\ ~Present(l2, SOL)
  <1>0. SOL \in Mints
    BY ExecutorAssumption
  <1>1. PICK n \in Nat, f \in [Mints -> Nat \cup {Absent}] : l = [native |-> n, ata |-> f]
    BY DEF IsLedger
  <1>2. PICK g : g = [f EXCEPT ![SOL] = Absent]
    OBVIOUS
  <1>3. l2 = [native |-> n + f[SOL], ata |-> g]
    BY <1>1, <1>2
  <1>6. l.ata = f /\ l2.ata = g /\ l.native = n /\ l2.native = n + f[SOL]
    BY ONLY <1>1, <1>3
  <1>4. f[SOL] \in Nat
    BY <1>0, <1>1, <1>6 DEF Present
  <1>a. g \in [Mints -> Nat \cup {Absent}]
    BY <1>2
  <1>5. g[SOL] = Absent /\ \A m \in Mints : m # SOL => g[m] = f[m]
    BY <1>0, <1>2
  <1>7. IsLedger(l2)
    <2>1. l2.native \in Nat /\ l2 = [native |-> l2.native, ata |-> l2.ata]
      BY ONLY <1>3, <1>4, <1>6, n \in Nat
    <2> QED BY <2>1, <1>6, <1>a DEF IsLedger
  <1>9. ASSUME NEW m \in Mints PROVE Owns(l2, m) = Owns(l, m)
    <2>1. CASE m = SOL
      <3>1. f[SOL] # Absent
        BY <1>4 DEF Absent
      <3> QED BY <2>1, <3>1, <1>4, <1>5, <1>6 DEF Owns
    <2>2. CASE m # SOL
      BY <2>2, <1>5, <1>6 DEF Owns
    <2> QED BY <2>1, <2>2
  <1> QED
    BY <1>5, <1>6, <1>7, <1>9 DEF SameWealth, Present

(* What a hop moves. *)
Traded(l, l2, a, b, taken, got) ==
    /\ IsLedger(l2) /\ Keeps(l, l2)
    /\ Owns(l2, a) = Owns(l, a) - taken /\ Owns(l2, b) = Owns(l, b) + got
    /\ \A m \in Mints \ {a, b} : Owns(l2, m) = Owns(l, m)
    /\ l2.ata[b] - l.ata[b] = got /\ l.ata[a] - l2.ata[a] = taken

LEMMA HopTrades ==
    ASSUME NEW l, IsLedger(l), NEW a \in Mints, NEW b \in Mints, a # b, Present(l, a), Present(l, b),
           NEW taken \in Nat, taken <= l.ata[a], NEW got \in Nat,
           NEW l2, l2 = [l EXCEPT !.ata[a] = @ - taken, !.ata[b] = @ + got]
    PROVE  Traded(l, l2, a, b, taken, got)
  <1>1. PICK n \in Nat, f \in [Mints -> Nat \cup {Absent}] : l = [native |-> n, ata |-> f]
    BY DEF IsLedger
  <1>2. PICK g : g = [f EXCEPT ![a] = f[a] - taken, ![b] = f[b] + got]
    OBVIOUS
  <1>3. l2 = [native |-> n, ata |-> g]
    BY <1>1, <1>2
  <1>6. l.ata = f /\ l2.ata = g /\ l.native = n /\ l2.native = n
    BY ONLY <1>1, <1>3
  <1>4. f[a] \in Nat /\ f[b] \in Nat /\ f[a] - taken \in Nat /\ f[b] + got \in Nat
    BY <1>1, <1>6 DEF Present
  <1>a. g \in [Mints -> Nat \cup {Absent}]
    BY <1>2, <1>4
  <1>5. /\ g[a] = f[a] - taken /\ g[b] = f[b] + got
        /\ \A m \in Mints : m # a /\ m # b => g[m] = f[m]
    BY <1>2
  <1>7. IsLedger(l2)
    BY <1>3, <1>6, <1>a DEF IsLedger
  <1>8. Keeps(l, l2)
    BY <1>4, <1>5, <1>6 DEF Keeps, Present, Absent
  <1>9. Owns(l2, a) = Owns(l, a) - taken
    <2>1. f[a] # Absent /\ g[a] # Absent
      BY <1>4, <1>5 DEF Absent
    <2> QED BY <2>1, <1>4, <1>5, <1>6 DEF Owns
  <1>10. Owns(l2, b) = Owns(l, b) + got
    <2>1. f[b] # Absent /\ g[b] # Absent
      BY <1>4, <1>5 DEF Absent
    <2> QED BY <2>1, <1>4, <1>5, <1>6 DEF Owns
  <1>11. \A m \in Mints \ {a, b} : Owns(l2, m) = Owns(l, m)
    BY <1>5, <1>6 DEF Owns
  <1>12. l2.ata[b] - l.ata[b] = got /\ l.ata[a] - l2.ata[a] = taken
    BY <1>4, <1>5, <1>6
  <1> QED
    BY <1>7, <1>8, <1>9, <1>10, <1>11, <1>12 DEF Traded
-----------------------------------------------------------------------------
(* The native instructions around the swap.                                 *)

WrapsInput(r) == r.wrap /\ r.route.input_mint = SOL
MakesOut(r, i) == r.create \/ (EdgeAt(r, i).out = SOL /\ r.wrap)
UsesSol(r) == r.wrap
/\ (r.route.input_mint = SOL \/ \E i \in 1 .. HopsOf(r) : EdgeAt(r, i).out = SOL)

(* An instruction of the setup: a transfer has its account made before it. *)
GoodSetup(t, j) ==
    \/ t[j].op = "create_ata" /\ t[j].mint \in Mints
    \/ /\ t[j].op = "transfer" /\ t[j].amount \in Nat
       /\ \E h \in 1 .. j - 1 : t[h].op = "create_ata" /\ t[h].mint = SOL
    \/ t[j].op = "sync_native"

Makes(t, m) == \E j \in 1 .. Len(t) : t[j].op = "create_ata" /\ t[j].mint = m

(* The part of the setup that makes the output accounts. *)
OutParts(r) ==
    [i \in 1 .. HopsOf(r) |-> IF MakesOut(r, i) THEN <<create_ata(EdgeAt(r, i).out)>> ELSE <<>>]

LEMMA OutsMade ==
    ASSUME NEW r \in Requests
    PROVE  \E f : /\ f = FlattenSeq(OutParts(r)) /\ IsList(f)
                  /\ \A j \in 1 .. Len(f) : f[j].op = "create_ata" /\ f[j].mint \in Mints
                  /\ \A i \in 1 .. HopsOf(r) : MakesOut(r, i) => Makes(f, EdgeAt(r, i).out)
  <1>0. HopsOf(r) \in Nat
    BY RouteOf
  <1>1. PICK S : S = {create_ata(m) : m \in Mints}
    OBVIOUS
  <1>2. PICK ss : ss = OutParts(r)
    OBVIOUS
  <1>3. \A i \in 1 .. HopsOf(r) : create_ata(EdgeAt(r, i).out) \in S
    <2>1. \A i \in 1 .. HopsOf(r) : EdgeAt(r, i).out \in Mints
      BY RouteOf DEF Edges
    <2> QED BY <2>1, <1>1
  <1>4. \A i \in 1 .. HopsOf(r) :
           /\ ss[i] \in Seq(S)
           /\ MakesOut(r, i) => Len(ss[i]) = 1 /\ ss[i][1] = create_ata(EdgeAt(r, i).out)
    <2> TAKE i \in 1 .. HopsOf(r)
    <2>1. PICK c : c = create_ata(EdgeAt(r, i).out) /\ c \in S
      BY <1>3
    <2>2. ss[i] = IF MakesOut(r, i) THEN <<c>> ELSE <<>>
      BY <1>2, <2>1 DEF OutParts
    <2>3. <<c>> \in Seq(S) /\ Len(<<c>>) = 1 /\ <<c>>[1] = c /\ <<>> \in Seq(S)
      BY <2>1
    <2> QED BY <2>1, <2>2, <2>3
  <1>5. ss \in Seq(Seq(S)) /\ Len(ss) = HopsOf(r)
    <2>1. ss = [i \in 1 .. HopsOf(r) |-> ss[i]]
      BY <1>2 DEF OutParts
    <2> QED BY <1>0, <1>4, <2>1
  <1>6. PICK f : f = FlattenSeq(ss)
    OBVIOUS
  <1>7. f \in Seq(S) /\ HoldsParts(f, ss, HopsOf(r))
    BY <1>5, <1>6, FlattenHoldsParts
  <1>8. IsList(f)
    BY <1>7 DEF IsList
  <1>9. \A j \in 1 .. Len(f) : f[j].op = "create_ata" /\ f[j].mint \in Mints
    <2> TAKE j \in 1 .. Len(f)
    <2>1. f[j] \in S
      BY <1>7
    <2>2. PICK m \in Mints : f[j] = create_ata(m)
      BY <1>1, <2>1
    <2> QED BY <2>2 DEF create_ata
  <1>10. ASSUME NEW i \in 1 .. HopsOf(r), MakesOut(r, i) PROVE Makes(f, EdgeAt(r, i).out)
    <2>1. PICK a : a = StartOf(ss, i)
      OBVIOUS
    <2>2. /\ a \in Nat /\ a + Len(ss[i]) <= Len(f)
          /\ \A k \in 1 .. Len(ss[i]) : f[a + k] = ss[i][k]
      BY <1>7, <2>1, Zenon DEF HoldsParts
    <2>3. Len(ss[i]) = 1 /\ ss[i][1] = create_ata(EdgeAt(r, i).out)
      BY <1>4, <1>10
    <2>4. 1 \in 1 .. Len(ss[i]) /\ Len(f) \in Nat
      BY <2>3, <1>7
    <2>5. f[a + 1] = create_ata(EdgeAt(r, i).out) /\ a + 1 \in 1 .. Len(f)
      BY <2>2, <2>3, <2>4
    <2> QED BY <2>5 DEF Makes, create_ata
  <1> QED
    BY <1>2, <1>6, <1>8, <1>9, <1>10

(* What wraps the input. *)
WrapPart(r) ==
    IF WrapsInput(r) THEN <<create_ata(SOL),
                            transfer_to_wsol(IF r.mode = "ExactIn" THEN r.route.in_amount
                                             ELSE r.other_amount), sync_native>>
    ELSE <<>>

LEMMA SetupIs ==
    ASSUME NEW r \in Requests
    PROVE  \E t : /\ t = SetupOf(r.route, r.wrap, r.create, r.mode, r.other_amount)
                  /\ Len(t) \in Nat
                  /\ \A j \in 1 .. Len(t) : GoodSetup(t, j)
                  /\ WrapsInput(r) => Makes(t, SOL)
                  /\ \A i \in 1 .. HopsOf(r) : MakesOut(r, i) => Makes(t, EdgeAt(r, i).out)
  <1>0. /\ HopsOf(r) \in Nat /\ DOMAIN r.route.steps = 1 .. HopsOf(r)
        /\ r.route.in_amount \in Nat /\ r.other_amount \in Nat
    BY RouteOf
  <1>1. PICK f : /\ f = FlattenSeq(OutParts(r)) /\ IsList(f)
                 /\ \A j \in 1 .. Len(f) : f[j].op = "create_ata" /\ f[j].mint \in Mints
                 /\ \A i \in 1 .. HopsOf(r) : MakesOut(r, i) => Makes(f, EdgeAt(r, i).out)
    BY OutsMade
  <1>2. PICK p : p = WrapPart(r)
    OBVIOUS
  <1>3. SetupOf(r.route, r.wrap, r.create, r.mode, r.other_amount) = p \o f
    <2>1. [i \in DOMAIN r.route.steps |->
                     LET out == r.route.steps[i].edge.out
                     IN  IF r.create \/ (out = SOL /\ r.wrap) THEN <<create_ata(out)>> ELSE <<>>]
             = OutParts(r)
      BY <1>0, Zenon DEF OutParts, MakesOut, EdgeAt
    <2> QED BY <1>1, <1>2, <2>1, Zenon DEF SetupOf, WrapPart, WrapsInput
  <1>4. /\ IsList(p) /\ Len(p) \in {0, 3} /\ (WrapsInput(r) => Len(p) = 3)
        /\ Len(p) = 3 => /\ p[1].op = "create_ata" /\ p[1].mint = SOL
                         /\ p[2].op = "transfer" /\ p[2].amount \in Nat
                         /\ p[3].op = "sync_native"
    <2>1. CASE WrapsInput(r)
      <3>1. PICK n : n = IF r.mode = "ExactIn" THEN r.route.in_amount ELSE r.other_amount
        OBVIOUS
      <3>2. n \in Nat
        BY <1>0, <3>1
      <3>3. PICK x, y, z : x = create_ata(SOL) /\ y = transfer_to_wsol(n) /\ z = sync_native
        OBVIOUS
      <3>4. p = <<x, y, z>>
        BY <1>2, <2>1, <3>1, <3>3 DEF WrapPart
      <3>5. p \in Seq({x, y, z}) /\ Len(p) = 3 /\ p[1] = x /\ p[2] = y /\ p[3] = z
        BY <3>4
      <3>6. IsList(p)
        BY <3>5 DEF IsList
      <3>7. /\ x.op = "create_ata" /\ x.mint = SOL /\ y.op = "transfer" /\ y.amount = n
            /\ z.op = "sync_native"
        BY <3>3 DEF create_ata, transfer_to_wsol, sync_native
      <3> QED BY <3>2, <3>5, <3>6, <3>7
    <2>2. CASE ~WrapsInput(r)
      <3>1. p = <<>>
        BY <1>2, <2>2 DEF WrapPart
      <3>2. p \in Seq({}) /\ Len(p) = 0
        BY <3>1
      <3> QED BY <2>2, <3>2 DEF IsList
    <2> QED BY <2>1, <2>2
  <1>5. PICK t : t = p \o f /\ IsList(t) /\ IsConcat(t, p, f)
    BY <1>1, <1>4, ListConcat
  <1>6. Len(p) \in Nat /\ Len(f) \in Nat
    BY <1>1, <1>4 DEF IsList
  <1>7. /\ Len(t) = Len(p) + Len(f)
        /\ \A j \in 1 .. Len(p) : t[j] = p[j]
        /\ \A j \in 1 .. Len(f) : t[Len(p) + j] = f[j]
    BY <1>5, <1>6, ConcatAt
  <1>8. PICK a, b : a = Len(p) /\ b = Len(f) /\ a \in {0, 3} /\ b \in Nat
    BY <1>4, <1>6
  <1>9. Len(t) = a + b /\ Len(t) \in Nat
    BY <1>7, <1>8
  <1>10. SOL \in Mints
    BY ExecutorAssumption
  <1>11. a = 3 => /\ t[1].op = "create_ata" /\ t[1].mint = SOL
                  /\ t[2].op = "transfer" /\ t[2].amount \in Nat
                  /\ t[3].op = "sync_native"
    <2>1. a = 3 => t[1] = p[1] /\ t[2] = p[2] /\ t[3] = p[3]
      BY <1>7, <1>8
    <2> QED BY <2>1, <1>4, <1>8
  <1>12. ASSUME NEW j \in 1 .. Len(t) PROVE GoodSetup(t, j)
    <2>1. CASE j > a
      <3>1. PICK k : k = j - a
        OBVIOUS
      <3>2. k \in 1 .. b /\ j = a + k
        BY <1>8, <1>9, <2>1, <3>1
      <3>3. t[j] = f[k]
        BY <1>7, <1>8, <3>2
      <3>4. f[k].op = "create_ata" /\ f[k].mint \in Mints
        BY <1>1, <1>8, <3>2
      <3> QED BY <3>3, <3>4 DEF GoodSetup
    <2>2. CASE j <= a
      <3>1. a = 3 /\ j \in {1, 2, 3}
        BY <1>8, <1>9, <2>2
      <3>2. CASE j = 1
        BY <3>1, <3>2, <1>10, <1>11 DEF GoodSetup
      <3>3. CASE j = 2
        <4>1. 1 \in 1 .. j - 1
          BY <3>3
        <4> QED BY <3>1, <3>3, <4>1, <1>11 DEF GoodSetup
      <3>4. CASE j = 3
        BY <3>1, <3>4, <1>11 DEF GoodSetup
      <3> QED BY <3>1, <3>2, <3>3, <3>4
    <2> QED BY <2>1, <2>2, <1>8, <1>9
  <1>13. ASSUME WrapsInput(r) PROVE Makes(t, SOL)
    <2>1. a = 3 /\ 1 \in 1 .. Len(t)
      BY <1>4, <1>8, <1>9, <1>13
    <2> QED BY <2>1, <1>11 DEF Makes
  <1>14. ASSUME NEW m, Makes(f, m) PROVE Makes(t, m)
    <2>1. PICK k \in 1 .. Len(f) : f[k].op = "create_ata" /\ f[k].mint = m
      BY <1>14 DEF Makes
    <2>2. PICK j : j = a + k
      OBVIOUS
    <2>3. t[j] = f[k] /\ j \in 1 .. Len(t)
      BY <1>7, <1>8, <1>9, <2>2
    <2> QED BY <2>1, <2>3 DEF Makes
  <1> QED
    BY <1>1, <1>3, <1>5, <1>9, <1>12, <1>13, <1>14
(* The part of the cleanup that unwraps the outputs. *)
ClosesOut(r, i) == r.wrap /\ EdgeAt(r, i).out = SOL
CloseParts(r) == [i \in 1 .. HopsOf(r) |-> IF ClosesOut(r, i) THEN <<close_wsol_ata>> ELSE <<>>]

(* No route comes by SOL twice, so that it is closed at most once. *)
LEMMA OutsClosed ==
    ASSUME NEW r \in Requests
    PROVE  \E f : /\ f = FlattenSeq(CloseParts(r)) /\ IsList(f)
                  /\ \A j \in 1 .. Len(f) : f[j] = close_wsol_ata
                  /\ Len(f) = IF \E i \in 1 .. HopsOf(r) : ClosesOut(r, i) THEN 1 ELSE 0
  <1>0. HopsOf(r) \in Nat
    BY RouteOf
  <1>1. PICK S, c : S = {c} /\ c = close_wsol_ata
    OBVIOUS
  <1>2. PICK ss : ss = CloseParts(r)
    OBVIOUS
  <1>3. \A i \in 1 .. HopsOf(r) : ss[i] = IF ClosesOut(r, i) THEN <<c>> ELSE <<>>
    BY <1>1, <1>2 DEF CloseParts
  <1>4. \A i \in 1 .. HopsOf(r) : ss[i] \in Seq(S) /\ Len(ss[i]) = IF ClosesOut(r, i) THEN 1 ELSE 0
    <2>1. <<c>> \in Seq(S) /\ Len(<<c>>) = 1 /\ <<>> \in Seq(S) /\ Len(<<>>) = 0
      BY <1>1
    <2> QED BY <1>3, <2>1
  <1>5. ss \in Seq(Seq(S)) /\ Len(ss) = HopsOf(r)
    <2>1. ss = [i \in 1 .. HopsOf(r) |-> ss[i]]
      BY <1>2 DEF CloseParts
    <2> QED BY <1>0, <1>4, <2>1
  <1>6. PICK f : f = FlattenSeq(ss)
    OBVIOUS
  <1>7. f \in Seq(S) /\ HoldsParts(f, ss, HopsOf(r))
    BY <1>5, <1>6, FlattenHoldsParts
  <1>8. IsList(f) /\ Len(f) \in Nat
    BY <1>7 DEF IsList
  <1>9. \A j \in 1 .. Len(f) : f[j] = close_wsol_ata
    BY <1>1, <1>7
  <1>10. \A i, h \in 1 .. HopsOf(r) : ClosesOut(r, i) /\ ClosesOut(r, h) => i = h
    <2>1. \A i \in 1 .. HopsOf(r) : \A j \in 1 .. i - 1 : EdgeAt(r, i).out # EdgeAt(r, j).out
      BY RouteOf
    <2> SUFFICES ASSUME NEW i \in 1 .. HopsOf(r), NEW h \in 1 .. HopsOf(r),
                        EdgeAt(r, i).out = EdgeAt(r, h).out
                 PROVE  i = h
      BY DEF ClosesOut
    <2>2. ~(h \in 1 .. i - 1) /\ ~(i \in 1 .. h - 1)
      BY <2>1
    <2> QED BY <2>2, <1>0
  <1>11. \A j \in 1 .. Len(f) : \E i \in 1 .. HopsOf(r) : ClosesOut(r, i) /\ j = StartOf(ss, i) + 1
    <2> TAKE j \in 1 .. Len(f)
    <2>1. PICK i \in 1 .. HopsOf(r) : \E k \in 1 .. Len(ss[i]) : j = StartOf(ss, i) + k
      BY <1>7 DEF HoldsParts
    <2>2. PICK k \in 1 .. Len(ss[i]) : j = StartOf(ss, i) + k
      BY <2>1
    <2>3. ClosesOut(r, i) /\ k = 1
      BY <1>4, <2>2
    <2> QED BY <2>2, <2>3
  <1>12. CASE \E i \in 1 .. HopsOf(r) : ClosesOut(r, i)
    <2>1. PICK i \in 1 .. HopsOf(r) : ClosesOut(r, i)
      BY <1>12
    <2>2. PICK a : a = StartOf(ss, i)
      OBVIOUS
    <2>3. Len(ss[i]) = 1
      BY <1>4, <2>1
    <2>4. a \in Nat /\ a + Len(ss[i]) <= Len(f)
      BY <1>7, <2>2, Zenon DEF HoldsParts
    <2>5. \A j \in 1 .. Len(f) : j = a + 1
      BY <1>10, <1>11, <2>1, <2>2
    <2>6. Len(f) >= 1
      BY <1>8, <2>3, <2>4
    <2>7. 1 \in 1 .. Len(f) /\ Len(f) \in 1 .. Len(f)
      BY <1>8, <2>6
    <2>8. Len(f) = 1
      BY <2>5, <2>7
    <2> QED BY <1>1, <1>2, <1>6, <1>8, <1>9, <1>12, <2>8
  <1>13. CASE ~\E i \in 1 .. HopsOf(r) : ClosesOut(r, i)
    <2>1. ~\E j \in 1 .. Len(f) : TRUE
      BY <1>11, <1>13
    <2>2. Len(f) = 0
      <3>1. Len(f) # 0 => 1 \in 1 .. Len(f)
        BY <1>8
      <3> QED BY <2>1, <3>1
    <2> QED BY <1>1, <1>2, <1>6, <1>8, <1>9, <1>13, <2>2
  <1> QED
    BY <1>12, <1>13

LEMMA CleanupIs ==
    ASSUME NEW r \in Requests
    PROVE  \E t : /\ t = CleanupOf(r.route, r.wrap)
                  /\ \A j \in 1 .. Len(t) : t[j] = close_wsol_ata
                  /\ Len(t) = IF UsesSol(r) THEN 1 ELSE 0
  <1>0. /\ HopsOf(r) \in Nat /\ DOMAIN r.route.steps = 1 .. HopsOf(r)
        /\ \A i \in 1 .. HopsOf(r) : EdgeAt(r, i).out # r.route.input_mint
    BY RouteOf
  <1>1. PICK f : /\ f = FlattenSeq(CloseParts(r)) /\ IsList(f)
                 /\ \A j \in 1 .. Len(f) : f[j] = close_wsol_ata
                 /\ Len(f) = IF \E i \in 1 .. HopsOf(r) : ClosesOut(r, i) THEN 1 ELSE 0
    BY OutsClosed
  <1>2. PICK p : p = IF WrapsInput(r) THEN <<close_wsol_ata>> ELSE <<>>
    OBVIOUS
  <1>3. CleanupOf(r.route, r.wrap) = p \o f
    <2>1. [i \in DOMAIN r.route.steps |->
                     IF r.wrap /\ r.route.steps[i].edge.out = SOL THEN <<close_wsol_ata>> ELSE <<>>]
             = CloseParts(r)
      BY <1>0, Zenon DEF CloseParts, ClosesOut, EdgeAt
    <2> QED BY <1>1, <1>2, <2>1, Zenon DEF CleanupOf, WrapsInput
  <1>4. /\ IsList(p) /\ Len(p) = IF WrapsInput(r) THEN 1 ELSE 0
        /\ \A j \in 1 .. Len(p) : p[j] = close_wsol_ata
    <2>1. PICK c : c = close_wsol_ata
      OBVIOUS
    <2>2. p \in Seq({c}) /\ Len(p) = IF WrapsInput(r) THEN 1 ELSE 0
      <3>1. <<c>> \in Seq({c}) /\ Len(<<c>>) = 1 /\ <<>> \in Seq({c}) /\ Len(<<>>) = 0
        OBVIOUS
      <3>2. CASE WrapsInput(r)
        <4>1. p = <<c>>
          BY <1>2, <2>1, <3>2, Zenon
        <4> QED BY <3>1, <3>2, <4>1
      <3>3. CASE ~WrapsInput(r)
        <4>1. p = <<>>
          BY <1>2, <3>3, Zenon
        <4> QED BY <3>1, <3>3, <4>1
      <3> QED BY <3>2, <3>3
    <2>3. \A j \in 1 .. Len(p) : p[j] = c
      BY <2>2
    <2> QED BY <2>1, <2>2, <2>3 DEF IsList
  <1>5. PICK t : t = p \o f /\ IsList(t) /\ IsConcat(t, p, f)
    BY <1>1, <1>4, ListConcat
  <1>6. Len(p) \in Nat /\ Len(f) \in Nat
    BY <1>1, <1>4
  <1>7. PICK a, b : a = Len(p) /\ b = Len(f) /\ a \in Nat /\ b \in Nat
    BY <1>6
  <1>8. /\ Len(t) = a + b
        /\ \A j \in 1 .. a : t[j] = p[j]
        /\ \A j \in 1 .. b : t[a + j] = f[j]
    BY <1>5, <1>6, <1>7, ConcatAt
  <1>9. \A j \in 1 .. Len(t) : t[j] = close_wsol_ata
    <2> TAKE j \in 1 .. Len(t)
    <2>1. CASE j <= a
      BY <2>1, <1>4, <1>7, <1>8
    <2>2. CASE j > a
      <3>1. PICK k : k = j - a
        OBVIOUS
      <3>2. k \in 1 .. b /\ j = a + k
        BY <1>7, <1>8, <2>2, <3>1
      <3> QED BY <1>1, <1>7, <1>8, <3>2
    <2> QED BY <2>1, <2>2, <1>7, <1>8
  <1>10. Len(t) = IF UsesSol(r) THEN 1 ELSE 0
    <2>1. WrapsInput(r) => ~\E i \in 1 .. HopsOf(r) : ClosesOut(r, i)
      BY <1>0 DEF WrapsInput, ClosesOut
    <2>2. UsesSol(r) <=> WrapsInput(r) \/ \E i \in 1 .. HopsOf(r) : ClosesOut(r, i)
      BY DEF UsesSol, WrapsInput, ClosesOut
    <2> QED BY <1>1, <1>4, <1>7, <1>8, <2>1, <2>2
  <1> QED
    BY <1>3, <1>5, <1>9, <1>10
-----------------------------------------------------------------------------
(* One hop.                                                                 *)

(* The names of ExecuteHop. *)
TheHop == swap.swap.hops[at]
TheLast == ix_account_index + TheHop.ix_account_count
TheIx == SubSeq(Accounts, ix_account_index + 1, TheLast)
TheData == WithInAmount(TheHop, at)
TheProgram == TheIx[2][2]
TheAccounts == SubSeq(TheIx, 3, Len(TheIx))
TheFace == Interface[TheProgram]
TheAmount == ReadAt(TheData, TheFace.amount, 8)
TheSource == TheAccounts[IF SellsA(TheProgram, TheData) THEN TheFace.a ELSE TheFace.b]
TheDest == TheAccounts[IF SellsA(TheProgram, TheData) THEN TheFace.b ELSE TheFace.a]
Moved(a, b, taken, got) == [ledger EXCEPT !.ata[a] = @ - taken, !.ata[b] = @ + got]

HopTaken(taken, got) ==
    /\ IsTokenAccount(TheSource) /\ IsTokenAccount(TheDest)
    /\ taken <= get_balance(TheSource)
    /\ ledger' = Moved(TheSource[2], TheDest[2], taken, got)
    /\ in_amount' = Moved(TheSource[2], TheDest[2], taken, got).ata[TheIx[1][2]] - get_balance(TheIx[1])
    /\ output_amount' = in_amount'
    /\ input_amount' = IF at = 1 /\ version = "v3"
                       THEN InputSpent(TheHop, Moved(TheSource[2], TheDest[2], taken, got)) ELSE input_amount
    /\ ix_account_index' = TheLast
    /\ at' = at + 1
    /\ UNCHANGED <<saved, req, version, swap, pc, why>>

IllFormed == \/ TheLast > Len(Accounts) \/ Len(TheIx) < 2 \/ TheIx[1][1] # "ata"
             \/ Malformed(TheProgram, TheAccounts, TheData)

LEMMA HopOutcome ==
    ASSUME ExecuteHop
    PROVE  /\ pc = "hops" /\ at <= Len(swap.swap.hops)
           /\ \/ IllFormed /\ Fail("malformed")
              \/ (~IsTokenAccount(TheIx[1]) \/ ~IsTokenAccount(TheSource) \/ ~IsTokenAccount(TheDest))
                 /\ Fail("missing_account")
              \/ Fail("pool")
              \/ \E taken \in Takes(TheProgram, TheAmount), got \in 0 .. MaxOut : HopTaken(taken, got)
  BY Zenon DEF ExecuteHop, IllFormed, HopTaken, Moved, TheHop, TheLast, TheIx, TheData, TheProgram, TheAccounts,
       TheFace, TheAmount, TheSource, TheDest

(* What the program of a hop is called with, read off the transaction as it *)
(* was built: the accounts of the edge and the amount, which is what the     *)
(* hop before it brought.                                                   *)
LEMMA HopIsAsBuilt ==
    ASSUME req \in Requests, version \in {"v2", "v3"}, swap = Built(req),
           at \in 1 .. HopsOf(req), ix_account_index = IndexAt(req, version, at), in_amount \in Nat
    PROVE  /\ ~IllFormed
           /\ TheIx[1] = Ata(EdgeAt(req, at).out)
           /\ TheSource = Ata(EdgeAt(req, at).in) /\ TheDest = Ata(EdgeAt(req, at).out)
           /\ TheAmount = IF at = 1 THEN BuiltAmount(req, 1) ELSE in_amount
           /\ TheLast = IndexAt(req, version, at + 1)
  <1>1. PICK r, v, i, x, n : r = req /\ v = version /\ i = at /\ x = ix_account_index
                             /\ n = in_amount
    OBVIOUS
  <1>2. r \in Requests /\ v \in {"v2", "v3"} /\ i \in 1 .. HopsOf(r) /\ x = IndexAt(r, v, i)
        /\ n \in Nat
    BY <1>1
  <1>3. PICK e, ix, c : e = EdgeAt(r, i) /\ ix = IxAt(r, i) /\ c = 2 + Len(ix.accounts)
    OBVIOUS
  <1>4. e \in Edges /\ BuiltAmount(r, i) \in Nat
    BY <1>2, <1>3, RouteOf
  <1>5. DataFits(ix, e, BuiltAmount(r, i)) /\ AccountsFit(ix, e)
    <2>1. ix = build_swap_ix(e, BuiltAmount(r, i), r.route.steps[i].out_amount, 2 * r.bps)
      BY <1>3 DEF IxAt, build_ix, EdgeAt, BuiltAmount
    <2> QED BY <1>4, <2>1, BuilderFits, Zenon
  <1>6. TheHop = [in_amount_offset |-> ix.in_amount_offset, data |-> ix.data, ix_account_count |-> c]
    BY <1>1, <1>2, <1>3, BuiltShape DEF TheHop
  <1>7. /\ TheHop.in_amount_offset = ix.in_amount_offset /\ TheHop.data = ix.data
        /\ TheHop.ix_account_count = c
    BY <1>6
  <1>8. Accounts = Given(r, v)
    BY <1>1 DEF Accounts, Given
  <1>9. TheLast = x + c
    BY <1>1, <1>7 DEF TheLast
  <1>10. /\ c \in Nat /\ c >= 2 /\ x + c <= Len(Given(r, v)) /\ Len(PartAt(r, i)) = c
         /\ IndexAt(r, v, i + 1) = x + c
         /\ SubSeq(Given(r, v), x + 1, x + c) = PartAt(r, i)
         /\ SubSeq(PartAt(r, i), 3, Len(PartAt(r, i))) = ix.accounts
    BY <1>2, <1>3, HopUnpacked
  <1>11. TheIx = PartAt(r, i)
    BY <1>1, <1>8, <1>9, <1>10 DEF TheIx
  <1>12. TheIx[1] = ix.out_pubkey /\ TheIx[2] = ix.program_id /\ Len(TheIx) = c
    BY <1>2, <1>3, <1>10, <1>11, PartIs
  <1>13. TheProgram = ix.program_id[2] /\ TheAccounts = ix.accounts /\ TheFace = FaceOf(ix)
    BY <1>10, <1>11, <1>12 DEF TheProgram, TheAccounts, TheFace, FaceOf
  <1>14. PICK m : m = IF i = 1 THEN BuiltAmount(r, i) ELSE n
    OBVIOUS
  <1>15. \/ TheData = ix.data /\ m = BuiltAmount(r, i)
         \/ TheData = Overwritten(ix.data, ix.in_amount_offset, n) /\ m = n
    BY <1>1, <1>7, <1>14 DEF TheData, WithInAmount
  <1>16. PICK d : d = TheData
    OBVIOUS
  <1>17. /\ ReadAt(d, FaceOf(ix).amount, 8) = m
         /\ SellsA(ix.program_id[2], d) <=> Direct(ix, e)
    <2>1. \/ d = ix.data /\ m = BuiltAmount(r, i)
          \/ d = Overwritten(ix.data, ix.in_amount_offset, n) /\ m = n
      BY <1>15, <1>16
    <2> QED BY <1>4, <1>5, <2>1, Decode
  <1>18. PICK a, b : a = FaceOf(ix).a /\ b = FaceOf(ix).b
    OBVIOUS
  <1>19. /\ ix.program_id[2] \in DOMAIN Interface /\ ix.out_pubkey = Ata(e.out)
         /\ IsList(ix.accounts)
         /\ a \in 1 .. Len(ix.accounts) /\ b \in 1 .. Len(ix.accounts)
         /\ ix.accounts[a] = Ata(IF Direct(ix, e) THEN e.in ELSE e.out)
         /\ ix.accounts[b] = Ata(IF Direct(ix, e) THEN e.out ELSE e.in)
         /\ Wallet \in Range(ix.accounts)
    BY <1>5, <1>18 DEF AccountsFit
  <1>20. TheSource = Ata(e.in) /\ TheDest = Ata(e.out)
    <2>1. TheSource = ix.accounts[IF Direct(ix, e) THEN a ELSE b]
      BY <1>13, <1>16, <1>17, <1>18, Zenon DEF TheSource
    <2>2. TheDest = ix.accounts[IF Direct(ix, e) THEN b ELSE a]
      BY <1>13, <1>16, <1>17, <1>18, Zenon DEF TheDest
    <2>3. CASE Direct(ix, e)
      BY <2>1, <2>2, <2>3, <1>19
    <2>4. CASE ~Direct(ix, e)
      BY <2>1, <2>2, <2>4, <1>19
    <2> QED BY <2>3, <2>4
  <1>21. TheAmount = m /\ m \in Nat
    BY <1>2, <1>4, <1>13, <1>14, <1>16, <1>17 DEF TheAmount
  <1>22. ~Malformed(TheProgram, TheAccounts, TheData)
    <2>1. PICK prog, q : prog = ix.program_id[2] /\ q = ix.accounts
      OBVIOUS
    <2>2. /\ prog \in DOMAIN Interface /\ Interface[prog].a = a /\ Interface[prog].b = b
          /\ Wallet \in Range(q)
      BY <1>18, <1>19, <2>1 DEF FaceOf
    <2>3. Len(q) \in Nat
      BY <1>19, <2>1 DEF IsList
    <2>4. ~(b > Len(q))
      BY <1>19, <2>1, <2>3
    <2>5. q[a][1] = "ata" /\ q[b][1] = "ata"
      <3>1. \A y : Ata(y)[1] = "ata"
        BY DEF Ata
      <3> QED BY <1>19, <2>1, <3>1
    <2>6. ReadAt(d, Interface[prog].amount, 8) # Torn
      <3>1. ReadAt(d, Interface[prog].amount, 8) = m
        BY <1>17, <2>1 DEF FaceOf
      <3> QED BY <3>1, <1>21 DEF Torn
    <2>7. ~Malformed(prog, q, d)
      BY <2>2, <2>4, <2>5, <2>6 DEF Malformed
    <2> QED BY <1>13, <1>16, <2>1, <2>7
  <1>23. ~IllFormed
    <2>1. Len(Given(r, v)) \in Nat /\ x \in Nat
      <3>1. IsList(Given(r, v)) /\ HopIsAt(r, v, i)
        BY <1>2, HopsAreAt
      <3> QED BY <3>1, <1>2 DEF IsList, HopIsAt
    <2>2. ~(TheLast > Len(Accounts))
      BY <1>8, <1>9, <1>10, <2>1
    <2>3. ~(Len(TheIx) < 2)
      BY <1>10, <1>12
    <2>4. TheIx[1][1] = "ata"
      BY <1>12, <1>19 DEF Ata
    <2> QED BY <2>2, <2>3, <2>4, <1>22 DEF IllFormed
  <1> QED
    BY <1>1, <1>3, <1>9, <1>10, <1>12, <1>14, <1>19, <1>20, <1>21, <1>23
-----------------------------------------------------------------------------
(* The inductive invariant.                                                 *)

InMint(r) == r.route.input_mint
OutAt(r, i) == EdgeAt(r, i).out
MostIn(r) == BuiltAmount(r, 1)
LeastOut(r) == IF r.mode = "ExactIn" THEN r.other_amount ELSE r.route.out_amount
Balanced(l, s) == \A m \in Mints : Owns(l, m) = Owns(s, m)
Spent(l, s, r) == Owns(s, InMint(r)) - Owns(l, InMint(r))

(* The accounts the transaction can count on once its setup is done. *)
Made(l, s, r) ==
    /\ Keeps(s, l) /\ (WrapsInput(r) => Present(l, SOL))
    /\ \A i \in 1 .. HopsOf(r) : MakesOut(r, i) => Present(l, OutAt(r, i))

(* No more was spent than allowed, the event tells how much, and of every    *)
(* other mint there is as much as before.                                    *)
Paid(l, s, r, v, input) ==
    /\ Spent(l, s, r) <= MostIn(r)
    /\ v = "v3" => input = Spent(l, s, r)
    /\ \A m \in Mints \ {InMint(r)} : Owns(l, m) >= Owns(s, m)

(* Before hop i: what the hop before it brought is in_amount, and the mints  *)
(* to come are untouched.                                                   *)
Between(l, s, r, v, i, input, amount) ==
    /\ Made(l, s, r) /\ i \in 1 .. HopsOf(r) + 1
    /\ i = 1 => Balanced(l, s)
    /\ i # 1 => /\ Paid(l, s, r, v, input)
                /\ Owns(l, OutAt(r, i - 1)) - Owns(s, OutAt(r, i - 1)) = amount
                /\ \A j \in i .. HopsOf(r) : Owns(l, OutAt(r, j)) = Owns(s, OutAt(r, j))

(* After the last one. *)
Done(l, s, r, v, input, output) ==
    /\ Paid(l, s, r, v, input)
    /\ Owns(l, OutAt(r, HopsOf(r))) - Owns(s, OutAt(r, HopsOf(r))) = output
    /\ output >= LeastOut(r)

LEMMA TakesAtMost ==
    ASSUME NEW prog, NEW m \in Nat, NEW taken \in Takes(prog, m)
    PROVE  taken \in Nat /\ taken <= m
  <1>1. CASE prog = "executor"
    <2>1. PICK k : k = m \div LotSize
      OBVIOUS
    <2>2. LotSize \in Nat \ {0}
      BY ExecutorAssumption
    <2>3. k \in Nat /\ LotSize * k \in Nat /\ LotSize * k <= m
      BY <2>1, <2>2
    <2>4. taken \in 0 .. LotSize * k
      BY <1>1, <2>1 DEF Takes, execute_openbook_v2_swap
    <2> QED BY <2>3, <2>4
  <1>2. CASE prog # "executor"
    BY <1>2 DEF Takes
  <1> QED BY <1>1, <1>2

(* The mints of a route. *)
LEMMA MintsOf ==
    ASSUME NEW r \in Requests
    PROVE  /\ InMint(r) \in Mints /\ InMint(r) = EdgeAt(r, 1).in
           /\ \A i \in 1 .. HopsOf(r) : /\ OutAt(r, i) \in Mints /\ EdgeAt(r, i).in \in Mints
                                        /\ OutAt(r, i) # InMint(r) /\ OutAt(r, i) # EdgeAt(r, i).in
           /\ \A i \in 2 .. HopsOf(r) : EdgeAt(r, i).in = OutAt(r, i - 1)
           /\ \A i, j \in 1 .. HopsOf(r) : i # j => OutAt(r, i) # OutAt(r, j)
  <1>1. /\ HopsOf(r) \in Nat \ {0}
        /\ \A i \in 1 .. HopsOf(r) : EdgeAt(r, i) \in Edges
        /\ InMint(r) = EdgeAt(r, 1).in
        /\ \A i \in 2 .. HopsOf(r) : EdgeAt(r, i).in = OutAt(r, i - 1)
        /\ \A i \in 1 .. HopsOf(r) : OutAt(r, i) # InMint(r)
        /\ \A i \in 1 .. HopsOf(r) : \A j \in 1 .. i - 1 : OutAt(r, i) # OutAt(r, j)
    BY RouteOf DEF InMint, OutAt
  <1>2. \A i \in 1 .. HopsOf(r) : OutAt(r, i) \in Mints /\ EdgeAt(r, i).in \in Mints
    BY <1>1 DEF Edges, OutAt
  <1>3. \A i, j \in 1 .. HopsOf(r) : i # j => OutAt(r, i) # OutAt(r, j)
    <2> SUFFICES ASSUME NEW i \in 1 .. HopsOf(r), NEW j \in 1 .. HopsOf(r), i # j
                 PROVE  OutAt(r, i) # OutAt(r, j)
      OBVIOUS
    <2>1. j \in 1 .. i - 1 \/ i \in 1 .. j - 1
      BY <1>1
    <2> QED BY <2>1, <1>1
  <1>4. ASSUME NEW i \in 1 .. HopsOf(r) PROVE OutAt(r, i) # EdgeAt(r, i).in
    <2>1. CASE i = 1
      BY <2>1, <1>1
    <2>2. CASE i # 1
      <3>1. i \in 2 .. HopsOf(r) /\ i - 1 \in 1 .. i - 1
        BY <2>2, <1>1
      <3> QED BY <3>1, <1>1
    <2> QED BY <2>1, <2>2
  <1>5. InMint(r) \in Mints
    BY <1>1, <1>2
  <1> QED
    BY <1>1, <1>2, <1>3, <1>4, <1>5

(* A hop keeps the books. *)
LEMMA HopKeepsBooks ==
    ASSUME NEW r \in Requests, NEW v, NEW l, IsLedger(l), NEW s, IsLedger(s),
           NEW i \in 1 .. HopsOf(r), NEW input, NEW amount \in Nat,
           Between(l, s, r, v, i, input, amount),
           NEW taken \in Nat, NEW got \in Nat, taken <= IF i = 1 THEN MostIn(r) ELSE amount,
           NEW l2, Traded(l, l2, EdgeAt(r, i).in, OutAt(r, i), taken, got),
           NEW input2, input2 = IF i = 1 /\ v = "v3" THEN taken ELSE input
    PROVE  Between(l2, s, r, v, i + 1, input2, got)
  <1>1. PICK a, b, c, h : a = EdgeAt(r, i).in /\ b = OutAt(r, i) /\ c = InMint(r) /\ h = HopsOf(r)
    OBVIOUS
  <1>2. h \in Nat \ {0} /\ MostIn(r) \in Nat
    <2>1. h \in Nat \ {0} /\ 1 \in 1 .. HopsOf(r)
      BY <1>1, RouteOf
    <2> QED BY <2>1, RouteOf DEF MostIn
  <1>3. /\ a \in Mints /\ b \in Mints /\ c \in Mints /\ b # c /\ a # b
        /\ i = 1 => a = c
        /\ i # 1 => a = OutAt(r, i - 1) /\ a # c
        /\ \A j \in i + 1 .. h : OutAt(r, j) \in Mints \ {a, b}
    <2>1. i = 1 => a = c
      BY <1>1, MintsOf
    <2>2. ASSUME i # 1 PROVE a = OutAt(r, i - 1) /\ a # c
      <3>1. i \in 2 .. h /\ i - 1 \in 1 .. h
        BY <1>1, <1>2, <2>2
      <3> QED BY <3>1, <1>1, MintsOf
    <2>3. ASSUME NEW j \in i + 1 .. h PROVE OutAt(r, j) \in Mints \ {a, b}
      <3>1. j \in 1 .. h /\ j # i
        BY <1>1, <1>2
      <3>2. OutAt(r, j) \in Mints /\ OutAt(r, j) # b /\ OutAt(r, j) # c
        BY <3>1, <1>1, MintsOf
      <3>3. CASE i = 1
        BY <3>2, <3>3, <2>1
      <3>4. CASE i # 1
        <4>1. i - 1 \in 1 .. h /\ i - 1 # j
          BY <3>4, <1>1, <1>2
        <4>2. OutAt(r, i - 1) # OutAt(r, j)
          BY <4>1, <3>1, <1>1, MintsOf
        <4> QED BY <4>2, <3>2, <3>4, <2>2
      <3> QED BY <3>3, <3>4
    <2> QED BY <1>1, <2>1, <2>2, <2>3, MintsOf
  <1>4. /\ IsLedger(l2) /\ Keeps(l, l2)
        /\ Owns(l2, a) = Owns(l, a) - taken /\ Owns(l2, b) = Owns(l, b) + got
        /\ \A m \in Mints \ {a, b} : Owns(l2, m) = Owns(l, m)
    BY <1>1 DEF Traded
  <1>5. \A m \in Mints : Owns(l, m) \in Int /\ Owns(l2, m) \in Int /\ Owns(s, m) \in Int
    BY <1>4, OwnsInt
  <1>6. Made(l2, s, r)
    <2>1. Made(l, s, r)
      BY DEF Between
    <2>2. \A m \in Mints : Present(l, m) => Present(l2, m)
      BY <1>4 DEF Keeps
    <2>3. SOL \in Mints
      BY ExecutorAssumption
    <2>4. \A j \in 1 .. HopsOf(r) : OutAt(r, j) \in Mints
      BY MintsOf
    <2> QED BY <2>1, <2>2, <2>3, <2>4 DEF Made, Keeps
  <1>7. i + 1 \in 1 .. h + 1 /\ i + 1 # 1 /\ (i + 1) - 1 = i
    BY <1>1, <1>2
  <1>8. Owns(l, b) = Owns(s, b) /\ \A j \in i + 1 .. h : Owns(l, OutAt(r, j)) = Owns(s, OutAt(r, j))
    <2>1. CASE i = 1
      <3>1. \A m \in Mints : Owns(l, m) = Owns(s, m)
        BY <2>1 DEF Between, Balanced
      <3> QED BY <3>1, <1>3
    <2>2. CASE i # 1
      <3>1. \A j \in i .. h : Owns(l, OutAt(r, j)) = Owns(s, OutAt(r, j))
        BY <2>2, <1>1 DEF Between
      <3>2. i \in i .. h /\ \A j \in i + 1 .. h : j \in i .. h
        BY <1>1, <1>2
      <3> QED BY <3>1, <3>2, <1>1
    <2> QED BY <2>1, <2>2
  <1>9. Owns(l2, b) - Owns(s, b) = got
    BY <1>3, <1>4, <1>5, <1>8
  <1>10. \A j \in i + 1 .. h : Owns(l2, OutAt(r, j)) = Owns(s, OutAt(r, j))
    BY <1>3, <1>4, <1>8
  <1>11. Paid(l2, s, r, v, input2)
    <2>1. CASE i = 1
      <3>1. \A m \in Mints : Owns(l, m) = Owns(s, m)
        BY <2>1 DEF Between, Balanced
      <3>2. a = c /\ taken <= MostIn(r)
        BY <2>1, <1>3
      <3>3. Owns(s, c) - Owns(l2, c) = taken
        BY <3>1, <3>2, <1>3, <1>4, <1>5
      <3>4. ASSUME NEW m \in Mints \ {c} PROVE Owns(l2, m) >= Owns(s, m)
        <4>1. CASE m = b
          BY <4>1, <1>4, <1>5, <1>8
        <4>2. CASE m # b
          <5>1. Owns(l2, m) = Owns(l, m)
            BY <4>2, <3>2, <1>4
          <5> QED BY <5>1, <3>1, <1>5
        <4> QED BY <4>1, <4>2
      <3>5. v = "v3" => input2 = taken
        BY <2>1
      <3> QED BY <1>1, <3>2, <3>3, <3>4, <3>5 DEF Paid, Spent
    <2>2. CASE i # 1
      <3>1. /\ Paid(l, s, r, v, input) /\ input2 = input
            /\ Owns(l, a) - Owns(s, a) = amount /\ taken <= amount
        BY <2>2, <1>3 DEF Between
      <3>2. Owns(l2, c) = Owns(l, c)
        BY <2>2, <1>3, <1>4
      <3>3. ASSUME NEW m \in Mints \ {c} PROVE Owns(l2, m) >= Owns(s, m)
        <4>1. CASE m = b
          BY <4>1, <1>4, <1>5, <1>8
        <4>2. CASE m = a
          BY <4>2, <3>1, <1>3, <1>4, <1>5
        <4>3. CASE m # a /\ m # b
          <5>1. Owns(l2, m) = Owns(l, m) /\ Owns(l, m) >= Owns(s, m)
            BY <4>3, <3>1, <1>1, <1>4 DEF Paid
          <5> QED BY <5>1
        <4> QED BY <4>1, <4>2, <4>3
      <3> QED BY <1>1, <3>1, <3>2, <3>3 DEF Paid, Spent
    <2> QED BY <2>1, <2>2
  <1> QED
    BY <1>1, <1>6, <1>7, <1>9, <1>10, <1>11 DEF Between
(* What may be missing. *)
MayMiss(s, r) == ~r.create \/ (~Present(s, InMint(r)) /\ ~WrapsInput(r))

ExecType ==
    /\ IsLedger(ledger) /\ IsLedger(saved)
    /\ req \in Requests /\ version \in Versions
    /\ pc \in {"request", "setup", "enter", "hops", "cleanup", "committed", "failed"}
    /\ at \in Nat \ {0} /\ in_amount \in Nat
    /\ pc # "request" => swap = Built(req)

InSetup ==
    /\ Balanced(ledger, saved) /\ Keeps(saved, ledger) /\ at <= Len(swap.setup) + 1
    /\ \A j \in 1 .. at - 1 :
          swap.setup[j].op = "create_ata" => Present(ledger, swap.setup[j].mint)

InHops ==
    /\ ix_account_index = IndexAt(req, version, at)
    /\ Between(ledger, saved, req, version, at, input_amount, in_amount)
    /\ at # 1 => output_amount = in_amount

InCleanup ==
    /\ at = 1 \/ (at = 2 /\ UsesSol(req))
    /\ UsesSol(req) => (at = 1 <=> Present(ledger, SOL))

(* The inductive invariant, phase by phase. *)
ExecInv ==
    /\ ExecType
    /\ pc = "request" => ledger = saved
    /\ pc = "setup" => InSetup
    /\ pc = "enter" => Balanced(ledger, saved) /\ Made(ledger, saved, req)
    /\ pc = "hops" => InHops
    /\ pc = "cleanup" => InCleanup
    /\ pc \in {"cleanup", "committed"} =>
          Done(ledger, saved, req, version, input_amount, output_amount)
    /\ pc = "committed" => (UsesSol(req) => ~Present(ledger, SOL))
    /\ pc = "failed" => /\ ledger = saved /\ why \notin {"malformed", "close"}
                        /\ why = "missing_account" => MayMiss(saved, req)

LEMMA ExecInitial == Init => ExecInv
  <1> SUFFICES ASSUME Init PROVE ExecInv
    OBVIOUS
  <1>1. /\ ledger \in Ledgers /\ saved = ledger /\ req \in Requests /\ version \in Versions
        /\ pc = "request" /\ at = 1 /\ in_amount = 0
    BY Zenon DEF Init
  <1>2. \A l \in Ledgers : IsLedger(l)
    BY ExecutorAssumption, Zenon
  <1>3. IsLedger(ledger) /\ IsLedger(saved)
    BY <1>1, <1>2
  <1>4. ExecType
    BY <1>1, <1>3 DEF ExecType
  <1> QED
    BY <1>1, <1>4 DEF ExecInv

(* A failing step leaves the ledger as it was before the transaction. *)
LEMMA FailKeeps ==
    ASSUME ExecType, pc # "request", NEW reason, Fail(reason), reason \notin {"malformed", "close"},
           reason = "missing_account" => MayMiss(saved, req)
    PROVE  ExecInv'
  <1>1. /\ pc' = "failed" /\ why' = reason /\ ledger' = saved
        /\ saved' = saved /\ req' = req /\ version' = version /\ swap' = swap /\ at' = at
        /\ in_amount' = in_amount
    BY DEF Fail
  <1>2. ExecType'
    BY <1>1 DEF ExecType
  <1> QED
    BY <1>1, <1>2 DEF ExecInv

LEMMA BuildKeeps ==
    ASSUME ExecInv, BuildTransaction
    PROVE  ExecInv'
  <1>1. /\ pc = "request" /\ pc' = "setup" /\ at' = 1 /\ ledger' = ledger /\ saved' = saved
        /\ req' = req /\ version' = version /\ in_amount' = in_amount /\ swap' = Built(req)
    BY DEF BuildTransaction, Cursor, Built
  <1>2. ledger = saved /\ ExecType
    BY <1>1 DEF ExecInv
  <1>3. ExecType'
    BY <1>1, <1>2 DEF ExecType
  <1>4. InSetup'
    <2>1. Balanced(ledger', saved') /\ Keeps(saved', ledger')
      BY <1>1, <1>2 DEF Balanced, Keeps
    <2>2. swap'.setup = SetupOf(req.route, req.wrap, req.create, req.mode, req.other_amount)
      BY <1>1, <1>2, BuiltShape DEF ExecType
    <2>3. Len(swap'.setup) \in Nat
      BY <1>2, <2>2, SetupIs DEF ExecType
    <2>4. at' <= Len(swap'.setup) + 1 /\ 1 .. at' - 1 = {}
      BY <1>1, <2>3
    <2> QED BY <2>1, <2>4 DEF InSetup
  <1> QED
    BY <1>1, <1>3, <1>4 DEF ExecInv

(* The setup makes the accounts and leaves the wallet as wealthy. *)
LEMMA SetupKeeps ==
    ASSUME ExecInv, Setup
    PROVE  ExecInv'
  <1>1. pc = "setup" /\ ExecType /\ InSetup
    BY DEF ExecInv, Setup, RunNative
  <1>2. PICK t : /\ t = SetupOf(req.route, req.wrap, req.create, req.mode, req.other_amount)
                 /\ Len(t) \in Nat
                 /\ \A j \in 1 .. Len(t) : GoodSetup(t, j)
                 /\ WrapsInput(req) => Makes(t, SOL)
                 /\ \A i \in 1 .. HopsOf(req) : MakesOut(req, i) => Makes(t, EdgeAt(req, i).out)
    BY <1>1, SetupIs DEF ExecType
  <1>3. swap.setup = t
    <2>1. swap = Built(req) /\ req \in Requests
      BY <1>1 DEF ExecType
    <2> QED BY <1>2, <2>1, BuiltShape
  <1>4. \A j \in 1 .. at - 1 : t[j].op = "create_ata" => Present(ledger, t[j].mint)
    BY <1>1, <1>3 DEF InSetup
  <1>5. CASE at > Len(t)
    <2>1. /\ pc' = "enter" /\ at' = 1 /\ ledger' = ledger /\ saved' = saved /\ req' = req
          /\ version' = version /\ swap' = swap /\ in_amount' = in_amount
      BY <1>3, <1>5 DEF Setup, RunNative, Cursor
    <2>2. ExecType'
      BY <1>1, <2>1 DEF ExecType
    <2>3. \A m : Makes(t, m) => Present(ledger, m)
      <3>1. \A j \in 1 .. Len(t) : j \in 1 .. at - 1
        BY <1>1, <1>2, <1>5 DEF ExecType
      <3> QED BY <3>1, <1>4 DEF Makes
    <2>4. Made(ledger, saved, req)
      BY <1>1, <1>2, <2>3 DEF Made, InSetup, OutAt
    <2>5. Balanced(ledger, saved)
      BY <1>1 DEF InSetup
    <2> QED BY <2>1, <2>2, <2>4, <2>5 DEF ExecInv
  <1>6. CASE ~(at > Len(t)) /\ Refused(t[at])
    <2>1. Fail(t[at].op)
      BY <1>3, <1>6 DEF Setup, RunNative
    <2>2. t[at].op \notin {"malformed", "close", "missing_account"}
      <3>1. at \in 1 .. Len(t)
        BY <1>1, <1>2, <1>6 DEF ExecType
      <3>2. GoodSetup(t, at)
        BY <3>1, <1>2
      <3> QED BY <3>2 DEF GoodSetup
    <2> QED BY <1>1, <2>1, <2>2, FailKeeps
  <1>7. CASE ~(at > Len(t)) /\ ~Refused(t[at])
    <2>1. /\ ledger' = Apply(t[at]) /\ at' = at + 1 /\ pc' = pc /\ saved' = saved /\ req' = req
          /\ version' = version /\ swap' = swap /\ in_amount' = in_amount
      BY <1>3, <1>7 DEF Setup, RunNative, Cursor
    <2>2. at \in 1 .. Len(t) /\ at \in Nat \ {0}
      BY <1>1, <1>2, <1>7 DEF ExecType
    <2>3. GoodSetup(t, at)
      BY <2>2, <1>2
    <2>4. IsLedger(ledger) /\ IsLedger(saved)
      BY <1>1 DEF ExecType
    <2>5. /\ SameWealth(ledger, ledger') /\ Keeps(ledger, ledger')
          /\ t[at].op = "create_ata" => Present(ledger', t[at].mint)
      <3>1. CASE t[at].op = "create_ata" /\ t[at].mint \in Mints
        <4>1. PICK x : x = t[at].mint /\ x \in Mints
          BY <3>1
        <4>2. ledger' = [ledger EXCEPT !.ata[x] = IF @ = Absent THEN 0 ELSE @]
          BY <2>1, <3>1, <4>1 DEF Apply
        <4> QED BY <2>4, <4>1, <4>2, Created
      <3>2. CASE /\ t[at].op = "transfer" /\ t[at].amount \in Nat
                 /\ \E h \in 1 .. at - 1 : t[h].op = "create_ata" /\ t[h].mint = SOL
        <4>1. PICK a : a = t[at].amount /\ a \in Nat
          BY <3>2
        <4>2. ledger' = [ledger EXCEPT !.native = @ - a, !.ata[SOL] = @ + a]
          BY <2>1, <3>2, <4>1 DEF Apply
        <4>3. Present(ledger, SOL)
          BY <3>2, <1>4
        <4>4. a <= ledger.native
          <5>1. ~(ledger.native < a) /\ ledger.native \in Nat
            BY <1>7, <2>4, <3>2, <4>1 DEF Refused, IsLedger
          <5> QED BY <5>1, <4>1
        <4>5. SameWealth(ledger, ledger') /\ Keeps(ledger, ledger')
          BY <2>4, <4>1, <4>2, <4>3, <4>4, Wrapped, Zenon
        <4> QED BY <3>2, <4>5
      <3>3. CASE t[at].op = "sync_native"
        <4>1. ledger' = ledger
          BY <2>1, <3>3 DEF Apply
        <4> QED BY <2>4, <3>3, <4>1 DEF SameWealth, Keeps
      <3> QED BY <2>3, <3>1, <3>2, <3>3 DEF GoodSetup
    <2>6. ExecType'
      <3>1. IsLedger(ledger')
        BY <2>5 DEF SameWealth
      <3>2. at + 1 \in Nat \ {0}
        BY <2>2
      <3> QED BY <1>1, <2>1, <3>1, <3>2 DEF ExecType
    <2>7. InSetup'
      <3>1. Balanced(ledger', saved')
        BY <1>1, <2>1, <2>5 DEF InSetup, Balanced, SameWealth
      <3>2. Keeps(saved', ledger')
        BY <1>1, <2>1, <2>5 DEF InSetup, Keeps
      <3>3. at' <= Len(swap'.setup) + 1
        BY <1>2, <1>3, <2>1, <2>2
      <3>4. ASSUME NEW j \in 1 .. at' - 1, swap'.setup[j].op = "create_ata"
            PROVE  Present(ledger', swap'.setup[j].mint)
        <4>1. swap'.setup = t
          BY <1>3, <2>1
        <4>2. j \in 1 .. at - 1 \/ j = at
          BY <2>1, <2>2
        <4>3. CASE j = at
          BY <3>4, <4>1, <4>3, <2>5
        <4>4. CASE j \in 1 .. at - 1
          <5>1. Present(ledger, t[j].mint)
            BY <3>4, <4>1, <4>4, <1>4
          <5>2. t[j].mint \in Mints
            <6>1. j \in 1 .. Len(t)
              BY <4>4, <2>2, <1>2
            <6>2. GoodSetup(t, j)
              BY <6>1, <1>2
            <6> QED BY <6>2, <3>4, <4>1 DEF GoodSetup
          <5> QED BY <5>1, <5>2, <4>1, <2>5 DEF Keeps
        <4> QED BY <4>2, <4>3, <4>4
      <3> QED BY <3>1, <3>2, <3>3, <3>4 DEF InSetup
    <2> QED BY <1>1, <2>1, <2>6, <2>7 DEF ExecInv
  <1> QED
    BY <1>5, <1>6, <1>7
LEMMA VersionIs ==
    ASSUME ExecType
    PROVE  version \in {"v2", "v3"}
  BY ExecutorAssumption DEF ExecType

(* The first account the executor is given is the wallet's input account. *)
LEMMA FirstAccount ==
    ASSUME NEW r \in Requests
    PROVE  Built(r).swap.accounts[1] = Ata(InMint(r))
  <1>1. PICK a, f : a = <<Ata(InMint(r))>> /\ f = FlattenSeq(PartsOf(r))
    OBVIOUS
  <1>2. Built(r).swap.accounts = a \o f
    BY <1>1, BuiltShape DEF InMint
  <1>3. IsList(f)
    <2>1. PICK S : PartsOf(r) \in Seq(Seq(S))
      BY PartsAreLists
    <2>2. f \in Seq(S)
      BY <1>1, <2>1, FlattenHoldsParts
    <2> QED BY <2>2 DEF IsList
  <1>4. IsList(a) /\ Len(a) = 1 /\ a[1] = Ata(InMint(r))
    <2>1. a \in Seq({Ata(InMint(r))}) /\ Len(a) = 1 /\ a[1] = Ata(InMint(r))
      BY <1>1
    <2> QED BY <2>1 DEF IsList
  <1>5. BeginsWith(a \o f, a, 1)
    <2>1. 1 \in Nat /\ 1 <= Len(a)
      BY <1>4
    <2> QED BY <1>3, <1>4, <2>1, PrefixOf, Zenon
  <1>6. PICK u : u = a \o f /\ BeginsWith(u, a, 1)
    BY <1>5
  <1>7. u[1] = a[1]
    BY <1>6 DEF BeginsWith
  <1> QED
    BY <1>2, <1>4, <1>6, <1>7

LEMMA EnterKeeps ==
    ASSUME ExecInv, EnterSwap
    PROVE  ExecInv'
  <1>1. pc = "enter" /\ ExecType /\ Balanced(ledger, saved) /\ Made(ledger, saved, req)
    BY DEF ExecInv, EnterSwap
  <1>2. req \in Requests /\ swap = Built(req) /\ version \in {"v2", "v3"}
    BY <1>1, VersionIs DEF ExecType
  <1>3. CASE version = "v3" /\ ~IsTokenAccount(swap.swap.accounts[1])
    <2>1. Fail("missing_account")
      BY <1>3 DEF EnterSwap
    <2>2. ~Present(ledger, InMint(req))
      <3>1. ~IsTokenAccount(Ata(InMint(req)))
        BY <1>2, <1>3, FirstAccount
      <3> QED BY <3>1 DEF IsTokenAccount, Ata, Present
    <2>3. MayMiss(saved, req)
      <3>1. InMint(req) \in Mints
        BY <1>2, MintsOf
      <3>2. ~Present(saved, InMint(req))
        BY <1>1, <2>2, <3>1 DEF Made, Keeps
      <3>3. ~WrapsInput(req)
        BY <1>1, <2>2 DEF Made, WrapsInput, InMint
      <3> QED BY <3>2, <3>3 DEF MayMiss
    <2> QED BY <1>1, <2>1, <2>3, FailKeeps
  <1>4. CASE ~(version = "v3" /\ ~IsTokenAccount(swap.swap.accounts[1]))
    <2>1. /\ pc' = "hops" /\ at' = 1 /\ ix_account_index' = Skipped(version)
          /\ ledger' = ledger /\ saved' = saved /\ req' = req /\ version' = version /\ swap' = swap
          /\ in_amount' = in_amount
      BY <1>4 DEF EnterSwap, Skipped
    <2>2. ExecType'
      BY <1>1, <2>1 DEF ExecType
    <2>3. Skipped(version) = IndexAt(req, version, 1)
      BY <1>2, HopsAreAt
    <2>4. 1 \in 1 .. HopsOf(req) + 1
      BY <1>2, RouteOf
    <2>5. InHops'
      BY <1>1, <2>1, <2>3, <2>4 DEF InHops, Between
    <2> QED BY <2>1, <2>2, <2>5 DEF ExecInv
  <1> QED
    BY <1>3, <1>4

LEMMA HopKeeps ==
    ASSUME ExecInv, ExecuteHop
    PROVE  ExecInv'
  <1>1. pc = "hops" /\ ExecType /\ InHops /\ at <= Len(swap.swap.hops)
    BY HopOutcome DEF ExecInv
  <1>2. /\ req \in Requests /\ swap = Built(req) /\ version \in {"v2", "v3"} /\ in_amount \in Nat
        /\ IsLedger(ledger) /\ IsLedger(saved)
    BY <1>1, VersionIs DEF ExecType
  <1>3. at \in 1 .. HopsOf(req)
    <2>1. Len(swap.swap.hops) = HopsOf(req)
      BY <1>2, BuiltShape
    <2>2. HopsOf(req) \in Nat
      BY <1>2, RouteOf
    <2> QED BY <1>1, <2>1, <2>2 DEF ExecType
  <1>4. /\ ix_account_index = IndexAt(req, version, at)
        /\ Between(ledger, saved, req, version, at, input_amount, in_amount)
    BY <1>1 DEF InHops
  <1>5. /\ ~IllFormed
        /\ TheIx[1] = Ata(EdgeAt(req, at).out)
        /\ TheSource = Ata(EdgeAt(req, at).in) /\ TheDest = Ata(EdgeAt(req, at).out)
        /\ TheAmount = IF at = 1 THEN BuiltAmount(req, 1) ELSE in_amount
        /\ TheLast = IndexAt(req, version, at + 1)
    BY <1>2, <1>3, <1>4, HopIsAsBuilt
  <1>6. PICK a, b : a = EdgeAt(req, at).in /\ b = EdgeAt(req, at).out
    OBVIOUS
  <1>7. a \in Mints /\ b \in Mints /\ a # b /\ b = OutAt(req, at) /\ (at = 1 => a = InMint(req))
        /\ (at # 1 => a = OutAt(req, at - 1) /\ at - 1 \in 1 .. HopsOf(req))
    <2>1. a \in Mints /\ b \in Mints /\ a # b /\ b = OutAt(req, at)
      BY <1>2, <1>3, <1>6, MintsOf DEF OutAt
    <2>2. at = 1 => a = InMint(req)
      BY <1>2, <1>6, MintsOf
    <2>3. ASSUME at # 1 PROVE a = OutAt(req, at - 1) /\ at - 1 \in 1 .. HopsOf(req)
      <3>1. at \in 2 .. HopsOf(req) /\ at - 1 \in 1 .. HopsOf(req)
        BY <1>2, <1>3, <2>3, RouteOf
      <3> QED BY <3>1, <1>2, <1>6, MintsOf
    <2> QED BY <2>1, <2>2, <2>3
  <1>8. \A m \in Mints : IsTokenAccount(Ata(m)) <=> Present(ledger, m)
    BY DEF IsTokenAccount, Ata, Present
  <1>9. Made(ledger, saved, req)
    BY <1>4 DEF Between
  <1>10. CASE /\ ~IsTokenAccount(TheIx[1]) \/ ~IsTokenAccount(TheSource) \/ ~IsTokenAccount(TheDest)
              /\ Fail("missing_account")
    <2>1. ~Present(ledger, a) \/ ~Present(ledger, b)
      BY <1>5, <1>6, <1>7, <1>8, <1>10
    <2>2. MayMiss(saved, req)
      <3>1. CASE ~Present(ledger, b)
        <4>1. ~MakesOut(req, at)
          BY <1>3, <1>7, <1>9, <3>1 DEF Made
        <4> QED BY <4>1 DEF MakesOut, MayMiss
      <3>2. CASE ~Present(ledger, a) /\ at = 1
        <4>1. a = InMint(req)
          BY <1>7, <3>2
        <4>2. ~Present(saved, a)
          BY <1>7, <1>9, <3>2 DEF Made, Keeps
        <4>3. ~WrapsInput(req)
          BY <4>1, <1>9, <3>2 DEF Made, WrapsInput, InMint
        <4> QED BY <4>1, <4>2, <4>3 DEF MayMiss
      <3>3. CASE ~Present(ledger, a) /\ at # 1
        <4>1. ~MakesOut(req, at - 1)
          BY <1>7, <1>9, <3>3 DEF Made
        <4> QED BY <4>1 DEF MakesOut, MayMiss
      <3> QED BY <2>1, <3>1, <3>2, <3>3
    <2> QED BY <1>1, <1>10, <2>2, FailKeeps
  <1>11. CASE Fail("pool")
    BY <1>1, <1>11, FailKeeps
  <1>12. CASE \E taken \in Takes(TheProgram, TheAmount), got \in 0 .. MaxOut : HopTaken(taken, got)
    <2>1. PICK taken \in Takes(TheProgram, TheAmount), got \in 0 .. MaxOut : HopTaken(taken, got)
      BY <1>12
    <2>2. got \in Nat
      BY ExecutorAssumption
    <2>3. taken \in Nat /\ taken <= TheAmount
      <3>1. TheAmount \in Nat
        <4>1. 1 \in 1 .. HopsOf(req)
          BY <1>2, RouteOf
        <4>2. BuiltAmount(req, 1) \in Nat
          BY <1>2, <4>1, RouteOf
        <4> QED BY <4>2, <1>2, <1>5
      <3> QED BY <3>1, TakesAtMost
    <2>4. taken <= IF at = 1 THEN MostIn(req) ELSE in_amount
      BY <1>5, <2>3 DEF MostIn
    <2>5. TheSource[2] = a /\ TheDest[2] = b /\ TheIx[1][2] = b
      BY <1>5, <1>6 DEF Ata
    <2>6. Present(ledger, a) /\ Present(ledger, b) /\ taken <= ledger.ata[a]
      BY <1>5, <1>6, <1>7, <1>8, <2>1, <2>5 DEF HopTaken, get_balance
    <2>7. PICK l2 : l2 = [ledger EXCEPT !.ata[a] = @ - taken, !.ata[b] = @ + got]
      OBVIOUS
    <2>8. Traded(ledger, l2, a, b, taken, got)
      BY <1>2, <1>7, <2>2, <2>3, <2>6, <2>7, HopTrades, Zenon
    <2>9. l2 = Moved(TheSource[2], TheDest[2], taken, got)
      BY <2>5, <2>7, Zenon DEF Moved
    <2>10. /\ ledger' = l2 /\ in_amount' = l2.ata[b] - ledger.ata[b] /\ output_amount' = in_amount'
           /\ input_amount' = IF at = 1
              /\ version = "v3" THEN InputSpent(TheHop, l2) ELSE input_amount
           /\ ix_account_index' = TheLast /\ at' = at + 1
           /\ saved' = saved /\ req' = req /\ version' = version /\ swap' = swap /\ pc' = pc
      BY <2>1, <2>5, <2>9 DEF HopTaken, get_balance
    <2>11. in_amount' = got /\ IsLedger(l2)
      BY <2>8, <2>10 DEF Traded
    <2>12. input_amount' = IF at = 1 /\ version = "v3" THEN taken ELSE input_amount
      <3>1. at = 1 => InputSpent(TheHop, l2) = taken
        <4>1. swap.swap.accounts[1] = Ata(InMint(req))
          BY <1>2, FirstAccount
        <4>2. InputSpent(TheHop, l2) = ledger.ata[InMint(req)] - l2.ata[InMint(req)]
          BY <4>1 DEF InputSpent, get_balance, Ata
        <4> QED BY <4>2, <1>7, <2>8 DEF Traded
      <3> QED BY <3>1, <2>10
    <2>13. Between(l2, saved, req, version, at + 1, input_amount', got)
      <3>1. Traded(ledger, l2, EdgeAt(req, at).in, OutAt(req, at), taken, got)
        BY <1>6, <1>7, <2>8
      <3> QED BY <1>2, <1>3, <1>4, <2>2, <2>3, <2>4, <2>12, <3>1, HopKeepsBooks
    <2>14. ExecType'
      <3>1. at + 1 \in Nat \ {0}
        BY <1>1 DEF ExecType
      <3> QED BY <1>1, <2>2, <2>10, <2>11, <3>1 DEF ExecType
    <2>15. InHops'
      BY <1>5, <2>10, <2>11, <2>13 DEF InHops
    <2> QED BY <1>1, <2>10, <2>14, <2>15 DEF ExecInv
  <1> QED
    BY <1>5, <1>10, <1>11, <1>12, HopOutcome
LEMMA EndKeeps ==
    ASSUME ExecInv, EndSwap
    PROVE  ExecInv'
  <1>1. pc = "hops" /\ ExecType /\ InHops /\ at > Len(swap.swap.hops)
    BY DEF ExecInv, EndSwap
  <1>2. req \in Requests /\ swap = Built(req) /\ in_amount \in Nat /\ HopsOf(req) \in Nat \ {0}
    BY <1>1, RouteOf DEF ExecType
  <1>3. Len(swap.swap.hops) = HopsOf(req) /\ swap.swap.min_out_amount = LeastOut(req)
    BY <1>2, BuiltShape DEF LeastOut
  <1>4. LeastOut(req) \in Nat
    BY <1>2, RouteOf DEF LeastOut
  <1>5. CASE in_amount < swap.swap.min_out_amount
    <2>1. Fail("slippage")
      BY <1>5 DEF EndSwap
    <2> QED BY <1>1, <2>1, FailKeeps
  <1>6. CASE ~(in_amount < swap.swap.min_out_amount)
    <2>1. /\ pc' = "cleanup" /\ at' = 1 /\ ledger' = ledger /\ saved' = saved /\ req' = req
          /\ version' = version /\ swap' = swap /\ in_amount' = in_amount
          /\ input_amount' = input_amount /\ output_amount' = output_amount
      BY <1>6 DEF EndSwap, Cursor
    <2>2. ExecType'
      BY <1>1, <2>1 DEF ExecType
    <2>3. Between(ledger, saved, req, version, at, input_amount, in_amount)
      BY <1>1 DEF InHops
    <2>4. at = HopsOf(req) + 1 /\ at # 1 /\ at - 1 = HopsOf(req)
      <3>1. at \in 1 .. HopsOf(req) + 1
        BY <2>3 DEF Between
      <3> QED BY <1>1, <1>2, <1>3, <3>1
    <2>5. output_amount = in_amount
      BY <1>1, <2>4 DEF InHops
    <2>6. in_amount >= LeastOut(req)
      BY <1>2, <1>3, <1>4, <1>6
    <2>7. Done(ledger, saved, req, version, input_amount, output_amount)
      BY <2>3, <2>4, <2>5, <2>6 DEF Between, Done
    <2>8. UsesSol(req) => Present(ledger, SOL)
      <3>1. Made(ledger, saved, req)
        BY <2>3 DEF Between
      <3> QED BY <3>1 DEF Made, UsesSol, WrapsInput, MakesOut, OutAt
    <2>9. InCleanup'
      BY <2>1, <2>8 DEF InCleanup
    <2> QED BY <2>1, <2>2, <2>7, <2>9 DEF ExecInv
  <1> QED
    BY <1>5, <1>6

LEMMA DoneStays ==
    ASSUME NEW l, NEW l2, SameWealth(l, l2), NEW s, NEW r \in Requests, NEW v, NEW input, NEW output,
           Done(l, s, r, v, input, output)
    PROVE  Done(l2, s, r, v, input, output)
  <1>1. \A m \in Mints : Owns(l2, m) = Owns(l, m)
    BY DEF SameWealth
  <1>2. InMint(r) \in Mints /\ OutAt(r, HopsOf(r)) \in Mints
    <2>1. HopsOf(r) \in 1 .. HopsOf(r)
      BY RouteOf
    <2> QED BY <2>1, MintsOf
  <1> QED
    BY <1>1, <1>2 DEF Done, Paid, Spent

LEMMA CleanupKeeps ==
    ASSUME ExecInv, Cleanup
    PROVE  ExecInv'
  <1>1. /\ pc = "cleanup" /\ ExecType /\ InCleanup
        /\ Done(ledger, saved, req, version, input_amount, output_amount)
    BY DEF ExecInv, Cleanup, RunNative
  <1>2. PICK t : /\ t = CleanupOf(req.route, req.wrap)
                 /\ \A j \in 1 .. Len(t) : t[j] = close_wsol_ata
                 /\ Len(t) = IF UsesSol(req) THEN 1 ELSE 0
    BY <1>1, CleanupIs DEF ExecType
  <1>3. swap.cleanup = t
    <2>1. swap = Built(req) /\ req \in Requests
      BY <1>1 DEF ExecType
    <2> QED BY <1>2, <2>1, BuiltShape
  <1>4. CASE at > Len(t)
    <2>1. /\ pc' = "committed" /\ at' = 1 /\ ledger' = ledger /\ saved' = saved /\ req' = req
          /\ version' = version /\ swap' = swap /\ in_amount' = in_amount
          /\ input_amount' = input_amount /\ output_amount' = output_amount
      BY <1>3, <1>4 DEF Cleanup, RunNative, Cursor
    <2>2. ExecType'
      BY <1>1, <2>1 DEF ExecType
    <2>3. UsesSol(req) => ~Present(ledger, SOL)
      BY <1>1, <1>2, <1>4 DEF InCleanup
    <2> QED BY <1>1, <2>1, <2>2, <2>3 DEF ExecInv
  <1>5. CASE ~(at > Len(t))
    <2>1. at = 1 /\ UsesSol(req) /\ Len(t) = 1
      BY <1>1, <1>2, <1>5 DEF InCleanup
    <2>2. t[at] = close_wsol_ata
      BY <1>2, <2>1
    <2>3. t[at].op = "close"
      BY <2>2 DEF close_wsol_ata
    <2>4. Present(ledger, SOL)
      BY <1>1, <2>1 DEF InCleanup
    <2>5. ~Refused(t[at])
      BY <2>3, <2>4 DEF Refused, Present
    <2>6. /\ ledger' = Apply(t[at]) /\ at' = at + 1 /\ pc' = pc /\ saved' = saved /\ req' = req
          /\ version' = version /\ swap' = swap /\ in_amount' = in_amount
          /\ input_amount' = input_amount /\ output_amount' = output_amount
      BY <1>3, <1>5, <2>5 DEF Cleanup, RunNative, Cursor
    <2>7. ledger' = [ledger EXCEPT !.native = @ + ledger.ata[SOL], !.ata[SOL] = Absent]
      BY <2>3, <2>6 DEF Apply
    <2>8. SameWealth(ledger, ledger') /\ ~Present(ledger', SOL)
      <3>1. IsLedger(ledger)
        BY <1>1 DEF ExecType
      <3> QED BY <2>4, <2>7, <3>1, Closed, Zenon
    <2>9. ExecType'
      BY <1>1, <2>1, <2>6, <2>8 DEF ExecType, SameWealth
    <2>10. Done(ledger', saved, req, version, input_amount, output_amount)
      <3>1. req \in Requests
        BY <1>1 DEF ExecType
      <3> QED BY <1>1, <2>8, <3>1, DoneStays
    <2>11. InCleanup'
      BY <2>1, <2>6, <2>8 DEF InCleanup
    <2> QED BY <1>1, <2>6, <2>9, <2>10, <2>11 DEF ExecInv
  <1> QED
    BY <1>4, <1>5

(* Every step keeps the invariant. *)
LEMMA ExecInductive == ExecInv /\ [Next]_vars => ExecInv'
  <1> SUFFICES ASSUME ExecInv, [Next]_vars PROVE ExecInv'
    OBVIOUS
  <1>1. CASE Next
    BY <1>1, BuildKeeps, SetupKeeps, EnterKeeps, HopKeeps, EndKeeps, CleanupKeeps DEF Next
  <1>2. CASE UNCHANGED vars
    BY <1>2 DEF vars, ExecInv, ExecType, InSetup, InHops, InCleanup
  <1> QED
    BY <1>1, <1>2

(* The books of a swap transaction are in order at every step. *)
THEOREM ExecutorInvariant == Spec => []ExecInv
  BY ExecInitial, ExecInductive, PTL DEF Spec

(* For any routes without cycles, any balances and any answers of the pools, *)
(* a committed swap honours its limits.                                      *)
THEOREM SwapLimitsHonoured == Spec => []SwapHonoursLimits
  <1>1. ExecInv => SwapHonoursLimits
    <2> SUFFICES ASSUME ExecInv, pc = "committed"
                 PROVE  /\ - Gain(req.route.input_mint) <= MaxIn
                        /\ Gain(OutputMint) >= MinGain
                        /\ \A m \in Mints \ {req.route.input_mint} : Gain(m) >= 0
      BY DEF SwapHonoursLimits
    <2>1. ExecType /\ Done(ledger, saved, req, version, input_amount, output_amount)
      BY DEF ExecInv
    <2>2. \A m \in Mints : Owns(ledger, m) \in Int /\ Owns(saved, m) \in Int
      BY <2>1, OwnsInt DEF ExecType
    <2>3. req \in Requests /\ InMint(req) \in Mints /\ MaxIn = MostIn(req)
      <3>1. req \in Requests
        BY <2>1 DEF ExecType
      <3> QED BY <3>1, MintsOf, RouteOf DEF MaxIn, MostIn, BuiltAmount
    <2>4. - Gain(req.route.input_mint) <= MaxIn
      <3>1. Owns(saved, InMint(req)) - Owns(ledger, InMint(req)) <= MostIn(req)
        BY <2>1 DEF Done, Paid, Spent
      <3>2. - Gain(InMint(req)) = Owns(saved, InMint(req)) - Owns(ledger, InMint(req))
        BY <2>2, <2>3 DEF Gain
      <3> QED BY <3>1, <3>2, <2>3 DEF InMint
    <2>5. Gain(OutputMint) >= MinGain
      <3>1. OutputMint = OutAt(req, HopsOf(req)) /\ MinGain = LeastOut(req)
        BY DEF OutputMint, OutAt, EdgeAt, HopsOf, MinGain, LeastOut
      <3> QED BY <3>1, <2>1 DEF Gain, Done
    <2>6. \A m \in Mints \ {req.route.input_mint} : Gain(m) >= 0
      BY <2>1, <2>2 DEF Gain, Done, Paid, InMint
    <2> QED BY <2>4, <2>5, <2>6
  <1> QED
    BY <1>1, ExecutorInvariant, PTL

(* The event of execute_swap_v3 tells what the wallet paid and got. *)
THEOREM SwapEventTrue == Spec => []EventMatchesLedger
  <1>1. ExecInv => EventMatchesLedger
    <2> SUFFICES ASSUME ExecInv, pc = "committed", version = "v3"
                 PROVE  /\ input_amount = - Gain(req.route.input_mint)
                        /\ output_amount = Gain(OutputMint)
      BY DEF EventMatchesLedger
    <2>1. ExecType /\ Done(ledger, saved, req, version, input_amount, output_amount)
      BY DEF ExecInv
    <2>2. \A m \in Mints : Owns(ledger, m) \in Int /\ Owns(saved, m) \in Int
      BY <2>1, OwnsInt DEF ExecType
    <2>3. InMint(req) \in Mints
      BY <2>1, MintsOf DEF ExecType
    <2>4. input_amount = - Gain(InMint(req))
      <3>1. input_amount = Owns(saved, InMint(req)) - Owns(ledger, InMint(req))
        BY <2>1 DEF Done, Paid, Spent
      <3> QED BY <3>1, <2>2, <2>3 DEF Gain
    <2>5. output_amount = Gain(OutputMint)
      <3>1. OutputMint = OutAt(req, HopsOf(req))
        BY DEF OutputMint, OutAt, EdgeAt, HopsOf
      <3> QED BY <3>1, <2>1 DEF Gain, Done
    <2> QED BY <2>4, <2>5 DEF InMint
  <1> QED
    BY <1>1, ExecutorInvariant, PTL

(* No wrapped SOL is left behind. *)
THEOREM SolUnwrapped == Spec => []NothingLeftWrapped
  <1>1. ExecInv => NothingLeftWrapped
    <2> SUFFICES ASSUME ExecInv, pc = "committed", req.wrap,
                        \/ req.route.input_mint = SOL
                        \/ \E i \in DOMAIN req.route.steps : req.route.steps[i].edge.out = SOL
                 PROVE  ledger.ata[SOL] = Absent
      BY DEF NothingLeftWrapped
    <2>1. req \in Requests
      BY DEF ExecInv, ExecType
    <2>2. DOMAIN req.route.steps = 1 .. HopsOf(req)
      BY <2>1, RouteOf
    <2>3. UsesSol(req)
      BY <2>2 DEF UsesSol, EdgeAt
    <2> QED BY <2>3 DEF ExecInv, Present
  <1> QED
    BY <1>1, ExecutorInvariant, PTL

-----------------------------------------------------------------------------
(* accounts_needed covers the accounts of the instruction of every edge.     *)

(* A list has no more elements than its length. *)
LEMMA ListedAtMost ==
    ASSUME NEW w, IsList(w), NEW T, T \subseteq Range(w)
    PROVE  IsFiniteSet(T) /\ Cardinality(T) \in Nat /\ Cardinality(T) <= Len(w)
  <1>1. PICK S : w \in Seq(S)
    BY DEF IsList
  <1>2. PICK n : n = Len(w) /\ n \in Nat /\ DOMAIN w = 1 .. n
    BY <1>1
  <1>3. IsFiniteSet(1 .. n) /\ Cardinality(1 .. n) = n
    <2>1. 1 \in Int /\ n \in Int
      BY <1>2
    <2>2. /\ IsFiniteSet(1 .. n)
          /\ Cardinality(1 .. n) = IF 1 > n THEN 0 ELSE n - 1 + 1
      BY <2>1, FS_Interval, Zenon
    <2> QED BY <1>2, <2>2
  <1>4. w \in Surjection(1 .. n, Range(w))
    <2>1. w \in [1 .. n -> Range(w)] /\ \A t \in Range(w) : \E s \in 1 .. n : w[s] = t
      BY <1>1, <1>2 DEF Range
    <2> QED BY <2>1 DEF Surjection
  <1>5. IsFiniteSet(Range(w)) /\ Cardinality(Range(w)) <= n
    BY <1>3, <1>4, FS_Surjection
  <1>6. IsFiniteSet(T) /\ Cardinality(T) <= Cardinality(Range(w))
    BY <1>5, FS_Subset
  <1>7. Cardinality(T) \in Nat /\ Cardinality(Range(w)) \in Nat
    BY <1>5, <1>6, FS_CardinalityType
  <1> QED
    BY <1>2, <1>5, <1>6, <1>7

LEMMA TwoListsAtMost ==
    ASSUME NEW w, NEW q, IsList(w), IsList(q), NEW T, T \subseteq Range(w) \cup Range(q),
           Len(w) \in Nat, Len(q) \in Nat
    PROVE  Cardinality(T) \in Nat /\ Cardinality(T) <= Len(w) + Len(q)
  <1>1. PICK A, B : A = Range(w) /\ B = Range(q)
    OBVIOUS
  <1>2. IsFiniteSet(A) /\ Cardinality(A) \in Nat /\ Cardinality(A) <= Len(w)
    BY <1>1, ListedAtMost
  <1>3. IsFiniteSet(B) /\ Cardinality(B) \in Nat /\ Cardinality(B) <= Len(q)
    BY <1>1, ListedAtMost
  <1>4. /\ IsFiniteSet(A \cup B)
        /\ Cardinality(A \cup B) = Cardinality(A) + Cardinality(B) - Cardinality(A \cap B)
    BY <1>2, <1>3, FS_Union
  <1>5. Cardinality(A \cap B) \in Nat
    <2>1. A \cap B \in SUBSET A
      OBVIOUS
    <2>2. IsFiniteSet(A \cap B)
      BY <2>1, <1>2, FS_Subset
    <2> QED BY <2>2, FS_CardinalityType
  <1>6. T \in SUBSET (A \cup B)
    BY <1>1
  <1>7. IsFiniteSet(T) /\ Cardinality(T) <= Cardinality(A \cup B)
    BY <1>4, <1>6, FS_Subset
  <1>8. Cardinality(T) \in Nat
    BY <1>7, FS_CardinalityType
  <1> QED
    BY <1>2, <1>3, <1>4, <1>5, <1>7, <1>8

LEMMA RangeOfConcat ==
    ASSUME NEW p, NEW q, IsList(p), IsList(q)
    PROVE  IsList(p \o q) /\ Range(p \o q) \subseteq Range(p) \cup Range(q)
  <1>1. PICK u : u = p \o q /\ IsList(u) /\ IsConcat(u, p, q)
    BY ListConcat
  <1>2. Len(p) \in Nat /\ Len(q) \in Nat /\ DOMAIN u = 1 .. Len(u)
    BY <1>1 DEF IsList
  <1>3. ASSUME NEW j \in 1 .. Len(p) + Len(q) PROVE u[j] \in Range(p) \cup Range(q)
    <2>1. u[j] = IF j <= Len(p) THEN p[j] ELSE q[j - Len(p)]
      BY <1>1 DEF IsConcat
    <2>2. CASE j <= Len(p)
      <3>1. j \in 1 .. Len(p) 
        BY <2>2, <1>2
      <3> QED BY <3>1, <2>1, <2>2, InRange
    <2>3. CASE ~(j <= Len(p))
      <3>1. j - Len(p) \in 1 .. Len(q) 
        BY <2>3, <1>2
      <3> QED BY <3>1, <2>1, <2>3, InRange
    <2> QED BY <2>2, <2>3
  <1>4. Len(u) = Len(p) + Len(q)
    BY <1>1 DEF IsConcat
  <1>5. Range(u) = {u[j] : j \in 1 .. Len(p) + Len(q)}
    BY <1>2, <1>4 DEF Range
  <1> QED
    BY <1>1, <1>3, <1>5

LEMMA ListWithin ==
    ASSUME NEW S, NEW w \in Seq(S)
    PROVE  IsList(w) /\ Range(w) \subseteq S
  BY DEF IsList, Range

LEMMA MoreAreList ==
    ASSUME NEW e \in Edges, NEW q, q = [i \in DOMAIN e.more |-> Pool(e, e.more[i])]
    PROVE  IsList(q) /\ Len(q) = Len(e.more) /\ Len(q) \in Nat
  <1>1. PICK n : n = Len(e.more) /\ n \in Nat /\ DOMAIN e.more = 1 .. n
    BY DEF Edges
  <1>2. q \in Seq({Pool(e, e.more[i]) : i \in 1 .. n}) /\ Len(q) = n
    BY <1>1
  <1> QED BY <1>1, <1>2 DEF IsList

LEMMA raydium_needs ==
    ASSUME NEW e \in Edges, NEW in, NEW out, NEW bps
    PROVE  Cardinality(AddedByStep(raydium_ix(e, in, out, bps))) <= 6
  <1> DEFINE p == <<TokenProgram, Pool(e, "amm"), Pool(e, "authority"), Pool(e, "amm"),
                    VaultOf(e, TokenA(e)), VaultOf(e, TokenB(e))>>
             q == [i \in 1..8 |-> Pool(e, "amm")]
             r == <<Ata(e.in), Ata(e.out), Wallet>>
             w == <<Pool(e, "amm"), Pool(e, "authority"), VaultOf(e, TokenA(e)),
                    VaultOf(e, TokenB(e)), Ata(e.in)>>
             S == {Pool(e, "amm"), Pool(e, "authority"), VaultOf(e, TokenA(e)),
                   VaultOf(e, TokenB(e)), Ata(e.in)}
             C == {Wallet, Ata(e.out), TokenProgram, SystemProgram}
  <1>1. PICK ix : ix = raydium_ix(e, in, out, bps)
    OBVIOUS
  <1>2. ix.accounts = p \o q \o r /\ AddedByStep(ix) = Range(ix.accounts) \ C
    BY <1>1 DEF raydium_ix, SwapInstruction, AddedByStep
  <1>3. IsList(w) /\ Len(w) = 5 /\ S \subseteq Range(w)
    <2>1. w \in Seq(S) /\ Len(w) = 5
      OBVIOUS
    <2>2. IsList(w)
      BY <2>1 DEF IsList
    <2>3. ASSUME NEW j \in 1 .. 5 PROVE w[j] \in Range(w)
      BY <2>1, <2>2, InRange
    <2>4. S = {w[j] : j \in 1 .. 5}
      OBVIOUS
    <2> QED BY <2>1, <2>2, <2>3, <2>4
  <1>5. p \in Seq(C \cup S)
    OBVIOUS
  <1>6. q \in Seq(C \cup S)
    OBVIOUS
  <1>7. r \in Seq(C \cup S)
    OBVIOUS
  <1> HIDE DEF p, q, r, w, S, C
  <1>8. IsList(p) /\ Range(p) \subseteq C \cup S
    BY <1>5, ListWithin
  <1>9. IsList(q) /\ Range(q) \subseteq C \cup S
    BY <1>6, ListWithin
  <1>10. IsList(r) /\ Range(r) \subseteq C \cup S
    BY <1>7, ListWithin
  <1>11. IsList(p \o q) /\ Range(p \o q) \subseteq C \cup S
    BY <1>8, <1>9, RangeOfConcat
  <1>12. Range(p \o q \o r) \subseteq C \cup S
    BY <1>10, <1>11, RangeOfConcat
  <1>13. AddedByStep(ix) \subseteq Range(w)
    BY <1>2, <1>3, <1>12
  <1>14. Cardinality(AddedByStep(ix)) \in Nat /\ Cardinality(AddedByStep(ix)) <= Len(w)
    BY <1>3, <1>13, ListedAtMost
  <1>15. Cardinality(AddedByStep(ix)) <= 6
    BY <1>3, <1>14
  <1> QED
    BY <1>1, <1>15

LEMMA raydium_cp_needs ==
    ASSUME NEW e \in Edges, NEW in, NEW out, NEW bps
    PROVE  Cardinality(AddedByStep(raydium_cp_ix(e, in, out, bps))) <= 11
  <1> DEFINE p == <<Wallet, Pool(e, "authority"), Pool(e, "amm_config"),
                    Pool(e, "pool_state"), Ata(e.in), Ata(e.out), VaultOf(e, e.in),
                    VaultOf(e, e.out), TokenProgram, TokenProgram, <<"mint", e.in>>,
                    <<"mint", e.out>>, Pool(e, "observation_state")>>
             w == <<Pool(e, "authority"), Pool(e, "amm_config"), Pool(e, "pool_state"),
                    Pool(e, "observation_state"), Ata(e.in), VaultOf(e, e.in),
                    VaultOf(e, e.out), <<"mint", e.in>>, <<"mint", e.out>>>>
             S == {Pool(e, "authority"), Pool(e, "amm_config"), Pool(e, "pool_state"),
                   Pool(e, "observation_state"), Ata(e.in), VaultOf(e, e.in),
                   VaultOf(e, e.out), <<"mint", e.in>>, <<"mint", e.out>>}
             C == {Wallet, Ata(e.out), TokenProgram, SystemProgram}
  <1>1. PICK ix : ix = raydium_cp_ix(e, in, out, bps)
    OBVIOUS
  <1>2. ix.accounts = p /\ AddedByStep(ix) = Range(ix.accounts) \ C
    BY <1>1 DEF raydium_cp_ix, SwapInstruction, AddedByStep
  <1>3. IsList(w) /\ Len(w) = 9 /\ S \subseteq Range(w)
    <2>1. w \in Seq(S) /\ Len(w) = 9
      OBVIOUS
    <2>2. IsList(w)
      BY <2>1 DEF IsList
    <2>3. ASSUME NEW j \in 1 .. 9 PROVE w[j] \in Range(w)
      BY <2>1, <2>2, InRange
    <2>4. S = {w[j] : j \in 1 .. 9}
      OBVIOUS
    <2> QED BY <2>1, <2>2, <2>3, <2>4
  <1>5. p \in Seq(C \cup S)
    OBVIOUS
  <1> HIDE DEF p, w, S, C
  <1>8. IsList(p) /\ Range(p) \subseteq C \cup S
    BY <1>5, ListWithin
  <1>13. AddedByStep(ix) \subseteq Range(w)
    BY <1>2, <1>3, <1>8
  <1>14. Cardinality(AddedByStep(ix)) \in Nat /\ Cardinality(AddedByStep(ix)) <= Len(w)
    BY <1>3, <1>13, ListedAtMost
  <1>15. Cardinality(AddedByStep(ix)) <= 11
    BY <1>3, <1>14
  <1> QED
    BY <1>1, <1>15

LEMMA saber_needs ==
    ASSUME NEW e \in Edges, NEW in, NEW out, NEW bps
    PROVE  Cardinality(AddedByStep(saber_ix(e, in, out, bps))) <= 7
  <1> DEFINE p == <<Pool(e, "pool"), Pool(e, "authority"), Wallet, Ata(e.in),
                    VaultOf(e, e.in), VaultOf(e, e.out), Ata(e.out),
                    Pool(e, "admin_fees_" \o e.out), TokenProgram>>
             w == <<Pool(e, "pool"), Pool(e, "authority"), Ata(e.in), VaultOf(e, e.in),
                    VaultOf(e, e.out), Pool(e, "admin_fees_" \o e.out)>>
             S == {Pool(e, "pool"), Pool(e, "authority"), Ata(e.in), VaultOf(e, e.in),
                   VaultOf(e, e.out), Pool(e, "admin_fees_" \o e.out)}
             C == {Wallet, Ata(e.out), TokenProgram, SystemProgram}
  <1>1. PICK ix : ix = saber_ix(e, in, out, bps)
    OBVIOUS
  <1>2. ix.accounts = p /\ AddedByStep(ix) = Range(ix.accounts) \ C
    BY <1>1 DEF saber_ix, SwapInstruction, AddedByStep
  <1>3. IsList(w) /\ Len(w) = 6 /\ S \subseteq Range(w)
    <2>1. w \in Seq(S) /\ Len(w) = 6
      OBVIOUS
    <2>2. IsList(w)
      BY <2>1 DEF IsList
    <2>3. ASSUME NEW j \in 1 .. 6 PROVE w[j] \in Range(w)
      BY <2>1, <2>2, InRange
    <2>4. S = {w[j] : j \in 1 .. 6}
      OBVIOUS
    <2> QED BY <2>1, <2>2, <2>3, <2>4
  <1>5. p \in Seq(C \cup S)
    OBVIOUS
  <1> HIDE DEF p, w, S, C
  <1>8. IsList(p) /\ Range(p) \subseteq C \cup S
    BY <1>5, ListWithin
  <1>13. AddedByStep(ix) \subseteq Range(w)
    BY <1>2, <1>3, <1>8
  <1>14. Cardinality(AddedByStep(ix)) \in Nat /\ Cardinality(AddedByStep(ix)) <= Len(w)
    BY <1>3, <1>13, ListedAtMost
  <1>15. Cardinality(AddedByStep(ix)) <= 7
    BY <1>3, <1>14
  <1> QED
    BY <1>1, <1>15

LEMMA openbook_v2_needs ==
    ASSUME NEW e \in Edges, NEW in, NEW out, NEW bps
    PROVE  Cardinality(AddedByStep(openbook_v2_ix(e, in, out, bps))) <= 11
  <1> DEFINE p == <<<<"program", "openbook_v2">>, Wallet, Wallet, Pool(e, "market"),
                    Pool(e, "market_authority"), Pool(e, "bids"), Pool(e, "asks"),
                    VaultOf(e, TokenA(e)), VaultOf(e, TokenB(e)), Pool(e, "event_heap"),
                    Ata(TokenA(e)), Ata(TokenB(e)), <<"program", "openbook_v2">>,
                    <<"program", "openbook_v2">>, TokenProgram, SystemProgram,
                    <<"program", "openbook_v2">>>>
             q == included_makers(e)
             w == <<<<"program", "openbook_v2">>, Pool(e, "market"),
                    Pool(e, "market_authority"), Pool(e, "bids"), Pool(e, "asks"),
                    Pool(e, "event_heap"), VaultOf(e, TokenA(e)), VaultOf(e, TokenB(e)),
                    Ata(e.in)>>
             S == {<<"program", "openbook_v2">>, Pool(e, "market"),
                   Pool(e, "market_authority"), Pool(e, "bids"), Pool(e, "asks"),
                   Pool(e, "event_heap"), VaultOf(e, TokenA(e)), VaultOf(e, TokenB(e)),
                   Ata(e.in)}
             C == {Wallet, Ata(e.out), TokenProgram, SystemProgram}
  <1>1. PICK ix : ix = openbook_v2_ix(e, in, out, bps)
    OBVIOUS
  <1>2. ix.accounts = p \o q /\ AddedByStep(ix) = Range(ix.accounts) \ C
    BY <1>1 DEF openbook_v2_ix, SwapInstruction, AddedByStep
  <1>3. IsList(w) /\ Len(w) = 9 /\ S \subseteq Range(w)
    <2>1. w \in Seq(S) /\ Len(w) = 9
      OBVIOUS
    <2>2. IsList(w)
      BY <2>1 DEF IsList
    <2>3. ASSUME NEW j \in 1 .. 9 PROVE w[j] \in Range(w)
      BY <2>1, <2>2, InRange
    <2>4. S = {w[j] : j \in 1 .. 9}
      OBVIOUS
    <2> QED BY <2>1, <2>2, <2>3, <2>4
  <1>4. {Ata(TokenA(e)), Ata(TokenB(e))} \subseteq C \cup S
    BY DEF TokenA, TokenB
  <1>5. p \in Seq(C \cup S)
    BY <1>4
  <1>6. IsList(q) /\ Len(q) \in Nat /\ Len(q) <= 2
    BY MakersAreList
  <1> HIDE DEF p, q, w, S, C
  <1>8. IsList(p) /\ Range(p) \subseteq C \cup S
    BY <1>5, ListWithin
  <1>11. IsList(p \o q) /\ Range(p \o q) \subseteq C \cup S \cup Range(q)
    BY <1>6, <1>8, RangeOfConcat
  <1>13. AddedByStep(ix) \subseteq Range(w) \cup Range(q)
    BY <1>2, <1>3, <1>11
  <1>14. /\ Cardinality(AddedByStep(ix)) \in Nat
         /\ Cardinality(AddedByStep(ix)) <= Len(w) + Len(q)
    <2>1. Len(w) \in Nat /\ Len(q) \in Nat
      BY <1>3, <1>6
    <2> QED BY <2>1, <1>3, <1>6, <1>13, TwoListsAtMost
  <1>15. Cardinality(AddedByStep(ix)) <= 11
    BY <1>3, <1>14, <1>6
  <1> QED
    BY <1>1, <1>15

LEMMA invariant_needs ==
    ASSUME NEW e \in Edges, NEW in, NEW out, NEW bps
    PROVE  /\ Cardinality(AddedByStep(invariant_ix(e, in, out, bps))) \in Nat
           /\ Cardinality(AddedByStep(invariant_ix(e, in, out, bps))) <= 9 + Len(e.more)
  <1> DEFINE p == <<Pool(e, "state"), Pool(e, "pool"), Pool(e, "tickmap"),
                    <<"mint", TokenA(e)>>, <<"mint", TokenB(e)>>, Ata(TokenA(e)),
                    Ata(TokenB(e)), VaultOf(e, TokenA(e)), VaultOf(e, TokenB(e)), Wallet,
                    Pool(e, "authority"), TokenProgram, TokenProgram>>
             q == [i \in DOMAIN e.more |-> Pool(e, e.more[i])]
             w == <<Pool(e, "state"), Pool(e, "pool"), Pool(e, "tickmap"),
                    Pool(e, "authority"), <<"mint", TokenA(e)>>, <<"mint", TokenB(e)>>,
                    VaultOf(e, TokenA(e)), VaultOf(e, TokenB(e)), Ata(e.in)>>
             S == {Pool(e, "state"), Pool(e, "pool"), Pool(e, "tickmap"),
                   Pool(e, "authority"), <<"mint", TokenA(e)>>, <<"mint", TokenB(e)>>,
                   VaultOf(e, TokenA(e)), VaultOf(e, TokenB(e)), Ata(e.in)}
             C == {Wallet, Ata(e.out), TokenProgram, SystemProgram}
  <1>1. PICK ix : ix = invariant_ix(e, in, out, bps)
    OBVIOUS
  <1>2. ix.accounts = p \o q /\ AddedByStep(ix) = Range(ix.accounts) \ C
    BY <1>1 DEF invariant_ix, SwapInstruction, AddedByStep
  <1>3. IsList(w) /\ Len(w) = 9 /\ S \subseteq Range(w)
    <2>1. w \in Seq(S) /\ Len(w) = 9
      OBVIOUS
    <2>2. IsList(w)
      BY <2>1 DEF IsList
    <2>3. ASSUME NEW j \in 1 .. 9 PROVE w[j] \in Range(w)
      BY <2>1, <2>2, InRange
    <2>4. S = {w[j] : j \in 1 .. 9}
      OBVIOUS
    <2> QED BY <2>1, <2>2, <2>3, <2>4
  <1>4. {Ata(TokenA(e)), Ata(TokenB(e))} \subseteq C \cup S
    BY DEF TokenA, TokenB
  <1>5. p \in Seq(C \cup S)
    BY <1>4
  <1>6. IsList(q) /\ Len(q) = Len(e.more) /\ Len(q) \in Nat
    BY MoreAreList
  <1> HIDE DEF p, q, w, S, C
  <1>8. IsList(p) /\ Range(p) \subseteq C \cup S
    BY <1>5, ListWithin
  <1>11. IsList(p \o q) /\ Range(p \o q) \subseteq C \cup S \cup Range(q)
    BY <1>6, <1>8, RangeOfConcat
  <1>13. AddedByStep(ix) \subseteq Range(w) \cup Range(q)
    BY <1>2, <1>3, <1>11
  <1>14. /\ Cardinality(AddedByStep(ix)) \in Nat
         /\ Cardinality(AddedByStep(ix)) <= Len(w) + Len(q)
    <2>1. Len(w) \in Nat /\ Len(q) \in Nat
      BY <1>3, <1>6
    <2> QED BY <2>1, <1>3, <1>6, <1>13, TwoListsAtMost
  <1>15. Cardinality(AddedByStep(ix)) <= 9 + Len(e.more)
    BY <1>3, <1>14, <1>6
  <1> QED
    BY <1>1, <1>14, <1>15

LEMMA orca_needs ==
    ASSUME NEW e \in Edges, NEW in, NEW out, NEW bps
    PROVE  Cardinality(AddedByStep(orca_ix(e, in, out, bps))) <= 9
  <1> DEFINE p == <<TokenProgram, Wallet, Pool(e, "pool"), Ata(TokenA(e)),
                    VaultOf(e, TokenA(e)), Ata(TokenB(e)), VaultOf(e, TokenB(e))>>
             q == orca_tick_arrays(e)
             r == <<Pool(e, "oracle")>>
             w == <<Pool(e, "pool"), Pool(e, "oracle"), VaultOf(e, TokenA(e)),
                    VaultOf(e, TokenB(e)), Ata(e.in)>>
             S == {Pool(e, "pool"), Pool(e, "oracle"), VaultOf(e, TokenA(e)),
                   VaultOf(e, TokenB(e)), Ata(e.in)}
             C == {Wallet, Ata(e.out), TokenProgram, SystemProgram}
  <1>1. PICK ix : ix = orca_ix(e, in, out, bps)
    OBVIOUS
  <1>2. ix.accounts = p \o q \o r /\ AddedByStep(ix) = Range(ix.accounts) \ C
    BY <1>1 DEF orca_ix, SwapInstruction, AddedByStep
  <1>3. IsList(w) /\ Len(w) = 5 /\ S \subseteq Range(w)
    <2>1. w \in Seq(S) /\ Len(w) = 5
      OBVIOUS
    <2>2. IsList(w)
      BY <2>1 DEF IsList
    <2>3. ASSUME NEW j \in 1 .. 5 PROVE w[j] \in Range(w)
      BY <2>1, <2>2, InRange
    <2>4. S = {w[j] : j \in 1 .. 5}
      OBVIOUS
    <2> QED BY <2>1, <2>2, <2>3, <2>4
  <1>4. {Ata(TokenA(e)), Ata(TokenB(e))} \subseteq C \cup S
    BY DEF TokenA, TokenB
  <1>5. p \in Seq(C \cup S)
    BY <1>4
  <1>6. IsList(q) /\ Len(q) = 3
    BY TickArraysAreList
  <1>7. r \in Seq(C \cup S)
    OBVIOUS
  <1> HIDE DEF p, q, r, w, S, C
  <1>8. IsList(p) /\ Range(p) \subseteq C \cup S
    BY <1>5, ListWithin
  <1>10. IsList(r) /\ Range(r) \subseteq C \cup S
    BY <1>7, ListWithin
  <1>11. IsList(p \o q) /\ Range(p \o q) \subseteq C \cup S \cup Range(q)
    BY <1>6, <1>8, RangeOfConcat
  <1>12. Range(p \o q \o r) \subseteq C \cup S \cup Range(q)
    BY <1>10, <1>11, RangeOfConcat
  <1>13. AddedByStep(ix) \subseteq Range(w) \cup Range(q)
    BY <1>2, <1>3, <1>12
  <1>14. /\ Cardinality(AddedByStep(ix)) \in Nat
         /\ Cardinality(AddedByStep(ix)) <= Len(w) + Len(q)
    <2>1. Len(w) \in Nat /\ Len(q) \in Nat
      BY <1>3, <1>6
    <2> QED BY <2>1, <1>3, <1>6, <1>13, TwoListsAtMost
  <1>15. Cardinality(AddedByStep(ix)) <= 9
    BY <1>3, <1>14, <1>6
  <1> QED
    BY <1>1, <1>15

LEMMA infinity_needs ==
    ASSUME NEW e \in Edges, NEW in, NEW out, NEW bps
    PROVE  Cardinality(AddedByStep(infinity_ix(e, in, out, bps))) <= 10 + Len(e.more)
  <1> DEFINE p == <<Wallet, <<"mint", e.in>>, Ata(e.in), Ata(e.out), <<"mint", e.out>>,
                    Pool(e, "protocol_fee"), TokenProgram, Pool(e, "pool_state"),
                    Pool(e, "lst_state_list"), Pool(e, "reserves"), Pool(e, "pricing")>>
             q == [i \in DOMAIN e.more |-> Pool(e, e.more[i])]
             w == <<Pool(e, "protocol_fee"), Pool(e, "pool_state"),
                    Pool(e, "lst_state_list"), Pool(e, "reserves"), Pool(e, "pricing"),
                    <<"mint", e.in>>, <<"mint", e.out>>, Ata(e.in)>>
             S == {Pool(e, "protocol_fee"), Pool(e, "pool_state"),
                   Pool(e, "lst_state_list"), Pool(e, "reserves"), Pool(e, "pricing"),
                   <<"mint", e.in>>, <<"mint", e.out>>, Ata(e.in)}
             C == {Wallet, Ata(e.out), TokenProgram, SystemProgram}
  <1>1. PICK ix : ix = infinity_ix(e, in, out, bps)
    OBVIOUS
  <1>2. ix.accounts = p \o q /\ AddedByStep(ix) = Range(ix.accounts) \ C
    BY <1>1 DEF infinity_ix, SwapInstruction, AddedByStep
  <1>3. IsList(w) /\ Len(w) = 8 /\ S \subseteq Range(w)
    <2>1. w \in Seq(S) /\ Len(w) = 8
      OBVIOUS
    <2>2. IsList(w)
      BY <2>1 DEF IsList
    <2>3. ASSUME NEW j \in 1 .. 8 PROVE w[j] \in Range(w)
      BY <2>1, <2>2, InRange
    <2>4. S = {w[j] : j \in 1 .. 8}
      OBVIOUS
    <2> QED BY <2>1, <2>2, <2>3, <2>4
  <1>5. p \in Seq(C \cup S)
    OBVIOUS
  <1>6. IsList(q) /\ Len(q) = Len(e.more) /\ Len(q) \in Nat
    BY MoreAreList
  <1> HIDE DEF p, q, w, S, C
  <1>8. IsList(p) /\ Range(p) \subseteq C \cup S
    BY <1>5, ListWithin
  <1>11. IsList(p \o q) /\ Range(p \o q) \subseteq C \cup S \cup Range(q)
    BY <1>6, <1>8, RangeOfConcat
  <1>13. AddedByStep(ix) \subseteq Range(w) \cup Range(q)
    BY <1>2, <1>3, <1>11
  <1>14. /\ Cardinality(AddedByStep(ix)) \in Nat
         /\ Cardinality(AddedByStep(ix)) <= Len(w) + Len(q)
    <2>1. Len(w) \in Nat /\ Len(q) \in Nat
      BY <1>3, <1>6
    <2> QED BY <2>1, <1>3, <1>6, <1>13, TwoListsAtMost
  <1>15. Cardinality(AddedByStep(ix)) <= 10 + Len(e.more)
    BY <1>3, <1>14, <1>6
  <1> QED
    BY <1>1, <1>15

(* The bound holds for the instruction of any dex. *)
LEMMA NeedsCovered ==
    ASSUME NEW e \in Edges, NEW in, NEW out, NEW bps
    PROVE  Cardinality(AddedByStep(build_swap_ix(e, in, out, bps)))
             <= AccountsNeeded(e) + TicksPastReserve(e)
  <1>1. e.dex \in Dexs
    BY DEF Edges
  <1>2. CASE e.dex = "raydium"
    <2>1. build_swap_ix(e, in, out, bps) = raydium_ix(e, in, out, bps) /\ AccountsNeeded(e) = 6
      BY <1>2 DEF build_swap_ix, AccountsNeeded
    <2>2. TicksPastReserve(e) = 0
      BY <1>2 DEF TicksPastReserve
    <2> QED BY <2>1, <2>2, raydium_needs
  <1>3. CASE e.dex = "raydium_cp"
    <2>1. build_swap_ix(e, in, out, bps) = raydium_cp_ix(e, in, out, bps) /\ AccountsNeeded(e) = 11
      BY <1>3 DEF build_swap_ix, AccountsNeeded
    <2>2. TicksPastReserve(e) = 0
      BY <1>3 DEF TicksPastReserve
    <2> QED BY <2>1, <2>2, raydium_cp_needs
  <1>4. CASE e.dex = "saber"
    <2>1. build_swap_ix(e, in, out, bps) = saber_ix(e, in, out, bps) /\ AccountsNeeded(e) = 7
      BY <1>4 DEF build_swap_ix, AccountsNeeded
    <2>2. TicksPastReserve(e) = 0
      BY <1>4 DEF TicksPastReserve
    <2> QED BY <2>1, <2>2, saber_needs
  <1>5. CASE e.dex = "openbook_v2"
    <2>1. build_swap_ix(e, in, out, bps) = openbook_v2_ix(e, in, out, bps) /\ AccountsNeeded(e) = 11
      BY <1>5 DEF build_swap_ix, AccountsNeeded
    <2>2. TicksPastReserve(e) = 0
      BY <1>5 DEF TicksPastReserve
    <2> QED BY <2>1, <2>2, openbook_v2_needs
  <1>6. CASE e.dex = "invariant"
    <2>1. build_swap_ix(e, in, out, bps) = invariant_ix(e, in, out, bps) /\ AccountsNeeded(e) = 16
      BY <1>6 DEF build_swap_ix, AccountsNeeded, TicksReserved
    <2>2. Len(e.more) \in Nat
      BY DEF Edges
    <2>3. 9 + Len(e.more) <= 16 + TicksPastReserve(e)
      BY <1>6, <2>2 DEF TicksPastReserve, TicksReserved
    <2>4. TicksPastReserve(e) \in Nat
      BY <1>6, <2>2 DEF TicksPastReserve, TicksReserved
    <2>5. PICK c : c = Cardinality(AddedByStep(build_swap_ix(e, in, out, bps)))
      OBVIOUS
    <2>6. c \in Nat /\ c <= 9 + Len(e.more)
      BY <2>1, <2>5, invariant_needs
    <2> QED BY <2>1, <2>2, <2>3, <2>4, <2>5, <2>6
  <1>7. CASE e.dex = "orca"
    <2>1. build_swap_ix(e, in, out, bps) = orca_ix(e, in, out, bps) /\ AccountsNeeded(e) = 9
      BY <1>7 DEF build_swap_ix, AccountsNeeded
    <2>2. TicksPastReserve(e) = 0
      BY <1>7 DEF TicksPastReserve
    <2> QED BY <2>1, <2>2, orca_needs
  <1>8. CASE e.dex = "infinity"
    <2>1. /\ build_swap_ix(e, in, out, bps) = infinity_ix(e, in, out, bps)
          /\ AccountsNeeded(e) = 10 + Len(e.more)
      BY <1>8 DEF build_swap_ix, AccountsNeeded
    <2>2. TicksPastReserve(e) = 0
      BY <1>8 DEF TicksPastReserve
    <2>3. Len(e.more) \in Nat
      BY DEF Edges
    <2> QED BY <2>1, <2>2, <2>3, infinity_needs
  <1> QED
    BY <1>1, <1>2, <1>3, <1>4, <1>5, <1>6, <1>7, <1>8 DEF Dexs

(* The instruction build_ixs packs is one execute_swap_v2/v3 can unpack, a    *)
(* transaction fails for a missing account only where the caller did not ask *)
(* for its creation, and accounts_needed covers what each edge's instruction *)
(* brings but for the ticks an invariant edge crosses past its reserve.      *)
THEOREM SwapWellFormed == Spec => []BuiltSwapIsWellFormed
  <1>1. ExecInv => BuiltSwapIsWellFormed
    <2> SUFFICES ASSUME ExecInv PROVE BuiltSwapIsWellFormed
      OBVIOUS
    <2>1. ExecType
      BY DEF ExecInv
    <2>2. req \in Requests
      BY <2>1 DEF ExecType
    <2>3. ASSUME pc = "failed"
          PROVE  /\ why \notin {"malformed", "close"}
                 /\ why = "missing_account" =>
                      \/ ~req.create
                      \/ saved.ata[req.route.input_mint] = Absent
                         /\ ~(req.wrap /\ req.route.input_mint = SOL)
      BY <2>3 DEF ExecInv, MayMiss, Present, InMint, WrapsInput
    <2>4. ASSUME NEW i \in DOMAIN req.route.steps
          PROVE  LET step == req.route.steps[i]
                 IN  Cardinality(AddedByStep(build_ix(step, 0, "ExactIn", 0)))
                       <= AccountsNeeded(step.edge) + TicksPastReserve(step.edge)
      <3>1. PICK step : step = req.route.steps[i]
        OBVIOUS
      <3>2. i \in 1 .. HopsOf(req)
        BY <2>2, RouteOf
      <3>3. PICK e : e = step.edge
        OBVIOUS
      <3>4. e \in Edges
        BY <2>2, <3>1, <3>2, <3>3, RouteOf DEF EdgeAt
      <3>6. build_ix(step, 0, "ExactIn", 0) = build_swap_ix(e, step.in_amount, step.out_amount, 0)
        BY <3>3 DEF build_ix
      <3>7. Cardinality(AddedByStep(build_swap_ix(e, step.in_amount, step.out_amount, 0)))
              <= AccountsNeeded(e) + TicksPastReserve(e)
        BY <3>4, NeedsCovered
      <3> QED BY <3>1, <3>3, <3>6, <3>7
    <2> QED BY <2>3, <2>4 DEF BuiltSwapIsWellFormed
  <1> QED
    BY <1>1, ExecutorInvariant, PTL

-----------------------------------------------------------------------------
(* Where the fees of execute_charge_fees go, for every set of referrers,     *)
(* every percentage and every amount.                                        *)

Balances ==
    /\ user \in Int /\ platform \in Int /\ fees_paid \in Int
    /\ vault \in [Referrers -> Int] /\ referrer_ata \in [Referrers -> Int]
    /\ owed \in [Referrers -> Int]
    /\ \A r \in Referrers : vault[r] >= NoVault

FeesInv == Balances /\ FeesReachTheirOwners

(* What the referrers are owed, as a sum the lemmas speak of. *)
LEMMA TotalIsSum == ASSUME NEW f PROVE Total(f) = Sum(f, Referrers)
  BY Zenon DEF Total, Sum

(* execute_charge_fees: the platform's part, rounded down, is at most the fee
   and not negative. *)
LEMMA PlatformFeeBounds ==
    ASSUME NEW fee \in Nat, NEW percent \in Nat
    PROVE  PlatformFee(fee, percent, TRUE) \in 0 .. fee
  <1> DEFINE pct == IF percent < 100 THEN percent ELSE 100
  <1>1. pct \in 0 .. 100
    OBVIOUS
  <1>2. PlatformFee(fee, percent, TRUE) = (fee * pct) \div 100
    BY DEF PlatformFee
  <1> HIDE DEF pct
  <1>3. fee * pct \in Nat /\ fee * pct <= fee * 100
    BY <1>1
  <1>4. (fee * pct) \div 100 \in 0 .. fee
    BY <1>3
  <1> QED
    BY <1>2, <1>4

(* So the two parts of a fee make up the fee. *)
LEMMA FeeParts ==
    ASSUME NEW fee \in Nat, NEW percent \in Nat
    PROVE  /\ ReferrerFee(fee, percent) = fee - PlatformFee(fee, percent, TRUE)
           /\ ReferrerFee(fee, percent) \in Nat
  <1> DEFINE p == PlatformFee(fee, percent, TRUE)
  <1>1. p \in 0 .. fee
    BY PlatformFeeBounds
  <1>2. ReferrerFee(fee, percent) = IF p > fee THEN 0 ELSE fee - p
    BY DEF ReferrerFee
  <1> HIDE DEF p
  <1>3. ReferrerFee(fee, percent) = fee - p /\ ReferrerFee(fee, percent) \in Nat
    BY <1>1, <1>2
  <1> QED
    BY <1>3 DEF p

(* What a paid charge does to the balances. *)
LEMMA ChargeKeepsInv ==
    ASSUME FeesInv, NEW ver \in ChargeVersions, NEW fee \in 0 .. MaxFee,
           NEW percent \in Percents, NEW referrer \in Referrers \cup {NoReferrer},
           ChargeFees(ver, fee, percent, referrer)
    PROVE  FeesInv'
  <1> DEFINE has == referrer # NoReferrer
             p == PlatformFee(fee, percent, has)
             r == IF has THEN ReferrerFee(fee, percent) ELSE 0
  <1> USE FeesAssumption
  <1>1. fee \in Nat /\ percent \in Nat
    OBVIOUS
  <1>2. p \in Nat /\ r \in Nat /\ r = fee - p
    <2>1. CASE has
      <3>1. has = TRUE
        BY <2>1
      <3> DEFINE q == PlatformFee(fee, percent, TRUE)
      <3>2. q \in 0 .. fee
        BY <1>1, PlatformFeeBounds
      <3>3. /\ ReferrerFee(fee, percent) = fee - q
            /\ ReferrerFee(fee, percent) \in Nat
        BY <1>1, FeeParts
      <3>4. p = q
        BY <3>1
      <3>5. r = ReferrerFee(fee, percent)
        BY <2>1
      <3> HIDE DEF p, q, r
      <3> QED BY <1>1, <3>2, <3>3, <3>4, <3>5
    <2>2. CASE ~has
      <3>1. p = fee
        BY <2>2 DEF PlatformFee
      <3> QED BY <1>1, <2>2, <3>1
    <2> QED BY <2>1, <2>2
  <1>3. CASE UNCHANGED <<user, platform, vault, fees_paid, owed>>
    <2>1. referrer_ata' = referrer_ata
      BY DEF ChargeFees
    <2> QED BY <1>3, <2>1 DEF FeesInv, Balances, FeesReachTheirOwners, InVault
  <1>4. CASE /\ has => vault[referrer] # NoVault
             /\ user' = user - p - r /\ platform' = platform + p
             /\ vault' = [v \in Referrers |-> IF v = referrer THEN vault[v] + r ELSE vault[v]]
             /\ fees_paid' = fees_paid + fee
             /\ owed' = [v \in Referrers |-> IF v = referrer THEN owed[v] + fee - p
                                             ELSE owed[v]]
    <2> HIDE DEF p, r
    <2>1. referrer_ata' = referrer_ata
      BY DEF ChargeFees
    <2>2. Balances'
      BY <1>1, <1>2, <1>4, <2>1 DEF FeesInv, Balances, NoVault
    <2>3. (user + fees_paid = UserFunds)'
      BY <1>1, <1>2, <1>4 DEF FeesInv, Balances, FeesReachTheirOwners
    <2>4. \A v \in Referrers : (InVault(v) + referrer_ata[v] = owed[v])'
      <3> SUFFICES ASSUME NEW v \in Referrers
                   PROVE  (InVault(v) + referrer_ata[v] = owed[v])'
        OBVIOUS
      <3>1. InVault(v) + referrer_ata[v] = owed[v]
        BY DEF FeesInv, FeesReachTheirOwners
      <3>2. CASE v = referrer
        BY <1>1, <1>2, <1>4, <2>1, <3>1, <3>2 DEF FeesInv, Balances, InVault, NoVault
      <3>3. CASE v # referrer
        BY <1>4, <2>1, <3>1, <3>3 DEF InVault
      <3> QED BY <3>2, <3>3
    <2>5. (platform + Sum(owed, Referrers) = fees_paid)'
      <3>1. owed \in [Referrers -> Int] /\ owed' \in [Referrers -> Int] /\ r \in Int
        BY <1>2, <2>2 DEF FeesInv, Balances
      <3>2. Shifted(owed', owed, referrer, r, Referrers)
        BY <1>1, <1>2, <1>4, <3>1 DEF Shifted
      <3>3. /\ Sum(owed, Referrers) \in Int
            /\ Sum(owed', Referrers) = Sum(owed, Referrers)
                                         + (IF referrer \in Referrers THEN r ELSE 0)
        BY <3>1, <3>2, SumShifted
      <3>4. platform + Sum(owed, Referrers) = fees_paid
        BY TotalIsSum DEF FeesInv, FeesReachTheirOwners
      <3>5. referrer \in Referrers \/ r = 0
        BY DEF r
      <3> QED BY <1>1, <1>2, <1>4, <3>3, <3>4, <3>5 DEF FeesInv, Balances
    <2> QED BY <2>2, <2>3, <2>4, <2>5, TotalIsSum DEF FeesInv, FeesReachTheirOwners
  <1> QED
    BY <1>3, <1>4 DEF ChargeFees

(* Every step keeps the invariant. *)
LEMMA FeesStep == FeesInv /\ [FeesNext]_feeVars => FeesInv'
  <1> SUFFICES ASSUME FeesInv, [FeesNext]_feeVars PROVE FeesInv'
    OBVIOUS
  <1>1. CASE UNCHANGED feeVars
    BY <1>1 DEF feeVars, FeesInv, Balances, FeesReachTheirOwners, InVault
  <1>2. ASSUME NEW ver \in ChargeVersions, NEW n \in 0..MaxFee, NEW p \in Percents,
               NEW r \in Referrers \cup {NoReferrer}, ChargeFees(ver, n, p, r)
        PROVE  FeesInv'
    BY <1>2, ChargeKeepsInv
  <1>3. ASSUME NEW r \in Referrers, CreateReferral(r) PROVE FeesInv'
    BY <1>3 DEF CreateReferral, FeesInv, Balances, FeesReachTheirOwners, InVault, NoVault
  <1>4. ASSUME NEW r \in Referrers, FundVaultAddress(r) PROVE FeesInv'
    BY <1>4 DEF FundVaultAddress, FeesInv, Balances, FeesReachTheirOwners, InVault
  <1>5. ASSUME NEW r \in Referrers, NEW v \in Referrers, WithdrawReferral(r, v) PROVE FeesInv'
    BY <1>5 DEF WithdrawReferral, VaultOfSigner, FeesInv, Balances, FeesReachTheirOwners,
                InVault, NoVault
  <1> QED
    BY <1>1, <1>2, <1>3, <1>4, <1>5 DEF FeesNext

(* execute_charge_fees*, execute_create_referral, execute_withdraw_referral_fees:
   in whatever order they come, the fees reach the platform and the referrers
   they belong to, for every number of referrers, percentage and amount. *)
THEOREM FeesArrive == FeesSpec => []FeesReachTheirOwners
  <1>1. FeesInit => FeesInv
    <2> SUFFICES ASSUME FeesInit PROVE FeesInv
      OBVIOUS
    <2>1. Sum(owed, Referrers) = 0
      BY FeesAssumption, SumOfZeros DEF FeesInit
    <2> QED BY <2>1, FeesAssumption, TotalIsSum
            DEF FeesInit, FeesInv, Balances, FeesReachTheirOwners, InVault, NoVault
  <1>2. FeesInv => FeesReachTheirOwners
    BY DEF FeesInv
  <1> QED
    BY <1>1, <1>2, FeesStep, PTL DEF FeesSpec
=============================================================================
