----------------------------- MODULE DataLemmas -----------------------------
(***************************************************************************)
(* Facts about the data the modules are built from, for their proofs:        *)
(* induction as the absence of a least counterexample, sums over finite sets, *)
(* what retain keeps of a list, and what the operations on the list of a key   *)
(* of the path cache leave of it.                                            *)
(***************************************************************************)
EXTENDS PathList, FiniteSets, FiniteSetsExt, TLAPS,
        WellFoundedInduction, FiniteSetTheorems, SequenceTheorems

(* A set of naturals that is not empty has a least element. *)
LEMMA LeastNatural ==
    ASSUME NEW T \in SUBSET Nat, T # {}
    PROVE  \E x \in T : \A y \in T : x <= y
  <1> DEFINE R == OpToRel(<, Nat)
  <1>1. IsWellFoundedOn(R, Nat)
    BY NatLessThanWellFounded, Zenon
  <1>2. R = {ss \in Nat \X Nat : ss[1] < ss[2]}
    BY DEF OpToRel
  <1> HIDE DEF R
  <1>3. PICK x \in T : \A y \in T : ~(<<y, x>> \in R)
    BY <1>1, WFMin
  <1>4. \A y \in T : ~(y < x)
    BY <1>2, <1>3
  <1> QED
    BY <1>4

(* So Min gives the least of some naturals, and Max the greatest of some below a
   bound. *)
LEMMA MinIsLeast ==
    ASSUME NEW T \in SUBSET Nat, T # {}
    PROVE  Min(T) \in T /\ \A y \in T : Min(T) <= y
  <1>1. \E x \in T : \A y \in T : x <= y
    BY LeastNatural
  <1> QED
    BY <1>1 DEF Min

LEMMA MaxIsGreatest ==
    ASSUME NEW n \in Nat, NEW T \in SUBSET (0 .. n), T # {}
    PROVE  Max(T) \in T /\ \A y \in T : y <= Max(T)
  <1> DEFINE R == {n - x : x \in T}
  <1>1. R \in SUBSET Nat /\ R # {}
    <2>1. \A x \in T : n - x \in Nat /\ n - x \in R
      OBVIOUS
    <2>2. \E x : x \in T
      OBVIOUS
    <2> QED BY <2>1, <2>2
  <1>2. PICK r \in R : \A y \in R : r <= y
    BY <1>1, LeastNatural
  <1>3. PICK x \in T : r = n - x
    BY <1>2
  <1>4. \A y \in T : x >= y
    <2> SUFFICES ASSUME NEW y \in T PROVE x >= y
      OBVIOUS
    <2>1. n - y \in R /\ n - x <= n - y
      BY <1>2, <1>3
    <2> QED BY <2>1
  <1>5. \E z \in T : \A y \in T : z >= y
    BY <1>4
  <1>6. Max(T) \in T /\ \A y \in T : Max(T) >= y
    BY <1>5 DEF Max
  <1> QED
    BY <1>6

(* The element a CHOOSE finds, when there is a greatest or a least one. *)
LEMMA ChosenGreatest ==
    ASSUME NEW T \in SUBSET Int, NEW c \in T, \A y \in T : y <= c
    PROVE  (CHOOSE x \in T : \A y \in T : y <= x) = c
  <1>1. ASSUME NEW x \in T, \A y \in T : y <= x PROVE x = c
    <2>1. x <= c /\ c <= x
      BY <1>1
    <2> QED BY <2>1
  <1> QED
    BY <1>1

LEMMA ChosenLeast ==
    ASSUME NEW T \in SUBSET Int, NEW c \in T, \A y \in T : c <= y
    PROVE  (CHOOSE x \in T : \A y \in T : x <= y) = c
  <1>1. ASSUME NEW x \in T, \A y \in T : x <= y PROVE x = c
    <2>1. x <= c /\ c <= x
      BY <1>1
    <2> QED BY <2>1
  <1> QED
    BY <1>1

(* Induction on naturals, of membership in a set. *)
LEMMA NaturalInduction ==
    ASSUME NEW P, 0 \in P, \A n \in Nat : n \in P => n + 1 \in P
    PROVE  Nat \subseteq P
  <1> SUFFICES ASSUME Nat \ P # {} PROVE FALSE
    OBVIOUS
  <1>1. PICK x \in Nat \ P : \A y \in Nat \ P : x <= y
    BY LeastNatural
  <1>2. x # 0 /\ x - 1 \in Nat /\ x - 1 \in P
    BY <1>1
  <1>3. x - 1 + 1 \in P
    BY <1>2
  <1> QED
    BY <1>1, <1>3

(* Among subsets of a finite set there is a minimal one. *)
LEMMA MinimalSubset ==
    ASSUME NEW S, IsFiniteSet(S), NEW C \in SUBSET SUBSET S, C # {}
    PROVE  \E T \in C : \A U \in C : U \subseteq T => U = T
  <1>1. IsWellFoundedOn(StrictSubsetOrdering(S), FiniteSubsetsOf(S))
    BY FS_StrictSubsetOrderingWellFounded, Zenon
  <1>2. SUBSET S = FiniteSubsetsOf(S)
    BY FS_FiniteSubsetsOfFinite
  <1>3. PICK T \in C : \A U \in C : ~(<<U, T>> \in StrictSubsetOrdering(S))
    BY <1>1, <1>2, WFMin
  <1> QED
    BY <1>3 DEF StrictSubsetOrdering

-----------------------------------------------------------------------------
(* The element a fold takes out of a set, and the sums over the subsets of S
   it builds. *)
First(s) == CHOOSE x \in s : TRUE

IsSum(g, f, S) ==
    g = [s \in SUBSET S |-> IF s = {} THEN 0 ELSE f[First(s)] + g[s \ {First(s)}]]

Sum(f, S) == MapThenSumSet(LAMBDA x : f[x], S)

(* h is f, but larger by d at r. *)
Shifted(h, f, r, d, V) ==
    \A x \in V : f[x] \in Int /\ h[x] = f[x] + (IF x = r THEN d ELSE 0)

(* A sum of f changes by d where f does at r. *)
LEMMA SumsDiffer ==
    ASSUME NEW S, NEW T, NEW V, IsFiniteSet(V), V \subseteq S, V \subseteq T,
           NEW f, NEW h, NEW r, NEW d \in Int,
           Shifted(h, f, r, d, V),
           NEW F, IsSum(F, f, S), NEW H, IsSum(H, h, T)
    PROVE  F[V] \in Int /\ H[V] = F[V] + (IF r \in V THEN d ELSE 0)
  <1> DEFINE Good(W) == F[W] \in Int /\ H[W] = F[W] + (IF r \in W THEN d ELSE 0)
             C == {W \in SUBSET V : ~Good(W)}
  <1> SUFFICES ASSUME C # {} PROVE FALSE
    OBVIOUS
  <1>1. PICK W \in C : \A U \in C : U \subseteq W => U = W
    <2> HIDE DEF C
    <2>1. C \in SUBSET SUBSET V
      BY DEF C
    <2> QED BY <2>1, MinimalSubset
  <1>2. \A U : U \subseteq V => /\ F[U] = IF U = {} THEN 0 ELSE f[First(U)] + F[U \ {First(U)}]
                                /\ H[U] = IF U = {} THEN 0 ELSE h[First(U)] + H[U \ {First(U)}]
    BY DEF IsSum
  <1>3. W # {}
    <2>1. F[{}] = 0 /\ H[{}] = 0
      BY <1>2
    <2>2. Good({})
      BY <2>1
    <2> QED BY <2>2
  <1> DEFINE x == First(W)  U == W \ {x}
  <1>4. x \in W
    BY <1>3 DEF First
  <1>5. Good(U)
    BY <1>1, <1>4
  <1>6. F[W] = f[x] + F[U] /\ H[W] = h[x] + H[U]
    BY <1>2, <1>3, <1>1
  <1>7. x \in V /\ f[x] \in Int /\ h[x] = f[x] + (IF x = r THEN d ELSE 0)
    BY <1>4, <1>1 DEF Shifted
  <1>8. r \in W <=> r \in U \/ x = r
    BY <1>4
  <1>9. r \in U => x # r
    OBVIOUS
  <1> HIDE DEF U, x
  <1>10. Good(W)
    BY <1>5, <1>6, <1>7, <1>8, <1>9
  <1> QED
    BY <1>10, <1>1

(* Two sums of f agree where both are defined. *)
LEMMA SumsAgree ==
    ASSUME NEW S, NEW V, IsFiniteSet(V), V \subseteq S, NEW f, Shifted(f, f, f, 0, V),
           NEW F, IsSum(F, f, S), NEW H, IsSum(H, f, V)
    PROVE  H[V] = F[V] /\ F[V] \in Int
  <1>2. F[V] \in Int /\ H[V] = F[V] + (IF f \in V THEN 0 ELSE 0)
    <2>1. V \subseteq V /\ 0 \in Int
      OBVIOUS
    <2> QED BY <2>1, SumsDiffer
  <1> QED
    BY <1>2

(* The recursion of a sum has a solution. *)
LEMMA SumExists ==
    ASSUME NEW S, IsFiniteSet(S), NEW f \in [S -> Int]
    PROVE  \E g : IsSum(g, f, S)
  <1> DEFINE C == {T \in SUBSET S : ~\E g : IsSum(g, f, T)}
  <1> SUFFICES ASSUME C # {} PROVE FALSE
    OBVIOUS
  <1>1. PICK T \in C : \A U \in C : U \subseteq T => U = T
    <2> HIDE DEF C
    <2>1. C \in SUBSET SUBSET S
      BY DEF C
    <2> QED BY <2>1, MinimalSubset
  <1> DEFINE G(U) == CHOOSE g : IsSum(g, f, U)
  <1>2. \A U : U \subseteq T /\ U # T => IsSum(G(U), f, U)
    BY <1>1
  <1> HIDE DEF G
  <1> DEFINE h == [s \in SUBSET T |-> IF s = {} THEN 0
                     ELSE f[First(s)] + G(s \ {First(s)})[s \ {First(s)}]]
  <1>3. ASSUME NEW s \in SUBSET T, s # {}
        PROVE  h[s \ {First(s)}] = G(s \ {First(s)})[s \ {First(s)}]
    <2> DEFINE U == s \ {First(s)}  y == First(U)
    <2>1. First(s) \in s /\ U \subseteq T /\ U # T
      BY <1>3 DEF First
    <2>2. IsSum(G(U), f, U)
      BY <1>2, <2>1
    <2>3. CASE U = {}
      BY <2>2, <2>3 DEF IsSum
    <2>4. CASE U # {}
      <3>1. y \in U /\ U \ {y} \subseteq U /\ U \ {y} # T /\ U \ {y} \subseteq T
        BY <2>1, <2>4 DEF First
      <3> DEFINE V == U \ {y}
      <3>2. IsSum(G(V), f, V)
        BY <1>2, <3>1
      <3>3. G(U)[U] = f[y] + G(U)[U \ {y}]
        BY <2>2, <2>4, <3>1 DEF IsSum
      <3>4. h[U] = f[y] + G(U \ {y})[U \ {y}]
        BY <2>1, <2>4
      <3>5. IsFiniteSet(V)
        BY FS_Subset, <2>1, <3>1
      <3>6. f \in [S -> Int] /\ V \subseteq S
        BY <2>1, <3>1
      <3>9. G(V)[V] = G(U)[V]
        <4>1. V \subseteq U /\ Shifted(f, f, f, 0, V)
          BY <3>6 DEF Shifted
        <4> HIDE DEF V, U
        <4> QED BY <4>1, <2>2, <3>2, <3>5, SumsAgree
      <3> QED BY <3>3, <3>4, <3>9
    <2> QED BY <2>3, <2>4
  <1>4. IsSum(h, f, T)
    <2>1. \A s \in SUBSET T : h[s] = IF s = {} THEN 0 ELSE f[First(s)] + h[s \ {First(s)}]
      BY <1>3
    <2>2. h = [s \in SUBSET T |-> h[s]]
      OBVIOUS
    <2> HIDE DEF h
    <2> QED BY <2>1, <2>2 DEF IsSum
  <1> QED
    BY <1>4, <1>1

(* Sums are integers, and follow a change of one summand. *)
LEMMA SumShifted ==
    ASSUME NEW S, IsFiniteSet(S), NEW f \in [S -> Int], NEW h \in [S -> Int],
           NEW r, NEW d \in Int, Shifted(h, f, r, d, S)
    PROVE  Sum(f, S) \in Int /\ Sum(h, S) = Sum(f, S) + (IF r \in S THEN d ELSE 0)
  <1> DEFINE F == CHOOSE g : IsSum(g, f, S)  H == CHOOSE g : IsSum(g, h, S)
  <1>1. IsSum(F, f, S) /\ IsSum(H, h, S)
    BY SumExists
  <1>2. Sum(f, S) = F[S] /\ Sum(h, S) = H[S]
    BY DEF Sum, MapThenSumSet, MapThenFoldSet, IsSum, First
  <1> HIDE DEF F, H
  <1>3. F[S] \in Int /\ H[S] = F[S] + (IF r \in S THEN d ELSE 0)
    BY <1>1, SumsDiffer
  <1> QED
    BY <1>2, <1>3

(* A sum of zeros is zero. *)
LEMMA SumOfZeros ==
    ASSUME NEW S, IsFiniteSet(S)
    PROVE  Sum([x \in S |-> 0], S) = 0
  <1> DEFINE f == [x \in S |-> 0]  g == [s \in SUBSET S |-> 0]
             F == CHOOSE h : IsSum(h, f, S)
  <1>1. IsSum(g, f, S)
    <2>1. \A s \in SUBSET S : s # {} => First(s) \in S
      BY DEF First
    <2>2. \A s \in SUBSET S : g[s] = IF s = {} THEN 0 ELSE f[First(s)] + g[s \ {First(s)}]
      BY <2>1
    <2> QED BY <2>2 DEF IsSum
  <1>2. IsSum(F, f, S)
    BY <1>1
  <1>3. Sum(f, S) = F[S]
    BY DEF Sum, MapThenSumSet, MapThenFoldSet, IsSum, First
  <1>4. Shifted(f, f, f, 0, S)
    BY DEF Shifted
  <1>5. g[S] = F[S]
    <2> HIDE DEF f, g, F
    <2> QED BY <1>1, <1>2, <1>4, SumsAgree
  <1> QED
    BY <1>3, <1>5

-----------------------------------------------------------------------------
(* F holds what is kept of the prefixes of s up to n. *)
KeepsUpTo(F, s, K, n) ==
    F = [i \in 0 .. n |-> IF i = 0 THEN <<>>
                          ELSE IF i \in K THEN Append(F[i - 1], s[i]) ELSE F[i - 1]]

(* g gives, for each element of t, its position among the kept ones of s[1 .. n]. *)
Enumerates(g, t, s, K, n) ==
    /\ g \in [1 .. Len(t) -> 1 .. n]
    /\ \A j \in 1 .. Len(t) : t[j] = s[g[j]] /\ g[j] \in K
    /\ \A i, j \in 1 .. Len(t) : i < j => g[i] < g[j]
    /\ \A k \in 1 .. n : k \in K => \E j \in 1 .. Len(t) : g[j] = k

(* The recursion of Kept has a solution. *)
LEMMA KeptExists ==
    ASSUME NEW s, NEW K, NEW n \in Nat
    PROVE  \E F : KeepsUpTo(F, s, K, n)
  <1> DEFINE P == {m \in Nat : \E F : KeepsUpTo(F, s, K, m)}
  <1>1. 0 \in P
    <2>1. KeepsUpTo([i \in 0 .. 0 |-> <<>>], s, K, 0)
      BY DEF KeepsUpTo
    <2> QED BY <2>1
  <1>2. ASSUME NEW m \in Nat, m \in P PROVE m + 1 \in P
    <2>1. PICK F : KeepsUpTo(F, s, K, m)
      BY <1>2
    <2> DEFINE x == IF m + 1 \in K THEN Append(F[m], s[m + 1]) ELSE F[m]
               H == [i \in 0 .. m + 1 |-> IF i = m + 1 THEN x ELSE F[i]]
    <2>2. \A i \in 0 .. m : F[i] = IF i = 0 THEN <<>>
                                   ELSE IF i \in K THEN Append(F[i - 1], s[i]) ELSE F[i - 1]
      BY <2>1 DEF KeepsUpTo
    <2>3. \A i \in 0 .. m + 1 : H[i] = IF i = 0 THEN <<>>
                                   ELSE IF i \in K THEN Append(H[i - 1], s[i]) ELSE H[i - 1]
      BY <2>2
    <2>4. KeepsUpTo(H, s, K, m + 1)
      <3>1. H = [i \in 0 .. m + 1 |-> H[i]]
        OBVIOUS
      <3> HIDE DEF H
      <3> QED BY <2>3, <3>1 DEF KeepsUpTo
    <2> QED BY <2>4
  <1> HIDE DEF P
  <1>3. Nat \subseteq P
    BY <1>1, <1>2, NaturalInduction
  <1> QED
    BY <1>3 DEF P

(* One more element. *)
LEMMA EnumerateOneMore ==
    ASSUME NEW S, NEW s \in Seq(S), NEW K, NEW n \in Nat, n + 1 <= Len(s), 
           NEW t \in Seq(S), NEW g, Enumerates(g, t, s, K, n),
           NEW u, u = (IF n + 1 \in K THEN Append(t, s[n + 1]) ELSE t)
    PROVE  u \in Seq(S) /\ \E h : Enumerates(h, u, s, K, n + 1)
  <1>1. CASE n + 1 \in K
    <2> DEFINE h == [j \in 1 .. Len(t) + 1 |-> IF j <= Len(t) THEN g[j] ELSE n + 1]
    <2>1. /\ u \in Seq(S) /\ Len(u) = Len(t) + 1 /\ u[Len(t) + 1] = s[n + 1]
          /\ \A j \in 1 .. Len(t) : u[j] = t[j]
      BY <1>1
    <2>2. h \in [1 .. Len(u) -> 1 .. n + 1]
      BY <2>1 DEF Enumerates
    <2>3. \A j \in 1 .. Len(u) : u[j] = s[h[j]] /\ h[j] \in K
      BY <2>1, <1>1 DEF Enumerates
    <2>4. \A i, j \in 1 .. Len(u) : i < j => h[i] < h[j]
      BY <2>1 DEF Enumerates
    <2>5. \A k \in 1 .. n + 1 : k \in K => \E j \in 1 .. Len(u) : h[j] = k
      <3> SUFFICES ASSUME NEW k \in 1 .. n + 1, k \in K PROVE \E j \in 1 .. Len(u) : h[j] = k
        OBVIOUS
      <3>1. CASE k = n + 1
        <4>1. Len(t) + 1 \in 1 .. Len(u) /\ h[Len(t) + 1] = n + 1
          BY <2>1
        <4> QED BY <3>1, <4>1
      <3>2. CASE k \in 1 .. n
        <4>1. PICK j \in 1 .. Len(t) : g[j] = k
          BY <3>2 DEF Enumerates
        <4>2. j \in 1 .. Len(u) /\ h[j] = k
          BY <2>1, <4>1
        <4> QED BY <4>2
      <3>3. k = n + 1 \/ k \in 1 .. n
        OBVIOUS
      <3> HIDE DEF h
      <3> QED BY <3>1, <3>2, <3>3
    <2> HIDE DEF h
    <2>6. Enumerates(h, u, s, K, n + 1)
      BY <2>2, <2>3, <2>4, <2>5 DEF Enumerates
    <2> QED BY <2>1, <2>6
  <1>2. CASE n + 1 \notin K
    <2>0. u = t
      BY <1>2
    <2>1. Enumerates(g, t, s, K, n + 1)
      <3>1. g \in [1 .. Len(t) -> 1 .. n + 1]
        BY DEF Enumerates
      <3>2. \A k \in 1 .. n + 1 : k \in K => k \in 1 .. n
        BY <1>2
      <3> QED BY <3>1, <3>2 DEF Enumerates
    <2> QED BY <2>0, <2>1
  <1> QED
    BY <1>1, <1>2

(* Vec::retain: what is kept is a list of elements of s, in the order of s, and
   none that is to be kept is missing. *)
LEMMA KeptProperties ==
    ASSUME NEW S, NEW s \in Seq(S), NEW K
    PROVE  /\ Kept(s, K) \in Seq(S)
           /\ \E g : Enumerates(g, Kept(s, K), s, K, Len(s))
  <1> DEFINE F == CHOOSE H : KeepsUpTo(H, s, K, Len(s))
  <1>1. KeepsUpTo(F, s, K, Len(s))
    BY KeptExists
  <1>2. Kept(s, K) = F[Len(s)]
    BY DEF Kept, KeepsUpTo
  <1> HIDE DEF F
  <1> DEFINE P == {n \in Nat : n <= Len(s) =>
                      F[n] \in Seq(S) /\ \E g : Enumerates(g, F[n], s, K, n)}
  <1>3. \A i \in 0 .. Len(s) : F[i] = IF i = 0 THEN <<>>
                ELSE IF i \in K THEN Append(F[i - 1], s[i]) ELSE F[i - 1]
    BY <1>1 DEF KeepsUpTo
  <1>4. 0 \in P
    <2>1. F[0] = <<>>
      BY <1>3
    <2>2. Enumerates(<<>>, <<>>, s, K, 0)
      <3>1. Len(<<>>) = 0 /\ 1 .. 0 = {} /\ 1 .. Len(<<>>) = {}
        OBVIOUS
      <3>2. <<>> \in [1 .. Len(<<>>) -> 1 .. 0]
        OBVIOUS
      <3> QED BY <3>1, <3>2 DEF Enumerates
    <2>3. F[0] \in Seq(S) /\ Enumerates(<<>>, F[0], s, K, 0)
      BY <2>1, <2>2
    <2> QED BY <2>3
  <1>5. ASSUME NEW n \in Nat, n \in P PROVE n + 1 \in P
    <2> SUFFICES ASSUME n + 1 <= Len(s)
                 PROVE  F[n + 1] \in Seq(S) /\ \E g : Enumerates(g, F[n + 1], s, K, n + 1)
      OBVIOUS
    <2>1. F[n] \in Seq(S) /\ \E g : Enumerates(g, F[n], s, K, n)
      BY <1>5
    <2>2. PICK g : Enumerates(g, F[n], s, K, n)
      BY <2>1
    <2>3. F[n + 1] = IF n + 1 \in K THEN Append(F[n], s[n + 1]) ELSE F[n]
      BY <1>3
    <2> QED BY <2>1, <2>2, <2>3, EnumerateOneMore
  <1> HIDE DEF P
  <1>6. Nat \subseteq P
    BY <1>4, <1>5, NaturalInduction
  <1>7. Len(s) \in P
    BY <1>6
  <1> QED
    BY <1>2, <1>7 DEF P

-----------------------------------------------------------------------------
(* The list of a cache key: what insert, retain and invalidate leave, and     *)
(* that they leave it sorted.                                                *)

(* Entries with keys that can be compared. *)
Keyed(E) == \A x \in E : x.in_amount \in Int /\ x.max_account \in Int

(* t has the elements of s that satisfy the condition of K, in their order. *)
IsPartOf(t, s, K) ==
    /\ Range(t) = {s[i] : i \in DOMAIN s \cap K}
    /\ Sorted(s) => Sorted(t)

(* retain leaves a part of the list. *)
LEMMA KeptIsPart ==
    ASSUME NEW E, NEW s \in Seq(E), NEW K
    PROVE  Kept(s, K) \in Seq(E) /\ IsPartOf(Kept(s, K), s, K)
  <1> DEFINE t == Kept(s, K)
  <1>1. t \in Seq(E) /\ \E g : Enumerates(g, t, s, K, Len(s))
    BY KeptProperties
  <1> HIDE DEF t
  <1>2. PICK g : Enumerates(g, t, s, K, Len(s))
    BY <1>1
  <1>3. DOMAIN t = 1 .. Len(t) /\ DOMAIN s = 1 .. Len(s)
    BY <1>1
  <1>4. Range(t) \subseteq {s[i] : i \in DOMAIN s \cap K}
    BY <1>2, <1>3 DEF Range, Enumerates
  <1>5. {s[i] : i \in DOMAIN s \cap K} \subseteq Range(t)
    <2> SUFFICES ASSUME NEW i \in 1 .. Len(s), i \in K PROVE s[i] \in Range(t)
      BY <1>3
    <2>1. PICK j \in 1 .. Len(t) : g[j] = i
      BY <1>2 DEF Enumerates
    <2>2. t[j] = s[i]
      BY <1>2, <2>1 DEF Enumerates
    <2> QED BY <1>3, <2>2 DEF Range
  <1>6. ASSUME Sorted(s) PROVE Sorted(t)
    <2> SUFFICES ASSUME NEW i \in DOMAIN t, NEW j \in DOMAIN t, i < j
                 PROVE  Less(SortKey(t[i]), SortKey(t[j]))
      BY DEF Sorted
    <2>1. g[i] \in DOMAIN s /\ g[j] \in DOMAIN s /\ g[i] < g[j] /\ t[i] = s[g[i]] /\ t[j] = s[g[j]]
      BY <1>2, <1>3 DEF Enumerates
    <2> QED BY <1>6, <2>1 DEF Sorted
  <1>7. IsPartOf(t, s, K)
    BY <1>4, <1>5, <1>6 DEF IsPartOf
  <1> QED
    BY <1>1, <1>7 DEF t

(* expire_old_by_key removes the entries that are too old and no other. *)
LEMMA RetainedProperties ==
    ASSUME NEW E, NEW s \in Seq(E), NEW t
    PROVE  /\ Retained(s, t) \in Seq(E)
           /\ Range(Retained(s, t)) = {x \in Range(s) : Alive(x, t)}
           /\ Sorted(s) => Sorted(Retained(s, t))
  <1> DEFINE K == {i \in DOMAIN s : Alive(s[i], t)}
  <1>1. Retained(s, t) = Kept(s, K)
    BY DEF Retained
  <1>2. {s[i] : i \in DOMAIN s \cap K} = {x \in Range(s) : Alive(x, t)}
    BY DEF Range
  <1> HIDE DEF K
  <1>3. Kept(s, K) \in Seq(E) /\ IsPartOf(Kept(s, K), s, K)
    BY KeptIsPart
  <1> QED
    BY <1>1, <1>2, <1>3 DEF IsPartOf

(* invalidate removes the entries of the bucket and no other. *)
LEMMA WithoutBucketProperties ==
    ASSUME NEW E, NEW s \in Seq(E), NEW b
    PROVE  /\ WithoutBucket(s, b) \in Seq(E)
           /\ Range(WithoutBucket(s, b)) = {x \in Range(s) : x.max_account # b}
           /\ Sorted(s) => Sorted(WithoutBucket(s, b))
  <1> DEFINE K == {i \in DOMAIN s : s[i].max_account # b}
  <1>1. WithoutBucket(s, b) = Kept(s, K)
    BY DEF WithoutBucket
  <1>2. {s[i] : i \in DOMAIN s \cap K} = {x \in Range(s) : x.max_account # b}
    BY DEF Range
  <1> HIDE DEF K
  <1>3. Kept(s, K) \in Seq(E) /\ IsPartOf(Kept(s, K), s, K)
    BY KeptIsPart
  <1> QED
    BY <1>1, <1>2, <1>3 DEF IsPartOf

-----------------------------------------------------------------------------
(* binary_search_by_key always ends at some position. *)
LEMMA SearchEnds ==
    ASSUME NEW E, Keyed(E), NEW s \in Seq(E), NEW a \in Int, NEW b \in Int
    PROVE  SearchPositions(s, <<a, b>>) # {}
  <1> DEFINE k == <<a, b>>
             N == {i \in 1 .. Len(s) + 1 : i <= Len(s) => ~Less(SortKey(s[i]), k)}
  <1>1. Len(s) + 1 \in N /\ N \in SUBSET Nat
    OBVIOUS
  <1>2. PICK i \in N : \A j \in N : i <= j
    <2> HIDE DEF N
    <2> QED BY <1>1, LeastNatural
  <1>3. i > 1 => Less(SortKey(s[i - 1]), k)
    BY <1>2
  <1>4. CASE i = Len(s) + 1
    BY <1>3, <1>4 DEF SearchPositions
  <1>5. CASE i \in 1 .. Len(s)
    <2>1. s[i] \in E /\ ~Less(SortKey(s[i]), k)
      BY <1>2, <1>5
    <2>2. SortKey(s[i]) = k \/ Less(k, SortKey(s[i]))
      BY <2>1 DEF Keyed, SortKey, Less
    <2> QED BY <1>3, <1>5, <2>2 DEF SearchPositions
  <1> QED
    BY <1>4, <1>5

(* t is s with x at pos, and what was there and behind it one further. *)
IsShifted(t, s, pos, x) ==
    /\ DOMAIN t = 1 .. Len(s) + 1
    /\ t[pos] = x
    /\ \A i \in 1 .. Len(s) : (i < pos => t[i] = s[i]) /\ (i >= pos => t[i + 1] = s[i])

(* Vec::insert shifts the elements from the position on. *)
LEMMA InsertAtElements ==
    ASSUME NEW E, NEW s \in Seq(E), NEW x \in E, NEW pos \in 1 .. Len(s) + 1
    PROVE  /\ InsertAt(s, pos, x) \in Seq(E)
           /\ IsShifted(InsertAt(s, pos, x), s, pos, x)
  <1> DEFINE p == SubSeq(s, 1, pos - 1)
             q == SubSeq(s, pos, Len(s))
             m == p \o <<x>>
  <1>1. p \in Seq(E) /\ Len(p) = pos - 1 /\ \A i \in 1 .. pos - 1 : p[i] = s[i]
    OBVIOUS
  <1>2. /\ q \in Seq(E) /\ Len(q) = Len(s) - pos + 1
        /\ \A i \in 1 .. Len(s) - pos + 1 : q[i] = s[pos + i - 1]
    OBVIOUS
  <1> HIDE DEF p, q
  <1>3. /\ m \in Seq(E) /\ Len(m) = pos
        /\ \A i \in 1 .. pos : m[i] = IF i < pos THEN s[i] ELSE x
    BY <1>1
  <1>4. InsertAt(s, pos, x) = m \o q
    BY DEF InsertAt, p, q
  <1> HIDE DEF m
  <1>5. /\ m \o q \in Seq(E) /\ Len(m \o q) = Len(s) + 1
        /\ \A i \in 1 .. Len(s) + 1 : (m \o q)[i] = IF i <= pos THEN m[i] ELSE q[i - pos]
    <2>1. /\ m \o q \in Seq(E) /\ Len(m \o q) = Len(m) + Len(q)
          /\ \A i \in 1 .. Len(m) + Len(q) :
                (m \o q)[i] = IF i <= Len(m) THEN m[i] ELSE q[i - Len(m)]
      BY <1>2, <1>3, ConcatProperties
    <2>2. Len(m) + Len(q) = Len(s) + 1
      BY <1>2, <1>3
    <2> QED BY <1>3, <2>1, <2>2
  <1>6. \A i \in 1 .. Len(s) + 1 : i > pos => q[i - pos] = s[i - 1]
    BY <1>2
  <1>7. IsShifted(m \o q, s, pos, x)
    <2>1. DOMAIN (m \o q) = 1 .. Len(s) + 1
      BY <1>5
    <2>2. (m \o q)[pos] = x
      BY <1>3, <1>5
    <2>3. \A i \in 1 .. Len(s) : i < pos => (m \o q)[i] = s[i]
      BY <1>3, <1>5
    <2>4. \A i \in 1 .. Len(s) : i >= pos => (m \o q)[i + 1] = s[i]
      <3> SUFFICES ASSUME NEW i \in 1 .. Len(s), i >= pos PROVE (m \o q)[i + 1] = s[i]
        OBVIOUS
      <3>1. i + 1 \in 1 .. Len(s) + 1 /\ i + 1 > pos /\ i + 1 - 1 = i
        OBVIOUS
      <3>2. (m \o q)[i + 1] = q[i + 1 - pos]
        BY <1>5, <3>1
      <3> QED BY <1>6, <3>1, <3>2
    <2> QED BY <2>1, <2>2, <2>3, <2>4 DEF IsShifted
  <1> QED
    BY <1>4, <1>5, <1>7

(* insert at such a position replaces one entry or adds one. *)
LEMMA InsertedElements ==
    ASSUME NEW E, NEW s \in Seq(E), NEW a, NEW x \in E,
           NEW pos \in SearchPositions(s, <<a, x.max_account>>)
    PROVE  /\ Inserted(s, pos, a, x) \in Seq(E)
           /\ \A y \in Range(Inserted(s, pos, a, x)) : y = x \/ y \in Range(s)
  <1>1. pos \in 1 .. Len(s) + 1
    BY DEF SearchPositions
  <1> DEFINE t == Inserted(s, pos, a, x)
  <1>2. CASE pos <= Len(s) /\ SortKey(s[pos]) = <<a, x.max_account>>
    <2>1. t = [s EXCEPT ![pos] = x]
      BY <1>2 DEF Inserted, ReplaceAt
    <2> HIDE DEF t
    <2>2. t \in Seq(E) /\ DOMAIN t = DOMAIN s
      BY <1>1, <1>2, <2>1, ExceptSeq
    <2>3. \A i \in DOMAIN t : t[i] = x \/ t[i] = s[i]
      BY <2>1
    <2> QED BY <2>2, <2>3 DEF Range, t
  <1>3. CASE ~(pos <= Len(s) /\ SortKey(s[pos]) = <<a, x.max_account>>)
    <2>1. t = InsertAt(s, pos, x)
      BY <1>3 DEF Inserted
    <2> HIDE DEF t
    <2>2. t \in Seq(E) /\ IsShifted(t, s, pos, x)
      BY <1>1, <2>1, InsertAtElements
    <2>3. ASSUME NEW i \in DOMAIN t
          PROVE  \/ i < pos /\ i \in DOMAIN s /\ t[i] = s[i]
                 \/ i = pos /\ t[i] = x
                 \/ i > pos /\ i - 1 \in DOMAIN s /\ t[i] = s[i - 1]
      <3>1. i \in 1 .. Len(s) + 1 /\ DOMAIN s = 1 .. Len(s)
        BY <2>2 DEF IsShifted
      <3>2. CASE i < pos
        BY <1>1, <2>2, <3>1, <3>2 DEF IsShifted
      <3>3. CASE i > pos
        <4>1. i - 1 \in 1 .. Len(s) /\ i - 1 >= pos /\ i - 1 + 1 = i
          BY <1>1, <3>1, <3>3
        <4> QED BY <2>2, <3>1, <3>3, <4>1 DEF IsShifted
      <3>4. CASE i = pos
        BY <2>2, <3>4 DEF IsShifted
      <3> QED BY <1>1, <3>1, <3>2, <3>3, <3>4
    <2>4. \A i \in DOMAIN t : t[i] = x \/ t[i] \in Range(s)
      BY <2>3 DEF Range
    <2> QED BY <2>2, <2>4 DEF Range, t
  <1> QED
    BY <1>2, <1>3

(* Less is an order. *)
LEMMA LessIsOrder ==
    ASSUME NEW E, Keyed(E), NEW x \in E, NEW y \in E, NEW z \in E
    PROVE  /\ ~Less(SortKey(x), SortKey(x))
           /\ Less(SortKey(x), SortKey(y)) => ~Less(SortKey(y), SortKey(x))
           /\ Less(SortKey(x), SortKey(y)) /\ Less(SortKey(y), SortKey(z))
                 => Less(SortKey(x), SortKey(z))
  BY DEF Keyed, Less, SortKey

(* In a sorted list an entry is found by its key. *)
LEMMA SortedKeysDiffer ==
    ASSUME NEW E, Keyed(E), NEW s \in Seq(E), Sorted(s),
           NEW i \in DOMAIN s, NEW j \in DOMAIN s, SortKey(s[i]) = SortKey(s[j])
    PROVE  i = j
  <1>1. s[i] \in E /\ s[j] \in E /\ i \in Int /\ j \in Int
    OBVIOUS
  <1>2. ~Less(SortKey(s[i]), SortKey(s[j])) /\ ~Less(SortKey(s[j]), SortKey(s[i]))
    BY <1>1, LessIsOrder
  <1>3. ~(i < j) /\ ~(j < i)
    BY <1>2 DEF Sorted
  <1> QED
    BY <1>1, <1>3

(* A sorted list stays sorted when insert is given the amount as it is stored,
   and only the entry of the same key goes. *)
LEMMA InsertedSorted ==
    ASSUME NEW E, Keyed(E), NEW s \in Seq(E), Sorted(s), NEW x \in E,
           NEW pos \in SearchPositions(s, SortKey(x))
    PROVE  /\ Sorted(Inserted(s, pos, x.in_amount, x))
           /\ Range(Inserted(s, pos, x.in_amount, x))
                = {y \in Range(s) : SortKey(y) # SortKey(x)} \union {x}
  <1> DEFINE t == Inserted(s, pos, x.in_amount, x)  k == SortKey(x)
  <1>0. DOMAIN s = 1 .. Len(s) /\ Len(s) \in Nat
    OBVIOUS
  <1>1. pos \in 1 .. Len(s) + 1 /\ k = <<x.in_amount, x.max_account>>
    BY DEF SearchPositions, SortKey
  <1>2. CASE pos <= Len(s) /\ SortKey(s[pos]) = k
    <2>1. t = [s EXCEPT ![pos] = x]
      BY <1>1, <1>2 DEF Inserted, ReplaceAt
    <2> HIDE DEF t
    <2>2. DOMAIN t = DOMAIN s /\ pos \in DOMAIN s /\ t[pos] = x
          /\ \A i \in DOMAIN s : i # pos => t[i] = s[i]
      BY <1>0, <1>1, <1>2, <2>1
    <2>3. \A i \in DOMAIN t : SortKey(t[i]) = SortKey(s[i])
      BY <1>2, <2>2
    <2>4. Sorted(t)
      BY <2>2, <2>3 DEF Sorted
    <2>5. \A i \in DOMAIN s : SortKey(s[i]) = k => i = pos
      BY <1>2, <2>2, SortedKeysDiffer
    <2>6. Range(t) = {y \in Range(s) : SortKey(y) # k} \union {x}
      <3>1. \A y \in Range(t) : y = x \/ (y \in Range(s) /\ SortKey(y) # k)
        BY <2>2, <2>5 DEF Range
      <3>2. x \in Range(t)
        BY <2>2 DEF Range
      <3>3. \A y \in Range(s) : SortKey(y) # k => y \in Range(t)
        BY <1>2, <2>2 DEF Range
      <3> QED BY <3>1, <3>2, <3>3
    <2> QED BY <2>4, <2>6 DEF t
  <1>3. CASE ~(pos <= Len(s) /\ SortKey(s[pos]) = k)
    <2>1. t = InsertAt(s, pos, x)
      BY <1>1, <1>3 DEF Inserted
    <2> HIDE DEF t
    <2>2. t \in Seq(E) /\ IsShifted(t, s, pos, x)
      BY <1>1, <2>1, InsertAtElements
    <2>3. ASSUME NEW i \in DOMAIN t
          PROVE  \/ i < pos /\ i \in DOMAIN s /\ t[i] = s[i]
                 \/ i = pos /\ t[i] = x
                 \/ i > pos /\ i - 1 \in DOMAIN s /\ t[i] = s[i - 1]
      <3>1. i \in 1 .. Len(s) + 1 /\ DOMAIN s = 1 .. Len(s)
        BY <2>2 DEF IsShifted
      <3>2. CASE i < pos
        BY <1>1, <2>2, <3>1, <3>2 DEF IsShifted
      <3>3. CASE i > pos
        <4>1. i - 1 \in 1 .. Len(s) /\ i - 1 >= pos /\ i - 1 + 1 = i
          BY <1>1, <3>1, <3>3
        <4> QED BY <2>2, <3>1, <3>3, <4>1 DEF IsShifted
      <3>4. CASE i = pos
        BY <2>2, <3>4 DEF IsShifted
      <3> QED BY <1>1, <3>1, <3>2, <3>3, <3>4
    <2>4. /\ pos > 1 => Less(SortKey(s[pos - 1]), k)
          /\ pos <= Len(s) => Less(k, SortKey(s[pos]))
      BY <1>0, <1>1, <1>3 DEF SearchPositions
    <2>5. \A i \in 1 .. Len(s) : i < pos => Less(SortKey(s[i]), k)
      <3> SUFFICES ASSUME NEW i \in 1 .. Len(s), i < pos PROVE Less(SortKey(s[i]), k)
        OBVIOUS
      <3>1. CASE i = pos - 1
        BY <1>1, <2>4, <3>1
      <3>2. CASE i < pos - 1
        <4>1. pos - 1 \in 1 .. Len(s) /\ Less(SortKey(s[i]), SortKey(s[pos - 1]))
          BY <1>0, <1>1, <3>2 DEF Sorted
        <4>2. s[i] \in E /\ s[pos - 1] \in E
          BY <1>0, <4>1
        <4> QED BY <1>1, <2>4, <4>1, <4>2, LessIsOrder
      <3> QED BY <1>1, <3>1, <3>2
    <2>6. \A i \in 1 .. Len(s) : i >= pos => Less(k, SortKey(s[i]))
      <3> SUFFICES ASSUME NEW i \in 1 .. Len(s), i >= pos PROVE Less(k, SortKey(s[i]))
        OBVIOUS
      <3>1. CASE i = pos
        BY <1>1, <2>4, <3>1
      <3>2. CASE i > pos
        <4>1. pos \in 1 .. Len(s) /\ Less(SortKey(s[pos]), SortKey(s[i]))
          BY <1>0, <1>1, <3>2 DEF Sorted
        <4>2. s[i] \in E /\ s[pos] \in E
          BY <1>0, <4>1
        <4> QED BY <1>1, <2>4, <4>1, <4>2, LessIsOrder
      <3> QED BY <1>1, <3>1, <3>2
    <2>7. Sorted(t)
      <3> SUFFICES ASSUME NEW i \in DOMAIN t, NEW j \in DOMAIN t, i < j
                   PROVE  Less(SortKey(t[i]), SortKey(t[j]))
        BY DEF Sorted
      <3>1. i \in Int /\ j \in Int /\ pos \in Int
        BY <1>1, <2>2 DEF IsShifted
      <3>2. CASE j < pos
        <4>1. i \in DOMAIN s /\ j \in DOMAIN s /\ t[i] = s[i] /\ t[j] = s[j]
          BY <2>3, <3>1, <3>2
        <4> QED BY <4>1 DEF Sorted
      <3>3. CASE j = pos
        <4>1. i \in 1 .. Len(s) /\ i < pos /\ t[i] = s[i] /\ t[j] = x
          BY <1>0, <2>3, <3>1, <3>3
        <4> QED BY <2>5, <4>1
      <3>4. CASE i = pos
        <4>1. j - 1 \in 1 .. Len(s) /\ j - 1 >= pos /\ t[i] = x /\ t[j] = s[j - 1]
          BY <1>0, <2>3, <3>1, <3>4
        <4> QED BY <2>6, <4>1
      <3>5. CASE i > pos
        <4>1. /\ i - 1 \in DOMAIN s /\ j - 1 \in DOMAIN s /\ i - 1 < j - 1
              /\ t[i] = s[i - 1] /\ t[j] = s[j - 1]
          BY <2>3, <3>1, <3>5
        <4> QED BY <4>1 DEF Sorted
      <3>6. CASE i < pos /\ j > pos
        <4>1. /\ i \in DOMAIN s /\ j - 1 \in DOMAIN s /\ i < j - 1
              /\ t[i] = s[i] /\ t[j] = s[j - 1]
          BY <2>3, <3>1, <3>6
        <4> QED BY <4>1 DEF Sorted
      <3> QED BY <3>1, <3>2, <3>3, <3>4, <3>5, <3>6
    <2>8. \A i \in 1 .. Len(s) : SortKey(s[i]) # k
      <3> SUFFICES ASSUME NEW i \in 1 .. Len(s), SortKey(s[i]) = k PROVE FALSE
        OBVIOUS
      <3>1. CASE i < pos
        BY <2>5, <3>1, LessIsOrder
      <3>2. CASE i >= pos
        BY <2>6, <3>2, LessIsOrder
      <3> QED BY <1>1, <3>1, <3>2
    <2>9. Range(t) = {y \in Range(s) : SortKey(y) # k} \union {x}
      <3>1. ASSUME NEW i \in DOMAIN t PROVE t[i] = x \/ (t[i] \in Range(s) /\ SortKey(t[i]) # k)
        BY <1>0, <2>3, <2>8 DEF Range
      <3>2. x \in Range(t)
        BY <1>1, <2>2 DEF Range, IsShifted
      <3>3. ASSUME NEW i \in 1 .. Len(s) PROVE s[i] \in Range(t)
        <4>1. CASE i < pos
          <5>1. i \in DOMAIN t /\ t[i] = s[i]
            BY <1>1, <2>2, <4>1 DEF IsShifted
          <5> QED BY <5>1 DEF Range
        <4>2. CASE i >= pos
          <5>1. i + 1 \in DOMAIN t /\ t[i + 1] = s[i]
            BY <1>1, <2>2, <4>2 DEF IsShifted
          <5> QED BY <5>1 DEF Range
        <4> QED BY <1>1, <4>1, <4>2
      <3>4. \A y \in Range(t) : y = x \/ (y \in Range(s) /\ SortKey(y) # k)
        BY <3>1 DEF Range
      <3>5. \A y \in Range(s) : y \in Range(t)
        BY <1>0, <3>3 DEF Range
      <3> QED BY <3>2, <3>4, <3>5
    <2> QED BY <2>7, <2>9 DEF t
  <1> QED
    BY <1>2, <1>3

-----------------------------------------------------------------------------
(* The entries of a bucket on both sides of an amount. *)
Below(s, amount, b) == {x \in Range(s) : x.max_account = b /\ x.in_amount <= amount}
Above(s, amount, b) == {x \in Range(s) : x.max_account = b /\ x.in_amount > amount}

(* e is what is cached in the entry of S with the largest amount, or None. *)
IsLargestOf(S, e) ==
    \/ S = {} /\ e = None
    \/ \E x \in S : e = x.edges /\ \A y \in S : y.in_amount <= x.in_amount

IsSmallestOf(S, e) ==
    \/ S = {} /\ e = None
    \/ \E x \in S : e = x.edges /\ \A y \in S : x.in_amount <= y.in_amount

(* get: what a lookup gives is cached in an entry of the bucket. *)
LEMMA LookupIsCached ==
    ASSUME NEW E, NEW s \in Seq(E), NEW a, NEW b
    PROVE  \E lower, upper :
              /\ Lookup(s, a, b) = [lower |-> lower, upper |-> upper]
              /\ \/ lower = None
                 \/ \E x \in Range(s) : x.max_account = b /\ lower = x.edges
              /\ \/ upper = None
                 \/ \E x \in Range(s) : x.max_account = b /\ upper = x.edges
  <1> DEFINE same   == {i \in DOMAIN s : s[i].max_account = b}
             larger == {i \in same : s[i].in_amount > F64(a)}
             stop   == IF larger = {} THEN Len(s) + 1 ELSE Min(larger)
             before == {i \in same : i < stop}
             lower  == IF before = {} THEN None ELSE s[Max(before)].edges
             upper  == IF larger = {} THEN None ELSE s[stop].edges
  <1>1. Lookup(s, a, b) = [lower |-> lower, upper |-> upper]
    BY DEF Lookup
  <1>2. DOMAIN s = 1 .. Len(s) /\ Len(s) \in Nat
    OBVIOUS
  <1>3. ASSUME larger # {} PROVE stop \in same
    <2>1. larger \in SUBSET Nat /\ larger \subseteq same
      BY <1>2
    <2>2. stop = Min(larger)
      BY <1>3
    <2> HIDE DEF larger, stop
    <2> QED BY <1>3, <2>1, <2>2, MinIsLeast
  <1>4. ASSUME before # {} PROVE Max(before) \in same
    <2>1. before \in SUBSET (0 .. Len(s)) /\ before \subseteq same
      BY <1>2
    <2>2. Len(s) \in Nat
      BY <1>2
    <2> HIDE DEF before
    <2> QED BY <1>4, <2>1, <2>2, MaxIsGreatest
  <1> HIDE DEF larger, stop, before
  <1>5. lower = None \/ \E x \in Range(s) : x.max_account = b /\ lower = x.edges
    BY <1>4 DEF Range
  <1>6. upper = None \/ \E x \in Range(s) : x.max_account = b /\ upper = x.edges
    BY <1>3 DEF Range
  <1> HIDE DEF lower, upper
  <1> QED
    BY <1>1, <1>5, <1>6

(* get: the scan of a sorted list finds the entries next to the amount. *)
LEMMA LookupIsNearest ==
    ASSUME NEW E, Keyed(E), NEW s \in Seq(E), Sorted(s), NEW a, F64(a) \in Int, NEW b
    PROVE  \E lower, upper :
              /\ Lookup(s, a, b) = [lower |-> lower, upper |-> upper]
              /\ IsLargestOf(Below(s, F64(a), b), lower)
              /\ IsSmallestOf(Above(s, F64(a), b), upper)
  <1> DEFINE A == F64(a)
             same   == {i \in DOMAIN s : s[i].max_account = b}
             larger == {i \in same : s[i].in_amount > A}
             stop   == IF larger = {} THEN Len(s) + 1 ELSE Min(larger)
             before == {i \in same : i < stop}
             lower  == IF before = {} THEN None ELSE s[Max(before)].edges
             upper  == IF larger = {} THEN None ELSE s[stop].edges
  <1>1. Lookup(s, a, b) = [lower |-> lower, upper |-> upper]
    BY DEF Lookup
  <1>2. A \in Int /\ DOMAIN s = 1 .. Len(s) /\ Len(s) \in Nat
    OBVIOUS
  <1>3. \A i \in DOMAIN s : s[i].in_amount \in Int
    BY DEF Keyed
  <1>4. \A i, j \in DOMAIN s : i <= j => s[i].in_amount <= s[j].in_amount
    <2> SUFFICES ASSUME NEW i \in DOMAIN s, NEW j \in DOMAIN s, i <= j
                 PROVE  s[i].in_amount <= s[j].in_amount
      OBVIOUS
    <2>1. CASE i = j
      BY <1>3, <2>1
    <2>2. CASE i < j
      <3>1. Less(SortKey(s[i]), SortKey(s[j]))
        BY <2>2 DEF Sorted
      <3> QED BY <1>3, <3>1 DEF Less, SortKey
    <2> QED BY <1>2, <2>1, <2>2
  <1> HIDE DEF A
  <1>5. larger # {} => stop \in larger /\ \A i \in larger : stop <= i
    <2> SUFFICES ASSUME larger # {} PROVE stop \in larger /\ \A i \in larger : stop <= i
      OBVIOUS
    <2>1. larger \in SUBSET Nat
      BY <1>2
    <2>2. stop = Min(larger)
      OBVIOUS
    <2> HIDE DEF larger, stop
    <2> QED BY <2>1, <2>2, MinIsLeast
  <1>6. before = {i \in same : s[i].in_amount <= A}
    <2>1. stop \in Int
      BY <1>2, <1>5
    <2>2. ASSUME NEW i \in same, i < stop PROVE s[i].in_amount <= A
      <3>1. ASSUME i \in larger PROVE FALSE
        <4>1. stop <= i /\ i \in Int
          BY <1>2, <1>5, <3>1
        <4> HIDE DEF stop
        <4> QED BY <2>1, <2>2, <4>1
      <3> QED BY <1>2, <1>3, <3>1
    <2>3. ASSUME NEW i \in same, s[i].in_amount <= A PROVE i < stop
      <3>1. CASE larger = {}
        BY <1>2, <3>1
      <3>2. CASE larger # {}
        <4> SUFFICES ASSUME stop <= i PROVE FALSE
          BY <1>2, <2>1
        <4>1. stop \in DOMAIN s /\ s[stop].in_amount > A
          BY <1>5, <3>2
        <4>2. s[stop].in_amount <= s[i].in_amount
          BY <1>4, <4>1
        <4> HIDE DEF stop, larger
        <4> QED BY <1>2, <1>3, <2>3, <4>1, <4>2
      <3> QED BY <3>1, <3>2
    <2> QED BY <2>2, <2>3
  <1> HIDE DEF stop
  <1>7. IsSmallestOf(Above(s, A, b), upper)
    <2>1. Above(s, A, b) = {s[i] : i \in larger}
      BY DEF Above, Range
    <2>2. CASE larger = {}
      BY <2>1, <2>2 DEF IsSmallestOf
    <2>3. CASE larger # {}
      <3>1. stop \in larger /\ \A i \in larger : s[stop].in_amount <= s[i].in_amount
        BY <1>4, <1>5, <2>3
      <3>2. upper = s[stop].edges
        BY <2>3
      <3> HIDE DEF larger, upper
      <3> QED BY <2>1, <3>1, <3>2 DEF IsSmallestOf
    <2> QED BY <2>2, <2>3
  <1>8. IsLargestOf(Below(s, A, b), lower)
    <2>1. Below(s, A, b) = {s[i] : i \in before}
      BY <1>6 DEF Below, Range
    <2>2. CASE before = {}
      <3> HIDE DEF before
      <3> QED BY <2>1, <2>2 DEF IsLargestOf
    <2>3. CASE before # {}
      <3>1. before \in SUBSET (0 .. Len(s))
        BY <1>2
      <3>2. \A i \in before : i \in DOMAIN s
        OBVIOUS
      <3> HIDE DEF before
      <3>3. Max(before) \in before /\ \A i \in before : i <= Max(before)
        <4>1. Len(s) \in Nat
          BY <1>2
        <4> QED BY <2>3, <3>1, <4>1, MaxIsGreatest
      <3>4. \A i \in before : s[i].in_amount <= s[Max(before)].in_amount
        BY <1>4, <3>2, <3>3
      <3>5. lower = s[Max(before)].edges
        BY <2>3
      <3> HIDE DEF lower
      <3> QED BY <2>1, <3>3, <3>4, <3>5 DEF IsLargestOf
    <2> QED BY <2>2, <2>3
  <1> HIDE DEF lower, upper
  <1> QED
    BY <1>1, <1>7, <1>8 DEF A
=============================================================================
