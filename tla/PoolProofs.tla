----------------------------- MODULE PoolProofs -----------------------------
(***************************************************************************)
(* The dex adapters' quotes for pools of every size: Raydium's two constant   *)
(* product pools, the measurement of liquidity, the tick arrays of Orca's      *)
(* whirlpools, the listings of all adapters, and Invariant's bitmap and its     *)
(* simulated swap.                                                          *)
(***************************************************************************)
EXTENDS RaydiumPool, OrcaTicks, Liquidity, DexAdapters, InvariantPool, DataLemmas

-----------------------------------------------------------------------------
(* Division.                                                                *)

LEMMA DivisionSplits ==
    ASSUME NEW n \in Nat, NEW d \in Nat \ {0}
    PROVE  /\ n \div d \in Nat /\ n % d \in Nat /\ n % d < d
           /\ n = d * (n \div d) + (n % d)
  OBVIOUS

LEMMA ProductGrows ==
    ASSUME NEW a \in Nat, NEW b \in Nat, NEW c \in Nat, b <= c
    PROVE  a * b <= a * c /\ b * a <= c * a /\ a * b \in Nat
  OBVIOUS

LEMMA ProductOrders ==
    ASSUME NEW a \in Nat \ {0}, NEW b \in Int, NEW c \in Int, a * b <= a * c
    PROVE  b <= c
  OBVIOUS

(* checked_ceil_div rounds up, but below one to the nearest. *)
LEMMA CeilDivBounds ==
    ASSUME NEW n \in Nat, NEW d \in Nat \ {0}
    PROVE  /\ checked_ceil_div(n, d) \in Nat
           /\ d * checked_ceil_div(n, d) <= n + d - 1
           /\ 2 * (d * checked_ceil_div(n, d)) >= 2 * n - d
           /\ n >= d => d * checked_ceil_div(n, d) >= n
  <1>1. PICK q, r : q = n \div d /\ r = n % d
    OBVIOUS
  <1>2. q \in Nat /\ r \in Nat /\ r < d /\ n = d * q + r
    BY <1>1, DivisionSplits
  <1>3. PICK c : c = checked_ceil_div(n, d)
    OBVIOUS
  <1>4. CASE q = 0
    <2>1. c = IF 2 * n >= d THEN 1 ELSE 0
      BY <1>1, <1>3, <1>4 DEF checked_ceil_div
    <2>2. n = r
      BY <1>2, <1>4
    <2> QED BY <1>2, <1>3, <2>1, <2>2
  <1>5. CASE q # 0
    <2>1. c = q + (IF r > 0 THEN 1 ELSE 0)
      BY <1>1, <1>3, <1>5 DEF checked_ceil_div
    <2>2. CASE r > 0
      <3>1. c = q + 1 /\ d * (q + 1) = d * q + d
        BY <2>1, <2>2, <1>2
      <3> QED BY <1>2, <1>3, <2>2, <3>1
    <2>3. CASE ~(r > 0)
      <3>1. c = q /\ r = 0
        BY <2>1, <2>3, <1>2
      <3> QED BY <1>2, <1>3, <3>1
    <2> QED BY <2>2, <2>3
  <1> QED
    BY <1>2, <1>4, <1>5

(* Up rounds up. *)
LEMMA UpBounds ==
    ASSUME NEW n \in Nat, NEW d \in Nat \ {0}
    PROVE  Up(n, d) \in Nat /\ d * Up(n, d) >= n /\ d * Up(n, d) <= n + d - 1
  <1>1. PICK m : m = n + d - 1 /\ m \in Nat
    OBVIOUS
  <1>2. PICK q, r : q = m \div d /\ r = m % d
    OBVIOUS
  <1>3. q \in Nat /\ r \in Nat /\ r < d /\ m = d * q + r
    BY <1>1, <1>2, DivisionSplits
  <1>4. Up(n, d) = q
    BY <1>1, <1>2 DEF Up
  <1> QED
    BY <1>1, <1>3, <1>4

-----------------------------------------------------------------------------
(* Raydium's curve.  from and to are the pool's own reserves; an input x that *)
(* comes out as net after the fee buys out.                                  *)

(* Selling net for what the curve gives, and no more, keeps the product. *)
LEMMA CurveKeepsProduct ==
    ASSUME NEW from \in Nat, NEW to \in Nat, NEW x \in Nat, NEW net \in Nat, net <= x,
           NEW out \in Nat, out <= to, out * (from + net) <= to * net
    PROVE  (from + x) * (to - out) >= from * to
  <1>1. PICK k : k = to - out /\ k \in Nat
    OBVIOUS
  <1>2. (from + net) * k <= (from + x) * k
    <2>1. from + net \in Nat /\ from + x \in Nat /\ from + net <= from + x
      OBVIOUS
    <2> QED BY <2>1, <1>1, ProductGrows
  <1>3. (from + net) * k = (from + net) * to - (from + net) * out
    BY <1>1
  <1>4. (from + net) * to = from * to + net * to
    OBVIOUS
  <1>5. (from + net) * out <= net * to
    OBVIOUS
  <1>6. from * to \in Int /\ net * to \in Int /\ (from + net) * out \in Int /\ (from + x) * k \in Int
    BY <1>1
  <1> QED
    BY <1>1, <1>2, <1>3, <1>4, <1>5, <1>6

(* A net input s that covers from * out / (to - out) buys at least out. *)
LEMMA CurveCovers ==
    ASSUME NEW from \in Nat, NEW to \in Nat, NEW out \in Nat, out <= to,
           NEW s \in Nat, s * (to - out) >= from * out
    PROVE  out * (from + s) <= to * s
  <1>1. s * (to - out) = to * s - out * s
    OBVIOUS
  <1>2. out * (from + s) = from * out + out * s
    OBVIOUS
  <1>3. to * s \in Int /\ out * s \in Int /\ from * out \in Int
    OBVIOUS
  <1> QED
    BY <1>1, <1>2, <1>3

(* What the curve gives for net: the most that keeps the product. *)
LEMMA CurveGives ==
    ASSUME NEW from \in Nat, NEW to \in Nat, NEW net \in Nat, from + net # 0,
           NEW out, out = (to * net) \div (from + net)
    PROVE  /\ out \in Nat /\ out <= to /\ out * (from + net) <= to * net
           /\ \A a \in Nat : a * (from + net) <= to * net => a <= out
  <1>1. PICK n, d : n = to * net /\ d = from + net
    OBVIOUS
  <1>2. n \in Nat /\ d \in Nat \ {0}
    BY <1>1
  <1>3. out = n \div d
    BY <1>1
  <1>4. PICK r : r = n % d
    OBVIOUS
  <1>5. out \in Nat /\ r \in Nat /\ r < d /\ n = d * out + r
    BY <1>2, <1>3, <1>4, DivisionSplits
  <1>6. out * d <= n
    BY <1>2, <1>5
  <1>7. ASSUME NEW a \in Nat, a * d <= n PROVE a <= out
    <2> SUFFICES ASSUME a >= out + 1 PROVE FALSE
      BY <1>5
    <2>1. d * (out + 1) <= d * a
      BY <1>2, <1>5, ProductGrows
    <2>2. d * (out + 1) = d * out + d
      BY <1>2, <1>5
    <2>3. d * a = a * d /\ d * out \in Int /\ d * a \in Int
      BY <1>2, <1>5
    <2> QED BY <1>2, <1>5, <1>7, <2>1, <2>2, <2>3
  <1>8. out <= to
    <2>1. to * net <= to * d
      BY <1>1, <1>2, ProductGrows
    <2>2. d * out <= d * to
      <3>1. d * out \in Int /\ d * to = to * d /\ to * d \in Int
        BY <1>2, <1>5
      <3> QED BY <1>1, <1>5, <2>1, <3>1
    <2> QED BY <1>2, <1>5, <2>2, ProductOrders
  <1> QED
    BY <1>1, <1>5, <1>6, <1>7, <1>8

(* The fees are part of the amount. *)
LEMMA AmmFee ==
    ASSUME NEW a \in Nat
    PROVE  /\ Fee(a) \in Nat /\ Fee(a) <= a
           /\ SwapFeeDen * Fee(a) <= SwapFeeNum * a + SwapFeeDen - 1
           /\ 2 * (SwapFeeDen * Fee(a)) >= 2 * (SwapFeeNum * a) - SwapFeeDen
  <1>1. PICK n, d : n = SwapFeeNum /\ d = SwapFeeDen /\ n \in Nat /\ d \in Nat \ {0} /\ n < d
    BY RaydiumAssumption
  <1>2. PICK c : c = Fee(a)
    OBVIOUS
  <1>3. a * n \in Nat /\ a * n = n * a
    BY <1>1
  <1>4. /\ c \in Nat /\ d * c <= a * n + d - 1 /\ 2 * (d * c) >= 2 * (a * n) - d
    BY <1>1, <1>2, <1>3, CeilDivBounds DEF Fee
  <1>5. c <= a
    <2> SUFFICES ASSUME c >= a + 1 PROVE FALSE
      BY <1>4
    <2>1. d * (a + 1) <= d * c
      BY <1>1, <1>4, ProductGrows
    <2>2. d * (a + 1) = d * a + d
      BY <1>1
    <2>3. a * n <= a * d
      BY <1>1, ProductGrows
    <2>4. a * d = d * a /\ d * a \in Int /\ d * c \in Int
      BY <1>1, <1>4
    <2> QED BY <1>1, <1>3, <1>4, <2>1, <2>2, <2>3, <2>4
  <1> QED
    BY <1>1, <1>2, <1>3, <1>4, <1>5

LEMMA CpFee ==
    ASSUME NEW a \in Nat
    PROVE  /\ Up(a * SwapFeeNum, SwapFeeDen) \in Nat /\ Up(a * SwapFeeNum, SwapFeeDen) <= a
           /\ SwapFeeDen * Up(a * SwapFeeNum, SwapFeeDen) <= SwapFeeNum * a + SwapFeeDen - 1
  <1>1. PICK n, d : n = SwapFeeNum /\ d = SwapFeeDen /\ n \in Nat /\ d \in Nat \ {0} /\ n < d
    BY RaydiumAssumption
  <1>2. PICK c : c = Up(a * n, d)
    OBVIOUS
  <1>3. a * n \in Nat /\ a * n = n * a
    BY <1>1
  <1>4. c \in Nat /\ d * c <= a * n + d - 1
    BY <1>1, <1>2, <1>3, UpBounds
  <1>5. c <= a
    <2> SUFFICES ASSUME c >= a + 1 PROVE FALSE
      BY <1>4
    <2>1. d * (a + 1) <= d * c
      BY <1>1, <1>4, ProductGrows
    <2>2. d * (a + 1) = d * a + d
      BY <1>1
    <2>3. a * n <= a * d
      BY <1>1, ProductGrows
    <2>4. a * d = d * a /\ d * a \in Int /\ d * c \in Int
      BY <1>1, <1>4
    <2> QED BY <1>1, <1>3, <1>4, <2>1, <2>2, <2>3, <2>4
  <1> QED
    BY <1>1, <1>2, <1>3, <1>4, <1>5

(* A pool that is on. *)
IsPool(p) ==
    /\ p = [kind |-> p.kind, status |-> p.status, opened |-> p.opened, frozen |-> p.frozen,
            vault |-> p.vault, owed |-> p.owed]
    /\ p.kind \in {"amm", "cp"}
    /\ p.vault \in [Tokens -> Nat] /\ p.owed \in [Tokens -> Nat]

LEMMA OwnInt ==
    ASSUME NEW p, IsPool(p), NEW t \in Tokens
    PROVE  Own(p, t) \in Int /\ (Solvent(p) => Own(p, t) \in Nat)
  BY DEF IsPool, Own, Solvent

(* A quote the pool can keep. *)
Keepable(p, from, to, q) ==
    /\ Solvent(p) /\ q.in \in Nat /\ q.out \in Nat /\ q.out <= Own(p, to)
    /\ \/ (Own(p, from) + q.in) * (Own(p, to) - q.out) >= Own(p, from) * Own(p, to)
       \/ /\ BelowOne(p, from, to, q.out)
          /\ 2 * ((Own(p, from) + q.in) * (Own(p, to) - q.out)) + (Own(p, to) - q.out)
               >= 2 * (Own(p, from) * Own(p, to))

(* simulate_swap_base_in, swap_base_input *)
LEMMA ExactInKeepable ==
    ASSUME NEW p, IsPool(p), NEW from \in Tokens, NEW to \in Tokens, NEW a \in Nat,
           NEW q, q = Quote_in(p, from, to, a), q.ok, q.out > 0
    PROVE  Keepable(p, from, to, q)
  <1>1. PICK f, t : f = Own(p, from) /\ t = Own(p, to)
    OBVIOUS
  <1>2. CASE p.kind = "amm"
    <2>1. PICK net : net = a - Fee(a)
      OBVIOUS
    <2>2. net \in Nat /\ net <= a
      BY <2>1, AmmFee
    <2>3. q # Error /\ q # Quoted(a, 0)
      BY DEF Error, Quoted
    <2>4. q = simulate_swap_base_in(p, from, to, a)
      BY <1>2, <2>3 DEF Quote_in, AmmQuote
    <2>5. Solvent(p) /\ f + net # 0
      BY <1>1, <2>1, <2>3, <2>4 DEF simulate_swap_base_in
    <2>6. f \in Nat /\ t \in Nat
      BY <1>1, <2>5, OwnInt
    <2>7. PICK g : g = (t * net) \div (f + net)
      OBVIOUS
    <2>8. g \in Nat /\ g <= t /\ g * (f + net) <= t * net
      BY <2>2, <2>5, <2>6, <2>7, CurveGives
    <2>9. q = Quoted(a, Min({g, t}))
      BY <1>1, <2>1, <2>3, <2>4, <2>7 DEF simulate_swap_base_in, swap_token_amount_base_in
    <2>10. Min({g, t}) = g
      <3>1. Min({g, t}) \in {g, t} /\ Min({g, t}) <= g /\ Min({g, t}) <= t
        <4>1. {g, t} \in SUBSET Nat /\ {g, t} # {}
          BY <2>6, <2>8
        <4> QED BY <4>1, MinIsLeast
      <3> QED BY <3>1, <2>6, <2>8
    <2>11. q.in = a /\ q.out = g
      BY <2>9, <2>10 DEF Quoted
    <2>12. (f + a) * (t - g) >= f * t
      BY <2>2, <2>6, <2>8, CurveKeepsProduct
    <2> QED BY <1>1, <2>5, <2>8, <2>11, <2>12 DEF Keepable
  <1>3. CASE p.kind = "cp"
    <2>1. PICK fee, net : fee = Up(a * SwapFeeNum, SwapFeeDen) /\ net = a - fee
      OBVIOUS
    <2>2. net \in Nat /\ net <= a
      BY <2>1, CpFee
    <2>3. q # Error /\ q # Quoted(0, 0)
      BY DEF Error, Quoted
    <2>4. q = swap_base_input(p, from, to, a)
      BY <1>3, <2>3 DEF Quote_in, CpQuote
    <2>5. Solvent(p) /\ a # 0 /\ ~(f = 0 /\ a = fee)
      BY <1>1, <2>1, <2>3, <2>4 DEF swap_base_input
    <2>6. f \in Nat /\ t \in Nat
      BY <1>1, <2>5, OwnInt
    <2>7. f + net # 0
      <3>1. fee \in Nat
        BY <2>1, CpFee
      <3>2. net = 0 => a = fee
        BY <3>1, <2>1
      <3> QED BY <3>2, <2>2, <2>5, <2>6
    <2>8. PICK g : g = (t * net) \div (f + net)
      OBVIOUS
    <2>9. g \in Nat /\ g <= t /\ g * (f + net) <= t * net
      BY <2>2, <2>6, <2>7, <2>8, CurveGives, SMTT(40)
    <2>10. q = Quoted(a, g)
      BY <1>1, <2>1, <2>3, <2>4, <2>8 DEF swap_base_input, CurveBaseInput
    <2>11. q.in = a /\ q.out = g
      BY <2>10 DEF Quoted
    <2>12. (f + a) * (t - g) >= f * t
      BY <2>2, <2>6, <2>9, CurveKeepsProduct
    <2> QED BY <1>1, <2>5, <2>9, <2>11, <2>12 DEF Keepable
  <1> QED
    BY <1>2, <1>3 DEF IsPool

(* simulate_swap_base_out, swap_base_output: the input covers what the curve  *)
(* asks for, but for the rounding below one.                                *)
LEMMA ExactOutCost ==
    ASSUME NEW from \in Nat, NEW to \in Nat, NEW out \in Nat, out < to,
           NEW s, s = swap_token_amount_base_out(out, from, to)
    PROVE  /\ s \in Nat /\ 2 * (s * (to - out)) + (to - out) >= 2 * (from * out)
           /\ from * out >= to - out \/ out = 0 => s * (to - out) >= from * out
  <1>1. PICK n, d : n = from * out /\ d = to - out
    OBVIOUS
  <1>2. n \in Nat /\ d \in Nat \ {0}
    BY <1>1
  <1>3. s = checked_ceil_div(n, d)
    BY <1>1 DEF swap_token_amount_base_out
  <1>4. s \in Nat /\ 2 * (d * s) >= 2 * n - d /\ (n >= d => d * s >= n)
    BY <1>2, <1>3, CeilDivBounds
  <1>5. d * s = s * d /\ s * d \in Nat
    BY <1>2, <1>4
  <1>6. out = 0 => n = 0
    BY <1>1
  <1> QED
    BY <1>1, <1>2, <1>4, <1>5, <1>6

LEMMA CpCost ==
    ASSUME NEW from \in Nat, NEW to \in Nat, NEW out \in Nat, out < to,
           NEW s, s = Up(from * out, to - out),
           NEW source, source = Up(s * SwapFeeDen, SwapFeeDen - SwapFeeNum)
    PROVE  /\ s \in Nat /\ s * (to - out) >= from * out
           /\ source \in Nat /\ (SwapFeeDen - SwapFeeNum) * source >= s * SwapFeeDen
           /\ source >= s
  <1>1. PICK n, d : n = from * out /\ d = to - out
    OBVIOUS
  <1>2. n \in Nat /\ d \in Nat \ {0}
    BY <1>1
  <1>3. s \in Nat /\ d * s >= n
    BY <1>1, <1>2, UpBounds
  <1>4. s * (to - out) >= from * out
    <2>1. d * s = s * d /\ s * d \in Nat
      BY <1>2, <1>3
    <2> QED BY <1>1, <1>2, <1>3, <2>1
  <1>5. PICK e, r : e = SwapFeeDen /\ r = SwapFeeDen - SwapFeeNum /\ e \in Nat /\ r \in Nat \ {0} /\ r <= e
    BY RaydiumAssumption
  <1>6. s * e \in Nat
    BY <1>3, <1>5
  <1>7. source \in Nat /\ r * source >= s * e
    BY <1>5, <1>6, UpBounds
  <1>8. source >= s
    <2>1. s * r <= s * e
      BY <1>3, <1>5, ProductGrows
    <2>2. s * r = r * s /\ r * s \in Int /\ r * source \in Int
      BY <1>3, <1>5, <1>7
    <2>3. r * s <= r * source
      BY <1>6, <1>7, <2>1, <2>2
    <2> QED BY <1>3, <1>5, <1>7, <2>3, ProductOrders
  <1> QED
    BY <1>3, <1>4, <1>5, <1>7, <1>8

LEMMA ExactOutKeepable ==
    ASSUME NEW p, IsPool(p), NEW from \in Tokens, NEW to \in Tokens, NEW a \in Nat,
           NEW q, q = Quote_out(p, from, to, a), q.ok, q.out > 0
    PROVE  Keepable(p, from, to, q)
  <1>1. PICK f, t : f = Own(p, from) /\ t = Own(p, to)
    OBVIOUS
  <1>2. q # Error
    BY DEF Error
  <1>3. CASE p.kind = "amm"
    <2>1. q = simulate_swap_base_out(p, from, to, a)
      BY <1>3 DEF Quote_out, AmmQuoteExactOut
    <2>2. Solvent(p) /\ ~(a >= t)
      BY <1>1, <1>2, <2>1 DEF simulate_swap_base_out
    <2>3. f \in Nat /\ t \in Nat /\ a < t
      BY <1>1, <2>2, OwnInt
    <2>4. PICK s : s = swap_token_amount_base_out(a, f, t)
      OBVIOUS
    <2>5. /\ s \in Nat /\ 2 * (s * (t - a)) + (t - a) >= 2 * (f * a)
          /\ f * a >= t - a \/ a = 0 => s * (t - a) >= f * a
      BY <2>3, <2>4, ExactOutCost
    <2>6. q = Quoted(s + Fee(s), a)
      BY <1>1, <1>2, <2>1, <2>4 DEF simulate_swap_base_out
    <2>7. Fee(s) \in Nat
      BY <2>5, AmmFee
    <2>8. PICK x : x = s + Fee(s) /\ x \in Nat /\ s <= x
      BY <2>5, <2>7
    <2>9. q.in = x /\ q.out = a
      BY <2>6, <2>8 DEF Quoted
    <2>10. CASE f * a < t - a
      <3>1. BelowOne(p, from, to, q.out)
        BY <1>1, <1>3, <2>9, <2>10 DEF BelowOne
      <3>2. 2 * ((f + x) * (t - a)) + (t - a) >= 2 * (f * t)
        <4>1. PICK r : r = t - a /\ r \in Nat
          BY <2>3
        <4>2. s * r <= x * r /\ s * r \in Nat /\ x * r \in Nat /\ f * a \in Nat /\ f * r \in Nat
          BY <2>3, <2>5, <2>8, <4>1, ProductGrows
        <4>3. (f + x) * r = f * r + x * r /\ f * t = f * r + f * a
          BY <2>3, <2>8, <4>1
        <4> QED BY <2>5, <4>1, <4>2, <4>3
      <3> QED BY <1>1, <2>2, <2>3, <2>8, <2>9, <3>1, <3>2 DEF Keepable
    <2>11. CASE ~(f * a < t - a)
      <3>1. s * (t - a) >= f * a
        <4>1. f * a \in Nat
          BY <2>3
        <4> QED BY <2>3, <2>5, <2>11, <4>1
      <3>2. a * (f + s) <= t * s
        BY <2>3, <2>5, <3>1, CurveCovers
      <3>3. (f + x) * (t - a) >= f * t
        BY <2>3, <2>5, <2>8, <3>2, CurveKeepsProduct
      <3> QED BY <1>1, <2>2, <2>3, <2>8, <2>9, <3>3 DEF Keepable
    <2> QED BY <2>10, <2>11
  <1>4. CASE p.kind = "cp"
    <2>1. q = swap_base_output(p, from, to, a)
      BY <1>2, <1>4 DEF Quote_out, CpQuoteExactOut
    <2>2. Solvent(p) /\ ~(a >= t)
      BY <1>1, <1>2, <2>1 DEF swap_base_output
    <2>3. f \in Nat /\ t \in Nat /\ a < t
      BY <1>1, <2>2, OwnInt
    <2>4. PICK s, source : s = Up(f * a, t - a) /\ source = Up(s * SwapFeeDen, SwapFeeDen - SwapFeeNum)
      OBVIOUS
    <2>5. s \in Nat /\ s * (t - a) >= f * a /\ source \in Nat /\ source >= s
      BY <2>3, <2>4, CpCost
    <2>6. PICK fee : fee = Up(source * SwapFeeNum, SwapFeeDen)
      OBVIOUS
    <2>7. fee \in Nat /\ fee \div OwnersPart \in Nat
      BY <2>5, <2>6, CpFee, RaydiumAssumption, DivisionSplits
    <2>8. PICK x : x = source + fee + fee \div OwnersPart /\ x \in Nat /\ s <= x
      BY <2>5, <2>7
    <2>9. q = Quoted(x, a)
      BY <1>1, <1>2, <2>1, <2>4, <2>6, <2>8 DEF swap_base_output, CurveBaseOutput
    <2>10. q.in = x /\ q.out = a
      BY <2>9 DEF Quoted
    <2>11. a * (f + s) <= t * s
      BY <2>3, <2>5, CurveCovers
    <2>12. (f + x) * (t - a) >= f * t
      BY <2>3, <2>5, <2>8, <2>11, CurveKeepsProduct
    <2> QED BY <1>1, <2>2, <2>3, <2>8, <2>10, <2>12 DEF Keepable
  <1> QED
    BY <1>3, <1>4 DEF IsPool

LEMMA SwappedPool ==
    ASSUME NEW p, IsPool(p), NEW d \in Directions, NEW q, Keepable(p, d[1], d[2], q),
           NEW p2, p2 = Swapped(p, d[1], d[2], q)
    PROVE  /\ IsPool(p2) /\ \A t \in Tokens : p2.vault[t] >= p2.owed[t]
           /\ p.vault[d[2]] - p2.vault[d[2]] = q.out
           /\ \/ Product(p2) >= Product(p)
              \/ /\ BelowOne(p, d[1], d[2], q.out)
                 /\ 2 * Product(p2) + Own(p2, d[2]) >= 2 * Product(p)
  <1>1. PICK from, to : from = d[1] /\ to = d[2]
    OBVIOUS
  <1>2. from \in Tokens /\ to \in Tokens /\ from # to /\ Tokens = {from, to}
    BY <1>1 DEF Directions, Tokens
  <1>3. PICK x, out : x = q.in /\ out = q.out
    OBVIOUS
  <1>4. x \in Nat /\ out \in Nat /\ out <= Own(p, to) /\ Own(p, from) >= 0
    BY <1>1, <1>2, <1>3 DEF Keepable, Solvent
  <1>5. /\ p2.kind = p.kind /\ p2.opened = p.opened /\ p2.frozen = p.frozen /\ p2.owed = p.owed
        /\ p2 = [kind |-> p2.kind, status |-> p2.status, opened |-> p2.opened,
                 frozen |-> p2.frozen, vault |-> p2.vault, owed |-> p2.owed]
        /\ p2.vault = [p.vault EXCEPT ![from] = @ + x, ![to] = @ - out]
    BY <1>1, <1>3 DEF Swapped, IsPool
  <1>6. p.vault \in [Tokens -> Nat] /\ p.owed \in [Tokens -> Nat]
    BY DEF IsPool
  <1>7. p2.vault[from] = p.vault[from] + x /\ p2.vault[to] = p.vault[to] - out
    BY <1>2, <1>5, <1>6
  <1>8. p2.vault[to] \in Nat /\ p2.vault[to] >= p.owed[to] /\ p2.vault[from] >= p.owed[from]
    BY <1>2, <1>4, <1>6, <1>7 DEF Own
  <1>9. IsPool(p2)
    <2>1. p2.vault \in [Tokens -> Nat]
      BY <1>2, <1>4, <1>5, <1>6, <1>7, <1>8
    <2> QED BY <1>5, <1>6, <2>1 DEF IsPool
  <1>10. Own(p2, from) = Own(p, from) + x /\ Own(p2, to) = Own(p, to) - out
    BY <1>2, <1>4, <1>5, <1>6, <1>7 DEF Own
  <1>11. p.vault[to] - p2.vault[to] = out
    BY <1>2, <1>4, <1>6, <1>7
  <1>12. Product(p2) = Own(p2, from) * Own(p2, to) /\ Product(p) = Own(p, from) * Own(p, to)
    <2>1. Own(p, "x") \in Int /\ Own(p, "y") \in Int /\ Own(p2, "x") \in Int /\ Own(p2, "y") \in Int
      BY <1>9, OwnInt DEF Tokens
    <2>2. (from = "x" /\ to = "y") \/ (from = "y" /\ to = "x")
      BY <1>1 DEF Directions
    <2> QED BY <2>1, <2>2 DEF Product
  <1>13. \/ Product(p2) >= Product(p)
         \/ BelowOne(p, from, to, out) /\ 2 * Product(p2) + Own(p2, to) >= 2 * Product(p)
    BY <1>1, <1>3, <1>10, <1>12 DEF Keepable
  <1> QED
    BY <1>1, <1>2, <1>3, <1>5, <1>8, <1>9, <1>11, <1>13

RaydiumInv == IsPool(amm)

LEMMA RaydiumInitial == RaydiumInit => RaydiumInv
  <1> SUFFICES ASSUME RaydiumInit PROVE RaydiumInv
    OBVIOUS
  <1>1. PICK k \in Kinds, s \in {"SwapOnly", "WaitingTrade"}, x \in StartVaults,
             y \in StartVaults, o \in BOOLEAN :
          amm = [kind |-> k, status |-> s, opened |-> o, frozen |-> FALSE,
                 vault |-> [x |-> x, y |-> y], owed |-> [x |-> 0, y |-> 0]]
    BY DEF RaydiumInit
  <1>2. k \in {"amm", "cp"} /\ x \in Nat /\ y \in Nat
    BY RaydiumAssumption
  <1>3. [x |-> x, y |-> y] \in [Tokens -> Nat] /\ [x |-> 0, y |-> 0] \in [Tokens -> Nat]
    BY <1>2 DEF Tokens
  <1> QED
    BY <1>1, <1>2, <1>3 DEF RaydiumInv, IsPool

(* A trade at a quoted amount. *)
LEMMA TradeKeeps ==
    ASSUME RaydiumInv, NEW d \in Directions, NEW a \in TradeAmounts, NEW q,
           q \in {Quote_in(amm, d[1], d[2], a), Quote_out(amm, d[1], d[2], a)},
           Trade(q, d[1], d[2])
    PROVE  /\ RaydiumInv' /\ \A t \in Tokens : amm'.vault[t] >= amm'.owed[t]
           /\ \/ Product(amm') >= Product(amm)
              \/ /\ BelowOne(amm, d[1], d[2], amm.vault[d[2]] - amm'.vault[d[2]])
                 /\ 2 * Product(amm') + Own(amm', d[2]) >= 2 * Product(amm)
  <1>1. PICK p, p2 : p = amm /\ p2 = amm'
    OBVIOUS
  <1>2. q.ok /\ q.out > 0 /\ p2 = Swapped(p, d[1], d[2], q)
    BY <1>1 DEF Trade
  <1>3. a \in Nat /\ d[1] \in Tokens /\ d[2] \in Tokens
    BY RaydiumAssumption DEF Directions, Tokens
  <1>4. IsPool(p)
    BY <1>1 DEF RaydiumInv
  <1>5. Keepable(p, d[1], d[2], q)
    <2>1. CASE q = Quote_in(p, d[1], d[2], a)
      BY <1>2, <1>3, <1>4, <2>1, ExactInKeepable
    <2>2. CASE q = Quote_out(p, d[1], d[2], a)
      BY <1>2, <1>3, <1>4, <2>2, ExactOutKeepable
    <2> QED BY <1>1, <2>1, <2>2
  <1>6. /\ IsPool(p2) /\ \A t \in Tokens : p2.vault[t] >= p2.owed[t]
        /\ p.vault[d[2]] - p2.vault[d[2]] = q.out
        /\ \/ Product(p2) >= Product(p)
           \/ /\ BelowOne(p, d[1], d[2], q.out)
              /\ 2 * Product(p2) + Own(p2, d[2]) >= 2 * Product(p)
    BY <1>2, <1>4, <1>5, SwappedPool
  <1> QED
    BY <1>1, <1>6 DEF RaydiumInv

(* Setting profit aside, opening, disabling and freezing leave the vaults. *)
LEMMA AdministerKeeps ==
    ASSUME RaydiumInv, Administer
    PROVE  RaydiumInv' /\ amm'.vault = amm.vault
  <1>1. /\ amm.vault \in [Tokens -> Nat] /\ amm.owed \in [Tokens -> Nat]
        /\ amm.kind \in {"amm", "cp"}
        /\ amm = [kind |-> amm.kind, status |-> amm.status, opened |-> amm.opened,
                  frozen |-> amm.frozen, vault |-> amm.vault, owed |-> amm.owed]
    BY DEF RaydiumInv, IsPool
  <1>2. CASE \E t \in Tokens : amm' = [amm EXCEPT !.owed[t] = @ + 1]
    <2>1. PICK t \in Tokens : amm' = [amm EXCEPT !.owed[t] = @ + 1]
      BY <1>2
    <2>2. [amm.owed EXCEPT ![t] = @ + 1] \in [Tokens -> Nat]
      BY <1>1
    <2> QED BY <1>1, <2>1, <2>2 DEF RaydiumInv, IsPool
  <1>3. CASE amm' = [amm EXCEPT !.opened = TRUE]
    BY <1>1, <1>3 DEF RaydiumInv, IsPool
  <1>4. CASE amm' = [amm EXCEPT !.status = "Disabled"]
    BY <1>1, <1>4 DEF RaydiumInv, IsPool
  <1>5. CASE amm' = [amm EXCEPT !.frozen = TRUE]
    BY <1>1, <1>5 DEF RaydiumInv, IsPool
  <1> QED
    BY <1>2, <1>3, <1>4, <1>5 DEF Administer

TradeIsKept ==
    amm # Off /\ amm.vault # amm'.vault =>
       /\ \A t \in Tokens : amm'.vault[t] >= amm'.owed[t]
       /\ \/ Product(amm') >= Product(amm)
          \/ \E d \in Directions :
                /\ BelowOne(amm, d[1], d[2], amm.vault[d[2]] - amm'.vault[d[2]])
                /\ 2 * Product(amm') + Own(amm', d[2]) >= 2 * Product(amm)

LEMMA RaydiumStep ==
    RaydiumInv /\ [RaydiumNext]_raydium => RaydiumInv' /\ (TradeIsKept \/ UNCHANGED raydium)
  <1> SUFFICES ASSUME RaydiumInv, [RaydiumNext]_raydium
               PROVE  RaydiumInv' /\ (TradeIsKept \/ UNCHANGED raydium)
    OBVIOUS
  <1>1. CASE UNCHANGED raydium
    BY <1>1 DEF raydium, RaydiumInv
  <1>2. CASE TradeExactIn
    <2>1. PICK d \in Directions, a \in TradeAmounts : Trade(Quote_in(amm, d[1], d[2], a), d[1], d[2])
      BY <1>2 DEF TradeExactIn
    <2>2. PICK q : q = Quote_in(amm, d[1], d[2], a) /\ Trade(q, d[1], d[2])
      BY <2>1
    <2> QED BY <2>2, TradeKeeps DEF TradeIsKept
  <1>3. CASE TradeExactOut
    <2>1. PICK d \in Directions, a \in TradeAmounts : Trade(Quote_out(amm, d[1], d[2], a), d[1], d[2])
      BY <1>3 DEF TradeExactOut
    <2>2. PICK q : q = Quote_out(amm, d[1], d[2], a) /\ Trade(q, d[1], d[2])
      BY <2>1
    <2> QED BY <2>2, TradeKeeps DEF TradeIsKept
  <1>4. CASE Administer
    BY <1>4, AdministerKeeps DEF TradeIsKept
  <1> QED
    BY <1>1, <1>2, <1>3, <1>4 DEF RaydiumNext

(* Trading at the quotes of Raydium's pools, in either mode and direction,    *)
(* never takes what the pool has set aside and never lowers the product of    *)
(* the reserves, but where an exact output costs less than one unit, and     *)
(* there by less than half a unit of the input.                             *)
THEOREM ProductKept == RaydiumSpec => TradesKeepProduct
  <1>1. RaydiumInv /\ [RaydiumNext]_raydium => [TradeIsKept]_raydium
    BY RaydiumStep
  <1>2. RaydiumInv /\ [RaydiumNext]_raydium => RaydiumInv'
    BY RaydiumStep
  <1>3. RaydiumSpec => [][TradeIsKept]_raydium
    BY <1>1, <1>2, RaydiumInitial, PTL DEF RaydiumSpec
  <1> QED
    BY <1>3 DEF TradesKeepProduct, TradeIsKept

(* The net part of an input x whose fee is at most the rate, rounded up,      *)
(* covers s when x covers s and its fee.                                    *)
LEMMA NetCovers ==
    ASSUME NEW n \in Nat, NEW d \in Nat \ {0}, n < d, NEW x \in Nat, NEW s \in Nat,
           x * (d - n) >= s * d, NEW fee \in Nat, d * fee <= n * x + d - 1
    PROVE  x - fee >= s
  <1> SUFFICES ASSUME x - fee <= s - 1 PROVE FALSE
    OBVIOUS
  <1>1. x * (d - n) = x * d - n * x
    OBVIOUS
  <1>2. d * (x + 1) <= d * (s + fee)
    <2>1. x + 1 \in Nat /\ s + fee \in Nat /\ x + 1 <= s + fee
      OBVIOUS
    <2> QED BY <2>1, ProductGrows
  <1>3. d * (x + 1) = x * d + d /\ d * (s + fee) = s * d + d * fee
    OBVIOUS
  <1>4. x * d \in Int /\ s * d \in Int /\ d * fee \in Int /\ n * x \in Int
    OBVIOUS
  <1> QED
    BY <1>1, <1>2, <1>3, <1>4

(* A larger input covers what a smaller one does. *)
LEMMA MoreCovers ==
    ASSUME NEW r \in Nat, NEW x \in Nat, NEW y \in Nat, x <= y, NEW k \in Int, r * x >= k
    PROVE  y * r >= k
  <1>1. r * x <= r * y /\ r * y = y * r /\ r * x \in Int /\ r * y \in Int
    BY ProductGrows
  <1> QED BY <1>1

(* The curve gives out for any net input that covers it. *)
LEMMA CurveGivesCovered ==
    ASSUME NEW from \in Nat \ {0}, NEW to \in Nat, NEW a \in Nat, a <= to,
           NEW s \in Nat, s * (to - a) >= from * a, NEW net \in Nat, net >= s
    PROVE  from + net # 0 /\ (to * net) \div (from + net) >= a /\ (to * net) \div (from + net) \in Nat
  <1>1. net * (to - a) >= from * a
    <2>1. to - a \in Nat /\ (to - a) * s = s * (to - a) /\ from * a \in Int
      OBVIOUS
    <2>2. (to - a) * s >= from * a
      BY <2>1
    <2> QED BY <2>1, <2>2, MoreCovers
  <1>2. a * (from + net) <= to * net
    BY <1>1, CurveCovers
  <1>3. from + net # 0
    OBVIOUS
  <1>4. PICK out : out = (to * net) \div (from + net)
    OBVIOUS
  <1>5. out \in Nat /\ \A b \in Nat : b * (from + net) <= to * net => b <= out
    BY <1>3, <1>4, CurveGives
  <1> QED
    BY <1>2, <1>3, <1>4, <1>5

(* swap_base_output counts the fee twice, so its input is enough. *)
LEMMA CpCovered ==
    ASSUME NEW p, IsPool(p), p.kind = "cp", NEW from \in Tokens, NEW to \in Tokens, NEW a \in Nat,
           NEW q, q = Quote_out(p, from, to, a), q.ok, Own(p, from) > 0,
           NEW i, i = Quote_in(p, from, to, q.in)
    PROVE  i.ok /\ i.out >= a
  <1>1. PICK f, t : f = Own(p, from) /\ t = Own(p, to)
    OBVIOUS
  <1>2. q # Error
    BY DEF Error
  <1>3. q = swap_base_output(p, from, to, a) /\ Open(p)
    BY <1>2 DEF Quote_out, CpQuoteExactOut
  <1>4. Solvent(p) /\ ~(a >= t) /\ a # 0
    BY <1>1, <1>2, <1>3 DEF swap_base_output
  <1>5. f \in Nat \ {0} /\ t \in Nat /\ a < t
    BY <1>1, <1>4, OwnInt
  <1>6. PICK s, source : s = Up(f * a, t - a) /\ source = Up(s * SwapFeeDen, SwapFeeDen - SwapFeeNum)
    OBVIOUS
  <1>7. /\ s \in Nat /\ s * (t - a) >= f * a /\ source \in Nat /\ source >= s
        /\ (SwapFeeDen - SwapFeeNum) * source >= s * SwapFeeDen
    BY <1>5, <1>6, CpCost
  <1>8. PICK fee : fee = Up(source * SwapFeeNum, SwapFeeDen)
    OBVIOUS
  <1>9. fee \in Nat /\ fee \div OwnersPart \in Nat
    BY <1>7, <1>8, CpFee, RaydiumAssumption, DivisionSplits
  <1>10. PICK x : x = source + fee + fee \div OwnersPart /\ x \in Nat /\ source <= x
    BY <1>7, <1>9
  <1>11. q.in = x
    BY <1>1, <1>2, <1>3, <1>6, <1>8, <1>10 DEF swap_base_output, CurveBaseOutput, Quoted
  <1>12. PICK g : g = Up(x * SwapFeeNum, SwapFeeDen)
    OBVIOUS
  <1>13. g \in Nat /\ g <= x /\ SwapFeeDen * g <= SwapFeeNum * x + SwapFeeDen - 1
    BY <1>10, <1>12, CpFee
  <1>14. x - g >= s /\ x - g \in Nat
    <2>1. PICK n, d : n = SwapFeeNum /\ d = SwapFeeDen /\ n \in Nat /\ d \in Nat \ {0} /\ n < d
      BY RaydiumAssumption
    <2>2. d - n \in Nat /\ s * d \in Int /\ (d - n) * source >= s * d
      BY <1>7, <2>1
    <2>3. x * (d - n) >= s * d
      BY <2>2, <1>7, <1>10, MoreCovers
    <2> QED BY <1>7, <1>10, <1>13, <2>1, <2>3, NetCovers
  <1>15. PICK net : net = x - g /\ net \in Nat /\ net >= s
    BY <1>14
  <1>16. f + net # 0 /\ (t * net) \div (f + net) >= a
    BY <1>5, <1>7, <1>15, CurveGivesCovered
  <1>17. x # 0
    <2>1. f * a # 0 /\ f * a \in Nat
      BY <1>4, <1>5
    <2>2. s # 0
      BY <2>1, <1>5, <1>7
    <2> QED BY <2>2, <1>7, <1>10
  <1>18. i = Quoted(x, (t * net) \div (f + net))
    <2>1. i = swap_base_input(p, from, to, x)
      BY <1>3, <1>11 DEF Quote_in, CpQuote
    <2> QED BY <2>1, <1>1, <1>4, <1>5, <1>12, <1>15, <1>17 DEF swap_base_input, CurveBaseInput
  <1> QED
    BY <1>16, <1>18 DEF Quoted

LEMMA ProductKeepsOrder ==
    ASSUME NEW a \in Nat, NEW b \in Int, NEW c \in Int, b <= c
    PROVE  a * b <= a * c
  OBVIOUS

(* d^2 - d n + n^2, by which d^3 + n^3 is d + n times. *)
LEMMA SumOfCubes ==
    ASSUME NEW n \in Nat, NEW d \in Nat, n <= d, NEW Q, Q = d * d - d * n + n * n
    PROVE  Q \in Nat /\ Q <= d * d /\ (d + n) * Q = d * (d * d) + n * (n * n)
  <1>1. n * n <= d * n /\ n * d <= d * d
    BY ProductGrows
  <1>2. d * d \in Nat /\ d * n \in Nat /\ n * n \in Nat /\ n * d = d * n
    OBVIOUS
  <1>3. Q \in Nat /\ Q <= d * d
    BY <1>1, <1>2
  <1>4. (d + n) * Q = d * Q + n * Q
    BY <1>3
  <1>5. d * Q = d * (d * d) - d * (d * n) + d * (n * n)
    BY <1>2
  <1>6. n * Q = n * (d * d) - n * (d * n) + n * (n * n)
    BY <1>2
  <1>7. d * (d * n) = n * (d * d) /\ d * (n * n) = n * (d * n)
    OBVIOUS
  <1>8. /\ d * (d * d) \in Int /\ n * (d * d) \in Int /\ n * (d * n) \in Int /\ n * (n * n) \in Int
    OBVIOUS
  <1> QED
    BY <1>3, <1>4, <1>5, <1>6, <1>7, <1>8

(* An input made of s, the fee f on s, and what the fee on the fee grosses up *)
(* to, covers s and its own fee: f, g and h are fees on s, on their sum and   *)
(* on g, each rounded by at most a half.                                    *)
LEMMA FeeSeries ==
    ASSUME NEW n \in Nat, NEW d \in Nat \ {0}, n < d, NEW s \in Nat,
           NEW f \in Nat, 2 * (d * f) >= 2 * (n * s) - d,
           NEW S \in Nat, S = s + f,
           NEW g \in Nat, 2 * (d * g) >= 2 * (n * S) - d,
           NEW h \in Nat, 2 * (d * h) >= 2 * (n * g) - d,
           NEW T \in Nat, (d - n) * T >= (h + 2) * d
    PROVE  (S + T) * (d - n) >= s * d
  <1> DEFINE Q == d * d - d * n + n * n
             X == (S + T) * (d - n)
  <1>0. Q \in Nat /\ Q <= d * d /\ (d + n) * Q = d * (d * d) + n * (n * n)
    BY SumOfCubes
  <1>1. 2 * X >= 2 * (d * S) - 2 * (n * S) + 2 * (n * g) + 3 * d /\ X \in Int
    <2>1. X = d * S - n * S + (d - n) * T
      OBVIOUS
    <2>2. (h + 2) * d = d * h + 2 * d
      OBVIOUS
    <2>3. d * S \in Int /\ n * S \in Int /\ (d - n) * T \in Int /\ d * h \in Int /\ n * g \in Int
      OBVIOUS
    <2> HIDE DEF X
    <2> QED BY <2>1, <2>2, <2>3
  <1>2. 2 * (d * (n * g)) >= 2 * (n * (n * S)) - n * d
    <2>1. PICK b, c : b = n * S /\ c = d * g /\ b \in Int /\ c \in Int
      OBVIOUS
    <2>2. 2 * b - d <= 2 * c
      BY <2>1
    <2>3. n * (2 * b - d) <= n * (2 * c)
      BY <2>1, <2>2, ProductKeepsOrder
    <2>4. n * (2 * b - d) = 2 * (n * b) - n * d /\ n * (2 * c) = 2 * (n * c)
      BY <2>1
    <2>5. n * c = d * (n * g)
      BY <2>1
    <2>6. n * c \in Int /\ n * b \in Int /\ n * d \in Int
      BY <2>1
    <2> QED BY <2>1, <2>3, <2>4, <2>5, <2>6
  <1>3. d * X >= S * Q + d * d
    <2>1. PICK a, b, k : /\ a = d * S /\ b = n * S /\ k = n * g
                         /\ a \in Int /\ b \in Int /\ k \in Int
      OBVIOUS
    <2>2. 2 * a - 2 * b + 2 * k + 3 * d <= 2 * X
      BY <1>1, <2>1
    <2> HIDE DEF X
    <2>3. d * (2 * a - 2 * b + 2 * k + 3 * d) <= d * (2 * X)
      BY <1>1, <2>1, <2>2, ProductKeepsOrder
    <2>4. /\ d * (2 * a - 2 * b + 2 * k + 3 * d)
               = 2 * (d * a) - 2 * (d * b) + 2 * (d * k) + 3 * (d * d)
          /\ d * (2 * X) = 2 * (d * X)
      BY <1>1, <2>1
    <2>5. 2 * (d * k) >= 2 * (n * b) - n * d
      BY <1>2, <2>1
    <2>6. n * d <= d * d
      BY ProductGrows
    <2>7. S * Q = d * a - d * b + n * b
      <3>1. S * Q = S * (d * d) - S * (d * n) + S * (n * n)
        OBVIOUS
      <3>2. d * a = S * (d * d) /\ d * b = S * (d * n) /\ n * b = S * (n * n)
        BY <2>1
      <3> QED BY <3>1, <3>2
    <2>8. /\ d * a \in Int /\ d * b \in Int /\ n * b \in Int /\ d * k \in Int
          /\ d * d \in Int /\ n * d \in Int /\ d * X \in Int
      BY <1>1, <2>1
    <2> HIDE DEF Q
    <2> QED BY <2>3, <2>4, <2>5, <2>6, <2>7, <2>8
  <1>4. 2 * ((d * S) * Q) >= 2 * (s * (d * (d * d))) - d * (d * d)
    <2>1. 2 * (d * S) >= 2 * ((d + n) * s) - d
      <3>1. d * S = d * s + d * f /\ (d + n) * s = d * s + n * s
        OBVIOUS
      <3>2. d * s \in Int /\ d * f \in Int /\ n * s \in Int
        OBVIOUS
      <3> QED BY <3>1, <3>2
    <2> HIDE DEF Q, X
    <2>2. PICK a, b : a = d * S /\ b = (d + n) * s /\ a \in Int /\ b \in Int
      OBVIOUS
    <2>3. Q * (2 * b - d) <= Q * (2 * a)
      BY <1>0, <2>1, <2>2, ProductKeepsOrder
    <2>4. Q * (2 * b - d) = 2 * (b * Q) - d * Q /\ Q * (2 * a) = 2 * (a * Q)
      BY <1>0, <2>2
    <2>5. b * Q = s * (d * (d * d)) + s * (n * (n * n))
      <3>1. b * Q = s * ((d + n) * Q)
        BY <1>0, <2>2
      <3>2. PICK u, v : u = d * (d * d) /\ v = n * (n * n) /\ u \in Int /\ v \in Int
        OBVIOUS
      <3>3. s * (u + v) = s * u + s * v
        BY <3>2
      <3> QED BY <1>0, <3>1, <3>2, <3>3
    <2>6. d * Q <= d * (d * d)
      BY <1>0, ProductKeepsOrder
    <2>7. s * (n * (n * n)) \in Nat
      OBVIOUS
    <2>8. s * (d * (d * d)) \in Int /\ d * (d * d) \in Int /\ d * Q \in Int /\ a * Q \in Int /\ b * Q \in Int
      BY <1>0, <2>2
    <2> QED BY <2>2, <2>3, <2>4, <2>5, <2>6, <2>7, <2>8
  <1>5. d * (d * X) >= d * (d * (s * d))
    <2>1. d * (S * Q + d * d) <= d * (d * X)
      <3>1. S * Q + d * d \in Int /\ d * X \in Int
        BY <1>0, <1>1
      <3> HIDE DEF Q, X
      <3> QED BY <1>3, <3>1, ProductKeepsOrder
    <2> HIDE DEF Q, X
    <2>2. d * (S * Q + d * d) = (d * S) * Q + d * (d * d)
      BY <1>0
    <2>3. d * (d * (s * d)) = s * (d * (d * d))
      OBVIOUS
    <2>4. d * (d * d) \in Nat /\ s * (d * (d * d)) \in Int /\ (d * S) * Q \in Int /\ d * (d * X) \in Int
      BY <1>0, <1>1
    <2> QED BY <1>4, <2>1, <2>2, <2>3, <2>4
  <1> HIDE DEF X
  <1>6. d * (s * d) <= d * X
    <2>1. d * (s * d) \in Int /\ d * X \in Int
      BY <1>1
    <2> QED BY <1>5, <2>1, ProductOrders
  <1>7. s * d <= X
    <2>1. s * d \in Int
      OBVIOUS
    <2> QED BY <1>1, <1>6, <2>1, ProductOrders
  <1> QED
    BY <1>1, <1>7 DEF X

(* simulate_swap_base_out leaves the fee on the fee out; with it, its input   *)
(* is enough.                                                               *)
LEMMA AmmCovered ==
    ASSUME NEW p, IsPool(p), p.kind = "amm", ~p.frozen,
           NEW from \in Tokens, NEW to \in Tokens, NEW a \in Nat,
           NEW q, q = Quote_out(p, from, to, a), q.ok, Own(p, from) > 0,
           ~BelowOne(p, from, to, a),
           NEW i, i = Quote_in(p, from, to, q.in + FeeOnFee(q.in))
    PROVE  i.ok /\ i.out >= a
  <1>1. PICK f, t : f = Own(p, from) /\ t = Own(p, to)
    OBVIOUS
  <1>2. q # Error
    BY DEF Error
  <1>3. q = simulate_swap_base_out(p, from, to, a)
    BY DEF Quote_out, AmmQuoteExactOut
  <1>4. Solvent(p) /\ ~(a >= t) /\ swap_permission(p.status)
    BY <1>1, <1>2, <1>3 DEF simulate_swap_base_out
  <1>5. f \in Nat \ {0} /\ t \in Nat /\ a < t
    BY <1>1, <1>4, OwnInt
  <1>6. PICK s : s = swap_token_amount_base_out(a, f, t)
    OBVIOUS
  <1>7. s \in Nat /\ s * (t - a) >= f * a
    <2>1. s \in Nat /\ (f * a >= t - a \/ a = 0 => s * (t - a) >= f * a)
      BY <1>5, <1>6, ExactOutCost
    <2>2. f * a \in Nat /\ t - a \in Nat
      BY <1>5
    <2>3. f * a >= t - a \/ a = 0
      BY <1>1, <2>2 DEF BelowOne
    <2> QED BY <2>1, <2>3
  <1>8. PICK S : S = s + Fee(s) /\ S \in Nat /\ q.in = S
    <2>1. Fee(s) \in Nat
      BY <1>7, AmmFee
    <2>2. q = Quoted(s + Fee(s), a)
      BY <1>1, <1>2, <1>3, <1>6 DEF simulate_swap_base_out
    <2> QED BY <1>7, <2>1, <2>2 DEF Quoted
  <1>9. PICK n, d : n = SwapFeeNum /\ d = SwapFeeDen /\ n \in Nat /\ d \in Nat \ {0} /\ n < d
    BY RaydiumAssumption
  <1>10. PICK k, g, h, T : k = Fee(s) /\ g = Fee(S) /\ h = Fee(g) /\ T = FeeOnFee(S)
    OBVIOUS
  <1>11. k \in Nat /\ 2 * (d * k) >= 2 * (n * s) - d
    BY <1>7, <1>9, <1>10, AmmFee
  <1>12. g \in Nat /\ 2 * (d * g) >= 2 * (n * S) - d
    BY <1>8, <1>9, <1>10, AmmFee
  <1>13. h \in Nat /\ 2 * (d * h) >= 2 * (n * g) - d
    BY <1>9, <1>10, <1>12, AmmFee
  <1>14. T \in Nat /\ (d - n) * T >= (h + 2) * d
    <2>1. (h + 2) * d \in Nat /\ d - n \in Nat \ {0}
      BY <1>9, <1>13
    <2>2. T = Up((h + 2) * d, d - n)
      BY <1>9, <1>10 DEF FeeOnFee
    <2> QED BY <2>1, <2>2, UpBounds
  <1>15. PICK x : x = S + T /\ x \in Nat
    BY <1>8, <1>14
  <1>16. x * (d - n) >= s * d
    <2>1. (S + T) * (d - n) >= s * d
      BY <1>7, <1>8, <1>9, <1>10, <1>11, <1>12, <1>13, <1>14, FeeSeries
    <2> QED BY <1>15, <2>1
  <1>17. PICK fee : fee = Fee(x) /\ fee \in Nat /\ fee <= x /\ d * fee <= n * x + d - 1
    BY <1>9, <1>15, AmmFee
  <1>18. PICK net : net = x - fee /\ net \in Nat /\ net >= s
    <2>1. x - fee >= s
      BY <1>7, <1>9, <1>15, <1>16, <1>17, NetCovers
    <2> QED BY <1>15, <1>17, <2>1
  <1>19. PICK out : out = (t * net) \div (f + net)
    OBVIOUS
  <1>20. f + net # 0 /\ out >= a /\ out \in Nat
    BY <1>5, <1>7, <1>18, <1>19, CurveGivesCovered
  <1>21. out <= t
    BY <1>5, <1>18, <1>19, <1>20, CurveGives
  <1>22. i = Quoted(x, Min({out, t}))
    <2>1. i = simulate_swap_base_in(p, from, to, x)
      BY <1>8, <1>10, <1>15 DEF Quote_in, AmmQuote
    <2> QED BY <2>1, <1>1, <1>4, <1>17, <1>18, <1>19, <1>20
            DEF simulate_swap_base_in, swap_token_amount_base_in
  <1>23. Min({out, t}) \in {out, t}
    <2>1. {out, t} \in SUBSET Nat /\ {out, t} # {}
      BY <1>5, <1>20
    <2> QED BY <2>1, MinIsLeast
  <1>24. Min({out, t}) >= a
    BY <1>5, <1>20, <1>23
  <1> QED
    BY <1>22, <1>24 DEF Quoted

(* An exact-out quote of Raydium's pools, swapped as the exact input the       *)
(* executor sends, gives the output asked for, but for the fee on the fee     *)
(* that the AMM's simulate_swap_base_out leaves out.                         *)
THEOREM ExactOutCovered == RaydiumSpec => []ExactOutNearlyCovered
  <1>1. RaydiumInv => ExactOutNearlyCovered
    <2> SUFFICES ASSUME RaydiumInv, ~amm.frozen,
                        NEW d \in Directions, NEW a \in TradeAmounts
                 PROVE  LET out == Quote_out(amm, d[1], d[2], a)
                            short == IF amm.kind = "cp" THEN 0 ELSE FeeOnFee(out.in)
                            in == Quote_in(amm, d[1], d[2], out.in + short)
                        IN  out.ok /\ Own(amm, d[1]) > 0 /\ ~BelowOne(amm, d[1], d[2], a)
                              => in.ok /\ in.out >= a
      BY DEF ExactOutNearlyCovered
    <2>0. PICK out, short, in :
             /\ out = Quote_out(amm, d[1], d[2], a)
             /\ short = IF amm.kind = "cp" THEN 0 ELSE FeeOnFee(out.in)
             /\ in = Quote_in(amm, d[1], d[2], out.in + short)
      OBVIOUS
    <2> SUFFICES ASSUME out.ok, Own(amm, d[1]) > 0, ~BelowOne(amm, d[1], d[2], a)
                 PROVE  in.ok /\ in.out >= a
      BY <2>0
    <2>1. PICK p, from, to : p = amm /\ from = d[1] /\ to = d[2]
      OBVIOUS
    <2>2. IsPool(p) /\ from \in Tokens /\ to \in Tokens /\ a \in Nat
      BY <2>1, RaydiumAssumption DEF RaydiumInv, Directions, Tokens
    <2>3. CASE p.kind = "cp"
      <3>1. out.in \in Nat
        <4>1. PICK f, t : f = Own(p, from) /\ t = Own(p, to)
          OBVIOUS
        <4>2. out # Error
          BY DEF Error
        <4>3. out.out = a /\ a # 0
          BY <2>0, <2>1, <2>3, <4>2 DEF Quote_out, CpQuoteExactOut, swap_base_output, Quoted
        <4>4. out.out > 0
          BY <2>2, <4>3
        <4>5. Keepable(p, from, to, out)
          BY <2>0, <2>1, <2>2, <4>4, ExactOutKeepable
        <4> QED BY <4>5 DEF Keepable
      <3>2. out.in + short = out.in
        BY <2>0, <2>1, <2>3, <3>1
      <3>3. in = Quote_in(p, from, to, out.in) /\ out = Quote_out(p, from, to, a) /\ Own(p, from) > 0
        BY <2>0, <2>1, <3>2
      <3> QED BY <2>2, <2>3, <3>3, CpCovered
    <2>4. CASE p.kind = "amm"
      <3>1. /\ in = Quote_in(p, from, to, out.in + FeeOnFee(out.in))
            /\ out = Quote_out(p, from, to, a)
            /\ Own(p, from) > 0 /\ ~BelowOne(p, from, to, a) /\ ~p.frozen
        BY <2>0, <2>1, <2>4
      <3> QED BY <2>2, <2>4, <3>1, AmmCovered
    <2> QED BY <2>2, <2>3, <2>4 DEF IsPool
  <1>2. RaydiumInv /\ [RaydiumNext]_raydium => RaydiumInv'
    BY RaydiumStep
  <1> QED
    BY <1>1, <1>2, RaydiumInitial, PTL DEF RaydiumSpec

-----------------------------------------------------------------------------
(* compute_liquidity                                                        *)

LEMMA MinOfTwo ==
    ASSUME NEW a \in Int, NEW b \in Int
    PROVE  Min({a, b}) = IF a <= b THEN a ELSE b
  <1>1. {a, b} \in SUBSET Int
    OBVIOUS
  <1>2. CASE a <= b
    <2>1. a \in {a, b} /\ \A y \in {a, b} : a <= y
      BY <1>2
    <2> QED BY <1>1, <1>2, <2>1, ChosenLeast DEF Min
  <1>3. CASE ~(a <= b)
    <2>1. b \in {a, b} /\ \A y \in {a, b} : b <= y
      BY <1>3
    <2> QED BY <1>1, <1>3, <2>1, ChosenLeast DEF Min
  <1> QED BY <1>2, <1>3

LEMMA SaturatedIs ==
    ASSUME NEW n \in Int
    PROVE  Saturated(n) = IF n <= AmountMax THEN n ELSE AmountMax
  <1>1. AmountMax \in Int
    BY LiquidityAssumption
  <1> QED
    BY <1>1, MinOfTwo DEF Saturated

LEMMA OutAmountNat ==
    ASSUME NEW r \in Nat \X Nat, NEW a \in Nat
    PROVE  OutAmount(r, a) \in Nat
  <1>1. PICK x, y : x = r[1] /\ y = r[2] /\ x \in Nat /\ y \in Nat
    OBVIOUS
  <1>2. CASE a > MaxQuotable \/ x + a = 0
    BY <1>1, <1>2 DEF OutAmount
  <1>3. CASE ~(a > MaxQuotable \/ x + a = 0)
    <2>1. y * a \in Nat /\ x + a \in Nat \ {0}
      BY <1>1, <1>3
    <2>2. (y * a) \div (x + a) \in Nat
      BY <2>1, DivisionSplits
    <2> QED BY <1>1, <1>3, <2>2 DEF OutAmount
  <1> QED BY <1>2, <1>3

(* Doubling the input brings less than 1.7 times the output. *)
GivesWay(r, in, out) == 10 * OutAmount(r, 2 * in) < 17 * out

(* It is enough to see it at the saturated double. *)
LEMMA SaturatedGivesWay ==
    ASSUME NEW r \in Nat \X Nat, NEW in \in Nat, NEW out \in Nat,
           10 * OutAmount(r, Saturated(2 * in)) < 17 * out
    PROVE  GivesWay(r, in, out)
  <1>1. PICK k : k = 2 * in /\ k \in Nat
    OBVIOUS
  <1>2. MaxQuotable \in Nat /\ AmountMax \in Nat /\ MaxQuotable <= AmountMax
    BY LiquidityAssumption
  <1>3. CASE k <= AmountMax
    <2>1. Saturated(k) = k
      BY <1>1, <1>3, SaturatedIs
    <2> QED BY <1>1, <2>1 DEF GivesWay
  <1>4. CASE ~(k <= AmountMax)
    <2>1. OutAmount(r, k) = 0
      BY <1>1, <1>2, <1>4 DEF OutAmount
    <2>2. Saturated(k) \in Nat
      BY <1>1, <1>2, SaturatedIs
    <2>3. OutAmount(r, Saturated(k)) \in Nat
      BY <2>2, OutAmountNat
    <2> QED BY <1>1, <2>1, <2>3 DEF GivesWay
  <1> QED BY <1>3, <1>4

IsMeasure(m) ==
    /\ m = [edge |-> m.edge, pool |-> m.pool, first |-> m.first, iter |-> m.iter,
            has_failed |-> m.has_failed, next_in |-> m.next_in, last_in |-> m.last_in,
            last_out |-> m.last_out]
    /\ m.edge \in LiquidEdges /\ m.pool \in Nat \X Nat
    /\ m.first \in Nat /\ m.iter \in Nat /\ m.has_failed \in BOOLEAN
    /\ m.next_in \in Nat /\ m.last_in \in Nat /\ m.last_out \in Nat

(* Where the loop is: not begun, or with the quote of the last input that was *)
(* accepted, and either about to try its double or already refused it.       *)
MeasureInv(m) ==
    /\ m.iter = 0 => /\ m.next_in = m.first /\ m.last_in = m.first
                     /\ m.last_out = 0 /\ ~m.has_failed
    /\ m.iter # 0 => /\ m.first # 0 /\ m.last_in # 0
                     /\ m.last_out = OutAmount(m.pool, m.last_in)
                     /\ \/ m.next_in = Saturated(2 * m.last_in)
                        \/ GivesWay(m.pool, m.last_in, m.last_out)

LiquidityInv ==
    /\ reserves \in [LiquidEdges -> Nat \X Nat]
    /\ first_amount \in [LiquidEdges -> Nat \cup {NoLiquidity}]
    /\ liquidity_by_mint \in [LiquidEdges -> Nat \cup {NoLiquidity}]
    /\ measure # Idling => IsMeasure(measure) /\ MeasureInv(measure)

LEMMA MeasureOn ==
    ASSUME NEW m, IsMeasure(m)
    PROVE  m # Idling
  BY LiquidityAssumption DEF IsMeasure, Idling

LEMMA LiquidityInitial == LiquidityInit => LiquidityInv
  <1> SUFFICES ASSUME LiquidityInit PROVE LiquidityInv
    OBVIOUS
  <1>1. Reserves \subseteq Nat \X Nat /\ FirstAmounts \subseteq Nat
    <2>1. AmountMax \in Nat /\ FirstAmounts \subseteq 0 .. AmountMax
      BY LiquidityAssumption
    <2> QED BY <2>1, LiquidityAssumption
  <1>2. reserves \in [LiquidEdges -> Nat \X Nat]
    BY <1>1, Zenon DEF LiquidityInit
  <1>3. first_amount \in [LiquidEdges -> Nat \cup {NoLiquidity}]
    BY <1>1, Zenon DEF LiquidityInit
  <1>4. liquidity_by_mint \in [LiquidEdges -> Nat \cup {NoLiquidity}]
    BY DEF LiquidityInit
  <1>5. measure = Idling
    BY DEF LiquidityInit
  <1> QED BY <1>2, <1>3, <1>4, <1>5, Zenon DEF LiquidityInv

LEMMA StartMeasureKeeps ==
    ASSUME LiquidityInv, StartMeasure
    PROVE  LiquidityInv'
  <1>1. PICK e \in LiquidEdges :
          /\ first_amount[e] # NoLiquidity
          /\ measure' = [edge |-> e, pool |-> reserves[e], first |-> first_amount[e],
                         iter |-> 0, has_failed |-> FALSE, next_in |-> first_amount[e],
                         last_in |-> first_amount[e], last_out |-> 0]
    BY DEF StartMeasure
  <1>2. PICK r, a : r = reserves[e] /\ a = first_amount[e] /\ r \in Nat \X Nat /\ a \in Nat
    <2>1. reserves[e] \in Nat \X Nat
      BY Zenon DEF LiquidityInv
    <2>2. first_amount[e] \in Nat
      BY <1>1 DEF LiquidityInv
    <2> QED BY <2>1, <2>2
  <1>3. PICK m : m = measure'
    OBVIOUS
  <1>4. /\ m = [edge |-> m.edge, pool |-> m.pool, first |-> m.first, iter |-> m.iter,
                has_failed |-> m.has_failed, next_in |-> m.next_in, last_in |-> m.last_in,
                last_out |-> m.last_out]
        /\ m.edge = e /\ m.pool = r /\ m.first = a /\ m.iter = 0
        /\ m.has_failed = FALSE /\ m.next_in = a /\ m.last_in = a
        /\ m.last_out = 0
    BY <1>1, <1>2, <1>3
  <1>5. IsMeasure(m)
    <2>1. /\ m.edge \in LiquidEdges /\ m.pool \in Nat \X Nat
          /\ m.first \in Nat /\ m.iter \in Nat
          /\ m.next_in \in Nat /\ m.last_in \in Nat /\ m.last_out \in Nat
      BY <1>2, <1>4
    <2>2. m.has_failed \in BOOLEAN
      BY <1>4, Zenon
    <2> QED BY <1>4, <2>1, <2>2, Zenon DEF IsMeasure
  <1>6. MeasureInv(m)
    BY <1>4 DEF MeasureInv
  <1>7. UNCHANGED <<reserves, first_amount, liquidity_by_mint>>
    BY DEF StartMeasure
  <1> QED
    BY <1>3, <1>5, <1>6, <1>7, Zenon DEF LiquidityInv

LEMMA QuoteStepKeeps ==
    ASSUME LiquidityInv, QuoteStep
    PROVE  LiquidityInv' /\ measure' # Idling
  <1>1. PICK m : m = measure
    OBVIOUS
  <1>2. PICK out : out = OutAmount(m.pool, m.next_in)
    OBVIOUS
  <1>3. IsMeasure(m) /\ MeasureInv(m) /\ m.next_in # 0
    BY <1>1 DEF QuoteStep, LiquidityInv, MayGoOn
  <1>4. out \in Nat
    BY <1>2, <1>3, OutAmountNat DEF IsMeasure
  <1>5. PICK m2 : m2 = measure'
    OBVIOUS
  <1>6. AmountMax \in Nat /\ AmountMax > 0
    BY LiquidityAssumption
  <1>7. CASE TooLittle(m, out)
    <2>1. ~m.has_failed
      BY <1>1, <1>2, <1>7 DEF QuoteStep
    <2>2. m2 = [m EXCEPT !.iter = @ + 1, !.has_failed = TRUE,
                         !.next_in = Saturated(m.next_in + m.last_in) \div 2]
      BY <1>1, <1>2, <1>5, <1>7 DEF QuoteStep
    <2>3. PICK k : k = Saturated(m.next_in + m.last_in) \div 2
      OBVIOUS
    <2>4. k \in Nat
      <3>1. PICK n : n = m.next_in + m.last_in /\ n \in Nat
        BY <1>3 DEF IsMeasure
      <3>2. Saturated(n) \in Nat
        BY <1>6, <3>1, SaturatedIs
      <3> QED BY <2>3, <3>1, <3>2
    <2>5. /\ m2.edge = m.edge /\ m2.pool = m.pool /\ m2.first = m.first /\ m2.iter = m.iter + 1
          /\ m2.has_failed = TRUE /\ m2.next_in = k
          /\ m2.last_in = m.last_in /\ m2.last_out = m.last_out
          /\ m2 = [edge |-> m2.edge, pool |-> m2.pool, first |-> m2.first, iter |-> m2.iter,
                   has_failed |-> m2.has_failed, next_in |-> m2.next_in,
                   last_in |-> m2.last_in, last_out |-> m2.last_out]
      BY <1>3, <2>2, <2>3 DEF IsMeasure
    <2>6. IsMeasure(m2)
      <3>1. /\ m.edge \in LiquidEdges /\ m.pool \in Nat \X Nat
            /\ m.first \in Nat /\ m.iter \in Nat
            /\ m.next_in \in Nat /\ m.last_in \in Nat /\ m.last_out \in Nat
        BY <1>3, Zenon DEF IsMeasure
      <3>2. /\ m2.edge \in LiquidEdges /\ m2.pool \in Nat \X Nat
            /\ m2.first \in Nat /\ m2.iter \in Nat
            /\ m2.next_in \in Nat /\ m2.last_in \in Nat /\ m2.last_out \in Nat
        BY <3>1, <2>4, <2>5
      <3>3. m2.has_failed \in BOOLEAN
        BY <2>5, Zenon
      <3> QED BY <2>5, <3>2, <3>3, Zenon DEF IsMeasure
    <2>7. 10 * out < 17 * m.last_out
      BY <1>7 DEF TooLittle
    <2>8. m.iter # 0
      <3>1. m.iter = 0 => m.last_out = 0
        BY <1>3 DEF MeasureInv
      <3> QED BY <1>4, <2>7, <3>1
    <2>9. GivesWay(m.pool, m.last_in, m.last_out)
      <3>1. CASE m.next_in = Saturated(2 * m.last_in)
        <4>1. m.pool \in Nat \X Nat /\ m.last_in \in Nat /\ m.last_out \in Nat
          BY <1>3 DEF IsMeasure
        <4>2. 10 * OutAmount(m.pool, Saturated(2 * m.last_in)) < 17 * m.last_out
          BY <1>2, <2>7, <3>1
        <4> QED BY <4>1, <4>2, SaturatedGivesWay
      <3> QED BY <1>3, <2>8, <3>1 DEF MeasureInv
    <2>10. MeasureInv(m2)
      <3>1. m2.iter # 0
        BY <1>3, <2>5 DEF IsMeasure
      <3> QED BY <1>3, <2>5, <2>8, <2>9, <3>1 DEF MeasureInv
    <2>11. m2 # Idling
      BY <2>6, MeasureOn
    <2> QED BY <1>5, <2>6, <2>10, <2>11 DEF QuoteStep, LiquidityInv
  <1>8. CASE ~TooLittle(m, out)
    <2>1. m2 = [m EXCEPT !.iter = @ + 1, !.last_in = m.next_in, !.last_out = out,
                         !.next_in = Saturated(2 * m.next_in)]
      BY <1>1, <1>2, <1>5, <1>8 DEF QuoteStep
    <2>2. PICK k : k = Saturated(2 * m.next_in)
      OBVIOUS
    <2>3. k \in Nat
      <3>1. PICK n : n = 2 * m.next_in /\ n \in Nat
        BY <1>3 DEF IsMeasure
      <3> QED BY <1>6, <2>2, <3>1, SaturatedIs
    <2>4. /\ m2.edge = m.edge /\ m2.pool = m.pool /\ m2.first = m.first /\ m2.iter = m.iter + 1
          /\ m2.has_failed = m.has_failed /\ m2.next_in = k
          /\ m2.last_in = m.next_in /\ m2.last_out = out
          /\ m2 = [edge |-> m2.edge, pool |-> m2.pool, first |-> m2.first, iter |-> m2.iter,
                   has_failed |-> m2.has_failed, next_in |-> m2.next_in,
                   last_in |-> m2.last_in, last_out |-> m2.last_out]
      BY <1>3, <2>1, <2>2 DEF IsMeasure
    <2>5. IsMeasure(m2)
      BY <1>3, <1>4, <2>3, <2>4 DEF IsMeasure
    <2>6. m.first # 0
      BY <1>3 DEF MeasureInv
    <2>7. MeasureInv(m2)
      <3>1. m2.iter # 0
        BY <1>3, <2>4 DEF IsMeasure
      <3> QED BY <1>2, <1>3, <2>2, <2>4, <2>6, <3>1 DEF MeasureInv
    <2>8. m2 # Idling
      BY <2>5, MeasureOn
    <2> QED BY <1>5, <2>5, <2>7, <2>8 DEF QuoteStep, LiquidityInv
  <1> QED BY <1>7, <1>8

LEMMA PoolMovesKeeps ==
    ASSUME LiquidityInv, PoolMoves
    PROVE  LiquidityInv' /\ measure' = measure
  <1>1. PICK e \in LiquidEdges, r \in Reserves : reserves' = [reserves EXCEPT ![e] = r]
    BY DEF PoolMoves
  <1>2. r \in Nat \X Nat
    BY LiquidityAssumption
  <1>3. reserves' \in [LiquidEdges -> Nat \X Nat]
    BY <1>1, <1>2, Zenon DEF LiquidityInv
  <1>4. UNCHANGED <<first_amount, liquidity_by_mint, measure>>
    BY DEF PoolMoves
  <1> QED
    BY <1>3, <1>4, Zenon DEF LiquidityInv

LEMMA TotalIsSum ==
    ASSUME NEW stored
    PROVE  get_total_liquidity_native(stored) = Saturated(Sum(AmountOf(stored), LiquidEdges))
  BY Zenon DEF get_total_liquidity_native, Sum

(* Storing a result changes the total only as it changes its summand. *)
LEMMA TotalFollows ==
    ASSUME NEW old \in [LiquidEdges -> Nat \cup {NoLiquidity}], NEW e \in LiquidEdges,
           NEW new \in Nat
    PROVE  LET before == get_total_liquidity_native(old)
               after == get_total_liquidity_native([old EXCEPT ![e] = new])
           IN  after >= before \/ (old[e] # NoLiquidity /\ new < old[e])
  <1> DEFINE g == [old EXCEPT ![e] = new]
  <1>1. PICK f, h : f = AmountOf(old) /\ h = AmountOf(g)
    OBVIOUS
  <1>2. f \in [LiquidEdges -> Int] /\ f[e] \in Nat
    BY <1>1 DEF AmountOf
  <1>3. g \in [LiquidEdges -> Nat \cup {NoLiquidity}]
    OBVIOUS
  <1>4. NoLiquidity \notin Nat /\ IsFiniteSet(LiquidEdges) /\ AmountMax \in Nat
    BY LiquidityAssumption
  <1>5. h \in [LiquidEdges -> Int] /\ h[e] = new
    <2>1. h \in [LiquidEdges -> Int]
      BY <1>1, <1>3 DEF AmountOf
    <2>2. g[e] = new
      OBVIOUS
    <2> QED BY <1>1, <1>4, <2>1, <2>2 DEF AmountOf
  <1>6. \A x \in LiquidEdges : x # e => h[x] = f[x]
    BY <1>1 DEF AmountOf
  <1>7. PICK d : d = new - f[e] /\ d \in Int
    BY <1>2
  <1>8. Shifted(h, f, e, d, LiquidEdges)
    BY <1>2, <1>5, <1>6, <1>7 DEF Shifted
  <1>9. Sum(f, LiquidEdges) \in Int /\ Sum(h, LiquidEdges) = Sum(f, LiquidEdges) + d
    BY <1>2, <1>4, <1>5, <1>7, <1>8, SumShifted
  <1>10. /\ get_total_liquidity_native(old) = Saturated(Sum(f, LiquidEdges))
         /\ get_total_liquidity_native(g) = Saturated(Sum(h, LiquidEdges))
    BY <1>1, TotalIsSum
  <1>11. PICK b, a : b = Sum(f, LiquidEdges) /\ a = Sum(h, LiquidEdges)
    OBVIOUS
  <1>12. b \in Int /\ a = b + d /\ a \in Int
    BY <1>7, <1>9, <1>11
  <1>13. CASE d >= 0
    <2>1. Saturated(a) >= Saturated(b)
      BY <1>4, <1>7, <1>12, <1>13, SaturatedIs
    <2> QED BY <1>10, <1>11, <2>1
  <1>14. CASE ~(d >= 0)
    <2>1. new < f[e]
      BY <1>2, <1>7, <1>14
    <2>2. f[e] = IF old[e] = NoLiquidity THEN 0 ELSE old[e]
      BY <1>1 DEF AmountOf
    <2>3. old[e] # NoLiquidity
      BY <2>1, <2>2
    <2> QED BY <2>1, <2>2, <2>3
  <1> QED BY <1>13, <1>14

(* What the loop leaves when it ends. *)
LEMMA MeasureEnds ==
    ASSUME NEW m, IsMeasure(m), MeasureInv(m),
           \/ ~MayGoOn(m)
           \/ m.has_failed /\ TooLittle(m, OutAmount(m.pool, m.next_in))
    PROVE  /\ m.last_out = IF m.first = 0 THEN 0 ELSE OutAmount(m.pool, m.last_in)
           /\ m.first = 0 \/ m.iter > MaxIterations \/ GivesWay(m.pool, m.last_in, m.last_out)
  <1>1. /\ m.pool \in Nat \X Nat /\ m.first \in Nat /\ m.iter \in Nat
        /\ m.next_in \in Nat /\ m.last_in \in Nat /\ m.last_out \in Nat
    BY Zenon DEF IsMeasure
  <1>2. MaxIterations \in Nat /\ AmountMax \in Nat /\ AmountMax > 0
    BY LiquidityAssumption
  <1>3. CASE m.iter = 0
    <2>1. m.next_in = m.first /\ m.last_out = 0 /\ ~m.has_failed
      BY <1>3 DEF MeasureInv
    <2>2. ~MayGoOn(m)
      BY <2>1
    <2>3. m.first = 0
      BY <1>1, <1>2, <1>3, <2>1, <2>2 DEF MayGoOn
    <2> QED BY <2>1, <2>3
  <1>4. CASE m.iter # 0
    <2>1. /\ m.first # 0 /\ m.last_in # 0
          /\ m.last_out = OutAmount(m.pool, m.last_in)
          /\ \/ m.next_in = Saturated(2 * m.last_in)
             \/ GivesWay(m.pool, m.last_in, m.last_out)
      BY <1>4 DEF MeasureInv
    <2>2. CASE m.next_in = Saturated(2 * m.last_in)
      <3>1. PICK k : k = 2 * m.last_in /\ k \in Nat /\ k # 0
        BY <1>1, <2>1
      <3>2. m.next_in # 0
        BY <1>2, <2>2, <3>1, SaturatedIs
      <3>3. CASE ~MayGoOn(m)
        <4>1. m.iter > MaxIterations
          BY <1>1, <1>2, <3>2, <3>3 DEF MayGoOn
        <4> QED BY <2>1, <4>1
      <3>4. CASE TooLittle(m, OutAmount(m.pool, m.next_in))
        <4>1. 10 * OutAmount(m.pool, Saturated(2 * m.last_in)) < 17 * m.last_out
          BY <2>2, <3>4 DEF TooLittle
        <4>2. GivesWay(m.pool, m.last_in, m.last_out)
          BY <1>1, <4>1, SaturatedGivesWay
        <4> QED BY <2>1, <4>2
      <3> QED BY <3>3, <3>4
    <2> QED BY <2>1, <2>2
  <1> QED BY <1>3, <1>4

(* The body of LiquidityIsMeasured. *)
MeasureIsKept ==
    measure # Idling /\ measure' = Idling =>
        LET m == measure
            stored == liquidity_by_mint'[m.edge]
            before == get_total_liquidity_native(liquidity_by_mint)
            after == get_total_liquidity_native(liquidity_by_mint')
        IN  /\ stored = IF m.first = 0 THEN 0 ELSE OutAmount(m.pool, m.last_in)
            /\ \/ m.first = 0 \/ m.iter > MaxIterations
               \/ 10 * OutAmount(m.pool, 2 * m.last_in) < 17 * stored
            /\ \/ after >= before
               \/ liquidity_by_mint[m.edge] # NoLiquidity /\ stored < liquidity_by_mint[m.edge]

LEMMA EndMeasureKeeps ==
    ASSUME LiquidityInv, EndMeasure
    PROVE  LiquidityInv' /\ MeasureIsKept
  <1>1. PICK m : m = measure
    OBVIOUS
  <1>2. /\ IsMeasure(m) /\ MeasureInv(m)
        /\ \/ ~MayGoOn(m)
           \/ m.has_failed /\ TooLittle(m, OutAmount(m.pool, m.next_in))
    BY <1>1, Zenon DEF EndMeasure, LiquidityInv
  <1>3. /\ m.last_out = IF m.first = 0 THEN 0 ELSE OutAmount(m.pool, m.last_in)
        /\ m.first = 0 \/ m.iter > MaxIterations \/ GivesWay(m.pool, m.last_in, m.last_out)
    BY <1>2, MeasureEnds
  <1>4. PICK e, new, old : e = m.edge /\ new = m.last_out /\ old = liquidity_by_mint
    OBVIOUS
  <1>5. e \in LiquidEdges /\ new \in Nat /\ old \in [LiquidEdges -> Nat \cup {NoLiquidity}]
    BY <1>2, <1>4, Zenon DEF IsMeasure, LiquidityInv
  <1>6. liquidity_by_mint' = [old EXCEPT ![e] = new]
    BY <1>1, <1>4 DEF EndMeasure, Result
  <1>7. liquidity_by_mint' \in [LiquidEdges -> Nat \cup {NoLiquidity}]
    BY <1>5, <1>6
  <1>8. LiquidityInv'
    <2>1. UNCHANGED <<reserves, first_amount>> /\ measure' = Idling
      BY DEF EndMeasure
    <2> QED BY <1>7, <2>1, Zenon DEF LiquidityInv
  <1>9. liquidity_by_mint'[e] = new
    BY <1>5, <1>6
  <1>10. \/ get_total_liquidity_native(liquidity_by_mint') >= get_total_liquidity_native(old)
         \/ old[e] # NoLiquidity /\ new < old[e]
    BY <1>5, <1>6, TotalFollows
  <1>11. MeasureIsKept
    BY <1>1, <1>3, <1>4, <1>9, <1>10 DEF MeasureIsKept, GivesWay
  <1> QED BY <1>8, <1>11

LEMMA LiquidityStep ==
    ASSUME LiquidityInv, [LiquidityNext]_liquidity
    PROVE  LiquidityInv' /\ MeasureIsKept
  <1>1. CASE StartMeasure
    <2>1. measure = Idling
      BY <1>1 DEF StartMeasure
    <2> QED BY <1>1, <2>1, StartMeasureKeeps DEF MeasureIsKept
  <1>2. CASE QuoteStep
    BY <1>2, QuoteStepKeeps DEF MeasureIsKept
  <1>3. CASE EndMeasure
    BY <1>3, EndMeasureKeeps
  <1>4. CASE PoolMoves
    BY <1>4, PoolMovesKeeps DEF MeasureIsKept
  <1>5. CASE UNCHANGED liquidity
    <2>1. LiquidityInv'
      BY <1>5, Zenon DEF liquidity, LiquidityInv
    <2>2. measure' = measure
      BY <1>5 DEF liquidity
    <2> QED BY <2>1, <2>2 DEF MeasureIsKept
  <1> QED BY <1>1, <1>2, <1>3, <1>4, <1>5 DEF LiquidityNext

(* compute_liquidity and set_liquidity, for every pool, first amount and       *)
(* number of rounds: what is stored is the quote of the last input that was    *)
(* accepted; twice that input brings less than 1.7 times as much, unless the   *)
(* rounds are used up; and a mint's total, saturating as it is, goes down only *)
(* when the stored amount of the edge does.                                  *)
THEOREM LiquidityMeasured == LiquiditySpec => LiquidityIsMeasured
  <1>1. LiquidityInv /\ [LiquidityNext]_liquidity => LiquidityInv'
    BY LiquidityStep
  <1>2. LiquidityInv /\ [LiquidityNext]_liquidity => MeasureIsKept
    BY LiquidityStep
  <1> QED
    BY <1>1, <1>2, LiquidityInitial, PTL DEF LiquiditySpec, LiquidityIsMeasured, MeasureIsKept

-----------------------------------------------------------------------------
(* Orca's tick arrays                                                       *)

LEMMA DivisionOfInt ==
    ASSUME NEW a \in Int, NEW n \in Nat \ {0}
    PROVE  a \div n \in Int /\ n * (a \div n) <= a /\ a < n * (a \div n) + n
  OBVIOUS

(* The multiple of n at or below t is one. *)
LEMMA OneMultiple ==
    ASSUME NEW n \in Nat \ {0}, NEW t \in Int, NEW q \in Int, NEW p \in Int,
           n * q <= t, t < n * q + n, n * p <= t, t < n * p + n
    PROVE  q = p
  <1>1. n * (q + 1) = n * q + n /\ n * (p + 1) = n * p + n
    OBVIOUS
  <1>2. n * q \in Int /\ n * p \in Int
    OBVIOUS
  <1>3. CASE q < p
    <2>1. q + 1 <= p
      BY <1>3
    <2>2. n * (q + 1) <= n * p
      BY <2>1
    <2> QED BY <1>1, <1>2, <2>2
  <1>4. CASE p < q
    <2>1. p + 1 <= q
      BY <1>4
    <2>2. n * (p + 1) <= n * q
      BY <2>1
    <2> QED BY <1>1, <1>2, <2>2
  <1> QED BY <1>3, <1>4

LEMMA ArrayOfTicks ==
    ASSUME NEW s \in Nat \ {0}
    PROVE  PerArray(s) \in Nat \ {0} /\ s <= PerArray(s)
  <1>1. PICK k : k = TICK_ARRAY_SIZE /\ k \in Nat /\ k >= 1
    BY OrcaAssumption
  <1>2. 1 * s <= k * s /\ k * s \in Nat
    BY <1>1, ProductGrows
  <1> QED BY <1>1, <1>2 DEF PerArray

LEMMA DivisionParts ==
    ASSUME NEW a \in Nat, NEW n \in Nat \ {0}
    PROVE  \E k \in Nat, r \in Nat : a \div n = k /\ a % n = r /\ r < n /\ a = n * k + r
  <1>1. a \div n \in Nat /\ a % n \in Nat /\ a % n < n /\ a = n * (a \div n) + (a % n)
    BY DivisionSplits
  <1> QED BY <1>1, Zenon

(* derive_start_tick finds the multiple below the tick, on both sides of zero. *)
LEMMA StartTick ==
    ASSUME NEW t \in Int, NEW s \in Nat \ {0}
    PROVE  \E q \in Int : /\ derive_start_tick(t, s) = PerArray(s) * q
                          /\ PerArray(s) * q <= t /\ t < PerArray(s) * q + PerArray(s)
  <1>1. PICK n \in Nat \ {0} : n = PerArray(s)
    BY ArrayOfTicks
  <1>2. PICK D : D = derive_start_tick(t, s)
    OBVIOUS
  <1>3. D = IF t < 0 /\ Rem(t, n) # 0 THEN t - Rem(t, n) - n ELSE t - Rem(t, n)
    BY <1>1, <1>2, Zenon DEF derive_start_tick
  <1>4. CASE t >= 0
    <2>0. t \in Nat
      BY <1>4
    <2>1. PICK k \in Nat, r \in Nat : t \div n = k /\ t % n = r /\ r < n /\ t = n * k + r
      BY <2>0, DivisionParts
    <2>2. Rem(t, n) = r
      BY <1>4, <2>1 DEF Rem
    <2>3. D = t - r
      BY <1>3, <1>4, <2>2
    <2>4. PICK x \in Int : x = n * k
      OBVIOUS
    <2>5. D = x /\ x <= t /\ t < x + n
      BY <2>1, <2>3, <2>4
    <2>6. k \in Int
      OBVIOUS
    <2> QED BY <1>1, <1>2, <2>4, <2>5, <2>6
  <1>5. CASE t < 0
    <2>1. PICK a \in Nat : a = -t
      BY <1>5
    <2>2. PICK k \in Nat, r \in Nat : a \div n = k /\ a % n = r /\ r < n /\ a = n * k + r
      BY DivisionParts
    <2>3. Rem(t, n) = -r
      BY <1>5, <2>1, <2>2 DEF Rem, Abs
    <2>4. PICK x \in Int : x = n * k
      OBVIOUS
    <2>5. CASE r = 0
      <3>1. D = t
        <4>1. -r + r = 0 /\ -r \in Int
          BY <2>2
        <4>2. Rem(t, n) + r = 0 /\ Rem(t, n) \in Int
          BY <2>3, <4>1
        <4>3. Rem(t, n) = 0
          BY ONLY <2>5, <4>2
        <4> QED BY <1>3, <4>3
      <3>2. n * (-k) = -x
        BY <2>4
      <3>3. D = -x /\ -x <= t /\ t < -x + n
        BY <2>1, <2>2, <2>4, <2>5, <3>1
      <3>4. -k \in Int
        OBVIOUS
      <3> QED BY <1>1, <1>2, <3>2, <3>3, <3>4
    <2>6. CASE r # 0
      <3>1. D = t + r - n
        BY <1>3, <1>5, <2>3, <2>6
      <3>2. n * (-k - 1) = -x - n
        BY <2>4
      <3>3. D = -x - n /\ -x - n <= t /\ t < -x - n + n
        BY <2>1, <2>2, <2>4, <2>6, <3>1
      <3>4. -k - 1 \in Int
        OBVIOUS
      <3> QED BY <1>1, <1>2, <3>2, <3>3, <3>4
    <2> QED BY <2>5, <2>6
  <1> QED BY <1>4, <1>5

LEMMA StartOfArray ==
    ASSUME NEW t \in Int, NEW s \in Nat \ {0}, NEW q \in Int,
           PerArray(s) * q <= t, t < PerArray(s) * q + PerArray(s)
    PROVE  derive_start_tick(t, s) = PerArray(s) * q
  <1>1. PICK n : n = PerArray(s) /\ n \in Nat \ {0}
    BY ArrayOfTicks
  <1>2. PICK p \in Int : derive_start_tick(t, s) = n * p /\ n * p <= t /\ t < n * p + n
    BY <1>1, StartTick
  <1>3. q = p
    BY <1>1, <1>2, OneMultiple
  <1> QED BY <1>1, <1>2, <1>3

(* A multiple has no remainder, whatever its sign. *)
LEMMA MultipleRem ==
    ASSUME NEW n \in Nat \ {0}, NEW q \in Int
    PROVE  Rem(n * q, n) = 0
  <1>1. PICK x : x = n * q /\ x \in Int
    OBVIOUS
  <1>2. \A k \in Nat : (n * k) % n = 0
    <2> SUFFICES ASSUME NEW k \in Nat PROVE (n * k) % n = 0
      OBVIOUS
    <2>1. PICK y \in Nat : y = n * k
      OBVIOUS
    <2>2. PICK j \in Nat, r \in Nat : y \div n = j /\ y % n = r /\ r < n /\ y = n * j + r
      BY DivisionParts
    <2>3. PICK z \in Int : z = n * j
      OBVIOUS
    <2>4. z <= y /\ y < z + n /\ y <= y /\ y < y + n
      BY <2>2, <2>3
    <2>5. j = k
      BY <2>1, <2>3, <2>4, OneMultiple
    <2>6. r = 0
      BY <2>1, <2>2, <2>5
    <2> QED BY <2>1, <2>2, <2>6
  <1>3. CASE x >= 0
    <2>1. q >= 0
      BY <1>1, <1>3
    <2> QED BY <1>1, <1>2, <1>3, <2>1 DEF Rem
  <1>4. CASE x < 0
    <2>1. PICK k : k = -q /\ k \in Nat
      BY <1>1, <1>4
    <2>2. n * k = -x
      BY <1>1, <2>1
    <2>3. (n * k) % n = 0
      BY <1>2, <2>1
    <2>4. Rem(x, n) = -((-x) % n)
      BY <1>1, <1>4 DEF Rem, Abs
    <2> QED BY <1>1, <2>2, <2>3, <2>4
  <1> QED BY <1>1, <1>3, <1>4

LEMMA MultipleDivided ==
    ASSUME NEW n \in Nat \ {0}, NEW k \in Int
    PROVE  (n * k) \div n = k
  <1>1. PICK a : a = n * k /\ a \in Int
    OBVIOUS
  <1>2. PICK d : d = a \div n /\ d \in Int /\ n * d <= a /\ a < n * d + n
    BY <1>1, DivisionOfInt
  <1>3. n * k <= a /\ a < n * k + n
    BY <1>1
  <1> QED BY <1>1, <1>2, <1>3, OneMultiple
(* The three arrays of a quote begin with the one that holds the tick, and go  *)
(* on in its direction.                                                     *)
LEMMA NextStart ==
    ASSUME NEW start \in Int, NEW s \in Nat \ {0}, NEW d \in BOOLEAN
    PROVE  derive_next_start_tick_in_seq(start, s, d)
             \in {NoArray, IF d THEN start - PerArray(s) ELSE start + PerArray(s)}
  BY DEF derive_next_start_tick_in_seq

LEMMA StartsAre ==
    ASSUME NEW t \in Int, NEW s \in Nat \ {0}, NEW d \in BOOLEAN,
           NEW i \in 1 .. 3, derive_tick_array_start_indexes(t, s, d)[i] # NoArray
    PROVE  \E j \in 0 .. 2 :
               derive_tick_array_start_indexes(t, s, d)[i]
                 = derive_start_tick(IF d THEN t ELSE t + s, s)
                     + PerArray(s) * (IF d THEN -j ELSE j)
  <1>1. PICK n \in Nat \ {0} : n = PerArray(s)
    BY ArrayOfTicks
  <1>2. PICK first : first = derive_start_tick(IF d THEN t ELSE t + s, s)
    OBVIOUS
  <1>3. first \in Int
    <2>1. PICK from \in Int : from = IF d THEN t ELSE t + s
      OBVIOUS
    <2>2. PICK q \in Int : first = n * q
      BY <1>1, <1>2, <2>1, StartTick
    <2> QED BY <2>2
  <1>4. derive_first_tick_array_start_tick(t, s, ~d) = first
    BY <1>2 DEF derive_first_tick_array_start_tick
  <1>5. PICK second : second = derive_next_start_tick_in_seq(first, s, d)
    OBVIOUS
  <1>6. second \in {NoArray, IF d THEN first - n ELSE first + n}
    BY <1>1, <1>3, <1>5, NextStart
  <1>7. PICK third : third = IF second = NoArray THEN NoArray
                             ELSE derive_next_start_tick_in_seq(second, s, d)
    OBVIOUS
  <1>8. derive_tick_array_start_indexes(t, s, d) = <<first, second, third>>
    BY <1>4, <1>5, <1>7, Zenon DEF derive_tick_array_start_indexes
  <1>9. third # NoArray =>
          second # NoArray /\ third = IF d THEN first - n - n ELSE first + n + n
    <2> SUFFICES ASSUME third # NoArray
                 PROVE  second # NoArray /\ third = IF d THEN first - n - n ELSE first + n + n
      OBVIOUS
    <2>1. second # NoArray /\ third = derive_next_start_tick_in_seq(second, s, d)
      BY <1>7
    <2>2. second = IF d THEN first - n ELSE first + n
      BY <1>6, <2>1
    <2>3. second \in Int
      BY <1>3, <2>2
    <2>4. third \in {NoArray, IF d THEN second - n ELSE second + n}
      BY <1>1, <2>1, <2>3, NextStart
    <2> QED BY <1>3, <2>1, <2>2, <2>3, <2>4
  <1>10. CASE i = 1
    <2>1. derive_tick_array_start_indexes(t, s, d)[i] = first
      BY <1>8, <1>10
    <2>2. first = first + n * (IF d THEN -0 ELSE 0)
      BY <1>3
    <2> QED BY <1>1, <1>2, <2>1, <2>2
  <1>11. CASE i = 2
    <2>1. derive_tick_array_start_indexes(t, s, d)[i] = second
      BY <1>8, <1>11
    <2>2. second = first + n * (IF d THEN -1 ELSE 1)
      BY <1>3, <1>6, <2>1
    <2> QED BY <1>1, <1>2, <2>1, <2>2
  <1>12. CASE i = 3
    <2>1. derive_tick_array_start_indexes(t, s, d)[i] = third
      BY <1>8, <1>12
    <2>2. third = first + n * (IF d THEN -2 ELSE 2)
      BY <1>3, <1>9, <2>1
    <2> QED BY <1>1, <1>2, <2>1, <2>2
  <1> QED BY <1>10, <1>11, <1>12

LEMMA StartsFirst ==
    ASSUME NEW t, NEW s, NEW d \in BOOLEAN
    PROVE  derive_tick_array_start_indexes(t, s, d)[1]
             = derive_start_tick(IF d THEN t ELSE t + s, s)
  BY DEF derive_tick_array_start_indexes, derive_first_tick_array_start_tick

(* A window that is given has the first array, only arrays that exist, and     *)
(* ends in one of them.                                                     *)
LEMMA WindowIs ==
    ASSUME NEW p, NEW d \in BOOLEAN, tick_arrays \subseteq Int, NEW starts, NEW w,
           starts = derive_tick_array_start_indexes(p.tick, p.spacing, d),
           w = SwapWindow(p, d), w.ok
    PROVE  /\ starts[1] \in w.arrays
           /\ \A start \in w.arrays : start \in tick_arrays /\ \E i \in 1 .. 3 : start = starts[i]
           /\ \E last \in w.arrays : w.limit = derive_last_tick_in_array(last, p.spacing, d)
  <1>1. PICK arrays : arrays = fetch_tick_arrays(starts)
    OBVIOUS
  <1>2. w = IF arrays = <<>> THEN [ok |-> FALSE, arrays |-> {}, limit |-> p.tick]
            ELSE [ok |-> TRUE, arrays |-> {arrays[i] : i \in 1 .. 3} \ {NoArray},
                  limit |-> derive_last_tick_in_seq(arrays, p.spacing, d)]
    BY <1>1, Zenon DEF SwapWindow
  <1>3. arrays # <<>>
    BY <1>2
  <1>4. /\ w.arrays = {arrays[i] : i \in 1 .. 3} \ {NoArray}
        /\ w.limit = derive_last_tick_in_seq(arrays, p.spacing, d)
    BY <1>2, <1>3
  <1>5. starts[1] \in tick_arrays
    BY <1>1, <1>3 DEF fetch_tick_arrays
  <1>6. \A i \in 1 .. 3 : arrays[i] = IF starts[i] \in tick_arrays THEN starts[i] ELSE NoArray
    BY <1>1, <1>5 DEF fetch_tick_arrays
  <1>7. NoArray \notin tick_arrays
    BY OrcaAssumption
  <1>8. arrays[1] = starts[1] /\ arrays[1] # NoArray
    BY <1>5, <1>6, <1>7
  <1>9. \A i \in 1 .. 3 : arrays[i] # NoArray => arrays[i] \in w.arrays
    BY <1>4
  <1>10. starts[1] \in w.arrays
    BY <1>8, <1>9
  <1>11. \A start \in w.arrays : start \in tick_arrays /\ \E i \in 1 .. 3 : start = starts[i]
    BY <1>4, <1>6
  <1>12. PICK last : last = IF arrays[3] # NoArray THEN arrays[3]
                            ELSE IF arrays[2] # NoArray THEN arrays[2] ELSE arrays[1]
    OBVIOUS
  <1>13. last \in w.arrays
    BY <1>8, <1>9, <1>12
  <1>14. w.limit = derive_last_tick_in_array(last, p.spacing, d)
    BY <1>4, <1>12, Zenon DEF derive_last_tick_in_seq
  <1> QED BY <1>10, <1>11, <1>13, <1>14
(* The window of a pool whose tick is in range: it holds the tick, and its     *)
(* limit is ahead of it and in range.                                       *)
IsWhirlpool(p) ==
    /\ p = [spacing |-> p.spacing, tick |-> p.tick, first |-> p.first]
    /\ p.spacing \in Nat \ {0}
    /\ p.tick \in Int /\ MIN_TICK_INDEX <= p.tick /\ p.tick <= MAX_TICK_INDEX
    /\ p.first \in Int

IsStart(start, s) ==
    \E x \in Int : /\ MIN_TICK_INDEX <= x /\ x <= MAX_TICK_INDEX
                   /\ start = derive_start_tick(x, s)

OrcaInv ==
    /\ IsWhirlpool(whirlpool)
    /\ listed = whirlpool_tick_array_pks(whirlpool.first, whirlpool.spacing)
    /\ \A start \in tick_arrays : start \in Int /\ IsStart(start, whirlpool.spacing)

LEMMA StartsAreInt ==
    ASSUME NEW start, NEW s \in Nat \ {0}, IsStart(start, s)
    PROVE  start \in Int
  <1>1. PICK x \in Int : start = derive_start_tick(x, s)
    BY DEF IsStart
  <1>2. PICK n \in Nat \ {0} : n = PerArray(s)
    BY ArrayOfTicks
  <1>3. PICK q \in Int : start = n * q
    BY <1>1, <1>2, StartTick
  <1> QED BY <1>2, <1>3

LEMMA WindowHolds ==
    ASSUME OrcaInv, NEW d \in BOOLEAN, NEW w, w = SwapWindow(whirlpool, d), w.ok,
           NEW from, from = IF d THEN whirlpool.tick ELSE whirlpool.tick + whirlpool.spacing
    PROVE  /\ \E start \in w.arrays : from \in start .. start + PerArray(whirlpool.spacing) - 1
           /\ IF d THEN w.limit <= whirlpool.tick ELSE w.limit >= whirlpool.tick
           /\ w.limit \in Int /\ MIN_TICK_INDEX <= w.limit /\ w.limit <= MAX_TICK_INDEX
           /\ \A start \in w.arrays :
                 /\ start \in tick_arrays
                 /\ \E j \in 0 .. 2 : start = derive_start_tick(from, whirlpool.spacing)
                                        + PerArray(whirlpool.spacing) * (IF d THEN -j ELSE j)
  <1>1. PICK t, s : t = whirlpool.tick /\ s = whirlpool.spacing
    OBVIOUS
  <1>2. /\ s \in Nat \ {0} /\ t \in Int /\ MIN_TICK_INDEX <= t /\ t <= MAX_TICK_INDEX
    BY <1>1, Zenon DEF OrcaInv, IsWhirlpool
  <1>3. PICK starts : starts = derive_tick_array_start_indexes(t, s, d)
    OBVIOUS
  <1>4. tick_arrays \subseteq Int /\ NoArray \notin tick_arrays
    BY OrcaAssumption DEF OrcaInv
  <1>5. /\ starts[1] \in w.arrays
        /\ \A start \in w.arrays : start \in tick_arrays /\ \E i \in 1 .. 3 : start = starts[i]
        /\ \E last \in w.arrays : w.limit = derive_last_tick_in_array(last, s, d)
    BY <1>1, <1>3, <1>4, WindowIs
  <1>6. from \in Int
    BY <1>1, <1>2
  <1>7. PICK n \in Nat \ {0} : n = PerArray(s) /\ s <= n
    BY <1>2, ArrayOfTicks
  <1>8. PICK first : first = derive_start_tick(from, s)
    OBVIOUS
  <1>9. PICK q \in Int : first = n * q /\ n * q <= from /\ from < n * q + n
    BY <1>2, <1>6, <1>7, <1>8, StartTick
  <1>10. first \in Int /\ first <= from /\ from < first + n
    BY <1>7, <1>9
  <1>11. starts[1] = first
    BY <1>1, <1>3, <1>8, StartsFirst
  <1>12. from \in first .. first + n - 1
    BY <1>6, <1>7, <1>10
  <1>13. \A start \in w.arrays :
            start \in tick_arrays /\ \E j \in 0 .. 2 : start = first + n * (IF d THEN -j ELSE j)
    <2> SUFFICES ASSUME NEW start \in w.arrays
                 PROVE  /\ start \in tick_arrays
                        /\ \E j \in 0 .. 2 : start = first + n * (IF d THEN -j ELSE j)
      OBVIOUS
    <2>1. PICK i \in 1 .. 3 : start \in tick_arrays /\ start = starts[i]
      BY <1>5
    <2>2. start # NoArray
      BY <1>4, <2>1
    <2>3. \E j \in 0 .. 2 : starts[i]
                 = derive_start_tick(IF d THEN t ELSE t + s, s) + PerArray(s) * (IF d THEN -j ELSE j)
      BY <1>2, <1>3, <2>1, <2>2, StartsAre
    <2>4. derive_start_tick(IF d THEN t ELSE t + s, s) = first
      BY <1>1, <1>8
    <2> QED BY <1>7, <2>1, <2>3, <2>4
  <1>14. PICK last \in w.arrays : w.limit = derive_last_tick_in_array(last, s, d)
    BY <1>5
  <1>15. PICK j \in 0 .. 2 : last = first + n * (IF d THEN -j ELSE j)
    BY <1>13, <1>14
  <1>16. last \in Int /\ IF d THEN last <= first ELSE last >= first
    BY <1>7, <1>10, <1>15
  <1>17. MIN_TICK_INDEX \in Int /\ MAX_TICK_INDEX \in Int /\ MIN_TICK_INDEX < MAX_TICK_INDEX
    BY OrcaAssumption
  <1>18. PICK e : e = IF d THEN last ELSE last + n - 1
    OBVIOUS
  <1>19. /\ e \in Int
         /\ IF d THEN e <= t ELSE e >= t
    <2>1. CASE d
      BY <1>1, <1>2, <1>10, <1>16, <1>18, <2>1
    <2>2. CASE ~d
      <3>1. e = last + n - 1 /\ last >= first /\ from = t + s
        BY <1>1, <1>16, <1>18, <2>2
      <3> QED BY <1>2, <1>7, <1>10, <1>16, <2>2, <3>1
    <2> QED BY <2>1, <2>2
  <1>20. w.limit = IF e > MAX_TICK_INDEX THEN MAX_TICK_INDEX
                   ELSE IF e < MIN_TICK_INDEX THEN MIN_TICK_INDEX ELSE e
    BY <1>7, <1>14, <1>18 DEF derive_last_tick_in_array
  <1>21. /\ w.limit \in Int /\ MIN_TICK_INDEX <= w.limit /\ w.limit <= MAX_TICK_INDEX
         /\ IF d THEN w.limit <= t ELSE w.limit >= t
    BY <1>2, <1>17, <1>19, <1>20
  <1>22. \E start \in w.arrays : from \in start .. start + n - 1
    BY <1>5, <1>11, <1>12
  <1> QED BY <1>1, <1>7, <1>8, <1>13, <1>21, <1>22
(* Every array that exists passes check_is_valid_start_tick. *)
LEMMA StartIsValid ==
    ASSUME NEW start, NEW s \in Nat \ {0}, IsStart(start, s)
    PROVE  check_is_valid_start_tick(start, s)
  <1>1. PICK n \in Nat \ {0} : n = PerArray(s)
    BY ArrayOfTicks
  <1>2. PICK x \in Int : /\ MIN_TICK_INDEX <= x /\ x <= MAX_TICK_INDEX
                         /\ start = derive_start_tick(x, s)
    BY DEF IsStart
  <1>3. PICK q \in Int : start = n * q /\ n * q <= x /\ x < n * q + n
    BY <1>1, <1>2, StartTick
  <1>4. MIN_TICK_INDEX \in Int /\ MAX_TICK_INDEX \in Int
    BY OrcaAssumption
  <1>5. start \in Int /\ start <= x /\ x < start + n
    BY <1>1, <1>3
  <1>6. CASE start \in MIN_TICK_INDEX .. MAX_TICK_INDEX
    <2>1. Rem(start, n) = 0
      BY <1>3, MultipleRem
    <2> QED BY <1>1, <1>6, <2>1 DEF check_is_valid_start_tick
  <1>7. CASE start \notin MIN_TICK_INDEX .. MAX_TICK_INDEX
    <2>1. start < MIN_TICK_INDEX
      BY <1>2, <1>4, <1>5, <1>7
    <2>2. start <= MIN_TICK_INDEX /\ MIN_TICK_INDEX < start + n
      BY <1>1, <1>2, <1>4, <1>5, <2>1
    <2>3. derive_start_tick(MIN_TICK_INDEX, s) = start
      BY <1>1, <1>3, <1>4, <2>2, StartOfArray
    <2> QED BY <1>7, <2>2, <2>3 DEF check_is_valid_start_tick
  <1> QED BY <1>6, <1>7

(* The array of a tick one spacing on is the same or the next. *)
LEMMA StartShifted ==
    ASSUME NEW t \in Int, NEW s \in Nat \ {0}, NEW q \in Int,
           derive_start_tick(t, s) = PerArray(s) * q
    PROVE  \E k \in 0 .. 1 : derive_start_tick(t + s, s) = PerArray(s) * (q + k)
  <1>1. PICK n \in Nat \ {0} : n = PerArray(s) /\ s <= n
    BY ArrayOfTicks
  <1>2. PICK p \in Int : n * p = n * q /\ n * p <= t /\ t < n * p + n
    BY <1>1, StartTick
  <1>3. PICK x \in Int : x = n * q
    BY <1>1
  <1>4. n * (q + 0) = x /\ n * (q + 1) = x + n /\ q + 0 \in Int /\ q + 1 \in Int
    BY <1>1, <1>3
  <1>5. t + s \in Int
    OBVIOUS
  <1>6. CASE t + s < x + n
    <2>1. x <= t + s
      BY <1>2, <1>3
    <2>2. derive_start_tick(t + s, s) = PerArray(s) * (q + 0)
      BY <1>1, <1>4, <1>5, <1>6, <2>1, StartOfArray
    <2> QED BY <2>2
  <1>7. CASE ~(t + s < x + n)
    <2>1. x + n <= t + s /\ t + s < x + n + n
      BY <1>1, <1>2, <1>3, <1>7
    <2>2. derive_start_tick(t + s, s) = PerArray(s) * (q + 1)
      BY <1>1, <1>4, <1>5, <2>1, StartOfArray
    <2> QED BY <2>2
  <1> QED BY <1>6, <1>7

(* Near the tick on start, the arrays of a quote are listed. *)
LEMMA WindowListed ==
    ASSUME OrcaInv, NEW d \in BOOLEAN, NEW start \in tick_arrays, NEW j \in 0 .. 2,
           NEW from, from = IF d THEN whirlpool.tick ELSE whirlpool.tick + whirlpool.spacing,
           start = derive_start_tick(from, whirlpool.spacing)
                     + PerArray(whirlpool.spacing) * (IF d THEN -j ELSE j),
           Drift \in 2 - (TICK_ARRAY_SCAN_RANGE \div 2) .. (TICK_ARRAY_SCAN_RANGE - 1) \div 2 - 3
    PROVE  start \in listed
  <1>1. PICK t, s, t0 : t = whirlpool.tick /\ s = whirlpool.spacing /\ t0 = whirlpool.first
    OBVIOUS
  <1>2. s \in Nat \ {0} /\ t \in Int /\ t0 \in Int
    BY <1>1, Zenon DEF OrcaInv, IsWhirlpool
  <1>3. PICK n \in Nat \ {0} : n = PerArray(s)
    BY <1>2, ArrayOfTicks
  <1>4. PICK q \in Int : derive_start_tick(t, s) = n * q
    BY <1>2, <1>3, StartTick
  <1>5. PICK q0 \in Int : derive_start_tick(t0, s) = n * q0
    BY <1>2, <1>3, StartTick
  <1>6. PICK R, H, G : /\ R = TICK_ARRAY_SCAN_RANGE /\ H = R \div 2 /\ G = (R - 1) \div 2
    OBVIOUS
  <1>7. R \in Nat /\ H \in Int /\ G \in Int /\ G + H = R - 1
    BY <1>6, OrcaAssumption
  <1>8. Drift = q - q0
    <2>1. Drift = (n * q - n * q0) \div n
      BY <1>1, <1>3, <1>4, <1>5 DEF Drift
    <2>2. PICK k \in Int : k = q - q0
      BY <1>4, <1>5
    <2>3. n * q - n * q0 = n * k
      BY <1>3, <1>4, <1>5, <2>2
    <2>4. (n * k) \div n = k
      BY <1>3, <2>2, MultipleDivided
    <2> QED BY <2>1, <2>2, <2>3, <2>4
  <1>9. q - q0 >= 2 - H /\ q - q0 <= G - 3
    BY <1>4, <1>5, <1>6, <1>7, <1>8
  <1>10. PICK p \in Int : start = n * p /\ p >= q - 2 /\ p <= q + 3
    <2>1. CASE d
      <3>1. start = n * q + n * (-j)
        BY <1>1, <1>3, <1>4, <2>1
      <3>2. n * (q - j) = n * q + n * (-j)
        BY <1>3, <1>4
      <3>3. PICK p \in Int : p = q - j
        BY <1>4
      <3>4. start = n * p /\ p >= q - 2 /\ p <= q + 3
        BY <1>4, <3>1, <3>2, <3>3
      <3> QED BY <3>3, <3>4
    <2>2. CASE ~d
      <3>1. PICK k \in 0 .. 1 : derive_start_tick(t + s, s) = n * (q + k)
        BY <1>2, <1>3, <1>4, StartShifted
      <3>2. start = n * (q + k) + n * j
        BY <1>1, <1>3, <2>2, <3>1
      <3>3. n * (q + k + j) = n * (q + k) + n * j
        BY <1>3, <1>4
      <3>4. PICK p \in Int : p = q + k + j
        BY <1>4
      <3>5. start = n * p /\ p >= q - 2 /\ p <= q + 3
        BY <1>4, <3>1, <3>2, <3>3, <3>4
      <3> QED BY <3>4, <3>5
    <2> QED BY <2>1, <2>2
  <1>11. PICK i : i = p - q0 + H
    OBVIOUS
  <1>12. i \in 0 .. R - 1
    BY <1>4, <1>5, <1>7, <1>9, <1>10, <1>11
  <1>13. start = n * q0 - H * n + i * n
    <2>1. n * p = n * q0 - H * n + (p - q0 + H) * n
      BY <1>3, <1>5, <1>7, <1>10
    <2> QED BY <1>10, <1>11, <2>1
  <1>14. check_is_valid_start_tick(start, s)
    <2>1. IsStart(start, s)
      BY <1>1 DEF OrcaInv
    <2> QED BY <1>2, <2>1, StartIsValid
  <1>15. listed = whirlpool_tick_array_pks(t0, s)
    BY <1>1 DEF OrcaInv
  <1>16. start = (derive_start_tick(t0, s) - (TICK_ARRAY_SCAN_RANGE \div 2) * PerArray(s))
                   + i * PerArray(s)
    BY <1>3, <1>5, <1>6, <1>13
  <1> QED BY <1>6, <1>12, <1>14, <1>15, <1>16 DEF whirlpool_tick_array_pks

LEMMA OrcaInitial == OrcaInit => OrcaInv
  <1> SUFFICES ASSUME OrcaInit PROVE OrcaInv
    OBVIOUS
  <1>1. PICK s \in Spacings, t \in StartTicks :
          /\ whirlpool = [spacing |-> s, tick |-> t, first |-> t]
          /\ listed = whirlpool_tick_array_pks(t, s)
          /\ tick_arrays = {derive_start_tick(t, s)}
    BY DEF OrcaInit
  <1>2. s \in Nat \ {0} /\ t \in Int /\ MIN_TICK_INDEX <= t /\ t <= MAX_TICK_INDEX
    BY <1>1, OrcaAssumption
  <1>3. IsWhirlpool(whirlpool) /\ whirlpool.spacing = s /\ whirlpool.first = t
    BY <1>1, <1>2 DEF IsWhirlpool
  <1>4. \A start \in tick_arrays : start \in Int /\ IsStart(start, s)
    <2>1. IsStart(derive_start_tick(t, s), s)
      BY <1>2 DEF IsStart
    <2> QED BY <1>1, <1>2, <2>1, StartsAreInt
  <1> QED BY <1>1, <1>3, <1>4 DEF OrcaInv

LEMMA OrcaStep ==
    ASSUME OrcaInv, [OrcaNext]_orca
    PROVE  OrcaInv'
  <1>1. PICK s, t : s = whirlpool.spacing /\ t = whirlpool.tick
    OBVIOUS
  <1>2. s \in Nat \ {0} /\ t \in Int /\ MIN_TICK_INDEX <= t /\ t <= MAX_TICK_INDEX
    BY <1>1, Zenon DEF OrcaInv, IsWhirlpool
  <1>3. MIN_TICK_INDEX \in Int /\ MAX_TICK_INDEX \in Int
    BY OrcaAssumption
  <1>4. CASE CreateArray
    <2>1. PICK tick \in MIN_TICK_INDEX .. MAX_TICK_INDEX :
            tick_arrays' = tick_arrays \cup {derive_start_tick(tick, s)}
      BY <1>1, <1>4 DEF CreateArray
    <2>2. IsStart(derive_start_tick(tick, s), s)
      BY <1>3, <2>1 DEF IsStart
    <2>3. derive_start_tick(tick, s) \in Int
      BY <1>2, <2>2, StartsAreInt
    <2>4. UNCHANGED <<whirlpool, listed>>
      BY <1>4 DEF CreateArray
    <2>5. \A start \in tick_arrays' : start \in Int /\ IsStart(start, s)
      BY <1>1, <2>1, <2>2, <2>3 DEF OrcaInv
    <2> QED BY <1>1, <2>4, <2>5, Zenon DEF OrcaInv
  <1>5. CASE SwapOnPool
    <2>1. PICK d \in BOOLEAN : \E w \in {SwapWindow(whirlpool, d)} :
            /\ w.ok
            /\ \E u \in IF d THEN w.limit .. t ELSE t .. w.limit :
                  whirlpool' = [whirlpool EXCEPT !.tick = u]
      BY <1>1, <1>5, Zenon DEF SwapOnPool
    <2>1a. PICK w : /\ w = SwapWindow(whirlpool, d) /\ w.ok
                   /\ \E u \in IF d THEN w.limit .. t ELSE t .. w.limit :
                         whirlpool' = [whirlpool EXCEPT !.tick = u]
      BY <2>1
    <2>2. w.limit \in Int /\ MIN_TICK_INDEX <= w.limit /\ w.limit <= MAX_TICK_INDEX
      BY <2>1a, WindowHolds
    <2>3. PICK u : /\ u \in IF d THEN w.limit .. t ELSE t .. w.limit
                   /\ whirlpool' = [whirlpool EXCEPT !.tick = u]
      BY <2>1a
    <2>4. u \in Int /\ MIN_TICK_INDEX <= u /\ u <= MAX_TICK_INDEX
      <3>1. CASE d
        BY <1>2, <1>3, <2>2, <2>3, <3>1
      <3>2. CASE ~d
        BY <1>2, <1>3, <2>2, <2>3, <3>2
      <3> QED BY <3>1, <3>2
    <2>5. /\ whirlpool = [spacing |-> s, tick |-> t, first |-> whirlpool.first]
          /\ whirlpool.first \in Int
      BY <1>1, Zenon DEF OrcaInv, IsWhirlpool
    <2>6. /\ whirlpool' = [spacing |-> s, tick |-> u, first |-> whirlpool.first]
      BY <2>3, <2>5
    <2>7. /\ IsWhirlpool(whirlpool)'
          /\ whirlpool'.spacing = whirlpool.spacing /\ whirlpool'.first = whirlpool.first
      BY <1>1, <1>2, <2>4, <2>5, <2>6 DEF IsWhirlpool
    <2>8. UNCHANGED <<listed, tick_arrays>>
      BY <1>5 DEF SwapOnPool
    <2> QED BY <2>7, <2>8, Zenon DEF OrcaInv
  <1>6. CASE UNCHANGED orca
    BY <1>6, Zenon DEF orca, OrcaInv
  <1> QED BY <1>4, <1>5, <1>6 DEF OrcaNext

(* derive_tick_array_start_indexes, fetch_tick_arrays and the price limit of a  *)
(* quote, for every tick spacing, array size and range, wherever swaps take    *)
(* the tick: a window that is given holds the tick it swaps from, its limit is *)
(* ahead of the tick, and within the scanned range around the tick on start    *)
(* every array of it is among those listed for the pool's edges.             *)
THEOREM WindowFollows == OrcaSpec => []WindowFollowsTick
  <1>1. OrcaInv => WindowFollowsTick
    <2> SUFFICES ASSUME OrcaInv, NEW d \in BOOLEAN, NEW w, w = SwapWindow(whirlpool, d), w.ok,
                        NEW from,
                        from = IF d THEN whirlpool.tick ELSE whirlpool.tick + whirlpool.spacing
                 PROVE  /\ \E start \in w.arrays :
                              from \in start .. start + PerArray(whirlpool.spacing) - 1
                        /\ IF d THEN w.limit <= whirlpool.tick ELSE w.limit >= whirlpool.tick
                        /\ Drift \in 2 - (TICK_ARRAY_SCAN_RANGE \div 2)
                                       .. (TICK_ARRAY_SCAN_RANGE - 1) \div 2 - 3
                              => w.arrays \subseteq listed
      BY Zenon DEF WindowFollowsTick
    <2>1. /\ \E start \in w.arrays : from \in start .. start + PerArray(whirlpool.spacing) - 1
          /\ IF d THEN w.limit <= whirlpool.tick ELSE w.limit >= whirlpool.tick
          /\ \A start \in w.arrays :
                /\ start \in tick_arrays
                /\ \E j \in 0 .. 2 : start = derive_start_tick(from, whirlpool.spacing)
                                       + PerArray(whirlpool.spacing) * (IF d THEN -j ELSE j)
      BY WindowHolds
    <2>2. ASSUME Drift \in 2 - (TICK_ARRAY_SCAN_RANGE \div 2)
                             .. (TICK_ARRAY_SCAN_RANGE - 1) \div 2 - 3,
                 NEW start \in w.arrays
          PROVE  start \in listed
      <3>1. PICK j \in 0 .. 2 : start = derive_start_tick(from, whirlpool.spacing)
                                  + PerArray(whirlpool.spacing) * (IF d THEN -j ELSE j)
        BY <2>1, <2>2
      <3>2. start \in tick_arrays
        BY <2>1, <2>2
      <3> QED BY <2>2, <3>1, <3>2, WindowListed
    <2> QED BY <2>1, <2>2
  <1>2. OrcaInv /\ [OrcaNext]_orca => OrcaInv'
    BY OrcaStep
  <1> QED
    BY <1>1, <1>2, OrcaInitial, PTL DEF OrcaSpec

-----------------------------------------------------------------------------
(* What the adapters list                                                   *)

LEMMA PoolOfKey ==
    ASSUME NEW i \in DOMAIN OnChain
    PROVE  Pool(OnChain[i].key) = OnChain[i]
  <1>1. OnChain[i] \in Range(OnChain)
    BY DEF Range
  <1>2. PICK p \in Range(OnChain) : p = Pool(OnChain[i].key) /\ p.key = OnChain[i].key
    BY <1>1, Zenon DEF Pool
  <1>3. PICK j \in DOMAIN OnChain : p = OnChain[j]
    BY <1>2 DEF Range
  <1>4. i = j
    BY <1>2, <1>3, AdaptersAssumption
  <1> QED BY <1>2, <1>3, <1>4

(* What a listing promises of the pools it is made for. *)
IsListing(listing, pools, lists) ==
    /\ \A i \in pools : \A a \in lists[i] : a \in DOMAIN listing /\ OnChain[i].key \in listing[a]
    /\ \A a \in DOMAIN listing : listing[a] \subseteq {OnChain[i].key : i \in pools}

(* HashMap::insert drops nothing where no account is listed twice. *)
LEMMA InsertLists ==
    ASSUME NEW pools, NEW lists, pools \subseteq Nat, DOMAIN lists = pools,
           \A i, j \in pools : i # j => lists[i] \cap lists[j] = {}
    PROVE  IsListing(insert(pools, lists), pools, lists)
  <1>1. \A a \in UNION Range(lists) : \E i \in pools : a \in lists[i]
    BY DEF Range
  <1>2. \A i \in pools : lists[i] \subseteq UNION Range(lists)
    BY DEF Range
  <1>3. ASSUME NEW i \in pools, NEW a \in lists[i]
        PROVE  insert(pools, lists)[a] = {OnChain[i].key}
    <2>1. \A j \in pools : a \in lists[j] => j = i
      BY <1>3
    <2>2. a \in lists[i] /\ \A j \in pools : a \in lists[j] => j <= i
      <3>1. i \in Nat
        BY <1>3, Zenon
      <3>2. i <= i
        BY ONLY <3>1
      <3> QED BY <1>3, <2>1, <3>2, Zenon
    <2>3. i = CHOOSE k \in pools : a \in lists[k] /\ \A j \in pools : a \in lists[j] => j <= k
      BY <1>3, <2>1, <2>2
    <2>4. a \in UNION Range(lists)
      BY <1>2, <1>3
    <2> QED BY <2>3, <2>4 DEF insert
  <1>4. DOMAIN insert(pools, lists) = UNION Range(lists)
    BY DEF insert
  <1> QED BY <1>1, <1>2, <1>3, <1>4 DEF IsListing

LEMMA ExtendLists ==
    ASSUME NEW pools, NEW lists, DOMAIN lists = pools
    PROVE  IsListing(insert_or_extend(pools, lists), pools, lists)
  <1>1. \A i \in pools : lists[i] \subseteq UNION Range(lists)
    BY DEF Range
  <1>2. /\ DOMAIN insert_or_extend(pools, lists) = UNION Range(lists)
        /\ \A a \in UNION Range(lists) :
              insert_or_extend(pools, lists)[a] = {OnChain[i].key : i \in {j \in pools : a \in lists[j]}}
    BY DEF insert_or_extend
  <1> QED BY <1>1, <1>2 DEF IsListing

(* What load reads and a listing is to follow. *)
Followed(p) == load(p) \ {Clock}

(* What initialize promises: its pools' edges are listed for, and the feed     *)
(* delivers, every account they were loaded from.                            *)
Follows(d) ==
    /\ \A k \in d.keys :
          /\ \E i \in DOMAIN OnChain : OnChain[i].key = k
          /\ \A a \in Followed(Pool(k)) :
                a \in DOMAIN d.listing /\ k \in d.listing[a] /\ a \in d.subscription
    /\ \A a \in DOMAIN d.listing : d.listing[a] \subseteq d.keys

LEMMA DexFollows ==
    ASSUME NEW pools, pools \subseteq DOMAIN OnChain, NEW listing, NEW lists, NEW subscription,
           IsListing(listing, pools, lists),
           \A i \in pools : Followed(OnChain[i]) \subseteq lists[i] \cap subscription
    PROVE  Follows(Dex(pools, listing, subscription))
  <1>1. PICK d : d = Dex(pools, listing, subscription)
    OBVIOUS
  <1>2. /\ d.keys = {OnChain[i].key : i \in pools} /\ d.listing = listing
        /\ d.subscription = subscription
    BY <1>1 DEF Dex
  <1>3. ASSUME NEW k \in d.keys
        PROVE  /\ \E i \in DOMAIN OnChain : OnChain[i].key = k
               /\ \A a \in Followed(Pool(k)) :
                     a \in DOMAIN d.listing /\ k \in d.listing[a] /\ a \in d.subscription
    <2>1. PICK i \in pools : k = OnChain[i].key
      BY <1>2, <1>3
    <2>2. Pool(k) = OnChain[i] /\ i \in DOMAIN OnChain
      BY <2>1, PoolOfKey
    <2>3. ASSUME NEW a \in Followed(Pool(k))
          PROVE  a \in DOMAIN listing /\ k \in listing[a] /\ a \in subscription
      <3>1. a \in Followed(OnChain[i])
        BY <2>2, <2>3
      <3>2. a \in lists[i] /\ a \in subscription
        BY <2>1, <3>1
      <3> QED BY <2>1, <3>2 DEF IsListing
    <2> QED BY <1>2, <2>1, <2>2, <2>3
  <1>4. \A a \in DOMAIN d.listing : d.listing[a] \subseteq d.keys
    BY <1>2 DEF IsListing
  <1> QED BY <1>1, <1>3, <1>4, Zenon DEF Follows

LEMMA KeptArePools ==
    ASSUME NEW dex, NEW flags
    PROVE  /\ Without(PoolsOf(dex), flags) \subseteq DOMAIN OnChain
           /\ \A i \in Without(PoolsOf(dex), flags) : i \in PoolsOf(dex) /\ OnChain[i].dex = dex
  BY DEF Without, PoolsOf

LEMMA OwnAccounts ==
    ASSUME NEW pools, pools \subseteq DOMAIN OnChain,
           NEW dex \in {"raydium", "saber", "openbook_v2"}, \A i \in pools : OnChain[i].dex = dex,
           NEW lists, \A i \in pools : lists[i] \subseteq AccountsOf(OnChain[i])
    PROVE  pools \subseteq Nat /\ \A i, j \in pools : i # j => lists[i] \cap lists[j] = {}
  <1>1. pools \subseteq Nat
    BY AdaptersAssumption
  <1>2. ASSUME NEW i \in pools, NEW j \in pools, i # j
        PROVE  lists[i] \cap lists[j] = {}
    <2>1. i \in DOMAIN OnChain /\ j \in DOMAIN OnChain
      BY <1>2
    <2>2. OnChain[i].dex = OnChain[j].dex /\ OnChain[i].dex \in {"raydium", "saber", "openbook_v2"}
      BY <1>2
    <2>3. AccountsOf(OnChain[i]) \cap AccountsOf(OnChain[j]) = {}
      BY <1>2, <2>1, <2>2, AdaptersAssumption, Zenon
    <2> QED BY <1>2, <2>3
  <1> QED BY <1>1, <1>2

LEMMA RaydiumFollows == Follows(raydium_initialize)
  <1> DEFINE pools == Without(PoolsOf("raydium"), {"no_swap", "order_book", "same_mint", "not_open"})
             lists == [i \in pools |-> {PoolAccount(OnChain[i])} \cup OnChain[i].vaults]
             subscription == ProgramOwned("raydium") \cup VaultsOf("raydium")
  <1>1. /\ pools \subseteq DOMAIN OnChain
        /\ \A i \in pools : i \in PoolsOf("raydium") /\ OnChain[i].dex = "raydium"
    BY KeptArePools
  <1>2. /\ DOMAIN lists = pools
        /\ \A i \in pools : lists[i] = {PoolAccount(OnChain[i])} \cup OnChain[i].vaults
    OBVIOUS
  <1>3. raydium_initialize = Dex(pools, insert(pools, lists), subscription)
    BY Zenon DEF raydium_initialize
  <1> HIDE DEF pools, lists
  <1>4. \A i \in pools : lists[i] \subseteq AccountsOf(OnChain[i])
    BY <1>2 DEF AccountsOf
  <1>5. pools \subseteq Nat /\ \A i, j \in pools : i # j => lists[i] \cap lists[j] = {}
    BY <1>1, <1>4, OwnAccounts
  <1>6. IsListing(insert(pools, lists), pools, lists)
    BY <1>2, <1>5, InsertLists
  <1>7. \A i \in pools : Followed(OnChain[i]) \subseteq lists[i] \cap subscription
    BY <1>1, <1>2 DEF Followed, load, raydium_load, ProgramOwned, VaultsOf
  <1> QED BY <1>1, <1>3, <1>6, <1>7, DexFollows

LEMMA RaydiumCpFollows == Follows(raydium_cp_initialize)
  <1> DEFINE pools == Without(PoolsOf("raydium_cp"), {"token2022", "frozen"})
             lists == [i \in pools |->
                        {PoolAccount(OnChain[i])} \cup OnChain[i].extra \cup OnChain[i].vaults]
             subscription == ProgramOwned("raydium_cp") \cup VaultsOf("raydium_cp")
  <1>1. /\ pools \subseteq DOMAIN OnChain
        /\ \A i \in pools : i \in PoolsOf("raydium_cp") /\ OnChain[i].dex = "raydium_cp"
    BY KeptArePools
  <1>2. /\ DOMAIN lists = pools
        /\ \A i \in pools :
              lists[i] = {PoolAccount(OnChain[i])} \cup OnChain[i].extra \cup OnChain[i].vaults
    OBVIOUS
  <1>3. raydium_cp_initialize = Dex(pools, insert_or_extend(pools, lists), subscription)
    BY Zenon DEF raydium_cp_initialize
  <1> HIDE DEF pools, lists
  <1>4. IsListing(insert_or_extend(pools, lists), pools, lists)
    BY <1>2, ExtendLists
  <1>5. \A i \in pools : Followed(OnChain[i]) \subseteq lists[i] \cap subscription
    BY <1>1, <1>2 DEF Followed, load, raydium_cp_load, ProgramOwned, VaultsOf
  <1> QED BY <1>1, <1>3, <1>4, <1>5, DexFollows

LEMMA SaberFollows == Follows(saber_initialize)
  <1> DEFINE pools == PoolsOf("saber")
             lists == [i \in pools |-> {PoolAccount(OnChain[i])} \cup OnChain[i].vaults]
  <1>1. pools \subseteq DOMAIN OnChain /\ \A i \in pools : OnChain[i].dex = "saber"
    BY DEF PoolsOf
  <1>2. /\ DOMAIN lists = pools
        /\ \A i \in pools : lists[i] = {PoolAccount(OnChain[i])} \cup OnChain[i].vaults
    OBVIOUS
  <1>3. saber_initialize = Dex(pools, insert(pools, lists), DOMAIN insert(pools, lists))
    BY Zenon DEF saber_initialize
  <1> HIDE DEF pools, lists
  <1>4. \A i \in pools : lists[i] \subseteq AccountsOf(OnChain[i])
    BY <1>2 DEF AccountsOf
  <1>5. pools \subseteq Nat /\ \A i, j \in pools : i # j => lists[i] \cap lists[j] = {}
    BY <1>1, <1>4, OwnAccounts
  <1>6. PICK listing : listing = insert(pools, lists) /\ IsListing(listing, pools, lists)
    BY <1>2, <1>5, InsertLists
  <1>7. \A i \in pools : lists[i] \subseteq DOMAIN listing
    BY <1>6 DEF IsListing
  <1>8. \A i \in pools : Followed(OnChain[i]) \subseteq lists[i] \cap DOMAIN listing
    BY <1>1, <1>2, <1>7 DEF Followed, load, saber_load
  <1> QED BY <1>1, <1>3, <1>6, <1>8, DexFollows

LEMMA OpenbookFollows == Follows(openbook_v2_initialize)
  <1> DEFINE pools == Without(PoolsOf("openbook_v2"), {"open_orders_admin"})
             lists == [i \in pools |-> {PoolAccount(OnChain[i])} \cup OnChain[i].extra]
             subscription == ProgramOwned("openbook_v2") \cup {Clock}
  <1>1. /\ pools \subseteq DOMAIN OnChain
        /\ \A i \in pools : i \in PoolsOf("openbook_v2") /\ OnChain[i].dex = "openbook_v2"
    BY KeptArePools
  <1>2. /\ DOMAIN lists = pools
        /\ \A i \in pools : lists[i] = {PoolAccount(OnChain[i])} \cup OnChain[i].extra
    OBVIOUS
  <1>3. openbook_v2_initialize = Dex(pools, insert(pools, lists), subscription)
    BY Zenon DEF openbook_v2_initialize
  <1> HIDE DEF pools, lists
  <1>4. \A i \in pools : lists[i] \subseteq AccountsOf(OnChain[i])
    BY <1>2 DEF AccountsOf
  <1>5. pools \subseteq Nat /\ \A i, j \in pools : i # j => lists[i] \cap lists[j] = {}
    BY <1>1, <1>4, OwnAccounts
  <1>6. IsListing(insert(pools, lists), pools, lists)
    BY <1>2, <1>5, InsertLists
  <1>7. \A i \in pools : Followed(OnChain[i]) \subseteq lists[i] \cap subscription
    BY <1>1, <1>2 DEF Followed, load, openbook_v2_load, ProgramOwned
  <1> QED BY <1>1, <1>3, <1>6, <1>7, DexFollows

LEMMA InitializedFollow ==
    ASSUME {"infinity", "invariant"} \cap Dexes = {}, NEW dex \in Dexes, NEW d \in initialize(dex)
    PROVE  Follows(d)
  <1>1. dex \in {"raydium", "raydium_cp", "saber", "openbook_v2"}
    BY AdaptersAssumption DEF DexNames
  <1>2. CASE dex = "raydium"
    <2>1. d = raydium_initialize
      BY <1>2 DEF initialize
    <2> QED BY <2>1, RaydiumFollows
  <1>3. CASE dex = "raydium_cp"
    <2>1. d = raydium_cp_initialize
      BY <1>3 DEF initialize
    <2> QED BY <2>1, RaydiumCpFollows
  <1>4. CASE dex = "saber"
    <2>1. d = saber_initialize
      BY <1>4 DEF initialize
    <2> QED BY <2>1, SaberFollows
  <1>5. CASE dex = "openbook_v2"
    <2>1. d = openbook_v2_initialize
      BY <1>5 DEF initialize
    <2> QED BY <2>1, OpenbookFollows
  <1> QED BY <1>1, <1>2, <1>3, <1>4, <1>5

(* Every edge that is listed hears of what it is loaded from, and once the     *)
(* snapshot has come it is loaded from the present version.                   *)
Heard(k) ==
    /\ \E i \in DOMAIN OnChain : OnChain[i].key = k
    /\ \A a \in Followed(Pool(k)) : a \in subscribed /\ k \in edges_per_pk[a]

AdaptersInv ==
    /\ DOMAIN version = Accounts /\ DOMAIN edges_per_pk = Accounts
    /\ \A k \in Listed : Heard(k)
    /\ ready \subseteq Dexes /\ ("openbook_v2" \in ready => Clock \in subscribed)
    /\ running => Clock \in subscribed /\ DOMAIN loaded = Listed
    /\ ~running => DOMAIN loaded = {}
    /\ \A k \in DOMAIN loaded : \A a \in Followed(Pool(k)) : loaded[k][a] = version[a]

AreLoaded(new, keys, v) ==
    /\ DOMAIN new = keys \cup DOMAIN loaded
    /\ \A k \in keys : \A a \in Followed(Pool(k)) : new[k][a] = v[a]
    /\ \A k \in DOMAIN loaded \ keys : new[k] = loaded[k]

(* Loading some pools succeeds, with the Clock in the chain data, and leaves    *)
(* the others as they were.                                                  *)
LEMMA LoadsAre ==
    ASSUME NEW keys, NEW v, \A k \in keys : Heard(k), Clock \in subscribed
    PROVE  AreLoaded(Loads(keys, v), keys, v)
  <1> DEFINE loadable == {k \in keys : load(Pool(k)) \subseteq subscribed}
  <1>1. loadable = keys
    BY DEF Heard, Followed
  <1>2. Loads(keys, v) = [k \in keys \cup DOMAIN loaded |->
            IF k \in keys THEN [a \in load(Pool(k)) |-> v[a]] ELSE loaded[k]]
    BY <1>1 DEF Loads
  <1>3. ASSUME NEW k \in keys, NEW a \in Followed(Pool(k))
        PROVE  Loads(keys, v)[k][a] = v[a]
    <2>1. a \in load(Pool(k))
      BY <1>3 DEF Followed
    <2>2. Loads(keys, v)[k] = [b \in load(Pool(k)) |-> v[b]]
      BY <1>2, <1>3
    <2> QED BY <2>1, <2>2
  <1>4. \A k \in DOMAIN loaded \ keys : Loads(keys, v)[k] = loaded[k]
    BY <1>2
  <1>5. DOMAIN Loads(keys, v) = keys \cup DOMAIN loaded
    BY <1>2
  <1> QED BY <1>3, <1>4, <1>5 DEF AreLoaded

LEMMA FollowedAccounts ==
    ASSUME NEW i \in DOMAIN OnChain
    PROVE  Followed(OnChain[i]) \subseteq Accounts
  <1>1. OnChain[i] \in Range(OnChain)
    BY DEF Range
  <1>2. /\ AccountsOf(OnChain[i]) \cup TickAccounts(OnChain[i].key, OnChain[i].ticks) \subseteq Accounts
        /\ infinity_pool \subseteq Accounts /\ infinity_accounts \subseteq Accounts
    <2>1. \A p \in Range(OnChain) : AccountsOf(p) \cup TickAccounts(p.key, p.ticks) \subseteq Accounts
      BY Zenon DEF Accounts
    <2>2. infinity_pool \subseteq Accounts
      BY Zenon DEF Accounts
    <2>3. \A j \in PoolsOf("infinity") : OnChain[j].extra \cup OnChain[j].vaults \subseteq Accounts
      BY <2>1 DEF PoolsOf, Range, AccountsOf
    <2> QED BY <1>1, <2>1, <2>2, <2>3 DEF infinity_accounts
  <1>3. OnChain[i].dex \in DexNames
    BY AdaptersAssumption
  <1>4. Followed(OnChain[i])
          \subseteq AccountsOf(OnChain[i]) \cup TickAccounts(OnChain[i].key, OnChain[i].ticks)
                       \cup infinity_accounts
    BY <1>3 DEF DexNames, Followed, load, raydium_load, raydium_cp_load, saber_load,
                openbook_v2_load, infinity_load, invariant_load, AccountsOf
  <1> QED BY <1>2, <1>4

LEMMA AdaptersInitial == AdaptersInit => AdaptersInv
  BY DEF AdaptersInit, AdaptersInv, Listed

LEMMA StartDexKeeps ==
    ASSUME {"infinity", "invariant"} \cap Dexes = {}, AdaptersInv, StartDex
    PROVE  AdaptersInv'
  <1>1. PICK dex \in Dexes \ ready : \E d \in initialize(dex) :
          /\ ready' = ready \cup {dex}
          /\ edges_per_pk' = [a \in Accounts |->
                edges_per_pk[a] \cup IF a \in DOMAIN d.listing THEN d.listing[a] ELSE {}]
          /\ subscribed' = subscribed \cup d.subscription
    BY DEF StartDex
  <1>2. PICK d \in initialize(dex) :
          /\ ready' = ready \cup {dex}
          /\ edges_per_pk' = [a \in Accounts |->
                edges_per_pk[a] \cup IF a \in DOMAIN d.listing THEN d.listing[a] ELSE {}]
          /\ subscribed' = subscribed \cup d.subscription
    BY <1>1
  <1>3. version' = version /\ loaded' = loaded /\ ~running /\ ~running' /\ DOMAIN loaded = {}
    BY DEF StartDex, AdaptersInv
  <1>4. Follows(d)
    BY <1>1, <1>2, InitializedFollow
  <1>5. PICK keys : keys = d.keys
    OBVIOUS
  <1>6. /\ DOMAIN edges_per_pk' = Accounts
        /\ \A a \in Accounts : edges_per_pk'[a]
              = edges_per_pk[a] \cup IF a \in DOMAIN d.listing THEN d.listing[a] ELSE {}
    BY <1>2
  <1>7. \A a \in DOMAIN d.listing : d.listing[a] \subseteq keys
    BY <1>4, <1>5 DEF Follows
  <1>8. \A k \in Listed' : k \in Listed \/ k \in keys
    BY <1>6, <1>7 DEF Listed
  <1>9. ASSUME NEW k \in Listed' PROVE Heard(k)'
    <2>1. CASE k \in Listed
      <3>1. PICK i \in DOMAIN OnChain : OnChain[i].key = k
        BY <2>1 DEF AdaptersInv, Heard
      <3>2. Pool(k) = OnChain[i]
        BY <3>1, PoolOfKey
      <3>3. ASSUME NEW a \in Followed(Pool(k)) PROVE a \in subscribed' /\ k \in edges_per_pk'[a]
        <4>1. a \in Accounts
          BY <3>1, <3>2, <3>3, FollowedAccounts
        <4>2. a \in subscribed /\ k \in edges_per_pk[a]
          BY <2>1, <3>3 DEF AdaptersInv, Heard
        <4> QED BY <1>2, <1>6, <4>1, <4>2
      <3> QED BY <3>1, <3>3 DEF Heard
    <2>2. CASE k \in keys
      <3>1. PICK i \in DOMAIN OnChain : OnChain[i].key = k
        BY <1>4, <1>5, <2>2 DEF Follows
      <3>2. Pool(k) = OnChain[i]
        BY <3>1, PoolOfKey
      <3>3. ASSUME NEW a \in Followed(Pool(k)) PROVE a \in subscribed' /\ k \in edges_per_pk'[a]
        <4>1. a \in Accounts
          BY <3>1, <3>2, <3>3, FollowedAccounts
        <4>2. a \in DOMAIN d.listing /\ k \in d.listing[a] /\ a \in d.subscription
          BY <1>4, <1>5, <2>2, <3>3 DEF Follows
        <4> QED BY <1>2, <1>6, <4>1, <4>2
      <3> QED BY <3>1, <3>3 DEF Heard
    <2> QED BY <1>8, <1>9, <2>1, <2>2
  <1>10. ready' \subseteq Dexes /\ ("openbook_v2" \in ready' => Clock \in subscribed')
    <2>1. dex = "openbook_v2" => d = openbook_v2_initialize
      BY <1>2 DEF initialize
    <2>2. Clock \in openbook_v2_initialize.subscription
      BY DEF openbook_v2_initialize, Dex
    <2> QED BY <1>1, <1>2, <2>1, <2>2 DEF AdaptersInv
  <1>11. DOMAIN version' = Accounts
    BY <1>3 DEF AdaptersInv
  <1> QED BY <1>3, <1>6, <1>9, <1>10, <1>11 DEF AdaptersInv

LEMMA FirstLoadKeeps ==
    ASSUME "openbook_v2" \in Dexes, AdaptersInv, FirstLoad
    PROVE  AdaptersInv'
  <1>1. /\ UNCHANGED <<ready, edges_per_pk, subscribed, version>> /\ ready = Dexes
        /\ running' /\ loaded' = Loads(Listed, version) /\ DOMAIN loaded = {}
    BY DEF FirstLoad, AdaptersInv
  <1>2. Clock \in subscribed /\ \A k \in Listed : Heard(k)
    BY <1>1 DEF AdaptersInv
  <1>3. PICK keys, v : keys = Listed /\ v = version
    OBVIOUS
  <1>4. AreLoaded(Loads(keys, v), keys, v)
    BY <1>2, <1>3, LoadsAre
  <1>5. DOMAIN loaded' = keys /\ \A k \in keys : \A a \in Followed(Pool(k)) : loaded'[k][a] = v[a]
    BY <1>1, <1>3, <1>4 DEF AreLoaded
  <1>6. Listed' = Listed /\ \A k : Heard(k) => Heard(k)'
    BY <1>1 DEF Listed, Heard
  <1> QED BY <1>1, <1>2, <1>3, <1>5, <1>6 DEF AdaptersInv

LEMMA AccountWriteKeeps ==
    ASSUME AdaptersInv, AccountWrite
    PROVE  AdaptersInv'
  <1>1. PICK w \in Accounts :
          /\ version' = [version EXCEPT ![w] = @ + 1]
          /\ loaded' = IF running /\ w \in subscribed THEN Loads(edges_per_pk[w], version')
                       ELSE loaded
    BY DEF AccountWrite
  <1>2. UNCHANGED <<ready, edges_per_pk, subscribed, running>>
    BY DEF AccountWrite
  <1>3. /\ DOMAIN version' = Accounts
        /\ \A a \in Accounts : a # w => version'[a] = version[a]
    BY <1>1 DEF AdaptersInv
  <1>4. Listed' = Listed /\ \A k : Heard(k) => Heard(k)'
    BY <1>2 DEF Listed, Heard
  <1>5. CASE ~running
    <2>1. DOMAIN loaded' = {}
      BY <1>1, <1>5 DEF AdaptersInv
    <2> QED BY <1>2, <1>3, <1>4, <1>5, <2>1 DEF AdaptersInv
  <1>6. CASE running
    <2>1. Clock \in subscribed /\ DOMAIN loaded = Listed /\ \A k \in Listed : Heard(k)
      BY <1>6 DEF AdaptersInv
    <2>2. PICK keys, v : keys = edges_per_pk[w] /\ v = version'
      OBVIOUS
    <2>3. keys \subseteq Listed
      BY <1>1, <2>2 DEF Listed
    <2>4. w \in subscribed =>
            /\ DOMAIN loaded' = DOMAIN loaded
            /\ \A k \in keys : \A a \in Followed(Pool(k)) : loaded'[k][a] = v[a]
            /\ \A k \in DOMAIN loaded \ keys : loaded'[k] = loaded[k]
      <3>1. AreLoaded(Loads(keys, v), keys, v)
        BY <2>1, <2>3, LoadsAre
      <3> QED BY <1>1, <1>6, <2>1, <2>2, <2>3, <3>1 DEF AreLoaded
    <2>5. DOMAIN loaded' = DOMAIN loaded
      BY <1>1, <2>4
    <2>6. ASSUME NEW k \in DOMAIN loaded, NEW a \in Followed(Pool(k))
          PROVE  loaded'[k][a] = version'[a]
      <3>1. /\ a \in subscribed /\ k \in edges_per_pk[a] /\ loaded[k][a] = version[a]
            /\ \E i \in DOMAIN OnChain : OnChain[i].key = k
        BY <2>1, <2>6 DEF AdaptersInv, Heard
      <3>2. CASE w \in subscribed /\ k \in keys
        BY <2>2, <2>4, <2>6, <3>2
      <3>3. CASE ~(w \in subscribed /\ k \in keys)
        <4>1. loaded'[k] = loaded[k]
          BY <1>1, <2>4, <2>6, <3>3
        <4>2. a # w
          BY <2>2, <3>1, <3>3
        <4>3. PICK i \in DOMAIN OnChain : OnChain[i].key = k
          BY <3>1
        <4>4. a \in Accounts
          BY <2>6, <4>3, PoolOfKey, FollowedAccounts
        <4> QED BY <1>3, <3>1, <4>1, <4>2, <4>4
      <3> QED BY <3>2, <3>3
    <2> QED BY <1>2, <1>3, <1>4, <1>6, <2>1, <2>5, <2>6 DEF AdaptersInv
  <1> QED BY <1>5, <1>6 DEF AdaptersInv

(* edges_per_pk and the subscriptions, for any pools on chain: whatever account *)
(* is written, every edge is loaded, and from the present version of all that   *)
(* load reads but the Clock, and every Clock a quote reads is delivered.  Not   *)
(* for Infinity, which lists too few accounts, nor Invariant, whose initialize  *)
(* pairs pools with each other's tick maps; and OpenBook, which alone           *)
(* subscribes to the Clock, must be among the dexes.                         *)
THEOREM EdgesFollow ==
    ASSUME {"infinity", "invariant"} \cap Dexes = {}, "openbook_v2" \in Dexes
    PROVE  AdaptersSpec => []EdgesFollowTheirAccounts
  <1>1. AdaptersInv => EdgesFollowTheirAccounts
    <2> SUFFICES ASSUME AdaptersInv, running PROVE EdgesFollowTheirAccounts
      BY DEF EdgesFollowTheirAccounts
    <2>1. Listed \subseteq DOMAIN loaded /\ Clock \in subscribed
      BY DEF AdaptersInv
    <2>2. \A k \in DOMAIN loaded : \A a \in load(Pool(k)) \ {Clock} : loaded[k][a] = version[a]
      BY DEF AdaptersInv, Followed
    <2>3. \A k \in DOMAIN loaded : quote_reads(Pool(k)) \subseteq subscribed
      BY <2>1 DEF quote_reads
    <2> QED BY <2>1, <2>2, <2>3 DEF EdgesFollowTheirAccounts
  <1>2. AdaptersInv /\ [AdaptersNext]_adapters => AdaptersInv'
    <2> SUFFICES ASSUME AdaptersInv, [AdaptersNext]_adapters PROVE AdaptersInv'
      OBVIOUS
    <2>1. CASE StartDex
      BY <2>1, StartDexKeeps
    <2>2. CASE FirstLoad
      BY <2>2, FirstLoadKeeps
    <2>3. CASE AccountWrite
      BY <2>3, AccountWriteKeeps
    <2>4. CASE UNCHANGED adapters
      <3>1. UNCHANGED <<ready, edges_per_pk, subscribed, running, version, loaded>>
        BY <2>4 DEF adapters
      <3>2. Listed' = Listed /\ \A k : Heard(k) => Heard(k)'
        BY <3>1 DEF Listed, Heard
      <3> QED BY <3>1, <3>2 DEF AdaptersInv
    <2> QED BY <2>1, <2>2, <2>3, <2>4 DEF AdaptersNext
  <1> QED
    BY <1>1, <1>2, AdaptersInitial, PTL DEF AdaptersSpec

-----------------------------------------------------------------------------
(* Invariant's bitmap: the searches                                          *)

(* A set of integers with a bound has a least, or a greatest, element. *)
LEMMA LeastInteger ==
    ASSUME NEW T \in SUBSET Int, T # {}, NEW b \in Int, \A x \in T : b <= x
    PROVE  Min(T) \in T /\ \A y \in T : Min(T) <= y
  <1> DEFINE R == {x - b : x \in T}
  <1>1. R \in SUBSET Nat /\ R # {}
    <2>1. \A x \in T : x - b \in Nat /\ x - b \in R
      OBVIOUS
    <2>2. \E x : x \in T
      OBVIOUS
    <2> QED BY <2>1, <2>2
  <1>2. PICK r \in R : \A y \in R : r <= y
    BY <1>1, LeastNatural
  <1>3. PICK x \in T : r = x - b
    BY <1>2
  <1>4. \A y \in T : x <= y
    <2> SUFFICES ASSUME NEW y \in T PROVE x <= y
      OBVIOUS
    <2>1. y - b \in R /\ x - b <= y - b
      BY <1>2, <1>3
    <2> QED BY <2>1
  <1>5. Min(T) = x
    BY <1>4, ChosenLeast DEF Min
  <1> QED BY <1>4, <1>5

LEMMA GreatestInteger ==
    ASSUME NEW T \in SUBSET Int, T # {}, NEW b \in Int, \A x \in T : x <= b
    PROVE  Max(T) \in T /\ \A y \in T : y <= Max(T)
  <1> DEFINE R == {b - x : x \in T}
  <1>1. R \in SUBSET Nat /\ R # {}
    <2>1. \A x \in T : b - x \in Nat /\ b - x \in R
      OBVIOUS
    <2>2. \E x : x \in T
      OBVIOUS
    <2> QED BY <2>1, <2>2
  <1>2. PICK r \in R : \A y \in R : r <= y
    BY <1>1, LeastNatural
  <1>3. PICK x \in T : r = b - x
    BY <1>2
  <1>4. \A y \in T : y <= x
    <2> SUFFICES ASSUME NEW y \in T PROVE y <= x
      OBVIOUS
    <2>1. b - y \in R /\ b - x <= b - y
      BY <1>2, <1>3
    <2> QED BY <2>1
  <1>5. \E z \in T : \A y \in T : z >= y
    BY <1>4
  <1>6. Max(T) \in T /\ \A y \in T : Max(T) >= y
    BY <1>5, Zenon DEF Max
  <1> QED BY <1>4, <1>6

LEMMA LeastIs ==
    ASSUME NEW T \in SUBSET Int, NEW c \in T, \A y \in T : c <= y
    PROVE  Min(T) = c
  BY ChosenLeast DEF Min

LEMMA GreatestIs ==
    ASSUME NEW T \in SUBSET Int, NEW c \in T, \A y \in T : y <= c
    PROVE  Max(T) = c
  <1>1. \E z \in T : \A y \in T : z >= y
    OBVIOUS
  <1>2. Max(T) \in T /\ \A y \in T : Max(T) >= y
    BY <1>1, Zenon DEF Max
  <1>3. Max(T) >= c /\ Max(T) <= c /\ Max(T) \in Int
    BY <1>2
  <1> QED BY <1>3

LEMMA LeastOfThree ==
    ASSUME NEW a \in Int, NEW b \in Int, NEW c \in Int
    PROVE  /\ Min({a, b, c}) \in {a, b, c}
           /\ Min({a, b, c}) <= a /\ Min({a, b, c}) <= b /\ Min({a, b, c}) <= c
  <1>1. PICK x \in {a, b, c} : \A y \in {a, b, c} : x <= y
    <2>1. CASE a <= b /\ a <= c
      BY <2>1
    <2>2. CASE b <= a /\ b <= c
      BY <2>2
    <2>3. CASE c <= a /\ c <= b
      BY <2>3
    <2> QED BY <2>1, <2>2, <2>3
  <1>2. Min({a, b, c}) = x
    BY <1>1, LeastIs
  <1> QED BY <1>1, <1>2

LEMMA GreatestOfThree ==
    ASSUME NEW a \in Int, NEW b \in Int, NEW c \in Int
    PROVE  /\ Max({a, b, c}) \in {a, b, c}
           /\ a <= Max({a, b, c}) /\ b <= Max({a, b, c}) /\ c <= Max({a, b, c})
  <1>1. PICK x \in {a, b, c} : \A y \in {a, b, c} : y <= x
    <2>1. CASE b <= a /\ c <= a
      BY <2>1
    <2>2. CASE a <= b /\ c <= b
      BY <2>2
    <2>3. CASE a <= c /\ b <= c
      BY <2>3
    <2> QED BY <2>1, <2>2, <2>3
  <1>2. Max({a, b, c}) = x
    BY <1>1, GreatestIs
  <1> QED BY <1>1, <1>2

(* The search stops at the range, or at the end of the map. *)
LEMMA SearchLimit ==
    ASSUME NEW t \in Int, get_min_tick <= t, t <= get_max_tick
    PROVE  /\ get_search_limit(t, TRUE) \in Int
           /\ t <= get_search_limit(t, TRUE) /\ get_search_limit(t, TRUE) <= t + TICK_SEARCH_RANGE
           /\ get_search_limit(t, TRUE) <= TICK_LIMIT - 1
           /\ get_search_limit(t, FALSE) \in Int
           /\ get_search_limit(t, FALSE) <= t /\ t - TICK_SEARCH_RANGE <= get_search_limit(t, FALSE)
           /\ 1 - TICK_LIMIT <= get_search_limit(t, FALSE)
  <1>1. PICK a, b, r : a = TICK_LIMIT - 1 /\ b = MAX_TICK /\ r = TICK_SEARCH_RANGE
    OBVIOUS
  <1>2. a \in Nat /\ b \in Nat /\ r \in Nat /\ TICK_LIMIT = a + 1
    BY <1>1, InvariantAssumption
  <1>3. t <= a /\ t <= b
    <2>1. get_max_tick = IF a <= b THEN a ELSE b
      BY <1>1, <1>2, MinOfTwo DEF get_max_tick
    <2> QED BY <1>2, <2>1
  <1>4. -a <= t /\ -b <= t
    <2>1. \A y \in {-a, -b} : y <= get_min_tick
      <3>1. get_min_tick = Max({-a, -b})
        BY <1>1, <1>2 DEF get_min_tick
      <3>2. PICK x \in {-a, -b} : \A y \in {-a, -b} : y <= x
        BY <1>2
      <3>3. Max({-a, -b}) = x
        BY <1>2, <3>2, GreatestIs
      <3> QED BY <3>1, <3>2, <3>3
    <2>2. get_min_tick \in Int
      <3>1. get_min_tick = Max({-a, -b})
        BY <1>1, <1>2 DEF get_min_tick
      <3>2. PICK x \in {-a, -b} : \A y \in {-a, -b} : y <= x
        BY <1>2
      <3>3. Max({-a, -b}) = x
        BY <1>2, <3>2, GreatestIs
      <3> QED BY <1>2, <3>1, <3>2, <3>3
    <2> QED BY <1>2, <2>1, <2>2
  <1>5. PICK u : u = get_search_limit(t, TRUE)
    OBVIOUS
  <1>6. u \in {a, t + r, b} /\ u <= a /\ u <= t + r /\ u <= b
    <2>1. u = Min({a, t + r, b})
      BY <1>1, <1>5 DEF get_search_limit
    <2>2. PICK c \in Int : c = t + r
      BY <1>2
    <2>3. u = Min({a, c, b}) /\ a \in Int /\ b \in Int
      BY <1>2, <2>1, <2>2
    <2>4. u \in {a, c, b} /\ u <= a /\ u <= c /\ u <= b
      BY <2>3, LeastOfThree
    <2> QED BY <2>2, <2>4
  <1>7. PICK d : d = get_search_limit(t, FALSE)
    OBVIOUS
  <1>8. d \in {-a, t - r, -b} /\ -a <= d /\ t - r <= d /\ -b <= d
    <2>1. PICK x, y, z : x = 1 - TICK_LIMIT /\ y = t - r /\ z = -b
      OBVIOUS
    <2>2. d = Max({x, y, z})
      BY <1>1, <1>7, <2>1, Zenon DEF get_search_limit
    <2>3. x = -a /\ x \in Int /\ y \in Int /\ z \in Int
      BY <1>2, <2>1
    <2>4. d \in {x, y, z} /\ x <= d /\ y <= d /\ z <= d
      BY <2>2, <2>3, GreatestOfThree
    <2> QED BY <2>1, <2>3, <2>4
  <1>9. u \in Int /\ t <= u
    BY <1>2, <1>3, <1>6
  <1>10. d \in Int /\ d <= t
    BY <1>2, <1>4, <1>8
  <1>11. 1 - TICK_LIMIT = -a
    BY <1>2
  <1> QED BY <1>9, <1>10, <1>11, <1>1, <1>2, <1>3, <1>4, <1>5, <1>6, <1>7, <1>8

LEMMA DivisionKeepsOrder ==
    ASSUME NEW a \in Int, NEW b \in Int, NEW n \in Nat \ {0}, a <= b
    PROVE  a \div n \in Int /\ b \div n \in Int /\ a \div n <= b \div n
  <1>1. PICK p \in Int, q \in Int : /\ p = a \div n /\ n * p <= a /\ a < n * p + n
                                    /\ q = b \div n /\ n * q <= b /\ b < n * q + n
    BY DivisionOfInt
  <1>2. CASE q < p
    <2>1. q + 1 <= p
      BY <1>1, <1>2
    <2>2. n * (q + 1) <= n * p
      BY <1>1, <2>1
    <2>3. n * (q + 1) = n * q + n
      BY <1>1
    <2>4. n * p \in Int /\ n * q \in Int
      BY <1>1
    <2> QED BY <1>1, <2>2, <2>3, <2>4
  <1> QED BY <1>1, <1>2

LEMMA ByteOrder ==
    ASSUME NEW s \in Int, NEW t \in Int
    PROVE  /\ Byte(s) \in Int /\ Byte(t) \in Int
           /\ s <= t => Byte(s) <= Byte(t)
           /\ Byte(s) < Byte(t) => s < t
  <1>1. PICK l, n : l = TICK_LIMIT /\ n = ByteBits /\ l \in Nat /\ n \in Nat \ {0}
    BY InvariantAssumption
  <1>2. PICK a \in Int, b \in Int : a = s + l /\ b = t + l
    BY <1>1
  <1>3. Byte(s) = a \div n /\ Byte(t) = b \div n
    BY <1>1, <1>2 DEF Byte, Position
  <1>4. a <= b => a \div n <= b \div n
    BY <1>1, <1>2, DivisionKeepsOrder
  <1>5. b <= a => b \div n <= a \div n
    BY <1>1, <1>2, DivisionKeepsOrder
  <1>6. a \div n \in Int /\ b \div n \in Int
    BY <1>1, <1>2, DivisionOfInt
  <1> QED BY <1>1, <1>2, <1>3, <1>4, <1>5, <1>6

(* The byte-wise search upward is the search bit by bit. *)
LEMMA NextFound ==
    ASSUME Initialized \subseteq Int, NEW t \in Int, get_search_limit(t, TRUE) \in Int
    PROVE  LET up == {i \in Initialized : t < i /\ i <= get_search_limit(t, TRUE)}
           IN  next_initialized(t) = IF up = {} THEN NoTick ELSE Min(up)
  <1>0. PICK limit \in Int : limit = get_search_limit(t, TRUE)
    OBVIOUS
  <1> DEFINE up == {i \in Initialized : t < i /\ i <= limit}
             hit == {b \in Scanned(t, TRUE) : Bits(b, t, TRUE) # {}}
             found == Min(Bits(Min(hit), t, TRUE))
  <1>1. next_initialized(t) = IF hit = {} THEN NoTick ELSE IF found <= limit THEN found ELSE NoTick
    BY <1>0, Zenon DEF next_initialized
  <1>2. Scanned(t, TRUE) = {Byte(i) : i \in t + 1 .. limit}
    BY <1>0 DEF Scanned
  <1>3. \A b : Bits(b, t, TRUE) = {i \in Initialized : Byte(i) = b /\ i > t}
    BY DEF Bits
  <1>4. hit \subseteq Int /\ \A b \in hit : Byte(t + 1) <= b
    <2>1. ASSUME NEW b \in hit PROVE b \in Int /\ Byte(t + 1) <= b
      <3>1. PICK i \in t + 1 .. limit : b = Byte(i)
        BY <1>2, <2>1
      <3>2. PICK t1 \in Int : t1 = t + 1
        OBVIOUS
      <3>3. i \in Int /\ t1 <= i
        BY <1>0, <3>1, <3>2
      <3>4. Byte(i) \in Int /\ Byte(t1) <= Byte(i)
        BY <3>2, <3>3, ByteOrder
      <3> QED BY <3>1, <3>2, <3>4
    <2> QED BY <2>1
  <1>5. Byte(t + 1) \in Int
    <2>1. PICK t1 \in Int : t1 = t + 1
      OBVIOUS
    <2> QED BY <2>1, ByteOrder
  <1>5a. \A i \in up : i \in Int /\ i \in t + 1 .. limit /\ i \in Initialized /\ i > t
    <2> SUFFICES ASSUME NEW i \in up
                 PROVE  i \in Int /\ i \in t + 1 .. limit /\ i \in Initialized /\ i > t
      OBVIOUS
    <2>1. i \in Initialized /\ i \in Int
      BY Zenon
    <2>2. t < i /\ i <= limit
      OBVIOUS
    <2>3. i \in t + 1 .. limit /\ i > t
      BY ONLY <2>1, <2>2, t \in Int, limit \in Int
    <2> QED BY <2>1, <2>3
  <1>5b. up \in SUBSET Int
    BY <1>5a
  <1> SUFFICES next_initialized(t) = IF up = {} THEN NoTick ELSE Min(up)
    BY <1>0
  <1> HIDE DEF hit, up
  <1>6. CASE hit = {}
    <2>1. up = {}
      <3> SUFFICES ASSUME NEW i \in up PROVE FALSE
        OBVIOUS
      <3>1. i \in Int /\ i \in t + 1 .. limit /\ i \in Initialized /\ i > t
        BY <1>5a
      <3>2. Byte(i) \in Scanned(t, TRUE)
        BY <1>2, <3>1
      <3>3. i \in Bits(Byte(i), t, TRUE)
        BY <1>3, <3>1
      <3> QED BY <1>6, <3>2, <3>3 DEF hit
    <2> QED BY <1>1, <1>6, <2>1
  <1>7. CASE hit # {}
    <2>1. PICK h : h = Min(hit)
      OBVIOUS
    <2>2. h \in hit /\ \A b \in hit : h <= b
      BY <1>4, <1>5, <1>7, <2>1, LeastInteger
    <2>3. PICK T : T = Bits(h, t, TRUE)
      OBVIOUS
    <2>4. T \in SUBSET Int /\ T # {} /\ \A x \in T : t <= x
      <3>1. T = {i \in Initialized : Byte(i) = h /\ i > t}
        BY <1>3, <2>3
      <3>2. T \subseteq Int /\ \A x \in T : x > t
        BY <3>1, Zenon
      <3>3. T # {}
        BY <2>2, <2>3, Zenon DEF hit
      <3> QED BY <3>2, <3>3
    <2>5. PICK f : f = Min(T)
      OBVIOUS
    <2>6. f \in T /\ \A y \in T : f <= y
      BY <2>4, <2>5, LeastInteger
    <2>7. f = found
      BY <2>1, <2>3, <2>5
    <2>8. f \in Initialized /\ Byte(f) = h /\ f > t /\ f \in Int
      BY <1>3, <2>3, <2>4, <2>6
    <2>9. ASSUME NEW i \in up PROVE f <= i
      <3>1. i \in Int /\ i \in t + 1 .. limit /\ i \in Initialized /\ i > t
        BY <1>5a, <2>9
      <3>2. Byte(i) \in Scanned(t, TRUE)
        BY <1>2, <3>1
      <3>3. i \in Bits(Byte(i), t, TRUE)
        BY <1>3, <3>1
      <3>4. Byte(i) \in hit
        BY <3>2, <3>3 DEF hit
      <3>5. h <= Byte(i)
        BY <2>2, <3>4
      <3>6. CASE Byte(i) = h
        <4>1. i \in T
          BY <2>3, <3>3, <3>6
        <4> QED BY <2>6, <4>1
      <3>7. CASE Byte(i) # h
        <4>1. Byte(f) < Byte(i)
          BY <1>4, <2>2, <2>8, <3>1, <3>5, <3>7, ByteOrder
        <4>2. f < i
          BY <2>8, <3>1, <4>1, ByteOrder
        <4> QED BY <2>8, <3>1, <4>2
      <3> QED BY <3>6, <3>7
    <2>10. CASE f <= limit
      <3>1. f \in up
        BY <2>8, <2>10 DEF up
      <3>3. Min(up) = f
        BY <1>5b, <2>9, <3>1, LeastIs
      <3> QED BY <1>1, <1>7, <2>7, <2>10, <3>1, <3>3
    <2>11. CASE ~(f <= limit)
      <3>1. up = {}
        <4> SUFFICES ASSUME NEW i \in up PROVE FALSE
          OBVIOUS
        <4>1. f <= i /\ i <= limit /\ i \in Int
          BY <1>5a, <2>9
        <4>2. f \in Int
          BY <2>8
        <4> QED BY ONLY <2>11, <4>1, <4>2, limit \in Int
      <3> QED BY <1>1, <1>7, <2>7, <2>11, <3>1
    <2> QED BY <2>10, <2>11
  <1> QED BY <1>0, <1>6, <1>7

(* And the one downward, which begins with the tick itself. *)
LEMMA PrevFound ==
    ASSUME Initialized \subseteq Int, NEW t \in Int, get_search_limit(t, FALSE) \in Int
    PROVE  LET down == {i \in Initialized : get_search_limit(t, FALSE) <= i /\ i <= t}
           IN  prev_initialized(t) = IF down = {} THEN NoTick ELSE Max(down)
  <1>0. PICK limit \in Int : limit = get_search_limit(t, FALSE)
    OBVIOUS
  <1> DEFINE down == {i \in Initialized : limit <= i /\ i <= t}
             hit == {b \in Scanned(t, FALSE) : Bits(b, t, FALSE) # {}}
             found == Max(Bits(Max(hit), t, FALSE))
  <1>1. prev_initialized(t) = IF hit = {} THEN NoTick ELSE IF found >= limit THEN found ELSE NoTick
    BY <1>0, Zenon DEF prev_initialized
  <1>2. Scanned(t, FALSE) = {Byte(i) : i \in limit .. t}
    BY <1>0 DEF Scanned
  <1>3. \A b : Bits(b, t, FALSE) = {i \in Initialized : Byte(i) = b /\ i <= t}
    BY DEF Bits
  <1>4. hit \subseteq Int /\ \A b \in hit : b <= Byte(t)
    <2>1. ASSUME NEW b \in hit PROVE b \in Int /\ b <= Byte(t)
      <3>1. PICK i \in limit .. t : b = Byte(i)
        BY <1>2, <2>1
      <3>2. i \in Int /\ i <= t
        BY <1>0, <3>1
      <3> QED BY <3>1, <3>2, ByteOrder
    <2> QED BY <2>1
  <1>5. Byte(t) \in Int
    BY ByteOrder
  <1>5a. \A i \in down : i \in Int /\ i \in limit .. t /\ i \in Initialized /\ i <= t
    <2> SUFFICES ASSUME NEW i \in down
                 PROVE  i \in Int /\ i \in limit .. t /\ i \in Initialized /\ i <= t
      OBVIOUS
    <2>1. i \in Initialized /\ i \in Int
      BY Zenon
    <2>2. limit <= i /\ i <= t
      OBVIOUS
    <2>3. i \in limit .. t /\ i <= t
      BY ONLY <2>1, <2>2, t \in Int, limit \in Int
    <2> QED BY <2>1, <2>3
  <1>5b. down \in SUBSET Int
    BY <1>5a
  <1> SUFFICES prev_initialized(t) = IF down = {} THEN NoTick ELSE Max(down)
    BY <1>0
  <1> HIDE DEF hit, down
  <1>6. CASE hit = {}
    <2>1. down = {}
      <3> SUFFICES ASSUME NEW i \in down PROVE FALSE
        OBVIOUS
      <3>1. i \in Int /\ i \in limit .. t /\ i \in Initialized /\ i <= t
        BY <1>5a
      <3>2. Byte(i) \in Scanned(t, FALSE)
        BY <1>2, <3>1
      <3>3. i \in Bits(Byte(i), t, FALSE)
        BY <1>3, <3>1
      <3> QED BY <1>6, <3>2, <3>3 DEF hit
    <2> QED BY <1>1, <1>6, <2>1
  <1>7. CASE hit # {}
    <2>1. PICK h : h = Max(hit)
      OBVIOUS
    <2>2. h \in hit /\ \A b \in hit : b <= h
      BY <1>4, <1>5, <1>7, <2>1, GreatestInteger
    <2>3. PICK T : T = Bits(h, t, FALSE)
      OBVIOUS
    <2>4. T \in SUBSET Int /\ T # {} /\ \A x \in T : x <= t
      <3>1. T = {i \in Initialized : Byte(i) = h /\ i <= t}
        BY <1>3, <2>3
      <3>2. T \subseteq Int /\ \A x \in T : x <= t
        BY <3>1, Zenon
      <3>3. T # {}
        BY <2>2, <2>3, Zenon DEF hit
      <3> QED BY <3>2, <3>3
    <2>5. PICK f : f = Max(T)
      OBVIOUS
    <2>6. f \in T /\ \A y \in T : y <= f
      BY <2>4, <2>5, GreatestInteger
    <2>7. f = found
      BY <2>1, <2>3, <2>5
    <2>8. f \in Initialized /\ Byte(f) = h /\ f <= t /\ f \in Int
      BY <1>3, <2>3, <2>4, <2>6
    <2>9. ASSUME NEW i \in down PROVE i <= f
      <3>1. i \in Int /\ i \in limit .. t /\ i \in Initialized /\ i <= t
        BY <1>5a, <2>9
      <3>2. Byte(i) \in Scanned(t, FALSE)
        BY <1>2, <3>1
      <3>3. i \in Bits(Byte(i), t, FALSE)
        BY <1>3, <3>1
      <3>4. Byte(i) \in hit
        BY <3>2, <3>3 DEF hit
      <3>5. Byte(i) <= h
        BY <2>2, <3>4
      <3>6. CASE Byte(i) = h
        <4>1. i \in T
          BY <2>3, <3>3, <3>6
        <4> QED BY <2>6, <4>1
      <3>7. CASE Byte(i) # h
        <4>1. Byte(i) < Byte(f)
          BY <1>4, <2>2, <2>8, <3>1, <3>5, <3>7, ByteOrder
        <4>2. i < f
          BY <2>8, <3>1, <4>1, ByteOrder
        <4> QED BY <2>8, <3>1, <4>2
      <3> QED BY <3>6, <3>7
    <2>10. CASE f >= limit
      <3>1. f \in down
        BY <2>8, <2>10 DEF down
      <3>3. Max(down) = f
        BY <1>5b, <2>9, <3>1, GreatestIs
      <3> QED BY <1>1, <1>7, <2>7, <2>10, <3>1, <3>3
    <2>11. CASE ~(f >= limit)
      <3>1. down = {}
        <4> SUFFICES ASSUME NEW i \in down PROVE FALSE
          OBVIOUS
        <4>1. i <= f /\ limit <= i /\ i \in Int
          BY <1>5a, <2>9
        <4>2. f \in Int
          BY <2>8
        <4> QED BY ONLY <2>11, <4>1, <4>2, limit \in Int
      <3> QED BY <1>1, <1>7, <2>7, <2>11, <3>1
    <2> QED BY <2>10, <2>11
  <1> QED BY <1>0, <1>6, <1>7
-----------------------------------------------------------------------------
(* Invariant's bitmap: the slice                                             *)

LEMMA Ends ==
    /\ get_min_tick \in Int /\ get_max_tick \in Int
    /\ 1 - TICK_LIMIT <= get_min_tick /\ get_max_tick <= TICK_LIMIT - 1
    /\ get_min_tick <= 0 /\ 0 <= get_max_tick
  <1>1. PICK l \in Nat, m \in Nat : l = TICK_LIMIT /\ m = MAX_TICK /\ l # 0
    BY InvariantAssumption
  <1>2. PICK a \in Int, b \in Int, c \in Int, d \in Int :
          a = l - 1 /\ b = m /\ c = 1 - l /\ d = -m
    BY <1>1
  <1>3. get_max_tick = Min({a, b}) /\ get_min_tick = Max({c, d})
    BY <1>1, <1>2 DEF get_max_tick, get_min_tick
  <1>4. get_max_tick = IF a <= b THEN a ELSE b
    BY <1>3, MinOfTwo
  <1>5. PICK x \in {c, d} : \A y \in {c, d} : y <= x
    BY <1>2
  <1>6. Max({c, d}) = x
    BY <1>2, <1>5, GreatestIs
  <1> QED BY <1>1, <1>2, <1>3, <1>4, <1>5, <1>6

(* The slice is as long as the crossings may be far, and a byte more. *)
LEMMA SliceSize ==
    ASSUME NEW k \in Nat, k < TICK_CROSSES_PER_IX + MAX_VIRTUAL_CROSS
    PROVE  /\ TICKMAP_SLICE_SIZE \in Nat
           /\ ByteBits * TICKMAP_SLICE_SIZE + ByteBits
                >= k * (TICK_SEARCH_RANGE + 1) + 2 * TICK_SEARCH_RANGE
           /\ ByteBits * TICKMAP_SLICE_SIZE > k * TICK_SEARCH_RANGE + 2 * TICK_SEARCH_RANGE
  <1>1. PICK c \in Nat, b \in Nat, n \in Nat \ {0}, r \in Nat :
          /\ c = TICK_CROSSES_PER_IX + MAX_VIRTUAL_CROSS /\ b = TICKS_BACK_COUNT
          /\ n = ByteBits /\ r = TICK_SEARCH_RANGE
    BY InvariantAssumption
  <1>2. b >= 1 /\ c <= 2 * n + 2 /\ k + 1 <= c
    BY <1>1, SliceAssumption
  <1>3. TICK_CROSSES_PER_IX + TICKS_BACK_COUNT + MAX_VIRTUAL_CROSS = c + b
    BY <1>1, InvariantAssumption
  <1>4. PICK x \in Nat : x = (c + b) * r
    BY <1>1
  <1>5. PICK q \in Int : q = x \div n /\ n * q <= x /\ x < n * q + n /\ q \in Nat
    <2>1. x \div n \in Nat
      BY <1>1, <1>4, DivisionSplits
    <2>2. PICK y \in Int : y = x
      BY <1>4
    <2>3. y \div n \in Int /\ n * (y \div n) <= y /\ y < n * (y \div n) + n
      BY <1>1, DivisionOfInt
    <2> QED BY <2>1, <2>2, <2>3
  <1>6. TICKMAP_SLICE_SIZE = q + 2
    BY <1>1, <1>3, <1>4, <1>5 DEF TICKMAP_SLICE_SIZE
  <1>7. n * (q + 2) = n * q + 2 * n
    BY <1>1, <1>5
  <1>8. (k + 2) * r <= x
    <2>1. k + 2 \in Nat /\ c + b \in Nat /\ k + 2 <= c + b
      BY <1>1, <1>2
    <2> QED BY <1>1, <1>4, <2>1, ProductGrows
  <1>9. (k + 2) * r = k * r + 2 * r /\ k * (r + 1) = k * r + k
    BY <1>1
  <1>10. PICK y \in Int, z \in Int : y = k * r /\ z = n * q
    BY <1>1, <1>5
  <1>11. z + 2 * n + n >= y + k + 2 * r /\ z + 2 * n > y + 2 * r
    <2>1. y + 2 * r <= x /\ x < z + n /\ k <= 2 * n + 1
      BY <1>2, <1>5, <1>8, <1>9, <1>10
    <2>2. n >= 1
      BY <1>1
    <2> QED BY ONLY <2>1, <2>2, n \in Nat, x \in Nat, y \in Int, z \in Int, k \in Nat, r \in Nat
  <1>12. n * TICKMAP_SLICE_SIZE = z + 2 * n
    BY <1>6, <1>7, <1>10
  <1>13. k * (r + 1) = y + k
    BY <1>9, <1>10
  <1> QED BY <1>1, <1>5, <1>6, <1>10, <1>11, <1>12, <1>13

(* A byte is in the slice when it is in the map, at or after the byte wanted    *)
(* and, when the slice begins there, not past its end.                       *)
LEMMA SliceHolds ==
    ASSUME NEW w \in Int, NEW S \in Nat, NEW m \in Int, S <= m,
           NEW n \in Nat \ {0}, NEW p \in Int, 0 <= p, p < n * m, NEW b \in Int,
           b = p \div n, w <= b, p < n * (w + S)
    PROVE  LET first == Min({Max({w, 0}), m - S})
           IN  first <= b /\ b <= first + S - 1
  <1>1. PICK a \in {w, 0} : \A y \in {w, 0} : y <= a
    OBVIOUS
  <1>2. Max({w, 0}) = a
    BY <1>1, GreatestIs
  <1>3. a \in Int /\ w <= a /\ 0 <= a /\ (a = w \/ a = 0)
    BY <1>1
  <1>4. PICK f : f = Min({a, m - S})
    OBVIOUS
  <1>5. f = IF a <= m - S THEN a ELSE m - S
    <2>1. PICK e \in Int : e = m - S
      OBVIOUS
    <2> QED BY <1>3, <1>4, <2>1, MinOfTwo
  <1>6. n * b <= p /\ p < n * b + n
    BY DivisionOfInt
  <1>7. \A c \in Int : p < n * c => b < c
    <2> SUFFICES ASSUME NEW c \in Int, p < n * c, c <= b PROVE FALSE
      OBVIOUS
    <2>1. n * c <= n * b
      OBVIOUS
    <2>2. n * c \in Int /\ n * b \in Int
      OBVIOUS
    <2> QED BY <1>6, <2>1, <2>2
  <1>8. b < m /\ b < w + S
    <2>1. PICK c \in Int : c = w + S
      OBVIOUS
    <2> QED BY <1>7, <2>1
  <1>9. 0 <= b
    <2>1. p < n * (b + 1)
      BY <1>6
    <2>2. b + 1 > 0
      <3> SUFFICES ASSUME b + 1 <= 0 PROVE FALSE
        OBVIOUS
      <3>1. n * (b + 1) <= n * 0
        OBVIOUS
      <3>2. n * 0 = 0 /\ n * (b + 1) \in Int
        OBVIOUS
      <3> QED BY <2>1, <3>1, <3>2
    <2> QED BY <2>2
  <1>10. f <= b /\ b <= f + S - 1
    BY <1>3, <1>5, <1>8, <1>9
  <1> QED BY <1>2, <1>4, <1>10

(* Every byte a search reads is in the slice, as long as crossings are left. *)
LEMMA SliceCovers ==
    ASSUME NEW t0 \in Int, get_min_tick <= t0, t0 <= get_max_tick,
           NEW t \in Int, get_min_tick <= t, t <= get_max_tick,
           NEW k \in Nat, k < TICK_CROSSES_PER_IX + MAX_VIRTUAL_CROSS,
           NEW down \in BOOLEAN,
           IF down THEN t <= t0 /\ t0 - k * (TICK_SEARCH_RANGE + 1) <= t
                   ELSE t0 <= t /\ t <= t0 + k * TICK_SEARCH_RANGE,
           NEW c \in Scanned(t, ~down)
    PROVE  from_slice(t0, down).first <= c /\ c <= from_slice(t0, down).last
  <1>1. PICK n \in Nat \ {0}, r \in Nat, l \in Nat \ {0}, S \in Nat :
          /\ n = ByteBits /\ r = TICK_SEARCH_RANGE /\ l = TICK_LIMIT /\ S = TICKMAP_SLICE_SIZE
    BY InvariantAssumption, SliceSize
  <1>2. PICK m \in Int : m = (2 * l) \div n /\ 2 * l = n * m /\ S <= m
    <2>1. PICK j \in Nat : j = 2 * l
      BY <1>1
    <2>2. j % n = 0 /\ S <= j \div n
      BY <1>1, <2>1, SliceAssumption
    <2>3. j = n * (j \div n) + (j % n) /\ j \div n \in Nat
      BY <1>1, <2>1, DivisionSplits
    <2>4. PICK q \in Nat : q = j \div n
      BY <2>3
    <2>5. PICK y \in Int : y = n * q
      BY <1>1, <2>4
    <2>6. j = y + 0
      BY <2>2, <2>3, <2>4, <2>5
    <2>7. j = n * q
      BY ONLY <2>5, <2>6, y \in Int
    <2>8. q \in Int /\ q = (2 * l) \div n /\ 2 * l = n * q /\ S <= q
      BY <2>1, <2>2, <2>4, <2>7
    <2> QED BY <2>8
  <1>3. PICK kr \in Int, nS \in Int : kr = k * r /\ nS = n * S
    BY <1>1
  <1>4. nS + n >= kr + k + 2 * r /\ nS > kr + 2 * r
    <2>1. k * (r + 1) = kr + k
      BY <1>1, <1>3
    <2> QED BY <1>1, <1>3, <2>1, SliceSize
  <1>5. r >= 2 * n
    BY <1>1, SliceAssumption
  <1>6. 1 - l <= t /\ t <= l - 1 /\ 1 - l <= t0 /\ t0 <= l - 1
    <2>1. /\ get_min_tick \in Int /\ get_max_tick \in Int
          /\ 1 - l <= get_min_tick /\ get_max_tick <= l - 1
      BY <1>1, Ends
    <2> QED BY <1>1, <2>1
  <1>7. PICK off \in Int : off = IF down THEN r - S * n - n ELSE n - r
    <2>1. r - S * n - n \in Int /\ n - r \in Int
      BY <1>1
    <2>2. CASE down
      BY <2>1, <2>2
    <2>3. CASE ~down
      BY <2>1, <2>3
    <2> QED BY <2>2, <2>3
  <1>8. PICK x \in Int, w \in Int : /\ x = t0 + l + off /\ w = x \div n
                                    /\ n * w <= x /\ x < n * w + n
    BY <1>1, <1>7, DivisionOfInt
  <1>9. /\ from_slice(t0, down).first = Min({Max({w, 0}), m - S})
        /\ from_slice(t0, down).last = Min({Max({w, 0}), m - S}) + S - 1
    BY <1>1, <1>2, <1>7, <1>8 DEF from_slice, Position
  <1>10. PICK i \in Int : /\ c = Byte(i) /\ 1 - l <= i /\ i <= l - 1
                          /\ down => i <= t0 /\ t0 - kr - k - r <= i
                          /\ ~down => t0 <= i /\ i <= t0 + kr + r
    <2>1. CASE down
      <3>1. PICK e \in Int : e = get_search_limit(t, FALSE) /\ 1 - l <= e /\ t - r <= e
        BY <1>1, SearchLimit
      <3>2. PICK i \in e .. t : c = Byte(i)
        BY <2>1, <3>1 DEF Scanned
      <3>2a. 1 - l <= e /\ t - r <= e
        BY <3>1
      <3>3. i \in Int /\ e <= i /\ i <= t
        BY ONLY i \in e .. t, e \in Int, t \in Int
      <3>4. k * (r + 1) = kr + k
        BY <1>1, <1>3
      <3>5. t <= t0 /\ t0 - (kr + k) <= t
        BY <1>1, <2>1, <3>4
      <3>6. 1 - l <= i /\ i <= l - 1 /\ i <= t0 /\ t0 - kr - k - r <= i
        BY ONLY <1>6, <3>2a, <3>3, <3>5, t \in Int, t0 \in Int, kr \in Int, k \in Nat,
                e \in Int, r \in Nat, l \in Nat
      <3> QED BY <2>1, <3>2, <3>3, <3>6
    <2>2. CASE ~down
      <3>1. PICK e \in Int : e = get_search_limit(t, TRUE) /\ e <= l - 1 /\ e <= t + r
        BY <1>1, SearchLimit
      <3>2. PICK i \in t + 1 .. e : c = Byte(i)
        BY <2>2, <3>1 DEF Scanned
      <3>2a. e <= l - 1 /\ e <= t + r
        BY <3>1
      <3>3. i \in Int /\ i <= e /\ t + 1 <= i
        BY ONLY i \in t + 1 .. e, e \in Int, t \in Int
      <3>4. t0 <= t /\ t <= t0 + kr
        BY <1>1, <1>3, <2>2
      <3>5. 1 - l <= i /\ i <= l - 1 /\ t0 <= i /\ i <= t0 + kr + r
        BY ONLY <1>6, <3>2a, <3>3, <3>4, t \in Int, t0 \in Int, kr \in Int, r \in Nat,
                e \in Int, l \in Nat
      <3> QED BY <2>2, <3>2, <3>3, <3>5
    <2> QED BY <2>1, <2>2
  <1>11. PICK p \in Int : p = i + l
    BY <1>1, <1>10
  <1>12. 0 <= p /\ p < n * m /\ c = p \div n /\ c \in Int
    <2>1. 0 <= p /\ p < 2 * l
      BY <1>1, <1>10, <1>11
    <2>2. c = p \div n
      BY <1>1, <1>10, <1>11 DEF Byte, Position
    <2>3. c \in Int
      BY <1>1, <1>11, <2>2, DivisionOfInt
    <2> QED BY <1>2, <2>1, <2>2, <2>3
  <1>13. x <= p
    <2>1. CASE down
      <3>1. off = r - nS - n
        BY <1>1, <1>3, <1>7, <2>1
      <3> QED BY <1>1, <1>3, <1>4, <1>8, <1>10, <1>11, <2>1, <3>1
    <2>2. CASE ~down
      <3>1. off = n - r
        BY <1>7, <2>2
      <3> QED BY <1>1, <1>5, <1>8, <1>10, <1>11, <2>2, <3>1
    <2> QED BY <2>1, <2>2
  <1>14. w <= c
    BY <1>1, <1>8, <1>11, <1>12, <1>13, DivisionKeepsOrder
  <1>15. p < n * (w + S)
    <2>1. n * (w + S) = n * w + nS
      BY <1>1, <1>3, <1>8
    <2>2. PICK nw \in Int : nw = n * w
      BY <1>1, <1>8
    <2>3. x < nw + n
      BY <1>8, <2>2
    <2>4. CASE down
      <3>1. off = r - nS - n
        BY <1>1, <1>3, <1>7, <2>4
      <3>2. p <= t0 + l /\ x = t0 + l + r - nS - n
        BY <1>1, <1>3, <1>8, <1>10, <1>11, <2>4, <3>1
      <3>3. p < nw + nS
        BY ONLY <1>5, <2>3, <3>2, n \in Nat, r \in Nat, l \in Nat, t0 \in Int, p \in Int,
                x \in Int, nw \in Int, nS \in Int
      <3> QED BY <2>1, <2>2, <3>3
    <2>5. CASE ~down
      <3>1. p <= t0 + l + kr + r /\ x = t0 + l + n - r
        BY <1>1, <1>3, <1>7, <1>8, <1>10, <1>11, <2>5
      <3>2. p < nw + nS
        BY ONLY <1>4, <2>3, <3>1, n \in Nat, r \in Nat, l \in Nat, t0 \in Int, p \in Int,
                x \in Int, nw \in Int, nS \in Int, kr \in Int
      <3> QED BY <2>1, <2>2, <3>2
    <2> QED BY <2>4, <2>5
  <1>16. LET first == Min({Max({w, 0}), m - S}) IN first <= c /\ c <= first + S - 1
    BY <1>1, <1>2, <1>8, <1>11, <1>12, <1>14, <1>15, SliceHolds
  <1> QED BY <1>9, <1>16
-----------------------------------------------------------------------------
(* Invariant's pool: its liquidity                                           *)

LEMMA SumNonNegative ==
    ASSUME NEW S, IsFiniteSet(S), NEW f \in [S -> Nat]
    PROVE  Sum(f, S) \in Nat
  <1> DEFINE F == CHOOSE g : IsSum(g, f, S)
  <1>1. IsSum(F, f, S)
    <2>1. f \in [S -> Int]
      OBVIOUS
    <2> QED BY <2>1, SumExists
  <1>2. Sum(f, S) = F[S]
    BY DEF Sum, MapThenSumSet, MapThenFoldSet, IsSum, First
  <1> HIDE DEF F
  <1> DEFINE C == {W \in SUBSET S : F[W] \notin Nat}
  <1> SUFFICES ASSUME C # {} PROVE FALSE
    BY <1>2
  <1>3. PICK W \in C : \A U \in C : U \subseteq W => U = W
    <2> HIDE DEF C
    <2>1. C \in SUBSET SUBSET S
      BY DEF C
    <2> QED BY <2>1, MinimalSubset
  <1>4. \A U : U \subseteq S => F[U] = IF U = {} THEN 0 ELSE f[First(U)] + F[U \ {First(U)}]
    BY <1>1 DEF IsSum
  <1>5. W # {}
    <2>1. F[{}] = 0
      BY <1>4
    <2> QED BY <2>1
  <1>6. PICK x : x = First(W)
    OBVIOUS
  <1>7. x \in W /\ F[W] = f[x] + F[W \ {x}]
    BY <1>3, <1>4, <1>5, <1>6 DEF First
  <1>8. F[W \ {x}] \in Nat
    BY <1>3, <1>7
  <1>9. f[x] \in Nat
    BY <1>3, <1>7
  <1> QED BY <1>3, <1>7, <1>8, <1>9

LEMMA SumOfIsSum ==
    ASSUME NEW ps
    PROVE  SumOf(ps) = Sum([p \in ps |-> p.liquidity], ps)
  BY Zenon DEF SumOf, Sum

LEMMA LiquidityIsNatural ==
    ASSUME positions \in Positions, NEW ps \in SUBSET positions
    PROVE  SumOf(ps) \in Nat
  <1>1. IsFiniteSet(ps)
    BY InvariantAssumption, FS_Subset
  <1>2. \A p \in ps : p.liquidity \in Nat
    BY InvariantAssumption
  <1>3. [p \in ps |-> p.liquidity] \in [ps -> Nat]
    BY <1>2
  <1> QED BY <1>1, <1>3, SumNonNegative, SumOfIsSum

LEMMA TickLiquidity ==
    ASSUME positions \in Positions, NEW t
    PROVE  LiquidityAt(t) \in Nat /\ Net(t) \in Int
  <1>1. SumOf({p \in positions : p.lower <= t /\ t < p.upper}) \in Nat
    BY LiquidityIsNatural
  <1>2. SumOf({p \in positions : p.lower = t}) \in Nat
    BY LiquidityIsNatural
  <1>3. SumOf({p \in positions : p.upper = t}) \in Nat
    BY LiquidityIsNatural
  <1> QED BY <1>1, <1>2, <1>3 DEF LiquidityAt, Net

LEMMA InitializedTicks ==
    ASSUME positions \in Positions
    PROVE  Initialized \subseteq Int
  BY InvariantAssumption DEF Initialized
-----------------------------------------------------------------------------
(* Invariant's simulation: where a step may take the pool                    *)

(* After k crossings from tick t0 the pool is at tick t and price p.  Going down
   the price may be on the upper edge of its tick, which then was crossed. *)
Travelled(t0, t, p, k, down) ==
    IF down THEN /\ t <= t0 /\ t0 - k * (TICK_SEARCH_RANGE + 1) <= t
                 /\ t * PerTick <= p /\ p <= (t + 1) * PerTick
                 /\ p = (t + 1) * PerTick => t + 1 <= t0
            ELSE /\ t0 <= t /\ t <= t0 + k * TICK_SEARCH_RANGE
                 /\ t * PerTick <= p /\ p < (t + 1) * PerTick

(* A step from tick t may end at tick e. *)
StepEnd(t, e, down) ==
    IF down THEN e <= t /\ t - TICK_SEARCH_RANGE <= e
            ELSE t < e /\ e <= t + TICK_SEARCH_RANGE

LEMMA TickOfPrice ==
    ASSUME NEW p \in Int, NEW e \in Int
    PROVE  /\ get_tick_at_sqrt_price(p) \in Int
           /\ e * PerTick <= p => e <= get_tick_at_sqrt_price(p)
           /\ p < e * PerTick => get_tick_at_sqrt_price(p) < e
           /\ p <= e * PerTick => get_tick_at_sqrt_price(p) <= e
           /\ get_tick_at_sqrt_price(p) * PerTick <= p
           /\ p < (get_tick_at_sqrt_price(p) + 1) * PerTick
  <1>1. PICK n \in Nat \ {0} : n = PerTick
    BY InvariantAssumption
  <1>2. PICK q \in Int : q = p \div n /\ n * q <= p /\ p < n * q + n
    BY DivisionOfInt
  <1>3. get_tick_at_sqrt_price(p) = q
    BY <1>1, <1>2 DEF get_tick_at_sqrt_price
  <1>4. e * n = n * e /\ q * n = n * q /\ (q + 1) * n = n * q + n /\ n * (q + 1) = n * q + n
    BY <1>1, <1>2
  <1>5. n * e \in Int /\ n * q \in Int
    BY <1>1, <1>2
  <1>6. ASSUME n * e <= p PROVE e <= q
    <2> SUFFICES ASSUME q + 1 <= e PROVE FALSE
      BY <1>2
    <2>1. n * (q + 1) <= n * e
      BY <1>2
    <2> QED BY <1>2, <1>4, <1>5, <1>6, <2>1
  <1>7. ASSUME p <= n * e PROVE q <= e
    <2> SUFFICES ASSUME e + 1 <= q PROVE FALSE
      BY <1>2
    <2>1. n * (e + 1) <= n * q /\ n * (e + 1) = n * e + n
      BY <1>2
    <2> QED BY <1>2, <1>4, <1>5, <1>7, <2>1
  <1>8. ASSUME p < n * e PROVE q < e
    <2> SUFFICES ASSUME e <= q PROVE FALSE
      BY <1>2
    <2>1. n * e <= n * q
      BY <1>2
    <2> QED BY <1>2, <1>4, <1>5, <1>8, <2>1
  <1> QED BY <1>1, <1>2, <1>3, <1>4, <1>6, <1>7, <1>8

(* A step that ends on a tick. *)
LEMMA TravelsToTick ==
    ASSUME NEW t0 \in Int, NEW t \in Int, NEW p \in Int, NEW k \in Nat, NEW down \in BOOLEAN,
           Travelled(t0, t, p, k, down), NEW e \in Int, StepEnd(t, e, down)
    PROVE  /\ Travelled(t0, e, e * PerTick, k + 1, down)
           /\ down => Travelled(t0, e - 1, e * PerTick, k + 1, down)
  <1>1. PICK n \in Nat \ {0}, r \in Nat : n = PerTick /\ r = TICK_SEARCH_RANGE
    BY InvariantAssumption
  <1>2. PICK a \in Int, b \in Int : a = k * (r + 1) /\ b = k * r
    BY <1>1
  <1>3. (k + 1) * (r + 1) = a + r + 1 /\ (k + 1) * r = b + r
    BY <1>1, <1>2
  <1>4. PICK en \in Int : en = e * n
    BY <1>1
  <1>5. (e + 1) * n = en + n /\ (e - 1) * n = en - n /\ (e - 1) + 1 = e
    BY <1>1, <1>4
  <1>6. CASE down
    <2>1. t <= t0 /\ t0 - a <= t
      BY <1>1, <1>2, <1>6 DEF Travelled
    <2>2. e <= t /\ t - r <= e
      BY <1>1, <1>6 DEF StepEnd
    <2>3. /\ e <= t0 /\ t0 - (a + r + 1) <= e /\ t0 - (a + r + 1) <= e - 1 /\ e - 1 <= t0
      BY ONLY <2>1, <2>2, t0 \in Int, t \in Int, e \in Int, a \in Int, r \in Nat
    <2>4. en <= en /\ en <= en + n /\ en # en + n /\ en - n <= en
      BY <1>1, <1>4
    <2>5. Travelled(t0, e, e * PerTick, k + 1, down)
      BY <1>1, <1>3, <1>4, <1>5, <1>6, <2>3, <2>4 DEF Travelled
    <2>6. Travelled(t0, e - 1, e * PerTick, k + 1, down)
      BY <1>1, <1>3, <1>4, <1>5, <1>6, <2>3, <2>4 DEF Travelled
    <2> QED BY <2>5, <2>6
  <1>7. CASE ~down
    <2>1. t0 <= t /\ t <= t0 + b
      BY <1>1, <1>2, <1>7 DEF Travelled
    <2>2. t < e /\ e <= t + r
      BY <1>1, <1>7 DEF StepEnd
    <2>3. t0 <= e /\ e <= t0 + (b + r)
      BY ONLY <2>1, <2>2, t0 \in Int, t \in Int, e \in Int, b \in Int, r \in Nat
    <2>4. en <= en /\ en < en + n
      BY <1>1, <1>4
    <2> QED BY <1>1, <1>3, <1>4, <1>5, <1>7, <2>3, <2>4 DEF Travelled
  <1> QED BY <1>6, <1>7

(* A step that ends between the price and that tick. *)
LEMMA TravelsBetween ==
    ASSUME NEW t0 \in Int, NEW t \in Int, NEW p \in Int, NEW k \in Nat, NEW down \in BOOLEAN,
           Travelled(t0, t, p, k, down), NEW e \in Int, StepEnd(t, e, down),
           NEW q \in Int, IF down THEN e * PerTick <= q /\ q <= p
                                  ELSE p <= q /\ q <= e * PerTick
    PROVE  LET u == get_tick_at_sqrt_price(q)
           IN  /\ u \in Int /\ Travelled(t0, u, q, k + 1, down)
               /\ IF down THEN e <= u /\ u <= t0 ELSE t0 <= u /\ u <= e
  <1>1. PICK n \in Nat \ {0}, r \in Nat : n = PerTick /\ r = TICK_SEARCH_RANGE
    BY InvariantAssumption
  <1>2. PICK a \in Int, b \in Int : a = k * (r + 1) /\ b = k * r
    BY <1>1
  <1>3. (k + 1) * (r + 1) = a + r + 1 /\ (k + 1) * r = b + r
    BY <1>1, <1>2
  <1>4. PICK u \in Int : u = get_tick_at_sqrt_price(q)
    BY TickOfPrice
  <1>5. PICK un \in Int, vn \in Int : un = u * n /\ vn = (u + 1) * n
    BY <1>1, <1>4
  <1>6. un <= q /\ q < vn
    BY <1>1, <1>4, <1>5, TickOfPrice
  <1>7. CASE down
    <2>1. /\ t <= t0 /\ t0 - a <= t /\ p <= (t + 1) * n
          /\ p = (t + 1) * n => t + 1 <= t0
      BY <1>1, <1>2, <1>7 DEF Travelled
    <2>2. e <= t /\ t - r <= e
      BY <1>1, <1>7 DEF StepEnd
    <2>3. e <= u
      BY <1>4, <1>7, TickOfPrice
    <2>4. PICK f \in Int, fn \in Int : f = t + 1 /\ fn = f * n
      BY <1>1
    <2>5. q <= p /\ p <= fn /\ (p = fn => f <= t0)
      BY <1>7, <2>1, <2>4
    <2>6. u <= t0
      <3>1. CASE q = fn
        <4>1. p = fn /\ q <= f * PerTick
          BY <1>1, <2>4, <2>5, <3>1
        <4>2. u <= f
          BY <1>4, <2>4, <4>1, TickOfPrice
        <4> QED BY <2>4, <2>5, <4>1, <4>2
      <3>2. CASE q # fn
        <4>1. q < fn
          BY <2>4, <2>5, <3>2
        <4>2. q < f * PerTick
          BY <1>1, <2>4, <4>1
        <4>3. u < f
          BY <1>4, <2>4, <4>2, TickOfPrice
        <4> QED BY <1>4, <2>1, <2>4, <4>3
      <3> QED BY <3>1, <3>2
    <2>7. t0 - (a + r + 1) <= u
      BY ONLY <2>1, <2>2, <2>3, t0 \in Int, t \in Int, e \in Int, a \in Int, r \in Nat, u \in Int
    <2>8. q <= vn /\ q # vn
      BY <1>5, <1>6
    <2>9. Travelled(t0, u, q, k + 1, down)
      BY <1>1, <1>3, <1>5, <1>6, <1>7, <2>6, <2>7, <2>8 DEF Travelled
    <2> QED BY <1>4, <1>7, <2>3, <2>6, <2>9
  <1>8. CASE ~down
    <2>1. t0 <= t /\ t <= t0 + b /\ t * n <= p
      BY <1>1, <1>2, <1>8 DEF Travelled
    <2>2. t < e /\ e <= t + r
      BY <1>1, <1>8 DEF StepEnd
    <2>3. u <= e
      BY <1>4, <1>8, TickOfPrice
    <2>4. t <= u
      <3>1. PICK tn \in Int : tn = t * n
        BY <1>1
      <3>2. tn <= p /\ p <= q
        BY <1>8, <2>1, <3>1
      <3>3. t * PerTick <= q
        BY <1>1, <3>1, <3>2
      <3> QED BY <1>4, <3>3, TickOfPrice
    <2>5. t0 <= u /\ u <= t0 + (b + r)
      BY ONLY <2>1, <2>2, <2>3, <2>4, t0 \in Int, t \in Int, e \in Int, b \in Int, r \in Nat, u \in Int
    <2>6. Travelled(t0, u, q, k + 1, down)
      BY <1>1, <1>3, <1>5, <1>6, <1>8, <2>5 DEF Travelled
    <2> QED BY <1>4, <1>8, <2>3, <2>5, <2>6
  <1> QED BY <1>7, <1>8

LEMMA LimitAbove ==
    ASSUME NEW t \in Int, t < get_max_tick
    PROVE  t < get_search_limit(t, TRUE)
  <1>1. PICK a \in Int, b \in Int, r \in Nat :
          a = TICK_LIMIT - 1 /\ b = MAX_TICK /\ r = TICK_SEARCH_RANGE /\ r # 0
    BY InvariantAssumption
  <1>2. get_max_tick = IF a <= b THEN a ELSE b
    BY <1>1, MinOfTwo DEF get_max_tick
  <1>3. PICK c \in Int : c = t + r
    BY <1>1
  <1>4. get_search_limit(t, TRUE) = Min({a, c, b})
    BY <1>1, <1>3 DEF get_search_limit
  <1>5. Min({a, c, b}) \in {a, c, b}
    BY <1>1, <1>3, LeastOfThree
  <1>6. t < a /\ t < b /\ t < c
    BY <1>1, <1>2, <1>3
  <1> QED BY <1>4, <1>5, <1>6

(* get_closer_limit: a tick of the map, ahead of the current one and in range. *)
LEMMA CloserLimit ==
    ASSUME positions \in Positions, x_to_y \in BOOLEAN,
           NEW t \in Int, get_min_tick <= t, t <= get_max_tick,
           x_to_y \/ t < get_max_tick
    PROVE  \E e \in Int :
              /\ get_min_tick <= e /\ e <= get_max_tick /\ StepEnd(t, e, x_to_y)
              /\ get_closer_limit(t).price = e * PerTick
              /\ get_closer_limit(t).tick # NoTick =>
                   /\ get_closer_limit(t).tick = e
                   /\ x_to_y => get_min_tick < e
  <1>1. PICK mn \in Int, mx \in Int, r \in Nat :
          mn = get_min_tick /\ mx = get_max_tick /\ r = TICK_SEARCH_RANGE /\ r # 0
    BY Ends, InvariantAssumption
  <1>2. mn <= t /\ t <= mx /\ Initialized \subseteq Int
    BY <1>1, InitializedTicks
  <1>3. CASE x_to_y
    <2>1. PICK lim \in Int : lim = get_search_limit(t, FALSE) /\ lim <= t /\ t - r <= lim
      BY <1>1, SearchLimit
    <2>2. PICK found : found = prev_initialized(t)
      OBVIOUS
    <2>3. found = NoTick \/ (found \in Int /\ lim <= found /\ found <= t)
      <3> DEFINE D == {i \in Initialized : lim <= i /\ i <= t}
      <3>1. found = IF D = {} THEN NoTick ELSE Max(D)
        BY <1>2, <2>1, <2>2, PrevFound
      <3>2. D \in SUBSET Int /\ \A x \in D : x <= t
        BY <1>2
      <3>3. D # {} => Max(D) \in D
        <4> HIDE DEF D
        <4> QED BY <3>2, GreatestInteger
      <3> QED BY <3>1, <3>2, <3>3
    <2>4. PICK index \in Int : /\ index = IF found # NoTick THEN found ELSE lim
                               /\ index <= t /\ t - r <= index
      <3>1. lim <= t /\ t - r <= lim
        BY <2>1
      <3>2. CASE found = NoTick
        BY <3>1, <3>2
      <3>3. CASE found # NoTick
        <4>1. found \in Int /\ lim <= found /\ found <= t
          BY <2>3, <3>3
        <4>2. t - r <= found
          BY ONLY <3>1, <4>1, t \in Int, r \in Nat, lim \in Int
        <4> QED BY <3>3, <4>1, <4>2
      <3> QED BY <3>2, <3>3
    <2>5. PICK e \in Int : e = IF index > mn THEN index ELSE mn
      BY <2>4
    <2>6. mn <= e /\ e <= t /\ t - r <= e /\ e <= mx
      BY <1>1, <1>2, <2>4, <2>5
    <2>7. /\ get_closer_limit(t).price = e * PerTick
          /\ get_closer_limit(t).tick = IF index > mn THEN index ELSE NoTick
      BY <1>1, <1>3, <2>1, <2>2, <2>4, <2>5 DEF get_closer_limit, calculate_price_sqrt
    <2>8. StepEnd(t, e, x_to_y)
      BY <1>1, <1>3, <2>6 DEF StepEnd
    <2> QED BY <1>1, <2>5, <2>6, <2>7, <2>8
  <1>4. CASE ~x_to_y
    <2>1. PICK lim \in Int : lim = get_search_limit(t, TRUE) /\ t <= lim /\ lim <= t + r
      BY <1>1, SearchLimit
    <2>2. PICK found : found = next_initialized(t)
      OBVIOUS
    <2>3. found = NoTick \/ (found \in Int /\ t < found /\ found <= lim)
      <3> DEFINE D == {i \in Initialized : t < i /\ i <= lim}
      <3>1. found = IF D = {} THEN NoTick ELSE Min(D)
        BY <1>2, <2>1, <2>2, NextFound
      <3>2. D \in SUBSET Int /\ \A x \in D : t <= x
        <4>1. ASSUME NEW x \in D PROVE x \in Int /\ t <= x
          <5>1. x \in Int
            BY <1>2
          <5>2. t < x
            BY <4>1
          <5> QED BY ONLY <5>1, <5>2, t \in Int
        <4> QED BY <4>1
      <3>3. D # {} => Min(D) \in D
        <4> HIDE DEF D
        <4> QED BY <3>2, LeastInteger
      <3> QED BY <3>1, <3>2, <3>3
    <2>4. lim > t
      BY <1>1, <1>4, <2>1, LimitAbove
    <2>5. PICK index \in Int : /\ index = IF found # NoTick THEN found ELSE lim
                               /\ t < index /\ index <= t + r
      <3>1. t < lim /\ lim <= t + r
        BY <2>1, <2>4
      <3>2. CASE found = NoTick
        BY <3>1, <3>2
      <3>3. CASE found # NoTick
        <4>1. found \in Int /\ t < found /\ found <= lim
          BY <2>3, <3>3
        <4>2. found <= t + r
          BY ONLY <3>1, <4>1, t \in Int, r \in Nat, lim \in Int
        <4> QED BY <3>3, <4>1, <4>2
      <3> QED BY <3>2, <3>3
    <2>6. PICK e \in Int : e = IF index < mx THEN index ELSE mx
      BY <2>5
    <2>7. t < mx
      BY <1>1, <1>4
    <2>8. mn <= e /\ e <= mx /\ t < e /\ e <= t + r
      BY <1>1, <1>2, <2>5, <2>6, <2>7
    <2>9. /\ get_closer_limit(t).price = e * PerTick
          /\ get_closer_limit(t).tick = IF index < mx THEN index ELSE NoTick
      BY <1>1, <1>4, <2>1, <2>2, <2>5, <2>6 DEF get_closer_limit, calculate_price_sqrt
    <2>10. StepEnd(t, e, x_to_y)
      BY <1>1, <1>4, <2>8 DEF StepEnd
    <2> QED BY <1>1, <1>4, <2>6, <2>8, <2>9, <2>10
  <1> QED BY <1>3, <1>4

(* compute_swap_step does not pass its target. *)
LEMMA StepStaysShort ==
    ASSUME x_to_y \in BOOLEAN, NEW p \in Int, NEW g \in Int, NEW L \in Nat,
           NEW a \in Nat, IF x_to_y THEN g <= p ELSE p <= g
    PROVE  LET step == compute_swap_step(p, g, L, a)
           IN  /\ step.price \in Int /\ step.in \in Int /\ step.fee \in Int
               /\ IF x_to_y THEN g <= step.price /\ step.price <= p
                            ELSE p <= step.price /\ step.price <= g
  <1>0. PICK step : step = compute_swap_step(p, g, L, a)
    OBVIOUS
  <1>1. CASE L = 0
    <2>1. step.price = g /\ step.in = 0 /\ step.fee = 0
      BY <1>0, <1>1 DEF compute_swap_step
    <2> QED BY <1>0, <2>1
  <1>2. CASE L # 0
    <2>1. PICK fn \in Nat, fd \in Nat \ {0} : fn = FeeNum /\ fd = FeeDen /\ fn < fd
      BY InvariantAssumption
    <2>2. PICK m \in Nat : m = fd - fn
      BY <2>1
    <2>3. PICK x \in Nat : x = a * m
      BY <2>2
    <2>4. PICK A \in Nat : A = AfterFee(a)
      <3>1. x \div fd \in Nat
        BY <2>1, <2>3, DivisionSplits
      <3> QED BY <2>1, <2>2, <2>3, <3>1 DEF AfterFee
    <2>5. PICK d \in Nat : d = Distance(p, g) /\ d = IF x_to_y THEN p - g ELSE g - p
      <3>1. CASE x_to_y
        <4>1. g <= p
          BY <3>1
        <4>2. p - g \in Nat /\ Distance(p, g) = p - g
          BY <4>1 DEF Distance
        <4> QED BY <3>1, <4>2
      <3>2. CASE ~x_to_y
        <4>1. p <= g
          BY <3>2
        <4>2. g - p \in Nat /\ Distance(p, g) = g - p
          BY <4>1 DEF Distance
        <4> QED BY <3>2, <4>2
      <3> QED BY <3>1, <3>2
    <2>6. PICK D \in Nat : D = A \div L
      BY <1>2, <2>4, DivisionSplits
    <2>7. A < L * d => D < d
      <3>1. L * D <= A
        <4>1. PICK s \in Nat : s = A % L
          BY <1>2, <2>4, DivisionSplits
        <4>2. PICK y \in Nat : y = L * D
          BY <2>6
        <4>3. A = y + s
          BY <1>2, <2>4, <2>6, <4>1, <4>2, DivisionSplits
        <4> QED BY <2>4, <4>1, <4>2, <4>3
      <3> SUFFICES ASSUME A < L * d, d <= D PROVE FALSE
        BY <2>5, <2>6
      <3>2. L * d <= L * D /\ L * d \in Nat /\ L * D \in Nat
        BY <2>5, <2>6, ProductGrows
      <3> QED BY <2>4, <3>1, <3>2
    <2>8. PICK to \in Int :
            /\ to = IF A >= L * d THEN g ELSE IF x_to_y THEN p - D ELSE p + D
            /\ IF x_to_y THEN g <= to /\ to <= p ELSE p <= to /\ to <= g
      <3>1. CASE A >= L * d
        BY <3>1
      <3>2. CASE ~(A >= L * d)
        <4>1. L * d \in Nat
          BY <2>5
        <4>2. D < d
          BY <2>4, <2>7, <3>2, <4>1
        <4>3. CASE x_to_y
          <5>1. d = p - g
            BY <2>5, <4>3
          <5>2. p - D \in Int /\ g <= p - D /\ p - D <= p
            BY ONLY <4>2, <5>1, p \in Int, g \in Int, d \in Nat, D \in Nat
          <5> QED BY <3>2, <4>3, <5>2
        <4>4. CASE ~x_to_y
          <5>1. d = g - p
            BY <2>5, <4>4
          <5>2. p + D \in Int /\ p <= p + D /\ p + D <= g
            BY ONLY <4>2, <5>1, p \in Int, g \in Int, d \in Nat, D \in Nat
          <5> QED BY <3>2, <4>4, <5>2
        <4> QED BY <4>3, <4>4
      <3> QED BY <3>1, <3>2
    <2>9. PICK in \in Int : in = L * Distance(p, to)
      <3>1. Distance(p, to) \in Int
        BY <2>8 DEF Distance
      <3> QED BY <3>1
    <2>10. PICK c \in Int : c = CeilDivide(in * fn, fd)
      <3>1. PICK z \in Int : z = in * fn + fd - 1
        BY <2>1, <2>9
      <3>2. z \div fd \in Int
        BY <2>1, <3>1, DivisionOfInt
      <3> QED BY <3>1, <3>2 DEF CeilDivide
    <2>11. /\ step.price = to /\ step.in = in
           /\ step.fee = IF to # g THEN a - in ELSE c
      <3>1. get_next_sqrt_price_from_input(p, L, A) = IF x_to_y THEN p - D ELSE p + D
        BY <2>6 DEF get_next_sqrt_price_from_input, get_next_sqrt_price_x_up,
                    get_next_sqrt_price_y_down
      <3> QED BY <1>0, <1>2, <2>1, <2>4, <2>5, <2>8, <2>9, <2>10, <3>1 DEF compute_swap_step
    <2> QED BY <1>0, <2>8, <2>9, <2>10, <2>11
  <1> QED BY <1>1, <1>2

-----------------------------------------------------------------------------
(* Invariant's simulation: the slice holds what is searched                  *)

Crossings == Len(used_ticks) + virtual_cross_counter

InPlace ==
    /\ positions \in Positions /\ x_to_y \in BOOLEAN
    /\ pool \in [price : Int, tick : Int, liquidity : Int]
    /\ get_min_tick <= pool.tick /\ pool.tick <= get_max_tick
    /\ used_ticks \in Seq(Int) /\ virtual_cross_counter \in Nat /\ remaining \in Int

(* The slice was taken at t0, and the pool is where its crossings may have
   taken it from there. *)
CameFrom(t0) ==
    /\ get_min_tick <= t0 /\ t0 <= get_max_tick
    /\ view = from_slice(t0, x_to_y)
    /\ Travelled(t0, pool.tick, pool.price, Crossings, x_to_y)

SearchInv ==
    /\ InPlace
    /\ pc = "load" => /\ pool.tick = get_tick_at_sqrt_price(pool.price)
                      /\ pool.liquidity >= 0 /\ Crossings = 0
    /\ pc = "swap" => pool.liquidity >= 0 /\ \E t0 \in Int : CameFrom(t0)
    /\ pc = "panic" => Crossings >= TICK_CROSSES_PER_IX + MAX_VIRTUAL_CROSS

LEMMA SearchInit ==
    ASSUME InvariantInit
    PROVE  SearchInv
  <1>1. PICK p \in Prices : pool = [price |-> p, tick |-> get_tick_at_sqrt_price(p),
                                    liquidity |-> LiquidityAt(get_tick_at_sqrt_price(p))]
    BY DEF InvariantInit
  <1>2. /\ positions \in Positions /\ x_to_y \in BOOLEAN /\ amount \in Amounts
        /\ remaining = amount /\ used_ticks = <<>> /\ virtual_cross_counter = 0 /\ pc = "load"
    BY DEF InvariantInit
  <1>3. PICK t : t = get_tick_at_sqrt_price(p)
    OBVIOUS
  <1>4. t \in get_min_tick .. get_max_tick /\ get_min_tick \in Int /\ get_max_tick \in Int
    BY <1>3, SliceAssumption, Ends
  <1>5. t \in Int /\ get_min_tick <= t /\ t <= get_max_tick
    BY <1>4
  <1>6. LiquidityAt(t) \in Nat
    BY <1>2, TickLiquidity
  <1>7. p \in Int /\ amount \in Int
    BY <1>2, InvariantAssumption
  <1>8. pool = [price |-> p, tick |-> t, liquidity |-> LiquidityAt(t)]
    BY <1>1, <1>3
  <1>9. used_ticks \in Seq(Int) /\ Crossings = 0
    BY <1>2 DEF Crossings
  <1>10. InPlace
    BY <1>2, <1>5, <1>6, <1>7, <1>8, <1>9 DEF InPlace
  <1> QED BY <1>2, <1>3, <1>6, <1>8, <1>9, <1>10 DEF SearchInv

LEMMA SearchLoad ==
    ASSUME SearchInv, Load
    PROVE  SearchInv'
  <1>1. /\ pc = "load" /\ view' = from_slice(pool.tick, x_to_y) /\ pc' = "swap"
        /\ UNCHANGED <<chain, pool, remaining, used_ticks, virtual_cross_counter>>
    BY DEF Load
  <1>2. /\ InPlace /\ pool.tick = get_tick_at_sqrt_price(pool.price)
        /\ pool.liquidity >= 0 /\ Crossings = 0
    BY <1>1 DEF SearchInv
  <1>3. InPlace'
    BY <1>1, <1>2 DEF InPlace, chain
  <1>4. PICK t \in Int, p \in Int : t = pool.tick /\ p = pool.price
    BY <1>2 DEF InPlace
  <1>5. Travelled(t, t, p, 0, x_to_y)
    <2>1. PICK n \in Nat \ {0}, r \in Nat : n = PerTick /\ r = TICK_SEARCH_RANGE
      BY InvariantAssumption
    <2>2. t * PerTick <= p /\ p < (t + 1) * PerTick
      BY <1>2, <1>4, TickOfPrice
    <2>3. PICK a \in Int, b \in Int : a = t * n /\ b = (t + 1) * n
      BY <2>1
    <2>4. a <= p /\ p <= b /\ p # b /\ p < b
      BY <2>1, <2>2, <2>3
    <2>5. 0 * (r + 1) = 0 /\ 0 * r = 0 /\ t <= t /\ t - 0 <= t /\ t <= t + 0
      BY <2>1
    <2> QED BY <2>1, <2>3, <2>4, <2>5 DEF Travelled
  <1>6. Crossings' = 0 /\ x_to_y' = x_to_y /\ pool' = pool
    BY <1>1, <1>2 DEF Crossings, chain
  <1>7. CameFrom(t)'
    BY <1>1, <1>2, <1>4, <1>5, <1>6 DEF CameFrom, InPlace
  <1> QED BY <1>1, <1>2, <1>3, <1>6, <1>7 DEF SearchInv

(* A read outside of the slice takes more crossings than are allowed. *)
LEMMA SearchReadOutside ==
    ASSUME SearchInv, ReadOutside
    PROVE  SearchInv'
  <1>1. /\ pc = "swap" /\ ~Readable /\ pc' = "panic"
        /\ UNCHANGED <<chain, edge, pool, remaining, used_ticks, virtual_cross_counter>>
    BY DEF ReadOutside, Looping
  <1>2. InPlace /\ \E t0 \in Int : CameFrom(t0)
    BY <1>1 DEF SearchInv
  <1>3. PICK t0 \in Int : CameFrom(t0)
    BY <1>2
  <1>4. PICK c \in Scanned(pool.tick, ~x_to_y) : ~(view.first <= c /\ c <= view.last)
    BY <1>1 DEF Readable
  <1>5. PICK t \in Int : t = pool.tick /\ get_min_tick <= t /\ t <= get_max_tick
    BY <1>2 DEF InPlace
  <1>6. PICK k \in Nat : k = Crossings
    BY <1>2 DEF InPlace, Crossings
  <1>7. PICK down \in BOOLEAN : down = x_to_y
    BY <1>2 DEF InPlace
  <1>8. ~(k < TICK_CROSSES_PER_IX + MAX_VIRTUAL_CROSS)
    <2> SUFFICES ASSUME k < TICK_CROSSES_PER_IX + MAX_VIRTUAL_CROSS PROVE FALSE
      OBVIOUS
    <2>1. /\ get_min_tick <= t0 /\ t0 <= get_max_tick /\ view = from_slice(t0, down)
          /\ Travelled(t0, t, pool.price, k, down)
      BY <1>3, <1>5, <1>6, <1>7 DEF CameFrom
    <2>2. IF down THEN t <= t0 /\ t0 - k * (TICK_SEARCH_RANGE + 1) <= t
                  ELSE t0 <= t /\ t <= t0 + k * TICK_SEARCH_RANGE
      BY <2>1, Zenon DEF Travelled
    <2>3. c \in Scanned(t, ~down)
      BY <1>4, <1>5, <1>7
    <2>4. from_slice(t0, down).first <= c /\ c <= from_slice(t0, down).last
      BY <1>5, <1>6, <1>7, <2>1, <2>2, <2>3, SliceCovers
    <2> QED BY <1>4, <2>1, <2>4
  <1>9. Crossings >= TICK_CROSSES_PER_IX + MAX_VIRTUAL_CROSS
    <2>1. TICK_CROSSES_PER_IX + MAX_VIRTUAL_CROSS \in Nat
      BY InvariantAssumption
    <2> QED BY <1>6, <1>8, <2>1
  <1>10. InPlace' /\ Crossings' = Crossings
    BY <1>1, <1>2 DEF InPlace, Crossings, chain
  <1> QED BY <1>1, <1>9, <1>10 DEF SearchInv

LEMMA SearchStops ==
    ASSUME SearchInv, pc' \in {"failed", "done"},
           UNCHANGED <<chain, pool, remaining, used_ticks, virtual_cross_counter>>
    PROVE  SearchInv'
  <1>1. InPlace'
    BY DEF SearchInv, InPlace, chain
  <1> QED BY <1>1 DEF SearchInv

(* What a step aims at is ahead of the price. *)
LEMMA TargetAhead ==
    ASSUME NEW t0 \in Int, NEW t \in Int, NEW p \in Int, NEW k \in Nat, NEW down \in BOOLEAN,
           Travelled(t0, t, p, k, down), NEW e \in Int, StepEnd(t, e, down)
    PROVE  IF down THEN e * PerTick <= p ELSE p <= e * PerTick
  <1>1. PICK n \in Nat \ {0} : n = PerTick
    BY InvariantAssumption
  <1>2. PICK en \in Int, tn \in Int, un \in Int : en = e * n /\ tn = t * n /\ un = (t + 1) * n
    BY <1>1
  <1>3. CASE down
    <2>1. tn <= p /\ e <= t
      BY <1>1, <1>2, <1>3 DEF Travelled, StepEnd
    <2>2. en <= tn
      BY <1>1, <1>2, <2>1
    <2>3. en <= p
      BY <1>2, <2>1, <2>2
    <2> QED BY <1>1, <1>2, <1>3, <2>3
  <1>4. CASE ~down
    <2>1. p < un /\ t < e
      BY <1>1, <1>2, <1>4 DEF Travelled, StepEnd
    <2>2. un <= en
      BY <1>1, <1>2, <2>1
    <2>3. p <= en
      BY <1>2, <2>1, <2>2
    <2> QED BY <1>1, <1>2, <1>4, <2>3
  <1> QED BY <1>3, <1>4

(* A step of the simulation, in the terms of the invariant. *)
LEMMA SearchMoves ==
    ASSUME SearchInv, pc = "swap",
           UNCHANGED <<chain, edge>>,
           NEW t \in Int, NEW p \in Int, NEW L \in Int, NEW t0 \in Int, CameFrom(t0),
           pool' = [price |-> p, tick |-> t, liquidity |-> L],
           get_min_tick <= t, t <= get_max_tick,
           used_ticks' \in Seq(Int), virtual_cross_counter' \in Nat, remaining' \in Int,
           Crossings' = Crossings + 1,
           Travelled(t0, t, p, Crossings + 1, x_to_y),
           pc' \in {"swap", "failed"}, pc' = "swap" => L >= 0
    PROVE  SearchInv'
  <1>1. InPlace'
    BY DEF SearchInv, InPlace, chain
  <1>2. CameFrom(t0)'
    BY DEF CameFrom, chain, edge
  <1> QED BY <1>1, <1>2 DEF SearchInv

LEMMA SearchSwapStep ==
    ASSUME SearchInv, SwapStep
    PROVE  SearchInv'
  <1>1. pc = "swap" /\ remaining > 0
    BY DEF SwapStep, Looping
  <1>2. PICK limit : limit = get_closer_limit(pool.tick)
    OBVIOUS
  <1>3. PICK step : step = compute_swap_step(pool.price, limit.price, pool.liquidity, remaining)
    OBVIOUS
  <1>4. \/ InsufficientLiquidity(limit, step)
        \/ /\ ~Insufficient(limit, step)
           /\ CrossTick(limit, step) \/ CrossVirtual(limit, step) \/ StopBetween(limit, step)
           /\ UNCHANGED <<chain, edge>>
    BY <1>2, <1>3 DEF SwapStep
  <1>5. CASE InsufficientLiquidity(limit, step)
    BY <1>5, SearchStops DEF InsufficientLiquidity
  <1>6. CASE /\ ~Insufficient(limit, step)
             /\ CrossTick(limit, step) \/ CrossVirtual(limit, step) \/ StopBetween(limit, step)
             /\ UNCHANGED <<chain, edge>>
    <2>1. InPlace /\ pool.liquidity >= 0 /\ \E t0 \in Int : CameFrom(t0)
      BY <1>1 DEF SearchInv
    <2>2. PICK t0 \in Int : CameFrom(t0)
      BY <2>1
    <2>3. PICK t \in Int, p \in Int, L \in Nat, a \in Nat :
            t = pool.tick /\ p = pool.price /\ L = pool.liquidity /\ a = remaining
      <3>1. pool.tick \in Int /\ pool.price \in Int /\ pool.liquidity \in Int /\ remaining \in Int
        BY <2>1 DEF InPlace
      <3>2. pool.liquidity \in Nat /\ remaining \in Nat
        BY <1>1, <2>1, <3>1
      <3> QED BY <3>1, <3>2
    <2>4. /\ positions \in Positions /\ x_to_y \in BOOLEAN
          /\ get_min_tick <= t /\ t <= get_max_tick
      BY <2>1, <2>3 DEF InPlace
    <2>5. x_to_y \/ t < get_max_tick
      <3>1. ~(IF x_to_y THEN t <= get_min_tick ELSE t >= get_max_tick)
        BY <1>6, <2>3 DEF Insufficient
      <3>2. get_max_tick \in Int
        BY Ends
      <3> QED BY <2>4, <3>1, <3>2
    <2>6. PICK e \in Int :
              /\ get_min_tick <= e /\ e <= get_max_tick /\ StepEnd(t, e, x_to_y)
              /\ limit.price = e * PerTick
              /\ limit.tick # NoTick => limit.tick = e /\ (x_to_y => get_min_tick < e)
      BY <1>2, <2>3, <2>4, <2>5, CloserLimit
    <2>7. PICK k \in Nat : k = Crossings
      BY <2>1 DEF InPlace, Crossings
    <2>8. Travelled(t0, t, p, k, x_to_y) /\ get_min_tick <= t0 /\ t0 <= get_max_tick
      BY <2>2, <2>3, <2>7 DEF CameFrom
    <2>9. PICK g \in Int : g = e * PerTick
      <3>1. PerTick \in Int
        BY InvariantAssumption
      <3> QED BY <3>1
    <2>10. IF x_to_y THEN g <= p ELSE p <= g
      BY <2>4, <2>6, <2>8, <2>9, TargetAhead
    <2>11. PICK q \in Int : /\ q = step.price /\ step.in \in Int /\ step.fee \in Int
                            /\ IF x_to_y THEN g <= q /\ q <= p ELSE p <= q /\ q <= g
      BY <1>3, <2>3, <2>4, <2>6, <2>9, <2>10, StepStaysShort
    <2>12. Left(step) \in Int
      BY <2>3, <2>11 DEF Left
    <2>13. /\ used_ticks \in Seq(Int) /\ virtual_cross_counter \in Nat
           /\ Len(used_ticks) \in Nat
      BY <2>1 DEF InPlace
    <2>14. /\ Travelled(t0, e, g, k + 1, x_to_y)
           /\ x_to_y => Travelled(t0, e - 1, g, k + 1, x_to_y)
      BY <2>4, <2>6, <2>8, <2>9, TravelsToTick
    <2>15. ASSUME limit.tick # NoTick
           PROVE  LET u == TickAfter(limit.tick, step)
                  IN  /\ u \in Int /\ get_min_tick <= u /\ u <= get_max_tick
                      /\ Travelled(t0, u, g, k + 1, x_to_y)
      <3>1. limit.tick = e /\ (x_to_y => get_min_tick < e)
        BY <2>6, <2>15
      <3>2. CASE x_to_y /\ Enough(step)
        <4>1. TickAfter(limit.tick, step) = e - 1
          BY <3>1, <3>2 DEF TickAfter
        <4>2. get_min_tick \in Int /\ get_max_tick \in Int
          BY Ends
        <4>3. get_min_tick <= e - 1 /\ e - 1 <= get_max_tick /\ e - 1 \in Int
          BY <2>6, <3>1, <3>2, <4>2
        <4> QED BY <2>14, <3>2, <4>1, <4>3
      <3>3. CASE ~(x_to_y /\ Enough(step))
        <4>1. TickAfter(limit.tick, step) = e
          BY <3>1, <3>3 DEF TickAfter
        <4> QED BY <2>6, <2>14, <4>1
      <3> QED BY <3>2, <3>3
    <2>16. CASE CrossTick(limit, step)
      <3>1. limit.tick # NoTick /\ step.price = limit.price
        BY <2>16 DEF CrossTick
      <3>2. PICK isNext, crosses, lq :
              /\ lq = IF crosses /\ isNext
                             THEN cross_tick_no_fee_growth_update(limit.tick) ELSE pool.liquidity
              /\ used_ticks' = Append(used_ticks, limit.tick)
              /\ remaining' = IF crosses THEN Left(step) ELSE 0
              /\ pool' = [price |-> step.price, tick |-> TickAfter(limit.tick, step),
                          liquidity |-> lq]
              /\ pc' = IF lq < 0 THEN "failed" ELSE "swap"
        BY <2>16, Zenon DEF CrossTick
      <3>3. virtual_cross_counter' = virtual_cross_counter
        BY <2>16 DEF CrossTick
      <3>4. PICK u \in Int : /\ u = TickAfter(limit.tick, step)
                             /\ get_min_tick <= u /\ u <= get_max_tick
                             /\ Travelled(t0, u, g, k + 1, x_to_y)
        BY <2>15, <3>1
      <3>5. PICK N \in Int : N = lq
        <4>1. Net(limit.tick) \in Int
          BY <2>4, TickLiquidity
        <4>2. pool.liquidity - Net(limit.tick) \in Int /\ pool.liquidity + Net(limit.tick) \in Int
          BY <2>3, <4>1
        <4>3. cross_tick_no_fee_growth_update(limit.tick) \in Int
          BY <4>2 DEF cross_tick_no_fee_growth_update
        <4>4. pool.liquidity \in Int
          BY <2>3
        <4> QED BY <3>2, <4>3, <4>4
      <3>6. limit.tick \in Int
        BY <2>6, <3>1
      <3>7. used_ticks' \in Seq(Int) /\ Len(used_ticks') = Len(used_ticks) + 1
        BY <2>13, <3>2, <3>6
      <3>8. Crossings' = Crossings + 1
        BY <2>13, <3>3, <3>7 DEF Crossings
      <3>9. remaining' \in Int
        BY <2>12, <3>2
      <3>10. pool' = [price |-> g, tick |-> u, liquidity |-> N]
        BY <2>6, <2>9, <3>1, <3>2, <3>4, <3>5
      <3>11. pc' \in {"swap", "failed"} /\ (pc' = "swap" => N >= 0)
        <4>1. pc' = IF N < 0 THEN "failed" ELSE "swap"
          BY <3>2, <3>5
        <4> QED BY ONLY <4>1, N \in Int
      <3>12. virtual_cross_counter' \in Nat
        BY <2>13, <3>3
      <3>13. Travelled(t0, u, g, Crossings + 1, x_to_y)
        BY <2>7, <3>4
      <3>14. UNCHANGED <<chain, edge>>
        BY <1>6
      <3> QED BY <1>1, <2>2, <3>4, <3>5, <3>7, <3>8, <3>9, <3>10, <3>11, <3>12, <3>13, <3>14,
                 <2>9, SearchMoves
    <2>17. ASSUME NEW u \in Int, CountVirtual(step, u), get_min_tick <= u, u <= get_max_tick,
                  Travelled(t0, u, q, k + 1, x_to_y)
           PROVE  SearchInv'
      <3>1. /\ virtual_cross_counter' = virtual_cross_counter + 1 /\ remaining' = Left(step)
            /\ pool' = [pool EXCEPT !.price = step.price, !.tick = u]
            /\ pc' \in {"failed", "swap"} /\ used_ticks' = used_ticks
        BY <2>17 DEF CountVirtual
      <3>2. pool' = [price |-> q, tick |-> u, liquidity |-> L]
        <4>1. pool \in [price : Int, tick : Int, liquidity : Int]
          BY <2>1 DEF InPlace
        <4> QED BY <2>3, <2>11, <3>1, <4>1
      <3>3. Crossings' = Crossings + 1 /\ virtual_cross_counter' \in Nat
        <4>1. PICK n \in Nat, v \in Nat : n = Len(used_ticks) /\ v = virtual_cross_counter
          BY <2>13
        <4>2. virtual_cross_counter' = v + 1 /\ Len(used_ticks') = n
          BY <3>1, <4>1
        <4>3. n + (v + 1) = (n + v) + 1 /\ v + 1 \in Nat
          BY <4>1
        <4> QED BY <4>1, <4>2, <4>3 DEF Crossings
      <3>4. used_ticks' \in Seq(Int) /\ remaining' \in Int
        BY <2>12, <2>13, <3>1
      <3>5. Travelled(t0, u, q, Crossings + 1, x_to_y)
        BY <2>7, <2>17
      <3>6. UNCHANGED <<chain, edge>>
        BY <1>6
      <3>7. PICK N \in Int : N = L /\ N >= 0
        BY <2>3
      <3>8. pool' = [price |-> q, tick |-> u, liquidity |-> N] /\ pc' \in {"swap", "failed"}
        BY <3>1, <3>2, <3>7
      <3> QED BY <1>1, <2>2, <2>17, <3>3, <3>4, <3>5, <3>6, <3>7, <3>8, <2>11, SearchMoves
    <2>18. CASE CrossVirtual(limit, step)
      <3>1. /\ limit.tick # NoTick /\ step.price = limit.price
            /\ CountVirtual(step, TickAfter(limit.tick, step))
        BY <2>18 DEF CrossVirtual
      <3>2. PICK u \in Int : /\ u = TickAfter(limit.tick, step)
                             /\ get_min_tick <= u /\ u <= get_max_tick
                             /\ Travelled(t0, u, g, k + 1, x_to_y)
        BY <2>15, <3>1
      <3>3. q = g
        BY <2>6, <2>9, <2>11, <3>1
      <3> QED BY <2>17, <3>1, <3>2, <3>3
    <2>19. CASE StopBetween(limit, step)
      <3>1. CountVirtual(step, get_tick_at_sqrt_price(q))
        BY <2>11, <2>19 DEF StopBetween
      <3>2. IF x_to_y THEN e * PerTick <= q /\ q <= p ELSE p <= q /\ q <= e * PerTick
        BY <2>9, <2>11
      <3>3. PICK u \in Int : /\ u = get_tick_at_sqrt_price(q)
                             /\ Travelled(t0, u, q, k + 1, x_to_y)
                             /\ IF x_to_y THEN e <= u /\ u <= t0 ELSE t0 <= u /\ u <= e
        BY <2>4, <2>6, <2>8, <3>2, TravelsBetween
      <3>4. get_min_tick <= u /\ u <= get_max_tick
        <4>1. PICK mn \in Int, mx \in Int : mn = get_min_tick /\ mx = get_max_tick
          BY Ends
        <4>2. mn <= e /\ e <= mx /\ mn <= t0 /\ t0 <= mx
          BY <2>6, <2>8, <4>1
        <4>3. (e <= u /\ u <= t0) \/ (t0 <= u /\ u <= e)
          BY <3>3
        <4>4. mn <= u /\ u <= mx
          BY ONLY <4>2, <4>3, mn \in Int, mx \in Int, e \in Int, t0 \in Int, u \in Int
        <4> QED BY <4>1, <4>4
      <3> QED BY <2>17, <3>1, <3>3, <3>4
    <2> QED BY <1>6, <2>16, <2>18, <2>19
  <1> QED BY <1>4, <1>5, <1>6

LEMMA SearchNext ==
    ASSUME SearchInv, [InvariantNext]_invariant
    PROVE  SearchInv'
  <1>1. CASE Load
    BY <1>1, SearchLoad
  <1>2. CASE ReadOutside
    BY <1>2, SearchReadOutside
  <1>3. CASE SwapStep
    BY <1>3, SearchSwapStep
  <1>4. CASE Quote
    BY <1>4, SearchStops DEF Quote
  <1>5. CASE UNCHANGED invariant
    <2>1. InPlace' /\ Crossings' = Crossings
      BY <1>5 DEF SearchInv, InPlace, Crossings, invariant, chain
    <2>2. \A t0 \in Int : CameFrom(t0) => CameFrom(t0)'
      BY <1>5, <2>1 DEF CameFrom, invariant, chain, edge
    <2> QED BY <1>5, <2>1, <2>2 DEF SearchInv, invariant
  <1>6. CASE LoadFails
    BY <1>6, SearchStops DEF LoadFails
  <1> QED BY <1>1, <1>2, <1>3, <1>4, <1>5, <1>6 DEF InvariantNext

(* TickmapView's searches and TickmapSlice, for every map, byte width, search    *)
(* range and number of crossings that fit the slice: next_initialized and       *)
(* prev_initialized give the nearest initialised tick in range, and no crossing *)
(* break_swap_loop_early allows makes the simulation read a byte outside of the  *)
(* slice.                                                                     *)
THEOREM TickSearchSound == InvariantSpec => []TickSearchIsSound
  <1>1. InvariantInit => SearchInv
    BY SearchInit
  <1>2. SearchInv /\ [InvariantNext]_invariant => SearchInv'
    BY SearchNext
  <1>3. SearchInv => TickSearchIsSound
    <2> SUFFICES ASSUME SearchInv PROVE TickSearchIsSound
      OBVIOUS
    <2>1. PICK t \in Int : t = pool.tick /\ get_min_tick <= t /\ t <= get_max_tick
      BY DEF SearchInv, InPlace
    <2>2. Initialized \subseteq Int
      BY InitializedTicks DEF SearchInv, InPlace
    <2>3. get_search_limit(t, TRUE) \in Int /\ get_search_limit(t, FALSE) \in Int
      BY <2>1, SearchLimit
    <2>4. LET up == {i \in Initialized : t < i /\ i <= get_search_limit(t, TRUE)}
          IN  next_initialized(t) = IF up = {} THEN NoTick ELSE Min(up)
      BY <2>2, <2>3, NextFound
    <2>5. LET down == {i \in Initialized : get_search_limit(t, FALSE) <= i /\ i <= t}
          IN  prev_initialized(t) = IF down = {} THEN NoTick ELSE Max(down)
      BY <2>2, <2>3, PrevFound
    <2>6. pc = "panic" =>
             Len(used_ticks) + virtual_cross_counter >= TICK_CROSSES_PER_IX + MAX_VIRTUAL_CROSS
      BY DEF SearchInv, Crossings
    <2> QED BY <2>1, <2>4, <2>5, <2>6, Zenon DEF TickSearchIsSound
  <1> QED BY <1>1, <1>2, <1>3, PTL DEF InvariantSpec

-----------------------------------------------------------------------------
(* Invariant's pool: the liquidity between two ticks                         *)

(* Any element can be taken out of a sum first. *)
TakesAny(F, f, S) ==
    \A V \in SUBSET S : F[V] \in Int /\ \A x \in V : F[V] = f[x] + F[V \ {x}]

LEMMA SumTakesAny ==
    ASSUME NEW S, IsFiniteSet(S), NEW f \in [S -> Int], NEW F, IsSum(F, f, S)
    PROVE  TakesAny(F, f, S)
  <1> DEFINE Good(W) == F[W] \in Int /\ \A x \in W : F[W] = f[x] + F[W \ {x}]
             C == {W \in SUBSET S : ~Good(W)}
  <1> SUFFICES ASSUME C # {} PROVE FALSE
    BY DEF TakesAny
  <1>1. PICK W \in C : \A U \in C : U \subseteq W => U = W
    <2> HIDE DEF C
    <2>1. C \in SUBSET SUBSET S
      BY DEF C
    <2> QED BY <2>1, MinimalSubset
  <1>2. \A U : U \subseteq S => F[U] = IF U = {} THEN 0 ELSE f[First(U)] + F[U \ {First(U)}]
    BY DEF IsSum
  <1>3. W # {}
    <2>1. F[{}] = 0
      BY <1>2
    <2>2. Good({})
      BY <2>1
    <2> QED BY <2>2
  <1>4. \A U : U \subseteq W /\ U # W => Good(U)
    BY <1>1
  <1>5. PICK y : y = First(W)
    OBVIOUS
  <1>6. y \in W /\ F[W] = f[y] + F[W \ {y}] /\ y \in S /\ f[y] \in Int
    BY <1>1, <1>2, <1>3, <1>5 DEF First
  <1>7. F[W] \in Int
    <2>1. F[W \ {y}] \in Int
      BY <1>4, <1>6
    <2> QED BY <1>6, <2>1
  <1>8. ASSUME NEW x \in W PROVE F[W] = f[x] + F[W \ {x}]
    <2>1. CASE x = y
      BY <1>6, <2>1
    <2>2. CASE x # y
      <3>1. PICK R : R = W \ {x, y}
        OBVIOUS
      <3>2. (W \ {y}) \ {x} = R /\ (W \ {x}) \ {y} = R
        BY <3>1
      <3>3. Good(W \ {y}) /\ Good(W \ {x}) /\ Good(R)
        BY <1>4, <1>6, <1>8, <3>1
      <3>4. F[W \ {y}] = f[x] + F[R]
        BY <1>8, <2>2, <3>2, <3>3
      <3>5. F[W \ {x}] = f[y] + F[R]
        BY <1>6, <2>2, <3>2, <3>3
      <3>6. f[x] \in Int /\ F[R] \in Int
        BY <1>1, <1>8, <3>3
      <3> QED BY <1>6, <3>4, <3>5, <3>6
    <2> QED BY <2>1, <2>2
  <1> QED BY <1>1, <1>7, <1>8

(* The sums over two disjoint sets. *)
LEMMA SumOfUnion ==
    ASSUME NEW S, IsFiniteSet(S), NEW f \in [S -> Int], NEW F, IsSum(F, f, S),
           NEW X \in SUBSET S, NEW Y \in SUBSET S, X \cap Y = {}
    PROVE  F[X \cup Y] = F[X] + F[Y]
  <1>2. \A V \in SUBSET S : F[V] \in Int /\ \A x \in V : F[V] = f[x] + F[V \ {x}]
    <2>1. TakesAny(F, f, S)
      BY SumTakesAny
    <2> QED BY <2>1 DEF TakesAny
  <1> DEFINE C == {W \in SUBSET Y : F[X \cup W] # F[X] + F[W]}
  <1> SUFFICES ASSUME C # {} PROVE FALSE
    OBVIOUS
  <1>1. PICK W \in C : \A U \in C : U \subseteq W => U = W
    <2> HIDE DEF C
    <2>1. C \in SUBSET SUBSET Y /\ IsFiniteSet(Y)
      BY FS_Subset DEF C
    <2> QED BY <2>1, MinimalSubset
  <1>3. W # {}
    <2>1. F[{}] = 0
      BY DEF IsSum
    <2>2. F[X \cup {}] = F[X] + F[{}]
      <3>1. X \cup {} = X /\ F[X] \in Int
        BY <1>2
      <3> QED BY <2>1, <3>1
    <2> QED BY <1>1, <2>2
  <1>4. PICK x : x \in W
    BY <1>3
  <1>5. PICK R : R = W \ {x}
    OBVIOUS
  <1>6. (X \cup W) \ {x} = X \cup R
    BY <1>1, <1>4, <1>5
  <1>7. F[X \cup R] = F[X] + F[R]
    <2>1. R \in SUBSET Y /\ R \subseteq W /\ R # W
      BY <1>1, <1>4, <1>5
    <2>2. R \notin C
      BY <1>1, <2>1, Zenon
    <2> QED BY <2>1, <2>2
  <1>8. F[X \cup W] = f[x] + F[X \cup R]
    BY <1>1, <1>2, <1>4, <1>6
  <1>9. F[W] = f[x] + F[R]
    BY <1>1, <1>2, <1>4, <1>5
  <1>10. f[x] \in Int /\ F[R] \in Int /\ F[X] \in Int
    BY <1>1, <1>2, <1>4, <1>5
  <1> QED BY <1>1, <1>7, <1>8, <1>9, <1>10

LEMMA LiquidityAdds ==
    ASSUME positions \in Positions, NEW X \in SUBSET positions, NEW Y \in SUBSET positions,
           X \cap Y = {}
    PROVE  SumOf(X \cup Y) = SumOf(X) + SumOf(Y)
  <1> DEFINE f == [p \in positions |-> p.liquidity]
  <1>1. IsFiniteSet(positions) /\ f \in [positions -> Int]
    BY InvariantAssumption
  <1>2. PICK F : IsSum(F, f, positions)
    BY <1>1, SumExists
  <1>3. ASSUME NEW V \in SUBSET positions PROVE SumOf(V) = F[V]
    <2> DEFINE h == [p \in V |-> p.liquidity]
               H == CHOOSE g : IsSum(g, h, V)
    <2>1. h \in [V -> Int] /\ IsFiniteSet(V)
      BY <1>1, FS_Subset
    <2>2. IsSum(H, h, V)
      BY <2>1, SumExists
    <2>3. Sum(h, V) = H[V]
      BY DEF Sum, MapThenSumSet, MapThenFoldSet, IsSum, First
    <2>4. Shifted(h, f, f, 0, V)
      BY <1>1 DEF Shifted
    <2>5. SumOf(V) = Sum(h, V)
      BY SumOfIsSum
    <2>6. F[V] \in Int /\ H[V] = F[V] + (IF f \in V THEN 0 ELSE 0)
      <3>1. V \subseteq positions /\ V \subseteq V /\ 0 \in Int
        OBVIOUS
      <3> HIDE DEF h, H, f
      <3> QED BY <1>2, <2>1, <2>2, <2>4, <3>1, SumsDiffer
    <2> QED BY <2>3, <2>5, <2>6
  <1>4. F[X \cup Y] = F[X] + F[Y]
    <2> HIDE DEF f
    <2> QED BY <1>1, <1>2, SumOfUnion
  <1>5. X \cup Y \in SUBSET positions
    OBVIOUS
  <1> QED BY <1>3, <1>4, <1>5

(* No initialised tick between two ticks: the same liquidity at both. *)
LEMMA SameLiquidity ==
    ASSUME positions \in Positions, NEW s \in Int, NEW t \in Int, s <= t,
           \A i \in Initialized : ~(s < i /\ i <= t)
    PROVE  LiquidityAt(s) = LiquidityAt(t)
  <1>1. ASSUME NEW p \in positions
        PROVE  (p.lower <= s /\ s < p.upper) <=> (p.lower <= t /\ t < p.upper)
    <2>1. PICK l \in Int, u \in Int : l = p.lower /\ u = p.upper
      BY InvariantAssumption
    <2>2. l \in Initialized /\ u \in Initialized
      BY <2>1 DEF Initialized
    <2>3. ~(s < l /\ l <= t) /\ ~(s < u /\ u <= t)
      BY <2>2
    <2>4. (l <= s /\ s < u) <=> (l <= t /\ t < u)
      BY ONLY <2>3, s <= t, s \in Int, t \in Int, l \in Int, u \in Int
    <2> QED BY <2>1, <2>4
  <1>2. {p \in positions : p.lower <= s /\ s < p.upper}
          = {p \in positions : p.lower <= t /\ t < p.upper}
    BY <1>1
  <1> QED BY <1>2 DEF LiquidityAt

(* Across an initialised tick it changes by that tick's net liquidity. *)
LEMMA LiquidityAcross ==
    ASSUME positions \in Positions, NEW e \in Int
    PROVE  LiquidityAt(e) = LiquidityAt(e - 1) + Net(e)
  <1> DEFINE A == {p \in positions : p.lower <= e /\ e < p.upper}
             B == {p \in positions : p.lower <= e - 1 /\ e - 1 < p.upper}
             Low == {p \in positions : p.lower = e}
             Top == {p \in positions : p.upper = e}
             K == {p \in positions : p.lower <= e - 1 /\ e < p.upper}
  <1>1. A = K \cup Low /\ B = K \cup Top /\ K \cap Low = {} /\ K \cap Top = {}
    <2>1. ASSUME NEW p \in positions
          PROVE  /\ p.lower <= e /\ e < p.upper <=>
                       (p.lower <= e - 1 /\ e < p.upper) \/ p.lower = e
                 /\ p.lower <= e - 1 /\ e - 1 < p.upper <=>
                       (p.lower <= e - 1 /\ e < p.upper) \/ p.upper = e
                 /\ ~(p.lower <= e - 1 /\ p.lower = e) /\ ~(e < p.upper /\ p.upper = e)
      <3>1. PICK l \in Int, u \in Int : l = p.lower /\ u = p.upper /\ l < u
        BY InvariantAssumption
      <3>2. /\ l <= e /\ e < u <=> (l <= e - 1 /\ e < u) \/ l = e
            /\ l <= e - 1 /\ e - 1 < u <=> (l <= e - 1 /\ e < u) \/ u = e
            /\ ~(l <= e - 1 /\ l = e) /\ ~(e < u /\ u = e)
        BY ONLY <3>1, e \in Int, l \in Int, u \in Int
      <3> QED BY <3>1, <3>2
    <2> QED BY <2>1
  <1>2. {A, B, K, Low, Top} \subseteq SUBSET positions
    OBVIOUS
  <1>3. LiquidityAt(e) = SumOf(A) /\ LiquidityAt(e - 1) = SumOf(B)
    BY DEF LiquidityAt
  <1>4. Net(e) = SumOf(Low) - SumOf(Top)
    BY DEF Net
  <1> HIDE DEF A, B, K, Low, Top
  <1>5. SumOf(A) = SumOf(K) + SumOf(Low) /\ SumOf(B) = SumOf(K) + SumOf(Top)
    BY <1>1, <1>2, LiquidityAdds
  <1>6. SumOf(K) \in Nat /\ SumOf(Low) \in Nat /\ SumOf(Top) \in Nat
    BY <1>2, LiquidityIsNatural
  <1> QED BY <1>3, <1>4, <1>5, <1>6

-----------------------------------------------------------------------------
(* Invariant's loaded ticks: their order                                     *)

(* u is met no later than v. *)
Sooner(u, v) == IF x_to_y THEN u >= v ELSE u <= v
Upto(ts, t) == {u \in ts : Sooner(u, t)}
Rank(ts, t) == Cardinality(Upto(ts, t))

LEMMA SoonerOrders ==
    ASSUME x_to_y \in BOOLEAN, NEW u \in Int, NEW v \in Int, NEW w \in Int
    PROVE  /\ Sooner(u, u) /\ (Sooner(u, v) \/ Sooner(v, u))
           /\ Sooner(u, v) /\ Sooner(v, u) => u = v
           /\ Sooner(u, v) /\ Sooner(v, w) => Sooner(u, w)
  <1>1. CASE x_to_y
    BY <1>1 DEF Sooner
  <1>2. CASE ~x_to_y
    BY <1>2 DEF Sooner
  <1> QED BY <1>1, <1>2

LEMMA InOrderRanks ==
    ASSUME NEW ts
    PROVE  InOrder(ts) = [i \in 1 .. Cardinality(ts) |-> CHOOSE t \in ts : Rank(ts, t) = i]
  BY Zenon DEF InOrder, Rank, Upto, Sooner

LEMMA RanksDiffer ==
    ASSUME x_to_y \in BOOLEAN, NEW ts \in SUBSET Int, IsFiniteSet(ts), NEW t \in ts, NEW u \in ts
    PROVE  /\ Rank(ts, t) \in 1 .. Cardinality(ts)
           /\ Rank(ts, t) = Rank(ts, u) => t = u
  <1>1. ASSUME NEW v \in ts PROVE IsFiniteSet(Upto(ts, v)) /\ v \in Upto(ts, v) /\ Upto(ts, v) \subseteq ts
    <2>1. v \in Int
      OBVIOUS
    <2>2. Sooner(v, v)
      BY <2>1, SoonerOrders
    <2>3. Upto(ts, v) \subseteq ts /\ v \in Upto(ts, v)
      BY <2>2 DEF Upto
    <2> QED BY <2>3, FS_Subset
  <1>2. Rank(ts, t) \in 1 .. Cardinality(ts)
    <2>1. Cardinality(ts) \in Nat /\ Rank(ts, t) \in Nat
      BY <1>1, FS_CardinalityType DEF Rank
    <2>2. Rank(ts, t) <= Cardinality(ts)
      BY <1>1, FS_Subset DEF Rank
    <2>3. Rank(ts, t) # 0
      BY <1>1, FS_EmptySet DEF Rank
    <2> QED BY <2>1, <2>2, <2>3
  <1>3. ASSUME NEW a \in ts, NEW b \in ts, Sooner(a, b), a # b PROVE Rank(ts, a) # Rank(ts, b)
    <2>1. a \in Int /\ b \in Int
      OBVIOUS
    <2>2. ~Sooner(b, a)
      BY <1>3, <2>1, SoonerOrders
    <2>3. Upto(ts, a) \subseteq Upto(ts, b)
      <3> SUFFICES ASSUME NEW c \in ts, Sooner(c, a) PROVE Sooner(c, b)
        BY DEF Upto
      <3>1. c \in Int
        OBVIOUS
      <3> QED BY <1>3, <2>1, <3>1, SoonerOrders
    <2>4. b \in Upto(ts, b) /\ b \notin Upto(ts, a)
      BY <1>1, <2>2 DEF Upto
    <2>5. Upto(ts, a) # Upto(ts, b)
      BY <2>4
    <2>6. Cardinality(Upto(ts, a)) # Cardinality(Upto(ts, b))
      BY <1>1, <2>3, <2>5, FS_Subset
    <2> QED BY <2>6 DEF Rank
  <1>4. Sooner(t, u) \/ Sooner(u, t)
    <2>1. t \in Int /\ u \in Int
      OBVIOUS
    <2> QED BY <2>1, SoonerOrders
  <1> QED BY <1>2, <1>3, <1>4

(* An element is at the place of its rank, and every place holds one. *)
LEMMA RankedAt ==
    ASSUME x_to_y \in BOOLEAN, NEW ts \in SUBSET Int, IsFiniteSet(ts), NEW t \in ts
    PROVE  InOrder(ts)[Rank(ts, t)] = t
  <1>1. PICK i \in 1 .. Cardinality(ts) : i = Rank(ts, t)
    BY RanksDiffer
  <1>2. InOrder(ts)[i] = CHOOSE u \in ts : Rank(ts, u) = i
    BY InOrderRanks
  <1>3. \A u \in ts : Rank(ts, u) = i => u = t
    BY <1>1, RanksDiffer
  <1> QED BY <1>1, <1>2, <1>3

LEMMA PlacesHold ==
    ASSUME x_to_y \in BOOLEAN, NEW ts \in SUBSET Int, IsFiniteSet(ts),
           NEW i \in 1 .. Cardinality(ts)
    PROVE  InOrder(ts)[i] \in ts /\ Rank(ts, InOrder(ts)[i]) = i
  <1>1. PICK n \in Nat : n = Cardinality(ts)
    BY FS_CardinalityType
  <1>2. PICK N : N = 1 .. n
    OBVIOUS
  <1>3. IsFiniteSet(N) /\ Cardinality(N) = n
    <2>1. 1 \in Int /\ n \in Int
      OBVIOUS
    <2>2. IsFiniteSet(1 .. n) /\ Cardinality(1 .. n) = IF 1 > n THEN 0 ELSE n - 1 + 1
      BY <2>1, FS_Interval
    <2> QED BY <1>1, <1>2, <2>2
  <1> DEFINE f == [t \in ts |-> Rank(ts, t)]
  <1>4. f \in [ts -> N]
    BY <1>1, <1>2, RanksDiffer
  <1>5. f \in Injection(ts, N)
    <2>1. \A a, b \in ts : f[a] = f[b] => a = b
      BY RanksDiffer
    <2> QED BY <1>4, <2>1 DEF Injection, IsInjective
  <1>6. f \in Surjection(ts, N)
    <2> HIDE DEF f
    <2> QED BY <1>1, <1>3, <1>5, FS_Injection
  <1>7. i \in N
    BY <1>1, <1>2
  <1>8. PICK t \in ts : Rank(ts, t) = i
    BY <1>6, <1>7 DEF Surjection
  <1> QED BY <1>8, RankedAt

(* The first of those not passed comes right after the passed ones. *)
LEMMA NextRank ==
    ASSUME x_to_y \in BOOLEAN, NEW ts \in SUBSET Int, IsFiniteSet(ts), NEW e \in ts,
           NEW past \in SUBSET ts, e \notin past,
           \A u \in past : Sooner(u, e), \A u \in ts \ past : Sooner(e, u)
    PROVE  Rank(ts, e) = Cardinality(past) + 1 /\ Cardinality(past) \in Nat
  <1>1. Upto(ts, e) = past \cup {e}
    <2>1. ASSUME NEW u \in ts, Sooner(u, e), u \notin past PROVE u = e
      <3>1. u \in Int /\ e \in Int /\ Sooner(e, u)
        BY <2>1
      <3> QED BY <2>1, <3>1, SoonerOrders
    <2>2. Sooner(e, e)
      BY SoonerOrders
    <2> QED BY <2>1, <2>2 DEF Upto
  <1>2. IsFiniteSet(past) /\ Cardinality(past) \in Nat
    BY FS_Subset, FS_CardinalityType
  <1>3. Cardinality(past \cup {e}) = Cardinality(past) + 1
    BY <1>2, FS_AddElement
  <1> QED BY <1>1, <1>2, <1>3 DEF Rank

-----------------------------------------------------------------------------
(* Invariant's simulation: the next tick                                     *)

AheadOf(u, t) == IF x_to_y THEN u <= t ELSE u > t

(* get_closer_limit gives the first initialised tick ahead, and none is
   missed when it gives the end of the search. *)
LEMMA FirstAhead ==
    ASSUME positions \in Positions, x_to_y \in BOOLEAN,
           NEW t \in Int, get_min_tick <= t, t <= get_max_tick,
           NEW limit, limit = get_closer_limit(t), limit.tick # NoTick
    PROVE  /\ limit.tick \in Int /\ limit.initialized \in BOOLEAN
           /\ limit.initialized =>
                /\ limit.tick \in Initialized /\ AheadOf(limit.tick, t)
                /\ Byte(limit.tick) \in Scanned(t, ~x_to_y)
                /\ \A i \in Initialized : AheadOf(i, t) => Sooner(limit.tick, i)
           /\ ~limit.initialized => \A i \in Initialized : AheadOf(i, t) => ~Sooner(i, limit.tick)
  <1>2. Initialized \subseteq Int
    BY InitializedTicks
  <1>3. CASE x_to_y
    <2>1. PICK lim \in Int : lim = get_search_limit(t, FALSE) /\ lim <= t
      BY SearchLimit
    <2>2. PICK found : found = prev_initialized(t)
      OBVIOUS
    <2> DEFINE D == {i \in Initialized : lim <= i /\ i <= t}
    <2>3. found = IF D = {} THEN NoTick ELSE Max(D)
      BY <1>2, <2>1, <2>2, PrevFound
    <2>4. /\ limit.tick = IF found # NoTick THEN found ELSE lim
          /\ limit.initialized = (found # NoTick)
      BY <1>3, <2>1, <2>2, Zenon DEF get_closer_limit
    <2>5. CASE D = {}
      <3>1. limit.tick = lim /\ limit.initialized = FALSE /\ limit.tick \in Int
        BY <2>1, <2>3, <2>4, <2>5
      <3>2. ASSUME NEW i \in Initialized, AheadOf(i, t) PROVE ~Sooner(i, limit.tick)
        <4>1. i \in Int /\ i <= t
          BY <1>2, <1>3, <3>2 DEF AheadOf
        <4>2. ~(lim <= i)
          BY <2>5, <4>1
        <4>3. ~(i >= lim)
          BY ONLY <4>1, <4>2, lim \in Int
        <4> QED BY <1>3, <3>1, <4>3 DEF Sooner
      <3> QED BY <3>1, <3>2
    <2>6. CASE D # {}
      <3>1. D \in SUBSET Int /\ \A x \in D : x <= t
        BY <1>2
      <3>2. Max(D) \in D /\ \A y \in D : y <= Max(D)
        <4> HIDE DEF D
        <4> QED BY <2>6, <3>1, GreatestInteger
      <3>3. PICK e \in Int : e = Max(D)
        BY <3>1, <3>2
      <3>4. found = e /\ found # NoTick
        BY <2>3, <2>6, <3>3, InvariantAssumption
      <3>5. limit.tick = e /\ limit.initialized = TRUE
        BY <2>4, <3>4
      <3>6. e \in Initialized /\ lim <= e /\ e <= t
        BY <3>2, <3>3
      <3>7. AheadOf(e, t)
        BY <1>3, <3>6 DEF AheadOf
      <3>8. Byte(e) \in Scanned(t, ~x_to_y)
        <4>1. e \in lim .. t
          BY ONLY <3>6, e \in Int, lim \in Int, t \in Int
        <4>2. Scanned(t, ~x_to_y) = {Byte(i) : i \in lim .. t}
          <5>1. (~x_to_y) = FALSE
            BY <1>3
          <5>2. Scanned(t, FALSE) = {Byte(i) : i \in lim .. t}
            BY <2>1 DEF Scanned
          <5> QED BY <5>1, <5>2
        <4> QED BY <4>1, <4>2
      <3>9. ASSUME NEW i \in Initialized, AheadOf(i, t) PROVE Sooner(e, i)
        <4>1. i \in Int /\ i <= t
          BY <1>2, <1>3, <3>9 DEF AheadOf
        <4>2. CASE lim <= i
          <5>1. i \in D
            BY <4>1, <4>2
          <5>2. i <= e
            BY <3>2, <3>3, <5>1
          <5>3. e >= i
            BY ONLY <4>1, <5>2, e \in Int
          <5> QED BY <1>3, <5>3 DEF Sooner
        <4>3. CASE ~(lim <= i)
          <5>1. e >= i
            BY ONLY <3>6, <4>1, <4>3, e \in Int, lim \in Int
          <5> QED BY <1>3, <5>1 DEF Sooner
        <4> QED BY <4>2, <4>3
      <3> QED BY <3>5, <3>6, <3>7, <3>8, <3>9
    <2> QED BY <2>5, <2>6
  <1>4. CASE ~x_to_y
    <2>1. PICK lim \in Int : lim = get_search_limit(t, TRUE) /\ t <= lim
      BY SearchLimit
    <2>2. PICK found : found = next_initialized(t)
      OBVIOUS
    <2> DEFINE D == {i \in Initialized : t < i /\ i <= lim}
    <2>3. found = IF D = {} THEN NoTick ELSE Min(D)
      BY <1>2, <2>1, <2>2, NextFound
    <2>4. /\ limit.tick = IF found # NoTick THEN found ELSE lim
          /\ limit.initialized = (found # NoTick)
      <3>1. (~x_to_y) = TRUE
        BY <1>4
      <3> QED BY <1>4, <2>1, <2>2, <3>1, Zenon DEF get_closer_limit
    <2>5. CASE D = {}
      <3>1. limit.tick = lim /\ limit.initialized = FALSE /\ limit.tick \in Int
        BY <2>1, <2>3, <2>4, <2>5
      <3>2. ASSUME NEW i \in Initialized, AheadOf(i, t) PROVE ~Sooner(i, limit.tick)
        <4>1. i \in Int /\ i > t
          BY <1>2, <1>4, <3>2 DEF AheadOf
        <4>2. t < i
          BY ONLY <4>1, t \in Int
        <4>3. ~(i <= lim)
          BY <2>5, <4>1, <4>2
        <4> QED BY <1>4, <3>1, <4>3 DEF Sooner
      <3> QED BY <3>1, <3>2
    <2>6. CASE D # {}
      <3>1. D \in SUBSET Int /\ \A x \in D : t <= x
        <4>1. ASSUME NEW x \in D PROVE x \in Int /\ t <= x
          <5>1. x \in Int /\ t < x
            BY <1>2, <4>1
          <5> QED BY ONLY <5>1, t \in Int
        <4> QED BY <4>1
      <3>2. Min(D) \in D /\ \A y \in D : Min(D) <= y
        <4> HIDE DEF D
        <4> QED BY <2>6, <3>1, LeastInteger
      <3>3. PICK e \in Int : e = Min(D)
        BY <3>1, <3>2
      <3>4. found = e /\ found # NoTick
        BY <2>3, <2>6, <3>3, InvariantAssumption
      <3>5. limit.tick = e /\ limit.initialized = TRUE
        BY <2>4, <3>4
      <3>6. e \in Initialized /\ t < e /\ e <= lim
        BY <3>2, <3>3
      <3>7. AheadOf(e, t)
        <4>1. e > t
          BY ONLY <3>6, e \in Int, t \in Int
        <4> QED BY <1>4, <4>1 DEF AheadOf
      <3>8. Byte(e) \in Scanned(t, ~x_to_y)
        <4>1. e \in t + 1 .. lim
          BY ONLY <3>6, e \in Int, lim \in Int, t \in Int
        <4>2. Scanned(t, ~x_to_y) = {Byte(i) : i \in t + 1 .. lim}
          <5>1. (~x_to_y) = TRUE
            BY <1>4
          <5>2. Scanned(t, TRUE) = {Byte(i) : i \in t + 1 .. lim}
            BY <2>1 DEF Scanned
          <5> QED BY <5>1, <5>2
        <4> QED BY <4>1, <4>2
      <3>9. ASSUME NEW i \in Initialized, AheadOf(i, t) PROVE Sooner(e, i)
        <4>1. i \in Int /\ i > t
          BY <1>2, <1>4, <3>9 DEF AheadOf
        <4>2. CASE i <= lim
          <5>1. i \in D
            <6>1. t < i
              BY ONLY <4>1, t \in Int
            <6> QED BY <4>2, <6>1
          <5>2. e <= i
            BY <3>2, <3>3, <5>1
          <5> QED BY <1>4, <5>2 DEF Sooner
        <4>3. CASE ~(i <= lim)
          <5>1. e <= i
            BY ONLY <3>6, <4>1, <4>3, e \in Int, lim \in Int
          <5> QED BY <1>4, <5>1 DEF Sooner
        <4> QED BY <4>2, <4>3
      <3> QED BY <3>5, <3>6, <3>7, <3>8, <3>9
    <2> QED BY <2>5, <2>6
  <1> QED BY <1>3, <1>4

(* The tick the search found is one of the slice it was found in. *)
LEMMA FirstInView ==
    ASSUME positions \in Positions, x_to_y \in BOOLEAN, pool.tick \in Int, Readable,
           NEW e \in Int, e \in Initialized, Byte(e) \in Scanned(pool.tick, ~x_to_y),
           \A i \in Initialized : AheadOf(i, pool.tick) => Sooner(e, i)
    PROVE  InView(e)
  <1> DEFINE hit == {b \in Scanned(pool.tick, ~x_to_y) : Bits(b, pool.tick, ~x_to_y) # {}}
  <1>1. ASSUME NEW h \in hit PROVE IF ~x_to_y THEN Byte(e) <= h ELSE Byte(e) >= h
    <2>1. PICK i : i \in Bits(h, pool.tick, ~x_to_y)
      BY <1>1
    <2>2. i \in Initialized /\ Byte(i) = h /\ AheadOf(i, pool.tick)
      <3>1. CASE x_to_y
        BY <2>1, <3>1 DEF Bits, AheadOf
      <3>2. CASE ~x_to_y
        BY <2>1, <3>2 DEF Bits, AheadOf
      <3> QED BY <3>1, <3>2
    <2>3. i \in Int /\ Sooner(e, i)
      BY <2>2, InitializedTicks
    <2>4. Byte(e) \in Int /\ Byte(i) \in Int
      BY <2>3, ByteOrder
    <2>5. CASE x_to_y
      <3>1. e >= i
        BY <2>3, <2>5 DEF Sooner
      <3>2. i <= e
        BY ONLY <2>3, <3>1, e \in Int
      <3>3. Byte(i) <= Byte(e)
        BY <2>3, <3>2, ByteOrder
      <3>4. Byte(e) >= h
        BY <2>2, <2>4, <3>3
      <3> QED BY <2>5, <3>4
    <2>6. CASE ~x_to_y
      <3>1. e <= i
        BY <2>3, <2>6 DEF Sooner
      <3>2. Byte(e) <= h
        BY <2>2, <2>3, <3>1, ByteOrder
      <3> QED BY <2>6, <3>2
    <2> QED BY <2>5, <2>6
  <1>2. \A b \in Scanned(pool.tick, ~x_to_y) :
           (\A h \in hit : IF ~x_to_y THEN b <= h ELSE b >= h) => view.first <= b /\ b <= view.last
    BY Zenon DEF Readable
  <1> HIDE DEF hit
  <1>3. view.first <= Byte(e) /\ Byte(e) <= view.last
    BY <1>1, <1>2
  <1> QED BY <1>3 DEF InView

-----------------------------------------------------------------------------
(* Invariant's simulation: the loaded ticks are met in their order           *)

(* F are the ticks the edge loaded from: all of the slice that are still ahead
   are among them, and next is past those that are not. *)
OnCourse(F) ==
    /\ F \subseteq Initialized
    /\ \A i \in Initialized : InView(i) /\ AheadOf(i, pool.tick) => i \in F
    /\ ticks = SubSeq(InOrder(F), 1, Min({TICK_CROSSES_PER_IX, Len(InOrder(F))}))
    /\ next = 1 + Cardinality({u \in F : ~AheadOf(u, pool.tick)})
    /\ next <= 2 + Len(used_ticks)

RealInv ==
    /\ pc = "load" => pool.liquidity = LiquidityAt(pool.tick)
    /\ Looping /\ Len(used_ticks) <= TICK_CROSSES_PER_IX - TICKS_BACK_COUNT =>
          pool.liquidity = LiquidityAt(pool.tick) /\ \E F : OnCourse(F)

LEMMA InitializedFinite ==
    ASSUME positions \in Positions, NEW F \in SUBSET Initialized
    PROVE  F \in SUBSET Int /\ IsFiniteSet(F)
  <1>1. IsFiniteSet(positions)
    BY InvariantAssumption
  <1> DEFINE A == {p.lower : p \in positions}  B == {p.upper : p \in positions}
  <1>2. IsFiniteSet(A)
    <2>1. PICK f : f = [p \in positions |-> p.lower]
      OBVIOUS
    <2>2. f \in Surjection(positions, A)
      BY <2>1 DEF Surjection
    <2> QED BY <1>1, <2>2, FS_Surjection
  <1>3. IsFiniteSet(B)
    <2>1. PICK f : f = [p \in positions |-> p.upper]
      OBVIOUS
    <2>2. f \in Surjection(positions, B)
      BY <2>1 DEF Surjection
    <2> QED BY <1>1, <2>2, FS_Surjection
  <1>4. IsFiniteSet(A \cup B)
    <2> HIDE DEF A, B
    <2> QED BY <1>2, <1>3, FS_Union
  <1>5. IsFiniteSet(Initialized)
    BY <1>4 DEF Initialized
  <1> QED BY <1>5, FS_Subset, InitializedTicks

(* What the edge holds of the ticks it found. *)
LEMMA LoadedTicks ==
    ASSUME x_to_y \in BOOLEAN, NEW F \in SUBSET Int, IsFiniteSet(F), NEW ts,
           ts = SubSeq(InOrder(F), 1, Min({TICK_CROSSES_PER_IX, Len(InOrder(F))}))
    PROVE  /\ DOMAIN ts = {i \in 1 .. Cardinality(F) : i <= TICK_CROSSES_PER_IX}
           /\ Len(ts) \in Nat /\ DOMAIN ts = 1 .. Len(ts)
           /\ \A i \in DOMAIN ts : ts[i] = InOrder(F)[i]
  <1>1. PICK n \in Nat, c \in Nat : n = Cardinality(F) /\ c = TICK_CROSSES_PER_IX
    BY FS_CardinalityType, InvariantAssumption
  <1>2. PICK s : s = InOrder(F)
    OBVIOUS
  <1>3. s \in Seq(F) /\ Len(s) = n
    <2>1. s \in [1 .. n -> F]
      <3>1. \A i \in 1 .. n : s[i] \in F
        BY <1>1, <1>2, PlacesHold
      <3>2. s = [i \in 1 .. n |-> CHOOSE t \in F : Rank(F, t) = i]
        BY <1>1, <1>2, InOrderRanks
      <3> QED BY <3>1, <3>2
    <2> QED BY <2>1
  <1>4. PICK m \in Nat : m = Min({c, n}) /\ m = IF c <= n THEN c ELSE n
    BY <1>1, MinOfTwo
  <1>5. ts = SubSeq(s, 1, m)
    BY <1>1, <1>2, <1>3, <1>4
  <1>6. m <= Len(s)
    BY <1>1, <1>3, <1>4
  <1>7. Len(ts) = m /\ DOMAIN ts = 1 .. m /\ \A i \in 1 .. m : ts[i] = s[i]
    <2>1. PICK a \in Int, z \in Int : a = 1 /\ z = m
      BY <1>4
    <2>2. \A i \in a .. z : s[i] \in F
      BY <1>3, <1>6, <2>1
    <2>3. /\ SubSeq(s, a, z) \in Seq(F) /\ Len(SubSeq(s, a, z)) = IF a <= z THEN z - a + 1 ELSE 0
          /\ \A i \in 1 .. z - a + 1 : SubSeq(s, a, z)[i] = s[a + i - 1]
      BY <2>2, SubSeqProperties
    <2>4. z - a + 1 = m /\ (IF a <= z THEN z - a + 1 ELSE 0) = m /\ \A i \in 1 .. m : a + i - 1 = i
      BY <1>4, <2>1
    <2>5. ts = SubSeq(s, a, z)
      BY <1>5, <2>1
    <2>6. ts \in Seq(F) /\ Len(ts) = m
      BY <2>3, <2>4, <2>5
    <2>7. DOMAIN ts = 1 .. m
      BY <2>6
    <2>8. ASSUME NEW i \in 1 .. m PROVE ts[i] = s[i]
      <3>1. SubSeq(s, a, z)[i] = s[a + i - 1] /\ a + i - 1 = i
        BY <2>3, <2>4, <2>8
      <3> QED BY <2>5, <3>1
    <2> QED BY <2>6, <2>7, <2>8
  <1>8. 1 .. m = {i \in 1 .. n : i <= c}
    BY <1>1, <1>4
  <1> QED BY <1>1, <1>2, <1>4, <1>7, <1>8

(* load_edge: at most the nearest of the ticks behind the price comes before
   those ahead of it. *)
LEMMA CourseAtLoad ==
    ASSUME SearchInv, Load
    PROVE  \E F : OnCourse(F)'
  <1>1. /\ pc = "load" /\ UNCHANGED <<chain, pool, used_ticks>>
        /\ ticks' = find_closest_tick_indexes({t \in Initialized :
                       view'.first <= Byte(t) /\ Byte(t) <= view'.last})
        /\ next' = 1 + Cardinality({i \in DOMAIN ticks' : ~Ahead(ticks'[i])})
    BY DEF Load, SeenIn
  <1>2. InPlace
    BY DEF SearchInv
  <1>3. /\ positions \in Positions /\ x_to_y \in BOOLEAN /\ pool.tick \in Int
        /\ Len(used_ticks) \in Nat
    BY <1>2 DEF InPlace
  <1>4. /\ Initialized' = Initialized /\ x_to_y' = x_to_y /\ pool' = pool
        /\ used_ticks' = used_ticks
    BY <1>1 DEF Initialized, chain
  <1>5. PICK c \in Nat : c = TICK_CROSSES_PER_IX /\ c # 0
    BY InvariantAssumption
  <1> DEFINE seen == {t \in Initialized : view'.first <= Byte(t) /\ Byte(t) <= view'.last}
             behind == {t \in seen : ~Ahead(t)}
             nearest == IF behind = {} THEN {} ELSE {IF x_to_y THEN Min(behind) ELSE Max(behind)}
             F == nearest \cup {t \in seen : Ahead(t)}
  <1>6. ticks' = SubSeq(InOrder(F), 1, Min({c, Len(InOrder(F))}))
    BY <1>1, <1>5, Zenon DEF find_closest_tick_indexes
  <1>7. \A t : Ahead(t) <=> AheadOf(t, pool.tick)
    BY <1>3 DEF Ahead, AheadOf
  <1>8. Initialized \subseteq Int
    BY <1>3, InitializedTicks
  <1>9. nearest = {} \/ \E m \in behind : nearest = {m}
    <2>1. CASE behind = {}
      BY <2>1
    <2>2. CASE behind # {}
      <3>1. behind \in SUBSET Int
        BY <1>8
      <3>2. CASE x_to_y
        <4>1. \A x \in behind : pool.tick <= x
          <5> SUFFICES ASSUME NEW x \in behind PROVE pool.tick <= x
            OBVIOUS
          <5>1. x \in Int /\ ~(x <= pool.tick)
            BY <1>8, <3>2 DEF Ahead
          <5> QED BY ONLY <5>1, <1>3
        <4>2. Min(behind) \in behind
          <5>1. PICK b \in Int : b = pool.tick
            BY <1>3
          <5>2. \A x \in behind : b <= x
            BY <4>1, <5>1
          <5> HIDE DEF behind
          <5> QED BY <2>2, <3>1, <5>2, LeastInteger
        <4> QED BY <2>2, <3>2, <4>2
      <3>3. CASE ~x_to_y
        <4>1. \A x \in behind : x <= pool.tick
          <5> SUFFICES ASSUME NEW x \in behind PROVE x <= pool.tick
            OBVIOUS
          <5>1. x \in Int /\ ~(x > pool.tick)
            BY <1>8, <3>3 DEF Ahead
          <5> QED BY ONLY <5>1, <1>3
        <4>2. Max(behind) \in behind
          <5>1. PICK b \in Int : b = pool.tick
            BY <1>3
          <5>2. \A x \in behind : x <= b
            BY <4>1, <5>1
          <5> HIDE DEF behind
          <5> QED BY <2>2, <3>1, <5>2, GreatestInteger
        <4> QED BY <2>2, <3>3, <4>2
      <3> QED BY <1>3, <3>2, <3>3
    <2> QED BY <2>1, <2>2
  <1>10. F \subseteq Initialized
    BY <1>9
  <1>11. F \in SUBSET Int /\ IsFiniteSet(F)
    <2> HIDE DEF F
    <2> QED BY <1>3, <1>10, InitializedFinite
  <1>12. \A i \in Initialized : InView(i)' /\ AheadOf(i, pool.tick) => i \in F
    BY <1>7 DEF InView
  <1>13. {u \in F : ~AheadOf(u, pool.tick)} = nearest
    <2>1. \A u \in behind : ~Ahead(u)
      OBVIOUS
    <2> QED BY <1>7, <1>9, <2>1
  <1> DEFINE ts == ticks'
             back == {i \in DOMAIN ts : ~Ahead(ts[i])}
  <1>14. /\ DOMAIN ts = {i \in 1 .. Cardinality(F) : i <= c}
         /\ \A i \in DOMAIN ts : ts[i] = InOrder(F)[i]
    <2>1. PICK z : z = ticks'
      OBVIOUS
    <2> HIDE DEF F
    <2>2. /\ DOMAIN z = {i \in 1 .. Cardinality(F) : i <= c}
          /\ \A i \in DOMAIN z : z[i] = InOrder(F)[i]
      BY <1>3, <1>5, <1>6, <1>11, <2>1, LoadedTicks
    <2> QED BY <2>1, <2>2
  <1>15. ASSUME NEW i \in DOMAIN ts PROVE ts[i] \in F /\ Rank(F, ts[i]) = i
    <2> HIDE DEF F
    <2> QED BY <1>3, <1>11, <1>14, <1>15, PlacesHold
  <1>16. Cardinality(back) = Cardinality(nearest) /\ Cardinality(nearest) \in {0, 1}
    <2>1. CASE nearest = {}
      <3>1. \A u \in F : Ahead(u)
        BY <2>1
      <3>2. back = {}
        BY <1>15, <3>1
      <3> QED BY <2>1, <3>2, FS_EmptySet
    <2>2. CASE nearest # {}
      <3>1. PICK m \in behind : nearest = {m}
        BY <1>9, <2>2
      <3>2. m \in F /\ m \in Int /\ \A u \in F : ~Ahead(u) => u = m
        BY <1>11, <3>1
      <3>3. \A u \in F : Sooner(m, u)
        <4> SUFFICES ASSUME NEW u \in F PROVE Sooner(m, u)
          OBVIOUS
        <4>1. u \in Int /\ (u = m \/ Ahead(u)) /\ ~Ahead(m)
          BY <1>11, <3>1, <3>2
        <4>2. CASE x_to_y
          <5>1. ~(m <= pool.tick) /\ (u = m \/ u <= pool.tick)
            BY <4>1, <4>2 DEF Ahead
          <5>2. m >= u
            BY ONLY <1>3, <3>2, <4>1, <5>1
          <5> QED BY <4>2, <5>2 DEF Sooner
        <4>3. CASE ~x_to_y
          <5>1. ~(m > pool.tick) /\ (u = m \/ u > pool.tick)
            BY <4>1, <4>3 DEF Ahead
          <5>2. m <= u
            BY ONLY <1>3, <3>2, <4>1, <5>1
          <5> QED BY <4>3, <5>2 DEF Sooner
        <4> QED BY <1>3, <4>2, <4>3
      <3>4. Rank(F, m) = 1
        <4>1. {} \in SUBSET F /\ m \notin {} /\ (\A u \in {} : Sooner(u, m)) /\ F \ {} = F
          OBVIOUS
        <4>2. Cardinality({}) = 0
          BY FS_EmptySet
        <4> HIDE DEF F
        <4>3. \A u \in F \ {} : Sooner(m, u)
          BY <3>3
        <4>4. Rank(F, m) = Cardinality({}) + 1
          BY <1>3, <1>11, <3>2, <4>1, <4>3, NextRank
        <4> QED BY <4>2, <4>4
      <3>5. 1 \in DOMAIN ts /\ ts[1] = m
        <4> HIDE DEF F
        <4>1. Rank(F, m) \in 1 .. Cardinality(F) /\ InOrder(F)[Rank(F, m)] = m
          BY <1>3, <1>11, <3>2, RanksDiffer, RankedAt
        <4>2. 1 <= c
          BY <1>5
        <4> QED BY <1>14, <3>4, <4>1, <4>2
      <3>6. back = {1}
        <4>1. 1 \in back
          BY <3>1, <3>5
        <4>2. ASSUME NEW i \in back PROVE i = 1
          <5>1. i \in DOMAIN ts /\ ~Ahead(ts[i])
            BY <4>2
          <5>2. ts[i] \in F /\ Rank(F, ts[i]) = i
            BY <1>15, <5>1
          <5>3. ts[i] = m
            BY <3>2, <5>1, <5>2
          <5> QED BY <3>4, <5>2, <5>3
        <4> QED BY <4>1, <4>2
      <3> QED BY <3>1, <3>6, FS_Singleton
    <2> QED BY <2>1, <2>2
  <1>17. /\ next' = 1 + Cardinality({u \in F : ~AheadOf(u, pool.tick)})
         /\ next' <= 2 + Len(used_ticks)
    <2>0. next' = 1 + Cardinality(back)
      BY <1>1
    <2>1. PICK n \in Nat : n = Cardinality(nearest) /\ n <= 1 /\ next' = 1 + n
      <3> HIDE DEF nearest, back
      <3> QED BY <1>16, <2>0
    <2>2. PICK l \in Nat : l = Len(used_ticks)
      BY <1>3
    <2>3. 1 + n <= 2 + l
      BY <2>1, <2>2
    <2> QED BY <1>13, <2>1, <2>2, <2>3
  <1>18. PICK G : G = F
    OBVIOUS
  <1> HIDE DEF F
  <1>19. InOrder(G)' = InOrder(G)
    BY <1>4 DEF InOrder
  <1>20. ticks' = SubSeq(InOrder(G), 1, Min({TICK_CROSSES_PER_IX, Len(InOrder(G))}))
    BY <1>5, <1>6, <1>18
  <1>21. \A u : AheadOf(u, pool.tick)' = AheadOf(u, pool.tick)
    BY <1>4 DEF AheadOf
  <1>22. {u \in G : ~AheadOf(u, pool.tick)}' = {u \in G : ~AheadOf(u, pool.tick)}
    BY <1>21
  <1>23. OnCourse(G)'
    BY <1>4, <1>10, <1>12, <1>17, <1>18, <1>19, <1>20, <1>21, <1>22 DEF OnCourse
  <1> QED BY <1>23

(* The initialised tick that is reached is the next loaded one, while one may
   still be crossed with a loaded tick behind. *)
LEMMA NextIsLoaded ==
    ASSUME InPlace, NEW F, OnCourse(F), Readable,
           Len(used_ticks) + 1 <= TICK_CROSSES_PER_IX - TICKS_BACK_COUNT,
           NEW e \in Int, e \in Initialized, AheadOf(e, pool.tick),
           Byte(e) \in Scanned(pool.tick, ~x_to_y),
           \A i \in Initialized : AheadOf(i, pool.tick) => Sooner(e, i)
    PROVE  next <= Len(ticks) /\ ticks[next] = e /\ next = Rank(F, e) /\ next \in Nat
  <1>1. /\ positions \in Positions /\ x_to_y \in BOOLEAN /\ pool.tick \in Int
        /\ Len(used_ticks) \in Nat
    BY DEF InPlace
  <1>2. F \in SUBSET Initialized /\ F \in SUBSET Int /\ IsFiniteSet(F)
    BY <1>1, InitializedFinite DEF OnCourse
  <1>3. InView(e)
    BY <1>1, FirstInView
  <1>4. e \in F
    BY <1>3 DEF OnCourse
  <1> DEFINE past == {u \in F : ~AheadOf(u, pool.tick)}
  <1>5. past \in SUBSET F /\ e \notin past
    OBVIOUS
  <1>6. \A u \in past : Sooner(u, e)
    <2> SUFFICES ASSUME NEW u \in F, ~AheadOf(u, pool.tick) PROVE Sooner(u, e)
      OBVIOUS
    <2>1. u \in Int
      BY <1>2
    <2>2. CASE x_to_y
      <3>1. ~(u <= pool.tick) /\ e <= pool.tick
        BY <2>2 DEF AheadOf
      <3>2. u >= e
        BY ONLY <1>1, <2>1, <3>1, e \in Int
      <3> QED BY <2>2, <3>2 DEF Sooner
    <2>3. CASE ~x_to_y
      <3>1. ~(u > pool.tick) /\ e > pool.tick
        BY <2>3 DEF AheadOf
      <3>2. u <= e
        BY ONLY <1>1, <2>1, <3>1, e \in Int
      <3> QED BY <2>3, <3>2 DEF Sooner
    <2> QED BY <1>1, <2>2, <2>3
  <1>7. \A u \in F \ past : Sooner(e, u)
    BY <1>2
  <1>8. next = 1 + Cardinality(past) /\ next <= 2 + Len(used_ticks)
    BY DEF OnCourse
  <1> HIDE DEF past
  <1>9. Rank(F, e) = Cardinality(past) + 1 /\ Cardinality(past) \in Nat
    BY <1>1, <1>2, <1>4, <1>5, <1>6, <1>7, NextRank
  <1>10. next = Rank(F, e) /\ next \in Nat
    BY <1>8, <1>9
  <1>11. next \in 1 .. Cardinality(F) /\ InOrder(F)[next] = e
    BY <1>1, <1>2, <1>4, <1>10, RanksDiffer, RankedAt
  <1>12. next <= TICK_CROSSES_PER_IX
    <2>1. PICK c \in Nat, b \in Nat, l \in Nat :
            c = TICK_CROSSES_PER_IX /\ b = TICKS_BACK_COUNT /\ l = Len(used_ticks) /\ b >= 1
      BY <1>1, InvariantAssumption, SliceAssumption
    <2>2. l + 1 <= c - b /\ next <= 2 + l
      BY <1>8, <2>1
    <2>3. next <= c
      BY ONLY <1>10, <2>1, <2>2, c \in Nat, b \in Nat, l \in Nat
    <2> QED BY <2>1, <2>3
  <1>13. ticks = SubSeq(InOrder(F), 1, Min({TICK_CROSSES_PER_IX, Len(InOrder(F))}))
    BY DEF OnCourse
  <1>14. PICK ts : ts = ticks
    OBVIOUS
  <1>15. /\ DOMAIN ts = {i \in 1 .. Cardinality(F) : i <= TICK_CROSSES_PER_IX}
         /\ Len(ts) \in Nat /\ DOMAIN ts = 1 .. Len(ts)
         /\ \A i \in DOMAIN ts : ts[i] = InOrder(F)[i]
    BY <1>1, <1>2, <1>13, <1>14, LoadedTicks
  <1>16. next \in DOMAIN ts
    BY <1>11, <1>12, <1>15
  <1>17. next \in 1 .. Len(ts) /\ ts[next] = e
    BY <1>11, <1>15, <1>16
  <1>18. next <= Len(ts)
    BY <1>10, <1>15, <1>17
  <1> QED BY <1>10, <1>14, <1>17, <1>18

(* A step to tick u keeps the course, whose next tick is past those not ahead
   of u. *)
LEMMA CourseKept ==
    ASSUME InPlace, NEW F, OnCourse(F), UNCHANGED <<chain, edge>>,
           NEW u \in Int, pool'.tick = u,
           \A i \in Initialized : AheadOf(i, u) => AheadOf(i, pool.tick),
           next' = 1 + Cardinality({v \in F : ~AheadOf(v, u)}),
           next' <= 2 + Len(used_ticks')
    PROVE  OnCourse(F)'
  <1>1. Initialized' = Initialized /\ x_to_y' = x_to_y /\ view' = view /\ ticks' = ticks
    BY DEF Initialized, chain, edge
  <1>2. InOrder(F)' = InOrder(F)
    BY <1>1 DEF InOrder
  <1>3. \A i : AheadOf(i, pool.tick)' = AheadOf(i, u)
    BY <1>1 DEF AheadOf
  <1>4. \A i : InView(i)' = InView(i)
    BY <1>1 DEF InView
  <1>5. {v \in F : ~AheadOf(v, pool.tick)}' = {v \in F : ~AheadOf(v, u)}
    BY <1>3
  <1> QED BY <1>1, <1>2, <1>3, <1>4, <1>5 DEF OnCourse

(* An initialised tick is crossed. *)
LEMMA CourseCrosses ==
    ASSUME InPlace, NEW F, OnCourse(F), UNCHANGED <<chain, edge>>,
           NEW e \in Int, AheadOf(e, pool.tick),
           NEW u \in Int, u = IF x_to_y THEN e - 1 ELSE e, pool'.tick = u,
           next = Rank(F, e), next \in Nat, next' = next + 1,
           Len(used_ticks') = Len(used_ticks) + 1
    PROVE  OnCourse(F)'
  <1>1. /\ positions \in Positions /\ x_to_y \in BOOLEAN /\ pool.tick \in Int
        /\ Len(used_ticks) \in Nat
    BY DEF InPlace
  <1>2. F \in SUBSET Int /\ Initialized \subseteq Int
    BY <1>1, InitializedTicks DEF OnCourse
  <1>3. \A i \in Initialized : AheadOf(i, u) => AheadOf(i, pool.tick)
    <2> SUFFICES ASSUME NEW i \in Initialized, AheadOf(i, u) PROVE AheadOf(i, pool.tick)
      OBVIOUS
    <2>1. i \in Int
      BY <1>2
    <2>2. CASE x_to_y
      <3>1. i <= u /\ u = e - 1 /\ e <= pool.tick
        BY <2>2 DEF AheadOf
      <3>2. i <= pool.tick
        BY ONLY <1>1, <2>1, <3>1, e \in Int
      <3> QED BY <2>2, <3>2 DEF AheadOf
    <2>3. CASE ~x_to_y
      <3>1. i > u /\ u = e /\ e > pool.tick
        BY <2>3 DEF AheadOf
      <3>2. i > pool.tick
        BY ONLY <1>1, <2>1, <3>1, e \in Int
      <3> QED BY <2>3, <3>2 DEF AheadOf
    <2> QED BY <1>1, <2>2, <2>3
  <1>4. \A v \in F : ~AheadOf(v, u) <=> Sooner(v, e)
    <2> SUFFICES ASSUME NEW v \in F PROVE ~AheadOf(v, u) <=> Sooner(v, e)
      OBVIOUS
    <2>1. v \in Int
      BY <1>2
    <2>2. CASE x_to_y
      <3>1. ~(v <= e - 1) <=> v >= e
        BY ONLY <2>1, e \in Int
      <3> QED BY <2>2, <3>1 DEF AheadOf, Sooner
    <2>3. CASE ~x_to_y
      <3>1. ~(v > e) <=> v <= e
        BY ONLY <2>1, e \in Int
      <3> QED BY <2>3, <3>1 DEF AheadOf, Sooner
    <2> QED BY <1>1, <2>2, <2>3
  <1>5. {v \in F : ~AheadOf(v, u)} = Upto(F, e)
    BY <1>4 DEF Upto
  <1>6. next' = 1 + Cardinality({v \in F : ~AheadOf(v, u)})
    <2>1. PICK n \in Nat : n = Cardinality(Upto(F, e)) /\ next' = n + 1
      BY DEF Rank
    <2>2. n + 1 = 1 + n
      BY <2>1
    <2> QED BY <1>5, <2>1, <2>2
  <1>7. next' <= 2 + Len(used_ticks')
    <2>1. PICK l \in Nat, n \in Nat : l = Len(used_ticks) /\ n = next
      BY <1>1
    <2>2. n <= 2 + l
      BY <2>1 DEF OnCourse
    <2>3. n + 1 <= 2 + (l + 1)
      BY <2>1, <2>2
    <2> QED BY <2>1, <2>3
  <1> QED BY <1>3, <1>6, <1>7, CourseKept

(* The end of the search is reached: no initialised tick is passed. *)
LEMMA CoursePasses ==
    ASSUME InPlace, NEW F, OnCourse(F), UNCHANGED <<chain, edge, next, used_ticks>>,
           NEW e \in Int, NEW u \in Int, pool'.tick = u,
           IF x_to_y THEN e <= pool.tick /\ (u = e \/ u = e - 1)
                     ELSE pool.tick < e /\ u = e,
           \A i \in Initialized : AheadOf(i, pool.tick) => ~Sooner(i, e)
    PROVE  OnCourse(F)' /\ LiquidityAt(u) = LiquidityAt(pool.tick)
  <1>1. /\ positions \in Positions /\ x_to_y \in BOOLEAN /\ pool.tick \in Int
    BY DEF InPlace
  <1>2. F \in SUBSET Initialized /\ Initialized \subseteq Int
    BY <1>1, InitializedTicks DEF OnCourse
  <1>3. \A i \in Initialized : AheadOf(i, u) <=> AheadOf(i, pool.tick)
    <2> SUFFICES ASSUME NEW i \in Initialized PROVE AheadOf(i, u) <=> AheadOf(i, pool.tick)
      OBVIOUS
    <2>1. i \in Int /\ (AheadOf(i, pool.tick) => ~Sooner(i, e))
      BY <1>2
    <2>2. CASE x_to_y
      <3>1. (i <= pool.tick => ~(i >= e)) /\ e <= pool.tick /\ (u = e \/ u = e - 1)
        BY <2>1, <2>2 DEF AheadOf, Sooner
      <3>2. i <= u <=> i <= pool.tick
        BY ONLY <1>1, <2>1, <3>1, e \in Int, u \in Int
      <3> QED BY <2>2, <3>2 DEF AheadOf
    <2>3. CASE ~x_to_y
      <3>1. (i > pool.tick => ~(i <= e)) /\ pool.tick < e /\ u = e
        BY <2>1, <2>3 DEF AheadOf, Sooner
      <3>2. i > u <=> i > pool.tick
        BY ONLY <1>1, <2>1, <3>1, e \in Int, u \in Int
      <3> QED BY <2>3, <3>2 DEF AheadOf
    <2> QED BY <1>1, <2>2, <2>3
  <1>4. {v \in F : ~AheadOf(v, u)} = {v \in F : ~AheadOf(v, pool.tick)}
    BY <1>2, <1>3
  <1>5. OnCourse(F)'
    <2>1. next' = 1 + Cardinality({v \in F : ~AheadOf(v, u)}) /\ next' <= 2 + Len(used_ticks')
      BY <1>4 DEF OnCourse
    <2>2. UNCHANGED <<chain, edge>>
      OBVIOUS
    <2> QED BY <1>3, <2>1, <2>2, CourseKept
  <1>6. PICK t \in Int : t = pool.tick
    BY <1>1
  <1>7. CASE x_to_y
    <2>1. u <= t
      BY <1>6, <1>7
    <2>2. \A i \in Initialized : ~(u < i /\ i <= t)
      <3> SUFFICES ASSUME NEW i \in Initialized, u < i, i <= t PROVE FALSE
        OBVIOUS
      <3>1. i \in Int /\ i <= u
        BY <1>2, <1>3, <1>6, <1>7 DEF AheadOf
      <3> QED BY <3>1
    <2> QED BY <1>1, <1>5, <1>6, <2>1, <2>2, SameLiquidity
  <1>8. CASE ~x_to_y
    <2>1. t <= u
      BY <1>6, <1>8
    <2>2. \A i \in Initialized : ~(t < i /\ i <= u)
      <3> SUFFICES ASSUME NEW i \in Initialized, t < i, i <= u PROVE FALSE
        OBVIOUS
      <3>1. i \in Int
        BY <1>2
      <3>2. i > t
        BY ONLY <3>1, t < i, t \in Int
      <3>3. i > u
        BY <1>3, <1>6, <1>8, <3>2 DEF AheadOf
      <3> QED BY <3>1, <3>3
    <2> QED BY <1>1, <1>5, <1>6, <2>1, <2>2, SameLiquidity
  <1> QED BY <1>1, <1>7, <1>8

(* The liquidity past an initialised tick. *)
LEMMA LiquidityCrosses ==
    ASSUME InPlace, NEW e \in Int, AheadOf(e, pool.tick),
           pool.liquidity = LiquidityAt(pool.tick),
           \A i \in Initialized : AheadOf(i, pool.tick) => Sooner(e, i)
    PROVE  cross_tick_no_fee_growth_update(e) = LiquidityAt(IF x_to_y THEN e - 1 ELSE e)
  <1>1. positions \in Positions /\ x_to_y \in BOOLEAN /\ Initialized \subseteq Int
    BY InitializedTicks DEF InPlace
  <1>2. PICK t \in Int : t = pool.tick
    BY DEF InPlace
  <1>3. PICK f \in Int : f = e - 1
    OBVIOUS
  <1>4. LiquidityAt(e) = LiquidityAt(f) + Net(e)
    BY <1>1, <1>3, LiquidityAcross
  <1>5. LiquidityAt(e) \in Nat /\ LiquidityAt(f) \in Nat /\ Net(e) \in Int
    BY <1>1, TickLiquidity
  <1>6. CASE x_to_y
    <2>1. e <= t
      BY <1>2, <1>6 DEF AheadOf
    <2>2. \A i \in Initialized : ~(e < i /\ i <= t)
      <3> SUFFICES ASSUME NEW i \in Initialized, e < i, i <= t PROVE FALSE
        OBVIOUS
      <3>1. i \in Int /\ e >= i
        BY <1>1, <1>2, <1>6 DEF AheadOf, Sooner
      <3> QED BY ONLY <3>1, e < i, e \in Int
    <2>3. LiquidityAt(e) = LiquidityAt(t)
      BY <1>1, <2>1, <2>2, SameLiquidity
    <2>4. cross_tick_no_fee_growth_update(e) = LiquidityAt(e) - Net(e)
      BY <1>2, <1>6, <2>3 DEF cross_tick_no_fee_growth_update
    <2> QED BY <1>3, <1>4, <1>5, <1>6, <2>4
  <1>7. CASE ~x_to_y
    <2>1. e > t
      BY <1>2, <1>7 DEF AheadOf
    <2>2. t <= f
      BY ONLY <1>3, <2>1, t \in Int, e \in Int
    <2>3. \A i \in Initialized : ~(t < i /\ i <= f)
      <3> SUFFICES ASSUME NEW i \in Initialized, t < i, i <= f PROVE FALSE
        OBVIOUS
      <3>1. i \in Int
        BY <1>1
      <3>2. i > t
        BY ONLY <3>1, t < i, t \in Int
      <3>3. e <= i
        BY <1>2, <1>7, <3>2 DEF AheadOf, Sooner
      <3> QED BY ONLY <1>3, <3>1, <3>3, i <= f, e \in Int
    <2>4. LiquidityAt(t) = LiquidityAt(f)
      BY <1>1, <2>2, <2>3, SameLiquidity
    <2>5. cross_tick_no_fee_growth_update(e) = LiquidityAt(f) + Net(e)
      BY <1>2, <1>7, <2>4 DEF cross_tick_no_fee_growth_update
    <2> QED BY <1>4, <1>7, <2>5
  <1> QED BY <1>1, <1>6, <1>7

(* A step that stops before its target has used up the input. *)
LEMMA StopsWithNothing ==
    ASSUME InPlace, pool.liquidity >= 0, remaining > 0,
           NEW g \in Int, IF x_to_y THEN g <= pool.price ELSE pool.price <= g,
           NEW step, step = compute_swap_step(pool.price, g, pool.liquidity, remaining),
           step.price # g
    PROVE  Left(step) = 0
  <1>1. PICK p \in Int, L \in Nat, a \in Nat :
          p = pool.price /\ L = pool.liquidity /\ a = remaining
    <2>1. pool.liquidity \in Int /\ remaining \in Int /\ pool.price \in Int
      BY DEF InPlace
    <2> QED BY <2>1
  <1>2. x_to_y \in BOOLEAN
    BY DEF InPlace
  <1>3. step = compute_swap_step(p, g, L, a) /\ (IF x_to_y THEN g <= p ELSE p <= g)
    BY <1>1
  <1>4. step.in \in Int
    BY <1>2, <1>3, StepStaysShort
  <1>5. L # 0
    BY <1>3 DEF compute_swap_step
  <1>6. step.fee = a - step.in
    BY <1>3, <1>5 DEF compute_swap_step
  <1>7. PICK i \in Int : i = step.in
    BY <1>4
  <1>8. a - (i + (a - i)) = 0
    BY <1>1, <1>7
  <1> QED BY <1>1, <1>6, <1>7, <1>8 DEF Left

LEMMA RealSwapStep ==
    ASSUME SearchInv, RealInv, SwapStep
    PROVE  RealInv'
  <1>1. Looping /\ Readable /\ pc = "swap" /\ remaining > 0
    BY DEF SwapStep, Looping
  <1>2. PICK limit : limit = get_closer_limit(pool.tick)
    OBVIOUS
  <1>3. PICK step : step = compute_swap_step(pool.price, limit.price, pool.liquidity, remaining)
    OBVIOUS
  <1>4. \/ InsufficientLiquidity(limit, step)
        \/ /\ ~Insufficient(limit, step)
           /\ CrossTick(limit, step) \/ CrossVirtual(limit, step) \/ StopBetween(limit, step)
           /\ UNCHANGED <<chain, edge>>
    BY <1>2, <1>3 DEF SwapStep
  <1>5. CASE InsufficientLiquidity(limit, step)
    BY <1>5 DEF InsufficientLiquidity, RealInv, Looping
  <1>6. CASE /\ ~Insufficient(limit, step)
             /\ CrossTick(limit, step) \/ CrossVirtual(limit, step) \/ StopBetween(limit, step)
             /\ UNCHANGED <<chain, edge>>
    <2>1. InPlace /\ pool.liquidity >= 0 /\ \E t0 \in Int : CameFrom(t0)
      BY <1>1 DEF SearchInv
    <2>2. PICK t \in Int : t = pool.tick /\ get_min_tick <= t /\ t <= get_max_tick
      BY <2>1 DEF InPlace
    <2>3. /\ positions \in Positions /\ x_to_y \in BOOLEAN /\ used_ticks \in Seq(Int)
          /\ Len(used_ticks) \in Nat
      BY <2>1 DEF InPlace
    <2>4. x_to_y \/ t < get_max_tick
      <3>1. ~(IF x_to_y THEN t <= get_min_tick ELSE t >= get_max_tick)
        BY <1>6, <2>2 DEF Insufficient
      <3>2. get_max_tick \in Int
        BY Ends
      <3> QED BY <2>2, <2>3, <3>1, <3>2
    <2>5. PICK e \in Int :
              /\ StepEnd(t, e, x_to_y) /\ limit.price = e * PerTick
              /\ limit.tick # NoTick => limit.tick = e
      BY <1>2, <2>2, <2>3, <2>4, CloserLimit
    <2>6. PICK g \in Int : g = e * PerTick
      <3>1. PerTick \in Int
        BY InvariantAssumption
      <3> QED BY <3>1
    <2>7. pc' # "load"
      BY <1>6 DEF CrossTick, CrossVirtual, StopBetween, CountVirtual
    <2> SUFFICES ASSUME Looping', Len(used_ticks') <= TICK_CROSSES_PER_IX - TICKS_BACK_COUNT
                 PROVE  (pool.liquidity = LiquidityAt(pool.tick))' /\ \E F : OnCourse(F)'
      BY <2>7 DEF RealInv
    <2>8. pc' = "swap" /\ remaining' > 0
      BY DEF Looping
    <2>9. LiquidityAt(pool.tick)' = LiquidityAt(pool'.tick)
      BY <1>6 DEF LiquidityAt, chain
    <2>10. CASE CrossTick(limit, step)
      <3>1. limit.tick = e /\ limit.initialized /\ limit.tick # NoTick
        BY <2>5, <2>10 DEF CrossTick
      <3>2. PICK isNext, crosses, lq :
              /\ isNext = (next <= Len(ticks) /\ ticks[next] = limit.tick)
              /\ crosses = (~x_to_y \/ Enough(step))
              /\ lq = IF crosses /\ isNext
                             THEN cross_tick_no_fee_growth_update(limit.tick) ELSE pool.liquidity
              /\ used_ticks' = Append(used_ticks, limit.tick)
              /\ next' = IF isNext THEN next + 1 ELSE next
              /\ remaining' = IF crosses THEN Left(step) ELSE 0
              /\ pool' = [price |-> step.price, tick |-> TickAfter(limit.tick, step),
                          liquidity |-> lq]
        BY <2>10, Zenon DEF CrossTick
      <3>3. Len(used_ticks') = Len(used_ticks) + 1
        BY <2>3, <3>1, <3>2
      <3>4. Len(used_ticks) + 1 <= TICK_CROSSES_PER_IX - TICKS_BACK_COUNT
        BY <3>3
      <3>5. Len(used_ticks) <= TICK_CROSSES_PER_IX - TICKS_BACK_COUNT
        <4>1. TICK_CROSSES_PER_IX - TICKS_BACK_COUNT \in Int
          BY InvariantAssumption
        <4> QED BY <2>3, <3>4, <4>1
      <3>6. pool.liquidity = LiquidityAt(pool.tick) /\ \E F : OnCourse(F)
        BY <1>1, <3>5 DEF RealInv
      <3>7. PICK F : OnCourse(F)
        BY <3>6
      <3>8. /\ e \in Initialized /\ AheadOf(e, t) /\ Byte(e) \in Scanned(t, ~x_to_y)
            /\ \A i \in Initialized : AheadOf(i, t) => Sooner(e, i)
        BY <1>2, <2>2, <2>3, <3>1, FirstAhead
      <3>9. next <= Len(ticks) /\ ticks[next] = e /\ next = Rank(F, e) /\ next \in Nat
        BY <1>1, <2>1, <2>2, <3>4, <3>7, <3>8, NextIsLoaded
      <3>10. crosses
        BY <2>8, <3>2
      <3>11. /\ next' = next + 1 /\ lq = cross_tick_no_fee_growth_update(e)
        BY <3>1, <3>2, <3>9, <3>10
      <3>12. PICK u \in Int : u = IF x_to_y THEN e - 1 ELSE e
        BY <2>3
      <3>13. pool'.tick = u /\ pool'.liquidity = lq
        <4>1. TickAfter(limit.tick, step) = u
          <5>1. CASE x_to_y
            BY <3>1, <3>2, <3>10, <3>12, <5>1 DEF TickAfter
          <5>2. CASE ~x_to_y
            BY <3>1, <3>12, <5>2 DEF TickAfter
          <5> QED BY <5>1, <5>2
        <4> QED BY <3>2, <4>1
      <3>14. OnCourse(F)'
        <4>1. UNCHANGED <<chain, edge>> /\ AheadOf(e, pool.tick)
          BY <1>6, <2>2, <3>8
        <4> QED BY <2>1, <3>3, <3>7, <3>9, <3>11, <3>12, <3>13, <4>1, CourseCrosses
      <3>15. cross_tick_no_fee_growth_update(e) = LiquidityAt(IF x_to_y THEN e - 1 ELSE e)
        <4>1. /\ AheadOf(e, pool.tick)
              /\ \A i \in Initialized : AheadOf(i, pool.tick) => Sooner(e, i)
          BY <2>2, <3>8
        <4> QED BY <2>1, <3>6, <4>1, LiquidityCrosses
      <3>16. pool'.liquidity = LiquidityAt(pool'.tick)
        BY <3>11, <3>12, <3>13, <3>15
      <3> QED BY <2>9, <3>14, <3>16
    <2>11. CASE CrossVirtual(limit, step)
      <3>1. /\ limit.tick = e /\ ~limit.initialized /\ limit.tick # NoTick
            /\ CountVirtual(step, TickAfter(limit.tick, step))
        BY <2>5, <2>11 DEF CrossVirtual
      <3>2. /\ pool' = [pool EXCEPT !.price = step.price, !.tick = TickAfter(limit.tick, step)]
            /\ UNCHANGED <<next, used_ticks>>
        BY <3>1 DEF CountVirtual
      <3>3. PICK u \in Int : /\ u = TickAfter(limit.tick, step)
                             /\ IF x_to_y THEN u = e \/ u = e - 1 ELSE u = e
        BY <3>1 DEF TickAfter
      <3>4. pool'.tick = u /\ pool'.liquidity = pool.liquidity
        <4>1. pool \in [price : Int, tick : Int, liquidity : Int]
          BY <2>1 DEF InPlace
        <4> QED BY <3>2, <3>3, <4>1
      <3>5. pool.liquidity = LiquidityAt(pool.tick) /\ \E F : OnCourse(F)
        BY <1>1, <3>2 DEF RealInv
      <3>6. PICK F : OnCourse(F)
        BY <3>5
      <3>7. \A i \in Initialized : AheadOf(i, pool.tick) => ~Sooner(i, e)
        BY <1>2, <2>2, <2>3, <3>1, FirstAhead
      <3>8. IF x_to_y THEN e <= pool.tick /\ (u = e \/ u = e - 1)
                      ELSE pool.tick < e /\ u = e
        <4>1. CASE x_to_y
          BY <2>2, <2>5, <3>3, <4>1 DEF StepEnd
        <4>2. CASE ~x_to_y
          BY <2>2, <2>5, <3>3, <4>2 DEF StepEnd
        <4> QED BY <4>1, <4>2
      <3>9. OnCourse(F)' /\ LiquidityAt(u) = LiquidityAt(pool.tick)
        <4>1. UNCHANGED <<chain, edge, next, used_ticks>>
          BY <1>6, <3>2
        <4> QED BY <2>1, <3>4, <3>6, <3>7, <3>8, <4>1, CoursePasses
      <3>10. pool'.liquidity = LiquidityAt(pool'.tick)
        BY <3>4, <3>5, <3>9
      <3> QED BY <2>9, <3>9, <3>10
    <2>12. CASE StopBetween(limit, step)
      <3>1. (limit.tick = NoTick \/ step.price # limit.price) /\ remaining' = Left(step)
        BY <2>12 DEF StopBetween, CountVirtual
      <3>2. CASE step.price = limit.price
        <4>1. ~(Left(step) > 0)
          BY <1>6, <3>1, <3>2 DEF Insufficient
        <4> QED BY <2>8, <3>1, <4>1
      <3>3. CASE step.price # limit.price
        <4>1. PICK t0 \in Int : CameFrom(t0)
          BY <2>1
        <4>2. PICK k \in Nat, p \in Int : k = Crossings /\ p = pool.price
          BY <2>1 DEF InPlace, Crossings
        <4>3. Travelled(t0, t, p, k, x_to_y)
          BY <2>2, <4>1, <4>2 DEF CameFrom
        <4>4. IF x_to_y THEN g <= pool.price ELSE pool.price <= g
          BY <2>3, <2>5, <2>6, <4>2, <4>3, TargetAhead
        <4>5. step = compute_swap_step(pool.price, g, pool.liquidity, remaining) /\ step.price # g
          BY <1>3, <2>5, <2>6, <3>3
        <4>6. Left(step) = 0
          BY <1>1, <2>1, <4>4, <4>5, StopsWithNothing
        <4> QED BY <2>8, <3>1, <4>6
      <3> QED BY <3>2, <3>3
    <2> QED BY <1>6, <2>10, <2>11, <2>12
  <1> QED BY <1>4, <1>5, <1>6

(* find_closest_tick_indexes and simulate_invariant_swap, for every set of        *)
(* positions, price and amount: until a loaded tick behind the price may have   *)
(* taken the place of one ahead, every step swaps against the liquidity the     *)
(* pool really has at its tick.                                               *)
THEOREM LiquidityReal == InvariantSpec => []SimulatedLiquidityIsReal
  <1> DEFINE Inv == SearchInv /\ RealInv
  <1>1. InvariantInit => Inv
    <2> SUFFICES ASSUME InvariantInit PROVE RealInv
      BY SearchInit
    <2>1. PICK p \in Prices : pool = [price |-> p, tick |-> get_tick_at_sqrt_price(p),
                                      liquidity |-> LiquidityAt(get_tick_at_sqrt_price(p))]
      BY DEF InvariantInit
    <2>2. pool.liquidity = LiquidityAt(pool.tick) /\ pc = "load"
      BY <2>1 DEF InvariantInit
    <2> QED BY <2>2 DEF RealInv, Looping
  <1>2. Inv /\ [InvariantNext]_invariant => Inv'
    <2> SUFFICES ASSUME SearchInv, RealInv, [InvariantNext]_invariant PROVE Inv'
      OBVIOUS
    <2>0. SearchInv'
      BY SearchNext
    <2>1. CASE Load
      <3>1. /\ pc = "load" /\ pc' = "swap" /\ pool' = pool /\ positions' = positions
        BY <2>1 DEF Load, chain
      <3>2. (pool.liquidity = LiquidityAt(pool.tick))'
        BY <3>1 DEF RealInv, LiquidityAt
      <3>3. \E F : OnCourse(F)'
        BY <2>1, CourseAtLoad
      <3>4. RealInv'
        BY <3>1, <3>2, <3>3 DEF RealInv
      <3> QED BY <2>0, <3>4
    <2>2. CASE ReadOutside
      BY <2>0, <2>2 DEF ReadOutside, RealInv, Looping
    <2>3. CASE SwapStep
      BY <2>0, <2>3, RealSwapStep
    <2>4. CASE Quote
      BY <2>0, <2>4 DEF Quote, RealInv, Looping
    <2>5. CASE UNCHANGED invariant
      <3>1. /\ UNCHANGED <<positions, x_to_y, view, ticks, next, pool, used_ticks, remaining, pc>>
        BY <2>5 DEF invariant, chain, edge
      <3>2. /\ Initialized' = Initialized /\ \A t : LiquidityAt(t)' = LiquidityAt(t)
            /\ \A F : InOrder(F)' = InOrder(F)
            /\ \A i : InView(i)' = InView(i) /\ \A j, t : AheadOf(j, t)' = AheadOf(j, t)
        BY <3>1 DEF Initialized, LiquidityAt, InOrder, InView, AheadOf
      <3>3. \A F : OnCourse(F) => OnCourse(F)'
        BY <3>1, <3>2 DEF OnCourse
      <3>4. RealInv'
        BY <3>1, <3>2, <3>3 DEF RealInv, Looping
      <3> QED BY <2>0, <3>4
    <2>6. CASE LoadFails
      BY <2>0, <2>6 DEF LoadFails, RealInv, Looping
    <2> QED BY <2>1, <2>2, <2>3, <2>4, <2>5, <2>6 DEF InvariantNext
  <1>3. Inv => SimulatedLiquidityIsReal
    BY DEF RealInv, SimulatedLiquidityIsReal
  <1> QED BY <1>1, <1>2, <1>3, PTL DEF InvariantSpec
=============================================================================
