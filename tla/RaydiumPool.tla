----------------------------- MODULE RaydiumPool -----------------------------
(***************************************************************************)
(* The quotes of Raydium's constant product pools, of the AMM and of the CP  *)
(* program, against a pool that is traded on at the quoted amounts.         *)
(*   lib/dex-raydium/src/raydium_dex.rs, internal/processor.rs,               *)
(*   internal/math.rs, internal/state.rs                                     *)
(*   lib/dex-raydium-cp/src/raydium_cp.rs, edge.rs                           *)
(*                                                                         *)
(* The quote is computed from the accounts as they are; that they may be     *)
(* stale is the subject of EdgeUpdater.  A token is "x" (coin, token 0) or    *)
(* "y" (pc, token 1).  What the pool owes (need_take_pnl, protocol and fund  *)
(* fees) is in its vaults and not its own.  CP pools of token 2022 mints are  *)
(* filtered out on start, so there is no transfer fee.                      *)
(***************************************************************************)
EXTENDS Integers, FiniteSets, FiniteSetsExt

CONSTANTS
    Kinds,                          \* "amm", "cp"
    SwapFeeNum, SwapFeeDen,         \* the pool's fee
    OwnersPart,                     \* protocol and fund get 1 / OwnersPart of it
    StartVaults,                    \* amounts in a vault
    TradeAmounts,
    MaxTrades, MaxOwed              \* bounds

ASSUME RaydiumAssumption ==
    /\ Kinds \subseteq {"amm", "cp"}
    /\ SwapFeeNum \in Nat /\ SwapFeeDen \in Nat \ {0} /\ SwapFeeNum < SwapFeeDen
    /\ OwnersPart \in Nat \ {0}
    /\ StartVaults \subseteq Nat /\ TradeAmounts \subseteq Nat

VARIABLES amm, trades
raydium == <<amm, trades>>

Tokens == {"x", "y"}
Directions == {<<"x", "y">>, <<"y", "x">>}
Off == [kind |-> "none"]
Error == [ok |-> FALSE, in |-> 0, out |-> 0]
Quoted(in, out) == [ok |-> TRUE, in |-> in, out |-> out]

-----------------------------------------------------------------------------
(* Arithmetic.                                                              *)

\* Variant of checked_ceil_div: rounds down.
FloorDiv(n, d) == n \div d

\* Up, but below one to the nearest.
checked_ceil_div(n, d) ==
    IF n \div d = 0 THEN IF 2 * n >= d THEN 1 ELSE 0
    ELSE n \div d + (IF n % d > 0 THEN 1 ELSE 0)

Up(n, d) == (n + d - 1) \div d

\* calc_total_without_take_pnl_no_orderbook, vault_amount_without_fee
Own(p, t) == p.vault[t] - p.owed[t]
Solvent(p) == \A t \in Tokens : Own(p, t) >= 0

swap_token_amount_base_in(net, from, to) == (to * net) \div (from + net)
swap_token_amount_base_out(out, from, to) == checked_ceil_div(from * out, to - out)

-----------------------------------------------------------------------------
(* The AMM program.                                                         *)

swap_permission(status) == status \in {"Initialized", "SwapOnly", "WaitingTrade"}
orderbook_permission(status) == status \in {"Initialized", "OrderBookOnly"}

Fee(a) == checked_ceil_div(a * SwapFeeNum, SwapFeeDen)

simulate_swap_base_in(p, from, to, a) ==
    IF ~swap_permission(p.status) \/ ~Solvent(p) THEN Error
    ELSE LET net == a - Fee(a)
         IN  IF Own(p, from) + net = 0 THEN Error
             ELSE Quoted(a, Min({swap_token_amount_base_in(net, Own(p, from), Own(p, to)),
                                 Own(p, to)}))

\* Variant of simulate_swap_base_out: the fee is not added.
BaseOutWithoutFee(p, from, to, a) ==
    IF ~swap_permission(p.status) \/ ~Solvent(p) \/ a >= Own(p, to) THEN Error
    ELSE Quoted(swap_token_amount_base_out(a, Own(p, from), Own(p, to)), a)

\* The fee is taken of the amount before the fee, not of their sum.
simulate_swap_base_out(p, from, to, a) ==
    IF ~swap_permission(p.status) \/ ~Solvent(p) \/ a >= Own(p, to) THEN Error
    ELSE LET s == swap_token_amount_base_out(a, Own(p, from), Own(p, to))
         IN  Quoted(s + Fee(s), a)

\* A frozen vault gives nothing; asked for an exact output, it is not looked at.
AmmQuote(p, from, to, a) ==
    IF p.frozen THEN Quoted(a, 0) ELSE simulate_swap_base_in(p, from, to, a)
AmmQuoteExactOut(p, from, to, a) == simulate_swap_base_out(p, from, to, a)

-----------------------------------------------------------------------------
(* The CP program.                                                          *)

\* raydium_cp_swap's curve, the fees included in the source amount.
CurveBaseInput(a, from, to) ==
    LET net == a - Up(a * SwapFeeNum, SwapFeeDen) IN (to * net) \div (from + net)
CurveBaseOutput(out, from, to) ==
    LET s == Up(from * out, to - out)
        source == Up(s * SwapFeeDen, SwapFeeDen - SwapFeeNum)
        fee == Up(source * SwapFeeNum, SwapFeeDen)
    IN  [source |-> source, fee |-> fee, owners |-> fee \div OwnersPart]

Open(p) == swap_permission(p.status) /\ p.opened

swap_base_input(p, from, to, a) ==
    IF a = 0 \/ ~Solvent(p) THEN Error
    ELSE IF Own(p, from) = 0 /\ a = Up(a * SwapFeeNum, SwapFeeDen) THEN Error
    ELSE Quoted(a, CurveBaseInput(a, Own(p, from), Own(p, to)))

\* The fees are added to a source amount that has them.
swap_base_output(p, from, to, a) ==
    IF a = 0 \/ ~Solvent(p) \/ a >= Own(p, to) THEN Error
    ELSE LET r == CurveBaseOutput(a, Own(p, from), Own(p, to))
         IN  Quoted(r.source + r.fee + r.owners, a)

\* A pool that may not be swapped on, or that is not open yet at the clock's
\* time, gives nothing.
CpQuote(p, from, to, a) ==
    IF ~Open(p) THEN Quoted(0, 0) ELSE swap_base_input(p, from, to, a)
CpQuoteExactOut(p, from, to, a) ==
    IF ~Open(p) THEN Error ELSE swap_base_output(p, from, to, a)

Quote_in(p, from, to, a) ==
    IF p.kind = "amm" THEN AmmQuote(p, from, to, a) ELSE CpQuote(p, from, to, a)
Quote_out(p, from, to, a) ==
    IF p.kind = "amm" THEN AmmQuoteExactOut(p, from, to, a) ELSE CpQuoteExactOut(p, from, to, a)

-----------------------------------------------------------------------------
(* A pool that is traded on.                                                *)

\* initialize takes pools of swap permission that do not trade on a book, and
\* CP pools without a frozen vault.
RaydiumInit ==
    /\ \E k \in Kinds, s \in {"SwapOnly", "WaitingTrade"}, x \in StartVaults, y \in StartVaults,
          o \in BOOLEAN :
          amm = [kind |-> k, status |-> s, opened |-> o, frozen |-> FALSE,
                 vault |-> [x |-> x, y |-> y], owed |-> [x |-> 0, y |-> 0]]
    /\ swap_permission(amm.status) /\ ~orderbook_permission(amm.status)
    /\ trades = 0
RaydiumOff == amm = Off /\ trades = 0

Swapped(p, from, to, q) ==
    [p EXCEPT !.vault[from] = @ + q.in, !.vault[to] = @ - q.out,
              !.status = IF p.kind = "amm" THEN "SwapOnly" ELSE @]

\* The program lets a swap through at the quoted amounts.
Trade(q, from, to) ==
    /\ q.ok /\ q.out > 0 /\ ~amm.frozen
    /\ amm' = Swapped(amm, from, to, q)
    /\ trades' = trades + 1
TradeExactIn ==
    /\ amm # Off /\ trades < MaxTrades
    /\ \E d \in Directions, a \in TradeAmounts : Trade(Quote_in(amm, d[1], d[2], a), d[1], d[2])
TradeExactOut ==
    /\ amm # Off /\ trades < MaxTrades
    /\ \E d \in Directions, a \in TradeAmounts : Trade(Quote_out(amm, d[1], d[2], a), d[1], d[2])

\* The program sets profit or fees aside, opens, is disabled, a vault freezes.
Administer ==
    /\ amm # Off /\ trades < MaxTrades
    /\ \/ \E t \in Tokens : amm.owed[t] < MaxOwed /\ amm' = [amm EXCEPT !.owed[t] = @ + 1]
       \/ ~amm.opened /\ amm' = [amm EXCEPT !.opened = TRUE]
       \/ swap_permission(amm.status) /\ amm' = [amm EXCEPT !.status = "Disabled"]
       \/ ~amm.frozen /\ amm' = [amm EXCEPT !.frozen = TRUE]
    /\ UNCHANGED trades

RaydiumNext == TradeExactIn \/ TradeExactOut \/ Administer

RaydiumSpec == RaydiumInit /\ [][RaydiumNext]_raydium

-----------------------------------------------------------------------------
(* Properties                                                               *)

Product(p) == Own(p, "x") * Own(p, "y")
\* An exact output that costs less than one unit is rounded to the nearest.
BelowOne(p, from, to, out) ==
    out > 0 /\ p.kind = "amm" /\ Own(p, from) * out < Own(p, to) - out

\* The quotes of a pool are ones its reserves can keep: a trade at the quoted
\* amounts, in either mode and direction and after any others, takes nothing the
\* pool has set aside and does not lower the product of its reserves.  An exact
\* output that costs less than one unit does lower it, and may be paid out for
\* nothing, but by no more than half a unit of the input would make up for.
TradesKeepProduct ==
    [][amm # Off /\ amm.vault # amm'.vault =>
          /\ \A t \in Tokens : amm'.vault[t] >= amm'.owed[t]
          /\ \/ Product(amm') >= Product(amm)
             \/ \E d \in Directions :
                   /\ BelowOne(amm, d[1], d[2], amm.vault[d[2]] - amm'.vault[d[2]])
                   /\ 2 * Product(amm') + Own(amm', d[2]) >= 2 * Product(amm)]_raydium

\* An exact-out quote asks for an input: checked_ceil_div, which computes it, is
\* to fail on a small number divided by a big one.
OutputHasAPrice ==
    amm # Off => \A d \in Directions, a \in TradeAmounts :
        LET q == Quote_out(amm, d[1], d[2], a)
        IN  q.ok /\ q.out > 0 /\ Own(amm, d[1]) > 0 => q.in > 0

\* The fee on the fee of an input that has the fee of its net part only, and
\* so on for the fees on it: what it takes to make up for leaving it out.
FeeOnFee(in) == Up((Fee(Fee(in)) + 2) * SwapFeeDen, SwapFeeDen - SwapFeeNum)

\* An exact-out quote, swapped as the exact input the executor sends, gives the
\* output asked for: in full on a CP pool, where quote_exact_out counts the fee
\* twice, and on an AMM pool but for the fee on the fee, which it leaves out.
ExactOutNearlyCovered ==
    amm # Off /\ ~amm.frozen => \A d \in Directions, a \in TradeAmounts :
        LET out == Quote_out(amm, d[1], d[2], a)
            short == IF amm.kind = "cp" THEN 0 ELSE FeeOnFee(out.in)
            in == Quote_in(amm, d[1], d[2], out.in + short)
        IN  out.ok /\ Own(amm, d[1]) > 0 /\ ~BelowOne(amm, d[1], d[2], a) => in.ok /\ in.out >= a
=============================================================================
