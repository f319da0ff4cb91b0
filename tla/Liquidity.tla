------------------------------ MODULE Liquidity ------------------------------
(***************************************************************************)
(* How much of a token can be bought: the liquidity updater measures every    *)
(* edge in turn by doubling the input until the price gives way, and the      *)
(* provider adds the edges of a mint up for /liquidity.                      *)
(*   bin/autobahn-router/src/liquidity/*.rs                                   *)
(*                                                                         *)
(* A pool is its reserves, quoted by the constant product.  An edge without   *)
(* cached prices is not measured.  AmountMax stands for u64::MAX.            *)
(***************************************************************************)
EXTENDS Integers, FiniteSets, FiniteSetsExt

CONSTANTS
    LiquidEdges,           \* of one output mint
    Reserves,              \* pairs <<in, out>> a pool can have
    FirstAmounts,          \* the smallest cached input amount; 0 is one too
    MaxQuotable,           \* the pool fails to quote more
    MaxIterations,         \* 50
    AmountMax,             \* u64::MAX
    NoLiquidity,
    MaxRefreshes           \* bound

ASSUME LiquidityAssumption ==
    /\ Reserves \subseteq Nat \X Nat
    /\ {MaxIterations, AmountMax, MaxRefreshes} \subseteq Nat /\ AmountMax > 0
    /\ MaxQuotable \in 0 .. AmountMax /\ FirstAmounts \subseteq 0 .. AmountMax
    /\ IsFiniteSet(LiquidEdges) /\ NoLiquidity \notin LiquidEdges \cup Nat

VARIABLES
    reserves,              \* reserves[e], as the chain data has them
    first_amount,          \* first_amount[e], NoLiquidity before the first price
    liquidity_by_mint,     \* what set_liquidity stored for e
    measure,               \* compute_liquidity under way
    refreshes
liquidity == <<reserves, first_amount, liquidity_by_mint, measure, refreshes>>

Idling == [edge |-> NoLiquidity]

LiquidityInit ==
    /\ reserves \in [LiquidEdges -> Reserves]
    /\ first_amount \in [LiquidEdges -> FirstAmounts \cup {NoLiquidity}]
    /\ liquidity_by_mint = [e \in LiquidEdges |-> NoLiquidity]
    /\ measure = Idling /\ refreshes = 0
LiquidityOff ==
    /\ reserves = [e \in LiquidEdges |-> <<0, 0>>]
    /\ first_amount = [e \in LiquidEdges |-> NoLiquidity]
    /\ liquidity_by_mint = [e \in LiquidEdges |-> NoLiquidity]
    /\ measure = Idling /\ refreshes = MaxRefreshes

Saturated(n) == Min({n, AmountMax})

\* quote(..).unwrap_or(0)
OutAmount(r, a) ==
    IF a > MaxQuotable \/ r[1] + a = 0 THEN 0 ELSE (r[2] * a) \div (r[1] + a)

\* edge.prepare reads the pool once, for the whole measurement.
StartMeasure ==
    /\ measure = Idling /\ refreshes < MaxRefreshes
    /\ refreshes' = refreshes + 1
    /\ \E e \in LiquidEdges :
          /\ first_amount[e] # NoLiquidity
          /\ measure' = [edge |-> e, pool |-> reserves[e], first |-> first_amount[e],
                         iter |-> 0, has_failed |-> FALSE, next_in |-> first_amount[e],
                         last_in |-> first_amount[e], last_out |-> 0]
    /\ UNCHANGED <<reserves, first_amount, liquidity_by_mint>>

MayGoOn(m) == m.next_in # 0 /\ m.iter <= MaxIterations

\* Less than 1.7 times the output before.
TooLittle(m, out) == 10 * out < 17 * m.last_out

\* One round of the loop.
QuoteStep ==
    /\ measure # Idling /\ MayGoOn(measure)
    /\ \E m \in {measure} : \E out \in {OutAmount(m.pool, m.next_in)} :
          /\ ~(TooLittle(m, out) /\ m.has_failed)
          /\ measure' =
                IF TooLittle(m, out)
                THEN [m EXCEPT !.iter = @ + 1, !.has_failed = TRUE,
                               !.next_in = Saturated(m.next_in + m.last_in) \div 2]
                ELSE [m EXCEPT !.iter = @ + 1, !.last_in = m.next_in, !.last_out = out,
                               !.next_in = Saturated(2 * m.next_in)]
    /\ UNCHANGED <<reserves, first_amount, liquidity_by_mint, refreshes>>

\* Variant of Result: the output that was refused.
LastTried(m) == OutAmount(m.pool, m.next_in)

Result(m) == m.last_out

\* The loop ends, and the provider stores the result.
EndMeasure ==
    /\ measure # Idling
    /\ \/ ~MayGoOn(measure)
       \/ measure.has_failed /\ TooLittle(measure, OutAmount(measure.pool, measure.next_in))
    /\ liquidity_by_mint' = [liquidity_by_mint EXCEPT ![measure.edge] = Result(measure)]
    /\ measure' = Idling
    /\ UNCHANGED <<reserves, first_amount, refreshes>>

\* The pool trades, and the edge gets its first price, meanwhile.
PoolMoves ==
    /\ refreshes < MaxRefreshes
    /\ \E e \in LiquidEdges, r \in Reserves :
          reserves' = [reserves EXCEPT ![e] = r]
    /\ UNCHANGED <<first_amount, liquidity_by_mint, measure, refreshes>>

LiquidityNext == StartMeasure \/ QuoteStep \/ EndMeasure \/ PoolMoves

LiquiditySpec == LiquidityInit /\ [][LiquidityNext]_liquidity

\* An edge that was not measured yet adds nothing.
AmountOf(stored) ==
    [e \in LiquidEdges |-> IF stored[e] = NoLiquidity THEN 0 ELSE stored[e]]

get_total_liquidity_native(stored) ==
    LET amounts == AmountOf(stored)
    IN  Saturated(MapThenSumSet(LAMBDA e : amounts[e], LiquidEdges))

-----------------------------------------------------------------------------
(* Properties                                                               *)

\* What compute_liquidity stores can really be bought: it is the quote of the
\* last input that was accepted, at which doubling the input costs more than
\* the accepted price impact (or the rounds are used up); storing it never
\* lowers the mint's total by more than the edge's own change.
LiquidityIsMeasured ==
    [][measure # Idling /\ measure' = Idling =>
          LET m == measure
              stored == liquidity_by_mint'[m.edge]
              before == get_total_liquidity_native(liquidity_by_mint)
              after == get_total_liquidity_native(liquidity_by_mint')
          IN  /\ stored = IF m.first = 0 THEN 0 ELSE OutAmount(m.pool, m.last_in)
              /\ \/ m.first = 0 \/ m.iter > MaxIterations
                 \/ 10 * OutAmount(m.pool, 2 * m.last_in) < 17 * stored
              /\ \/ after >= before
                 \/ liquidity_by_mint[m.edge] # NoLiquidity /\ stored < liquidity_by_mint[m.edge]
      ]_liquidity
=============================================================================
