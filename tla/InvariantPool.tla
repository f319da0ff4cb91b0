---------------------------- MODULE InvariantPool ----------------------------
(***************************************************************************)
(* The quote of an Invariant pool: the initialised ticks around the price    *)
(* are found in a slice of the pool's bitmap, a few of them are loaded, and  *)
(* the swap is simulated tick by tick.                                      *)
(*   lib/dex-invariant/src/invariant_dex.rs, invariant_edge.rs,               *)
(*   internal/swap.rs, internal/invariant-types/src/math.rs, structs/tickmap.rs *)
(*                                                                         *)
(* Data abstraction.  The tick spacing is 1.  The square root of the price   *)
(* is a point on a line with PerTick points to a tick; moving it by d points *)
(* in liquidity L takes L * d of either token.  The bitmap is the set of     *)
(* initialised ticks; bytes have ByteBits bits.  All constants of the code   *)
(* are parameters.                                                          *)
(***************************************************************************)
EXTENDS Integers, Sequences, SequencesExt, FiniteSets, FiniteSetsExt

CONSTANTS
    TICK_LIMIT, TICK_SEARCH_RANGE, MAX_TICK,     \* 44364, 256, 221818
    TICK_CROSSES_PER_IX, TICKS_BACK_COUNT, MAX_VIRTUAL_CROSS,   \* 4, 1, 10
    ByteBits, PerTick,
    FeeNum, FeeDen,
    Positions,           \* sets of [lower, upper, liquidity]: the pools
    Prices, Amounts,     \* of the pool, of the swap
    NoTick

ASSUME InvariantAssumption ==
    /\ {TICK_LIMIT, TICK_SEARCH_RANGE, MAX_TICK, TICK_CROSSES_PER_IX, ByteBits,
        PerTick, FeeDen} \subseteq Nat \ {0}
    /\ {TICKS_BACK_COUNT, MAX_VIRTUAL_CROSS, FeeNum} \subseteq Nat
    /\ FeeNum < FeeDen
    /\ \A ps \in Positions : IsFiniteSet(ps) /\ \A p \in ps :
          /\ {p.lower, p.upper} \subseteq Int /\ p.lower < p.upper
          /\ p.liquidity \in Nat \ {0}
    /\ Prices \subseteq Int /\ Amounts \subseteq Nat /\ NoTick \notin Int

VARIABLES
    positions,     \* of the pool
    x_to_y,
    amount,        \* asked for
    view,          \* TickmapSlice: [first, last], the bytes it holds
    ticks,         \* InvariantEdge.ticks: the indexes of the loaded ticks
    next,          \* current_tick_array_index
    pool,          \* [price, tick, liquidity]
    remaining, total_in, total_out, used_ticks, virtual_cross_counter,
    pc             \* "off", "load", "swap", "done", "failed", "panic"

chain == <<positions, x_to_y, amount>>
edge == <<view, ticks>>
invariant == <<chain, edge, next, pool, remaining, total_in, total_out, used_ticks,
          virtual_cross_counter, pc>>

-----------------------------------------------------------------------------
(* What the chain holds.                                                    *)

Initialized == {p.lower : p \in positions} \cup {p.upper : p \in positions}
SumOf(ps) ==
    LET of == [p \in ps |-> p.liquidity] IN MapThenSumSet(LAMBDA p : of[p], ps)
\* A tick's liquidity_change, with its sign, and the liquidity at a tick.
Net(t) == SumOf({p \in positions : p.lower = t}) - SumOf({p \in positions : p.upper = t})
LiquidityAt(t) == SumOf({p \in positions : p.lower <= t /\ t < p.upper})

get_max_tick == Min({TICK_LIMIT - 1, MAX_TICK})
get_min_tick == Max({1 - TICK_LIMIT, -MAX_TICK})
calculate_price_sqrt(t) == t * PerTick
get_tick_at_sqrt_price(p) == p \div PerTick       \* \div rounds down

-----------------------------------------------------------------------------
(* The bitmap.                                                              *)

Position(t) == t + TICK_LIMIT
Byte(t) == Position(t) \div ByteBits
TICKMAP_SLICE_SIZE ==
    ((TICK_CROSSES_PER_IX + TICKS_BACK_COUNT + MAX_VIRTUAL_CROSS) * TICK_SEARCH_RANGE)
        \div ByteBits + 2

\* As the code's constants are: 8 bits, a range of 256, bytes that 2 * 44364 fills,
\* and 14 crossings.  Every crossing down may go one tick past the search range,
\* which the spare bytes of the slice make up for.
ASSUME SliceAssumption ==
    /\ TICKS_BACK_COUNT >= 1 /\ TICK_SEARCH_RANGE >= 2 * ByteBits
    /\ (2 * TICK_LIMIT) % ByteBits = 0
    /\ TICKMAP_SLICE_SIZE <= (2 * TICK_LIMIT) \div ByteBits
    /\ TICK_CROSSES_PER_IX + MAX_VIRTUAL_CROSS <= 2 * ByteBits + 2
    /\ \A p \in Prices : get_tick_at_sqrt_price(p) \in get_min_tick .. get_max_tick

\* The slice looks ahead from one search range behind the current tick.
from_slice(t, down) ==
    LET offset == IF down THEN TICK_SEARCH_RANGE - TICKMAP_SLICE_SIZE * ByteBits - ByteBits
                          ELSE ByteBits - TICK_SEARCH_RANGE
        wanted == (Position(t) + offset) \div ByteBits
        first == Min({Max({wanted, 0}), (2 * TICK_LIMIT) \div ByteBits - TICKMAP_SLICE_SIZE})
    IN  [first |-> first, last |-> first + TICKMAP_SLICE_SIZE - 1]

InView(t) == view.first <= Byte(t) /\ Byte(t) <= view.last

get_search_limit(t, up) ==
    IF up THEN Min({TICK_LIMIT - 1, t + TICK_SEARCH_RANGE, MAX_TICK})
          ELSE Max({1 - TICK_LIMIT, t - TICK_SEARCH_RANGE, -MAX_TICK})

\* The bytes next_initialized and prev_initialized may look at.
Scanned(t, up) ==
    LET limit == get_search_limit(t, up)
    IN  {Byte(i) : i \in IF up THEN t + 1 .. limit ELSE limit .. t}

\* The set bits of a byte at or past a bit, in the direction.
Bits(b, t, up) ==
    {i \in Initialized : Byte(i) = b /\ (IF up THEN i > t ELSE i <= t)}

\* Variant of next_initialized: the search starts at the tick itself.
NextOrSame(t) ==
    LET found == {i \in Initialized : t <= i /\ i <= get_search_limit(t, TRUE)}
    IN  IF found = {} THEN NoTick ELSE Min(found)

\* Byte by byte: the first byte with a set bit past the tick decides, even when
\* that bit is past the limit.
next_initialized(t) ==
    LET limit == get_search_limit(t, TRUE)
        hit == {b \in Scanned(t, TRUE) : Bits(b, t, TRUE) # {}}
    IN  IF hit = {} THEN NoTick
        ELSE LET i == Min(Bits(Min(hit), t, TRUE)) IN IF i <= limit THEN i ELSE NoTick

prev_initialized(t) ==
    LET limit == get_search_limit(t, FALSE)
        hit == {b \in Scanned(t, FALSE) : Bits(b, t, FALSE) # {}}
    IN  IF hit = {} THEN NoTick
        ELSE LET i == Max(Bits(Max(hit), t, FALSE)) IN IF i >= limit THEN i ELSE NoTick

\* get_closer_limit: where the step ends, which tick that is and whether it is
\* initialised; LimitReached at the end of the map.
get_closer_limit(t) ==
    LET found == IF x_to_y THEN prev_initialized(t) ELSE next_initialized(t)
        index == IF found # NoTick THEN found ELSE get_search_limit(t, ~x_to_y)
        last == IF x_to_y THEN get_min_tick ELSE get_max_tick
        inside == IF x_to_y THEN index > last ELSE index < last
    IN  [error |-> found = NoTick /\ index = t,
         price |-> calculate_price_sqrt(IF inside THEN index ELSE last),
         tick |-> IF inside THEN index ELSE NoTick,
         initialized |-> found # NoTick]

-----------------------------------------------------------------------------
(* The loaded ticks.                                                        *)

\* The ticks of the view in the order of the scan, which passes the ticks
\* behind the price first and keeps only the last of them.
Ahead(t) == IF x_to_y THEN t <= pool.tick ELSE t > pool.tick
InOrder(ts) ==
    [i \in 1 .. Cardinality(ts) |->
        CHOOSE t \in ts : Cardinality({u \in ts : IF x_to_y THEN u >= t ELSE u <= t}) = i]

\* Variant of find_closest_tick_indexes: the ticks behind the price all count.
AllSeen(seen) == SubSeq(InOrder(seen), 1, Min({TICK_CROSSES_PER_IX, Cardinality(seen)}))

find_closest_tick_indexes(seen) ==
    LET behind == {t \in seen : ~Ahead(t)}
        nearest == IF behind = {} THEN {} ELSE {IF x_to_y THEN Min(behind) ELSE Max(behind)}
        found == InOrder(nearest \cup {t \in seen : Ahead(t)})
    IN  SubSeq(found, 1, Min({TICK_CROSSES_PER_IX, Len(found)}))

\* Quotes are asked for pools whose tick is where the price is.
InvariantInit ==
    /\ positions \in Positions /\ x_to_y \in BOOLEAN /\ amount \in Amounts
    /\ \E p \in Prices : pool = [price |-> p, tick |-> get_tick_at_sqrt_price(p),
                                 liquidity |-> LiquidityAt(get_tick_at_sqrt_price(p))]
    /\ view = [first |-> 0, last |-> 0] /\ ticks = <<>> /\ next = 1
    /\ remaining = amount /\ total_in = 0 /\ total_out = 0
    /\ used_ticks = <<>> /\ virtual_cross_counter = 0
    /\ pc = "load"

InvariantOff ==
    /\ positions = {} /\ x_to_y = TRUE /\ amount = 0
    /\ pool = [price |-> 0, tick |-> 0, liquidity |-> 0]
    /\ view = [first |-> 0, last |-> 0] /\ ticks = <<>> /\ next = 1
    /\ remaining = 0 /\ total_in = 0 /\ total_out = 0
    /\ used_ticks = <<>> /\ virtual_cross_counter = 0
    /\ pc = "off"

SeenIn(v) == {t \in Initialized : v.first <= Byte(t) /\ Byte(t) <= v.last}

\* load_edge, and the start of simulate_invariant_swap: the loaded ticks that
\* are behind the price are skipped.
Load ==
    /\ pc = "load"
    /\ view' = from_slice(pool.tick, x_to_y)
    /\ ticks' = find_closest_tick_indexes(SeenIn(view'))
    /\ next' = 1 + Cardinality({i \in DOMAIN ticks' : ~Ahead(ticks'[i])})
    /\ pc' = "swap"
    /\ UNCHANGED <<chain, pool, remaining, total_in, total_out, used_ticks,
                   virtual_cross_counter>>

\* The chain data does not hold the account of a tick to load: no edge.
LoadFails ==
    /\ pc = "load"
    /\ find_closest_tick_indexes(SeenIn(from_slice(pool.tick, x_to_y))) # <<>>
    /\ pc' = "failed"
    /\ UNCHANGED <<chain, edge, next, pool, remaining, total_in, total_out, used_ticks,
                   virtual_cross_counter>>

-----------------------------------------------------------------------------
(* The simulation: one action per way through the loop.                     *)

AfterFee(a) == (a * (FeeDen - FeeNum)) \div FeeDen
Distance(a, b) == IF a < b THEN b - a ELSE a - b
CeilDivide(a, b) == (a + b - 1) \div b

\* How far the input carries the price, rounded against the swap.
get_next_sqrt_price_x_up(price, liquidity, a) == price - a \div liquidity
get_next_sqrt_price_y_down(price, liquidity, a) == price + a \div liquidity
get_next_sqrt_price_from_input(price, liquidity, a) ==
    IF x_to_y THEN get_next_sqrt_price_x_up(price, liquidity, a)
    ELSE get_next_sqrt_price_y_down(price, liquidity, a)

\* compute_swap_step by amount in.
compute_swap_step(price, target, liquidity, a) ==
    IF liquidity = 0 THEN [price |-> target, in |-> 0, out |-> 0, fee |-> 0]
    ELSE LET reaches == AfterFee(a) >= liquidity * Distance(price, target)
             to == IF reaches THEN target
                   ELSE get_next_sqrt_price_from_input(price, liquidity, AfterFee(a))
             in == liquidity * Distance(price, to)
         IN  [price |-> to, in |-> in, out |-> in,
              fee |-> IF to # target THEN a - in ELSE CeilDivide(in * FeeNum, FeeDen)]

is_enough_amount_to_push_price(a, liquidity) ==
    liquidity = 0 \/ AfterFee(a) \div liquidity > 0

break_swap_loop_early(used, virtual) ==
    used + virtual >= TICK_CROSSES_PER_IX + MAX_VIRTUAL_CROSS \/ TICK_CROSSES_PER_IX <= used

Looping == pc = "swap" /\ remaining > 0
\* Every byte the search looks at, up to the first with a set bit, is in the
\* view; any other is a panic.
Readable ==
    LET up == ~x_to_y
        hit == {b \in Scanned(pool.tick, up) : Bits(b, pool.tick, up) # {}}
    IN  \A b \in Scanned(pool.tick, up) :
           (\A h \in hit : IF up THEN b <= h ELSE b >= h) => view.first <= b /\ b <= view.last

ReadOutside ==
    /\ Looping /\ ~Readable
    /\ pc' = "panic"
    /\ UNCHANGED <<chain, edge, next, pool, remaining, total_in, total_out, used_ticks,
                   virtual_cross_counter>>

Left(step) == remaining - (step.in + step.fee)
Enough(step) == is_enough_amount_to_push_price(Left(step), pool.liquidity)

\* No tick is left, the price limit is reached with something remaining, or
\* the pool is at its last tick.
Insufficient(limit, step) ==
    \/ limit.error
    \/ limit.tick = NoTick /\ step.price = limit.price /\ Left(step) > 0
    \/ IF x_to_y THEN pool.tick <= get_min_tick ELSE pool.tick >= get_max_tick

InsufficientLiquidity(limit, step) ==
    /\ Insufficient(limit, step)
    /\ pc' = "failed"
    /\ UNCHANGED <<chain, edge, next, pool, remaining, total_in, total_out, used_ticks,
                   virtual_cross_counter>>

TickAfter(t, step) == IF x_to_y /\ Enough(step) THEN t - 1 ELSE t

Taken(step, crosses) == IF crosses THEN step.in + step.fee ELSE remaining

cross_tick_no_fee_growth_update(t) ==
    IF x_to_y THEN pool.liquidity - Net(t) ELSE pool.liquidity + Net(t)

\* An initialised tick is reached.  It is applied when it is the next loaded
\* one; an unloaded one counts as a tick without liquidity.  Going down, what
\* is too little to enter the tick is taken without a return.
CrossTick(limit, step) ==
    /\ limit.tick # NoTick /\ limit.initialized /\ step.price = limit.price
    /\ \E loaded \in {next <= Len(ticks) /\ ticks[next] = limit.tick} :
       \E crosses \in {~x_to_y \/ Enough(step)} :
       \E liquidity \in {IF crosses /\ loaded THEN cross_tick_no_fee_growth_update(limit.tick)
                         ELSE pool.liquidity} :
           /\ used_ticks' = Append(used_ticks, limit.tick)
           /\ next' = IF loaded THEN next + 1 ELSE next
           /\ remaining' = IF crosses THEN Left(step) ELSE 0
           /\ total_in' = total_in + Taken(step, crosses)
           /\ pool' = [price |-> step.price, tick |-> TickAfter(limit.tick, step),
                       liquidity |-> liquidity]
           /\ pc' = IF liquidity < 0 THEN "failed" ELSE "swap"
    /\ UNCHANGED virtual_cross_counter

\* The end of the search range, or a price between two ticks.
CountVirtual(step, tick) ==
    /\ virtual_cross_counter' = virtual_cross_counter + 1
    /\ remaining' = Left(step)
    /\ total_in' = total_in + step.in + step.fee
    /\ pool' = [pool EXCEPT !.price = step.price, !.tick = tick]
    /\ pc' = IF break_swap_loop_early(Len(used_ticks), virtual_cross_counter')
             THEN "failed" ELSE "swap"
    /\ UNCHANGED <<next, used_ticks>>

CrossVirtual(limit, step) ==
    /\ limit.tick # NoTick /\ ~limit.initialized /\ step.price = limit.price
    /\ CountVirtual(step, TickAfter(limit.tick, step))

StopBetween(limit, step) ==
    /\ limit.tick = NoTick \/ step.price # limit.price
    /\ CountVirtual(step, get_tick_at_sqrt_price(step.price))

SwapStep ==
    /\ Looping /\ Readable
    /\ \E limit \in {get_closer_limit(pool.tick)} :
       \E step \in {compute_swap_step(pool.price, limit.price, pool.liquidity, remaining)} :
          \/ InsufficientLiquidity(limit, step)
          \/ /\ ~Insufficient(limit, step)
             /\ total_out' = total_out + step.out
             /\ \/ CrossTick(limit, step)
                \/ CrossVirtual(limit, step)
                \/ StopBetween(limit, step)
             /\ UNCHANGED <<chain, edge>>

Quote ==
    /\ pc = "swap" /\ remaining = 0
    /\ pc' = "done"
    /\ UNCHANGED <<chain, edge, next, pool, remaining, total_in, total_out, used_ticks,
                   virtual_cross_counter>>

InvariantNext ==
    Load \/ LoadFails \/ ReadOutside \/ SwapStep \/ Quote

InvariantSpec == InvariantInit /\ [][InvariantNext]_invariant

-----------------------------------------------------------------------------
(* Properties                                                               *)

\* The byte-wise searches of TickmapView find the nearest initialised tick of
\* the search range, strictly above the current one, or at or below it; and the
\* slice of the bitmap covers all crossings break_swap_loop_early allows: a
\* read past it, a panic in TickmapSlice::index, takes a step past them.
TickSearchIsSound ==
    LET t == pool.tick
        up == {i \in Initialized : t < i /\ i <= get_search_limit(t, TRUE)}
        down == {i \in Initialized : get_search_limit(t, FALSE) <= i /\ i <= t}
    IN  /\ next_initialized(t) = IF up = {} THEN NoTick ELSE Min(up)
        /\ prev_initialized(t) = IF down = {} THEN NoTick ELSE Max(down)
        /\ pc = "panic" =>
             Len(used_ticks) + virtual_cross_counter >= TICK_CROSSES_PER_IX + MAX_VIRTUAL_CROSS

\* Every step of the simulation swaps against the pool's real liquidity: for as many ticks
\* as it may cross with TICKS_BACK_COUNT of the loaded ones behind the price,
\* it applies the right loaded tick at each.
SimulatedLiquidityIsReal ==
    Looping /\ Len(used_ticks) <= TICK_CROSSES_PER_IX - TICKS_BACK_COUNT
        => pool.liquidity = LiquidityAt(pool.tick)

\* The instruction of a quote names no more ticks than accounts_needed has
\* reserved accounts for, TICK_CROSSES_PER_IX + TICKS_BACK_COUNT: what the sum
\* in InvariantEdgeIdentifier::accounts_needed says.
QuoteUsesReservedTicks ==
    pc = "done" => Len(used_ticks) <= TICK_CROSSES_PER_IX + TICKS_BACK_COUNT
=============================================================================
