------------------------------ MODULE OrcaTicks ------------------------------
(***************************************************************************)
(* The tick arrays of an Orca whirlpool: the ones listed for its edges on     *)
(* start, and the ones a quote fetches when the pool's tick has moved since.  *)
(*   lib/dex-orca/src/orca.rs, orca_dex.rs                                    *)
(*                                                                         *)
(* A tick array is known by its start tick (tick_array_pk is one to one).     *)
(* The swap computation is the whirlpool client's: here it moves the tick     *)
(* somewhere between where it was and the price limit it is given.          *)
(***************************************************************************)
EXTENDS Integers, FiniteSets

CONSTANTS
    TICK_ARRAY_SIZE, MIN_TICK_INDEX, MAX_TICK_INDEX,
    TICK_ARRAY_SCAN_RANGE,
    Spacings, StartTicks,
    NoArray,
    MaxCreated          \* bound on the arrays created after the start

ASSUME OrcaAssumption ==
    /\ TICK_ARRAY_SIZE \in Nat \ {0} /\ TICK_ARRAY_SCAN_RANGE \in Nat
    /\ {MIN_TICK_INDEX, MAX_TICK_INDEX} \subseteq Int
    /\ MIN_TICK_INDEX < 0 /\ MAX_TICK_INDEX > 0
    /\ Spacings \subseteq Nat \ {0}
    /\ StartTicks \subseteq MIN_TICK_INDEX .. MAX_TICK_INDEX
    /\ NoArray \notin Int

VARIABLES
    whirlpool,     \* [spacing, tick, first]: first is its tick on start
    listed,        \* tick arrays in edges_per_pk
    tick_arrays,   \* tick arrays that exist on chain
    created
orca == <<whirlpool, listed, tick_arrays, created>>

NoPool == [spacing |-> 0]
Abs(n) == IF n < 0 THEN -n ELSE n

-----------------------------------------------------------------------------
(* Which arrays.                                                            *)

PerArray(spacing) == TICK_ARRAY_SIZE * spacing

\* %, of the sign of the dividend
Rem(a, b) == IF a < 0 THEN -(Abs(a) % b) ELSE a % b

\* Variant of derive_start_tick: rounds toward zero.
StartTowardZero(tick, spacing) == tick - Rem(tick, PerArray(spacing))

derive_start_tick(tick, spacing) ==
    LET n == PerArray(spacing)
        rem == Rem(tick, n)
    IN  IF tick < 0 /\ rem # 0 THEN tick - rem - n ELSE tick - rem

derive_first_tick_array_start_tick(tick, spacing, shifted) ==
    derive_start_tick(IF shifted THEN tick + spacing ELSE tick, spacing)

derive_next_start_tick_in_seq(start, spacing, a_to_b) ==
    LET next == IF a_to_b THEN start - PerArray(spacing) ELSE start + PerArray(spacing)
    IN  IF start # NoArray /\ next < MAX_TICK_INDEX /\ next > MIN_TICK_INDEX THEN next ELSE NoArray

derive_tick_array_start_indexes(tick, spacing, a_to_b) ==
    LET first == derive_first_tick_array_start_tick(tick, spacing, ~a_to_b)
        second == derive_next_start_tick_in_seq(first, spacing, a_to_b)
        third == IF second = NoArray THEN NoArray
                 ELSE derive_next_start_tick_in_seq(second, spacing, a_to_b)
    IN  <<first, second, third>>

\* Tick::check_is_valid_start_tick: the lowest array may begin below the least tick.
check_is_valid_start_tick(start, spacing) ==
    IF start \in MIN_TICK_INDEX .. MAX_TICK_INDEX THEN Rem(start, PerArray(spacing)) = 0
    ELSE start <= MIN_TICK_INDEX /\ start = derive_start_tick(MIN_TICK_INDEX, spacing)

\* TICK_ARRAY_SCAN_RANGE arrays, half of them below the current one.
whirlpool_tick_array_pks(tick, spacing) ==
    LET lowest == derive_start_tick(tick, spacing)
                     - (TICK_ARRAY_SCAN_RANGE \div 2) * PerArray(spacing)
    IN  {start \in {lowest + i * PerArray(spacing) : i \in 0 .. TICK_ARRAY_SCAN_RANGE - 1} :
            check_is_valid_start_tick(start, spacing)}

-----------------------------------------------------------------------------
(* The quote.                                                               *)

\* The arrays that exist, the first of which must.
fetch_tick_arrays(starts) ==
    IF starts[1] \notin tick_arrays THEN <<>>
    ELSE [i \in 1 .. 3 |-> IF starts[i] \in tick_arrays THEN starts[i] ELSE NoArray]

derive_last_tick_in_array(start, spacing, a_to_b) ==
    LET last == IF a_to_b THEN start ELSE start + PerArray(spacing) - 1
    IN  IF last > MAX_TICK_INDEX THEN MAX_TICK_INDEX
        ELSE IF last < MIN_TICK_INDEX THEN MIN_TICK_INDEX ELSE last

derive_last_tick_in_seq(arrays, spacing, a_to_b) ==
    LET last == IF arrays[3] # NoArray THEN arrays[3]
                ELSE IF arrays[2] # NoArray THEN arrays[2] ELSE arrays[1]
    IN  derive_last_tick_in_array(last, spacing, a_to_b)

\* simulate_swap_with_tick_array as far as the call of the client's swap.
SwapWindow(w, a_to_b) ==
    LET arrays == fetch_tick_arrays(derive_tick_array_start_indexes(w.tick, w.spacing, a_to_b))
    IN  IF arrays = <<>> THEN [ok |-> FALSE, arrays |-> {}, limit |-> w.tick]
        ELSE [ok |-> TRUE, arrays |-> {arrays[i] : i \in 1 .. 3} \ {NoArray},
              limit |-> derive_last_tick_in_seq(arrays, w.spacing, a_to_b)]

-----------------------------------------------------------------------------
(* The pool, from the start of the router on.                               *)

OrcaInit ==
    \E s \in Spacings, t \in StartTicks :
        /\ whirlpool = [spacing |-> s, tick |-> t, first |-> t]
        /\ listed = whirlpool_tick_array_pks(t, s)
        /\ tick_arrays = {derive_start_tick(t, s)}
        /\ created = 0
OrcaOff == whirlpool = NoPool /\ listed = {} /\ tick_arrays = {} /\ created = 0

\* A position opens, in an array that was not there.
CreateArray ==
    /\ whirlpool # NoPool /\ created < MaxCreated
    /\ \E tick \in MIN_TICK_INDEX .. MAX_TICK_INDEX :
          LET start == derive_start_tick(tick, whirlpool.spacing)
          IN  start \notin tick_arrays /\ tick_arrays' = tick_arrays \cup {start}
    /\ created' = created + 1
    /\ UNCHANGED <<whirlpool, listed>>

\* A swap goes through within the window a quote would give it.
SwapOnPool ==
    /\ whirlpool # NoPool
    /\ \E a_to_b \in BOOLEAN : \E w \in {SwapWindow(whirlpool, a_to_b)} :
          /\ w.ok
          /\ \E t \in IF a_to_b THEN w.limit .. whirlpool.tick ELSE whirlpool.tick .. w.limit :
                whirlpool' = [whirlpool EXCEPT !.tick = t]
    /\ UNCHANGED <<listed, tick_arrays, created>>

OrcaNext == CreateArray \/ SwapOnPool

OrcaSpec == OrcaInit /\ [][OrcaNext]_orca

-----------------------------------------------------------------------------
(* Properties                                                               *)

\* The arrays the pool has moved by since the start.
Drift == (derive_start_tick(whirlpool.tick, whirlpool.spacing)
              - derive_start_tick(whirlpool.first, whirlpool.spacing)) \div PerArray(whirlpool.spacing)

\* Wherever the tick has gone, above or below zero, a quote swaps within arrays
\* that hold the tick it starts from and toward a limit ahead of it; and until
\* the tick has moved by about half the range listed on start, an update of any
\* array a quote reads reaches the pool's edges.
WindowFollowsTick ==
    whirlpool # NoPool => \A a_to_b \in BOOLEAN :
        LET w == SwapWindow(whirlpool, a_to_b)
            spacing == whirlpool.spacing
            from == IF a_to_b THEN whirlpool.tick ELSE whirlpool.tick + spacing
        IN  w.ok =>
              /\ \E start \in w.arrays : from \in start .. start + PerArray(spacing) - 1
              /\ IF a_to_b THEN w.limit <= whirlpool.tick ELSE w.limit >= whirlpool.tick
              /\ Drift \in 2 - (TICK_ARRAY_SCAN_RANGE \div 2) .. (TICK_ARRAY_SCAN_RANGE - 1) \div 2 - 3
                    => w.arrays \subseteq listed
=============================================================================
