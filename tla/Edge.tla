-------------------------------- MODULE Edge --------------------------------
(***************************************************************************)
(* The per-edge price cache of the router: EdgeState and the operations on  *)
(* it (bin/autobahn-router/src/edge.rs).  An edge is one direction of one   *)
(* pool.  The updater stores one price per path-warming amount; the router  *)
(* reads them, and a failing swap puts the edge on cooldown.                *)
(*                                                                         *)
(* Data abstraction.  A cached price is the index of its warming amount     *)
(* (amounts ascend with the index) and its kind: "ok" above 1e-7, "zero"    *)
(* otherwise.  priced_at is the data the prices were computed from (the     *)
(* versions of the accounts).  last_update and last_update_slot only feed   *)
(* logs and the context slot of a reply and are left out.                   *)
(***************************************************************************)
EXTENDS Integers

CONSTANTS
    NWarm,     \* path_warming_amounts.len()
    None       \* Option::None

ASSUME EdgeAssumption ==
    /\ NWarm \in Nat
    /\ None \notin Nat

Amount == 1 .. NWarm
Price == {"ok", "zero"}
QuoteResult == Price \union {"nan", "err"}

NoPrices == [i \in {} |-> "zero"]

(* cached_prices: a map from warming amount to price. A list sorted by amount in the code. *)
CachedPrices == UNION {[S -> Price] : S \in SUBSET Amount}

EdgeState(Data) ==
    [cached_prices  : CachedPrices,
     is_valid       : BOOLEAN,
     priced_at      : Data,
     cooldown_event : Nat,
     cooldown_until : Nat \union {None}]

DefaultEdge(data) ==
    [cached_prices |-> NoPrices, is_valid |-> FALSE, priced_at |-> data,
     cooldown_event |-> 0, cooldown_until |-> None]

-----------------------------------------------------------------------------
(* Edge::update without decimals or without a price: the prices stay. *)
Disable(st) == [st EXCEPT !.is_valid = FALSE]

(* Edge::update_internal when some amount saturates at u64::MAX: it returns
   before it looks at the cooldown. *)
AmountOverflow(st) ==
    [st EXCEPT !.is_valid = FALSE, !.cached_prices = NoPrices]

(* Variants of StoreQuotes: NaN prices are stored; errors do not invalidate. *)
StoreQuotesNaN(st, now, quotes, data) ==
    [st EXCEPT
       !.cached_prices = [i \in {j \in Amount : quotes[j] # "err"} |-> quotes[i]],
       !.is_valid = \E j \in Amount : quotes[j] = "ok", !.priced_at = data,
       !.cooldown_until = IF @ # None /\ @ < now THEN None ELSE @]
StoreQuotesLenient(st, now, quotes, data) ==
    [st EXCEPT
       !.cached_prices = [i \in {j \in Amount : quotes[j] \in Price} |-> quotes[i]],
       !.is_valid = \E j \in Amount : quotes[j] = "ok", !.priced_at = data,
       !.cooldown_until = IF @ # None /\ @ < now THEN None ELSE @]

(* Edge::update_internal otherwise: quotes[i] is the outcome for the i-th
   amount; NaN prices and errors are not stored and invalidate the edge. *)
StoreQuotes(st, now, quotes, data) ==
    [st EXCEPT
       !.cached_prices = [i \in {j \in Amount : quotes[j] \in Price} |-> quotes[i]],
       !.is_valid = /\ \A j \in Amount : quotes[j] \in Price
                    /\ \E j \in Amount : quotes[j] = "ok",
       !.priced_at = data,
       !.cooldown_until = IF @ # None /\ @ < now THEN None ELSE @]

-----------------------------------------------------------------------------
IsValid(st) == st.is_valid /\ st.cooldown_until = None

ResetCooldown(st) == [st EXCEPT !.cooldown_until = None]

(* round(n * 1.2^n) for n = 1..5 *)
CooldownFactor == <<1, 3, 5, 8, 12>>

(* Variant of AddCooldown: a later cooldown replaces a longer one. *)
AddCooldownShorter(st, now, duration) ==
    LET event == st.cooldown_event + 1
    IN [st EXCEPT
          !.cooldown_event = event,
          !.cooldown_until = now + duration * CooldownFactor[IF event < 5 THEN event ELSE 5]]

AddCooldown(st, now, duration) ==
    LET event == st.cooldown_event + 1
        until == now + duration * CooldownFactor[IF event < 5 THEN event ELSE 5]
    IN [st EXCEPT
          !.cooldown_event = event,
          !.cooldown_until = IF @ # None /\ @ > until THEN @ ELSE until]

(* cached_price_for: the first cached amount that is at least `amount`
   (NWarm + 1: larger than all of them), else the last one. *)
CachedPriceFor(st, amount) ==
    LET cached == DOMAIN st.cached_prices
        fits   == {i \in cached : i >= amount}
    IN IF ~IsValid(st) \/ cached = {} THEN None
       ELSE IF fits # {} THEN CHOOSE i \in fits : \A j \in fits : i <= j
       ELSE CHOOSE i \in cached : \A j \in cached : j <= i

(* cached_price_exact_out_for evaluates cached_prices.last().unwrap() of a
   valid edge, whatever the amount. *)
ExactOutPanics(st) == IsValid(st) /\ DOMAIN st.cached_prices = {}
=============================================================================
