----------------------------- MODULE PathCache -----------------------------
(***************************************************************************)
(* What the path discovery cache promises: a map from (pair, mode, amount,  *)
(* bucket of max accounts) to the paths last found for it.  A lookup gives  *)
(* the paths of the nearest live amounts on both sides of the requested     *)
(* one.  Nothing but age, replacement and invalidation removes an entry.    *)
(***************************************************************************)
EXTENDS Integers

CONSTANTS Pairs, Modes, Amounts, Buckets, MaxAge, None

VARIABLES
    now,       \* the wall clock
    stored,    \* the map
    answer     \* of the last step, if it was a lookup

Slots == Pairs \X Modes \X Amounts \X Buckets

Live(e) == e # None /\ (e.timestamp > now \/ now - e.timestamp < MaxAge)

Init == /\ stored = [s \in Slots |-> None]
        /\ answer = None

(* Some expired entries of the slots S go. *)
Forget(S) ==
    LET old == stored  new == stored'
    IN /\ DOMAIN new = Slots
       /\ \A s \in Slots :
             \/ new[s] = old[s]
             \/ s \in S /\ ~Live(old[s]) /\ new[s] = None

(* Some entry is stored, or replaces the one of its slot. *)
Insert ==
    /\ answer' = None
    /\ LET old == stored  new == stored'
       IN \E s \in Slots : new[s] # None /\ new = [old EXCEPT ![s] = new[s]]

Nearest(pair, mode, amount, bucket) ==
    LET old   == stored
        live  == {a \in Amounts : Live(old[<<pair, mode, a, bucket>>])}
        below == {a \in live : a <= amount}
        above == live \ below
        EdgesAt(a) == old[<<pair, mode, a, bucket>>].edges
    IN [lower |-> IF below = {} THEN None
                  ELSE EdgesAt(CHOOSE a \in below : \A b \in below : b <= a),
        upper |-> IF above = {} THEN None
                  ELSE EdgesAt(CHOOSE a \in above : \A b \in above : a <= b)]

Get(pair, mode, amount, bucket) ==
    /\ answer' = Nearest(pair, mode, amount, bucket)
    /\ Forget({s \in Slots : s[1] = pair /\ s[2] = mode})

(* The entries of the pair and bucket go, those for exact out possibly not. *)
Invalidate(pair, bucket) ==
    /\ answer' = None
    /\ LET old == stored  new == stored'
       IN /\ DOMAIN new = Slots
          /\ \A s \in Slots :
                LET hit == s[1] = pair /\ s[4] = bucket
                IN /\ hit /\ s[2] = "ExactIn" => new[s] = None
                   /\ hit /\ s[2] = "ExactOut" => new[s] \in {None, old[s]}
                   /\ ~hit => new[s] = old[s]

Next ==
    \/ answer' = None /\ Forget(Slots)
    \/ Insert
    \/ \E p \in Pairs, m \in Modes, a \in Amounts, b \in Buckets : Get(p, m, a, b)
    \/ \E p \in Pairs, b \in Buckets : Invalidate(p, b)

Spec == Init /\ [][Next]_<<stored, answer>>
=============================================================================
