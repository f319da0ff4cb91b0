------------------------------ MODULE HotMints ------------------------------
(***************************************************************************)
(* The hot mints: the mints that are always hot and the latest requested     *)
(* ones, which the searches prefer.                                         *)
(*   bin/autobahn-router/src/hot_mints.rs                                    *)
(* The deque is a sequence with the latest mint first; the set beside it is  *)
(* kept as the code keeps it, not derived.                                   *)
(***************************************************************************)
EXTENDS Integers, Sequences, SequencesExt, FiniteSets

CONSTANTS AlwaysHot, MaxCount      \* always_hot_mints, keep_latest_count

EmptyHotMints == [unordered |-> {}, ordered |-> <<>>]

\* Variant of add: a mint that is asked for again keeps its place.
AddOnce(h, mint) ==
    IF mint \in AlwaysHot \/ mint \in h.unordered THEN h
    ELSE LET full == Cardinality(h.unordered) >= MaxCount
             rest == IF full THEN Front(h.ordered) ELSE h.ordered
         IN  [unordered |-> Range(rest) \cup {mint}, ordered |-> <<mint>> \o rest]

\* iter().position: the first place of the mint.
Position(ordered, mint) ==
    CHOOSE i \in DOMAIN ordered : ordered[i] = mint /\ \A j \in 1 .. i - 1 : ordered[j] # mint

\* A known mint moves to the front; a new one pushes the oldest out when the
\* set is full.  (MaxCount = 0 would pop an empty deque, a panic.)
add(h, mint) ==
    IF mint \in AlwaysHot THEN h
    ELSE LET known == mint \in h.unordered
             full == Cardinality(h.unordered) >= MaxCount
             oldest == Last(h.ordered)
             ordered == IF known THEN RemoveAt(h.ordered, Position(h.ordered, mint))
                        ELSE IF full THEN Front(h.ordered) ELSE h.ordered
             unordered == IF ~known /\ full THEN h.unordered \ {oldest} ELSE h.unordered
         IN  [unordered |-> unordered \cup {mint}, ordered |-> <<mint>> \o ordered]

get(h) == h.unordered \cup AlwaysHot
=============================================================================
