----------------------------- MODULE MCRouting -----------------------------
(* Instances of Routing over three mints and the edges 1-2, 2-3 and 1-3. *)
EXTENDS Routing, TLC

CONSTANTS ab, bc, ac, r1, r2

MCInputMint  == [e \in Edges |-> IF e = bc THEN 2 ELSE 1]
MCOutputMint == [e \in Edges |-> IF e = ab THEN 2 ELSE 3]

(* The path ab, bc needs more than max_accounts = 15 leaves, and fits 19, which
   is of the same bucket; 14 is of the bucket below. *)
MCAccountsNeeded == [e \in Edges |-> IF e = bc THEN 5 ELSE 4]

Ask(from, to, mode, amount, max_accounts) ==
    [input |-> from, output |-> to, mode |-> mode, amount |-> amount,
     max_accounts |-> max_accounts]

AskedIn    == {Ask(1, 3, "ExactIn", 5, 15), Ask(1, 3, "ExactIn", 6, 19),
               Ask(1, 3, "ExactIn", 6, 14)}
AskedBack  == {Ask(3, 1, "ExactOut", 5, 19)}
AskedHop   == {Ask(1, 2, "ExactIn", 5, 19)}
AskedOut   == {Ask(1, 2, "ExactOut", 5, 19)}
AskedBoth  == AskedHop \union AskedOut
AskedLive  == AskedHop \union {Ask(1, 0, "ExactIn", 5, 19)}

WarmedOne == {<<1, 7, 19>>}

Threads == Permutations(Requests)
=============================================================================
