---------------------------- MODULE AltOptimizer ----------------------------
(***************************************************************************)
(* The choice of the lookup tables of a transaction, and what they do to its *)
(* size.  A table in a version 0 message costs its key and two lengths, an   *)
(* address taken from it an index in place of a key.                        *)
(*   bin/autobahn-router/src/alt/alt_optimizer.rs                            *)
(***************************************************************************)
EXTENDS Integers, Sequences, SequencesExt, FiniteSets

CONSTANTS KeySize, IndexSize, TableSize     \* 32, 1, 34 bytes

\* Two keys cost more than a table and two indices, one key no more than a
\* table and an index.
ASSUME SizeAssumption ==
    /\ {KeySize, IndexSize, TableSize} \subseteq Nat
    /\ TableSize + 2 * IndexSize <= 2 * KeySize
    /\ IndexSize <= KeySize /\ KeySize <= TableSize + IndexSize

Covers(alt, addresses) == alt.addresses \cap addresses

\* Variant of Worth: a table that replaces one address is used.
ReplacesOne(alt, addresses) == Covers(alt, addresses) # {}

\* Only use a table if it replaces two addresses or more.
Worth(alt, addresses) == Cardinality(Covers(alt, addresses)) > 1

\* The one that covers most, the first of equals: the sort is stable.
BestOf(alts, addresses) ==
    LET count(i) == Cardinality(Covers(alts[i], addresses))
    IN  CHOOSE i \in DOMAIN alts : /\ \A j \in DOMAIN alts : count(j) <= count(i)
                                  /\ \A j \in 1 .. i - 1 : count(j) < count(i)

\* One level: take the best table if it is worth it, for what is left open.
TakeBest(p) ==
    LET b == BestOf(p.left, p.open)
    IN  IF p.left = <<>> THEN p
        ELSE IF ~Worth(p.left[b], p.open) THEN p
        ELSE [left |-> RemoveAt(p.left, b),
              open |-> p.open \ Covers(p.left[b], p.open),
              taken |-> Append(p.taken, p.left[b])]

\* get_best_alt_internal: greedy, at levels 0 to 3.  (The singleton makes TLC
\* evaluate the level before once.)
get_best_alt(alts, addresses) ==
    LET pick[level \in 0..4] ==
            IF level = 0 THEN [left |-> alts, open |-> addresses, taken |-> <<>>]
            ELSE CHOOSE q \in {TakeBest(p) : p \in {pick[level - 1]}} : TRUE
    IN  pick[4].taken

Covered(alts, addresses) == UNION {Covers(alts[i], addresses) : i \in DOMAIN alts}

\* What table i moves out of the message: try_compile drains the tables in
\* order, an address taken by one is not looked up in the next.
MovedBy(alts, movable, i) ==
    Covers(alts[i], movable) \ UNION {Covers(alts[j], movable) : j \in 1 .. i - 1}

\* A table that moves nothing is left out of the message.
LookedUp(alts, movable) == {i \in DOMAIN alts : MovedBy(alts, movable, i) # {}}

\* transaction_addresses plus the tables' keys.
AccountsCount(alts, addresses) == Cardinality(addresses) + Len(alts)

\* The bytes of the message, given those of the rest.  The static addresses,
\* signers and invoked programs, keep their keys whatever table they are in.
TxSize(rest, addresses, static, alts) ==
    LET movable == addresses \ static
        inTable == Covered(alts, movable)
    IN  rest + KeySize * Cardinality(addresses \ inTable)
          + IndexSize * Cardinality(inTable)
          + TableSize * Cardinality(LookedUp(alts, movable))
=============================================================================
