---------------------------- MODULE MCGeyserFeed ----------------------------
(* An instance of GeyserFeed: two accounts in one snapshot, one of them wanted. *)
EXTENDS GeyserFeed, TLC

CONSTANTS p1, p2, gma

OneSnapshot == gma :> {p1, p2}
TwoOfWanted == (p1 :> 2) @@ (p2 :> 0)
=============================================================================
