-------------------------------- MODULE Lists --------------------------------
(* What Vec::retain leaves of a list, as a recursive function that proofs can
   unfold. *)
EXTENDS Integers, Sequences

\* The elements of s at the positions in K, in the order of s.
Kept(s, K) ==
    LET F[i \in 0 .. Len(s)] ==
          IF i = 0 THEN <<>>
          ELSE IF i \in K THEN Append(F[i - 1], s[i]) ELSE F[i - 1]
    IN  F[Len(s)]
=============================================================================
