--------------------------- MODULE MCEdgeUpdater ---------------------------
(* Small dexs for EdgeUpdater: one pool with its two directions, accounts p1
   and p2, mints A and B. *)
EXTENDS EdgeUpdater, TLC

CONSTANTS p1, p2, ab, ba, A, B, prog

(* Every edge is listed under one account. *)
SingleListing == (p1 :> <<ab>>) @@ (p2 :> <<ba>>)
(* One edge listed under two accounts, as the adapters do (pool, vaults, ...). *)
SharedListing == (p1 :> <<ab>>) @@ (p2 :> <<ab>>)
(* One edge listed under the pool account. *)
PoolListing == p1 :> <<ab>>

MintAB == (ab :> A) @@ (ba :> B)
MintBA == (ab :> B) @@ (ba :> A)
OneMintIn == ab :> A
OneMintOut == ab :> B
DescEdge == (ab :> "ab") @@ (ba :> "ba")
DescOne == ab :> "ab"
OwnerAll == [pk \in Pubkeys |-> prog]

ByAccounts == [mode |-> "Accounts", accounts |-> {p1, p2}, programs |-> {},
               token_accounts_for_owner |-> {}]
ByPool == [mode |-> "Accounts", accounts |-> {p1}, programs |-> {},
           token_accounts_for_owner |-> {}]
ByProgram == [mode |-> "Programs", accounts |-> {}, programs |-> {prog},
              token_accounts_for_owner |-> {}]
ByAll == [mode |-> "Mixed", accounts |-> {p1}, programs |-> {prog},
          token_accounts_for_owner |-> {p2}]

OkA == {<<A, "ok">>}
AnyPrice == {A, B} \X {"ok", "tiny"}
SwapAccounts == Permutations({p1, p2})

NoTx == {}
PoolTx == {<<p1>>}
=============================================================================
