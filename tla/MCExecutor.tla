----------------------------- MODULE MCExecutor -----------------------------
(* Swap transactions over four mints: every dex as the last of one or two     *)
(* hops, one route of three hops, both directions of a pool.                 *)
(* The fee instructions are other transactions of other clients: a behaviour   *)
(* follows one swap, or a sequence of fee instructions.                      *)
EXTENDS Executor, ReferralFees

VARIABLE client     \* "swap" or "fees"

mcVars == <<vars, feeVars, client>>

MCInit ==
    /\ client \in {"swap", "fees"}
    /\ Init /\ FeesInit
    /\ IF client = "swap" THEN program = "spl_token"
       ELSE /\ req = CHOOSE r \in Requests : TRUE
            /\ ledger = CHOOSE l \in Ledgers : TRUE
            /\ version = "v3"

MCNext == \/ client = "swap" /\ Next /\ UNCHANGED <<feeVars, client>>
          \/ client = "fees" /\ FeesNext /\ UNCHANGED <<vars, client>>

MCSpec == MCInit /\ [][MCNext]_mcVars


Order == [sol |-> 0, a |-> 1, b |-> 2, c |-> 3]
MCMints == DOMAIN Order
More == [raydium |-> <<>>, raydium_cp |-> <<>>, saber |-> <<>>,
         openbook_v2 |-> <<"maker1", "maker2", "maker3">>, 
         invariant |-> [i \in 1 .. 8 |-> <<"t1", "t2", "t3", "t4", "t5", "t6", "t7", "t8">>[i]],
         orca |-> <<"ta0", "", "ta2">>, infinity |-> <<"calc">>]

Edge(d, m, n) == [dex |-> d, in |-> m, out |-> n, aToB |-> Order[m] < Order[n], more |-> More[d]]
Quoted == 2
Step(d, m, n) == [edge |-> Edge(d, m, n), in_amount |-> Quoted, out_amount |-> Quoted]
Route(steps) == [input_mint |-> steps[1].edge.in, in_amount |-> Quoted,
                 out_amount |-> Quoted, steps |-> steps]

Routes ==
    {Route(<<Step(d, m, "a")>>) : d \in {"openbook_v2", "saber", "invariant"}, m \in {"sol", "b"}}
    \cup {Route(<<Step(f, p[1], p[2]), Step(d, p[2], p[3])>>) :
             f \in {"orca", "openbook_v2"}, d \in Dexs,
             p \in {<<"sol", "a", "b">>, <<"b", "a", "sol">>, <<"a", "sol", "b">>}}
    \cup {Route(<<Step("raydium", "sol", "a"), Step(d, "a", "b"), Step("raydium_cp", "b", "c")>>) :
             d \in {"openbook_v2", "invariant"}}

MCRequests ==
    {[route |-> r, wrap |-> w, create |-> c, bps |-> 2500, mode |-> x[1], other_amount |-> x[2]] :
        r \in Routes, w \in BOOLEAN, c \in BOOLEAN, x \in {<<"ExactIn", 1>>, <<"ExactOut", 3>>}}

MCLedgers ==
    {[native |-> n, ata |-> [m \in MCMints |-> IF m \in absent THEN Absent ELSE 3]] :
        n \in {1, 3}, absent \in {{}, {"sol"}, {"a"}, {"sol", "b", "c"}}}
=============================================================================
