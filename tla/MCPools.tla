------------------------------- MODULE MCPools -------------------------------
(***************************************************************************)
(* The dex adapters side by side: a behaviour is of one of them, the others  *)
(* are off.                                                                 *)
(***************************************************************************)
EXTENDS InvariantPool, RaydiumPool, OrcaTicks, Liquidity, DexAdapters

Init ==
    \/ InvariantInit /\ RaydiumOff /\ OrcaOff /\ LiquidityOff /\ AdaptersOff
    \/ InvariantOff /\ RaydiumInit /\ OrcaOff /\ LiquidityOff /\ AdaptersOff
    \/ InvariantOff /\ RaydiumOff /\ OrcaInit /\ LiquidityOff /\ AdaptersOff
    \/ InvariantOff /\ RaydiumOff /\ OrcaOff /\ LiquidityInit /\ AdaptersOff
    \/ InvariantOff /\ RaydiumOff /\ OrcaOff /\ LiquidityOff /\ AdaptersInit

Next ==
    \/ InvariantNext /\ UNCHANGED <<raydium, orca, liquidity, adapters>>
    \/ RaydiumNext /\ UNCHANGED <<invariant, orca, liquidity, adapters>>
    \/ OrcaNext /\ UNCHANGED <<invariant, raydium, liquidity, adapters>>
    \/ LiquidityNext /\ UNCHANGED <<invariant, raydium, orca, adapters>>
    \/ AdaptersNext /\ UNCHANGED <<invariant, raydium, orca, liquidity>>

Spec == Init /\ [][Next]_<<invariant, raydium, orca, liquidity, adapters>>

-----------------------------------------------------------------------------
\* Invariant pools: one or two positions, and chains of them with many ticks.
Span(a, b, l) == [lower |-> a, upper |-> b, liquidity |-> l]
MCPositions ==
    {S \in SUBSET {Span(-6, -3, 1), Span(-3, 2, 2), Span(-1, 5, 3), Span(2, 9, 1), Span(0, 2, 1),
                   Span(24, 31, 2), Span(-31, -25, 1)} : Cardinality(S) \in 1 .. 2}
        \cup {{Span(4 * i, 4 * i + 4, 1) : i \in 0 .. 6},
              {Span(i, i + 1, 1 + (i % 2)) : i \in -5 .. 5}}
MCPrices == {-54, -5, -3, -2, 0, 1, 4, 9, 50}

\* Whirlpools at the ends of the range, below, above and at zero.
MCMinTick == -16
MCTicks == {-16, -7, 0, 5, 16}

MCReserves == {<<10, 100>>, <<300, 1000>>, <<0, 50>>, <<1, 3>>}

\* Pools that are kept and pools that are not; two share a config, or a stake
\* program.
P(dex, key, vaults, extra, flags) ==
    [dex |-> dex, key |-> key, vaults |-> {<<key, v>> : v \in vaults}, extra |-> extra,
     ticks |-> {}, flags |-> flags]
InvariantPair ==
    << [P("invariant", "i1", {}, {<<"i1", "tickmap">>}, {}) EXCEPT !.ticks = {"t1"}],
       [P("invariant", "i2", {}, {<<"i2", "tickmap">>}, {}) EXCEPT !.ticks = {"t2"}] >>
StakingTokens ==
    << P("infinity", "l1", {"reserves"}, {<<"l1", "calc">>, <<"spl", "program">>}, {}),
       P("infinity", "l2", {"reserves"}, {<<"l2", "calc">>, <<"spl", "program">>}, {}),
       P("infinity", "l3", {"reserves"}, {<<"l3", "calc">>}, {"input_disabled"}) >>
MCOnChain ==
    << P("raydium", "r1", {"va", "vb"}, {}, {}),
       P("raydium", "r2", {"va", "vb"}, {}, {"order_book"}),
       P("raydium_cp", "c1", {"va", "vb"}, {<<"cfg", "config">>}, {}),
       P("raydium_cp", "c2", {"va", "vb"}, {<<"cfg", "config">>}, {}),
       P("raydium_cp", "c3", {"va"}, {<<"cfg", "config">>}, {"token2022"}),
       P("saber", "s1", {"va", "vb"}, {}, {}),
       P("openbook_v2", "o1", {}, {<<"o1", "bids">>, <<"o1", "asks">>}, {}),
       P("openbook_v2", "o2", {}, {<<"o2", "bids">>}, {"open_orders_admin"}) >>
=============================================================================
