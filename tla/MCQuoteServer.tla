--------------------------- MODULE MCQuoteServer ----------------------------
EXTENDS QuoteServer

\* Two routes of one pair, the better with more accounts, and one of another,
\* to a mint that is always hot; a third pair has a mint of the first and no
\* route.  The wallet w signs.
MCClients == {"c1", "c2"}
MCAsks == [c1 |-> {<<"jup", "bonk">>}, c2 |-> {<<"wif", "usdc">>, <<"bonk", "usdc">>}]
MCRoutes ==
    [long |-> [pair |-> <<"jup", "bonk">>, needed |-> 14, bytes |-> 100, static |-> {"w"},
               addresses |-> {"w", "a1", "a2", "a3", "a4", "a5"}],
     short |-> [pair |-> <<"jup", "bonk">>, needed |-> 7, bytes |-> 60, static |-> {"w"},
                addresses |-> {"w", "a1", "a2", "b1"}],
     other |-> [pair |-> <<"wif", "usdc">>, needed |-> 9, bytes |-> 80, static |-> {"w"},
                addresses |-> {"w", "a1", "c1", "c2", "c3"}]]
MCTables == <<"t1">>
MCContents == [t1 |-> {"a1", "a2", "a3", "a4"}]

\* Overlapping tables, more than may be used, some with the programs that the
\* transaction invokes.
ManyRoutes ==
    [wide |-> [pair |-> <<"jup", "bonk">>, needed |-> 14, bytes |-> 100,
               static |-> {"w", "token", "system"},
               addresses |-> {"w", "token", "system", "a1", "a2", "a3", "a4", "a5", "a6",
                              "a7", "a8", "a9", "a10", "a11"}],
     narrow |-> [pair |-> <<"jup", "bonk">>, needed |-> 7, bytes |-> 60,
                 static |-> {"w", "token"},
                 addresses |-> {"w", "token", "a1", "a4", "a5", "a7", "a10"}]]
ManyContents ==
    [t1 |-> {"token", "system", "a1"}, t2 |-> {"a1", "a2", "a3"}, t3 |-> {"a3", "a4"},
     t4 |-> {"token", "a5", "a6"}, t5 |-> {"a7", "a8", "a9"}, t6 |-> {"a9", "a10", "a11"}]
ManyTables == <<"t1", "t2", "t3", "t4", "t5", "t6">>
=============================================================================
