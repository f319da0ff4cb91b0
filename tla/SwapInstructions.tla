-------------------------- MODULE SwapInstructions --------------------------
(***************************************************************************)
(* The instructions of a swap transaction: what each dex's build_swap_ix     *)
(* makes of a step, what build_ixs makes of a route, and the data and the    *)
(* account list generate_swap_ix_data packs them into.                      *)
(*   bin/autobahn-router/src/ix_builder.rs, swap.rs                          *)
(*   lib/dex-*/src/*ix_builder.rs                                            *)
(*   programs/autobahn-executor/src/swap_ix.rs                               *)
(*                                                                         *)
(* Data abstraction.  An address is a pair of strings: its role and its name *)
(* (<<"ata", m>> is the wallet's associated token account of mint m).  The   *)
(* data of an instruction is the sequence of its fields, each with its width *)
(* in bytes, so that a byte offset still selects, or tears, a field.         *)
(***************************************************************************)
EXTENDS Integers, Sequences, SequencesExt, FiniteSets

CONSTANTS SOL,     \* the mint of wrapped SOL
          MaxBps   \* 10_000: what slippage is measured in

Wallet == <<"wallet", "">>
TokenProgram == <<"program", "token">>
SystemProgram == <<"program", "system">>
Ata(m) == <<"ata", m>>

Field(name, width, value) == [name |-> name, width |-> width, value |-> value]
Amount(n) == Field("amount", 8, n)
MinOut(n) == Field("minimum_amount_out", 8, n)

\* Byte offset of the i-th field.
OffsetOf(data, i) ==
    LET Before[k \in 1 .. Len(data)] == IF k = 1 THEN 0 ELSE Before[k - 1] + data[k - 1].width
    IN  Before[i]

\* ((out_amount * (10_000 - slippage)) / 10_000).floor() as u64: a float that
\* is negative becomes 0.
HopMinOut(out_amount, bps) ==
    IF bps >= MaxBps THEN 0 ELSE (out_amount * (MaxBps - bps)) \div MaxBps

SwapInstruction(e, program, accounts, data, offset, cu) ==
    [dex |-> e.dex, program_id |-> <<"program", program>>, accounts |-> accounts,
     data |-> data, out_pubkey |-> Ata(e.out), out_mint |-> e.out,
     in_amount_offset |-> offset, cu_estimate |-> cu]

-----------------------------------------------------------------------------
(* The builders of the dexs.  An edge e swaps e.in for e.out; e.aToB is its  *)
(* direction in the pool; e.more names the accounts that depend on the       *)
(* pool's state: openbook's makers, invariant's ticks, orca's tick arrays    *)
(* ("" where one is not initialized) and infinity's calculator accounts.     *)

Dexs == {"raydium", "raydium_cp", "saber", "openbook_v2", "invariant", "orca", "infinity"}

Pool(e, role) == <<e.dex, role>>
VaultOf(e, m) == <<e.dex, "vault_" \o m>>
\* The pool's own order of the pair.
TokenA(e) == IF e.aToB THEN e.in ELSE e.out
TokenB(e) == IF e.aToB THEN e.out ELSE e.in

raydium_ix(e, in_amount, out_amount, bps) ==
    SwapInstruction(e, "raydium",
        <<TokenProgram, Pool(e, "amm"), Pool(e, "authority"), Pool(e, "amm"),
          VaultOf(e, TokenA(e)), VaultOf(e, TokenB(e))>>
        \o [i \in 1..8 |-> Pool(e, "amm")]      \* the order book it does not use
        \o <<Ata(e.in), Ata(e.out), Wallet>>,
        <<Field("discriminator", 1, 9), Amount(in_amount), MinOut(HopMinOut(out_amount, bps))>>,
        1, 40000)

raydium_cp_ix(e, in_amount, out_amount, bps) ==
    SwapInstruction(e, "raydium_cp",
        <<Wallet, Pool(e, "authority"), Pool(e, "amm_config"), Pool(e, "pool_state"),
          Ata(e.in), Ata(e.out), VaultOf(e, e.in), VaultOf(e, e.out),
          TokenProgram, TokenProgram, <<"mint", e.in>>, <<"mint", e.out>>,
          Pool(e, "observation_state")>>,
        <<Field("discriminator", 8, "swap_base_input"), Amount(in_amount),
          MinOut(HopMinOut(out_amount, bps))>>,
        8, 40000)

saber_ix(e, in_amount, out_amount, bps) ==
    SwapInstruction(e, "saber",
        <<Pool(e, "pool"), Pool(e, "authority"), Wallet, Ata(e.in),
          VaultOf(e, e.in), VaultOf(e, e.out), Ata(e.out),
          Pool(e, "admin_fees_" \o e.out), TokenProgram>>,
        <<Field("discriminator", 1, 1), Amount(in_amount), MinOut(HopMinOut(out_amount, bps))>>,
        1, 75000)

\* .take(INCLUDED_MAKERS_COUNT).unique(): of the first two orders of the
\* other side.
included_makers(e) ==
    LET two == SubSeq(e.more, 1, IF Len(e.more) < 2 THEN Len(e.more) ELSE 2)
    IN  IF Len(two) = 2 /\ two[1] = two[2] THEN <<Pool(e, two[1])>>
        ELSE [i \in DOMAIN two |-> Pool(e, two[i])]

\* It calls the executor program itself, whose execute_openbook_v2_swap turns
\* the native amount into lots.  A bid sells the quote mint (b) for the base
\* mint (a).
openbook_v2_ix(e, in_amount, out_amount, bps) ==
    SwapInstruction(e, "executor",
        <<<<"program", "openbook_v2">>, Wallet, Wallet, Pool(e, "market"),
          Pool(e, "market_authority"), Pool(e, "bids"), Pool(e, "asks"),
          VaultOf(e, TokenA(e)), VaultOf(e, TokenB(e)), Pool(e, "event_heap"),
          Ata(TokenA(e)), Ata(TokenB(e)), <<"program", "openbook_v2">>,
          <<"program", "openbook_v2">>, TokenProgram, SystemProgram,
          <<"program", "openbook_v2">>>>
        \o included_makers(e),
        <<Field("discriminator", 1, 2), Amount(in_amount),
          Field("is_bid", 1, IF e.aToB THEN 0 ELSE 1), Field("limit", 1, 10)>>,
        1, 85000)

invariant_ix(e, in_amount, out_amount, bps) ==
    SwapInstruction(e, "invariant",
        <<Pool(e, "state"), Pool(e, "pool"), Pool(e, "tickmap"),
          <<"mint", TokenA(e)>>, <<"mint", TokenB(e)>>, Ata(TokenA(e)), Ata(TokenB(e)),
          VaultOf(e, TokenA(e)), VaultOf(e, TokenB(e)), Wallet, Pool(e, "authority"),
          TokenProgram, TokenProgram>>
        \o [i \in DOMAIN e.more |-> Pool(e, e.more[i])],
        <<Field("discriminator", 8, "swap"), Field("x_to_y", 1, IF e.aToB THEN 1 ELSE 0),
          Amount(in_amount), Field("by_amount_in", 1, 1), Field("sqrt_price_limit", 16, 0)>>,
        9, 120000)

\* The first tick array stands in for the ones that are not initialized.
orca_tick_arrays(e) ==
    [i \in 1..3 |-> Pool(e, IF i > Len(e.more) \/ e.more[i] = "" THEN e.more[1] ELSE e.more[i])]

orca_ix(e, in_amount, out_amount, bps) ==
    SwapInstruction(e, "orca",
        <<TokenProgram, Wallet, Pool(e, "pool"), Ata(TokenA(e)), VaultOf(e, TokenA(e)),
          Ata(TokenB(e)), VaultOf(e, TokenB(e))>>
        \o orca_tick_arrays(e) \o <<Pool(e, "oracle")>>,
        <<Field("discriminator", 8, "swap"), Amount(in_amount),
          MinOut(HopMinOut(out_amount, bps)), Field("sqrt_price_limit", 16, 0),
          Field("amount_specified_is_input", 1, 1), Field("a_to_b", 1, IF e.aToB THEN 1 ELSE 0)>>,
        8, 65000)

\* The layout is the one of the pool's own library, for a mint or a burn of
\* the pool's token.
infinity_ix(e, in_amount, out_amount, bps) ==
    SwapInstruction(e, "infinity",
        <<Wallet, <<"mint", e.in>>, Ata(e.in), Ata(e.out), <<"mint", e.out>>,
          Pool(e, "protocol_fee"), TokenProgram, Pool(e, "pool_state"),
          Pool(e, "lst_state_list"), Pool(e, "reserves"), Pool(e, "pricing")>>
        \o [i \in DOMAIN e.more |-> Pool(e, e.more[i])],
        <<Field("discriminator", 1, 3), Field("calculator_accounts", 1, Len(e.more)),
          Field("lst_index", 4, 0), Amount(in_amount), MinOut(HopMinOut(out_amount, bps))>>,
        6, 80000)

\* edge.build_swap_ix of the step's dex.
build_swap_ix(e, in_amount, out_amount, bps) ==
    CASE e.dex = "raydium" -> raydium_ix(e, in_amount, out_amount, bps)
      [] e.dex = "raydium_cp" -> raydium_cp_ix(e, in_amount, out_amount, bps)
      [] e.dex = "saber" -> saber_ix(e, in_amount, out_amount, bps)
      [] e.dex = "openbook_v2" -> openbook_v2_ix(e, in_amount, out_amount, bps)
      [] e.dex = "invariant" -> invariant_ix(e, in_amount, out_amount, bps)
      [] e.dex = "orca" -> orca_ix(e, in_amount, out_amount, bps)
      [] e.dex = "infinity" -> infinity_ix(e, in_amount, out_amount, bps)

\* TICK_CROSSES_PER_IX + TICKS_BACK_COUNT, the ticks an invariant edge reserves.
TicksReserved == 4 + 1

\* What an edge says its instruction adds to a transaction: accounts_needed.
AccountsNeeded(e) ==
    CASE e.dex = "raydium" -> 6
      [] e.dex = "raydium_cp" -> 11
      [] e.dex = "saber" -> 7
      [] e.dex = "openbook_v2" -> 1 + 3 + 4 + 1 + 2
      [] e.dex = "invariant" -> 13 - 2 + TicksReserved
      [] e.dex = "orca" -> 9
      [] e.dex = "infinity" -> 10 + Len(e.more)

-----------------------------------------------------------------------------
(* build_ixs                                                               *)

\* Every step of an exact-out route is built with the threshold, the most the
\* wallet may spend; the executor overrides it on every hop but the first.
build_ix(step, bps, mode, other_amount) ==
    build_swap_ix(step.edge,
                  IF mode = "ExactIn" THEN step.in_amount ELSE other_amount,
                  step.out_amount, bps)

create_ata(m) == [op |-> "create_ata", mint |-> m, amount |-> 0]
transfer_to_wsol(n) == [op |-> "transfer", mint |-> SOL, amount |-> n]
sync_native == [op |-> "sync_native", mint |-> SOL, amount |-> 0]
close_wsol_ata == [op |-> "close", mint |-> SOL, amount |-> 0]

\* Setup: wrap the input, then make the output accounts of the hops.
SetupOf(route, wrap, create, mode, other_amount) ==
    (IF wrap /\ route.input_mint = SOL
     THEN <<create_ata(SOL),
            transfer_to_wsol(IF mode = "ExactIn" THEN route.in_amount ELSE other_amount),
            sync_native>>
     ELSE <<>>)
    \o FlattenSeq([i \in DOMAIN route.steps |->
                     LET out == route.steps[i].edge.out
                     IN  IF create \/ (out = SOL /\ wrap) THEN <<create_ata(out)>> ELSE <<>>])

\* Variant of CleanupOf: the output is left wrapped.
CleanupInputOnly(route, wrap) ==
    IF wrap /\ route.input_mint = SOL THEN <<close_wsol_ata>> ELSE <<>>

\* Cleanup: unwrap what was wrapped, one close per use of SOL.
CleanupOf(route, wrap) ==
    (IF wrap /\ route.input_mint = SOL THEN <<close_wsol_ata>> ELSE <<>>)
    \o FlattenSeq([i \in DOMAIN route.steps |->
                     IF wrap /\ route.steps[i].edge.out = SOL THEN <<close_wsol_ata>> ELSE <<>>])

\* The estimate of compute units that goes with it.
CuEstimate(route, ixs, wrap, create) ==
    150000 + FoldSeq(LAMBDA ix, sum : sum + ix.cu_estimate
                        + (IF create \/ (ix.out_mint = SOL /\ wrap) THEN 12000 ELSE 0)
                        + (IF ix.out_mint = SOL /\ wrap THEN 12000 ELSE 0), 0, ixs)

\* Variant of generate_swap_ix_data: the account count forgets the two
\* accounts put in front of the instruction's own.
CountWithoutPrefix(min_out_amount, ixs, in_account) ==
    [accounts |-> <<in_account>> \o FlattenSeq([i \in DOMAIN ixs |->
                     <<ixs[i].out_pubkey, ixs[i].program_id>> \o ixs[i].accounts]),
     min_out_amount |-> min_out_amount,
     hops |-> [i \in DOMAIN ixs |->
                 [in_amount_offset |-> ixs[i].in_amount_offset, data |-> ixs[i].data,
                  ix_account_count |-> Len(ixs[i].accounts)]]]

\* The accounts of all hops in one list, each hop's preceded by its output
\* account and its program; the data says how many accounts each hop takes.
generate_swap_ix_data(min_out_amount, ixs, in_account) ==
    [accounts |-> <<in_account>> \o FlattenSeq([i \in DOMAIN ixs |->
                     <<ixs[i].out_pubkey, ixs[i].program_id>> \o ixs[i].accounts]),
     min_out_amount |-> min_out_amount,
     hops |-> [i \in DOMAIN ixs |->
                 [in_amount_offset |-> ixs[i].in_amount_offset, data |-> ixs[i].data,
                  ix_account_count |-> 2 + Len(ixs[i].accounts)]]]

build_ixs(route, wrap, create, bps, other_amount, mode) ==
    LET ixs == [i \in DOMAIN route.steps |->
                  build_ix(route.steps[i], 2 * bps, mode, other_amount)]
    IN  [setup |-> SetupOf(route, wrap, create, mode, other_amount),
         swap |-> generate_swap_ix_data(
                    IF mode = "ExactIn" THEN other_amount ELSE route.out_amount,
                    ixs, Ata(route.input_mint)),
         cleanup |-> CleanupOf(route, wrap),
         cu_estimate |-> CuEstimate(route, ixs, wrap, create)]

\* Swap.accounts(): the distinct accounts of the three parts; the programs
\* that are called are not among them unless an instruction lists them.
SwapAccounts(swap) ==
    LET Of(ix) == CASE ix.op = "create_ata" ->
                         {Wallet, Ata(ix.mint), <<"mint", ix.mint>>, SystemProgram, TokenProgram}
                    [] ix.op = "sync_native" -> {Ata(SOL)}
                    [] OTHER -> {Wallet, Ata(SOL)}
        parts == swap.setup \o swap.cleanup
    IN  Range(swap.swap.accounts) \cup UNION {Of(parts[i]) : i \in DOMAIN parts}

\* The accounts of step i's instruction that its edge has to account for:
\* all but the wallet, its output account and the programs any swap names.
AddedByStep(ix) ==
    Range(ix.accounts) \ {Wallet, ix.out_pubkey, TokenProgram, SystemProgram}
=============================================================================
