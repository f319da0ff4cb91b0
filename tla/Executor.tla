------------------------------ MODULE Executor ------------------------------
(***************************************************************************)
(* A swap transaction from the router's route to the ledger: the router      *)
(* builds it, the network runs its setup instructions, the executor program  *)
(* runs one hop after the other, each with what the hop before it brought,   *)
(* and the cleanup instructions follow.  A transaction is atomic: when one   *)
(* step fails the ledger is as before.                                      *)
(*   programs/autobahn-executor/src/lib.rs, instructions/execute_swap_v*.rs,  *)
(*   instructions/execute_openbook_v2_swap.rs, token.rs                      *)
(*                                                                         *)
(* The pools, the token program and the runtime are external.  A pool is     *)
(* free to give any amount its instruction's limit allows, because others    *)
(* trade between the quote and the execution.  Rent and fees are left out.   *)
(***************************************************************************)
EXTENDS SwapInstructions

CONSTANTS
    Mints,
    Requests,      \* [route, wrap, create, bps, other_amount, mode]
    Ledgers,       \* [native, ata]: what the wallet may hold when it starts
    Versions,      \* the executor's instructions: "v2", "v3"
    LotSize,       \* of the openbook markets
    MaxOut         \* bound: the most a hop gives

Absent == -1       \* the balance of a token account that does not exist
Torn == -1         \* the value of a field that was partly overwritten

VARIABLES
    ledger,        \* native SOL and token balances of the wallet
    saved,         \* the ledger before the transaction
    req, version,  \* what was asked, and the instruction that executes it
    swap,          \* build_ixs' result
    pc,            \* "request", "setup", "enter", "hops", "cleanup", "committed", "failed"
    at,            \* instruction of the phase, hop of the swap
    ix_account_index, in_amount, input_amount, output_amount,
    why            \* what made it fail

vars == <<ledger, saved, req, version, swap, pc, at, ix_account_index, in_amount,
          input_amount, output_amount, why>>

IsLedger(l) ==
    /\ l = [native |-> l.native, ata |-> l.ata]
    /\ l.native \in Nat /\ l.ata \in [Mints -> Nat \cup {Absent}]

\* A step as the search finds it.
IsStep(s) ==
    /\ s.edge \in [dex : Dexs, in : Mints, out : Mints, aToB : BOOLEAN, more : Seq(STRING)]
    /\ s.in_amount \in Nat /\ s.out_amount \in Nat

\* A route of the search: each step takes what the one before it brings, and
\* "no cycles" (walk in routing.rs) comes by no mint twice.
IsRoute(route) ==
    LET n == Len(route.steps)
        Out(i) == route.steps[i].edge.out
    IN  /\ route.steps = [i \in 1 .. n |-> route.steps[i]] /\ n \in Nat \ {0}
        /\ \A i \in 1 .. n : IsStep(route.steps[i])
        /\ route.input_mint = route.steps[1].edge.in
        /\ route.in_amount = route.steps[1].in_amount /\ route.out_amount \in Nat
        /\ \A i \in 2 .. n : route.steps[i].edge.in = Out(i - 1)
        /\ \A i \in 1 .. n : Out(i) # route.input_mint /\ \A j \in 1 .. i - 1 : Out(i) # Out(j)

ASSUME ExecutorAssumption ==
    /\ SOL \in Mints
    /\ LotSize \in Nat \ {0} /\ MaxOut \in Nat /\ MaxBps \in Nat \ {0}
    /\ Versions \subseteq {"v2", "v3"}
    /\ \A r \in Requests :
          /\ IsRoute(r.route)
          /\ r.mode \in {"ExactIn", "ExactOut"} /\ {r.wrap, r.create} \subseteq BOOLEAN
          /\ {r.bps, r.other_amount} \subseteq Nat
    /\ \A l \in Ledgers : IsLedger(l)

Init ==
    /\ ledger \in Ledgers /\ saved = ledger
    /\ req \in Requests /\ version \in Versions
    /\ swap = <<>> /\ pc = "request" /\ at = 1
    /\ ix_account_index = 0 /\ in_amount = 0 /\ input_amount = 0 /\ output_amount = 0
    /\ why = ""

Fail(reason) ==
    /\ pc' = "failed" /\ why' = reason /\ ledger' = saved
    /\ UNCHANGED <<saved, req, version, swap, at, ix_account_index, in_amount,
                   input_amount, output_amount>>

Cursor == <<ix_account_index, in_amount, input_amount, output_amount>>

-----------------------------------------------------------------------------
(* The network: the native instructions around the swap.                    *)

BuildTransaction ==
    /\ pc = "request"
    /\ swap' = build_ixs(req.route, req.wrap, req.create, req.bps, req.other_amount, req.mode)
    /\ pc' = "setup" /\ at' = 1
    /\ UNCHANGED <<ledger, saved, req, version, why>> /\ UNCHANGED Cursor

\* The ledger after a setup or cleanup instruction, given that it succeeds.
Apply(ix) ==
    CASE ix.op = "create_ata" ->       \* idempotent
           [ledger EXCEPT !.ata[ix.mint] = IF @ = Absent THEN 0 ELSE @]
      [] ix.op = "transfer" ->
           [ledger EXCEPT !.native = @ - ix.amount, !.ata[SOL] = @ + ix.amount]
      [] ix.op = "sync_native" -> ledger
      [] ix.op = "close" ->
           [ledger EXCEPT !.native = @ + ledger.ata[SOL], !.ata[SOL] = Absent]

Refused(ix) ==
    CASE ix.op = "transfer" -> ledger.native < ix.amount
      [] ix.op = "close" -> ledger.ata[SOL] = Absent
      [] OTHER -> FALSE

RunNative(phase, ixs, next) ==
    /\ pc = phase
    /\ IF at > Len(ixs)
       THEN /\ pc' = next /\ at' = 1
            /\ UNCHANGED <<ledger, saved, req, version, swap, why>> /\ UNCHANGED Cursor
       ELSE IF Refused(ixs[at]) THEN Fail(ixs[at].op)
       ELSE /\ ledger' = Apply(ixs[at]) /\ at' = at + 1
            /\ UNCHANGED <<saved, req, version, swap, pc, why>> /\ UNCHANGED Cursor

Setup == RunNative("setup", swap.setup, "enter")
Cleanup == RunNative("cleanup", swap.cleanup, "committed")

-----------------------------------------------------------------------------
(* The executor program.                                                    *)

IsTokenAccount(acc) == acc[1] = "ata" /\ ledger.ata[acc[2]] # Absent
get_balance(acc) == ledger.ata[acc[2]]

\* execute_swap_v3 reads the input account, execute_swap_v2 has none.
EnterSwap ==
    /\ pc = "enter"
    /\ IF version = "v3" /\ ~IsTokenAccount(swap.swap.accounts[1])
       THEN Fail("missing_account")
       ELSE /\ pc' = "hops" /\ at' = 1
            /\ ix_account_index' = IF version = "v3" THEN 1 ELSE 0
            /\ UNCHANGED <<ledger, saved, req, version, swap, in_amount, input_amount,
                           output_amount, why>>

\* execute_swap_v2 is given the same accounts without the input account.
Accounts == IF version = "v3" THEN swap.swap.accounts ELSE Tail(swap.swap.accounts)

\* The fields of data after n is written to the eight bytes at from.
Overwritten(data, from, n) ==
    [k \in DOMAIN data |->
        LET off == OffsetOf(data, k)
            f == data[k]
        IN  IF off = from /\ f.width = 8 THEN [f EXCEPT !.value = n]
            ELSE IF off < from + 8 /\ from < off + f.width THEN [f EXCEPT !.value = Torn]
            ELSE f]

\* Variant of WithInAmount: the hops keep the amounts of the quote.
QuotedInAmount(hop, i) == hop.data

\* ix_data[in_amount_offset..in_amount_offset + 8] = in_amount, on every hop
\* but the first.
WithInAmount(hop, i) ==
    IF i = 1 THEN hop.data ELSE Overwritten(hop.data, hop.in_amount_offset, in_amount)

\* What a program reads at a byte offset of its data.
ReadAt(data, offset, width) ==
    LET hit == {k \in DOMAIN data : OffsetOf(data, k) = offset /\ data[k].width = width}
    IN  IF hit = {} THEN Torn ELSE data[CHOOSE k \in hit : TRUE].value

\* The pools' programs: where each finds the amount, the limit (0: it has
\* none) and the direction in its data, and the two token accounts of the
\* wallet in its accounts.
Interface ==
    [raydium |-> [amount |-> 1, limit |-> 9, flag |-> Absent, a |-> 15, b |-> 16],
     raydium_cp |-> [amount |-> 8, limit |-> 16, flag |-> Absent, a |-> 5, b |-> 6],
     saber |-> [amount |-> 1, limit |-> 9, flag |-> Absent, a |-> 4, b |-> 7],
     executor |-> [amount |-> 1, limit |-> 0, flag |-> 9, a |-> 11, b |-> 12],
     invariant |-> [amount |-> 9, limit |-> 0, flag |-> 8, a |-> 6, b |-> 7],
     orca |-> [amount |-> 8, limit |-> 16, flag |-> 41, a |-> 4, b |-> 6],
     infinity |-> [amount |-> 6, limit |-> 14, flag |-> Absent, a |-> 3, b |-> 4]]

\* The instruction sells the account at a for the one at b, unless its flag
\* says the other way round; openbook's flag is set for a bid, which sells b.
SellsA(program, data) ==
    LET face == Interface[program]
    IN  \/ face.flag = Absent
        \/ ReadAt(data, face.flag, 1) = (IF program = "executor" THEN 0 ELSE 1)

\* execute_openbook_v2_swap: max lots are in_amount / lot size, the rest of
\* the amount is not offered.  What the order may take at most.
execute_openbook_v2_swap(in) == LotSize * (in \div LotSize)

\* What a call of a pool may take from its source: an order book fills as far
\* as its orders go, in lots; the others swap the whole amount.
Takes(program, amount) ==
    IF program = "executor"
    THEN {n \in 0 .. execute_openbook_v2_swap(amount) : n % LotSize = 0}
    ELSE {amount}

\* What is wrong with a call that no state of the pool could mend.
Malformed(program, accounts, data) ==
    \/ program \notin DOMAIN Interface
    \/ Interface[program].b > Len(accounts)
    \/ \E p \in {"a", "b"} : accounts[Interface[program][p]][1] # "ata"
    \/ ReadAt(data, Interface[program].amount, 8) = Torn
    \/ Wallet \notin Range(accounts)

\* Variant of InputSpent: what the first instruction asked to be swapped.
InputAsked(hop, after) ==
    ReadAt(hop.data, hop.in_amount_offset, 8)

\* input_token_account_balance - get_balance(accounts[0]), after the first hop
InputSpent(hop, after) ==
    get_balance(swap.swap.accounts[1]) - after.ata[swap.swap.accounts[1][2]]

\* One turn of the loop over number_of_ix.
ExecuteHop ==
    /\ pc = "hops" /\ at <= Len(swap.swap.hops)
    /\ LET hop == swap.swap.hops[at]
           last == ix_account_index + hop.ix_account_count
           ix_accounts == SubSeq(Accounts, ix_account_index + 1, last)
           data == WithInAmount(hop, at)
           out == ix_accounts[1]
           program == ix_accounts[2][2]
           accounts == SubSeq(ix_accounts, 3, Len(ix_accounts))
           face == Interface[program]
           amount == ReadAt(data, face.amount, 8)
           source == accounts[IF SellsA(program, data) THEN face.a ELSE face.b]
           dest == accounts[IF SellsA(program, data) THEN face.b ELSE face.a]
       IN  IF last > Len(Accounts) \/ Len(ix_accounts) < 2 THEN Fail("malformed")
           ELSE IF out[1] # "ata" THEN Fail("malformed")
           ELSE IF ~IsTokenAccount(out) THEN Fail("missing_account")
           ELSE IF Malformed(program, accounts, data) THEN Fail("malformed")
           ELSE IF ~IsTokenAccount(source) \/ ~IsTokenAccount(dest) THEN Fail("missing_account")
           ELSE \/ Fail("pool")       \* it refuses: its state, or its limit
                \/ \E taken \in Takes(program, amount), got \in 0..MaxOut :
                      LET after == [ledger EXCEPT !.ata[source[2]] = @ - taken,
                                                  !.ata[dest[2]] = @ + got]
                      IN  /\ taken <= get_balance(source)
                          /\ face.limit # 0 => got >= ReadAt(data, face.limit, 8)
                          /\ taken = 0 => got = 0
                          /\ ledger' = after
                          /\ in_amount' = after.ata[out[2]] - get_balance(out)
                          /\ output_amount' = in_amount'
                          /\ input_amount' = IF at = 1 /\ version = "v3"
                                             THEN InputSpent(hop, after) ELSE input_amount
                          /\ ix_account_index' = last
                          /\ at' = at + 1
                          /\ UNCHANGED <<saved, req, version, swap, pc, why>>

\* SwapEvent, then the check of what the last hop brought.
EndSwap ==
    /\ pc = "hops" /\ at > Len(swap.swap.hops)
    /\ IF in_amount < swap.swap.min_out_amount
       THEN Fail("slippage")
       ELSE /\ pc' = "cleanup" /\ at' = 1
            /\ UNCHANGED <<ledger, saved, req, version, swap, why>> /\ UNCHANGED Cursor

Next == BuildTransaction \/ Setup \/ EnterSwap \/ ExecuteHop \/ EndSwap \/ Cleanup

Spec == Init /\ [][Next]_vars

-----------------------------------------------------------------------------
(* Properties                                                               *)

\* What the wallet owns of a mint; SOL counts wrapped or not.
Owns(l, m) ==
    (IF l.ata[m] = Absent THEN 0 ELSE l.ata[m]) + (IF m = SOL THEN l.native ELSE 0)

Gain(m) == Owns(ledger, m) - Owns(saved, m)
MaxIn == IF req.mode = "ExactIn" THEN req.route.in_amount ELSE req.other_amount
MinGain == IF req.mode = "ExactIn" THEN req.other_amount ELSE req.route.out_amount
OutputMint == req.route.steps[Len(req.route.steps)].edge.out

\* A committed swap spends at most what was asked, brings at least what was
\* promised, and costs the wallet none of the mints in between: each hop of
\* execute_swap_v2/v3 sells what the hop before it brought and no more.
SwapHonoursLimits ==
    pc = "committed" =>
        /\ - Gain(req.route.input_mint) <= MaxIn
        /\ Gain(OutputMint) >= MinGain
        /\ \A m \in Mints \ {req.route.input_mint} : Gain(m) >= 0

\* The SwapEvent of execute_swap_v3 tells what the wallet really paid and
\* got, also when an order book fills part of the order.
EventMatchesLedger ==
    pc = "committed" /\ version = "v3" =>
        /\ input_amount = - Gain(req.route.input_mint)
        /\ output_amount = Gain(OutputMint)

\* Wrapping is undone: a committed swap that was to wrap and unwrap SOL and
\* had SOL at an end, or in between, leaves no wrapped SOL account behind.
NothingLeftWrapped ==
    pc = "committed" /\ req.wrap
        /\ (req.route.input_mint = SOL
            \/ \E i \in DOMAIN req.route.steps : req.route.steps[i].edge.out = SOL)
    => ledger.ata[SOL] = Absent

\* The ticks an invariant edge crosses past the ones it reserves accounts for.
TicksPastReserve(e) ==
    IF e.dex = "invariant" /\ Len(e.more) > TicksReserved THEN Len(e.more) - TicksReserved ELSE 0

\* The instruction the router packs is one the executor can unpack: every hop
\* finds its program, its accounts and its amount, the cleanup closes only
\* what exists, and an account is missing only where the caller did not ask
\* for its creation; and accounts_needed, from which the route search bounds a
\* transaction, covers the accounts the instruction of every edge brings.  Only
\* an invariant edge exceeds it, and by no more than the ticks past its reserve:
\* its quote does not bound the ticks it crosses.
BuiltSwapIsWellFormed ==
    /\ pc = "failed" =>
         /\ why \notin {"malformed", "close"}
         /\ why = "missing_account" =>
              \/ ~req.create
              \/ saved.ata[req.route.input_mint] = Absent
                 /\ ~(req.wrap /\ req.route.input_mint = SOL)
    /\ \A i \in DOMAIN req.route.steps :
         LET step == req.route.steps[i]
         IN  Cardinality(AddedByStep(build_ix(step, 0, "ExactIn", 0)))
               <= AccountsNeeded(step.edge) + TicksPastReserve(step.edge)
=============================================================================
