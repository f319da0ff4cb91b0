---------------------------- MODULE ReferralFees ----------------------------
(***************************************************************************)
(* The fee instructions of the executor program: ChargeFees splits a fee     *)
(* between the platform and a referrer's vault, CreateReferral makes the     *)
(* vault, WithdrawReferral empties it.                                      *)
(*   programs/autobahn-executor/src/instructions/execute_charge_fees*.rs,     *)
(*   execute_create_referral.rs, execute_withdraw_referral_fees.rs, token.rs, *)
(*   create_pda.rs                                                          *)
(*                                                                         *)
(* One mint; its token program is spl_token or spl_token_2022.  A vault is    *)
(* the program's address derived from (referrer, mint), so a vault is named  *)
(* by its referrer.  An instruction that fails leaves the ledger as it was.  *)
(***************************************************************************)
EXTENDS Integers, FiniteSets, FiniteSetsExt

CONSTANTS
    Referrers,
    ChargeVersions,     \* which of "v1" (ChargeFees) and "v2" (ChargeFeesV2) clients send
    TokenPrograms,      \* programs a mint may belong to: "spl_token", "spl_token_2022"
    Percents,           \* platform_fee_percent: any u8
    MaxFee, UserFunds,  \* bounds: the largest fee, what the user owns
    MaxIxs              \* bound: instructions sent

NoVault == -1
NoReferrer == "none"

VARIABLES
    program,            \* the token program of the mint
    user,               \* balances
    platform, vault, referrer_ata,
    lamports,           \* lamports[r]: the address of r's vault was sent some
    fees_paid,          \* history: all fees charged
    owed,               \* history: owed[r], what referrers earned
    last_charge,        \* the last ChargeFees: whether it could be paid, and was
    sent

feeVars == <<program, user, platform, vault, referrer_ata, lamports, fees_paid, owed,
             last_charge, sent>>

ASSUME FeesAssumption ==
    /\ NoReferrer \notin Referrers /\ IsFiniteSet(Referrers)
    /\ Percents \subseteq 0..255
    /\ TokenPrograms \subseteq {"spl_token", "spl_token_2022"}
    /\ ChargeVersions \subseteq {"v1", "v2"}
    /\ {MaxFee, UserFunds, MaxIxs} \subseteq Nat

FeesInit ==
    /\ program \in TokenPrograms
    /\ user = UserFunds /\ platform = 0
    /\ vault = [r \in Referrers |-> NoVault]
    /\ referrer_ata = [r \in Referrers |-> 0]
    /\ lamports = [r \in Referrers |-> FALSE]
    /\ fees_paid = 0
    /\ owed = [r \in Referrers |-> 0]
    /\ last_charge = [payable |-> FALSE, paid |-> FALSE]
    /\ sent = 0

Send == sent < MaxIxs /\ sent' = sent + 1

-----------------------------------------------------------------------------
\* platform_fee_amount: min(100, percent), rounded down, all of it without a
\* referrer.
PlatformFee(fee_amount, percent, has_referrer) ==
    LET pct == IF percent < 100 THEN percent ELSE 100
    IN  IF has_referrer THEN (fee_amount * pct) \div 100 ELSE fee_amount

\* fee_amount.saturating_sub(platform_fee_amount)
ReferrerFee(fee_amount, percent) ==
    LET p == PlatformFee(fee_amount, percent, TRUE)
    IN  IF p > fee_amount THEN 0 ELSE fee_amount - p

\* The runtime runs an instruction a program invokes only when every account
\* the instruction names is among the account infos that are passed.
Invoke(named, infos) == named \subseteq infos

\* The transfer of execute_charge_fees passes source, destination, signer.
\* spl_token is the only program it accepts.
TransferV1(destination) ==
    /\ program = "spl_token"
    /\ Invoke({"token", destination, "signer"}, {"token", destination, "signer"})

\* token::transfer passes source, destination and the token program; the
\* transfer names the authority too, and for spl_token_2022 the mint.
TokenTransfer(source, destination, authority) ==
    Invoke({source, destination, authority}
             \cup (IF program = "spl_token_2022" THEN {"mint"} ELSE {}),
           {source, destination, "program"})

\* v1 pays the vault at accounts[4]; v2 takes accounts[4], the signer, for
\* the referrer's account.
Pays(version, destination) ==
    IF version = "v1" THEN TransferV1(destination)
    ELSE TokenTransfer("token", IF destination = "referrer" THEN "signer" ELSE destination,
                       "signer")

\* Both transfers, or, when one fails, none: the runtime undoes the first.
ChargeFees(version, fee_amount, percent, referrer) ==
    LET has_referrer == referrer # NoReferrer
        p == PlatformFee(fee_amount, percent, has_referrer)
        r == IF has_referrer THEN ReferrerFee(fee_amount, percent) ELSE 0
        payable == /\ fee_amount <= user
                   /\ has_referrer => vault[referrer] # NoVault
                   /\ version = "v1" => program = "spl_token"
        paid == /\ Pays(version, "platform") /\ p <= user
                /\ has_referrer => /\ Pays(version, "referrer")
                                   /\ vault[referrer] # NoVault /\ p + r <= user
    IN  /\ Send
        /\ last_charge' = [payable |-> payable, paid |-> paid]
        /\ IF paid
           THEN /\ user' = user - p - r /\ platform' = platform + p
                /\ vault' = [v \in Referrers |-> IF v = referrer THEN vault[v] + r ELSE vault[v]]
                /\ fees_paid' = fees_paid + fee_amount
                /\ owed' = [v \in Referrers |-> IF v = referrer THEN owed[v] + fee_amount - p
                                                ELSE owed[v]]
           ELSE UNCHANGED <<user, platform, vault, fees_paid, owed>>
        /\ UNCHANGED <<program, referrer_ata, lamports>>

\* Anyone may pay for anyone's vault.  create_pda_account tops up, allocates
\* and assigns an address that has lamports and creates the others; both fail
\* when the vault exists.  A vault of spl_token_2022 is sized but not made:
\* spl_token's initialize_account3 takes no other program, so all is undone.
CreateReferral(referrer) ==
    /\ Send
    /\ program = "spl_token"
    /\ vault[referrer] = NoVault
    /\ vault' = [vault EXCEPT ![referrer] = 0]
    /\ lamports' = [lamports EXCEPT ![referrer] = TRUE]
    /\ UNCHANGED <<program, user, platform, referrer_ata, fees_paid, owed, last_charge>>

\* Anyone may send lamports to the address before the vault is made.
FundVaultAddress(referrer) ==
    /\ Send
    /\ ~lamports[referrer]
    /\ lamports' = [lamports EXCEPT ![referrer] = TRUE]
    /\ UNCHANGED <<program, user, platform, vault, referrer_ata, fees_paid, owed, last_charge>>

\* Variant of VaultOfSigner: the seeds are not compared.
AnyVault(signer, v) == TRUE

\* vault_pda.eq(vault.key), with the seeds of the account that signed
VaultOfSigner(signer, v) == signer = v

\* The signer names a vault and a token account of its own; the whole balance
\* is moved, the vault signing through its seeds.
WithdrawReferral(signer, v) ==
    /\ Send
    /\ VaultOfSigner(signer, v)
    /\ vault[v] # NoVault
    /\ TokenTransfer("vault", "referrer_ata", "vault")
    /\ referrer_ata' = [referrer_ata EXCEPT ![signer] = @ + vault[v]]
    /\ vault' = [vault EXCEPT ![v] = 0]
    /\ UNCHANGED <<program, user, platform, lamports, fees_paid, owed, last_charge>>

FeesNext ==
    \/ \E ver \in ChargeVersions, n \in 0..MaxFee, p \in Percents,
          r \in Referrers \cup {NoReferrer} : ChargeFees(ver, n, p, r)
    \/ \E r \in Referrers : CreateReferral(r) \/ FundVaultAddress(r)
    \/ \E r, v \in Referrers : WithdrawReferral(r, v)

FeesSpec == FeesInit /\ [][FeesNext]_feeVars

-----------------------------------------------------------------------------
(* Properties                                                               *)

InVault(r) == IF vault[r] = NoVault THEN 0 ELSE vault[r]

Total(amounts) == MapThenSumSet(LAMBDA r : amounts[r], Referrers)

\* No fee is lost or goes astray: whatever the percentage and the rounding of
\* execute_charge_fees and in whatever order charges, creations and withdrawals
\* come, the user pays the fees and no more, each referrer's share waits in its
\* own vault or has been withdrawn by it, and the platform has the rest.
FeesReachTheirOwners ==
    /\ user + fees_paid = UserFunds
    /\ \A r \in Referrers : InVault(r) + referrer_ata[r] = owed[r]
    /\ platform + Total(owed) = fees_paid

\* A charge the user can pay, of a mint and with a vault the instruction
\* accepts, is paid.
PayableChargeIsPaid == last_charge.payable => last_charge.paid
=============================================================================
