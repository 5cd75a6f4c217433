------------------------------- MODULE Vault -------------------------------
(***************************************************************************)
(* The dead-man-switch program on one vault: the PDA of a fixed owner and  *)
(* vault_id, its token accounts, the wallets that sign for it and the      *)
(* cluster clock.  There is one action per instruction of lib.rs.          *)
(*                                                                         *)
(* A transaction is atomic: an instruction that fails a constraint or a    *)
(* require!  leaves every account as it was, so a rejected instruction is  *)
(* a step that is not taken.  The runtime gives a transaction exclusive    *)
(* access to the accounts it writes, so each instruction is one step; the  *)
(* interleavings are those of whole instructions, of any signers.          *)
(***************************************************************************)
EXTENDS VaultRules, Functions

CONSTANTS
    Owner,          \* the wallet whose key is in the seeds of the PDA
    Wallets,        \* the keys that can sign
    OtherAccounts,  \* names for token accounts of the PDA that are not its ATA
    RENT,           \* rent-exempt minimum of the vault account, in lamports
    Grants,         \* what each wallet holds of each asset at the start
    Timeouts,       \* the timeouts, valid or not, tried at initialisation
    Tables,         \* the heir tables, valid or not, passed to instructions
    Amounts,        \* the amounts, valid or not, passed to instructions
    Gifts,          \* the amounts wallets send the PDA without the program
    MAX_CLOCK       \* bound of the model: where the clock stops

ATA    == "ata"                     \* the PDA's associated token account
Places == {ATA} \cup OtherAccounts
Assets == {None} \cup Mints         \* None is the lamport

ASSUME WalletAssumption ==
    /\ Owner \in Wallets
    /\ Wallets \subseteq Keys \ {DEFAULT_KEY}
ASSUME RentAssumption   == RENT \in Amount
ASSUME GrantAssumption  == Grants \in [Wallets -> [Assets -> Amount]]
ASSUME InputAssumption  ==
    /\ Timeouts \subseteq Int
    /\ Tables \subseteq Seq(BeneficiaryInput)
    /\ Amounts \subseteq Nat
    /\ Gifts \subseteq Nat
ASSUME ClockAssumption  == MAX_CLOCK \in Times

\* Addresses are 32 bytes.
ASSUME FiniteAssumption == IsFiniteSet(Wallets) /\ IsFiniteSet(OtherAccounts)

\* What the wallets of p hold of an asset together.
Total(p, a) == SumFunction([w \in Wallets |-> p[w][a]])

\* There is never more of an asset than a u64 can count.
ASSUME SupplyAssumption == \A a \in Assets : Total(Grants, a) <= MAX_U64

VARIABLES
    now,        \* Clock::get()?.unix_timestamp
    open,       \* whether the PDA is an account of the program
    vault,      \* its data, DefaultVault while it is closed
    lamports,   \* the lamports on the PDA, open or not
    accounts,   \* the token accounts of the PDA that exist: <<mint, place>>
    tokens,     \* their balances, 0 for one that does not exist
    purse       \* what each wallet holds of each asset

vars == <<now, open, vault, lamports, accounts, tokens, purse>>

Init ==
    /\ now = 0
    /\ open = FALSE
    /\ vault = DefaultVault
    /\ lamports = 0
    /\ accounts = {}
    /\ tokens = [a \in Mints \X Places |-> 0]
    /\ purse = Grants

-----------------------------------------------------------------------------
(* Balances. *)

\* Wrong: the rent-exempt reserve counts as movable.
Withdrawable_BugReserve == lamports

\* withdrawable_lamports: what the PDA holds beyond the reserve, saturating.
Withdrawable == IF lamports > RENT THEN lamports - RENT ELSE 0

VaultAta(m) == <<m, ATA>>

\* What the vault holds of the asset it was opened for.
Holding == IF IsSol(vault) THEN Withdrawable ELSE tokens[VaultAta(vault.mint)]

\* Every credit is a checked u64 addition.
CanCredit(w, asset, amount) == purse[w][asset] + amount <= MAX_U64

Credit(w, asset, amount) ==
    /\ CanCredit(w, asset, amount)
    /\ purse' = [purse EXCEPT ![w][asset] = @ + amount]

Debit(w, asset, amount) ==
    /\ amount <= purse[w][asset]
    /\ purse' = [purse EXCEPT ![w][asset] = @ - amount]

\* Wrong: only one side of the move is written.
MoveLamports_BugUndebited(to, amount) ==
    /\ Credit(to, None, amount)
    /\ lamports' = lamports

\* move_lamports, from the PDA to a wallet.
MoveLamports(to, amount) ==
    /\ amount <= lamports
    /\ lamports' = lamports - amount
    /\ Credit(to, None, amount)

\* Wrong: the wallet pays what it does not have.
TransferLamports_BugOverdraw(from, amount) ==
    /\ purse' = [purse EXCEPT ![from][None] = @ - amount]
    /\ lamports + amount <= MAX_U64
    /\ lamports' = lamports + amount

\* A system transfer from a wallet to the PDA.
TransferLamports(from, amount) ==
    /\ Debit(from, None, amount)
    /\ lamports + amount <= MAX_U64
    /\ lamports' = lamports + amount

\* transfer_checked from a wallet's ATA to a token account of the PDA.
TokensIn(from, account, amount) ==
    /\ Debit(from, account[1], amount)
    /\ tokens[account] + amount <= MAX_U64
    /\ tokens' = [tokens EXCEPT ![account] = @ + amount]

\* transfer_checked, signed by the PDA, from its token account to a wallet's
\* ATA, which init_if_needed creates.
TokensOut(account, to, amount) ==
    /\ amount <= tokens[account]
    /\ tokens' = [tokens EXCEPT ![account] = @ - amount]
    /\ Credit(to, account[1], amount)

-----------------------------------------------------------------------------
(* Constraints the instructions share. *)

\* Wrong: has_one is missing, so any signer passes for the owner.
HasOne_BugAnyone(signer) == open

\* The vault account exists and has_one = owner.
HasOne(signer) == open /\ signer = Owner

\* Wrong: the constraint is missing.
Untripped_BugUnchecked == TRUE

\* constraint = !vault.is_claimed
Untripped == ~vault.is_claimed

\* Wrong: any mint is accepted for any SPL vault.
MintMatches_BugUnchecked(m) == ~IsSol(vault)

\* constraint = !vault.is_sol() and vault.mint == Some(mint.key())
MintMatches(m) == ~IsSol(vault) /\ vault.mint = m

-----------------------------------------------------------------------------
(* The owner's instructions. *)

RentDue == IF lamports < RENT THEN RENT - lamports ELSE 0

\* initialize_vault.  Anchor's init tops the PDA up to the rent-exempt minimum
\* and keeps what was sent there before.  The log line evaluates deadline().
InitializeVault(signer, m, timeout, inputs) ==
    LET v == [mint              |-> m,
              last_checkin      |-> now,
              timeout_seconds   |-> timeout,
              beneficiaries     |-> FillSlots(inputs),
              beneficiary_count |-> Len(inputs),
              is_claimed        |-> FALSE,
              claim_pool        |-> 0]
    IN  /\ ~open
        /\ signer = Owner
        /\ ValidTimeout(timeout)
        /\ ValidTable(inputs)
        /\ DeadlineFits(v)
        /\ Debit(signer, None, RentDue)
        /\ open' = TRUE
        /\ vault' = v
        /\ lamports' = lamports + RentDue
        /\ UNCHANGED <<now, accounts, tokens>>

\* check_in.  Again it is the log line that rejects an overflowing deadline.
CheckIn(signer) ==
    LET v == [vault EXCEPT !.last_checkin = now]
    IN  /\ HasOne(signer)
        /\ Untripped
        /\ DeadlineFits(v)
        /\ vault' = v
        /\ UNCHANGED <<now, open, lamports, accounts, tokens, purse>>

SetBeneficiaries(signer, inputs) ==
    /\ HasOne(signer)
    /\ Untripped
    /\ ValidTable(inputs)
    /\ vault' = [vault EXCEPT !.beneficiaries = FillSlots(inputs),
                              !.beneficiary_count = Len(inputs)]
    /\ UNCHANGED <<now, open, lamports, accounts, tokens, purse>>

DepositSol(signer, amount) ==
    /\ HasOne(signer)
    /\ IsSol(vault)
    /\ Untripped
    /\ amount > 0
    /\ TransferLamports(signer, amount)
    /\ UNCHANGED <<now, open, vault, accounts, tokens>>

\* deposit_spl; init_if_needed creates the vault's ATA.
DepositSpl(signer, m, amount) ==
    /\ HasOne(signer)
    /\ MintMatches(m)
    /\ Untripped
    /\ amount > 0
    /\ TokensIn(signer, VaultAta(m), amount)
    /\ accounts' = accounts \cup {VaultAta(m)}
    /\ UNCHANGED <<now, open, vault, lamports>>

WithdrawSol(signer, amount) ==
    /\ HasOne(signer)
    /\ IsSol(vault)
    /\ Untripped
    /\ amount > 0
    /\ amount <= Withdrawable
    /\ MoveLamports(signer, amount)
    /\ UNCHANGED <<now, open, vault, accounts, tokens>>

WithdrawSpl(signer, m, amount) ==
    /\ HasOne(signer)
    /\ MintMatches(m)
    /\ Untripped
    /\ VaultAta(m) \in accounts
    /\ amount > 0
    /\ TokensOut(VaultAta(m), signer, amount)
    /\ UNCHANGED <<now, open, vault, lamports, accounts>>

\* Wrong: the balance is not looked at.
Emptied_BugUnchecked(place) == TRUE

\* What close_vault asks of the balance, of the token account it was given
\* when the vault is an SPL one.
Emptied(place) ==
    IF IsSol(vault) THEN Withdrawable = 0 ELSE tokens[<<vault.mint, place>>] = 0

\* close_vault.  The token account passed for an SPL vault must exist, be of
\* the vault's mint and belong to the PDA; which of them it is, is not asked.
\* The token program closes an empty account only, and everything left on the
\* PDA goes to the owner.
CloseVault(signer, place) ==
    /\ HasOne(signer)
    /\ Emptied(place)
    /\ \/ /\ IsSol(vault)
          /\ UNCHANGED accounts
       \/ /\ ~IsSol(vault)
          /\ <<vault.mint, place>> \in accounts
          /\ tokens[<<vault.mint, place>>] = 0
          /\ accounts' = accounts \ {<<vault.mint, place>>}
    /\ open' = FALSE
    /\ vault' = DefaultVault
    /\ lamports' = 0
    /\ Credit(signer, None, lamports)
    /\ UNCHANGED <<now, tokens>>

-----------------------------------------------------------------------------
(* The heirs' instructions. *)

ClaimSol(signer) ==
    /\ open
    /\ IsSol(vault)
    /\ \E i \in Slots :
        LET amount == ClaimAmount(vault, i, Withdrawable)
        IN  /\ MayClaim(vault, signer, i, now)
            /\ vault' = BookClaim(vault, i, Withdrawable)
            /\ amount > 0
            /\ amount <= Withdrawable
            /\ MoveLamports(signer, amount)
    /\ UNCHANGED <<now, open, accounts, tokens>>

ClaimSpl(signer, m) ==
    /\ open
    /\ MintMatches(m)
    /\ VaultAta(m) \in accounts
    /\ \E i \in Slots :
        LET available == tokens[VaultAta(m)]
            amount    == ClaimAmount(vault, i, available)
        IN  /\ MayClaim(vault, signer, i, now)
            /\ vault' = BookClaim(vault, i, available)
            /\ amount > 0
            /\ amount <= available
            /\ TokensOut(VaultAta(m), signer, amount)
    /\ UNCHANGED <<now, open, lamports, accounts>>

-----------------------------------------------------------------------------
(* What happens to the accounts without the program. *)

\* Anyone can send lamports to any address, opened or not.
SendLamports(w, amount) ==
    /\ amount > 0
    /\ TransferLamports(w, amount)
    /\ UNCHANGED <<now, open, vault, accounts, tokens>>

\* Anyone can create a token account that belongs to the PDA, and fund it.
CreateTokenAccount(m, place) ==
    /\ <<m, place>> \notin accounts
    /\ accounts' = accounts \cup {<<m, place>>}
    /\ UNCHANGED <<now, open, vault, lamports, tokens, purse>>

SendTokens(w, m, place, amount) ==
    /\ amount > 0
    /\ <<m, place>> \in accounts
    /\ TokensIn(w, <<m, place>>, amount)
    /\ UNCHANGED <<now, open, vault, lamports, accounts>>

Tick ==
    /\ now < MAX_CLOCK
    /\ now' = now + 1
    /\ UNCHANGED <<open, vault, lamports, accounts, tokens, purse>>

-----------------------------------------------------------------------------

OwnerInstruction(signer) ==
    \/ \E m \in Assets, timeout \in Timeouts, inputs \in Tables :
          InitializeVault(signer, m, timeout, inputs)
    \/ CheckIn(signer)
    \/ \E inputs \in Tables : SetBeneficiaries(signer, inputs)
    \/ \E amount \in Amounts : DepositSol(signer, amount)
    \/ \E m \in Mints, amount \in Amounts : DepositSpl(signer, m, amount)
    \/ \E amount \in Amounts : WithdrawSol(signer, amount)
    \/ \E m \in Mints, amount \in Amounts : WithdrawSpl(signer, m, amount)
    \/ \E place \in Places : CloseVault(signer, place)

Claim(signer) == ClaimSol(signer) \/ \E m \in Mints : ClaimSpl(signer, m)

Gift(w) ==
    \/ \E amount \in Gifts : SendLamports(w, amount)
    \/ \E m \in Mints, place \in Places : CreateTokenAccount(m, place)
    \/ \E m \in Mints, place \in Places, amount \in Gifts :
          SendTokens(w, m, place, amount)

Next ==
    \/ Tick
    \/ \E w \in Wallets : OwnerInstruction(w) \/ Claim(w) \/ Gift(w)

Spec == Init /\ [][Next]_vars

-----------------------------------------------------------------------------
(* Invariants. *)

\* Every variable stays in its type; balances and timestamps keep the width
\* they have in the program.
TypeOK ==
    /\ now \in 0..MAX_CLOCK
    /\ open \in BOOLEAN
    /\ vault \in VaultData
    /\ lamports \in Amount
    /\ accounts \in SUBSET (Mints \X Places)
    /\ tokens \in [Mints \X Places -> Amount]
    /\ purse \in [Wallets -> [Assets -> Amount]]

\* Whatever sequence of edits led here, an open vault has a heir table whose
\* shares make exactly 100% between distinct, real keys, and its unused slots
\* are blank (state.rs: "active slots sum to 10_000").
HeirTableValid == open => WellFormedTable(vault)

\* No instruction leaves a vault whose deadline overflows: its heirs could
\* never claim, since every claim would fail on the checked addition.  Only
\* the deadline() inside the log lines of initialize_vault and check_in
\* stands in the way.
DeadlineInRange == open => Deadline(vault) \in Times

\* The trip, the snapshot, the per-heir flags and the clock agree: an armed
\* vault has no snapshot and no paid heir, a tripped one has both, and it
\* tripped only after a full timeout of silence.
TripConsistent == open =>
    IF vault.is_claimed
    THEN /\ vault.claim_pool > 0
         /\ \E i \in Active(vault) : vault.beneficiaries[i].claimed
         /\ now >= Deadline(vault)
    ELSE /\ vault.claim_pool = 0
         /\ \A i \in Slots : ~vault.beneficiaries[i].claimed

Due(i) ==
    IF i \in Unclaimed(vault)
    THEN ShareOf(vault.claim_pool, vault.beneficiaries[i].share_bps)
    ELSE 0

\* A tripped vault can pay every heir who has not come yet, in whatever order
\* they come and however long they wait: what it holds covers the shares of
\* the snapshot that are still due.
Solvent == vault.is_claimed => SumOverSlots([i \in Slots |-> Due(i)]) <= Holding

\* Nothing is made or lost, over all the sequences of instructions, gifts and
\* closings: what the wallets, the PDA and its token accounts hold together is
\* what the wallets were granted, and nothing lies where there is no account.
Conserved ==
    /\ Total(purse, None) + lamports = Total(Grants, None)
    /\ \A m \in Mints :
        Total(purse, m) + SumFunction([place \in Places |-> tokens[<<m, place>>]])
            = Total(Grants, m)
    /\ \A a \in (Mints \X Places) \ accounts : tokens[a] = 0

\* The program never moves the lamports that keep the account alive.
ReserveKept == open => lamports >= RENT

-----------------------------------------------------------------------------
(* Action properties. *)

\* Slot i of the vault is paid in this step.
Paid(i) ==
    /\ open'
    /\ i \in Unclaimed(vault)
    /\ vault'.beneficiaries[i].claimed

\* An heir who is marked as paid received, from what the vault held and in
\* the vault's asset, at least their share of the pool, rounded down to a
\* whole unit, whether they came first, in between or last.
FairStep == \A i \in Slots : Paid(i) =>
    LET heir == vault.beneficiaries[i].address
        pool == IF vault.is_claimed THEN vault.claim_pool ELSE Holding
        paid == purse'[heir][vault.mint] - purse[heir][vault.mint]
    IN  /\ heir \in Wallets
        /\ paid > 0
        /\ (paid + 1) * TOTAL_SHARE_BPS > pool * vault.beneficiaries[i].share_bps
        /\ Holding' = Holding - paid

FairPayout == [][FairStep]_vars

\* The claim after which nobody is left leaves nothing behind: no dust stays
\* in a vault that cannot be reopened (the comment on ClaimTicket::is_last).
SweepStep ==
    open /\ open' /\ Unclaimed(vault) # {} /\ Unclaimed(vault') = {}
        => Holding' = 0

LastHeirSweeps == [][SweepStep]_vars

\* From the first claim on the owner is locked out: the timer, the table and
\* the snapshot are frozen, a paid heir stays paid, and the vault loses
\* nothing but what a claim takes.
FrozenStep ==
    vault.is_claimed /\ open' =>
        /\ vault' = [vault EXCEPT !.beneficiaries = vault'.beneficiaries]
        /\ \A i \in Slots :
            \/ vault'.beneficiaries[i] = vault.beneficiaries[i]
            \/ /\ Paid(i)
               /\ vault'.beneficiaries[i]
                     = [vault.beneficiaries[i] EXCEPT !.claimed = TRUE]
        /\ Holding' < Holding => \E i \in Slots : Paid(i)

TrippedIsFinal == [][FrozenStep]_vars

\* Tokens leave an account of the PDA only if it is the ATA of the mint the
\* open vault was created for.
OwnMintStep ==
    \A a \in Mints \X Places : tokens'[a] < tokens[a] =>
        open /\ vault.mint # None /\ a = VaultAta(vault.mint)

OnlyOwnMint == [][OwnMintStep]_vars

-----------------------------------------------------------------------------
(* The abstract specification. *)

\* What can be read at the address of the vault by those who only watch it.
Readable ==
    [open         |-> open,
     last_checkin |-> vault.last_checkin,
     timeout      |-> vault.timeout_seconds,
     is_claimed   |-> vault.is_claimed]

Public == INSTANCE Switch WITH
    Timeouts <- MIN_TIMEOUT_SECONDS..MAX_TIMEOUT_SECONDS,
    account  <- Readable

\* Whatever the program does with tables, balances and token accounts, those
\* who watch a vault see a dead-man switch: a timer that only its owner's
\* check-ins move, a claim that only comes after a full timeout of silence,
\* and nothing but closing after that.
ImplementsSwitch == Public!Spec

\* What the slots in S leave to whom.
Bequests(slots, S) ==
    {[heir |-> slots[i].address, share |-> slots[i].share_bps] : i \in S}

Money == INSTANCE Inheritance WITH
    Wills  <- {Bequests(FillSlots(inputs), 1..Len(inputs)) :
                  inputs \in {t \in Tables : ValidTable(t)}},
    WHOLE  <- TOTAL_SHARE_BPS,
    will   <- Bequests(vault.beneficiaries, Active(vault)),
    paid   <- Bequests(vault.beneficiaries, Active(vault) \ Unclaimed(vault)),
    whole  <- vault.claim_pool,
    estate <- IF open THEN Holding ELSE 0

\* Whatever the asset and whatever is sent in between, in any order of claims,
\* the vault is an estate that its owner disposes of until the first heir moves,
\* and that is then divided by one will, of one whole, to the last unit.  It is
\* divided before the vault can be closed as long as the PDA owns no token
\* account but its ATA: with another one of the mint, closing does not wait for
\* that (CloseOrphansNothing).
ImplementsInheritance == Money!Spec

-----------------------------------------------------------------------------
(* What the documentation says and the code does not do. *)

\* README: once the timer has run out each heir triggers their own payout and
\* "nothing stalls".  So whenever something is left and an heir is left, some
\* claim would go through.
NothingStalls ==
    open /\ IsExpired(vault, now) /\ Unclaimed(vault) # {} /\ Holding > 0
        => ENABLED \E w \in Wallets : Claim(w)

\* README, invariant 6: a vault "can only be closed once it is empty, so no
\* balance is ever orphaned".  It holds nothing of its asset then, and no heir
\* of a tripped vault is still owed anything.
CloseStep ==
    open /\ ~open' =>
        /\ Holding = 0
        /\ \A i \in Slots : vault.is_claimed => Due(i) = 0

CloseOrphansNothing == [][CloseStep]_vars

=============================================================================
