------------------------------ MODULE Answers ------------------------------
(***************************************************************************)
(* What the program answers to an instruction: Ok, or the first error that *)
(* its checks run into.  Vault.tla says what an instruction does when it   *)
(* goes through; this module keeps the order in which accounts,            *)
(* constraints and handler are checked, and the error each check names     *)
(* (error.rs), because that answer is all a wallet sees of a refusal.      *)
(*                                                                         *)
(* The wallets' own token accounts are taken to exist, and close_vault to  *)
(* be given a token account of the PDA and the vault's mint, or none.      *)
(***************************************************************************)
EXTENDS Vault, SequencesExt

\* DmsError.
DmsErrors ==
    {"Unauthorized", "TimeoutNotReached", "AlreadyClaimed", "InvalidShares",
     "TooManyBeneficiaries", "MathOverflow", "InvalidTimeout", "NoBeneficiaries",
     "DuplicateBeneficiary", "InvalidBeneficiary", "InvalidAmount", "MintMismatch",
     "NotSolVault", "NotSplVault", "VaultTriggered", "InsufficientFunds",
     "VaultNotEmpty", "MissingTokenAccount"}

\* What the program does not answer itself: Anchor refuses an account that is
\* missing or at another address, the runtime or another program a transfer.
Foreign == {"Anchor", "Transfer"}

Refuse(condition, error) == [hit |-> condition, error |-> error]

\* Checks run in order; the first that is hit is the answer.
FirstHit(checks) ==
    LET i == SelectInSeq(checks, LAMBDA c : c.hit)
    IN  IF i = 0 THEN "Ok" ELSE checks[i].error

-----------------------------------------------------------------------------
(* Checks that several instructions make. *)

Exists == <<Refuse(~open, "Anchor")>>

OwnerSigns(signer) == <<Refuse(signer # Owner, "Unauthorized")>>

\* Wrong: the owner is locked out by the deadline, not by the first claim.
Armed_BugDeadline == <<Refuse(open /\ now >= Deadline(vault), "VaultTriggered")>>

Armed == <<Refuse(vault.is_claimed, "VaultTriggered")>>

ForSol == <<Refuse(~IsSol(vault), "NotSolVault")>>

\* Wrong: copied from the instructions on lamports, error included.
ForSpl_BugCopied == <<Refuse(IsSol(vault), "NotSolVault")>>

ForSpl == <<Refuse(IsSol(vault), "NotSplVault")>>

OfMint(m) == <<Refuse(vault.mint # m, "MintMismatch")>>

HasAta(m) == <<Refuse(VaultAta(m) \notin accounts, "Anchor")>>

Positive(amount) == <<Refuse(amount = 0, "InvalidAmount")>>

\* transfer and transfer_checked: the source has it, the target can take it.
Transferable(amount, source, target) ==
    <<Refuse(amount > source \/ target + amount > MAX_U64, "Transfer")>>

\* move_lamports has errors of its own.
Movable(amount, target) ==
    <<Refuse(amount > lamports, "InsufficientFunds"),
      Refuse(target + amount > MAX_U64, "MathOverflow")>>

ShareUpTo(slots, i) ==
    SumOverSlots([j \in Slots |-> IF j <= i THEN slots[j].share_bps ELSE 0])

\* One round of the loop of validate_slots.
SlotChecks(slots, i) ==
    <<Refuse(slots[i].address = DEFAULT_KEY, "InvalidBeneficiary"),
      Refuse(slots[i].share_bps = 0, "InvalidShares"),
      Refuse(\E j \in 1..(i - 1) : slots[j].address = slots[i].address,
             "DuplicateBeneficiary"),
      Refuse(ShareUpTo(slots, i) > MAX_U16, "MathOverflow")>>

TableChecks(inputs) ==
    LET slots == FillSlots(inputs)
        n     == IF Len(inputs) <= MAX_BENEFICIARIES THEN Len(inputs) ELSE 0
    IN  <<Refuse(Len(inputs) > MAX_BENEFICIARIES, "TooManyBeneficiaries"),
          Refuse(n = 0, "NoBeneficiaries")>>
        \o FlattenSeq([i \in 1..n |-> SlotChecks(slots, i)])
        \o <<Refuse(ShareUpTo(slots, n) # TOTAL_SHARE_BPS, "InvalidShares")>>

DeadlineChecks(v) == <<Refuse(~DeadlineFits(v), "MathOverflow")>>

\* index_of; 0 for a key that is not listed.
IndexOf(v, key) ==
    SelectInSeq(SubSeq(v.beneficiaries, 1, v.beneficiary_count),
                LAMBDA b : b.address = key)

\* authorize_claim.
ClaimantChecks(signer) ==
    LET i == IndexOf(vault, signer)
    IN  DeadlineChecks(vault)
        \o <<Refuse(now < Deadline(vault), "TimeoutNotReached"),
             Refuse(i = 0, "Unauthorized"),
             Refuse(i # 0 /\ vault.beneficiaries[i].claimed, "AlreadyClaimed")>>

\* What the claim handlers ask of the amount, before it is moved.
PayoutChecks(signer, available) ==
    LET i      == IndexOf(vault, signer)
        amount == ClaimAmount(vault, i, available)
    IN  <<Refuse(i # 0 /\ amount = 0, "InsufficientFunds"),
          Refuse(i # 0 /\ amount > available, "InsufficientFunds"),
          Refuse(i # 0 /\ purse[signer][vault.mint] + amount > MAX_U64,
                 IF IsSol(vault) THEN "MathOverflow" ELSE "Transfer")>>

\* Wrong: the amount is looked at before the claimant.
ClaimChecks_BugPayoutFirst(signer, available) ==
    PayoutChecks(signer, available) \o ClaimantChecks(signer)

ClaimChecks(signer, available) ==
    ClaimantChecks(signer) \o PayoutChecks(signer, available)

-----------------------------------------------------------------------------
(* The answers, instruction by instruction. *)

InitializeVaultAnswer(signer, m, timeout, inputs) ==
    FirstHit(
        <<Refuse(signer # Owner \/ open, "Anchor")>>
        \o Transferable(RentDue, purse[signer][None], lamports)
        \o <<Refuse(~ValidTimeout(timeout), "InvalidTimeout")>>
        \o TableChecks(inputs)
        \o <<Refuse(now + timeout > MAX_I64, "MathOverflow")>>)

CheckInAnswer(signer) ==
    FirstHit(Exists \o OwnerSigns(signer) \o Armed
             \o <<Refuse(now + vault.timeout_seconds > MAX_I64, "MathOverflow")>>)

SetBeneficiariesAnswer(signer, inputs) ==
    FirstHit(Exists \o OwnerSigns(signer) \o Armed \o TableChecks(inputs))

DepositSolAnswer(signer, amount) ==
    FirstHit(Exists \o OwnerSigns(signer) \o ForSol \o Armed \o Positive(amount)
             \o Transferable(amount, purse[signer][None], lamports))

DepositSplAnswer(signer, m, amount) ==
    FirstHit(Exists \o OwnerSigns(signer) \o ForSpl \o Armed \o OfMint(m)
             \o Positive(amount)
             \o Transferable(amount, purse[signer][m], tokens[VaultAta(m)]))

WithdrawSolAnswer(signer, amount) ==
    FirstHit(Exists \o OwnerSigns(signer) \o ForSol \o Armed \o Positive(amount)
             \o <<Refuse(amount > Withdrawable, "InsufficientFunds")>>
             \o Movable(amount, purse[signer][None]))

WithdrawSplAnswer(signer, m, amount) ==
    FirstHit(Exists \o HasAta(m) \o OwnerSigns(signer) \o ForSpl \o Armed \o OfMint(m)
             \o Positive(amount)
             \o <<Refuse(amount > tokens[VaultAta(m)], "InsufficientFunds")>>
             \o Transferable(amount, tokens[VaultAta(m)], purse[signer][m]))

ClaimSolAnswer(signer) ==
    FirstHit(Exists \o ForSol \o ClaimChecks(signer, Withdrawable))

ClaimSplAnswer(signer, m) ==
    FirstHit(Exists \o HasAta(m) \o ForSpl \o OfMint(m)
             \o ClaimChecks(signer, tokens[VaultAta(m)]))

\* Called without a token account the SPL vault is refused; what lies in one
\* that is given has to be nothing.
CloseVaultAnswer(signer, place) ==
    LET given == <<vault.mint, place>> \in accounts
    IN  FirstHit(Exists \o OwnerSigns(signer)
            \o <<Refuse(IsSol(vault) /\ Withdrawable > 0, "VaultNotEmpty"),
                 Refuse(~IsSol(vault) /\ ~given, "MissingTokenAccount"),
                 Refuse(given /\ tokens[<<vault.mint, place>>] > 0, "VaultNotEmpty")>>
            \o Transferable(lamports, lamports, purse[signer][None]))

-----------------------------------------------------------------------------
(* What a refusal may be for, said of the state and the arguments alone,   *)
(* whatever is checked and in which order.                                 *)

When(condition, error) == IF condition THEN {error} ELSE {}

NotTheOwner(w) == When(~open, "Anchor") \cup When(w # Owner, "Unauthorized")

AnHeirCame == When(\E i \in Slots : vault.beneficiaries[i].claimed, "VaultTriggered")

IsOfTokens == When(vault.mint \in Mints, "NotSolVault")

IsOfOther(m) ==
    When(vault.mint \notin Mints, "NotSplVault")
    \cup When(vault.mint \in Mints \ {m}, "MintMismatch")

NothingAsked(amount) == When(amount = 0, "InvalidAmount")

BadTable(inputs) ==
    LET total == TotalShare(FillSlots(inputs))
    IN  When(Len(inputs) > MAX_BENEFICIARIES, "TooManyBeneficiaries")
        \cup When(inputs = <<>>, "NoBeneficiaries")
        \cup When(\E i \in DOMAIN inputs : inputs[i].address = DEFAULT_KEY,
                  "InvalidBeneficiary")
        \cup When(\E i, j \in DOMAIN inputs :
                      i # j /\ inputs[i].address = inputs[j].address,
                  "DuplicateBeneficiary")
        \cup When(\/ \E i \in DOMAIN inputs : inputs[i].share_bps = 0
                  \/ total # TOTAL_SHARE_BPS,
                  "InvalidShares")
        \cup When(total > MAX_U16, "MathOverflow")

\* A claimant is early, nobody, paid already, or due less than a unit.
NotDue(w) ==
    LET named == {i \in Active(vault) : vault.beneficiaries[i].address = w}
        due   == {i \in named : ~vault.beneficiaries[i].claimed}
    IN  When(now < Deadline(vault), "TimeoutNotReached")
        \cup When(named = {}, "Unauthorized")
        \cup When(named # due, "AlreadyClaimed")
        \cup When(\E i \in due :
                      ShareOf(PoolAt(vault, Holding), vault.beneficiaries[i].share_bps) = 0,
                  "InsufficientFunds")

-----------------------------------------------------------------------------
(* Properties. *)

Explained(answer, reasons, passes) ==
    /\ answer \in {"Ok"} \cup reasons
    /\ answer = "Ok" <=> passes

\* Whichever check comes first, nothing is refused that Vault lets pass, nothing
\* passes that it does not, and the error names something that is true: nobody
\* is told that a sum overflows or that a transfer fails when all that is
\* missing is a right, and no answer to a claim, a withdrawal or a closing ever
\* is that a balance overflows.
RefusedWithReason ==
    \A w \in Wallets :
        /\ \A m \in Assets, timeout \in Timeouts, inputs \in Tables :
              Explained(InitializeVaultAnswer(w, m, timeout, inputs),
                        When(open \/ w # Owner, "Anchor")
                        \cup When(purse[w][None] < RENT - lamports, "Transfer")
                        \cup When(~ValidTimeout(timeout), "InvalidTimeout")
                        \cup BadTable(inputs)
                        \cup When(now + timeout > MAX_I64, "MathOverflow"),
                        ENABLED InitializeVault(w, m, timeout, inputs))
        /\ Explained(CheckInAnswer(w),
                     NotTheOwner(w) \cup AnHeirCame
                     \cup When(now + vault.timeout_seconds > MAX_I64, "MathOverflow"),
                     ENABLED CheckIn(w))
        /\ \A inputs \in Tables :
              Explained(SetBeneficiariesAnswer(w, inputs),
                        NotTheOwner(w) \cup AnHeirCame \cup BadTable(inputs),
                        ENABLED SetBeneficiaries(w, inputs))
        /\ \A amount \in Amounts :
              LET reasons == NotTheOwner(w) \cup AnHeirCame \cup IsOfTokens
                             \cup NothingAsked(amount)
              IN  /\ Explained(DepositSolAnswer(w, amount),
                               reasons \cup When(amount > purse[w][None], "Transfer"),
                               ENABLED DepositSol(w, amount))
                  /\ Explained(WithdrawSolAnswer(w, amount),
                               reasons \cup When(amount > Holding, "InsufficientFunds"),
                               ENABLED WithdrawSol(w, amount))
        /\ \A m \in Mints, amount \in Amounts :
              LET reasons == NotTheOwner(w) \cup AnHeirCame \cup IsOfOther(m)
                             \cup NothingAsked(amount)
              IN  /\ Explained(DepositSplAnswer(w, m, amount),
                               reasons \cup When(amount > purse[w][m], "Transfer"),
                               ENABLED DepositSpl(w, m, amount))
                  /\ Explained(WithdrawSplAnswer(w, m, amount),
                               reasons \cup When(VaultAta(m) \notin accounts, "Anchor")
                               \cup When(amount > Holding, "InsufficientFunds"),
                               ENABLED WithdrawSpl(w, m, amount))
        /\ \A place \in Places :
              LET given == <<vault.mint, place>>
              IN  Explained(CloseVaultAnswer(w, place),
                            NotTheOwner(w)
                            \cup When(~IsSol(vault) /\ given \notin accounts,
                                      "MissingTokenAccount")
                            \cup When(\/ Holding > 0
                                      \/ given \in accounts /\ tokens[given] > 0,
                                      "VaultNotEmpty"),
                            ENABLED CloseVault(w, place))
        /\ Explained(ClaimSolAnswer(w),
                     When(~open, "Anchor") \cup IsOfTokens \cup NotDue(w),
                     ENABLED ClaimSol(w))
        /\ \A m \in Mints :
              Explained(ClaimSplAnswer(w, m),
                        When(~open \/ VaultAta(m) \notin accounts, "Anchor")
                        \cup IsOfOther(m) \cup NotDue(w),
                        ENABLED ClaimSpl(w, m))

\* The answer to a claim of the asset the vault is for.
ClaimAnswer(signer) ==
    IF IsSol(vault) THEN ClaimSolAnswer(signer) ELSE ClaimSplAnswer(signer, vault.mint)

\* A heir who repeats a claim, because the answer to it was lost, is told that
\* it went through, for as long as the vault exists: not that it is too early,
\* not that they are nobody, not that the money is gone.
PaidHeirIsTold ==
    open => \A w \in Wallets, i \in Active(vault) :
        /\ vault.beneficiaries[i].address = w
        /\ vault.beneficiaries[i].claimed
        /\ IsSol(vault) \/ VaultAta(vault.mint) \in accounts
        => ClaimAnswer(w) = "AlreadyClaimed"

\* Once the timer has run out, a heir who was not paid yet is never refused
\* because a sum overflows or because the vault lacks what the snapshot
\* promised: what they are owed is paid, unless it is nothing.
EligibleHeirIsServed ==
    open /\ now >= Deadline(vault) => \A w \in Wallets, i \in Unclaimed(vault) :
        vault.beneficiaries[i].address = w /\ ClaimAmount(vault, i, Holding) > 0
            => ClaimAnswer(w) = "Ok"

\* Being late is not the same as being dead (README): until an heir has moved,
\* the owner can take out everything the vault holds, however overdue.
OwnerCanTakeAllBack ==
    open /\ ~vault.is_claimed /\ Holding > 0 =>
        IF IsSol(vault)
        THEN WithdrawSolAnswer(Owner, Holding) = "Ok"
        ELSE WithdrawSplAnswer(Owner, vault.mint, Holding) = "Ok"

\* Every heir was paid, so that nobody but the owner has anything left to do.
Settled == open /\ vault.is_claimed /\ Unclaimed(vault) = {}

Closable == CloseVaultAnswer(Owner, ATA) = "Ok"

SettledStep ==
    Settled' /\ (~Settled \/ Closable) => Closable' \/ Holding' > Holding

\* close_vault "works both before anything happened and after every heir has
\* claimed" (close_vault.rs): the last claim, whoever makes it and whatever was
\* sent in between, leaves a vault that the owner can close and take the rent
\* back from, and only a gift of the vault's own asset can end that.
LastClaimLetsClose == [][SettledStep]_vars

=============================================================================
