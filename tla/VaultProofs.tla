---------------------------- MODULE VaultProofs ----------------------------
(***************************************************************************)
(* What holds in every behaviour of Vault, for every value of its          *)
(* constants.  The plan: TypeOK first; then the shapes a step can have, so *)
(* that an invariant is looked at six times and not seventeen; then one    *)
(* lemma for each part of the invariant VaultInv; and from VaultInv the    *)
(* action properties.                                                      *)
(***************************************************************************)
EXTENDS Vault, RulesProofs

-----------------------------------------------------------------------------
(* Type correctness. *)

\* What the purses may be.
Purses == [Wallets -> [Assets -> Amount]]

\* A checked credit stays in u64.
LEMMA CreditType ==
    ASSUME purse \in Purses, NEW w \in Wallets, NEW asset \in Assets,
           NEW amount \in Nat, Credit(w, asset, amount)
    PROVE  purse' \in Purses
BY WidthAssumption DEF Purses, Credit, CanCredit, Amount

\* A checked debit stays in u64.
LEMMA DebitType ==
    ASSUME purse \in Purses, NEW w \in Wallets, NEW asset \in Assets,
           NEW amount \in Nat, Debit(w, asset, amount)
    PROVE  purse' \in Purses
BY WidthAssumption DEF Purses, Debit, Amount

\* What can be moved is a part of the lamports.
LEMMA WithdrawableType ==
    ASSUME TypeOK
    PROVE  Withdrawable \in Amount /\ Withdrawable <= lamports
BY RentAssumption, WidthAssumption DEF TypeOK, Withdrawable, Amount

\* Lamports and tokens are both assets of a purse.
LEMMA NoneIsAnAsset == None \in Assets /\ Mints \subseteq Assets
BY DEF Assets

\* The initial state is typed.
LEMMA TypeInit == Init => TypeOK
<1> SUFFICES ASSUME Init
             PROVE  TypeOK
  OBVIOUS
<1>1. 0 \in Amount /\ 0 \in 0..MAX_CLOCK
  BY ClockAssumption, WidthAssumption DEF Amount, Times
<1> QED
  BY <1>1, DefaultVaultType, GrantAssumption DEF Init, TypeOK

\* Every instruction keeps the types; one step for each.
LEMMA TypeStep == TypeOK /\ [Next]_vars => TypeOK'
<1> SUFFICES ASSUME TypeOK, [Next]_vars
             PROVE  TypeOK'
  OBVIOUS
<1> USE DEF TypeOK, Purses
<1>0. /\ now \in Times
      /\ lamports \in Nat
      /\ \A asset \in Assets, w \in Wallets : purse[w][asset] \in Nat
      /\ \A a \in Mints \X Places : tokens[a] \in Nat
      /\ MAX_U64 \in Nat
  BY ClockAssumption, WidthAssumption DEF Times, Amount
<1>1. CASE Tick
  BY <1>1, ClockAssumption DEF Tick, Times
<1>2. ASSUME NEW w \in Wallets, NEW m \in Assets, NEW timeout \in Timeouts,
             NEW inputs \in Tables, InitializeVault(w, m, timeout, inputs)
      PROVE  TypeOK'
  <2>1. inputs \in Seq(BeneficiaryInput)
    BY InputAssumption
  <2>2. /\ Len(inputs) \in 0..MAX_BENEFICIARIES
        /\ FillSlots(inputs) \in [Slots -> Beneficiary]
    BY <2>1, <1>2, FillSlotsType, ValidTableLen DEF InitializeVault
  <2>3. timeout \in Nat
    BY <1>2, TimeoutAssumption DEF InitializeVault, ValidTimeout
  <2>4. vault' \in VaultData
    <3>1. 0 \in Amount /\ m \in {None} \cup Mints
      BY <1>0 DEF Amount, Assets
    <3> QED
      BY <1>0, <1>2, <2>2, <2>3, <3>1 DEF InitializeVault, VaultData
  <2>5. RentDue \in Nat /\ lamports + RentDue \in Amount
    BY <1>0, RentAssumption DEF RentDue, Amount
  <2>6. purse' \in Purses
    BY <1>2, <2>5, DebitType, NoneIsAnAsset DEF InitializeVault
  <2> QED
    BY <1>2, <2>4, <2>5, <2>6 DEF InitializeVault
<1>3. ASSUME NEW w \in Wallets, CheckIn(w)
      PROVE  TypeOK'
  BY <1>0, <1>3 DEF CheckIn, VaultData
<1>4. ASSUME NEW w \in Wallets, NEW inputs \in Tables,
             SetBeneficiaries(w, inputs)
      PROVE  TypeOK'
  <2>1. inputs \in Seq(BeneficiaryInput)
    BY InputAssumption
  <2>2. /\ Len(inputs) \in 0..MAX_BENEFICIARIES
        /\ FillSlots(inputs) \in [Slots -> Beneficiary]
    BY <2>1, <1>4, FillSlotsType, ValidTableLen DEF SetBeneficiaries
  <2> QED
    <3>1. vault' \in VaultData
      BY <1>4, <2>2 DEF SetBeneficiaries, VaultData
    <3> QED
      BY <1>4, <3>1 DEF SetBeneficiaries
<1>5. ASSUME NEW w \in Wallets, NEW amount \in Nat, TransferLamports(w, amount)
      PROVE  lamports' \in Amount /\ purse' \in Purses
  BY <1>0, <1>5, DebitType, NoneIsAnAsset DEF TransferLamports, Amount
<1>6. ASSUME NEW w \in Wallets, NEW amount \in Nat, NEW m \in Mints,
             NEW place \in Places, TokensIn(w, <<m, place>>, amount)
      PROVE  tokens' \in [Mints \X Places -> Amount] /\ purse' \in Purses
  BY <1>0, <1>6, DebitType, NoneIsAnAsset DEF TokensIn, Amount
<1>7. ASSUME NEW w \in Wallets, NEW amount \in Nat, MoveLamports(w, amount)
      PROVE  lamports' \in Amount /\ purse' \in Purses
  BY <1>0, <1>7, CreditType, NoneIsAnAsset DEF MoveLamports, Amount
<1>8. ASSUME NEW w \in Wallets, NEW amount \in Nat, NEW m \in Mints,
             NEW place \in Places, TokensOut(<<m, place>>, w, amount)
      PROVE  tokens' \in [Mints \X Places -> Amount] /\ purse' \in Purses
  BY <1>0, <1>8, CreditType, NoneIsAnAsset DEF TokensOut, Amount
<1>9. ATA \in Places
  BY DEF Places
<1>10. ASSUME NEW w \in Wallets, NEW amount \in Amounts, DepositSol(w, amount)
       PROVE  TypeOK'
  BY <1>5, <1>10, InputAssumption DEF DepositSol
<1>11. ASSUME NEW w \in Wallets, NEW m \in Mints, NEW amount \in Amounts,
              DepositSpl(w, m, amount)
       PROVE  TypeOK'
  BY <1>6, <1>9, <1>11, InputAssumption DEF DepositSpl, VaultAta
<1>12. ASSUME NEW w \in Wallets, NEW amount \in Amounts, WithdrawSol(w, amount)
       PROVE  TypeOK'
  BY <1>7, <1>12, InputAssumption DEF WithdrawSol
<1>13. ASSUME NEW w \in Wallets, NEW m \in Mints, NEW amount \in Amounts,
              WithdrawSpl(w, m, amount)
       PROVE  TypeOK'
  BY <1>8, <1>9, <1>13, InputAssumption DEF WithdrawSpl, VaultAta
<1>14. ASSUME NEW w \in Wallets, NEW place \in Places, CloseVault(w, place)
       PROVE  TypeOK'
  <2>1. purse' \in Purses
    BY <1>0, <1>14, CreditType, NoneIsAnAsset DEF CloseVault
  <2>2. accounts' \in SUBSET (Mints \X Places) /\ 0 \in Amount
    BY <1>0, <1>14 DEF CloseVault, Amount
  <2> QED
    BY <1>14, <2>1, <2>2, DefaultVaultType DEF CloseVault
<1>15. ASSUME NEW w \in Wallets, ClaimSol(w)
       PROVE  TypeOK'
  <2>1. PICK i \in Slots :
          /\ vault' = BookClaim(vault, i, Withdrawable)
          /\ MoveLamports(w, ClaimAmount(vault, i, Withdrawable))
    BY <1>15 DEF ClaimSol
  <2>2. Withdrawable \in Amount
    BY WithdrawableType
  <2>3. vault' \in VaultData
    BY <2>1, <2>2, BookClaimType
  <2>4. lamports' \in Amount /\ purse' \in Purses
    BY <1>7, <2>1, <2>2, ClaimAmountType
  <2> QED
    BY <1>15, <2>3, <2>4 DEF ClaimSol
<1>16. ASSUME NEW w \in Wallets, NEW m \in Mints, ClaimSpl(w, m)
       PROVE  TypeOK'
  <2> DEFINE available == tokens[VaultAta(m)]
  <2>1. PICK i \in Slots :
          /\ vault' = BookClaim(vault, i, available)
          /\ TokensOut(<<m, ATA>>, w, ClaimAmount(vault, i, available))
    BY <1>16 DEF ClaimSpl, VaultAta
  <2>2. available \in Amount
    BY <1>9 DEF VaultAta
  <2> HIDE DEF available
  <2>3. vault' \in VaultData
    BY <2>1, <2>2, BookClaimType
  <2>4. tokens' \in [Mints \X Places -> Amount] /\ purse' \in Purses
    BY <1>8, <1>9, <2>1, <2>2, ClaimAmountType
  <2> QED
    BY <1>16, <2>3, <2>4 DEF ClaimSpl
<1>17. ASSUME NEW w \in Wallets, Gift(w)
       PROVE  TypeOK'
  <2>1. CASE \E amount \in Gifts : SendLamports(w, amount)
    BY <2>1, <1>5, InputAssumption DEF SendLamports
  <2>2. CASE \E m \in Mints, place \in Places : CreateTokenAccount(m, place)
    BY <2>2 DEF CreateTokenAccount
  <2>3. CASE \E m \in Mints, place \in Places, amount \in Gifts :
               SendTokens(w, m, place, amount)
    BY <2>3, <1>6, InputAssumption DEF SendTokens
  <2> QED
    BY <1>17, <2>1, <2>2, <2>3 DEF Gift
<1>18. CASE UNCHANGED vars
  BY <1>18 DEF vars
<1> QED
  BY <1>1, <1>2, <1>3, <1>4, <1>10, <1>11, <1>12, <1>13, <1>14, <1>15, <1>16,
     <1>17, <1>18 DEF Next, OwnerInstruction, Claim

\* Whatever the constants, every variable keeps its type: in particular no
\* balance, snapshot or timestamp leaves the width it has in the program.
THEOREM TypeCorrect == Spec => []TypeOK
BY TypeInit, TypeStep, PTL DEF Spec

-----------------------------------------------------------------------------
(* The shapes a step can have, as far as the vault is concerned. *)

\* The vault account is not written: the clock, deposits, withdrawals and
\* what others do.  The reserve is kept, and nothing leaves a tripped vault.
QuietStep ==
    /\ UNCHANGED <<open, vault>>
    /\ now' = now \/ now' = now + 1
    /\ open /\ lamports >= RENT => lamports' >= RENT
    /\ vault.is_claimed => Holding' >= Holding

\* The heir at slot i claims; both assets, seen from the vault, alike.
ClaimStep(w, i) ==
    LET amount == ClaimAmount(vault, i, Holding)
    IN  /\ open
        /\ MayClaim(vault, w, i, now)
        /\ vault' = BookClaim(vault, i, Holding)
        /\ amount \in 1..Holding
        /\ Holding' = Holding - amount
        /\ purse'[w][vault.mint] = purse[w][vault.mint] + amount
        /\ lamports >= RENT => lamports' >= RENT
        /\ UNCHANGED <<now, open>>

\* What a vault holds is a number.
LEMMA HoldingType ==
    ASSUME TypeOK
    PROVE  /\ Holding \in Amount
           /\ ~IsSol(vault) => vault.mint \in Mints /\ VaultAta(vault.mint) \in Mints \X Places
BY WithdrawableType DEF TypeOK, Holding, VaultData, IsSol, VaultAta, Places

\* The same of the next state.
LEMMA NextHoldingType == TypeOK' => Holding' \in Nat
<1> SUFFICES ASSUME TypeOK'
             PROVE  Holding' \in Nat
  OBVIOUS
<1>1. /\ lamports' \in Nat /\ RENT \in Nat
      /\ tokens' \in [Mints \X Places -> Nat]
      /\ vault'.mint \in {None} \cup Mints
  BY RentAssumption, WidthAssumption DEF TypeOK, Amount, VaultData
<1>2. CASE IsSol(vault')
  <2>1. Withdrawable' = IF lamports' > RENT THEN lamports' - RENT ELSE 0
    BY DEF Withdrawable
  <2>2. Withdrawable' \in Nat
    <3>1. \A x \in Nat : (IF x > RENT THEN x - RENT ELSE 0) \in Nat
      BY <1>1
    <3> QED
      BY <1>1, <2>1, <3>1
  <2>3. Holding' = Withdrawable'
    BY <1>2 DEF Holding
  <2> QED
    BY <2>2, <2>3
<1>3. CASE ~IsSol(vault')
  <2>1. Holding' = tokens'[VaultAta(vault'.mint)]
    BY <1>3 DEF Holding, VaultAta
  <2>2. VaultAta(vault'.mint) \in Mints \X Places
    BY <1>1, <1>3 DEF VaultAta, IsSol, Places
  <2> QED
    BY <1>1, <2>1, <2>2
<1> QED
  BY <1>2, <1>3

\* Lamports that arrive never make a vault hold less.
LEMMA LamportsArrive ==
    ASSUME TypeOK, lamports' \in Nat, lamports' >= lamports,
           vault' = vault, tokens' = tokens
    PROVE  Holding' >= Holding
<1>1. lamports \in Nat /\ RENT \in Nat
  BY RentAssumption, WidthAssumption DEF TypeOK, Amount
<1>2. Withdrawable' >= Withdrawable
  <2>1. \A x, y \in Nat : x <= y =>
          (IF x > RENT THEN x - RENT ELSE 0) <= (IF y > RENT THEN y - RENT ELSE 0)
    BY <1>1
  <2>2. Withdrawable = IF lamports > RENT THEN lamports - RENT ELSE 0
    BY DEF Withdrawable
  <2>3. Withdrawable' = IF lamports' > RENT THEN lamports' - RENT ELSE 0
    BY DEF Withdrawable
  <2> QED
    BY <1>1, <2>1, <2>2, <2>3
<1>3. Holding \in Nat
  BY HoldingType, WidthAssumption DEF Amount
<1>4. CASE IsSol(vault)
  BY <1>2, <1>4 DEF Holding, IsSol
<1>5. CASE ~IsSol(vault)
  <2>1. Holding' = Holding
    BY <1>5 DEF Holding, IsSol, VaultAta
  <2> QED
    BY <1>3, <2>1
<1> QED
  BY <1>4, <1>5

\* Neither do tokens that arrive at any account of the PDA.
LEMMA TokensArrive ==
    ASSUME TypeOK, NEW a \in Mints \X Places, NEW amount \in Nat,
           tokens' = [tokens EXCEPT ![a] = @ + amount],
           vault' = vault, lamports' = lamports
    PROVE  Holding' >= Holding
<1>1. tokens \in [Mints \X Places -> Nat]
  BY WidthAssumption DEF TypeOK, Amount
<1>2. Holding \in Nat
  BY HoldingType, WidthAssumption DEF Amount
<1>3. CASE IsSol(vault)
  BY <1>2, <1>3 DEF Holding, IsSol, Withdrawable
<1>4. CASE ~IsSol(vault)
  <2>1. VaultAta(vault.mint) \in Mints \X Places
    BY <1>4, HoldingType
  <2>2. tokens'[VaultAta(vault.mint)] >= tokens[VaultAta(vault.mint)]
    BY <1>1, <2>1
  <2> QED
    BY <1>4, <2>2 DEF Holding, IsSol, VaultAta
<1> QED
  BY <1>3, <1>4

\* What a step of this module is made of has these types.
LEMMA StepNumbers ==
    ASSUME TypeOK
    PROVE  /\ now \in Nat /\ lamports \in Nat /\ RENT \in Nat
           /\ Holding \in Nat /\ Withdrawable \in Nat
           /\ purse \in Purses /\ tokens \in [Mints \X Places -> Nat]
           /\ ATA \in Places
BY HoldingType, WithdrawableType, RentAssumption, WidthAssumption, ClockAssumption
   DEF TypeOK, Amount, Times, Purses, Places

\* A transfer of lamports to the PDA writes no account of the program.
LEMMA LamportsShape ==
    ASSUME TypeOK, NEW w \in Wallets, NEW amount \in Nat, TransferLamports(w, amount),
           UNCHANGED <<now, open, vault, tokens>>
    PROVE  QuietStep /\ Holding' >= Holding
<1>1. lamports' \in Nat /\ lamports' >= lamports
  BY StepNumbers DEF TransferLamports
<1>2. Holding' >= Holding
  BY <1>1, LamportsArrive
<1> QED
  BY StepNumbers, <1>1, <1>2 DEF QuietStep

\* Nor does a transfer of tokens to an account of the PDA.
LEMMA TokensShape ==
    ASSUME TypeOK, NEW w \in Wallets, NEW a \in Mints \X Places, NEW amount \in Nat,
           TokensIn(w, a, amount), UNCHANGED <<now, open, vault, lamports>>
    PROVE  QuietStep /\ Holding' >= Holding
<1>1. Holding' >= Holding
  BY TokensArrive DEF TokensIn
<1> QED
  BY StepNumbers, <1>1 DEF QuietStep

\* What happens without the program leaves the vault account alone, and takes
\* nothing from it.
LEMMA OutsideShape ==
    ASSUME TypeOK, Tick \/ \E w \in Wallets : Gift(w)
    PROVE  QuietStep /\ Holding' >= Holding
<1>1. CASE Tick
  <2>1. Holding' = Holding
    BY <1>1 DEF Tick, Holding, IsSol, Withdrawable, VaultAta
  <2> QED
    BY StepNumbers, <1>1, <2>1 DEF Tick, QuietStep
<1>2. ASSUME NEW w \in Wallets, Gift(w)
      PROVE  QuietStep /\ Holding' >= Holding
  <2>1. ASSUME NEW amount \in Gifts, SendLamports(w, amount)
        PROVE  QuietStep /\ Holding' >= Holding
    BY LamportsShape, <2>1, InputAssumption DEF SendLamports
  <2>2. ASSUME NEW m \in Mints, NEW place \in Places, CreateTokenAccount(m, place)
        PROVE  QuietStep /\ Holding' >= Holding
    <3>1. Holding' = Holding
      BY <2>2 DEF CreateTokenAccount, Holding, IsSol, Withdrawable, VaultAta
    <3> QED
      BY StepNumbers, <2>2, <3>1 DEF CreateTokenAccount, QuietStep
  <2>3. ASSUME NEW m \in Mints, NEW place \in Places, NEW amount \in Gifts,
               SendTokens(w, m, place, amount)
        PROVE  QuietStep /\ Holding' >= Holding
    BY TokensShape, <2>3, InputAssumption DEF SendTokens
  <2> QED
    BY <1>2, <2>1, <2>2, <2>3 DEF Gift
<1> QED
  BY <1>1, <1>2

\* What a claim does to the vault is the same for both assets.
LEMMA ClaimShape ==
    ASSUME TypeOK, NEW w \in Wallets, Claim(w)
    PROVE  \E i \in Slots : ClaimStep(w, i)
<1>1. CASE ClaimSol(w)
  <2> DEFINE amount(i) == ClaimAmount(vault, i, Withdrawable)
  <2>1. PICK i \in Slots :
          /\ MayClaim(vault, w, i, now)
          /\ vault' = BookClaim(vault, i, Withdrawable)
          /\ amount(i) > 0
          /\ amount(i) <= Withdrawable
          /\ MoveLamports(w, amount(i))
    BY <1>1 DEF ClaimSol
  <2>2. /\ IsSol(vault) /\ vault.mint = None /\ Holding = Withdrawable
        /\ open /\ open' /\ UNCHANGED now
    BY <1>1 DEF ClaimSol, Holding, IsSol
  <2>3. amount(i) \in Nat
    BY ClaimAmountType, WithdrawableType DEF TypeOK
  <2>4. vault'.mint = None
    <3>1. vault \in VaultData
      BY DEF TypeOK
    <3> QED
      BY <2>1, <2>2, <3>1, BookClaimScalars, WithdrawableType
  <2> HIDE DEF amount
  <2>5. lamports' = lamports - amount(i)
    BY <2>1 DEF MoveLamports
  <2>6. Withdrawable' = Withdrawable - amount(i)
    BY StepNumbers, <2>1, <2>3, <2>5 DEF Withdrawable
  <2>7. lamports >= RENT => lamports' >= RENT
    BY StepNumbers, <2>1, <2>3, <2>5 DEF Withdrawable
  <2>8. Holding' = Holding - amount(i)
    BY <2>2, <2>4, <2>6 DEF Holding, IsSol
  <2>9. purse'[w][vault.mint] = purse[w][vault.mint] + amount(i)
    BY StepNumbers, <2>1, <2>2, NoneIsAnAsset DEF MoveLamports, Credit, Purses
  <2>10. amount(i) \in 1..Holding
    BY StepNumbers, <2>1, <2>2, <2>3
  <2> QED
    BY <2>1, <2>2, <2>7, <2>8, <2>9, <2>10 DEF ClaimStep, amount
<1>2. ASSUME NEW m \in Mints, ClaimSpl(w, m)
      PROVE  \E i \in Slots : ClaimStep(w, i)
  <2> DEFINE available == tokens[VaultAta(m)]
             amount(i) == ClaimAmount(vault, i, available)
  <2>1. PICK i \in Slots :
          /\ MayClaim(vault, w, i, now)
          /\ vault' = BookClaim(vault, i, available)
          /\ amount(i) > 0
          /\ amount(i) <= available
          /\ TokensOut(VaultAta(m), w, amount(i))
    BY <1>2 DEF ClaimSpl
  <2>2. /\ ~IsSol(vault) /\ vault.mint = m /\ Holding = available
        /\ open /\ open' /\ UNCHANGED <<now, lamports>>
    BY <1>2 DEF ClaimSpl, MintMatches, Holding
  <2>3. VaultAta(m) \in Mints \X Places /\ VaultAta(m)[1] = m
    BY StepNumbers DEF VaultAta
  <2>4. available \in Amount
    BY <2>3 DEF TypeOK
  <2> HIDE DEF available
  <2>5. amount(i) \in Nat
    BY <2>4, ClaimAmountType DEF TypeOK
  <2>6. vault'.mint = m
    <3>1. vault \in VaultData
      BY DEF TypeOK
    <3> QED
      BY <2>1, <2>2, <2>4, <3>1, BookClaimScalars
  <2> HIDE DEF amount
  <2>7. tokens'[VaultAta(m)] = tokens[VaultAta(m)] - amount(i)
    BY StepNumbers, <2>1, <2>3 DEF TokensOut
  <2>8. Holding' = Holding - amount(i)
    BY <2>2, <2>6, <2>7 DEF Holding, IsSol, VaultAta, available
  <2>9. purse'[w][vault.mint] = purse[w][vault.mint] + amount(i)
    BY StepNumbers, <2>1, <2>2, <2>3, NoneIsAnAsset DEF TokensOut, Credit, Purses
  <2>10. amount(i) \in 1..Holding
    BY StepNumbers, <2>1, <2>2, <2>5
  <2> QED
    BY <2>1, <2>2, <2>8, <2>9, <2>10 DEF ClaimStep, amount
<1> QED
  BY <1>1, <1>2 DEF Claim

\* A step of the program leaves the vault account alone, is one of the four
\* owner's instructions that write it, or is a claim.
LEMMA StepShape ==
    ASSUME TypeOK, [Next]_vars
    PROVE  \/ QuietStep
           \/ \E w \in Wallets, m \in Assets, timeout \in Timeouts,
                 inputs \in Tables : InitializeVault(w, m, timeout, inputs)
           \/ \E w \in Wallets : CheckIn(w)
           \/ \E w \in Wallets, inputs \in Tables : SetBeneficiaries(w, inputs)
           \/ \E w \in Wallets, place \in Places : CloseVault(w, place)
           \/ \E w \in Wallets, i \in Slots : ClaimStep(w, i)
<1>1. CASE UNCHANGED vars
  <2>1. Holding' = Holding
    BY <1>1 DEF vars, Holding, IsSol, Withdrawable, VaultAta
  <2> QED
    BY StepNumbers, <1>1, <2>1 DEF vars, QuietStep
<1>2. ASSUME NEW w \in Wallets, NEW amount \in Amounts, DepositSol(w, amount)
      PROVE  QuietStep
  BY LamportsShape, <1>2, InputAssumption DEF DepositSol
<1>3. ASSUME NEW w \in Wallets, NEW m \in Mints, NEW amount \in Amounts,
             DepositSpl(w, m, amount)
      PROVE  QuietStep
  BY StepNumbers, TokensShape, <1>3, InputAssumption DEF DepositSpl, VaultAta
<1>4. ASSUME NEW w \in Wallets, NEW amount \in Amounts, WithdrawSol(w, amount)
      PROVE  QuietStep
  <2>1. amount \in Nat
    BY InputAssumption
  <2>2. lamports >= RENT => lamports' >= RENT
    BY StepNumbers, <1>4, <2>1 DEF WithdrawSol, MoveLamports, Withdrawable
  <2> QED
    BY StepNumbers, <1>4, <2>2 DEF WithdrawSol, Untripped, QuietStep
<1>5. ASSUME NEW w \in Wallets, NEW m \in Mints, NEW amount \in Amounts,
             WithdrawSpl(w, m, amount)
      PROVE  QuietStep
  BY StepNumbers, <1>5 DEF WithdrawSpl, Untripped, QuietStep
<1> QED
  BY <1>1, <1>2, <1>3, <1>4, <1>5, OutsideShape, ClaimShape DEF Next, OwnerInstruction

-----------------------------------------------------------------------------
(* The invariants, one lemma for each and one step for each shape. *)

\* A closed vault is blank: nothing of it survives into the next one.
ClosedIsBlank == ~open => vault = DefaultVault

\* Opening and closing write the whole account.
LEMMA BlankStep ==
    ASSUME TypeOK, ClosedIsBlank, [Next]_vars
    PROVE  ClosedIsBlank'
<1> USE DEF ClosedIsBlank
<1>1. CASE QuietStep
  BY <1>1 DEF QuietStep
<1>2. ASSUME NEW w \in Wallets, NEW m \in Assets, NEW timeout \in Timeouts,
             NEW inputs \in Tables, InitializeVault(w, m, timeout, inputs)
      PROVE  ClosedIsBlank'
  BY <1>2 DEF InitializeVault
<1>3. ASSUME NEW w \in Wallets, CheckIn(w)
      PROVE  ClosedIsBlank'
  BY <1>3 DEF CheckIn, HasOne
<1>4. ASSUME NEW w \in Wallets, NEW inputs \in Tables, SetBeneficiaries(w, inputs)
      PROVE  ClosedIsBlank'
  BY <1>4 DEF SetBeneficiaries, HasOne
<1>5. ASSUME NEW w \in Wallets, NEW place \in Places, CloseVault(w, place)
      PROVE  ClosedIsBlank'
  BY <1>5 DEF CloseVault
<1>6. ASSUME NEW w \in Wallets, NEW i \in Slots, ClaimStep(w, i)
      PROVE  ClosedIsBlank'
  BY <1>6 DEF ClaimStep
<1> QED
  BY <1>1, <1>2, <1>3, <1>4, <1>5, <1>6, StepShape

\* Every edit of the table restates all of it, and a claim only sets a flag.
LEMMA HeirTableStep ==
    ASSUME TypeOK, HeirTableValid, [Next]_vars
    PROVE  HeirTableValid'
<1> USE DEF HeirTableValid
<1>0. vault \in VaultData
  BY DEF TypeOK
<1>1. CASE QuietStep
  BY <1>1 DEF QuietStep
<1>2. ASSUME NEW w \in Wallets, NEW m \in Assets, NEW timeout \in Timeouts,
             NEW inputs \in Tables, InitializeVault(w, m, timeout, inputs)
      PROVE  HeirTableValid'
  <2>1. inputs \in Seq(BeneficiaryInput) /\ ValidTable(inputs)
    BY <1>2, InputAssumption DEF InitializeVault
  <2>2. /\ vault'.beneficiaries = FillSlots(inputs)
        /\ vault'.beneficiary_count = Len(inputs)
    BY <1>2 DEF InitializeVault
  <2> QED
    BY <2>1, <2>2, ValidTableIsWellFormed
<1>3. ASSUME NEW w \in Wallets, CheckIn(w)
      PROVE  HeirTableValid'
  <2>1. /\ vault'.beneficiaries = vault.beneficiaries
        /\ vault'.beneficiary_count = vault.beneficiary_count
    BY <1>0, <1>3 DEF CheckIn, VaultData
  <2> QED
    BY <1>3, <2>1 DEF CheckIn, WellFormedTable, Active
<1>4. ASSUME NEW w \in Wallets, NEW inputs \in Tables, SetBeneficiaries(w, inputs)
      PROVE  HeirTableValid'
  <2>1. inputs \in Seq(BeneficiaryInput) /\ ValidTable(inputs)
    BY <1>4, InputAssumption DEF SetBeneficiaries
  <2>2. /\ vault'.beneficiaries = FillSlots(inputs)
        /\ vault'.beneficiary_count = Len(inputs)
    BY <1>0, <1>4 DEF SetBeneficiaries, VaultData
  <2> QED
    BY <2>1, <2>2, ValidTableIsWellFormed
<1>5. ASSUME NEW w \in Wallets, NEW place \in Places, CloseVault(w, place)
      PROVE  HeirTableValid'
  BY <1>5 DEF CloseVault
<1>6. ASSUME NEW w \in Wallets, NEW i \in Slots, ClaimStep(w, i)
      PROVE  HeirTableValid'
  <2>1. i \in Active(vault) /\ open /\ vault' = BookClaim(vault, i, Holding)
    BY <1>6 DEF ClaimStep, MayClaim, HeirAt
  <2> QED
    BY <1>0, <2>1, HoldingType, BookClaimKeepsTable
<1> QED
  BY <1>1, <1>2, <1>3, <1>4, <1>5, <1>6, StepShape

\* The deadline is checked whenever last_checkin or the timeout is written.
LEMMA DeadlineStep ==
    ASSUME TypeOK, DeadlineInRange, [Next]_vars
    PROVE  DeadlineInRange'
<1> USE DEF DeadlineInRange, Deadline
<1>0. /\ vault \in VaultData
      /\ now \in Nat /\ MAX_I64 \in Nat
  BY ClockAssumption, WidthAssumption DEF TypeOK, Times
<1>1. CASE QuietStep
  BY <1>1 DEF QuietStep
<1>2. ASSUME NEW w \in Wallets, NEW m \in Assets, NEW timeout \in Timeouts,
             NEW inputs \in Tables, InitializeVault(w, m, timeout, inputs)
      PROVE  DeadlineInRange'
  <2>1. timeout \in Nat
    BY <1>2, TimeoutAssumption DEF InitializeVault, ValidTimeout
  <2>2. vault'.last_checkin = now /\ vault'.timeout_seconds = timeout
    BY <1>2 DEF InitializeVault
  <2>3. now + timeout <= MAX_I64
    BY <1>2 DEF InitializeVault, DeadlineFits
  <2> QED
    BY <1>0, <2>1, <2>2, <2>3 DEF Times
<1>3. ASSUME NEW w \in Wallets, CheckIn(w)
      PROVE  DeadlineInRange'
  <2>1. /\ vault'.last_checkin = now
        /\ vault'.timeout_seconds = vault.timeout_seconds
        /\ vault.timeout_seconds \in Nat
    BY <1>0, <1>3 DEF CheckIn, VaultData
  <2>2. now + vault.timeout_seconds <= MAX_I64
    BY <1>3, <2>1 DEF CheckIn, DeadlineFits
  <2> QED
    BY <1>0, <2>1, <2>2 DEF Times
<1>4. ASSUME NEW w \in Wallets, NEW inputs \in Tables, SetBeneficiaries(w, inputs)
      PROVE  DeadlineInRange'
  <2>1. /\ vault'.last_checkin = vault.last_checkin
        /\ vault'.timeout_seconds = vault.timeout_seconds
    BY <1>0, <1>4 DEF SetBeneficiaries, VaultData
  <2> QED
    BY <1>4, <2>1 DEF SetBeneficiaries
<1>5. ASSUME NEW w \in Wallets, NEW place \in Places, CloseVault(w, place)
      PROVE  DeadlineInRange'
  BY <1>5 DEF CloseVault
<1>6. ASSUME NEW w \in Wallets, NEW i \in Slots, ClaimStep(w, i)
      PROVE  DeadlineInRange'
  <2>1. /\ vault'.last_checkin = vault.last_checkin
        /\ vault'.timeout_seconds = vault.timeout_seconds
    BY <1>0, <1>6, HoldingType, BookClaimScalars DEF ClaimStep
  <2> QED
    BY <1>6, <2>1 DEF ClaimStep
<1> QED
  BY <1>1, <1>2, <1>3, <1>4, <1>5, <1>6, StepShape

\* Opening pays the reserve, and no instruction takes it before the vault
\* closes.
LEMMA ReserveStep ==
    ASSUME TypeOK, ReserveKept, [Next]_vars
    PROVE  ReserveKept'
<1> USE DEF ReserveKept
<1>1. CASE QuietStep
  BY <1>1 DEF QuietStep
<1>2. ASSUME NEW w \in Wallets, NEW m \in Assets, NEW timeout \in Timeouts,
             NEW inputs \in Tables, InitializeVault(w, m, timeout, inputs)
      PROVE  ReserveKept'
  <2>1. lamports \in Nat /\ RENT \in Nat
    BY RentAssumption, WidthAssumption DEF TypeOK, Amount
  <2> QED
    BY <1>2, <2>1 DEF InitializeVault, RentDue
<1>3. ASSUME NEW w \in Wallets, CheckIn(w)
      PROVE  ReserveKept'
  BY <1>3 DEF CheckIn
<1>4. ASSUME NEW w \in Wallets, NEW inputs \in Tables, SetBeneficiaries(w, inputs)
      PROVE  ReserveKept'
  BY <1>4 DEF SetBeneficiaries
<1>5. ASSUME NEW w \in Wallets, NEW place \in Places, CloseVault(w, place)
      PROVE  ReserveKept'
  BY <1>5 DEF CloseVault
<1>6. ASSUME NEW w \in Wallets, NEW i \in Slots, ClaimStep(w, i)
      PROVE  ReserveKept'
  BY <1>6 DEF ClaimStep
<1> QED
  BY <1>1, <1>2, <1>3, <1>4, <1>5, <1>6, StepShape

\* The first claim sets the flag and the snapshot together, after the
\* deadline; an armed vault is only ever given blank flags.
LEMMA TripStep ==
    ASSUME TypeOK, TripConsistent, [Next]_vars
    PROVE  TripConsistent'
<1> USE DEF TripConsistent, Deadline
<1>0. /\ vault \in VaultData
      /\ now \in Nat /\ Deadline(vault) \in Nat /\ Holding \in Amount
      /\ Amount \subseteq Nat
  BY ClockAssumption, WidthAssumption, HoldingType
     DEF TypeOK, Times, VaultData, Amount
<1>1. CASE QuietStep
  <2>1. UNCHANGED <<open, vault>> /\ now' >= now /\ now' \in Nat
    BY <1>1, TypeStep, ClockAssumption DEF QuietStep, TypeOK, Times
  <2> QED
    BY <1>0, <2>1
<1>2. ASSUME NEW w \in Wallets, NEW m \in Assets, NEW timeout \in Timeouts,
             NEW inputs \in Tables, InitializeVault(w, m, timeout, inputs)
      PROVE  TripConsistent'
  <2>1. inputs \in Seq(BeneficiaryInput) /\ ValidTable(inputs)
    BY <1>2, InputAssumption DEF InitializeVault
  <2>2. /\ vault'.beneficiaries = FillSlots(inputs)
        /\ vault'.beneficiary_count = Len(inputs)
        /\ vault'.is_claimed = FALSE /\ vault'.claim_pool = 0
    BY <1>2 DEF InitializeVault
  <2>3. \A i \in Slots : ~vault'.beneficiaries[i].claimed
    BY <2>1, <2>2, ValidTableIsWellFormed
  <2> QED
    BY <2>2, <2>3
<1>3. ASSUME NEW w \in Wallets, CheckIn(w)
      PROVE  TripConsistent'
  <2>1. /\ vault'.beneficiaries = vault.beneficiaries
        /\ vault'.claim_pool = vault.claim_pool
        /\ vault'.is_claimed = vault.is_claimed
        /\ ~vault.is_claimed /\ open
    BY <1>0, <1>3 DEF CheckIn, VaultData, Untripped, HasOne
  <2> QED
    BY <2>1
<1>4. ASSUME NEW w \in Wallets, NEW inputs \in Tables, SetBeneficiaries(w, inputs)
      PROVE  TripConsistent'
  <2>1. inputs \in Seq(BeneficiaryInput) /\ ValidTable(inputs)
    BY <1>4, InputAssumption DEF SetBeneficiaries
  <2>2. /\ vault'.beneficiaries = FillSlots(inputs)
        /\ vault'.beneficiary_count = Len(inputs)
        /\ vault'.claim_pool = vault.claim_pool
        /\ vault'.is_claimed = vault.is_claimed
        /\ ~vault.is_claimed /\ open
    BY <1>0, <1>4 DEF SetBeneficiaries, VaultData, Untripped, HasOne
  <2>3. \A i \in Slots : ~vault'.beneficiaries[i].claimed
    BY <2>1, <2>2, ValidTableIsWellFormed
  <2> QED
    BY <2>2, <2>3
<1>5. ASSUME NEW w \in Wallets, NEW place \in Places, CloseVault(w, place)
      PROVE  TripConsistent'
  BY <1>5 DEF CloseVault
<1>6. ASSUME NEW w \in Wallets, NEW i \in Slots, ClaimStep(w, i)
      PROVE  TripConsistent'
  <2>1. /\ vault' = BookClaim(vault, i, Holding)
        /\ open /\ UNCHANGED now
        /\ Holding > 0
        /\ i \in Active(vault) /\ now >= Deadline(vault)
    BY <1>0, <1>6 DEF ClaimStep, MayClaim, HeirAt, IsExpired
  <2>2. /\ vault'.last_checkin = vault.last_checkin
        /\ vault'.timeout_seconds = vault.timeout_seconds
        /\ Active(vault') = Active(vault)
        /\ vault'.is_claimed = TRUE
        /\ vault'.claim_pool = PoolAt(vault, Holding)
    BY <1>0, <2>1, BookClaimScalars
  <2>3. vault'.claim_pool > 0
    BY <2>1, <2>2 DEF PoolAt
  <2>4. vault'.beneficiaries[i].claimed
    <3>1. vault'.beneficiaries[i].claimed
            = (vault.beneficiaries[i].claimed \/ i = i)
      BY <1>0, <2>1, BookClaimSlot
    <3> QED
      BY <3>1
  <2> QED
    BY <2>1, <2>2, <2>3, <2>4
<1> QED
  BY <1>1, <1>2, <1>3, <1>4, <1>5, <1>6, StepShape

-----------------------------------------------------------------------------
(* Solvency. *)

\* What is due to slot i of v if the pool is p.
DueOf(v, p, i) ==
    IF i \in Unclaimed(v) THEN ShareOf(p, v.beneficiaries[i].share_bps) ELSE 0

\* A due is a number.
LEMMA DueType ==
    ASSUME NEW v \in VaultData, NEW p \in Nat, NEW i \in Slots
    PROVE  DueOf(v, p, i) \in Nat
<1>1. v.beneficiaries[i].share_bps \in Nat
  <2>1. v.beneficiaries[i] \in Beneficiary /\ MAX_U16 \in Nat
    BY DEF VaultData, MAX_U16
  <2> QED
    BY <2>1 DEF Beneficiary
<1> QED
  BY <1>1, ShareOfType DEF DueOf

\* The dues of any pool fit in it, since the shares sum to 100%.
LEMMA DuesFit ==
    ASSUME NEW v \in VaultData, WellFormedTable(v), NEW p \in Nat
    PROVE  /\ [i \in Slots |-> DueOf(v, p, i)] \in [Slots -> Nat]
           /\ SumOverSlots([i \in Slots |-> DueOf(v, p, i)]) <= p
<1> DEFINE f == [i \in Slots |-> v.beneficiaries[i].share_bps]
           all == [i \in Slots |-> ShareOf(p, f[i])]
           due == [i \in Slots |-> DueOf(v, p, i)]
<1>1. f \in [Slots -> Nat]
  <2>1. \A i \in Slots : v.beneficiaries[i] \in Beneficiary
    BY DEF VaultData
  <2>2. MAX_U16 \in Nat
    BY DEF MAX_U16
  <2> QED
    BY <2>1, <2>2 DEF Beneficiary
<1>2. SumOverSlots(f) = TOTAL_SHARE_BPS
  BY DEF WellFormedTable, TotalShare
<1>3. SumOverSlots(all) <= p
  BY <1>1, <1>2, SharesFit
<1>4. all \in [Slots -> Nat]
  BY <1>1, ShareOfType
<1>5. due \in [Slots -> Nat] /\ \A i \in Slots : due[i] <= all[i]
  <2> SUFFICES ASSUME NEW i \in Slots
               PROVE  due[i] \in Nat /\ due[i] <= all[i]
    OBVIOUS
  <2>1. due[i] = all[i] \/ due[i] = 0
    BY DEF DueOf
  <2>2. all[i] \in Nat
    BY <1>4
  <2> HIDE DEF due, all
  <2> QED
    BY <2>1, <2>2
<1> HIDE DEF f, all, due
<1>6. SumOverSlots(due) \in Nat /\ SumOverSlots(due) <= SumOverSlots(all)
  BY <1>4, <1>5, SumMonotone
<1>7. SumOverSlots(all) \in Nat
  BY <1>4, <1>5, SumMonotone, FiveSlots DEF SumOverSlots
<1>8. SumOverSlots(due) <= p
  BY <1>3, <1>6, <1>7
<1> QED
  BY <1>5, <1>8 DEF due

\* A claim takes its due out of the sum, and nothing else.
LEMMA DuesAfterClaim ==
    ASSUME NEW v \in VaultData, NEW i \in Unclaimed(v), NEW pool \in Amount,
           NEW p \in Nat
    PROVE  LET before == [j \in Slots |-> DueOf(v, p, j)]
               after  == [j \in Slots |-> DueOf(BookClaim(v, i, pool), p, j)]
           IN  after = [before EXCEPT ![i] = 0]
<1>1. i \in Slots /\ Unclaimed(v) \subseteq Slots
  BY ActiveInSlots DEF Unclaimed
<1>2. Unclaimed(BookClaim(v, i, pool)) = Unclaimed(v) \ {i}
  BY <1>1, BookClaimUnclaimed
<1>3. ASSUME NEW j \in Slots
      PROVE  DueOf(BookClaim(v, i, pool), p, j)
               = IF j = i THEN 0 ELSE DueOf(v, p, j)
  <2>1. BookClaim(v, i, pool).beneficiaries[j].share_bps
          = v.beneficiaries[j].share_bps
    BY <1>1, BookClaimSlot
  <2> QED
    BY <1>2, <2>1 DEF DueOf
<1> QED
  BY <1>1, <1>3

\* What a tripped vault owes after a claim is what it owed before without the
\* claimant's due; the claimant takes their due, or all that is left if nobody
\* else is owed anything.
LEMMA SolventStep ==
    ASSUME TypeOK, HeirTableValid, Solvent, [Next]_vars
    PROVE  Solvent'
<1> DEFINE dues(v) == [i \in Slots |-> DueOf(v, v.claim_pool, i)]
<1>0. /\ vault \in VaultData /\ vault' \in VaultData
      /\ Holding \in Nat /\ Holding \in Amount
      /\ Amount \subseteq Nat
  BY TypeStep, WidthAssumption, HoldingType DEF TypeOK, Amount
<1>a. vault.is_claimed => SumOverSlots(dues(vault)) <= Holding
  BY DEF Solvent, Due, DueOf
<1>b. SUFFICES ASSUME vault'.is_claimed
               PROVE  SumOverSlots(dues(vault')) <= Holding'
  BY DEF Solvent, Due, DueOf
<1>1. CASE QuietStep
  <2>1. vault' = vault /\ Holding' >= Holding
    BY <1>1, <1>b DEF QuietStep
  <2>2. Holding' \in Nat
    BY TypeStep, NextHoldingType
  <2>3. dues(vault') = dues(vault)
    BY <2>1
  <2>4. vault.is_claimed
    BY <1>b, <2>1
  <2>5. SumOverSlots(dues(vault)) \in Nat
    <3>1. ASSUME NEW j \in Slots
          PROVE  DueOf(vault, vault.claim_pool, j) \in Nat
      <4>1. vault.claim_pool \in Nat
        BY <1>0 DEF VaultData
      <4> QED
        BY <1>0, <4>1, DueType
    <3> QED
      BY <3>1, SumType
  <2> HIDE DEF dues
  <2> QED
    BY <1>0, <1>a, <2>1, <2>2, <2>3, <2>4, <2>5
<1>2. ASSUME NEW w \in Wallets, NEW m \in Assets, NEW timeout \in Timeouts,
             NEW inputs \in Tables, InitializeVault(w, m, timeout, inputs)
      PROVE  FALSE
  BY <1>2, <1>b DEF InitializeVault
<1>3. ASSUME NEW w \in Wallets, CheckIn(w)
      PROVE  FALSE
  BY <1>0, <1>3, <1>b DEF CheckIn, Untripped, VaultData
<1>4. ASSUME NEW w \in Wallets, NEW inputs \in Tables, SetBeneficiaries(w, inputs)
      PROVE  FALSE
  BY <1>0, <1>4, <1>b DEF SetBeneficiaries, Untripped, VaultData
<1>5. ASSUME NEW w \in Wallets, NEW place \in Places, CloseVault(w, place)
      PROVE  FALSE
  BY <1>5, <1>b DEF CloseVault, DefaultVault
<1>6. ASSUME NEW w \in Wallets, NEW i \in Slots, ClaimStep(w, i)
      PROVE  SumOverSlots(dues(vault')) <= Holding'
  <2> DEFINE p      == PoolAt(vault, Holding)
             before == [j \in Slots |-> DueOf(vault, p, j)]
             after  == [j \in Slots |-> DueOf(vault', p, j)]
             amount == ClaimAmount(vault, i, Holding)
  <2>1. /\ vault' = BookClaim(vault, i, Holding)
        /\ i \in Unclaimed(vault)
        /\ open
        /\ amount \in 1..Holding
        /\ Holding' = Holding - amount
    BY <1>6 DEF ClaimStep, MayClaim, HeirAt, Unclaimed
  <2>2. p \in Amount /\ p \in Nat
    BY <1>0, PoolAtType, WidthAssumption DEF Amount
  <2>3. /\ vault'.claim_pool = p
        /\ Unclaimed(vault') = Unclaimed(vault) \ {i}
    <3>1. /\ BookClaim(vault, i, Holding).claim_pool = p
          /\ Unclaimed(BookClaim(vault, i, Holding)) = Unclaimed(vault) \ {i}
      BY <1>0, BookClaimScalars, BookClaimUnclaimed
    <3> QED
      BY <2>1, <3>1
  <2>4. WellFormedTable(vault)
    BY <2>1 DEF HeirTableValid
  <2>5. before \in [Slots -> Nat] /\ SumOverSlots(before) <= Holding
    <3>1. before \in [Slots -> Nat] /\ SumOverSlots(before) <= p
      BY <1>0, <2>2, <2>4, DuesFit
    <3>2. CASE vault.is_claimed
      <4>1. p = vault.claim_pool
        BY <3>2 DEF PoolAt
      <4> QED
        BY <1>a, <3>1, <3>2, <4>1
    <3>3. CASE ~vault.is_claimed
      <4>1. p = Holding
        BY <3>3 DEF PoolAt
      <4> QED
        BY <3>1, <4>1
    <3> QED
      BY <3>2, <3>3
  <2>6. after = [before EXCEPT ![i] = 0]
    BY <1>0, <2>1, <2>2, DuesAfterClaim
  <2>7. /\ SumOverSlots(after) = SumOverSlots(before) - before[i]
        /\ SumOverSlots(before) \in Nat
        /\ before[i] \in Nat
    BY <2>5, <2>6, SumWithout
  <2>8. dues(vault') = after
    BY <2>3
  <2>9. CASE IsLast(vault)
    <3>1. Unclaimed(vault') = {}
      BY <1>0, <2>1, <2>3, <2>9, LastIsAlone
    <3>2. \A j \in Slots : after[j] = 0
      BY <3>1 DEF DueOf
    <3>3. SumOverSlots(after) = 0
      <4> HIDE DEF after
      <4> QED
        BY <3>2, FiveSlots DEF SumOverSlots
    <3> HIDE DEF amount, dues, after
    <3> QED
      BY <1>0, <2>1, <2>8, <3>3
  <2>10. CASE ~IsLast(vault)
    <3>1. amount = before[i]
      BY <2>1, <2>10 DEF ClaimAmount, DueOf
    <3> HIDE DEF amount, dues, before, after
    <3> QED
      BY <1>0, <2>1, <2>5, <2>7, <2>8, <3>1
  <2> QED
    BY <2>9, <2>10
<1> QED
  BY <1>1, <1>2, <1>3, <1>4, <1>5, <1>6, StepShape

-----------------------------------------------------------------------------
(* The invariant, and what every behaviour satisfies. *)

\* TypeOK gives the arithmetic its ranges, ClosedIsBlank rules out a closed
\* vault with heirs, HeirTableValid gives Solvent its 100%; the others are
\* inductive with TypeOK alone.
VaultInv ==
    /\ TypeOK
    /\ ClosedIsBlank
    /\ HeirTableValid
    /\ DeadlineInRange
    /\ TripConsistent
    /\ ReserveKept
    /\ Solvent

\* Nothing is open at the start.
LEMMA InvInit == Init => VaultInv
<1> SUFFICES ASSUME Init
             PROVE  VaultInv
  OBVIOUS
<1>1. ~open /\ vault = DefaultVault
  BY DEF Init
<1> QED
  BY <1>1, TypeInit
     DEF VaultInv, ClosedIsBlank, HeirTableValid, DeadlineInRange,
         TripConsistent, ReserveKept, Solvent, DefaultVault

\* Every step keeps each part.
LEMMA InvStep == VaultInv /\ [Next]_vars => VaultInv'
<1> SUFFICES ASSUME VaultInv, [Next]_vars
             PROVE  VaultInv'
  OBVIOUS
<1> QED
  BY TypeStep, BlankStep, HeirTableStep, DeadlineStep, TripStep, ReserveStep,
     SolventStep DEF VaultInv

\* The inductive invariant holds in every state.
LEMMA Invariant == Spec => []VaultInv
BY InvInit, InvStep, PTL DEF Spec

\* Whatever tables an owner submits, in whatever order, an open vault shares
\* out exactly 100% between distinct, real keys.
THEOREM HeirsAlwaysValid == Spec => []HeirTableValid
<1>1. VaultInv => HeirTableValid
  BY DEF VaultInv
<1> QED
  BY <1>1, Invariant, PTL

\* No open vault has a deadline that its claims would fail to compute.
THEOREM DeadlineAlwaysFits == Spec => []DeadlineInRange
<1>1. VaultInv => DeadlineInRange
  BY DEF VaultInv
<1> QED
  BY <1>1, Invariant, PTL

\* The flag, the snapshot, the per-heir flags and the clock always agree.
THEOREM TripAlwaysConsistent == Spec => []TripConsistent
<1>1. VaultInv => TripConsistent
  BY DEF VaultInv
<1> QED
  BY <1>1, Invariant, PTL

\* An open vault account stays rent-exempt.
THEOREM ReserveAlwaysKept == Spec => []ReserveKept
<1>1. VaultInv => ReserveKept
  BY DEF VaultInv
<1> QED
  BY <1>1, Invariant, PTL

\* A tripped vault always holds what it still owes, for any amounts, any
\* table, any number of paid heirs and any gifts in between.
THEOREM AlwaysSolvent == Spec => []Solvent
<1>1. VaultInv => Solvent
  BY DEF VaultInv
<1> QED
  BY <1>1, Invariant, PTL

-----------------------------------------------------------------------------
(* What a step may do. *)

\* No share exceeds the whole.
LEMMA ShareAtMostAll ==
    ASSUME NEW v \in VaultData, WellFormedTable(v), NEW i \in Slots
    PROVE  v.beneficiaries[i].share_bps \in 0..TOTAL_SHARE_BPS
<1> DEFINE f == [j \in Slots |-> v.beneficiaries[j].share_bps]
<1>1. f \in [Slots -> Nat]
  <2>1. \A j \in Slots : v.beneficiaries[j] \in Beneficiary
    BY DEF VaultData
  <2>2. MAX_U16 \in Nat
    BY DEF MAX_U16
  <2> QED
    BY <2>1, <2>2 DEF Beneficiary
<1>2. SumOverSlots(f) = TOTAL_SHARE_BPS
  BY DEF WellFormedTable, TotalShare
<1>3. f[i] = v.beneficiaries[i].share_bps
  OBVIOUS
<1> HIDE DEF f
<1>4. f[i] \in Nat /\ f[i] <= TOTAL_SHARE_BPS
  <2>1. /\ f[1] \in Nat /\ f[2] \in Nat /\ f[3] \in Nat /\ f[4] \in Nat
        /\ f[5] \in Nat
    BY <1>1, FiveSlots
  <2>2. f[1] + f[2] + f[3] + f[4] + f[5] = TOTAL_SHARE_BPS
    BY <1>2 DEF SumOverSlots
  <2>3. i = 1 \/ i = 2 \/ i = 3 \/ i = 4 \/ i = 5
    BY FiveSlots
  <2> QED
    BY <2>1, <2>2, <2>3
<1>5. TOTAL_SHARE_BPS \in Nat
  BY DEF TOTAL_SHARE_BPS
<1> QED
  BY <1>3, <1>4, <1>5

\* Only a claim pays, and it pays the slot it books.
LEMMA PaidByClaim ==
    ASSUME VaultInv, [Next]_vars, NEW k \in Slots, Paid(k)
    PROVE  \E w \in Wallets : ClaimStep(w, k)
<1>0. /\ vault \in VaultData /\ TypeOK
      /\ k \in Unclaimed(vault) /\ open' /\ vault'.beneficiaries[k].claimed
  BY DEF VaultInv, TypeOK, Paid
<1>a. ~vault.beneficiaries[k].claimed /\ k \in Active(vault)
  BY <1>0 DEF Unclaimed
<1>1. CASE QuietStep
  BY <1>0, <1>1, <1>a DEF QuietStep
<1>2. ASSUME NEW w \in Wallets, NEW m \in Assets, NEW timeout \in Timeouts,
             NEW inputs \in Tables, InitializeVault(w, m, timeout, inputs)
      PROVE  FALSE
  <2>1. vault = DefaultVault
    BY <1>2 DEF InitializeVault, VaultInv, ClosedIsBlank
  <2>2. vault.beneficiary_count = 0
    BY <2>1 DEF DefaultVault
  <2>3. k \in 1..0
    BY <1>a, <2>2 DEF Active
  <2> QED
    BY <2>3
<1>3. ASSUME NEW w \in Wallets, CheckIn(w)
      PROVE  FALSE
  BY <1>0, <1>3, <1>a DEF CheckIn, VaultData
<1>4. ASSUME NEW w \in Wallets, NEW inputs \in Tables, SetBeneficiaries(w, inputs)
      PROVE  FALSE
  <2>1. vault'.beneficiaries = FillSlots(inputs)
    BY <1>0, <1>4 DEF SetBeneficiaries, VaultData
  <2> QED
    BY <1>0, <2>1 DEF FillSlots, DefaultBeneficiary
<1>5. ASSUME NEW w \in Wallets, NEW place \in Places, CloseVault(w, place)
      PROVE  FALSE
  BY <1>0, <1>5 DEF CloseVault
<1>6. ASSUME NEW w \in Wallets, NEW i \in Slots, ClaimStep(w, i)
      PROVE  i = k
  <2>1. vault' = BookClaim(vault, i, Holding) /\ Holding \in Amount
    BY <1>0, <1>6, HoldingType DEF ClaimStep
  <2>2. k # i => vault'.beneficiaries[k] = vault.beneficiaries[k]
    BY <1>0, <2>1, BookClaimSlot
  <2> QED
    BY <1>0, <1>a, <2>2
<1> QED
  BY <1>0, <1>1, <1>2, <1>3, <1>4, <1>5, <1>6, StepShape

\* A claim pays its heir fairly: the share of the snapshot rounded down, or
\* all that is left, which Solvent makes no smaller.
LEMMA ClaimIsFair ==
    ASSUME VaultInv, NEW w \in Wallets, NEW i \in Unclaimed(vault), ClaimStep(w, i)
    PROVE  /\ vault.beneficiaries[i].address = w
           /\ ClaimAmount(vault, i, Holding) \in 1..Holding
           /\ (ClaimAmount(vault, i, Holding) + 1) * TOTAL_SHARE_BPS
                > PoolAt(vault, Holding) * vault.beneficiaries[i].share_bps
<1> DEFINE p      == PoolAt(vault, Holding)
           bps    == vault.beneficiaries[i].share_bps
           amount == ClaimAmount(vault, i, Holding)
           due    == [j \in Slots |-> DueOf(vault, p, j)]
<1>1. /\ vault \in VaultData /\ Holding \in Nat /\ p \in Nat
      /\ open /\ i \in Slots /\ WellFormedTable(vault)
  <2>1. /\ vault \in VaultData /\ Holding \in Amount /\ Amount \subseteq Nat
        /\ open
    BY HoldingType, WidthAssumption DEF VaultInv, TypeOK, ClaimStep, Amount
  <2>2. i \in Slots
    BY <2>1, ActiveInSlots DEF Unclaimed
  <2>3. p \in Nat
    BY <2>1, PoolAtType
  <2> QED
    BY <2>1, <2>2, <2>3 DEF VaultInv, HeirTableValid
<1>2. bps \in 0..TOTAL_SHARE_BPS
  BY <1>1, ShareAtMostAll
<1>3. /\ ShareOf(p, bps) \in Nat
      /\ (ShareOf(p, bps) + 1) * TOTAL_SHARE_BPS > p * bps
  <2>1. p \in Nat /\ bps \in 0..TOTAL_SHARE_BPS
    BY <1>1, <1>2
  <2> HIDE DEF p, bps
  <2>2. /\ ShareOf(p, bps) \in 0..p
        /\ ShareOf(p, bps) * TOTAL_SHARE_BPS <= p * bps
        /\ (ShareOf(p, bps) + 1) * TOTAL_SHARE_BPS > p * bps
    BY <2>1, ShareOfBound
  <2>3. ASSUME NEW n \in 0..p
        PROVE  n \in Nat
    BY <2>1
  <2> QED
    BY <2>2, <2>3, Zenon
<1>4. amount \in 1..Holding /\ vault.beneficiaries[i].address = w
  BY DEF ClaimStep, MayClaim, HeirAt
<1>5. ShareOf(p, bps) <= amount
  <2>1. CASE ~IsLast(vault)
    <3>1. amount = ShareOf(p, bps)
      BY <2>1 DEF ClaimAmount
    <3> QED
      BY <1>3, <3>1
  <2>2. CASE IsLast(vault)
    <3>1. amount = Holding
      BY <2>2 DEF ClaimAmount
    <3>2. due \in [Slots -> Nat] /\ SumOverSlots(due) <= Holding
      <4>1. due \in [Slots -> Nat] /\ SumOverSlots(due) <= p
        BY <1>1, DuesFit
      <4>2. CASE vault.is_claimed
        <5>1. p = vault.claim_pool
          BY <4>2 DEF PoolAt
        <5>2. SumOverSlots([j \in Slots |-> DueOf(vault, vault.claim_pool, j)])
                <= Holding
          BY <4>2 DEF VaultInv, Solvent, Due, DueOf
        <5> QED
          BY <4>1, <5>1, <5>2
      <4>3. CASE ~vault.is_claimed
        <5>1. p = Holding
          BY <4>3 DEF PoolAt
        <5> QED
          BY <4>1, <5>1
      <4> QED
        BY <4>2, <4>3
    <3>3. due[i] = ShareOf(p, bps)
      BY <1>1 DEF DueOf
    <3> HIDE DEF due
    <3>4. due[i] <= SumOverSlots(due)
      BY <1>1, <3>2, TermAtMostSum
    <3>5. due[i] \in Nat /\ SumOverSlots(due) \in Nat
      BY <1>1, <3>2, SumType
    <3> HIDE DEF amount, p, bps
    <3> QED
      BY <1>1, <3>1, <3>2, <3>3, <3>4, <3>5
  <2> QED
    BY <2>1, <2>2
<1>6. (ShareOf(p, bps) + 1) * TOTAL_SHARE_BPS <= (amount + 1) * TOTAL_SHARE_BPS
  <2> HIDE DEF amount
  <2>1. amount \in Nat
    BY <1>1, <1>4
  <2> QED
    BY <1>3, <1>5, <2>1 DEF TOTAL_SHARE_BPS
<1>7. /\ p * bps \in Nat
      /\ (amount + 1) * TOTAL_SHARE_BPS \in Nat
      /\ (ShareOf(p, bps) + 1) * TOTAL_SHARE_BPS \in Nat
  <2>1. TOTAL_SHARE_BPS \in Nat
    BY DEF TOTAL_SHARE_BPS
  <2> HIDE DEF amount, p, bps
  <2>2. amount \in Nat /\ bps \in Nat
    BY <1>1, <1>2, <1>4, <2>1
  <2>3. p * bps \in Nat
    BY <1>1, <2>2
  <2> QED
    BY <1>3, <2>2, <2>3 DEF TOTAL_SHARE_BPS
<1>8. (amount + 1) * TOTAL_SHARE_BPS > p * bps
  <2> DEFINE x == p * bps
             y == (amount + 1) * TOTAL_SHARE_BPS
             z == (ShareOf(p, bps) + 1) * TOTAL_SHARE_BPS
  <2>1. x \in Nat /\ y \in Nat /\ z \in Nat /\ z > x /\ z <= y
    BY <1>3, <1>6, <1>7
  <2> HIDE DEF x, y, z
  <2>2. y > x
    BY <2>1
  <2> QED
    BY <2>2 DEF x, y
<1> QED
  BY <1>4, <1>8

\* Every payment is a fair one.
LEMMA FairnessOfSteps == VaultInv /\ [Next]_vars => FairStep
<1> SUFFICES ASSUME VaultInv, [Next]_vars, NEW i \in Slots, Paid(i)
             PROVE  LET heir == vault.beneficiaries[i].address
                        pool == IF vault.is_claimed THEN vault.claim_pool ELSE Holding
                        paid == purse'[heir][vault.mint] - purse[heir][vault.mint]
                    IN  /\ heir \in Wallets
                        /\ paid > 0
                        /\ (paid + 1) * TOTAL_SHARE_BPS
                              > pool * vault.beneficiaries[i].share_bps
                        /\ Holding' = Holding - paid
  BY DEF FairStep
<1> DEFINE amount == ClaimAmount(vault, i, Holding)
<1>1. PICK w \in Wallets : ClaimStep(w, i)
  BY PaidByClaim
<1>2. i \in Unclaimed(vault)
  BY DEF Paid
<1>3. /\ vault.beneficiaries[i].address = w
      /\ amount \in 1..Holding
      /\ (amount + 1) * TOTAL_SHARE_BPS
           > PoolAt(vault, Holding) * vault.beneficiaries[i].share_bps
  BY <1>1, <1>2, ClaimIsFair
<1>4. /\ purse'[w][vault.mint] = purse[w][vault.mint] + amount
      /\ Holding' = Holding - amount
  BY <1>1 DEF ClaimStep
<1>5. purse[w][vault.mint] \in Nat /\ Holding \in Nat
  <2>1. TypeOK
    BY DEF VaultInv
  <2>2. vault.mint \in Assets
    BY <2>1 DEF TypeOK, VaultData, Assets
  <2> QED
    BY <2>1, <2>2, HoldingType, WidthAssumption DEF TypeOK, Amount
<1> HIDE DEF amount
<1>6. purse'[w][vault.mint] - purse[w][vault.mint] = amount
  BY <1>3, <1>4, <1>5
<1>7. amount > 0
  BY <1>3, <1>5
<1> QED
  BY <1>3, <1>4, <1>6, <1>7 DEF PoolAt

\* Every claim pays at least the rounded-down share, never more than the vault
\* holds, and the vault holds that much less.
THEOREM AlwaysFair == Spec => FairPayout
BY Invariant, FairnessOfSteps, PTL DEF Spec, FairPayout

\* Only a claim takes the last unclaimed slot, and then its heir was alone.
LEMMA SweepOfSteps == VaultInv /\ [Next]_vars => SweepStep
<1> SUFFICES ASSUME VaultInv, [Next]_vars, open, open',
                    Unclaimed(vault) # {}, Unclaimed(vault') = {}
             PROVE  Holding' = 0
  BY DEF SweepStep
<1>0. TypeOK /\ vault \in VaultData /\ Holding \in Amount /\ Holding \in Nat
  BY HoldingType, WidthAssumption DEF VaultInv, TypeOK, Amount
<1>1. CASE QuietStep
  BY <1>1 DEF QuietStep
<1>2. ASSUME NEW w \in Wallets, NEW m \in Assets, NEW timeout \in Timeouts,
             NEW inputs \in Tables, InitializeVault(w, m, timeout, inputs)
      PROVE  FALSE
  BY <1>2 DEF InitializeVault
<1>3. ASSUME NEW w \in Wallets, CheckIn(w)
      PROVE  FALSE
  <2>1. /\ vault'.beneficiaries = vault.beneficiaries
        /\ vault'.beneficiary_count = vault.beneficiary_count
    BY <1>0, <1>3 DEF CheckIn, VaultData
  <2> QED
    BY <2>1 DEF Unclaimed, Active
<1>4. ASSUME NEW w \in Wallets, NEW inputs \in Tables, SetBeneficiaries(w, inputs)
      PROVE  FALSE
  <2>1. inputs \in Seq(BeneficiaryInput) /\ ValidTable(inputs)
    BY <1>4, InputAssumption DEF SetBeneficiaries
  <2>2. /\ vault'.beneficiaries = FillSlots(inputs)
        /\ vault'.beneficiary_count = Len(inputs)
    BY <1>0, <1>4 DEF SetBeneficiaries, VaultData
  <2>3. /\ WellFormedTable(vault')
        /\ \A i \in Slots : ~vault'.beneficiaries[i].claimed
    BY <2>1, <2>2, ValidTableIsWellFormed
  <2>4. Active(vault') # {} /\ Active(vault') \subseteq Slots
    BY <1>0, <2>3, TypeStep, ActiveInSlots DEF WellFormedTable, TypeOK
  <2> QED
    BY <2>3, <2>4 DEF Unclaimed
<1>5. ASSUME NEW w \in Wallets, NEW place \in Places, CloseVault(w, place)
      PROVE  FALSE
  BY <1>5 DEF CloseVault
<1>6. ASSUME NEW w \in Wallets, NEW i \in Slots, ClaimStep(w, i)
      PROVE  Holding' = 0
  <2>1. /\ vault' = BookClaim(vault, i, Holding)
        /\ i \in Unclaimed(vault)
        /\ Holding' = Holding - ClaimAmount(vault, i, Holding)
    BY <1>6 DEF ClaimStep, MayClaim, HeirAt, Unclaimed
  <2>2. Unclaimed(vault) \ {i} = {}
    BY <1>0, <2>1, BookClaimUnclaimed
  <2>3. Unclaimed(vault) = {i}
    BY <2>1, <2>2
  <2>4. IsLast(vault)
    BY <2>3, FS_Singleton DEF IsLast
  <2>5. ClaimAmount(vault, i, Holding) = Holding
    BY <2>4 DEF ClaimAmount
  <2> QED
    BY <1>0, <2>1, <2>5
<1> QED
  BY <1>0, <1>1, <1>2, <1>3, <1>4, <1>5, <1>6, StepShape

\* No claim sequence strands a remainder.
THEOREM AlwaysSwept == Spec => LastHeirSweeps
BY Invariant, SweepOfSteps, PTL DEF Spec, LastHeirSweeps

\* Once a vault has tripped, only claims and gifts reach it.
LEMMA FrozenOfSteps == VaultInv /\ [Next]_vars => FrozenStep
<1> SUFFICES ASSUME VaultInv, [Next]_vars, vault.is_claimed, open'
             PROVE  /\ vault' = [vault EXCEPT !.beneficiaries = vault'.beneficiaries]
                    /\ \A j \in Slots :
                        \/ vault'.beneficiaries[j] = vault.beneficiaries[j]
                        \/ /\ Paid(j)
                           /\ vault'.beneficiaries[j]
                                 = [vault.beneficiaries[j] EXCEPT !.claimed = TRUE]
                    /\ Holding' < Holding => \E j \in Slots : Paid(j)
  BY DEF FrozenStep
<1>0. TypeOK /\ vault \in VaultData /\ Holding \in Amount /\ Holding \in Nat
  BY HoldingType, WidthAssumption DEF VaultInv, TypeOK, Amount
<1>1. CASE QuietStep
  <2>1. vault' = vault /\ Holding' >= Holding
    BY <1>1 DEF QuietStep
  <2>2. Holding' \in Nat
    BY <1>0, TypeStep, NextHoldingType
  <2>3. ~(Holding' < Holding)
    BY <1>0, <2>1, <2>2
  <2>4. vault = [vault EXCEPT !.beneficiaries = vault.beneficiaries]
    BY <1>0 DEF VaultData
  <2> QED
    BY <2>1, <2>3, <2>4
<1>2. ASSUME NEW w \in Wallets, NEW m \in Assets, NEW timeout \in Timeouts,
             NEW inputs \in Tables, InitializeVault(w, m, timeout, inputs)
      PROVE  FALSE
  BY <1>2 DEF InitializeVault, VaultInv, ClosedIsBlank, DefaultVault
<1>3. ASSUME NEW w \in Wallets, CheckIn(w)
      PROVE  FALSE
  BY <1>3 DEF CheckIn, Untripped
<1>4. ASSUME NEW w \in Wallets, NEW inputs \in Tables, SetBeneficiaries(w, inputs)
      PROVE  FALSE
  BY <1>4 DEF SetBeneficiaries, Untripped
<1>5. ASSUME NEW w \in Wallets, NEW place \in Places, CloseVault(w, place)
      PROVE  FALSE
  BY <1>5 DEF CloseVault
<1>6. ASSUME NEW w \in Wallets, NEW i \in Slots, ClaimStep(w, i)
      PROVE  /\ vault' = [vault EXCEPT !.beneficiaries = vault'.beneficiaries]
             /\ \A j \in Slots :
                  \/ vault'.beneficiaries[j] = vault.beneficiaries[j]
                  \/ /\ Paid(j)
                     /\ vault'.beneficiaries[j]
                           = [vault.beneficiaries[j] EXCEPT !.claimed = TRUE]
             /\ \E j \in Slots : Paid(j)
  <2>1. /\ vault' = BookClaim(vault, i, Holding)
        /\ i \in Unclaimed(vault)
    BY <1>6 DEF ClaimStep, MayClaim, HeirAt, Unclaimed
  <2>2. PoolAt(vault, Holding) = vault.claim_pool
    BY DEF PoolAt
  <2>3. /\ vault'.beneficiaries
             = [vault.beneficiaries EXCEPT ![i] = [@ EXCEPT !.claimed = TRUE]]
        /\ vault' = [vault EXCEPT !.beneficiaries = vault'.beneficiaries]
    BY <1>0, <2>1, <2>2 DEF BookClaim, VaultData
  <2>4. vault.beneficiaries \in [Slots -> Beneficiary]
    BY <1>0 DEF VaultData
  <2>5. vault'.beneficiaries[i] = [vault.beneficiaries[i] EXCEPT !.claimed = TRUE]
    BY <2>3, <2>4
  <2>6. vault'.beneficiaries[i].claimed
    BY <2>4, <2>5 DEF Beneficiary
  <2>7. Paid(i)
    BY <2>1, <2>6 DEF Paid
  <2>8. \A j \in Slots : j # i => vault'.beneficiaries[j] = vault.beneficiaries[j]
    BY <2>3, <2>4
  <2> QED
    BY <2>3, <2>5, <2>7, <2>8
<1> QED
  BY <1>0, <1>1, <1>2, <1>3, <1>4, <1>5, <1>6, StepShape

\* The first claim locks the owner out for good.
THEOREM AlwaysFrozen == Spec => TrippedIsFinal
BY Invariant, FrozenOfSteps, PTL DEF Spec, TrippedIsFinal

-----------------------------------------------------------------------------
(* Token accounts, and closing. *)

\* Tokens go in, or come out of the ATA of the vault's own mint.
LEMMA OwnMintOfSteps == TypeOK /\ [Next]_vars => OwnMintStep
<1> SUFFICES ASSUME TypeOK, [Next]_vars, NEW a \in Mints \X Places,
                    tokens'[a] < tokens[a]
             PROVE  open /\ vault.mint # None /\ a = VaultAta(vault.mint)
  BY DEF OwnMintStep
<1>0. tokens \in [Mints \X Places -> Nat]
  BY WidthAssumption DEF TypeOK, Amount
<1>1. ~UNCHANGED tokens
  BY <1>0
<1>2. ASSUME NEW w \in Wallets, NEW b \in Mints \X Places, NEW amount \in Nat,
             TokensIn(w, b, amount)
      PROVE  FALSE
  BY <1>0, <1>2 DEF TokensIn
<1>3. ASSUME NEW w \in Wallets, NEW m \in Mints, NEW amount \in Nat,
             open, MintMatches(m), TokensOut(VaultAta(m), w, amount)
      PROVE  open /\ vault.mint # None /\ a = VaultAta(vault.mint)
  <2>1. VaultAta(m) \in Mints \X Places /\ vault.mint = m /\ m # None
    BY <1>3, MintAssumption DEF VaultAta, Places, MintMatches
  <2>2. a = VaultAta(m)
    BY <1>0, <1>3, <2>1 DEF TokensOut
  <2> QED
    BY <1>3, <2>1, <2>2
<1>4. ASSUME NEW w \in Wallets, NEW m \in Mints, NEW amount \in Amounts,
             DepositSpl(w, m, amount)
      PROVE  FALSE
  <2>1. VaultAta(m) \in Mints \X Places /\ amount \in Nat
    BY InputAssumption DEF VaultAta, Places
  <2> QED
    BY <1>2, <1>4, <2>1 DEF DepositSpl
<1>5. ASSUME NEW w \in Wallets, NEW m \in Mints, NEW amount \in Amounts,
             WithdrawSpl(w, m, amount)
      PROVE  open /\ vault.mint # None /\ a = VaultAta(vault.mint)
  BY <1>3, <1>5, InputAssumption DEF WithdrawSpl, HasOne
<1>6. ASSUME NEW w \in Wallets, OwnerInstruction(w)
      PROVE  open /\ vault.mint # None /\ a = VaultAta(vault.mint)
  BY <1>1, <1>4, <1>5, <1>6
     DEF OwnerInstruction, InitializeVault, CheckIn, SetBeneficiaries, DepositSol,
         WithdrawSol, CloseVault
<1>7. ASSUME NEW w \in Wallets, Claim(w)
      PROVE  open /\ vault.mint # None /\ a = VaultAta(vault.mint)
  <2>1. CASE ClaimSol(w)
    BY <1>1, <2>1 DEF ClaimSol
  <2>2. ASSUME NEW m \in Mints, ClaimSpl(w, m)
        PROVE  open /\ vault.mint # None /\ a = VaultAta(vault.mint)
    <3>1. /\ open /\ MintMatches(m)
          /\ VaultAta(m) \in Mints \X Places /\ vault.mint = m /\ m # None
      BY <2>2, MintAssumption DEF ClaimSpl, VaultAta, Places, MintMatches
    <3>2. PICK amount : TokensOut(VaultAta(m), w, amount)
      BY <2>2 DEF ClaimSpl
    <3>3. a = VaultAta(m)
      BY <1>0, <1>1, <3>1, <3>2 DEF TokensOut
    <3> QED
      BY <3>1, <3>3
  <2> QED
    BY <1>7, <2>1, <2>2 DEF Claim
<1>8. ASSUME NEW w \in Wallets, Gift(w)
      PROVE  FALSE
  <2>1. \A m \in Mints, place \in Places, amount \in Gifts :
            ~SendTokens(w, m, place, amount)
    BY <1>2, InputAssumption DEF SendTokens
  <2> QED
    BY <1>1, <1>8, <2>1 DEF Gift, SendLamports, CreateTokenAccount
<1> QED
  BY <1>1, <1>6, <1>7, <1>8 DEF Next, Tick, vars

\* Whatever mints and token accounts there are, the program only takes from the
\* ATA of the open vault's own mint.
THEOREM OwnMintOnly == Spec => OnlyOwnMint
BY TypeCorrect, OwnMintOfSteps, PTL DEF Spec, OnlyOwnMint

\* A solvent vault that holds nothing owes nothing.
LEMMA NothingDue ==
    ASSUME VaultInv, vault.is_claimed, Holding = 0, NEW i \in Slots
    PROVE  Due(i) = 0
<1> DEFINE due == [j \in Slots |-> Due(j)]
<1>1. vault \in VaultData /\ vault.claim_pool \in Nat
  BY WidthAssumption DEF VaultInv, TypeOK, VaultData, Amount
<1>2. \A j \in Slots : Due(j) = DueOf(vault, vault.claim_pool, j)
  BY DEF Due, DueOf
<1>3. due \in [Slots -> Nat]
  BY <1>1, <1>2, DueType
<1>4. SumOverSlots(due) <= 0
  BY DEF VaultInv, Solvent
<1>5. due[i] <= SumOverSlots(due) /\ SumOverSlots(due) \in Nat
  <2> HIDE DEF due
  <2> QED
    BY <1>3, TermAtMostSum, SumType
<1>6. due[i] = 0
  <2>1. due[i] \in Nat
    BY <1>3
  <2> HIDE DEF due
  <2> QED
    BY <1>4, <1>5, <2>1
<1> QED
  BY <1>6

-----------------------------------------------------------------------------
(* Conservation: what a step does to the balances, then the sums. *)

\* No balance changes.
NoMove == UNCHANGED <<purse, lamports, tokens>>

\* An amount goes from the PDA to a wallet or back, in lamports.
LamportMove(w) ==
    /\ UNCHANGED tokens
    /\ purse'[w][None] + lamports' = purse[w][None] + lamports
    /\ \A u \in Wallets, b \in Assets :
          u # w \/ b # None => purse'[u][b] = purse[u][b]

\* An amount goes from a token account of the PDA to that of a wallet or back.
TokenMove(w, a) ==
    /\ UNCHANGED lamports
    /\ purse'[w][a[1]] + tokens'[a] = purse[w][a[1]] + tokens[a]
    /\ \A u \in Wallets, b \in Assets :
          u # w \/ b # a[1] => purse'[u][b] = purse[u][b]
    /\ \A b \in Mints \X Places : b # a => tokens'[b] = tokens[b]

\* A credit is to one balance.
LEMMA CreditOne ==
    ASSUME TypeOK, NEW w \in Wallets, NEW asset \in Assets,
           NEW amount \in Nat, Credit(w, asset, amount)
    PROVE  /\ purse'[w][asset] = purse[w][asset] + amount
           /\ \A u \in Wallets, b \in Assets :
                u # w \/ b # asset => purse'[u][b] = purse[u][b]
BY DEF TypeOK, Credit

\* A debit is of one balance, that covers it.
LEMMA DebitOne ==
    ASSUME TypeOK, NEW w \in Wallets, NEW asset \in Assets,
           NEW amount \in Nat, Debit(w, asset, amount)
    PROVE  /\ purse'[w][asset] = purse[w][asset] - amount
           /\ amount <= purse[w][asset]
           /\ \A u \in Wallets, b \in Assets :
                u # w \/ b # asset => purse'[u][b] = purse[u][b]
BY DEF TypeOK, Debit

\* Every step moves an amount between one wallet and one account of the PDA, if
\* it moves anything: what one of them loses the other gains.
LEMMA MoveShape ==
    ASSUME TypeOK, [Next]_vars
    PROVE  \/ NoMove
           \/ \E w \in Wallets : LamportMove(w)
           \/ \E w \in Wallets, a \in Mints \X Places : TokenMove(w, a)
<1>0. /\ lamports \in Nat /\ RENT \in Nat
      /\ \A u \in Wallets, b \in Assets : purse[u][b] \in Nat
      /\ tokens \in [Mints \X Places -> Nat]
      /\ None \in Assets /\ Mints \subseteq Assets
      /\ \A m \in Mints : VaultAta(m) \in Mints \X Places /\ VaultAta(m)[1] = m
      /\ Amounts \subseteq Nat /\ Gifts \subseteq Nat
  BY NoneIsAnAsset, InputAssumption, RentAssumption, WidthAssumption
     DEF TypeOK, Amount, VaultAta, Places
<1>1. ASSUME NEW w \in Wallets, NEW amount \in Nat, TransferLamports(w, amount),
             UNCHANGED tokens
      PROVE  LamportMove(w)
  <2>1. Debit(w, None, amount) /\ lamports' = lamports + amount
    BY <1>1 DEF TransferLamports
  <2> QED
    BY <1>0, <1>1, <2>1, DebitOne DEF LamportMove
<1>2. ASSUME NEW w \in Wallets, NEW amount \in Nat, MoveLamports(w, amount),
             UNCHANGED tokens
      PROVE  LamportMove(w)
  <2>1. Credit(w, None, amount) /\ lamports' = lamports - amount
    BY <1>2 DEF MoveLamports
  <2> QED
    BY <1>0, <1>2, <2>1, CreditOne DEF LamportMove
<1>3. ASSUME NEW w \in Wallets, NEW a \in Mints \X Places, NEW amount \in Nat,
             TokensIn(w, a, amount), UNCHANGED lamports
      PROVE  TokenMove(w, a)
  <2>1. Debit(w, a[1], amount) /\ tokens' = [tokens EXCEPT ![a] = @ + amount]
    BY <1>3 DEF TokensIn
  <2>2. a[1] \in Assets
    BY <1>0
  <2>3. tokens'[a] = tokens[a] + amount
        /\ \A b \in Mints \X Places : b # a => tokens'[b] = tokens[b]
    BY <1>0, <2>1
  <2>4. tokens[a] \in Nat /\ purse[w][a[1]] \in Nat
    BY <1>0, <2>2
  <2>5. /\ purse'[w][a[1]] = purse[w][a[1]] - amount
        /\ \A u \in Wallets, b \in Assets :
              u # w \/ b # a[1] => purse'[u][b] = purse[u][b]
    BY <2>1, <2>2, DebitOne
  <2> QED
    BY <1>3, <2>3, <2>4, <2>5 DEF TokenMove
<1>4. ASSUME NEW w \in Wallets, NEW a \in Mints \X Places, NEW amount \in Nat,
             TokensOut(a, w, amount), UNCHANGED lamports
      PROVE  TokenMove(w, a)
  <2>1. Credit(w, a[1], amount) /\ tokens' = [tokens EXCEPT ![a] = @ - amount]
    BY <1>4 DEF TokensOut
  <2>2. a[1] \in Assets
    BY <1>0
  <2>3. tokens'[a] = tokens[a] - amount
        /\ \A b \in Mints \X Places : b # a => tokens'[b] = tokens[b]
    BY <1>0, <2>1
  <2>4. tokens[a] \in Nat /\ purse[w][a[1]] \in Nat
    BY <1>0, <2>2
  <2>5. /\ purse'[w][a[1]] = purse[w][a[1]] + amount
        /\ \A u \in Wallets, b \in Assets :
              u # w \/ b # a[1] => purse'[u][b] = purse[u][b]
    BY <2>1, <2>2, CreditOne
  <2> QED
    BY <1>4, <2>3, <2>4, <2>5 DEF TokenMove
<1>5. ASSUME NEW w \in Wallets, NEW m \in Assets, NEW timeout \in Timeouts,
             NEW inputs \in Tables, InitializeVault(w, m, timeout, inputs)
      PROVE  LamportMove(w)
  <2>1. RentDue \in Nat
    BY <1>0 DEF RentDue
  <2>2. Debit(w, None, RentDue) /\ lamports' = lamports + RentDue /\ UNCHANGED tokens
    BY <1>5 DEF InitializeVault
  <2> QED
    BY <1>0, <2>1, <2>2, DebitOne DEF LamportMove
<1>6. ASSUME NEW w \in Wallets, NEW place \in Places, CloseVault(w, place)
      PROVE  LamportMove(w)
  <2>1. Credit(w, None, lamports) /\ lamports' = 0 /\ UNCHANGED tokens
    BY <1>6 DEF CloseVault
  <2> QED
    BY <1>0, <2>1, CreditOne DEF LamportMove
<1>7. ASSUME NEW w \in Wallets, ClaimSol(w)
      PROVE  LamportMove(w)
  <2>1. PICK i \in Slots : MoveLamports(w, ClaimAmount(vault, i, Withdrawable))
    BY <1>7 DEF ClaimSol
  <2>2. ClaimAmount(vault, i, Withdrawable) \in Nat
    BY ClaimAmountType, WithdrawableType DEF TypeOK
  <2> QED
    BY <1>2, <1>7, <2>1, <2>2 DEF ClaimSol
<1>8. ASSUME NEW w \in Wallets, NEW m \in Mints, ClaimSpl(w, m)
      PROVE  TokenMove(w, VaultAta(m))
  <2> DEFINE amount(i) == ClaimAmount(vault, i, tokens[VaultAta(m)])
  <2>1. PICK i \in Slots : TokensOut(VaultAta(m), w, amount(i))
    BY <1>8 DEF ClaimSpl
  <2>2. tokens[VaultAta(m)] \in Amount
    BY <1>0 DEF TypeOK
  <2>3. amount(i) \in Nat
    BY <2>2, ClaimAmountType DEF TypeOK
  <2> HIDE DEF amount
  <2> QED
    BY <1>0, <1>4, <1>8, <2>1, <2>3 DEF ClaimSpl
<1>9. ASSUME NEW w \in Wallets, OwnerInstruction(w)
      PROVE  NoMove \/ LamportMove(w) \/ \E a \in Mints \X Places : TokenMove(w, a)
  <2>1. ASSUME NEW amount \in Amounts, DepositSol(w, amount) \/ WithdrawSol(w, amount)
        PROVE  LamportMove(w)
    BY <1>0, <1>1, <1>2, <2>1 DEF DepositSol, WithdrawSol
  <2>2. ASSUME NEW m \in Mints, NEW amount \in Amounts,
               DepositSpl(w, m, amount) \/ WithdrawSpl(w, m, amount)
        PROVE  TokenMove(w, VaultAta(m))
    BY <1>0, <1>3, <1>4, <2>2 DEF DepositSpl, WithdrawSpl
  <2>3. CASE CheckIn(w) \/ \E inputs \in Tables : SetBeneficiaries(w, inputs)
    BY <2>3 DEF CheckIn, SetBeneficiaries, NoMove
  <2> QED
    BY <1>0, <1>5, <1>6, <1>9, <2>1, <2>2, <2>3 DEF OwnerInstruction
<1>10. ASSUME NEW w \in Wallets, Gift(w)
       PROVE  NoMove \/ LamportMove(w) \/ \E a \in Mints \X Places : TokenMove(w, a)
  <2>1. ASSUME NEW amount \in Gifts, SendLamports(w, amount)
        PROVE  LamportMove(w)
    BY <1>0, <1>1, <2>1 DEF SendLamports
  <2>2. ASSUME NEW m \in Mints, NEW place \in Places, NEW amount \in Gifts,
               SendTokens(w, m, place, amount)
        PROVE  TokenMove(w, <<m, place>>)
    BY <1>0, <1>3, <2>2 DEF SendTokens
  <2>3. ASSUME NEW m \in Mints, NEW place \in Places, CreateTokenAccount(m, place)
        PROVE  NoMove
    BY <2>3 DEF CreateTokenAccount, NoMove
  <2> QED
    BY <1>10, <2>1, <2>2, <2>3 DEF Gift
<1>11. CASE Tick \/ UNCHANGED vars
  BY <1>11 DEF Tick, vars, NoMove
<1> QED
  BY <1>0, <1>7, <1>8, <1>9, <1>10, <1>11 DEF Next, Claim

\* What does not exist holds nothing.
NoStrayTokens == \A a \in (Mints \X Places) \ accounts : tokens[a] = 0

\* Tokens only come to an account that exists afterwards, and only an empty one
\* is closed.
LEMMA StrayStep ==
    ASSUME TypeOK, NoStrayTokens, [Next]_vars
    PROVE  NoStrayTokens'
<1> SUFFICES ASSUME NEW a \in Mints \X Places, a \notin accounts'
             PROVE  tokens'[a] = 0
  BY DEF NoStrayTokens
<1>0. /\ tokens \in [Mints \X Places -> Nat]
      /\ \A m \in Mints : VaultAta(m) \in Mints \X Places
      /\ a \notin accounts => tokens[a] = 0
  BY WidthAssumption DEF NoStrayTokens, TypeOK, Amount, VaultAta, Places
<1>1. CASE UNCHANGED <<accounts, tokens>>
  BY <1>0, <1>1
<1>2. ASSUME NEW w \in Wallets, NEW b \in accounts', NEW amount \in Nat,
             b \in Mints \X Places,
             TokensIn(w, b, amount) \/ TokensOut(b, w, amount),
             accounts \subseteq accounts'
      PROVE  tokens'[a] = 0
  BY <1>0, <1>2 DEF TokensIn, TokensOut
<1>3. ASSUME NEW w \in Wallets, OwnerInstruction(w)
      PROVE  tokens'[a] = 0
  <2>1. ASSUME NEW m \in Mints, NEW amount \in Amounts,
               DepositSpl(w, m, amount) \/ WithdrawSpl(w, m, amount)
        PROVE  tokens'[a] = 0
    <3>1. VaultAta(m) \in accounts' /\ accounts \subseteq accounts'
      BY <2>1 DEF DepositSpl, WithdrawSpl
    <3> QED
      BY <1>0, <1>2, <2>1, <3>1, InputAssumption DEF DepositSpl, WithdrawSpl
  <2>2. ASSUME NEW place \in Places, CloseVault(w, place)
        PROVE  tokens'[a] = 0
    <3>1. UNCHANGED tokens
      BY <2>2 DEF CloseVault
    <3>2. \/ UNCHANGED accounts
          \/ /\ tokens[<<vault.mint, place>>] = 0
             /\ accounts' = accounts \ {<<vault.mint, place>>}
      BY <2>2 DEF CloseVault
    <3> QED
      BY <1>0, <3>1, <3>2
  <2> QED
    BY <1>1, <1>3, <2>1, <2>2
       DEF OwnerInstruction, InitializeVault, CheckIn, SetBeneficiaries, DepositSol,
           WithdrawSol
<1>4. ASSUME NEW w \in Wallets, Claim(w)
      PROVE  tokens'[a] = 0
  <2>1. CASE ClaimSol(w)
    BY <1>1, <2>1 DEF ClaimSol
  <2>2. ASSUME NEW m \in Mints, ClaimSpl(w, m)
        PROVE  tokens'[a] = 0
    <3>1. VaultAta(m) \in accounts /\ UNCHANGED accounts
      BY <2>2 DEF ClaimSpl
    <3>2. PICK i \in Slots :
             TokensOut(VaultAta(m), w, ClaimAmount(vault, i, tokens[VaultAta(m)]))
      BY <2>2 DEF ClaimSpl
    <3>3. tokens[VaultAta(m)] \in Amount
      BY <1>0 DEF TypeOK
    <3>4. ClaimAmount(vault, i, tokens[VaultAta(m)]) \in Nat
      BY <3>3, ClaimAmountType DEF TypeOK
    <3> QED
      BY <1>0, <1>2, <3>1, <3>2, <3>4
  <2> QED
    BY <1>4, <2>1, <2>2 DEF Claim
<1>5. ASSUME NEW w \in Wallets, Gift(w)
      PROVE  tokens'[a] = 0
  <2>1. ASSUME NEW m \in Mints, NEW place \in Places, NEW amount \in Gifts,
               SendTokens(w, m, place, amount)
        PROVE  tokens'[a] = 0
    <3>1. <<m, place>> \in accounts' /\ accounts \subseteq accounts'
      BY <2>1 DEF SendTokens
    <3> QED
      BY <1>2, <2>1, <3>1, InputAssumption DEF SendTokens
  <2>2. ASSUME NEW m \in Mints, NEW place \in Places, CreateTokenAccount(m, place)
        PROVE  tokens'[a] = 0
    BY <1>0, <2>2 DEF CreateTokenAccount
  <2> QED
    BY <1>1, <1>5, <2>1, <2>2 DEF Gift, SendLamports
<1> QED
  BY <1>1, <1>3, <1>4, <1>5 DEF Next, Tick, vars

\* A total of natural numbers is one.
LEMMA TotalType ==
    ASSUME NEW p, NEW a, \A u \in Wallets : p[u][a] \in Nat
    PROVE  Total(p, a) \in Nat
<1> DEFINE f == [u \in Wallets |-> p[u][a]]
<1>1. \A u \in Wallets : f[u] \in Nat
  OBVIOUS
<1>2. Total(p, a) = SumFunctionOnSet(f, Wallets)
  BY DEF Total, SumFunction
<1> HIDE DEF f
<1> QED
  BY <1>1, <1>2, FiniteAssumption, SumOnSetType

\* When one entry of the purse changes, the total changes by as much.
LEMMA PurseChange ==
    ASSUME NEW w \in Wallets, NEW a,
           \A u \in Wallets : purse[u][a] \in Nat /\ purse'[u][a] \in Nat,
           \A u \in Wallets : u # w => purse'[u][a] = purse[u][a]
    PROVE  /\ Total(purse, a) \in Nat /\ Total(purse', a) \in Nat
           /\ Total(purse', a) + purse[w][a] = Total(purse, a) + purse'[w][a]
<1> DEFINE f == [u \in Wallets |-> purse[u][a]]
           g == [u \in Wallets |-> purse'[u][a]]
<1>1. /\ \A u \in Wallets : f[u] \in Nat
      /\ \A u \in Wallets : g[u] \in Nat
      /\ \A u \in Wallets : u # w => g[u] = f[u]
      /\ f[w] = purse[w][a] /\ g[w] = purse'[w][a]
  OBVIOUS
<1>2. /\ Total(purse, a) = SumFunctionOnSet(f, Wallets)
      /\ Total(purse', a) = SumFunctionOnSet(g, Wallets)
  BY DEF Total, SumFunction
<1> HIDE DEF f, g
<1>3. SumFunctionOnSet(g, Wallets) + f[w] = SumFunctionOnSet(f, Wallets) + g[w]
  BY <1>1, FiniteAssumption, SumChange
<1>4. SumFunctionOnSet(f, Wallets) \in Nat /\ SumFunctionOnSet(g, Wallets) \in Nat
  BY <1>1, FiniteAssumption, SumOnSetType
<1> QED
  BY <1>1, <1>2, <1>3, <1>4

\* Where nothing differs the total is the same.
LEMMA TotalSame ==
    ASSUME NEW p, NEW q, NEW a, \A u \in Wallets : q[u][a] = p[u][a]
    PROVE  Total(q, a) = Total(p, a)
<1>1. [u \in Wallets |-> q[u][a]] = [u \in Wallets |-> p[u][a]]
  OBVIOUS
<1> QED
  BY <1>1 DEF Total

\* What the token accounts of the PDA hold of a mint.
Kept(t, m) == SumFunction([place \in Places |-> t[<<m, place>>]])

\* The places are finitely many.
LEMMA PlacesFinite == IsFiniteSet(Places)
<1>1. IsFiniteSet(OtherAccounts \cup {ATA})
  BY FiniteAssumption, FS_AddElement
<1>2. Places = OtherAccounts \cup {ATA}
  BY DEF Places
<1> QED
  BY <1>1, <1>2

\* When one token account changes, the sum over them changes by as much.
LEMMA KeptChange ==
    ASSUME NEW s, NEW t, NEW m, NEW place \in Places,
           \A q \in Places : s[<<m, q>>] \in Nat /\ t[<<m, q>>] \in Nat,
           \A q \in Places : q # place => t[<<m, q>>] = s[<<m, q>>]
    PROVE  /\ Kept(s, m) \in Nat /\ Kept(t, m) \in Nat
           /\ Kept(t, m) + s[<<m, place>>] = Kept(s, m) + t[<<m, place>>]
<1> DEFINE f == [q \in Places |-> s[<<m, q>>]]
           g == [q \in Places |-> t[<<m, q>>]]
<1>1. /\ \A q \in Places : f[q] \in Nat
      /\ \A q \in Places : g[q] \in Nat
      /\ \A q \in Places : q # place => g[q] = f[q]
      /\ f[place] = s[<<m, place>>] /\ g[place] = t[<<m, place>>]
  OBVIOUS
<1>2. /\ Kept(s, m) = SumFunctionOnSet(f, Places)
      /\ Kept(t, m) = SumFunctionOnSet(g, Places)
  BY DEF Kept, SumFunction
<1> HIDE DEF f, g
<1>3. SumFunctionOnSet(g, Places) + f[place] = SumFunctionOnSet(f, Places) + g[place]
  BY <1>1, PlacesFinite, SumChange
<1>4. SumFunctionOnSet(f, Places) \in Nat /\ SumFunctionOnSet(g, Places) \in Nat
  BY <1>1, PlacesFinite, SumOnSetType
<1> QED
  BY <1>1, <1>2, <1>3, <1>4

\* Where none changes it is the same.
LEMMA KeptSame ==
    ASSUME NEW s, NEW t, NEW m, \A q \in Places : t[<<m, q>>] = s[<<m, q>>]
    PROVE  Kept(t, m) = Kept(s, m)
<1>1. [q \in Places |-> t[<<m, q>>]] = [q \in Places |-> s[<<m, q>>]]
  OBVIOUS
<1> QED
  BY <1>1 DEF Kept

\* At the start the wallets hold everything.
LEMMA ConservedInit == Init => Conserved
<1> SUFFICES ASSUME Init
             PROVE  Conserved
  OBVIOUS
<1>0. Grants \in [Wallets -> [Assets -> Nat]]
  BY GrantAssumption, WidthAssumption DEF Amount
<1>1. ASSUME NEW a \in Assets
      PROVE  Total(Grants, a) \in Nat
  <2>1. \A u \in Wallets : Grants[u][a] \in Nat
    BY <1>0
  <2> QED
    BY <2>1, TotalType
<1>2. ASSUME NEW m \in Mints
      PROVE  Kept(tokens, m) = 0
  <2> DEFINE f == [q \in Places |-> tokens[<<m, q>>]]
  <2>1. \A q \in Places : f[q] = 0
    BY DEF Init
  <2>2. Kept(tokens, m) = SumFunctionOnSet(f, Places)
    BY DEF Kept, SumFunction
  <2> HIDE DEF f
  <2> QED
    BY <2>1, <2>2, PlacesFinite, SumOfZeros
<1>3. /\ Total(purse, None) + lamports = Total(Grants, None)
      /\ \A m \in Mints : Total(purse, m) + Kept(tokens, m) = Total(Grants, m)
  BY <1>1, <1>2, NoneIsAnAsset DEF Init
<1>4. \A a \in (Mints \X Places) \ accounts : tokens[a] = 0
  BY DEF Init
<1> QED
  BY <1>3, <1>4 DEF Conserved, Kept

\* A step moves, and neither makes nor loses.
LEMMA ConservedStep ==
    ASSUME TypeOK, TypeOK', Conserved, [Next]_vars
    PROVE  Conserved'
<1>0. /\ \A u \in Wallets, b \in Assets : purse[u][b] \in Nat /\ purse'[u][b] \in Nat
      /\ \A a \in Mints \X Places : tokens[a] \in Nat /\ tokens'[a] \in Nat
      /\ lamports \in Nat /\ lamports' \in Nat
      /\ None \in Assets /\ Mints \subseteq Assets /\ None \notin Mints
  BY NoneIsAnAsset, MintAssumption, WidthAssumption DEF TypeOK, Amount
<1>1. /\ Total(purse, None) + lamports = Total(Grants, None)
      /\ \A m \in Mints : Total(purse, m) + Kept(tokens, m) = Total(Grants, m)
      /\ NoStrayTokens
  BY DEF Conserved, Kept, NoStrayTokens
<1>2. NoStrayTokens'
  BY <1>1, StrayStep
<1>3. /\ Total(purse', None) + lamports' = Total(Grants, None)
      /\ \A m \in Mints : Total(purse', m) + Kept(tokens', m) = Total(Grants, m)
  <2>1. CASE NoMove
    <3>1. purse' = purse /\ lamports' = lamports /\ tokens' = tokens
      BY <2>1 DEF NoMove
    <3> QED
      BY <1>1, <3>1
  <2>2. ASSUME NEW w \in Wallets, LamportMove(w)
        PROVE  <1>3
    <3>1. \A m \in Mints : Total(purse', m) = Total(purse, m)
      <4> TAKE m \in Mints
      <4>1. \A u \in Wallets : purse'[u][m] = purse[u][m]
        BY <1>0, <2>2 DEF LamportMove
      <4> QED
        BY <4>1, TotalSame
    <3>2. tokens' = tokens
      BY <2>2 DEF LamportMove
    <3>3. /\ Total(purse, None) \in Nat /\ Total(purse', None) \in Nat
          /\ Total(purse', None) + purse[w][None] = Total(purse, None) + purse'[w][None]
      <4>1. \A u \in Wallets : u # w => purse'[u][None] = purse[u][None]
        BY <1>0, <2>2 DEF LamportMove
      <4>2. \A u \in Wallets : purse[u][None] \in Nat /\ purse'[u][None] \in Nat
        BY <1>0
      <4> QED
        BY <4>1, <4>2, PurseChange
    <3>4. purse'[w][None] + lamports' = purse[w][None] + lamports
      BY <2>2 DEF LamportMove
    <3>5. Total(purse', None) + lamports' = Total(purse, None) + lamports
      BY <1>0, <3>3, <3>4
    <3> QED
      BY <1>1, <3>1, <3>2, <3>5
  <2>3. ASSUME NEW w \in Wallets, NEW n \in Mints, NEW place \in Places,
               TokenMove(w, <<n, place>>)
        PROVE  <1>3
    <3> DEFINE a == <<n, place>>
    <3>0. /\ a \in Mints \X Places /\ a[1] = n
          /\ purse'[w][n] + tokens'[a] = purse[w][n] + tokens[a]
          /\ lamports' = lamports
      BY <2>3 DEF TokenMove
    <3>1. \A b \in Assets : b # n => Total(purse', b) = Total(purse, b)
      <4> TAKE b \in Assets
      <4> HAVE b # n
      <4>1. \A u \in Wallets : purse'[u][b] = purse[u][b]
        BY <2>3, <3>0 DEF TokenMove
      <4> QED
        BY <4>1, TotalSame
    <3>2. /\ Total(purse, n) \in Nat /\ Total(purse', n) \in Nat
          /\ Total(purse', n) + purse[w][n] = Total(purse, n) + purse'[w][n]
      <4>1. \A u \in Wallets : u # w => purse'[u][n] = purse[u][n]
        BY <1>0, <2>3, <3>0 DEF TokenMove
      <4>2. \A u \in Wallets : purse[u][n] \in Nat /\ purse'[u][n] \in Nat
        BY <1>0
      <4> HIDE DEF a
      <4> QED
        BY <4>1, <4>2, PurseChange
    <3>3. \A m \in Mints : m # n => Kept(tokens', m) = Kept(tokens, m)
      <4> TAKE m \in Mints
      <4> HAVE m # n
      <4>1. \A q \in Places : tokens'[<<m, q>>] = tokens[<<m, q>>]
        BY <2>3 DEF TokenMove
      <4> QED
        BY <4>1, KeptSame
    <3>4. /\ Kept(tokens, n) \in Nat /\ Kept(tokens', n) \in Nat
          /\ Kept(tokens', n) + tokens[a] = Kept(tokens, n) + tokens'[a]
      <4>1. \A q \in Places : q # place => tokens'[<<n, q>>] = tokens[<<n, q>>]
        BY <2>3 DEF TokenMove
      <4>2. \A q \in Places : tokens[<<n, q>>] \in Nat /\ tokens'[<<n, q>>] \in Nat
        BY <1>0
      <4> QED
        BY <4>1, <4>2, KeptChange
    <3>5. Total(purse', n) + Kept(tokens', n) = Total(purse, n) + Kept(tokens, n)
      <4>1. /\ tokens[a] \in Nat /\ tokens'[a] \in Nat
            /\ purse[w][n] \in Nat /\ purse'[w][n] \in Nat
        BY <1>0, <3>0
      <4> HIDE DEF a
      <4> QED
        BY <3>0, <3>2, <3>4, <4>1
    <3> QED
      BY <1>0, <1>1, <3>0, <3>1, <3>3, <3>5
  <2> QED
    BY <2>1, <2>2, <2>3, MoveShape
<1> QED
  BY <1>2, <1>3 DEF Conserved, Kept, NoStrayTokens

\* For every number of wallets, mints and token accounts: over any sequence of
\* instructions and gifts nothing is made and nothing is lost.
THEOREM AlwaysConserved == Spec => []Conserved
<1>1. Init => TypeOK /\ Conserved
  BY TypeInit, ConservedInit
<1>2. TypeOK /\ Conserved /\ [Next]_vars => TypeOK' /\ Conserved'
  BY TypeStep, ConservedStep
<1> QED
  BY <1>1, <1>2, PTL DEF Spec

\* A vault that is closed holds nothing of its asset and owes nobody anything; or
\* it is one of tokens that was closed with another account of its mint, and what
\* it held stays in its ATA, which outlives it.
LeftBehind ==
    /\ vault.mint \in Mints
    /\ \E place \in OtherAccounts : <<vault.mint, place>> \in accounts \ accounts'
    /\ VaultAta(vault.mint) \in accounts'
    /\ tokens'[VaultAta(vault.mint)] = Holding

ClosingStep ==
    open /\ ~open' =>
        \/ Holding = 0 /\ \A i \in Slots : vault.is_claimed => Due(i) = 0
        \/ LeftBehind

\* close_vault looks at the balance of the account it is given: one case for
\* each account that may be.
LEMMA ClosingOfSteps ==
    ASSUME VaultInv, Conserved, [Next]_vars
    PROVE  ClosingStep
<1> SUFFICES ASSUME open, ~open'
             PROVE  Holding = 0 \/ LeftBehind
  BY NothingDue DEF ClosingStep
<1>1. PICK w \in Wallets, place \in Places : CloseVault(w, place)
  BY StepShape DEF VaultInv, QuietStep, InitializeVault, CheckIn, SetBeneficiaries,
                   ClaimStep
<1>2. CASE IsSol(vault)
  BY <1>1, <1>2 DEF CloseVault, Emptied, Holding
<1>3. CASE ~IsSol(vault) /\ place = ATA
  BY <1>1, <1>3 DEF CloseVault, Emptied, Holding, VaultAta
<1>4. CASE ~IsSol(vault) /\ place # ATA
  <2>1. vault.mint \in Mints /\ place \in OtherAccounts
    BY <1>4 DEF VaultInv, TypeOK, VaultData, IsSol, Places
  <2>2. VaultAta(vault.mint) # <<vault.mint, place>>
    BY <1>4 DEF VaultAta
  <2>3. VaultAta(vault.mint) \in Mints \X Places
    BY <2>1 DEF VaultAta, Places
  <2>4. /\ <<vault.mint, place>> \in accounts
        /\ accounts' = accounts \ {<<vault.mint, place>>}
        /\ tokens' = tokens
    BY <1>1, <1>4 DEF CloseVault
  <2>5. Holding = tokens[VaultAta(vault.mint)]
    BY <1>4 DEF Holding
  <2>6. CASE VaultAta(vault.mint) \in accounts
    BY <2>1, <2>2, <2>4, <2>5, <2>6 DEF LeftBehind
  <2>7. CASE VaultAta(vault.mint) \notin accounts
    BY <2>3, <2>5, <2>7 DEF Conserved
  <2> QED
    BY <2>6, <2>7
<1> QED
  BY <1>2, <1>3, <1>4

\* What README, invariant 6, comes to for any token accounts of the PDA: closing
\* a vault never loses a balance, and the only one it can leave behind is that
\* of the ATA, if close_vault is shown a second, empty account in its place.
THEOREM ClosingLosesNothing == Spec => [][ClosingStep]_vars
<1>1. VaultInv /\ Conserved /\ [Next]_vars => ClosingStep
  BY ClosingOfSteps
<1> QED
  BY <1>1, Invariant, AlwaysConserved, PTL DEF Spec

\* What there is of an asset fits in a u64, so that nobody is ever credited
\* beyond one: what a wallet and the vault hold together is within the supply.
LEMMA CreditFits ==
    ASSUME TypeOK, Conserved, NEW w \in Wallets
    PROVE  /\ purse[w][None] + lamports <= MAX_U64
           /\ \A m \in Mints, place \in Places :
                 purse[w][m] + tokens[<<m, place>>] <= MAX_U64
<1>0. /\ \A u \in Wallets, b \in Assets : purse[u][b] \in Nat
      /\ \A a \in Mints \X Places : tokens[a] \in Nat
      /\ lamports \in Nat /\ MAX_U64 \in Nat
      /\ None \in Assets /\ Mints \subseteq Assets
  BY NoneIsAnAsset, WidthAssumption DEF TypeOK, Amount
<1>1. \A b \in Assets : purse[w][b] <= Total(purse, b) /\ Total(purse, b) \in Nat
  <2> TAKE b \in Assets
  <2> DEFINE f == [u \in Wallets |-> purse[u][b]]
  <2>1. \A u \in Wallets : f[u] \in Nat
    BY <1>0
  <2>2. Total(purse, b) = SumFunctionOnSet(f, Wallets) /\ f[w] = purse[w][b]
    BY DEF Total, SumFunction
  <2> HIDE DEF f
  <2> QED
    BY <2>1, <2>2, FiniteAssumption, TermAtMostSumOnSet, SumOnSetType
<1>2. \A m \in Mints, place \in Places :
        tokens[<<m, place>>] <= Kept(tokens, m) /\ Kept(tokens, m) \in Nat
  <2> TAKE m \in Mints, place \in Places
  <2> DEFINE f == [q \in Places |-> tokens[<<m, q>>]]
  <2>1. \A q \in Places : f[q] \in Nat
    BY <1>0
  <2>2. Kept(tokens, m) = SumFunctionOnSet(f, Places) /\ f[place] = tokens[<<m, place>>]
    BY DEF Kept, SumFunction
  <2> HIDE DEF f
  <2> QED
    BY <2>1, <2>2, PlacesFinite, TermAtMostSumOnSet, SumOnSetType
<1>3. /\ Total(purse, None) + lamports <= MAX_U64
      /\ \A m \in Mints : Total(purse, m) + Kept(tokens, m) <= MAX_U64
  BY <1>0, SupplyAssumption DEF Conserved, Kept
<1>4. purse[w][None] + lamports <= MAX_U64
  BY <1>0, <1>1, <1>3
<1>5. ASSUME NEW m \in Mints, NEW place \in Places
      PROVE  purse[w][m] + tokens[<<m, place>>] <= MAX_U64
  <2>1. /\ purse[w][m] <= Total(purse, m) /\ Total(purse, m) \in Nat
        /\ purse[w][m] \in Nat
    BY <1>0, <1>1
  <2>2. /\ tokens[<<m, place>>] <= Kept(tokens, m) /\ Kept(tokens, m) \in Nat
        /\ tokens[<<m, place>>] \in Nat
    BY <1>0, <1>2
  <2>3. Total(purse, m) + Kept(tokens, m) <= MAX_U64
    BY <1>3
  <2> QED
    BY <1>0, <2>1, <2>2, <2>3
<1> QED
  BY <1>4, <1>5

-----------------------------------------------------------------------------
(* The abstract specification. *)

\* At the start there is nothing to read.
LEMMA PublicInit ==
    ASSUME Init
    PROVE  Public!Init
BY DEF Init, DefaultVault, Readable, Public!Init, Public!NoAccount

\* An update of one field, spelled out.
LEMMA ReadableExcept ==
    ASSUME NEW v \in Public!Accounts, NEW b
    PROVE  [v EXCEPT !.is_claimed = b]
           = [open |-> v.open, last_checkin |-> v.last_checkin,
              timeout |-> v.timeout, is_claimed |-> b]
BY DEF Public!Accounts

\* Each shape of a step is, in what can be read, a tick of the clock, one of
\* the instructions of Switch, or nothing.
LEMMA PublicStep ==
    ASSUME TypeOK, [Next]_vars
    PROVE  [Public!Next]_<<now, Readable>>
<1>0. vault \in VaultData /\ open \in BOOLEAN /\ now \in Nat
  BY ClockAssumption DEF TypeOK, Times
<1>r. Readable \in Public!Accounts
  BY <1>0 DEF Readable, Public!Accounts, VaultData, Times
<1>s. ASSUME NEW v, v \in Public!Successors(Readable, now), Readable' = v, now' = now
      PROVE  Public!Next
  BY <1>s DEF Public!Next, Public!Instruction
<1>1. CASE QuietStep
  <2>1. Readable' = Readable
    BY <1>1 DEF QuietStep, Readable
  <2> QED
    BY <1>1, <2>1 DEF QuietStep, Public!Next, Public!Tick
<1>2. ASSUME NEW w \in Wallets, NEW m \in Assets, NEW timeout \in Timeouts,
             NEW inputs \in Tables, InitializeVault(w, m, timeout, inputs)
      PROVE  Public!Next
  <2>1. /\ ~Readable.open
        /\ timeout \in MIN_TIMEOUT_SECONDS..MAX_TIMEOUT_SECONDS
        /\ now' = now
        /\ Readable' = [open |-> TRUE, last_checkin |-> now, timeout |-> timeout,
                        is_claimed |-> FALSE]
    BY <1>2 DEF InitializeVault, ValidTimeout, Readable
  <2>2. Readable' \in Public!Successors(Readable, now)
    BY <2>1 DEF Public!Successors, Public!Opened
  <2> QED
    BY <1>s, <2>1, <2>2
<1>3. ASSUME NEW w \in Wallets, CheckIn(w)
      PROVE  Public!Next
  <2>1. /\ Readable.open /\ ~Readable.is_claimed
        /\ now' = now
        /\ Readable' = [Readable EXCEPT !.last_checkin = now]
    <3>1. /\ open /\ ~vault.is_claimed
          /\ now' = now /\ open' = open
          /\ vault' = [vault EXCEPT !.last_checkin = now]
      BY <1>3 DEF CheckIn, HasOne, Untripped
    <3>2. /\ vault'.last_checkin = now
          /\ vault'.timeout_seconds = vault.timeout_seconds
          /\ vault'.is_claimed = vault.is_claimed
      BY <1>0, <3>1 DEF VaultData
    <3>3. Readable' = [open         |-> Readable.open,
                       last_checkin |-> now,
                       timeout      |-> Readable.timeout,
                       is_claimed   |-> Readable.is_claimed]
      BY <3>1, <3>2 DEF Readable
    <3>4. Readable' = [Readable EXCEPT !.last_checkin = now]
      BY <1>r, <3>3 DEF Public!Accounts
    <3> QED
      BY <3>1, <3>4 DEF Readable
  <2>2. Readable' \in Public!Successors(Readable, now)
    BY <2>1 DEF Public!Successors
  <2> QED
    BY <1>s, <2>1, <2>2
<1>4. ASSUME NEW w \in Wallets, NEW inputs \in Tables, SetBeneficiaries(w, inputs)
      PROVE  UNCHANGED <<now, Readable>>
  BY <1>0, <1>4 DEF SetBeneficiaries, Readable, VaultData
<1>5. ASSUME NEW w \in Wallets, NEW place \in Places, CloseVault(w, place)
      PROVE  Public!Next
  <2>1. /\ Readable.open
        /\ now' = now
        /\ Readable' = Public!NoAccount
    BY <1>5 DEF CloseVault, HasOne, Readable, DefaultVault, Public!NoAccount
  <2>2. Readable' \in Public!Successors(Readable, now)
    BY <2>1 DEF Public!Successors
  <2> QED
    BY <1>s, <2>1, <2>2
<1>6. ASSUME NEW w \in Wallets, NEW i \in Slots, ClaimStep(w, i)
      PROVE  Public!Next
  <2>1. /\ open /\ open' /\ now' = now
        /\ vault' = BookClaim(vault, i, Holding)
        /\ now >= Deadline(vault)
    BY <1>6 DEF ClaimStep, MayClaim, IsExpired
  <2>2. /\ vault'.last_checkin = vault.last_checkin
        /\ vault'.timeout_seconds = vault.timeout_seconds
        /\ vault'.is_claimed = TRUE
    BY <1>0, <2>1 DEF BookClaim, VaultData
  <2>3. /\ Readable.open
        /\ now >= Public!Deadline(Readable)
        /\ Readable' = [Readable EXCEPT !.is_claimed = TRUE]
    <3>1. open = TRUE /\ open' = TRUE
      BY <1>0, <1>6, <2>1 DEF TypeOK, ClaimStep
    <3>2. Readable' = [open         |-> Readable.open,
                       last_checkin |-> Readable.last_checkin,
                       timeout      |-> Readable.timeout,
                       is_claimed   |-> TRUE]
      BY <2>2, <3>1 DEF Readable
    <3>3. Readable' = [Readable EXCEPT !.is_claimed = TRUE]
      BY <1>r, <3>2, ReadableExcept
    <3>4. /\ Readable.last_checkin = vault.last_checkin
          /\ Readable.timeout = vault.timeout_seconds
          /\ Readable.open = open
      BY DEF Readable
    <3>5. Public!Deadline(Readable) = Deadline(vault)
      BY <3>4 DEF Deadline, Public!Deadline
    <3> QED
      BY <2>1, <3>3, <3>4, <3>5
  <2>4. ~(now < Public!Deadline(Readable))
    BY <1>0, <2>3 DEF Readable, Public!Deadline, VaultData, Times
  <2>5. Readable' \in Public!Successors(Readable, now)
    BY <2>3, <2>4 DEF Public!Successors
  <2> QED
    BY <1>s, <2>1, <2>5
<1> QED
  BY <1>1, <1>2, <1>3, <1>4, <1>5, <1>6, StepShape

\* The program is a dead-man switch to everybody who watches a vault.
THEOREM Implementation == Spec => ImplementsSwitch
<1>1. TypeOK /\ [Next]_vars => [Public!Next]_<<now, Readable>>
  BY PublicStep
<1>2. Init => Public!Init
  BY PublicInit
<1> QED
  BY <1>1, <1>2, TypeCorrect, PTL DEF Spec, ImplementsSwitch, Public!Spec

=============================================================================
