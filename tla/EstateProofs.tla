---------------------------- MODULE EstateProofs ----------------------------
(***************************************************************************)
(* What the heirs can rely on, for every value of the constants.  Vault    *)
(* implements Inheritance, if the PDA is left no token account but its     *)
(* ATA: slots and bequests correspond one to one, which the validation of  *)
(* the heir table (no key twice) is there for.  And of a dead owner:       *)
(* nobody takes the owner's place, nothing is lost by waiting, and once    *)
(* the time has come a claim is answered Ok.  That the clock goes on and   *)
(* that the heir claims is what the fairness of EstateSpec adds.           *)
(***************************************************************************)
EXTENDS Estate, AnswersProofs

-----------------------------------------------------------------------------
(* Slots and bequests. *)

Bequest(v, i) ==
    [heir |-> v.beneficiaries[i].address, share |-> v.beneficiaries[i].share_bps]

WillOf(v) == Bequests(v.beneficiaries, Active(v))

PaidOf(v) == Bequests(v.beneficiaries, Active(v) \ Unclaimed(v))

\* What the slots stand for, spelled out.
LEMMA BequestsOf ==
    ASSUME NEW v
    PROVE  /\ WillOf(v) = {Bequest(v, i) : i \in Active(v)}
           /\ PaidOf(v) = {Bequest(v, i) : i \in Active(v) \ Unclaimed(v)}
BY DEF WillOf, PaidOf, Bequests, Bequest

\* No two slots of a valid table make the same bequest.
LEMMA BequestsDiffer ==
    ASSUME NEW v, WellFormedTable(v), NEW i \in Active(v), NEW j \in Active(v),
           Bequest(v, i) = Bequest(v, j)
    PROVE  i = j
<1>1. v.beneficiaries[i].address = v.beneficiaries[j].address
  BY DEF Bequest
<1> QED
  BY <1>1 DEF WellFormedTable

\* An unclaimed slot is a bequest that has not been taken.
LEMMA UnclaimedBequest ==
    ASSUME NEW v, WellFormedTable(v), NEW i \in Unclaimed(v)
    PROVE  Bequest(v, i) \in WillOf(v) \ PaidOf(v)
<1>1. i \in Active(v)
  BY DEF Unclaimed
<1>2. ASSUME NEW j \in Active(v) \ Unclaimed(v), Bequest(v, i) = Bequest(v, j)
      PROVE  FALSE
  BY <1>1, <1>2, BequestsDiffer
<1> QED
  BY <1>1, <1>2, BequestsOf

\* is_last asks, by counting slots, whether only this bequest is left.
LEMMA LastBequest ==
    ASSUME NEW v \in VaultData, WellFormedTable(v), NEW i \in Unclaimed(v)
    PROVE  IsLast(v) <=> WillOf(v) = PaidOf(v) \cup {Bequest(v, i)}
<1>0. Unclaimed(v) \subseteq Active(v)
  BY DEF Unclaimed
<1>1. ASSUME IsLast(v)
      PROVE  WillOf(v) = PaidOf(v) \cup {Bequest(v, i)}
  <2>1. Unclaimed(v) = {i}
    BY <1>1, LastIsAlone
  <2> QED
    BY <1>0, <2>1, BequestsOf
<1>2. ASSUME WillOf(v) = PaidOf(v) \cup {Bequest(v, i)}
      PROVE  IsLast(v)
  <2>1. ASSUME NEW j \in Unclaimed(v)
        PROVE  j = i
    <3>1. Bequest(v, j) \in WillOf(v) \ PaidOf(v)
      BY UnclaimedBequest
    <3>2. Bequest(v, j) = Bequest(v, i)
      BY <1>2, <3>1
    <3> QED
      BY <1>0, <3>2, BequestsDiffer
  <2>2. Unclaimed(v) = {i}
    BY <2>1
  <2> QED
    BY <2>2, FS_Singleton DEF IsLast
<1> QED
  BY <1>1, <1>2

\* Booking a claim takes one bequest and leaves the will as it is.
LEMMA BookedBequest ==
    ASSUME NEW v \in VaultData, NEW i \in Unclaimed(v), NEW pool \in Amount
    PROVE  /\ WillOf(BookClaim(v, i, pool)) = WillOf(v)
           /\ PaidOf(BookClaim(v, i, pool)) = PaidOf(v) \cup {Bequest(v, i)}
<1> DEFINE booked == BookClaim(v, i, pool)
<1>0. i \in Active(v) /\ Active(v) \subseteq Slots /\ i \in Slots
  BY ActiveInSlots DEF Unclaimed
<1>1. Active(booked) = Active(v) /\ Unclaimed(booked) = Unclaimed(v) \ {i}
  BY <1>0, BookClaimScalars, BookClaimUnclaimed
<1>2. ASSUME NEW j \in Slots
      PROVE  Bequest(booked, j) = Bequest(v, j)
  <2>1. /\ booked.beneficiaries[j].address = v.beneficiaries[j].address
        /\ booked.beneficiaries[j].share_bps = v.beneficiaries[j].share_bps
    BY <1>0, BookClaimSlot
  <2> QED
    BY <2>1 DEF Bequest
<1> HIDE DEF booked
<1>3. Active(v) \ (Unclaimed(v) \ {i}) = (Active(v) \ Unclaimed(v)) \cup {i}
  BY <1>0
<1>4. /\ WillOf(booked) = {Bequest(booked, j) : j \in Active(v)}
      /\ PaidOf(booked)
           = {Bequest(booked, j) : j \in (Active(v) \ Unclaimed(v)) \cup {i}}
  <2>1. /\ WillOf(booked) = {Bequest(booked, j) : j \in Active(booked)}
        /\ PaidOf(booked)
             = {Bequest(booked, j) : j \in Active(booked) \ Unclaimed(booked)}
    BY BequestsOf
  <2> QED
    BY <1>1, <1>3, <2>1
<1>5. WillOf(booked) = WillOf(v)
  <2>1. WillOf(v) = {Bequest(v, j) : j \in Active(v)}
    BY BequestsOf
  <2> QED
    BY <1>0, <1>2, <1>4, <2>1
<1>6. PaidOf(booked) = PaidOf(v) \cup {Bequest(v, i)}
  <2>1. PaidOf(v) = {Bequest(v, j) : j \in Active(v) \ Unclaimed(v)}
    BY BequestsOf
  <2> QED
    BY <1>0, <1>2, <1>4, <2>1
<1> QED
  BY <1>5, <1>6 DEF booked

-----------------------------------------------------------------------------
(* The refinement. *)

\* A closed vault is no will at all; with none of its heirs paid, an open one is
\* still in its owner's hands.
LEMMA NothingPaid ==
    ASSUME NEW v, \A i \in Active(v) : ~v.beneficiaries[i].claimed
    PROVE  PaidOf(v) = {}
<1>1. Unclaimed(v) = Active(v)
  BY DEF Unclaimed
<1> QED
  BY <1>1, BequestsOf

\* The account of a closed vault leaves nothing to anybody.
LEMMA BlankWill == WillOf(DefaultVault) = {} /\ PaidOf(DefaultVault) = {}
<1>1. Active(DefaultVault) = {}
  BY DEF Active, DefaultVault
<1> QED
  BY <1>1, BequestsOf

\* The variables of Inheritance, in the names of this module.
LEMMA InTheseWords ==
    /\ Money!Init <=> /\ WillOf(vault) = {}
                      /\ PaidOf(vault) = {}
                      /\ vault.claim_pool = 0
                      /\ (IF open THEN Holding ELSE 0) = 0
    /\ Money!vars = <<WillOf(vault), PaidOf(vault), vault.claim_pool,
                      IF open THEN Holding ELSE 0>>
BY DEF Money!Init, Money!vars, WillOf, PaidOf

\* There is no estate before the vault is opened.
LEMMA MoneyInit == Init => Money!Init
<1> SUFFICES ASSUME Init
             PROVE  Money!Init
  OBVIOUS
<1>1. vault = DefaultVault /\ open = FALSE
  BY DEF Init
<1>2. WillOf(vault) = {} /\ PaidOf(vault) = {}
  BY <1>1, BlankWill
<1>3. vault.claim_pool = 0
  BY <1>1 DEF DefaultVault
<1> QED
  BY <1>1, <1>2, <1>3, InTheseWords

\* Whether the vault has tripped is whether somebody has been paid.
LEMMA TrippedIsPaid ==
    ASSUME VaultInv, open
    PROVE  /\ WillOf(vault) # {}
           /\ PaidOf(vault) = {} <=> ~vault.is_claimed
<1>1. WellFormedTable(vault) /\ vault \in VaultData
  BY DEF VaultInv, TypeOK, HeirTableValid
<1>2. WillOf(vault) # {}
  BY <1>1, BequestsOf DEF WellFormedTable
<1>3. CASE vault.is_claimed
  <2>1. PICK i \in Active(vault) : vault.beneficiaries[i].claimed
    BY <1>3 DEF VaultInv, TripConsistent
  <2>2. i \in Active(vault) \ Unclaimed(vault)
    BY <2>1 DEF Unclaimed
  <2> QED
    BY <1>2, <1>3, <2>2, BequestsOf
<1>4. CASE ~vault.is_claimed
  <2>1. \A i \in Active(vault) : ~vault.beneficiaries[i].claimed
    BY <1>1, <1>4, ActiveInSlots DEF VaultInv, TripConsistent
  <2> QED
    BY <1>2, <1>4, <2>1, NothingPaid
<1> QED
  BY <1>3, <1>4

\* Deposits, withdrawals and gifts: the owner disposes of the estate, or it
\* grows.
LEMMA QuietIsMoney ==
    ASSUME VaultInv, [Next]_vars, QuietStep
    PROVE  [Money!Next]_(Money!vars)
<1>0. /\ vault' = vault /\ open' = open
      /\ WillOf(vault') = WillOf(vault) /\ PaidOf(vault') = PaidOf(vault)
  BY DEF QuietStep
<1>1. Holding' \in Nat
  BY TypeStep, NextHoldingType DEF VaultInv
<1>2. CASE ~open
  BY <1>0, <1>2 DEF Money!vars, WillOf, PaidOf
<1>3. CASE open /\ ~vault.is_claimed
  <2>1. Money!Spend
    BY <1>0, <1>1, <1>3, TrippedIsPaid
       DEF Money!Spend, Money!InOwnersHands, WillOf, PaidOf
  <2> QED
    BY <2>1 DEF Money!Next
<1>4. CASE open /\ vault.is_claimed
  <2>1. Money!Receive
    BY <1>0, <1>1, <1>4, TrippedIsPaid DEF QuietStep, Money!Receive, WillOf, PaidOf
  <2> QED
    BY <2>1 DEF Money!Next
<1> QED
  BY <1>2, <1>3, <1>4

\* A table that passed the validation is one of the wills there may be.
LEMMA TableIsWill ==
    ASSUME NEW inputs \in Tables, ValidTable(inputs), NEW v,
           v.beneficiaries = FillSlots(inputs), v.beneficiary_count = Len(inputs)
    PROVE  /\ WillOf(v) \in {Bequests(FillSlots(t), 1..Len(t)) :
                                t \in {t \in Tables : ValidTable(t)}}
           /\ PaidOf(v) = {}
<1>1. inputs \in Seq(BeneficiaryInput)
  BY InputAssumption
<1>2. WellFormedTable(v) /\ \A i \in Slots : ~v.beneficiaries[i].claimed
  BY <1>1, ValidTableIsWellFormed
<1>3. Active(v) = 1..Len(inputs) /\ Active(v) \subseteq Slots
  BY <1>1 DEF Active, ValidTable, Slots, MAX_BENEFICIARIES
<1>4. PaidOf(v) = {}
  BY <1>2, <1>3, NothingPaid
<1>5. WillOf(v) = Bequests(FillSlots(inputs), 1..Len(inputs))
  BY <1>3 DEF WillOf
<1> QED
  BY <1>4, <1>5

\* Opening a vault makes a will.
LEMMA OpeningMakes ==
    ASSUME VaultInv, [Next]_vars, NEW w \in Wallets, NEW m \in Assets,
           NEW timeout \in Timeouts, NEW inputs \in Tables,
           InitializeVault(w, m, timeout, inputs)
    PROVE  Money!Make
<1>1. /\ ~open /\ open' = TRUE /\ ValidTable(inputs)
      /\ vault'.beneficiaries = FillSlots(inputs)
      /\ vault'.beneficiary_count = Len(inputs)
      /\ vault'.claim_pool = 0
  BY DEF InitializeVault
<1>2. /\ WillOf(vault) = {} /\ PaidOf(vault) = {}
      /\ vault.claim_pool = 0
  <2>1. vault = DefaultVault
    BY <1>1 DEF VaultInv, ClosedIsBlank
  <2>2. WillOf(vault) = {} /\ PaidOf(vault) = {}
    BY <2>1, BlankWill
  <2> QED
    BY <2>1, <2>2 DEF DefaultVault
<1>3. /\ WillOf(vault') \in {Bequests(FillSlots(t), 1..Len(t)) :
                                t \in {t \in Tables : ValidTable(t)}}
      /\ PaidOf(vault') = {}
  BY <1>1, TableIsWill
<1>4. Holding' \in Nat
  BY TypeStep, NextHoldingType DEF VaultInv
<1> QED
  BY <1>1, <1>2, <1>3, <1>4 DEF Money!Make, WillOf, PaidOf

\* A new heir table restates the will, and moves nothing.
LEMMA NewTableRestates ==
    ASSUME VaultInv, [Next]_vars, NEW w \in Wallets, NEW inputs \in Tables,
           SetBeneficiaries(w, inputs)
    PROVE  Money!Restate
<1>0. vault \in VaultData
  BY DEF VaultInv, TypeOK
<1>1. /\ open /\ open' = open /\ ~vault.is_claimed /\ ValidTable(inputs)
      /\ vault' = [vault EXCEPT !.beneficiaries = FillSlots(inputs),
                                !.beneficiary_count = Len(inputs)]
      /\ lamports' = lamports /\ tokens' = tokens
  BY DEF SetBeneficiaries, HasOne, Untripped
<1>2. /\ vault'.beneficiaries = FillSlots(inputs)
      /\ vault'.beneficiary_count = Len(inputs)
      /\ vault'.claim_pool = vault.claim_pool
      /\ vault'.mint = vault.mint
  BY <1>0, <1>1 DEF VaultData
<1>3. /\ WillOf(vault') \in {Bequests(FillSlots(t), 1..Len(t)) :
                                t \in {t \in Tables : ValidTable(t)}}
      /\ PaidOf(vault') = {}
  BY <1>1, <1>2, TableIsWill
<1>4. Holding' = Holding
  BY <1>1, <1>2 DEF Holding, IsSol, Withdrawable, VaultAta
<1>5. WillOf(vault) # {} /\ PaidOf(vault) = {}
  BY <1>1, TrippedIsPaid
<1> QED
  BY <1>1, <1>2, <1>3, <1>4, <1>5
     DEF Money!Restate, Money!InOwnersHands, WillOf, PaidOf

\* A check-in is none of the heirs' business.
LEMMA CheckInIsSilent ==
    ASSUME VaultInv, NEW w \in Wallets, CheckIn(w)
    PROVE  UNCHANGED Money!vars
<1>0. vault \in VaultData
  BY DEF VaultInv, TypeOK
<1>1. /\ open' = open /\ lamports' = lamports /\ tokens' = tokens
      /\ vault' = [vault EXCEPT !.last_checkin = now]
  BY DEF CheckIn
<1>2. /\ vault'.beneficiaries = vault.beneficiaries
      /\ vault'.beneficiary_count = vault.beneficiary_count
      /\ vault'.claim_pool = vault.claim_pool
      /\ vault'.mint = vault.mint
  BY <1>0, <1>1 DEF VaultData
<1>3. Holding' = Holding
  BY <1>1, <1>2 DEF Holding, IsSol, Withdrawable, VaultAta
<1>4. WillOf(vault') = WillOf(vault) /\ PaidOf(vault') = PaidOf(vault)
  BY <1>2 DEF WillOf, PaidOf, Active, Unclaimed
<1> QED
  BY <1>1, <1>2, <1>3, <1>4 DEF Money!vars, WillOf, PaidOf

\* Closing settles the estate, when the account that close_vault looks at can
\* only be the ATA.
LEMMA ClosingSettles ==
    ASSUME OtherAccounts = {}, VaultInv, NEW w \in Wallets, NEW place \in Places,
           CloseVault(w, place)
    PROVE  Money!Settle
<1>1. open /\ open' = FALSE /\ vault' = DefaultVault
  BY DEF CloseVault, HasOne
<1>2. Holding = 0
  BY DEF CloseVault, Emptied, Holding, VaultAta, Places
<1>3. WillOf(vault) # {}
  BY <1>1, TrippedIsPaid
<1>4. /\ WillOf(vault') = {} /\ PaidOf(vault') = {}
      /\ vault'.claim_pool = 0
  <2>1. WillOf(vault') = {} /\ PaidOf(vault') = {}
    BY <1>1, BlankWill
  <2> QED
    BY <1>1, <2>1 DEF DefaultVault
<1> QED
  BY <1>1, <1>2, <1>3, <1>4 DEF Money!Settle, WillOf, PaidOf

\* A claim takes one bequest: in full, of the whole that the first one found,
\* and with the rest if it is the last.
LEMMA ClaimInherits ==
    ASSUME VaultInv, NEW w \in Wallets, NEW i \in Slots, ClaimStep(w, i)
    PROVE  Money!Inherit(Bequest(vault, i)) /\ Bequest(vault, i) \in WillOf(vault)
<1> DEFINE b      == Bequest(vault, i)
           amount == ClaimAmount(vault, i, Holding)
<1>0. vault \in VaultData /\ Holding \in Amount
  BY HoldingType DEF VaultInv, TypeOK
<1>1. /\ open /\ open' = open
      /\ vault' = BookClaim(vault, i, Holding)
      /\ i \in Unclaimed(vault)
      /\ amount \in 1..Holding
      /\ Holding' = Holding - amount
  BY DEF ClaimStep, MayClaim, HeirAt, Unclaimed
<1>2. WellFormedTable(vault)
  BY <1>1 DEF VaultInv, HeirTableValid
<1>3. b \in WillOf(vault) \ PaidOf(vault)
  BY <1>1, <1>2, UnclaimedBequest
<1>4. WillOf(vault') = WillOf(vault) /\ PaidOf(vault') = PaidOf(vault) \cup {b}
  BY <1>0, <1>1, BookedBequest
<1>5. vault'.claim_pool = PoolAt(vault, Holding)
  BY <1>0, <1>1, BookClaimScalars
<1>6. vault'.claim_pool = IF PaidOf(vault) = {} THEN Holding ELSE vault.claim_pool
  BY <1>1, <1>5, TrippedIsPaid DEF PoolAt
<1>7. amount = IF WillOf(vault) = PaidOf(vault) \cup {b}
               THEN Holding
               ELSE (vault'.claim_pool * b.share) \div TOTAL_SHARE_BPS
  <2>1. IsLast(vault) <=> WillOf(vault) = PaidOf(vault) \cup {b}
    BY <1>0, <1>1, <1>2, LastBequest
  <2>2. b.share = vault.beneficiaries[i].share_bps
    BY DEF Bequest
  <2>3. amount = IF IsLast(vault) THEN Holding
                 ELSE (vault'.claim_pool * b.share) \div TOTAL_SHARE_BPS
    <3> HIDE DEF b
    <3> QED
      BY <1>5, <2>2 DEF ClaimAmount, ShareOf
  <2> QED
    BY <2>1, <2>3
<1>8. Money!Part(b) = amount
  BY <1>1, <1>7 DEF Money!Part, WillOf, PaidOf
<1> HIDE DEF b, amount
<1>9. Money!Inherit(b)
  BY <1>1, <1>3, <1>4, <1>6, <1>8 DEF Money!Inherit, WillOf, PaidOf
<1> QED
  BY <1>3, <1>9 DEF b

\* So each shape of a step is a step of Inheritance, or nothing.
LEMMA MoneyStep ==
    ASSUME OtherAccounts = {}, VaultInv, [Next]_vars
    PROVE  [Money!Next]_(Money!vars)
<1>1. CASE QuietStep
  BY <1>1, QuietIsMoney
<1>2. ASSUME NEW w \in Wallets, NEW m \in Assets, NEW timeout \in Timeouts,
             NEW inputs \in Tables, InitializeVault(w, m, timeout, inputs)
      PROVE  Money!Next
  BY <1>2, OpeningMakes DEF Money!Next
<1>3. ASSUME NEW w \in Wallets, CheckIn(w)
      PROVE  UNCHANGED Money!vars
  BY <1>3, CheckInIsSilent
<1>4. ASSUME NEW w \in Wallets, NEW inputs \in Tables, SetBeneficiaries(w, inputs)
      PROVE  Money!Next
  BY <1>4, NewTableRestates DEF Money!Next
<1>5. ASSUME NEW w \in Wallets, NEW place \in Places, CloseVault(w, place)
      PROVE  Money!Next
  BY <1>5, ClosingSettles DEF Money!Next
<1>6. ASSUME NEW w \in Wallets, NEW i \in Slots, ClaimStep(w, i)
      PROVE  Money!Next
  <2>1. Money!Inherit(Bequest(vault, i)) /\ Bequest(vault, i) \in WillOf(vault)
    BY <1>6, ClaimInherits
  <2> QED
    BY <2>1 DEF Money!Next, WillOf
<1>7. TypeOK
  BY DEF VaultInv
<1> QED
  BY <1>1, <1>2, <1>3, <1>4, <1>5, <1>6, <1>7, StepShape

\* Where the PDA owns no token account but its ATA, the program divides an
\* estate by a will: whatever the table, the asset, the amounts and the order
\* in which the heirs claim.
THEOREM InheritanceImplemented ==
    ASSUME OtherAccounts = {}
    PROVE  Spec => ImplementsInheritance
<1>1. VaultInv /\ [Next]_vars => [Money!Next]_(Money!vars)
  BY MoneyStep
<1>2. Init => Money!Init
  BY MoneyInit
<1> QED
  BY <1>1, <1>2, Invariant, PTL DEF Spec, ImplementsInheritance, Money!Spec

-----------------------------------------------------------------------------
(* The vault in Estate is the one of Vault. *)

\* Whoever dies, the vault makes the steps that it can make in Vault.
LEMMA EstateStep == [EstateNext]_estateVars => [Next]_vars
BY DEF EstateNext, estateVars, Die, Next

\* So all that is proved of Vault holds with the owner dead.
THEOREM EstateIsVault == EstateSpec => Spec
<1>1. EstateInit => Init
  BY DEF EstateInit
<1> QED
  BY <1>1, EstateStep, PTL DEF EstateSpec, Spec

\* With the owner dead there is the clock, there are gifts, and there are the
\* claims of others.
LEMMA DeadShape ==
    ASSUME TypeOK, [EstateNext]_estateVars, alive \in BOOLEAN, ~alive
    PROVE  /\ ~alive'
           /\ \/ QuietStep /\ Holding' >= Holding
              \/ \E w \in Wallets, i \in Slots : ClaimStep(w, i)
<1>1. CASE UNCHANGED estateVars
  <2>1. Holding' = Holding
    BY <1>1 DEF estateVars, vars, Holding, IsSol, Withdrawable, VaultAta
  <2> QED
    BY <1>1, <2>1, StepNumbers DEF estateVars, vars, QuietStep
<1>2. CASE Tick /\ UNCHANGED alive
  BY <1>2, OutsideShape
<1>3. ASSUME NEW w \in Wallets, CanSign(w), OwnerInstruction(w)
      PROVE  FALSE
  <2>1. w # Owner
    BY <1>3 DEF CanSign
  <2> QED
    BY <1>3, <2>1
       DEF OwnerInstruction, InitializeVault, CheckIn, SetBeneficiaries, DepositSol,
           DepositSpl, WithdrawSol, WithdrawSpl, CloseVault, HasOne
<1>4. ASSUME NEW w \in Wallets, Claim(w), UNCHANGED alive
      PROVE  ~alive' /\ \E i \in Slots : ClaimStep(w, i)
  BY <1>4, ClaimShape
<1>5. ASSUME NEW w \in Wallets, Gift(w), UNCHANGED alive
      PROVE  ~alive' /\ QuietStep /\ Holding' >= Holding
  BY <1>5, OutsideShape
<1> QED
  BY <1>1, <1>2, <1>3, <1>4, <1>5 DEF EstateNext, Die

\* The owner is alive or not.
EstateInv == VaultInv /\ alive \in BOOLEAN

\* And the invariant of the program holds of it.
LEMMA EstateInvariant == EstateSpec => []EstateInv
<1>1. EstateSpec => []VaultInv
  BY EstateIsVault, Invariant, PTL
<1>2. EstateInit => alive \in BOOLEAN
  BY DEF EstateInit
<1>3. alive \in BOOLEAN /\ [EstateNext]_estateVars => (alive \in BOOLEAN)'
  BY DEF EstateNext, estateVars, Die
<1>4. EstateSpec => [](alive \in BOOLEAN)
  BY <1>2, <1>3, PTL DEF EstateSpec
<1> QED
  BY <1>1, <1>4, PTL DEF EstateInv

-----------------------------------------------------------------------------
(* Nobody replaces the owner. *)

\* What a step leaves of a vault whose owner is dead.
DeadStep ==
    ~alive /\ open =>
        /\ open'
        /\ Deadline(vault') = Deadline(vault)
        /\ \A i \in Slots :
            /\ vault'.beneficiaries[i].address = vault.beneficiaries[i].address
            /\ vault'.beneficiaries[i].share_bps = vault.beneficiaries[i].share_bps
        /\ Holding' < Holding => \E i \in Slots : Paid(i)

\* A claim pays the heir at its slot.
LEMMA ClaimPays ==
    ASSUME TypeOK, NEW w \in Wallets, NEW i \in Slots, ClaimStep(w, i)
    PROVE  Paid(i)
<1>1. /\ vault \in VaultData /\ Holding \in Amount
      /\ open' /\ i \in Unclaimed(vault) /\ vault' = BookClaim(vault, i, Holding)
  BY HoldingType DEF TypeOK, ClaimStep, MayClaim, HeirAt, Unclaimed
<1>2. vault'.beneficiaries[i].claimed = (vault.beneficiaries[i].claimed \/ i = i)
  BY <1>1, BookClaimSlot
<1> QED
  BY <1>1, <1>2 DEF Paid

\* Every step with a dead owner is one.
LEMMA DeadSteps == EstateInv /\ [EstateNext]_estateVars => DeadStep
<1> SUFFICES ASSUME EstateInv, [EstateNext]_estateVars, ~alive, open
             PROVE  /\ open'
                    /\ Deadline(vault') = Deadline(vault)
                    /\ \A i \in Slots :
                        /\ vault'.beneficiaries[i].address = vault.beneficiaries[i].address
                        /\ vault'.beneficiaries[i].share_bps = vault.beneficiaries[i].share_bps
                    /\ Holding' < Holding => \E i \in Slots : Paid(i)
  BY DEF DeadStep
<1>0. TypeOK /\ vault \in VaultData /\ Holding \in Amount /\ Holding \in Nat
  BY HoldingType, WidthAssumption DEF EstateInv, VaultInv, TypeOK, Amount
<1>1. CASE QuietStep /\ Holding' >= Holding
  <2>1. Holding' \in Nat
    BY <1>0, EstateStep, TypeStep, NextHoldingType
  <2>2. ~(Holding' < Holding)
    BY <1>0, <1>1, <2>1
  <2> QED
    BY <1>1, <2>2 DEF QuietStep
<1>2. ASSUME NEW w \in Wallets, NEW i \in Slots, ClaimStep(w, i)
      PROVE  /\ open'
             /\ Deadline(vault') = Deadline(vault)
             /\ \A j \in Slots :
                 /\ vault'.beneficiaries[j].address = vault.beneficiaries[j].address
                 /\ vault'.beneficiaries[j].share_bps = vault.beneficiaries[j].share_bps
             /\ Paid(i)
  <2>1. open' /\ vault' = BookClaim(vault, i, Holding)
    BY <1>2 DEF ClaimStep
  <2>2. Deadline(vault') = Deadline(vault)
    BY <1>0, <2>1, BookClaimScalars DEF Deadline
  <2>3. ASSUME NEW j \in Slots
        PROVE  /\ vault'.beneficiaries[j].address = vault.beneficiaries[j].address
               /\ vault'.beneficiaries[j].share_bps = vault.beneficiaries[j].share_bps
    BY <1>0, <2>1, BookClaimSlot
  <2> QED
    BY <1>0, <1>2, <2>1, <2>2, <2>3, ClaimPays
<1> QED
  BY <1>0, <1>1, <1>2, DeadShape DEF EstateInv

\* When the owner is gone nobody can take their place (the has_one constraints
\* of the owner's instructions): the vault stays open, its timer and its table
\* are not touched, and it loses nothing but what an heir is paid.
THEOREM OwnerIsIrreplaceable == EstateSpec => NobodyReplacesTheOwner
BY EstateInvariant, DeadSteps, PTL DEF EstateSpec, NobodyReplacesTheOwner, DeadStep

-----------------------------------------------------------------------------
(* Nothing is lost by waiting. *)

\* A larger pool never makes a smaller share.
LEMMA ShareGrows ==
    ASSUME NEW p \in Nat, NEW q \in Nat, p <= q, NEW b \in 0..TOTAL_SHARE_BPS
    PROVE  ShareOf(p, b) <= ShareOf(q, b)
<1> DEFINE s == ShareOf(p, b)
           t == ShareOf(q, b)
           T == TOTAL_SHARE_BPS
<1>1. /\ s \in Nat /\ s * T <= p * b
      /\ t \in Nat /\ (t + 1) * T > q * b
  <2>1. ShareOf(p, b) \in 0..p /\ ShareOf(p, b) * TOTAL_SHARE_BPS <= p * b
    BY ShareOfBound
  <2>2. ShareOf(q, b) \in 0..q /\ (ShareOf(q, b) + 1) * TOTAL_SHARE_BPS > q * b
    BY ShareOfBound
  <2>3. ShareOf(p, b) \in Nat /\ ShareOf(q, b) \in Nat
    BY <2>1, <2>2
  <2> QED
    BY <2>1, <2>2, <2>3
<1>2. p * b <= q * b /\ p * b \in Nat /\ q * b \in Nat
  <2>1. PICK d \in Nat : q = p + d
    <3>1. q - p \in Nat /\ q = p + (q - p)
      OBVIOUS
    <3> QED
      BY <3>1
  <2>2. b \in Nat /\ p * b \in Nat /\ d * b \in Nat
    BY <2>1 DEF TOTAL_SHARE_BPS
  <2>3. q * b = p * b + d * b
    BY <2>1, <2>2
  <2> QED
    BY <2>2, <2>3
<1> DEFINE x == p * b
           y == q * b
<1>3. /\ s \in Nat /\ t \in Nat /\ x \in Nat /\ y \in Nat
      /\ x <= y /\ s * 10000 <= x /\ (t + 1) * 10000 > y
  BY <1>1, <1>2 DEF TOTAL_SHARE_BPS
<1> HIDE DEF s, t, x, y
<1>4. s <= t
  BY <1>3
<1> QED
  BY <1>4 DEF s, t

\* What an heir who is still to be paid is entitled to.
LEMMA EntitlementType ==
    ASSUME VaultInv, open, NEW i \in Unclaimed(vault)
    PROVE  /\ i \in Slots /\ Holding \in Nat /\ Holding \in Amount /\ vault \in VaultData
           /\ vault.beneficiaries[i].share_bps \in 0..TOTAL_SHARE_BPS
           /\ PoolAt(vault, Holding) \in Nat
           /\ Entitlement(i) \in Nat
           /\ Entitlement(i) <= ClaimAmount(vault, i, Holding)
           /\ ClaimAmount(vault, i, Holding) <= Holding
<1> DEFINE bps  == vault.beneficiaries[i].share_bps
           pool == PoolAt(vault, Holding)
<1>1. /\ vault \in VaultData /\ Holding \in Amount /\ Holding \in Nat
      /\ i \in Slots /\ WellFormedTable(vault) /\ i \in Active(vault)
  BY ActiveInSlots, HoldingType, WidthAssumption
     DEF VaultInv, TypeOK, HeirTableValid, Unclaimed, Amount
<1>2. bps \in 0..TOTAL_SHARE_BPS
  BY <1>1, ShareAtMostAll
<1>3. pool \in Nat
  BY <1>1, PoolAtType, WidthAssumption DEF Amount
<1>4. Entitlement(i) = ShareOf(pool, bps)
  BY DEF Entitlement
<1> HIDE DEF bps, pool
<1>5. ShareOf(pool, bps) \in 0..pool
  BY <1>2, <1>3, ShareOfBound
<1>6. ClaimAmount(vault, i, Holding) <= Holding
  BY ClaimIsCovered
<1>7. Entitlement(i) <= ClaimAmount(vault, i, Holding)
  <2>1. CASE ~IsLast(vault)
    <3>1. ClaimAmount(vault, i, Holding) = ShareOf(pool, bps)
      BY <2>1 DEF ClaimAmount, pool, bps
    <3> QED
      BY <1>3, <1>4, <1>5, <3>1
  <2>2. CASE IsLast(vault) /\ ~vault.is_claimed
    <3>1. ClaimAmount(vault, i, Holding) = Holding /\ pool = Holding
      BY <2>2 DEF ClaimAmount, PoolAt, pool
    <3> QED
      BY <1>1, <1>4, <1>5, <3>1
  <2>3. CASE IsLast(vault) /\ vault.is_claimed
    <3> DEFINE due == [j \in Slots |-> Due(j)]
    <3>1. \A j \in Slots : Due(j) = DueOf(vault, vault.claim_pool, j)
      BY DEF Due, DueOf
    <3>2. due \in [Slots -> Nat]
      <4>1. vault.claim_pool \in Nat
        BY <1>1, WidthAssumption DEF VaultData, Amount
      <4> QED
        BY <1>1, <3>1, <4>1, DueType
    <3>3. SumOverSlots(due) <= Holding
      BY <2>3 DEF VaultInv, Solvent
    <3>4. due[i] = Entitlement(i)
      BY <1>1, <1>4, <2>3 DEF Due, PoolAt, bps, pool
    <3>5. due[i] \in Nat
      BY <1>1, <3>2
    <3> HIDE DEF due
    <3>6. due[i] <= SumOverSlots(due) /\ SumOverSlots(due) \in Nat
      BY <1>1, <3>2, TermAtMostSum, SumType
    <3>7. ClaimAmount(vault, i, Holding) = Holding
      BY <2>3 DEF ClaimAmount
    <3> QED
      BY <1>1, <3>3, <3>4, <3>5, <3>6, <3>7
  <2> QED
    BY <2>1, <2>2, <2>3
<1> QED
  BY <1>1, <1>2, <1>3, <1>4, <1>5, <1>6, <1>7 DEF bps, pool

\* Gifts and the claims of others leave an heir what they are entitled to; their
\* own claim pays it.
LEMMA WaitingSteps ==
    ASSUME EstateInv, [EstateNext]_estateVars, NEW i \in Slots, Awaited(i)
    PROVE  KeptOrPaid(i)
<1> DEFINE heir == vault.beneficiaries[i].address
<1>0. /\ VaultInv /\ TypeOK /\ VaultInv' /\ TypeOK' /\ ~alive /\ open
      /\ i \in Unclaimed(vault) /\ heir \in Diligent /\ Entitlement(i) > 0
  BY EstateStep, InvStep DEF EstateInv, VaultInv, Awaited
<1>1. /\ Holding \in Nat /\ Holding \in Amount /\ vault \in VaultData
      /\ vault.beneficiaries[i].share_bps \in 0..TOTAL_SHARE_BPS
      /\ PoolAt(vault, Holding) \in Nat
      /\ Entitlement(i) \in Nat
      /\ Entitlement(i) <= ClaimAmount(vault, i, Holding)
  BY <1>0, EntitlementType
<1>2. CASE QuietStep /\ Holding' >= Holding
  <2>1. open' /\ vault' = vault /\ ~alive'
    BY <1>0, <1>2, DeadShape DEF QuietStep, EstateInv
  <2>2. Holding' \in Nat
    BY <1>0, NextHoldingType
  <2>3. Entitlement(i)' = ShareOf(PoolAt(vault, Holding'), vault.beneficiaries[i].share_bps)
    BY <2>1 DEF Entitlement
  <2>4. /\ PoolAt(vault, Holding') \in Nat
        /\ PoolAt(vault, Holding) <= PoolAt(vault, Holding')
    BY <1>1, <1>2, <2>2 DEF PoolAt
  <2>5. Entitlement(i)' >= Entitlement(i) /\ Entitlement(i)' \in Nat
    <3>1. ShareOf(PoolAt(vault, Holding'), vault.beneficiaries[i].share_bps) \in Nat
      <4> DEFINE later == PoolAt(vault, Holding')
                 bps   == vault.beneficiaries[i].share_bps
      <4>1. later \in Nat
        BY <2>4
      <4>2. bps \in Nat
        <5>1. 0..TOTAL_SHARE_BPS \subseteq Nat
          BY DEF TOTAL_SHARE_BPS
        <5> QED
          BY <1>1, <5>1
      <4> HIDE DEF later, bps
      <4>3. ShareOf(later, bps) \in Nat
        BY <4>1, <4>2, ShareOfType
      <4> QED
        BY <4>3 DEF later, bps
    <3>2. ShareOf(PoolAt(vault, Holding), vault.beneficiaries[i].share_bps)
            <= ShareOf(PoolAt(vault, Holding'), vault.beneficiaries[i].share_bps)
      BY <1>1, <2>4, ShareGrows
    <3> QED
      BY <1>1, <2>3, <3>1, <3>2 DEF Entitlement
  <2>6. Awaited(i)'
    BY <1>0, <1>1, <2>1, <2>5 DEF Awaited
  <2> QED
    BY <2>5, <2>6 DEF KeptOrPaid
<1>3. ASSUME NEW w \in Wallets, NEW j \in Slots, ClaimStep(w, j)
      PROVE  KeptOrPaid(i)
  <2>1. /\ open' /\ vault' = BookClaim(vault, j, Holding) /\ j \in Unclaimed(vault)
        /\ vault.beneficiaries[j].address = w
        /\ ClaimAmount(vault, j, Holding) \in 1..Holding
        /\ purse'[w][vault.mint] = purse[w][vault.mint] + ClaimAmount(vault, j, Holding)
    BY <1>3 DEF ClaimStep, MayClaim, HeirAt, Unclaimed
  <2>2. CASE j = i
    <3>1. Paid(i)
      BY <1>0, <1>3, <2>2, ClaimPays
    <3>2. purse[heir][vault.mint] \in Nat
      <4>1. purse[w] \in [Assets -> Amount]
        BY <1>0 DEF TypeOK
      <4>2. vault.mint \in Assets
        BY <1>1 DEF VaultData, Assets
      <4>3. purse[w][vault.mint] \in Amount
        BY <4>1, <4>2
      <4> QED
        BY <2>1, <2>2, <4>3, WidthAssumption DEF Amount
    <3>3. purse'[heir][vault.mint] - purse[heir][vault.mint]
            = ClaimAmount(vault, i, Holding)
      BY <1>1, <2>1, <2>2, <3>2
    <3> QED
      BY <1>1, <3>1, <3>3 DEF KeptOrPaid
  <2>3. CASE j # i
    <3>1. /\ i \in Unclaimed(vault')
          /\ vault'.beneficiaries[i] = vault.beneficiaries[i]
          /\ vault'.is_claimed /\ vault'.claim_pool = PoolAt(vault, Holding)
      <4>1. Unclaimed(BookClaim(vault, j, Holding)) = Unclaimed(vault) \ {j}
        BY <1>1, <2>1, BookClaimUnclaimed
      <4>2. vault'.beneficiaries[i] = vault.beneficiaries[i]
        BY <1>1, <2>1, <2>3, BookClaimSlot
      <4>3. vault'.is_claimed /\ vault'.claim_pool = PoolAt(vault, Holding)
        BY <1>1, <2>1, BookClaimScalars
      <4> QED
        BY <1>0, <2>1, <2>3, <4>1, <4>2, <4>3
    <3>2. Entitlement(i)' = Entitlement(i)
      BY <3>1 DEF Entitlement, PoolAt
    <3>3. ~alive'
      BY <1>0, DeadShape DEF EstateInv
    <3>4. Awaited(i)'
      BY <1>0, <2>1, <3>1, <3>2, <3>3 DEF Awaited
    <3> QED
      BY <1>1, <3>2, <3>4 DEF KeptOrPaid
  <2> QED
    BY <2>2, <2>3
<1> QED
  BY <1>0, <1>2, <1>3, DeadShape DEF EstateInv

\* An heir of a dead owner loses nothing by waiting (the snapshot claim_pool and
\* is_last): whatever others claim or send, what they are entitled to only
\* grows until they claim, and then they are paid no less.
THEOREM WaitingLosesNothing == EstateSpec => NothingLostByWaiting
<1>1. EstateInv /\ [EstateNext]_estateVars => \A i \in Slots : Awaited(i) => KeptOrPaid(i)
  BY WaitingSteps
<1> QED
  BY <1>1, EstateInvariant, PTL DEF EstateSpec, NothingLostByWaiting

-----------------------------------------------------------------------------
(* The heir's claim goes through. *)

\* Once the timer has run out, an heir who is awaited is answered Ok.
AwaitedIsServed ==
    now >= Deadline(vault) =>
        \A i \in Slots : Awaited(i) => ClaimAnswer(vault.beneficiaries[i].address) = "Ok"

\* With the timer run out, the claim of an heir of a dead owner who is entitled
\* to a unit or more goes through in every state (claim_sol, claim_spl), whoever
\* else has claimed or not: what HeirGetsPaid adds to it is that time passes,
\* and that the heir asks.
THEOREM AwaitedAlwaysServed == EstateSpec => []AwaitedIsServed
<1>1. VaultInv /\ EligibleHeirIsServed => AwaitedIsServed
  <2> SUFFICES ASSUME VaultInv, EligibleHeirIsServed, now >= Deadline(vault),
                      NEW i \in Slots, Awaited(i)
               PROVE  ClaimAnswer(vault.beneficiaries[i].address) = "Ok"
    BY DEF AwaitedIsServed
  <2>1. /\ open /\ i \in Unclaimed(vault) /\ Entitlement(i) > 0
        /\ vault.beneficiaries[i].address \in Wallets
    BY DiligentAssumption DEF Awaited
  <2>2. /\ Entitlement(i) \in Nat
        /\ Entitlement(i) <= ClaimAmount(vault, i, Holding)
        /\ Holding \in Amount /\ vault \in VaultData /\ i \in Slots
    BY <2>1, EntitlementType
  <2>3. ClaimAmount(vault, i, Holding) \in Nat
    BY <2>2, ClaimAmountType
  <2>4. ClaimAmount(vault, i, Holding) > 0
    BY <2>1, <2>2, <2>3
  <2> QED
    BY <2>1, <2>4 DEF EligibleHeirIsServed
<1>2. Spec => []VaultInv /\ []EligibleHeirIsServed
  BY Invariant, EligibleAlwaysServed
<1> QED
  BY <1>1, <1>2, EstateIsVault, PTL

=============================================================================
