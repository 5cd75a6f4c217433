---------------------------- MODULE RulesProofs ----------------------------
(***************************************************************************)
(* What the operators of VaultRules return, for every heir table, pool and *)
(* share: types, the bounds on shares, and the effect of booking a claim.  *)
(***************************************************************************)
EXTENDS VaultRules, FiniteSetTheorems, TLAPS

\* A share is the exact fraction of the pool rounded down, so it fits in the
\* u64 of the pool although the product was taken in u128.
LEMMA ShareOfBound ==
    ASSUME NEW pool \in Nat, NEW b \in 0..TOTAL_SHARE_BPS
    PROVE  /\ ShareOf(pool, b) \in 0..pool
           /\ ShareOf(pool, b) * TOTAL_SHARE_BPS <= pool * b
           /\ (ShareOf(pool, b) + 1) * TOTAL_SHARE_BPS > pool * b
<1> DEFINE n == pool * b
<1>1. n \in Nat /\ n <= pool * 10000
  BY DEF TOTAL_SHARE_BPS
<1> HIDE DEF n
<1>2. /\ n \div 10000 \in 0..pool
      /\ (n \div 10000) * 10000 <= n
      /\ ((n \div 10000) + 1) * 10000 > n
  BY <1>1
<1> QED
  BY <1>2 DEF n, ShareOf, TOTAL_SHARE_BPS

\* Five slots: what sums over them unfold to.
LEMMA FiveSlots ==
    /\ 1 \in Slots /\ 2 \in Slots /\ 3 \in Slots /\ 4 \in Slots /\ 5 \in Slots
    /\ \A i \in Slots : i = 1 \/ i = 2 \/ i = 3 \/ i = 4 \/ i = 5
BY DEF Slots, MAX_BENEFICIARIES

\* Shares that make 100% never pay out more than the pool, whatever rounding
\* does to each of them.
LEMMA SharesFit ==
    ASSUME NEW pool \in Nat, NEW f \in [Slots -> Nat],
           SumOverSlots(f) = TOTAL_SHARE_BPS
    PROVE  SumOverSlots([i \in Slots |-> ShareOf(pool, f[i])]) <= pool
<1>1. f[1] \in Nat /\ f[2] \in Nat /\ f[3] \in Nat /\ f[4] \in Nat /\ f[5] \in Nat
  BY FiveSlots
<1>2. f[1] + f[2] + f[3] + f[4] + f[5] = 10000
  BY DEF SumOverSlots, TOTAL_SHARE_BPS
<1> DEFINE s(i) == ShareOf(pool, f[i])
           p(i) == pool * f[i]
<1>3. ASSUME NEW i \in Slots
      PROVE  s(i) \in Nat /\ p(i) \in Nat /\ s(i) * 10000 <= p(i)
  <2>1. f[i] \in Nat /\ f[i] <= TOTAL_SHARE_BPS
    BY <1>1, <1>2, FiveSlots DEF TOTAL_SHARE_BPS
  <2>2. TOTAL_SHARE_BPS \in Nat
    BY DEF TOTAL_SHARE_BPS
  <2>3. f[i] \in 0..TOTAL_SHARE_BPS
    BY <2>1, <2>2
  <2>4. p(i) \in Nat
    BY <2>1
  <2>5. s(i) \in Nat /\ s(i) * TOTAL_SHARE_BPS <= p(i)
    BY <2>3, ShareOfBound
  <2> QED
    BY <2>4, <2>5 DEF TOTAL_SHARE_BPS
<1>4. p(1) + p(2) + p(3) + p(4) + p(5) = pool * 10000
  <2>1. pool * (f[1] + f[2] + f[3] + f[4] + f[5])
          = pool * f[1] + pool * f[2] + pool * f[3] + pool * f[4] + pool * f[5]
    BY <1>1
  <2> QED
    BY <1>2, <2>1
<1>5. s(1) + s(2) + s(3) + s(4) + s(5) <= pool
  <2> HIDE DEF s, p
  <2>1. /\ s(1) \in Nat /\ p(1) \in Nat /\ s(1) * 10000 <= p(1)
        /\ s(2) \in Nat /\ p(2) \in Nat /\ s(2) * 10000 <= p(2)
        /\ s(3) \in Nat /\ p(3) \in Nat /\ s(3) * 10000 <= p(3)
        /\ s(4) \in Nat /\ p(4) \in Nat /\ s(4) * 10000 <= p(4)
        /\ s(5) \in Nat /\ p(5) \in Nat /\ s(5) * 10000 <= p(5)
    BY <1>3, FiveSlots
  <2> QED
    BY <1>4, <2>1
<1> QED
  BY <1>5, FiveSlots DEF SumOverSlots

\* A closed account is a value of the struct.
LEMMA DefaultVaultType == DefaultVault \in VaultData
BY KeyAssumption, WidthAssumption
   DEF DefaultVault, VaultData, DefaultBeneficiary, Beneficiary, Times, Amount,
       MAX_BENEFICIARIES, MAX_U16

\* So are the slots an instruction builds from its argument.
LEMMA FillSlotsType ==
    ASSUME NEW inputs \in Seq(BeneficiaryInput)
    PROVE  FillSlots(inputs) \in [Slots -> Beneficiary]
<1>1. DefaultBeneficiary \in Beneficiary
  BY KeyAssumption DEF DefaultBeneficiary, Beneficiary, MAX_U16
<1>2. ASSUME NEW i \in Slots, i <= Len(inputs)
      PROVE  [address   |-> inputs[i].address,
              share_bps |-> inputs[i].share_bps,
              claimed   |-> FALSE] \in Beneficiary
  <2>1. inputs[i] \in BeneficiaryInput
    BY <1>2 DEF Slots, MAX_BENEFICIARIES
  <2> QED
    BY <2>1 DEF BeneficiaryInput, Beneficiary
<1> QED
  BY <1>1, <1>2 DEF FillSlots

\* An accepted table has a length the count field can hold.
LEMMA ValidTableLen ==
    ASSUME NEW inputs, ValidTable(inputs)
    PROVE  Len(inputs) \in 0..MAX_BENEFICIARIES
BY DEF ValidTable, ValidSlots, Slots, MAX_BENEFICIARIES

\* The total the shares are divided over is an amount.
LEMMA PoolAtType ==
    ASSUME NEW v \in VaultData, NEW pool \in Amount
    PROVE  PoolAt(v, pool) \in Amount
<1>1. v.claim_pool \in Amount
  BY DEF VaultData
<1> QED
  BY <1>1 DEF PoolAt

\* Booking a claim keeps the struct well typed.
LEMMA BookClaimType ==
    ASSUME NEW v \in VaultData, NEW i \in Slots, NEW pool \in Amount
    PROVE  BookClaim(v, i, pool) \in VaultData
<1> DEFINE b     == v.beneficiaries
           paid  == [b[i] EXCEPT !.claimed = TRUE]
           after == [b EXCEPT ![i] = paid]
<1>1. b \in [Slots -> Beneficiary]
  BY DEF VaultData
<1>2. paid \in Beneficiary
  <2>1. b[i] \in Beneficiary
    BY <1>1
  <2> QED
    BY <2>1 DEF Beneficiary
<1>3. after \in [Slots -> Beneficiary]
  BY <1>1, <1>2
<1>4. ASSUME NEW table \in [Slots -> Beneficiary], NEW p \in Amount, NEW c \in BOOLEAN
      PROVE  [v EXCEPT !.is_claimed = c, !.claim_pool = p, !.beneficiaries = table]
                \in VaultData
  BY DEF VaultData
<1>5. BookClaim(v, i, pool)
        = [v EXCEPT !.is_claimed = TRUE, !.claim_pool = PoolAt(v, pool),
                    !.beneficiaries = after]
  BY DEF BookClaim, VaultData
<1> HIDE DEF after
<1> QED
  BY <1>3, <1>4, <1>5, PoolAtType

\* A share of a natural number is one.
LEMMA ShareOfType ==
    ASSUME NEW pool \in Nat, NEW b \in Nat
    PROVE  ShareOf(pool, b) \in Nat
<1>1. pool * b \in Nat
  OBVIOUS
<1> QED
  BY <1>1 DEF ShareOf, TOTAL_SHARE_BPS

\* What a claim pays is a natural number.
LEMMA ClaimAmountType ==
    ASSUME NEW v \in VaultData, NEW i \in Slots, NEW pool \in Amount
    PROVE  ClaimAmount(v, i, pool) \in Nat
<1>1. PoolAt(v, pool) \in Nat /\ v.beneficiaries[i].share_bps \in Nat
  <2>1. PoolAt(v, pool) \in Amount
    BY PoolAtType
  <2>2. v.beneficiaries[i].share_bps \in 0..MAX_U16
    <3>1. v.beneficiaries[i] \in Beneficiary
      BY DEF VaultData
    <3> QED
      BY <3>1 DEF Beneficiary
  <2>3. MAX_U16 \in Nat
    BY DEF MAX_U16
  <2> QED
    BY <2>1, <2>2, <2>3, WidthAssumption DEF Amount
<1>2. \A p, b \in Nat : ShareOf(p, b) \in Nat
  BY ShareOfType
<1>3. pool \in Nat
  BY WidthAssumption DEF Amount
<1> QED
  BY <1>1, <1>2, <1>3 DEF ClaimAmount

\* They grow with their terms.
LEMMA SumMonotone ==
    ASSUME NEW f \in [Slots -> Nat], NEW g \in [Slots -> Nat],
           \A i \in Slots : f[i] <= g[i]
    PROVE  /\ SumOverSlots(f) \in Nat
           /\ SumOverSlots(f) <= SumOverSlots(g)
<1>1. /\ f[1] \in Nat /\ f[2] \in Nat /\ f[3] \in Nat /\ f[4] \in Nat
      /\ f[5] \in Nat
      /\ g[1] \in Nat /\ g[2] \in Nat /\ g[3] \in Nat /\ g[4] \in Nat
      /\ g[5] \in Nat
  BY FiveSlots
<1>2. /\ f[1] <= g[1] /\ f[2] <= g[2] /\ f[3] <= g[3] /\ f[4] <= g[4]
      /\ f[5] <= g[5]
  BY FiveSlots
<1> QED
  BY <1>1, <1>2 DEF SumOverSlots

\* Sums over the slots are natural numbers.
LEMMA SumType ==
    ASSUME NEW f \in [Slots -> Nat]
    PROVE  SumOverSlots(f) \in Nat
BY FiveSlots DEF SumOverSlots

\* No term exceeds the sum.
LEMMA TermAtMostSum ==
    ASSUME NEW f \in [Slots -> Nat], NEW i \in Slots
    PROVE  f[i] <= SumOverSlots(f)
<1>1. /\ f[1] \in Nat /\ f[2] \in Nat /\ f[3] \in Nat /\ f[4] \in Nat
      /\ f[5] \in Nat
  BY FiveSlots
<1>2. i = 1 \/ i = 2 \/ i = 3 \/ i = 4 \/ i = 5
  BY FiveSlots
<1> QED
  BY <1>1, <1>2 DEF SumOverSlots

\* Blanking a term takes exactly that term out of the sum.
LEMMA SumWithout ==
    ASSUME NEW f \in [Slots -> Nat], NEW i \in Slots
    PROVE  /\ SumOverSlots([f EXCEPT ![i] = 0]) = SumOverSlots(f) - f[i]
           /\ SumOverSlots(f) \in Nat
<1>1. /\ f[1] \in Nat /\ f[2] \in Nat /\ f[3] \in Nat /\ f[4] \in Nat
      /\ f[5] \in Nat
  BY FiveSlots
<1>2. \A j \in Slots : [f EXCEPT ![i] = 0][j] = IF j = i THEN 0 ELSE f[j]
  OBVIOUS
<1>3. i = 1 \/ i = 2 \/ i = 3 \/ i = 4 \/ i = 5
  BY FiveSlots
<1> QED
  BY <1>1, <1>2, <1>3, FiveSlots DEF SumOverSlots

\* The active slots are slots.
LEMMA ActiveInSlots ==
    ASSUME NEW v \in VaultData
    PROVE  Active(v) \subseteq Slots
<1>1. v.beneficiary_count \in 0..MAX_BENEFICIARIES
  BY DEF VaultData
<1>2. MAX_BENEFICIARIES \in Nat
  BY DEF MAX_BENEFICIARIES
<1> QED
  BY <1>1, <1>2 DEF Active, Slots

\* A claim sets the flag and the pool, and leaves the other scalar fields.
LEMMA BookClaimScalars ==
    ASSUME NEW v \in VaultData, NEW i \in Slots, NEW pool \in Amount
    PROVE  /\ BookClaim(v, i, pool).mint = v.mint
           /\ BookClaim(v, i, pool).last_checkin = v.last_checkin
           /\ BookClaim(v, i, pool).timeout_seconds = v.timeout_seconds
           /\ BookClaim(v, i, pool).beneficiary_count = v.beneficiary_count
           /\ BookClaim(v, i, pool).is_claimed = TRUE
           /\ BookClaim(v, i, pool).claim_pool = PoolAt(v, pool)
           /\ Active(BookClaim(v, i, pool)) = Active(v)
BY DEF BookClaim, VaultData, Active

\* Of the slots it only touches the claimant, and of that one only the flag.
LEMMA BookClaimSlot ==
    ASSUME NEW v \in VaultData, NEW i \in Slots, NEW pool \in Amount,
           NEW j \in Slots, NEW b, b = BookClaim(v, i, pool).beneficiaries[j]
    PROVE  /\ b.address = v.beneficiaries[j].address
           /\ b.share_bps = v.beneficiaries[j].share_bps
           /\ b.claimed = (v.beneficiaries[j].claimed \/ j = i)
           /\ j # i => b = v.beneficiaries[j]
<1>1. BookClaim(v, i, pool).beneficiaries
        = [v.beneficiaries EXCEPT ![i] = [v.beneficiaries[i] EXCEPT !.claimed = TRUE]]
  BY DEF BookClaim, VaultData
<1>2. v.beneficiaries \in [Slots -> Beneficiary]
  BY DEF VaultData
<1>3. b = IF j = i THEN [v.beneficiaries[i] EXCEPT !.claimed = TRUE]
                   ELSE v.beneficiaries[j]
  BY <1>1, <1>2
<1> QED
  BY <1>2, <1>3 DEF Beneficiary

\* One heir fewer is unclaimed after it.
LEMMA BookClaimUnclaimed ==
    ASSUME NEW v \in VaultData, NEW i \in Slots, NEW pool \in Amount
    PROVE  Unclaimed(BookClaim(v, i, pool)) = Unclaimed(v) \ {i}
<1>1. Active(BookClaim(v, i, pool)) = Active(v)
  BY BookClaimScalars
<1>2. Active(v) \subseteq Slots
  BY ActiveInSlots
<1>3. ASSUME NEW j \in Slots
      PROVE  BookClaim(v, i, pool).beneficiaries[j].claimed
               = (v.beneficiaries[j].claimed \/ j = i)
  BY BookClaimSlot
<1> QED
  BY <1>1, <1>2, <1>3 DEF Unclaimed

\* When is_last holds, the claimant is the only one left.
LEMMA LastIsAlone ==
    ASSUME NEW v \in VaultData, NEW i \in Unclaimed(v), IsLast(v)
    PROVE  Unclaimed(v) = {i}
<1>1. IsFiniteSet(Unclaimed(v))
  <2>1. IsFiniteSet(Active(v))
    <3>1. v.beneficiary_count \in 0..MAX_BENEFICIARIES
      BY DEF VaultData
    <3>2. v.beneficiary_count \in Int
      BY <3>1 DEF MAX_BENEFICIARIES
    <3> QED
      BY <3>2, FS_Interval DEF Active
  <2> QED
    BY <2>1, FS_Subset DEF Unclaimed
<1>2. PICK x : Unclaimed(v) = {x}
  BY <1>1, FS_Singleton DEF IsLast
<1> QED
  BY <1>2

\* What validate_slots accepts is what a stored table should be: the pairwise
\* check against earlier slots makes all the keys distinct.
LEMMA ValidTableIsWellFormed ==
    ASSUME NEW inputs \in Seq(BeneficiaryInput), ValidTable(inputs), NEW v,
           v.beneficiaries = FillSlots(inputs), v.beneficiary_count = Len(inputs)
    PROVE  /\ WellFormedTable(v)
           /\ \A i \in Slots : ~v.beneficiaries[i].claimed
<1> DEFINE n == Len(inputs)
           slots == FillSlots(inputs)
<1>1. n \in Slots /\ n \in Nat
  BY DEF ValidTable, ValidSlots, Slots
<1>2. \A i \in 1..n :
        /\ slots[i].address # DEFAULT_KEY
        /\ slots[i].share_bps > 0
        /\ \A j \in 1..(i - 1) : slots[j].address # slots[i].address
  BY DEF ValidTable, ValidSlots
<1>3. TotalShare(slots) = TOTAL_SHARE_BPS
  BY DEF ValidTable, ValidSlots
<1>4. \A i \in Slots : i \notin 1..n => slots[i] = DefaultBeneficiary
  BY <1>1 DEF FillSlots, Slots, MAX_BENEFICIARIES
<1>5. \A i \in Slots : ~slots[i].claimed
  BY DEF FillSlots, DefaultBeneficiary
<1> HIDE DEF n, slots
<1>6. \A i \in 1..n, j \in 1..n : i # j => slots[i].address # slots[j].address
  <2> TAKE i \in 1..n, j \in 1..n
  <2> HAVE i # j
  <2>1. CASE i < j
    <3>1. i \in 1..(j - 1)
      BY <1>1, <2>1
    <3> QED
      BY <1>2, <3>1
  <2>2. CASE j < i
    <3>1. j \in 1..(i - 1)
      BY <1>1, <2>2
    <3> QED
      BY <1>2, <3>1
  <2> QED
    BY <1>1, <2>1, <2>2
<1>7. v.beneficiaries = slots /\ Active(v) = 1..n
  BY DEF slots, n, Active
<1>8. 1..n # {}
  <2>1. n >= 1
    BY <1>1, FiveSlots
  <2>2. 1 \in 1..n
    BY <1>1, <2>1
  <2> QED
    BY <2>2
<1> QED
  BY <1>2, <1>3, <1>4, <1>5, <1>6, <1>7, <1>8 DEF WellFormedTable

\* A claim leaves a well-formed table well formed.
LEMMA BookClaimKeepsTable ==
    ASSUME NEW v \in VaultData, NEW i \in Active(v), NEW pool \in Amount,
           WellFormedTable(v)
    PROVE  WellFormedTable(BookClaim(v, i, pool))
<1> DEFINE b == BookClaim(v, i, pool)
<1>1. i \in Slots
  BY ActiveInSlots
<1>2. Active(b) = Active(v)
  BY <1>1, BookClaimScalars
<1>3. ASSUME NEW j \in Slots
      PROVE  /\ b.beneficiaries[j].address = v.beneficiaries[j].address
             /\ b.beneficiaries[j].share_bps = v.beneficiaries[j].share_bps
             /\ j # i => b.beneficiaries[j] = v.beneficiaries[j]
  BY <1>1, BookClaimSlot
<1> HIDE DEF b
<1>4. TotalShare(b.beneficiaries) = TotalShare(v.beneficiaries)
  BY <1>3, FiveSlots DEF TotalShare, SumOverSlots
<1>5. Active(v) \subseteq Slots
  BY ActiveInSlots
<1>6. WellFormedTable(b)
  BY <1>2, <1>3, <1>4, <1>5 DEF WellFormedTable
<1> QED
  BY <1>6 DEF b

-----------------------------------------------------------------------------
(* Sums over a finite set, in whatever order they are added up.  The        *)
(* induction theorems of the library cannot be instantiated, so a proof by  *)
(* induction takes a smallest counterexample instead (SmallestSet).         *)

\* A set of natural numbers has a least element.
LEMMA LeastExists ==
    ASSUME NEW S, S \subseteq Nat, S # {}
    PROVE  \E x \in S : \A y \in S : x <= y
<1>1. PICK x \in S : \A y \in S : ~(<<y, x>> \in OpToRel(<, Nat))
  BY NatLessThanWellFounded, WFMin
<1>2. \A y \in S : ~(y < x)
  BY <1>1 DEF OpToRel
<1> QED
  BY <1>2

\* Of the subsets of a finite set that are in a collection, one is smallest:
\* the form in which induction over finite sets is used below.
LEMMA SmallestSet ==
    ASSUME NEW S, IsFiniteSet(S), NEW C, C \subseteq SUBSET S, C # {}
    PROVE  \E T \in C : \A U \in SUBSET T : U # T => U \notin C
<1>0. \A T \in SUBSET S : IsFiniteSet(T) /\ Cardinality(T) \in Nat
  BY FS_Subset, FS_CardinalityType
<1> DEFINE N == {Cardinality(T) : T \in C}
<1>1. N \subseteq Nat /\ N # {}
  BY <1>0
<1>2. \E n \in N : \A m \in N : n <= m
  <2> HIDE DEF N
  <2> QED
    BY <1>1, LeastExists
<1>4. PICK T \in C : \A U \in C : Cardinality(T) <= Cardinality(U)
  BY <1>2
<1>3. ASSUME NEW U \in SUBSET T, U # T
      PROVE  U \notin C
  <2>1. Cardinality(U) < Cardinality(T)
    BY <1>0, <1>3, FS_Subset
  <2> QED
    BY <1>0, <1>4, <2>1
<1> QED
  BY <1>3

\* g adds up f over each subset of S, element by element.
Adds(g, f, S) ==
    g = [s \in SUBSET S |->
            IF s = {} THEN 0
            ELSE LET x == CHOOSE x \in s : TRUE
                 IN  f[x] + g[s \ {x}]]

\* The sum of the library is what such a function adds up.
LEMMA SumUnfolds ==
    ASSUME NEW f, NEW S
    PROVE  SumFunctionOnSet(f, S) = (CHOOSE g : Adds(g, f, S))[S]
BY Zenon DEF SumFunctionOnSet, FoldFunctionOnSet, MapThenFoldSet, Adds

\* Two of them agree where both are defined.
LEMMA AddsAgree ==
    ASSUME NEW f, NEW S, NEW T, NEW g, NEW h, Adds(g, f, S), Adds(h, f, T),
           IsFiniteSet(S), S \subseteq T
    PROVE  g[S] = h[S]
<1> DEFINE C == {s \in SUBSET S : g[s] # h[s]}
<1>1. SUFFICES ASSUME C # {} PROVE FALSE
  OBVIOUS
<1>2. PICK s \in C : \A u \in SUBSET s : u # s => u \notin C
  <2>1. C \subseteq SUBSET S
    OBVIOUS
  <2> HIDE DEF C
  <2> QED
    BY <1>1, <2>1, SmallestSet
<1>3. s \in SUBSET S /\ s \in SUBSET T
  OBVIOUS
<1> DEFINE x == CHOOSE x \in s : TRUE
<1>4. CASE s = {}
  BY <1>3, <1>4 DEF Adds
<1>5. CASE s # {}
  <2>1. x \in s /\ s \ {x} # s /\ s \ {x} \in SUBSET s /\ s \ {x} \in SUBSET S
    BY <1>3, <1>5
  <2>2. g[s] = f[x] + g[s \ {x}] /\ h[s] = f[x] + h[s \ {x}]
    BY <1>3, <1>5 DEF Adds
  <2>3. g[s \ {x}] = h[s \ {x}]
    BY <1>2, <2>1
  <2> QED
    BY <2>2, <2>3
<1> QED
  BY <1>4, <1>5

\* There is one for every finite set.
LEMMA AddsExists ==
    ASSUME NEW f, NEW S, IsFiniteSet(S)
    PROVE  \E g : Adds(g, f, S)
<1> DEFINE C == {s \in SUBSET S : ~\E g : Adds(g, f, s)}
<1>1. SUFFICES ASSUME C # {} PROVE FALSE
  OBVIOUS
<1>2. PICK s \in C : \A u \in SUBSET s : u # s => u \notin C
  <2>1. C \subseteq SUBSET S
    OBVIOUS
  <2> HIDE DEF C
  <2> QED
    BY <1>1, <2>1, SmallestSet
<1> DEFINE G(u) == CHOOSE g : Adds(g, f, u)
           x == CHOOSE x \in s : TRUE
           h == [u \in SUBSET s |->
                    IF u = s THEN IF s = {} THEN 0 ELSE f[x] + G(s \ {x})[s \ {x}]
                    ELSE G(u)[u]]
<1>3. \A u \in SUBSET s : u # s => Adds(G(u), f, u)
  BY <1>2
<1>4. \A u \in SUBSET s : IsFiniteSet(u)
  BY FS_Subset
<1>5. ASSUME NEW u \in SUBSET s
      PROVE  h[u] = IF u = {} THEN 0
                    ELSE LET y == CHOOSE y \in u : TRUE IN f[y] + h[u \ {y}]
  <2>1. CASE u = {} /\ u = s
    BY <2>1
  <2>2. CASE u = {} /\ u # s
    <3>1. Adds(G(u), f, u)
      BY <1>3, <2>2
    <3>2. G(u)[u] = 0
      BY <2>2, <3>1 DEF Adds
    <3> QED
      BY <2>2, <3>2
  <2>3. CASE u # {}
    <3> DEFINE y == CHOOSE y \in u : TRUE
               w == u \ {y}
    <3>1. y \in u /\ w \in SUBSET s /\ w # s /\ w # u /\ w \in SUBSET u
      BY <2>3
    <3>2. h[w] = G(w)[w]
      BY <3>1
    <3>3. CASE u = s
      <4>1. h[u] = f[y] + G(w)[w]
        BY <2>3, <3>3
      <4> QED
        BY <2>3, <3>2, <4>1
    <3>4. CASE u # s
      <4>1. Adds(G(u), f, u) /\ Adds(G(w), f, w)
        BY <1>3, <3>1, <3>4
      <4>2. G(u)[u] = f[y] + G(u)[w]
        BY <2>3, <4>1 DEF Adds
      <4>3. G(w)[w] = G(u)[w]
        BY <1>4, <3>1, <4>1, AddsAgree
      <4>4. h[u] = G(u)[u]
        BY <3>4
      <4> QED
        BY <2>3, <3>2, <4>2, <4>3, <4>4
    <3> QED
      BY <3>3, <3>4
  <2> QED
    BY <2>1, <2>2, <2>3
<1>6. Adds(h, f, s)
  <2> HIDE DEF G, x
  <2>1. h = [u \in SUBSET s |-> h[u]]
    OBVIOUS
  <2> HIDE DEF h
  <2> QED
    BY <1>5, <2>1 DEF Adds
<1> QED
  BY <1>6

\* The sum over a finite set, one element taken out.
LEMMA SumEquation ==
    ASSUME NEW f, NEW S, IsFiniteSet(S)
    PROVE  SumFunctionOnSet(f, S)
             = IF S = {} THEN 0
               ELSE LET x == CHOOSE x \in S : TRUE
                    IN  f[x] + SumFunctionOnSet(f, S \ {x})
<1> DEFINE G(u) == CHOOSE g : Adds(g, f, u)
           x == CHOOSE x \in S : TRUE
           w == S \ {x}
<1>1. w \subseteq S /\ IsFiniteSet(w)
  BY FS_Subset
<1>2. Adds(G(S), f, S) /\ Adds(G(w), f, w)
  BY <1>1, AddsExists
<1>3. G(w)[w] = G(S)[w]
  BY <1>1, <1>2, AddsAgree
<1>4. G(S)[S] = IF S = {} THEN 0 ELSE f[x] + G(S)[w]
  BY <1>1, <1>2 DEF Adds
<1>5. SumFunctionOnSet(f, S) = G(S)[S] /\ SumFunctionOnSet(f, w) = G(w)[w]
  BY SumUnfolds
<1> QED
  BY <1>3, <1>4, <1>5

\* Sums of natural numbers are natural numbers.
LEMMA SumOnSetType ==
    ASSUME NEW S, IsFiniteSet(S), NEW f, \A y \in S : f[y] \in Nat
    PROVE  SumFunctionOnSet(f, S) \in Nat
<1> DEFINE C == {s \in SUBSET S : SumFunctionOnSet(f, s) \notin Nat}
<1>1. SUFFICES ASSUME C # {} PROVE FALSE
  OBVIOUS
<1>2. PICK s \in C : \A u \in SUBSET s : u # s => u \notin C
  <2>1. C \subseteq SUBSET S
    OBVIOUS
  <2> HIDE DEF C
  <2> QED
    BY <1>1, <2>1, SmallestSet
<1>3. IsFiniteSet(s)
  BY FS_Subset
<1> DEFINE x == CHOOSE x \in s : TRUE
<1>4. CASE s # {}
  <2>1. x \in S /\ s \ {x} \in SUBSET s /\ s \ {x} # s
    BY <1>4
  <2>2. SumFunctionOnSet(f, s \ {x}) \in Nat
    BY <1>2, <2>1
  <2>3. SumFunctionOnSet(f, s) = f[x] + SumFunctionOnSet(f, s \ {x})
    BY <1>3, <1>4, SumEquation
  <2> QED
    BY <2>1, <2>2, <2>3
<1>5. CASE s = {}
  <2>1. SumFunctionOnSet(f, s) = 0
    BY <1>3, <1>5, SumEquation
  <2> QED
    BY <2>1
<1> QED
  BY <1>4, <1>5

\* It does not matter which element is taken out.
LEMMA SumTakeOut ==
    ASSUME NEW S, IsFiniteSet(S), NEW f, \A y \in S : f[y] \in Nat, NEW e \in S
    PROVE  SumFunctionOnSet(f, S) = f[e] + SumFunctionOnSet(f, S \ {e})
<1> DEFINE Sum(s) == SumFunctionOnSet(f, s)
           C == {s \in SUBSET S : ~\A y \in s : Sum(s) = f[y] + Sum(s \ {y})}
<1>1. SUFFICES ASSUME C # {} PROVE FALSE
  OBVIOUS
<1>2. PICK s \in C : \A u \in SUBSET s : u # s => u \notin C
  <2>1. C \subseteq SUBSET S
    OBVIOUS
  <2> HIDE DEF C
  <2> QED
    BY <1>1, <2>1, SmallestSet
<1>3. \A u \in SUBSET S : IsFiniteSet(u) /\ Sum(u) \in Nat
  <2> TAKE u \in SUBSET S
  <2>1. IsFiniteSet(u)
    BY FS_Subset
  <2> QED
    BY <2>1, SumOnSetType
<1>4. PICK y \in s : Sum(s) # f[y] + Sum(s \ {y})
  OBVIOUS
<1> DEFINE x == CHOOSE x \in s : TRUE
<1>5. x \in s /\ Sum(s) = f[x] + Sum(s \ {x})
  BY <1>3, <1>4, SumEquation
<1>6. x # y
  BY <1>4, <1>5
<1> DEFINE a == s \ {x}
           b == s \ {y}
<1>7. a \notin C /\ b \notin C
  BY <1>2, <1>4, <1>5
<1>8. a \in SUBSET S /\ b \in SUBSET S /\ y \in a /\ x \in b /\ a \ {y} = b \ {x}
  BY <1>4, <1>5, <1>6
<1>9. Sum(a) = f[y] + Sum(a \ {y}) /\ Sum(b) = f[x] + Sum(b \ {x})
  <2> HIDE DEF a, b, x, Sum
  <2> QED
    BY <1>7, <1>8
<1>10. f[x] \in Nat /\ f[y] \in Nat /\ Sum(a \ {y}) \in Nat /\ Sum(b \ {x}) \in Nat
  BY <1>3, <1>4, <1>5
<1>11. Sum(s) = f[x] + Sum(a) /\ Sum(s) # f[y] + Sum(b) /\ Sum(a \ {y}) = Sum(b \ {x})
  BY <1>4, <1>5, <1>8
<1> HIDE DEF a, b, x, Sum
<1> QED
  BY <1>9, <1>10, <1>11

\* A sum depends on the terms in it alone.
LEMMA SumOfSameTerms ==
    ASSUME NEW S, IsFiniteSet(S), NEW f, NEW g, \A y \in S : f[y] = g[y]
    PROVE  SumFunctionOnSet(f, S) = SumFunctionOnSet(g, S)
<1> DEFINE C == {s \in SUBSET S : SumFunctionOnSet(f, s) # SumFunctionOnSet(g, s)}
<1>1. SUFFICES ASSUME C # {} PROVE FALSE
  OBVIOUS
<1>2. PICK s \in C : \A u \in SUBSET s : u # s => u \notin C
  <2>1. C \subseteq SUBSET S
    OBVIOUS
  <2> HIDE DEF C
  <2> QED
    BY <1>1, <2>1, SmallestSet
<1>3. IsFiniteSet(s)
  BY FS_Subset
<1> DEFINE x == CHOOSE x \in s : TRUE
<1>4. CASE s # {}
  <2>1. x \in s /\ x \in S /\ s \ {x} \in SUBSET s /\ s \ {x} # s /\ s \ {x} \in SUBSET S
    BY <1>4
  <2>2. SumFunctionOnSet(f, s \ {x}) = SumFunctionOnSet(g, s \ {x})
    BY <1>2, <2>1
  <2>3. /\ SumFunctionOnSet(f, s) = f[x] + SumFunctionOnSet(f, s \ {x})
        /\ SumFunctionOnSet(g, s) = g[x] + SumFunctionOnSet(g, s \ {x})
    BY <1>3, <1>4, SumEquation
  <2> QED
    BY <2>1, <2>2, <2>3
<1>5. CASE s = {}
  <2>1. SumFunctionOnSet(f, s) = 0 /\ SumFunctionOnSet(g, s) = 0
    BY <1>3, <1>5, SumEquation
  <2> QED
    BY <2>1
<1> QED
  BY <1>4, <1>5

\* When one term changes, the sum changes by as much.
LEMMA SumChange ==
    ASSUME NEW S, IsFiniteSet(S), NEW f, NEW g, NEW e \in S,
           \A y \in S : f[y] \in Nat, \A y \in S : g[y] \in Nat,
           \A y \in S : y # e => g[y] = f[y]
    PROVE  SumFunctionOnSet(g, S) + f[e] = SumFunctionOnSet(f, S) + g[e]
<1> DEFINE rest == S \ {e}
<1>1. IsFiniteSet(rest) /\ \A y \in rest : f[y] \in Nat
  BY FS_Subset
<1>2. SumFunctionOnSet(f, rest) = SumFunctionOnSet(g, rest)
  BY <1>1, SumOfSameTerms
<1>3. SumFunctionOnSet(f, rest) \in Nat
  BY <1>1, SumOnSetType
<1>4. /\ SumFunctionOnSet(f, S) = f[e] + SumFunctionOnSet(f, rest)
      /\ SumFunctionOnSet(g, S) = g[e] + SumFunctionOnSet(g, rest)
  BY SumTakeOut
<1> HIDE DEF rest
<1> QED
  BY <1>2, <1>3, <1>4

\* No term exceeds the sum of them.
LEMMA TermAtMostSumOnSet ==
    ASSUME NEW S, IsFiniteSet(S), NEW f, \A y \in S : f[y] \in Nat, NEW e \in S
    PROVE  f[e] <= SumFunctionOnSet(f, S)
<1>1. IsFiniteSet(S \ {e})
  BY FS_Subset
<1>2. SumFunctionOnSet(f, S \ {e}) \in Nat
  BY <1>1, SumOnSetType
<1>3. SumFunctionOnSet(f, S) = f[e] + SumFunctionOnSet(f, S \ {e})
  BY SumTakeOut
<1> QED
  BY <1>2, <1>3

\* Nothing adds up to nothing.
LEMMA SumOfZeros ==
    ASSUME NEW S, IsFiniteSet(S), NEW f, \A y \in S : f[y] = 0
    PROVE  SumFunctionOnSet(f, S) = 0
<1> DEFINE C == {s \in SUBSET S : SumFunctionOnSet(f, s) # 0}
<1>1. SUFFICES ASSUME C # {} PROVE FALSE
  OBVIOUS
<1>2. PICK s \in C : \A u \in SUBSET s : u # s => u \notin C
  <2>1. C \subseteq SUBSET S
    OBVIOUS
  <2> HIDE DEF C
  <2> QED
    BY <1>1, <2>1, SmallestSet
<1>3. IsFiniteSet(s)
  BY FS_Subset
<1> DEFINE x == CHOOSE x \in s : TRUE
<1>4. CASE s # {}
  <2>1. x \in s /\ f[x] = 0 /\ s \ {x} \in SUBSET s /\ s \ {x} # s
    BY <1>4
  <2>2. SumFunctionOnSet(f, s \ {x}) = 0
    BY <1>2, <2>1
  <2>3. SumFunctionOnSet(f, s) = f[x] + SumFunctionOnSet(f, s \ {x})
    BY <1>3, <1>4, SumEquation
  <2> QED
    BY <2>1, <2>2, <2>3
<1>5. CASE s = {}
  BY <1>3, <1>5, SumEquation
<1> QED
  BY <1>4, <1>5

=============================================================================
