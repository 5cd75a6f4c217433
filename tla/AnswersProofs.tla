--------------------------- MODULE AnswersProofs ---------------------------
(***************************************************************************)
(* What the program answers, in every state that it can be in: first how   *)
(* lists of checks are answered, then who is served and who is told what.  *)
(***************************************************************************)
EXTENDS Answers, VaultProofs, SequenceTheorems

-----------------------------------------------------------------------------
(* Lists of checks. *)

Errors == DmsErrors \cup Foreign

Check  == [hit : BOOLEAN, error : Errors]
Checks == Seq(Check)

\* An answer is Ok just when the guard holds, and an error that is named when it
\* does not.
Agrees(answer, passes) ==
    /\ answer \in {"Ok"} \cup DmsErrors \cup Foreign
    /\ answer = "Ok" <=> passes

\* Being let through is not an error.
LEMMA OkIsNoError == "Ok" \notin Errors
BY DEF Errors, DmsErrors, Foreign

\* Each check of a list names an error.
LEMMA ChecksNameErrors ==
    ASSUME NEW s \in Checks, NEW i \in 1..Len(s)
    PROVE  s[i].error \in Errors /\ s[i].error # "Ok"
<1>1. s[i] \in Check
  BY DEF Checks
<1>2. s[i].error \in Errors
  BY <1>1 DEF Check
<1> QED
  BY <1>2, OkIsNoError

\* The first of the hits is found: none, or one before which there is none.
LEMMA FirstHitIs ==
    ASSUME NEW s \in Checks
    PROVE  \/ /\ FirstHit(s) = "Ok"
              /\ \A i \in 1..Len(s) : ~s[i].hit
           \/ \E i \in 1..Len(s) :
                /\ FirstHit(s) = s[i].error
                /\ s[i].hit
                /\ \A j \in 1..(i - 1) : ~s[j].hit
<1> DEFINE I == {i \in 1..Len(s) : s[i].hit}
<1>1. SelectInSeq(s, LAMBDA c : c.hit) = IF I # {} THEN Min(I) ELSE 0
  BY DEF SelectInSeq
<1>2. I \subseteq Nat /\ 0 \notin I /\ Len(s) \in Nat
  BY DEF Checks
<1>3. CASE I = {}
  <2>1. SelectInSeq(s, LAMBDA c : c.hit) = 0
    BY <1>1, <1>3
  <2> QED
    BY <1>3, <2>1 DEF FirstHit
<1>4. CASE I # {}
  <2>1. Min(I) \in I /\ \A y \in I : Min(I) <= y
    <3> HIDE DEF I
    <3> QED
      BY <1>2, <1>4, LeastExists DEF Min
  <2> DEFINE m == Min(I)
  <2>2. m \in 1..Len(s) /\ s[m].hit
    BY <2>1
  <2>3. ASSUME NEW j \in 1..(m - 1)
        PROVE  ~s[j].hit
    <3>1. j \in 1..Len(s) /\ ~(m <= j)
      BY <1>2, <2>2
    <3> QED
      BY <2>1, <3>1
  <2>4. FirstHit(s) = s[m].error
    <3>1. SelectInSeq(s, LAMBDA c : c.hit) = m /\ m # 0
      BY <1>1, <1>2, <1>4, <2>1
    <3> QED
      BY <3>1 DEF FirstHit
  <2> HIDE DEF m
  <2> QED
    BY <2>2, <2>3, <2>4
<1> QED
  BY <1>3, <1>4

\* Whatever is in the list, the answer is Ok or an error that it names.
LEMMA AnswerType ==
    ASSUME NEW s \in Checks
    PROVE  FirstHit(s) \in {"Ok"} \cup Errors
BY FirstHitIs, ChecksNameErrors

\* What passes a list of checks is answered by the next one; what does not is
\* answered by it.
LEMMA FirstHitJoin ==
    ASSUME NEW s \in Checks, NEW t \in Checks
    PROVE  /\ s \o t \in Checks
           /\ FirstHit(s \o t) = IF FirstHit(s) = "Ok" THEN FirstHit(t) ELSE FirstHit(s)
<1> DEFINE u == s \o t
<1>0. /\ u \in Checks
      /\ Len(s) \in Nat /\ Len(t) \in Nat /\ Len(u) = Len(s) + Len(t)
      /\ \A i \in 1..Len(s) : u[i] = s[i] /\ s[i].error # "Ok"
      /\ \A i \in 1..Len(t) : u[Len(s) + i] = t[i] /\ t[i].error # "Ok"
  <2>1. /\ u \in Checks
        /\ Len(s) \in Nat /\ Len(t) \in Nat /\ Len(u) = Len(s) + Len(t)
        /\ \A i \in 1..Len(s) : u[i] = s[i]
        /\ \A i \in 1..Len(t) : u[Len(s) + i] = t[i]
    BY DEF Checks
  <2> QED
    BY <2>1, ChecksNameErrors
<1> HIDE DEF u
<1>1. CASE \E i \in 1..Len(s) : s[i].hit
  <2>1. PICK i \in 1..Len(s) :
            FirstHit(s) = s[i].error /\ s[i].hit /\ \A j \in 1..(i - 1) : ~s[j].hit
    BY <1>1, FirstHitIs
  <2>2. u[i].hit /\ i \in 1..Len(u)
    BY <1>0, <2>1
  <2>3. PICK k \in 1..Len(u) :
            FirstHit(u) = u[k].error /\ u[k].hit /\ \A j \in 1..(k - 1) : ~u[j].hit
    BY <1>0, <2>2, FirstHitIs
  <2>4. \A j \in 1..(i - 1) : ~u[j].hit
    BY <1>0, <2>1
  <2>5. k = i
    BY <1>0, <2>2, <2>3, <2>4
  <2> QED
    BY <1>0, <2>1, <2>3, <2>5 DEF u
<1>2. CASE \A i \in 1..Len(s) : ~s[i].hit
  <2>1. FirstHit(s) = "Ok"
    BY <1>2, FirstHitIs
  <2>2. CASE \A i \in 1..Len(t) : ~t[i].hit
    <3>1. \A k \in 1..Len(u) : ~u[k].hit
      <4> TAKE k \in 1..Len(u)
      <4>1. CASE k <= Len(s)
        BY <1>0, <1>2, <4>1
      <4>2. CASE ~(k <= Len(s))
        <5>1. k - Len(s) \in 1..Len(t) /\ k = Len(s) + (k - Len(s))
          BY <1>0, <4>2
        <5> QED
          BY <1>0, <2>2, <5>1
      <4> QED
        BY <4>1, <4>2
    <3>2. FirstHit(u) = "Ok" /\ FirstHit(t) = "Ok"
      BY <1>0, <2>2, <3>1, FirstHitIs
    <3> QED
      BY <1>0, <2>1, <3>2 DEF u
  <2>3. CASE \E i \in 1..Len(t) : t[i].hit
    <3>1. PICK i \in 1..Len(t) :
              FirstHit(t) = t[i].error /\ t[i].hit /\ \A j \in 1..(i - 1) : ~t[j].hit
      BY <2>3, FirstHitIs
    <3>2. Len(s) + i \in 1..Len(u) /\ u[Len(s) + i].hit
      BY <1>0, <3>1
    <3>3. PICK k \in 1..Len(u) :
              FirstHit(u) = u[k].error /\ u[k].hit /\ \A j \in 1..(k - 1) : ~u[j].hit
      BY <1>0, <3>2, FirstHitIs
    <3>4. ~(k <= Len(s))
      BY <1>0, <1>2, <3>3
    <3>5. k - Len(s) \in 1..Len(t) /\ k = Len(s) + (k - Len(s))
      BY <1>0, <3>4
    <3>6. t[k - Len(s)].hit
      BY <1>0, <3>3, <3>5
    <3>7. k - Len(s) = i
      <4>1. ~(k < Len(s) + i)
        <5>1. ASSUME k < Len(s) + i
              PROVE  FALSE
          <6>1. k - Len(s) \in 1..(i - 1)
            BY <1>0, <3>1, <3>5, <5>1
          <6> QED
            BY <3>1, <3>6, <6>1
        <5> QED
          BY <5>1
      <4>2. ~(Len(s) + i < k)
        <5>1. ASSUME Len(s) + i < k
              PROVE  FALSE
          <6>1. Len(s) + i \in 1..(k - 1)
            BY <1>0, <5>1
          <6> QED
            BY <3>2, <3>3, <6>1
        <5> QED
          BY <5>1
      <4>3. k \in Nat /\ i \in Nat /\ Len(s) \in Nat
        BY <1>0
      <4> QED
        BY <4>1, <4>2, <4>3
    <3> QED
      BY <1>0, <2>1, <3>1, <3>3, <3>5, <3>7 DEF u
  <2> QED
    BY <2>2, <2>3
<1> QED
  BY <1>1, <1>2

\* A single check.
LEMMA OneCheck ==
    ASSUME NEW c \in BOOLEAN, NEW e \in Errors
    PROVE  /\ <<Refuse(c, e)>> \in Checks
           /\ FirstHit(<<Refuse(c, e)>>) = IF c THEN e ELSE "Ok"
<1> DEFINE s == <<Refuse(c, e)>>
<1>1. s \in Checks /\ Len(s) = 1 /\ s[1].hit = c /\ s[1].error = e
  BY DEF Refuse, Checks, Check
<1> HIDE DEF s
<1>2. FirstHit(s) = IF c THEN e ELSE "Ok"
  BY <1>1, FirstHitIs
<1> QED
  BY <1>1, <1>2 DEF s

\* A check that several instructions make is one check, and passes just when
\* its condition is not met.
LEMMA SharedChecks ==
    ASSUME NEW signer, NEW m, NEW amount
    PROVE  /\ Exists \in Checks
           /\ FirstHit(Exists) = IF open THEN "Ok" ELSE "Anchor"
           /\ OwnerSigns(signer) \in Checks
           /\ FirstHit(OwnerSigns(signer)) = IF signer = Owner THEN "Ok" ELSE "Unauthorized"
           /\ ForSol \in Checks
           /\ FirstHit(ForSol) = IF IsSol(vault) THEN "Ok" ELSE "NotSolVault"
           /\ ForSpl \in Checks
           /\ FirstHit(ForSpl) = IF IsSol(vault) THEN "NotSplVault" ELSE "Ok"
           /\ OfMint(m) \in Checks
           /\ FirstHit(OfMint(m)) = IF vault.mint = m THEN "Ok" ELSE "MintMismatch"
           /\ HasAta(m) \in Checks
           /\ FirstHit(HasAta(m)) = IF VaultAta(m) \in accounts THEN "Ok" ELSE "Anchor"
           /\ Positive(amount) \in Checks
           /\ FirstHit(Positive(amount)) = IF amount = 0 THEN "InvalidAmount" ELSE "Ok"
<1>1. /\ "Anchor" \in Errors /\ "Unauthorized" \in Errors /\ "NotSolVault" \in Errors
      /\ "NotSplVault" \in Errors /\ "MintMismatch" \in Errors
      /\ "InvalidAmount" \in Errors
  BY DEF Errors, DmsErrors, Foreign
<1>2. (~open) \in BOOLEAN
  OBVIOUS
<1>3. (signer # Owner) \in BOOLEAN
  OBVIOUS
<1> QED
  BY <1>1, <1>2, <1>3, OneCheck DEF Exists, OwnerSigns, ForSol, ForSpl, OfMint, HasAta, Positive, IsSol

\* Checks that are passed leave the answer to the next ones.
LEMMA Passed ==
    ASSUME NEW s \in Checks, NEW t \in Checks, FirstHit(s) = "Ok"
    PROVE  s \o t \in Checks /\ FirstHit(s \o t) = FirstHit(t)
BY FirstHitJoin

\* A refusal by the first checks is the answer.
LEMMA Stopped ==
    ASSUME NEW s \in Checks, NEW t \in Checks, FirstHit(s) # "Ok"
    PROVE  s \o t \in Checks /\ FirstHit(s \o t) = FirstHit(s)
BY FirstHitJoin

\* Two checks in a row.
LEMMA TwoChecks ==
    ASSUME NEW c \in BOOLEAN, NEW d \in BOOLEAN, NEW e \in Errors, NEW f \in Errors
    PROVE  /\ <<Refuse(c, e), Refuse(d, f)>> \in Checks
           /\ FirstHit(<<Refuse(c, e), Refuse(d, f)>>)
                = IF c THEN e ELSE IF d THEN f ELSE "Ok"
<1> DEFINE s == <<Refuse(c, e)>>
           t == <<Refuse(d, f)>>
<1>1. <<Refuse(c, e), Refuse(d, f)>> = s \o t
  OBVIOUS
<1>2. /\ s \in Checks /\ FirstHit(s) = IF c THEN e ELSE "Ok"
      /\ t \in Checks /\ FirstHit(t) = IF d THEN f ELSE "Ok"
  BY OneCheck
<1> HIDE DEF s, t
<1> QED
  BY <1>1, <1>2, FirstHitJoin, OkIsNoError

\* Three checks in a row.
LEMMA ThreeChecks ==
    ASSUME NEW c \in BOOLEAN, NEW d \in BOOLEAN, NEW h \in BOOLEAN,
           NEW e \in Errors, NEW f \in Errors, NEW g \in Errors
    PROVE  /\ <<Refuse(c, e), Refuse(d, f), Refuse(h, g)>> \in Checks
           /\ FirstHit(<<Refuse(c, e), Refuse(d, f), Refuse(h, g)>>)
                = IF c THEN e ELSE IF d THEN f ELSE IF h THEN g ELSE "Ok"
<1> DEFINE s == <<Refuse(c, e)>>
           t == <<Refuse(d, f), Refuse(h, g)>>
<1>1. <<Refuse(c, e), Refuse(d, f), Refuse(h, g)>> = s \o t
  OBVIOUS
<1>2. /\ s \in Checks /\ FirstHit(s) = IF c THEN e ELSE "Ok"
      /\ t \in Checks /\ FirstHit(t) = IF d THEN f ELSE IF h THEN g ELSE "Ok"
  BY OneCheck, TwoChecks
<1> HIDE DEF s, t
<1> QED
  BY <1>1, <1>2, FirstHitJoin, OkIsNoError

-----------------------------------------------------------------------------
(* Claims. *)

\* In a table without a key twice, index_of finds the slot of each heir.
LEMMA IndexOfHeir ==
    ASSUME NEW v \in VaultData, WellFormedTable(v), NEW i \in Active(v)
    PROVE  IndexOf(v, v.beneficiaries[i].address) = i
<1> DEFINE key == v.beneficiaries[i].address
           n == v.beneficiary_count
           s == SubSeq(v.beneficiaries, 1, n)
           I == {j \in 1..Len(s) : s[j].address = key}
<1>1. n \in 0..5 /\ v.beneficiaries \in [1..5 -> Beneficiary]
  BY DEF VaultData, Slots, MAX_BENEFICIARIES
<1>2. \A j \in 1..n : v.beneficiaries[j] \in Beneficiary
  BY <1>1
<1>3. Len(s) = n /\ \A j \in 1..n : s[j] = v.beneficiaries[j]
  <2>1. n \in Int /\ 1 \in Int
    BY <1>1
  <2>2. /\ Len(s) = IF 1 <= n THEN n - 1 + 1 ELSE 0
        /\ \A j \in 1..(n - 1 + 1) : s[j] = v.beneficiaries[1 + j - 1]
    BY <1>2, <2>1, SubSeqProperties
  <2> HIDE DEF s
  <2> QED
    BY <1>1, <2>2
<1>4. i \in 1..n /\ i # 0
  BY <1>1 DEF Active
<1>5. I = {i}
  <2>1. ASSUME NEW j \in 1..n, v.beneficiaries[j].address = key
        PROVE  j = i
    BY <2>1 DEF WellFormedTable, Active
  <2> QED
    BY <1>3, <1>4, <2>1
<1>6. Min(I) = i
  <2>1. I \subseteq Nat /\ I # {}
    BY <1>1, <1>4, <1>5
  <2>2. Min(I) \in I
    <3> HIDE DEF I
    <3> QED
      BY <2>1, LeastExists DEF Min
  <2> QED
    BY <1>5, <2>2
<1>7. IndexOf(v, key) = IF I # {} THEN Min(I) ELSE 0
  BY DEF IndexOf, SelectInSeq
<1> QED
  BY <1>5, <1>6, <1>7

\* The types behind the checks of a claim.
LEMMA ClaimChecksType ==
    ASSUME VaultInv, open, NEW w \in Wallets, NEW i \in Active(vault),
           vault.beneficiaries[i].address = w, NEW available \in Amount
    PROVE  /\ ClaimantChecks(w) \in Checks
           /\ FirstHit(ClaimantChecks(w))
                = IF now < Deadline(vault) THEN "TimeoutNotReached"
                  ELSE IF vault.beneficiaries[i].claimed THEN "AlreadyClaimed"
                  ELSE "Ok"
           /\ PayoutChecks(w, available) \in Checks
           /\ LET amount == ClaimAmount(vault, i, available)
              IN  0 < amount /\ amount <= available
                  /\ purse[w][vault.mint] + amount <= MAX_U64
                  => FirstHit(PayoutChecks(w, available)) = "Ok"
<1>0. /\ vault \in VaultData /\ WellFormedTable(vault)
      /\ Deadline(vault) \in Times
  BY DEF VaultInv, TypeOK, HeirTableValid, DeadlineInRange
<1>1. IndexOf(vault, w) = i /\ i \in Slots /\ i # 0
  BY <1>0, IndexOfHeir, ActiveInSlots DEF Slots
<1>2. vault.beneficiaries[i].claimed \in BOOLEAN
  <2>1. vault.beneficiaries[i] \in Beneficiary
    BY <1>0, <1>1 DEF VaultData
  <2> QED
    BY <2>1 DEF Beneficiary
<1>3. /\ "TimeoutNotReached" \in Errors /\ "Unauthorized" \in Errors
      /\ "AlreadyClaimed" \in Errors /\ "MathOverflow" \in Errors
      /\ "InsufficientFunds" \in Errors /\ "Transfer" \in Errors
  BY DEF Errors, DmsErrors, Foreign
<1>4. DeadlineChecks(vault) \in Checks /\ FirstHit(DeadlineChecks(vault)) = "Ok"
  <2>1. (~DeadlineFits(vault)) \in BOOLEAN /\ DeadlineFits(vault)
    BY <1>0, WidthAssumption DEF DeadlineFits, Times
  <2> QED
    BY <1>3, <2>1, OneCheck DEF DeadlineChecks
<1>5. /\ ClaimantChecks(w) \in Checks
      /\ FirstHit(ClaimantChecks(w))
           = IF now < Deadline(vault) THEN "TimeoutNotReached"
             ELSE IF vault.beneficiaries[i].claimed THEN "AlreadyClaimed"
             ELSE "Ok"
  <2> DEFINE late == now < Deadline(vault)
             nobody == i = 0
             paid == i # 0 /\ vault.beneficiaries[i].claimed
             s == <<Refuse(late, "TimeoutNotReached"), Refuse(nobody, "Unauthorized"),
                    Refuse(paid, "AlreadyClaimed")>>
  <2>1. late \in BOOLEAN /\ nobody \in BOOLEAN /\ paid \in BOOLEAN
    OBVIOUS
  <2>2. ClaimantChecks(w) = DeadlineChecks(vault) \o s
    BY <1>1 DEF ClaimantChecks
  <2>3. (paid <=> vault.beneficiaries[i].claimed) /\ ~nobody
    BY <1>1, <1>2
  <2> HIDE DEF late, nobody, paid
  <2>4. /\ s \in Checks
        /\ FirstHit(s) = IF late THEN "TimeoutNotReached"
                         ELSE IF nobody THEN "Unauthorized"
                         ELSE IF paid THEN "AlreadyClaimed" ELSE "Ok"
    BY <1>3, <2>1, ThreeChecks
  <2> HIDE DEF s
  <2>5. ClaimantChecks(w) \in Checks /\ FirstHit(ClaimantChecks(w)) = FirstHit(s)
    BY <1>4, <2>2, <2>4, Passed
  <2> QED
    BY <1>1, <2>3, <2>4, <2>5 DEF late
<1>6. LET amount == ClaimAmount(vault, i, available)
      IN  /\ PayoutChecks(w, available) \in Checks
          /\ 0 < amount /\ amount <= available
             /\ purse[w][vault.mint] + amount <= MAX_U64
             => FirstHit(PayoutChecks(w, available)) = "Ok"
  <2> DEFINE amount == ClaimAmount(vault, i, available)
             none == i # 0 /\ amount = 0
             much == i # 0 /\ amount > available
             over == i # 0 /\ purse[w][vault.mint] + amount > MAX_U64
             e == IF IsSol(vault) THEN "MathOverflow" ELSE "Transfer"
  <2>1. none \in BOOLEAN /\ much \in BOOLEAN /\ over \in BOOLEAN /\ e \in Errors
    BY <1>3
  <2>2. PayoutChecks(w, available)
          = <<Refuse(none, "InsufficientFunds"), Refuse(much, "InsufficientFunds"),
              Refuse(over, e)>>
    BY <1>1 DEF PayoutChecks
  <2>3. amount \in Nat /\ available \in Nat /\ MAX_U64 \in Nat
        /\ purse[w][vault.mint] \in Nat
    <3>1. amount \in Nat /\ available \in Nat
      BY <1>0, <1>1, ClaimAmountType, WidthAssumption DEF Amount
    <3>2. vault.mint \in Assets
      BY <1>0 DEF VaultData, Assets
    <3> QED
      BY <3>1, <3>2, WidthAssumption DEF VaultInv, TypeOK, Amount
  <2>4. 0 < amount /\ amount <= available /\ purse[w][vault.mint] + amount <= MAX_U64
          => ~none /\ ~much /\ ~over
    <3> HIDE DEF amount
    <3> QED
      BY <2>3
  <2> HIDE DEF none, much, over, e
  <2>5. /\ PayoutChecks(w, available) \in Checks
        /\ FirstHit(PayoutChecks(w, available))
             = IF none THEN "InsufficientFunds" ELSE IF much THEN "InsufficientFunds"
               ELSE IF over THEN e ELSE "Ok"
    BY <1>3, <2>1, <2>2, ThreeChecks
  <2> QED
    BY <2>4, <2>5
<1> QED
  BY <1>5, <1>6

\* A claim that is answered on its merits: what comes before them is passed.
LEMMA ClaimIsDecided ==
    ASSUME VaultInv, open, NEW w \in Wallets, NEW i \in Active(vault),
           vault.beneficiaries[i].address = w,
           IsSol(vault) \/ VaultAta(vault.mint) \in accounts
    PROVE  /\ FirstHit(ClaimantChecks(w)) # "Ok" =>
                  ClaimAnswer(w) = FirstHit(ClaimantChecks(w))
           /\ FirstHit(ClaimantChecks(w)) = "Ok" =>
                  ClaimAnswer(w) = FirstHit(PayoutChecks(w, Holding))
<1> DEFINE c == ClaimantChecks(w)
           p == PayoutChecks(w, Holding)
           m == vault.mint
<1>0. Holding \in Amount
  BY HoldingType DEF VaultInv
<1>1. c \in Checks /\ p \in Checks
  BY <1>0, ClaimChecksType
<1>2. /\ c \o p \in Checks
      /\ FirstHit(c \o p) = IF FirstHit(c) = "Ok" THEN FirstHit(p) ELSE FirstHit(c)
  BY <1>1, FirstHitJoin
<1>3. CASE IsSol(vault)
  <2>1. ClaimAnswer(w) = FirstHit(Exists \o ForSol \o (c \o p))
    BY <1>3 DEF ClaimAnswer, ClaimSolAnswer, ClaimChecks, Holding
  <2>2. /\ Exists \in Checks /\ FirstHit(Exists) = "Ok"
        /\ ForSol \in Checks /\ FirstHit(ForSol) = "Ok"
    BY <1>3, SharedChecks
  <2>3. Exists \o ForSol \in Checks /\ FirstHit(Exists \o ForSol) = "Ok"
    BY <2>2, Passed
  <2>4. ClaimAnswer(w) = FirstHit(c \o p)
    BY <1>2, <2>1, <2>3, Passed
  <2> QED
    BY <1>2, <2>4
<1>4. CASE ~IsSol(vault)
  <2>1. ClaimAnswer(w) = FirstHit(Exists \o HasAta(m) \o ForSpl \o OfMint(m) \o (c \o p))
    BY <1>4 DEF ClaimAnswer, ClaimSplAnswer, ClaimChecks, Holding
  <2>2. /\ Exists \in Checks /\ FirstHit(Exists) = "Ok"
        /\ HasAta(m) \in Checks /\ FirstHit(HasAta(m)) = "Ok"
        /\ ForSpl \in Checks /\ FirstHit(ForSpl) = "Ok"
        /\ OfMint(m) \in Checks /\ FirstHit(OfMint(m)) = "Ok"
    BY <1>4, SharedChecks
  <2> DEFINE s1 == Exists \o HasAta(m)
             s2 == s1 \o ForSpl
             s3 == s2 \o OfMint(m)
  <2>3. s1 \in Checks /\ FirstHit(s1) = "Ok"
    BY <2>2, Passed
  <2>4. s2 \in Checks /\ FirstHit(s2) = "Ok"
    <3> HIDE DEF s1
    <3> QED
      BY <2>2, <2>3, Passed
  <2>5. s3 \in Checks /\ FirstHit(s3) = "Ok"
    <3> HIDE DEF s2
    <3> QED
      BY <2>2, <2>4, Passed
  <2>6. ClaimAnswer(w) = FirstHit(s3 \o (c \o p))
    BY <2>1
  <2> HIDE DEF s3
  <2>7. ClaimAnswer(w) = FirstHit(c \o p)
    BY <1>2, <2>5, <2>6, Passed
  <2> QED
    BY <1>2, <2>7
<1> QED
  BY <1>3, <1>4

\* An heir who has been paid is told so.
LEMMA PaidIsTold == VaultInv => PaidHeirIsTold
<1> SUFFICES ASSUME VaultInv, open, NEW w \in Wallets, NEW i \in Active(vault),
                    vault.beneficiaries[i].address = w, vault.beneficiaries[i].claimed,
                    IsSol(vault) \/ VaultAta(vault.mint) \in accounts
             PROVE  ClaimAnswer(w) = "AlreadyClaimed"
  BY DEF PaidHeirIsTold
<1>1. i \in Slots
  BY ActiveInSlots DEF VaultInv, TypeOK
<1>2. now >= Deadline(vault)
  BY <1>1 DEF VaultInv, TripConsistent
<1>3. ~(now < Deadline(vault))
  <2>1. now \in Nat /\ Deadline(vault) \in Nat
    BY ClockAssumption, WidthAssumption DEF VaultInv, TypeOK, DeadlineInRange, Times
  <2> QED
    BY <1>2, <2>1
<1>4. FirstHit(ClaimantChecks(w)) = "AlreadyClaimed"
  <2>1. Holding \in Amount
    BY HoldingType, WidthAssumption DEF VaultInv, Amount
  <2> QED
    BY <1>3, <2>1, ClaimChecksType
<1> QED
  BY <1>4, ClaimIsDecided

\* What an heir can claim is there: the sweep is what the vault holds, a share
\* of a snapshot is still due, and a share of what there is now is a part of it.
LEMMA ClaimIsCovered ==
    ASSUME VaultInv, open, NEW i \in Unclaimed(vault)
    PROVE  ClaimAmount(vault, i, Holding) <= Holding
<1>0. /\ vault \in VaultData /\ WellFormedTable(vault) /\ i \in Slots
      /\ Holding \in Nat /\ vault.claim_pool \in Nat
  BY ActiveInSlots, HoldingType, WidthAssumption
     DEF VaultInv, TypeOK, HeirTableValid, Unclaimed, Amount, VaultData
<1> DEFINE bps == vault.beneficiaries[i].share_bps
<1>1. CASE IsLast(vault)
  BY <1>0, <1>1 DEF ClaimAmount
<1>2. CASE ~IsLast(vault) /\ vault.is_claimed
  <2> DEFINE due == [j \in Slots |-> Due(j)]
  <2>1. \A j \in Slots : Due(j) = DueOf(vault, vault.claim_pool, j)
    BY DEF Due, DueOf
  <2>2. due \in [Slots -> Nat]
    BY <1>0, <2>1, DueType
  <2>3. SumOverSlots(due) <= Holding
    BY <1>2 DEF VaultInv, Solvent
  <2>4. due[i] = ClaimAmount(vault, i, Holding)
    BY <1>0, <1>2 DEF ClaimAmount, PoolAt, Due
  <2>5. due[i] \in Nat
    BY <1>0, <2>2
  <2> HIDE DEF due
  <2>6. due[i] <= SumOverSlots(due) /\ SumOverSlots(due) \in Nat
    BY <1>0, <2>2, TermAtMostSum, SumType
  <2>7. due[i] <= Holding
    BY <1>0, <2>3, <2>5, <2>6
  <2> QED
    BY <2>4, <2>7
<1>3. CASE ~IsLast(vault) /\ ~vault.is_claimed
  <2>1. bps \in 0..TOTAL_SHARE_BPS
    BY <1>0, ShareAtMostAll
  <2>2. ClaimAmount(vault, i, Holding) = ShareOf(Holding, bps)
    BY <1>3 DEF ClaimAmount, PoolAt
  <2> HIDE DEF bps
  <2>3. ShareOf(Holding, bps) \in 0..Holding
    BY <1>0, <2>1, ShareOfBound
  <2> QED
    BY <1>0, <2>2, <2>3
<1> QED
  BY <1>1, <1>2, <1>3

\* Nothing that the vault pays out is too much for a wallet.
LEMMA HoldingFits ==
    ASSUME VaultInv, Conserved, open, NEW w \in Wallets
    PROVE  /\ Holding \in Nat /\ purse[w][vault.mint] \in Nat
           /\ purse[w][vault.mint] + Holding <= MAX_U64
<1>0. Holding \in Nat /\ lamports \in Nat /\ MAX_U64 \in Nat
  BY HoldingType, WidthAssumption DEF VaultInv, TypeOK, Amount
<1>1. purse[w][vault.mint] \in Nat
  <2>1. purse[w] \in [Assets -> Amount]
    BY DEF VaultInv, TypeOK
  <2>2. vault.mint \in Assets
    BY DEF VaultInv, TypeOK, VaultData, Assets
  <2>3. purse[w][vault.mint] \in Amount
    BY <2>1, <2>2
  <2> QED
    BY <2>3, WidthAssumption DEF Amount
<1>2. CASE IsSol(vault)
  <2>1. vault.mint = None /\ Holding = Withdrawable
    BY <1>2 DEF IsSol, Holding
  <2>2. Withdrawable <= lamports
    BY WithdrawableType DEF VaultInv
  <2>3. purse[w][None] + lamports <= MAX_U64
    BY CreditFits DEF VaultInv
  <2> QED
    BY <1>0, <1>1, <2>1, <2>2, <2>3
<1>3. CASE ~IsSol(vault)
  <2>1. Holding = tokens[<<vault.mint, ATA>>] /\ vault.mint \in Mints /\ ATA \in Places
    BY <1>3, HoldingType DEF VaultInv, Holding, VaultAta, Places
  <2>2. purse[w][vault.mint] + tokens[<<vault.mint, ATA>>] <= MAX_U64
    BY <2>1, CreditFits DEF VaultInv
  <2> QED
    BY <1>0, <1>1, <2>1, <2>2
<1> QED
  BY <1>2, <1>3

\* An heir whose time has come is paid.
LEMMA EligibleIsServed == VaultInv /\ Conserved => EligibleHeirIsServed
<1> SUFFICES ASSUME VaultInv, Conserved, open, now >= Deadline(vault),
                    NEW w \in Wallets, NEW i \in Unclaimed(vault),
                    vault.beneficiaries[i].address = w,
                    ClaimAmount(vault, i, Holding) > 0
             PROVE  ClaimAnswer(w) = "Ok"
  BY DEF EligibleHeirIsServed
<1> DEFINE amount == ClaimAmount(vault, i, Holding)
<1>0. /\ vault \in VaultData /\ i \in Active(vault) /\ i \in Slots
      /\ Holding \in Amount /\ Holding \in Nat
      /\ now \in Nat /\ Deadline(vault) \in Nat /\ MAX_U64 \in Nat
  BY ActiveInSlots, HoldingType, ClockAssumption, WidthAssumption
     DEF VaultInv, TypeOK, DeadlineInRange, Unclaimed, Amount, Times
<1>1. amount \in Nat /\ amount <= Holding
  BY <1>0, ClaimAmountType, ClaimIsCovered
<1>2. purse[w][vault.mint] + amount <= MAX_U64
  <2>1. /\ purse[w][vault.mint] \in Nat
        /\ purse[w][vault.mint] + Holding <= MAX_U64
    BY HoldingFits
  <2> HIDE DEF amount
  <2> QED
    BY <1>0, <1>1, <2>1
<1>3. IsSol(vault) \/ VaultAta(vault.mint) \in accounts
  <2>1. ASSUME ~IsSol(vault), VaultAta(vault.mint) \notin accounts
        PROVE  FALSE
    <3>1. Holding = 0
      BY <2>1, HoldingType DEF VaultInv, Conserved, Holding
    <3> HIDE DEF amount
    <3>2. amount > 0
      BY DEF amount
    <3> QED
      BY <1>1, <3>1, <3>2
  <2> QED
    BY <2>1
<1>4. FirstHit(ClaimantChecks(w)) = "Ok"
  <2>1. ~(now < Deadline(vault)) /\ ~vault.beneficiaries[i].claimed
    BY <1>0 DEF Unclaimed
  <2> QED
    BY <1>0, <2>1, ClaimChecksType
<1>5. FirstHit(PayoutChecks(w, Holding)) = "Ok"
  <2>1. 0 < amount
    OBVIOUS
  <2> QED
    BY <1>0, <1>1, <1>2, <2>1, ClaimChecksType
<1> QED
  BY <1>0, <1>3, <1>4, <1>5, ClaimIsDecided

-----------------------------------------------------------------------------
(* Lists that let an instruction through. *)

\* The lists of checks that let the instruction through.
Passing == {s \in Checks : FirstHit(s) = "Ok"}

\* The intermediate results of FlattenSeq.
Flattens(g, s, n) ==
    g = [i \in 1..n |-> IF i = 1 THEN s[i] ELSE g[i - 1] \o s[i]]

\* There are such results for a list of any length.
LEMMA FlattensExists ==
    ASSUME NEW s, NEW n \in Nat
    PROVE  \E g : Flattens(g, s, n)
<1> DEFINE C == {m \in Nat : ~\E g : Flattens(g, s, m)}
<1>1. SUFFICES ASSUME C # {}
               PROVE  FALSE
  OBVIOUS
<1>2. PICK m \in C : \A k \in C : m <= k
  <2>1. C \subseteq Nat
    OBVIOUS
  <2> HIDE DEF C
  <2> QED
    BY <1>1, <2>1, LeastExists
<1>3. m # 0
  <2>1. Flattens([i \in 1..0 |-> s[i]], s, 0)
    BY DEF Flattens
  <2> QED
    BY <1>2, <2>1
<1>4. m \in Nat /\ m - 1 \in Nat /\ m - 1 \notin C
  BY <1>2, <1>3
<1>5. PICK g : Flattens(g, s, m - 1)
  BY <1>4
<1> DEFINE h == [i \in 1..m |->
                    IF i = m THEN IF m = 1 THEN s[m] ELSE g[m - 1] \o s[m]
                    ELSE g[i]]
<1>6. h = [i \in 1..m |-> IF i = 1 THEN s[i] ELSE h[i - 1] \o s[i]]
  <2>1. ASSUME NEW i \in 1..m
        PROVE  h[i] = IF i = 1 THEN s[i] ELSE h[i - 1] \o s[i]
    <3>1. CASE i = m
      <4>1. m # 1 => h[m - 1] = g[m - 1]
        BY <1>4
      <4>2. h[m] = IF m = 1 THEN s[m] ELSE g[m - 1] \o s[m]
        BY <1>3, <1>4
      <4> HIDE DEF h
      <4> QED
        BY <3>1, <4>1, <4>2
    <3>2. CASE i # m
      <4>1. i \in 1..(m - 1) /\ i \in Nat
        BY <1>4, <3>2
      <4>2. g[i] = IF i = 1 THEN s[i] ELSE g[i - 1] \o s[i]
        BY <1>5, <4>1 DEF Flattens
      <4>3. h[i] = g[i]
        BY <3>2
      <4>4. i # 1 => h[i - 1] = g[i - 1]
        BY <1>4, <4>1
      <4> HIDE DEF h
      <4> QED
        BY <4>2, <4>3, <4>4
    <3> QED
      BY <3>1, <3>2
  <2>2. h = [i \in 1..m |-> h[i]]
    OBVIOUS
  <2> HIDE DEF h
  <2> QED
    BY <2>1, <2>2
<1>7. Flattens(h, s, m)
  <2> HIDE DEF h
  <2> QED
    BY <1>6 DEF Flattens
<1> QED
  BY <1>2, <1>7

\* What the first slots share out is a part of the whole, and all of it when
\* the others are unused.
LEMMA ShareUpToFits ==
    ASSUME NEW b \in [Slots -> Beneficiary], NEW i \in Slots
    PROVE  /\ ShareUpTo(b, i) \in Nat /\ TotalShare(b) \in Nat
           /\ ShareUpTo(b, i) <= TotalShare(b)
           /\ (\A j \in Slots : j > i => b[j].share_bps = 0) => ShareUpTo(b, i) = TotalShare(b)
<1> DEFINE f == [j \in Slots |-> IF j <= i THEN b[j].share_bps ELSE 0]
           g == [j \in Slots |-> b[j].share_bps]
<1>1. ASSUME NEW j \in Slots
      PROVE  b[j].share_bps \in Nat
  <2>1. b[j] \in Beneficiary /\ 0..MAX_U16 \subseteq Nat
    BY DEF MAX_U16
  <2> QED
    BY <2>1 DEF Beneficiary
<1>2. f \in [Slots -> Nat] /\ g \in [Slots -> Nat]
  BY <1>1
<1>3. \A j \in Slots : f[j] <= g[j]
  <2>1. ASSUME NEW j \in Slots
        PROVE  f[j] <= g[j]
    <3>1. b[j].share_bps \in Nat /\ f[j] = (IF j <= i THEN b[j].share_bps ELSE 0)
          /\ g[j] = b[j].share_bps
      BY <1>1
    <3> HIDE DEF f, g
    <3> QED
      BY <3>1
  <2> QED
    BY <2>1
<1>4. ASSUME \A j \in Slots : j > i => b[j].share_bps = 0
      PROVE  f = g
  <2>1. \A j \in Slots : f[j] = g[j]
    <3> TAKE j \in Slots
    <3>1. j \in Nat /\ i \in Nat
      BY DEF Slots
    <3> QED
      BY <1>4, <3>1
  <2> QED
    BY <2>1
<1>5. ShareUpTo(b, i) = SumOverSlots(f) /\ TotalShare(b) = SumOverSlots(g)
  BY DEF ShareUpTo, TotalShare
<1> HIDE DEF f, g
<1>6. SumOverSlots(f) \in Nat /\ SumOverSlots(g) \in Nat /\ SumOverSlots(f) <= SumOverSlots(g)
  BY <1>2, <1>3, SumMonotone, SumType
<1> QED
  BY <1>4, <1>5, <1>6

\* A list of one check lets an instruction through unless the check is hit.
LEMMA OneDecided ==
    ASSUME NEW c \in BOOLEAN, NEW e \in Errors
    PROVE  /\ <<Refuse(c, e)>> \in Checks
           /\ <<Refuse(c, e)>> \in Passing <=> ~c
BY OneCheck, OkIsNoError DEF Passing

\* So does a list of two.
LEMMA TwoDecided ==
    ASSUME NEW c \in BOOLEAN, NEW d \in BOOLEAN, NEW e \in Errors, NEW f \in Errors
    PROVE  /\ <<Refuse(c, e), Refuse(d, f)>> \in Checks
           /\ <<Refuse(c, e), Refuse(d, f)>> \in Passing <=> ~c /\ ~d
BY TwoChecks, OkIsNoError DEF Passing

\* Two lists in a row let an instruction through just when both do.
LEMMA JoinDecided ==
    ASSUME NEW s \in Checks, NEW t \in Checks
    PROVE  /\ s \o t \in Checks
           /\ s \o t \in Passing <=> s \in Passing /\ t \in Passing
BY FirstHitJoin DEF Passing

\* The same of up to four.
LEMMA FourDecided ==
    ASSUME NEW a \in Checks, NEW b \in Checks, NEW c \in Checks, NEW d \in Checks
    PROVE  /\ a \o b \o c \in Checks
           /\ a \o b \o c \in Passing <=> a \in Passing /\ b \in Passing /\ c \in Passing
           /\ a \o b \o c \o d \in Checks
           /\ a \o b \o c \o d \in Passing
                <=> a \in Passing /\ b \in Passing /\ c \in Passing /\ d \in Passing
<1>1. a \o b \in Checks /\ (a \o b \in Passing <=> a \in Passing /\ b \in Passing)
  BY JoinDecided
<1> DEFINE s == a \o b
<1> HIDE DEF s
<1>2. s \o c \in Checks /\ (s \o c \in Passing <=> s \in Passing /\ c \in Passing)
  BY <1>1, JoinDecided DEF s
<1> DEFINE t == s \o c
<1> HIDE DEF t
<1>3. t \o d \in Checks /\ (t \o d \in Passing <=> t \in Passing /\ d \in Passing)
  BY <1>2, JoinDecided DEF t
<1> QED
  BY <1>1, <1>2, <1>3 DEF s, t

\* Lists strung together let an instruction through just when all of them do.
LEMMA FlattenDecided ==
    ASSUME NEW n \in Nat, NEW s \in [1..n -> Checks]
    PROVE  /\ FlattenSeq(s) \in Checks
           /\ FlattenSeq(s) \in Passing <=> \A i \in 1..n : s[i] \in Passing
<1> DEFINE g == CHOOSE h : Flattens(h, s, n)
<1>1. Len(s) = n
  BY DEF Checks
<1>2. CASE n = 0
  <2>1. FlattenSeq(s) = s
    BY <1>1, <1>2 DEF FlattenSeq
  <2>2. s \in Checks /\ Len(s) = 0
    BY <1>1, <1>2 DEF Checks
  <2>3. FirstHit(s) = "Ok"
    BY <2>2, FirstHitIs
  <2> QED
    BY <1>2, <2>1, <2>2, <2>3 DEF Passing
<1>3. CASE n # 0
  <2>1. FlattenSeq(s) = g[n]
    BY <1>1, <1>3, Zenon DEF FlattenSeq, Flattens
  <2>2. Flattens(g, s, n)
    BY FlattensExists
  <2> HIDE DEF g
  <2> DEFINE Good(k) == /\ g[k] \in Checks
                        /\ g[k] \in Passing <=> \A i \in 1..k : s[i] \in Passing
             C == {k \in 1..n : ~Good(k)}
  <2>3. C = {}
    <3>1. SUFFICES ASSUME C # {}
                   PROVE  FALSE
      OBVIOUS
    <3>2. PICK k \in C : \A j \in C : k <= j
      <4>1. C \subseteq Nat
        OBVIOUS
      <4> HIDE DEF C
      <4> QED
        BY <3>1, <4>1, LeastExists
    <3>3. g[k] = IF k = 1 THEN s[k] ELSE g[k - 1] \o s[k]
      BY <2>2, <3>2 DEF Flattens
    <3>4. s[k] \in Checks
      BY <3>2
    <3>5. k # 1
      BY <3>2, <3>3, <3>4
    <3>6. k - 1 \in 1..n /\ ~(k <= k - 1)
      BY <3>2, <3>5
    <3>7. Good(k - 1)
      BY <3>2, <3>6
    <3>8. /\ g[k - 1] \o s[k] \in Checks
          /\ g[k - 1] \o s[k] \in Passing <=> g[k - 1] \in Passing /\ s[k] \in Passing
      BY <3>4, <3>7, JoinDecided
    <3>9. (\A i \in 1..k : s[i] \in Passing)
            <=> (\A i \in 1..(k - 1) : s[i] \in Passing) /\ s[k] \in Passing
      BY <3>2, <3>6
    <3> QED
      BY <3>2, <3>3, <3>5, <3>7, <3>8, <3>9
  <2> QED
    BY <1>3, <2>1, <2>3
<1> QED
  BY <1>2, <1>3

\* One round of validate_slots lets an instruction through just when the slot
\* is of somebody new, with a share that keeps the total in its width.
LEMMA RoundDecided ==
    ASSUME NEW b \in [Slots -> Beneficiary], NEW i \in Slots
    PROVE  /\ SlotChecks(b, i) \in Checks
           /\ SlotChecks(b, i) \in Passing
                <=> /\ b[i].address # DEFAULT_KEY
                    /\ b[i].share_bps > 0
                    /\ \A j \in 1..(i - 1) : b[j].address # b[i].address
                    /\ ShareUpTo(b, i) <= MAX_U16
<1> DEFINE none  == b[i].address = DEFAULT_KEY
           empty == b[i].share_bps = 0
           again == \E j \in 1..(i - 1) : b[j].address = b[i].address
           over  == ShareUpTo(b, i) > MAX_U16
           c1 == Refuse(none, "InvalidBeneficiary")
           c2 == Refuse(empty, "InvalidShares")
           c3 == Refuse(again, "DuplicateBeneficiary")
           c4 == Refuse(over, "MathOverflow")
<1>1. none \in BOOLEAN /\ empty \in BOOLEAN /\ again \in BOOLEAN /\ over \in BOOLEAN
  OBVIOUS
<1>2. /\ ~empty <=> b[i].share_bps > 0
      /\ ~again <=> \A j \in 1..(i - 1) : b[j].address # b[i].address
      /\ ~over <=> ShareUpTo(b, i) <= MAX_U16
  <2>1. b[i].share_bps \in Nat
    <3>1. b[i] \in Beneficiary /\ 0..MAX_U16 \subseteq Nat
      BY DEF MAX_U16
    <3> QED
      BY <3>1 DEF Beneficiary
  <2>2. ShareUpTo(b, i) \in Nat /\ MAX_U16 \in Nat
    BY ShareUpToFits DEF MAX_U16
  <2>3. ~empty <=> b[i].share_bps > 0
    BY <2>1
  <2>4. ~over <=> ShareUpTo(b, i) <= MAX_U16
    BY <2>2
  <2> QED
    BY <2>3, <2>4
<1>3. /\ "InvalidBeneficiary" \in Errors /\ "InvalidShares" \in Errors
      /\ "DuplicateBeneficiary" \in Errors /\ "MathOverflow" \in Errors
  BY DEF Errors, DmsErrors, Foreign
<1>4. SlotChecks(b, i) = <<c1, c2, c3, c4>> /\ (~none <=> b[i].address # DEFAULT_KEY)
  BY DEF SlotChecks
<1> HIDE DEF none, empty, again, over
<1>5. /\ <<c1, c2>> \in Checks /\ (<<c1, c2>> \in Passing <=> ~none /\ ~empty)
      /\ <<c3, c4>> \in Checks /\ (<<c3, c4>> \in Passing <=> ~again /\ ~over)
  BY <1>1, <1>3, TwoDecided
<1> HIDE DEF c1, c2, c3, c4
<1>6. <<c1, c2, c3, c4>> = <<c1, c2>> \o <<c3, c4>>
  OBVIOUS
<1>7. /\ <<c1, c2>> \o <<c3, c4>> \in Checks
      /\ <<c1, c2>> \o <<c3, c4>> \in Passing
           <=> <<c1, c2>> \in Passing /\ <<c3, c4>> \in Passing
  BY <1>5, JoinDecided
<1> QED
  BY <1>2, <1>4, <1>5, <1>6, <1>7

\* A table passes the checks of validate_slots, round by round, just when it
\* is valid; whatever it is, each check names an error.
LEMMA TableDecided ==
    ASSUME NEW inputs \in Seq(BeneficiaryInput)
    PROVE  /\ TableChecks(inputs) \in Checks
           /\ TableChecks(inputs) \in Passing <=> ValidTable(inputs)
<1> DEFINE b == FillSlots(inputs)
           n == IF Len(inputs) <= MAX_BENEFICIARIES THEN Len(inputs) ELSE 0
           rounds == [i \in 1..n |-> SlotChecks(b, i)]
           many   == Len(inputs) > MAX_BENEFICIARIES
           nobody == n = 0
           parts  == ShareUpTo(b, n) # TOTAL_SHARE_BPS
           first  == <<Refuse(many, "TooManyBeneficiaries"), Refuse(nobody, "NoBeneficiaries")>>
           last   == <<Refuse(parts, "InvalidShares")>>
           Fit(i) == /\ b[i].address # DEFAULT_KEY
                     /\ b[i].share_bps > 0
                     /\ \A j \in 1..(i - 1) : b[j].address # b[i].address
                     /\ ShareUpTo(b, i) <= MAX_U16
<1>0. /\ b \in [Slots -> Beneficiary] /\ n \in Nat /\ Len(inputs) \in Nat
      /\ 1..n \subseteq Slots /\ (n \in Slots <=> n # 0)
  <2>1. b \in [Slots -> Beneficiary] /\ Len(inputs) \in Nat
    BY FillSlotsType
  <2>2. n \in 0..5
    <3>1. ASSUME NEW l \in Nat
          PROVE  (IF l <= 5 THEN l ELSE 0) \in 0..5
      OBVIOUS
    <3> QED
      BY <2>1, <3>1, Zenon DEF MAX_BENEFICIARIES
  <2>3. 1..n \subseteq Slots /\ (n \in Slots <=> n # 0) /\ n \in Nat
    <3> HIDE DEF b, n
    <3> QED
      BY <2>2 DEF Slots, MAX_BENEFICIARIES
  <2> QED
    BY <2>1, <2>3
<1>1. TableChecks(inputs) = first \o FlattenSeq(rounds) \o last
  BY DEF TableChecks
<1>2. ~many /\ ~nobody <=> Len(inputs) <= MAX_BENEFICIARIES /\ Len(inputs) \in Slots
  BY <1>0 DEF MAX_BENEFICIARIES, Slots
<1>3. \A j \in Slots : j > n /\ ~many => b[j].share_bps = 0
  <2> TAKE j \in Slots
  <2>1. j > n /\ ~many => b[j] = DefaultBeneficiary
    BY <1>0 DEF FillSlots, Slots, MAX_BENEFICIARIES
  <2> QED
    BY <2>1 DEF DefaultBeneficiary
<1>4. ~many /\ ~nobody =>
        (ValidTable(inputs)
           <=> /\ \A i \in 1..n : /\ b[i].address # DEFAULT_KEY
                                  /\ b[i].share_bps > 0
                                  /\ \A j \in 1..(i - 1) : b[j].address # b[i].address
               /\ TotalShare(b) <= MAX_U16
               /\ TotalShare(b) = TOTAL_SHARE_BPS)
  BY <1>0, <1>2 DEF ValidTable, ValidSlots
<1>5. ValidTable(inputs) => ~many /\ ~nobody
  BY <1>2 DEF ValidTable, ValidSlots
<1>6. many \in BOOLEAN /\ nobody \in BOOLEAN /\ parts \in BOOLEAN
  OBVIOUS
<1>7. /\ "TooManyBeneficiaries" \in Errors /\ "NoBeneficiaries" \in Errors
      /\ "InvalidShares" \in Errors
  BY DEF Errors, DmsErrors, Foreign
<1>8. nobody <=> n = 0
  OBVIOUS
<1>9. ~parts <=> ShareUpTo(b, n) = TOTAL_SHARE_BPS
  OBVIOUS
<1> HIDE DEF b
<1>10. /\ FlattenSeq(rounds) \in Checks
       /\ FlattenSeq(rounds) \in Passing <=> \A i \in 1..n : Fit(i)
  <2>1. ASSUME NEW i \in 1..n
        PROVE  SlotChecks(b, i) \in Checks /\ (SlotChecks(b, i) \in Passing <=> Fit(i))
    <3>1. i \in Slots
      BY <1>0
    <3> QED
      BY <1>0, <3>1, RoundDecided
  <2> HIDE DEF Fit
  <2>2. rounds \in [1..n -> Checks] /\ \A i \in 1..n : rounds[i] \in Passing <=> Fit(i)
    BY <2>1
  <2> HIDE DEF rounds, n
  <2>3. /\ FlattenSeq(rounds) \in Checks
        /\ FlattenSeq(rounds) \in Passing <=> \A i \in 1..n : rounds[i] \in Passing
    BY <1>0, <2>2, FlattenDecided
  <2> QED
    BY <2>2, <2>3
<1> HIDE DEF n, many, nobody, parts, rounds
<1>11. /\ first \in Checks /\ (first \in Passing <=> ~many /\ ~nobody)
       /\ last \in Checks /\ (last \in Passing <=> ~parts)
  BY <1>6, <1>7, OneDecided, TwoDecided
<1> HIDE DEF first, last
<1> DEFINE middle == FlattenSeq(rounds)
<1> HIDE DEF middle
<1>12. /\ first \o middle \o last \in Checks
       /\ first \o middle \o last \in Passing
            <=> first \in Passing /\ middle \in Passing /\ last \in Passing
  BY <1>10, <1>11, FourDecided DEF middle
<1>13. ~many /\ ~nobody =>
         (ValidTable(inputs) <=> (\A i \in 1..n : Fit(i)) /\ ~parts)
  <2> SUFFICES ASSUME ~many, ~nobody
               PROVE  ValidTable(inputs) <=> (\A i \in 1..n : Fit(i)) /\ ~parts
    OBVIOUS
  <2>1. n \in Slots /\ n \in Nat /\ n \in 1..n
    BY <1>0, <1>8 DEF Slots
  <2>2. ShareUpTo(b, n) = TotalShare(b) /\ TotalShare(b) \in Nat
    BY <1>0, <1>3, <2>1, ShareUpToFits
  <2>3. \A i \in 1..n : ShareUpTo(b, i) \in Nat /\ ShareUpTo(b, i) <= TotalShare(b)
    BY <1>0, ShareUpToFits
  <2>4. TotalShare(b) <= MAX_U16 <=> \A i \in 1..n : ShareUpTo(b, i) <= MAX_U16
    <3>1. MAX_U16 \in Nat
      BY DEF MAX_U16
    <3> QED
      BY <2>1, <2>2, <2>3, <3>1
  <2> QED
    BY <1>4, <1>9, <2>2, <2>4
<1> QED
  BY <1>1, <1>5, <1>10, <1>11, <1>12, <1>13 DEF middle

-----------------------------------------------------------------------------
(* The guards of the instructions, in the terms of Vault: what each asks   *)
(* of the state and of its arguments, and nothing of what it writes.       *)

\* initialize_vault.
CanInitializeVault(w, timeout, inputs) ==
    /\ ~open
    /\ w = Owner
    /\ ValidTimeout(timeout)
    /\ ValidTable(inputs)
    /\ now + timeout <= MAX_I64
    /\ RentDue <= purse[w][None]

\* check_in.
CanCheckIn(w) ==
    HasOne(w) /\ Untripped /\ DeadlineFits([vault EXCEPT !.last_checkin = now])

\* set_beneficiaries.
CanSetBeneficiaries(w, inputs) == HasOne(w) /\ Untripped /\ ValidTable(inputs)

\* deposit_sol.
CanDepositSol(w, amount) ==
    /\ HasOne(w) /\ IsSol(vault) /\ Untripped
    /\ amount > 0
    /\ amount <= purse[w][None]
    /\ lamports + amount <= MAX_U64

\* deposit_spl.
CanDepositSpl(w, m, amount) ==
    /\ HasOne(w) /\ MintMatches(m) /\ Untripped
    /\ amount > 0
    /\ amount <= purse[w][m]
    /\ tokens[VaultAta(m)] + amount <= MAX_U64

\* withdraw_sol.
CanWithdrawSol(w, amount) ==
    /\ HasOne(w) /\ IsSol(vault) /\ Untripped
    /\ amount > 0
    /\ amount <= Withdrawable
    /\ CanCredit(w, None, amount)

\* withdraw_spl.
CanWithdrawSpl(w, m, amount) ==
    /\ HasOne(w) /\ MintMatches(m) /\ Untripped
    /\ VaultAta(m) \in accounts
    /\ amount > 0
    /\ amount <= tokens[VaultAta(m)]
    /\ CanCredit(w, m, amount)

\* close_vault.
CanCloseVault(w, place) ==
    /\ HasOne(w)
    /\ Emptied(place)
    /\ IsSol(vault) \/ <<vault.mint, place>> \in accounts
    /\ CanCredit(w, None, lamports)

\* The claim of slot i, out of what there is.
CanPay(w, i, available) ==
    /\ MayClaim(vault, w, i, now)
    /\ ClaimAmount(vault, i, available) > 0
    /\ ClaimAmount(vault, i, available) <= available
    /\ CanCredit(w, vault.mint, ClaimAmount(vault, i, available))

\* claim_sol.
CanClaimSol(w) ==
    open /\ IsSol(vault) /\ \E i \in Slots : CanPay(w, i, Withdrawable)

\* claim_spl.
CanClaimSpl(w, m) ==
    /\ open /\ MintMatches(m) /\ VaultAta(m) \in accounts
    /\ \E i \in Slots : CanPay(w, i, tokens[VaultAta(m)])

-----------------------------------------------------------------------------
(* The answers agree with the guards, instruction by instruction. *)

\* The numbers of a state.
LEMMA Numbers ==
    ASSUME VaultInv
    PROVE  /\ MAX_U64 \in Nat /\ MAX_I64 \in Nat /\ RENT \in Nat /\ RENT <= MAX_U64
           /\ now \in Nat /\ lamports \in Nat /\ lamports <= MAX_U64
           /\ Withdrawable \in Nat /\ Withdrawable <= lamports
           /\ \A w \in Wallets, a \in Assets : purse[w][a] \in Nat
           /\ \A m \in Mints : VaultAta(m) \in Mints \X Places /\ tokens[VaultAta(m)] \in Nat
           /\ vault \in VaultData /\ vault.timeout_seconds \in Nat
           /\ accounts \subseteq Mints \X Places
<1>1. /\ MAX_U64 \in Nat /\ MAX_I64 \in Nat /\ RENT \in Nat /\ RENT <= MAX_U64
      /\ now \in Nat /\ lamports \in Nat /\ lamports <= MAX_U64
      /\ accounts \subseteq Mints \X Places
      /\ vault \in VaultData /\ vault.timeout_seconds \in Nat
  BY WidthAssumption, RentAssumption, ClockAssumption
     DEF VaultInv, TypeOK, Amount, Times, VaultData
<1>2. Withdrawable \in Nat /\ Withdrawable <= lamports
  BY WithdrawableType, WidthAssumption DEF VaultInv, Amount
<1>3. ASSUME NEW w \in Wallets, NEW a \in Assets
      PROVE  purse[w][a] \in Nat
  BY <1>3, WidthAssumption DEF VaultInv, TypeOK, Amount
<1>4. ASSUME NEW m \in Mints
      PROVE  VaultAta(m) \in Mints \X Places /\ tokens[VaultAta(m)] \in Nat
  <2>1. VaultAta(m) \in Mints \X Places
    BY DEF VaultAta, Places
  <2> QED
    BY <2>1, WidthAssumption DEF VaultInv, TypeOK, Amount
<1> QED
  BY <1>1, <1>2, <1>3, <1>4

\* The answer to a list of checks is Ok or an error that has a name, and it is
\* Ok just when the list lets the instruction through.
LEMMA ListAgrees ==
    ASSUME NEW s \in Checks
    PROVE  /\ FirstHit(s) \in {"Ok"} \cup DmsErrors \cup Foreign
           /\ FirstHit(s) = "Ok" <=> s \in Passing
BY AnswerType DEF Passing, Errors

\* The checks that several instructions make, one by one.
LEMMA SharedDecided ==
    ASSUME VaultInv, NEW w, NEW m, NEW amount \in Nat
    PROVE  /\ Exists \in Checks /\ (Exists \in Passing <=> open)
           /\ OwnerSigns(w) \in Checks /\ (OwnerSigns(w) \in Passing <=> w = Owner)
           /\ Armed \in Checks /\ (Armed \in Passing <=> Untripped)
           /\ ForSol \in Checks /\ (ForSol \in Passing <=> IsSol(vault))
           /\ ForSpl \in Checks /\ (ForSpl \in Passing <=> ~IsSol(vault))
           /\ OfMint(m) \in Checks /\ (OfMint(m) \in Passing <=> vault.mint = m)
           /\ HasAta(m) \in Checks /\ (HasAta(m) \in Passing <=> VaultAta(m) \in accounts)
           /\ Positive(amount) \in Checks /\ (Positive(amount) \in Passing <=> amount > 0)
<1>1. vault.is_claimed \in BOOLEAN /\ "VaultTriggered" \in Errors
  BY DEF VaultInv, TypeOK, VaultData, Errors, DmsErrors
<1>2. Armed \in Checks /\ (Armed \in Passing <=> Untripped)
  BY <1>1, OneDecided DEF Armed, Untripped
<1>3. Positive(amount) \in Checks /\ (Positive(amount) \in Passing <=> amount > 0)
  BY SharedChecks DEF Passing
<1> QED
  BY <1>2, <1>3, SharedChecks DEF Passing

\* A transfer, and a move of lamports, are let through when they are covered
\* on both sides; so is an amount that is asked for.
LEMMA TransferDecided ==
    ASSUME NEW amount \in Nat, NEW source \in Nat, NEW target \in Nat
    PROVE  /\ Transferable(amount, source, target) \in Checks
           /\ Transferable(amount, source, target) \in Passing
                <=> amount <= source /\ target + amount <= MAX_U64
           /\ <<Refuse(amount > source, "InsufficientFunds")>> \in Checks
           /\ <<Refuse(amount > source, "InsufficientFunds")>> \in Passing
                <=> amount <= source
<1> DEFINE no  == amount > source \/ target + amount > MAX_U64
           few == amount > source
<1>1. Transferable(amount, source, target) = <<Refuse(no, "Transfer")>>
  BY DEF Transferable
<1>2. /\ ~no <=> amount <= source /\ target + amount <= MAX_U64
      /\ ~few <=> amount <= source
  BY WidthAssumption
<1>3. /\ no \in BOOLEAN /\ few \in BOOLEAN
      /\ "Transfer" \in Errors /\ "InsufficientFunds" \in Errors
  BY DEF Errors, DmsErrors, Foreign
<1> HIDE DEF no, few
<1>4. /\ <<Refuse(no, "Transfer")>> \in Checks
      /\ <<Refuse(no, "Transfer")>> \in Passing <=> ~no
      /\ <<Refuse(few, "InsufficientFunds")>> \in Checks
      /\ <<Refuse(few, "InsufficientFunds")>> \in Passing <=> ~few
  BY <1>3, OneDecided
<1> QED
  BY <1>1, <1>2, <1>4 DEF few

\* The same of move_lamports.
LEMMA MoveDecided ==
    ASSUME VaultInv, NEW amount \in Nat, NEW target \in Nat
    PROVE  /\ Movable(amount, target) \in Checks
           /\ Movable(amount, target) \in Passing
                <=> amount <= lamports /\ target + amount <= MAX_U64
<1> DEFINE few  == amount > lamports
           over == target + amount > MAX_U64
<1>1. /\ ~few <=> amount <= lamports
      /\ ~over <=> target + amount <= MAX_U64
  BY Numbers
<1>2. /\ few \in BOOLEAN /\ over \in BOOLEAN
      /\ "MathOverflow" \in Errors /\ "InsufficientFunds" \in Errors
  BY DEF Errors, DmsErrors
<1>3. Movable(amount, target)
        = <<Refuse(few, "InsufficientFunds"), Refuse(over, "MathOverflow")>>
  BY DEF Movable
<1> HIDE DEF few, over
<1> QED
  BY <1>1, <1>2, <1>3, TwoDecided

\* initialize_vault.
LEMMA InitializeAgrees ==
    ASSUME VaultInv, NEW w \in Wallets, NEW m \in Assets, NEW timeout \in Timeouts,
           NEW inputs \in Tables
    PROVE  Agrees(InitializeVaultAnswer(w, m, timeout, inputs),
                  CanInitializeVault(w, timeout, inputs))
<1> DEFINE taken == w # Owner \/ open
           wrong == ~ValidTimeout(timeout)
           over  == now + timeout > MAX_I64
           a     == <<Refuse(taken, "Anchor")>>
           b     == Transferable(RentDue, purse[w][None], lamports)
           c     == <<Refuse(wrong, "InvalidTimeout")>>
           d     == TableChecks(inputs)
           e     == <<Refuse(over, "MathOverflow")>>
<1>1. /\ "Anchor" \in Errors /\ "InvalidTimeout" \in Errors /\ "MathOverflow" \in Errors
  BY DEF Errors, DmsErrors, Foreign
<1>2. taken \in BOOLEAN /\ wrong \in BOOLEAN /\ over \in BOOLEAN
  OBVIOUS
<1>3. ~over <=> now + timeout <= MAX_I64
  <2>1. now \in Nat /\ timeout \in Int /\ MAX_I64 \in Nat
    BY Numbers, InputAssumption
  <2> QED
    BY <2>1
<1>4. b \in Checks /\ (b \in Passing <=> RentDue <= purse[w][None])
  <2>1. /\ purse[w][None] \in Nat /\ lamports \in Nat /\ lamports <= MAX_U64
        /\ RENT \in Nat /\ RENT <= MAX_U64 /\ MAX_U64 \in Nat
    BY Numbers, NoneIsAnAsset
  <2>2. RentDue \in Nat /\ lamports + RentDue <= MAX_U64
    BY <2>1 DEF RentDue
  <2> QED
    BY <2>1, <2>2, TransferDecided
<1>5. d \in Checks /\ (d \in Passing <=> ValidTable(inputs))
  BY InputAssumption, TableDecided
<1>6. InitializeVaultAnswer(w, m, timeout, inputs) = FirstHit(a \o b \o c \o d \o e)
  BY DEF InitializeVaultAnswer
<1>7. CanInitializeVault(w, timeout, inputs)
        <=> ~taken /\ RentDue <= purse[w][None] /\ ~wrong /\ ValidTable(inputs) /\ ~over
  BY <1>3 DEF CanInitializeVault
<1> HIDE DEF taken, wrong, over, b, d
<1>8. /\ a \in Checks /\ (a \in Passing <=> ~taken)
      /\ c \in Checks /\ (c \in Passing <=> ~wrong)
      /\ e \in Checks /\ (e \in Passing <=> ~over)
  BY <1>1, <1>2, OneDecided
<1> HIDE DEF a, c, e
<1> DEFINE most == a \o b \o c \o d
<1>9. /\ most \in Checks
      /\ most \in Passing <=> a \in Passing /\ b \in Passing /\ c \in Passing /\ d \in Passing
  BY <1>4, <1>5, <1>8, FourDecided
<1>10. InitializeVaultAnswer(w, m, timeout, inputs) = FirstHit(most \o e)
  BY <1>6
<1> HIDE DEF most
<1>11. /\ most \o e \in Checks
       /\ most \o e \in Passing <=> most \in Passing /\ e \in Passing
  BY <1>8, <1>9, JoinDecided
<1>12. CanInitializeVault(w, timeout, inputs) <=> most \o e \in Passing
  BY <1>4, <1>5, <1>7, <1>8, <1>9, <1>11
<1> QED
  BY <1>10, <1>11, <1>12, ListAgrees DEF Agrees

\* check_in.
LEMMA CheckInAgrees ==
    ASSUME VaultInv, NEW w \in Wallets
    PROVE  Agrees(CheckInAnswer(w), CanCheckIn(w))
<1> DEFINE over == now + vault.timeout_seconds > MAX_I64
           last == <<Refuse(over, "MathOverflow")>>
<1>1. ~over <=> DeadlineFits([vault EXCEPT !.last_checkin = now])
  BY Numbers, WidthAssumption DEF DeadlineFits, Deadline, VaultData
<1>2. over \in BOOLEAN /\ "MathOverflow" \in Errors
  BY DEF Errors, DmsErrors
<1>3. CheckInAnswer(w) = FirstHit(Exists \o OwnerSigns(w) \o Armed \o last)
  BY DEF CheckInAnswer
<1> HIDE DEF over
<1>4. last \in Checks /\ (last \in Passing <=> ~over)
  BY <1>2, OneDecided
<1> HIDE DEF last
<1> DEFINE all == Exists \o OwnerSigns(w) \o Armed \o last
<1>5. all \in Checks /\ (all \in Passing <=> HasOne(w) /\ Untripped /\ ~over)
  <2>1. 0 \in Nat
    OBVIOUS
  <2>2. /\ Exists \in Checks /\ (Exists \in Passing <=> open)
        /\ OwnerSigns(w) \in Checks /\ (OwnerSigns(w) \in Passing <=> w = Owner)
        /\ Armed \in Checks /\ (Armed \in Passing <=> Untripped)
    BY <2>1, SharedDecided
  <2> QED
    BY <1>4, <2>2, FourDecided DEF HasOne
<1> HIDE DEF all
<1> QED
  BY <1>1, <1>3, <1>5, ListAgrees DEF Agrees, CanCheckIn, all

\* set_beneficiaries.
LEMMA RestateAgrees ==
    ASSUME VaultInv, NEW w \in Wallets, NEW inputs \in Tables
    PROVE  Agrees(SetBeneficiariesAnswer(w, inputs), CanSetBeneficiaries(w, inputs))
<1> DEFINE table == TableChecks(inputs)
           all   == Exists \o OwnerSigns(w) \o Armed \o table
<1>1. table \in Checks /\ (table \in Passing <=> ValidTable(inputs))
  BY InputAssumption, TableDecided
<1>2. SetBeneficiariesAnswer(w, inputs) = FirstHit(all)
  BY DEF SetBeneficiariesAnswer
<1> HIDE DEF table
<1>3. all \in Checks /\ (all \in Passing <=> HasOne(w) /\ Untripped /\ ValidTable(inputs))
  <2>1. 0 \in Nat
    OBVIOUS
  <2>2. /\ Exists \in Checks /\ (Exists \in Passing <=> open)
        /\ OwnerSigns(w) \in Checks /\ (OwnerSigns(w) \in Passing <=> w = Owner)
        /\ Armed \in Checks /\ (Armed \in Passing <=> Untripped)
    BY <2>1, SharedDecided
  <2> QED
    BY <1>1, <2>2, FourDecided DEF HasOne
<1> HIDE DEF all
<1> QED
  BY <1>2, <1>3, ListAgrees DEF Agrees, CanSetBeneficiaries

\* What the four instructions that move the owner's money check first.
LEMMA OwnerDecided ==
    ASSUME VaultInv, NEW w \in Wallets, NEW m
    PROVE  /\ Exists \o OwnerSigns(w) \o ForSol \o Armed \in Checks
           /\ Exists \o OwnerSigns(w) \o ForSol \o Armed \in Passing
                <=> HasOne(w) /\ IsSol(vault) /\ Untripped
           /\ Exists \o OwnerSigns(w) \o ForSpl \o Armed \in Checks
           /\ Exists \o OwnerSigns(w) \o ForSpl \o Armed \in Passing
                <=> HasOne(w) /\ ~IsSol(vault) /\ Untripped
           /\ Exists \o HasAta(m) \o OwnerSigns(w) \o ForSpl \in Checks
           /\ Exists \o HasAta(m) \o OwnerSigns(w) \o ForSpl \in Passing
                <=> HasOne(w) /\ ~IsSol(vault) /\ VaultAta(m) \in accounts
<1>1. 0 \in Nat
  OBVIOUS
<1>2. /\ Exists \in Checks /\ (Exists \in Passing <=> open)
      /\ OwnerSigns(w) \in Checks /\ (OwnerSigns(w) \in Passing <=> w = Owner)
      /\ Armed \in Checks /\ (Armed \in Passing <=> Untripped)
      /\ ForSol \in Checks /\ (ForSol \in Passing <=> IsSol(vault))
      /\ ForSpl \in Checks /\ (ForSpl \in Passing <=> ~IsSol(vault))
      /\ HasAta(m) \in Checks /\ (HasAta(m) \in Passing <=> VaultAta(m) \in accounts)
  BY <1>1, SharedDecided
<1>3. /\ Exists \o OwnerSigns(w) \o ForSol \o Armed \in Checks
      /\ Exists \o OwnerSigns(w) \o ForSol \o Armed \in Passing
           <=> HasOne(w) /\ IsSol(vault) /\ Untripped
  BY <1>2, FourDecided DEF HasOne
<1>4. /\ Exists \o OwnerSigns(w) \o ForSpl \o Armed \in Checks
      /\ Exists \o OwnerSigns(w) \o ForSpl \o Armed \in Passing
           <=> HasOne(w) /\ ~IsSol(vault) /\ Untripped
  BY <1>2, FourDecided DEF HasOne
<1>5. /\ Exists \o HasAta(m) \o OwnerSigns(w) \o ForSpl \in Checks
      /\ Exists \o HasAta(m) \o OwnerSigns(w) \o ForSpl \in Passing
           <=> HasOne(w) /\ ~IsSol(vault) /\ VaultAta(m) \in accounts
  BY <1>2, FourDecided DEF HasOne
<1> QED
  BY <1>3, <1>4, <1>5

\* deposit_sol.
LEMMA DepositSolAgrees ==
    ASSUME VaultInv, NEW w \in Wallets, NEW amount \in Nat
    PROVE  Agrees(DepositSolAnswer(w, amount), CanDepositSol(w, amount))
<1> DEFINE front == Exists \o OwnerSigns(w) \o ForSol \o Armed
           move  == Transferable(amount, purse[w][None], lamports)
           all   == front \o Positive(amount) \o move
<1>1. front \in Checks /\ (front \in Passing <=> HasOne(w) /\ IsSol(vault) /\ Untripped)
  BY OwnerDecided
<1>2. Positive(amount) \in Checks /\ (Positive(amount) \in Passing <=> amount > 0)
  BY SharedDecided
<1>3. /\ move \in Checks
      /\ move \in Passing <=> amount <= purse[w][None] /\ lamports + amount <= MAX_U64
  <2>1. purse[w][None] \in Nat /\ lamports \in Nat
    BY Numbers, NoneIsAnAsset
  <2> QED
    BY <2>1, TransferDecided
<1>4. DepositSolAnswer(w, amount) = FirstHit(all)
  BY DEF DepositSolAnswer
<1> HIDE DEF front, move
<1>5. /\ all \in Checks
      /\ all \in Passing <=> front \in Passing /\ Positive(amount) \in Passing /\ move \in Passing
  BY <1>1, <1>2, <1>3, FourDecided
<1> HIDE DEF all
<1> QED
  BY <1>1, <1>2, <1>3, <1>4, <1>5, ListAgrees DEF Agrees, CanDepositSol

\* deposit_spl.
LEMMA DepositSplAgrees ==
    ASSUME VaultInv, NEW w \in Wallets, NEW m \in Mints, NEW amount \in Nat
    PROVE  Agrees(DepositSplAnswer(w, m, amount), CanDepositSpl(w, m, amount))
<1> DEFINE front == Exists \o OwnerSigns(w) \o ForSpl \o Armed
           move  == Transferable(amount, purse[w][m], tokens[VaultAta(m)])
           all   == front \o OfMint(m) \o Positive(amount) \o move
<1>1. front \in Checks /\ (front \in Passing <=> HasOne(w) /\ ~IsSol(vault) /\ Untripped)
  BY OwnerDecided
<1>2. /\ OfMint(m) \in Checks /\ (OfMint(m) \in Passing <=> vault.mint = m)
      /\ Positive(amount) \in Checks /\ (Positive(amount) \in Passing <=> amount > 0)
  BY SharedDecided
<1>3. /\ move \in Checks
      /\ move \in Passing
           <=> amount <= purse[w][m] /\ tokens[VaultAta(m)] + amount <= MAX_U64
  <2>1. purse[w][m] \in Nat /\ tokens[VaultAta(m)] \in Nat
    BY Numbers, NoneIsAnAsset
  <2> QED
    BY <2>1, TransferDecided
<1>4. DepositSplAnswer(w, m, amount) = FirstHit(all)
  BY DEF DepositSplAnswer
<1> HIDE DEF front, move
<1>5. /\ all \in Checks
      /\ all \in Passing <=> /\ front \in Passing /\ OfMint(m) \in Passing
                             /\ Positive(amount) \in Passing /\ move \in Passing
  BY <1>1, <1>2, <1>3, FourDecided
<1> HIDE DEF all
<1> QED
  BY <1>1, <1>2, <1>3, <1>4, <1>5, ListAgrees DEF Agrees, CanDepositSpl, MintMatches

\* withdraw_sol.
LEMMA WithdrawSolAgrees ==
    ASSUME VaultInv, NEW w \in Wallets, NEW amount \in Nat
    PROVE  Agrees(WithdrawSolAnswer(w, amount), CanWithdrawSol(w, amount))
<1> DEFINE front == Exists \o OwnerSigns(w) \o ForSol \o Armed
           few   == <<Refuse(amount > Withdrawable, "InsufficientFunds")>>
           move  == Movable(amount, purse[w][None])
           all   == front \o Positive(amount) \o few \o move
<1>1. front \in Checks /\ (front \in Passing <=> HasOne(w) /\ IsSol(vault) /\ Untripped)
  BY OwnerDecided
<1>2. Positive(amount) \in Checks /\ (Positive(amount) \in Passing <=> amount > 0)
  BY SharedDecided
<1>3. /\ purse[w][None] \in Nat /\ Withdrawable \in Nat /\ lamports \in Nat
      /\ Withdrawable <= lamports
  BY Numbers, NoneIsAnAsset
<1>4. few \in Checks /\ (few \in Passing <=> amount <= Withdrawable)
  BY <1>3, TransferDecided
<1>5. /\ move \in Checks
      /\ move \in Passing <=> amount <= lamports /\ purse[w][None] + amount <= MAX_U64
  BY <1>3, MoveDecided
<1>6. WithdrawSolAnswer(w, amount) = FirstHit(all)
  BY DEF WithdrawSolAnswer
<1> HIDE DEF front, few, move
<1>7. /\ all \in Checks
      /\ all \in Passing <=> /\ front \in Passing /\ Positive(amount) \in Passing
                             /\ few \in Passing /\ move \in Passing
  BY <1>1, <1>2, <1>4, <1>5, FourDecided
<1>8. amount <= Withdrawable => amount <= lamports
  BY <1>3
<1> HIDE DEF all
<1>9. CanWithdrawSol(w, amount) <=> all \in Passing
  BY <1>1, <1>2, <1>4, <1>5, <1>7, <1>8 DEF CanWithdrawSol, CanCredit
<1> QED
  BY <1>6, <1>7, <1>9, ListAgrees DEF Agrees

\* withdraw_spl.
LEMMA WithdrawSplAgrees ==
    ASSUME VaultInv, NEW w \in Wallets, NEW m \in Mints, NEW amount \in Nat
    PROVE  Agrees(WithdrawSplAnswer(w, m, amount), CanWithdrawSpl(w, m, amount))
<1> DEFINE held  == tokens[VaultAta(m)]
           front == Exists \o HasAta(m) \o OwnerSigns(w) \o ForSpl
           most  == front \o Armed \o OfMint(m) \o Positive(amount)
           few   == <<Refuse(amount > held, "InsufficientFunds")>>
           move  == Transferable(amount, held, purse[w][m])
           all   == most \o few \o move
<1>1. /\ front \in Checks
      /\ front \in Passing <=> HasOne(w) /\ ~IsSol(vault) /\ VaultAta(m) \in accounts
  BY OwnerDecided
<1>2. /\ Armed \in Checks /\ (Armed \in Passing <=> Untripped)
      /\ OfMint(m) \in Checks /\ (OfMint(m) \in Passing <=> vault.mint = m)
      /\ Positive(amount) \in Checks /\ (Positive(amount) \in Passing <=> amount > 0)
  BY SharedDecided
<1>3. held \in Nat /\ purse[w][m] \in Nat
  BY Numbers, NoneIsAnAsset
<1>4. /\ few \in Checks /\ (few \in Passing <=> amount <= held)
      /\ move \in Checks
      /\ move \in Passing <=> amount <= held /\ purse[w][m] + amount <= MAX_U64
  BY <1>3, TransferDecided
<1>5. WithdrawSplAnswer(w, m, amount) = FirstHit(all)
  BY DEF WithdrawSplAnswer
<1> HIDE DEF front, few, move
<1>6. /\ most \in Checks
      /\ most \in Passing <=> /\ front \in Passing /\ Armed \in Passing
                              /\ OfMint(m) \in Passing /\ Positive(amount) \in Passing
  BY <1>1, <1>2, FourDecided
<1> HIDE DEF most
<1>7. /\ all \in Checks
      /\ all \in Passing <=> most \in Passing /\ few \in Passing /\ move \in Passing
  BY <1>4, <1>6, FourDecided
<1> HIDE DEF all
<1>8. CanWithdrawSpl(w, m, amount) <=> all \in Passing
  BY <1>1, <1>2, <1>4, <1>6, <1>7 DEF CanWithdrawSpl, CanCredit, MintMatches
<1> QED
  BY <1>5, <1>7, <1>8, ListAgrees DEF Agrees

\* Three checks let an instruction through when none of them is hit.
LEMMA ThreeDecided ==
    ASSUME NEW c \in BOOLEAN, NEW d \in BOOLEAN, NEW h \in BOOLEAN,
           NEW e \in Errors, NEW f \in Errors, NEW g \in Errors
    PROVE  /\ <<Refuse(c, e), Refuse(d, f), Refuse(h, g)>> \in Checks
           /\ <<Refuse(c, e), Refuse(d, f), Refuse(h, g)>> \in Passing <=> ~c /\ ~d /\ ~h
BY ThreeChecks, OkIsNoError DEF Passing

\* close_vault.
LEMMA CloseAgrees ==
    ASSUME VaultInv, NEW w \in Wallets, NEW place \in Places
    PROVE  Agrees(CloseVaultAnswer(w, place), CanCloseVault(w, place))
<1> DEFINE given == <<vault.mint, place>> \in accounts
           held  == tokens[<<vault.mint, place>>]
           rest  == IsSol(vault) /\ Withdrawable > 0
           none  == ~IsSol(vault) /\ ~given
           full  == given /\ held > 0
           three == <<Refuse(rest, "VaultNotEmpty"), Refuse(none, "MissingTokenAccount"),
                      Refuse(full, "VaultNotEmpty")>>
           move  == Transferable(lamports, lamports, purse[w][None])
           all   == Exists \o OwnerSigns(w) \o three \o move
<1>1. ~rest /\ ~none /\ ~full
        <=> Emptied(place) /\ (IsSol(vault) \/ <<vault.mint, place>> \in accounts)
  <2>1. CASE IsSol(vault)
    <3>1. ~given
      BY <2>1, Numbers, MintAssumption DEF IsSol
    <3>2. Withdrawable \in Nat
      BY Numbers
    <3>3. ~(Withdrawable > 0) <=> Emptied(place)
      BY <2>1, <3>2 DEF Emptied
    <3> QED
      BY <2>1, <3>1, <3>3
  <2>2. CASE ~IsSol(vault)
    <3>1. held \in Nat
      <4>1. <<vault.mint, place>> \in Mints \X Places
        BY <2>2, HoldingType DEF VaultInv
      <4> QED
        BY <4>1, WidthAssumption DEF VaultInv, TypeOK, Amount
    <3>2. ~(held > 0) <=> Emptied(place)
      BY <2>2, <3>1 DEF Emptied
    <3> HIDE DEF held
    <3> QED
      BY <2>2, <3>2
  <2> QED
    BY <2>1, <2>2
<1>2. /\ rest \in BOOLEAN /\ none \in BOOLEAN /\ full \in BOOLEAN
      /\ "VaultNotEmpty" \in Errors /\ "MissingTokenAccount" \in Errors
  BY DEF Errors, DmsErrors
<1>3. move \in Checks /\ (move \in Passing <=> purse[w][None] + lamports <= MAX_U64)
  <2>1. purse[w][None] \in Nat /\ lamports \in Nat
    BY Numbers, NoneIsAnAsset
  <2>2. /\ move \in Checks
        /\ move \in Passing <=> lamports <= lamports /\ purse[w][None] + lamports <= MAX_U64
    BY <2>1, TransferDecided, Zenon
  <2> HIDE DEF move
  <2> QED
    BY <2>1, <2>2
<1>4. CloseVaultAnswer(w, place) = FirstHit(all)
  BY DEF CloseVaultAnswer
<1> HIDE DEF rest, none, full, move
<1>5. three \in Checks /\ (three \in Passing <=> ~rest /\ ~none /\ ~full)
  BY <1>2, ThreeDecided
<1>6. /\ Exists \in Checks /\ (Exists \in Passing <=> open)
      /\ OwnerSigns(w) \in Checks /\ (OwnerSigns(w) \in Passing <=> w = Owner)
  <2>1. 0 \in Nat
    OBVIOUS
  <2> QED
    BY <2>1, SharedDecided
<1> HIDE DEF three
<1>7. /\ all \in Checks
      /\ all \in Passing <=> /\ Exists \in Passing /\ OwnerSigns(w) \in Passing
                             /\ three \in Passing /\ move \in Passing
  BY <1>3, <1>5, <1>6, FourDecided
<1> HIDE DEF all
<1>8. CanCloseVault(w, place) <=> all \in Passing
  BY <1>1, <1>3, <1>5, <1>6, <1>7 DEF CanCloseVault, CanCredit, HasOne
<1> QED
  BY <1>4, <1>7, <1>8, ListAgrees DEF Agrees

\* Whoever index_of finds is an heir with that key.
LEMMA IndexOfIsHeir ==
    ASSUME NEW v \in VaultData, NEW key
    PROVE  IndexOf(v, key) # 0 =>
               /\ IndexOf(v, key) \in Active(v)
               /\ v.beneficiaries[IndexOf(v, key)].address = key
<1> DEFINE n == v.beneficiary_count
           s == SubSeq(v.beneficiaries, 1, n)
           I == {j \in 1..Len(s) : s[j].address = key}
<1>1. n \in 0..5 /\ v.beneficiaries \in [1..5 -> Beneficiary]
  BY DEF VaultData, Slots, MAX_BENEFICIARIES
<1>2. \A j \in 1..n : v.beneficiaries[j] \in Beneficiary
  BY <1>1
<1>3. Len(s) = n /\ \A j \in 1..n : s[j] = v.beneficiaries[j]
  <2>1. n \in Int /\ 1 \in Int
    BY <1>1
  <2>2. /\ Len(s) = IF 1 <= n THEN n - 1 + 1 ELSE 0
        /\ \A j \in 1..(n - 1 + 1) : s[j] = v.beneficiaries[1 + j - 1]
    BY <1>2, <2>1, SubSeqProperties
  <2> HIDE DEF s
  <2> QED
    BY <1>1, <2>2
<1>4. IndexOf(v, key) = IF I # {} THEN Min(I) ELSE 0
  BY DEF IndexOf, SelectInSeq
<1>5. I # {} => Min(I) \in I
  <2>1. I \subseteq Nat
    OBVIOUS
  <2> HIDE DEF I
  <2> QED
    BY <2>1, LeastExists DEF Min
<1>6. IndexOf(v, key) # 0 => IndexOf(v, key) \in I
  BY <1>4, <1>5
<1>7. \A j \in I : j \in Active(v) /\ v.beneficiaries[j].address = key
  BY <1>3 DEF Active
<1> HIDE DEF I
<1> QED
  BY <1>6, <1>7

\* authorize_claim lets the heirs through who may claim, and nobody else.
LEMMA ClaimantDecided ==
    ASSUME VaultInv, NEW w \in Wallets
    PROVE  /\ ClaimantChecks(w) \in Checks
           /\ open => (ClaimantChecks(w) \in Passing
                         <=> \E i \in Slots : MayClaim(vault, w, i, now))
<1> DEFINE i      == IndexOf(vault, w)
           unfit  == ~DeadlineFits(vault)
           late   == now < Deadline(vault)
           nobody == i = 0
           paid   == i # 0 /\ vault.beneficiaries[i].claimed
           a      == <<Refuse(unfit, "MathOverflow")>>
           b      == <<Refuse(late, "TimeoutNotReached"), Refuse(nobody, "Unauthorized"),
                       Refuse(paid, "AlreadyClaimed")>>
<1>1. /\ "TimeoutNotReached" \in Errors /\ "Unauthorized" \in Errors
      /\ "AlreadyClaimed" \in Errors /\ "MathOverflow" \in Errors
  BY DEF Errors, DmsErrors
<1>2. unfit \in BOOLEAN /\ late \in BOOLEAN /\ nobody \in BOOLEAN /\ paid \in BOOLEAN
  OBVIOUS
<1>3. ClaimantChecks(w) = a \o b
  BY DEF ClaimantChecks, DeadlineChecks
<1>4. ASSUME open
      PROVE  ~unfit /\ ~late /\ ~nobody /\ ~paid
               <=> \E j \in Slots : MayClaim(vault, w, j, now)
  <2>1. vault \in VaultData /\ WellFormedTable(vault)
    BY <1>4 DEF VaultInv, TypeOK, HeirTableValid
  <2>2. now \in Nat /\ Deadline(vault) \in Nat
    BY <1>4, ClockAssumption, WidthAssumption DEF VaultInv, TypeOK, DeadlineInRange, Times
  <2>3. ~unfit /\ ~late <=> IsExpired(vault, now)
    BY <2>2 DEF IsExpired
  <2>4. ASSUME ~nobody, ~paid, IsExpired(vault, now)
        PROVE  \E j \in Slots : MayClaim(vault, w, j, now)
    <3>1. i \in Active(vault) /\ vault.beneficiaries[i].address = w
      BY <2>1, <2>4, IndexOfIsHeir
    <3>2. ~vault.beneficiaries[i].claimed
      BY <2>4
    <3> HIDE DEF i
    <3>3. \A j \in 1..(i - 1) : vault.beneficiaries[j].address # w
      <4>1. \A j \in 1..(i - 1) : j \in Active(vault) /\ j # i
        BY <2>1, <3>1 DEF Active, VaultData, MAX_BENEFICIARIES
      <4> QED
        BY <2>1, <3>1, <4>1 DEF WellFormedTable
    <3>4. i \in Slots
      BY <2>1, <3>1, ActiveInSlots
    <3> QED
      BY <2>4, <3>1, <3>2, <3>3, <3>4 DEF MayClaim, HeirAt
  <2>5. ASSUME NEW j \in Slots, MayClaim(vault, w, j, now)
        PROVE  ~nobody /\ ~paid /\ IsExpired(vault, now)
    <3>1. /\ j \in Active(vault) /\ vault.beneficiaries[j].address = w
          /\ ~vault.beneficiaries[j].claimed /\ IsExpired(vault, now)
      BY <2>5 DEF MayClaim, HeirAt
    <3>2. i = j
      BY <2>1, <3>1, IndexOfHeir
    <3>3. j # 0
      BY DEF Slots
    <3> QED
      BY <3>1, <3>2, <3>3
  <2> HIDE DEF unfit, late, nobody, paid
  <2> QED
    BY <2>3, <2>4, <2>5
<1> HIDE DEF unfit, late, nobody, paid
<1>5. a \in Checks /\ (a \in Passing <=> ~unfit)
  BY <1>1, <1>2, OneDecided
<1>6. b \in Checks /\ (b \in Passing <=> ~late /\ ~nobody /\ ~paid)
  BY <1>1, <1>2, ThreeDecided
<1> HIDE DEF a, b
<1>7. a \o b \in Checks /\ (a \o b \in Passing <=> a \in Passing /\ b \in Passing)
  BY <1>5, <1>6, JoinDecided
<1> QED
  BY <1>3, <1>4, <1>5, <1>6, <1>7

\* What the claim handlers ask of the amount names an error, whoever claims;
\* to who may claim it lets through what can be paid.
LEMMA PayoutDecided ==
    ASSUME VaultInv, NEW w \in Wallets, NEW available \in Amount
    PROVE  /\ PayoutChecks(w, available) \in Checks
           /\ \A i \in Slots : open /\ MayClaim(vault, w, i, now) =>
                (PayoutChecks(w, available) \in Passing <=> CanPay(w, i, available))
<1> DEFINE k      == IndexOf(vault, w)
           amount == ClaimAmount(vault, k, available)
           none == k # 0 /\ amount = 0
           much == k # 0 /\ amount > available
           over == k # 0 /\ purse[w][vault.mint] + amount > MAX_U64
           e == IF IsSol(vault) THEN "MathOverflow" ELSE "Transfer"
<1>1. /\ none \in BOOLEAN /\ much \in BOOLEAN /\ over \in BOOLEAN
      /\ "InsufficientFunds" \in Errors /\ e \in Errors
  BY DEF Errors, DmsErrors, Foreign
<1>2. PayoutChecks(w, available)
        = <<Refuse(none, "InsufficientFunds"), Refuse(much, "InsufficientFunds"),
            Refuse(over, e)>>
  BY DEF PayoutChecks
<1>3. ASSUME NEW i \in Slots, open, MayClaim(vault, w, i, now)
      PROVE  ~none /\ ~much /\ ~over <=> CanPay(w, i, available)
  <2>1. vault \in VaultData /\ WellFormedTable(vault)
    BY <1>3 DEF VaultInv, TypeOK, HeirTableValid
  <2>2. k = i /\ k # 0
    <3>1. i \in Active(vault) /\ vault.beneficiaries[i].address = w /\ i # 0
      BY <1>3 DEF MayClaim, HeirAt, Slots
    <3> QED
      BY <2>1, <3>1, IndexOfHeir
  <2>3. amount \in Nat /\ available \in Nat /\ MAX_U64 \in Nat
    BY <2>1, <2>2, ClaimAmountType, WidthAssumption DEF Amount
  <2>4. purse[w][vault.mint] \in Nat
    <3>1. vault.mint \in Assets
      BY <2>1 DEF VaultData, Assets
    <3> QED
      BY <3>1, Numbers
  <2>5. amount = ClaimAmount(vault, i, available)
    BY <2>2
  <2> HIDE DEF amount, k
  <2>6. ~none <=> amount > 0
    BY <2>2, <2>3
  <2>7. ~much <=> amount <= available
    BY <2>2, <2>3
  <2>8. ~over <=> purse[w][vault.mint] + amount <= MAX_U64
    BY <2>2, <2>3, <2>4
  <2> HIDE DEF none, much, over
  <2> QED
    BY <1>3, <2>5, <2>6, <2>7, <2>8 DEF CanPay, CanCredit
<1> HIDE DEF none, much, over, e
<1>4. /\ PayoutChecks(w, available) \in Checks
      /\ PayoutChecks(w, available) \in Passing <=> ~none /\ ~much /\ ~over
  BY <1>1, <1>2, ThreeDecided
<1> QED
  BY <1>3, <1>4

\* A claim of what there is passes just when some slot can be paid.
LEMMA ClaimDecided ==
    ASSUME VaultInv, NEW w \in Wallets, NEW available \in Amount
    PROVE  /\ ClaimChecks(w, available) \in Checks
           /\ open => (ClaimChecks(w, available) \in Passing
                         <=> \E i \in Slots : CanPay(w, i, available))
<1> DEFINE c == ClaimantChecks(w)
           p == PayoutChecks(w, available)
<1>1. /\ c \in Checks
      /\ open => (c \in Passing <=> \E i \in Slots : MayClaim(vault, w, i, now))
  BY ClaimantDecided
<1>2. /\ p \in Checks
      /\ \A i \in Slots : open /\ MayClaim(vault, w, i, now) =>
            (p \in Passing <=> CanPay(w, i, available))
  BY PayoutDecided
<1>3. ClaimChecks(w, available) = c \o p
  BY DEF ClaimChecks
<1> HIDE DEF c, p
<1>4. c \o p \in Checks /\ (c \o p \in Passing <=> c \in Passing /\ p \in Passing)
  BY <1>1, <1>2, JoinDecided
<1>5. \A i \in Slots : CanPay(w, i, available) => MayClaim(vault, w, i, now)
  BY DEF CanPay
<1> QED
  BY <1>1, <1>2, <1>3, <1>4, <1>5

\* claim_sol.
LEMMA ClaimSolAgrees ==
    ASSUME VaultInv, NEW w \in Wallets
    PROVE  Agrees(ClaimSolAnswer(w), CanClaimSol(w))
<1> DEFINE claim == ClaimChecks(w, Withdrawable)
           all   == Exists \o ForSol \o claim
<1>1. /\ claim \in Checks
      /\ open => (claim \in Passing <=> \E i \in Slots : CanPay(w, i, Withdrawable))
  BY WithdrawableType, ClaimDecided DEF VaultInv
<1>2. /\ Exists \in Checks /\ (Exists \in Passing <=> open)
      /\ ForSol \in Checks /\ (ForSol \in Passing <=> IsSol(vault))
  <2>1. 0 \in Nat
    OBVIOUS
  <2> QED
    BY <2>1, SharedDecided
<1>3. ClaimSolAnswer(w) = FirstHit(all)
  BY DEF ClaimSolAnswer
<1> HIDE DEF claim
<1>4. /\ all \in Checks
      /\ all \in Passing <=> Exists \in Passing /\ ForSol \in Passing /\ claim \in Passing
  BY <1>1, <1>2, FourDecided
<1> HIDE DEF all
<1>5. CanClaimSol(w) <=> all \in Passing
  BY <1>1, <1>2, <1>4 DEF CanClaimSol
<1> QED
  BY <1>3, <1>4, <1>5, ListAgrees DEF Agrees

\* claim_spl.
LEMMA ClaimSplAgrees ==
    ASSUME VaultInv, NEW w \in Wallets, NEW m \in Mints
    PROVE  Agrees(ClaimSplAnswer(w, m), CanClaimSpl(w, m))
<1> DEFINE held  == tokens[VaultAta(m)]
           claim == ClaimChecks(w, held)
           front == Exists \o HasAta(m) \o ForSpl \o OfMint(m)
           all   == front \o claim
<1>1. /\ claim \in Checks
      /\ open => (claim \in Passing <=> \E i \in Slots : CanPay(w, i, held))
  <2>1. held \in Amount
    <3>1. VaultAta(m) \in Mints \X Places
      BY Numbers
    <3> QED
      BY <3>1 DEF VaultInv, TypeOK
  <2> QED
    BY <2>1, ClaimDecided
<1>2. /\ Exists \in Checks /\ (Exists \in Passing <=> open)
      /\ HasAta(m) \in Checks /\ (HasAta(m) \in Passing <=> VaultAta(m) \in accounts)
      /\ ForSpl \in Checks /\ (ForSpl \in Passing <=> ~IsSol(vault))
      /\ OfMint(m) \in Checks /\ (OfMint(m) \in Passing <=> vault.mint = m)
  <2>1. 0 \in Nat
    OBVIOUS
  <2> QED
    BY <2>1, SharedDecided
<1>3. ClaimSplAnswer(w, m) = FirstHit(all)
  BY DEF ClaimSplAnswer
<1> HIDE DEF claim
<1>4. /\ front \in Checks
      /\ front \in Passing <=> /\ Exists \in Passing /\ HasAta(m) \in Passing
                               /\ ForSpl \in Passing /\ OfMint(m) \in Passing
  BY <1>2, FourDecided
<1> HIDE DEF front
<1>5. all \in Checks /\ (all \in Passing <=> front \in Passing /\ claim \in Passing)
  BY <1>1, <1>4, JoinDecided
<1> HIDE DEF all
<1>6. CanClaimSpl(w, m) <=> all \in Passing
  BY <1>1, <1>2, <1>4, <1>5 DEF CanClaimSpl, MintMatches
<1> QED
  BY <1>3, <1>5, <1>6, ListAgrees DEF Agrees

\* RefusedWithReason with the guards in the place of ENABLED, and of the errors
\* only that they have a name.
AnswersAgree ==
    \A w \in Wallets :
        /\ \A m \in Assets, timeout \in Timeouts, inputs \in Tables :
              Agrees(InitializeVaultAnswer(w, m, timeout, inputs),
                     CanInitializeVault(w, timeout, inputs))
        /\ Agrees(CheckInAnswer(w), CanCheckIn(w))
        /\ \A inputs \in Tables :
              Agrees(SetBeneficiariesAnswer(w, inputs), CanSetBeneficiaries(w, inputs))
        /\ \A amount \in Amounts :
              /\ Agrees(DepositSolAnswer(w, amount), CanDepositSol(w, amount))
              /\ Agrees(WithdrawSolAnswer(w, amount), CanWithdrawSol(w, amount))
        /\ \A m \in Mints, amount \in Amounts :
              /\ Agrees(DepositSplAnswer(w, m, amount), CanDepositSpl(w, m, amount))
              /\ Agrees(WithdrawSplAnswer(w, m, amount), CanWithdrawSpl(w, m, amount))
        /\ \A place \in Places :
              Agrees(CloseVaultAnswer(w, place), CanCloseVault(w, place))
        /\ Agrees(ClaimSolAnswer(w), CanClaimSol(w))
        /\ \A m \in Mints : Agrees(ClaimSplAnswer(w, m), CanClaimSpl(w, m))

\* Every instruction, of whoever and with whatever arguments, is answered as
\* its guard says.
LEMMA AllAgree == VaultInv => AnswersAgree
<1> SUFFICES ASSUME VaultInv, NEW w \in Wallets
             PROVE  AnswersAgree!(w)
  BY DEF AnswersAgree
<1>1. \A m \in Assets, timeout \in Timeouts, inputs \in Tables :
        Agrees(InitializeVaultAnswer(w, m, timeout, inputs),
               CanInitializeVault(w, timeout, inputs))
  BY InitializeAgrees
<1>2. Agrees(CheckInAnswer(w), CanCheckIn(w))
  BY CheckInAgrees
<1>3. \A inputs \in Tables :
        Agrees(SetBeneficiariesAnswer(w, inputs), CanSetBeneficiaries(w, inputs))
  BY RestateAgrees
<1>4. ASSUME NEW amount \in Amounts
      PROVE  /\ Agrees(DepositSolAnswer(w, amount), CanDepositSol(w, amount))
             /\ Agrees(WithdrawSolAnswer(w, amount), CanWithdrawSol(w, amount))
  <2>1. amount \in Nat
    BY InputAssumption
  <2> QED
    BY <2>1, DepositSolAgrees, WithdrawSolAgrees
<1>5. ASSUME NEW m \in Mints, NEW amount \in Amounts
      PROVE  /\ Agrees(DepositSplAnswer(w, m, amount), CanDepositSpl(w, m, amount))
             /\ Agrees(WithdrawSplAnswer(w, m, amount), CanWithdrawSpl(w, m, amount))
  <2>1. amount \in Nat
    BY InputAssumption
  <2> QED
    BY <2>1, DepositSplAgrees, WithdrawSplAgrees
<1>6. \A place \in Places : Agrees(CloseVaultAnswer(w, place), CanCloseVault(w, place))
  BY CloseAgrees
<1>7. Agrees(ClaimSolAnswer(w), CanClaimSol(w))
  BY ClaimSolAgrees
<1>8. \A m \in Mints : Agrees(ClaimSplAnswer(w, m), CanClaimSpl(w, m))
  BY ClaimSplAgrees
<1> QED
  BY <1>1, <1>2, <1>3, <1>4, <1>5, <1>6, <1>7, <1>8

\* One step of whichever instruction has its guard.
GuardStep ==
    \A w \in Wallets :
        /\ \A m \in Assets, timeout \in Timeouts, inputs \in Tables :
              InitializeVault(w, m, timeout, inputs) => CanInitializeVault(w, timeout, inputs)
        /\ CheckIn(w) => CanCheckIn(w)
        /\ \A inputs \in Tables : SetBeneficiaries(w, inputs) => CanSetBeneficiaries(w, inputs)
        /\ \A amount \in Amounts :
              /\ DepositSol(w, amount) => CanDepositSol(w, amount)
              /\ WithdrawSol(w, amount) => CanWithdrawSol(w, amount)
        /\ \A m \in Mints, amount \in Amounts :
              /\ DepositSpl(w, m, amount) => CanDepositSpl(w, m, amount)
              /\ WithdrawSpl(w, m, amount) => CanWithdrawSpl(w, m, amount)
        /\ \A place \in Places : CloseVault(w, place) => CanCloseVault(w, place)
        /\ ClaimSol(w) => CanClaimSol(w)
        /\ \A m \in Mints : ClaimSpl(w, m) => CanClaimSpl(w, m)

\* The guards are those of the actions.
LEMMA StepHasGuard == GuardStep
<1> SUFFICES ASSUME NEW w \in Wallets
             PROVE  GuardStep!(w)
  BY DEF GuardStep
<1>1. ASSUME NEW m \in Assets, NEW timeout \in Timeouts, NEW inputs \in Tables
      PROVE  InitializeVault(w, m, timeout, inputs) => CanInitializeVault(w, timeout, inputs)
  BY DEF InitializeVault, CanInitializeVault, DeadlineFits, Deadline, Debit
<1>2. CheckIn(w) => CanCheckIn(w)
  BY DEF CheckIn, CanCheckIn
<1>3. ASSUME NEW inputs \in Tables
      PROVE  SetBeneficiaries(w, inputs) => CanSetBeneficiaries(w, inputs)
  BY DEF SetBeneficiaries, CanSetBeneficiaries
<1>4. ASSUME NEW amount \in Amounts
      PROVE  /\ DepositSol(w, amount) => CanDepositSol(w, amount)
             /\ WithdrawSol(w, amount) => CanWithdrawSol(w, amount)
  BY DEF DepositSol, TransferLamports, Debit, CanDepositSol,
         WithdrawSol, MoveLamports, Credit, CanWithdrawSol
<1>5. ASSUME NEW m \in Mints, NEW amount \in Amounts
      PROVE  /\ DepositSpl(w, m, amount) => CanDepositSpl(w, m, amount)
             /\ WithdrawSpl(w, m, amount) => CanWithdrawSpl(w, m, amount)
  BY DEF DepositSpl, TokensIn, Debit, CanDepositSpl,
         WithdrawSpl, TokensOut, Credit, CanWithdrawSpl, VaultAta
<1>6. ASSUME NEW place \in Places
      PROVE  CloseVault(w, place) => CanCloseVault(w, place)
  BY DEF CloseVault, CanCloseVault, Credit
<1>7. ClaimSol(w) => CanClaimSol(w)
  <2> SUFFICES ASSUME ClaimSol(w)
               PROVE  CanClaimSol(w)
    OBVIOUS
  <2>1. PICK i \in Slots :
            /\ MayClaim(vault, w, i, now)
            /\ ClaimAmount(vault, i, Withdrawable) > 0
            /\ ClaimAmount(vault, i, Withdrawable) <= Withdrawable
            /\ CanCredit(w, None, ClaimAmount(vault, i, Withdrawable))
    BY DEF ClaimSol, MoveLamports, Credit
  <2>2. open /\ IsSol(vault) /\ vault.mint = None
    BY DEF ClaimSol, IsSol
  <2> QED
    BY <2>1, <2>2 DEF CanClaimSol, CanPay
<1>8. ASSUME NEW m \in Mints
      PROVE  ClaimSpl(w, m) => CanClaimSpl(w, m)
  <2> SUFFICES ASSUME ClaimSpl(w, m)
               PROVE  CanClaimSpl(w, m)
    OBVIOUS
  <2> DEFINE held == tokens[VaultAta(m)]
  <2>1. PICK i \in Slots :
            /\ MayClaim(vault, w, i, now)
            /\ ClaimAmount(vault, i, held) > 0
            /\ ClaimAmount(vault, i, held) <= held
            /\ CanCredit(w, m, ClaimAmount(vault, i, held))
    BY DEF ClaimSpl, TokensOut, Credit, VaultAta
  <2>2. open /\ MintMatches(m) /\ vault.mint = m /\ VaultAta(m) \in accounts
    BY DEF ClaimSpl, MintMatches
  <2> QED
    BY <2>1, <2>2 DEF CanClaimSpl, CanPay
<1> QED
  BY <1>1, <1>2, <1>3, <1>4, <1>5, <1>6, <1>7, <1>8

\* The owner of an open vault that no heir has moved on may check in, unless the
\* deadline would overflow.
LEMMA CheckInIsOk ==
    ASSUME VaultInv, HasOne(Owner), Untripped,
           DeadlineFits([vault EXCEPT !.last_checkin = now])
    PROVE  CheckInAnswer(Owner) = "Ok"
<1>1. Agrees(CheckInAnswer(Owner), CanCheckIn(Owner))
  BY WalletAssumption, CheckInAgrees
<1> QED
  BY <1>1 DEF Agrees, CanCheckIn

\* One step, of whichever instruction: what goes through is answered Ok.
OkStep ==
    \A w \in Wallets :
        /\ \A m \in Assets, timeout \in Timeouts, inputs \in Tables :
              InitializeVault(w, m, timeout, inputs)
                  => InitializeVaultAnswer(w, m, timeout, inputs) = "Ok"
        /\ CheckIn(w) => CheckInAnswer(w) = "Ok"
        /\ \A inputs \in Tables :
              SetBeneficiaries(w, inputs) => SetBeneficiariesAnswer(w, inputs) = "Ok"
        /\ \A amount \in Amounts :
              /\ DepositSol(w, amount) => DepositSolAnswer(w, amount) = "Ok"
              /\ WithdrawSol(w, amount) => WithdrawSolAnswer(w, amount) = "Ok"
        /\ \A m \in Mints, amount \in Amounts :
              /\ DepositSpl(w, m, amount) => DepositSplAnswer(w, m, amount) = "Ok"
              /\ WithdrawSpl(w, m, amount) => WithdrawSplAnswer(w, m, amount) = "Ok"
        /\ \A place \in Places :
              CloseVault(w, place) => CloseVaultAnswer(w, place) = "Ok"
        /\ ClaimSol(w) => ClaimSolAnswer(w) = "Ok"
        /\ \A m \in Mints : ClaimSpl(w, m) => ClaimSplAnswer(w, m) = "Ok"

\* Every instruction that goes through is answered Ok.
LEMMA StepIsOk == VaultInv => OkStep
BY AllAgree, StepHasGuard DEF AnswersAgree, GuardStep, Agrees, OkStep

-----------------------------------------------------------------------------
(* The owner. *)

\* The owner of a vault that no heir has moved on can take out all it holds.
LEMMA OwnerTakesAll == VaultInv /\ Conserved => OwnerCanTakeAllBack
<1> SUFFICES ASSUME VaultInv, Conserved, open, ~vault.is_claimed, Holding > 0
             PROVE  IF IsSol(vault)
                    THEN WithdrawSolAnswer(Owner, Holding) = "Ok"
                    ELSE WithdrawSplAnswer(Owner, vault.mint, Holding) = "Ok"
  BY DEF OwnerCanTakeAllBack
<1> DEFINE m == vault.mint
<1>1. /\ HasOne(Owner) /\ Untripped /\ Owner \in Wallets /\ Holding \in Nat
      /\ purse[Owner][m] + Holding <= MAX_U64
  BY HoldingFits, WalletAssumption DEF HasOne, Untripped
<1>2. CASE IsSol(vault)
  <2>1. m = None /\ Holding = Withdrawable /\ Holding <= Withdrawable
    BY <1>1, <1>2 DEF IsSol, Holding
  <2>2. Agrees(WithdrawSolAnswer(Owner, Holding), CanWithdrawSol(Owner, Holding))
    BY <1>1, WithdrawSolAgrees
  <2> QED
    BY <1>1, <1>2, <2>1, <2>2 DEF Agrees, CanWithdrawSol, CanCredit
<1>3. CASE ~IsSol(vault)
  <2>1. m \in Mints /\ MintMatches(m) /\ Holding = tokens[VaultAta(m)]
    BY <1>3, HoldingType DEF VaultInv, MintMatches, Holding
  <2>2. VaultAta(m) \in accounts
    <3>1. VaultAta(m) \in Mints \X Places
      BY <2>1, Numbers
    <3>2. VaultAta(m) \notin accounts => tokens[VaultAta(m)] = 0
      BY <3>1 DEF Conserved
    <3> QED
      BY <1>1, <2>1, <3>2
  <2>3. Holding <= tokens[VaultAta(m)]
    BY <1>1, <2>1
  <2>4. Agrees(WithdrawSplAnswer(Owner, m, Holding), CanWithdrawSpl(Owner, m, Holding))
    BY <1>1, <2>1, WithdrawSplAgrees
  <2> QED
    BY <1>1, <1>3, <2>1, <2>2, <2>3, <2>4 DEF Agrees, CanWithdrawSpl, CanCredit
<1> QED
  BY <1>2, <1>3

-----------------------------------------------------------------------------
(* After the last claim. *)

\* What the owner of a settled vault can be refused for.
ClosableWhenEmpty ==
    Settled => (Closable <=> /\ Holding = 0
                             /\ IsSol(vault) \/ VaultAta(vault.mint) \in accounts)

\* What is on the PDA fits in the owner's wallet, so the two are all.
LEMMA ClosableMeans == VaultInv /\ Conserved => ClosableWhenEmpty
<1> SUFFICES ASSUME VaultInv, Conserved, Settled
             PROVE  Closable <=> /\ Holding = 0
                                 /\ IsSol(vault) \/ VaultAta(vault.mint) \in accounts
  BY DEF ClosableWhenEmpty
<1>1. Owner \in Wallets /\ ATA \in Places /\ open
  BY WalletAssumption DEF Places, Settled
<1>2. HasOne(Owner) /\ CanCredit(Owner, None, lamports)
  BY <1>1, CreditFits DEF VaultInv, HasOne, CanCredit
<1>3. Emptied(ATA) <=> Holding = 0
  BY DEF Emptied, Holding, VaultAta
<1>4. Closable <=> CanCloseVault(Owner, ATA)
  BY <1>1, CloseAgrees DEF Closable, Agrees
<1> QED
  BY <1>2, <1>3, <1>4 DEF CanCloseVault, VaultAta

\* A token account of the PDA is only closed together with the vault.
LEMMA AccountsStay ==
    ASSUME [Next]_vars, open \/ ~open', open'
    PROVE  accounts \subseteq accounts'
<1>1. ASSUME NEW w \in Wallets, OwnerInstruction(w)
      PROVE  accounts \subseteq accounts'
  BY <1>1 DEF OwnerInstruction, InitializeVault, CheckIn, SetBeneficiaries, DepositSol,
              DepositSpl, WithdrawSol, WithdrawSpl, CloseVault
<1>2. ASSUME NEW w \in Wallets, Claim(w)
      PROVE  accounts \subseteq accounts'
  BY <1>2 DEF Claim, ClaimSol, ClaimSpl
<1>3. ASSUME NEW w \in Wallets, Gift(w)
      PROVE  accounts \subseteq accounts'
  BY <1>3 DEF Gift, SendLamports, CreateTokenAccount, SendTokens
<1>4. Tick \/ UNCHANGED vars => accounts \subseteq accounts'
  BY DEF Tick, vars
<1> QED
  BY <1>1, <1>2, <1>3, <1>4 DEF Next

\* What a vault of tokens holds lies in an account that exists.
LEMMA HeldInAccount ==
    ASSUME VaultInv, Conserved, Holding # 0
    PROVE  IsSol(vault) \/ VaultAta(vault.mint) \in accounts
<1> SUFFICES ASSUME ~IsSol(vault), VaultAta(vault.mint) \notin accounts
             PROVE  FALSE
  OBVIOUS
<1>1. Holding = 0
  BY HoldingType DEF VaultInv, Conserved, Holding
<1> QED
  BY <1>1

\* Only a claim leaves nobody unpaid, of a vault that holds something.
LEMMA SettledByClaim ==
    ASSUME VaultInv, Conserved, [Next]_vars, Settled', ~Settled
    PROVE  /\ open /\ Unclaimed(vault) # {} /\ vault'.mint = vault.mint
           /\ IsSol(vault) \/ VaultAta(vault.mint) \in accounts
<1>1. vault \in VaultData
  BY DEF VaultInv, TypeOK
<1>2. ~QuietStep
  BY DEF QuietStep, Settled, Unclaimed, Active
<1>3. ASSUME NEW w \in Wallets, NEW m \in Assets, NEW timeout \in Timeouts,
             NEW inputs \in Tables
      PROVE  ~InitializeVault(w, m, timeout, inputs)
  BY DEF InitializeVault, Settled
<1>4. ASSUME NEW w \in Wallets
      PROVE  ~CheckIn(w)
  BY <1>1 DEF CheckIn, Untripped, Settled, VaultData
<1>5. ASSUME NEW w \in Wallets, NEW inputs \in Tables
      PROVE  ~SetBeneficiaries(w, inputs)
  BY <1>1 DEF SetBeneficiaries, Untripped, Settled, VaultData
<1>6. ASSUME NEW w \in Wallets, NEW place \in Places
      PROVE  ~CloseVault(w, place)
  BY DEF CloseVault, Settled
<1>7. PICK w \in Wallets, i \in Slots : ClaimStep(w, i)
  BY <1>2, <1>3, <1>4, <1>5, <1>6, StepShape DEF VaultInv
<1>8. i \in Unclaimed(vault)
  BY <1>7 DEF ClaimStep, MayClaim, HeirAt, Unclaimed
<1>9. Holding # 0
  BY <1>7, HoldingType DEF ClaimStep, VaultInv
<1>10. vault'.mint = vault.mint
  BY <1>1, <1>7 DEF ClaimStep, BookClaim, VaultData
<1> QED
  BY <1>7, <1>8, <1>9, <1>10, HeldInAccount DEF ClaimStep

\* The last claim sweeps, and after it the vault only gets what is sent to it.
LEMMA SettledOfSteps ==
    ASSUME VaultInv, Conserved, TypeOK', ClosableWhenEmpty, ClosableWhenEmpty',
           SweepStep, FrozenStep, [Next]_vars
    PROVE  SettledStep
<1> SUFFICES ASSUME Settled', ~Settled \/ Closable, ~(Holding' > Holding)
             PROVE  Closable'
  BY DEF SettledStep
<1>1. open' /\ Unclaimed(vault') = {} /\ Holding \in Nat /\ Holding' \in Nat
  <2>1. open' /\ Unclaimed(vault') = {}
    BY DEF Settled, Unclaimed, Active
  <2>2. Holding \in Nat
    BY HoldingType, WidthAssumption DEF VaultInv, Amount
  <2>3. Holding' \in Nat
    BY NextHoldingType
  <2> QED
    BY <2>1, <2>2, <2>3
<1>2. CASE ~Settled
  <2>1. /\ open /\ vault'.mint = vault.mint /\ Unclaimed(vault) # {}
        /\ IsSol(vault) \/ VaultAta(vault.mint) \in accounts
    BY <1>2, SettledByClaim
  <2>2. Holding' = 0
    BY <1>1, <2>1 DEF SweepStep
  <2> QED
    BY <1>1, <2>1, <2>2, AccountsStay DEF ClosableWhenEmpty, IsSol, VaultAta
<1>3. CASE Settled /\ Closable
  <2>1. /\ Holding = 0
        /\ IsSol(vault) \/ VaultAta(vault.mint) \in accounts
    BY <1>3 DEF ClosableWhenEmpty
  <2>2. open /\ vault'.mint = vault.mint
    BY <1>1, <1>3 DEF Settled, FrozenStep, VaultInv, TypeOK, VaultData
  <2>3. Holding' = 0
    BY <1>1, <2>1
  <2> QED
    BY <1>1, <2>1, <2>2, <2>3, AccountsStay DEF ClosableWhenEmpty, IsSol, VaultAta
<1> QED
  BY <1>2, <1>3

-----------------------------------------------------------------------------
(* The theorems. *)

\* In every state the program can be in, an heir who repeats a claim that went
\* through is told that it did (authorize_claim checks the flag before the
\* amount is looked at).
THEOREM PaidAlwaysTold == Spec => []PaidHeirIsTold
<1>1. VaultInv => PaidHeirIsTold
  BY PaidIsTold
<1> QED
  BY <1>1, Invariant, PTL

\* In every state the program can be in, no heir whose time has come is refused
\* for an overflow or for missing funds (process_claim, move_lamports): what
\* is owed is there, and fits, because no more of an asset exists than a u64
\* counts.
THEOREM EligibleAlwaysServed == Spec => []EligibleHeirIsServed
<1>1. VaultInv /\ Conserved => EligibleHeirIsServed
  BY EligibleIsServed
<1> QED
  BY <1>1, Invariant, AlwaysConserved, PTL

\* In every state the program can be in, the owner of a vault that no heir has
\* moved on is let to take out all of it (withdraw_sol, withdraw_spl), overdue
\* or not.
THEOREM OwnerAlwaysCan == Spec => []OwnerCanTakeAllBack
<1>1. VaultInv /\ Conserved => OwnerCanTakeAllBack
  BY OwnerTakesAll
<1> QED
  BY <1>1, Invariant, AlwaysConserved, PTL

\* The owner gets the rent back: for any heirs, gifts and token accounts, the last
\* claim leaves a vault that close_vault accepts, for as long as nobody sends it
\* more of its own asset.
THEOREM SettledIsClosable == Spec => LastClaimLetsClose
<1>1. VaultInv => TypeOK
  BY DEF VaultInv
<1>2. VaultInv /\ Conserved => ClosableWhenEmpty
  BY ClosableMeans
<1>3. VaultInv /\ Conserved /\ TypeOK' /\ ClosableWhenEmpty /\ ClosableWhenEmpty'
      /\ [SweepStep]_vars /\ [FrozenStep]_vars /\ [Next]_vars => [SettledStep]_vars
  BY SettledOfSteps
<1> QED
  BY <1>1, <1>2, <1>3, Invariant, AlwaysConserved, AlwaysSwept, AlwaysFrozen, PTL
     DEF Spec, LastClaimLetsClose, LastHeirSweeps, TrippedIsFinal

\* Every answer means what it says: in every state the program can be in, for
\* every wallet and every argument, an instruction is answered Ok just when all
\* that its action asks for is the case, and is told an error that error.rs
\* names, or a foreign one, when it is not; whatever the order of the checks.
THEOREM AnswersMeanIt == Spec => []AnswersAgree
<1>1. VaultInv => AnswersAgree
  BY AllAgree
<1> QED
  BY <1>1, Invariant, PTL

\* What is refused does not happen: in every state the program can be in and
\* for every input, an instruction that goes through is one whose checks, in the
\* order of the code, are all passed.
THEOREM WhatHappensWasOk == Spec => [][OkStep]_vars
BY StepIsOk, Invariant, PTL DEF Spec

=============================================================================
