-------------------------- MODULE VaultCodecProofs --------------------------
(***************************************************************************)
(* What the keeper reads is what the program wrote, for every width of the *)
(* fields and every vault: first numbers as bytes, then a buffer read at   *)
(* an offset, then the layout field by field.                              *)
(***************************************************************************)
EXTENDS VaultCodec, SequenceTheorems, WellFoundedInduction, TLAPS

-----------------------------------------------------------------------------
(* Recursion.  A recursive function is what its equation says only where   *)
(* such a function exists, so that comes first.  Where the argument is an   *)
(* induction it takes a smallest counterexample.                           *)

\* A set of natural numbers has a least element.
LEMMA LeastExists ==
    ASSUME NEW S, S \subseteq Nat, S # {}
    PROVE  \E x \in S : \A y \in S : x <= y
<1>1. PICK x \in S : \A y \in S : ~(<<y, x>> \in OpToRel(<, Nat))
  BY NatLessThanWellFounded, WFMin
<1>2. \A y \in S : ~(y < x)
  BY <1>1 DEF OpToRel
<1> QED
  BY <1>2

\* The first n steps of a recursion.
Steps(g, n, D, a, F) ==
    /\ g \in [0..n -> D]
    /\ g[0] = a
    /\ \A k \in 0..(n - 1) : g[k + 1] = F[k][g[k]]

\* All of them.
Recurs(h, D, a, F) ==
    /\ h \in [Nat -> D]
    /\ h[0] = a
    /\ \A k \in Nat : h[k + 1] = F[k][h[k]]

\* Any number of steps can be made.
LEMMA StepsExist ==
    ASSUME NEW D, NEW a \in D, NEW F \in [Nat -> [D -> D]], NEW n \in Nat
    PROVE  \E g : Steps(g, n, D, a, F)
<1> DEFINE C == {m \in Nat : ~\E g : Steps(g, m, D, a, F)}
<1>1. SUFFICES ASSUME C # {}
               PROVE  FALSE
  OBVIOUS
<1>2. PICK m \in C : \A k \in C : m <= k
  <2>1. C \subseteq Nat
    OBVIOUS
  <2> HIDE DEF C
  <2> QED
    BY <1>1, <2>1, LeastExists
<1>3. m # 0
  <2>1. Steps([k \in 0..0 |-> a], 0, D, a, F)
    BY DEF Steps
  <2> QED
    BY <1>2, <2>1
<1>4. m \in Nat /\ m - 1 \in Nat /\ m - 1 \notin C
  BY <1>2, <1>3
<1>5. PICK g : Steps(g, m - 1, D, a, F)
  BY <1>4
<1> DEFINE h == [k \in 0..m |-> IF k = m THEN F[m - 1][g[m - 1]] ELSE g[k]]
<1>6. ASSUME NEW k \in 0..(m - 1)
      PROVE  g[k] \in D /\ h[k] = g[k] /\ h[k + 1] = F[k][g[k]]
  <2>1. g[k] \in D /\ h[k] = g[k]
    BY <1>4, <1>5 DEF Steps
  <2>2. CASE k = m - 1
    BY <1>4, <2>1, <2>2
  <2>3. CASE k # m - 1
    <3>1. k \in 0..((m - 1) - 1) /\ k + 1 \in 0..(m - 1)
      BY <1>4, <2>3
    <3>2. g[k + 1] = F[k][g[k]]
      BY <1>5, <3>1 DEF Steps
    <3>3. h[k + 1] = g[k + 1]
      BY <1>4, <3>1
    <3> QED
      BY <2>1, <3>2, <3>3
  <2> QED
    BY <2>1, <2>2, <2>3
<1>7. h[0] = a
  BY <1>3, <1>4, <1>5 DEF Steps
<1>8. h \in [0..m -> D]
  <2>1. ASSUME NEW k \in 0..m
        PROVE  h[k] \in D
    <3>1. CASE k = m
      <4>1. m - 1 \in 0..(m - 1) /\ (m - 1) + 1 = m
        BY <1>4
      <4>2. g[m - 1] \in D /\ h[m] = F[m - 1][g[m - 1]]
        BY <1>6, <4>1
      <4> QED
        BY <1>4, <3>1, <4>2
    <3>2. CASE k # m
      <4>1. k \in 0..(m - 1)
        BY <1>4, <3>2
      <4> QED
        BY <1>6, <4>1
    <3> QED
      BY <3>1, <3>2
  <2> QED
    BY <2>1
<1>9. Steps(h, m, D, a, F)
  <2> HIDE DEF h
  <2> QED
    BY <1>6, <1>7, <1>8 DEF Steps
<1> QED
  BY <1>2, <1>9

\* Two such runs agree as far as both go.
LEMMA StepsAgree ==
    ASSUME NEW D, NEW a, NEW F, NEW n \in Nat, NEW m \in Nat, NEW g, NEW h,
           Steps(g, n, D, a, F), Steps(h, m, D, a, F), NEW k \in Nat, k <= n, k <= m
    PROVE  g[k] = h[k]
<1> DEFINE C == {j \in Nat : j <= n /\ j <= m /\ g[j] # h[j]}
<1>1. SUFFICES ASSUME C # {}
               PROVE  FALSE
  OBVIOUS
<1>2. PICK j \in C : \A i \in C : j <= i
  <2>1. C \subseteq Nat
    OBVIOUS
  <2> HIDE DEF C
  <2> QED
    BY <1>1, <2>1, LeastExists
<1>3. j # 0
  BY <1>2 DEF Steps
<1>4. j - 1 \in 0..(n - 1) /\ j - 1 \in 0..(m - 1) /\ (j - 1) + 1 = j
  BY <1>2, <1>3
<1>5. g[j - 1] = h[j - 1]
  BY <1>2, <1>4
<1>6. g[j] = F[j - 1][g[j - 1]] /\ h[j] = F[j - 1][h[j - 1]]
  <2>1. /\ g[(j - 1) + 1] = F[j - 1][g[j - 1]]
        /\ h[(j - 1) + 1] = F[j - 1][h[j - 1]]
    BY <1>4 DEF Steps
  <2> QED
    BY <1>4, <2>1
<1> QED
  BY <1>2, <1>5, <1>6

\* So there is a function that makes them all.
LEMMA Recursion ==
    ASSUME NEW D, NEW a \in D, NEW F \in [Nat -> [D -> D]]
    PROVE  \E h : Recurs(h, D, a, F)
<1> DEFINE G(k) == CHOOSE g : Steps(g, k, D, a, F)
           h == [k \in Nat |-> G(k)[k]]
<1>1. \A k \in Nat : Steps(G(k), k, D, a, F)
  BY StepsExist
<1> HIDE DEF G
<1>2. h \in [Nat -> D]
  BY <1>1 DEF Steps
<1>3. h[0] = a
  BY <1>1 DEF Steps
<1>4. ASSUME NEW k \in Nat
      PROVE  h[k + 1] = F[k][h[k]]
  <2>1. G(k + 1)[k + 1] = F[k][G(k + 1)[k]]
    <3>1. k + 1 \in Nat /\ k \in 0..((k + 1) - 1)
      OBVIOUS
    <3>2. Steps(G(k + 1), k + 1, D, a, F)
      BY <1>1, <3>1
    <3> QED
      BY <3>1, <3>2 DEF Steps
  <2>2. G(k + 1)[k] = G(k)[k]
    <3>1. k + 1 \in Nat /\ k <= k + 1 /\ k <= k
      OBVIOUS
    <3>2. Steps(G(k + 1), k + 1, D, a, F) /\ Steps(G(k), k, D, a, F)
      BY <1>1, <3>1
    <3> QED
      BY <3>1, <3>2, StepsAgree
  <2> QED
    BY <2>1, <2>2
<1>5. Recurs(h, D, a, F)
  <2> HIDE DEF h
  <2> QED
    BY <1>2, <1>3, <1>4 DEF Recurs
<1> QED
  BY <1>5

\* So Power is what its definition says.
LEMMA PowerIs ==
    Power = [k \in Nat |-> IF k = 0 THEN 1 ELSE BASE * Power[k - 1]]
<1> DEFINE F == [k \in Nat |-> [x \in Nat |-> BASE * x]]
<1>1. F \in [Nat -> [Nat -> Nat]]
  BY WidthAssumption
<1>2. PICK h : Recurs(h, Nat, 1, F)
  <2>1. 1 \in Nat
    OBVIOUS
  <2> HIDE DEF F
  <2> QED
    BY <1>1, <2>1, Recursion, Zenon
<1>3. ASSUME NEW k \in Nat
      PROVE  h[k] = IF k = 0 THEN 1 ELSE BASE * h[k - 1]
  <2>1. CASE k = 0
    BY <1>2, <2>1 DEF Recurs
  <2>2. CASE k # 0
    <3>1. k - 1 \in Nat /\ (k - 1) + 1 = k
      BY <2>2
    <3>2. h[(k - 1) + 1] = F[k - 1][h[k - 1]]
      BY <1>2, <3>1 DEF Recurs
    <3>3. F[k - 1][h[k - 1]] = BASE * h[k - 1]
      BY <1>2, <3>1 DEF Recurs
    <3> QED
      BY <2>2, <3>1, <3>2, <3>3
  <2> QED
    BY <2>1, <2>2
<1>4. h = [k \in Nat |-> IF k = 0 THEN 1 ELSE BASE * h[k - 1]]
  BY <1>2, <1>3 DEF Recurs
<1> QED
  BY <1>4, Zenon DEF Power

-----------------------------------------------------------------------------
(* Powers. *)

\* The first power and the next.
LEMMA PowerStep ==
    Power[0] = 1 /\ \A k \in Nat : Power[k + 1] = BASE * Power[k]
<1>1. \A k \in Nat : Power[k] = IF k = 0 THEN 1 ELSE BASE * Power[k - 1]
  BY PowerIs
<1>2. ASSUME NEW k \in Nat
      PROVE  Power[k + 1] = BASE * Power[k]
  <2>1. k + 1 \in Nat /\ k + 1 # 0 /\ (k + 1) - 1 = k
    OBVIOUS
  <2> QED
    BY <1>1, <2>1
<1> QED
  BY <1>1, <1>2

\* Powers are positive.
LEMMA PowerType == \A k \in Nat : Power[k] \in Nat \ {0}
<1> DEFINE C == {k \in Nat : Power[k] \notin Nat \ {0}}
<1>1. SUFFICES ASSUME C # {}
               PROVE  FALSE
  OBVIOUS
<1>2. PICK k \in C : \A j \in C : k <= j
  <2>1. C \subseteq Nat
    OBVIOUS
  <2> HIDE DEF C
  <2> QED
    BY <1>1, <2>1, LeastExists
<1>3. k # 0
  BY <1>2, PowerStep
<1>4. k - 1 \in Nat /\ Power[k - 1] \in Nat \ {0}
  BY <1>2, <1>3
<1>5. Power[k] = BASE * Power[k - 1]
  <2>1. (k - 1) + 1 = k
    BY <1>2
  <2> QED
    BY <1>4, <2>1, PowerStep
<1>6. BASE * Power[k - 1] \in Nat \ {0}
  <2> DEFINE q == Power[k - 1]
  <2>1. q \in Nat /\ q >= 1 /\ BASE \in Nat /\ BASE >= 1
    BY <1>4, WidthAssumption
  <2> HIDE DEF q
  <2>2. BASE * q >= 1
    BY <2>1
  <2> QED
    BY <2>1, <2>2 DEF q
<1> QED
  BY <1>2, <1>5, <1>6

-----------------------------------------------------------------------------
(* Numbers and their bytes. *)

\* Quotient and remainder.
LEMMA Division ==
    ASSUME NEW a \in Nat, NEW b \in Nat, b # 0
    PROVE  /\ a \div b \in Nat /\ a % b \in 0..(b - 1)
           /\ a = b * (a \div b) + (a % b)
OBVIOUS

\* There is only one of each.
LEMMA QuotientIs ==
    ASSUME NEW a \in Nat, NEW b \in Nat, b # 0,
           NEW q \in Nat, NEW r \in 0..(b - 1), a = b * q + r
    PROVE  a \div b = q
<1> DEFINE p == a \div b
           t == a % b
<1>1. p \in Nat /\ t \in 0..(b - 1) /\ a = b * p + t
  BY Division
<1> HIDE DEF p, t
<1>2. ASSUME p < q
      PROVE  FALSE
  <2>1. b * (p + 1) <= b * q
    BY <1>1, <1>2
  <2>2. b * (p + 1) = b * p + b
    BY <1>1
  <2> QED
    BY <1>1, <2>1, <2>2
<1>3. ASSUME q < p
      PROVE  FALSE
  <2>1. b * (q + 1) <= b * p
    BY <1>1, <1>3
  <2>2. b * (q + 1) = b * q + b
    OBVIOUS
  <2> QED
    BY <1>1, <2>1, <2>2
<1> QED
  BY <1>1, <1>2, <1>3 DEF p

\* What is left of a number after k bytes is one byte more, and what is left
\* after that.
LEMMA NextByte ==
    ASSUME NEW x \in Nat, NEW k \in Nat
    PROVE  x \div Power[k] =
               ((x \div Power[k]) % BASE) + BASE * (x \div Power[k + 1])
<1> DEFINE P == Power[k]
           q == x \div P
           r == x % P
           s == q \div BASE
           t == q % BASE
<1>1. P \in Nat /\ P # 0 /\ BASE \in Nat /\ BASE # 0
  BY PowerType, WidthAssumption
<1>2. Power[k + 1] = BASE * P
  BY PowerStep
<1>3. q \in Nat /\ r \in 0..(P - 1) /\ x = P * q + r
  BY <1>1, Division
<1>4. s \in Nat /\ t \in 0..(BASE - 1) /\ q = BASE * s + t
  <2> HIDE DEF q
  <2> QED
    BY <1>1, <1>3, Division
<1>5. x \div (BASE * P) = s
  <2> HIDE DEF P, q, r, s, t
  <2>1. x = P * (BASE * s + t) + r
    BY <1>3, <1>4
  <2>2. x = (BASE * P) * s + (P * t + r)
    BY <1>1, <1>3, <1>4, <2>1
  <2>3. P * t + r \in 0..(BASE * P - 1)
    <3>1. P * t \in Nat /\ P * t <= P * (BASE - 1)
      BY <1>1, <1>4
    <3>2. P * (BASE - 1) = BASE * P - P
      BY <1>1
    <3> QED
      BY <1>1, <1>3, <3>1, <3>2
  <2>4. BASE * P \in Nat /\ BASE * P # 0
    BY <1>1
  <2> DEFINE D == BASE * P
             e == P * t + r
  <2>5. D \in Nat /\ D # 0 /\ e \in 0..(D - 1) /\ x = D * s + e
    BY <2>2, <2>3, <2>4
  <2> HIDE DEF D, e
  <2>6. x \div D = s
    BY <1>4, <2>5, QuotientIs
  <2> QED
    BY <2>6 DEF D
<1> HIDE DEF P, s, t, r
<1>6. q = t + BASE * s
  <2> HIDE DEF q
  <2> QED
    BY <1>1, <1>3, <1>4
<1> QED
  BY <1>2, <1>5, <1>6 DEF P, s, t

\* The intermediate results of Number.
Amounts(h, s) ==
    h = [i \in 0..Len(s) |->
            IF i = Len(s) THEN 0 ELSE s[i + 1] + BASE * h[i + 1]]

\* They are the only ones.
LEMMA AmountsAgree ==
    ASSUME NEW s, Len(s) \in Nat, NEW g, NEW h, Amounts(g, s), Amounts(h, s)
    PROVE  g[0] = h[0]
<1> DEFINE n == Len(s)
           C == {d \in Nat : d <= n /\ g[n - d] # h[n - d]}
<1>1. SUFFICES ASSUME C # {}
               PROVE  FALSE
  <2>1. n \in Nat /\ n - n = 0
    OBVIOUS
  <2> QED
    BY <2>1
<1>2. PICK d \in C : \A e \in C : d <= e
  <2>1. C \subseteq Nat
    OBVIOUS
  <2> HIDE DEF C
  <2> QED
    BY <1>1, <2>1, LeastExists
<1> DEFINE i == n - d
<1>3. /\ g[i] = IF i = n THEN 0 ELSE s[i + 1] + BASE * g[i + 1]
      /\ h[i] = IF i = n THEN 0 ELSE s[i + 1] + BASE * h[i + 1]
  <2>1. i \in 0..n
    BY <1>2
  <2> HIDE DEF C, i
  <2> QED
    BY <2>1 DEF Amounts
<1>4. d # 0 => g[i + 1] = h[i + 1]
  <2>1. d # 0 => d - 1 \in Nat /\ d - 1 <= n /\ ~(d <= d - 1) /\ n - (d - 1) = i + 1
    BY <1>2
  <2> QED
    BY <1>2, <2>1
<1> QED
  BY <1>2, <1>3, <1>4

\* Number reads what Bytes wrote.
LEMMA NumberOfBytes ==
    ASSUME NEW w \in Nat, NEW x \in Unsigned(w)
    PROVE  Number(Bytes(x, w)) = x
<1> DEFINE s == Bytes(x, w)
           h == [i \in 0..w |-> x \div Power[i]]
<1>1. x \in Nat /\ x < Power[w] /\ Power[w] \in Nat \ {0}
  BY PowerType DEF Unsigned
<1>2. Len(s) = w
  BY DEF Bytes
<1>3. h[w] = 0
  <2> DEFINE P == Power[w]
  <2>1. P \in Nat /\ P # 0 /\ x \in 0..(P - 1) /\ x = P * 0 + x
    BY <1>1
  <2> HIDE DEF P
  <2>2. x \div P = 0
    BY <1>1, <2>1, QuotientIs
  <2> QED
    BY <2>2 DEF P
<1>4. ASSUME NEW i \in 0..w, i # w
      PROVE  h[i] = s[i + 1] + BASE * h[i + 1]
  <2>1. i \in Nat /\ i + 1 \in 1..w /\ i + 1 \in 0..w /\ (i + 1) - 1 = i
    BY <1>4
  <2>2. s[i + 1] = (x \div Power[i]) % BASE
    BY <2>1 DEF Bytes
  <2> QED
    BY <1>1, <2>1, <2>2, NextByte
<1>5. Amounts(h, s)
  <2>1. h = [i \in 0..w |-> h[i]]
    OBVIOUS
  <2> HIDE DEF h, s
  <2> QED
    BY <1>2, <1>3, <1>4, <2>1 DEF Amounts
<1>6. h[0] = x
  <2>1. x \div 1 = x
    BY <1>1
  <2> QED
    BY <2>1, PowerStep
<1> DEFINE c == CHOOSE g : Amounts(g, s)
<1>7. Amounts(c, s)
  BY <1>5
<1>8. Number(s) = c[0]
  BY Zenon DEF Number, Amounts
<1> HIDE DEF s, h, c
<1>9. c[0] = h[0]
  BY <1>2, <1>5, <1>7, AmountsAgree
<1> QED
  BY <1>6, <1>8, <1>9 DEF s

-----------------------------------------------------------------------------
(* Where in a buffer something stands. *)

Octets == Seq(Nat)

\* f is what stands in s from the offset on.
At(s, off, f) ==
    /\ off + Len(f) <= Len(s)
    /\ \A i \in 1..Len(f) : s[off + i] = f[i]

\* Two pieces in a row.
LEMMA JoinType ==
    ASSUME NEW f \in Octets, NEW g \in Octets
    PROVE  f \o g \in Octets /\ Len(f \o g) = Len(f) + Len(g)
BY ConcatProperties DEF Octets

\* Of two pieces in a row each stands where it should.
LEMMA AtSplit ==
    ASSUME NEW s \in Octets, NEW f \in Octets, NEW g \in Octets, NEW off \in Nat,
           At(s, off, f \o g)
    PROVE  At(s, off, f) /\ At(s, off + Len(f), g)
<1>1. /\ Len(f) \in Nat /\ Len(g) \in Nat /\ Len(s) \in Nat
      /\ Len(f \o g) = Len(f) + Len(g)
  BY DEF Octets
<1>2. ASSUME NEW i \in 1..Len(f)
      PROVE  s[off + i] = f[i]
  <2>1. i \in 1..Len(f \o g) /\ (f \o g)[i] = f[i]
    BY <1>1 DEF Octets
  <2> QED
    BY <2>1 DEF At
<1>3. ASSUME NEW i \in 1..Len(g)
      PROVE  s[(off + Len(f)) + i] = g[i]
  <2>1. Len(f) + i \in 1..Len(f \o g) /\ (f \o g)[Len(f) + i] = g[i]
    BY <1>1 DEF Octets
  <2>2. off + (Len(f) + i) = (off + Len(f)) + i
    BY <1>1
  <2> QED
    BY <2>1, <2>2 DEF At
<1> QED
  BY <1>1, <1>2, <1>3 DEF At

\* What stands in a piece stands in the whole.
LEMMA AtWithin ==
    ASSUME NEW s \in Octets, NEW f \in Octets, NEW g \in Octets,
           NEW off \in Nat, NEW d \in Nat, At(s, off, f), At(f, d, g)
    PROVE  At(s, off + d, g)
<1>1. Len(f) \in Nat /\ Len(g) \in Nat /\ Len(s) \in Nat
  BY DEF Octets
<1>2. ASSUME NEW i \in 1..Len(g)
      PROVE  s[(off + d) + i] = g[i]
  <2>1. d + i \in 1..Len(f) /\ (off + d) + i = off + (d + i)
    BY <1>1 DEF At
  <2> QED
    BY <2>1 DEF At
<1> QED
  BY <1>1, <1>2 DEF At

\* The pieces of a whole.
LEMMA AtConcat ==
    ASSUME NEW f \in Octets, NEW g \in Octets
    PROVE  At(f \o g, 0, f) /\ At(f \o g, Len(f), g)
<1>1. f \o g \in Octets /\ Len(f) \in Nat
  BY DEF Octets
<1>2. At(f \o g, 0, f \o g)
  BY <1>1 DEF At, Octets
<1>3. At(f \o g, 0, f) /\ At(f \o g, 0 + Len(f), g)
  BY <1>1, <1>2, AtSplit
<1> QED
  BY <1>1, <1>3

\* A take returns what stands there.
LEMMA TakeAt ==
    ASSUME NEW s \in Octets, NEW f \in Octets, NEW off \in Nat, At(s, off, f)
    PROVE  Take(s, off, Len(f)) = f
<1> DEFINE t == SubSeq(s, off + 1, off + Len(f))
<1>1. Len(f) \in Nat /\ Len(s) \in Nat /\ off + Len(f) <= Len(s)
  BY DEF Octets, At
<1>2. t = [i \in 1..Len(f) |-> s[off + i]]
  <2>1. t = [i \in 1..((off + Len(f)) - (off + 1) + 1) |-> s[i + (off + 1) - 1]]
    BY <1>1 DEF Octets
  <2>2. (off + Len(f)) - (off + 1) + 1 = Len(f)
    BY <1>1
  <2>3. \A i \in 1..Len(f) : i + (off + 1) - 1 = off + i
    BY <1>1
  <2> QED
    BY <2>1, <2>2, <2>3
<1>3. f = [i \in 1..Len(f) |-> f[i]]
  BY DEF Octets
<1> QED
  BY <1>2, <1>3 DEF At, Take

\* The front of a buffer holds what fits in it, whatever follows.
LEMMA AtFront ==
    ASSUME NEW s \in Octets, NEW z \in Octets, NEW f \in Octets, NEW off \in Nat,
           NEW n \in 0..Len(s), At(s, off, f), off + Len(f) <= n
    PROVE  At(SubSeq(s, 1, n) \o z, off, f)
<1> DEFINE t == SubSeq(s, 1, n)
<1>1. Len(s) \in Nat /\ Len(f) \in Nat /\ Len(z) \in Nat /\ n \in Nat
  BY DEF Octets
<1>2. t \in Octets /\ Len(t) = n /\ \A i \in 1..n : t[i] = s[i]
  BY <1>1 DEF Octets
<1> HIDE DEF t
<1>3. Len(t \o z) = n + Len(z) /\ \A i \in 1..n : (t \o z)[i] = t[i]
  <2>1. Len(t \o z) = n + Len(z)
    BY <1>2, JoinType
  <2>2. ASSUME NEW i \in 1..n
        PROVE  (t \o z)[i] = t[i]
    BY <1>2, ConcatProperties DEF Octets
  <2> QED
    BY <2>1, <2>2
<1>4. ASSUME NEW i \in 1..Len(f)
      PROVE  (t \o z)[off + i] = f[i]
  <2>1. off + i \in 1..n
    BY <1>1
  <2> QED
    BY <1>2, <1>3, <2>1 DEF At
<1>5. At(t \o z, off, f)
  BY <1>1, <1>3, <1>4 DEF At
<1> QED
  BY <1>5 DEF t

-----------------------------------------------------------------------------
(* The table: pieces of one length, strung together. *)

\* The intermediate results of FlattenSeq.
Flattens(g, s, n) ==
    g = [i \in 1..n |-> IF i = 1 THEN s[i] ELSE g[i - 1] \o s[i]]

\* There are such results for a list of any length.
LEMMA FlattensExists ==
    ASSUME NEW n \in Nat, NEW s \in [1..n -> Octets]
    PROVE  \E g : Flattens(g, s, n)
<1> DEFINE piece(k) == IF k < n THEN s[k + 1] ELSE << >>
           F == [k \in Nat |-> [x \in Octets |-> IF k = 0 THEN piece(k) ELSE x \o piece(k)]]
<1>1. ASSUME NEW k \in Nat
      PROVE  piece(k) \in Octets
  <2>1. k < n => k + 1 \in 1..n
    OBVIOUS
  <2> QED
    BY <2>1 DEF Octets
<1>2. F \in [Nat -> [Octets -> Octets]] /\ << >> \in Octets
  <2> HIDE DEF piece
  <2>1. \A k \in Nat, x \in Octets : x \o piece(k) \in Octets
    BY <1>1 DEF Octets
  <2> QED
    BY <1>1, <2>1 DEF Octets
<1>3. PICK h : Recurs(h, Octets, << >>, F)
  <2> HIDE DEF F
  <2> QED
    BY <1>2, Recursion, Zenon
<1> DEFINE g == [i \in 1..n |-> h[i]]
<1>4. ASSUME NEW i \in 1..n
      PROVE  g[i] = IF i = 1 THEN s[i] ELSE g[i - 1] \o s[i]
  <2>1. i - 1 \in Nat /\ (i - 1) + 1 = i /\ i - 1 < n
    OBVIOUS
  <2>2. piece(i - 1) = s[i]
    BY <2>1
  <2>3. h[(i - 1) + 1] = F[i - 1][h[i - 1]]
    BY <1>3, <2>1 DEF Recurs
  <2>4. h[i - 1] \in Octets
    BY <1>3, <2>1 DEF Recurs
  <2> HIDE DEF piece
  <2>5. h[i] = IF i - 1 = 0 THEN s[i] ELSE h[i - 1] \o s[i]
    BY <2>1, <2>2, <2>3, <2>4
  <2>6. g[i] = h[i] /\ (i # 1 => g[i - 1] = h[i - 1])
    OBVIOUS
  <2> HIDE DEF g
  <2> QED
    BY <2>1, <2>5, <2>6
<1>5. g = [i \in 1..n |-> g[i]]
  OBVIOUS
<1> HIDE DEF g
<1>6. Flattens(g, s, n)
  BY <1>4, <1>5 DEF Flattens
<1> QED
  BY <1>6

\* Each piece stands behind as many others as come before it.
LEMMA FlattenedPieces ==
    ASSUME NEW n \in Nat, NEW s \in [1..n -> Octets], NEW W \in Nat,
           \A i \in 1..n : Len(s[i]) = W
    PROVE  /\ FlattenSeq(s) \in Octets /\ Len(FlattenSeq(s)) = n * W
           /\ \A i \in 1..n : At(FlattenSeq(s), (i - 1) * W, s[i])
<1>1. Len(s) = n
  OBVIOUS
<1>2. CASE n = 0
  <2>1. s = << >>
    BY <1>2
  <2>2. FlattenSeq(s) = s
    BY <1>1, <1>2, Zenon DEF FlattenSeq
  <2>3. Len(<< >>) = 0 /\ << >> \in Octets /\ n * W = 0 /\ 1..n = {}
    BY <1>2 DEF Octets
  <2> QED
    BY <2>1, <2>2, <2>3
<1>3. CASE n # 0
  <2> DEFINE g == CHOOSE h : Flattens(h, s, n)
  <2>1. FlattenSeq(s) = g[n]
    BY <1>1, <1>3, Zenon DEF FlattenSeq, Flattens
  <2>2. Flattens(g, s, n)
    BY FlattensExists
  <2> HIDE DEF g
  <2> DEFINE Good(k) ==
               /\ g[k] \in Octets /\ Len(g[k]) = k * W
               /\ \A i \in 1..k : At(g[k], (i - 1) * W, s[i])
             C == {k \in 1..n : ~Good(k)}
  <2>3. C = {}
    <3>1. SUFFICES ASSUME C # {}
                   PROVE  FALSE
      OBVIOUS
    <3>2. PICK k \in C : \A j \in C : k <= j
      <4>1. C \subseteq Nat
        OBVIOUS
      <4> HIDE DEF C
      <4> QED
        BY <3>1, <4>1, LeastExists
    <3>3. g[k] = IF k = 1 THEN s[k] ELSE g[k - 1] \o s[k]
      BY <2>2, <3>2 DEF Flattens
    <3>4. s[k] \in Octets /\ Len(s[k]) = W /\ k \in 1..n /\ ~Good(k)
      BY <3>2
    <3>5. CASE k = 1
      <4>1. g[1] = s[1]
        BY <3>3, <3>5
      <4>2. At(s[1], 0, s[1])
        BY <3>4, <3>5 DEF At, Octets
      <4>3. 1 * W = W /\ (1 - 1) * W = 0 /\ \A i \in 1..1 : i = 1
        OBVIOUS
      <4> QED
        BY <3>4, <3>5, <4>1, <4>2, <4>3
    <3>6. CASE k # 1
      <4> DEFINE f == g[k - 1]
                 t == s[k]
      <4>1. k - 1 \in 1..n /\ ~(k <= k - 1)
        BY <3>4, <3>6
      <4>2. Good(k - 1)
        BY <3>2, <4>1
      <4>3. f \in Octets /\ t \in Octets /\ Len(f) = (k - 1) * W /\ Len(t) = W
        BY <3>4, <4>2
      <4>4. g[k] = f \o t
        BY <3>3, <3>6
      <4>5. ASSUME NEW i \in 1..(k - 1)
            PROVE  At(f, (i - 1) * W, s[i])
        BY <4>2
      <4>6. k * W = (k - 1) * W + W
        BY <3>4
      <4> HIDE DEF f, t, C, Good
      <4>7. f \o t \in Octets /\ Len(f \o t) = k * W
        <5>1. f \o t \in Octets /\ Len(f \o t) = Len(f) + Len(t)
          BY <4>3, JoinType
        <5> QED
          BY <4>3, <4>6, <5>1
      <4>8. At(f \o t, 0, f) /\ At(f \o t, (k - 1) * W, t)
        <5>1. At(f \o t, 0, f) /\ At(f \o t, Len(f), t)
          BY <4>3, AtConcat
        <5> QED
          BY <4>3, <5>1
      <4>9. ASSUME NEW i \in 1..k
            PROVE  At(f \o t, (i - 1) * W, s[i])
        <5>1. CASE i = k
          BY <4>8, <5>1 DEF t
        <5>2. CASE i # k
          <6>1. i \in 1..(k - 1) /\ i \in 1..n
            BY <3>4, <5>2
          <6>2. (i - 1) * W \in Nat /\ 0 + (i - 1) * W = (i - 1) * W
            <7>1. i - 1 \in Nat
              BY <6>1
            <7> DEFINE d == (i - 1) * W
            <7>2. d \in Nat
              BY <7>1
            <7> HIDE DEF d
            <7>3. 0 + d = d
              BY <7>2
            <7> QED
              BY <7>2, <7>3 DEF d
          <6>3. At(f, (i - 1) * W, s[i]) /\ s[i] \in Octets
            BY <4>5, <6>1
          <6> DEFINE d == (i - 1) * W
          <6>4. d \in Nat /\ 0 + d = d /\ At(f, d, s[i])
            BY <6>2, <6>3
          <6> HIDE DEF d
          <6>5. At(f \o t, 0 + d, s[i])
            BY <4>3, <4>7, <4>8, <6>3, <6>4, AtWithin
          <6> QED
            BY <6>4, <6>5 DEF d
        <5> QED
          BY <5>1, <5>2
      <4>10. Good(k)
        BY <4>4, <4>7, <4>9 DEF Good
      <4> QED
        BY <3>4, <4>10
    <3> QED
      BY <3>5, <3>6
  <2>4. n \in 1..n
    BY <1>3
  <2>5. Good(n)
    BY <2>3, <2>4
  <2> QED
    BY <2>1, <2>5
<1> QED
  BY <1>2, <1>3

-----------------------------------------------------------------------------
(* Single fields. *)

\* The bytes of a number, and the numbers that flags and tags are.
LEMMA BytesType ==
    ASSUME NEW w \in Nat, NEW x \in Unsigned(w)
    PROVE  x \in Nat /\ Bytes(x, w) \in Octets /\ Len(Bytes(x, w)) = w
<1>1. x \in Nat
  BY PowerType DEF Unsigned
<1>2. ASSUME NEW i \in 1..w
      PROVE  (x \div Power[i - 1]) % BASE \in Nat
  <2> DEFINE P == Power[i - 1]
             q == x \div P
  <2>1. P \in Nat /\ P # 0
    BY PowerType
  <2> HIDE DEF P
  <2>2. q \in Nat
    BY <1>1, <2>1, Division
  <2> HIDE DEF q
  <2>3. q % BASE \in Nat
    BY <2>2, WidthAssumption, Division
  <2> QED
    BY <2>3 DEF q, P
<1>3. Bytes(x, w) \in [1..w -> Nat]
  BY <1>2 DEF Bytes
<1>4. Len(Bytes(x, w)) = w
  BY DEF Bytes
<1>5. Bytes(x, w) \in Octets
  BY <1>3, SeqDef DEF Octets
<1> QED
  BY <1>1, <1>4, <1>5

\* Flags and tags are numbers of one byte.
LEMMA BitType ==
    /\ 0 \in Unsigned(1) /\ 1 \in Unsigned(1)
    /\ <<0>> = Bytes(0, 1) /\ <<1>> = Bytes(1, 1)
<1>1. Power[0] = 1 /\ Power[1] = BASE
  <2>1. Power[0] = 1 /\ Power[0 + 1] = BASE * Power[0]
    BY PowerStep
  <2> QED
    BY <2>1, WidthAssumption
<1>2. 0 \in Unsigned(1) /\ 1 \in Unsigned(1)
  BY <1>1, WidthAssumption DEF Unsigned
<1>3. ASSUME NEW b \in {0, 1}
      PROVE  <<b>> = Bytes(b, 1)
  <2>1. b \div 1 = b /\ b % BASE = b
    <3>1. b \div 1 = b
      OBVIOUS
    <3>2. b % BASE = b
      BY WidthAssumption
    <3> QED
      BY <3>1, <3>2
  <2>2. Bytes(b, 1) = [i \in 1..1 |-> b]
    <3>1. \A i \in 1..1 : (b \div Power[i - 1]) % BASE = b
      BY <1>1, <2>1
    <3> QED
      BY <3>1 DEF Bytes
  <2> QED
    BY <2>2
<1> QED
  BY <1>2, <1>3

\* A number is read where it was written.
LEMMA NumberAt ==
    ASSUME NEW s \in Octets, NEW off \in Nat, NEW w \in Nat, NEW x \in Unsigned(w),
           At(s, off, Bytes(x, w))
    PROVE  Number(Take(s, off, w)) = x
<1> DEFINE f == Bytes(x, w)
<1>1. f \in Octets /\ Len(f) = w
  BY BytesType
<1>2. Number(f) = x
  BY NumberOfBytes
<1> HIDE DEF f
<1>3. At(s, off, f)
  BY DEF f
<1>4. Take(s, off, Len(f)) = f
  BY <1>1, <1>3, TakeAt
<1> QED
  BY <1>1, <1>2, <1>4

\* A flag is one byte,
LEMMA FlagType ==
    ASSUME NEW b \in BOOLEAN
    PROVE  Flag(b) \in Octets /\ Len(Flag(b)) = 1
BY DEF Flag, Octets

\* and is read where it was written.
LEMMA FlagAt ==
    ASSUME NEW s \in Octets, NEW off \in Nat, NEW b \in BOOLEAN, At(s, off, Flag(b))
    PROVE  (Number(Take(s, off, 1)) # 0) <=> b
<1>1. CASE b
  <2>1. Flag(b) = Bytes(1, 1)
    BY <1>1, BitType DEF Flag
  <2>2. Number(Take(s, off, 1)) = 1
    BY <2>1, BitType, NumberAt
  <2> QED
    BY <1>1, <2>2
<1>2. CASE ~b
  <2>1. Flag(b) = Bytes(0, 1)
    BY <1>2, BitType DEF Flag
  <2>2. Number(Take(s, off, 1)) = 0
    BY <2>1, BitType, NumberAt
  <2> QED
    BY <1>2, <2>2
<1> QED
  BY <1>1, <1>2

SlotWidth == KEY + SHORT + 1

\* An heir takes up a slot.
LEMMA SlotType ==
    ASSUME NEW b \in Beneficiary
    PROVE  /\ b.address \in Unsigned(KEY) /\ b.share_bps \in Unsigned(SHORT)
           /\ b.claimed \in BOOLEAN
           /\ Slot(b) \in Octets /\ Len(Slot(b)) = SlotWidth
<1> DEFINE f == Bytes(b.address, KEY)
           g == Bytes(b.share_bps, SHORT)
           h == Flag(b.claimed)
<1>1. /\ b.address \in Unsigned(KEY) /\ b.share_bps \in Unsigned(SHORT)
      /\ b.claimed \in BOOLEAN
  BY DEF Beneficiary
<1>2. KEY \in Nat /\ SHORT \in Nat
  BY WidthAssumption
<1>3. /\ f \in Octets /\ Len(f) = KEY /\ g \in Octets /\ Len(g) = SHORT
      /\ h \in Octets /\ Len(h) = 1
  BY <1>1, <1>2, BytesType, FlagType
<1>4. Slot(b) = (f \o g) \o h
  BY DEF Slot
<1> HIDE DEF f, g, h
<1> DEFINE p == f \o g
<1>5. p \in Octets /\ Len(p) = KEY + SHORT
  BY <1>3, JoinType
<1> HIDE DEF p
<1>6. p \o h \in Octets /\ Len(p \o h) = KEY + SHORT + 1
  BY <1>3, <1>5, JoinType
<1> QED
  BY <1>1, <1>4, <1>6 DEF SlotWidth, p

\* An heir is read where it was written.
LEMMA SlotAt ==
    ASSUME NEW s \in Octets, NEW off \in Nat, NEW b \in Beneficiary, At(s, off, Slot(b))
    PROVE  /\ Number(Take(s, off, KEY)) = b.address
           /\ Number(Take(s, off + KEY, SHORT)) = b.share_bps
           /\ (Number(Take(s, off + KEY + SHORT, 1)) # 0) <=> b.claimed
<1> DEFINE f == Bytes(b.address, KEY)
           g == Bytes(b.share_bps, SHORT)
           h == Flag(b.claimed)
<1>1. /\ b.address \in Unsigned(KEY) /\ b.share_bps \in Unsigned(SHORT)
      /\ b.claimed \in BOOLEAN
  BY SlotType
<1>2. KEY \in Nat /\ SHORT \in Nat
  BY WidthAssumption
<1>3. /\ f \in Octets /\ Len(f) = KEY /\ g \in Octets /\ Len(g) = SHORT
      /\ h \in Octets
  BY <1>1, <1>2, BytesType, FlagType
<1>4. At(s, off, (f \o g) \o h)
  BY DEF Slot
<1>5. At(s, off, f) /\ At(s, off + KEY, g) /\ At(s, off + KEY + SHORT, h)
  <2> HIDE DEF f, g, h
  <2>1. f \o g \in Octets /\ Len(f \o g) = KEY + SHORT
    BY <1>3, JoinType
  <2>2. At(s, off, f \o g) /\ At(s, off + (KEY + SHORT), h)
    BY <1>3, <1>4, <2>1, AtSplit
  <2>3. At(s, off, f) /\ At(s, off + KEY, g)
    BY <1>3, <2>2, AtSplit
  <2>4. off + (KEY + SHORT) = off + KEY + SHORT
    BY <1>2
  <2> QED
    BY <2>2, <2>3, <2>4
<1>6. Number(Take(s, off, KEY)) = b.address
  BY <1>1, <1>2, <1>5, NumberAt
<1>7. Number(Take(s, off + KEY, SHORT)) = b.share_bps
  <2>1. off + KEY \in Nat
    BY <1>2
  <2> QED
    BY <1>1, <1>2, <1>5, <2>1, NumberAt
<1>8. (Number(Take(s, off + KEY + SHORT, 1)) # 0) <=> b.claimed
  <2>1. off + KEY + SHORT \in Nat
    BY <1>2
  <2> QED
    BY <1>1, <1>5, <2>1, FlagAt
<1> QED
  BY <1>6, <1>7, <1>8

-----------------------------------------------------------------------------
(* The layout of the account. *)

TableWidth == MAX_BENEFICIARIES * SlotWidth

Table(v) ==
    FlattenSeq([i \in 1..MAX_BENEFICIARIES |-> Slot(v.beneficiaries[i])])

\* How far the mint shifts what comes after it.
Shift(v) == IF v.mint = << >> THEN 0 ELSE KEY

\* The widths that are not constants.
LEMMA WidthType ==
    /\ DISC \in Nat /\ KEY \in Nat /\ LONG \in Nat /\ SHORT \in Nat
    /\ MAX_BENEFICIARIES \in Nat /\ SlotWidth \in Nat /\ TableWidth \in Nat
<1>1. /\ DISC \in Nat /\ KEY \in Nat /\ LONG \in Nat /\ SHORT \in Nat
      /\ MAX_BENEFICIARIES \in Nat
  BY WidthAssumption
<1>2. SlotWidth \in Nat
  BY <1>1 DEF SlotWidth
<1>3. TableWidth \in Nat
  BY <1>1, <1>2 DEF TableWidth
<1> QED
  BY <1>1, <1>2, <1>3

\* The largest time fits its word.
LEMMA MaxIntType == WordSize \in Nat \ {0} /\ MaxInt \in Int /\ MaxInt <= WordSize - 1
<1>1. WordSize \in Nat \ {0}
  BY PowerType, WidthType DEF WordSize
<1>2. WordSize \div 2 \in Nat /\ WordSize \div 2 <= WordSize
  BY <1>1
<1> QED
  BY <1>1, <1>2 DEF MaxInt

\* The numbers of a vault fit their fields.
LEMMA FieldTypes ==
    ASSUME NEW v \in VaultData
    PROVE  /\ v.owner \in Unsigned(KEY) /\ v.vault_id \in Unsigned(LONG)
           /\ v.last_checkin \in Unsigned(LONG) /\ v.timeout_seconds \in Unsigned(LONG)
           /\ v.beneficiary_count \in Unsigned(1)
           /\ v.is_claimed \in BOOLEAN
           /\ v.claim_pool \in Unsigned(LONG) /\ v.bump \in Unsigned(1)
<1>1. /\ v.owner \in Unsigned(KEY) /\ v.vault_id \in Unsigned(LONG)
      /\ v.is_claimed \in BOOLEAN
      /\ v.claim_pool \in Unsigned(LONG) /\ v.bump \in Unsigned(1)
      /\ v.last_checkin \in 0..MaxInt /\ v.timeout_seconds \in 0..MAX_TIMEOUT_SECONDS
      /\ v.beneficiary_count \in 0..MAX_BENEFICIARIES
  BY DEF VaultData
<1>2. MaxInt \in Int /\ MaxInt <= Power[LONG] - 1 /\ Power[LONG] \in Nat
  <2>1. WordSize = Power[LONG]
    BY DEF WordSize
  <2> QED
    BY <2>1, MaxIntType
<1>3. v.last_checkin \in Unsigned(LONG)
  BY <1>1, <1>2 DEF Unsigned
<1>4. MAX_TIMEOUT_SECONDS <= MaxInt /\ MAX_TIMEOUT_SECONDS \in Nat
  <2> DEFINE t == MAX_TIMEOUT_SECONDS
             product == t * SECOND
  <2>1. t \in Nat /\ SECOND \in Nat /\ SECOND >= 1 /\ product <= MaxInt
    BY WidthAssumption, DurationAssumption
  <2>2. t <= product /\ product \in Nat
    <3> HIDE DEF t
    <3> QED
      BY <2>1
  <2> HIDE DEF t, product
  <2>3. t <= MaxInt
    BY <1>2, <2>1, <2>2
  <2> QED
    BY <2>1, <2>3 DEF t
<1>5. v.timeout_seconds \in Unsigned(LONG)
  BY <1>1, <1>2, <1>4 DEF Unsigned
<1>6. v.beneficiary_count \in Unsigned(1)
  <2>1. Power[0] = 1 /\ Power[0 + 1] = BASE * Power[0]
    BY PowerStep
  <2>2. Power[1] = BASE
    BY <2>1, WidthAssumption
  <2> QED
    BY <1>1, <2>2, WidthAssumption DEF Unsigned
<1> QED
  BY <1>1, <1>3, <1>5, <1>6

\* A mint takes up a tag, and what it shifts.
LEMMA OptionType ==
    ASSUME NEW v \in VaultData
    PROVE  /\ Shift(v) \in {0, KEY}
           /\ Option(v.mint) \in Octets /\ Len(Option(v.mint)) = 1 + Shift(v)
<1>1. CASE v.mint = << >>
  BY <1>1 DEF Option, Shift, Octets
<1>2. CASE v.mint # << >>
  <2>1. PICK key \in Unsigned(KEY) : v.mint = <<key>>
    BY <1>2 DEF VaultData
  <2> DEFINE f == Bytes(v.mint[1], KEY)
  <2>2. v.mint[1] = key
    BY <2>1
  <2>3. f \in Octets /\ Len(f) = KEY
    BY <2>2, BytesType, WidthType
  <2>4. Option(v.mint) = <<1>> \o f
    BY <1>2 DEF Option
  <2> HIDE DEF f
  <2>5. <<1>> \in Octets /\ Len(<<1>>) = 1
    BY DEF Octets
  <2>6. <<1>> \o f \in Octets /\ Len(<<1>> \o f) = 1 + KEY
    BY <2>3, <2>5, JoinType
  <2> QED
    BY <1>2, <2>4, <2>6 DEF Shift
<1> QED
  BY <1>1, <1>2

\* The tag of the mint, alone.
LEMMA TagIs ==
    ASSUME NEW s \in Octets, NEW off \in Nat, NEW v \in VaultData,
           At(s, off, Option(v.mint))
    PROVE  \E b \in Unsigned(1) : At(s, off, Bytes(b, 1)) /\ MintWidth(b) = Shift(v)
<1>1. CASE v.mint = << >>
  <2>1. Option(v.mint) = Bytes(0, 1) /\ MintWidth(0) = Shift(v)
    BY <1>1, BitType DEF Option, MintWidth, Shift
  <2> QED
    BY <2>1, BitType
<1>2. CASE v.mint # << >>
  <2>1. PICK key \in Unsigned(KEY) : v.mint = <<key>>
    BY <1>2 DEF VaultData
  <2> DEFINE t == Bytes(1, 1)
             f == Bytes(key, KEY)
  <2>2. v.mint[1] = key
    BY <2>1
  <2>3. Option(v.mint) = t \o f
    BY <1>2, <2>2, BitType DEF Option
  <2>4. t \in Octets /\ f \in Octets
    BY BitType, BytesType, WidthType
  <2>5. At(s, off, t)
    <3> HIDE DEF t, f
    <3> QED
      BY <2>3, <2>4, AtSplit
  <2>6. MintWidth(1) = Shift(v)
    BY <1>2 DEF MintWidth, Shift
  <2> QED
    BY <2>5, <2>6, BitType
<1> QED
  BY <1>1, <1>2

\* Where the tag was written, the reader finds it, and behind it the key.
LEMMA OptionAt ==
    ASSUME NEW s \in Octets, NEW off \in Nat, NEW v \in VaultData,
           At(s, off, Option(v.mint))
    PROVE  /\ MintWidth(Number(Take(s, off, 1))) = Shift(v)
           /\ v.mint = IF Number(Take(s, off, 1)) # 0
                       THEN <<Number(Take(s, off + 1, KEY))>> ELSE << >>
<1>1. CASE v.mint = << >>
  <2>1. Option(v.mint) = Bytes(0, 1)
    BY <1>1, BitType DEF Option
  <2>2. Number(Take(s, off, 1)) = 0
    BY <2>1, BitType, NumberAt
  <2> QED
    BY <1>1, <2>2 DEF MintWidth, Shift
<1>2. CASE v.mint # << >>
  <2>1. PICK key \in Unsigned(KEY) : v.mint = <<key>>
    BY <1>2 DEF VaultData
  <2> DEFINE t == Bytes(1, 1)
             f == Bytes(key, KEY)
  <2>2. v.mint[1] = key
    BY <2>1
  <2>3. Option(v.mint) = t \o f
    BY <1>2, <2>2, BitType DEF Option
  <2>4. t \in Octets /\ Len(t) = 1 /\ f \in Octets
    BY BitType, BytesType, WidthType
  <2>5. At(s, off, t) /\ At(s, off + 1, f)
    <3> HIDE DEF t, f
    <3> QED
      BY <2>3, <2>4, AtSplit
  <2>6. Number(Take(s, off, 1)) = 1
    BY <2>5, BitType, NumberAt
  <2>7. Number(Take(s, off + 1, KEY)) = key
    BY <2>5, NumberAt, WidthType
  <2> QED
    BY <1>2, <2>1, <2>6, <2>7 DEF MintWidth, Shift
<1> QED
  BY <1>1, <1>2

\* The table holds the heirs one after the other.
LEMMA TableType ==
    ASSUME NEW v \in VaultData
    PROVE  /\ Table(v) \in Octets /\ Len(Table(v)) = TableWidth
           /\ \A i \in 1..MAX_BENEFICIARIES :
                /\ v.beneficiaries[i] \in Beneficiary
                /\ At(Table(v), (i - 1) * SlotWidth, Slot(v.beneficiaries[i]))
<1> DEFINE n == MAX_BENEFICIARIES
           s == [i \in 1..n |-> Slot(v.beneficiaries[i])]
<1>1. \A i \in 1..n : v.beneficiaries[i] \in Beneficiary
  BY DEF VaultData
<1>2. \A i \in 1..n : s[i] = Slot(v.beneficiaries[i])
  OBVIOUS
<1>3. \A i \in 1..n : s[i] \in Octets /\ Len(s[i]) = SlotWidth
  BY <1>1, SlotType
<1>4. s \in [1..n -> Octets]
  BY <1>3
<1>5. n \in Nat /\ SlotWidth \in Nat
  BY WidthType
<1>6. Table(v) = FlattenSeq(s)
  BY DEF Table
<1> HIDE DEF s, n
<1>7. /\ FlattenSeq(s) \in Octets /\ Len(FlattenSeq(s)) = n * SlotWidth
      /\ \A i \in 1..n : At(FlattenSeq(s), (i - 1) * SlotWidth, s[i])
  BY <1>3, <1>4, <1>5, FlattenedPieces
<1> QED
  BY <1>1, <1>2, <1>6, <1>7 DEF TableWidth, n

BorshSize(v) == KEY + 4 * LONG + 4 + Shift(v) + TableWidth

\* Where the fields start.
TagAt == KEY + LONG
TimesAt(v) == TagAt + 1 + Shift(v)
TableAt(v) == TimesAt(v) + 2 * LONG
CountAt(v) == TableAt(v) + TableWidth

\* They start at numbers, and the last one ends where the vault does.
LEMMA OffsetType ==
    ASSUME NEW v \in VaultData
    PROVE  /\ TagAt \in Nat /\ TimesAt(v) \in Nat /\ TableAt(v) \in Nat
           /\ CountAt(v) \in Nat /\ BorshSize(v) \in Nat
           /\ CountAt(v) + 2 + LONG + 1 = BorshSize(v)
           /\ DISC + BorshSize(v) <= AccountSize /\ AccountSize \in Nat
<1>1. Shift(v) \in Nat /\ Shift(v) <= KEY
  BY OptionType, WidthType
<1>2. AccountSize = DISC + 2 * KEY + 4 * LONG + 4 + TableWidth
  BY DEF AccountSize, TableWidth, SlotWidth
<1>3. TagAt \in Nat /\ TimesAt(v) \in Nat /\ TableAt(v) \in Nat
  BY <1>1, WidthType DEF TagAt, TimesAt, TableAt
<1>4. CountAt(v) \in Nat /\ BorshSize(v) \in Nat /\ AccountSize \in Nat
  BY <1>1, <1>2, <1>3, WidthType DEF CountAt, BorshSize
<1>5. CountAt(v) + 2 + LONG + 1 = BorshSize(v)
  BY <1>1, WidthType DEF CountAt, TableAt, TimesAt, TagAt, BorshSize
<1>6. DISC + BorshSize(v) <= AccountSize
  BY <1>1, <1>2, WidthType DEF BorshSize
<1> QED
  BY <1>3, <1>4, <1>5, <1>6

\* The fields stand in a vault one after the other.
LEMMA BorshPieces ==
    ASSUME NEW v \in VaultData
    PROVE  /\ Borsh(v) \in Octets /\ Len(Borsh(v)) = BorshSize(v)
           /\ At(Borsh(v), 0, Bytes(v.owner, KEY))
           /\ At(Borsh(v), KEY, Bytes(v.vault_id, LONG))
           /\ At(Borsh(v), TagAt, Option(v.mint))
           /\ At(Borsh(v), TimesAt(v), Bytes(v.last_checkin, LONG))
           /\ At(Borsh(v), TimesAt(v) + LONG, Bytes(v.timeout_seconds, LONG))
           /\ At(Borsh(v), TableAt(v), Table(v))
           /\ At(Borsh(v), CountAt(v), Bytes(v.beneficiary_count, 1))
           /\ At(Borsh(v), CountAt(v) + 1, Flag(v.is_claimed))
           /\ At(Borsh(v), CountAt(v) + 2, Bytes(v.claim_pool, LONG))
           /\ At(Borsh(v), CountAt(v) + 2 + LONG, Bytes(v.bump, 1))
<1> DEFINE f1 == Bytes(v.owner, KEY)
           f2 == Bytes(v.vault_id, LONG)
           f3 == Option(v.mint)
           f4 == Bytes(v.last_checkin, LONG)
           f5 == Bytes(v.timeout_seconds, LONG)
           f6 == Table(v)
           f7 == Bytes(v.beneficiary_count, 1)
           f8 == Flag(v.is_claimed)
           f9 == Bytes(v.claim_pool, LONG)
           f10 == Bytes(v.bump, 1)
           n == Shift(v)
           T == TableWidth
<1>1. /\ f1 \in Octets /\ Len(f1) = KEY /\ f2 \in Octets /\ Len(f2) = LONG
      /\ f4 \in Octets /\ Len(f4) = LONG /\ f5 \in Octets /\ Len(f5) = LONG
      /\ f7 \in Octets /\ Len(f7) = 1
      /\ f9 \in Octets /\ Len(f9) = LONG /\ f10 \in Octets /\ Len(f10) = 1
  BY FieldTypes, BytesType, WidthType
<1>2. f8 \in Octets /\ Len(f8) = 1
  BY FieldTypes, FlagType
<1>3. f3 \in Octets /\ Len(f3) = 1 + n
  BY OptionType
<1>4. f6 \in Octets /\ Len(f6) = T
  BY TableType
<1>5. n \in Nat /\ T \in Nat /\ KEY \in Nat /\ LONG \in Nat
  BY OptionType, WidthType
<1>6. Borsh(v) = f1 \o f2 \o f3 \o f4 \o f5 \o f6 \o f7 \o f8 \o f9 \o f10
  BY DEF Borsh, Table
<1>7. /\ TagAt = KEY + LONG /\ TimesAt(v) = KEY + LONG + 1 + n
      /\ TableAt(v) = KEY + 3 * LONG + 1 + n
      /\ CountAt(v) = KEY + 3 * LONG + 1 + n + T
      /\ BorshSize(v) = KEY + 4 * LONG + 4 + n + T
  BY <1>5 DEF TagAt, TimesAt, TableAt, CountAt, BorshSize
<1> DEFINE p2 == f1 \o f2
           p3 == p2 \o f3
           p4 == p3 \o f4
           p5 == p4 \o f5
           p6 == p5 \o f6
           p7 == p6 \o f7
           p8 == p7 \o f8
           p9 == p8 \o f9
           p10 == p9 \o f10
<1>8. Borsh(v) = p10
  BY <1>6
<1> HIDE DEF f1, f2, f3, f4, f5, f6, f7, f8, f9, f10, n, T
<1>p2. p2 \in Octets /\ Len(p2) = Len(f1) + Len(f2)
  BY <1>1, JoinType
<1> HIDE DEF p2
<1>p3. p3 \in Octets /\ Len(p3) = Len(p2) + Len(f3)
  BY <1>3, <1>p2, JoinType
<1> HIDE DEF p3
<1>p4. p4 \in Octets /\ Len(p4) = Len(p3) + Len(f4)
  BY <1>1, <1>p3, JoinType
<1> HIDE DEF p4
<1>p5. p5 \in Octets /\ Len(p5) = Len(p4) + Len(f5)
  BY <1>1, <1>p4, JoinType
<1> HIDE DEF p5
<1>p6. p6 \in Octets /\ Len(p6) = Len(p5) + Len(f6)
  BY <1>4, <1>p5, JoinType
<1> HIDE DEF p6
<1>p7. p7 \in Octets /\ Len(p7) = Len(p6) + Len(f7)
  BY <1>1, <1>p6, JoinType
<1> HIDE DEF p7
<1>p8. p8 \in Octets /\ Len(p8) = Len(p7) + Len(f8)
  BY <1>2, <1>p7, JoinType
<1> HIDE DEF p8
<1>p9. p9 \in Octets /\ Len(p9) = Len(p8) + Len(f9)
  BY <1>1, <1>p8, JoinType
<1> HIDE DEF p9
<1>p10. p10 \in Octets /\ Len(p10) = Len(p9) + Len(f10)
  BY <1>1, <1>p9, JoinType
<1>a9. At(p10, 0, p9) /\ At(p10, Len(p9), f10)
  BY <1>1, <1>p9, AtConcat
<1> HIDE DEF p10
<1>a8. At(p10, 0, p8) /\ At(p10, 0 + Len(p8), f9)
  BY <1>1, <1>p8, <1>p10, <1>a9, AtSplit DEF p9
<1>a7. At(p10, 0, p7) /\ At(p10, 0 + Len(p7), f8)
  BY <1>2, <1>p7, <1>p10, <1>a8, AtSplit DEF p8
<1>a6. At(p10, 0, p6) /\ At(p10, 0 + Len(p6), f7)
  BY <1>1, <1>p6, <1>p10, <1>a7, AtSplit DEF p7
<1>a5. At(p10, 0, p5) /\ At(p10, 0 + Len(p5), f6)
  BY <1>4, <1>p5, <1>p10, <1>a6, AtSplit DEF p6
<1>a4. At(p10, 0, p4) /\ At(p10, 0 + Len(p4), f5)
  BY <1>1, <1>p4, <1>p10, <1>a5, AtSplit DEF p5
<1>a3. At(p10, 0, p3) /\ At(p10, 0 + Len(p3), f4)
  BY <1>1, <1>p3, <1>p10, <1>a4, AtSplit DEF p4
<1>a2. At(p10, 0, p2) /\ At(p10, 0 + Len(p2), f3)
  BY <1>3, <1>p2, <1>p10, <1>a3, AtSplit DEF p3
<1>a1. At(p10, 0, f1) /\ At(p10, 0 + Len(f1), f2)
  BY <1>1, <1>p10, <1>a2, AtSplit DEF p2
<1>9. /\ 0 + Len(f1) = KEY /\ 0 + Len(p2) = TagAt /\ 0 + Len(p3) = TimesAt(v)
      /\ 0 + Len(p4) = TimesAt(v) + LONG /\ 0 + Len(p5) = TableAt(v)
      /\ 0 + Len(p6) = CountAt(v) /\ 0 + Len(p7) = CountAt(v) + 1
      /\ 0 + Len(p8) = CountAt(v) + 2 /\ Len(p9) = CountAt(v) + 2 + LONG
      /\ Len(p10) = BorshSize(v)
  BY <1>1, <1>2, <1>3, <1>4, <1>5, <1>7, <1>p2, <1>p3, <1>p4, <1>p5, <1>p6,
     <1>p7, <1>p8, <1>p9, <1>p10
<1> QED
  BY <1>8, <1>p10, <1>a1, <1>a2, <1>a3, <1>a4, <1>a5, <1>a6, <1>a7, <1>a8,
     <1>a9, <1>9 DEF f1, f2, f3, f4, f5, f6, f7, f8, f9, f10

\* A stretch of zeroes.
LEMMA ZeroesType ==
    ASSUME NEW n \in Nat
    PROVE  [i \in 1..n |-> 0] \in Octets /\ Len([i \in 1..n |-> 0]) = n
<1>1. [i \in 1..n |-> 0] \in [1..n -> Nat]
  OBVIOUS
<1>2. [i \in 1..n |-> 0] \in Octets
  BY <1>1, SeqDef DEF Octets
<1> QED
  BY <1>2

\* The discriminator, the vault, and what is left over.
LEMMA AccountPieces ==
    ASSUME NEW v \in VaultData
    PROVE  /\ Account(v) \in Octets /\ Len(Account(v)) = AccountSize
           /\ At(Account(v), 0, AccountDiscriminator)
           /\ At(Account(v), DISC, Borsh(v))
           /\ AccountDiscriminator \in Octets /\ Len(AccountDiscriminator) = DISC
<1> DEFINE d == AccountDiscriminator
           b == Borsh(v)
           w == d \o b
           z == [i \in 1..(AccountSize - Len(w)) |-> 0]
<1>1. d \in Octets /\ Len(d) = DISC
  <2>1. d \in [1..DISC -> Nat] /\ Len(d) = DISC
    BY WidthType DEF AccountDiscriminator
  <2> QED
    BY <2>1, WidthType, SeqDef DEF Octets
<1>2. b \in Octets /\ Len(b) = BorshSize(v)
  BY BorshPieces
<1>3. Account(v) = w \o z
  BY DEF Account
<1> HIDE DEF d, b
<1>4. w \in Octets /\ Len(w) = DISC + BorshSize(v)
  BY <1>1, <1>2, JoinType
<1>5. At(w, 0, d) /\ At(w, DISC, b)
  BY <1>1, <1>2, AtConcat
<1> HIDE DEF w
<1>6. AccountSize - Len(w) \in Nat /\ AccountSize \in Nat /\ Len(w) \in Nat
  <2>1. DISC + BorshSize(v) <= AccountSize /\ AccountSize \in Nat /\ BorshSize(v) \in Nat
    BY OffsetType
  <2> QED
    BY <1>4, <2>1, WidthType
<1>7. z \in Octets /\ Len(z) = AccountSize - Len(w)
  BY <1>6, ZeroesType
<1> HIDE DEF z
<1>8. w \o z \in Octets /\ Len(w \o z) = AccountSize
  <2>1. w \o z \in Octets /\ Len(w \o z) = Len(w) + Len(z)
    BY <1>4, <1>7, JoinType
  <2> QED
    BY <1>6, <1>7, <2>1
<1>9. At(w \o z, 0, w)
  BY <1>4, <1>7, AtConcat
<1> DEFINE a == w \o z
<1> HIDE DEF a
<1>10. At(a, 0 + 0, d) /\ At(a, 0 + DISC, b)
  BY <1>1, <1>2, <1>4, <1>5, <1>8, <1>9, WidthType, AtWithin DEF a
<1>11. 0 + 0 = 0 /\ 0 + DISC = DISC
  BY WidthType
<1>12. At(a, 0, d) /\ At(a, DISC, b)
  BY <1>10, <1>11
<1> QED
  BY <1>1, <1>3, <1>8, <1>12 DEF a, d, b

-----------------------------------------------------------------------------
(* The reader. *)

Padded(bytes) == bytes \o [i \in 1..AccountSize |-> 0]

\* Where the first n bytes of an account leave something whole, the reader's
\* buffer has it in its place.
LEMMA PaddedHolds ==
    ASSUME NEW v \in VaultData, NEW n \in 0..AccountSize
    PROVE  /\ Padded(SubSeq(Account(v), 1, n)) \in Octets
           /\ SubSeq(Account(v), 1, n) \in Octets
           /\ Len(SubSeq(Account(v), 1, n)) = n
           /\ \A f \in Octets, off \in Nat :
                At(Account(v), off, f) /\ off + Len(f) <= n
                => At(Padded(SubSeq(Account(v), 1, n)), off, f)
<1> DEFINE a == Account(v)
           z == [i \in 1..AccountSize |-> 0]
<1>1. a \in Octets /\ Len(a) = AccountSize /\ AccountSize \in Nat
  BY AccountPieces, OffsetType
<1>2. z \in Octets
  BY <1>1, ZeroesType
<1> HIDE DEF a, z
<1>3. SubSeq(a, 1, n) \in Octets /\ Len(SubSeq(a, 1, n)) = n
  BY <1>1 DEF Octets
<1>4. SubSeq(a, 1, n) \o z \in Octets
  BY <1>2, <1>3, JoinType
<1>5. ASSUME NEW f \in Octets, NEW off \in Nat, At(a, off, f), off + Len(f) <= n
      PROVE  At(SubSeq(a, 1, n) \o z, off, f)
  BY <1>1, <1>2, <1>5, AtFront
<1> QED
  BY <1>3, <1>4, <1>5 DEF a, z, Padded

\* DecodeVault, taken apart: the takes, the offsets, the checks, the result.
Num(bytes, off, w) == Number(Take(Padded(bytes), off, w))
IsSet(bytes, off)  == Num(bytes, off, 1) # 0

ReadTag           == DISC + KEY + LONG
ReadTimes(bytes)  == ReadTag + 1 + MintWidth(Num(bytes, ReadTag, 1))
ReadSlot(bytes, i) == ReadTimes(bytes) + 2 * LONG + (i - 1) * (KEY + SHORT + 1)
ReadCount(bytes)  == ReadSlot(bytes, MAX_BENEFICIARIES + 1)
ReadEnd(bytes)    == ReadCount(bytes) + 2 + LONG + 1

Rejects(bytes) ==
    \/ Len(bytes) < DISC
    \/ Take(bytes, 0, DISC) # AccountDiscriminator
    \/ ~Complete(bytes, ReadEnd(bytes))
    \/ Num(bytes, ReadCount(bytes), 1) > MAX_BENEFICIARIES

Heirs(bytes) ==
    [i \in 1..Num(bytes, ReadCount(bytes), 1) |->
        [address   |-> Num(bytes, ReadSlot(bytes, i), KEY),
         share_bps |-> Num(bytes, ReadSlot(bytes, i) + KEY, SHORT),
         claimed   |-> IsSet(bytes, ReadSlot(bytes, i) + KEY + SHORT)]]

Mint(bytes) ==
    IF IsSet(bytes, ReadTag) THEN <<Num(bytes, ReadTag + 1, KEY)>> ELSE << >>

Read(bytes) ==
    [err           |-> FALSE,
     owner         |-> Num(bytes, DISC, KEY),
     vault_id      |-> Num(bytes, DISC + KEY, LONG),
     mint          |-> Mint(bytes),
     last_checkin  |-> Signed(Num(bytes, ReadTimes(bytes), LONG)),
     timeout       |-> Signed(Signed(Num(bytes, ReadTimes(bytes) + LONG, LONG)) * SECOND),
     beneficiaries |-> Heirs(bytes),
     is_claimed    |-> IsSet(bytes, ReadCount(bytes) + 1),
     claim_pool    |-> Num(bytes, ReadCount(bytes) + 2, LONG),
     bump          |-> Num(bytes, ReadEnd(bytes) - 1, 1)]

\* So taken apart it is DecodeVault still.
LEMMA DecodeIs ==
    ASSUME NEW bytes
    PROVE  DecodeVault(bytes) = IF Rejects(bytes) THEN NotAVault ELSE Read(bytes)
BY Zenon DEF DecodeVault, Rejects, Read, Heirs, Mint, ReadEnd, ReadCount, ReadSlot,
             ReadTimes, ReadTag, IsSet, Num, Padded

\* What is left of an account after n bytes.
FirstBytes(v, n) == SubSeq(Account(v), 1, n)

\* With the tag there, the reader finds every field's place.
LEMMA ReadPlaces ==
    ASSUME NEW v \in VaultData, NEW n \in 0..AccountSize, DISC + TagAt < n
    PROVE  /\ ReadTag = DISC + TagAt
           /\ ReadTimes(FirstBytes(v, n)) = DISC + TimesAt(v)
           /\ \A i \in Nat : ReadSlot(FirstBytes(v, n), i) =
                                 DISC + TableAt(v) + (i - 1) * SlotWidth
           /\ ReadCount(FirstBytes(v, n)) = DISC + CountAt(v)
           /\ ReadEnd(FirstBytes(v, n)) = DISC + BorshSize(v)
<1> DEFINE bytes == FirstBytes(v, n)
<1>1. ReadTag = DISC + TagAt /\ ReadTag \in Nat
  BY WidthType DEF ReadTag, TagAt
<1>2. At(Account(v), DISC + TagAt, Option(v.mint))
  <2>1. /\ Account(v) \in Octets /\ Borsh(v) \in Octets /\ Option(v.mint) \in Octets
        /\ At(Account(v), DISC, Borsh(v)) /\ At(Borsh(v), TagAt, Option(v.mint))
    BY AccountPieces, BorshPieces, OptionType
  <2> QED
    BY <2>1, WidthType, OffsetType, AtWithin
<1>3. PICK b \in Unsigned(1) :
        At(Account(v), DISC + TagAt, Bytes(b, 1)) /\ MintWidth(b) = Shift(v)
  <2>1. Account(v) \in Octets /\ DISC + TagAt \in Nat
    BY AccountPieces, WidthType, OffsetType
  <2> QED
    BY <1>2, <2>1, TagIs
<1>4. At(Padded(bytes), ReadTag, Bytes(b, 1)) /\ Padded(bytes) \in Octets
  <2>1. Bytes(b, 1) \in Octets /\ Len(Bytes(b, 1)) = 1
    BY BytesType
  <2>2. DISC + TagAt \in Nat /\ (DISC + TagAt) + 1 <= n
    BY <1>1, OffsetType
  <2> QED
    BY <1>1, <1>3, <2>1, <2>2, PaddedHolds DEF FirstBytes
<1>5. Num(bytes, ReadTag, 1) = b
  BY <1>1, <1>4, NumberAt DEF Num
<1>6. ReadTimes(bytes) = DISC + TimesAt(v)
  <2>1. ReadTimes(bytes) = ReadTag + 1 + Shift(v)
    BY <1>3, <1>5 DEF ReadTimes
  <2> QED
    BY <1>1, <2>1, WidthType, OptionType DEF TimesAt, TagAt
<1>7. ASSUME NEW i \in Nat
      PROVE  ReadSlot(bytes, i) = DISC + TableAt(v) + (i - 1) * SlotWidth
  <2> DEFINE d == (i - 1) * SlotWidth
  <2>1. d \in Int
    BY WidthType
  <2>2. ReadSlot(bytes, i) = ReadTimes(bytes) + 2 * LONG + d
    BY DEF ReadSlot, SlotWidth
  <2> HIDE DEF d
  <2>3. ReadSlot(bytes, i) = DISC + TableAt(v) + d
    <3>1. TimesAt(v) \in Nat /\ TableAt(v) = TimesAt(v) + 2 * LONG
      BY OffsetType DEF TableAt
    <3> HIDE DEF bytes
    <3> QED
      BY <1>6, <2>1, <2>2, <3>1, WidthType
  <2> QED
    BY <2>3 DEF d
<1>8. ReadCount(bytes) = DISC + CountAt(v)
  <2>1. MAX_BENEFICIARIES + 1 \in Nat /\ (MAX_BENEFICIARIES + 1) - 1 = MAX_BENEFICIARIES
    BY WidthType
  <2>2. ReadCount(bytes) = DISC + TableAt(v) + TableWidth
    BY <1>7, <2>1 DEF ReadCount, TableWidth
  <2> QED
    BY <2>2, WidthType, OffsetType DEF CountAt
<1>9. ReadEnd(bytes) = DISC + BorshSize(v)
  <2>1. CountAt(v) + 2 + LONG + 1 = BorshSize(v) /\ CountAt(v) \in Nat
    BY OffsetType
  <2> QED
    BY <1>8, <2>1, WidthType DEF ReadEnd
<1> QED
  BY <1>1, <1>6, <1>7, <1>8, <1>9

\* As long as the vault is all there, the reader finds every field.
LEMMA FieldHolds ==
    ASSUME NEW v \in VaultData, NEW n \in 0..AccountSize, DISC + BorshSize(v) <= n,
           NEW f \in Octets, NEW d \in Nat, At(Borsh(v), d, f)
    PROVE  /\ At(Padded(FirstBytes(v, n)), DISC + d, f) /\ DISC + d \in Nat
           /\ Padded(FirstBytes(v, n)) \in Octets
<1>1. /\ Account(v) \in Octets /\ Borsh(v) \in Octets /\ Len(Borsh(v)) = BorshSize(v)
      /\ At(Account(v), DISC, Borsh(v))
  BY AccountPieces, BorshPieces
<1>2. Len(f) \in Nat /\ d + Len(f) <= BorshSize(v) /\ BorshSize(v) \in Nat
  BY <1>1, OffsetType DEF At, Octets
<1>3. At(Account(v), DISC + d, f)
  BY <1>1, WidthType, AtWithin
<1>4. DISC + d \in Nat /\ (DISC + d) + Len(f) <= n
  BY <1>2, WidthType
<1> QED
  BY <1>3, <1>4, PaddedHolds DEF FirstBytes

\* A number that the vault holds is read from its place.
LEMMA ReadNumber ==
    ASSUME NEW v \in VaultData, NEW n \in 0..AccountSize, DISC + BorshSize(v) <= n,
           NEW w \in Nat, NEW x \in Unsigned(w), NEW d \in Nat, At(Borsh(v), d, Bytes(x, w))
    PROVE  Num(FirstBytes(v, n), DISC + d, w) = x
<1> DEFINE f == Bytes(x, w)
           s == Padded(FirstBytes(v, n))
<1>1. f \in Octets
  BY BytesType
<1>2. At(s, DISC + d, f) /\ DISC + d \in Nat /\ s \in Octets
  <2> HIDE DEF f
  <2> QED
    BY <1>1, FieldHolds DEF f
<1> QED
  BY <1>2, NumberAt DEF Num

\* Times and durations fit the signed words they are read into.
LEMMA SignedIs ==
    ASSUME NEW x \in 0..MaxInt
    PROVE  Signed(x) = x
<1>1. x \in 0..(WordSize - 1) /\ WordSize \in Nat \ {0} /\ x <= MaxInt /\ MaxInt \in Int
  BY MaxIntType
<1>2. x % WordSize = x
  <2> DEFINE W == WordSize
  <2>1. W \in Nat /\ W # 0 /\ x \in 0..(W - 1)
    BY <1>1
  <2> HIDE DEF W
  <2>2. x % W = x
    BY <2>1
  <2> QED
    BY <2>2 DEF W
<1> QED
  BY <1>1, <1>2 DEF Signed

\* Behind the discriminator, and with no more heirs than the table holds, an
\* account that is long enough is accepted.
LEMMA WholeIsAccepted ==
    ASSUME NEW v \in VaultData, NEW n \in 0..AccountSize, DISC + BorshSize(v) <= n
    PROVE  /\ ~Rejects(FirstBytes(v, n)) /\ DISC + TagAt < n
           /\ Num(FirstBytes(v, n), ReadCount(FirstBytes(v, n)), 1) = v.beneficiary_count
<1> DEFINE bytes == FirstBytes(v, n)
<1>1. DISC + TagAt < n /\ DISC <= n
  <2>1. TagAt \in Nat /\ CountAt(v) \in Nat /\ TableAt(v) \in Nat /\ BorshSize(v) \in Nat
        /\ CountAt(v) + 2 + LONG + 1 = BorshSize(v)
    BY OffsetType
  <2>2. Shift(v) \in Nat
    BY OptionType, WidthType
  <2>3. CountAt(v) = TagAt + 1 + Shift(v) + 2 * LONG + TableWidth
    BY DEF CountAt, TableAt, TimesAt
  <2> QED
    BY <2>1, <2>2, <2>3, WidthType
<1>2. Len(bytes) = n /\ bytes \in Octets
  BY PaddedHolds DEF FirstBytes
<1>3. Take(bytes, 0, DISC) = AccountDiscriminator
  <2> DEFINE a == Account(v)
             d == AccountDiscriminator
  <2>1. /\ a \in Octets /\ Len(a) = AccountSize /\ At(a, 0, d)
        /\ d \in Octets /\ Len(d) = DISC
    BY AccountPieces
  <2> HIDE DEF a, d
  <2>2. << >> \in Octets /\ 0 + Len(d) <= n
    BY <1>1, <2>1, WidthType DEF Octets
  <2>3. At(SubSeq(a, 1, n) \o << >>, 0, d)
    BY <2>1, <2>2, AtFront
  <2>4. SubSeq(a, 1, n) \o << >> = SubSeq(a, 1, n)
    BY <1>2, ConcatEmptySeq DEF Octets, FirstBytes, a
  <2>5. At(bytes, 0, d)
    BY <2>3, <2>4 DEF FirstBytes, a
  <2>6. Take(bytes, 0, Len(d)) = d
    BY <1>2, <2>1, <2>5, TakeAt
  <2> QED
    BY <2>1, <2>6 DEF d
<1>4. Complete(bytes, ReadEnd(bytes))
  BY <1>1, <1>2, ReadPlaces DEF Complete
<1>5. Num(bytes, ReadCount(bytes), 1) = v.beneficiary_count
  <2>1. ReadCount(bytes) = DISC + CountAt(v)
    BY <1>1, ReadPlaces
  <2>2. Num(bytes, DISC + CountAt(v), 1) = v.beneficiary_count
    BY FieldTypes, BorshPieces, OffsetType, ReadNumber
  <2> QED
    BY <2>1, <2>2
<1>6. v.beneficiary_count \in 0..MAX_BENEFICIARIES
  BY DEF VaultData
<1>7. ~Rejects(bytes)
  BY <1>1, <1>2, <1>3, <1>4, <1>5, <1>6, WidthType DEF Rejects
<1> QED
  BY <1>1, <1>5, <1>7

\* The reader's heirs are the occupied slots.
LEMMA HeirsAreRead ==
    ASSUME NEW v \in VaultData, NEW n \in 0..AccountSize, DISC + BorshSize(v) <= n
    PROVE  Heirs(FirstBytes(v, n)) = SubSeq(v.beneficiaries, 1, v.beneficiary_count)
<1> DEFINE bytes == FirstBytes(v, n)
           s == Padded(bytes)
           m == v.beneficiary_count
<1>1. DISC + TagAt < n /\ Num(bytes, ReadCount(bytes), 1) = m
  BY WholeIsAccepted
<1>2. m \in 0..MAX_BENEFICIARIES /\ v.beneficiaries \in [1..MAX_BENEFICIARIES -> Beneficiary]
  BY DEF VaultData
<1>3. ASSUME NEW i \in 1..m
      PROVE  [address   |-> Num(bytes, ReadSlot(bytes, i), KEY),
              share_bps |-> Num(bytes, ReadSlot(bytes, i) + KEY, SHORT),
              claimed   |-> IsSet(bytes, ReadSlot(bytes, i) + KEY + SHORT)]
             = v.beneficiaries[i]
  <2> DEFINE b == v.beneficiaries[i]
             d == (i - 1) * SlotWidth
             off == ReadSlot(bytes, i)
  <2>1. i \in 1..MAX_BENEFICIARIES /\ i - 1 \in Nat
    BY <1>2, WidthType
  <2>2. d \in Nat
    BY <2>1, WidthType
  <2>3. b \in Beneficiary /\ At(Table(v), d, Slot(b)) /\ Table(v) \in Octets
    BY <2>1, TableType
  <2>4. Slot(b) \in Octets
    BY <2>3, SlotType
  <2>5. /\ Borsh(v) \in Octets /\ At(Borsh(v), TableAt(v), Table(v))
        /\ TableAt(v) \in Nat /\ DISC \in Nat
    BY BorshPieces, OffsetType, WidthType
  <2>6. off = DISC + TableAt(v) + d
    BY <1>1, <2>1, ReadPlaces
  <2> HIDE DEF b, d
  <2>7. At(Borsh(v), TableAt(v) + d, Slot(b)) /\ TableAt(v) + d \in Nat
    BY <2>2, <2>3, <2>4, <2>5, AtWithin
  <2>8. /\ At(s, DISC + (TableAt(v) + d), Slot(b)) /\ s \in Octets
        /\ DISC + (TableAt(v) + d) \in Nat
    BY <2>4, <2>7, FieldHolds
  <2>9. off = DISC + (TableAt(v) + d)
    BY <2>2, <2>5, <2>6
  <2>10. /\ Num(bytes, off, KEY) = b.address
         /\ Num(bytes, off + KEY, SHORT) = b.share_bps
         /\ IsSet(bytes, off + KEY + SHORT) <=> b.claimed
    <3> HIDE DEF bytes, off
    <3>1. At(s, off, Slot(b)) /\ off \in Nat /\ s \in Octets
      BY <2>8, <2>9
    <3> QED
      BY <2>3, <3>1, SlotAt DEF Num, IsSet
  <2>11. IsSet(bytes, off + KEY + SHORT) = b.claimed
    <3>1. IsSet(bytes, off + KEY + SHORT) \in BOOLEAN /\ b.claimed \in BOOLEAN
      BY <2>3, SlotType DEF IsSet
    <3> QED
      BY <2>10, <3>1, Zenon
  <2>12. b = [address |-> b.address, share_bps |-> b.share_bps, claimed |-> b.claimed]
    BY <2>3 DEF Beneficiary
  <2> HIDE DEF bytes, off
  <2> QED
    BY <2>10, <2>11, <2>12 DEF off, b
<1>4. Heirs(bytes) = [i \in 1..m |-> v.beneficiaries[i]]
  BY <1>1, <1>3 DEF Heirs
<1>5. SubSeq(v.beneficiaries, 1, m) = [i \in 1..m |-> v.beneficiaries[i]]
  <2> DEFINE t == v.beneficiaries
  <2>1. t \in Seq(Beneficiary) /\ Len(t) = MAX_BENEFICIARIES
    BY <1>2, WidthType, SeqDef
  <2>2. m \in Nat /\ 1 \in Nat
    BY <1>2, WidthType
  <2> HIDE DEF t, m
  <2>3. SubSeq(t, 1, m) = [i \in 1..m |-> t[i]]
    <3>1. SubSeq(t, 1, m) = [i \in 1..(m - 1 + 1) |-> t[i + 1 - 1]]
      BY <2>1, <2>2
    <3>2. m - 1 + 1 = m /\ \A i \in 1..m : i + 1 - 1 = i
      BY <2>2
    <3> QED
      BY <3>1, <3>2
  <2> QED
    BY <2>3 DEF t
<1> QED
  BY <1>4, <1>5

\* The reader's mint is the one that was written, if one was.
LEMMA MintIsRead ==
    ASSUME NEW v \in VaultData, NEW n \in 0..AccountSize, DISC + BorshSize(v) <= n
    PROVE  Mint(FirstBytes(v, n)) = v.mint
<1> DEFINE bytes == FirstBytes(v, n)
           s == Padded(bytes)
<1>1. Option(v.mint) \in Octets /\ At(Borsh(v), TagAt, Option(v.mint)) /\ TagAt \in Nat
  BY OptionType, BorshPieces, OffsetType
<1>2. ReadTag = DISC + TagAt
  BY WholeIsAccepted, ReadPlaces
<1>3. At(s, ReadTag, Option(v.mint)) /\ ReadTag \in Nat /\ s \in Octets
  BY <1>1, <1>2, FieldHolds
<1>4. v.mint = IF Number(Take(s, ReadTag, 1)) # 0
               THEN <<Number(Take(s, ReadTag + 1, KEY))>> ELSE << >>
  <2> HIDE DEF s
  <2> QED
    BY <1>3, OptionAt
<1> QED
  BY <1>4 DEF Mint, IsSet, Num

\* No timeout that the program accepts overflows a duration.
LEMMA DurationFits ==
    ASSUME NEW t \in 0..MAX_TIMEOUT_SECONDS
    PROVE  t \in 0..MaxInt /\ t * SECOND \in 0..MaxInt
<1> DEFINE M == MAX_TIMEOUT_SECONDS
           product == t * SECOND
<1>1. /\ M \in Nat /\ SECOND \in Nat /\ SECOND >= 1 /\ M * SECOND <= MaxInt
      /\ MaxInt \in Int /\ t \in Nat /\ t <= M
  BY WidthAssumption, DurationAssumption, MaxIntType
<1> HIDE DEF M
<1>2. product \in Nat /\ product <= M * SECOND /\ t <= product
  BY <1>1
<1> HIDE DEF product
<1>3. product <= MaxInt /\ t <= MaxInt
  <2> DEFINE q == M * SECOND
  <2>1. q \in Nat /\ q <= MaxInt /\ product <= q
    BY <1>1, <1>2
  <2> HIDE DEF q
  <2> QED
    BY <1>1, <1>2, <2>1
<1> QED
  BY <1>1, <1>2, <1>3 DEF product

\* An account in which the vault is all there is read as what was written.
LEMMA WholeIsRead ==
    ASSUME NEW v \in VaultData, NEW n \in 0..AccountSize, DISC + BorshSize(v) <= n
    PROVE  DecodeVault(FirstBytes(v, n)) = Seen(v)
<1> DEFINE bytes == FirstBytes(v, n)
<1>1. /\ ReadTimes(bytes) = DISC + TimesAt(v)
      /\ ReadCount(bytes) = DISC + CountAt(v)
      /\ ReadEnd(bytes) = DISC + BorshSize(v)
  BY WholeIsAccepted, ReadPlaces
<1>2. /\ TimesAt(v) \in Nat /\ CountAt(v) \in Nat /\ KEY \in Nat /\ LONG \in Nat
      /\ DISC \in Nat /\ CountAt(v) + 2 + LONG + 1 = BorshSize(v)
  BY OffsetType, WidthType
<1>3. Num(bytes, DISC, KEY) = v.owner
  <2>1. Num(bytes, DISC + 0, KEY) = v.owner
    <3>1. 0 \in Nat
      OBVIOUS
    <3> QED
      BY <1>2, <3>1, FieldTypes, BorshPieces, ReadNumber
  <2>2. DISC + 0 = DISC
    BY <1>2
  <2> QED
    BY <2>1, <2>2
<1>4. Num(bytes, DISC + KEY, LONG) = v.vault_id
  BY <1>2, FieldTypes, BorshPieces, ReadNumber
<1>5. Signed(Num(bytes, ReadTimes(bytes), LONG)) = v.last_checkin
  <2>1. Num(bytes, DISC + TimesAt(v), LONG) = v.last_checkin
    BY <1>2, FieldTypes, BorshPieces, ReadNumber
  <2>2. v.last_checkin \in 0..MaxInt
    BY DEF VaultData
  <2> QED
    BY <1>1, <2>1, <2>2, SignedIs
<1>6. Signed(Signed(Num(bytes, ReadTimes(bytes) + LONG, LONG)) * SECOND)
          = v.timeout_seconds * SECOND
  <2>1. Num(bytes, DISC + (TimesAt(v) + LONG), LONG) = v.timeout_seconds
    <3>1. TimesAt(v) + LONG \in Nat
      BY <1>2
    <3>2. /\ v.timeout_seconds \in Unsigned(LONG)
          /\ At(Borsh(v), TimesAt(v) + LONG, Bytes(v.timeout_seconds, LONG))
      BY FieldTypes, BorshPieces
    <3> QED
      BY <1>2, <3>1, <3>2, ReadNumber
  <2>2. DISC + (TimesAt(v) + LONG) = ReadTimes(bytes) + LONG
    <3> HIDE DEF bytes
    <3> QED
      BY <1>1, <1>2
  <2>3. v.timeout_seconds \in 0..MAX_TIMEOUT_SECONDS
    BY DEF VaultData
  <2>4. /\ Signed(v.timeout_seconds) = v.timeout_seconds
        /\ Signed(v.timeout_seconds * SECOND) = v.timeout_seconds * SECOND
    BY <2>3, DurationFits, SignedIs
  <2> QED
    BY <2>1, <2>2, <2>4
<1>7. IsSet(bytes, ReadCount(bytes) + 1) = v.is_claimed
  <2> DEFINE f == Flag(v.is_claimed)
             s == Padded(bytes)
  <2>1. f \in Octets /\ At(Borsh(v), CountAt(v) + 1, f) /\ CountAt(v) + 1 \in Nat
    BY <1>2, FieldTypes, FlagType, BorshPieces
  <2>2. DISC + (CountAt(v) + 1) = ReadCount(bytes) + 1
    <3> HIDE DEF bytes
    <3> QED
      BY <1>1, <1>2
  <2>3. At(s, ReadCount(bytes) + 1, f) /\ ReadCount(bytes) + 1 \in Nat /\ s \in Octets
    <3> HIDE DEF f
    <3> QED
      BY <2>1, <2>2, FieldHolds
  <2>4. v.is_claimed \in BOOLEAN /\ IsSet(bytes, ReadCount(bytes) + 1) \in BOOLEAN
    BY FieldTypes DEF IsSet
  <2>5. IsSet(bytes, ReadCount(bytes) + 1) <=> v.is_claimed
    <3> HIDE DEF bytes
    <3> QED
      BY <2>3, <2>4, FlagAt DEF IsSet, Num
  <2> QED
    BY <2>4, <2>5, Zenon
<1>8. Num(bytes, ReadCount(bytes) + 2, LONG) = v.claim_pool
  <2>1. CountAt(v) + 2 \in Nat
    BY <1>2
  <2>2. Num(bytes, DISC + (CountAt(v) + 2), LONG) = v.claim_pool
    <3>1. /\ v.claim_pool \in Unsigned(LONG)
          /\ At(Borsh(v), CountAt(v) + 2, Bytes(v.claim_pool, LONG))
      BY FieldTypes, BorshPieces
    <3> QED
      BY <1>2, <2>1, <3>1, ReadNumber
  <2>3. DISC + (CountAt(v) + 2) = ReadCount(bytes) + 2
    <3> HIDE DEF bytes
    <3> QED
      BY <1>1, <1>2
  <2> QED
    BY <2>2, <2>3
<1>9. Num(bytes, ReadEnd(bytes) - 1, 1) = v.bump
  <2>1. CountAt(v) + 2 + LONG \in Nat /\ 1 \in Nat
    BY <1>2
  <2>2. Num(bytes, DISC + (CountAt(v) + 2 + LONG), 1) = v.bump
    <3>1. /\ v.bump \in Unsigned(1)
          /\ At(Borsh(v), CountAt(v) + 2 + LONG, Bytes(v.bump, 1))
      BY FieldTypes, BorshPieces
    <3> QED
      BY <2>1, <3>1, ReadNumber
  <2>3. DISC + (CountAt(v) + 2 + LONG) = ReadEnd(bytes) - 1
    <3> HIDE DEF bytes
    <3> QED
      BY <1>1, <1>2
  <2> QED
    BY <2>2, <2>3
<1>10. Read(bytes) = Seen(v)
  BY <1>3, <1>4, <1>5, <1>6, <1>7, <1>8, <1>9, MintIsRead, HeirsAreRead DEF Read, Seen
<1> QED
  BY <1>10, WholeIsAccepted, DecodeIs

\* An account in which some of the vault is missing is refused: the takes do
\* not end before the vault does, whatever the reader makes of a missing tag.
LEMMA CutIsRefused ==
    ASSUME NEW v \in VaultData, NEW n \in 0..AccountSize, n < DISC + BorshSize(v)
    PROVE  DecodeVault(FirstBytes(v, n)) = NotAVault
<1> DEFINE bytes == FirstBytes(v, n)
<1>1. Len(bytes) = n
  BY PaddedHolds DEF FirstBytes
<1>2. n < ReadEnd(bytes)
  <2>1. CASE DISC + TagAt < n
    BY <2>1, ReadPlaces
  <2>2. CASE ~(DISC + TagAt < n)
    <3> DEFINE shift == MintWidth(Num(bytes, ReadTag, 1))
    <3>1. shift \in Nat
      BY WidthType DEF MintWidth
    <3>2. (MAX_BENEFICIARIES + 1) - 1 = MAX_BENEFICIARIES
      BY WidthType
    <3>3. ReadCount(bytes) = ReadTimes(bytes) + 2 * LONG + TableWidth
      BY <3>2, Zenon DEF ReadCount, ReadSlot, TableWidth, SlotWidth
    <3>4. ReadTimes(bytes) = ReadTag + 1 + shift /\ ReadTag = DISC + TagAt
      BY WidthType DEF ReadTimes, ReadTag, TagAt
    <3> HIDE DEF shift, bytes
    <3>5. ReadEnd(bytes) = DISC + TagAt + 1 + shift + 2 * LONG + TableWidth + 2 + LONG + 1
      BY <3>3, <3>4 DEF ReadEnd
    <3>6. TagAt \in Nat
      BY WidthType DEF TagAt
    <3> QED
      BY <2>2, <3>1, <3>5, <3>6, WidthType
  <2> QED
    BY <2>1, <2>2
<1>3. Rejects(bytes)
  <2>1. ReadEnd(bytes) \in Int /\ n \in Int
    <3>1. MintWidth(Num(bytes, ReadTag, 1)) \in Nat
      BY WidthType DEF MintWidth
    <3> QED
      BY <3>1, WidthType DEF ReadEnd, ReadCount, ReadSlot, ReadTimes, ReadTag
  <2> QED
    BY <1>1, <1>2, <2>1 DEF Rejects, Complete
<1> QED
  BY <1>3, DecodeIs

-----------------------------------------------------------------------------
(* The invariant. *)

CodecInv ==
    /\ vault \in VaultData
    /\ \E n \in 0..AccountSize : data = FirstBytes(vault, n)
    /\ shown \in {Undecoded, DecodeVault(data)}

\* A whole account is all of its bytes.
LEMMA WholeFront ==
    ASSUME NEW v \in VaultData
    PROVE  Account(v) = FirstBytes(v, AccountSize) /\ AccountSize \in 0..AccountSize
<1>1. Account(v) \in Octets /\ Len(Account(v)) = AccountSize /\ AccountSize \in Nat
  BY AccountPieces, OffsetType
<1> QED
  BY <1>1, SubSeqFull DEF FirstBytes, Octets

\* The reader is given the front of an account, and shows what it decodes.
LEMMA CodecInvariant == Spec => []CodecInv
<1>1. Init => CodecInv
  <2> SUFFICES ASSUME Init
               PROVE  CodecInv
    OBVIOUS
  <2>1. vault \in VaultData
    BY VaultsAssumption DEF Init
  <2>2. data = FirstBytes(vault, AccountSize) /\ AccountSize \in 0..AccountSize
    BY <2>1, WholeFront DEF Init
  <2> QED
    BY <2>1, <2>2 DEF Init, CodecInv
<1>2. CodecInv /\ [Next]_vars => CodecInv'
  <2> SUFFICES ASSUME CodecInv, [Next]_vars
               PROVE  CodecInv'
    OBVIOUS
  <2> USE DEF CodecInv
  <2>1. CASE Cut
    <3>1. /\ data = Account(vault) /\ vault' = vault /\ shown' = Undecoded
          /\ \E n \in 0..(AccountSize - 1) : data' = FirstBytes(vault, n)
      BY <2>1 DEF Cut, FirstBytes
    <3>2. 0..(AccountSize - 1) \subseteq 0..AccountSize
      BY OffsetType
    <3> QED
      BY <3>1, <3>2
  <2>2. CASE Decode
    BY <2>2 DEF Decode
  <2>3. CASE UNCHANGED vars
    BY <2>3 DEF vars
  <2> QED
    BY <2>1, <2>2, <2>3 DEF Next
<1> QED
  BY <1>1, <1>2, PTL DEF Spec

\* The keeper's decoder, written by hand, sees of every account that the program
\* writes just what was written, or nothing: for every width of the fields, every
\* vault and every byte at which the answer of the node may break off.
THEOREM NeverMisreads == Spec => []NeverMisread
<1>1. CodecInv => NeverMisread
  <2> SUFFICES ASSUME CodecInv, Decoded
               PROVE  /\ shown \in {Seen(vault), NotAVault}
                      /\ Len(data) >= Len(Borsh(vault)) + DISC <=> shown = Seen(vault)
    BY DEF NeverMisread
  <2>1. PICK n \in 0..AccountSize : data = FirstBytes(vault, n)
    BY DEF CodecInv
  <2>2. vault \in VaultData /\ shown = DecodeVault(data)
    BY DEF CodecInv, Decoded
  <2>3. Len(data) = n /\ Len(Borsh(vault)) = BorshSize(vault)
    BY <2>1, <2>2, PaddedHolds, BorshPieces DEF FirstBytes
  <2>4. n \in Int /\ DISC \in Int /\ BorshSize(vault) \in Int
    BY <2>2, OffsetType, WidthType
  <2>5. NotAVault # Seen(vault)
    BY DEF NotAVault, Seen
  <2>6. CASE DISC + BorshSize(vault) <= n
    <3>1. shown = Seen(vault)
      BY <2>1, <2>2, <2>6, WholeIsRead
    <3> QED
      BY <2>3, <2>4, <2>6, <3>1
  <2>7. CASE n < DISC + BorshSize(vault)
    <3>1. shown = NotAVault
      BY <2>1, <2>2, <2>7, CutIsRefused
    <3>2. ~(Len(data) >= Len(Borsh(vault)) + DISC)
      BY <2>3, <2>4, <2>7
    <3> QED
      BY <2>5, <3>1, <3>2
  <2> QED
    BY <2>4, <2>6, <2>7
<1> QED
  BY <1>1, CodecInvariant, PTL

=============================================================================
