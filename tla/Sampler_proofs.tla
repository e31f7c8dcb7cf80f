--------------------------- MODULE Sampler_proofs ---------------------------
(***************************************************************************)
(* Proofs about Sampler's arithmetic, for any widths of a word and a       *)
(* double: a threshold is what its ratio means up to rounding, and a       *)
(* larger ratio never has a smaller threshold.                             *)
(***************************************************************************)
EXTENDS Sampler, LeastElement_proofs, TLAPS

-----------------------------------------------------------------------------
(* Powers of two. *)

\* The first powers, as far as n.
IsPowers(g, n) ==
  /\ g \in [0 .. n -> Nat \ {0}] /\ g[0] = 1
  /\ \A i \in 1 .. n : g[i] = 2 * g[i - 1]

\* Induction by the least counterexample: a set of naturals with 0 that is closed
\* under successors has them all.
LEMMA InductionBySet ==
  ASSUME NEW S \in SUBSET Nat, 0 \in S, \A n \in S : n + 1 \in S
  PROVE  S = Nat
<1>1. SUFFICES ASSUME Nat \ S # {} PROVE FALSE
  OBVIOUS
<1>2. PICK x \in Nat \ S : \A y \in Nat \ S : x <= y
  BY <1>1, LeastElement
<1>3. x # 0 /\ x - 1 \in Nat
  OBVIOUS
<1>4. x - 1 \in S
  BY <1>2, <1>3
<1>5. (x - 1) + 1 \in S
  BY <1>4
<1>6. QED
  BY <1>5, <1>3

LEMMA PowersExist == \A n \in Nat : \E g : IsPowers(g, n)
<1> DEFINE S == {n \in Nat : \E g : IsPowers(g, n)}
<1>1. 0 \in S
  <2>1. IsPowers([i \in 0 .. 0 |-> 1], 0)
    BY DEF IsPowers
  <2>2. QED
    BY <2>1
<1>2. ASSUME NEW n \in S PROVE n + 1 \in S
  <2>1. PICK g : IsPowers(g, n)
    OBVIOUS
  <2> DEFINE h == [i \in 0 .. n + 1 |-> IF i = n + 1 THEN 2 * g[n] ELSE g[i]]
  <2>2. IsPowers(h, n + 1)
    <3>1. /\ g \in [0 .. n -> Nat \ {0}] /\ g[0] = 1
          /\ \A i \in 1 .. n : g[i] = 2 * g[i - 1]
      BY <2>1 DEF IsPowers
    <3>2. h[n + 1] = 2 * g[n] /\ \A i \in 0 .. n : h[i] = g[i]
      OBVIOUS
    <3>3. h \in [0 .. n + 1 -> Nat \ {0}] /\ h[0] = 1
      BY <3>1
    <3>4. ASSUME NEW i \in 1 .. n + 1 PROVE h[i] = 2 * h[i - 1]
      <4> HIDE DEF h
      <4>1. CASE i = n + 1
        <5>1. i - 1 = n /\ n \in 0 .. n
          BY <4>1
        <5>2. QED
          BY <3>2, <4>1, <5>1
      <4>2. CASE i # n + 1
        <5>1. i \in 1 .. n /\ i \in 0 .. n /\ i - 1 \in 0 .. n
          BY <4>2
        <5>2. QED
          BY <3>1, <3>2, <5>1
      <4>3. QED
        BY <4>1, <4>2
    <3>5. QED
      BY <3>3, <3>4 DEF IsPowers
  <2>3. QED
    BY <2>2
<1>3. S = Nat
  <2> HIDE DEF S
  <2>1. S \in SUBSET Nat
    BY DEF S
  <2>2. QED
    BY <1>1, <1>2, <2>1, InductionBySet
<1>4. QED
  BY <1>3

LEMMA PowersAgree ==
  ASSUME NEW n \in Nat, NEW m \in Nat, NEW g, NEW h, IsPowers(g, n), IsPowers(h, m)
  PROVE  \A i \in Nat : i <= n /\ i <= m => g[i] = h[i]
<1> DEFINE S == {i \in Nat : i <= n /\ i <= m => g[i] = h[i]}
<1>1. 0 \in S
  BY DEF IsPowers
<1>2. ASSUME NEW i \in S PROVE i + 1 \in S
  BY DEF IsPowers
<1>3. S = Nat
  <2> HIDE DEF S
  <2>1. S \in SUBSET Nat
    BY DEF S
  <2>2. QED
    BY <1>1, <1>2, <2>1, InductionBySet
<1>4. QED
  BY <1>3

LEMMA PowerDefined ==
  PowerOfTwo = [n \in Nat |-> IF n = 0 THEN 1 ELSE 2 * PowerOfTwo[n - 1]]
<1> DEFINE G(n) == CHOOSE g : IsPowers(g, n)
           f == [n \in Nat |-> G(n)[n]]
<1>1. \A n \in Nat : IsPowers(G(n), n)
  BY PowersExist
<1> HIDE DEF G
<1>2. ASSUME NEW n \in Nat PROVE f[n] = IF n = 0 THEN 1 ELSE 2 * f[n - 1]
  <2>1. CASE n = 0
    BY <1>1, <2>1 DEF IsPowers
  <2>2. CASE n # 0
    <3>1. n - 1 \in Nat /\ n - 1 <= n
      BY <2>2
    <3>2. G(n)[n - 1] = G(n - 1)[n - 1]
      BY <1>1, <3>1, PowersAgree
    <3>3. G(n)[n] = 2 * G(n)[n - 1]
      BY <1>1, <2>2 DEF IsPowers
    <3>4. QED
      BY <2>2, <3>1, <3>2, <3>3
  <2>3. QED
    BY <2>1, <2>2
<1>3. f = [n \in Nat |-> IF n = 0 THEN 1 ELSE 2 * f[n - 1]]
  <2> DEFINE rhs == [n \in Nat |-> IF n = 0 THEN 1 ELSE 2 * f[n - 1]]
  <2>1. f = [n \in Nat |-> f[n]]
    OBVIOUS
  <2> HIDE DEF f
  <2>2. QED
    BY <1>2, <2>1
<1> HIDE DEF f
<1>4. \E q : q = [n \in Nat |-> IF n = 0 THEN 1 ELSE 2 * q[n - 1]]
  BY <1>3
<1>5. QED
  BY <1>4 DEF PowerOfTwo

LEMMA PowerStep ==
  /\ PowerOfTwo[0] = 1
  /\ \A n \in Nat : PowerOfTwo[n + 1] = 2 * PowerOfTwo[n]
<1>1. PowerOfTwo[0] = 1
  BY PowerDefined
<1>2. ASSUME NEW n \in Nat PROVE PowerOfTwo[n + 1] = 2 * PowerOfTwo[n]
  <2>1. PowerOfTwo[n + 1] = 2 * PowerOfTwo[(n + 1) - 1]
    BY PowerDefined
  <2>2. (n + 1) - 1 = n
    OBVIOUS
  <2>3. QED
    BY <2>1, <2>2
<1>3. QED
  BY <1>1, <1>2

LEMMA PowerType == \A n \in Nat : PowerOfTwo[n] \in Nat \ {0}
<1> DEFINE S == {n \in Nat : PowerOfTwo[n] \in Nat \ {0}}
<1>1. 0 \in S
  BY PowerStep
<1>2. ASSUME NEW n \in S PROVE n + 1 \in S
  BY PowerStep
<1>3. S = Nat
  <2> HIDE DEF S
  <2>1. S \in SUBSET Nat
    BY DEF S
  <2>2. QED
    BY <1>1, <1>2, <2>1, InductionBySet
<1>4. QED
  BY <1>3

LEMMA PowerSum ==
  \A a, b \in Nat : PowerOfTwo[a + b] = PowerOfTwo[a] * PowerOfTwo[b]
<1> SUFFICES ASSUME NEW a \in Nat
             PROVE  \A b \in Nat : PowerOfTwo[a + b] = PowerOfTwo[a] * PowerOfTwo[b]
  OBVIOUS
<1> DEFINE S == {b \in Nat : PowerOfTwo[a + b] = PowerOfTwo[a] * PowerOfTwo[b]}
<1>1. 0 \in S
  BY PowerStep, PowerType
<1>2. ASSUME NEW b \in S PROVE b + 1 \in S
  <2>1. /\ PowerOfTwo[a] \in Nat /\ PowerOfTwo[b] \in Nat
        /\ PowerOfTwo[b + 1] = 2 * PowerOfTwo[b]
    BY PowerType, PowerStep
  <2>2. PowerOfTwo[(a + b) + 1] = 2 * PowerOfTwo[a + b]
    BY PowerStep
  <2>3. PowerOfTwo[a + (b + 1)] = 2 * PowerOfTwo[a + b]
    <3>1. (a + b) + 1 = a + (b + 1)
      OBVIOUS
    <3>2. QED
      BY <2>2, <3>1
  <2>4. PowerOfTwo[a + b] = PowerOfTwo[a] * PowerOfTwo[b]
    OBVIOUS
  <2>5. QED
    BY <2>1, <2>3, <2>4
<1>3. S = Nat
  <2> HIDE DEF S
  <2>1. S \in SUBSET Nat
    BY DEF S
  <2>2. QED
    BY <1>1, <1>2, <2>1, InductionBySet
<1>4. QED
  BY <1>3

LEMMA PowerExceeds == \A n \in Nat : n < PowerOfTwo[n]
<1> DEFINE S == {n \in Nat : n < PowerOfTwo[n]}
<1>1. 0 \in S
  BY PowerStep
<1>2. ASSUME NEW n \in S PROVE n + 1 \in S
  BY PowerStep, PowerType
<1>3. S = Nat
  <2> HIDE DEF S
  <2>1. S \in SUBSET Nat
    BY DEF S
  <2>2. QED
    BY <1>1, <1>2, <2>1, InductionBySet
<1>4. QED
  BY <1>3

\* The smaller of two powers divides the larger, which exceeds twice the smaller
\* unless they are equal.
LEMMA PowerOrder ==
  ASSUME NEW a \in Nat, NEW b \in Nat
  PROVE  /\ a <= b => /\ b - a \in Nat
                      /\ PowerOfTwo[b] = PowerOfTwo[a] * PowerOfTwo[b - a]
                      /\ PowerOfTwo[a] <= PowerOfTwo[b]
         /\ a < b => 2 * PowerOfTwo[a] <= PowerOfTwo[b]
<1>1. ASSUME NEW c \in Nat, NEW d \in Nat, c <= d
      PROVE  /\ d - c \in Nat
             /\ PowerOfTwo[d] = PowerOfTwo[c] * PowerOfTwo[d - c]
             /\ PowerOfTwo[c] <= PowerOfTwo[d]
  <2>1. d - c \in Nat /\ c + (d - c) = d
    BY <1>1
  <2>2. PowerOfTwo[d] = PowerOfTwo[c] * PowerOfTwo[d - c]
    BY <2>1, PowerSum
  <2>3. PowerOfTwo[c] \in Nat \ {0} /\ PowerOfTwo[d - c] \in Nat \ {0}
    BY <2>1, PowerType
  <2>4. PowerOfTwo[c] <= PowerOfTwo[c] * PowerOfTwo[d - c]
    BY <2>3
  <2>5. QED
    BY <2>1, <2>2, <2>4
<1>2. ASSUME a < b PROVE 2 * PowerOfTwo[a] <= PowerOfTwo[b]
  <2>1. PowerOfTwo[a + 1] <= PowerOfTwo[b]
    BY <1>1, <1>2
  <2>2. QED
    BY <2>1, PowerStep
<1>3. QED
  BY <1>1, <1>2
-----------------------------------------------------------------------------
(* Division. *)

LEMMA Division ==
  ASSUME NEW n \in Int, NEW d \in Nat \ {0}
  PROVE  /\ n \div d \in Int /\ n % d \in 0 .. d - 1
         /\ n = d * (n \div d) + (n % d)
         /\ n \in Nat => n \div d \in Nat
<1>1. n \div d \in Int /\ n % d \in 0 .. d - 1
  OBVIOUS
<1>2. n = d * (n \div d) + (n % d)
  OBVIOUS
<1>3. n \in Nat => n \div d \in Nat
  OBVIOUS
<1>4. QED
  BY <1>1, <1>2, <1>3

LEMMA NatDivision ==
  ASSUME NEW n \in Nat, NEW d \in Nat \ {0}
  PROVE  /\ n \div d \in Nat /\ n % d \in 0 .. d - 1
         /\ n = d * (n \div d) + (n % d)
<1>1. n \in Int
  OBVIOUS
<1>2. QED
  BY <1>1, Division

LEMMA DivisionIsUnique ==
  ASSUME NEW n \in Int, NEW d \in Nat \ {0}, NEW q \in Int, NEW r \in 0 .. d - 1,
         n = d * q + r
  PROVE  n \div d = q /\ n % d = r
OBVIOUS

LEMMA DivisionBounds ==
  ASSUME NEW n \in Int, NEW d \in Nat \ {0}, NEW k \in Int
  PROVE  /\ k * d <= n => k <= n \div d
         /\ n < k * d => n \div d < k
<1>1. k * d <= n => k <= n \div d
  OBVIOUS
<1>2. n < k * d => n \div d < k
  OBVIOUS
<1>3. QED
  BY <1>1, <1>2

LEMMA DivisionScales ==
  ASSUME NEW n \in Int, NEW d \in Nat \ {0}, NEW c \in Nat \ {0}
  PROVE  (n * c) \div (d * c) = n \div d /\ (n * c) % (d * c) = (n % d) * c
<1> DEFINE q == n \div d
           r == n % d
<1>1. q \in Int /\ r \in 0 .. d - 1 /\ n = d * q + r
  BY Division
<1> HIDE DEF q, r
<1>2. n * c = (d * c) * q + r * c
  BY <1>1
<1>3. d * c \in Nat \ {0} /\ n * c \in Int /\ r * c \in Int /\ 0 <= r * c
  BY <1>1
<1>4. r * c < d * c
  BY <1>1
<1>5. r * c \in 0 .. (d * c) - 1
  BY <1>3, <1>4
<1>6. (n * c) \div (d * c) = q /\ (n * c) % (d * c) = r * c
  <2> DEFINE N == n * c
             D == d * c
             R == r * c
  <2>1. N \in Int /\ D \in Nat \ {0} /\ R \in 0 .. D - 1 /\ N = D * q + R
    BY <1>2, <1>3, <1>5
  <2> HIDE DEF N, D, R
  <2>2. N \div D = q /\ N % D = R
    BY <1>1, <2>1, DivisionIsUnique
  <2>3. QED
    BY <2>2 DEF N, D, R
<1>7. QED
  BY <1>6 DEF q, r
-----------------------------------------------------------------------------
(* Rounding to a multiple of a unit. *)

LEMMA NearestEvenBounds ==
  ASSUME NEW n \in Nat, NEW u \in Nat \ {0}
  PROVE  /\ NearestEven(n, u) \in Nat
         /\ 2 * (NearestEven(n, u) * u) <= 2 * n + u
         /\ 2 * n <= 2 * (NearestEven(n, u) * u) + u
<1> DEFINE q == n \div u
           r == n % u
<1>1. q \in Nat /\ r \in 0 .. u - 1 /\ n = u * q + r
  BY NatDivision
<1>2. NearestEven(n, u) = IF 2 * r > u \/ (2 * r = u /\ q % 2 = 1) THEN q + 1 ELSE q
  BY DEF NearestEven
<1> HIDE DEF q, r
<1>3. \/ NearestEven(n, u) = q + 1 /\ u <= 2 * r
      \/ NearestEven(n, u) = q /\ 2 * r <= u
  BY <1>1, <1>2
<1>4. (q + 1) * u = u * q + u /\ q * u = u * q /\ u * q \in Nat
  BY <1>1
<1>5. QED
  BY <1>1, <1>3, <1>4

\* Rounding does not pass a multiple of the unit.
LEMMA NearestEvenStops ==
  ASSUME NEW n \in Nat, NEW u \in Nat \ {0}, NEW k \in Nat
  PROVE  /\ k * u <= n => k <= NearestEven(n, u)
         /\ n <= k * u => NearestEven(n, u) <= k
<1> DEFINE q == n \div u
           r == n % u
<1>1. q \in Nat /\ r \in 0 .. u - 1 /\ n = u * q + r
  BY NatDivision
<1>2. NearestEven(n, u) = IF 2 * r > u \/ (2 * r = u /\ q % 2 = 1) THEN q + 1 ELSE q
  BY DEF NearestEven
<1> HIDE DEF q, r
<1>3. NearestEven(n, u) \in {q, q + 1} /\ (r = 0 => NearestEven(n, u) = q)
  BY <1>1, <1>2
<1>4. ASSUME k * u <= n PROVE k <= q
  BY <1>1, <1>4
<1>5. ASSUME n <= k * u PROVE IF r = 0 THEN q <= k ELSE q + 1 <= k
  BY <1>1, <1>5
<1>6. QED
  BY <1>1, <1>3, <1>4, <1>5

LEMMA NearestEvenMonotone ==
  ASSUME NEW n \in Nat, NEW m \in Nat, NEW u \in Nat \ {0}, n <= m
  PROVE  NearestEven(n, u) <= NearestEven(m, u)
<1>1. CASE n \div u = m \div u
  <2>1. n % u <= m % u
    <3>1. n = u * (n \div u) + (n % u) /\ n \div u \in Nat /\ n % u \in Nat
      BY NatDivision
    <3>2. m = u * (m \div u) + (m % u) /\ m % u \in Nat
      BY NatDivision
    <3>3. QED
      BY <1>1, <3>1, <3>2
  <2>2. n \div u \in Nat /\ n % u \in Nat /\ m % u \in Nat
    BY NatDivision
  <2>3. QED
    BY <1>1, <2>1, <2>2 DEF NearestEven
<1>2. CASE n \div u # m \div u
  <2> DEFINE q == n \div u
             p == m \div u
  <2>1. /\ q \in Nat /\ n % u \in 0 .. u - 1 /\ n = u * q + (n % u)
        /\ p \in Nat /\ m % u \in 0 .. u - 1 /\ m = u * p + (m % u)
    BY NatDivision
  <2>2. p # q
    BY <1>2
  <2> HIDE DEF q, p
  <2>3. q * u <= m /\ n < (q + 1) * u /\ p * u <= m /\ m < (p + 1) * u
    BY <2>1
  <2>4. q < p + 1
    BY <2>1, <2>3
  <2>5. q + 1 <= p
    BY <2>1, <2>2, <2>4
  <2>6. (q + 1) * u <= p * u
    BY <2>1, <2>5
  <2>7. n <= (q + 1) * u /\ (q + 1) * u <= m
    BY <2>1, <2>3, <2>6
  <2>8. NearestEven(n, u) <= q + 1 /\ q + 1 <= NearestEven(m, u)
    BY <2>1, <2>7, NearestEvenStops
  <2>9. QED
    BY <2>1, <2>8, NearestEvenBounds
<1>3. QED
  BY <1>1, <1>2

LEMMA NearestEvenScales ==
  ASSUME NEW n \in Nat, NEW u \in Nat \ {0}, NEW c \in Nat \ {0}
  PROVE  NearestEven(n * c, u * c) = NearestEven(n, u)
<1>1. (n * c) \div (u * c) = n \div u /\ (n * c) % (u * c) = (n % u) * c
  <2>1. n \in Int
    OBVIOUS
  <2>2. QED
    BY <2>1, DivisionScales
<1> DEFINE r == n % u
<1>2. r \in Nat
  BY NatDivision
<1> HIDE DEF r
<1>3. /\ 2 * (r * c) > u * c <=> 2 * r > u
      /\ 2 * (r * c) = u * c <=> 2 * r = u
  BY <1>2
<1>4. QED
  BY <1>1, <1>3 DEF NearestEven, r
-----------------------------------------------------------------------------
(* Doubles. *)

Round(n) == NearestEven(n, PowerOfTwo[Excess(n)]) * PowerOfTwo[Excess(n)]

IsExcess(e, n) ==
  /\ n < Precision * PowerOfTwo[e]
  /\ e = 0 \/ Precision * PowerOfTwo[e] <= 2 * n

LEMMA Widths ==
  /\ HalfBits \in Nat /\ PrecisionBits \in Nat
  /\ Half \in Nat /\ Half >= 2 /\ Precision \in Nat /\ Precision >= 4 * Half
  /\ Precision % 2 = 0 /\ Precision * 2 <= Half * Half
  /\ WordMax \in Nat /\ HalfMax \in Nat /\ WordMax + 1 = Half * Half /\ HalfMax + 1 = Half
<1>1. /\ HalfBits \in Nat /\ PrecisionBits \in Nat
      /\ HalfBits + 2 <= PrecisionBits /\ PrecisionBits + 1 <= HalfBits + HalfBits
  BY WidthAssumption
<1>2. Half \in Nat /\ Precision \in Nat /\ Half > 0 /\ Precision > 0
  BY <1>1, PowerType DEF Half, Precision
<1>3. Half >= 2
  <2>1. HalfBits # 0
    BY <1>1
  <2>2. 0 < HalfBits => 2 * PowerOfTwo[0] <= PowerOfTwo[HalfBits]
    BY <1>1, PowerOrder
  <2>3. QED
    BY <1>1, <2>1, <2>2, PowerStep DEF Half
<1>4. Precision >= 4 * Half
  <2>1. PowerOfTwo[HalfBits + 2] <= Precision
    BY <1>1, PowerOrder DEF Precision
  <2>2. PowerOfTwo[HalfBits + 2] = 2 * PowerOfTwo[HalfBits + 1]
    <3>1. HalfBits + 2 = (HalfBits + 1) + 1
      BY <1>1
    <3>2. QED
      BY <1>1, <3>1, PowerStep
  <2>3. PowerOfTwo[HalfBits + 1] = 2 * Half
    BY <1>1, PowerStep DEF Half
  <2>4. QED
    BY <1>2, <2>1, <2>2, <2>3
<1>5. Precision % 2 = 0
  <2>1. PrecisionBits - 1 \in Nat /\ (PrecisionBits - 1) + 1 = PrecisionBits
    BY <1>1
  <2>2. Precision = 2 * PowerOfTwo[PrecisionBits - 1]
    BY <2>1, PowerStep DEF Precision
  <2>3. PowerOfTwo[PrecisionBits - 1] \in Nat
    BY <2>1, PowerType
  <2>4. QED
    BY <2>2, <2>3
<1>6. Precision * 2 <= Half * Half
  <2>1. PowerOfTwo[PrecisionBits + 1] <= PowerOfTwo[HalfBits + HalfBits]
    BY <1>1, PowerOrder
  <2>2. PowerOfTwo[PrecisionBits + 1] = 2 * Precision
    BY <1>1, PowerStep DEF Precision
  <2>3. PowerOfTwo[HalfBits + HalfBits] = Half * Half
    BY <1>1, PowerSum DEF Half
  <2>4. QED
    BY <1>2, <2>1, <2>2, <2>3
<1>7. Half * Half \in Nat /\ Half * Half >= 1
  BY <1>2
<1>8. QED
  BY <1>1, <1>2, <1>3, <1>4, <1>5, <1>6, <1>7 DEF WordMax, HalfMax

LEMMA ExcessIs ==
  ASSUME NEW n \in Nat
  PROVE  Excess(n) \in Nat /\ IsExcess(Excess(n), n)
<1>1. Precision \in Nat /\ Precision >= 1
  BY Widths
<1>2. n < Precision * PowerOfTwo[n]
  <2>1. PowerOfTwo[n] \in Nat /\ n < PowerOfTwo[n]
    BY PowerType, PowerExceeds
  <2>2. PowerOfTwo[n] <= Precision * PowerOfTwo[n]
    BY <1>1, <2>1
  <2>3. QED
    BY <1>1, <2>1, <2>2
<1> DEFINE S == {k \in Nat : n < Precision * PowerOfTwo[k]}
<1>3. n \in S /\ S \in SUBSET Nat
  BY <1>2
<1>4. PICK e \in S : \A y \in S : e <= y
  <2> HIDE DEF S
  <2>1. QED
    BY <1>3, LeastElement
<1>5. e \in 0 .. n
  BY <1>3, <1>4
<1>6. e = 0 \/ Precision * PowerOfTwo[e] <= 2 * n
  <2> SUFFICES ASSUME e # 0 PROVE Precision * PowerOfTwo[e] <= 2 * n
    OBVIOUS
  <2>1. e - 1 \in Nat /\ (e - 1) + 1 = e /\ ~(e <= e - 1)
    OBVIOUS
  <2>2. ~(n < Precision * PowerOfTwo[e - 1])
    BY <1>4, <2>1
  <2>3. PowerOfTwo[e] = 2 * PowerOfTwo[e - 1] /\ PowerOfTwo[e - 1] \in Nat
    BY <2>1, PowerStep, PowerType
  <2>4. QED
    BY <1>1, <2>2, <2>3
<1>7. \E k \in 0 .. n : n < Precision * PowerOfTwo[k] /\ (k = 0 \/ Precision * PowerOfTwo[k] <= 2 * n)
  BY <1>5, <1>6
<1> HIDE DEF S
<1>8. Excess(n) \in 0 .. n /\ IsExcess(Excess(n), n)
  BY <1>7 DEF Excess, IsExcess
<1>9. QED
  BY <1>8

LEMMA ExcessIsUnique ==
  ASSUME NEW n \in Nat, NEW e \in Nat, IsExcess(e, n)
  PROVE  Excess(n) = e
<1>1. ASSUME NEW a \in Nat, NEW b \in Nat, IsExcess(a, n), IsExcess(b, n), a < b PROVE FALSE
  <2>1. 2 * PowerOfTwo[a] <= PowerOfTwo[b] /\ PowerOfTwo[a] \in Nat /\ PowerOfTwo[b] \in Nat
    BY <1>1, PowerOrder, PowerType
  <2>2. n < Precision * PowerOfTwo[a] /\ Precision * PowerOfTwo[b] <= 2 * n
    BY <1>1 DEF IsExcess
  <2>3. Precision * (2 * PowerOfTwo[a]) <= Precision * PowerOfTwo[b]
    BY <2>1, Widths
  <2>4. QED
    BY <2>1, <2>2, <2>3, Widths
<1>2. Excess(n) \in Nat /\ IsExcess(Excess(n), n)
  BY ExcessIs
<1>3. QED
  BY <1>1, <1>2

LEMMA UnitOf ==
  ASSUME NEW n \in Nat
  PROVE  PowerOfTwo[Excess(n)] \in Nat \ {0}
BY ExcessIs, PowerType

LEMMA RoundType == ASSUME NEW n \in Nat PROVE Round(n) \in Nat
<1> DEFINE u == PowerOfTwo[Excess(n)]
<1>1. u \in Nat \ {0}
  BY UnitOf
<1> HIDE DEF u
<1>2. NearestEven(n, u) \in Nat
  BY <1>1, NearestEvenBounds
<1>3. NearestEven(n, u) * u \in Nat
  BY <1>1, <1>2
<1>4. QED
  BY <1>3 DEF Round, u

LEMMA DoubleIsRound == ASSUME NEW num, NEW den PROVE Double(num, den) = <<Round(num), den>>
BY DEF Double, Round

\* A number with few significant bits is its own double.
LEMMA RoundKeeps ==
  ASSUME NEW k \in Nat, k < Precision, NEW d \in Nat
  PROVE  Round(k * PowerOfTwo[d]) = k * PowerOfTwo[d]
<1> DEFINE n == k * PowerOfTwo[d]
           e == Excess(n)
           u == PowerOfTwo[e]
<1>1. PowerOfTwo[d] \in Nat \ {0} /\ n \in Nat
  BY PowerType
<1> HIDE DEF n
<1>2. e \in Nat /\ IsExcess(e, n) /\ u \in Nat \ {0}
  BY <1>1, ExcessIs, UnitOf
<1> HIDE DEF e
<1>3. e <= d
  <2> SUFFICES ASSUME d < e PROVE FALSE
    BY <1>2
  <2>1. 2 * PowerOfTwo[d] <= u
    BY <1>2, PowerOrder
  <2>2. Precision * u <= 2 * n
    BY <1>2 DEF IsExcess
  <2>3. Precision * (2 * PowerOfTwo[d]) <= Precision * u
    BY <1>1, <1>2, <2>1, Widths
  <2>4. Precision * (2 * PowerOfTwo[d]) <= 2 * (k * PowerOfTwo[d])
    BY <1>1, <1>2, <2>2, <2>3, Widths DEF n
  <2>5. Precision <= k
    BY <1>1, <2>4, Widths
  <2>6. QED
    BY <2>5, Widths
<1>4. d - e \in Nat /\ PowerOfTwo[d] = u * PowerOfTwo[d - e] /\ PowerOfTwo[d - e] \in Nat
  BY <1>2, <1>3, PowerOrder, PowerType
<1> DEFINE q == k * PowerOfTwo[d - e]
<1>5. q \in Nat /\ n = q * u
  BY <1>2, <1>4 DEF n
<1> HIDE DEF q, u
<1>6. NearestEven(n, u) = q
  <2>1. u \in Nat \ {0} /\ q \in Nat /\ n \in Nat /\ q * u <= n /\ n <= q * u
    BY <1>1, <1>2, <1>5
  <2>2. q <= NearestEven(n, u) /\ NearestEven(n, u) <= q
    BY <2>1, NearestEvenStops
  <2>3. NearestEven(n, u) \in Nat
    BY <2>1, NearestEvenBounds
  <2>4. QED
    BY <2>1, <2>2, <2>3
<1>7. Round(n) = n
  BY <1>5, <1>6 DEF Round, e, u
<1>8. QED
  BY <1>7 DEF n

LEMMA RoundMonotone ==
  ASSUME NEW n \in Nat, NEW m \in Nat, n <= m
  PROVE  Round(n) <= Round(m)
<1> DEFINE e == Excess(n)
           f == Excess(m)
           u == PowerOfTwo[e]
           v == PowerOfTwo[f]
<1>1. /\ e \in Nat /\ IsExcess(e, n) /\ u \in Nat \ {0}
      /\ f \in Nat /\ IsExcess(f, m) /\ v \in Nat \ {0}
  BY ExcessIs, UnitOf
<1>2. Round(n) = NearestEven(n, u) * u /\ Round(m) = NearestEven(m, v) * v
  BY DEF Round
<1> HIDE DEF e, f
<1>3. CASE e = f
  <2>1. NearestEven(n, u) <= NearestEven(m, u)
    BY <1>1, NearestEvenMonotone
  <2>2. NearestEven(n, u) \in Nat /\ NearestEven(m, u) \in Nat
    BY <1>1, NearestEvenBounds
  <2>3. QED
    BY <1>1, <1>2, <1>3, <2>1, <2>2
<1>4. CASE e < f
  <2>1. f - 1 \in Nat /\ (f - 1) + 1 = f /\ e <= f - 1
    BY <1>1, <1>4
  <2> DEFINE w == PowerOfTwo[f - 1]
  <2>2. v = 2 * w /\ w \in Nat \ {0} /\ u <= w
    BY <1>1, <2>1, PowerStep, PowerOrder, PowerType
  <2> HIDE DEF u, v, w
  <2>3. NearestEven(n, u) <= Precision /\ NearestEven(n, u) \in Nat
    <3>1. n <= Precision * u
      BY <1>1, Widths DEF IsExcess, u
    <3>2. QED
      BY <1>1, <3>1, Widths, NearestEvenStops, NearestEvenBounds
  <2>4. NearestEven(n, u) * u <= Precision * w
    <3>1. NearestEven(n, u) * u <= Precision * u
      BY <1>1, <2>3, Widths
    <3>2. Precision * u <= Precision * w
      BY <1>1, <2>2, Widths
    <3>3. QED
      BY <1>1, <2>2, <2>3, <3>1, <3>2, Widths
  <2> DEFINE half == Precision \div 2
  <2>5. half \in Nat /\ Precision = 2 * half
    BY Widths
  <2> HIDE DEF half
  <2>6. half * v = Precision * w
    BY <2>2, <2>5
  <2>7. half * v <= m
    <3>1. Precision * v <= 2 * m
      BY <1>1, <1>4 DEF IsExcess, v
    <3>2. 2 * (half * v) <= 2 * m
      BY <1>1, <2>5, <3>1
    <3>3. half * v \in Nat
      BY <1>1, <2>5
    <3>4. QED
      BY <3>2, <3>3
  <2>8. half <= NearestEven(m, v) /\ NearestEven(m, v) \in Nat
    BY <1>1, <2>5, <2>7, NearestEvenStops, NearestEvenBounds
  <2>9. half * v <= NearestEven(m, v) * v
    BY <1>1, <2>5, <2>8
  <2>10. QED
    BY <1>1, <1>2, <2>2, <2>3, <2>4, <2>5, <2>6, <2>8, <2>9, Widths
<1>5. ~(f < e)
  <2> SUFFICES ASSUME f < e PROVE FALSE
    OBVIOUS
  <2>1. 2 * v <= u
    BY <1>1, PowerOrder
  <2>2. m < Precision * v /\ Precision * u <= 2 * n
    BY <1>1 DEF IsExcess
  <2> HIDE DEF u, v
  <2>3. Precision * (2 * v) <= Precision * u
    BY <1>1, <2>1, Widths
  <2>4. QED
    BY <1>1, <2>2, <2>3, Widths
<1>6. QED
  BY <1>1, <1>3, <1>4, <1>5

\* The precision of a double does not depend on its exponent.
LEMMA RoundScales ==
  ASSUME NEW n \in Nat, NEW j \in Nat
  PROVE  Round(n * PowerOfTwo[j]) = Round(n) * PowerOfTwo[j]
<1> DEFINE e == Excess(n)
           u == PowerOfTwo[e]
           c == PowerOfTwo[j]
<1>1. e \in Nat /\ IsExcess(e, n) /\ u \in Nat \ {0} /\ c \in Nat \ {0}
  BY ExcessIs, UnitOf, PowerType
<1>2. Round(n) = NearestEven(n, u) * u
  BY DEF Round
<1> HIDE DEF e
<1>3. CASE e = 0
  <2>1. u = 1 /\ n < Precision
    BY <1>1, <1>3, PowerStep, Widths DEF IsExcess
  <2>2. Round(n * c) = n * c
    BY <2>1, RoundKeeps
  <2>3. NearestEven(n, 1) = n
    <3>1. n * 1 = n /\ 1 \in Nat \ {0}
      OBVIOUS
    <3>2. n <= NearestEven(n, 1) /\ NearestEven(n, 1) <= n /\ NearestEven(n, 1) \in Nat
      BY <3>1, NearestEvenStops, NearestEvenBounds
    <3>3. QED
      BY <3>2
  <2>4. QED
    BY <1>2, <2>1, <2>2, <2>3
<1>4. CASE e # 0
  <2>1. PowerOfTwo[e + j] = u * c
    BY <1>1, PowerSum
  <2>2. n < Precision * u /\ Precision * u <= 2 * n
    BY <1>1, <1>4 DEF IsExcess
  <2> DEFINE g == e + j
             m == n * c
  <2>3. g \in Nat /\ m \in Nat /\ PowerOfTwo[g] = u * c
    BY <1>1, <2>1
  <2> HIDE DEF g, u, c
  <2>4. m < Precision * (u * c)
    <3>1. n * c < (Precision * u) * c
      BY <1>1, <2>2, Widths
    <3>2. QED
      BY <1>1, <3>1, Widths
  <2>5. Precision * (u * c) <= 2 * m
    <3>1. (Precision * u) * c <= (2 * n) * c
      BY <1>1, <2>2, Widths
    <3>2. QED
      BY <1>1, <3>1, Widths
  <2> HIDE DEF m
  <2>6. Excess(m) = g
    BY <2>3, <2>4, <2>5, ExcessIsUnique DEF IsExcess
  <2>7. Round(m) = NearestEven(m, u * c) * (u * c)
    BY <2>3, <2>6 DEF Round
  <2>8. NearestEven(m, u * c) = NearestEven(n, u)
    BY <1>1, NearestEvenScales DEF m
  <2>9. NearestEven(n, u) \in Nat
    BY <1>1, NearestEvenBounds
  <2>10. Round(m) = Round(n) * c
    BY <1>1, <1>2, <2>7, <2>8, <2>9
  <2>11. QED
    BY <2>10 DEF m, c
<1>5. QED
  BY <1>3, <1>4

\* How far rounding moves a number below a power of two.
LEMMA RoundError ==
  ASSUME NEW n \in Nat, NEW m \in Nat, n < PowerOfTwo[m], Precision <= PowerOfTwo[m]
  PROVE  /\ 2 * (Precision * Round(n)) <= 2 * (Precision * n) + PowerOfTwo[m]
         /\ 2 * (Precision * n) <= 2 * (Precision * Round(n)) + PowerOfTwo[m]
<1> DEFINE e == Excess(n)
           u == PowerOfTwo[e]
           t == PowerOfTwo[m]
<1>1. e \in Nat /\ IsExcess(e, n) /\ u \in Nat \ {0} /\ t \in Nat \ {0}
  BY ExcessIs, UnitOf, PowerType
<1>2. 2 * Round(n) <= 2 * n + u /\ 2 * n <= 2 * Round(n) + u /\ Round(n) \in Nat
  BY <1>1, NearestEvenBounds, RoundType DEF Round
<1> HIDE DEF e
<1>3. Precision * u <= t
  <2>1. CASE e = 0
    BY <2>1, PowerStep, Widths
  <2>2. CASE e # 0
    <3>1. Precision * u <= 2 * n
      BY <1>1, <2>2 DEF IsExcess
    <3>2. PowerOfTwo[PrecisionBits + e] = Precision * u
      BY <1>1, Widths, PowerSum DEF Precision
    <3>3. PowerOfTwo[m + 1] = 2 * t
      BY PowerStep
    <3>4. ~(m + 1 <= PrecisionBits + e)
      <4>1. PowerOfTwo[PrecisionBits + e] < PowerOfTwo[m + 1]
        BY <1>1, <3>1, <3>2, <3>3, Widths
      <4>2. m + 1 \in Nat /\ PrecisionBits + e \in Nat
        BY <1>1, Widths
      <4>3. m + 1 <= PrecisionBits + e => PowerOfTwo[m + 1] <= PowerOfTwo[PrecisionBits + e]
        BY <4>2, PowerOrder
      <4>4. PowerOfTwo[m + 1] \in Nat /\ PowerOfTwo[PrecisionBits + e] \in Nat
        BY <4>2, PowerType
      <4>5. QED
        BY <4>1, <4>3, <4>4
    <3>5. PrecisionBits + e <= m /\ PrecisionBits + e \in Nat
      BY <1>1, <3>4, Widths
    <3>6. QED
      BY <3>2, <3>5, PowerOrder
  <2>3. QED
    BY <2>1, <2>2
<1> DEFINE rounded == Round(n)
<1>4. 2 * rounded <= 2 * n + u /\ 2 * n <= 2 * rounded + u /\ rounded \in Nat
  BY <1>2
<1> HIDE DEF u, t, rounded
<1>5. /\ 2 * (Precision * rounded) <= 2 * (Precision * n) + Precision * u
      /\ 2 * (Precision * n) <= 2 * (Precision * rounded) + Precision * u
  <2>1. /\ Precision * (2 * rounded) <= Precision * (2 * n + u)
        /\ Precision * (2 * n) <= Precision * (2 * rounded + u)
    BY <1>1, <1>4, Widths
  <2>2. QED
    BY <1>1, <1>4, <2>1, Widths
<1>6. Precision * n \in Nat /\ Precision * rounded \in Nat /\ Precision * u \in Nat
  <2>1. Precision \in Nat /\ n \in Nat /\ rounded \in Nat /\ u \in Nat
    BY <1>1, <1>4, Widths
  <2>2. QED
    BY <2>1
<1>7. QED
  BY <1>1, <1>3, <1>5, <1>6 DEF t, rounded
-----------------------------------------------------------------------------
(* Thresholds. *)

\* What CalculateThreshold makes of its product, before the word is cut off.
Fixed(p, b) == (p \div b) * Half + (Round((p % b) * Half + p) \div b)

\* Fixed is p * (Half + 1) / b, rounded down or up.
LEMMA FixedBounds ==
  ASSUME NEW d \in Nat, NEW b, b = PowerOfTwo[d], NEW p \in Nat, p <= HalfMax * b
  PROVE  /\ Fixed(p, b) \in Nat
         /\ \A k \in Nat : /\ k * b <= p * (Half + 1) => k <= Fixed(p, b)
                           /\ p * (Half + 1) <= k * b => Fixed(p, b) <= k
<1> DEFINE h == p \div b
           f == p % b
           x == f * Half + p
           l == Round(x) \div b
           top == Half + HalfMax
<1>1. b \in Nat \ {0}
  BY PowerType
<1>2. h \in Nat /\ f \in 0 .. b - 1 /\ p = b * h + f
  BY <1>1, NatDivision
<1>3. Fixed(p, b) = h * Half + l
  BY DEF Fixed
<1> HIDE DEF h, f
<1>4. x \in Nat
  <2>1. f \in Nat /\ Half \in Nat
    BY <1>1, <1>2, Widths
  <2>2. f * Half \in Nat
    BY <2>1
  <2>3. QED
    BY <2>2
<1>5. p * (Half + 1) = (h * Half) * b + x
  <2>1. p * (Half + 1) = p * Half + p
    BY Widths
  <2>2. p * Half = (h * Half) * b + f * Half
    BY <1>1, <1>2, Widths
  <2>3. f * Half \in Nat /\ (h * Half) * b \in Nat
    <3>1. h \in Nat /\ f \in Nat /\ b \in Nat /\ Half \in Nat
      BY <1>1, <1>2, Widths
    <3>2. h * Half \in Nat
      BY <3>1
    <3>3. QED
      BY <3>1, <3>2
  <2>4. QED
    BY <2>1, <2>2, <2>3
<1>6. x <= top * b /\ top \in Nat /\ top < Precision
  <2>1. f * Half <= b * Half
    BY <1>1, <1>2, Widths
  <2>2. top * b = b * Half + HalfMax * b
    BY <1>1, Widths
  <2>3. f * Half \in Nat /\ b * Half \in Nat /\ HalfMax * b \in Nat
    BY <1>1, <1>2, Widths
  <2>4. QED
    BY <2>1, <2>2, <2>3, Widths
<1>7. Round(x) \in Nat /\ l \in Nat
  <2> HIDE DEF x
  <2>1. Round(x) \in Nat
    BY <1>4, RoundType
  <2>2. QED
    BY <1>1, <2>1, NatDivision
<1> HIDE DEF top
<1>8. ASSUME NEW j \in Nat, j <= top PROVE Round(j * b) = j * b /\ j * b \in Nat
  <2>1. j < Precision
    BY <1>6, <1>8, Widths
  <2>2. Round(j * b) = j * b
    BY <2>1, RoundKeeps
  <2>3. QED
    BY <1>1, <2>2
<1> HIDE DEF x
<1>9. ASSUME NEW j \in Nat, j * b <= x PROVE j <= l
  <2>1. j <= top
    <3>1. j * b <= top * b
      BY <1>1, <1>4, <1>6, <1>9
    <3>2. QED
      BY <1>1, <1>6, <3>1
  <2>2. j * b <= Round(x)
    BY <1>4, <1>8, <1>9, <2>1, RoundMonotone
  <2>3. Round(x) \in Int /\ j \in Int
    BY <1>7
  <2>4. QED
    BY <1>1, <2>2, <2>3, DivisionBounds
<1>10. ASSUME NEW j \in Nat, x <= j * b PROVE l <= j
  <2>1. ASSUME NEW i \in Nat, i <= top, x <= i * b PROVE l <= i
    <3>1. Round(x) <= i * b
      BY <1>4, <1>8, <2>1, RoundMonotone
    <3>2. Round(x) < (i + 1) * b
      BY <1>1, <1>7, <3>1
    <3>3. Round(x) \in Int /\ i + 1 \in Int
      BY <1>7
    <3>4. l < i + 1
      BY <1>1, <3>2, <3>3, DivisionBounds
    <3>5. QED
      BY <1>7, <3>4
  <2>2. CASE j <= top
    BY <1>10, <2>1, <2>2
  <2>3. CASE top < j
    <3>1. l <= top
      BY <1>6, <2>1
    <3>2. QED
      BY <1>6, <1>7, <2>3, <3>1
  <2>4. QED
    BY <1>6, <2>2, <2>3
<1> HIDE DEF l
<1> DEFINE s == h * Half
<1>11. s \in Nat
  BY <1>2, Widths
<1>12. Fixed(p, b) = s + l /\ p * (Half + 1) = s * b + x
  BY <1>3, <1>5
<1> HIDE DEF s
<1>13. ASSUME NEW k \in Nat, k * b <= s * b + x PROVE k <= s + l
  <2>1. CASE k <= s
    BY <1>7, <1>11, <2>1
  <2>2. CASE s < k
    <3> DEFINE j == k - s
    <3>1. j \in Nat /\ k = s + j
      BY <1>11, <2>2
    <3> HIDE DEF j
    <3>2. k * b = s * b + j * b /\ s * b \in Nat /\ j * b \in Nat
      BY <1>1, <1>11, <3>1
    <3>3. j * b <= x
      BY <1>4, <1>13, <3>2
    <3>4. QED
      BY <1>7, <1>9, <1>11, <3>1, <3>3
  <2>3. QED
    BY <1>11, <2>1, <2>2
<1>14. ASSUME NEW k \in Nat, s * b + x <= k * b PROVE s + l <= k
  <2>1. s <= k
    <3>1. s * b \in Nat /\ s * b <= k * b
      BY <1>1, <1>4, <1>11, <1>14
    <3>2. QED
      BY <1>1, <1>11, <3>1
  <2> DEFINE j == k - s
  <2>2. j \in Nat /\ k = s + j
    BY <1>11, <2>1
  <2> HIDE DEF j
  <2>3. k * b = s * b + j * b /\ s * b \in Nat /\ j * b \in Nat
    BY <1>1, <1>11, <2>2
  <2>4. x <= j * b
    BY <1>4, <1>14, <2>3
  <2>5. QED
    BY <1>7, <1>10, <1>11, <2>2, <2>4
<1>15. s + l \in Nat
  BY <1>7, <1>11
<1>16. QED
  BY <1>12, <1>13, <1>14, <1>15

LEMMA ProductBounds ==
  ASSUME NEW d \in Nat, NEW b, b = PowerOfTwo[d], NEW a \in Nat, a <= b
  PROVE  Round(HalfMax * a) \in Nat /\ Round(HalfMax * a) <= HalfMax * b
<1>1. b \in Nat /\ HalfMax \in Nat /\ HalfMax < Precision
  BY PowerType, Widths
<1>2. HalfMax * a \in Nat /\ HalfMax * b \in Nat /\ HalfMax * a <= HalfMax * b
  BY <1>1
<1>3. Round(HalfMax * b) = HalfMax * b
  BY <1>1, RoundKeeps
<1>4. QED
  BY <1>2, <1>3, RoundType, RoundMonotone

\* Strictly between 0 and 1 the sum of the halves fits a word.
LEMMA ThresholdIsFixed ==
  ASSUME NEW d \in Nat, NEW b, b = PowerOfTwo[d], NEW a \in Nat, 0 < a, a < b
  PROVE  /\ CalculateThreshold(<<a, b>>) = Fixed(Round(HalfMax * a), b)
         /\ Fixed(Round(HalfMax * a), b) \in 0 .. WordMax
<1> DEFINE p == Round(HalfMax * a)
<1>1. b \in Nat \ {0}
  BY PowerType
<1>2. p \in Nat /\ p <= HalfMax * b
  <2>1. a <= b
    BY <1>1
  <2>2. QED
    BY <2>1, ProductBounds
<1>3. CalculateThreshold(<<a, b>>)
        = Join(p \div b, Round((p % b) * Half + p) \div b)
  BY <1>1, DoubleIsRound DEF CalculateThreshold, Truncate
<1>4. Join(p \div b, Round((p % b) * Half + p) \div b) = Fixed(p, b) % (WordMax + 1)
  BY DEF Join, Fixed
<1> HIDE DEF p
<1>5. p * (Half + 1) <= WordMax * b
  <2>1. p * (Half + 1) <= (HalfMax * b) * (Half + 1)
    BY <1>1, <1>2, Widths
  <2>2. HalfMax * (Half + 1) = WordMax
    <3>1. (Half - 1) * (Half + 1) = (Half * Half) - 1
      BY Widths
    <3>2. QED
      BY <3>1 DEF HalfMax, WordMax
  <2>3. (HalfMax * b) * (Half + 1) = (HalfMax * (Half + 1)) * b
    BY <1>1, Widths
  <2>4. QED
    BY <2>1, <2>2, <2>3
<1>6. Fixed(p, b) \in Nat /\ Fixed(p, b) <= WordMax
  BY <1>2, <1>5, Widths, FixedBounds
<1>7. Fixed(p, b) % (WordMax + 1) = Fixed(p, b)
  BY <1>6, Widths
<1>8. QED
  BY <1>3, <1>4, <1>6, <1>7, Widths DEF p

LEMMA FixedIsMonotone ==
  ASSUME NEW d \in Nat, NEW b, b = PowerOfTwo[d],
         NEW p \in Nat, NEW q \in Nat, p <= q, q <= HalfMax * b
  PROVE  Fixed(p, b) <= Fixed(q, b)
<1>1. b \in Nat \ {0} /\ HalfMax * b \in Nat
  BY PowerType, Widths
<1>2. p <= HalfMax * b
  BY <1>1
<1>3. /\ p \div b \in Nat /\ p % b \in 0 .. b - 1 /\ p = b * (p \div b) + (p % b)
      /\ q \div b \in Nat /\ q % b \in 0 .. b - 1 /\ q = b * (q \div b) + (q % b)
  <2>1. p \div b \in Nat /\ p % b \in 0 .. b - 1 /\ p = b * (p \div b) + (p % b)
    BY <1>1, NatDivision
  <2>2. q \div b \in Nat /\ q % b \in 0 .. b - 1 /\ q = b * (q \div b) + (q % b)
    BY <1>1, NatDivision
  <2>3. QED
    BY <2>1, <2>2
<1> DEFINE h == p \div b
           f == p % b
           i == q \div b
           g == q % b
<1>4. /\ h \in Nat /\ f \in 0 .. b - 1 /\ p = b * h + f
      /\ i \in Nat /\ g \in 0 .. b - 1 /\ q = b * i + g
  BY <1>3
<1>5. Fixed(p, b) \in Nat /\ Fixed(q, b) \in Nat
  BY <1>2, FixedBounds
<1> DEFINE x == f * Half + p
           y == g * Half + q
<1>6. Fixed(p, b) = h * Half + (Round(x) \div b) /\ Fixed(q, b) = i * Half + (Round(y) \div b)
  BY DEF Fixed
<1> HIDE DEF h, f, i, g
<1>7. CASE h = i
  <2>1. f <= g
    BY <1>1, <1>4, <1>7
  <2>2. f * Half <= g * Half /\ f * Half \in Nat /\ g * Half \in Nat
    BY <1>1, <1>4, <2>1, Widths
  <2>3. x \in Nat /\ y \in Nat /\ x <= y
    BY <2>2
  <2> HIDE DEF x, y
  <2>4. Round(x) \in Nat /\ Round(y) \in Nat /\ Round(x) <= Round(y)
    BY <2>3, RoundType, RoundMonotone
  <2>5. Round(x) \div b <= Round(y) \div b /\ Round(x) \div b \in Nat /\ Round(y) \div b \in Nat
    <3> DEFINE m == Round(x)
               n == Round(y)
    <3>1. m \in Nat /\ n \in Nat /\ m <= n
      BY <2>4
    <3> HIDE DEF m, n
    <3>2. n \div b \in Nat
      BY <1>1, <3>1, NatDivision
    <3> DEFINE k == m \div b
    <3>3. k \in Nat /\ m % b \in 0 .. b - 1 /\ m = b * k + (m % b)
      BY <1>1, <3>1, NatDivision
    <3> HIDE DEF k
    <3>4. k * b <= n
      BY <1>1, <3>1, <3>3
    <3>5. n \in Int /\ k \in Int
      BY <3>1, <3>3
    <3>6. k <= n \div b
      BY <1>1, <3>4, <3>5, DivisionBounds
    <3>7. QED
      BY <3>2, <3>3, <3>6 DEF k, m, n
  <2>6. h * Half \in Nat
    BY <1>4, Widths
  <2>7. QED
    BY <1>6, <1>7, <2>5, <2>6
<1>8. CASE h < i
  <2> DEFINE n == i * (Half + 1)
  <2>1. n \in Nat
    BY <1>4, Widths
  <2>2. p <= i * b
    BY <1>1, <1>4, <1>8
  <2>3. i * b <= q
    BY <1>1, <1>4
  <2>4. p * (Half + 1) <= n * b
    <3>1. p * (Half + 1) <= (i * b) * (Half + 1)
      BY <1>1, <1>4, <2>2, Widths
    <3>2. (i * b) * (Half + 1) = n * b
      BY <1>1, <1>4, Widths
    <3>3. QED
      BY <3>1, <3>2
  <2>5. n * b <= q * (Half + 1)
    <3>1. (i * b) * (Half + 1) <= q * (Half + 1)
      BY <1>1, <1>4, <2>3, Widths
    <3>2. (i * b) * (Half + 1) = n * b
      BY <1>1, <1>4, Widths
    <3>3. QED
      BY <3>1, <3>2
  <2> HIDE DEF n
  <2>6. Fixed(p, b) <= n
    BY <1>2, <2>1, <2>4, FixedBounds
  <2>7. n <= Fixed(q, b)
    BY <2>1, <2>5, FixedBounds
  <2>8. QED
    BY <1>5, <2>1, <2>6, <2>7
<1>9. ~(i < h)
  <2> SUFFICES ASSUME i < h PROVE FALSE
    OBVIOUS
  <2>1. (i + 1) * b <= h * b
    BY <1>1, <1>4
  <2>2. QED
    BY <1>1, <1>4, <2>1
<1>10. QED
  BY <1>4, <1>7, <1>8, <1>9

\* A ratio has one threshold, whatever power of two it is written over.
LEMMA ThresholdScales ==
  ASSUME NEW d \in Nat, NEW b, b = PowerOfTwo[d], NEW a \in Nat, 0 < a, a < b,
         NEW j \in Nat, NEW c, c = PowerOfTwo[j]
  PROVE  CalculateThreshold(<<a * c, b * c>>) = CalculateThreshold(<<a, b>>)
<1>1. b \in Nat \ {0} /\ c \in Nat \ {0} /\ d + j \in Nat /\ b * c = PowerOfTwo[d + j]
  <2>1. b \in Nat \ {0} /\ c \in Nat \ {0}
    BY PowerType
  <2>2. PowerOfTwo[d + j] = PowerOfTwo[d] * PowerOfTwo[j]
    BY PowerSum
  <2>3. QED
    BY <2>1, <2>2
<1>2. a * c \in Nat /\ 0 < a * c /\ a * c < b * c /\ b * c \in Nat \ {0}
  BY <1>1
<1>3. /\ CalculateThreshold(<<a * c, b * c>>) = Fixed(Round(HalfMax * (a * c)), b * c)
      /\ CalculateThreshold(<<a, b>>) = Fixed(Round(HalfMax * a), b)
  <2> DEFINE A == a * c
             B == b * c
  <2>1. A \in Nat /\ 0 < A /\ A < B /\ B = PowerOfTwo[d + j]
    BY <1>1, <1>2
  <2> HIDE DEF A, B
  <2>2. CalculateThreshold(<<A, B>>) = Fixed(Round(HalfMax * A), B)
    BY <1>1, <2>1, ThresholdIsFixed
  <2>3. QED
    BY <2>2, ThresholdIsFixed DEF A, B
<1> DEFINE p == Round(HalfMax * a)
<1>4. p \in Nat /\ Round(HalfMax * (a * c)) = p * c
  <2>1. HalfMax * a \in Nat /\ HalfMax * (a * c) = (HalfMax * a) * c
    BY <1>1, Widths
  <2>2. QED
    BY <2>1, RoundScales, RoundType
<1> HIDE DEF p
<1>5. Fixed(p * c, b * c) = Fixed(p, b)
  <2>1. (p * c) \div (b * c) = p \div b /\ (p * c) % (b * c) = (p % b) * c
    <3>1. p \in Int
      BY <1>4
    <3>2. QED
      BY <1>1, <3>1, DivisionScales
  <2> DEFINE f == p % b
             x == f * Half + p
  <2>2. f \in Nat
    <3>1. f \in 0 .. b - 1
      BY <1>1, <1>4, NatDivision
    <3>2. QED
      BY <1>1, <3>1
  <2> HIDE DEF f
  <2>3. x \in Nat /\ (f * c) * Half + p * c = x * c
    <3>1. f * Half \in Nat
      BY <2>2, Widths
    <3>2. QED
      BY <1>1, <1>4, <2>2, <3>1, Widths
  <2> HIDE DEF x
  <2>4. Round(x * c) = Round(x) * c /\ Round(x) \in Int
    BY <2>3, RoundScales, RoundType
  <2>5. (Round(x) * c) \div (b * c) = Round(x) \div b
    BY <1>1, <2>4, DivisionScales
  <2>6. QED
    BY <2>1, <2>3, <2>4, <2>5 DEF Fixed, f, x
<1>6. QED
  BY <1>3, <1>4, <1>5 DEF p

LEMMA DoublesParts ==
  ASSUME NEW r \in Doubles
  PROVE  /\ r = <<r[1], r[2]>> /\ r[1] \in Int /\ r[2] \in Nat \ {0}
         /\ \E d \in Nat : r[2] = PowerOfTwo[d]
BY DEF Doubles

LEMMA ThresholdType ==
  ASSUME NEW r \in Doubles
  PROVE  CalculateThreshold(r) \in 0 .. WordMax
<1>1. /\ r = <<r[1], r[2]>> /\ r[1] \in Int /\ r[2] \in Nat \ {0}
      /\ \E d \in Nat : r[2] = PowerOfTwo[d]
  BY DoublesParts
<1>2. CASE r[1] <= 0
  BY <1>2, Widths DEF CalculateThreshold
<1>3. CASE r[1] > 0 /\ r[1] >= r[2]
  <2>1. ~(r[1] <= 0)
    BY <1>1, <1>3
  <2>2. CalculateThreshold(r) = WordMax
    BY <1>3, <2>1 DEF CalculateThreshold
  <2>3. QED
    BY <2>2, Widths
<1>4. CASE r[1] > 0 /\ r[1] < r[2]
  <2>1. PICK d \in Nat : r[2] = PowerOfTwo[d]
    BY <1>1
  <2> DEFINE a == r[1]
             b == r[2]
  <2>2. a \in Nat /\ 0 < a /\ a < b /\ b = PowerOfTwo[d] /\ r = <<a, b>>
    BY <1>1, <1>4, <2>1
  <2> HIDE DEF a, b
  <2>3. QED
    BY <2>2, ThresholdIsFixed
<1>5. QED
  BY <1>1, <1>2, <1>3, <1>4

LEMMA ThresholdEnds ==
  ASSUME NEW r \in Doubles
  PROVE  /\ r[1] <= 0 => CalculateThreshold(r) = 0
         /\ r[1] >= r[2] => CalculateThreshold(r) = WordMax
<1>1. r[1] \in Int /\ r[2] \in Nat \ {0}
  BY DoublesParts
<1>2. ASSUME r[1] <= 0 PROVE CalculateThreshold(r) = 0
  <2>1. ~(r[1] >= r[2])
    BY <1>1, <1>2
  <2>2. QED
    BY <1>2, <2>1 DEF CalculateThreshold
<1>3. ASSUME r[1] >= r[2] PROVE CalculateThreshold(r) = WordMax
  <2>1. ~(r[1] <= 0)
    BY <1>1, <1>3
  <2>2. QED
    BY <1>3, <2>1 DEF CalculateThreshold
<1>4. QED
  BY <1>2, <1>3

\* With one denominator.
LEMMA ThresholdMonotoneAlike ==
  ASSUME NEW d \in Nat, NEW b, b = PowerOfTwo[d], NEW a \in Nat, NEW c \in Nat,
         0 < a, a <= c, c < b
  PROVE  CalculateThreshold(<<a, b>>) <= CalculateThreshold(<<c, b>>)
<1>1. b \in Nat \ {0}
  BY PowerType
<1>2. a < b /\ 0 < c /\ c <= b
  BY <1>1
<1>3. /\ CalculateThreshold(<<a, b>>) = Fixed(Round(HalfMax * a), b)
      /\ CalculateThreshold(<<c, b>>) = Fixed(Round(HalfMax * c), b)
  BY <1>2, ThresholdIsFixed
<1>4. HalfMax * a \in Nat /\ HalfMax * c \in Nat /\ HalfMax * a <= HalfMax * c
  BY Widths
<1>5. /\ Round(HalfMax * a) \in Nat /\ Round(HalfMax * c) \in Nat
      /\ Round(HalfMax * a) <= Round(HalfMax * c)
  BY <1>4, RoundType, RoundMonotone
<1>6. Round(HalfMax * c) <= HalfMax * b
  BY <1>2, ProductBounds
<1>7. QED
  BY <1>3, <1>5, <1>6, FixedIsMonotone

\* A larger ratio has no smaller threshold: no rounding on the way to it, and no
\* carry between the halves, turns two ratios around.
THEOREM ThresholdIsMonotone ==
  ASSUME NEW r \in Doubles, NEW s \in Doubles, r[1] * s[2] <= s[1] * r[2]
  PROVE  CalculateThreshold(r) <= CalculateThreshold(s)
<1> DEFINE a == r[1]
           b == r[2]
           c == s[1]
           e == s[2]
<1>1. /\ r = <<a, b>> /\ a \in Int /\ b \in Nat \ {0} /\ \E i \in Nat : b = PowerOfTwo[i]
      /\ s = <<c, e>> /\ c \in Int /\ e \in Nat \ {0} /\ \E i \in Nat : e = PowerOfTwo[i]
  BY DoublesParts
<1>2. a * e <= c * b
  OBVIOUS
<1>3. /\ CalculateThreshold(r) \in 0 .. WordMax /\ CalculateThreshold(s) \in 0 .. WordMax
      /\ a <= 0 => CalculateThreshold(r) = 0
      /\ c >= e => CalculateThreshold(s) = WordMax
  BY ThresholdType, ThresholdEnds
<1> HIDE DEF a, b, c, e
<1>4. CASE a <= 0
  BY <1>3, <1>4
<1>5. CASE c >= e
  BY <1>3, <1>5, Widths
<1>6. CASE a > 0 /\ c < e
  <2>1. c > 0
    <3>1. a * e > 0
      BY <1>1, <1>6
    <3>2. c <= 0 => c * b <= 0
      BY <1>1
    <3>3. QED
      BY <1>1, <1>2, <3>1, <3>2
  <2>2. a < b
    <3>1. c * b < e * b
      BY <1>1, <1>6
    <3>2. a * e < b * e
      BY <1>1, <1>2, <3>1
    <3>3. QED
      BY <1>1, <3>2
  <2>3. a \in Nat /\ c \in Nat
    BY <1>1, <1>6, <2>1
  <2>4. PICK i \in Nat : b = PowerOfTwo[i]
    BY <1>1
  <2>5. PICK j \in Nat : e = PowerOfTwo[j]
    BY <1>1
  <2>6. CASE i <= j
    <3> DEFINE t == PowerOfTwo[j - i]
               A == a * t
    <3>1. j - i \in Nat /\ e = b * t /\ t \in Nat \ {0}
      BY <2>4, <2>5, <2>6, PowerOrder, PowerType
    <3>2. CalculateThreshold(<<a * t, b * t>>) = CalculateThreshold(<<a, b>>)
      BY <1>6, <2>2, <2>3, <2>4, <3>1, ThresholdScales
    <3> HIDE DEF t
    <3>3. A \in Nat /\ 0 < A
      BY <1>6, <2>3, <3>1
    <3>4. A <= c
      <4>1. a * (b * t) = A * b
        BY <1>1, <3>1
      <4>2. A * b <= c * b
        BY <1>2, <3>1, <4>1
      <4> HIDE DEF A
      <4>3. QED
        BY <1>1, <3>3, <4>2
    <3>5. CalculateThreshold(<<A, e>>) = CalculateThreshold(<<a, b>>)
      BY <3>1, <3>2
    <3> HIDE DEF A
    <3>6. CalculateThreshold(<<A, e>>) <= CalculateThreshold(<<c, e>>)
      BY <1>6, <2>3, <2>5, <3>3, <3>4, ThresholdMonotoneAlike
    <3>7. QED
      BY <1>1, <3>5, <3>6
  <2>7. CASE j <= i
    <3> DEFINE t == PowerOfTwo[i - j]
               C == c * t
    <3>1. i - j \in Nat /\ b = e * t /\ t \in Nat \ {0}
      BY <2>4, <2>5, <2>7, PowerOrder, PowerType
    <3>2. CalculateThreshold(<<c * t, e * t>>) = CalculateThreshold(<<c, e>>)
      BY <1>6, <2>1, <2>3, <2>5, <3>1, ThresholdScales
    <3> HIDE DEF t
    <3>3. C \in Nat /\ C < b
      <4>1. c * t < e * t
        BY <1>1, <1>6, <3>1
      <4>2. QED
        BY <2>3, <3>1, <4>1
    <3>4. a <= C
      <4>1. c * (e * t) = C * e
        BY <1>1, <3>1
      <4>2. a * e <= C * e
        BY <1>2, <3>1, <4>1
      <4> HIDE DEF C
      <4>3. QED
        BY <1>1, <3>3, <4>2
    <3>5. CalculateThreshold(<<C, b>>) = CalculateThreshold(<<c, e>>)
      BY <3>1, <3>2
    <3> HIDE DEF C
    <3>6. CalculateThreshold(<<a, b>>) <= CalculateThreshold(<<C, b>>)
      BY <1>6, <2>3, <2>4, <3>3, <3>4, ThresholdMonotoneAlike
    <3>7. QED
      BY <1>1, <3>5, <3>6
  <2>8. QED
    BY <2>6, <2>7
<1>7. QED
  BY <1>1, <1>4, <1>5, <1>6
-----------------------------------------------------------------------------
(* Trace ids. *)

LEMMA RoundWordMax == Round(WordMax) = Half * Half
<1> DEFINE e == (HalfBits + HalfBits) - PrecisionBits
           u == PowerOfTwo[e]
<1>1. e \in Nat /\ HalfBits + HalfBits = PrecisionBits + e
  BY WidthAssumption
<1>2. u \in Nat \ {0} /\ Half * Half = Precision * u
  <2>1. Half * Half = PowerOfTwo[HalfBits + HalfBits]
    BY Widths, PowerSum DEF Half
  <2>2. PowerOfTwo[PrecisionBits + e] = Precision * u
    BY <1>1, Widths, PowerSum DEF Precision
  <2>3. QED
    BY <1>1, <2>1, <2>2, PowerType
<1> HIDE DEF e
<1>3. u >= 2
  BY <1>2, Widths
<1>4. WordMax = (Precision * u) - 1 /\ WordMax \in Nat
  BY <1>2, Widths DEF WordMax
<1>5. Excess(WordMax) = e
  <2>1. WordMax < Precision * u
    BY <1>2, <1>4, Widths
  <2>2. Precision * u <= 2 * WordMax
    BY <1>2, <1>4, Widths
  <2>3. QED
    BY <1>1, <1>4, <2>1, <2>2, ExcessIsUnique DEF IsExcess
<1>6. Round(WordMax) = NearestEven(WordMax, u) * u
  BY <1>5 DEF Round
<1> HIDE DEF u
<1>7. NearestEven(WordMax, u) = Precision
  <2> DEFINE p == Precision - 1
             r == u - 1
  <2>1. p \in Nat /\ p % 2 = 1 /\ p + 1 = Precision /\ r \in 0 .. u - 1
    BY <1>2, Widths
  <2>2. WordMax = u * p + r
    BY <1>2, <1>4, Widths
  <2>3. WordMax \div u = p /\ WordMax % u = r
    <3>1. WordMax \in Int /\ p \in Int
      BY <1>4, <2>1
    <3> HIDE DEF p, r
    <3>2. QED
      BY <1>2, <2>1, <2>2, <3>1, DivisionIsUnique
  <2>4. 2 * r > u \/ 2 * r = u
    BY <1>2, <1>3
  <2> HIDE DEF p, r
  <2>5. QED
    BY <2>1, <2>3, <2>4 DEF NearestEven
<1>8. QED
  BY <1>2, <1>6, <1>7, Widths

\* What the id is divided by is a power of two.
LEMMA IdRatio ==
  ASSUME NEW w \in Word
  PROVE  /\ <<Round(w), Half * Half>> \in Doubles
         /\ CalculateThresholdFromBuffer(w) = CalculateThreshold(<<Round(w), Half * Half>>)
<1>1. w \in Nat /\ Round(w) \in Nat
  BY Widths, RoundType DEF Word
<1>2. /\ HalfBits + HalfBits \in Nat /\ PowerOfTwo[HalfBits + HalfBits] = Half * Half
      /\ Half * Half \in Nat \ {0}
  <2>1. HalfBits \in Nat /\ HalfBits + HalfBits \in Nat
    BY WidthAssumption
  <2>2. PowerOfTwo[HalfBits + HalfBits] = Half * Half
    BY <2>1, PowerSum DEF Half
  <2>3. QED
    BY <2>1, <2>2, PowerType
<1>3. HalfBits + HalfBits \in 0 .. Half * Half
  BY <1>2, PowerExceeds
<1>4. CalculateThresholdFromBuffer(w) = CalculateThreshold(<<Round(w), Half * Half>>)
  <2>1. Double(w, 1)[1] = Round(w) /\ Double(WordMax, 1)[1] = Half * Half
    BY DoubleIsRound, RoundWordMax
  <2>2. QED
    BY <2>1 DEF CalculateThresholdFromBuffer
<1> DEFINE r == <<Round(w), Half * Half>>
<1>5. r \in Int \X (Nat \ {0}) /\ r[2] = Half * Half
  BY <1>1, <1>2
<1> HIDE DEF r
<1>6. r \in Doubles
  BY <1>2, <1>3, <1>5 DEF Doubles
<1>7. QED
  BY <1>4, <1>6 DEF r

\* Services with different fractions agree on a trace: whatever the smaller
\* fraction draws, the larger one draws too.
THEOREM DrawsNest ==
  ASSUME NEW r \in Doubles, NEW s \in Doubles, NEW w \in Word,
         r[1] * s[2] <= s[1] * r[2], RandomlySampled(CalculateThreshold(r), w)
  PROVE  RandomlySampled(CalculateThreshold(s), w)
<1>1. /\ CalculateThreshold(r) \in 0 .. WordMax /\ CalculateThreshold(s) \in 0 .. WordMax
      /\ CalculateThreshold(r) <= CalculateThreshold(s)
  BY ThresholdType, ThresholdIsMonotone
<1>2. CalculateThresholdFromBuffer(w) \in 0 .. WordMax
  BY IdRatio, ThresholdType
<1>3. QED
  BY <1>1, <1>2, Widths DEF RandomlySampled
=============================================================================
