-------------------------- MODULE TraceDraw_proofs --------------------------
(***************************************************************************)
(* Proofs about TraceDraw, for any widths, any fractions and every trace   *)
(* id.                                                                     *)
(***************************************************************************)
EXTENDS TraceDraw, Sampler_proofs

\* The samplers have been asked about the id they are said to have answered for.
Asked == id \in Word /\ drawn = DrawnBy(id)

LEMMA DrawInvariance == Spec => []Asked
<1>1. Init => Asked
  BY Widths DEF Init, Asked, Word
<1>2. Asked /\ [NextTrace]_<<id, drawn>> => Asked'
  <2> SUFFICES ASSUME Asked, [NextTrace]_<<id, drawn>> PROVE Asked'
    OBVIOUS
  <2>1. CASE NextTrace
    <3>1. id + 1 \in Word
      BY <2>1, Widths DEF Asked, NextTrace, Word
    <3>2. QED
      BY <2>1, <3>1 DEF Asked, NextTrace
  <2>2. CASE UNCHANGED <<id, drawn>>
    BY <2>2 DEF Asked, DrawnBy
  <2>3. QED
    BY <2>1, <2>2
<1>3. QED
  BY <1>1, <1>2, PTL DEF Spec

LEMMA SamplerParts ==
  ASSUME NEW s \in Samplers
  PROVE  s.ratio \in Doubles /\ s.threshold = CalculateThreshold(s.ratio)
BY RatiosAssumption DEF Samplers

LEMMA DrawnIff ==
  ASSUME Asked, NEW s \in Samplers
  PROVE  s \in drawn <=> RandomlySampled(CalculateThreshold(s.ratio), id)
BY SamplerParts DEF Asked, DrawnBy

\* Services with different fractions agree on a trace.
THEOREM SamplersNest == Spec => []FractionsNest
<1>1. Asked => FractionsNest
  <2> SUFFICES ASSUME Asked, NEW s \in drawn, NEW t \in Samplers,
                      s.ratio[1] * t.ratio[2] <= t.ratio[1] * s.ratio[2]
               PROVE  t \in drawn
    BY DEF FractionsNest
  <2>1. s \in Samplers /\ id \in Word
    BY DEF Asked, DrawnBy
  <2>2. s.ratio \in Doubles /\ t.ratio \in Doubles
    BY <2>1, SamplerParts
  <2>3. RandomlySampled(CalculateThreshold(s.ratio), id)
    BY <2>1, DrawnIff
  <2>4. RandomlySampled(CalculateThreshold(t.ratio), id)
    BY <2>1, <2>2, <2>3, DrawsNest
  <2>5. QED
    BY <2>4, DrawnIff
<1>2. QED
  BY <1>1, DrawInvariance, PTL

\* The ends of the range of fractions draw nothing and everything.
THEOREM ExtremesDrawNoneOrAll == Spec => []ExtremesAreExact
<1>1. Asked => ExtremesAreExact
  <2> SUFFICES ASSUME Asked, NEW s \in Samplers
               PROVE  /\ s.ratio[1] <= 0 => s \notin drawn
                      /\ s.ratio[1] >= s.ratio[2] => s \in drawn
    BY DEF ExtremesAreExact
  <2>1. /\ s.ratio[1] <= 0 => CalculateThreshold(s.ratio) = 0
        /\ s.ratio[1] >= s.ratio[2] => CalculateThreshold(s.ratio) = WordMax
    BY SamplerParts, ThresholdEnds
  <2>2. CalculateThresholdFromBuffer(id) \in 0 .. WordMax
    BY IdRatio, ThresholdType DEF Asked
  <2>3. WordMax \in Nat /\ WordMax # 0
    BY Widths
  <2>4. ~RandomlySampled(0, id) /\ RandomlySampled(WordMax, id)
    BY <2>2, <2>3 DEF RandomlySampled
  <2>5. QED
    BY <2>1, <2>4, DrawnIff
<1>2. QED
  BY <1>1, DrawInvariance, PTL
-----------------------------------------------------------------------------
(* How far a threshold is from the fraction, and the id's from the id. *)

LEMMA SpacingIs ==
  /\ Spacing \in Nat /\ Spacing >= 2 /\ Precision * Spacing = Half * Half
  /\ PrecisionBits + 3 <= HalfBits + HalfBits => Spacing >= 8
<1> DEFINE e == (HalfBits + HalfBits) - PrecisionBits
           u == PowerOfTwo[e]
<1>1. e \in Nat /\ HalfBits + HalfBits = PrecisionBits + e
  BY WidthAssumption
<1>2. u \in Nat \ {0} /\ Half * Half = Precision * u
  <2>1. HalfBits \in Nat /\ PrecisionBits \in Nat
    BY WidthAssumption
  <2>2. PowerOfTwo[HalfBits + HalfBits] = Half * Half
    BY <2>1, PowerSum DEF Half
  <2>3. PowerOfTwo[PrecisionBits + e] = Precision * u
    BY <1>1, <2>1, PowerSum DEF Precision
  <2>4. QED
    BY <1>1, <2>2, <2>3, PowerType
<1>3. PrecisionBits + 3 <= HalfBits + HalfBits => u >= 8
  <2> SUFFICES ASSUME PrecisionBits + 3 <= HalfBits + HalfBits PROVE u >= 8
    OBVIOUS
  <2>1. 3 <= e /\ 3 \in Nat
    BY <1>1, WidthAssumption
  <2>2. PowerOfTwo[3] <= u
    BY <1>1, <2>1, PowerOrder
  <2>3. PowerOfTwo[0 + 1] = 2 /\ PowerOfTwo[1 + 1] = 4 /\ PowerOfTwo[2 + 1] = 8
    BY PowerStep
  <2>4. QED
    BY <1>2, <2>2, <2>3
<1> HIDE DEF e, u
<1>4. Spacing = u
  <2>1. WordMax + 1 = Precision * u + 0 /\ WordMax + 1 \in Int
    BY <1>2, Widths
  <2>2. Precision \in Nat \ {0} /\ u \in Int /\ 0 \in 0 .. Precision - 1
    BY <1>2, Widths
  <2>3. QED
    BY <2>1, <2>2, DivisionIsUnique DEF Spacing
<1>5. u >= 2
  BY <1>2, Widths
<1>6. QED
  BY <1>2, <1>3, <1>4, <1>5

\* A threshold is the fraction of UINT64_MAX but for half a spacing and the
\* truncations.
LEMMA ThresholdError ==
  ASSUME NEW d \in Nat, NEW b, b = PowerOfTwo[d], NEW a \in Nat, 0 < a, a < b,
         NEW t, t = CalculateThreshold(<<a, b>>)
  PROVE  /\ t \in Nat
         /\ 8 * (t * b) < 8 * (WordMax * a) + (4 * Spacing + 9) * b
         /\ 8 * (WordMax * a) < 8 * (t * b) + (4 * Spacing + 9) * b
<1> DEFINE n == HalfMax * a
           p == Round(n)
           X == p * (Half + 1)
<1>1. b \in Nat \ {0}
  BY PowerType
<1>2. n \in Nat /\ n < Half * b /\ Half * b \in Nat
  <2>1. HalfMax * a <= Half * a /\ Half * a < Half * b
    BY <1>1, Widths
  <2>2. QED
    BY <1>1, <2>1, Widths
<1>3. p \in Nat /\ p <= HalfMax * b
  BY <1>1, ProductBounds
<1>4. t = Fixed(p, b)
  BY ThresholdIsFixed
<1> HIDE DEF n, p
<1>5. X \in Nat
  BY <1>3, Widths
<1>6. /\ t \in Nat
      /\ X < (t + 1) * b
      /\ t * b < X + b
  <2>1. t \in Nat
    BY <1>3, <1>4, FixedBounds
  <2>2. X < (t + 1) * b
    <3>1. t + 1 \in Nat
      BY <2>1
    <3>2. (t + 1) * b <= X => t + 1 <= t
      BY <1>3, <1>4, <3>1, FixedBounds
    <3>3. QED
      BY <1>1, <1>5, <2>1, <3>2
  <2>3. CASE t = 0
    BY <1>1, <1>5, <2>1, <2>2, <2>3
  <2>4. CASE t # 0
    <3>1. t - 1 \in Nat
      BY <2>1, <2>4
    <3>2. X <= (t - 1) * b => t <= t - 1
      BY <1>3, <1>4, <3>1, FixedBounds
    <3>3. (t - 1) * b = t * b - b
      BY <1>1, <2>1
    <3>4. QED
      BY <1>1, <1>5, <2>1, <2>2, <3>2, <3>3
  <2>5. QED
    BY <2>3, <2>4
<1>7. /\ 2 * (Precision * p) <= 2 * (Precision * n) + Half * b
      /\ 2 * (Precision * n) <= 2 * (Precision * p) + Half * b
  <2>1. CASE Precision <= Half * b
    <3>1. HalfBits + d \in Nat /\ PowerOfTwo[HalfBits + d] = Half * b
      <4>1. HalfBits \in Nat
        BY WidthAssumption
      <4>2. QED
        BY <4>1, PowerSum DEF Half
    <3>2. QED
      BY <1>2, <2>1, <3>1, RoundError DEF p
  <2>2. CASE ~(Precision <= Half * b)
    <3>1. n < Precision
      BY <1>2, <2>2, Widths
    <3>2. Round(n * PowerOfTwo[0]) = n * PowerOfTwo[0]
      BY <1>2, <3>1, RoundKeeps
    <3>3. p = n
      BY <1>2, <3>2, PowerStep DEF p
    <3>4. QED
      BY <1>2, <3>3, Widths
  <2>3. QED
    BY <2>1, <2>2
<1>8. n * (Half + 1) = WordMax * a
  <2>1. HalfMax * (Half + 1) = WordMax
    BY Widths
  <2>2. QED
    BY <2>1, Widths DEF n
<1> DEFINE Y == n * (Half + 1)
           S == Spacing
<1>9. Y \in Nat
  BY <1>2, Widths
<1>10. S \in Nat /\ Precision * S = Half * Half
  BY SpacingIs
<1>11. (Half * b) * (Half + 1) = (Precision * S) * b + Half * b
  BY <1>1, <1>10, Widths
<1>12. 4 * ((Half * b) * (Half + 1)) <= Precision * ((4 * S + 1) * b)
  <2>1. 4 * (Half * b) <= Precision * b
    BY <1>1, Widths
  <2>2. Precision * ((4 * S + 1) * b) = 4 * ((Precision * S) * b) + Precision * b
    BY <1>1, <1>10, Widths
  <2> HIDE DEF S
  <2>3. QED
    BY <1>1, <1>10, <1>11, <2>1, <2>2, Widths
<1>13. /\ 2 * (Precision * X) <= 2 * (Precision * Y) + (Half * b) * (Half + 1)
       /\ 2 * (Precision * Y) <= 2 * (Precision * X) + (Half * b) * (Half + 1)
  BY <1>2, <1>3, <1>7, Widths
<1> HIDE DEF X, Y, S
<1>14. /\ Precision * (8 * X) <= Precision * (8 * Y + (4 * S + 1) * b)
       /\ Precision * (8 * Y) <= Precision * (8 * X + (4 * S + 1) * b)
  <2> DEFINE E == (Half * b) * (Half + 1)
             F == (4 * S + 1) * b
  <2>1. E \in Nat /\ F \in Nat
    BY <1>1, <1>10, Widths
  <2>2. 4 * E <= Precision * F
    BY <1>12
  <2>3. /\ 2 * (Precision * X) <= 2 * (Precision * Y) + E
        /\ 2 * (Precision * Y) <= 2 * (Precision * X) + E
    BY <1>13
  <2> HIDE DEF E, F
  <2>4. /\ Precision * (8 * X) <= Precision * (8 * Y + F)
        /\ Precision * (8 * Y) <= Precision * (8 * X + F)
    BY <1>5, <1>9, <2>1, <2>2, <2>3, Widths
  <2>5. QED
    BY <2>4 DEF F
<1>15. /\ 8 * X <= 8 * Y + (4 * S + 1) * b
       /\ 8 * Y <= 8 * X + (4 * S + 1) * b
  BY <1>1, <1>5, <1>9, <1>10, <1>14, Widths
<1>16. (4 * S + 9) * b = (4 * S + 1) * b + 8 * b /\ (t + 1) * b = t * b + b
  BY <1>1, <1>6, <1>10
<1>17. /\ 8 * (t * b) < 8 * Y + (4 * S + 9) * b
       /\ 8 * Y < 8 * (t * b) + (4 * S + 9) * b
  BY <1>1, <1>5, <1>6, <1>9, <1>10, <1>15, <1>16
<1>18. QED
  BY <1>6, <1>8, <1>17 DEF Y, S

\* The id is rounded to a double and then to a threshold of its own.
LEMMA IdError ==
  ASSUME NEW w \in Word, NEW i, i = CalculateThresholdFromBuffer(w)
  PROVE  /\ i \in Nat
         /\ 8 * i < 8 * w + 8 * Spacing + 9
         /\ 8 * w < 8 * i + 8 * Spacing + 17
<1> DEFINE r == Round(w)
           B == Half * Half
           S == Spacing
<1>1. w \in Nat /\ w <= WordMax /\ WordMax \in Nat /\ WordMax + 1 = B /\ B \in Nat \ {0}
  BY Widths DEF Word
<1>2. r \in Nat /\ r <= B
  BY <1>1, RoundType, RoundMonotone, RoundWordMax
<1>3. HalfBits + HalfBits \in Nat /\ PowerOfTwo[HalfBits + HalfBits] = B
  <2>1. HalfBits \in Nat
    BY WidthAssumption
  <2>2. QED
    BY <2>1, PowerSum DEF Half
<1>4. <<r, B>> \in Doubles /\ i = CalculateThreshold(<<r, B>>)
  BY IdRatio
<1>5. S \in Nat /\ S >= 2 /\ Precision * S = B /\ Precision \in Nat /\ Precision > 0
  BY SpacingIs, Widths
<1>6. 2 * r <= 2 * w + S /\ 2 * w <= 2 * r + S
  <2>1. w < B /\ Precision <= B
    BY <1>1, Widths
  <2>2. /\ 2 * (Precision * r) <= 2 * (Precision * w) + B
        /\ 2 * (Precision * w) <= 2 * (Precision * r) + B
    BY <1>1, <1>3, <2>1, RoundError
  <2> HIDE DEF r, B, S
  <2>3. /\ Precision * (2 * r) <= Precision * (2 * w + S)
        /\ Precision * (2 * w) <= Precision * (2 * r + S)
    BY <1>1, <1>2, <1>5, <2>2
  <2>4. QED
    BY <1>1, <1>2, <1>5, <2>3
<1>7. /\ r <= 0 => i = 0
      /\ r >= B => i = WordMax
  BY <1>4, ThresholdEnds
<1>8. CASE r > 0 /\ r < B
  <2>1. /\ i \in Nat
        /\ 8 * (i * B) < 8 * (WordMax * r) + (4 * Spacing + 9) * B
        /\ 8 * (WordMax * r) < 8 * (i * B) + (4 * Spacing + 9) * B
    <3>1. \E d \in Nat : B = PowerOfTwo[d]
      BY <1>3
    <3> HIDE DEF r, B
    <3>2. QED
      BY <1>2, <1>4, <1>8, <3>1, ThresholdError
  <2> HIDE DEF r, B
  <2>2. WordMax * r = r * B - r
    BY <1>1, <1>2
  <2>3. 8 * (i * B) < 8 * (r * B) + (4 * S + 9) * B
    BY <1>1, <1>2, <1>5, <2>1, <2>2
  <2>4. 8 * (r * B) < 8 * (i * B) + (4 * S + 17) * B
    BY <1>1, <1>2, <1>5, <1>8, <2>1, <2>2
  <2> HIDE DEF S
  <2>5. 8 * i < 8 * r + 4 * S + 9
    BY <1>1, <1>2, <1>5, <2>1, <2>3
  <2>6. 8 * r < 8 * i + 4 * S + 17
    BY <1>1, <1>2, <1>5, <2>1, <2>4
  <2>7. 8 * i < 8 * w + 8 * S + 9 /\ 8 * w < 8 * i + 8 * S + 17
    BY <1>1, <1>2, <1>5, <1>6, <2>1, <2>5, <2>6
  <2>8. QED
    BY <2>1, <2>7 DEF S
<1> HIDE DEF r, B
<1>9. CASE r <= 0
  BY <1>1, <1>2, <1>5, <1>6, <1>7, <1>9
<1>10. CASE r >= B
  BY <1>1, <1>2, <1>5, <1>6, <1>7, <1>10
<1>11. QED
  BY <1>1, <1>2, <1>8, <1>9, <1>10

\* The fraction is honoured.
THEOREM FractionsAreMet ==
  ASSUME PrecisionBits + 3 <= HalfBits + HalfBits
  PROVE  Spec => []FractionIsMet
<1>1. Asked => FractionIsMet
  <2> SUFFICES ASSUME Asked, NEW s \in Samplers
               PROVE  /\ (id + Tolerance) * s.ratio[2] <= s.ratio[1] * WordMax => s \in drawn
                      /\ (id - Tolerance) * s.ratio[2] >  s.ratio[1] * WordMax => s \notin drawn
    BY DEF FractionIsMet
  <2> DEFINE a == s.ratio[1]
             b == s.ratio[2]
             t == CalculateThreshold(s.ratio)
             i == CalculateThresholdFromBuffer(id)
             S == Spacing
             W == WordMax
             w == id
  <2>1. /\ s.ratio = <<a, b>> /\ a \in Int /\ b \in Nat \ {0}
        /\ \E d \in Nat : b = PowerOfTwo[d]
    BY SamplerParts, DoublesParts
  <2>2. /\ a <= 0 => t = 0
        /\ a >= b => t = WordMax
    BY SamplerParts, ThresholdEnds
  <2>3. t \in 0 .. WordMax
    BY SamplerParts, ThresholdType
  <2>4. /\ i \in Nat /\ 8 * i < 8 * w + 8 * S + 9 /\ 8 * w < 8 * i + 8 * S + 17
        /\ w \in Nat /\ w <= W
    BY IdError, Widths DEF Asked, Word
  <2>5. S \in Nat /\ S >= 8 /\ W \in Nat /\ W > 0 /\ Tolerance = 2 * S
    BY SpacingIs, Widths DEF Tolerance
  <2>6. s \in drawn <=> t # 0 /\ i <= t
    BY DrawnIff DEF RandomlySampled
  <2>7. ASSUME a > 0, a < b
        PROVE  /\ 8 * (t * b) < 8 * (W * a) + (4 * S + 9) * b
               /\ 8 * (W * a) < 8 * (t * b) + (4 * S + 9) * b
    <3>1. PICK d \in Nat : b = PowerOfTwo[d]
      BY <2>1
    <3>2. a \in Nat /\ t = CalculateThreshold(<<a, b>>)
      BY <2>1, <2>7
    <3> HIDE DEF a, b, t
    <3>3. QED
      BY <2>7, <3>1, <3>2, ThresholdError
  <2>8. i <= W
    <3>1. CalculateThresholdFromBuffer(id) \in 0 .. WordMax
      BY IdRatio, ThresholdType DEF Asked
    <3>2. QED
      BY <3>1, Widths
  <2> HIDE DEF a, b, t, i, S, W, w
  <2>9. ASSUME (w + 2 * S) * b <= a * W PROVE t # 0 /\ i <= t
    <3>1. a > 0
      <4>1. (w + 2 * S) * b > 0
        BY <2>1, <2>4, <2>5
      <4>2. a <= 0 => a * W <= 0
        BY <2>1, <2>5
      <4>3. QED
        <5>1. (w + 2 * S) * b \in Int /\ a * W \in Int
          BY <2>1, <2>4, <2>5
        <5>2. a * W > 0
          BY <2>9, <4>1, <5>1
        <5>3. QED
          BY <2>1, <4>2, <5>1, <5>2
    <3>2. CASE a >= b
      BY <2>2, <2>4, <2>5, <2>8, <3>2 DEF W
    <3>3. CASE a < b
      <4>1. 8 * (W * a) < 8 * (t * b) + (4 * S + 9) * b
        BY <2>7, <3>1, <3>3
      <4>2. 8 * ((w + 2 * S) * b) < 8 * (t * b) + (4 * S + 9) * b
        BY <2>1, <2>3, <2>4, <2>5, <2>9, <4>1
      <4>3. (8 * w + 16 * S) * b < (8 * t + 4 * S + 9) * b
        BY <2>1, <2>3, <2>4, <2>5, <4>2
      <4>4. 8 * w + 16 * S < 8 * t + 4 * S + 9
        BY <2>1, <2>3, <2>4, <2>5, <4>3
      <4>5. QED
        BY <2>3, <2>4, <2>5, <4>4
    <3>4. QED
      BY <2>1, <3>2, <3>3
  <2>10. ASSUME (w - 2 * S) * b > a * W PROVE ~(t # 0 /\ i <= t)
    <3>1. CASE a <= 0
      BY <2>2, <3>1
    <3>2. a < b
      <4>1. a >= b => b * W <= a * W
        BY <2>1, <2>5
      <4>2. (w - 2 * S) * b <= W * b
        BY <2>1, <2>4, <2>5
      <4>3. QED
        BY <2>1, <2>4, <2>5, <2>10, <4>1, <4>2
    <3>3. CASE a > 0
      <4>1. 8 * (t * b) < 8 * (W * a) + (4 * S + 9) * b
        BY <2>7, <3>2, <3>3
      <4>2. 8 * (t * b) < 8 * ((w - 2 * S) * b) + (4 * S + 9) * b
        BY <2>1, <2>3, <2>4, <2>5, <2>10, <4>1
      <4>3. (8 * t) * b < (8 * w - 12 * S + 9) * b
        BY <2>1, <2>3, <2>4, <2>5, <4>2
      <4>4. 8 * t < 8 * w - 12 * S + 9
        BY <2>1, <2>3, <2>4, <2>5, <4>3
      <4>5. QED
        BY <2>3, <2>4, <2>5, <4>4
    <3>4. QED
      BY <2>1, <3>1, <3>3
  <2>11. QED
    BY <2>5, <2>6, <2>9, <2>10 DEF a, b, W, w
<1>2. QED
  BY <1>1, DrawInvariance, PTL
=============================================================================
