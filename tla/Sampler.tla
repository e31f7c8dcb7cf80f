------------------------------ MODULE Sampler ------------------------------
(***************************************************************************)
(* The head sampler of tracing/sampler.cc: the decision taken when a span  *)
(* starts, and the fixed-point arithmetic behind the random part of it.    *)
(*                                                                         *)
(* The code has HalfBits = 32 and PrecisionBits = 53: a word is a uint64_t *)
(* of two halves, and a double keeps PrecisionBits significant bits.  A    *)
(* double is a pair <<numerator, denominator>> with a power of two below;  *)
(* every operation of the code that may round is an application of Double. *)
(* A definition just above another one with the same parameters is a       *)
(* plausible wrong version of it, used to try the properties out.          *)
(***************************************************************************)
EXTENDS Integers

CONSTANTS HalfBits,      \* bits of half a word
          PrecisionBits  \* bits of a double's significand

\* A double holds the sum of two halves but not a word.
ASSUME WidthAssumption ==
  /\ HalfBits \in Nat /\ PrecisionBits \in Nat
  /\ HalfBits + 1 < PrecisionBits /\ PrecisionBits < 2 * HalfBits

\* A function and not 2 ^ n: what ^ means is unknown to the provers.
PowerOfTwo[n \in Nat] == IF n = 0 THEN 1 ELSE 2 * PowerOfTwo[n - 1]

Half == PowerOfTwo[HalfBits]
HalfMax == Half - 1              \* UINT32_MAX
WordMax == Half * Half - 1       \* UINT64_MAX
Word == 0 .. WordMax

Decisions == {"DROP", "RECORD_ONLY", "RECORD_AND_SAMPLE"}
-----------------------------------------------------------------------------
(* Doubles. *)

\* The finite ones; nothing below depends on how wide the significand of an
\* operand is.
Doubles == {d \in Int \X (Nat \ {0}) : \E k \in 0 .. d[2] : d[2] = PowerOfTwo[k]}

Precision == PowerOfTwo[PrecisionBits]

\* The bits of n beyond a significand's: the least e with n < Precision * 2^e.
Excess(n) ==
  CHOOSE e \in 0 .. n :
    /\ n < Precision * PowerOfTwo[e]
    /\ e = 0 \/ Precision * PowerOfTwo[e] <= 2 * n

\* num / den rounded to an integer, ties to even.
NearestEven(num, den) ==
  LET floor == num \div den
      twice == 2 * (num % den)
  IN  IF twice > den \/ (twice = den /\ floor % 2 = 1) THEN floor + 1 ELSE floor

\* The double nearest to num / den, for a power of two den.
Double(num, den) ==
  LET unit == PowerOfTwo[Excess(num)]
  IN  <<NearestEven(num, unit) * unit, den>>

Truncate(double) == double[1] \div double[2]       \* static_cast<uint64_t>
-----------------------------------------------------------------------------
(* The sampler. *)

\* The halves joined by | instead of +: the carry out of the low one is lost.
CarryLost(hi, lo) == hi * Half + (lo % Half)

\* (hi << 32) + lo
Join(hi, lo) == (hi * Half + lo) % (WordMax + 1)

\* modf splits product into hi and frac, ldexp moves frac up by one half.
CalculateThreshold(ratio) ==
  LET product == Double(HalfMax * ratio[1], ratio[2])
      frac    == product[1] % product[2]
      lo      == Double(frac * Half + product[1], product[2])
  IN  CASE ratio[1] <= 0        -> 0
        [] ratio[1] >= ratio[2] -> WordMax
        [] OTHER                -> Join(Truncate(product), Truncate(lo))

\* id is the word read from the first eight bytes of the trace id.  Both it and
\* UINT64_MAX become doubles before they are divided.
CalculateThresholdFromBuffer(id) ==
  CalculateThreshold(<<Double(id, 1)[1], Double(WordMax, 1)[1]>>)

NoZeroCheck(threshold, id) == CalculateThresholdFromBuffer(id) <= threshold

\* threshold_ != 0 && CalculateThresholdFromBuffer(trace_id) <= threshold_
RandomlySampled(threshold, id) ==
  threshold # 0 /\ CalculateThresholdFromBuffer(id) <= threshold

ParentIgnored(opts, forced, parentSampled, id) ==
  CASE forced \/ RandomlySampled(opts.threshold, id) -> "RECORD_AND_SAMPLE"
    [] OTHER -> IF opts.enable_deferred_sample THEN "RECORD_ONLY" ELSE "DROP"

\* opts holds threshold, disable_parent_sampling and enable_deferred_sample;
\* forced says whether the start attributes carry kForceSampleKey.
ShouldSample(opts, forced, parentSampled, id) ==
  CASE \/ forced
       \/ ~opts.disable_parent_sampling /\ parentSampled
       \/ RandomlySampled(opts.threshold, id)   -> "RECORD_AND_SAMPLE"
    [] OTHER -> IF opts.enable_deferred_sample THEN "RECORD_ONLY" ELSE "DROP"
=============================================================================
