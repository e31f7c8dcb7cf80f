----------------------------- MODULE TraceDraw -----------------------------
(***************************************************************************)
(* What the head samplers of several services draw: each has a fraction of *)
(* its own, and all are asked about the same traces, one after the other.  *)
(* The properties compare them with each other and with exact arithmetic.  *)
(***************************************************************************)
EXTENDS Sampler

CONSTANT Ratios  \* the fractions of the services

ASSUME RatiosAssumption == Ratios \subseteq Doubles

VARIABLES id,    \* the word of the trace id the samplers are asked about
          drawn  \* the samplers that draw it

\* What the constructor makes of a ratio.
Samplers == {[ratio |-> r, threshold |-> CalculateThreshold(r)] : r \in Ratios}

DrawnBy(i) == {s \in Samplers : RandomlySampled(s.threshold, i)}

Init == id = 0 /\ drawn = DrawnBy(0)
NextTrace == id < WordMax /\ id' = id + 1 /\ drawn' = DrawnBy(id + 1)
Spec == Init /\ [][NextTrace]_<<id, drawn>>
-----------------------------------------------------------------------------
\* Doubles just below WordMax + 1 are this far apart; the id and the ratio are
\* each rounded twice on their way to a threshold.
Spacing == (WordMax + 1) \div Precision
Tolerance == 2 * Spacing

\* The fraction is honoured up to the rounding of doubles: an id is drawn if it
\* lies clearly below ratio * UINT64_MAX and not if it lies clearly above.
FractionIsMet ==
  \A s \in Samplers :
    /\ (id + Tolerance) * s.ratio[2] <= s.ratio[1] * WordMax => s \in drawn
    /\ (id - Tolerance) * s.ratio[2] >  s.ratio[1] * WordMax => s \notin drawn

\* A fraction of 0 or less draws no trace and one of 1 or more draws every trace,
\* whatever was rounded on the way.
ExtremesAreExact ==
  \A s \in Samplers : /\ s.ratio[1] <= 0 => s \notin drawn
                      /\ s.ratio[1] >= s.ratio[2] => s \in drawn

\* Two services with different fractions agree on a trace: whatever the smaller
\* one draws the larger one draws too.
FractionsNest ==
  \A s \in drawn, t \in Samplers :
    s.ratio[1] * t.ratio[2] <= t.ratio[1] * s.ratio[2] => t \in drawn
=============================================================================
