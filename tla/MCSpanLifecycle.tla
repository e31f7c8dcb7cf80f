-------------------------- MODULE MCSpanLifecycle --------------------------
(* Small instances of SpanLifecycle for TLC. *)
EXTENDS SpanLifecycle, TLC

SpanConfig(deferred, error, noBody) ==
  [fraction |-> <<1, 2>>, enable_deferred_sample |-> deferred,
   deferred_sample_error |-> error, deferred_sample_slow_duration |-> 1,
   disable_parent_sampling |-> FALSE, disable_trace_body |-> noBody]

MCConfigs ==
  {SpanConfig(FALSE, FALSE, FALSE), SpanConfig(TRUE, FALSE, FALSE),
   SpanConfig(TRUE, TRUE, FALSE), SpanConfig(TRUE, TRUE, TRUE)}

\* Deferred error sampling on, as its documentation describes it.
ErrorConfigs == {SpanConfig(TRUE, TRUE, FALSE)}

\* Who ends a span, and when, does not depend on the body or on latency.
LiveConfigs == {SpanConfig(FALSE, FALSE, TRUE), SpanConfig(TRUE, FALSE, TRUE)}
LiveDurations == {1}

\* One id below and one above the threshold of ratio 1/2.
MCTraceIds == {1, WordMax}

\* At the slow threshold and above it.
MCDurations == {1, 2}

\* No definition tells one span identity from another.
SpanSymmetry == Permutations(Spans)
=============================================================================
