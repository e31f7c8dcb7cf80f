---------------------------- MODULE MCCallChain ----------------------------
(* A small instance of CallChain for TLC. *)
EXTENDS CallChain, TLC

ChainConfig(fraction, noParent) ==
  [fraction |-> fraction, enable_deferred_sample |-> FALSE,
   deferred_sample_error |-> FALSE, deferred_sample_slow_duration |-> 1,
   disable_parent_sampling |-> noParent, disable_trace_body |-> TRUE]

\* Deferred sampling turns DROP into RECORD_ONLY, and neither is sampled.
MCConfigs == {ChainConfig(<<16, 32>>, FALSE), ChainConfig(<<17, 32>>, TRUE)}

\* An id both fractions draw and one only the larger draws.
MCTraceIds == {30, 34}

ChainSymmetry == Permutations(Spans) \cup Permutations(Services)
                   \cup Permutations(ClientContexts)

\* Every property is about started spans: once all have started, what is made or
\* sent changes nothing any more.
SpansLeft == Started # Spans
=============================================================================
