------------------------ MODULE OpenTelemetryTracing ------------------------
(***************************************************************************)
(* tracing/opentelemetry_tracing.cc: how the plugin's configuration becomes*)
(* the options of the sampler, of the processor and of the two filters.    *)
(*                                                                         *)
(* A configuration is a record with the code's field names.                *)
(***************************************************************************)
EXTENDS Sampler, DeferredSampleProcessor

Config ==
  [fraction : Doubles,
   enable_deferred_sample : BOOLEAN,
   deferred_sample_error : BOOLEAN,
   deferred_sample_slow_duration : Nat,
   disable_parent_sampling : BOOLEAN,
   disable_trace_body : BOOLEAN]

SamplerOptions(config) ==
  [threshold |-> CalculateThreshold(config.fraction),
   disable_parent_sampling |-> config.disable_parent_sampling,
   enable_deferred_sample |-> config.enable_deferred_sample]

\* enable_sample_error is taken from enable_deferred_sample, as the code has it.
DeferredOptions(config) ==
  [enable_sample_error |-> config.enable_deferred_sample,
   sample_slow_duration |-> config.deferred_sample_slow_duration]

\* The members both filters derive in their Init.
FilterOptions(config) ==
  [disable_trace_body |-> config.disable_trace_body,
   deferred_sample_error |->
     config.enable_deferred_sample /\ config.deferred_sample_error]

\* The recordables the processor chain makes: only a DeferredRecordable keeps
\* an uninitialised status.
FreshRecordables(config) ==
  IF config.enable_deferred_sample
  THEN MakeRecordable
  ELSE {r \in MakeRecordable : r.code = "kUnset"}

\* How often OnEnd of the processor chain calls BatchSpanProcessor::OnEnd, which
\* is the whole chain without deferred sampling.
HandedOver(config, recordable) ==
  IF config.enable_deferred_sample
  THEN OnEnd(DeferredOptions(config), recordable)
  ELSE 1
=============================================================================
