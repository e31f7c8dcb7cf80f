------------------------- MODULE OpenTelemetryConf -------------------------
(***************************************************************************)
(* The configuration of the plugin: the defaults of                        *)
(* opentelemetry_telemetry_conf.h and what decoding makes of a YAML node   *)
(* (opentelemetry_telemetry_conf_parser.h).                                *)
(*                                                                         *)
(* A node is a function from the keys that are present to their values; a  *)
(* section is a node in a node.  Durations and bucket bounds are in        *)
(* milliseconds.                                                           *)
(*                                                                         *)
(* A definition just above another one with the same parameters is a       *)
(* plausible wrong version of it, used to try the properties out.          *)
(***************************************************************************)
EXTENDS Integers

SamplerConfig == [fraction |-> 1]

MetricsConfig ==
  [enabled |-> FALSE,
   client_histogram_buckets |-> <<5, 10, 100, 500, 1000, 5000>>,
   server_histogram_buckets |-> <<5, 10, 25, 50, 100, 250, 500, 1000, 5000>>,
   codes |-> <<>>]

LogsConfig ==
  [enabled |-> FALSE, level |-> "error",
   enable_sampler |-> FALSE, enable_sampler_error |-> FALSE, resources |-> {}]

TracesConfig ==
  [disable_trace_body |-> TRUE,
   enable_deferred_sample |-> FALSE, deferred_sample_error |-> FALSE,
   deferred_sample_slow_duration |-> 500, disable_parent_sampling |-> FALSE,
   resources |-> {}]

\* OpenTelemetryConfig; its sections are fields without the suffix _config.
DefaultConfig ==
  [addr |-> "", protocol |-> "http", selector_name |-> "domain", timeout |-> 10000,
   sampler |-> SamplerConfig, metrics |-> MetricsConfig,
   logs |-> LogsConfig, traces |-> TracesConfig]

\* Every key that is present replaces the default; other keys are ignored.
Overlay(node, defaults) ==
  [k \in DOMAIN defaults |-> IF k \in DOMAIN node THEN node[k] ELSE defaults[k]]

Section(node, key) == IF key \in DOMAIN node THEN node[key] ELSE <<>>

DecodeSampler(node) == Overlay(Section(node, "sampler"), SamplerConfig)
DecodeMetrics(node) == Overlay(Section(node, "metrics"), MetricsConfig)

SwitchFromOtherKey(node) ==
  LET logs == Overlay(Section(node, "logs"), LogsConfig)
  IN  [logs EXCEPT !.enable_sampler_error = logs.enable_sampler]

DecodeLogs(node) == Overlay(Section(node, "logs"), LogsConfig)

DecodeTraces(node) == Overlay(Section(node, "traces"), TracesConfig)

\* A section is decoded on its own, so that its missing keys have defaults too.
Decode(node) ==
  [Overlay(node, DefaultConfig) EXCEPT
     !.sampler = DecodeSampler(node), !.metrics = DecodeMetrics(node),
     !.logs = DecodeLogs(node), !.traces = DecodeTraces(node)]
=============================================================================
