----------------------- MODULE MCOpenTelemetryMetrics -----------------------
(* A small instance of OpenTelemetryMetrics for TLC. *)
EXTENDS OpenTelemetryMetrics, TLC

\* Two callees, so that rules can apply to one of them only.
MCNames ==
  {[caller_service |-> "front", caller_method |-> "Get",
    callee_service |-> s, callee_method |-> "Say"] : s \in {"shop", "bank"}}

Status(framework, func) == [framework |-> framework, func |-> func]

\* Success, a timeout of the framework with and without a code of the function,
\* a code of the function alone.
MCStatuses == {Status(0, 0), Status(101, 0), Status(21, 9), Status(0, 9)}

Rule(code, type, service, method) ==
  [code |-> code, type |-> type, service |-> service, method |-> method]

\* No rules; an unknown type before a known one, two rules for one code, and a
\* rule against a default; a code that is no int before it wraps.
MCConfigs ==
  {[enabled |-> FALSE, codes |-> <<>>]} \cup
  {[enabled |-> TRUE, codes |-> rules] :
     rules \in {<<>>,
                <<Rule(9, "other", "", ""), Rule(9, "timeout", "bank", ""),
                  Rule(9, "success", "", "Say"), Rule(21, "exception", "shop", "")>>,
                <<Rule(101, "success", "bank", "Say"), Rule(0, "exception", "shop", "Ask")>>,
                <<Rule(256 + 9, "success", "", "")>>}}

MetricsSymmetry ==
  Permutations(ServerCalls) \cup Permutations(ClientCalls) \cup Permutations(Labels)

Observations == MapThenSumSet(
  LAMBDA il : attr[il[1]][il[2]].count, Items \X Labels)

\* The filters and the user metrics share nothing but the state of the plugin:
\* user reports are made, up to MaxObservations that succeed, while no call moves,
\* and the calls move while there was no user report.
MaxObservations == 2
Apart ==
  /\ report.policy = "none" \/ \A c \in Calls : call[c].phase = "new"
  /\ Observations <= MaxObservations
=============================================================================
