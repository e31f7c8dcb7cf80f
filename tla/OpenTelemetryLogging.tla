------------------------ MODULE OpenTelemetryLogging ------------------------
(***************************************************************************)
(* The decisions of the logging plugin (logging/opentelemetry_logging.cc)  *)
(* and of the logger instance it is a sink of (opentelemetry_telemetry.cc).*)
(* A definition just above another one with the same parameters is a       *)
(* plausible wrong version of it, used to try the properties out.          *)
(***************************************************************************)
EXTENDS OpenTelemetryConf

\* The levels of the framework, by severity.
LevelRank ==
  [trace |-> 0, debug |-> 1, info |-> 2, warn |-> 3, error |-> 4, critical |-> 5]

Levels == DOMAIN LevelRank
AtLeast(level, other) == LevelRank[level] >= LevelRank[other]

NameIsLevel(name) == name

\* The name of a level in the configuration; one that is not known is an error.
GetLogLevel(name) ==
  CASE name \in Levels \ {"critical"} -> name
    [] name = "fatal" -> "critical"
    [] OTHER -> "error"

\* Whether a record of a call whose span has the given flag is emitted.
ShouldReport(config, level, sampled) ==
  config.logs.enable_sampler =>
    sampled \/ (config.logs.enable_sampler_error /\ AtLeast(level, "error"))

\* The attributes of the log provider's resource, pairs of a key and a value: the
\* configured ones replace the plugin's own.
LogResources(config) ==
  LET own == {<<"server", "app.server">>, <<"service.name", "app.server">>, <<"env", "test">>}
      configured == config.traces.resources
  IN  {r \in own : \A c \in configured : c[1] # r[1]} \cup configured
=============================================================================
