SPECIFICATION Spec
CONSTANTS
  HalfBits = 3
  PrecisionBits = 5
  Spans = {s1, s2}
  ServerContexts = {sc}
  ClientContexts = {cc}
  NoSpan = NoSpan
  Configs <- ErrorConfigs
  TraceIds <- MCTraceIds
  Durations <- MCDurations
INVARIANT UnsampledHasCause
CHECK_DEADLOCK FALSE
