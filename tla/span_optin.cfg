SPECIFICATION Spec
CONSTANTS
  HalfBits = 3
  PrecisionBits = 5
  Spans = {s1, s2}
  ServerContexts = {sc}
  ClientContexts = {cc}
  NoSpan = NoSpan
  Configs <- MCConfigs
  TraceIds <- MCTraceIds
  Durations <- MCDurations
INVARIANT ErrorSamplingIsOptIn
CHECK_DEADLOCK FALSE
