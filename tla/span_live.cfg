SPECIFICATION FairSpec
CONSTANTS
  HalfBits = 3
  PrecisionBits = 5
  Spans = {s1, s2}
  ServerContexts = {sc}
  ClientContexts = {cc}
  NoSpan = NoSpan
  Configs <- LiveConfigs
  TraceIds <- MCTraceIds
  Durations <- LiveDurations
PROPERTY RefinesReport
CHECK_DEADLOCK FALSE
