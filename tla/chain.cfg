SPECIFICATION Spec
CONSTANTS
  HalfBits = 3
  PrecisionBits = 5
  Services = {A, B}
  Configs <- MCConfigs
  Spans = {s1, s2, s3, s4}
  ClientContexts = {c1, c2}
  TraceIds <- MCTraceIds
  None = None
INVARIANTS TypeOK ServerParentIsCaller AttemptsAreSiblings OneTrace SamplingReachesDown DrawnTraceIsWhole
SYMMETRY ChainSymmetry
CONSTRAINT SpansLeft
CHECK_DEADLOCK FALSE
