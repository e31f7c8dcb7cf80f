SPECIFICATION Spec
CONSTANTS
  INT_MAX = 127
  ServerCalls = {s1, s2}
  ClientCalls = {c1}
  Names <- MCNames
  Statuses <- MCStatuses
  Configs <- MCConfigs
  Labels = {l1, l2}
  Shapes = {"p90"}
INVARIANT ReportsReturn
SYMMETRY MetricsSymmetry
CONSTRAINT Apart
CHECK_DEADLOCK FALSE
