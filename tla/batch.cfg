SPECIFICATION FairSpec
CONSTANTS
  Protocols <- MCProtocols
  MaxQueue = 3
  MaxBatch = 2
INVARIANTS TypeOK NoBatchTwice SuccessIsArrival
PROPERTIES FallsSilent ShutdownReturns RefinesChannel
CHECK_DEADLOCK FALSE
