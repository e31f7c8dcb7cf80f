SPECIFICATION Spec
CONSTANTS
  s1 = s1
  c1 = c1
  userFunc = userFunc
  otherFunc = otherFunc
  Absent = Absent
  NoFunc = NoFunc
  Nodes <- MCNodes
  Hosts <- MCHosts
  ServerCalls <- MCServerCalls
  ClientCalls <- MCClientCalls
  Protocols <- MCProtocols
  Funcs <- MCFuncs
  Limits = {1, 3}
  Lengths = {4, 6}
  kDefaultMaxStringLength = 5
  SuffixLength = 2
  SizeModulus = 16
INVARIANTS TypeOK NothingUninitialisedIsUsed CallIsCovered LogsAsDocumented CarrierStands BodyIsWanted
SYMMETRY FuncSymmetry
CONSTRAINT Bounded
CHECK_DEADLOCK FALSE
