\* Client mode in seven scenarios (see MCClientSession).
\* A used-up bound or a silent server may leave nothing to do: no deadlock check.
SPECIFICATION FairSpec
CONSTANTS
  NoTimeout = NoTimeout
  Scenarios <- MCScenarios
  TidMod = 2
  Hdr = 1
  ReqLen = 3
  RtuBuf = 4
  MaxAttempt = 1
  MaxLeft = 2
  MaxSess = 2
  MaxReq = 3
  MaxRx = 1
INVARIANTS
  TypeOK
  AnswersFlagged
  EndToEnd
  
  TxEnOnlyWhileSending
PROPERTIES
  GatewaySpec
  CycleEnds
  
CHECK_DEADLOCK FALSE
