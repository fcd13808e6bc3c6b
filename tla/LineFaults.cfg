\* Async, no timeouts, a line that corrupts, drops and invents units.
\* A silent device or a used-up bound may leave nothing to do: no deadlock check.
SPECIFICATION Spec
CONSTANTS
  Mode = "async"
  NoTimeout = NoTimeout
  RtuTimeout = NoTimeout
  TcpTimeout = NoTimeout
  t1 = t1
  t2 = t2
  Tids = {t1, t2}
  Kinds = {"std"}
  Faults = {"noise", "loss", "babble"}
  ReqLen = 2
  Hdr = 1
  RespLen = 3
  MaxNeed = 3
  MaxAttempt = 1
  MaxConn = 2
  MaxReq = 3
  MaxRx = 2
INVARIANTS
  AnswersPaired
  CleanCycle
  AnswersInOrder
PROPERTIES
  GatewaySpec
CHECK_DEADLOCK FALSE
