\* A function code the bridge cannot frame, no faults.
\* A silent device or a used-up bound may leave nothing to do: no deadlock check.
SPECIFICATION Spec
CONSTANTS
  Mode = "async"
  NoTimeout = NoTimeout
  RtuTimeout = NoTimeout
  TcpTimeout = NoTimeout
  t1 = t1
  t2 = t2
  Tids = {t1}
  Kinds = {"std", "vendor"}
  Faults = {}
  ReqLen = 1
  Hdr = 1
  RespLen = 3
  MaxNeed = 3
  MaxAttempt = 1
  MaxConn = 2
  MaxReq = 2
  MaxRx = 2
INVARIANTS
  NoCrcErrorOnCleanLine
CHECK_DEADLOCK FALSE
