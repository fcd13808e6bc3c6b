\* Sync, no timeouts, no faults.
\* A silent device or a used-up bound may leave nothing to do: no deadlock check.
SPECIFICATION LiveSpec
CONSTANTS
  Mode = "sync"
  NoTimeout = NoTimeout
  RtuTimeout = NoTimeout
  TcpTimeout = NoTimeout
  t1 = t1
  t2 = t2
  Tids = {t1}
  Kinds = {"std", "bare"}
  Faults = {}
  ReqLen = 2
  Hdr = 1
  RespLen = 3
  MaxNeed = 3
  MaxAttempt = 1
  MaxConn = 2
  MaxReq = 2
  MaxRx = 2
PROPERTIES
  RequestAnswered
CHECK_DEADLOCK FALSE
