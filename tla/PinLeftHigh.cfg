\* Async with an RTU deadline, no faults: the send is cut off.
\* A silent device or a used-up bound may leave nothing to do: no deadlock check.
SPECIFICATION Spec
CONSTANTS
  Mode = "async"
  NoTimeout = NoTimeout
  RtuTimeout = 1
  TcpTimeout = NoTimeout
  t1 = t1
  t2 = t2
  Tids = {t1}
  Kinds = {"std"}
  Faults = {}
  ReqLen = 1
  Hdr = 1
  RespLen = 3
  MaxNeed = 3
  MaxAttempt = 1
  MaxConn = 2
  MaxReq = 2
  MaxRx = 2
INVARIANTS
  TxEnOnlyWhileSending
CHECK_DEADLOCK FALSE
