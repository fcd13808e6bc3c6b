\* Sync with a TCP timeout, no faults: half a request on the stream.
\* A silent device or a used-up bound may leave nothing to do: no deadlock check.
SPECIFICATION LiveSpec
CONSTANTS
  Mode = "sync"
  NoTimeout = NoTimeout
  RtuTimeout = NoTimeout
  TcpTimeout = 1
  t1 = t1
  t2 = t2
  Tids = {t1}
  Kinds = {"std"}
  Faults = {}
  ReqLen = 1
  Hdr = 1
  RespLen = 3
  MaxNeed = 3
  MaxAttempt = 1
  MaxConn = 1
  MaxReq = 1
  MaxRx = 2
PROPERTIES
  CycleEnds
CHECK_DEADLOCK FALSE
