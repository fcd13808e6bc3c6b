\* Async, both deadlines, a serial port and a device that may do nothing.
\* A silent device or a used-up bound may leave nothing to do: no deadlock check.
SPECIFICATION TimedSpec
CONSTANTS
  Mode = "async"
  NoTimeout = NoTimeout
  RtuTimeout = 1
  TcpTimeout = 1
  t1 = t1
  t2 = t2
  Tids = {t1}
  Kinds = {"std", "short"}
  Faults = {"silent", "writeErr", "tcpErr"}
  ReqLen = 2
  Hdr = 1
  RespLen = 3
  MaxNeed = 3
  MaxAttempt = 1
  MaxConn = 2
  MaxReq = 2
  MaxRx = 2
INVARIANTS
  CrcErrorMeansStale
  HalfDuplex
  PinFollowsSend
PROPERTIES
  CycleEnds
CHECK_DEADLOCK FALSE
