\* Sync, both polling loops, every error a read can return.
\* A silent device or a used-up bound may leave nothing to do: no deadlock check.
SPECIFICATION Spec
CONSTANTS
  Mode = "sync"
  NoTimeout = NoTimeout
  RtuTimeout = 1
  TcpTimeout = 2
  t1 = t1
  t2 = t2
  Tids = {t1}
  Kinds = {"std", "vendor", "bare", "short", "big"}
  Faults = {"babble", "readErr", "pollErr", "tcpErr", "serialEof"}
  ReqLen = 1
  Hdr = 1
  RespLen = 2
  MaxNeed = 2
  MaxAttempt = 1
  MaxConn = 2
  MaxReq = 2
  MaxRx = 1
INVARIANTS
  TypeOK
  OnlySerialErrorsDirty
  PollsTheirBudget
CHECK_DEADLOCK FALSE
