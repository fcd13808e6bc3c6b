\* A server that answers a request twice.
\* A used-up bound or a silent server may leave nothing to do: no deadlock check.
SPECIFICATION Spec
CONSTANTS
  NoTimeout = NoTimeout
  Scenarios <- RepeatScenarios
  TidMod = 65536
  Hdr = 1
  ReqLen = 3
  RtuBuf = 4
  MaxAttempt = 1
  MaxLeft = 2
  MaxSess = 2
  MaxReq = 3
  MaxRx = 1
INVARIANTS
  SafeAfterWarning
CHECK_DEADLOCK FALSE
