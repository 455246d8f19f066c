CONSTANTS
  Listeners = {l1}
  Proxies = {p1}
  Callers = {u1}
  MaxRetries = 0
  NoProxy = NoProxy
SPECIFICATION Spec
INVARIANT CloseCanSucceed
CHECK_DEADLOCK FALSE
