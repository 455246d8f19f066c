CONSTANTS
  Listeners = {l1}
  Proxies = {p1, p2}
  Callers = {u1}
  MaxRetries = 3
  NoProxy = NoProxy
SPECIFICATION FairSpec
PROPERTIES
  DeadPruned
  EverythingStops
CHECK_DEADLOCK FALSE
