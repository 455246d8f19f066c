CONSTANTS
  Listeners = {l1, l2}
  Proxies = {p1, p2}
  Callers = {u1}
  MaxRetries = 1
  NoProxy = NoProxy
SPECIFICATION Spec
SYMMETRY Symmetry
INVARIANTS
  IInv
  CloseOkMeansEmpty
PROPERTIES
  RunsOut
  TableSpec
CHECK_DEADLOCK FALSE
