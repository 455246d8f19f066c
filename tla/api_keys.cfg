CONSTANTS
  k0 = k0
  k1 = k1
  k2 = k2
  Keys = {k0, k1, k2}
  Initial <- InitialAll
  Ordinary = {"websocket", "inject"}
  Wishes <- SomeWishes
  Requests = {r1, r2, r3}
SPECIFICATION Spec
SYMMETRY Symmetry
INVARIANTS
  IInv
  NoEscalation
PROPERTIES
  TableSpec
CHECK_DEADLOCK FALSE
