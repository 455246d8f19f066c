CONSTANTS
  Injectors = {i1}
  MaxChunks = 3
SPECIFICATION FairSpec
INVARIANTS
  IInv
  FewAfterDeath
PROPERTIES
  TwoPipes
  RunsOut
  HandlerEnds
CHECK_DEADLOCK FALSE
