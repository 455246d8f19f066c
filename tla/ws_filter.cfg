CONSTANTS
  Packets = {p1, p2, p3}
  Injected = {p3}
  Default = "drop"
  NoPacket = NoPacket
SPECIFICATION FairSpec
INVARIANTS
  IInv
  StuckOnlyIfIgnored
PROPERTIES
  VerdictSpec
  EveryPacketDecided
CHECK_DEADLOCK FALSE
