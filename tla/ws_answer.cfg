CONSTANTS
  Packets = {p1, p2}
  Injected = {}
  Default = "drop"
  NoPacket = NoPacket
SPECIFICATION Spec
PROPERTY AnswerInTimeCounts
CHECK_DEADLOCK FALSE
