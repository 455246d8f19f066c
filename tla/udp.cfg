CONSTANTS
  Clients = {a, b}
  Server = Server
  MaxDatagrams = 3
  MaxConns = 2
SPECIFICATION FairSpec
INVARIANTS
  IInv
  OneReader
PROPERTIES
  SessionSpec
  AcceptsAgain
  ListenerEnds
CHECK_DEADLOCK FALSE
