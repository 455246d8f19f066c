CONSTANTS
  c1 = c1
  ws = ws
  http = http
  Conns = {c1, c2}
  Requests = {ws, http}
  Watchers = {w1}
  NoConn = NoConn
  NoRequest = NoRequest
  Wishes <- MCWishes
SPECIFICATION FairSpec
INVARIANTS
  IInv
  AllReached
  NothingAfterClose
PROPERTIES
  BothFeeds
  RequestsEnd
CHECK_DEADLOCK FALSE
