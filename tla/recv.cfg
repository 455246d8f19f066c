CONSTANTS
  Subs = {c1, c2}
  Scripts = {c2}
  Senders = {s1, s2}
  Closers = {k1}
SPECIFICATION FairSpec
INVARIANTS
  IInv
  LiveStaysSubscribed
  CrashCauses
PROPERTIES
  ClosedNotChosen
  FeedSpec
  PublishEnds
  DeadChannelPruned
CHECK_DEADLOCK FALSE
