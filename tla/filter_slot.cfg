CONSTANTS
  Filters = {f1, f2}
  Senders = {s1, s2, s3}
  Injected = {s3}
  Nil = Nil
SPECIFICATION Spec
INVARIANTS
  IInv
  OrphansAreSent
  FreedByNextPacket
  AcceptedStays
  CrashOnlyAfterDeath
CHECK_DEADLOCK FALSE
