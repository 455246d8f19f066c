CONSTANTS
  Subs = {c1, c2}
  Scripts = {}
  Senders = {s1}
  Closers = {}
SPECIFICATION Spec
INVARIANT PrunerRemovesAnything
CHECK_DEADLOCK FALSE
