CONSTANTS
  Server = {p1}
  Socket = {w1, w2}
  Call = {c1}
  Live = {k1}
  Sid = {s1}
  Faults = {}
  None = None
SPECIFICATION Spec
CHECK_DEADLOCK FALSE
INVARIANT
  RegisteredReachable
