CONSTANTS
  Sid = {s1}
  Link = {l1}
  Msg = {m1, m2}
  Task = {t1, t2}
  Tab = {b1, b2}
  OutboundBase = 2
  Faults = {}
  None = None
SPECIFICATION Spec
CHECK_DEADLOCK FALSE
INVARIANT
  NonceNeverReused
