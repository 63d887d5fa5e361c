CONSTANTS
  Sid = {s1, s2}
  Link = {l1, l2}
  Msg = {m1, m2}
  Task = {t1, t2}
  Tab = {b1}
  OutboundBase = 3
  Faults = {}
  None = None
SPECIFICATION Spec
CHECK_DEADLOCK FALSE
INVARIANT
  CountsFromOne
