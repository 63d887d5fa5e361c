CONSTANTS
  Sid = {s1}
  Link = {l1}
  Msg = {m1, m2, m3}
  Task = {t1, t2, t3, t4}
  OutboundBase = 3
  Faults = {}
  None = None
SPECIFICATION FairSpec
CHECK_DEADLOCK FALSE
PROPERTY
  PostedLineArrives
