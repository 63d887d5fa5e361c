CONSTANTS
  Server = {p1}
  Socket = {w1}
  Call = {c1}
  Live = {k1}
  Sid = {s1}
  Faults = {}
  None = None
SPECIFICATION Spec
CHECK_DEADLOCK FALSE
PROPERTY
  StreamOutlivesBrowsers
