CONSTANTS
  Sid = {s1, s2}
  Link = {l1, l2}
  Msg = {m1, m2, m3}
  Task = {t1, t2, t3, t4}
  OutboundBase = 3
  Faults = {"replay", "restart"}
  None = None
SPECIFICATION Spec
SYMMETRY Symmetry
CHECK_DEADLOCK FALSE
INVARIANTS
  TypeOK
  NonceNeverReused
  KeyAgreement
PROPERTY
  DeliversInOrder
