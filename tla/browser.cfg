CONSTANTS
  Sid = {s1, s2}
  Link = {l1, l2}
  Msg = {m1, m2}
  Task = {t1, t2, t3}
  Tab = {b1, b2}
  OutboundBase = 2
  Faults = {"replay", "restart"}
  None = None
SPECIFICATION Spec
SYMMETRY Symmetry
INVARIANTS
  TypeOK
  DirectionsSeparate
  OpensInSequence
  StoredKeysMatch
PROPERTIES
  KeysStay
  AnswersOpen
