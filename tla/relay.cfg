CONSTANTS
  Server = {p1, p2}
  Socket = {w1, w2, w3}
  Call = {c1, c2}
  Live = {k1}
  Sid = {s1}
  Faults = {"restart"}
  None = None
SPECIFICATION Spec
SYMMETRY Symmetry
INVARIANTS
  TypeOK
  HomesSeparate
  TableMatchesCalls
PROPERTY
  GetsOwnAnswer
