CONSTANTS
  p = p
  q = q
  p1 = p1
  p2 = p2
  p3 = p3
  q1 = q1
  None = None
  Paths = {p, q}
  Versions = {p1, p2, p3, q1}
  PathOf <- PathOfVersion
  SizeOf <- SizeOfVersion
  Downloads = {d1, d2, d3}
  MaxActive = 2
SPECIFICATION Spec
CONSTRAINT Explored
SYMMETRY Symmetry
INVARIANTS
  SidecarTruthful
  CompleteIsWhole
PROPERTIES
  PartialsAreSettled
\* Each attempt runs once; after the last one nothing needs to happen.
CHECK_DEADLOCK FALSE
