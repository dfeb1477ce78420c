SPECIFICATION Spec
CONSTANTS
  c1 = c1
  c2 = c2
  c3 = c3
  c4 = c4
  r1 = r1
  s1 = s1
  s2 = s2
  k1 = k1
  k2 = k2
  m1 = m1
  m2 = m2
  Conns = {c1, c2}
  RunIDs = {r1}
  StreamIDs = {s1, s2}
  KnownIDs = {k1, k2}
  Muxes = {m1, m2}
  RunOf <- OneRun
  StreamOf <- OwnStreams
  None = None
SYMMETRY Symmetry
INVARIANTS RegistryInv BoundToOneCell
PROPERTIES ShutdownMissesNothing NoCrossClose LeaseSpec
CHECK_DEADLOCK FALSE
