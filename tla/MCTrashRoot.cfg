CONSTANTS
  p1 = p1
  p2 = p2
  x = x
  y = y
  a = a
  b = b
  c = c
  Procs = {p1, p2}
  Filtered = {p2}
  Pinned = {}
  Paths = {x, y}
  Foreign = {y}
  Ids = {a, b}
  BaseName <- MCBase
  Docs = {d1, d2, d3}
  DirDocs = {}
  Inos = {n1, n2, n3}
  Vers = {v1, v2, v3, v4, v5, v6}
  MaxOps = 3
  MaxCrashes = 1
  None = None
SPECIFICATION Spec
SYMMETRY Symm
INVARIANTS TypeOK NoDocumentLost LiveStageKept DataHasSidecar
PROPERTIES RestoreDeliversListed
CHECK_DEADLOCK FALSE
