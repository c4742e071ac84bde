CONSTANTS
  Procs = {p1, p2}
  Docs = {d1, d2, z}
  Archives = {z}
  Inos = {n1, n2, n3, n4}
  Vers = {v1, v2, v3, v4}
  MaxOps = 2
  MaxCrashes = 1
  None = None
SPECIFICATION Spec
SYMMETRY Symm
INVARIANTS PackedIsMarked RestoresPlain LatestKept
CHECK_DEADLOCK FALSE
