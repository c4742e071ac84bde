CONSTANTS
  p1 = p1
  p2 = p2
  x = x
  y = y
  a = a
  b = b
  c = c
  Procs = {p1, p2}
  Filtered = {p2}
  Pinned = {p1}
  Paths = {y}
  Foreign = {y}
  Ids = {a, b}
  BaseName <- MCBase
  Docs = {d1, d2}
  DirDocs = {d2}
  Inos = {n1, n2}
  Vers = {v1, v2, v3, v4}
  MaxOps = 2
  MaxCrashes = 1
  None = None
SPECIFICATION FairSpec
PROPERTIES OperationsEnd LeftoversReclaimed Refines
CHECK_DEADLOCK FALSE
