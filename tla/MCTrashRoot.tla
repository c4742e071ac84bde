---------------------------- MODULE MCTrashRoot ----------------------------
EXTENDS TrashRootBin, TLC

CONSTANTS p1, p2, x, y, a, b, c
MCBase == [q \in Paths |-> a]
Symm == Permutations(Docs) \cup Permutations(Inos)
=============================================================================
