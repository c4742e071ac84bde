------------------------- MODULE MCEntryCompression -------------------------
EXTENDS EntryCompression, TLC

Symm == Permutations(Procs) \cup Permutations(Inos) \cup Permutations(Docs \ Archives)
=============================================================================
