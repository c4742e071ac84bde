---------------------------- MODULE TrashRootBin ----------------------------
(* The publication protocol of TrashRoot keeps the promise of TrashBin,      *)
(* however its processes interleave, fail and die.                           *)
EXTENDS TrashRoot

\* where a document is: under a user path, in an unpublished copy, in files/
InHome(d) == \E q \in Paths : home[q].doc = d
InStage(d) == \E s \in stages : s.node.doc = d
InBin(d) == \E i \in Ids : files[i].doc = d
at == [d \in Docs |-> (IF InHome(d) THEN {"home"} ELSE {})
                        \cup (IF InStage(d) THEN {"stage"} ELSE {})
                        \cup (IF InBin(d) THEN {"bin"} ELSE {})]

Bin == INSTANCE TrashBin

\* Every step of the root is a step of the promise, or leaves it as it is: a document moves
\* from one place to the next without being nowhere safe, and what is gone stays gone.
Refines == Bin!Spec
=============================================================================
