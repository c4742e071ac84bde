--------------------------- MODULE TrashRootProofs ---------------------------
(***************************************************************************)
(* What is proved of TrashRoot for every number of processes, paths, IDs,  *)
(* documents and inode numbers, and with no bound on operations and kills. *)
(***************************************************************************)
EXTENDS TrashRootBin, TLAPS

-----------------------------------------------------------------------------
(* The inductive invariant.                                                *)

\* What each step of an operation has been given by the steps before it.
BoundInv ==
    \A p \in Procs :
        /\ pc[p] \in TrashSteps => target[p] \in Paths /\ snap[p] \in Node
        /\ pc[p] \in (TrashSteps \ {"lock", "claim", "collide"}) \cup ListSteps \cup EntrySteps
               => entry[p] \in Ids
        /\ pc[p] = "publish" => made[p] \in Inos
        /\ pc[p] = "flock" => held[p] \in Inos
        /\ pc[p] \in {"idle"} \cup ListSteps => target[p] = None
        /\ pc[p] \in EntrySteps /\ Restoring(p) => snap[p].ino # None
        /\ pc[p] \in {"rRetire", "rSidecar"} => Restoring(p)

\* Whoever is at a step of the critical section holds the lock, so there is
\* at most one such process.
LockInv == \A p \in Procs : Locked(p) => rootLock = p

\* Only documents that have existed are anywhere.
BornInv ==
    /\ \A q \in Paths : home[q].doc \in born \cup {None}
    /\ \A i \in Ids : files[i].doc \in born \cup {None}
    /\ \A p \in Procs : snap[p].doc \in born \cup {None}

\* Until its data arrives, a claimed ID has none.
ClaimInv ==
    \A p \in Procs :
        pc[p] \in {"write", "move", "copy", "publish"} => files[entry[p]] = Absent

\* A copier works on a foreign path, and what it published is what it copied.
CopyInv ==
    \A p \in Procs :
        /\ Copying(p) => target[p] \in Foreign
        /\ pc[p] \in {"sync", "undo"} =>
               files[entry[p]].doc = snap[p].doc /\ files[entry[p]].ino = made[p]

\* Before its data was looked at, a listed line shows no document.
UnlistedInv ==
    \A p \in Procs :
        pc[p] \in {"idle", "data", "scan", "sidecar", "orphan"} => snap[p].doc = None

\* A line that shows a document was read from a sidecar.
Showing(p) ==
    \/ pc[p] = "data"
    \/ pc[p] \in {"chosen", "open", "flock", "elock", "commit"} /\ snap[p].doc # None
SeenInv == \A p \in Procs : pc[p] = "chosen" \/ Showing(p) => seen[p] \in Vers

\* A sidecar still being claimed is not readable.
ProbeInv == \A p \in Procs : pc[p] = "probe" => ~info[entry[p]].full

\* While the sidecar is the listed one, the data is the listed document or is
\* gone, and nobody is about to put other data there.
ListInv ==
    \A p \in Procs :
        Showing(p) /\ info[entry[p]].ver = seen[p] =>
            /\ \A q \in Procs : pc[q] = "probe" => entry[q] # entry[p]
            /\ pc[p] # "data" =>
                   /\ files[entry[p]].doc \in {snap[p].doc, None}
                   /\ \A q \in Procs :
                          pc[q] \in {"write", "move", "copy", "publish"} => entry[q] # entry[p]

\* A line that came without its document was overtaken, and stays so.
StaleInv ==
    \A p \in Procs :
        /\ \/ pc[p] = "chosen"
           \/ pc[p] \in {"open", "flock", "elock", "commit"} /\ Restoring(p)
        /\ snap[p].doc = None /\ snap[p].ino # None
        => seen[p] \in Vers /\ info[entry[p]].ver # seen[p]

\* The sidecar is complete before the data arrives, and goes after the data.
SidecarInv ==
    /\ \A p \in Procs :
           /\ pc[p] \in {"move", "copy", "publish"} => info[entry[p]].full
           /\ pc[p] = "pSidecar" => files[entry[p]] = Absent
           /\ pc[p] = "rSidecar" => files[entry[p]].doc \in DirDocs \cup {None}
    /\ DataHasSidecar

\* Where a restored copy was published there is that copy, until somebody
\* races the retirement of the original.
PublishedInv ==
    \A p \in Procs : pc[p] = "rRetire" =>
        /\ made[p] # None
        /\ home[target[p]].ino = made[p]
               => home[target[p]].doc \in {files[entry[p]].doc} \cup raced

\* A path whose present occupant some process has decided to unlink.
Doomed(path) ==
    \E p \in Procs :
        /\ target[p] = path
        /\ pc[p] = "unlink" \/ (pc[p] = "retire" /\ home[path] = snap[p])

\* Every document still wanted is somewhere nobody is about to remove it from.
Kept(d) ==
    \/ \E i \in Ids : files[i].doc = d /\ ~Provisional(i)
    \/ \E q \in Paths : home[q].doc = d /\ ~Doomed(q)
SafeInv == \A d \in born \ (gone \cup raced) : Kept(d)

IInv ==
    /\ TypeOK /\ BoundInv /\ LockInv /\ BornInv /\ ClaimInv /\ CopyInv
    /\ UnlistedInv /\ SeenInv /\ ProbeInv /\ ListInv /\ StaleInv
    /\ SidecarInv /\ LiveStageKept /\ PublishedInv /\ SafeInv

-----------------------------------------------------------------------------
(* Types.                                                                  *)

\* What the records on disk and in the listings are made of.
LEMMA Shapes ==
    /\ \A n \in Inos, d \in Docs : [ino |-> n, doc |-> d] \in Node
    /\ \A v \in Vers : [ver |-> v, full |-> TRUE] \in Sidecar
    /\ \A v \in Vers : [ver |-> v, full |-> FALSE] \in Sidecar
    /\ Node \cup {Absent} \subseteq Listed
    /\ \A n \in Inos \cup {None}, d \in Docs \cup {None} : [ino |-> n, doc |-> d] \in Listed
    /\ \A m \in Listed : m.ino \in Inos \cup {None} /\ m.doc \in Docs \cup {None}
    /\ \A m \in Node : m.ino \in Inos /\ m.doc \in Docs
    /\ Absent.ino = None /\ Absent.doc = None
    /\ \A s \in Sidecar : s.ver \in Vers
    /\ NoSidecar.ver = None /\ NoSidecar.full = FALSE
    /\ \A m \in Node \cup {Absent} : m.ino # None \/ m.doc # None => m \in Node
    /\ \A m \in Listed, n \in Inos \cup {None} :
           [m EXCEPT !.ino = n] \in Listed /\ [m EXCEPT !.ino = n].doc = m.doc
<1>1. /\ \A n \in Inos, d \in Docs : [ino |-> n, doc |-> d] \in Node
      /\ \A m \in Node : m.ino \in Inos /\ m.doc \in Docs
  BY DEF Node
<1>2. /\ \A v \in Vers, b \in BOOLEAN : [ver |-> v, full |-> b] \in Sidecar
      /\ \A s \in Sidecar : s.ver \in Vers
    /\ NoSidecar.ver = None /\ NoSidecar.full = FALSE
  BY DEF Sidecar, NoSidecar
<1>3. Absent.ino = None /\ Absent.doc = None
  BY DEF Absent
<1>4. Node \cup {Absent} \subseteq Listed
  BY DEF Node, Absent, Listed
<1>5. /\ \A n \in Inos \cup {None}, d \in Docs \cup {None} :
           [ino |-> n, doc |-> d] \in Listed
      /\ \A m \in Listed : m.ino \in Inos \cup {None} /\ m.doc \in Docs \cup {None}
      /\ \A m \in Listed, n \in Inos \cup {None} :
           [m EXCEPT !.ino = n] \in Listed /\ [m EXCEPT !.ino = n].doc = m.doc
  BY DEF Listed
<1>6. \A m \in Node \cup {Absent} : m.ino # None \/ m.doc # None => m \in Node
  BY <1>3
<1>7. QED
  BY <1>1, <1>2, <1>3, <1>4, <1>5, <1>6

\* A sidecar written with a fresh version is one.
LEMMA SidecarType ==
    ASSUME DiskOK, NEW i, NEW v \in FreshVers
    PROVE  /\ [info EXCEPT ![i] = [ver |-> v, full |-> TRUE]] \in [Ids -> Sidecar \cup {NoSidecar}]
           /\ [info EXCEPT ![i] = [ver |-> v, full |-> FALSE]] \in [Ids -> Sidecar \cup {NoSidecar}]
<1>1. v \in Vers
  BY DEF FreshVers
<1> QED
  BY <1>1, Shapes DEF DiskOK

\* What is chosen as fresh is of the right type.
LEMMA FreshType == FreshVers \subseteq Vers /\ FreeInos \subseteq Inos
  BY DEF FreshVers, FreeInos

\* ... and neither on disk nor remembered.
LEMMA Fresh ==
    /\ \A v \in FreshVers, p \in Procs : seen[p] # v
    /\ \A n \in FreeInos, p \in Procs : Copying(p) => snap[p].ino # n
  BY DEF FreshVers, FreeInos, UsedInos

\* The types hold at the start.
LEMMA TypeInit == Init => TypeOK
<1> SUFFICES ASSUME Init PROVE TypeOK
  OBVIOUS
<1> USE Shapes, Constants DEF Init
<1>1. PICK v \in [Ids -> Vers] :
        info = [i \in Ids |-> IF files[i] = Absent THEN NoSidecar
                              ELSE [ver |-> v[i], full |-> TRUE]]
  OBVIOUS
<1>2. DiskOK
  BY <1>1 DEF DiskOK
<1>3. LocksOK /\ LocalOK
  BY DEF LocksOK, LocalOK
<1>4. HistoryOK
  <2>1. \A q \in Paths : home[q] # Absent => home[q].doc \in Docs
    OBVIOUS
  <2>2. \A i \in Ids : files[i] # Absent => files[i].doc \in Docs
    OBVIOUS
  <2>3. born \subseteq Docs
    BY <2>1, <2>2
  <2> QED
    BY <2>3 DEF HistoryOK
<1> QED
  BY <1>2, <1>3, <1>4 DEF TypeOK, Steps

\* Returning to the caller leaves every local variable of its type.
LEMMA ReturnType ==
    ASSUME TypeOK, NEW p \in Procs, Return(p)
    PROVE  LocksOK' /\ LocalOK' /\ pc' \in [Procs -> Steps]
  BY Shapes, Constants DEF TypeOK, LocksOK, LocalOK, Return, Goto, Forget, ReleaseRoot,
       ReleaseEntry, Steps

\* A process that is done forgets what it had.
LEMMA ForgetType ==
    ASSUME TypeOK, NEW p \in Procs, Forget(p)
    PROVE  LocalOK'
  BY Shapes, Constants DEF TypeOK, LocalOK, Forget

\* The step of a process is a step.
LEMMA GotoType ==
    ASSUME TypeOK, NEW p \in Procs, NEW step \in Steps, Goto(p, step)
    PROVE  pc' \in [Procs -> Steps]
  BY DEF TypeOK, Goto

\* Every step keeps the types.
LEMMA TypeNext == TypeOK /\ BoundInv /\ [Next]_vars => TypeOK'
<1> SUFFICES ASSUME TypeOK, BoundInv, [Next]_vars PROVE TypeOK'
  OBVIOUS
<1> USE Shapes, FreshType, Constants DEF TypeOK, BoundInv, Steps,
        TrashSteps, ListSteps, EntrySteps, disk, locks, local, budget, history
<1>1. ASSUME NEW p \in Procs, NEW path \in Paths, PrepareSource(p, path) PROVE TypeOK'
  BY <1>1 DEF PrepareSource, DiskOK, LocksOK, LocalOK, HistoryOK, Goto, ReleaseRoot, TakeRoot, StartOperation
<1>2. ASSUME NEW p \in Procs, LockForTrash(p) PROVE TypeOK'
  BY <1>2 DEF LockForTrash, DiskOK, LocksOK, LocalOK, HistoryOK, Goto, ReleaseRoot, TakeRoot, StartOperation
<1>3. ASSUME NEW p \in Procs, ClaimFails(p) PROVE TypeOK'
  BY <1>3, ReturnType, ForgetType DEF ClaimFails, DiskOK, LocksOK, LocalOK, HistoryOK, Goto, ReleaseRoot, TakeRoot, StartOperation
<1>4. ASSUME NEW p \in Procs, ClaimBaseName(p) PROVE TypeOK'
  <2>1. DiskOK'
    <3>1. info' \in [Ids -> Sidecar \cup {NoSidecar}]
      <4>1. \/ info' = info
            \/ \E i \in Ids, v \in FreshVers :
                   info' = [info EXCEPT ![i] = [ver |-> v, full |-> FALSE]]
        BY <1>4 DEF ClaimBaseName
      <4> QED
        BY <4>1, SidecarType DEF DiskOK
    <3> QED
      BY <1>4, <3>1 DEF ClaimBaseName, DiskOK
  <2>2. LocksOK' /\ LocalOK'
    BY <1>4 DEF ClaimBaseName, LocksOK, LocalOK, DiskOK, Goto, ReleaseRoot, Shown
  <2>3. pc' \in [Procs -> Steps]
    BY <1>4 DEF ClaimBaseName, Goto
  <2>4. HistoryOK'
    BY <1>4 DEF ClaimBaseName, HistoryOK, StartOperation, Race, DiskOK, LocalOK, Current
  <2> QED
    BY <2>1, <2>2, <2>3, <2>4
<1>5. ASSUME NEW p \in Procs, ProbeClaim(p) PROVE TypeOK'
  <2>1. DiskOK'
    BY <1>5 DEF ProbeClaim, DiskOK
  <2>2. pc' \in [Procs -> Steps]
    BY <1>5 DEF ProbeClaim, Goto
  <2> QED
    BY <1>5, <2>1, <2>2 DEF ProbeClaim, LocksOK, LocalOK, HistoryOK
<1>6. ASSUME NEW p \in Procs, ClaimCollisionName(p) PROVE TypeOK'
  <2>1. DiskOK'
    <3>1. info' \in [Ids -> Sidecar \cup {NoSidecar}]
      <4>1. \/ info' = info
            \/ \E i \in Ids, v \in FreshVers :
                   info' = [info EXCEPT ![i] = [ver |-> v, full |-> FALSE]]
        BY <1>6 DEF ClaimCollisionName
      <4> QED
        BY <4>1, SidecarType DEF DiskOK
    <3> QED
      BY <1>6, <3>1 DEF ClaimCollisionName, DiskOK
  <2>2. LocksOK' /\ LocalOK'
    BY <1>6 DEF ClaimCollisionName, LocksOK, LocalOK, DiskOK, Goto, ReleaseRoot, Shown
  <2>3. pc' \in [Procs -> Steps]
    BY <1>6 DEF ClaimCollisionName, Goto
  <2>4. HistoryOK'
    BY <1>6 DEF ClaimCollisionName, HistoryOK, StartOperation, Race, DiskOK, LocalOK, Current
  <2> QED
    BY <2>1, <2>2, <2>3, <2>4
<1>7. ASSUME NEW p \in Procs, WriteSidecar(p) PROVE TypeOK'
  <2>1. DiskOK'
    <3>1. info' \in [Ids -> Sidecar \cup {NoSidecar}]
      <4>1. \/ info' = info
            \/ \E i \in Ids, v \in FreshVers :
                   info' = [info EXCEPT ![i] = [ver |-> v, full |-> TRUE]]
        BY <1>7 DEF WriteSidecar
      <4> QED
        BY <4>1, SidecarType DEF DiskOK
    <3> QED
      BY <1>7, <3>1 DEF WriteSidecar, DiskOK
  <2>2. LocksOK' /\ LocalOK'
    BY <1>7 DEF WriteSidecar, LocksOK, LocalOK, DiskOK, Goto, ReleaseRoot, Shown
  <2>3. pc' \in [Procs -> Steps]
    BY <1>7 DEF WriteSidecar, Goto
  <2>4. HistoryOK'
    BY <1>7 DEF WriteSidecar, HistoryOK, StartOperation, Race, DiskOK, LocalOK, Current
  <2> QED
    BY <2>1, <2>2, <2>3, <2>4
<1>8. ASSUME NEW p \in Procs, MoveByRename(p) PROVE TypeOK'
  <2>1. DiskOK'
    BY <1>8 DEF MoveByRename, DiskOK, LocalOK, OwnStage
  <2>2. LocksOK' /\ LocalOK'
    BY <1>8 DEF MoveByRename, LocksOK, LocalOK, DiskOK, Goto, ReleaseRoot, Shown
  <2>3. pc' \in [Procs -> Steps]
    BY <1>8 DEF MoveByRename, Goto
  <2>4. HistoryOK'
    BY <1>8 DEF MoveByRename, HistoryOK, StartOperation, Race, DiskOK, LocalOK, Current
  <2> QED
    BY <2>1, <2>2, <2>3, <2>4
<1>9. ASSUME NEW p \in Procs, RefreshSidecar(p) PROVE TypeOK'
  <2>1. DiskOK'
    <3>1. info' \in [Ids -> Sidecar \cup {NoSidecar}]
      <4>1. \/ info' = info
            \/ \E i \in Ids, v \in FreshVers :
                   info' = [info EXCEPT ![i] = [ver |-> v, full |-> TRUE]]
        BY <1>9 DEF RefreshSidecar
      <4> QED
        BY <4>1, SidecarType DEF DiskOK
    <3> QED
      BY <1>9, <3>1 DEF RefreshSidecar, DiskOK
  <2>2. LocksOK' /\ LocalOK'
    BY <1>9 DEF RefreshSidecar, LocksOK, LocalOK, DiskOK, Goto, ReleaseRoot, Shown
  <2>3. pc' \in [Procs -> Steps]
    BY <1>9 DEF RefreshSidecar, Goto
  <2>4. HistoryOK'
    BY <1>9 DEF RefreshSidecar, HistoryOK, StartOperation, Race, DiskOK, LocalOK, Current
  <2> QED
    BY <2>1, <2>2, <2>3, <2>4
<1>10. ASSUME NEW p \in Procs, BeginCopy(p) PROVE TypeOK'
  BY <1>10, SMTT(30) DEF BeginCopy, DiskOK, LocksOK, LocalOK, HistoryOK, Goto, ReleaseRoot, TakeRoot, StartOperation
<1>11. ASSUME NEW p \in Procs, StageCopy(p) PROVE TypeOK'
  <2>1. DiskOK'
    BY <1>11 DEF StageCopy, DiskOK, LocalOK, OwnStage
  <2>2. LocksOK' /\ LocalOK'
    BY <1>11 DEF StageCopy, LocksOK, LocalOK, DiskOK, Goto, ReleaseRoot, Shown
  <2>3. pc' \in [Procs -> Steps]
    BY <1>11 DEF StageCopy, Goto
  <2>4. HistoryOK'
    BY <1>11 DEF StageCopy, HistoryOK, StartOperation, Race, DiskOK, LocalOK, Current
  <2> QED
    BY <2>1, <2>2, <2>3, <2>4
<1>12. ASSUME NEW p \in Procs, PublishCopy(p) PROVE TypeOK'
  BY <1>12 DEF PublishCopy, DiskOK, LocksOK, LocalOK, HistoryOK, Goto, ReleaseRoot, TakeRoot, StartOperation
<1>13. ASSUME NEW p \in Procs, SyncCopy(p) PROVE TypeOK'
  BY <1>13 DEF SyncCopy, DiskOK, LocksOK, LocalOK, HistoryOK, Goto, ReleaseRoot, TakeRoot, StartOperation
<1>14. ASSUME NEW p \in Procs, RetireCheck(p) PROVE TypeOK'
  <2>1. DiskOK'
    BY <1>14 DEF RetireCheck, DiskOK, LocalOK, OwnStage
  <2>2. LocksOK' /\ LocalOK'
    BY <1>14, ReturnType, ForgetType DEF RetireCheck, LocksOK, LocalOK, DiskOK, Goto, ReleaseRoot, Shown
  <2>3. pc' \in [Procs -> Steps]
    BY <1>14, ReturnType, ForgetType DEF RetireCheck, AfterRetirement, RetiresUnlocked, Goto
  <2>4. HistoryOK'
    BY <1>14 DEF RetireCheck, HistoryOK, StartOperation, Race, DiskOK, LocalOK, Current
  <2> QED
    BY <2>1, <2>2, <2>3, <2>4
<1>15. ASSUME NEW p \in Procs, RetireUnlink(p) PROVE TypeOK'
  <2>1. DiskOK'
    BY <1>15 DEF RetireUnlink, DiskOK, LocalOK, OwnStage
  <2>2. LocksOK' /\ LocalOK'
    BY <1>15 DEF RetireUnlink, LocksOK, LocalOK, DiskOK, Goto, ReleaseRoot, Shown
  <2>3. pc' \in [Procs -> Steps]
    BY <1>15 DEF RetireUnlink, AfterRetirement, RetiresUnlocked, Goto
  <2>4. HistoryOK'
    BY <1>15 DEF RetireUnlink, HistoryOK, StartOperation, Race, DiskOK, LocalOK, Current
  <2> QED
    BY <2>1, <2>2, <2>3, <2>4
<1>16. ASSUME NEW p \in Procs, RelockToVerify(p) PROVE TypeOK'
  BY <1>16 DEF RelockToVerify, DiskOK, LocksOK, LocalOK, HistoryOK, Goto, ReleaseRoot, TakeRoot, StartOperation
<1>17. ASSUME NEW p \in Procs, VerifyEntry(p) PROVE TypeOK'
  <2>1. DiskOK'
    BY <1>17 DEF VerifyEntry, DiskOK, LocalOK, OwnStage
  <2>2. LocksOK' /\ LocalOK'
    BY <1>17, ReturnType, ForgetType DEF VerifyEntry, LocksOK, LocalOK, DiskOK, Goto, ReleaseRoot, Shown
  <2>3. pc' \in [Procs -> Steps]
    BY <1>17, ReturnType, ForgetType DEF VerifyEntry, Goto
  <2>4. HistoryOK'
    BY <1>17 DEF VerifyEntry, HistoryOK, StartOperation, Race, DiskOK, LocalOK, Current
  <2> QED
    BY <2>1, <2>2, <2>3, <2>4
<1>18. ASSUME NEW p \in Procs, FinishTrash(p) PROVE TypeOK'
  BY <1>18, ReturnType, ForgetType DEF FinishTrash, DiskOK, LocksOK, LocalOK, HistoryOK, Goto, ReleaseRoot, TakeRoot, StartOperation
<1>19. ASSUME NEW p \in Procs, RollBack(p) PROVE TypeOK'
  <2>1. DiskOK'
    BY <1>19 DEF RollBack, UnlinkSidecar, DiskOK, LocalOK, OwnStage
  <2>2. LocksOK' /\ LocalOK'
    BY <1>19, ReturnType, ForgetType DEF RollBack, UnlinkSidecar, LocksOK, LocalOK, DiskOK, Goto, ReleaseRoot, Shown
  <2>3. pc' \in [Procs -> Steps]
    BY <1>19, ReturnType, ForgetType DEF RollBack, UnlinkSidecar, Goto
  <2>4. HistoryOK'
    BY <1>19 DEF RollBack, UnlinkSidecar, HistoryOK, StartOperation, Race, DiskOK, LocalOK, Current
  <2> QED
    BY <2>1, <2>2, <2>3, <2>4
<1>20. ASSUME NEW p \in Procs, UndoCopy(p) PROVE TypeOK'
  BY <1>20, ReturnType, ForgetType DEF UndoCopy, DiskOK, LocksOK, LocalOK, HistoryOK, Goto, ReleaseRoot, TakeRoot, StartOperation
<1>21. ASSUME NEW p \in Procs, NEW id \in Ids, ListEntry(p, id) PROVE TypeOK'
  <2>1. DiskOK'
    BY <1>21 DEF ListEntry, DiskOK, LocalOK, OwnStage
  <2>2. LocksOK' /\ LocalOK'
    BY <1>21 DEF ListEntry, LocksOK, LocalOK, DiskOK, Goto, ReleaseRoot, Shown
  <2>3. pc' \in [Procs -> Steps]
    BY <1>21 DEF ListEntry, Goto
  <2>4. HistoryOK'
    BY <1>21 DEF ListEntry, HistoryOK, StartOperation, Race, DiskOK, LocalOK, Current
  <2> QED
    BY <2>1, <2>2, <2>3, <2>4
<1>22. ASSUME NEW p \in Procs, StatData(p) PROVE TypeOK'
  <2>1. DiskOK'
    BY <1>22 DEF StatData, DiskOK, LocalOK, OwnStage
  <2>2. LocksOK' /\ LocalOK'
    BY <1>22 DEF StatData, LocksOK, LocalOK, DiskOK, Goto, ReleaseRoot, Shown
  <2>3. pc' \in [Procs -> Steps]
    BY <1>22 DEF StatData, Goto
  <2>4. HistoryOK'
    BY <1>22 DEF StatData, HistoryOK, StartOperation, Race, DiskOK, LocalOK, Current
  <2> QED
    BY <2>1, <2>2, <2>3, <2>4
<1>23. ASSUME NEW p \in Procs, ScanOrphan(p) PROVE TypeOK'
  <2>1. DiskOK'
    BY <1>23 DEF ScanOrphan, DiskOK, LocalOK, OwnStage
  <2>2. LocksOK' /\ LocalOK'
    <3>1. LocksOK'
      BY <1>23 DEF ScanOrphan, LocksOK
    <3>2. LocalOK'
      BY <1>23, ForgetType DEF ScanOrphan, LocalOK, DiskOK
    <3> QED
      BY <3>1, <3>2
  <2>3. pc' \in [Procs -> Steps]
    BY <1>23, ReturnType, ForgetType DEF ScanOrphan, Goto
  <2>4. HistoryOK'
    BY <1>23 DEF ScanOrphan, HistoryOK, StartOperation, Race, DiskOK, LocalOK, Current
  <2> QED
    BY <2>1, <2>2, <2>3, <2>4
<1>24. ASSUME NEW p \in Procs, StatOrphanSidecar(p) PROVE TypeOK'
  <2>1. DiskOK'
    BY <1>24 DEF StatOrphanSidecar, DiskOK, LocalOK, OwnStage
  <2>2. LocksOK' /\ LocalOK'
    BY <1>24 DEF StatOrphanSidecar, LocksOK, LocalOK, DiskOK, Goto, ReleaseRoot, Shown
  <2>3. pc' \in [Procs -> Steps]
    BY <1>24 DEF StatOrphanSidecar, Goto
  <2>4. HistoryOK'
    BY <1>24 DEF StatOrphanSidecar, HistoryOK, StartOperation, Race, DiskOK, LocalOK, Current
  <2> QED
    BY <2>1, <2>2, <2>3, <2>4
<1>25. ASSUME NEW p \in Procs, Abandon(p) PROVE TypeOK'
  BY <1>25, ReturnType, ForgetType DEF Abandon, DiskOK, LocksOK, LocalOK, HistoryOK, Goto, ReleaseRoot, TakeRoot, StartOperation
<1>26. ASSUME NEW p \in Procs, NEW path \in Paths, ChooseRestore(p, path) PROVE TypeOK'
  BY <1>26 DEF ChooseRestore, DiskOK, LocksOK, LocalOK, HistoryOK, Goto, ReleaseRoot, TakeRoot, StartOperation
<1>27. ASSUME NEW p \in Procs, ChoosePurge(p) PROVE TypeOK'
  BY <1>27 DEF ChoosePurge, DiskOK, LocksOK, LocalOK, HistoryOK, Goto, ReleaseRoot, TakeRoot, StartOperation
<1>28. ASSUME NEW p \in Procs, OpenEntry(p) PROVE TypeOK'
  <2>1. DiskOK'
    BY <1>28 DEF OpenEntry, DiskOK, LocalOK, OwnStage
  <2>2. LocksOK' /\ LocalOK'
    <3>1. LocksOK'
      BY <1>28 DEF OpenEntry, LocksOK
    <3>2. LocalOK'
      BY <1>28, ForgetType DEF OpenEntry, LocalOK, DiskOK
    <3> QED
      BY <3>1, <3>2
  <2>3. pc' \in [Procs -> Steps]
    BY <1>28, ReturnType, ForgetType DEF OpenEntry, Goto
  <2>4. HistoryOK'
    BY <1>28 DEF OpenEntry, HistoryOK, StartOperation, Race, DiskOK, LocalOK, Current
  <2> QED
    BY <2>1, <2>2, <2>3, <2>4
<1>29. ASSUME NEW p \in Procs, FlockEntry(p) PROVE TypeOK'
  BY <1>29 DEF FlockEntry, DiskOK, LocksOK, LocalOK, HistoryOK, Goto, ReleaseRoot, TakeRoot, StartOperation
<1>30. ASSUME NEW p \in Procs, LockForEntry(p) PROVE TypeOK'
  BY <1>30 DEF LockForEntry, DiskOK, LocksOK, LocalOK, HistoryOK, Goto, ReleaseRoot, TakeRoot, StartOperation
<1>31. ASSUME NEW p \in Procs, RefuseStale(p) PROVE TypeOK'
  BY <1>31, ReturnType, ForgetType DEF RefuseStale, DiskOK, LocksOK, LocalOK, HistoryOK, Goto, ReleaseRoot, TakeRoot, StartOperation
<1>32. ASSUME NEW p \in Procs, RestoreByRename(p) PROVE TypeOK'
  <2>1. DiskOK'
    BY <1>32 DEF RestoreByRename, DiskOK, LocalOK, OwnStage
  <2>2. LocksOK' /\ LocalOK'
    BY <1>32 DEF RestoreByRename, LocksOK, LocalOK, DiskOK, Goto, ReleaseRoot, Shown
  <2>3. pc' \in [Procs -> Steps]
    BY <1>32 DEF RestoreByRename, Goto
  <2>4. HistoryOK'
    BY <1>32 DEF RestoreByRename, HistoryOK, StartOperation, Race, DiskOK, LocalOK, Current
  <2> QED
    BY <2>1, <2>2, <2>3, <2>4
<1>33. ASSUME NEW p \in Procs, RestoreFails(p) PROVE TypeOK'
  BY <1>33, ReturnType, ForgetType DEF RestoreFails, DiskOK, LocksOK, LocalOK, HistoryOK, Goto, ReleaseRoot, TakeRoot, StartOperation
<1>34. ASSUME NEW p \in Procs, RestoreByCopy(p) PROVE TypeOK'
  <2>1. DiskOK'
    <3>1. files[entry[p]] \in Node
      BY <1>34 DEF RestoreByCopy, Current, DiskOK
    <3>2. PICK n \in FreeInos :
            home' = [home EXCEPT ![target[p]] = [ino |-> n, doc |-> files[entry[p]].doc]]
      BY <1>34 DEF RestoreByCopy
    <3>3. [ino |-> n, doc |-> files[entry[p]].doc] \in Node
      BY <3>1
    <3> QED
      BY <1>34, <3>2, <3>3 DEF RestoreByCopy, DiskOK
  <2>2. LocksOK' /\ LocalOK'
    BY <1>34 DEF RestoreByCopy, LocksOK, LocalOK, DiskOK, Goto, ReleaseRoot, Shown
  <2>3. pc' \in [Procs -> Steps]
    BY <1>34 DEF RestoreByCopy, Goto
  <2>4. HistoryOK'
    BY <1>34 DEF RestoreByCopy, HistoryOK, StartOperation, Race, DiskOK, LocalOK, Current
  <2> QED
    BY <2>1, <2>2, <2>3, <2>4
<1>35. ASSUME NEW p \in Procs, RetireRestored(p) PROVE TypeOK'
  <2>1. DiskOK'
    BY <1>35 DEF RetireRestored, DiskOK, LocalOK, OwnStage
  <2>2. LocksOK' /\ LocalOK'
    BY <1>35, ReturnType, ForgetType DEF RetireRestored, LocksOK, LocalOK, DiskOK, Goto, ReleaseRoot, Shown
  <2>3. pc' \in [Procs -> Steps]
    BY <1>35, ReturnType, ForgetType DEF RetireRestored, Goto
  <2>4. HistoryOK'
    BY <1>35 DEF RetireRestored, HistoryOK, StartOperation, Race, DiskOK, LocalOK, Current
  <2> QED
    BY <2>1, <2>2, <2>3, <2>4
<1>36. ASSUME NEW p \in Procs, RemoveRestoredSidecar(p) PROVE TypeOK'
  BY <1>36, ReturnType, ForgetType, ZenonT(30) DEF RemoveRestoredSidecar, UnlinkSidecar, DiskOK, LocksOK, LocalOK, HistoryOK, Goto, ReleaseRoot, TakeRoot, StartOperation
<1>37. ASSUME NEW p \in Procs, PurgeData(p) PROVE TypeOK'
  <2>1. DiskOK'
    BY <1>37 DEF PurgeData, DiskOK, LocalOK, OwnStage
  <2>2. LocksOK' /\ LocalOK'
    BY <1>37 DEF PurgeData, LocksOK, LocalOK, DiskOK, Goto, ReleaseRoot, Shown
  <2>3. pc' \in [Procs -> Steps]
    BY <1>37 DEF PurgeData, Goto
  <2>4. HistoryOK'
    BY <1>37 DEF PurgeData, HistoryOK, StartOperation, Race, DiskOK, LocalOK, Current
  <2> QED
    BY <2>1, <2>2, <2>3, <2>4
<1>38. ASSUME NEW p \in Procs, PurgeFails(p) PROVE TypeOK'
  BY <1>38, ReturnType, ForgetType DEF PurgeFails, DiskOK, LocksOK, LocalOK, HistoryOK, Goto, ReleaseRoot, TakeRoot, StartOperation
<1>39. ASSUME NEW p \in Procs, PurgeSidecar(p) PROVE TypeOK'
  BY <1>39, ReturnType, ForgetType DEF PurgeSidecar, UnlinkSidecar, DiskOK, LocksOK, LocalOK, HistoryOK, Goto, ReleaseRoot, TakeRoot, StartOperation
<1>40. ASSUME NEW p \in Procs, RemoveDetached(p) PROVE TypeOK'
  BY <1>40 DEF RemoveDetached, DiskOK, LocksOK, LocalOK, HistoryOK, Goto, ReleaseRoot, TakeRoot, StartOperation
<1>41. ASSUME NEW p \in Procs, TrySweepLock(p) PROVE TypeOK'
  BY <1>41 DEF TrySweepLock, DiskOK, LocksOK, LocalOK, HistoryOK, Goto, ReleaseRoot, TakeRoot, StartOperation
<1>42. ASSUME NEW p \in Procs, ClaimAbandonedStage(p) PROVE TypeOK'
  BY <1>42 DEF ClaimAbandonedStage, DiskOK, LocksOK, LocalOK, HistoryOK, Goto, ReleaseRoot, TakeRoot, StartOperation
<1>43. ASSUME NEW p \in Procs, FinishSweep(p) PROVE TypeOK'
  BY <1>43, ReturnType, ForgetType DEF FinishSweep, DiskOK, LocksOK, LocalOK, HistoryOK, Goto, ReleaseRoot, TakeRoot, StartOperation
<1>44. ASSUME NEW p \in Procs, Crash(p) PROVE TypeOK'
  BY <1>44, ReturnType, ForgetType DEF Crash, DiskOK, LocksOK, LocalOK, HistoryOK, Goto, ReleaseRoot, TakeRoot, StartOperation
<1>45. ASSUME NEW path \in Paths, UserWrite(path) PROVE TypeOK'
  <2>1. DiskOK'
    BY <1>45 DEF UserWrite, DiskOK, LocalOK, OwnStage
  <2>2. LocksOK' /\ LocalOK'
    BY <1>45 DEF UserWrite, LocksOK, LocalOK, DiskOK, Goto, ReleaseRoot, Shown
  <2>3. pc' \in [Procs -> Steps]
    BY <1>45 DEF UserWrite, Goto
  <2>4. HistoryOK'
    BY <1>45 DEF UserWrite, HistoryOK, StartOperation, Race, DiskOK, LocalOK, Current
  <2> QED
    BY <2>1, <2>2, <2>3, <2>4
<1>46. CASE UNCHANGED vars
  BY <1>46 DEF vars, DiskOK, LocksOK, LocalOK, HistoryOK
<1>47. QED
  BY <1>1, <1>2, <1>3, <1>4, <1>5, <1>6, <1>7, <1>8, <1>9, <1>10, <1>11, <1>12, <1>13, <1>14, <1>15, <1>16, <1>17, <1>18, <1>19, <1>20, <1>21, <1>22, <1>23, <1>24, <1>25, <1>26, <1>27, <1>28, <1>29, <1>30, <1>31, <1>32, <1>33, <1>34, <1>35, <1>36, <1>37, <1>38, <1>39, <1>40, <1>41, <1>42, <1>43, <1>44, <1>45, <1>46 DEF Next, Step, TrashStep, ListStep, EntryStep, SweepStep

\* What a step needs is there when the step comes.
LEMMA BoundNext == TypeOK /\ BoundInv /\ [Next]_vars => BoundInv'
<1> SUFFICES ASSUME TypeOK, BoundInv, [Next]_vars PROVE BoundInv'
  OBVIOUS
<1> USE Shapes, FreshType, Constants DEF TypeOK, LocalOK, BoundInv, Steps, Restoring,
        TrashSteps, ListSteps, EntrySteps, locks, local, Goto, Return, Forget,
        UnlinkSidecar, AfterRetirement
<1>1. ASSUME NEW p \in Procs, NEW path \in Paths, PrepareSource(p, path) PROVE BoundInv'
  BY <1>1 DEF PrepareSource, DiskOK
<1>2. ASSUME NEW p \in Procs, LockForTrash(p) PROVE BoundInv'
  BY <1>2 DEF LockForTrash
<1>3. ASSUME NEW p \in Procs, ClaimFails(p) PROVE BoundInv'
  BY <1>3 DEF ClaimFails
<1>4. ASSUME NEW p \in Procs, ClaimBaseName(p) PROVE BoundInv'
  BY <1>4 DEF ClaimBaseName
<1>5. ASSUME NEW p \in Procs, ProbeClaim(p) PROVE BoundInv'
  BY <1>5 DEF ProbeClaim
<1>6. ASSUME NEW p \in Procs, ClaimCollisionName(p) PROVE BoundInv'
  BY <1>6 DEF ClaimCollisionName
<1>7. ASSUME NEW p \in Procs, WriteSidecar(p) PROVE BoundInv'
  BY <1>7 DEF WriteSidecar
<1>8. ASSUME NEW p \in Procs, MoveByRename(p) PROVE BoundInv'
  BY <1>8 DEF MoveByRename
<1>9. ASSUME NEW p \in Procs, RefreshSidecar(p) PROVE BoundInv'
  BY <1>9, SMTT(30) DEF RefreshSidecar
<1>10. ASSUME NEW p \in Procs, BeginCopy(p) PROVE BoundInv'
  BY <1>10 DEF BeginCopy, DiskOK
<1>11. ASSUME NEW p \in Procs, StageCopy(p) PROVE BoundInv'
  BY <1>11 DEF StageCopy
<1>12. ASSUME NEW p \in Procs, PublishCopy(p) PROVE BoundInv'
  BY <1>12 DEF PublishCopy
<1>13. ASSUME NEW p \in Procs, SyncCopy(p) PROVE BoundInv'
  BY <1>13 DEF SyncCopy
<1>14. ASSUME NEW p \in Procs, RetireCheck(p) PROVE BoundInv'
  BY <1>14 DEF RetireCheck
<1>15. ASSUME NEW p \in Procs, RetireUnlink(p) PROVE BoundInv'
  BY <1>15 DEF RetireUnlink
<1>16. ASSUME NEW p \in Procs, RelockToVerify(p) PROVE BoundInv'
  BY <1>16 DEF RelockToVerify
<1>17. ASSUME NEW p \in Procs, VerifyEntry(p) PROVE BoundInv'
  BY <1>17 DEF VerifyEntry
<1>18. ASSUME NEW p \in Procs, FinishTrash(p) PROVE BoundInv'
  BY <1>18 DEF FinishTrash
<1>19. ASSUME NEW p \in Procs, RollBack(p) PROVE BoundInv'
  BY <1>19 DEF RollBack
<1>20. ASSUME NEW p \in Procs, UndoCopy(p) PROVE BoundInv'
  BY <1>20 DEF UndoCopy
<1>21. ASSUME NEW p \in Procs, NEW id \in Ids, ListEntry(p, id) PROVE BoundInv'
  BY <1>21 DEF ListEntry
<1>22. ASSUME NEW p \in Procs, StatData(p) PROVE BoundInv'
  BY <1>22 DEF StatData
<1>23. ASSUME NEW p \in Procs, ScanOrphan(p) PROVE BoundInv'
  BY <1>23 DEF ScanOrphan
<1>24. ASSUME NEW p \in Procs, StatOrphanSidecar(p) PROVE BoundInv'
  BY <1>24 DEF StatOrphanSidecar
<1>25. ASSUME NEW p \in Procs, Abandon(p) PROVE BoundInv'
  BY <1>25 DEF Abandon
<1>26. ASSUME NEW p \in Procs, NEW path \in Paths, ChooseRestore(p, path) PROVE BoundInv'
  BY <1>26 DEF ChooseRestore
<1>27. ASSUME NEW p \in Procs, ChoosePurge(p) PROVE BoundInv'
  BY <1>27 DEF ChoosePurge
<1>28. ASSUME NEW p \in Procs, OpenEntry(p) PROVE BoundInv'
  BY <1>28 DEF OpenEntry, DiskOK
<1>29. ASSUME NEW p \in Procs, FlockEntry(p) PROVE BoundInv'
  BY <1>29 DEF FlockEntry
<1>30. ASSUME NEW p \in Procs, LockForEntry(p) PROVE BoundInv'
  BY <1>30 DEF LockForEntry
<1>31. ASSUME NEW p \in Procs, RefuseStale(p) PROVE BoundInv'
  BY <1>31 DEF RefuseStale
<1>32. ASSUME NEW p \in Procs, RestoreByRename(p) PROVE BoundInv'
  BY <1>32 DEF RestoreByRename
<1>33. ASSUME NEW p \in Procs, RestoreFails(p) PROVE BoundInv'
  BY <1>33 DEF RestoreFails
<1>34. ASSUME NEW p \in Procs, RestoreByCopy(p) PROVE BoundInv'
  BY <1>34 DEF RestoreByCopy
<1>35. ASSUME NEW p \in Procs, RetireRestored(p) PROVE BoundInv'
  BY <1>35 DEF RetireRestored
<1>36. ASSUME NEW p \in Procs, RemoveRestoredSidecar(p) PROVE BoundInv'
  BY <1>36 DEF RemoveRestoredSidecar
<1>37. ASSUME NEW p \in Procs, PurgeData(p) PROVE BoundInv'
  BY <1>37 DEF PurgeData
<1>38. ASSUME NEW p \in Procs, PurgeFails(p) PROVE BoundInv'
  BY <1>38 DEF PurgeFails
<1>39. ASSUME NEW p \in Procs, PurgeSidecar(p) PROVE BoundInv'
  BY <1>39 DEF PurgeSidecar
<1>40. ASSUME NEW p \in Procs, RemoveDetached(p) PROVE BoundInv'
  BY <1>40 DEF RemoveDetached
<1>41. ASSUME NEW p \in Procs, TrySweepLock(p) PROVE BoundInv'
  BY <1>41 DEF TrySweepLock
<1>42. ASSUME NEW p \in Procs, ClaimAbandonedStage(p) PROVE BoundInv'
  BY <1>42 DEF ClaimAbandonedStage
<1>43. ASSUME NEW p \in Procs, FinishSweep(p) PROVE BoundInv'
  BY <1>43 DEF FinishSweep
<1>44. ASSUME NEW p \in Procs, Crash(p) PROVE BoundInv'
  BY <1>44 DEF Crash
<1>45. ASSUME NEW path \in Paths, UserWrite(path) PROVE BoundInv'
  BY <1>45 DEF UserWrite
<1>46. CASE UNCHANGED vars
  BY <1>46 DEF vars
<1>47. QED
  BY <1>1, <1>2, <1>3, <1>4, <1>5, <1>6, <1>7, <1>8, <1>9, <1>10, <1>11,
     <1>12, <1>13, <1>14, <1>15, <1>16, <1>17, <1>18, <1>19, <1>20,
     <1>21, <1>22, <1>23, <1>24, <1>25, <1>26, <1>27, <1>28, <1>29,
     <1>30, <1>31, <1>32, <1>33, <1>34, <1>35, <1>36, <1>37, <1>38,
     <1>39, <1>40, <1>41, <1>42, <1>43, <1>44, <1>45, <1>46
     DEF Next, Step, TrashStep, ListStep, EntryStep, SweepStep

\* Only a step that takes the lock enters the critical section.
LEMMA LockNext == TypeOK /\ LockInv /\ [Next]_vars => LockInv'
<1> SUFFICES ASSUME TypeOK, LockInv, [Next]_vars PROVE LockInv'
  OBVIOUS
<1> USE Constants DEF TypeOK, LocksOK, LockInv, Locked, AlwaysLocked, RetiresUnlocked,
        locks, Goto, Return, ReleaseRoot, TakeRoot, AfterRetirement
<1>1. ASSUME NEW p \in Procs, NEW path \in Paths, PrepareSource(p, path) PROVE LockInv'
  BY <1>1 DEF PrepareSource
<1>2. ASSUME NEW p \in Procs, LockForTrash(p) PROVE LockInv'
  BY <1>2 DEF LockForTrash
<1>3. ASSUME NEW p \in Procs, ClaimFails(p) PROVE LockInv'
  BY <1>3 DEF ClaimFails
<1>4. ASSUME NEW p \in Procs, ClaimBaseName(p) PROVE LockInv'
  BY <1>4 DEF ClaimBaseName
<1>5. ASSUME NEW p \in Procs, ProbeClaim(p) PROVE LockInv'
  BY <1>5 DEF ProbeClaim
<1>6. ASSUME NEW p \in Procs, ClaimCollisionName(p) PROVE LockInv'
  BY <1>6 DEF ClaimCollisionName
<1>7. ASSUME NEW p \in Procs, WriteSidecar(p) PROVE LockInv'
  BY <1>7 DEF WriteSidecar
<1>8. ASSUME NEW p \in Procs, MoveByRename(p) PROVE LockInv'
  BY <1>8 DEF MoveByRename
<1>9. ASSUME NEW p \in Procs, RefreshSidecar(p) PROVE LockInv'
  BY <1>9, SMTT(30) DEF RefreshSidecar
<1>10. ASSUME NEW p \in Procs, BeginCopy(p) PROVE LockInv'
  BY <1>10 DEF BeginCopy
<1>11. ASSUME NEW p \in Procs, StageCopy(p) PROVE LockInv'
  BY <1>11 DEF StageCopy
<1>12. ASSUME NEW p \in Procs, PublishCopy(p) PROVE LockInv'
  BY <1>12 DEF PublishCopy
<1>13. ASSUME NEW p \in Procs, SyncCopy(p) PROVE LockInv'
  BY <1>13 DEF SyncCopy
<1>14. ASSUME NEW p \in Procs, RetireCheck(p) PROVE LockInv'
  BY <1>14 DEF RetireCheck
<1>15. ASSUME NEW p \in Procs, RetireUnlink(p) PROVE LockInv'
  BY <1>15 DEF RetireUnlink
<1>16. ASSUME NEW p \in Procs, RelockToVerify(p) PROVE LockInv'
  BY <1>16 DEF RelockToVerify
<1>17. ASSUME NEW p \in Procs, VerifyEntry(p) PROVE LockInv'
  BY <1>17 DEF VerifyEntry
<1>18. ASSUME NEW p \in Procs, FinishTrash(p) PROVE LockInv'
  BY <1>18 DEF FinishTrash
<1>19. ASSUME NEW p \in Procs, RollBack(p) PROVE LockInv'
  BY <1>19 DEF RollBack
<1>20. ASSUME NEW p \in Procs, UndoCopy(p) PROVE LockInv'
  BY <1>20 DEF UndoCopy
<1>21. ASSUME NEW p \in Procs, NEW id \in Ids, ListEntry(p, id) PROVE LockInv'
  BY <1>21 DEF ListEntry
<1>22. ASSUME NEW p \in Procs, StatData(p) PROVE LockInv'
  BY <1>22 DEF StatData
<1>23. ASSUME NEW p \in Procs, ScanOrphan(p) PROVE LockInv'
  BY <1>23 DEF ScanOrphan
<1>24. ASSUME NEW p \in Procs, StatOrphanSidecar(p) PROVE LockInv'
  BY <1>24 DEF StatOrphanSidecar
<1>25. ASSUME NEW p \in Procs, Abandon(p) PROVE LockInv'
  BY <1>25 DEF Abandon
<1>26. ASSUME NEW p \in Procs, NEW path \in Paths, ChooseRestore(p, path) PROVE LockInv'
  BY <1>26 DEF ChooseRestore
<1>27. ASSUME NEW p \in Procs, ChoosePurge(p) PROVE LockInv'
  BY <1>27 DEF ChoosePurge
<1>28. ASSUME NEW p \in Procs, OpenEntry(p) PROVE LockInv'
  BY <1>28 DEF OpenEntry
<1>29. ASSUME NEW p \in Procs, FlockEntry(p) PROVE LockInv'
  BY <1>29 DEF FlockEntry
<1>30. ASSUME NEW p \in Procs, LockForEntry(p) PROVE LockInv'
  BY <1>30 DEF LockForEntry
<1>31. ASSUME NEW p \in Procs, RefuseStale(p) PROVE LockInv'
  BY <1>31 DEF RefuseStale
<1>32. ASSUME NEW p \in Procs, RestoreByRename(p) PROVE LockInv'
  BY <1>32 DEF RestoreByRename
<1>33. ASSUME NEW p \in Procs, RestoreFails(p) PROVE LockInv'
  BY <1>33 DEF RestoreFails
<1>34. ASSUME NEW p \in Procs, RestoreByCopy(p) PROVE LockInv'
  BY <1>34 DEF RestoreByCopy
<1>35. ASSUME NEW p \in Procs, RetireRestored(p) PROVE LockInv'
  BY <1>35 DEF RetireRestored
<1>36. ASSUME NEW p \in Procs, RemoveRestoredSidecar(p) PROVE LockInv'
  BY <1>36 DEF RemoveRestoredSidecar
<1>37. ASSUME NEW p \in Procs, PurgeData(p) PROVE LockInv'
  BY <1>37 DEF PurgeData
<1>38. ASSUME NEW p \in Procs, PurgeFails(p) PROVE LockInv'
  BY <1>38 DEF PurgeFails
<1>39. ASSUME NEW p \in Procs, PurgeSidecar(p) PROVE LockInv'
  BY <1>39 DEF PurgeSidecar
<1>40. ASSUME NEW p \in Procs, RemoveDetached(p) PROVE LockInv'
  BY <1>40 DEF RemoveDetached
<1>41. ASSUME NEW p \in Procs, TrySweepLock(p) PROVE LockInv'
  BY <1>41 DEF TrySweepLock
<1>42. ASSUME NEW p \in Procs, ClaimAbandonedStage(p) PROVE LockInv'
  BY <1>42 DEF ClaimAbandonedStage
<1>43. ASSUME NEW p \in Procs, FinishSweep(p) PROVE LockInv'
  BY <1>43 DEF FinishSweep
<1>44. ASSUME NEW p \in Procs, Crash(p) PROVE LockInv'
  BY <1>44 DEF Crash
<1>45. ASSUME NEW path \in Paths, UserWrite(path) PROVE LockInv'
  BY <1>45 DEF UserWrite
<1>46. CASE UNCHANGED vars
  BY <1>46 DEF vars
<1>47. QED
  BY <1>1, <1>2, <1>3, <1>4, <1>5, <1>6, <1>7, <1>8, <1>9, <1>10, <1>11,
     <1>12, <1>13, <1>14, <1>15, <1>16, <1>17, <1>18, <1>19, <1>20,
     <1>21, <1>22, <1>23, <1>24, <1>25, <1>26, <1>27, <1>28, <1>29,
     <1>30, <1>31, <1>32, <1>33, <1>34, <1>35, <1>36, <1>37, <1>38,
     <1>39, <1>40, <1>41, <1>42, <1>43, <1>44, <1>45, <1>46
     DEF Next, Step, TrashStep, ListStep, EntryStep, SweepStep

\* With the lock held by one process, no other has a provisional copy.
LEMMA Alone ==
    ASSUME LockInv, NEW p \in Procs, Locked(p)
    PROVE  \A r \in Procs : r # p => pc[r] \notin AlwaysLocked
  BY DEF LockInv, Locked

\* No document comes from nowhere.
LEMMA BornNext == TypeOK /\ BoundInv /\ BornInv /\ [Next]_vars => BornInv'
<1> SUFFICES ASSUME TypeOK, BoundInv, BornInv, [Next]_vars PROVE BornInv'
  OBVIOUS
<1> USE Shapes, Constants DEF TypeOK, DiskOK, LocalOK, BornInv, BoundInv, TrashSteps, ListSteps,
        EntrySteps, disk, local, history, Return, Forget, UnlinkSidecar
<1>1. ASSUME NEW p \in Procs, NEW path \in Paths, PrepareSource(p, path) PROVE BornInv'
  BY <1>1 DEF PrepareSource
<1>2. ASSUME NEW p \in Procs, LockForTrash(p) PROVE BornInv'
  BY <1>2 DEF LockForTrash
<1>3. ASSUME NEW p \in Procs, ClaimFails(p) PROVE BornInv'
  BY <1>3 DEF ClaimFails
<1>4. ASSUME NEW p \in Procs, ClaimBaseName(p) PROVE BornInv'
  BY <1>4 DEF ClaimBaseName
<1>5. ASSUME NEW p \in Procs, ProbeClaim(p) PROVE BornInv'
  BY <1>5 DEF ProbeClaim
<1>6. ASSUME NEW p \in Procs, ClaimCollisionName(p) PROVE BornInv'
  BY <1>6 DEF ClaimCollisionName
<1>7. ASSUME NEW p \in Procs, WriteSidecar(p) PROVE BornInv'
  BY <1>7 DEF WriteSidecar
<1>8. ASSUME NEW p \in Procs, MoveByRename(p) PROVE BornInv'
  BY <1>8 DEF MoveByRename
<1>9. ASSUME NEW p \in Procs, RefreshSidecar(p) PROVE BornInv'
  BY <1>9, SMTT(30) DEF RefreshSidecar
<1>10. ASSUME NEW p \in Procs, BeginCopy(p) PROVE BornInv'
  <2>1. CASE p \in Pinned
    BY <1>10, <2>1 DEF BeginCopy
  <2>2. CASE p \notin Pinned
    BY <1>10, <2>2 DEF BeginCopy
  <2> QED
    BY <2>1, <2>2
<1>11. ASSUME NEW p \in Procs, StageCopy(p) PROVE BornInv'
  BY <1>11 DEF StageCopy
<1>12. ASSUME NEW p \in Procs, PublishCopy(p) PROVE BornInv'
  BY <1>12 DEF PublishCopy, OwnStage
<1>13. ASSUME NEW p \in Procs, SyncCopy(p) PROVE BornInv'
  BY <1>13 DEF SyncCopy
<1>14. ASSUME NEW p \in Procs, RetireCheck(p) PROVE BornInv'
  BY <1>14, SMTT(30) DEF RetireCheck
<1>15. ASSUME NEW p \in Procs, RetireUnlink(p) PROVE BornInv'
  BY <1>15 DEF RetireUnlink
<1>16. ASSUME NEW p \in Procs, RelockToVerify(p) PROVE BornInv'
  BY <1>16 DEF RelockToVerify
<1>17. ASSUME NEW p \in Procs, VerifyEntry(p) PROVE BornInv'
  BY <1>17, SMTT(30) DEF VerifyEntry
<1>18. ASSUME NEW p \in Procs, FinishTrash(p) PROVE BornInv'
  BY <1>18 DEF FinishTrash
<1>19. ASSUME NEW p \in Procs, RollBack(p) PROVE BornInv'
  <2>1. UNCHANGED <<home, files, born>>
    BY <1>19 DEF RollBack
  <2>2. \A r \in Procs : snap'[r] = snap[r] \/ snap'[r] = Absent
    BY <1>19 DEF RollBack
  <2> QED
    BY <2>1, <2>2
<1>20. ASSUME NEW p \in Procs, UndoCopy(p) PROVE BornInv'
  BY <1>20 DEF UndoCopy
<1>21. ASSUME NEW p \in Procs, NEW id \in Ids, ListEntry(p, id) PROVE BornInv'
  BY <1>21 DEF ListEntry
<1>22. ASSUME NEW p \in Procs, StatData(p) PROVE BornInv'
  BY <1>22 DEF StatData, Shown
<1>23. ASSUME NEW p \in Procs, ScanOrphan(p) PROVE BornInv'
  <2>1. CASE files[entry[p]] = Absent
    BY <1>23, <2>1 DEF ScanOrphan
  <2>2. CASE files[entry[p]] # Absent
    <3>1. snap' = [snap EXCEPT ![p] = [snap[p] EXCEPT !.ino = files[entry[p]].ino]]
      BY <1>23, <2>2 DEF ScanOrphan
    <3>2. entry[p] \in Ids /\ snap[p] \in Listed
      BY <1>23 DEF ScanOrphan
    <3>3. snap'[p].doc = snap[p].doc
      BY <3>1, <3>2, Shapes
    <3> QED
      BY <1>23, <2>2, <3>1, <3>3 DEF ScanOrphan
  <2> QED
    BY <2>1, <2>2
<1>24. ASSUME NEW p \in Procs, StatOrphanSidecar(p) PROVE BornInv'
  BY <1>24 DEF StatOrphanSidecar
<1>25. ASSUME NEW p \in Procs, Abandon(p) PROVE BornInv'
  BY <1>25 DEF Abandon
<1>26. ASSUME NEW p \in Procs, NEW path \in Paths, ChooseRestore(p, path) PROVE BornInv'
  BY <1>26 DEF ChooseRestore
<1>27. ASSUME NEW p \in Procs, ChoosePurge(p) PROVE BornInv'
  BY <1>27 DEF ChoosePurge
<1>28. ASSUME NEW p \in Procs, OpenEntry(p) PROVE BornInv'
  BY <1>28 DEF OpenEntry
<1>29. ASSUME NEW p \in Procs, FlockEntry(p) PROVE BornInv'
  BY <1>29 DEF FlockEntry
<1>30. ASSUME NEW p \in Procs, LockForEntry(p) PROVE BornInv'
  BY <1>30 DEF LockForEntry
<1>31. ASSUME NEW p \in Procs, RefuseStale(p) PROVE BornInv'
  BY <1>31 DEF RefuseStale
<1>32. ASSUME NEW p \in Procs, RestoreByRename(p) PROVE BornInv'
  BY <1>32 DEF RestoreByRename
<1>33. ASSUME NEW p \in Procs, RestoreFails(p) PROVE BornInv'
  BY <1>33 DEF RestoreFails
<1>34. ASSUME NEW p \in Procs, RestoreByCopy(p) PROVE BornInv'
  BY <1>34 DEF RestoreByCopy
<1>35. ASSUME NEW p \in Procs, RetireRestored(p) PROVE BornInv'
  <2>1. \A q \in Paths : home'[q] \in {home[q], Absent}
    BY <1>35 DEF RetireRestored
  <2>2. \A i \in Ids : files'[i] \in {files[i], Absent}
    BY <1>35 DEF RetireRestored
  <2>3. \A r \in Procs : snap'[r] \in {snap[r], Absent}
    BY <1>35 DEF RetireRestored
  <2> QED
    BY <1>35, <2>1, <2>2, <2>3 DEF RetireRestored
<1>36. ASSUME NEW p \in Procs, RemoveRestoredSidecar(p) PROVE BornInv'
  BY <1>36 DEF RemoveRestoredSidecar
<1>37. ASSUME NEW p \in Procs, PurgeData(p) PROVE BornInv'
  BY <1>37 DEF PurgeData
<1>38. ASSUME NEW p \in Procs, PurgeFails(p) PROVE BornInv'
  BY <1>38 DEF PurgeFails
<1>39. ASSUME NEW p \in Procs, PurgeSidecar(p) PROVE BornInv'
  BY <1>39 DEF PurgeSidecar
<1>40. ASSUME NEW p \in Procs, RemoveDetached(p) PROVE BornInv'
  BY <1>40 DEF RemoveDetached
<1>41. ASSUME NEW p \in Procs, TrySweepLock(p) PROVE BornInv'
  BY <1>41 DEF TrySweepLock
<1>42. ASSUME NEW p \in Procs, ClaimAbandonedStage(p) PROVE BornInv'
  BY <1>42 DEF ClaimAbandonedStage
<1>43. ASSUME NEW p \in Procs, FinishSweep(p) PROVE BornInv'
  BY <1>43 DEF FinishSweep
<1>44. ASSUME NEW p \in Procs, Crash(p) PROVE BornInv'
  BY <1>44 DEF Crash
<1>45. ASSUME NEW path \in Paths, UserWrite(path) PROVE BornInv'
  BY <1>45 DEF UserWrite
<1>46. CASE UNCHANGED vars
  BY <1>46 DEF vars
<1>47. QED
  BY <1>1, <1>2, <1>3, <1>4, <1>5, <1>6, <1>7, <1>8, <1>9, <1>10, <1>11,
     <1>12, <1>13, <1>14, <1>15, <1>16, <1>17, <1>18, <1>19, <1>20,
     <1>21, <1>22, <1>23, <1>24, <1>25, <1>26, <1>27, <1>28, <1>29,
     <1>30, <1>31, <1>32, <1>33, <1>34, <1>35, <1>36, <1>37, <1>38,
     <1>39, <1>40, <1>41, <1>42, <1>43, <1>44, <1>45, <1>46
     DEF Next, Step, TrashStep, ListStep, EntryStep, SweepStep

\* A claimed ID stays without data until its claimer moves it there.
LEMMA ClaimNext == TypeOK /\ BoundInv /\ LockInv /\ ClaimInv /\ [Next]_vars => ClaimInv'
<1> SUFFICES ASSUME TypeOK, BoundInv, LockInv, ClaimInv, [Next]_vars PROVE ClaimInv'
  OBVIOUS
<1> USE Shapes, Constants DEF TypeOK, DiskOK, LocalOK, ClaimInv, BoundInv, LockInv, Locked,
        AlwaysLocked, RetiresUnlocked, TrashSteps, ListSteps, EntrySteps, disk, locks, local, Goto,
        Return, Forget, UnlinkSidecar,
        AfterRetirement
<1>1. ASSUME NEW p \in Procs, NEW path \in Paths, PrepareSource(p, path) PROVE ClaimInv'
  BY <1>1 DEF PrepareSource
<1>2. ASSUME NEW p \in Procs, LockForTrash(p) PROVE ClaimInv'
  BY <1>2 DEF LockForTrash
<1>3. ASSUME NEW p \in Procs, ClaimFails(p) PROVE ClaimInv'
  BY <1>3 DEF ClaimFails
<1>4. ASSUME NEW p \in Procs, ClaimBaseName(p) PROVE ClaimInv'
  BY <1>4 DEF ClaimBaseName
<1>5. ASSUME NEW p \in Procs, ProbeClaim(p) PROVE ClaimInv'
  BY <1>5 DEF ProbeClaim
<1>6. ASSUME NEW p \in Procs, ClaimCollisionName(p) PROVE ClaimInv'
  BY <1>6 DEF ClaimCollisionName
<1>7. ASSUME NEW p \in Procs, WriteSidecar(p) PROVE ClaimInv'
  BY <1>7 DEF WriteSidecar
<1>8. ASSUME NEW p \in Procs, MoveByRename(p) PROVE ClaimInv'
  BY <1>8 DEF MoveByRename
<1>9. ASSUME NEW p \in Procs, RefreshSidecar(p) PROVE ClaimInv'
  BY <1>9, SMTT(30) DEF RefreshSidecar
<1>10. ASSUME NEW p \in Procs, BeginCopy(p) PROVE ClaimInv'
  BY <1>10 DEF BeginCopy
<1>11. ASSUME NEW p \in Procs, StageCopy(p) PROVE ClaimInv'
  BY <1>11 DEF StageCopy
<1>12. ASSUME NEW p \in Procs, PublishCopy(p) PROVE ClaimInv'
  BY <1>12 DEF PublishCopy
<1>13. ASSUME NEW p \in Procs, SyncCopy(p) PROVE ClaimInv'
  BY <1>13 DEF SyncCopy
<1>14. ASSUME NEW p \in Procs, RetireCheck(p) PROVE ClaimInv'
  BY <1>14 DEF RetireCheck
<1>15. ASSUME NEW p \in Procs, RetireUnlink(p) PROVE ClaimInv'
  BY <1>15 DEF RetireUnlink
<1>16. ASSUME NEW p \in Procs, RelockToVerify(p) PROVE ClaimInv'
  BY <1>16 DEF RelockToVerify
<1>17. ASSUME NEW p \in Procs, VerifyEntry(p) PROVE ClaimInv'
  BY <1>17 DEF VerifyEntry
<1>18. ASSUME NEW p \in Procs, FinishTrash(p) PROVE ClaimInv'
  BY <1>18 DEF FinishTrash
<1>19. ASSUME NEW p \in Procs, RollBack(p) PROVE ClaimInv'
  BY <1>19 DEF RollBack
<1>20. ASSUME NEW p \in Procs, UndoCopy(p) PROVE ClaimInv'
  BY <1>20 DEF UndoCopy
<1>21. ASSUME NEW p \in Procs, NEW id \in Ids, ListEntry(p, id) PROVE ClaimInv'
  BY <1>21 DEF ListEntry
<1>22. ASSUME NEW p \in Procs, StatData(p) PROVE ClaimInv'
  BY <1>22 DEF StatData
<1>23. ASSUME NEW p \in Procs, ScanOrphan(p) PROVE ClaimInv'
  BY <1>23 DEF ScanOrphan
<1>24. ASSUME NEW p \in Procs, StatOrphanSidecar(p) PROVE ClaimInv'
  BY <1>24 DEF StatOrphanSidecar
<1>25. ASSUME NEW p \in Procs, Abandon(p) PROVE ClaimInv'
  BY <1>25 DEF Abandon
<1>26. ASSUME NEW p \in Procs, NEW path \in Paths, ChooseRestore(p, path) PROVE ClaimInv'
  BY <1>26 DEF ChooseRestore
<1>27. ASSUME NEW p \in Procs, ChoosePurge(p) PROVE ClaimInv'
  BY <1>27 DEF ChoosePurge
<1>28. ASSUME NEW p \in Procs, OpenEntry(p) PROVE ClaimInv'
  BY <1>28 DEF OpenEntry
<1>29. ASSUME NEW p \in Procs, FlockEntry(p) PROVE ClaimInv'
  BY <1>29 DEF FlockEntry
<1>30. ASSUME NEW p \in Procs, LockForEntry(p) PROVE ClaimInv'
  BY <1>30 DEF LockForEntry
<1>31. ASSUME NEW p \in Procs, RefuseStale(p) PROVE ClaimInv'
  BY <1>31 DEF RefuseStale
<1>32. ASSUME NEW p \in Procs, RestoreByRename(p) PROVE ClaimInv'
  BY <1>32 DEF RestoreByRename
<1>33. ASSUME NEW p \in Procs, RestoreFails(p) PROVE ClaimInv'
  BY <1>33 DEF RestoreFails
<1>34. ASSUME NEW p \in Procs, RestoreByCopy(p) PROVE ClaimInv'
  BY <1>34 DEF RestoreByCopy
<1>35. ASSUME NEW p \in Procs, RetireRestored(p) PROVE ClaimInv'
  BY <1>35 DEF RetireRestored
<1>36. ASSUME NEW p \in Procs, RemoveRestoredSidecar(p) PROVE ClaimInv'
  BY <1>36 DEF RemoveRestoredSidecar
<1>37. ASSUME NEW p \in Procs, PurgeData(p) PROVE ClaimInv'
  BY <1>37 DEF PurgeData
<1>38. ASSUME NEW p \in Procs, PurgeFails(p) PROVE ClaimInv'
  BY <1>38 DEF PurgeFails
<1>39. ASSUME NEW p \in Procs, PurgeSidecar(p) PROVE ClaimInv'
  BY <1>39 DEF PurgeSidecar
<1>40. ASSUME NEW p \in Procs, RemoveDetached(p) PROVE ClaimInv'
  BY <1>40 DEF RemoveDetached
<1>41. ASSUME NEW p \in Procs, TrySweepLock(p) PROVE ClaimInv'
  BY <1>41 DEF TrySweepLock
<1>42. ASSUME NEW p \in Procs, ClaimAbandonedStage(p) PROVE ClaimInv'
  BY <1>42 DEF ClaimAbandonedStage
<1>43. ASSUME NEW p \in Procs, FinishSweep(p) PROVE ClaimInv'
  BY <1>43 DEF FinishSweep
<1>44. ASSUME NEW p \in Procs, Crash(p) PROVE ClaimInv'
  BY <1>44 DEF Crash
<1>45. ASSUME NEW path \in Paths, UserWrite(path) PROVE ClaimInv'
  BY <1>45 DEF UserWrite
<1>46. CASE UNCHANGED vars
  BY <1>46 DEF vars
<1>47. QED
  BY <1>1, <1>2, <1>3, <1>4, <1>5, <1>6, <1>7, <1>8, <1>9, <1>10, <1>11,
     <1>12, <1>13, <1>14, <1>15, <1>16, <1>17, <1>18, <1>19, <1>20,
     <1>21, <1>22, <1>23, <1>24, <1>25, <1>26, <1>27, <1>28, <1>29,
     <1>30, <1>31, <1>32, <1>33, <1>34, <1>35, <1>36, <1>37, <1>38,
     <1>39, <1>40, <1>41, <1>42, <1>43, <1>44, <1>45, <1>46
     DEF Next, Step, TrashStep, ListStep, EntryStep, SweepStep

\* A copy stays what was copied, as long as its maker holds the lock.
LEMMA CopyNext == TypeOK /\ BoundInv /\ LockInv /\ CopyInv /\ [Next]_vars => CopyInv'
<1> SUFFICES ASSUME TypeOK, BoundInv, LockInv, CopyInv, [Next]_vars PROVE CopyInv'
  OBVIOUS
<1> USE Shapes, Constants DEF TypeOK, DiskOK, LocalOK, CopyInv, Copying, BoundInv, LockInv, Locked,
        AlwaysLocked, RetiresUnlocked, TrashSteps, ListSteps, EntrySteps, disk, locks, local, Goto,
        Return, Forget, UnlinkSidecar,
        AfterRetirement
<1>1. ASSUME NEW p \in Procs, NEW path \in Paths, PrepareSource(p, path) PROVE CopyInv'
  BY <1>1 DEF PrepareSource
<1>2. ASSUME NEW p \in Procs, LockForTrash(p) PROVE CopyInv'
  BY <1>2 DEF LockForTrash
<1>3. ASSUME NEW p \in Procs, ClaimFails(p) PROVE CopyInv'
  BY <1>3 DEF ClaimFails
<1>4. ASSUME NEW p \in Procs, ClaimBaseName(p) PROVE CopyInv'
  BY <1>4 DEF ClaimBaseName
<1>5. ASSUME NEW p \in Procs, ProbeClaim(p) PROVE CopyInv'
  BY <1>5 DEF ProbeClaim
<1>6. ASSUME NEW p \in Procs, ClaimCollisionName(p) PROVE CopyInv'
  BY <1>6 DEF ClaimCollisionName
<1>7. ASSUME NEW p \in Procs, WriteSidecar(p) PROVE CopyInv'
  BY <1>7 DEF WriteSidecar
<1>8. ASSUME NEW p \in Procs, MoveByRename(p) PROVE CopyInv'
  BY <1>8 DEF MoveByRename
<1>9. ASSUME NEW p \in Procs, RefreshSidecar(p) PROVE CopyInv'
  BY <1>9, SMTT(30) DEF RefreshSidecar
<1>10. ASSUME NEW p \in Procs, BeginCopy(p) PROVE CopyInv'
  BY <1>10 DEF BeginCopy
<1>11. ASSUME NEW p \in Procs, StageCopy(p) PROVE CopyInv'
  BY <1>11 DEF StageCopy
<1>12. ASSUME NEW p \in Procs, PublishCopy(p) PROVE CopyInv'
  BY <1>12 DEF PublishCopy, OwnStage
<1>13. ASSUME NEW p \in Procs, SyncCopy(p) PROVE CopyInv'
  BY <1>13 DEF SyncCopy
<1>14. ASSUME NEW p \in Procs, RetireCheck(p) PROVE CopyInv'
  BY <1>14 DEF RetireCheck
<1>15. ASSUME NEW p \in Procs, RetireUnlink(p) PROVE CopyInv'
  BY <1>15 DEF RetireUnlink
<1>16. ASSUME NEW p \in Procs, RelockToVerify(p) PROVE CopyInv'
  BY <1>16 DEF RelockToVerify
<1>17. ASSUME NEW p \in Procs, VerifyEntry(p) PROVE CopyInv'
  BY <1>17 DEF VerifyEntry
<1>18. ASSUME NEW p \in Procs, FinishTrash(p) PROVE CopyInv'
  BY <1>18 DEF FinishTrash
<1>19. ASSUME NEW p \in Procs, RollBack(p) PROVE CopyInv'
  BY <1>19 DEF RollBack
<1>20. ASSUME NEW p \in Procs, UndoCopy(p) PROVE CopyInv'
  BY <1>20 DEF UndoCopy
<1>21. ASSUME NEW p \in Procs, NEW id \in Ids, ListEntry(p, id) PROVE CopyInv'
  BY <1>21 DEF ListEntry
<1>22. ASSUME NEW p \in Procs, StatData(p) PROVE CopyInv'
  BY <1>22 DEF StatData
<1>23. ASSUME NEW p \in Procs, ScanOrphan(p) PROVE CopyInv'
  BY <1>23 DEF ScanOrphan
<1>24. ASSUME NEW p \in Procs, StatOrphanSidecar(p) PROVE CopyInv'
  BY <1>24 DEF StatOrphanSidecar
<1>25. ASSUME NEW p \in Procs, Abandon(p) PROVE CopyInv'
  BY <1>25 DEF Abandon
<1>26. ASSUME NEW p \in Procs, NEW path \in Paths, ChooseRestore(p, path) PROVE CopyInv'
  BY <1>26 DEF ChooseRestore
<1>27. ASSUME NEW p \in Procs, ChoosePurge(p) PROVE CopyInv'
  BY <1>27 DEF ChoosePurge
<1>28. ASSUME NEW p \in Procs, OpenEntry(p) PROVE CopyInv'
  BY <1>28 DEF OpenEntry
<1>29. ASSUME NEW p \in Procs, FlockEntry(p) PROVE CopyInv'
  BY <1>29 DEF FlockEntry
<1>30. ASSUME NEW p \in Procs, LockForEntry(p) PROVE CopyInv'
  BY <1>30 DEF LockForEntry
<1>31. ASSUME NEW p \in Procs, RefuseStale(p) PROVE CopyInv'
  BY <1>31 DEF RefuseStale
<1>32. ASSUME NEW p \in Procs, RestoreByRename(p) PROVE CopyInv'
  BY <1>32 DEF RestoreByRename
<1>33. ASSUME NEW p \in Procs, RestoreFails(p) PROVE CopyInv'
  BY <1>33 DEF RestoreFails
<1>34. ASSUME NEW p \in Procs, RestoreByCopy(p) PROVE CopyInv'
  BY <1>34 DEF RestoreByCopy
<1>35. ASSUME NEW p \in Procs, RetireRestored(p) PROVE CopyInv'
  BY <1>35 DEF RetireRestored
<1>36. ASSUME NEW p \in Procs, RemoveRestoredSidecar(p) PROVE CopyInv'
  BY <1>36 DEF RemoveRestoredSidecar
<1>37. ASSUME NEW p \in Procs, PurgeData(p) PROVE CopyInv'
  BY <1>37 DEF PurgeData
<1>38. ASSUME NEW p \in Procs, PurgeFails(p) PROVE CopyInv'
  BY <1>38 DEF PurgeFails
<1>39. ASSUME NEW p \in Procs, PurgeSidecar(p) PROVE CopyInv'
  BY <1>39 DEF PurgeSidecar
<1>40. ASSUME NEW p \in Procs, RemoveDetached(p) PROVE CopyInv'
  BY <1>40 DEF RemoveDetached
<1>41. ASSUME NEW p \in Procs, TrySweepLock(p) PROVE CopyInv'
  BY <1>41 DEF TrySweepLock
<1>42. ASSUME NEW p \in Procs, ClaimAbandonedStage(p) PROVE CopyInv'
  BY <1>42 DEF ClaimAbandonedStage
<1>43. ASSUME NEW p \in Procs, FinishSweep(p) PROVE CopyInv'
  BY <1>43 DEF FinishSweep
<1>44. ASSUME NEW p \in Procs, Crash(p) PROVE CopyInv'
  BY <1>44 DEF Crash
<1>45. ASSUME NEW path \in Paths, UserWrite(path) PROVE CopyInv'
  BY <1>45 DEF UserWrite
<1>46. CASE UNCHANGED vars
  BY <1>46 DEF vars
<1>47. QED
  BY <1>1, <1>2, <1>3, <1>4, <1>5, <1>6, <1>7, <1>8, <1>9, <1>10, <1>11,
     <1>12, <1>13, <1>14, <1>15, <1>16, <1>17, <1>18, <1>19, <1>20,
     <1>21, <1>22, <1>23, <1>24, <1>25, <1>26, <1>27, <1>28, <1>29,
     <1>30, <1>31, <1>32, <1>33, <1>34, <1>35, <1>36, <1>37, <1>38,
     <1>39, <1>40, <1>41, <1>42, <1>43, <1>44, <1>45, <1>46
     DEF Next, Step, TrashStep, ListStep, EntryStep, SweepStep

\* A line shows no document before its data is read.
LEMMA UnlistedNext == TypeOK /\ BoundInv /\ UnlistedInv /\ [Next]_vars => UnlistedInv'
<1> SUFFICES ASSUME TypeOK, BoundInv, UnlistedInv, [Next]_vars PROVE UnlistedInv'
  OBVIOUS
<1> USE Shapes, Constants DEF TypeOK, DiskOK, LocalOK, BoundInv, ListSteps, UnlistedInv, disk, locks, local, Goto, Return,
        Forget, UnlinkSidecar, AfterRetirement
<1>1. ASSUME NEW p \in Procs, NEW path \in Paths, PrepareSource(p, path) PROVE UnlistedInv'
  BY <1>1 DEF PrepareSource
<1>2. ASSUME NEW p \in Procs, LockForTrash(p) PROVE UnlistedInv'
  BY <1>2 DEF LockForTrash
<1>3. ASSUME NEW p \in Procs, ClaimFails(p) PROVE UnlistedInv'
  BY <1>3 DEF ClaimFails
<1>4. ASSUME NEW p \in Procs, ClaimBaseName(p) PROVE UnlistedInv'
  BY <1>4 DEF ClaimBaseName
<1>5. ASSUME NEW p \in Procs, ProbeClaim(p) PROVE UnlistedInv'
  BY <1>5 DEF ProbeClaim
<1>6. ASSUME NEW p \in Procs, ClaimCollisionName(p) PROVE UnlistedInv'
  BY <1>6 DEF ClaimCollisionName
<1>7. ASSUME NEW p \in Procs, WriteSidecar(p) PROVE UnlistedInv'
  BY <1>7 DEF WriteSidecar
<1>8. ASSUME NEW p \in Procs, MoveByRename(p) PROVE UnlistedInv'
  BY <1>8 DEF MoveByRename
<1>9. ASSUME NEW p \in Procs, RefreshSidecar(p) PROVE UnlistedInv'
  BY <1>9, SMTT(30) DEF RefreshSidecar
<1>10. ASSUME NEW p \in Procs, BeginCopy(p) PROVE UnlistedInv'
  BY <1>10 DEF BeginCopy
<1>11. ASSUME NEW p \in Procs, StageCopy(p) PROVE UnlistedInv'
  BY <1>11 DEF StageCopy
<1>12. ASSUME NEW p \in Procs, PublishCopy(p) PROVE UnlistedInv'
  BY <1>12 DEF PublishCopy
<1>13. ASSUME NEW p \in Procs, SyncCopy(p) PROVE UnlistedInv'
  BY <1>13 DEF SyncCopy
<1>14. ASSUME NEW p \in Procs, RetireCheck(p) PROVE UnlistedInv'
  BY <1>14 DEF RetireCheck
<1>15. ASSUME NEW p \in Procs, RetireUnlink(p) PROVE UnlistedInv'
  BY <1>15 DEF RetireUnlink
<1>16. ASSUME NEW p \in Procs, RelockToVerify(p) PROVE UnlistedInv'
  BY <1>16 DEF RelockToVerify
<1>17. ASSUME NEW p \in Procs, VerifyEntry(p) PROVE UnlistedInv'
  BY <1>17 DEF VerifyEntry
<1>18. ASSUME NEW p \in Procs, FinishTrash(p) PROVE UnlistedInv'
  BY <1>18 DEF FinishTrash
<1>19. ASSUME NEW p \in Procs, RollBack(p) PROVE UnlistedInv'
  BY <1>19 DEF RollBack
<1>20. ASSUME NEW p \in Procs, UndoCopy(p) PROVE UnlistedInv'
  BY <1>20 DEF UndoCopy
<1>21. ASSUME NEW p \in Procs, NEW id \in Ids, ListEntry(p, id) PROVE UnlistedInv'
  BY <1>21 DEF ListEntry
<1>22. ASSUME NEW p \in Procs, StatData(p) PROVE UnlistedInv'
  BY <1>22 DEF StatData
<1>23. ASSUME NEW p \in Procs, ScanOrphan(p) PROVE UnlistedInv'
  <2>1. CASE files[entry[p]] = Absent
    BY <1>23, <2>1 DEF ScanOrphan
  <2>2. CASE files[entry[p]] # Absent
    <3>1. snap' = [snap EXCEPT ![p] = [snap[p] EXCEPT !.ino = files[entry[p]].ino]]
      BY <1>23, <2>2 DEF ScanOrphan
    <3>2. entry[p] \in Ids /\ snap[p] \in Listed
      BY <1>23 DEF ScanOrphan
    <3>3. snap'[p].doc = snap[p].doc
      BY <3>1, <3>2, Shapes
    <3> QED
      BY <1>23, <2>2, <3>1, <3>3 DEF ScanOrphan
  <2> QED
    BY <2>1, <2>2
<1>24. ASSUME NEW p \in Procs, StatOrphanSidecar(p) PROVE UnlistedInv'
  BY <1>24 DEF StatOrphanSidecar
<1>25. ASSUME NEW p \in Procs, Abandon(p) PROVE UnlistedInv'
  BY <1>25 DEF Abandon
<1>26. ASSUME NEW p \in Procs, NEW path \in Paths, ChooseRestore(p, path) PROVE UnlistedInv'
  BY <1>26 DEF ChooseRestore
<1>27. ASSUME NEW p \in Procs, ChoosePurge(p) PROVE UnlistedInv'
  BY <1>27 DEF ChoosePurge
<1>28. ASSUME NEW p \in Procs, OpenEntry(p) PROVE UnlistedInv'
  BY <1>28 DEF OpenEntry
<1>29. ASSUME NEW p \in Procs, FlockEntry(p) PROVE UnlistedInv'
  BY <1>29 DEF FlockEntry
<1>30. ASSUME NEW p \in Procs, LockForEntry(p) PROVE UnlistedInv'
  BY <1>30 DEF LockForEntry
<1>31. ASSUME NEW p \in Procs, RefuseStale(p) PROVE UnlistedInv'
  BY <1>31 DEF RefuseStale
<1>32. ASSUME NEW p \in Procs, RestoreByRename(p) PROVE UnlistedInv'
  BY <1>32 DEF RestoreByRename
<1>33. ASSUME NEW p \in Procs, RestoreFails(p) PROVE UnlistedInv'
  BY <1>33 DEF RestoreFails
<1>34. ASSUME NEW p \in Procs, RestoreByCopy(p) PROVE UnlistedInv'
  BY <1>34 DEF RestoreByCopy
<1>35. ASSUME NEW p \in Procs, RetireRestored(p) PROVE UnlistedInv'
  BY <1>35 DEF RetireRestored
<1>36. ASSUME NEW p \in Procs, RemoveRestoredSidecar(p) PROVE UnlistedInv'
  BY <1>36 DEF RemoveRestoredSidecar
<1>37. ASSUME NEW p \in Procs, PurgeData(p) PROVE UnlistedInv'
  BY <1>37 DEF PurgeData
<1>38. ASSUME NEW p \in Procs, PurgeFails(p) PROVE UnlistedInv'
  BY <1>38 DEF PurgeFails
<1>39. ASSUME NEW p \in Procs, PurgeSidecar(p) PROVE UnlistedInv'
  BY <1>39 DEF PurgeSidecar
<1>40. ASSUME NEW p \in Procs, RemoveDetached(p) PROVE UnlistedInv'
  BY <1>40 DEF RemoveDetached
<1>41. ASSUME NEW p \in Procs, TrySweepLock(p) PROVE UnlistedInv'
  BY <1>41 DEF TrySweepLock
<1>42. ASSUME NEW p \in Procs, ClaimAbandonedStage(p) PROVE UnlistedInv'
  BY <1>42 DEF ClaimAbandonedStage
<1>43. ASSUME NEW p \in Procs, FinishSweep(p) PROVE UnlistedInv'
  BY <1>43 DEF FinishSweep
<1>44. ASSUME NEW p \in Procs, Crash(p) PROVE UnlistedInv'
  BY <1>44 DEF Crash
<1>45. ASSUME NEW path \in Paths, UserWrite(path) PROVE UnlistedInv'
  BY <1>45 DEF UserWrite
<1>46. CASE UNCHANGED vars
  BY <1>46 DEF vars
<1>47. QED
  BY <1>1, <1>2, <1>3, <1>4, <1>5, <1>6, <1>7, <1>8, <1>9, <1>10, <1>11,
     <1>12, <1>13, <1>14, <1>15, <1>16, <1>17, <1>18, <1>19, <1>20,
     <1>21, <1>22, <1>23, <1>24, <1>25, <1>26, <1>27, <1>28, <1>29,
     <1>30, <1>31, <1>32, <1>33, <1>34, <1>35, <1>36, <1>37, <1>38,
     <1>39, <1>40, <1>41, <1>42, <1>43, <1>44, <1>45, <1>46
     DEF Next, Step, TrashStep, ListStep, EntryStep, SweepStep

\* A line with a document remembers a version.
LEMMA SeenNext == TypeOK /\ UnlistedInv /\ SeenInv /\ [Next]_vars => SeenInv'
<1> SUFFICES ASSUME TypeOK, UnlistedInv, SeenInv, [Next]_vars PROVE SeenInv'
  OBVIOUS
<1> USE Shapes, Constants DEF TypeOK, DiskOK, LocalOK, UnlistedInv, SeenInv, Showing, disk, locks,
        local, Goto, Return, Forget, UnlinkSidecar, AfterRetirement
<1>1. ASSUME NEW p \in Procs, NEW path \in Paths, PrepareSource(p, path) PROVE SeenInv'
  BY <1>1 DEF PrepareSource
<1>2. ASSUME NEW p \in Procs, LockForTrash(p) PROVE SeenInv'
  BY <1>2 DEF LockForTrash
<1>3. ASSUME NEW p \in Procs, ClaimFails(p) PROVE SeenInv'
  BY <1>3 DEF ClaimFails
<1>4. ASSUME NEW p \in Procs, ClaimBaseName(p) PROVE SeenInv'
  BY <1>4 DEF ClaimBaseName
<1>5. ASSUME NEW p \in Procs, ProbeClaim(p) PROVE SeenInv'
  BY <1>5 DEF ProbeClaim
<1>6. ASSUME NEW p \in Procs, ClaimCollisionName(p) PROVE SeenInv'
  BY <1>6 DEF ClaimCollisionName
<1>7. ASSUME NEW p \in Procs, WriteSidecar(p) PROVE SeenInv'
  BY <1>7 DEF WriteSidecar
<1>8. ASSUME NEW p \in Procs, MoveByRename(p) PROVE SeenInv'
  BY <1>8 DEF MoveByRename
<1>9. ASSUME NEW p \in Procs, RefreshSidecar(p) PROVE SeenInv'
  BY <1>9, SMTT(30) DEF RefreshSidecar
<1>10. ASSUME NEW p \in Procs, BeginCopy(p) PROVE SeenInv'
  BY <1>10 DEF BeginCopy
<1>11. ASSUME NEW p \in Procs, StageCopy(p) PROVE SeenInv'
  BY <1>11 DEF StageCopy
<1>12. ASSUME NEW p \in Procs, PublishCopy(p) PROVE SeenInv'
  BY <1>12 DEF PublishCopy
<1>13. ASSUME NEW p \in Procs, SyncCopy(p) PROVE SeenInv'
  BY <1>13 DEF SyncCopy
<1>14. ASSUME NEW p \in Procs, RetireCheck(p) PROVE SeenInv'
  BY <1>14 DEF RetireCheck
<1>15. ASSUME NEW p \in Procs, RetireUnlink(p) PROVE SeenInv'
  BY <1>15 DEF RetireUnlink
<1>16. ASSUME NEW p \in Procs, RelockToVerify(p) PROVE SeenInv'
  BY <1>16 DEF RelockToVerify
<1>17. ASSUME NEW p \in Procs, VerifyEntry(p) PROVE SeenInv'
  BY <1>17 DEF VerifyEntry
<1>18. ASSUME NEW p \in Procs, FinishTrash(p) PROVE SeenInv'
  BY <1>18 DEF FinishTrash
<1>19. ASSUME NEW p \in Procs, RollBack(p) PROVE SeenInv'
  BY <1>19 DEF RollBack
<1>20. ASSUME NEW p \in Procs, UndoCopy(p) PROVE SeenInv'
  BY <1>20 DEF UndoCopy
<1>21. ASSUME NEW p \in Procs, NEW id \in Ids, ListEntry(p, id) PROVE SeenInv'
  BY <1>21 DEF ListEntry
<1>22. ASSUME NEW p \in Procs, StatData(p) PROVE SeenInv'
  BY <1>22 DEF StatData
<1>23. ASSUME NEW p \in Procs, ScanOrphan(p) PROVE SeenInv'
  BY <1>23 DEF ScanOrphan
<1>24. ASSUME NEW p \in Procs, StatOrphanSidecar(p) PROVE SeenInv'
  BY <1>24 DEF StatOrphanSidecar
<1>25. ASSUME NEW p \in Procs, Abandon(p) PROVE SeenInv'
  BY <1>25 DEF Abandon
<1>26. ASSUME NEW p \in Procs, NEW path \in Paths, ChooseRestore(p, path) PROVE SeenInv'
  BY <1>26 DEF ChooseRestore
<1>27. ASSUME NEW p \in Procs, ChoosePurge(p) PROVE SeenInv'
  BY <1>27 DEF ChoosePurge
<1>28. ASSUME NEW p \in Procs, OpenEntry(p) PROVE SeenInv'
  BY <1>28, SMTT(30) DEF OpenEntry
<1>29. ASSUME NEW p \in Procs, FlockEntry(p) PROVE SeenInv'
  BY <1>29 DEF FlockEntry
<1>30. ASSUME NEW p \in Procs, LockForEntry(p) PROVE SeenInv'
  BY <1>30 DEF LockForEntry
<1>31. ASSUME NEW p \in Procs, RefuseStale(p) PROVE SeenInv'
  BY <1>31 DEF RefuseStale
<1>32. ASSUME NEW p \in Procs, RestoreByRename(p) PROVE SeenInv'
  BY <1>32 DEF RestoreByRename
<1>33. ASSUME NEW p \in Procs, RestoreFails(p) PROVE SeenInv'
  BY <1>33 DEF RestoreFails
<1>34. ASSUME NEW p \in Procs, RestoreByCopy(p) PROVE SeenInv'
  BY <1>34 DEF RestoreByCopy
<1>35. ASSUME NEW p \in Procs, RetireRestored(p) PROVE SeenInv'
  BY <1>35 DEF RetireRestored
<1>36. ASSUME NEW p \in Procs, RemoveRestoredSidecar(p) PROVE SeenInv'
  BY <1>36 DEF RemoveRestoredSidecar
<1>37. ASSUME NEW p \in Procs, PurgeData(p) PROVE SeenInv'
  BY <1>37 DEF PurgeData
<1>38. ASSUME NEW p \in Procs, PurgeFails(p) PROVE SeenInv'
  BY <1>38 DEF PurgeFails
<1>39. ASSUME NEW p \in Procs, PurgeSidecar(p) PROVE SeenInv'
  BY <1>39 DEF PurgeSidecar
<1>40. ASSUME NEW p \in Procs, RemoveDetached(p) PROVE SeenInv'
  BY <1>40 DEF RemoveDetached
<1>41. ASSUME NEW p \in Procs, TrySweepLock(p) PROVE SeenInv'
  BY <1>41 DEF TrySweepLock
<1>42. ASSUME NEW p \in Procs, ClaimAbandonedStage(p) PROVE SeenInv'
  BY <1>42 DEF ClaimAbandonedStage
<1>43. ASSUME NEW p \in Procs, FinishSweep(p) PROVE SeenInv'
  BY <1>43 DEF FinishSweep
<1>44. ASSUME NEW p \in Procs, Crash(p) PROVE SeenInv'
  BY <1>44 DEF Crash
<1>45. ASSUME NEW path \in Paths, UserWrite(path) PROVE SeenInv'
  BY <1>45 DEF UserWrite
<1>46. CASE UNCHANGED vars
  BY <1>46 DEF vars
<1>47. QED
  BY <1>1, <1>2, <1>3, <1>4, <1>5, <1>6, <1>7, <1>8, <1>9, <1>10, <1>11,
     <1>12, <1>13, <1>14, <1>15, <1>16, <1>17, <1>18, <1>19, <1>20,
     <1>21, <1>22, <1>23, <1>24, <1>25, <1>26, <1>27, <1>28, <1>29,
     <1>30, <1>31, <1>32, <1>33, <1>34, <1>35, <1>36, <1>37, <1>38,
     <1>39, <1>40, <1>41, <1>42, <1>43, <1>44, <1>45, <1>46
     DEF Next, Step, TrashStep, ListStep, EntryStep, SweepStep

\* A claimed sidecar stays empty until it is written.
LEMMA ProbeNext ==
    TypeOK /\ BoundInv /\ LockInv /\ ProbeInv /\ [Next]_vars => ProbeInv'
<1> SUFFICES ASSUME TypeOK, BoundInv, LockInv, ProbeInv, [Next]_vars PROVE ProbeInv'
  OBVIOUS
<1> USE Shapes, Constants DEF TypeOK, DiskOK, LocalOK, BoundInv, LockInv, ProbeInv, Locked, AlwaysLocked, RetiresUnlocked,
        TrashSteps, ListSteps, EntrySteps, disk, locks, local, Goto, Return, Forget,
        UnlinkSidecar, AfterRetirement
<1>1. ASSUME NEW p \in Procs, NEW path \in Paths, PrepareSource(p, path) PROVE ProbeInv'
  BY <1>1 DEF PrepareSource
<1>2. ASSUME NEW p \in Procs, LockForTrash(p) PROVE ProbeInv'
  BY <1>2 DEF LockForTrash
<1>3. ASSUME NEW p \in Procs, ClaimFails(p) PROVE ProbeInv'
  BY <1>3 DEF ClaimFails
<1>4. ASSUME NEW p \in Procs, ClaimBaseName(p) PROVE ProbeInv'
  <2> SUFFICES ASSUME NEW q \in Procs, pc'[q] = "probe"
               PROVE  ~info'[entry'[q]].full
    OBVIOUS
  <2>1. q = p
    BY <1>4 DEF ClaimBaseName
  <2>2. PICK v \in FreshVers :
          info' = [info EXCEPT ![BaseName[target[p]]] = [ver |-> v, full |-> FALSE]]
    BY <1>4, <2>1 DEF ClaimBaseName
  <2>3. entry'[p] = BaseName[target[p]] /\ BaseName[target[p]] \in Ids
    BY <1>4, <2>1 DEF ClaimBaseName
  <2> QED
    BY <2>1, <2>2, <2>3
<1>5. ASSUME NEW p \in Procs, ProbeClaim(p) PROVE ProbeInv'
  BY <1>5 DEF ProbeClaim
<1>6. ASSUME NEW p \in Procs, ClaimCollisionName(p) PROVE ProbeInv'
  BY <1>6 DEF ClaimCollisionName
<1>7. ASSUME NEW p \in Procs, WriteSidecar(p) PROVE ProbeInv'
  BY <1>7 DEF WriteSidecar
<1>8. ASSUME NEW p \in Procs, MoveByRename(p) PROVE ProbeInv'
  BY <1>8 DEF MoveByRename
<1>9. ASSUME NEW p \in Procs, RefreshSidecar(p) PROVE ProbeInv'
  BY <1>9, SMTT(30) DEF RefreshSidecar
<1>10. ASSUME NEW p \in Procs, BeginCopy(p) PROVE ProbeInv'
  BY <1>10 DEF BeginCopy
<1>11. ASSUME NEW p \in Procs, StageCopy(p) PROVE ProbeInv'
  BY <1>11 DEF StageCopy
<1>12. ASSUME NEW p \in Procs, PublishCopy(p) PROVE ProbeInv'
  BY <1>12 DEF PublishCopy
<1>13. ASSUME NEW p \in Procs, SyncCopy(p) PROVE ProbeInv'
  BY <1>13 DEF SyncCopy
<1>14. ASSUME NEW p \in Procs, RetireCheck(p) PROVE ProbeInv'
  BY <1>14 DEF RetireCheck
<1>15. ASSUME NEW p \in Procs, RetireUnlink(p) PROVE ProbeInv'
  BY <1>15 DEF RetireUnlink
<1>16. ASSUME NEW p \in Procs, RelockToVerify(p) PROVE ProbeInv'
  BY <1>16 DEF RelockToVerify
<1>17. ASSUME NEW p \in Procs, VerifyEntry(p) PROVE ProbeInv'
  BY <1>17 DEF VerifyEntry
<1>18. ASSUME NEW p \in Procs, FinishTrash(p) PROVE ProbeInv'
  BY <1>18 DEF FinishTrash
<1>19. ASSUME NEW p \in Procs, RollBack(p) PROVE ProbeInv'
  BY <1>19 DEF RollBack
<1>20. ASSUME NEW p \in Procs, UndoCopy(p) PROVE ProbeInv'
  BY <1>20 DEF UndoCopy
<1>21. ASSUME NEW p \in Procs, NEW id \in Ids, ListEntry(p, id) PROVE ProbeInv'
  BY <1>21 DEF ListEntry
<1>22. ASSUME NEW p \in Procs, StatData(p) PROVE ProbeInv'
  BY <1>22 DEF StatData
<1>23. ASSUME NEW p \in Procs, ScanOrphan(p) PROVE ProbeInv'
  BY <1>23 DEF ScanOrphan
<1>24. ASSUME NEW p \in Procs, StatOrphanSidecar(p) PROVE ProbeInv'
  BY <1>24 DEF StatOrphanSidecar
<1>25. ASSUME NEW p \in Procs, Abandon(p) PROVE ProbeInv'
  BY <1>25 DEF Abandon
<1>26. ASSUME NEW p \in Procs, NEW path \in Paths, ChooseRestore(p, path) PROVE ProbeInv'
  BY <1>26 DEF ChooseRestore
<1>27. ASSUME NEW p \in Procs, ChoosePurge(p) PROVE ProbeInv'
  BY <1>27 DEF ChoosePurge
<1>28. ASSUME NEW p \in Procs, OpenEntry(p) PROVE ProbeInv'
  BY <1>28 DEF OpenEntry
<1>29. ASSUME NEW p \in Procs, FlockEntry(p) PROVE ProbeInv'
  BY <1>29 DEF FlockEntry
<1>30. ASSUME NEW p \in Procs, LockForEntry(p) PROVE ProbeInv'
  BY <1>30 DEF LockForEntry
<1>31. ASSUME NEW p \in Procs, RefuseStale(p) PROVE ProbeInv'
  BY <1>31 DEF RefuseStale
<1>32. ASSUME NEW p \in Procs, RestoreByRename(p) PROVE ProbeInv'
  BY <1>32 DEF RestoreByRename
<1>33. ASSUME NEW p \in Procs, RestoreFails(p) PROVE ProbeInv'
  BY <1>33 DEF RestoreFails
<1>34. ASSUME NEW p \in Procs, RestoreByCopy(p) PROVE ProbeInv'
  BY <1>34 DEF RestoreByCopy
<1>35. ASSUME NEW p \in Procs, RetireRestored(p) PROVE ProbeInv'
  BY <1>35 DEF RetireRestored
<1>36. ASSUME NEW p \in Procs, RemoveRestoredSidecar(p) PROVE ProbeInv'
  BY <1>36 DEF RemoveRestoredSidecar
<1>37. ASSUME NEW p \in Procs, PurgeData(p) PROVE ProbeInv'
  BY <1>37 DEF PurgeData
<1>38. ASSUME NEW p \in Procs, PurgeFails(p) PROVE ProbeInv'
  BY <1>38 DEF PurgeFails
<1>39. ASSUME NEW p \in Procs, PurgeSidecar(p) PROVE ProbeInv'
  BY <1>39 DEF PurgeSidecar
<1>40. ASSUME NEW p \in Procs, RemoveDetached(p) PROVE ProbeInv'
  BY <1>40 DEF RemoveDetached
<1>41. ASSUME NEW p \in Procs, TrySweepLock(p) PROVE ProbeInv'
  BY <1>41 DEF TrySweepLock
<1>42. ASSUME NEW p \in Procs, ClaimAbandonedStage(p) PROVE ProbeInv'
  BY <1>42 DEF ClaimAbandonedStage
<1>43. ASSUME NEW p \in Procs, FinishSweep(p) PROVE ProbeInv'
  BY <1>43 DEF FinishSweep
<1>44. ASSUME NEW p \in Procs, Crash(p) PROVE ProbeInv'
  BY <1>44 DEF Crash
<1>45. ASSUME NEW path \in Paths, UserWrite(path) PROVE ProbeInv'
  BY <1>45 DEF UserWrite
<1>46. CASE UNCHANGED vars
  BY <1>46 DEF vars
<1>47. QED
  BY <1>1, <1>2, <1>3, <1>4, <1>5, <1>6, <1>7, <1>8, <1>9, <1>10, <1>11,
     <1>12, <1>13, <1>14, <1>15, <1>16, <1>17, <1>18, <1>19, <1>20,
     <1>21, <1>22, <1>23, <1>24, <1>25, <1>26, <1>27, <1>28, <1>29,
     <1>30, <1>31, <1>32, <1>33, <1>34, <1>35, <1>36, <1>37, <1>38,
     <1>39, <1>40, <1>41, <1>42, <1>43, <1>44, <1>45, <1>46
     DEF Next, Step, TrashStep, ListStep, EntryStep, SweepStep

\* The version that was listed stands for the document that was listed.
LEMMA ListNext ==
    /\ TypeOK /\ BoundInv /\ ClaimInv /\ UnlistedInv /\ SeenInv /\ ProbeInv /\ ListInv
    /\ [Next]_vars
    => ListInv'
<1> SUFFICES ASSUME TypeOK, BoundInv, ClaimInv, UnlistedInv, SeenInv, ProbeInv, ListInv, [Next]_vars
             PROVE ListInv'
  OBVIOUS
<1> USE Shapes, Fresh, Constants DEF TypeOK, DiskOK, LocalOK, BoundInv, ClaimInv, UnlistedInv, SeenInv,
        ProbeInv, ListInv, Showing, TrashSteps, ListSteps, EntrySteps, disk, locks, local, Goto, Return,
        Forget, UnlinkSidecar, AfterRetirement
<1>1. ASSUME NEW p \in Procs, NEW path \in Paths, PrepareSource(p, path) PROVE ListInv'
  BY <1>1 DEF PrepareSource
<1>2. ASSUME NEW p \in Procs, LockForTrash(p) PROVE ListInv'
  BY <1>2 DEF LockForTrash
<1>3. ASSUME NEW p \in Procs, ClaimFails(p) PROVE ListInv'
  BY <1>3 DEF ClaimFails
<1>4. ASSUME NEW p \in Procs, ClaimBaseName(p) PROVE ListInv'
  <2> SUFFICES ASSUME NEW r \in Procs, Showing(r)', info'[entry'[r]].ver = seen'[r]
               PROVE  /\ \A q \in Procs : pc'[q] = "probe" => entry'[q] # entry'[r]
                      /\ pc'[r] # "data" =>
                            /\ files'[entry'[r]].doc \in {snap'[r].doc, None}
                            /\ \A q \in Procs :
                                  pc'[q] \in {"write", "move", "copy", "publish"}
                                      => entry'[q] # entry'[r]
    BY DEF Showing
  <2>1. /\ r # p /\ Showing(r) /\ entry'[r] = entry[r] /\ seen'[r] = seen[r]
        /\ snap'[r] = snap[r] /\ pc'[r] = pc[r] /\ entry[r] \in Ids /\ seen[r] \in Vers
    BY <1>4 DEF ClaimBaseName
  <2>2. CASE info[BaseName[target[p]]] # NoSidecar
    BY <1>4, <2>1, <2>2 DEF ClaimBaseName
  <2>3. CASE info[BaseName[target[p]]] = NoSidecar
    <3>1. PICK v \in FreshVers :
            info' = [info EXCEPT ![BaseName[target[p]]] = [ver |-> v, full |-> FALSE]]
      BY <1>4, <2>3 DEF ClaimBaseName
    <3>2. entry[r] # BaseName[target[p]]
      BY <2>1, <3>1
    <3>3. info'[entry[r]].ver = seen[r] /\ info'[entry[r]] = info[entry[r]] /\ files' = files
      BY <1>4, <2>1, <3>1, <3>2 DEF ClaimBaseName
    <3>4. entry'[p] = BaseName[target[p]] /\ pc'[p] = "probe"
      BY <1>4, <2>3 DEF ClaimBaseName
    <3>5. \A q \in Procs : q # p => pc'[q] = pc[q] /\ entry'[q] = entry[q]
      BY <1>4 DEF ClaimBaseName
    <3>6. \A q \in Procs : pc[q] = "probe" => entry[q] # entry[r]
      BY <2>1, <3>3
    <3>7. pc[r] # "data" =>
            /\ files[entry[r]].doc \in {snap[r].doc, None}
            /\ \A q \in Procs :
                   pc[q] \in {"write", "move", "copy", "publish"} => entry[q] # entry[r]
      BY <2>1, <3>3
    <3>8. \A q \in Procs : pc'[q] = "probe" => entry'[q] # entry'[r]
      BY <2>1, <3>2, <3>4, <3>5, <3>6
    <3> QED
      BY <2>1, <3>3, <3>4, <3>5, <3>7, <3>8
  <2> QED
    BY <2>2, <2>3
<1>5. ASSUME NEW p \in Procs, ProbeClaim(p) PROVE ListInv'
  <2> SUFFICES ASSUME NEW r \in Procs, Showing(r)', info'[entry'[r]].ver = seen'[r]
               PROVE  /\ \A q \in Procs : pc'[q] = "probe" => entry'[q] # entry'[r]
                      /\ pc'[r] # "data" =>
                            /\ files'[entry'[r]].doc \in {snap'[r].doc, None}
                            /\ \A q \in Procs :
                                  pc'[q] \in {"write", "move", "copy", "publish"}
                                      => entry'[q] # entry'[r]
    BY DEF Showing
  <2>1. /\ r # p /\ Showing(r) /\ entry'[r] = entry[r] /\ seen'[r] = seen[r]
        /\ snap'[r] = snap[r] /\ pc'[r] = pc[r] /\ entry[r] \in Ids /\ seen[r] \in Vers
    BY <1>5 DEF ProbeClaim
  <2>2. entry[r] # entry[p] /\ info'[entry[r]] = info[entry[r]]
    BY <1>5, <2>1 DEF ProbeClaim
  <2> QED
    BY <1>5, <2>1, <2>2 DEF ProbeClaim
<1>6. ASSUME NEW p \in Procs, ClaimCollisionName(p) PROVE ListInv'
  BY <1>6 DEF ClaimCollisionName
<1>7. ASSUME NEW p \in Procs, WriteSidecar(p) PROVE ListInv'
  BY <1>7 DEF WriteSidecar
<1>8. ASSUME NEW p \in Procs, MoveByRename(p) PROVE ListInv'
  BY <1>8 DEF MoveByRename
<1>9. ASSUME NEW p \in Procs, RefreshSidecar(p) PROVE ListInv'
  BY <1>9, SMTT(30) DEF RefreshSidecar
<1>10. ASSUME NEW p \in Procs, BeginCopy(p) PROVE ListInv'
  BY <1>10 DEF BeginCopy
<1>11. ASSUME NEW p \in Procs, StageCopy(p) PROVE ListInv'
  BY <1>11 DEF StageCopy
<1>12. ASSUME NEW p \in Procs, PublishCopy(p) PROVE ListInv'
  BY <1>12 DEF PublishCopy, OwnStage
<1>13. ASSUME NEW p \in Procs, SyncCopy(p) PROVE ListInv'
  BY <1>13 DEF SyncCopy
<1>14. ASSUME NEW p \in Procs, RetireCheck(p) PROVE ListInv'
  BY <1>14 DEF RetireCheck
<1>15. ASSUME NEW p \in Procs, RetireUnlink(p) PROVE ListInv'
  BY <1>15 DEF RetireUnlink
<1>16. ASSUME NEW p \in Procs, RelockToVerify(p) PROVE ListInv'
  BY <1>16 DEF RelockToVerify
<1>17. ASSUME NEW p \in Procs, VerifyEntry(p) PROVE ListInv'
  <2> SUFFICES ASSUME NEW r \in Procs, Showing(r)', info'[entry'[r]].ver = seen'[r]
               PROVE  /\ \A q \in Procs : pc'[q] = "probe" => entry'[q] # entry'[r]
                      /\ pc'[r] # "data" =>
                            /\ files'[entry'[r]].doc \in {snap'[r].doc, None}
                            /\ \A q \in Procs :
                                  pc'[q] \in {"write", "move", "copy", "publish"}
                                      => entry'[q] # entry'[r]
    BY DEF Showing
  <2>1. /\ r # p /\ Showing(r) /\ entry'[r] = entry[r] /\ seen'[r] = seen[r]
        /\ snap'[r] = snap[r] /\ pc'[r] = pc[r] /\ entry[r] \in Ids /\ seen[r] \in Vers
    BY <1>17 DEF VerifyEntry
  <2>3. \A q \in Procs :
          pc'[q] \in {"probe", "write", "move", "copy", "publish"} =>
              pc[q] = pc'[q] /\ entry'[q] = entry[q]
    BY <1>17 DEF VerifyEntry
  <2>4. info' = info /\ files' = files
    BY <1>17 DEF VerifyEntry
  <2> QED
    BY <2>1, <2>3, <2>4
<1>18. ASSUME NEW p \in Procs, FinishTrash(p) PROVE ListInv'
  BY <1>18 DEF FinishTrash
<1>19. ASSUME NEW p \in Procs, RollBack(p) PROVE ListInv'
  <2> SUFFICES ASSUME NEW r \in Procs, Showing(r)', info'[entry'[r]].ver = seen'[r]
               PROVE  /\ \A q \in Procs : pc'[q] = "probe" => entry'[q] # entry'[r]
                      /\ pc'[r] # "data" =>
                            /\ files'[entry'[r]].doc \in {snap'[r].doc, None}
                            /\ \A q \in Procs :
                                  pc'[q] \in {"write", "move", "copy", "publish"}
                                      => entry'[q] # entry'[r]
    BY DEF Showing
  <2>1. /\ r # p /\ Showing(r) /\ entry'[r] = entry[r] /\ seen'[r] = seen[r]
        /\ snap'[r] = snap[r] /\ pc'[r] = pc[r] /\ entry[r] \in Ids /\ seen[r] \in Vers
    BY <1>19 DEF RollBack
  <2>2. info'[entry[r]] = info[entry[r]] /\ files' = files
    BY <1>19, <2>1 DEF RollBack
  <2>3. \A q \in Procs :
          pc'[q] \in {"probe", "write", "move", "copy", "publish"} =>
              pc[q] = pc'[q] /\ entry'[q] = entry[q]
    BY <1>19 DEF RollBack
  <2> QED
    BY <2>1, <2>2, <2>3
<1>20. ASSUME NEW p \in Procs, UndoCopy(p) PROVE ListInv'
  BY <1>20 DEF UndoCopy
<1>21. ASSUME NEW p \in Procs, NEW id \in Ids, ListEntry(p, id) PROVE ListInv'
  BY <1>21 DEF ListEntry
<1>22. ASSUME NEW p \in Procs, StatData(p) PROVE ListInv'
  BY <1>22 DEF StatData, Shown
<1>23. ASSUME NEW p \in Procs, ScanOrphan(p) PROVE ListInv'
  BY <1>23, SMTT(30) DEF ScanOrphan
<1>24. ASSUME NEW p \in Procs, StatOrphanSidecar(p) PROVE ListInv'
  BY <1>24 DEF StatOrphanSidecar
<1>25. ASSUME NEW p \in Procs, Abandon(p) PROVE ListInv'
  BY <1>25 DEF Abandon
<1>26. ASSUME NEW p \in Procs, NEW path \in Paths, ChooseRestore(p, path) PROVE ListInv'
  BY <1>26 DEF ChooseRestore
<1>27. ASSUME NEW p \in Procs, ChoosePurge(p) PROVE ListInv'
  BY <1>27 DEF ChoosePurge
<1>28. ASSUME NEW p \in Procs, OpenEntry(p) PROVE ListInv'
  <2> SUFFICES ASSUME NEW r \in Procs, Showing(r)', info'[entry'[r]].ver = seen'[r]
               PROVE  /\ \A q \in Procs : pc'[q] = "probe" => entry'[q] # entry'[r]
                      /\ pc'[r] # "data" =>
                            /\ files'[entry'[r]].doc \in {snap'[r].doc, None}
                            /\ \A q \in Procs :
                                  pc'[q] \in {"write", "move", "copy", "publish"}
                                      => entry'[q] # entry'[r]
    BY DEF Showing
  <2>1. /\ Showing(r) /\ entry'[r] = entry[r] /\ seen'[r] = seen[r]
        /\ snap'[r] = snap[r] /\ (pc'[r] = "data" <=> pc[r] = "data")
    BY <1>28 DEF OpenEntry
  <2> QED
    BY <1>28, <2>1 DEF OpenEntry
<1>29. ASSUME NEW p \in Procs, FlockEntry(p) PROVE ListInv'
  BY <1>29 DEF FlockEntry
<1>30. ASSUME NEW p \in Procs, LockForEntry(p) PROVE ListInv'
  BY <1>30 DEF LockForEntry
<1>31. ASSUME NEW p \in Procs, RefuseStale(p) PROVE ListInv'
  BY <1>31 DEF RefuseStale
<1>32. ASSUME NEW p \in Procs, RestoreByRename(p) PROVE ListInv'
  BY <1>32 DEF RestoreByRename
<1>33. ASSUME NEW p \in Procs, RestoreFails(p) PROVE ListInv'
  BY <1>33 DEF RestoreFails
<1>34. ASSUME NEW p \in Procs, RestoreByCopy(p) PROVE ListInv'
  BY <1>34 DEF RestoreByCopy
<1>35. ASSUME NEW p \in Procs, RetireRestored(p) PROVE ListInv'
  <2> SUFFICES ASSUME NEW r \in Procs, Showing(r)', info'[entry'[r]].ver = seen'[r]
               PROVE  /\ \A q \in Procs : pc'[q] = "probe" => entry'[q] # entry'[r]
                      /\ pc'[r] # "data" =>
                            /\ files'[entry'[r]].doc \in {snap'[r].doc, None}
                            /\ \A q \in Procs :
                                  pc'[q] \in {"write", "move", "copy", "publish"}
                                      => entry'[q] # entry'[r]
    BY DEF Showing
  <2>1. /\ r # p /\ Showing(r) /\ entry'[r] = entry[r] /\ seen'[r] = seen[r]
        /\ snap'[r] = snap[r] /\ pc'[r] = pc[r] /\ entry[r] \in Ids /\ seen[r] \in Vers
    BY <1>35 DEF RetireRestored
  <2>2. files'[entry[r]] \in {files[entry[r]], Absent}
    BY <1>35, <2>1 DEF RetireRestored
  <2> QED
    BY <1>35, <2>1, <2>2 DEF RetireRestored
<1>36. ASSUME NEW p \in Procs, RemoveRestoredSidecar(p) PROVE ListInv'
  BY <1>36 DEF RemoveRestoredSidecar
<1>37. ASSUME NEW p \in Procs, PurgeData(p) PROVE ListInv'
  BY <1>37 DEF PurgeData
<1>38. ASSUME NEW p \in Procs, PurgeFails(p) PROVE ListInv'
  BY <1>38 DEF PurgeFails
<1>39. ASSUME NEW p \in Procs, PurgeSidecar(p) PROVE ListInv'
  <2>1. CASE info' = [info EXCEPT ![entry[p]] = NoSidecar]
    BY <1>39, <2>1 DEF PurgeSidecar
  <2>2. CASE UNCHANGED info
    BY <1>39, <2>2 DEF PurgeSidecar
  <2> QED
    BY <1>39, <2>1, <2>2 DEF PurgeSidecar
<1>40. ASSUME NEW p \in Procs, RemoveDetached(p) PROVE ListInv'
  BY <1>40 DEF RemoveDetached
<1>41. ASSUME NEW p \in Procs, TrySweepLock(p) PROVE ListInv'
  BY <1>41 DEF TrySweepLock
<1>42. ASSUME NEW p \in Procs, ClaimAbandonedStage(p) PROVE ListInv'
  BY <1>42 DEF ClaimAbandonedStage
<1>43. ASSUME NEW p \in Procs, FinishSweep(p) PROVE ListInv'
  BY <1>43 DEF FinishSweep
<1>44. ASSUME NEW p \in Procs, Crash(p) PROVE ListInv'
  BY <1>44 DEF Crash
<1>45. ASSUME NEW path \in Paths, UserWrite(path) PROVE ListInv'
  BY <1>45 DEF UserWrite
<1>46. CASE UNCHANGED vars
  BY <1>46 DEF vars
<1>47. QED
  BY <1>1, <1>2, <1>3, <1>4, <1>5, <1>6, <1>7, <1>8, <1>9, <1>10, <1>11,
     <1>12, <1>13, <1>14, <1>15, <1>16, <1>17, <1>18, <1>19, <1>20,
     <1>21, <1>22, <1>23, <1>24, <1>25, <1>26, <1>27, <1>28, <1>29,
     <1>30, <1>31, <1>32, <1>33, <1>34, <1>35, <1>36, <1>37, <1>38,
     <1>39, <1>40, <1>41, <1>42, <1>43, <1>44, <1>45, <1>46
     DEF Next, Step, TrashStep, ListStep, EntryStep, SweepStep

\* What a claim and a refresh write is fresh, and nothing else changes.
LEMMA ClaimWrites ==
    ASSUME TypeOK, NEW p \in Procs, ClaimBaseName(p)
    PROVE  \A i \in Ids :
               /\ info'[i] = info[i] \/ info'[i].ver \in FreshVers
               /\ i # BaseName[target[p]] => info'[i] = info[i]
<1>1. CASE info[BaseName[target[p]]] # NoSidecar
  BY <1>1 DEF ClaimBaseName
<1>2. CASE info[BaseName[target[p]]] = NoSidecar
  <2>1. PICK v \in FreshVers :
          info' = [info EXCEPT ![BaseName[target[p]]] = [ver |-> v, full |-> FALSE]]
    BY <1>2 DEF ClaimBaseName
  <2> QED
    BY <2>1 DEF TypeOK, DiskOK
<1> QED
  BY <1>1, <1>2

\* A sidecar that is written again gets a fresh version.
LEMMA RefreshWrites ==
    ASSUME TypeOK, NEW p \in Procs, RefreshSidecar(p)
    PROVE  \A i \in Ids : info'[i] = info[i] \/ info'[i].ver \in FreshVers
<1>1. CASE info' = info
  BY <1>1
<1>2. CASE info' # info
  <2>1. PICK v \in FreshVers :
          info' = [info EXCEPT ![entry[p]] = [ver |-> v, full |-> TRUE]]
    BY <1>2 DEF RefreshSidecar
  <2> QED
    BY <2>1 DEF TypeOK, DiskOK
<1> QED
  BY <1>1, <1>2

\* A version that was overtaken does not come back.
LEMMA StaleNext ==
    TypeOK /\ BoundInv /\ SeenInv /\ StaleInv /\ [Next]_vars => StaleInv'
<1> SUFFICES ASSUME TypeOK, BoundInv, SeenInv, StaleInv, [Next]_vars PROVE StaleInv'
  OBVIOUS
<1> USE Shapes, Fresh, Constants DEF TypeOK, DiskOK, LocalOK, BoundInv, SeenInv, StaleInv, Restoring,
        TrashSteps, ListSteps, EntrySteps, disk, locks, local, Goto, Return, Forget,
        UnlinkSidecar, AfterRetirement
<1>1. ASSUME NEW p \in Procs, NEW path \in Paths, PrepareSource(p, path) PROVE StaleInv'
  BY <1>1 DEF PrepareSource
<1>2. ASSUME NEW p \in Procs, LockForTrash(p) PROVE StaleInv'
  BY <1>2 DEF LockForTrash
<1>3. ASSUME NEW p \in Procs, ClaimFails(p) PROVE StaleInv'
  BY <1>3 DEF ClaimFails
<1>4. ASSUME NEW p \in Procs, ClaimBaseName(p) PROVE StaleInv'
  <2> SUFFICES ASSUME NEW r \in Procs,
                      \/ pc'[r] = "chosen"
                      \/ pc'[r] \in {"open", "flock", "elock", "commit"} /\ Restoring(r)',
                      snap'[r].doc = None, snap'[r].ino # None
               PROVE  seen'[r] \in Vers /\ info'[entry'[r]].ver # seen'[r]
    BY DEF StaleInv
  <2>1. /\ r # p /\ entry'[r] = entry[r] /\ seen'[r] = seen[r] /\ entry[r] \in Ids
        /\ seen[r] \in Vers /\ info[entry[r]].ver # seen[r]
    BY <1>4 DEF ClaimBaseName
  <2>2. \A i \in Ids : info'[i] = info[i] \/ info'[i].ver \in FreshVers
    BY <1>4, ClaimWrites
  <2> QED
    BY <2>1, <2>2
<1>5. ASSUME NEW p \in Procs, ProbeClaim(p) PROVE StaleInv'
  BY <1>5 DEF ProbeClaim
<1>6. ASSUME NEW p \in Procs, ClaimCollisionName(p) PROVE StaleInv'
  BY <1>6 DEF ClaimCollisionName
<1>7. ASSUME NEW p \in Procs, WriteSidecar(p) PROVE StaleInv'
  BY <1>7 DEF WriteSidecar
<1>8. ASSUME NEW p \in Procs, MoveByRename(p) PROVE StaleInv'
  BY <1>8 DEF MoveByRename
<1>9. ASSUME NEW p \in Procs, RefreshSidecar(p) PROVE StaleInv'
  <2> SUFFICES ASSUME NEW r \in Procs,
                      \/ pc'[r] = "chosen"
                      \/ pc'[r] \in {"open", "flock", "elock", "commit"} /\ Restoring(r)',
                      snap'[r].doc = None, snap'[r].ino # None
               PROVE  seen'[r] \in Vers /\ info'[entry'[r]].ver # seen'[r]
    BY DEF StaleInv
  <2>1. /\ r # p /\ entry'[r] = entry[r] /\ seen'[r] = seen[r] /\ entry[r] \in Ids
        /\ seen[r] \in Vers /\ info[entry[r]].ver # seen[r]
    BY <1>9 DEF RefreshSidecar
  <2>2. \A i \in Ids : info'[i] = info[i] \/ info'[i].ver \in FreshVers
    BY <1>9, RefreshWrites
  <2> QED
    BY <2>1, <2>2
<1>10. ASSUME NEW p \in Procs, BeginCopy(p) PROVE StaleInv'
  BY <1>10 DEF BeginCopy
<1>11. ASSUME NEW p \in Procs, StageCopy(p) PROVE StaleInv'
  BY <1>11 DEF StageCopy
<1>12. ASSUME NEW p \in Procs, PublishCopy(p) PROVE StaleInv'
  BY <1>12 DEF PublishCopy
<1>13. ASSUME NEW p \in Procs, SyncCopy(p) PROVE StaleInv'
  BY <1>13 DEF SyncCopy
<1>14. ASSUME NEW p \in Procs, RetireCheck(p) PROVE StaleInv'
  BY <1>14 DEF RetireCheck
<1>15. ASSUME NEW p \in Procs, RetireUnlink(p) PROVE StaleInv'
  BY <1>15 DEF RetireUnlink
<1>16. ASSUME NEW p \in Procs, RelockToVerify(p) PROVE StaleInv'
  BY <1>16 DEF RelockToVerify
<1>17. ASSUME NEW p \in Procs, VerifyEntry(p) PROVE StaleInv'
  BY <1>17 DEF VerifyEntry
<1>18. ASSUME NEW p \in Procs, FinishTrash(p) PROVE StaleInv'
  BY <1>18 DEF FinishTrash
<1>19. ASSUME NEW p \in Procs, RollBack(p) PROVE StaleInv'
  <2>1. CASE info' = [info EXCEPT ![entry[p]] = NoSidecar]
    BY <1>19, <2>1 DEF RollBack
  <2>2. CASE UNCHANGED info
    BY <1>19, <2>2 DEF RollBack
  <2> QED
    BY <1>19, <2>1, <2>2 DEF RollBack
<1>20. ASSUME NEW p \in Procs, UndoCopy(p) PROVE StaleInv'
  BY <1>20 DEF UndoCopy
<1>21. ASSUME NEW p \in Procs, NEW id \in Ids, ListEntry(p, id) PROVE StaleInv'
  BY <1>21 DEF ListEntry
<1>22. ASSUME NEW p \in Procs, StatData(p) PROVE StaleInv'
  BY <1>22 DEF StatData, Shown, Showing
<1>23. ASSUME NEW p \in Procs, ScanOrphan(p) PROVE StaleInv'
  BY <1>23 DEF ScanOrphan
<1>24. ASSUME NEW p \in Procs, StatOrphanSidecar(p) PROVE StaleInv'
  BY <1>24 DEF StatOrphanSidecar
<1>25. ASSUME NEW p \in Procs, Abandon(p) PROVE StaleInv'
  BY <1>25 DEF Abandon
<1>26. ASSUME NEW p \in Procs, NEW path \in Paths, ChooseRestore(p, path) PROVE StaleInv'
  BY <1>26 DEF ChooseRestore
<1>27. ASSUME NEW p \in Procs, ChoosePurge(p) PROVE StaleInv'
  BY <1>27 DEF ChoosePurge
<1>28. ASSUME NEW p \in Procs, OpenEntry(p) PROVE StaleInv'
  BY <1>28 DEF OpenEntry
<1>29. ASSUME NEW p \in Procs, FlockEntry(p) PROVE StaleInv'
  BY <1>29 DEF FlockEntry
<1>30. ASSUME NEW p \in Procs, LockForEntry(p) PROVE StaleInv'
  BY <1>30 DEF LockForEntry
<1>31. ASSUME NEW p \in Procs, RefuseStale(p) PROVE StaleInv'
  BY <1>31 DEF RefuseStale
<1>32. ASSUME NEW p \in Procs, RestoreByRename(p) PROVE StaleInv'
  BY <1>32 DEF RestoreByRename
<1>33. ASSUME NEW p \in Procs, RestoreFails(p) PROVE StaleInv'
  BY <1>33 DEF RestoreFails
<1>34. ASSUME NEW p \in Procs, RestoreByCopy(p) PROVE StaleInv'
  BY <1>34 DEF RestoreByCopy
<1>35. ASSUME NEW p \in Procs, RetireRestored(p) PROVE StaleInv'
  BY <1>35 DEF RetireRestored
<1>36. ASSUME NEW p \in Procs, RemoveRestoredSidecar(p) PROVE StaleInv'
  BY <1>36 DEF RemoveRestoredSidecar
<1>37. ASSUME NEW p \in Procs, PurgeData(p) PROVE StaleInv'
  BY <1>37 DEF PurgeData
<1>38. ASSUME NEW p \in Procs, PurgeFails(p) PROVE StaleInv'
  BY <1>38 DEF PurgeFails
<1>39. ASSUME NEW p \in Procs, PurgeSidecar(p) PROVE StaleInv'
  <2>1. CASE info' = [info EXCEPT ![entry[p]] = NoSidecar]
    BY <1>39, <2>1 DEF PurgeSidecar
  <2>2. CASE UNCHANGED info
    BY <1>39, <2>2 DEF PurgeSidecar
  <2> QED
    BY <1>39, <2>1, <2>2 DEF PurgeSidecar
<1>40. ASSUME NEW p \in Procs, RemoveDetached(p) PROVE StaleInv'
  BY <1>40 DEF RemoveDetached
<1>41. ASSUME NEW p \in Procs, TrySweepLock(p) PROVE StaleInv'
  BY <1>41 DEF TrySweepLock
<1>42. ASSUME NEW p \in Procs, ClaimAbandonedStage(p) PROVE StaleInv'
  BY <1>42 DEF ClaimAbandonedStage
<1>43. ASSUME NEW p \in Procs, FinishSweep(p) PROVE StaleInv'
  BY <1>43 DEF FinishSweep
<1>44. ASSUME NEW p \in Procs, Crash(p) PROVE StaleInv'
  BY <1>44 DEF Crash
<1>45. ASSUME NEW path \in Paths, UserWrite(path) PROVE StaleInv'
  BY <1>45 DEF UserWrite
<1>46. CASE UNCHANGED vars
  BY <1>46 DEF vars
<1>47. QED
  BY <1>1, <1>2, <1>3, <1>4, <1>5, <1>6, <1>7, <1>8, <1>9, <1>10, <1>11,
     <1>12, <1>13, <1>14, <1>15, <1>16, <1>17, <1>18, <1>19, <1>20,
     <1>21, <1>22, <1>23, <1>24, <1>25, <1>26, <1>27, <1>28, <1>29,
     <1>30, <1>31, <1>32, <1>33, <1>34, <1>35, <1>36, <1>37, <1>38,
     <1>39, <1>40, <1>41, <1>42, <1>43, <1>44, <1>45, <1>46
     DEF Next, Step, TrashStep, ListStep, EntryStep, SweepStep

\* Sidecars are complete before data arrives and outlive it.
LEMMA SidecarNext ==
    TypeOK /\ BoundInv /\ LockInv /\ ClaimInv /\ CopyInv /\ ProbeInv /\ SidecarInv /\ [Next]_vars => SidecarInv'
<1> SUFFICES ASSUME TypeOK, BoundInv, LockInv, ClaimInv, CopyInv, ProbeInv, SidecarInv, [Next]_vars PROVE SidecarInv'
  OBVIOUS
<1> USE Shapes, Constants DEF TypeOK, DiskOK, LocalOK, HistoryOK, BoundInv, LockInv, Locked, AlwaysLocked, RetiresUnlocked,
        ClaimInv, SidecarInv, DataHasSidecar, TrashSteps, ListSteps, EntrySteps, disk, locks, local, budget,
        StartOperation, Goto, Return, Forget, UnlinkSidecar, AfterRetirement
<1>1. ASSUME NEW p \in Procs, NEW path \in Paths, PrepareSource(p, path) PROVE SidecarInv'
  BY <1>1 DEF PrepareSource
<1>2. ASSUME NEW p \in Procs, LockForTrash(p) PROVE SidecarInv'
  BY <1>2 DEF LockForTrash
<1>3. ASSUME NEW p \in Procs, ClaimFails(p) PROVE SidecarInv'
  BY <1>3 DEF ClaimFails
<1>4. ASSUME NEW p \in Procs, ClaimBaseName(p) PROVE SidecarInv'
  <2>0. \A r \in Procs : r # p => pc'[r] = pc[r] /\ entry'[r] = entry[r]
    BY <1>4 DEF ClaimBaseName
  <2>a. \A r \in Procs : r # p => pc[r] \notin AlwaysLocked
    BY <1>4, Alone DEF ClaimBaseName
  <2>1. CASE info[BaseName[target[p]]] # NoSidecar
    BY <1>4, <2>0, <2>1 DEF ClaimBaseName
  <2>2. CASE info[BaseName[target[p]]] = NoSidecar
    <3>1. crashes = 0 /\ Pinned = {} => files[BaseName[target[p]]].doc \in DirDocs \cup {None}
      BY <1>4, <2>a, <2>2 DEF ClaimBaseName
    <3>2. pc'[p] = "probe" /\ UNCHANGED <<files, crashes>>
      BY <1>4, <2>2 DEF ClaimBaseName
    <3>3. \A i \in Ids : i # BaseName[target[p]] => info'[i] = info[i]
      BY <1>4, ClaimWrites
    <3>4. \A r \in Procs : pc'[r] \notin {"move", "copy", "publish", "rSidecar", "pSidecar"}
      BY <1>4, <2>0, <2>a, <3>2
    <3>5. \A r \in Procs : pc'[r] # "undo" /\ pc[r] # "undo"
      BY <1>4, <2>0, <2>a, <3>2 DEF ClaimBaseName
    <3>6. DataHasSidecar'
      BY <3>1, <3>2, <3>3, <3>5
    <3> QED
      BY <3>2, <3>4, <3>6
  <2> QED
    BY <2>1, <2>2
<1>5. ASSUME NEW p \in Procs, ProbeClaim(p) PROVE SidecarInv'
  <2>0. \A r \in Procs : r # p => pc'[r] = pc[r] /\ entry'[r] = entry[r]
    BY <1>5 DEF ProbeClaim
  <2>a. \A r \in Procs : r # p => pc[r] \notin AlwaysLocked
    BY <1>5, Alone DEF ProbeClaim
  <2>1. UNCHANGED <<files, crashes>> /\ pc'[p] \in {"write", "collide"} /\ entry[p] \in Ids
    BY <1>5 DEF ProbeClaim
  <2>2. \A i \in Ids : info'[i] = info[i] \/ i = entry[p]
    BY <1>5, <2>1 DEF ProbeClaim
  <2>3. \A r \in Procs :
          /\ pc'[r] \notin {"move", "copy", "publish", "rSidecar", "pSidecar"}
          /\ pc'[r] # "undo" /\ pc[r] # "undo"
    BY <1>5, <2>0, <2>a, <2>1 DEF ProbeClaim
  <2>4. crashes = 0 /\ Pinned = {} => files[entry[p]] = Absent \/ files[entry[p]].doc \in DirDocs
    <3>1. pc[p] = "probe"
      BY <1>5 DEF ProbeClaim
    <3>2. ~info[entry[p]].full
      BY <3>1 DEF ProbeInv
    <3> QED
      BY <2>1, <2>3, <3>2
  <2> QED
    BY <2>1, <2>2, <2>3, <2>4
<1>6. ASSUME NEW p \in Procs, ClaimCollisionName(p) PROVE SidecarInv'
  BY <1>6 DEF ClaimCollisionName
<1>7. ASSUME NEW p \in Procs, WriteSidecar(p) PROVE SidecarInv'
  BY <1>7 DEF WriteSidecar
<1>8. ASSUME NEW p \in Procs, MoveByRename(p) PROVE SidecarInv'
  BY <1>8 DEF MoveByRename
<1>9. ASSUME NEW p \in Procs, RefreshSidecar(p) PROVE SidecarInv'
  <2>1. \A i \in Ids : info'[i] = info[i] \/ info'[i].full
    BY <1>9 DEF RefreshSidecar
  <2>2. /\ UNCHANGED <<files, crashes, entry>>
        /\ \A r \in Procs : pc'[r] = pc[r] \/ (pc[r] = "refresh" /\ pc'[r] = "finish")
    BY <1>9 DEF RefreshSidecar
  <2> QED
    BY <2>1, <2>2, SMTT(30)
<1>10. ASSUME NEW p \in Procs, BeginCopy(p) PROVE SidecarInv'
  BY <1>10 DEF BeginCopy
<1>11. ASSUME NEW p \in Procs, StageCopy(p) PROVE SidecarInv'
  BY <1>11 DEF StageCopy
<1>12. ASSUME NEW p \in Procs, PublishCopy(p) PROVE SidecarInv'
  BY <1>12 DEF PublishCopy
<1>13. ASSUME NEW p \in Procs, SyncCopy(p) PROVE SidecarInv'
  BY <1>13 DEF SyncCopy
<1>14. ASSUME NEW p \in Procs, RetireCheck(p) PROVE SidecarInv'
  BY <1>14 DEF RetireCheck
<1>15. ASSUME NEW p \in Procs, RetireUnlink(p) PROVE SidecarInv'
  BY <1>15 DEF RetireUnlink
<1>16. ASSUME NEW p \in Procs, RelockToVerify(p) PROVE SidecarInv'
  BY <1>16 DEF RelockToVerify
<1>17. ASSUME NEW p \in Procs, VerifyEntry(p) PROVE SidecarInv'
  BY <1>17 DEF VerifyEntry
<1>18. ASSUME NEW p \in Procs, FinishTrash(p) PROVE SidecarInv'
  BY <1>18 DEF FinishTrash
<1>19. ASSUME NEW p \in Procs, RollBack(p) PROVE SidecarInv'
  <2>1. CASE info' = [info EXCEPT ![entry[p]] = NoSidecar]
    BY <1>19, <2>1 DEF RollBack
  <2>2. CASE UNCHANGED info
    BY <1>19, <2>2 DEF RollBack
  <2> QED
    BY <1>19, <2>1, <2>2 DEF RollBack
<1>20. ASSUME NEW p \in Procs, UndoCopy(p) PROVE SidecarInv'
  <2>0. \A r \in Procs : r # p => pc'[r] = pc[r] /\ entry'[r] = entry[r]
    BY <1>20 DEF UndoCopy
  <2>a. \A r \in Procs : r # p => pc[r] \notin AlwaysLocked
    BY <1>20, Alone DEF UndoCopy
  <2>1. UNCHANGED <<info, crashes>> /\ pc'[p] = "idle" /\ entry[p] \in Ids
    BY <1>20 DEF UndoCopy
  <2> QED
    BY <1>20, <2>0, <2>a, <2>1 DEF UndoCopy, CopyInv
<1>21. ASSUME NEW p \in Procs, NEW id \in Ids, ListEntry(p, id) PROVE SidecarInv'
  BY <1>21 DEF ListEntry
<1>22. ASSUME NEW p \in Procs, StatData(p) PROVE SidecarInv'
  BY <1>22 DEF StatData
<1>23. ASSUME NEW p \in Procs, ScanOrphan(p) PROVE SidecarInv'
  <2>1. UNCHANGED <<files, info, crashes>> /\ pc'[p] \in {"idle", "sidecar"} /\ pc[p] = "scan"
    BY <1>23 DEF ScanOrphan
  <2>2. \A r \in Procs : r # p => pc'[r] = pc[r] /\ entry'[r] = entry[r]
    BY <1>23 DEF ScanOrphan
  <2>3. DataHasSidecar'
    BY <2>1, <2>2
  <2> QED
    BY <2>1, <2>2, <2>3
<1>24. ASSUME NEW p \in Procs, StatOrphanSidecar(p) PROVE SidecarInv'
  BY <1>24 DEF StatOrphanSidecar
<1>25. ASSUME NEW p \in Procs, Abandon(p) PROVE SidecarInv'
  BY <1>25 DEF Abandon
<1>26. ASSUME NEW p \in Procs, NEW path \in Paths, ChooseRestore(p, path) PROVE SidecarInv'
  BY <1>26 DEF ChooseRestore
<1>27. ASSUME NEW p \in Procs, ChoosePurge(p) PROVE SidecarInv'
  BY <1>27 DEF ChoosePurge
<1>28. ASSUME NEW p \in Procs, OpenEntry(p) PROVE SidecarInv'
  BY <1>28 DEF OpenEntry
<1>29. ASSUME NEW p \in Procs, FlockEntry(p) PROVE SidecarInv'
  BY <1>29 DEF FlockEntry
<1>30. ASSUME NEW p \in Procs, LockForEntry(p) PROVE SidecarInv'
  BY <1>30 DEF LockForEntry
<1>31. ASSUME NEW p \in Procs, RefuseStale(p) PROVE SidecarInv'
  BY <1>31 DEF RefuseStale
<1>32. ASSUME NEW p \in Procs, RestoreByRename(p) PROVE SidecarInv'
  BY <1>32 DEF RestoreByRename
<1>33. ASSUME NEW p \in Procs, RestoreFails(p) PROVE SidecarInv'
  BY <1>33 DEF RestoreFails
<1>34. ASSUME NEW p \in Procs, RestoreByCopy(p) PROVE SidecarInv'
  BY <1>34 DEF RestoreByCopy
<1>35. ASSUME NEW p \in Procs, RetireRestored(p) PROVE SidecarInv'
  <2>0. \A r \in Procs : r # p => pc'[r] = pc[r] /\ entry'[r] = entry[r]
    BY <1>35 DEF RetireRestored
  <2>a. \A r \in Procs : r # p => pc[r] \notin AlwaysLocked
    BY <1>35, Alone DEF RetireRestored
  <2>1. UNCHANGED <<info, crashes>> /\ pc'[p] \in {"idle", "rSidecar"} /\ entry[p] \in Ids
    BY <1>35 DEF RetireRestored
  <2> QED
    <3>1. \A i \in Ids : i # entry[p] => files'[i] = files[i]
      BY <1>35 DEF RetireRestored
    <3>2. \/ files'[entry[p]] = Absent
          \/ /\ files' = files
             /\ pc'[p] = "rSidecar" => files[entry[p]].doc \in DirDocs
      BY <1>35, <2>1 DEF RetireRestored
    <3>3. \A r \in Procs : r # p =>
            pc'[r] \notin {"undo", "move", "copy", "publish", "rSidecar", "pSidecar"}
      BY <2>0, <2>a
    <3>4. pc[p] = "rRetire"
      BY <1>35 DEF RetireRestored
    <3>5. \A r \in Procs : pc[r] # "undo"
      BY <2>a, <3>4
    <3>6. DataHasSidecar'
      <4> SUFFICES ASSUME crashes = 0, Pinned = {}, NEW i \in Ids, files'[i] # Absent,
                          files'[i].doc \notin DirDocs
                   PROVE  info[i].full
        BY <2>1
      <4>1. files'[i] = files[i]
        BY <3>1, <3>2
      <4> QED
        BY <3>5, <4>1
    <3>7. pc'[p] = "rSidecar" => files'[entry'[p]].doc \in DirDocs \cup {None}
      BY <1>35, <2>1, <3>2 DEF RetireRestored
    <3> QED
      BY <2>1, <3>3, <3>6, <3>7
<1>36. ASSUME NEW p \in Procs, RemoveRestoredSidecar(p) PROVE SidecarInv'
  BY <1>36 DEF RemoveRestoredSidecar
<1>37. ASSUME NEW p \in Procs, PurgeData(p) PROVE SidecarInv'
  BY <1>37 DEF PurgeData
<1>38. ASSUME NEW p \in Procs, PurgeFails(p) PROVE SidecarInv'
  BY <1>38 DEF PurgeFails
<1>39. ASSUME NEW p \in Procs, PurgeSidecar(p) PROVE SidecarInv'
  <2>1. CASE info' = [info EXCEPT ![entry[p]] = NoSidecar]
    BY <1>39, <2>1 DEF PurgeSidecar
  <2>2. CASE UNCHANGED info
    BY <1>39, <2>2 DEF PurgeSidecar
  <2> QED
    BY <1>39, <2>1, <2>2 DEF PurgeSidecar
<1>40. ASSUME NEW p \in Procs, RemoveDetached(p) PROVE SidecarInv'
  BY <1>40 DEF RemoveDetached
<1>41. ASSUME NEW p \in Procs, TrySweepLock(p) PROVE SidecarInv'
  BY <1>41 DEF TrySweepLock
<1>42. ASSUME NEW p \in Procs, ClaimAbandonedStage(p) PROVE SidecarInv'
  BY <1>42 DEF ClaimAbandonedStage
<1>43. ASSUME NEW p \in Procs, FinishSweep(p) PROVE SidecarInv'
  BY <1>43 DEF FinishSweep
<1>44. ASSUME NEW p \in Procs, Crash(p) PROVE SidecarInv'
  BY <1>44 DEF Crash
<1>45. ASSUME NEW path \in Paths, UserWrite(path) PROVE SidecarInv'
  BY <1>45 DEF UserWrite
<1>46. CASE UNCHANGED vars
  BY <1>46 DEF vars
<1>47. QED
  BY <1>1, <1>2, <1>3, <1>4, <1>5, <1>6, <1>7, <1>8, <1>9, <1>10, <1>11,
     <1>12, <1>13, <1>14, <1>15, <1>16, <1>17, <1>18, <1>19, <1>20,
     <1>21, <1>22, <1>23, <1>24, <1>25, <1>26, <1>27, <1>28, <1>29,
     <1>30, <1>31, <1>32, <1>33, <1>34, <1>35, <1>36, <1>37, <1>38,
     <1>39, <1>40, <1>41, <1>42, <1>43, <1>44, <1>45, <1>46
     DEF Next, Step, TrashStep, ListStep, EntryStep, SweepStep

\* The stage of a copy being made is left alone.
LEMMA StageNext ==
    TypeOK /\ LockInv /\ LiveStageKept /\ [Next]_vars => LiveStageKept'
<1> SUFFICES ASSUME TypeOK, LockInv, LiveStageKept, [Next]_vars PROVE LiveStageKept'
  OBVIOUS
<1> USE Constants DEF TypeOK, LocalOK, LockInv, Locked, AlwaysLocked, RetiresUnlocked, LiveStageKept, OwnStage,
        disk, locks, local, Goto, Return, Forget, UnlinkSidecar, AfterRetirement
<1>1. ASSUME NEW p \in Procs, NEW path \in Paths, PrepareSource(p, path) PROVE LiveStageKept'
  BY <1>1 DEF PrepareSource
<1>2. ASSUME NEW p \in Procs, LockForTrash(p) PROVE LiveStageKept'
  BY <1>2 DEF LockForTrash
<1>3. ASSUME NEW p \in Procs, ClaimFails(p) PROVE LiveStageKept'
  BY <1>3 DEF ClaimFails
<1>4. ASSUME NEW p \in Procs, ClaimBaseName(p) PROVE LiveStageKept'
  BY <1>4 DEF ClaimBaseName
<1>5. ASSUME NEW p \in Procs, ProbeClaim(p) PROVE LiveStageKept'
  BY <1>5 DEF ProbeClaim
<1>6. ASSUME NEW p \in Procs, ClaimCollisionName(p) PROVE LiveStageKept'
  BY <1>6 DEF ClaimCollisionName
<1>7. ASSUME NEW p \in Procs, WriteSidecar(p) PROVE LiveStageKept'
  BY <1>7 DEF WriteSidecar
<1>8. ASSUME NEW p \in Procs, MoveByRename(p) PROVE LiveStageKept'
  BY <1>8 DEF MoveByRename
<1>9. ASSUME NEW p \in Procs, RefreshSidecar(p) PROVE LiveStageKept'
  BY <1>9, SMTT(30) DEF RefreshSidecar
<1>10. ASSUME NEW p \in Procs, BeginCopy(p) PROVE LiveStageKept'
  BY <1>10 DEF BeginCopy
<1>11. ASSUME NEW p \in Procs, StageCopy(p) PROVE LiveStageKept'
  BY <1>11 DEF StageCopy
<1>12. ASSUME NEW p \in Procs, PublishCopy(p) PROVE LiveStageKept'
  BY <1>12 DEF PublishCopy
<1>13. ASSUME NEW p \in Procs, SyncCopy(p) PROVE LiveStageKept'
  BY <1>13 DEF SyncCopy
<1>14. ASSUME NEW p \in Procs, RetireCheck(p) PROVE LiveStageKept'
  BY <1>14 DEF RetireCheck
<1>15. ASSUME NEW p \in Procs, RetireUnlink(p) PROVE LiveStageKept'
  BY <1>15 DEF RetireUnlink
<1>16. ASSUME NEW p \in Procs, RelockToVerify(p) PROVE LiveStageKept'
  BY <1>16 DEF RelockToVerify
<1>17. ASSUME NEW p \in Procs, VerifyEntry(p) PROVE LiveStageKept'
  BY <1>17 DEF VerifyEntry
<1>18. ASSUME NEW p \in Procs, FinishTrash(p) PROVE LiveStageKept'
  BY <1>18 DEF FinishTrash
<1>19. ASSUME NEW p \in Procs, RollBack(p) PROVE LiveStageKept'
  BY <1>19 DEF RollBack
<1>20. ASSUME NEW p \in Procs, UndoCopy(p) PROVE LiveStageKept'
  BY <1>20 DEF UndoCopy
<1>21. ASSUME NEW p \in Procs, NEW id \in Ids, ListEntry(p, id) PROVE LiveStageKept'
  BY <1>21 DEF ListEntry
<1>22. ASSUME NEW p \in Procs, StatData(p) PROVE LiveStageKept'
  BY <1>22 DEF StatData
<1>23. ASSUME NEW p \in Procs, ScanOrphan(p) PROVE LiveStageKept'
  BY <1>23 DEF ScanOrphan
<1>24. ASSUME NEW p \in Procs, StatOrphanSidecar(p) PROVE LiveStageKept'
  BY <1>24 DEF StatOrphanSidecar
<1>25. ASSUME NEW p \in Procs, Abandon(p) PROVE LiveStageKept'
  BY <1>25 DEF Abandon
<1>26. ASSUME NEW p \in Procs, NEW path \in Paths, ChooseRestore(p, path) PROVE LiveStageKept'
  BY <1>26 DEF ChooseRestore
<1>27. ASSUME NEW p \in Procs, ChoosePurge(p) PROVE LiveStageKept'
  BY <1>27 DEF ChoosePurge
<1>28. ASSUME NEW p \in Procs, OpenEntry(p) PROVE LiveStageKept'
  BY <1>28 DEF OpenEntry
<1>29. ASSUME NEW p \in Procs, FlockEntry(p) PROVE LiveStageKept'
  BY <1>29 DEF FlockEntry
<1>30. ASSUME NEW p \in Procs, LockForEntry(p) PROVE LiveStageKept'
  BY <1>30 DEF LockForEntry
<1>31. ASSUME NEW p \in Procs, RefuseStale(p) PROVE LiveStageKept'
  BY <1>31 DEF RefuseStale
<1>32. ASSUME NEW p \in Procs, RestoreByRename(p) PROVE LiveStageKept'
  BY <1>32 DEF RestoreByRename
<1>33. ASSUME NEW p \in Procs, RestoreFails(p) PROVE LiveStageKept'
  BY <1>33 DEF RestoreFails
<1>34. ASSUME NEW p \in Procs, RestoreByCopy(p) PROVE LiveStageKept'
  BY <1>34 DEF RestoreByCopy
<1>35. ASSUME NEW p \in Procs, RetireRestored(p) PROVE LiveStageKept'
  BY <1>35 DEF RetireRestored
<1>36. ASSUME NEW p \in Procs, RemoveRestoredSidecar(p) PROVE LiveStageKept'
  BY <1>36 DEF RemoveRestoredSidecar
<1>37. ASSUME NEW p \in Procs, PurgeData(p) PROVE LiveStageKept'
  BY <1>37 DEF PurgeData
<1>38. ASSUME NEW p \in Procs, PurgeFails(p) PROVE LiveStageKept'
  BY <1>38 DEF PurgeFails
<1>39. ASSUME NEW p \in Procs, PurgeSidecar(p) PROVE LiveStageKept'
  BY <1>39 DEF PurgeSidecar
<1>40. ASSUME NEW p \in Procs, RemoveDetached(p) PROVE LiveStageKept'
  BY <1>40 DEF RemoveDetached
<1>41. ASSUME NEW p \in Procs, TrySweepLock(p) PROVE LiveStageKept'
  BY <1>41 DEF TrySweepLock
<1>42. ASSUME NEW p \in Procs, ClaimAbandonedStage(p) PROVE LiveStageKept'
  BY <1>42 DEF ClaimAbandonedStage
<1>43. ASSUME NEW p \in Procs, FinishSweep(p) PROVE LiveStageKept'
  BY <1>43 DEF FinishSweep
<1>44. ASSUME NEW p \in Procs, Crash(p) PROVE LiveStageKept'
  BY <1>44 DEF Crash
<1>45. ASSUME NEW path \in Paths, UserWrite(path) PROVE LiveStageKept'
  BY <1>45 DEF UserWrite
<1>46. CASE UNCHANGED vars
  BY <1>46 DEF vars
<1>47. QED
  BY <1>1, <1>2, <1>3, <1>4, <1>5, <1>6, <1>7, <1>8, <1>9, <1>10, <1>11,
     <1>12, <1>13, <1>14, <1>15, <1>16, <1>17, <1>18, <1>19, <1>20,
     <1>21, <1>22, <1>23, <1>24, <1>25, <1>26, <1>27, <1>28, <1>29,
     <1>30, <1>31, <1>32, <1>33, <1>34, <1>35, <1>36, <1>37, <1>38,
     <1>39, <1>40, <1>41, <1>42, <1>43, <1>44, <1>45, <1>46
     DEF Next, Step, TrashStep, ListStep, EntryStep, SweepStep

\* A step that leaves documents alone and dooms nothing keeps all of them.
LEMMA Steady ==
    ASSUME SafeInv, UNCHANGED <<home, files, born, gone, raced>>,
           \A i \in Ids : Provisional(i)' => Provisional(i),
           \A q \in Paths : Doomed(q)' => Doomed(q)
    PROVE  SafeInv'
  BY DEF SafeInv, Kept

\* What a restore published stays what it published, or is raced.
LEMMA PublishedNext ==
    TypeOK /\ BoundInv /\ LockInv /\ PublishedInv /\ [Next]_vars => PublishedInv'
<1> SUFFICES ASSUME TypeOK, BoundInv, LockInv, PublishedInv, [Next]_vars PROVE PublishedInv'
  OBVIOUS
<1> USE Shapes, Constants DEF TypeOK, DiskOK, LocalOK, HistoryOK, BoundInv, LockInv, Locked, AlwaysLocked, RetiresUnlocked,
        PublishedInv, TrashSteps, ListSteps, EntrySteps, disk, locks, local, history,
        Goto, Return, Forget, UnlinkSidecar, AfterRetirement
<1>1. ASSUME NEW p \in Procs, NEW path \in Paths, PrepareSource(p, path) PROVE PublishedInv'
  BY <1>1 DEF PrepareSource
<1>2. ASSUME NEW p \in Procs, LockForTrash(p) PROVE PublishedInv'
  BY <1>2 DEF LockForTrash
<1>3. ASSUME NEW p \in Procs, ClaimFails(p) PROVE PublishedInv'
  BY <1>3 DEF ClaimFails
<1>4. ASSUME NEW p \in Procs, ClaimBaseName(p) PROVE PublishedInv'
  BY <1>4 DEF ClaimBaseName
<1>5. ASSUME NEW p \in Procs, ProbeClaim(p) PROVE PublishedInv'
  BY <1>5 DEF ProbeClaim
<1>6. ASSUME NEW p \in Procs, ClaimCollisionName(p) PROVE PublishedInv'
  BY <1>6 DEF ClaimCollisionName
<1>7. ASSUME NEW p \in Procs, WriteSidecar(p) PROVE PublishedInv'
  BY <1>7 DEF WriteSidecar
<1>8. ASSUME NEW p \in Procs, MoveByRename(p) PROVE PublishedInv'
  BY <1>8 DEF MoveByRename
<1>9. ASSUME NEW p \in Procs, RefreshSidecar(p) PROVE PublishedInv'
  BY <1>9, SMTT(30) DEF RefreshSidecar
<1>10. ASSUME NEW p \in Procs, BeginCopy(p) PROVE PublishedInv'
  BY <1>10 DEF BeginCopy
<1>11. ASSUME NEW p \in Procs, StageCopy(p) PROVE PublishedInv'
  BY <1>11 DEF StageCopy
<1>12. ASSUME NEW p \in Procs, PublishCopy(p) PROVE PublishedInv'
  BY <1>12 DEF PublishCopy
<1>13. ASSUME NEW p \in Procs, SyncCopy(p) PROVE PublishedInv'
  BY <1>13 DEF SyncCopy
<1>14. ASSUME NEW p \in Procs, RetireCheck(p) PROVE PublishedInv'
  BY <1>14 DEF RetireCheck
<1>15. ASSUME NEW p \in Procs, RetireUnlink(p) PROVE PublishedInv'
  BY <1>15 DEF RetireUnlink
<1>16. ASSUME NEW p \in Procs, RelockToVerify(p) PROVE PublishedInv'
  BY <1>16 DEF RelockToVerify
<1>17. ASSUME NEW p \in Procs, VerifyEntry(p) PROVE PublishedInv'
  BY <1>17 DEF VerifyEntry
<1>18. ASSUME NEW p \in Procs, FinishTrash(p) PROVE PublishedInv'
  BY <1>18 DEF FinishTrash
<1>19. ASSUME NEW p \in Procs, RollBack(p) PROVE PublishedInv'
  BY <1>19 DEF RollBack
<1>20. ASSUME NEW p \in Procs, UndoCopy(p) PROVE PublishedInv'
  BY <1>20 DEF UndoCopy
<1>21. ASSUME NEW p \in Procs, NEW id \in Ids, ListEntry(p, id) PROVE PublishedInv'
  BY <1>21 DEF ListEntry
<1>22. ASSUME NEW p \in Procs, StatData(p) PROVE PublishedInv'
  BY <1>22 DEF StatData
<1>23. ASSUME NEW p \in Procs, ScanOrphan(p) PROVE PublishedInv'
  BY <1>23 DEF ScanOrphan
<1>24. ASSUME NEW p \in Procs, StatOrphanSidecar(p) PROVE PublishedInv'
  BY <1>24 DEF StatOrphanSidecar
<1>25. ASSUME NEW p \in Procs, Abandon(p) PROVE PublishedInv'
  BY <1>25 DEF Abandon
<1>26. ASSUME NEW p \in Procs, NEW path \in Paths, ChooseRestore(p, path) PROVE PublishedInv'
  BY <1>26 DEF ChooseRestore
<1>27. ASSUME NEW p \in Procs, ChoosePurge(p) PROVE PublishedInv'
  BY <1>27 DEF ChoosePurge
<1>28. ASSUME NEW p \in Procs, OpenEntry(p) PROVE PublishedInv'
  BY <1>28 DEF OpenEntry
<1>29. ASSUME NEW p \in Procs, FlockEntry(p) PROVE PublishedInv'
  BY <1>29 DEF FlockEntry
<1>30. ASSUME NEW p \in Procs, LockForEntry(p) PROVE PublishedInv'
  BY <1>30 DEF LockForEntry
<1>31. ASSUME NEW p \in Procs, RefuseStale(p) PROVE PublishedInv'
  BY <1>31 DEF RefuseStale
<1>32. ASSUME NEW p \in Procs, RestoreByRename(p) PROVE PublishedInv'
  BY <1>32 DEF RestoreByRename, Race, InWindow
<1>33. ASSUME NEW p \in Procs, RestoreFails(p) PROVE PublishedInv'
  BY <1>33 DEF RestoreFails
<1>34. ASSUME NEW p \in Procs, RestoreByCopy(p) PROVE PublishedInv'
  BY <1>34, FreshType DEF RestoreByCopy, Race, InWindow
<1>35. ASSUME NEW p \in Procs, RetireRestored(p) PROVE PublishedInv'
  BY <1>35 DEF RetireRestored
<1>36. ASSUME NEW p \in Procs, RemoveRestoredSidecar(p) PROVE PublishedInv'
  BY <1>36 DEF RemoveRestoredSidecar
<1>37. ASSUME NEW p \in Procs, PurgeData(p) PROVE PublishedInv'
  BY <1>37 DEF PurgeData
<1>38. ASSUME NEW p \in Procs, PurgeFails(p) PROVE PublishedInv'
  BY <1>38 DEF PurgeFails
<1>39. ASSUME NEW p \in Procs, PurgeSidecar(p) PROVE PublishedInv'
  BY <1>39 DEF PurgeSidecar
<1>40. ASSUME NEW p \in Procs, RemoveDetached(p) PROVE PublishedInv'
  BY <1>40 DEF RemoveDetached
<1>41. ASSUME NEW p \in Procs, TrySweepLock(p) PROVE PublishedInv'
  BY <1>41 DEF TrySweepLock
<1>42. ASSUME NEW p \in Procs, ClaimAbandonedStage(p) PROVE PublishedInv'
  BY <1>42 DEF ClaimAbandonedStage
<1>43. ASSUME NEW p \in Procs, FinishSweep(p) PROVE PublishedInv'
  BY <1>43 DEF FinishSweep
<1>44. ASSUME NEW p \in Procs, Crash(p) PROVE PublishedInv'
  BY <1>44 DEF Crash
<1>45. ASSUME NEW path \in Paths, UserWrite(path) PROVE PublishedInv'
  BY <1>45, FreshType DEF UserWrite, Race, InWindow
<1>46. CASE UNCHANGED vars
  BY <1>46 DEF vars
<1>47. QED
  BY <1>1, <1>2, <1>3, <1>4, <1>5, <1>6, <1>7, <1>8, <1>9, <1>10, <1>11,
     <1>12, <1>13, <1>14, <1>15, <1>16, <1>17, <1>18, <1>19, <1>20,
     <1>21, <1>22, <1>23, <1>24, <1>25, <1>26, <1>27, <1>28, <1>29,
     <1>30, <1>31, <1>32, <1>33, <1>34, <1>35, <1>36, <1>37, <1>38,
     <1>39, <1>40, <1>41, <1>42, <1>43, <1>44, <1>45, <1>46
     DEF Next, Step, TrashStep, ListStep, EntryStep, SweepStep

\* No step removes the last copy of a document that is still wanted.
LEMMA SafeNext == IInv /\ [Next]_vars => SafeInv'
<1> SUFFICES ASSUME IInv, [Next]_vars PROVE SafeInv'
  OBVIOUS
<1> USE Shapes, Constants DEF IInv, TypeOK, DiskOK, LocalOK, BoundInv,
        TrashSteps, ListSteps, EntrySteps, disk, local, history, Goto, Return,
        Forget, UnlinkSidecar, AfterRetirement
<1>1. ASSUME NEW p \in Procs, NEW path \in Paths, PrepareSource(p, path) PROVE SafeInv'
  BY <1>1, SMTT(30) DEF PrepareSource, SafeInv, Kept, Provisional, Doomed
<1>2. ASSUME NEW p \in Procs, LockForTrash(p) PROVE SafeInv'
  BY <1>2 DEF LockForTrash, SafeInv, Kept, Provisional, Doomed
<1>3. ASSUME NEW p \in Procs, ClaimFails(p) PROVE SafeInv'
  <2>1. UNCHANGED <<home, files, born, gone, raced>>
    BY <1>3 DEF ClaimFails
  <2>2. \A i \in Ids : Provisional(i)' => Provisional(i)
    BY <1>3 DEF ClaimFails, Provisional
  <2>3. \A q \in Paths : Doomed(q)' => Doomed(q)
    BY <1>3 DEF ClaimFails, Doomed
  <2> QED
    BY <2>1, <2>2, <2>3, Steady
<1>4. ASSUME NEW p \in Procs, ClaimBaseName(p) PROVE SafeInv'
  <2>1. UNCHANGED <<home, files, born, gone, raced>>
    BY <1>4 DEF ClaimBaseName
  <2>2. \A i \in Ids : Provisional(i)' => Provisional(i)
    BY <1>4 DEF ClaimBaseName, Provisional
  <2>3. \A q \in Paths : Doomed(q)' => Doomed(q)
    BY <1>4 DEF ClaimBaseName, Doomed
  <2> QED
    BY <2>1, <2>2, <2>3, Steady
<1>5. ASSUME NEW p \in Procs, ProbeClaim(p) PROVE SafeInv'
  <2>1. UNCHANGED <<home, files, born, gone, raced>>
    BY <1>5 DEF ProbeClaim
  <2>2. \A i \in Ids : Provisional(i)' => Provisional(i)
    BY <1>5 DEF ProbeClaim, Provisional
  <2>3. \A q \in Paths : Doomed(q)' => Doomed(q)
    BY <1>5 DEF ProbeClaim, Doomed
  <2> QED
    BY <2>1, <2>2, <2>3, Steady
<1>6. ASSUME NEW p \in Procs, ClaimCollisionName(p) PROVE SafeInv'
  BY <1>6 DEF ClaimCollisionName, SafeInv, Kept, Provisional, Doomed
<1>7. ASSUME NEW p \in Procs, WriteSidecar(p) PROVE SafeInv'
  BY <1>7 DEF WriteSidecar, SafeInv, Kept, Provisional, Doomed
<1>8. ASSUME NEW p \in Procs, MoveByRename(p) PROVE SafeInv'
  <2> SUFFICES ASSUME NEW d \in born' \ (gone' \cup raced') PROVE Kept(d)'
    BY DEF SafeInv
  <2>a. \A r \in Procs : r # p => pc[r] \notin AlwaysLocked
    BY <1>8, Alone DEF MoveByRename, Locked, AlwaysLocked, RetiresUnlocked
  <2>b. d \in Docs /\ d # None
    BY <1>8 DEF MoveByRename, HistoryOK
  <2>1. entry[p] \in Ids /\ target[p] \in Paths
    BY <1>8 DEF MoveByRename
  <2>2. \A i \in Ids : ~Provisional(i)'
    BY <1>8, <2>a DEF MoveByRename, Provisional, AlwaysLocked, RetiresUnlocked
  <2>3. \A q \in Paths : q # target[p] /\ Doomed(q)' => Doomed(q)
    BY <1>8 DEF MoveByRename, Doomed
  <2>4. files' = [files EXCEPT ![entry[p]] = home[target[p]]] /\ files[entry[p]].doc = None
    BY <1>8 DEF MoveByRename
  <2>5. \A q \in Paths : q # target[p] => home'[q] = home[q]
    BY <1>8, <2>1 DEF MoveByRename
  <2>6. CASE home[target[p]].doc = d
    BY <2>1, <2>2, <2>4, <2>6 DEF Kept
  <2>7. CASE home[target[p]].doc # d
    <3>1. Kept(d)
      BY <1>8 DEF MoveByRename, SafeInv
    <3> QED
      BY <2>1, <2>2, <2>3, <2>4, <2>5, <2>7, <2>b, <3>1 DEF Kept
  <2> QED
    BY <2>6, <2>7
<1>9. ASSUME NEW p \in Procs, RefreshSidecar(p) PROVE SafeInv'
  BY <1>9 DEF RefreshSidecar, SafeInv, Kept, Provisional, Doomed
<1>10. ASSUME NEW p \in Procs, BeginCopy(p) PROVE SafeInv'
  BY <1>10 DEF BeginCopy, SafeInv, Kept, Provisional, Doomed
<1>11. ASSUME NEW p \in Procs, StageCopy(p) PROVE SafeInv'
  BY <1>11 DEF StageCopy, SafeInv, Kept, Provisional, Doomed
<1>12. ASSUME NEW p \in Procs, PublishCopy(p) PROVE SafeInv'
  <2> SUFFICES ASSUME NEW d \in born' \ (gone' \cup raced') PROVE Kept(d)'
    BY DEF SafeInv
  <2>a. \A r \in Procs : r # p => pc[r] \notin AlwaysLocked
    BY <1>12, Alone DEF PublishCopy, Locked, AlwaysLocked, RetiresUnlocked
  <2>b. d \in Docs /\ d # None
    BY <1>12 DEF PublishCopy, HistoryOK
  <2>1. entry[p] \in Ids /\ Kept(d)
    BY <1>12 DEF PublishCopy, SafeInv
  <2>2. \A i \in Ids : i # entry[p] => ~Provisional(i)'
    BY <1>12, <2>a DEF PublishCopy, Provisional, AlwaysLocked, RetiresUnlocked
  <2>3. \A q \in Paths : Doomed(q)' => Doomed(q)
    BY <1>12 DEF PublishCopy, Doomed
  <2>4. files[entry[p]].doc = None /\ home' = home
        /\ \A i \in Ids : i # entry[p] => files'[i] = files[i]
    BY <1>12, <2>1 DEF PublishCopy
  <2> QED
    BY <2>1, <2>2, <2>3, <2>4, <2>b DEF Kept
<1>13. ASSUME NEW p \in Procs, SyncCopy(p) PROVE SafeInv'
  <2> SUFFICES ASSUME NEW d \in born' \ (gone' \cup raced') PROVE Kept(d)'
    BY DEF SafeInv
  <2>a. \A r \in Procs : r # p => pc[r] \notin AlwaysLocked
    BY <1>13, Alone DEF SyncCopy, Locked, AlwaysLocked, RetiresUnlocked
  <2>b. d \in Docs /\ d # None
    BY <1>13 DEF SyncCopy, HistoryOK
  <2>1. entry[p] \in Ids /\ target[p] \in Paths /\ Kept(d) /\ files[entry[p]].doc = snap[p].doc
    BY <1>13 DEF SyncCopy, SafeInv, CopyInv
  <2>2. \A i \in Ids : ~Provisional(i)'
    BY <1>13, <2>a DEF SyncCopy, Provisional, AlwaysLocked, RetiresUnlocked
  <2>3. \A q \in Paths : Doomed(q)' => Doomed(q) \/ (q = target[p] /\ home[q] = snap[p])
    BY <1>13 DEF SyncCopy, Doomed
  <2>4. files' = files /\ home' = home
    BY <1>13 DEF SyncCopy
  <2> QED
    BY <2>1, <2>2, <2>3, <2>4 DEF Kept
<1>14. ASSUME NEW p \in Procs, RetireCheck(p) PROVE SafeInv'
  <2>1. UNCHANGED <<home, files, born, gone, raced>>
    BY <1>14 DEF RetireCheck
  <2>2. \A i \in Ids : Provisional(i)' => Provisional(i)
    BY <1>14 DEF RetireCheck, Provisional
  <2>3. \A q \in Paths : Doomed(q)' => Doomed(q)
    BY <1>14 DEF RetireCheck, Doomed
  <2> QED
    BY <2>1, <2>2, <2>3, Steady
<1>15. ASSUME NEW p \in Procs, RetireUnlink(p) PROVE SafeInv'
  BY <1>15 DEF RetireUnlink, SafeInv, Kept, Provisional, Doomed
<1>16. ASSUME NEW p \in Procs, RelockToVerify(p) PROVE SafeInv'
  BY <1>16 DEF RelockToVerify, SafeInv, Kept, Provisional, Doomed
<1>17. ASSUME NEW p \in Procs, VerifyEntry(p) PROVE SafeInv'
  <2>1. UNCHANGED <<home, files, born, gone, raced>>
    BY <1>17 DEF VerifyEntry
  <2>2. \A i \in Ids : Provisional(i)' => Provisional(i)
    BY <1>17 DEF VerifyEntry, Provisional
  <2>3. \A q \in Paths : Doomed(q)' => Doomed(q)
    BY <1>17 DEF VerifyEntry, Doomed
  <2> QED
    BY <2>1, <2>2, <2>3, Steady
<1>18. ASSUME NEW p \in Procs, FinishTrash(p) PROVE SafeInv'
  BY <1>18 DEF FinishTrash, SafeInv, Kept, Provisional, Doomed
<1>19. ASSUME NEW p \in Procs, RollBack(p) PROVE SafeInv'
  <2>1. UNCHANGED <<home, files, born, gone, raced>>
    BY <1>19 DEF RollBack
  <2>2. \A i \in Ids : Provisional(i)' => Provisional(i)
    BY <1>19 DEF RollBack, Provisional
  <2>3. \A q \in Paths : Doomed(q)' => Doomed(q)
    BY <1>19 DEF RollBack, Doomed
  <2> QED
    BY <2>1, <2>2, <2>3, Steady
<1>20. ASSUME NEW p \in Procs, UndoCopy(p) PROVE SafeInv'
  BY <1>20, SMTT(30) DEF UndoCopy, SafeInv, Kept, Provisional, Doomed
<1>21. ASSUME NEW p \in Procs, NEW id \in Ids, ListEntry(p, id) PROVE SafeInv'
  <2>1. UNCHANGED <<home, files, born, gone, raced>>
    BY <1>21 DEF ListEntry
  <2>2. \A i \in Ids : Provisional(i)' => Provisional(i)
    BY <1>21 DEF ListEntry, Provisional
  <2>3. \A q \in Paths : Doomed(q)' => Doomed(q)
    BY <1>21 DEF ListEntry, Doomed
  <2> QED
    BY <2>1, <2>2, <2>3, Steady
<1>22. ASSUME NEW p \in Procs, StatData(p) PROVE SafeInv'
  BY <1>22 DEF StatData, SafeInv, Kept, Provisional, Doomed
<1>23. ASSUME NEW p \in Procs, ScanOrphan(p) PROVE SafeInv'
  <2>1. UNCHANGED <<home, files, born, gone, raced>>
    BY <1>23 DEF ScanOrphan
  <2>2. \A i \in Ids : Provisional(i)' => Provisional(i)
    BY <1>23 DEF ScanOrphan, Provisional
  <2>3. \A q \in Paths : Doomed(q)' => Doomed(q)
    BY <1>23 DEF ScanOrphan, Doomed
  <2> QED
    BY <2>1, <2>2, <2>3, Steady
<1>24. ASSUME NEW p \in Procs, StatOrphanSidecar(p) PROVE SafeInv'
  BY <1>24 DEF StatOrphanSidecar, SafeInv, Kept, Provisional, Doomed
<1>25. ASSUME NEW p \in Procs, Abandon(p) PROVE SafeInv'
  BY <1>25 DEF Abandon, SafeInv, Kept, Provisional, Doomed
<1>26. ASSUME NEW p \in Procs, NEW path \in Paths, ChooseRestore(p, path) PROVE SafeInv'
  <2>1. UNCHANGED <<home, files, born, gone, raced>>
    BY <1>26 DEF ChooseRestore
  <2>2. \A i \in Ids : Provisional(i)' => Provisional(i)
    BY <1>26 DEF ChooseRestore, Provisional
  <2>3. \A q \in Paths : Doomed(q)' => Doomed(q)
    BY <1>26 DEF ChooseRestore, Doomed
  <2> QED
    BY <2>1, <2>2, <2>3, Steady
<1>27. ASSUME NEW p \in Procs, ChoosePurge(p) PROVE SafeInv'
  BY <1>27 DEF ChoosePurge, SafeInv, Kept, Provisional, Doomed
<1>28. ASSUME NEW p \in Procs, OpenEntry(p) PROVE SafeInv'
  <2>1. UNCHANGED <<home, files, born, gone, raced>>
    BY <1>28 DEF OpenEntry
  <2>2. \A i \in Ids : Provisional(i)' => Provisional(i)
    BY <1>28 DEF OpenEntry, Provisional
  <2>3. \A q \in Paths : Doomed(q)' => Doomed(q)
    BY <1>28 DEF OpenEntry, Doomed
  <2> QED
    BY <2>1, <2>2, <2>3, Steady
<1>29. ASSUME NEW p \in Procs, FlockEntry(p) PROVE SafeInv'
  BY <1>29 DEF FlockEntry, SafeInv, Kept, Provisional, Doomed
<1>30. ASSUME NEW p \in Procs, LockForEntry(p) PROVE SafeInv'
  BY <1>30 DEF LockForEntry, SafeInv, Kept, Provisional, Doomed
<1>31. ASSUME NEW p \in Procs, RefuseStale(p) PROVE SafeInv'
  BY <1>31 DEF RefuseStale, SafeInv, Kept, Provisional, Doomed
<1>32. ASSUME NEW p \in Procs, RestoreByRename(p) PROVE SafeInv'
  <2> SUFFICES ASSUME NEW d \in born' \ (gone' \cup raced') PROVE Kept(d)'
    BY DEF SafeInv
  <2>a. \A r \in Procs : r # p => pc[r] \notin AlwaysLocked
    BY <1>32, Alone DEF RestoreByRename, Locked, AlwaysLocked, RetiresUnlocked
  <2>b. d \in Docs /\ d # None
    BY <1>32 DEF RestoreByRename, HistoryOK
  <2>1. entry[p] \in Ids /\ target[p] \in Paths
    BY <1>32 DEF RestoreByRename, Restoring
  <2>t. PICK t \in Paths : t = target[p]
    BY <2>1
  <2>2. home[target[p]].doc = None /\ files[entry[p]].doc # None
        /\ \A q \in Paths : q # target[p] => home'[q] = home[q]
    BY <1>32, <2>1 DEF RestoreByRename, Current
  <2>3. \A q \in Paths : q # target[p] /\ Doomed(q)' => Doomed(q)
    BY <1>32, <2>2 DEF RestoreByRename, Doomed
  <2>4. \A i \in Ids : i # entry[p] => ~Provisional(i)'
    BY <1>32, <2>a DEF RestoreByRename, Provisional, AlwaysLocked, RetiresUnlocked
  <2>5. CASE files[entry[p]].doc = d
    <3>1. \A r \in Procs : ~(pc[r] = "unlink" /\ target[r] = target[p])
      BY <1>32, <2>5 DEF RestoreByRename, Race, InWindow
    <3>2. home'[target[p]].doc = d
      BY <1>32, <2>1, <2>5 DEF RestoreByRename
    <3>3. ~Doomed(t)'
      <4> SUFFICES ASSUME NEW r \in Procs, target'[r] = target[p],
                          pc'[r] = "unlink" \/ (pc'[r] = "retire" /\ home'[target[p]] = snap'[r])
                   PROVE  FALSE
        BY <1>32, <2>t DEF RestoreByRename, Doomed
      <4>1. pc'[r] = pc[r] /\ target'[r] = target[r] /\ snap'[r] = snap[r]
        BY <1>32 DEF RestoreByRename
      <4>2. pc[r] = "retire"
        BY <3>1, <4>1
      <4> QED
        BY <1>32, <4>1, <4>2 DEF RestoreByRename, CopyInv, Copying
    <3> QED
      BY <2>t, <3>2, <3>3 DEF Kept
  <2>6. CASE files[entry[p]].doc # d
    <3>1. Kept(d)
      BY <1>32 DEF RestoreByRename, SafeInv, Race
    <3>2. \A i \in Ids : i # entry[p] => files'[i] = files[i]
      BY <1>32, <2>1 DEF RestoreByRename
    <3>3. ASSUME NEW i \in Ids, files[i].doc = d, ~Provisional(i) PROVE Kept(d)'
      BY <2>4, <2>6, <3>2, <3>3 DEF Kept
    <3>4. ASSUME NEW q \in Paths, home[q].doc = d, ~Doomed(q) PROVE Kept(d)'
      BY <2>2, <2>3, <2>b, <3>4 DEF Kept
    <3> QED
      BY <3>1, <3>3, <3>4 DEF Kept
  <2> QED
    BY <2>5, <2>6
<1>33. ASSUME NEW p \in Procs, RestoreFails(p) PROVE SafeInv'
  BY <1>33 DEF RestoreFails, SafeInv, Kept, Provisional, Doomed
<1>34. ASSUME NEW p \in Procs, RestoreByCopy(p) PROVE SafeInv'
  <2> SUFFICES ASSUME NEW d \in born' \ (gone' \cup raced') PROVE Kept(d)'
    BY DEF SafeInv
  <2>a. \A r \in Procs : r # p => pc[r] \notin AlwaysLocked
    BY <1>34, Alone DEF RestoreByCopy, Locked, AlwaysLocked, RetiresUnlocked
  <2>b. d \in Docs /\ d # None
    BY <1>34 DEF RestoreByCopy, HistoryOK
  <2>1. entry[p] \in Ids /\ target[p] \in Paths
    BY <1>34 DEF RestoreByCopy, Restoring
  <2>t. PICK t \in Paths : t = target[p]
    BY <2>1
  <2>2. home[target[p]].doc = None /\ files[entry[p]].doc # None
        /\ \A q \in Paths : q # target[p] => home'[q] = home[q]
    BY <1>34, <2>1 DEF RestoreByCopy, Current
  <2>3. \A q \in Paths : q # target[p] /\ Doomed(q)' => Doomed(q)
    BY <1>34, <2>2 DEF RestoreByCopy, Doomed
  <2>4. \A i \in Ids : i # entry[p] => ~Provisional(i)'
    BY <1>34, <2>a DEF RestoreByCopy, Provisional, AlwaysLocked, RetiresUnlocked
  <2>5. CASE files[entry[p]].doc = d
    <3>1. \A r \in Procs : ~(pc[r] = "unlink" /\ target[r] = target[p])
      BY <1>34, <2>5 DEF RestoreByCopy, Race, InWindow
    <3>2. home'[target[p]].doc = d
      BY <1>34, <2>1, <2>5 DEF RestoreByCopy
    <3>3. ~Doomed(t)'
      <4> SUFFICES ASSUME NEW r \in Procs, target'[r] = target[p],
                          pc'[r] = "unlink" \/ (pc'[r] = "retire" /\ home'[target[p]] = snap'[r])
                   PROVE  FALSE
        BY <1>34, <2>t DEF RestoreByCopy, Doomed
      <4>1. pc'[r] = pc[r] /\ target'[r] = target[r] /\ snap'[r] = snap[r]
        BY <1>34 DEF RestoreByCopy
      <4>2. pc[r] = "retire"
        BY <3>1, <4>1
      <4>3. PICK n \in FreeInos :
              home' = [home EXCEPT ![target[p]] = [ino |-> n, doc |-> files[entry[p]].doc]]
        BY <1>34 DEF RestoreByCopy
      <4>4. home'[target[p]].ino = n
        BY <2>1, <4>3
      <4> QED
        BY <4>1, <4>2, <4>4, Fresh DEF Copying
    <3> QED
      BY <2>t, <3>2, <3>3 DEF Kept
  <2>6. CASE files[entry[p]].doc # d
    <3>1. Kept(d)
      BY <1>34 DEF RestoreByCopy, SafeInv, Race
    <3>2. \A i \in Ids : i # entry[p] => files'[i] = files[i]
      BY <1>34, <2>1 DEF RestoreByCopy
    <3>3. ASSUME NEW i \in Ids, files[i].doc = d, ~Provisional(i) PROVE Kept(d)'
      BY <2>4, <2>6, <3>2, <3>3 DEF Kept
    <3>4. ASSUME NEW q \in Paths, home[q].doc = d, ~Doomed(q) PROVE Kept(d)'
      BY <2>2, <2>3, <2>b, <3>4 DEF Kept
    <3> QED
      BY <3>1, <3>3, <3>4 DEF Kept
  <2> QED
    BY <2>5, <2>6
<1>35. ASSUME NEW p \in Procs, RetireRestored(p) PROVE SafeInv'
  <2> SUFFICES ASSUME NEW d \in born' \ (gone' \cup raced') PROVE Kept(d)'
    BY DEF SafeInv
  <2>1. \A i \in Ids : Provisional(i)' => Provisional(i)
    BY <1>35 DEF RetireRestored, Provisional
  <2>2. \A q \in Paths : Doomed(q)' => Doomed(q)
    BY <1>35 DEF RetireRestored, Doomed
  <2>3. Kept(d) /\ d \in Docs /\ d # None /\ d \notin raced
    BY <1>35 DEF RetireRestored, SafeInv, HistoryOK
  <2>4. \A i \in Ids : Provisional(i) \/ files'[i] = files[i]
    <3>1. \A i \in Ids : i = entry[p] => Provisional(i)
      BY <1>35 DEF RetireRestored, Provisional
    <3>2. \A i \in Ids : i # entry[p] => files'[i] = files[i]
      BY <1>35 DEF RetireRestored
    <3> QED
      BY <3>1, <3>2
  <2>5. CASE UNCHANGED home
    BY <2>1, <2>2, <2>3, <2>4, <2>5 DEF Kept
  <2>6. CASE home # home'
    <3>1. /\ home[target[p]].ino = made[p]
          /\ home' = [home EXCEPT ![target[p]] = Absent]
          /\ files' = files
          /\ pc' = [pc EXCEPT ![p] = "idle"]
      BY <1>35, <2>6 DEF RetireRestored
    <3>2. target[p] \in Paths /\ entry[p] \in Ids
      BY <1>35 DEF RetireRestored, Restoring
    <3>3. home[target[p]].doc = d => files[entry[p]].doc = d
      BY <1>35, <2>3, <3>1 DEF RetireRestored, PublishedInv
    <3>i. PICK i \in Ids : i = entry[p]
      BY <3>2
    <3>4. ~Provisional(i)'
      <4>1. \A r \in Procs : r # p => pc[r] \notin AlwaysLocked
        BY <1>35, Alone DEF RetireRestored, Locked, AlwaysLocked, RetiresUnlocked
      <4> QED
        BY <3>1, <4>1, <3>i DEF Provisional, AlwaysLocked, RetiresUnlocked
    <3>5. CASE files[entry[p]].doc = d
      BY <3>1, <3>i, <3>4, <3>5 DEF Kept
    <3>6. CASE files[entry[p]].doc # d
      BY <2>1, <2>2, <2>3, <2>4, <3>1, <3>2, <3>3, <3>6 DEF Kept
    <3> QED
      BY <3>5, <3>6
  <2> QED
    BY <2>5, <2>6
<1>36. ASSUME NEW p \in Procs, RemoveRestoredSidecar(p) PROVE SafeInv'
  BY <1>36 DEF RemoveRestoredSidecar, SafeInv, Kept, Provisional, Doomed
<1>37. ASSUME NEW p \in Procs, PurgeData(p) PROVE SafeInv'
  <2> SUFFICES ASSUME NEW d \in born' \ (gone' \cup raced') PROVE Kept(d)'
    BY DEF SafeInv
  <2>a. \A r \in Procs : r # p => pc[r] \notin AlwaysLocked
    BY <1>37, Alone DEF PurgeData, Locked, AlwaysLocked, RetiresUnlocked
  <2>b. d \in Docs /\ d # None
    BY <1>37 DEF PurgeData, HistoryOK
  <2>1. entry[p] \in Ids /\ Kept(d)
    BY <1>37 DEF PurgeData, SafeInv
  <2>2. files[entry[p]].doc # d \/ files' = files
    <3>1. CASE files[entry[p]] = Absent
      BY <3>1, <2>b
    <3>2. CASE files[entry[p]] # Absent
      <4>1. files[entry[p]].doc \in Docs
        BY <2>1, <3>2
      <4>2. Agreed(p) = files[entry[p]].doc
        BY <1>37, <4>1 DEF PurgeData, Agreed, ListInv, Showing, Current
      <4> QED
        BY <1>37, <3>2, <4>1, <4>2 DEF PurgeData
    <3> QED
      BY <3>1, <3>2
  <2>3. \A i \in Ids : files'[i] = files[i] \/ files[i].doc # d
    BY <1>37, <2>1, <2>2 DEF PurgeData
  <2>4. \A i \in Ids : Provisional(i)' => Provisional(i)
    BY <1>37 DEF PurgeData, Provisional
  <2>5. \A q \in Paths : home'[q] = home[q] /\ (Doomed(q)' => Doomed(q))
    BY <1>37 DEF PurgeData, Doomed
  <2> QED
    BY <2>1, <2>3, <2>4, <2>5 DEF Kept
<1>38. ASSUME NEW p \in Procs, PurgeFails(p) PROVE SafeInv'
  BY <1>38 DEF PurgeFails, SafeInv, Kept, Provisional, Doomed
<1>39. ASSUME NEW p \in Procs, PurgeSidecar(p) PROVE SafeInv'
  <2>1. UNCHANGED <<home, files, born, gone, raced>>
    BY <1>39 DEF PurgeSidecar
  <2>2. \A i \in Ids : Provisional(i)' => Provisional(i)
    BY <1>39 DEF PurgeSidecar, Provisional
  <2>3. \A q \in Paths : Doomed(q)' => Doomed(q)
    BY <1>39 DEF PurgeSidecar, Doomed
  <2> QED
    BY <2>1, <2>2, <2>3, Steady
<1>40. ASSUME NEW p \in Procs, RemoveDetached(p) PROVE SafeInv'
  BY <1>40 DEF RemoveDetached, SafeInv, Kept, Provisional, Doomed
<1>41. ASSUME NEW p \in Procs, TrySweepLock(p) PROVE SafeInv'
  BY <1>41 DEF TrySweepLock, SafeInv, Kept, Provisional, Doomed
<1>42. ASSUME NEW p \in Procs, ClaimAbandonedStage(p) PROVE SafeInv'
  BY <1>42 DEF ClaimAbandonedStage, SafeInv, Kept, Provisional, Doomed
<1>43. ASSUME NEW p \in Procs, FinishSweep(p) PROVE SafeInv'
  BY <1>43 DEF FinishSweep, SafeInv, Kept, Provisional, Doomed
<1>44. ASSUME NEW p \in Procs, Crash(p) PROVE SafeInv'
  BY <1>44 DEF Crash, SafeInv, Kept, Provisional, Doomed
<1>45. ASSUME NEW path \in Paths, UserWrite(path) PROVE SafeInv'
  <2> SUFFICES ASSUME NEW d \in born' \ (gone' \cup raced') PROVE Kept(d)'
    BY DEF SafeInv
  <2>1. PICK e \in Docs \ born, n \in Inos :
          /\ home' = [home EXCEPT ![path] = [ino |-> n, doc |-> e]]
          /\ born' = born \cup {e}
          /\ Race(path, [ino |-> n, doc |-> e])
          /\ gone' = IF \/ home[path] = Absent
                        \/ \E i \in Ids : files[i].doc = home[path].doc /\ ~Provisional(i)
                     THEN gone ELSE gone \cup {home[path].doc}
          /\ UNCHANGED <<files, pc, target, snap, entry>>
    BY <1>45, FreshType DEF UserWrite
  <2>2. \A i \in Ids : files'[i] = files[i] /\ (Provisional(i)' => Provisional(i))
    BY <2>1 DEF Provisional
  <2>3. \A q \in Paths : q # path => home'[q] = home[q] /\ (Doomed(q)' => Doomed(q))
    BY <2>1 DEF Doomed
  <2>4. home'[path].doc = e
    BY <2>1
  <2>5. CASE d = e
    <3>1. ~InWindow(path, n)
      BY <2>1, <2>5 DEF Race
    <3>2. ~Doomed(path)'
      BY <2>1, <2>4, <3>1 DEF InWindow, BornInv, Doomed
    <3> QED
      BY <2>4, <2>5, <3>2 DEF Kept
  <2>6. CASE d # e
    <3>1. d \in Docs /\ Kept(d)
      BY <2>1, <2>6 DEF SafeInv, HistoryOK, Race
    <3>2. CASE home[path].doc = d
      BY <2>1, <2>2, <3>1, <3>2 DEF Kept
    <3>3. CASE home[path].doc # d
      BY <2>2, <2>3, <3>1, <3>3 DEF Kept
    <3> QED
      BY <3>2, <3>3
  <2> QED
    BY <2>5, <2>6
<1>46. CASE UNCHANGED vars
  BY <1>46 DEF vars, SafeInv, Kept, Provisional, Doomed
<1>47. QED
  BY <1>1, <1>2, <1>3, <1>4, <1>5, <1>6, <1>7, <1>8, <1>9, <1>10, <1>11,
     <1>12, <1>13, <1>14, <1>15, <1>16, <1>17, <1>18, <1>19, <1>20,
     <1>21, <1>22, <1>23, <1>24, <1>25, <1>26, <1>27, <1>28, <1>29,
     <1>30, <1>31, <1>32, <1>33, <1>34, <1>35, <1>36, <1>37, <1>38,
     <1>39, <1>40, <1>41, <1>42, <1>43, <1>44, <1>45, <1>46
     DEF Next, Step, TrashStep, ListStep, EntryStep, SweepStep

\* The invariant holds of a root where nobody is at work.
LEMMA InvInit == Init => IInv
<1> SUFFICES ASSUME Init PROVE IInv
  OBVIOUS
<1>1. TypeOK
  BY TypeInit
<1>2. \A p \in Procs : pc[p] = "idle" /\ target[p] = None /\ snap[p] = Absent
  BY DEF Init
<1>3. /\ BoundInv /\ LockInv /\ ClaimInv /\ CopyInv /\ SeenInv /\ ProbeInv
      /\ StaleInv /\ LiveStageKept /\ PublishedInv
  BY <1>2 DEF PublishedInv, BoundInv, LockInv, Locked, AlwaysLocked, RetiresUnlocked, ClaimInv, CopyInv, Copying, SeenInv, Showing,
       ProbeInv, StaleInv, LiveStageKept, TrashSteps, ListSteps, EntrySteps, Restoring
<1>4. UnlistedInv /\ ListInv
  BY <1>2, Shapes DEF UnlistedInv, ListInv, Showing
<1>5. BornInv
  <2>1. \A q \in Paths : home[q].doc \in born \cup {None}
    BY Shapes DEF Init
  <2>2. \A i \in Ids : files[i].doc \in born \cup {None}
    BY Shapes DEF Init
  <2> QED
    BY <1>2, <2>1, <2>2, Shapes DEF BornInv
<1>6. SidecarInv
  BY <1>2 DEF SidecarInv, DataHasSidecar, Init
<1>7. SafeInv
  <2>1. \A i \in Ids : ~Provisional(i)
    BY <1>2 DEF Provisional
  <2>2. \A q \in Paths : ~Doomed(q)
    BY <1>2 DEF Doomed
  <2> QED
    BY <2>1, <2>2 DEF Init, SafeInv, Kept
<1> QED
  BY <1>1, <1>3, <1>4, <1>5, <1>6, <1>7 DEF IInv

\* Every step preserves it.
LEMMA InvNext == IInv /\ [Next]_vars => IInv'
  BY TypeNext, BoundNext, LockNext, BornNext, ClaimNext, CopyNext, UnlistedNext, SeenNext, ProbeNext,
     ListNext, StaleNext, SidecarNext, StageNext, PublishedNext, SafeNext DEF IInv

\* Hence it always holds.
LEMMA Invariance == Spec => []IInv
  BY InvInit, InvNext, PTL DEF Spec

-----------------------------------------------------------------------------
(* What follows.                                                           *)

\* Every variable keeps its type.
THEOREM Typing == Spec => []TypeOK
<1>1. IInv => TypeOK
  BY DEF IInv
<1> QED
  BY <1>1, Invariance, PTL

\* At most one process is between its claim of an ID and its last write there.
THEOREM MutualExclusion ==
    Spec => [](\A p, q \in Procs : Locked(p) /\ Locked(q) => p = q)
<1>1. IInv => \A p, q \in Procs : Locked(p) /\ Locked(q) => p = q
  BY DEF IInv, LockInv
<1> QED
  BY <1>1, Invariance, PTL

\* trash(), restore, purge and the sweeps, run by any number of processes that
\* may be killed at any step and of which some retire without the lock, never
\* lose a document that nobody overwrote, purged or raced into a retirement.
THEOREM DocumentsSurvive == Spec => []NoDocumentLost
<1>1. IInv => NoDocumentLost
  BY DEF IInv, SafeInv, Kept, NoDocumentLost, Present
<1> QED
  BY <1>1, Invariance, PTL

\* A sweep never claims the stage of a copy that is still being made.
THEOREM StagesSurvive == Spec => []LiveStageKept
<1>1. IInv => LiveStageKept
  BY DEF IInv
<1> QED
  BY <1>1, Invariance, PTL

\* Without kills, no entry is ever left with data and no sidecar.
THEOREM SidecarsSurvive == Spec => []DataHasSidecar
<1>1. IInv => DataHasSidecar
  BY DEF IInv, SidecarInv
<1> QED
  BY <1>1, Invariance, PTL

\* A restore delivers what its unlocked, possibly very old listing showed.
THEOREM RestoresDeliver == Spec => RestoreDeliversListed
<1>1. IInv /\ [Next]_vars =>
        [\A p \in Procs :
            pc[p] = "commit" /\ Restoring(p) /\ pc'[p] \in {"rSidecar", "rRetire"}
                => home'[target[p]].doc = snap[p].doc]_vars
  <2> SUFFICES ASSUME IInv, [Next]_vars, NEW r \in Procs, pc[r] = "commit", Restoring(r),
                      pc'[r] \in {"rSidecar", "rRetire"}
               PROVE  home'[target[r]].doc = snap[r].doc
    OBVIOUS
  <2>1. RestoreByRename(r) \/ RestoreByCopy(r)
    <3> USE DEF IInv, TypeOK, LocalOK, Restoring, local, Goto, Return, Forget,
        UnlinkSidecar, AfterRetirement,
                TrashSteps, ListSteps, EntrySteps
    <3>1. ASSUME NEW p \in Procs, NEW path \in Paths, PrepareSource(p, path) PROVE FALSE
      BY <3>1 DEF PrepareSource
    <3>2. ASSUME NEW p \in Procs, LockForTrash(p) PROVE FALSE
      BY <3>2 DEF LockForTrash
    <3>3. ASSUME NEW p \in Procs, ClaimFails(p) PROVE FALSE
      BY <3>3 DEF ClaimFails
    <3>4. ASSUME NEW p \in Procs, ClaimBaseName(p) PROVE FALSE
      BY <3>4 DEF ClaimBaseName
    <3>5. ASSUME NEW p \in Procs, ProbeClaim(p) PROVE FALSE
      BY <3>5 DEF ProbeClaim
    <3>6. ASSUME NEW p \in Procs, ClaimCollisionName(p) PROVE FALSE
      BY <3>6 DEF ClaimCollisionName
    <3>7. ASSUME NEW p \in Procs, WriteSidecar(p) PROVE FALSE
      BY <3>7 DEF WriteSidecar
    <3>8. ASSUME NEW p \in Procs, MoveByRename(p) PROVE FALSE
      BY <3>8 DEF MoveByRename
    <3>9. ASSUME NEW p \in Procs, RefreshSidecar(p) PROVE FALSE
      BY <3>9 DEF RefreshSidecar
    <3>10. ASSUME NEW p \in Procs, BeginCopy(p) PROVE FALSE
      BY <3>10 DEF BeginCopy
    <3>11. ASSUME NEW p \in Procs, StageCopy(p) PROVE FALSE
      BY <3>11 DEF StageCopy
    <3>12. ASSUME NEW p \in Procs, PublishCopy(p) PROVE FALSE
      BY <3>12 DEF PublishCopy
    <3>13. ASSUME NEW p \in Procs, SyncCopy(p) PROVE FALSE
      BY <3>13 DEF SyncCopy
    <3>14. ASSUME NEW p \in Procs, RetireCheck(p) PROVE FALSE
      BY <3>14 DEF RetireCheck
    <3>15. ASSUME NEW p \in Procs, RetireUnlink(p) PROVE FALSE
      BY <3>15 DEF RetireUnlink
    <3>16. ASSUME NEW p \in Procs, RelockToVerify(p) PROVE FALSE
      BY <3>16 DEF RelockToVerify
    <3>17. ASSUME NEW p \in Procs, VerifyEntry(p) PROVE FALSE
      BY <3>17 DEF VerifyEntry
    <3>18. ASSUME NEW p \in Procs, FinishTrash(p) PROVE FALSE
      BY <3>18 DEF FinishTrash
    <3>19. ASSUME NEW p \in Procs, RollBack(p) PROVE FALSE
      BY <3>19 DEF RollBack
    <3>20. ASSUME NEW p \in Procs, UndoCopy(p) PROVE FALSE
      BY <3>20 DEF UndoCopy
    <3>21. ASSUME NEW p \in Procs, NEW id \in Ids, ListEntry(p, id) PROVE FALSE
      BY <3>21 DEF ListEntry
    <3>22. ASSUME NEW p \in Procs, StatData(p) PROVE FALSE
      BY <3>22 DEF StatData
    <3>23. ASSUME NEW p \in Procs, ScanOrphan(p) PROVE FALSE
      BY <3>23 DEF ScanOrphan
    <3>24. ASSUME NEW p \in Procs, StatOrphanSidecar(p) PROVE FALSE
      BY <3>24 DEF StatOrphanSidecar
    <3>25. ASSUME NEW p \in Procs, Abandon(p) PROVE FALSE
      BY <3>25 DEF Abandon
    <3>26. ASSUME NEW p \in Procs, NEW path \in Paths, ChooseRestore(p, path) PROVE FALSE
      BY <3>26 DEF ChooseRestore
    <3>27. ASSUME NEW p \in Procs, ChoosePurge(p) PROVE FALSE
      BY <3>27 DEF ChoosePurge
    <3>28. ASSUME NEW p \in Procs, OpenEntry(p) PROVE FALSE
      BY <3>28 DEF OpenEntry
    <3>29. ASSUME NEW p \in Procs, FlockEntry(p) PROVE FALSE
      BY <3>29 DEF FlockEntry
    <3>30. ASSUME NEW p \in Procs, LockForEntry(p) PROVE FALSE
      BY <3>30 DEF LockForEntry
    <3>31. ASSUME NEW p \in Procs, RefuseStale(p) PROVE FALSE
      BY <3>31 DEF RefuseStale
    <3>32. ASSUME NEW p \in Procs, RestoreByRename(p) PROVE RestoreByRename(r)
      BY <3>32 DEF RestoreByRename
    <3>33. ASSUME NEW p \in Procs, RestoreFails(p) PROVE FALSE
      BY <3>33 DEF RestoreFails
    <3>34. ASSUME NEW p \in Procs, RestoreByCopy(p) PROVE RestoreByCopy(r)
      BY <3>34 DEF RestoreByCopy
    <3>35. ASSUME NEW p \in Procs, RetireRestored(p) PROVE FALSE
      BY <3>35 DEF RetireRestored
    <3>36. ASSUME NEW p \in Procs, RemoveRestoredSidecar(p) PROVE FALSE
      BY <3>36 DEF RemoveRestoredSidecar
    <3>37. ASSUME NEW p \in Procs, PurgeData(p) PROVE FALSE
      BY <3>37 DEF PurgeData
    <3>38. ASSUME NEW p \in Procs, PurgeFails(p) PROVE FALSE
      BY <3>38 DEF PurgeFails
    <3>39. ASSUME NEW p \in Procs, PurgeSidecar(p) PROVE FALSE
      BY <3>39 DEF PurgeSidecar
    <3>40. ASSUME NEW p \in Procs, RemoveDetached(p) PROVE FALSE
      BY <3>40 DEF RemoveDetached
    <3>41. ASSUME NEW p \in Procs, TrySweepLock(p) PROVE FALSE
      BY <3>41 DEF TrySweepLock
    <3>42. ASSUME NEW p \in Procs, ClaimAbandonedStage(p) PROVE FALSE
      BY <3>42 DEF ClaimAbandonedStage
    <3>43. ASSUME NEW p \in Procs, FinishSweep(p) PROVE FALSE
      BY <3>43 DEF FinishSweep
    <3>44. ASSUME NEW p \in Procs, Crash(p) PROVE FALSE
      BY <3>44 DEF Crash
    <3>45. ASSUME NEW path \in Paths, UserWrite(path) PROVE FALSE
      BY <3>45 DEF UserWrite
    <3>46. CASE UNCHANGED vars
      BY <3>46 DEF vars
    <3> QED
      BY <3>1, <3>2, <3>3, <3>4, <3>5, <3>6, <3>7, <3>8, <3>9, <3>10, <3>11, <3>12,
         <3>13, <3>14, <3>15, <3>16, <3>17, <3>18, <3>19, <3>20, <3>21, <3>22,
         <3>23, <3>24, <3>25, <3>26, <3>27, <3>28, <3>29, <3>30, <3>31, <3>32,
         <3>33, <3>34, <3>35, <3>36, <3>37, <3>38, <3>39, <3>40, <3>41, <3>42,
         <3>43, <3>44, <3>45, <3>46
         DEF Next, Step, TrashStep, ListStep, EntryStep, SweepStep
  <2>2. home'[target[r]].doc = files[entry[r]].doc /\ Current(r) /\ target[r] \in Paths
    <3> USE DEF IInv, TypeOK, LocalOK, DiskOK, Restoring
    <3>1. CASE RestoreByRename(r)
      BY <3>1 DEF RestoreByRename
    <3>2. CASE RestoreByCopy(r)
      BY <3>2 DEF RestoreByCopy
    <3> QED
      BY <2>1, <3>1, <3>2
  <2>3. entry[r] \in Ids /\ snap[r].ino # None /\ snap[r] \in Listed
    BY DEF IInv, BoundInv, TypeOK, LocalOK, EntrySteps
  <2>4. files[entry[r]].doc # None
    BY <2>2, <2>3, Shapes, Constants DEF Current, IInv, TypeOK, DiskOK
  <2>5. snap[r].doc # None
    BY <2>2, <2>3 DEF IInv, StaleInv, Current
  <2> QED
    BY <2>2, <2>4, <2>5 DEF IInv, ListInv, Showing, Current
<1> QED
  BY <1>1, Invariance, PTL DEF Spec, RestoreDeliversListed

-----------------------------------------------------------------------------
(* The root implements the promise of TrashBin.  That a document never     *)
(* leaves its last safe place is the invariant above after the step; what is *)
(* shown here is that each step moves one document only, and in one of the *)
(* ways of the promise.                                                    *)

Spots == {"home", "stage", "bin"}
\* Only d may be somewhere else after the step.
Elsewhere(d) == \A e \in Docs : e # d =>
  (InHome(e)' <=> InHome(e)) /\ (InStage(e)' <=> InStage(e)) /\ (InBin(e)' <=> InBin(e))

\* Where a document is, as the promise has it and as the root has it.
LEMMA Where ==
  ASSUME NEW d \in Docs
  PROVE  /\ "home" \in at[d] <=> InHome(d)
         /\ "stage" \in at[d] <=> InStage(d)
         /\ "bin" \in at[d] <=> InBin(d)
         /\ at[d] \subseteq Spots
  BY DEF at, Spots

\* The same after the step.
LEMMA WhereNext ==
  ASSUME NEW d \in Docs
  PROVE  /\ "home" \in at'[d] <=> InHome(d)'
         /\ "stage" \in at'[d] <=> InStage(d)'
         /\ "bin" \in at'[d] <=> InBin(d)'
         /\ at'[d] \subseteq Spots
  BY DEF at, Spots

\* A step that concerns one document changes its places only.
LEMMA OneMoves ==
  ASSUME NEW d \in Docs, Elsewhere(d)
  PROVE  at' = [at EXCEPT ![d] = at'[d]]
<1>1. \A e \in Docs : e # d => at'[e] = at[e]
  <2> SUFFICES ASSUME NEW e \in Docs, e # d PROVE at'[e] = at[e]
    OBVIOUS
  <2>1. \A x : x \in at'[e] <=> x \in at[e]
    BY Where, WhereNext DEF Elsewhere, Spots
  <2> QED
    BY <2>1
<1>2. /\ at = [e \in Docs |-> at[e]]
      /\ at' = [e \in Docs |-> at'[e]]
  BY DEF at
<1> QED
  BY <1>1, <1>2

\* A step that moves no document changes no place.
LEMMA NothingMoves ==
  ASSUME \A d \in Docs :
           (InHome(d)' <=> InHome(d)) /\ (InStage(d)' <=> InStage(d)) /\ (InBin(d)' <=> InBin(d))
  PROVE  at' = at
<1>1. \A e \in Docs : at'[e] = at[e]
  <2> SUFFICES ASSUME NEW e \in Docs PROVE at'[e] = at[e]
    OBVIOUS
  <2>1. \A x : x \in at'[e] <=> x \in at[e]
    BY Where, WhereNext DEF Spots
  <2> QED
    BY <2>1
<1>2. /\ at = [e \in Docs |-> at[e]]
      /\ at' = [e \in Docs |-> at'[e]]
  BY DEF at
<1> QED
  BY <1>1, <1>2

\* Steps of the root that the promise does not see.
LEMMA Still ==
  ASSUME UNCHANGED <<home, files, stages, born, gone, raced>>
  PROVE  UNCHANGED Bin!vars
<1>1. at' = at
  BY NothingMoves DEF InHome, InStage, InBin
<1> QED
  BY <1>1 DEF Bin!vars

\* d goes where its places say, and nothing else goes anywhere.
LEMMA Becomes ==
  ASSUME NEW d \in Docs, Elsewhere(d), NEW S \in SUBSET Spots,
         \A x \in Spots : x \in at'[d] <=> x \in S
  PROVE  at' = [at EXCEPT ![d] = S]
<1>1. \A x : x \in at'[d] <=> x \in S
  BY WhereNext
<1>2. at'[d] = S
  BY <1>1
<1> QED
  BY <1>2, OneMoves

\* A copy of d goes from one place to another, where others of it may be or remain.
LEMMA Shifted ==
  ASSUME NEW d \in Docs, Elsewhere(d), NEW from \in Spots, NEW to \in Spots, from # to,
         from \in at[d], to \in at'[d],
         \A x \in Spots \ {from, to} : x \in at'[d] <=> x \in at[d]
  PROVE  Bin!Shift(d, from, {to})
<1>1. PICK rest \in {at[d], at[d] \ {from}} : \A x \in Spots : x \in at'[d] <=> x \in rest \cup {to}
  <2>1. CASE from \in at'[d]
    BY <2>1
  <2>2. CASE from \notin at'[d]
    BY <2>2
  <2> QED
    BY <2>1, <2>2
<1>2. rest \cup {to} \in SUBSET Spots
  BY Where
<1>3. at' = [at EXCEPT ![d] = rest \cup {to}]
  BY <1>1, <1>2, Becomes
<1> QED
  BY <1>3 DEF Bin!Shift

\* A copy of d goes from one place, where others of it may remain, or none.
LEMMA Left ==
  ASSUME NEW d \in Docs, Elsewhere(d), NEW from \in Spots, from \notin at'[d],
         \A x \in Spots \ {from} : x \in at'[d] <=> x \in at[d]
  PROVE  at' = [at EXCEPT ![d] = at[d] \ {from}]
<1>1. \A x \in Spots : x \in at'[d] <=> x \in at[d] \ {from}
  OBVIOUS
<1>2. at[d] \ {from} \in SUBSET Spots
  BY Where
<1> QED
  BY <1>1, <1>2, Becomes

\* Unless it was given up or raced, d is safe after the step.
LEMMA SafeNow ==
  ASSUME IInv', NEW d \in Docs, d \in born'
  PROVE  at'[d] \cap Bin!Safe # {} \/ d \in gone' \cup raced'
<1>1. NoDocumentLost'
  BY DEF IInv, SafeInv, Kept, NoDocumentLost, Present
<1>2. CASE InHome(d)' \/ InBin(d)'
  BY <1>2, WhereNext DEF Bin!Safe
<1>3. CASE ~(InHome(d)' \/ InBin(d)')
  BY <1>1, <1>3 DEF NoDocumentLost, Present, InHome, InBin
<1> QED
  BY <1>2, <1>3

-----------------------------------------------------------------------------
(* The steps that move documents.                                          *)

\* What a step has to work with.
LEMMA Given ==
  ASSUME IInv, NEW p \in Procs
  PROVE  /\ pc[p] \in TrashSteps => target[p] \in Paths /\ snap[p] \in Node
         /\ pc[p] \in (TrashSteps \ {"lock", "claim", "collide"}) \cup EntrySteps => entry[p] \in Ids
         /\ home \in [Paths -> Node \cup {Absent}]
         /\ files \in [Ids -> Node \cup {Absent}]
  BY DEF IInv, BoundInv, TypeOK, DiskOK

\* Files and paths whose occupant is no document or another one.
LEMMA Vacant ==
  /\ Absent.doc \notin Docs
  /\ \A n \in Node : n.doc \in Docs
  BY Constants DEF Absent, Node

\* Clearing a path concerns its document only.
LEMMA HomeCleared ==
  ASSUME NEW q \in Paths, home \in [Paths -> Node \cup {Absent}],
         home' = [home EXCEPT ![q] = Absent], NEW e \in Docs, e # home[q].doc
  PROVE  InHome(e)' <=> InHome(e)
  BY Vacant DEF InHome

\* Clearing a file of the trash concerns its document only.
LEMMA BinCleared ==
  ASSUME NEW i \in Ids, files \in [Ids -> Node \cup {Absent}],
         files' = [files EXCEPT ![i] = Absent], NEW e \in Docs, e # files[i].doc
  PROVE  InBin(e)' <=> InBin(e)
  BY Vacant DEF InBin

\* Filling a free path concerns its document only.
LEMMA HomeFilled ==
  ASSUME NEW q \in Paths, home \in [Paths -> Node \cup {Absent}], home[q] = Absent,
         NEW n \in Node, home' = [home EXCEPT ![q] = n]
  PROVE  InHome(n.doc)' /\ (\A e \in Docs : e # n.doc => (InHome(e)' <=> InHome(e)))
  BY Vacant DEF InHome

\* Filling a free ID concerns its document only.
LEMMA BinFilled ==
  ASSUME NEW i \in Ids, files \in [Ids -> Node \cup {Absent}], files[i] = Absent,
         NEW n \in Node, files' = [files EXCEPT ![i] = n]
  PROVE  InBin(n.doc)' /\ (\A e \in Docs : e # n.doc => (InBin(e)' <=> InBin(e)))
  BY Vacant DEF InBin

\* A rename into the trash is the step Trash of the promise.
LEMMA Renames ==
  ASSUME IInv, NEW p \in Procs, MoveByRename(p)
  PROVE  \E d \in Docs : Bin!Trash(d)
<1>1. target[p] \in Paths /\ entry[p] \in Ids /\ home[target[p]] \in Node
  BY Given DEF MoveByRename, TrashSteps
<1>2. PICK n \in Node : n = home[target[p]]
  BY <1>1
<1>3. PICK d \in Docs : d = n.doc
  BY Vacant
<1>4. InBin(d)' /\ (\A e \in Docs : e # d => (InBin(e)' <=> InBin(e)))
  BY <1>1, <1>2, <1>3, Given, BinFilled DEF MoveByRename
<1>5. \A e \in Docs : e # d => (InHome(e)' <=> InHome(e))
  BY <1>1, <1>2, <1>3, Given, HomeCleared DEF MoveByRename
<1>6. \A e \in Docs : InStage(e)' <=> InStage(e)
  BY DEF InStage, MoveByRename
<1>7. InHome(d)
  BY <1>1, <1>2, <1>3 DEF InHome
<1>8. Elsewhere(d) /\ "home" \in at[d] /\ "bin" \in at'[d]
      /\ ("stage" \in at'[d] <=> "stage" \in at[d])
  BY <1>4, <1>5, <1>6, <1>7, Where, WhereNext DEF Elsewhere
<1>9. Bin!Shift(d, "home", {"bin"})
  BY <1>8, Shifted DEF Spots
<1> QED
  BY <1>8, <1>9 DEF Bin!Trash, Bin!Known, MoveByRename, history

\* A copy to the staging area is the step Stage.
LEMMA Stages ==
  ASSUME IInv, NEW p \in Procs, StageCopy(p)
  PROVE  \E d \in Docs : Bin!Stage(d)
<1>1. target[p] \in Paths /\ snap[p] \in Node /\ home[target[p]] = snap[p]
  BY Given DEF StageCopy, TrashSteps
<1>2. PICK d \in Docs : d = snap[p].doc
  BY <1>1, Vacant
<1>3. PICK s : s.node.doc = d /\ stages' = stages \cup {s}
  <2>1. PICK n \in FreeInos : stages' = stages \cup {[owner |-> p, node |-> [ino |-> n, doc |-> d]]}
    BY <1>2 DEF StageCopy
  <2>2. [owner |-> p, node |-> [ino |-> n, doc |-> d]].node.doc = d
    OBVIOUS
  <2> QED
    BY <2>1, <2>2
<1>4. InStage(d)' /\ (\A e \in Docs : e # d => (InStage(e)' <=> InStage(e)))
  BY <1>3 DEF InStage
<1>5. \A e \in Docs : (InHome(e)' <=> InHome(e)) /\ (InBin(e)' <=> InBin(e))
  BY DEF InHome, InBin, StageCopy
<1>6. InHome(d)
  BY <1>1, <1>2 DEF InHome
<1>7. Elsewhere(d) /\ "home" \in at[d]
      /\ (\A x \in Spots : x \in at'[d] <=> x \in at[d] \cup {"stage"})
  BY <1>4, <1>5, <1>6, Where, WhereNext DEF Elsewhere, Spots
<1>8. at' = [at EXCEPT ![d] = at[d] \cup {"stage"}]
  BY <1>7, Where, Becomes DEF Spots
<1> QED
  BY <1>7, <1>8 DEF Bin!Stage, Bin!Copied, Bin!Known, StageCopy, history

\* The rename of a copy into the trash is the step Publish.
LEMMA Publishes ==
  ASSUME IInv, NEW p \in Procs, PublishCopy(p)
  PROVE  \E d \in Docs : Bin!Publish(d)
<1>1. entry[p] \in Ids /\ snap[p] \in Node /\ made[p] \in Inos
  BY Given DEF PublishCopy, TrashSteps, IInv, BoundInv
<1>2. PICK n \in Node : n = OwnStage(p).node /\ n.doc = snap[p].doc
  <2>1. OwnStage(p).node = [ino |-> made[p], doc |-> snap[p].doc]
    BY DEF OwnStage
  <2>2. snap[p].doc \in Docs
    BY <1>1, Vacant
  <2> QED
    BY <1>1, <2>1, <2>2, Shapes
<1>3. PICK d \in Docs : d = n.doc
  BY Vacant
<1>4. InBin(d)' /\ (\A e \in Docs : e # d => (InBin(e)' <=> InBin(e)))
  BY <1>1, <1>2, <1>3, Given, BinFilled DEF PublishCopy
<1>5. InStage(d) /\ (\A e \in Docs : e # d => (InStage(e)' <=> InStage(e)))
  BY <1>2, <1>3 DEF InStage, PublishCopy
<1>6. \A e \in Docs : InHome(e)' <=> InHome(e)
  BY DEF InHome, PublishCopy
<1>7. Elsewhere(d) /\ "stage" \in at[d] /\ "bin" \in at'[d]
      /\ ("home" \in at'[d] <=> "home" \in at[d])
  BY <1>4, <1>5, <1>6, Where, WhereNext DEF Elsewhere
<1>8. Bin!Shift(d, "stage", {"bin"})
  BY <1>7, Shifted DEF Spots
<1> QED
  BY <1>7, <1>8 DEF Bin!Publish, Bin!Known, PublishCopy, history

\* What a restore has to work with.
LEMMA Restorable ==
  ASSUME IInv, NEW p \in Procs, pc[p] = "commit", Restoring(p), Current(p)
  PROVE  target[p] \in Paths /\ entry[p] \in Ids /\ files[entry[p]] \in Node
<1>1. entry[p] \in Ids /\ target[p] \in Paths /\ snap[p].ino # None
  BY DEF IInv, BoundInv, TypeOK, LocalOK, Restoring, EntrySteps
<1>2. files[entry[p]].ino # None
  BY <1>1 DEF Current
<1>3. files[entry[p]] \in Node \cup {Absent}
  BY <1>1, Given
<1> QED
  BY <1>1, <1>2, <1>3 DEF Absent

\* A restore by rename is the step Restore.
LEMMA RenamesBack ==
  ASSUME IInv, NEW p \in Procs, RestoreByRename(p)
  PROVE  \E d \in Docs : Bin!Restore(d)
<1>1. target[p] \in Paths /\ entry[p] \in Ids /\ files[entry[p]] \in Node
  BY Restorable DEF RestoreByRename
<1>2. PICK n \in Node : n = files[entry[p]]
  BY <1>1
<1>3. PICK d \in Docs : d = n.doc
  BY Vacant
<1>4. InHome(d)' /\ (\A e \in Docs : e # d => (InHome(e)' <=> InHome(e)))
  BY <1>1, <1>2, <1>3, Given, HomeFilled DEF RestoreByRename
<1>5. \A e \in Docs : e # d => (InBin(e)' <=> InBin(e))
  BY <1>1, <1>2, <1>3, Given, BinCleared DEF RestoreByRename
<1>6. \A e \in Docs : InStage(e)' <=> InStage(e)
  BY DEF InStage, RestoreByRename
<1>7. InBin(d)
  BY <1>1, <1>2, <1>3 DEF InBin
<1>8. Elsewhere(d) /\ "bin" \in at[d] /\ "home" \in at'[d]
      /\ ("stage" \in at'[d] <=> "stage" \in at[d])
  BY <1>4, <1>5, <1>6, <1>7, Where, WhereNext DEF Elsewhere
<1>9. Bin!Shift(d, "bin", {"home"})
  BY <1>8, Shifted DEF Spots
<1>10. raced' \in {raced, raced \cup {d}} /\ UNCHANGED <<born, gone>>
  BY <1>2, <1>3 DEF RestoreByRename, Race
<1> QED
  BY <1>8, <1>9, <1>10 DEF Bin!Restore

\* A restore by copy is the step Restore as well.
LEMMA CopiesBack ==
  ASSUME IInv, NEW p \in Procs, RestoreByCopy(p)
  PROVE  \E d \in Docs : Bin!Restore(d)
<1>1. target[p] \in Paths /\ entry[p] \in Ids /\ files[entry[p]] \in Node
  BY Restorable DEF RestoreByCopy
<1>2. PICK d \in Docs : d = files[entry[p]].doc
  BY <1>1, Vacant
<1>3. PICK n \in Node : /\ n.doc = d /\ home' = [home EXCEPT ![target[p]] = n]
                       /\ Race(target[p], n)
  <2>1. PICK ino \in FreeInos : /\ home' = [home EXCEPT ![target[p]] = [ino |-> ino, doc |-> d]]
                               /\ Race(target[p], [ino |-> ino, doc |-> d])
    BY <1>2 DEF RestoreByCopy
  <2>2. [ino |-> ino, doc |-> d] \in Node /\ [ino |-> ino, doc |-> d].doc = d
    BY FreshType, Shapes
  <2> QED
    BY <2>1, <2>2
<1>4. InHome(d)' /\ (\A e \in Docs : e # d => (InHome(e)' <=> InHome(e)))
  BY <1>1, <1>3, Given, HomeFilled DEF RestoreByCopy
<1>5. \A e \in Docs : (InBin(e)' <=> InBin(e)) /\ (InStage(e)' <=> InStage(e))
  BY DEF InStage, InBin, RestoreByCopy
<1>6. InBin(d)
  BY <1>1, <1>2 DEF InBin
<1>7. Elsewhere(d) /\ "bin" \in at[d] /\ "home" \in at'[d]
      /\ ("stage" \in at'[d] <=> "stage" \in at[d])
  BY <1>4, <1>5, <1>6, Where, WhereNext DEF Elsewhere
<1>8. Bin!Shift(d, "bin", {"home"})
  BY <1>7, Shifted DEF Spots
<1>9. raced' \in {raced, raced \cup {d}} /\ UNCHANGED <<born, gone>>
  BY <1>3 DEF RestoreByCopy, Race
<1> QED
  BY <1>7, <1>8, <1>9 DEF Bin!Restore

\* What a user path named is unlinked: the invariant has the document elsewhere.
LEMMA HomeLeft ==
  ASSUME IInv, IInv', NEW q \in Paths, home' = [home EXCEPT ![q] = Absent],
         UNCHANGED <<files, stages, history>>
  PROVE  (\E d \in Docs : Bin!Retire(d)) \/ UNCHANGED Bin!vars
<1>1. home \in [Paths -> Node \cup {Absent}]
  BY DEF IInv, TypeOK, DiskOK
<1>2. \A e \in Docs : (InBin(e)' <=> InBin(e)) /\ (InStage(e)' <=> InStage(e))
  BY DEF InStage, InBin
<1>3. \A e \in Docs : InHome(e)' => InHome(e)
  BY <1>1, Vacant DEF InHome
<1>4. CASE \A e \in Docs : InHome(e)' <=> InHome(e)
  BY <1>2, <1>4, NothingMoves DEF Bin!vars, history
<1>5. CASE \E d \in Docs : InHome(d) /\ ~InHome(d)'
  <2>1. PICK d \in Docs : InHome(d) /\ ~InHome(d)'
    BY <1>5
  <2>2. d = home[q].doc
    BY <1>1, <2>1, HomeCleared
  <2>3. Elsewhere(d)
    BY <1>1, <1>2, <2>2, HomeCleared DEF Elsewhere
  <2>4. at' = [at EXCEPT ![d] = at[d] \ {"home"}]
    BY <1>2, <2>1, <2>3, Left, Where, WhereNext DEF Spots
  <2>5. d \in born'
    BY <2>1, <2>2, Constants DEF IInv, BornInv, history
  <2>6. at'[d] \cap Bin!Safe # {} \/ d \in gone' \cup raced
    BY <2>5, SafeNow DEF history
  <2> QED
    BY <2>1, <2>4, <2>6, Where DEF Bin!Retire, Bin!Drop, Bin!Known, history
<1> QED
  BY <1>3, <1>4, <1>5

\* ... and so when what files/<id> named is unlinked.
LEMMA BinLeft ==
  ASSUME IInv, IInv', NEW i \in Ids, files' = [files EXCEPT ![i] = Absent],
         UNCHANGED <<home, stages, history>>
  PROVE  (\E d \in Docs : Bin!Withdraw(d)) \/ UNCHANGED Bin!vars
<1>1. files \in [Ids -> Node \cup {Absent}]
  BY DEF IInv, TypeOK, DiskOK
<1>2. \A e \in Docs : (InHome(e)' <=> InHome(e)) /\ (InStage(e)' <=> InStage(e))
  BY DEF InStage, InHome
<1>3. \A e \in Docs : InBin(e)' => InBin(e)
  BY <1>1, Vacant DEF InBin
<1>4. CASE \A e \in Docs : InBin(e)' <=> InBin(e)
  BY <1>2, <1>4, NothingMoves DEF Bin!vars, history
<1>5. CASE \E d \in Docs : InBin(d) /\ ~InBin(d)'
  <2>1. PICK d \in Docs : InBin(d) /\ ~InBin(d)'
    BY <1>5
  <2>2. d = files[i].doc
    BY <1>1, <2>1, BinCleared
  <2>3. Elsewhere(d)
    BY <1>1, <1>2, <2>2, BinCleared DEF Elsewhere
  <2>4. at' = [at EXCEPT ![d] = at[d] \ {"bin"}]
    BY <1>2, <2>1, <2>3, Left, Where, WhereNext DEF Spots
  <2>5. d \in born'
    BY <2>1, <2>2, Constants DEF IInv, BornInv, history
  <2>6. at'[d] \cap Bin!Safe # {} \/ d \in gone' \cup raced
    BY <2>5, SafeNow DEF history
  <2> QED
    BY <2>1, <2>4, <2>6, Where DEF Bin!Withdraw, Bin!Drop, Bin!Known, history
<1> QED
  BY <1>3, <1>4, <1>5

\* ... and when an unpublished copy is given up, which nobody relies on.
LEMMA StageLeft ==
  ASSUME IInv, NEW s, stages' = stages \ {s}, UNCHANGED <<home, files, history>>
  PROVE  (\E d \in Docs : Bin!Abandon(d)) \/ UNCHANGED Bin!vars
<1>2. \A e \in Docs : (InHome(e)' <=> InHome(e)) /\ (InBin(e)' <=> InBin(e))
  BY DEF InBin, InHome
<1>3. \A e \in Docs : (InStage(e)' => InStage(e)) /\ (e # s.node.doc => (InStage(e)' <=> InStage(e)))
  BY DEF InStage
<1>4. CASE \A e \in Docs : InStage(e)' <=> InStage(e)
  BY <1>2, <1>4, NothingMoves DEF Bin!vars, history
<1>5. CASE \E d \in Docs : InStage(d) /\ ~InStage(d)'
  <2>1. PICK d \in Docs : InStage(d) /\ ~InStage(d)'
    BY <1>5
  <2>3. Elsewhere(d)
    BY <1>2, <1>3, <2>1 DEF Elsewhere
  <2>4. at' = [at EXCEPT ![d] = at[d] \ {"stage"}]
    BY <1>2, <2>1, <2>3, Left, Where, WhereNext DEF Spots
  <2> QED
    BY <2>1, <2>4, Where DEF Bin!Abandon, Bin!Known, history
<1> QED
  BY <1>3, <1>4, <1>5

\* The unlink of a source that was copied is the step Retire, or nothing is left to do.
LEMMA Unlinks ==
  ASSUME IInv, IInv', NEW p \in Procs, RetireUnlink(p)
  PROVE  [Bin!Next]_(Bin!vars)
<1>1. target[p] \in Paths
  BY Given DEF RetireUnlink, TrashSteps
<1>2. (\E d \in Docs : Bin!Retire(d)) \/ UNCHANGED Bin!vars
  BY <1>1, HomeLeft DEF RetireUnlink
<1> QED
  BY <1>2 DEF Bin!Next

\* A copy taken back is the step Withdraw, or nothing.
LEMMA Undoes ==
  ASSUME IInv, IInv', NEW p \in Procs, UndoCopy(p)
  PROVE  [Bin!Next]_(Bin!vars)
<1>1. entry[p] \in Ids
  BY Given DEF UndoCopy, TrashSteps
<1>2. CASE files' = [files EXCEPT ![entry[p]] = Absent]
  BY <1>1, <1>2, BinLeft DEF UndoCopy, Bin!Next
<1>3. CASE files' = files
  BY <1>3, Still DEF UndoCopy, history
<1> QED
  BY <1>2, <1>3 DEF UndoCopy

\* A stage that is rolled back is the step Abandon.
LEMMA RollsBack ==
  ASSUME IInv, NEW p \in Procs, RollBack(p)
  PROVE  [Bin!Next]_(Bin!vars)
<1>1. PICK s : s = OwnStage(p)
  OBVIOUS
<1>2. (\E d \in Docs : Bin!Abandon(d)) \/ UNCHANGED Bin!vars
  BY <1>1, StageLeft DEF RollBack
<1> QED
  BY <1>2 DEF Bin!Next

\* A stage that is swept after a crash is the step Abandon as well.
LEMMA Sweeps ==
  ASSUME IInv, NEW p \in Procs, ClaimAbandonedStage(p)
  PROVE  [Bin!Next]_(Bin!vars)
<1>1. PICK s : stages' = stages \ {s}
  BY DEF ClaimAbandonedStage
<1>2. (\E d \in Docs : Bin!Abandon(d)) \/ UNCHANGED Bin!vars
  BY <1>1, StageLeft DEF ClaimAbandonedStage
<1> QED
  BY <1>2 DEF Bin!Next

\* The data of an entry restored by copy is retired.
LEMMA Replaces ==
  ASSUME IInv, IInv', NEW p \in Procs, RetireRestored(p)
  PROVE  [Bin!Next]_(Bin!vars)
<1>1. entry[p] \in Ids
  BY Given DEF RetireRestored, EntrySteps
<1>2. target[p] \in Paths
  BY DEF RetireRestored, IInv, BoundInv, TypeOK, LocalOK, Restoring
<1>3. CASE files' = [files EXCEPT ![entry[p]] = Absent] /\ home' = home
  BY <1>1, <1>3, BinLeft DEF RetireRestored, Bin!Next
<1>4. CASE home' = [home EXCEPT ![target[p]] = Absent] /\ files' = files
  BY <1>2, <1>4, HomeLeft DEF RetireRestored, Bin!Next
<1>5. CASE home' = home /\ files' = files
  BY <1>5, Still DEF RetireRestored, history
<1> QED
  BY <1>3, <1>4, <1>5 DEF RetireRestored

\* Data that passes validation under a listed ID is what the listing showed.
LEMMA Purges ==
  ASSUME IInv, NEW p \in Procs, PurgeData(p)
  PROVE  [Bin!Next]_(Bin!vars)
<1>1. entry[p] \in Ids
  BY Given DEF PurgeData, EntrySteps
<1>2. CASE files[entry[p]] # Absent
  <2>1. files[entry[p]] \in Node
    BY <1>1, <1>2, Given
  <2>2. PICK d \in Docs : d = files[entry[p]].doc
    BY <2>1, Vacant
  <2>3. Agreed(p) = d
    <3>1. d # None
      BY <2>2, Constants
    <3>2. snap[p].doc # None => files[entry[p]].doc \in {snap[p].doc, None}
      BY DEF PurgeData, IInv, ListInv, Showing, Current
    <3> QED
      BY <2>2, <3>1, <3>2 DEF Agreed
  <2>4. files' = [files EXCEPT ![entry[p]] = Absent] /\ gone' = gone \cup {d}
    BY <1>2, <2>2, <2>3 DEF PurgeData
  <2>5. \A e \in Docs : (InHome(e)' <=> InHome(e)) /\ (InStage(e)' <=> InStage(e))
    BY DEF InStage, InHome, PurgeData
  <2>6. \A e \in Docs : e # d => (InBin(e)' <=> InBin(e))
    BY <1>1, <2>2, <2>4, Given, BinCleared
  <2>7. InBin(d)
    BY <1>1, <2>2 DEF InBin
  <2>8. Elsewhere(d)
    BY <2>5, <2>6 DEF Elsewhere
  <2>9. PICK rest \in {at[d], at[d] \ {"bin"}} : at' = [at EXCEPT ![d] = rest]
    <3>1. CASE InBin(d)'
      <4>1. \A e \in Docs :
              (InHome(e)' <=> InHome(e)) /\ (InStage(e)' <=> InStage(e)) /\ (InBin(e)' <=> InBin(e))
        BY <2>5, <2>6, <2>7, <3>1
      <4>2. at' = [at EXCEPT ![d] = at[d]]
        BY <4>1, NothingMoves DEF at
      <4> QED
        BY <4>2
    <3>2. CASE ~InBin(d)'
      BY <2>5, <2>8, <3>2, Left, Where, WhereNext DEF Spots
    <3> QED
      BY <3>1, <3>2
  <2>10. Bin!Purge(d)
    BY <2>4, <2>7, <2>9, Where DEF Bin!Purge, PurgeData
  <2> QED
    BY <2>10 DEF Bin!Next
<1>3. CASE files[entry[p]] = Absent
  BY <1>3, Still DEF PurgeData
<1> QED
  BY <1>2, <1>3

\* A write of the user is the step Write.
LEMMA Writes ==
  ASSUME IInv, NEW path \in Paths, UserWrite(path)
  PROVE  [Bin!Next]_(Bin!vars)
<1>1. PICK d \in Docs \ born, n \in FreeInos \cup ({home[path].ino} \cap Inos) :
        /\ home' = [home EXCEPT ![path] = [ino |-> n, doc |-> d]]
        /\ born' = born \cup {d}
        /\ gone' = IF home[path] = Absent \/ (\E i \in Ids : files[i].doc = home[path].doc /\ ~Provisional(i))
                   THEN gone ELSE gone \cup {home[path].doc}
        /\ Race(path, [ino |-> n, doc |-> d])
        /\ UNCHANGED <<files, stages>>
  BY DEF UserWrite
<1>2. home \in [Paths -> Node \cup {Absent}] /\ home[path].doc \in born \cup {None}
  BY DEF IInv, TypeOK, DiskOK, BornInv
<1>3. PICK over \in SUBSET Docs : over = {home[path].doc} \cap Docs
  OBVIOUS
<1>4. PICK left \in SUBSET over : \A e \in over : e \in left <=> ~InHome(e)'
  <2>1. {e \in over : ~InHome(e)'} \in SUBSET over
    OBVIOUS
  <2> QED
    BY <2>1
<1>5. d \notin over
  BY <1>1, <1>2, <1>3, Constants
<1>6. \A e \in Docs : (InBin(e)' <=> InBin(e)) /\ (InStage(e)' <=> InStage(e))
  BY <1>1 DEF InStage, InBin
<1>7. InHome(d)'
  BY <1>1, <1>2 DEF InHome
<1>8. \A e \in Docs : e # d => (InHome(e)' <=> InHome(e) /\ e \notin left)
  BY <1>1, <1>2, <1>3, <1>4 DEF InHome
<1>9. at' = [e \in Docs |-> IF e = d THEN at[e] \cup {"home"}
                            ELSE IF e \in left THEN at[e] \ {"home"} ELSE at[e]]
  <2>1. \A e \in Docs : at'[e] = IF e = d THEN at[e] \cup {"home"}
                               ELSE IF e \in left THEN at[e] \ {"home"} ELSE at[e]
    <3> SUFFICES ASSUME NEW e \in Docs
                 PROVE  at'[e] = IF e = d THEN at[e] \cup {"home"}
                                 ELSE IF e \in left THEN at[e] \ {"home"} ELSE at[e]
      OBVIOUS
    <3>1. \A x : x \in at'[e] <=> x \in (IF e = d THEN at[e] \cup {"home"}
                                     ELSE IF e \in left THEN at[e] \ {"home"} ELSE at[e])
      BY <1>6, <1>7, <1>8, Where, WhereNext DEF Spots
    <3> QED
      BY <3>1
  <2>2. at' = [e \in Docs |-> at'[e]]
    BY DEF at
  <2> QED
    BY <2>1, <2>2
<1>10. gone' \in {gone, gone \cup over}
  <2>1. home[path] # Absent => over = {home[path].doc}
    BY <1>2, <1>3, Vacant
  <2> QED
    BY <1>1, <2>1
<1>11. \A e \in left : "bin" \in at[e] \/ e \in gone' \cup raced
  <2> SUFFICES ASSUME NEW e \in left PROVE "bin" \in at[e] \/ e \in gone' \cup raced
    OBVIOUS
  <2>1. e \in Docs /\ e = home[path].doc /\ home[path] # Absent
    BY <1>3, Vacant
  <2> QED
    BY <1>1, <2>1, Where DEF InBin
<1>12. raced' \in {raced, raced \cup {d}}
  BY <1>1 DEF Race
<1>13. Bin!Write(d, over)
  BY <1>1, <1>9, <1>10, <1>11, <1>12 DEF Bin!Write
<1> QED
  BY <1>13 DEF Bin!Next

-----------------------------------------------------------------------------
(* Every step, and the whole behaviour.                                    *)

\* Every step of the root is a step of the promise, or a stutter.
LEMMA StepSimulates == IInv /\ IInv' /\ [Next]_vars => [Bin!Next]_(Bin!vars)
<1> SUFFICES ASSUME IInv, IInv', [Next]_vars PROVE [Bin!Next]_(Bin!vars)
  OBVIOUS
<1>1. ASSUME NEW p \in Procs, NEW path \in Paths, PrepareSource(p, path) PROVE [Bin!Next]_(Bin!vars)
  BY <1>1, Still DEF history, disk, PrepareSource
<1>2. ASSUME NEW p \in Procs, LockForTrash(p) PROVE [Bin!Next]_(Bin!vars)
  BY <1>2, Still DEF history, disk, LockForTrash
<1>3. ASSUME NEW p \in Procs, ClaimFails(p) PROVE [Bin!Next]_(Bin!vars)
  BY <1>3, Still DEF history, disk, ClaimFails
<1>4. ASSUME NEW p \in Procs, ClaimBaseName(p) PROVE [Bin!Next]_(Bin!vars)
  BY <1>4, Still DEF history, disk, ClaimBaseName
<1>5. ASSUME NEW p \in Procs, ProbeClaim(p) PROVE [Bin!Next]_(Bin!vars)
  BY <1>5, Still DEF history, disk, ProbeClaim
<1>6. ASSUME NEW p \in Procs, ClaimCollisionName(p) PROVE [Bin!Next]_(Bin!vars)
  BY <1>6, Still DEF history, disk, ClaimCollisionName
<1>7. ASSUME NEW p \in Procs, WriteSidecar(p) PROVE [Bin!Next]_(Bin!vars)
  BY <1>7, Still DEF history, disk, WriteSidecar
<1>8. ASSUME NEW p \in Procs, MoveByRename(p) PROVE [Bin!Next]_(Bin!vars)
  BY <1>8, Renames DEF Bin!Next
<1>9. ASSUME NEW p \in Procs, RefreshSidecar(p) PROVE [Bin!Next]_(Bin!vars)
  BY <1>9, Still DEF history, disk, RefreshSidecar
<1>10. ASSUME NEW p \in Procs, BeginCopy(p) PROVE [Bin!Next]_(Bin!vars)
  BY <1>10, Still DEF history, disk, BeginCopy
<1>11. ASSUME NEW p \in Procs, StageCopy(p) PROVE [Bin!Next]_(Bin!vars)
  BY <1>11, Stages DEF Bin!Next
<1>12. ASSUME NEW p \in Procs, PublishCopy(p) PROVE [Bin!Next]_(Bin!vars)
  BY <1>12, Publishes DEF Bin!Next
<1>13. ASSUME NEW p \in Procs, SyncCopy(p) PROVE [Bin!Next]_(Bin!vars)
  BY <1>13, Still DEF history, disk, SyncCopy
<1>14. ASSUME NEW p \in Procs, RetireCheck(p) PROVE [Bin!Next]_(Bin!vars)
  BY <1>14, Still DEF history, disk, RetireCheck
<1>15. ASSUME NEW p \in Procs, RetireUnlink(p) PROVE [Bin!Next]_(Bin!vars)
  BY <1>15, Unlinks
<1>16. ASSUME NEW p \in Procs, RelockToVerify(p) PROVE [Bin!Next]_(Bin!vars)
  BY <1>16, Still DEF history, disk, RelockToVerify
<1>17. ASSUME NEW p \in Procs, VerifyEntry(p) PROVE [Bin!Next]_(Bin!vars)
  BY <1>17, Still DEF history, disk, VerifyEntry
<1>18. ASSUME NEW p \in Procs, FinishTrash(p) PROVE [Bin!Next]_(Bin!vars)
  BY <1>18, Still DEF history, disk, FinishTrash
<1>19. ASSUME NEW p \in Procs, RollBack(p) PROVE [Bin!Next]_(Bin!vars)
  BY <1>19, RollsBack
<1>20. ASSUME NEW p \in Procs, UndoCopy(p) PROVE [Bin!Next]_(Bin!vars)
  BY <1>20, Undoes
<1>21. ASSUME NEW p \in Procs, NEW id \in Ids, ListEntry(p, id) PROVE [Bin!Next]_(Bin!vars)
  BY <1>21, Still DEF history, disk, ListEntry
<1>22. ASSUME NEW p \in Procs, StatData(p) PROVE [Bin!Next]_(Bin!vars)
  BY <1>22, Still DEF history, disk, StatData
<1>23. ASSUME NEW p \in Procs, ScanOrphan(p) PROVE [Bin!Next]_(Bin!vars)
  BY <1>23, Still DEF history, disk, ScanOrphan
<1>24. ASSUME NEW p \in Procs, StatOrphanSidecar(p) PROVE [Bin!Next]_(Bin!vars)
  BY <1>24, Still DEF history, disk, StatOrphanSidecar
<1>25. ASSUME NEW p \in Procs, Abandon(p) PROVE [Bin!Next]_(Bin!vars)
  BY <1>25, Still DEF history, disk, Abandon
<1>26. ASSUME NEW p \in Procs, NEW path \in Paths, ChooseRestore(p, path) PROVE [Bin!Next]_(Bin!vars)
  BY <1>26, Still DEF history, disk, ChooseRestore
<1>27. ASSUME NEW p \in Procs, ChoosePurge(p) PROVE [Bin!Next]_(Bin!vars)
  BY <1>27, Still DEF history, disk, ChoosePurge
<1>28. ASSUME NEW p \in Procs, OpenEntry(p) PROVE [Bin!Next]_(Bin!vars)
  BY <1>28, Still DEF history, disk, OpenEntry
<1>29. ASSUME NEW p \in Procs, FlockEntry(p) PROVE [Bin!Next]_(Bin!vars)
  BY <1>29, Still DEF history, disk, FlockEntry
<1>30. ASSUME NEW p \in Procs, LockForEntry(p) PROVE [Bin!Next]_(Bin!vars)
  BY <1>30, Still DEF history, disk, LockForEntry
<1>31. ASSUME NEW p \in Procs, RefuseStale(p) PROVE [Bin!Next]_(Bin!vars)
  BY <1>31, Still DEF history, disk, RefuseStale
<1>32. ASSUME NEW p \in Procs, RestoreByRename(p) PROVE [Bin!Next]_(Bin!vars)
  BY <1>32, RenamesBack DEF Bin!Next
<1>33. ASSUME NEW p \in Procs, RestoreFails(p) PROVE [Bin!Next]_(Bin!vars)
  BY <1>33, Still DEF history, disk, RestoreFails
<1>34. ASSUME NEW p \in Procs, RestoreByCopy(p) PROVE [Bin!Next]_(Bin!vars)
  BY <1>34, CopiesBack DEF Bin!Next
<1>35. ASSUME NEW p \in Procs, RetireRestored(p) PROVE [Bin!Next]_(Bin!vars)
  BY <1>35, Replaces
<1>36. ASSUME NEW p \in Procs, RemoveRestoredSidecar(p) PROVE [Bin!Next]_(Bin!vars)
  BY <1>36, Still DEF history, disk, RemoveRestoredSidecar
<1>37. ASSUME NEW p \in Procs, PurgeData(p) PROVE [Bin!Next]_(Bin!vars)
  BY <1>37, Purges
<1>38. ASSUME NEW p \in Procs, PurgeFails(p) PROVE [Bin!Next]_(Bin!vars)
  BY <1>38, Still DEF history, disk, PurgeFails
<1>39. ASSUME NEW p \in Procs, PurgeSidecar(p) PROVE [Bin!Next]_(Bin!vars)
  BY <1>39, Still DEF history, disk, PurgeSidecar
<1>40. ASSUME NEW p \in Procs, RemoveDetached(p) PROVE [Bin!Next]_(Bin!vars)
  BY <1>40, Still DEF history, disk, RemoveDetached
<1>41. ASSUME NEW p \in Procs, TrySweepLock(p) PROVE [Bin!Next]_(Bin!vars)
  BY <1>41, Still DEF history, disk, TrySweepLock
<1>42. ASSUME NEW p \in Procs, ClaimAbandonedStage(p) PROVE [Bin!Next]_(Bin!vars)
  BY <1>42, Sweeps
<1>43. ASSUME NEW p \in Procs, FinishSweep(p) PROVE [Bin!Next]_(Bin!vars)
  BY <1>43, Still DEF history, disk, FinishSweep
<1>44. ASSUME NEW p \in Procs, Crash(p) PROVE [Bin!Next]_(Bin!vars)
  BY <1>44, Still DEF history, disk, Crash
<1>45. ASSUME NEW path \in Paths, UserWrite(path) PROVE [Bin!Next]_(Bin!vars)
  BY <1>45, Writes
<1>46. CASE UNCHANGED vars
  BY <1>46, Still DEF vars, disk, history
<1> QED
  BY <1>1, <1>2, <1>3, <1>4, <1>5, <1>6, <1>7, <1>8, <1>9, <1>10, <1>11, <1>12, <1>13, <1>14, <1>15, <1>16, <1>17, <1>18, <1>19, <1>20, <1>21, <1>22, <1>23, <1>24, <1>25, <1>26, <1>27, <1>28, <1>29, <1>30, <1>31, <1>32, <1>33, <1>34, <1>35, <1>36, <1>37, <1>38, <1>39, <1>40, <1>41, <1>42, <1>43, <1>44, <1>45, <1>46
     DEF Next, Step, TrashStep, ListStep, EntryStep, SweepStep

\* Every root at the start is one of the promise.
LEMMA InitSimulates == Init => Bin!Init
<1> SUFFICES ASSUME Init PROVE Bin!Init
  OBVIOUS
<1>1. \A d \in Docs : ~InStage(d)
  BY DEF Init, InStage
<1>2. at \in [Docs -> SUBSET Bin!Places]
  BY DEF at, Bin!Places
<1>3. \A d \in Docs : d \in born <=> at[d] # {}
  <2> SUFFICES ASSUME NEW d \in Docs PROVE d \in born <=> InHome(d) \/ InBin(d)
    BY <1>1, Where DEF Spots
  <2>1. /\ \A q \in Paths : home[q].doc = d => home[q] # Absent
        /\ \A i \in Ids : files[i].doc = d => files[i] # Absent
    BY Vacant
  <2> QED
    BY <2>1 DEF Init, InHome, InBin
<1>4. born \subseteq Docs
  BY Vacant DEF Init
<1>5. born = {d \in Docs : at[d] # {}}
  BY <1>3, <1>4
<1> QED
  BY <1>1, <1>2, <1>5, Where DEF Init, Bin!Init

\* Trashing, restoring, purging and sweeping by any number of processes over one
\* root, with failing unlinks, kills, reused IDs and inode numbers, and the user
\* writing at any moment, are steps of the promise of TrashBin: a document goes
\* from one place to the next, is given up only by its user, and does not return.
THEOREM Refinement == Spec => Refines
<1>1. Init => Bin!Init
  BY InitSimulates
<1>2. IInv /\ [Next]_vars => IInv'
  BY InvNext
<1>3. IInv /\ IInv' /\ [Next]_vars => [Bin!Next]_(Bin!vars)
  BY StepSimulates
<1>4. Init => IInv
  BY InvInit
<1> QED
  BY <1>1, <1>2, <1>3, <1>4, PTL DEF Spec, Refines, Bin!Spec

-----------------------------------------------------------------------------
(* What follows from the promise, and so for the root.                     *)

\* The types of the promise.
LEMMA BinTyping == Bin!Spec => []Bin!TypeOK
<1>1. Bin!Init => Bin!TypeOK
  BY DEF Bin!Init, Bin!TypeOK, Bin!Places
<1>2. Bin!TypeOK /\ [Bin!Next]_(Bin!vars) => Bin!TypeOK'
  <2> SUFFICES ASSUME Bin!TypeOK, [Bin!Next]_(Bin!vars) PROVE Bin!TypeOK'
    OBVIOUS
  <2> USE DEF Bin!TypeOK, Bin!Places
  <2>1. ASSUME NEW d \in Docs, NEW over \in SUBSET Docs, Bin!Write(d, over) PROVE Bin!TypeOK'
    BY <2>1 DEF Bin!Write
  <2>2. ASSUME NEW d \in Docs, Bin!Trash(d) PROVE Bin!TypeOK'
    BY <2>2 DEF Bin!Trash, Bin!Shift, Bin!Known
  <2>3. ASSUME NEW d \in Docs, Bin!Stage(d) PROVE Bin!TypeOK'
    BY <2>3 DEF Bin!Stage, Bin!Copied, Bin!Known
  <2>4. ASSUME NEW d \in Docs, Bin!Publish(d) PROVE Bin!TypeOK'
    BY <2>4 DEF Bin!Publish, Bin!Shift, Bin!Known
  <2>5. ASSUME NEW d \in Docs, Bin!Abandon(d) PROVE Bin!TypeOK'
    BY <2>5 DEF Bin!Abandon, Bin!Known
  <2>6. ASSUME NEW d \in Docs, Bin!Restore(d) PROVE Bin!TypeOK'
    BY <2>6 DEF Bin!Restore, Bin!Shift
  <2>7. ASSUME NEW d \in Docs, Bin!Retire(d) PROVE Bin!TypeOK'
    BY <2>7 DEF Bin!Retire, Bin!Drop, Bin!Known
  <2>8. ASSUME NEW d \in Docs, Bin!Withdraw(d) PROVE Bin!TypeOK'
    BY <2>8 DEF Bin!Withdraw, Bin!Drop, Bin!Known
  <2>9. ASSUME NEW d \in Docs, Bin!Purge(d) PROVE Bin!TypeOK'
    BY <2>9 DEF Bin!Purge
  <2>10. CASE UNCHANGED Bin!vars
    BY <2>10 DEF Bin!vars
  <2> QED
    BY <2>1, <2>2, <2>3, <2>4, <2>5, <2>6, <2>7, <2>8, <2>9, <2>10 DEF Bin!Next
<1> QED
  BY <1>1, <1>2, PTL DEF Bin!Spec

\* A document that was neither given up nor written into a window stays in a safe place.
LEMMA KeptNext == Bin!TypeOK /\ Bin!Kept /\ [Bin!Next]_(Bin!vars) => Bin!Kept'
<1> SUFFICES ASSUME Bin!TypeOK, Bin!Kept, [Bin!Next]_(Bin!vars) PROVE Bin!Kept'
  OBVIOUS
<1> USE DEF Bin!TypeOK, Bin!Kept, Bin!Safe, Bin!Places
<1>1. ASSUME NEW d \in Docs, NEW over \in SUBSET Docs, Bin!Write(d, over) PROVE Bin!Kept'
  <2> SUFFICES ASSUME NEW e \in born' \ (gone' \cup raced') PROVE at'[e] \cap Bin!Safe # {}
    OBVIOUS
  <2>1. CASE e = d
    BY <1>1, <2>1 DEF Bin!Write
  <2>2. CASE e # d
    BY <1>1, <2>2 DEF Bin!Write
  <2> QED
    BY <2>1, <2>2
<1>2. ASSUME NEW d \in Docs, Bin!Trash(d) PROVE Bin!Kept'
  BY <1>2 DEF Bin!Trash, Bin!Shift, Bin!Known
<1>3. ASSUME NEW d \in Docs, Bin!Stage(d) PROVE Bin!Kept'
  BY <1>3 DEF Bin!Stage, Bin!Copied, Bin!Known
<1>4. ASSUME NEW d \in Docs, Bin!Publish(d) PROVE Bin!Kept'
  BY <1>4 DEF Bin!Publish, Bin!Shift, Bin!Known
<1>5. ASSUME NEW d \in Docs, Bin!Abandon(d) PROVE Bin!Kept'
  BY <1>5 DEF Bin!Abandon, Bin!Known
<1>6. ASSUME NEW d \in Docs, Bin!Restore(d) PROVE Bin!Kept'
  BY <1>6 DEF Bin!Restore, Bin!Shift
<1>7. ASSUME NEW d \in Docs, Bin!Retire(d) PROVE Bin!Kept'
  BY <1>7 DEF Bin!Retire, Bin!Drop, Bin!Known
<1>8. ASSUME NEW d \in Docs, Bin!Withdraw(d) PROVE Bin!Kept'
  BY <1>8 DEF Bin!Withdraw, Bin!Drop, Bin!Known
<1>9. ASSUME NEW d \in Docs, Bin!Purge(d) PROVE Bin!Kept'
  BY <1>9 DEF Bin!Purge
<1>10. CASE UNCHANGED Bin!vars
  BY <1>10 DEF Bin!vars
<1> QED
  BY <1>1, <1>2, <1>3, <1>4, <1>5, <1>6, <1>7, <1>8, <1>9, <1>10 DEF Bin!Next

\* The promise is enough: a root that keeps it loses no document that was neither given up
\* nor written into a window.
THEOREM PromiseKeeps == Bin!Spec => []Bin!Kept
<1>1. Bin!Init => Bin!Kept
  <2> SUFFICES ASSUME Bin!Init, NEW d \in born PROVE at[d] \cap Bin!Safe # {}
    BY DEF Bin!Kept
  <2>1. d \in Docs /\ at[d] # {} /\ at[d] \subseteq Bin!Places /\ "stage" \notin at[d]
    BY DEF Bin!Init
  <2>2. PICK x : x \in at[d]
    BY <2>1
  <2> QED
    BY <2>1, <2>2 DEF Bin!Safe, Bin!Places
<1> QED
  BY <1>1, BinTyping, KeptNext, PTL DEF Bin!Spec

\* Under the promise what is lost everywhere, purged or overwritten, never comes back.
THEOREM PromiseIsFinal == Bin!Spec => Bin!NeverBack
<1>1. Bin!TypeOK /\ [Bin!Next]_(Bin!vars) => [\A d \in born : at[d] = {} => at'[d] = {}]_(Bin!vars)
  <2> SUFFICES ASSUME Bin!TypeOK, Bin!Next, NEW e \in born, at[e] = {} PROVE at'[e] = {}
    OBVIOUS
  <2> USE DEF Bin!TypeOK, Bin!Places
  <2>1. ASSUME NEW d \in Docs, NEW over \in SUBSET Docs, Bin!Write(d, over) PROVE at'[e] = {}
    BY <2>1 DEF Bin!Write
  <2>2. ASSUME NEW d \in Docs, Bin!Trash(d) PROVE at'[e] = {}
    BY <2>2 DEF Bin!Trash, Bin!Shift, Bin!Known
  <2>3. ASSUME NEW d \in Docs, Bin!Stage(d) PROVE at'[e] = {}
    BY <2>3 DEF Bin!Stage, Bin!Copied, Bin!Known
  <2>4. ASSUME NEW d \in Docs, Bin!Publish(d) PROVE at'[e] = {}
    BY <2>4 DEF Bin!Publish, Bin!Shift, Bin!Known
  <2>5. ASSUME NEW d \in Docs, Bin!Abandon(d) PROVE at'[e] = {}
    BY <2>5 DEF Bin!Abandon, Bin!Known
  <2>6. ASSUME NEW d \in Docs, Bin!Restore(d) PROVE at'[e] = {}
    BY <2>6 DEF Bin!Restore, Bin!Shift
  <2>7. ASSUME NEW d \in Docs, Bin!Retire(d) PROVE at'[e] = {}
    BY <2>7 DEF Bin!Retire, Bin!Drop, Bin!Known
  <2>8. ASSUME NEW d \in Docs, Bin!Withdraw(d) PROVE at'[e] = {}
    BY <2>8 DEF Bin!Withdraw, Bin!Drop, Bin!Known
  <2>9. ASSUME NEW d \in Docs, Bin!Purge(d) PROVE at'[e] = {}
    BY <2>9 DEF Bin!Purge
  <2> QED
    BY <2>1, <2>2, <2>3, <2>4, <2>5, <2>6, <2>7, <2>8, <2>9 DEF Bin!Next
<1> QED
  BY <1>1, BinTyping, PTL DEF Bin!Spec, Bin!NeverBack

\* No root, however its processes interleave, fail and die, loses a document that was neither
\* given up nor written into a window, and what a purge or an overwrite has taken from its last
\* place does not come back by a restore, a sweep or a copy that was still under way.
THEOREM RootKeepsPromise == Spec => []Bin!Kept /\ Bin!NeverBack
  BY Refinement, PromiseKeeps, PromiseIsFinal, PTL DEF Refines
=============================================================================
