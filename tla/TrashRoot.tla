------------------------------ MODULE TrashRoot ------------------------------
(***************************************************************************)
(* One trash root shared by several processes: the publication protocol of *)
(* crates/trashd-common/src/store.rs.                                      *)
(*                                                                         *)
(* A root is files/<id>, info/<id>.trashinfo and the private .trashd/      *)
(* directory.  Every process (trash CLI, rm shim, seccomp supervisor)      *)
(* mutates it under one advisory lock, .trashd/store.lock, which the       *)
(* kernel releases when the holder dies.  Listings take no lock at all: a  *)
(* process selects an entry from what it read and later asks, under the    *)
(* lock, whether that is still the entry on disk.  Between any two system  *)
(* calls another process may run, the user may write to a watched path,    *)
(* or the process may be killed.                                           *)
(*                                                                         *)
(* A document stands for one content a file or directory ever had.  Inode  *)
(* numbers are reused as soon as they are free; sidecar versions (device,  *)
(* inode, size, mtime and ctime with nanoseconds) are not reused while     *)
(* somebody remembers them.                                                *)
(***************************************************************************)
EXTENDS Naturals, FiniteSets

CONSTANTS
    Procs,      \* the processes that use this root
    Filtered,   \* those that run under an active seccomp filter
    Pinned,     \* those that trash below a pinned directory (trash_at)
    Paths,      \* the user's paths
    Foreign,    \* the paths on another filesystem than the root
    Ids,        \* trash entry IDs
    BaseName,   \* BaseName[path]: the ID made of the path's file name
    Docs,       \* documents
    DirDocs,    \* the documents that are directories
    Inos,       \* inode numbers of data
    Vers,       \* sidecar versions
    MaxOps,     \* bound: operations started
    MaxCrashes, \* bound: processes killed
    None        \* no value

ASSUME Constants ==
    /\ Filtered \subseteq Procs
    /\ Foreign \subseteq Paths
    /\ DirDocs \subseteq Docs
    /\ BaseName \in [Paths -> Ids]
    /\ MaxOps \in Nat
    /\ MaxCrashes \in Nat
    /\ None \notin Procs \cup Paths \cup Ids \cup Docs \cup Inos \cup Vers

ASSUME PinnedProcs == Pinned \subseteq Procs

VARIABLES
    \* The disk.
    home,       \* what each user path names
    files,      \* what files/<id> names
    info,       \* the sidecar info/<id>.trashinfo
    stages,     \* unpublished copies in .trashd/, with their creator
    purging,    \* trees detached into .trashd/purging-*
    \* The locks.
    rootLock,   \* the holder of store.lock
    entryLock,  \* the holder of the flock on each data inode
    \* The processes.
    pc,         \* where each one is
    target,     \* path being trashed, or restored to; None in a purge
    snap,       \* the source, or the listed data: [ino, doc]
    entry,      \* the entry ID
    seen,       \* the listed sidecar version
    held,       \* the data inode opened for locking
    made,       \* the inode this process created
    \* Budgets and history.
    ops, crashes,
    born,       \* documents that have existed
    gone,       \* documents somebody chose to give up
    raced       \* documents written into an open retirement window

disk == <<home, files, info, stages, purging>>
locks == <<rootLock, entryLock>>
local == <<target, snap, entry, seen, held, made>>
budget == <<ops, crashes>>
history == <<born, gone, raced>>
vars == <<disk, locks, pc, local, budget, history>>

Node == [ino: Inos, doc: Docs]
Absent == [ino |-> None, doc |-> None]
Listed == [ino: Inos \cup {None}, doc: Docs \cup {None}]

Sidecar == [ver: Vers, full: BOOLEAN]
NoSidecar == [ver |-> None, full |-> FALSE]

TrashSteps ==
    {"lock", "claim", "probe", "collide", "write", "move", "copy", "publish",
     "sync", "undo", "retire", "unlink", "relock", "verify", "refresh", "finish"}
ListSteps == {"data", "scan", "sidecar", "chosen", "orphan"}
EntrySteps ==
    {"open", "flock", "elock", "commit", "rRetire", "rSidecar", "pSidecar"}
Steps == {"idle", "sweep"} \cup TrashSteps \cup ListSteps \cup EntrySteps

\* The steps a process takes with store.lock held.
AlwaysLocked ==
    {"claim", "probe", "collide", "write", "move", "copy", "publish", "sync",
     "undo", "verify", "refresh", "commit", "rRetire", "rSidecar", "pSidecar", "sweep"}
\* trash() drops the lock to retire under a filter; trash_at() never does.
RetiresUnlocked(p) == p \in Filtered \ Pinned
Locked(p) ==
    \/ pc[p] \in AlwaysLocked
    \/ pc[p] \in {"retire", "unlink"} /\ ~RetiresUnlocked(p)

DiskOK ==
    /\ home \in [Paths -> Node \cup {Absent}]
    /\ files \in [Ids -> Node \cup {Absent}]
    /\ info \in [Ids -> Sidecar \cup {NoSidecar}]
    /\ stages \subseteq [owner: Procs, node: Node]
    /\ purging \subseteq Node

LocksOK ==
    /\ rootLock \in Procs \cup {None}
    /\ entryLock \in [Inos -> Procs \cup {None}]

LocalOK ==
    /\ target \in [Procs -> Paths \cup {None}]
    /\ snap \in [Procs -> Listed]
    /\ entry \in [Procs -> Ids \cup {None}]
    /\ seen \in [Procs -> Vers \cup {None}]
    /\ held \in [Procs -> Inos \cup {None}]
    /\ made \in [Procs -> Inos \cup {None}]

HistoryOK ==
    /\ ops \in 0..MaxOps /\ crashes \in 0..MaxCrashes
    /\ born \subseteq Docs /\ gone \subseteq Docs /\ raced \subseteq Docs

TypeOK == DiskOK /\ LocksOK /\ LocalOK /\ HistoryOK /\ pc \in [Procs -> Steps]

-----------------------------------------------------------------------------
(* Inode numbers and sidecar versions.                                     *)

\* A source version is compared with its timestamps (same_source_version),
\* so a number reused meanwhile cannot pass for it; the number a listing
\* remembers is compared bare and may well have been reused.
Copying(p) == pc[p] \in {"copy", "publish", "sync", "retire", "unlink"}
UsedInos ==
    {home[q].ino : q \in Paths} \cup {files[i].ino : i \in Ids}
        \cup {s.node.ino : s \in stages} \cup {n.ino : n \in purging}
        \cup {held[p] : p \in Procs}
        \cup {snap[p].ino : p \in {q \in Procs : Copying(q)}}
FreeInos == Inos \ UsedInos

\* Versions are only compared for equality, so one that nothing on disk has
\* and nobody remembers stands for all of those.
FreshVers ==
    LET free == Vers \ ({info[i].ver : i \in Ids} \cup {seen[p] : p \in Procs})
    IN  {v \in free : v = CHOOSE w \in free : TRUE}

\* No two names hold the same inode or the same document.
Distinct(nodes, others) ==
    /\ \A k, l \in DOMAIN nodes : k # l /\ nodes[k] # Absent =>
           nodes[k].ino # nodes[l].ino /\ nodes[k].doc # nodes[l].doc
    /\ \A k \in DOMAIN nodes, l \in DOMAIN others : nodes[k] # Absent =>
           nodes[k].ino # others[l].ino /\ nodes[k].doc # others[l].doc

\* A root with entries from earlier sessions, and nobody at work.
Init ==
    /\ home \in [Paths -> Node \cup {Absent}]
    /\ files \in [Ids -> Node \cup {Absent}]
    /\ Distinct(home, files) /\ Distinct(files, home)
    /\ \E v \in [Ids -> Vers] :
           /\ v = CHOOSE w \in [Ids -> Vers] : \A i, k \in Ids : i # k => w[i] # w[k]
           /\ info = [i \in Ids |-> IF files[i] = Absent THEN NoSidecar
                                    ELSE [ver |-> v[i], full |-> TRUE]]
    /\ stages = {} /\ purging = {}
    /\ rootLock = None
    /\ entryLock = [n \in Inos |-> None]
    /\ pc = [p \in Procs |-> "idle"]
    /\ target = [p \in Procs |-> None]
    /\ snap = [p \in Procs |-> Absent]
    /\ entry = [p \in Procs |-> None]
    /\ seen = [p \in Procs |-> None]
    /\ held = [p \in Procs |-> None]
    /\ made = [p \in Procs |-> None]
    /\ ops = 0 /\ crashes = 0
    /\ born = {home[q].doc : q \in {r \in Paths : home[r] # Absent}}
               \cup {files[i].doc : i \in {k \in Ids : files[k] # Absent}}
    /\ gone = {} /\ raced = {}

Goto(p, step) == pc' = [pc EXCEPT ![p] = step]

\* The process is done with its operation and forgets what it knew.
Forget(p) ==
    /\ target' = [target EXCEPT ![p] = None]
    /\ snap' = [snap EXCEPT ![p] = Absent]
    /\ entry' = [entry EXCEPT ![p] = None]
    /\ seen' = [seen EXCEPT ![p] = None]
    /\ held' = [held EXCEPT ![p] = None]
    /\ made' = [made EXCEPT ![p] = None]

ReleaseRoot(p) == rootLock' = IF rootLock = p THEN None ELSE rootLock
ReleaseEntry(p) ==
    entryLock' = [n \in Inos |-> IF entryLock[n] = p THEN None ELSE entryLock[n]]

\* Return to the caller: descriptors close, and with them both locks go.
Return(p) == Goto(p, "idle") /\ Forget(p) /\ ReleaseRoot(p) /\ ReleaseEntry(p)

StartOperation == ops < MaxOps /\ ops' = ops + 1 /\ UNCHANGED crashes

TakeRoot(p) == rootLock = None /\ rootLock' = p

\* Callers ignore or report a sidecar they cannot unlink; it stays.
UnlinkSidecar(id) ==
    \/ info' = [info EXCEPT ![id] = NoSidecar]
    \/ UNCHANGED info

-----------------------------------------------------------------------------
(* trash(): the sidecar first, then the data.                              *)

\* Stat, measure and hash the source before any lock is taken.
PrepareSource(p, path) ==
    /\ pc[p] = "idle" /\ home[path] # Absent
    /\ StartOperation
    /\ Goto(p, "lock")
    /\ target' = [target EXCEPT ![p] = path]
    /\ snap' = [snap EXCEPT ![p] = home[path]]
    /\ UNCHANGED <<disk, locks, entry, seen, held, made, history>>

LockForTrash(p) ==
    /\ pc[p] = "lock"
    /\ TakeRoot(p)
    /\ Goto(p, "claim")
    /\ UNCHANGED <<disk, entryLock, local, budget, history>>

\* The supervisor's target died while it waited (may_commit), or no sidecar
\* can be created.
ClaimFails(p) ==
    /\ pc[p] \in {"claim", "collide"}
    /\ Return(p)
    /\ UNCHANGED <<disk, budget, history>>

\* O_EXCL creation of an empty sidecar named after the file.
ClaimBaseName(p) ==
    LET id == BaseName[target[p]] IN
    /\ pc[p] = "claim"
    /\ IF info[id] = NoSidecar
       THEN /\ \E v \in FreshVers :
                   info' = [info EXCEPT ![id] = [ver |-> v, full |-> FALSE]]
            /\ entry' = [entry EXCEPT ![p] = id]
            /\ Goto(p, "probe")
       ELSE Goto(p, "collide") /\ UNCHANGED <<info, entry>>
    /\ UNCHANGED <<home, files, stages, purging, locks,
                   target, snap, seen, held, made, budget, history>>

\* Data without a sidecar may hold the name: release the claim.
ProbeClaim(p) ==
    /\ pc[p] = "probe"
    /\ IF files[entry[p]] = Absent
       THEN Goto(p, "write") /\ UNCHANGED info
       ELSE /\ info' = [info EXCEPT ![entry[p]] = NoSidecar]
            /\ Goto(p, "collide")
    /\ UNCHANGED <<home, files, stages, purging, locks, local, budget, history>>

\* A timestamp, then a process-wide sequence number, makes the name unique.
ClaimCollisionName(p) ==
    /\ pc[p] = "collide"
    /\ \E id \in Ids, v \in FreshVers :
           /\ info[id] = NoSidecar /\ files[id] = Absent
           /\ \A path \in Paths : id # BaseName[path]
           /\ info' = [info EXCEPT ![id] = [ver |-> v, full |-> FALSE]]
           /\ entry' = [entry EXCEPT ![p] = id]
    /\ Goto(p, "write")
    /\ UNCHANGED <<home, files, stages, purging, locks,
                   target, snap, seen, held, made, budget, history>>

WriteSidecar(p) ==
    /\ pc[p] = "write"
    /\ \E v \in FreshVers :
           info' = [info EXCEPT ![entry[p]] = [ver |-> v, full |-> TRUE]]
    /\ Goto(p, "move")
    /\ UNCHANGED <<home, files, stages, purging, locks, local, budget, history>>

\* RENAME_NOREPLACE moves whatever the path names by now.
MoveByRename(p) ==
    /\ pc[p] = "move" /\ target[p] \notin Foreign
    /\ home[target[p]] # Absent /\ files[entry[p]] = Absent
    /\ files' = [files EXCEPT ![entry[p]] = home[target[p]]]
    /\ home' = [home EXCEPT ![target[p]] = Absent]
    /\ Goto(p, "refresh")
    /\ UNCHANGED <<info, stages, purging, locks, local, budget, history>>

\* The sidecar must describe the inode that landed, not the one prepared.
RefreshSidecar(p) ==
    /\ pc[p] = "refresh"
    /\ IF files[entry[p]].ino # snap[p].ino
       THEN \E v \in FreshVers :
                info' = [info EXCEPT ![entry[p]] = [ver |-> v, full |-> TRUE]]
       ELSE UNCHANGED info
    /\ Goto(p, "finish")
    /\ UNCHANGED <<home, files, stages, purging, locks, local, budget, history>>

\* EXDEV: copy, unless the path names another inode than the one prepared.
\* trash_at() goes by the version it prepared, trash() by that of now.
BeginCopy(p) ==
    /\ pc[p] = "move" /\ target[p] \in Foreign
    /\ IF p \in Pinned
       THEN UNCHANGED snap
       ELSE /\ home[target[p]].ino = snap[p].ino
            /\ snap' = [snap EXCEPT ![p] = home[target[p]]]
    /\ Goto(p, "copy")
    /\ UNCHANGED <<disk, locks, target, entry, seen, held, made, budget, history>>

\* Copy into .trashd/; a source that changed under the copy fails it.
StageCopy(p) ==
    /\ pc[p] = "copy" /\ home[target[p]] = snap[p]
    /\ \E n \in FreeInos :
           /\ stages' = stages \cup {[owner |-> p, node |-> [ino |-> n, doc |-> snap[p].doc]]}
           /\ made' = [made EXCEPT ![p] = n]
    /\ Goto(p, "publish")
    /\ UNCHANGED <<home, files, info, purging, locks,
                   target, snap, entry, seen, held, budget, history>>

OwnStage(p) == [owner |-> p, node |-> [ino |-> made[p], doc |-> snap[p].doc]]

PublishCopy(p) ==
    /\ pc[p] = "publish"
    /\ OwnStage(p) \in stages /\ files[entry[p]] = Absent
    /\ files' = [files EXCEPT ![entry[p]] = OwnStage(p).node]
    /\ stages' = stages \ {OwnStage(p)}
    /\ Goto(p, "sync")
    /\ UNCHANGED <<home, info, purging, locks, local, budget, history>>

\* The copy is durable.  Under a seccomp filter the lock is dropped here,
\* because removing the source may trap into a supervisor that needs it.
SyncCopy(p) ==
    /\ pc[p] = "sync"
    /\ IF RetiresUnlocked(p) THEN ReleaseRoot(p) ELSE UNCHANGED rootLock
    /\ Goto(p, "retire")
    /\ UNCHANGED <<disk, entryLock, local, budget, history>>

AfterRetirement(p) == IF RetiresUnlocked(p) THEN "relock" ELSE "finish"

\* Mutant of RetireCheck: a source modified in place passes for the copied one.
RetireCheckInodeOnly(p) ==
    /\ pc[p] = "retire"
    /\ \/ /\ home[target[p]].ino = snap[p].ino
          /\ Goto(p, "unlink") /\ UNCHANGED <<locks, local>>
       \/ /\ home[target[p]] = Absent
          /\ Goto(p, AfterRetirement(p)) /\ UNCHANGED <<locks, local>>
       \/ Return(p)
    /\ UNCHANGED <<disk, budget, history>>

\* Stat the source: only the version that was copied is removed.
RetireCheck(p) ==
    /\ pc[p] = "retire"
    /\ \/ /\ home[target[p]] = snap[p]
          /\ Goto(p, "unlink") /\ UNCHANGED <<locks, local>>
       \/ /\ home[target[p]] = Absent
          /\ Goto(p, AfterRetirement(p)) /\ UNCHANGED <<locks, local>>
       \/ \* Changed, or not removable: reported, and the entry is kept.
          Return(p)
    /\ UNCHANGED <<disk, budget, history>>

\* The unlink itself names the path again.
RetireUnlink(p) ==
    /\ pc[p] = "unlink"
    /\ home' = [home EXCEPT ![target[p]] = Absent]
    /\ Goto(p, AfterRetirement(p))
    /\ UNCHANGED <<files, info, stages, purging, locks, local, budget, history>>

RelockToVerify(p) ==
    /\ pc[p] = "relock"
    /\ TakeRoot(p)
    /\ Goto(p, "verify")
    /\ UNCHANGED <<disk, entryLock, local, budget, history>>

\* Something must be left under both names, or the caller gets EntryNotFound.
VerifyEntry(p) ==
    /\ pc[p] = "verify"
    /\ IF files[entry[p]] # Absent /\ info[entry[p]] # NoSidecar
       THEN Goto(p, "finish") /\ ReleaseRoot(p) /\ UNCHANGED <<entryLock, local>>
       ELSE Return(p)
    /\ UNCHANGED <<disk, budget, history>>

FinishTrash(p) ==
    /\ pc[p] = "finish"
    /\ Return(p)
    /\ UNCHANGED <<disk, budget, history>>

\* Mutant of RollBack: a failed retirement releases the claim as well.
RollBackDurable(p) ==
    /\ pc[p] \in {"write", "move", "copy", "publish", "sync", "retire"}
    /\ UnlinkSidecar(entry[p])
    /\ stages' = stages \ {OwnStage(p)}
    /\ IF pc[p] = "sync" /\ p \notin Pinned
       THEN Goto(p, "undo") /\ UNCHANGED <<locks, local>>
       ELSE Return(p)
    /\ UNCHANGED <<home, files, purging, budget, history>>

\* Any failure before the copy is durable releases the claim.
RollBack(p) ==
    /\ pc[p] \in {"write", "move", "copy", "publish", "sync"}
    /\ UnlinkSidecar(entry[p])
    /\ stages' = stages \ {OwnStage(p)}
    /\ IF pc[p] = "sync" /\ p \notin Pinned
       THEN Goto(p, "undo") /\ UNCHANGED <<locks, local>>
       ELSE Return(p)
    /\ UNCHANGED <<home, files, purging, budget, history>>

\* ... and removes the published copy, if it is still the one created here;
\* trash_at() leaves that copy where it is.
UndoCopy(p) ==
    /\ pc[p] = "undo"
    /\ files' = IF files[entry[p]].ino = made[p]
                THEN [files EXCEPT ![entry[p]] = Absent] ELSE files
    /\ Return(p)
    /\ UNCHANGED <<home, info, stages, purging, budget, history>>

-----------------------------------------------------------------------------
(* list(): no lock, several reads.                                         *)

ListEntry(p, id) ==
    /\ pc[p] = "idle"
    /\ StartOperation
    /\ entry' = [entry EXCEPT ![p] = id]
    /\ IF info[id].full
       THEN Goto(p, "data") /\ seen' = [seen EXCEPT ![p] = info[id].ver]
       ELSE Goto(p, "scan") /\ UNCHANGED seen
    /\ UNCHANGED <<disk, locks, target, snap, held, made, history>>

\* The entry shown is the sidecar's; history notes which document that is.
Shown(p) == IF info[entry[p]].ver = seen[p] THEN files[entry[p]].doc ELSE None

StatData(p) ==
    /\ pc[p] = "data"
    /\ snap' = [snap EXCEPT ![p] = [ino |-> files[entry[p]].ino, doc |-> Shown(p)]]
    /\ Goto(p, "chosen")
    /\ UNCHANGED <<disk, locks, target, entry, seen, held, made, budget, history>>

\* files/ is scanned after info/: data whose sidecar was not readable then.
ScanOrphan(p) ==
    /\ pc[p] = "scan"
    /\ IF files[entry[p]] = Absent
       THEN Goto(p, "idle") /\ Forget(p)
       ELSE /\ Goto(p, "sidecar")
            /\ snap' = [snap EXCEPT ![p].ino = files[entry[p]].ino]
            /\ UNCHANGED <<target, entry, seen, held, made>>
    /\ UNCHANGED <<disk, locks, budget, history>>

\* An orphan line shows an ID and no document.
StatOrphanSidecar(p) ==
    /\ pc[p] = "sidecar"
    /\ seen' = [seen EXCEPT ![p] = info[entry[p]].ver]
    /\ Goto(p, "orphan")
    /\ UNCHANGED <<disk, locks, target, snap, entry, held, made, budget, history>>

\* The user leaves it, or restores an orphan, which is refused.
Abandon(p) ==
    /\ pc[p] \in {"chosen", "orphan"}
    /\ Goto(p, "idle") /\ Forget(p)
    /\ UNCHANGED <<disk, locks, budget, history>>

-----------------------------------------------------------------------------
(* Selected entries: restore and purge.                                    *)

\* Mutant of Current: the bare inode number decides.
CurrentInode(p) == files[entry[p]].ino = snap[p].ino

\* The listed data and sidecar are still the ones on disk.
Current(p) ==
    /\ files[entry[p]].ino = snap[p].ino
    /\ info[entry[p]].ver = seen[p]

\* restore: conflicts and stale entries are reported before any lock.
ChooseRestore(p, path) ==
    /\ pc[p] = "chosen"
    /\ home[path] = Absent /\ Current(p)
    /\ snap[p].ino # None
    /\ target' = [target EXCEPT ![p] = path]
    /\ Goto(p, "open")
    /\ UNCHANGED <<disk, locks, snap, entry, seen, held, made, budget, history>>

ChoosePurge(p) ==
    /\ pc[p] \in {"chosen", "orphan"}
    /\ Goto(p, "open")
    /\ UNCHANGED <<disk, locks, local, budget, history>>

Restoring(p) == target[p] # None

\* lock_entry_file opens regular data; anything else has no compressor.
OpenEntry(p) ==
    LET node == files[entry[p]] IN
    /\ pc[p] = "open"
    /\ \/ /\ node # Absent /\ node.doc \notin DirDocs
          /\ held' = [held EXCEPT ![p] = node.ino]
          /\ Goto(p, "flock")
          /\ UNCHANGED <<target, snap, entry, seen, made>>
       \/ /\ node # Absent /\ node.doc \in DirDocs
          /\ Goto(p, "elock") /\ UNCHANGED local
       \/ /\ node = Absent /\ ~Restoring(p)
          /\ Goto(p, "elock") /\ UNCHANGED local
       \/ /\ node = Absent /\ Restoring(p)
          /\ Goto(p, "idle") /\ Forget(p)
    /\ UNCHANGED <<disk, locks, budget, history>>

FlockEntry(p) ==
    /\ pc[p] = "flock" /\ entryLock[held[p]] = None
    /\ entryLock' = [entryLock EXCEPT ![held[p]] = p]
    /\ Goto(p, "elock")
    /\ UNCHANGED <<disk, rootLock, local, budget, history>>

LockForEntry(p) ==
    /\ pc[p] = "elock"
    /\ TakeRoot(p)
    /\ Goto(p, "commit")
    /\ UNCHANGED <<disk, entryLock, local, budget, history>>

\* validate_entry_locked refuses, or a phantom entry has nothing to purge.
RefuseStale(p) ==
    /\ pc[p] = "commit"
    /\ ~Current(p) \/ (files[entry[p]] = Absent /\ info[entry[p]] = NoSidecar)
    /\ Return(p)
    /\ UNCHANGED <<disk, budget, history>>

\* A document put at a path whose old occupant is about to be unlinked, or
\* under the inode number of a restored copy that may yet be rolled back.
InWindow(path, ino) ==
    \E p \in Procs :
        /\ target[p] = path
        /\ pc[p] = "unlink" \/ (pc[p] = "rRetire" /\ made[p] = ino)
Race(path, node) ==
    raced' = IF InWindow(path, node.ino) THEN raced \cup {node.doc} ELSE raced

RestoreByRename(p) ==
    /\ pc[p] = "commit" /\ Restoring(p) /\ Current(p)
    /\ target[p] \notin Foreign /\ home[target[p]] = Absent
    /\ home' = [home EXCEPT ![target[p]] = files[entry[p]]]
    /\ files' = [files EXCEPT ![entry[p]] = Absent]
    /\ Race(target[p], files[entry[p]])
    /\ Goto(p, "rSidecar")
    /\ UNCHANGED <<info, stages, purging, locks, local, budget, born, gone>>

\* Mutant of RestoreFails: the descriptor of the data lock leaks.
RestoreFailsLeaking(p) ==
    /\ pc[p] = "commit" /\ Restoring(p) /\ Current(p)
    /\ Goto(p, "idle") /\ Forget(p) /\ ReleaseRoot(p)
    /\ UNCHANGED <<disk, entryLock, budget, history>>

\* Somebody created the destination meanwhile, or publishing failed.
RestoreFails(p) ==
    /\ pc[p] = "commit" /\ Restoring(p) /\ Current(p)
    /\ Return(p)
    /\ UNCHANGED <<disk, budget, history>>

\* EXDEV: stage beside the destination and publish without replacing.
RestoreByCopy(p) ==
    /\ pc[p] = "commit" /\ Restoring(p) /\ Current(p)
    /\ target[p] \in Foreign /\ home[target[p]] = Absent
    /\ \E n \in FreeInos :
           /\ home' = [home EXCEPT ![target[p]] = [ino |-> n, doc |-> files[entry[p]].doc]]
           /\ made' = [made EXCEPT ![p] = n]
           /\ Race(target[p], [ino |-> n, doc |-> files[entry[p]].doc])
    /\ Goto(p, "rRetire")
    /\ UNCHANGED <<files, info, stages, purging, locks,
                   target, snap, entry, seen, held, budget, born, gone>>

\* The trashed data goes only while the destination is still the copy.  A
\* file that cannot be removed takes its copy back; a directory stays behind
\* as an orphan beside its restored copy.
RetireRestored(p) ==
    LET published == home[target[p]].ino = made[p]
        isDir == files[entry[p]].doc \in DirDocs
    IN
    /\ pc[p] = "rRetire"
    /\ \/ /\ published
          /\ files' = [files EXCEPT ![entry[p]] = Absent]
          /\ Goto(p, "rSidecar") /\ UNCHANGED <<home, locks, local>>
       \/ /\ published /\ isDir
          /\ Goto(p, "rSidecar") /\ UNCHANGED <<home, files, locks, local>>
       \/ /\ published /\ ~isDir
          /\ home' = [home EXCEPT ![target[p]] = Absent]
          /\ Return(p) /\ UNCHANGED files
       \/ /\ ~published
          /\ Return(p) /\ UNCHANGED <<home, files>>
    /\ UNCHANGED <<info, stages, purging, budget, history>>

RemoveRestoredSidecar(p) ==
    /\ pc[p] = "rSidecar"
    /\ IF info[entry[p]].ver = seen[p] THEN UnlinkSidecar(entry[p]) ELSE UNCHANGED info
    /\ Return(p)
    /\ UNCHANGED <<home, files, stages, purging, budget, history>>

\* What the user agreed to delete: the document the listing showed, or, for
\* an orphan line, whatever passes validation under that ID.
Agreed(p) == IF snap[p].doc = None THEN files[entry[p]].doc ELSE snap[p].doc

\* Mutant of PurgeData: whatever the name holds is detached, even nothing.
PurgeDataDetaching(p) ==
    /\ pc[p] = "commit" /\ ~Restoring(p) /\ Current(p)
    /\ files' = [files EXCEPT ![entry[p]] = Absent]
    /\ purging' = purging \cup {files[entry[p]]}
    /\ gone' = gone \cup ({Agreed(p)} \cap Docs)
    /\ Goto(p, "pSidecar")
    /\ UNCHANGED <<home, info, stages, locks, local, budget, born, raced>>

\* A file is unlinked, a tree is detached.  An entry without data is purged
\* only when its sidecar is old enough not to be a move in flight.
PurgeData(p) ==
    LET node == files[entry[p]] IN
    /\ pc[p] = "commit" /\ ~Restoring(p) /\ Current(p)
    /\ \/ /\ node # Absent
          /\ files' = [files EXCEPT ![entry[p]] = Absent]
          /\ purging' = IF node.doc \in DirDocs THEN purging \cup {node} ELSE purging
          /\ gone' = gone \cup ({Agreed(p)} \cap Docs)
       \/ /\ node = Absent /\ info[entry[p]] # NoSidecar
          /\ UNCHANGED <<files, purging, gone>>
    /\ Goto(p, "pSidecar")
    /\ UNCHANGED <<home, info, stages, locks, local, budget, born, raced>>

\* Unlinking failed, or the sidecar of an absent file is too young.
PurgeFails(p) ==
    /\ pc[p] = "commit" /\ ~Restoring(p) /\ Current(p)
    /\ Return(p)
    /\ UNCHANGED <<disk, budget, history>>

\* Then the sidecar; the locks are dropped before a tree is deleted.
PurgeSidecar(p) ==
    /\ pc[p] = "pSidecar"
    /\ UnlinkSidecar(entry[p])
    /\ Return(p)
    /\ UNCHANGED <<home, files, stages, purging, budget, history>>

-----------------------------------------------------------------------------
(* cleanup_unfinished(): detached trees and abandoned stages.              *)

\* A purge's own removal of its tree and the later sweep of purging-* alike.
RemoveDetached(p) ==
    /\ pc[p] = "idle"
    /\ \E n \in purging : purging' = purging \ {n}
    /\ UNCHANGED <<home, files, info, stages, locks, pc, local, budget, history>>

\* Mutant of TrySweepLock: a busy root is swept too.
SweepBusyRoot(p) ==
    /\ pc[p] = "idle" /\ stages # {}
    /\ Goto(p, "sweep")
    /\ UNCHANGED <<disk, locks, local, budget, history>>

\* Never wait: a busy root may be the owner of the stage.
TrySweepLock(p) ==
    /\ pc[p] = "idle" /\ stages # {}
    /\ TakeRoot(p)
    /\ Goto(p, "sweep")
    /\ UNCHANGED <<disk, entryLock, local, budget, history>>

\* Mutant of ClaimAbandonedStage: staged trees are passed over.
ClaimAbandonedFile(p) ==
    /\ pc[p] = "sweep"
    /\ \E s \in {t \in stages : t.node.doc \notin DirDocs} :
           /\ stages' = stages \ {s}
           /\ purging' = purging \cup {s.node}
    /\ UNCHANGED <<home, files, info, locks, pc, local, budget, history>>

ClaimAbandonedStage(p) ==
    /\ pc[p] = "sweep"
    /\ \E s \in stages :
           /\ stages' = stages \ {s}
           /\ purging' = purging \cup {s.node}
    /\ UNCHANGED <<home, files, info, locks, pc, local, budget, history>>

FinishSweep(p) ==
    /\ pc[p] = "sweep"
    /\ Return(p)
    /\ UNCHANGED <<disk, budget, history>>

-----------------------------------------------------------------------------
(* The rest of the world.                                                  *)

\* A copy in files/ that its maker has not committed to yet: a copy that a
\* failed fsync still undoes, or data a restore is about to retire in favour
\* of the file it published.  The user's file is then the real one.
Provisional(i) ==
    \E p \in Procs : pc[p] \in {"sync", "undo", "rRetire"} /\ entry[p] = i

\* Somebody writes new content: in place, or as a new inode.  Without a copy
\* in the trash the old content is given up.
UserWrite(path) ==
    LET old == home[path]
        kept == \E i \in Ids : files[i].doc = old.doc /\ ~Provisional(i)
    IN
    \E d \in Docs \ born, n \in FreeInos \cup ({old.ino} \cap Inos) :
        /\ home' = [home EXCEPT ![path] = [ino |-> n, doc |-> d]]
        /\ born' = born \cup {d}
        /\ gone' = IF old = Absent \/ kept THEN gone ELSE gone \cup {old.doc}
        /\ Race(path, [ino |-> n, doc |-> d])
        /\ UNCHANGED <<files, info, stages, purging, locks, pc, local, budget>>

\* SIGKILL, a power cut: the kernel drops both locks, the disk stays.
Crash(p) ==
    /\ pc[p] # "idle" /\ crashes < MaxCrashes
    /\ crashes' = crashes + 1
    /\ Return(p)
    /\ UNCHANGED <<disk, ops, history>>

TrashStep(p) ==
    \/ \E path \in Paths : PrepareSource(p, path)
    \/ LockForTrash(p) \/ ClaimFails(p)
    \/ ClaimBaseName(p) \/ ProbeClaim(p) \/ ClaimCollisionName(p)
    \/ WriteSidecar(p) \/ MoveByRename(p) \/ RefreshSidecar(p)
    \/ BeginCopy(p) \/ StageCopy(p) \/ PublishCopy(p) \/ SyncCopy(p)
    \/ RetireCheck(p) \/ RetireUnlink(p) \/ RelockToVerify(p) \/ VerifyEntry(p)
    \/ FinishTrash(p) \/ RollBack(p) \/ UndoCopy(p)

ListStep(p) ==
    \/ \E id \in Ids : ListEntry(p, id)
    \/ StatData(p) \/ ScanOrphan(p) \/ StatOrphanSidecar(p) \/ Abandon(p)

EntryStep(p) ==
    \/ \E path \in Paths : ChooseRestore(p, path)
    \/ ChoosePurge(p) \/ OpenEntry(p) \/ FlockEntry(p) \/ LockForEntry(p)
    \/ RefuseStale(p)
    \/ RestoreByRename(p) \/ RestoreFails(p) \/ RestoreByCopy(p)
    \/ RetireRestored(p) \/ RemoveRestoredSidecar(p)
    \/ PurgeData(p) \/ PurgeFails(p) \/ PurgeSidecar(p)

SweepStep(p) ==
    \/ RemoveDetached(p) \/ TrySweepLock(p) \/ ClaimAbandonedStage(p) \/ FinishSweep(p)

Step(p) == TrashStep(p) \/ ListStep(p) \/ EntryStep(p) \/ SweepStep(p)

Next ==
    \/ \E p \in Procs : Step(p) \/ Crash(p)
    \/ \E path \in Paths : UserWrite(path)

Spec == Init /\ [][Next]_vars

\* An operation that has begun goes on, a waiter that finds a lock free again
\* and again gets it (the kernel wakes flock waiters), and maintenance comes
\* back: after mutations, and weekly from the systemd timer.
Fairness ==
    /\ \A p \in Procs :
           /\ WF_vars(pc[p] # "idle" /\ Step(p))
           /\ SF_vars(LockForTrash(p) \/ RelockToVerify(p) \/ LockForEntry(p))
           /\ SF_vars(FlockEntry(p))
    /\ WF_vars(\E p \in Procs : RemoveDetached(p))
    /\ SF_vars(\E p \in Procs : TrySweepLock(p))
    /\ SF_vars(\E p \in Procs : ClaimAbandonedStage(p))

FairSpec == Spec /\ Fairness

-----------------------------------------------------------------------------
(* Properties.                                                             *)

Present(d) ==
    \/ \E q \in Paths : home[q].doc = d
    \/ \E i \in Ids : files[i].doc = d

\* Every document that existed is still whole under a user path or in
\* files/, unless somebody overwrote it, agreed to purge the entry a listing
\* showed for it, or wrote it into one of two windows: between the last check
\* of a copied source and its unlink, or over a restored copy that has not
\* replaced the trashed data yet.  Kills, failing unlinks, reused IDs, reused
\* inode numbers and retirements without the lock are inside the statement.
NoDocumentLost == \A d \in born \ (gone \cup raced) : Present(d)

\* A copy being made is never claimed as abandoned by another process's sweep.
LiveStageKept == \A p \in Procs : pc[p] = "publish" => OwnStage(p) \in stages

\* A complete move is never stranded without its sidecar, as an orphan nobody
\* can restore (#169, #171): file data without one is a copy being undone,
\* whose source was not touched.  A kill in the middle of that leaves an
\* orphan, and so does, by intention, a restored directory.  The copies of
\* trash_at() are another matter: see NoStrandedCopy.
DataHasSidecar ==
    crashes = 0 /\ Pinned = {} =>
        \A i \in Ids : files[i] # Absent /\ files[i].doc \notin DirDocs /\ ~info[i].full =>
            \E p \in Procs : pc[p] = "undo" /\ entry[p] = i

\* A restore puts back the document its listing showed, however long ago, and
\* whatever was purged and trashed again under that ID since.
RestoreDeliversListed ==
    [][\A p \in Procs :
           pc[p] = "commit" /\ Restoring(p) /\ pc'[p] \in {"rSidecar", "rRetire"}
               => home'[target[p]].doc = snap[p].doc]_vars

\* No operation hangs: whatever the others hold, wait for or die with, an
\* operation that has begun comes to an end.
OperationsEnd == \A p \in Procs : pc[p] # "idle" ~> pc[p] = "idle"

\* What crashes and purges leave in .trashd/ is removed in the end.
LeftoversReclaimed ==
    (stages # {} \/ purging # {}) ~> (stages = {} /\ purging = {})

=============================================================================
