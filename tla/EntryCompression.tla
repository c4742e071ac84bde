-------------------------- MODULE EntryCompression --------------------------
(***************************************************************************)
(* The data of one trash entry while it is compressed and decompressed:    *)
(* the automatic compressor of retention (crates/trashd-common/src/        *)
(* store.rs), the `trash compress` command (crates/trashd-cli) and a       *)
(* restore, which decodes in place before it moves the data out.           *)
(*                                                                         *)
(* Data and sidecar are replaced one after the other, each by an atomic    *)
(* rename; the sidecar's X-Trashd-Compressed marker says how to read the   *)
(* data.  Everybody who cooperates takes the flock of the data inode and   *)
(* then the root lock.  An application that opened the file before it was  *)
(* trashed takes neither, and keeps writing.                               *)
(*                                                                         *)
(* A document is one content; edits never bring one back, so a document    *)
(* stands for what compression_source_matches compares.                    *)
(***************************************************************************)
EXTENDS Naturals, FiniteSets

CONSTANTS
    Procs,      \* processes that list, compress or restore
    Docs,       \* contents
    Archives,   \* those the user compressed with zstd: they begin with its magic
    Inos,       \* inode numbers
    Vers,       \* sidecar versions
    MaxOps,     \* bound: operations started
    MaxCrashes, \* bound: processes killed
    None

ASSUME CompressionConstants ==
    /\ Archives \subseteq Docs
    /\ MaxOps \in Nat /\ MaxCrashes \in Nat
    /\ None \notin Procs \cup Docs \cup Inos \cup Vers

VARIABLES
    data,       \* the inode files/<id> names
    node,       \* what each inode holds
    side,       \* the sidecar: its version, and whether it carries the marker
    rootLock,   \* the holder of store.lock
    entryLock,  \* the holder of the flock on each data inode
    pc,         \* where each process is
    listed,     \* the entry as it was listed, or as this process left it
    held,       \* the data inode a process has open
    copied,     \* the content whose metadata it took before reading
    writer,     \* the inode an application still has open for writing
    out,        \* what the last restore published
    truth,      \* history: what the entry stands for
    raced,      \* history: edits between a last check and the swap it permits
    misled,     \* history: archives written under a marker
    used,       \* history: contents that have existed
    ops, crashes

entryState == <<data, node, side>>
locks == <<rootLock, entryLock>>
local == <<listed, held, copied>>
history == <<truth, raced, misled, used>>
budget == <<ops, crashes>>
vars == <<entryState, locks, pc, local, writer, out, history, budget>>

\* zstd: as a compressor wrote it.  decoded: an archive of the user that was
\* taken for such data.
Forms == {"plain", "zstd", "decoded"}
Content == [doc: Docs, form: Forms]
NoContent == [doc |-> None, form |-> "plain"]
Sidecar == [ver: Vers, marked: BOOLEAN]
NoSidecar == [ver |-> None, marked |-> FALSE]
Entry == [ino: Inos, ver: Vers, marked: BOOLEAN]
NoEntry == [ino |-> None, ver |-> None, marked |-> FALSE]

Compressing == {"open", "flock", "check", "commit", "swap", "persist", "unmark"}
Decompressing == {"dOpen", "dFlock", "dCheck", "dCommit", "dUnmark"}
Restoring == {"rOpen", "rFlock", "rLock", "rCommit", "rSide"}
Steps == {"idle", "listed"} \cup Compressing \cup Decompressing \cup Restoring
HoldingData == Steps \ {"idle", "listed", "open", "dOpen", "rOpen"}

TypeOK ==
    /\ data \in Inos \cup {None}
    /\ node \in [Inos -> Content \cup {NoContent}]
    /\ side \in Sidecar \cup {NoSidecar}
    /\ rootLock \in Procs \cup {None} /\ entryLock \in [Inos -> Procs \cup {None}]
    /\ pc \in [Procs -> Steps]
    /\ listed \in [Procs -> Entry \cup {NoEntry}]
    /\ held \in [Procs -> Inos \cup {None}] /\ copied \in [Procs -> Docs \cup {None}]
    /\ writer \in Inos \cup {None} /\ out \in Content \cup {NoContent}
    /\ truth \in Docs \cup {None}
    /\ raced \subseteq Docs /\ misled \subseteq Docs /\ used \subseteq Docs
    /\ ops \in 0..MaxOps /\ crashes \in 0..MaxCrashes
    /\ \A p \in Procs : (pc[p] \in HoldingData) <=> (held[p] # None)

\* A number is free once nothing names the inode and nobody has it open; the
\* one a listing remembers may be reused.
FreeInos == Inos \ ({data, writer} \cup {held[p] : p \in Procs})
\* Versions that nobody remembers are alike.
FreshVers ==
    LET free == Vers \ ({side.ver} \cup {listed[p].ver : p \in Procs})
    IN  {v \in free : v = CHOOSE w \in free : TRUE}

\* The four magic bytes of zstd.
Magic(c) == c.form = "zstd" \/ (c.form = "plain" /\ c.doc \in Archives)
Decoded(c) == [c EXCEPT !.form = IF @ = "zstd" THEN "plain" ELSE "decoded"]

\* An entry of an earlier session: plain, compressed, or plain with the marker
\* of a compressor that died (compressors leave archives alone).
Init ==
    /\ \E n \in Inos, d \in Docs, v \in Vers, form \in {"plain", "zstd"}, marked \in BOOLEAN :
           /\ form = "zstd" => marked
           /\ marked => d \notin Archives
           /\ data = n
           /\ node = [k \in Inos |-> IF k = n THEN [doc |-> d, form |-> form] ELSE NoContent]
           /\ side = [ver |-> v, marked |-> marked]
           /\ writer \in IF form = "plain" THEN {n, None} ELSE {None}
           /\ truth = d /\ used = {d}
    /\ rootLock = None /\ entryLock = [n \in Inos |-> None]
    /\ pc = [p \in Procs |-> "idle"]
    /\ listed = [p \in Procs |-> NoEntry]
    /\ held = [p \in Procs |-> None] /\ copied = [p \in Procs |-> None]
    /\ out = NoContent
    /\ raced = {} /\ misled = {}
    /\ ops = 0 /\ crashes = 0

Goto(p, step) == pc' = [pc EXCEPT ![p] = step]

DropLocks(p) ==
    /\ rootLock' = IF rootLock = p THEN None ELSE rootLock
    /\ entryLock' = [n \in Inos |-> IF entryLock[n] = p THEN None ELSE entryLock[n]]

\* Guards and descriptors go out of scope.
Return(p) ==
    /\ Goto(p, "idle") /\ DropLocks(p)
    /\ listed' = [listed EXCEPT ![p] = NoEntry]
    /\ held' = [held EXCEPT ![p] = None]
    /\ copied' = [copied EXCEPT ![p] = None]

\* The identity and the sidecar version of the listing (validate_entry_locked).
Current(p) == data = listed[p].ino /\ side.ver = listed[p].ver

\* compression_source_matches on the open descriptor: a replaced inode has
\* lost its link, an edited one its times.
Unchanged(p) == data = held[p] /\ node[held[p]].doc = copied[p]

\* set_compression_marker: a new sidecar file, renamed over the old one.
SetMarker(marked) == \E v \in FreshVers : side' = [ver |-> v, marked |-> marked]

ListEntry(p) ==
    /\ pc[p] = "idle" /\ data # None /\ side # NoSidecar
    /\ ops < MaxOps /\ ops' = ops + 1
    /\ listed' = [listed EXCEPT ![p] = [ino |-> data, ver |-> side.ver, marked |-> side.marked]]
    /\ Goto(p, "listed")
    /\ UNCHANGED <<entryState, locks, held, copied, writer, out, history, crashes>>

-----------------------------------------------------------------------------
(* The compressors.  Retention stats the data before it opens it, the      *)
(* command after.                                                          *)

StatForRetention(p) ==
    /\ pc[p] = "listed" /\ ~listed[p].marked
    /\ data # None
    /\ copied' = [copied EXCEPT ![p] = node[data].doc]
    /\ Goto(p, "open")
    /\ UNCHANGED <<entryState, locks, listed, held, writer, out, history, budget>>

\* The file that is open need not be the one that was looked at.
OpenForRetention(p) ==
    /\ pc[p] = "open"
    /\ IF data = None THEN Return(p)
       ELSE /\ held' = [held EXCEPT ![p] = data]
            /\ Goto(p, "flock") /\ UNCHANGED <<locks, listed, copied>>
    /\ UNCHANGED <<entryState, writer, out, history, budget>>

OpenForCommand(p) ==
    /\ pc[p] = "listed" /\ ~listed[p].marked
    /\ data # None
    /\ held' = [held EXCEPT ![p] = data]
    /\ copied' = [copied EXCEPT ![p] = node[data].doc]
    /\ Goto(p, "flock")
    /\ UNCHANGED <<entryState, locks, listed, writer, out, history, budget>>

Flock(p) ==
    /\ pc[p] \in {"flock", "dFlock", "rFlock"} /\ entryLock[held[p]] = None
    /\ entryLock' = [entryLock EXCEPT ![held[p]] = p]
    /\ Goto(p, CASE pc[p] = "flock" -> "check" [] pc[p] = "dFlock" -> "dCheck"
                 [] OTHER -> "rLock")
    /\ UNCHANGED <<entryState, rootLock, local, writer, out, history, budget>>

\* Under the entry lock: still the listed entry and the content that was
\* looked at, not compressed by anybody, and smaller once it is encoded.
Encode(p) ==
    /\ pc[p] = "check"
    /\ \/ Unchanged(p) /\ ~Magic(node[held[p]]) /\ Goto(p, "commit") /\ UNCHANGED <<locks, local>>
       \/ Return(p)
    /\ UNCHANGED <<entryState, writer, out, history, budget>>

\* Mutant of MarkCompressed: the marker is left for after the swap.
MarkLater(p) ==
    /\ pc[p] = "commit" /\ rootLock = None
    /\ IF Current(p) /\ Unchanged(p)
       THEN /\ rootLock' = p
            /\ Goto(p, "swap") /\ UNCHANGED <<side, entryLock, local>>
       ELSE Return(p) /\ UNCHANGED side
    /\ UNCHANGED <<data, node, writer, out, history, budget>>

\* The marker is on disk before the data it describes.
MarkCompressed(p) ==
    /\ pc[p] = "commit" /\ rootLock = None
    /\ IF Current(p) /\ Unchanged(p)
       THEN /\ rootLock' = p /\ SetMarker(TRUE)
            /\ Goto(p, "swap") /\ UNCHANGED <<entryLock, local>>
       ELSE Return(p) /\ UNCHANGED side
    /\ UNCHANGED <<data, node, writer, out, history, budget>>

\* Mutant of RecheckSource: what held before the marker was written will do.
RecheckSkipped(p) ==
    /\ pc[p] = "swap"
    /\ Goto(p, "persist")
    /\ UNCHANGED <<entryState, locks, local, writer, out, history, budget>>

\* Writing the marker can block: look again.
RecheckSource(p) ==
    /\ pc[p] = "swap"
    /\ Goto(p, IF Unchanged(p) THEN "persist" ELSE "unmark")
    /\ UNCHANGED <<entryState, locks, local, writer, out, history, budget>>

SwapData(p) ==
    /\ pc[p] = "persist"
    /\ \/ \E n \in FreeInos :
              /\ data' = n
              /\ node' = [node EXCEPT ![n] = [doc |-> copied[p], form |-> "zstd"]]
              /\ Return(p)
       \/ \* The rename fails.
          Goto(p, "unmark") /\ UNCHANGED <<data, node, locks, local>>
    /\ UNCHANGED <<side, writer, out, history, budget>>

\* A marker that cannot be taken back stays, on plain data.
RevertMarker(p) ==
    /\ pc[p] = "unmark"
    /\ SetMarker(FALSE) \/ UNCHANGED side
    /\ Return(p)
    /\ UNCHANGED <<data, node, writer, out, history, budget>>

-----------------------------------------------------------------------------
(* Restore: decode in place, then move out.                                *)

ChooseRestore(p) ==
    /\ pc[p] = "listed"
    /\ IF ~Current(p) THEN Return(p)
       ELSE Goto(p, IF listed[p].marked THEN "dOpen" ELSE "rOpen") /\ UNCHANGED <<locks, local>>
    /\ UNCHANGED <<entryState, writer, out, history, budget>>

OpenMarked(p) ==
    /\ pc[p] = "dOpen"
    /\ IF data # listed[p].ino THEN Return(p)
       ELSE /\ held' = [held EXCEPT ![p] = data]
            /\ copied' = [copied EXCEPT ![p] = node[data].doc]
            /\ Goto(p, "dFlock") /\ UNCHANGED <<locks, listed>>
    /\ UNCHANGED <<entryState, writer, out, history, budget>>

\* Too big, damaged, or replaced while the lock was awaited.
Decode(p) ==
    /\ pc[p] = "dCheck"
    /\ \/ Current(p) /\ Unchanged(p) /\ Goto(p, "dCommit") /\ UNCHANGED <<locks, local>>
       \/ Return(p)
    /\ UNCHANGED <<entryState, writer, out, history, budget>>

\* Mutant of CommitPlaintext: whatever carries the marker is decoded.
CommitDecoded(p) ==
    /\ pc[p] = "dCommit" /\ rootLock = None
    /\ IF ~(Current(p) /\ Unchanged(p))
       THEN Return(p) /\ UNCHANGED <<data, node>>
       ELSE /\ rootLock' = p /\ UNCHANGED entryLock
            /\ \E n \in FreeInos :
                   /\ data' = n
                   /\ node' = [node EXCEPT ![n] = Decoded(node[data])]
                   /\ listed' = [listed EXCEPT ![p].ino = n]
            /\ Goto(p, "dUnmark") /\ UNCHANGED <<held, copied>>
    /\ UNCHANGED <<side, writer, out, history, budget>>

\* A payload without the magic is what a compressor left when it died after
\* its marker: only the marker goes.
CommitPlaintext(p) ==
    /\ pc[p] = "dCommit" /\ rootLock = None
    /\ IF ~(Current(p) /\ Unchanged(p))
       THEN Return(p) /\ UNCHANGED <<data, node>>
       ELSE /\ rootLock' = p /\ UNCHANGED entryLock
            /\ IF Magic(node[data])
               THEN \E n \in FreeInos :
                        /\ data' = n
                        /\ node' = [node EXCEPT ![n] = Decoded(node[data])]
                        /\ listed' = [listed EXCEPT ![p].ino = n]
               ELSE UNCHANGED <<data, node, listed>>
            /\ Goto(p, "dUnmark") /\ UNCHANGED <<held, copied>>
    /\ UNCHANGED <<side, writer, out, history, budget>>

\* The marker is the last thing to go; both locks with it.
ClearMarker(p) ==
    /\ pc[p] = "dUnmark"
    /\ \/ /\ SetMarker(FALSE)
          /\ listed' = [listed EXCEPT ![p].ver = side'.ver, ![p].marked = FALSE]
          /\ held' = [held EXCEPT ![p] = None] /\ copied' = [copied EXCEPT ![p] = None]
          /\ DropLocks(p) /\ Goto(p, "rOpen")
       \/ Return(p) /\ UNCHANGED side
    /\ UNCHANGED <<data, node, writer, out, history, budget>>

OpenForRestore(p) ==
    /\ pc[p] = "rOpen"
    /\ IF data = None THEN Return(p)
       ELSE /\ held' = [held EXCEPT ![p] = data]
            /\ Goto(p, "rFlock") /\ UNCHANGED <<locks, listed, copied>>
    /\ UNCHANGED <<entryState, writer, out, history, budget>>

LockRoot(p) ==
    /\ pc[p] = "rLock" /\ rootLock = None
    /\ rootLock' = p
    /\ Goto(p, "rCommit")
    /\ UNCHANGED <<entryState, entryLock, local, writer, out, history, budget>>

\* A compressor may have been here since the listing or since the decoding.
Publish(p) ==
    /\ pc[p] = "rCommit"
    /\ IF Current(p)
       THEN /\ out' = node[data] /\ data' = None
            /\ Goto(p, "rSide") /\ UNCHANGED <<locks, local>>
       ELSE Return(p) /\ UNCHANGED <<data, out>>
    /\ UNCHANGED <<node, side, writer, history, budget>>

RetireSidecar(p) ==
    /\ pc[p] = "rSide"
    /\ side' = NoSidecar
    /\ Return(p)
    /\ UNCHANGED <<data, node, writer, out, history, budget>>

-----------------------------------------------------------------------------
(* The rest of the world.                                                  *)

\* The application writes through the descriptor it had before the trash.
Edit ==
    /\ writer # None
    /\ \E d \in Docs \ used :
           /\ node' = [node EXCEPT ![writer] = [doc |-> d, form |-> "plain"]]
           /\ used' = used \cup {d}
           /\ truth' = IF data = writer THEN d ELSE truth
           /\ raced' = IF \E p \in Procs : pc[p] = "persist" THEN raced \cup {d} ELSE raced
           /\ misled' = IF data = writer /\ side.marked THEN misled \cup {d} ELSE misled
    /\ UNCHANGED <<data, side, locks, pc, local, writer, out, budget>>

\* A purge holds both locks; the file is trashed again under the same ID.
Purge ==
    /\ rootLock = None /\ data # None /\ entryLock[data] = None
    /\ data' = None /\ side' = NoSidecar
    /\ UNCHANGED <<node, locks, pc, local, writer, out, history, budget>>

TrashAgain ==
    /\ rootLock = None /\ data = None
    /\ \E n \in FreeInos, d \in Docs \ used, v \in FreshVers :
           /\ data' = n /\ node' = [node EXCEPT ![n] = [doc |-> d, form |-> "plain"]]
           /\ side' = [ver |-> v, marked |-> FALSE]
           /\ writer' \in {n, None}
           /\ truth' = d /\ used' = used \cup {d}
    /\ UNCHANGED <<locks, pc, local, out, raced, misled, budget>>

Crash(p) ==
    /\ pc[p] # "idle" /\ crashes < MaxCrashes
    /\ crashes' = crashes + 1
    /\ Return(p)
    /\ UNCHANGED <<entryState, writer, out, history, ops>>

Compress(p) ==
    \/ StatForRetention(p) \/ OpenForRetention(p) \/ OpenForCommand(p)
    \/ Encode(p) \/ MarkCompressed(p) \/ RecheckSource(p) \/ SwapData(p) \/ RevertMarker(p)

Restore(p) ==
    \/ ChooseRestore(p) \/ OpenMarked(p) \/ Decode(p) \/ CommitPlaintext(p) \/ ClearMarker(p)
    \/ OpenForRestore(p) \/ LockRoot(p) \/ Publish(p) \/ RetireSidecar(p)

Next ==
    \/ \E p \in Procs : ListEntry(p) \/ Flock(p) \/ Compress(p) \/ Restore(p) \/ Crash(p)
    \/ Edit \/ Purge \/ TrashAgain

Spec == Init /\ [][Next]_vars

-----------------------------------------------------------------------------
(* Properties.                                                             *)

\* Data that a compressor wrote is never without the marker that says so,
\* whoever died, failed to write a sidecar or trashed the name again: a
\* restore, which never infers compression from the bytes, would serve it as
\* the user's file (#23, #28).
PackedIsMarked ==
    data # None /\ side # NoSidecar /\ node[data].form = "zstd" => side.marked

\* What a restore publishes is what the user had: decoded exactly once, never
\* a genuine archive of the user unpacked, never compressed bytes swapped in
\* after the listing or after the decoding (#105, #168, #170).  An archive
\* written by a running application under a marker cannot be told from a
\* compressor's data if that compressor then dies.
RestoresPlain == out.form = "plain" \/ out.doc \in misled

\* Compression and decoding keep the last content the data had, edits of an
\* application that still writes to it included, but for those it makes
\* between the very last check and the rename (#386).
LatestKept == data # None => node[data].doc = truth \/ truth \in raced
=============================================================================
