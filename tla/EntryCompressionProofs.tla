------------------------ MODULE EntryCompressionProofs ------------------------
(***************************************************************************)
(* What is proved of EntryCompression for every number of processes,       *)
(* contents, inode numbers and sidecar versions, with no bound on          *)
(* operations and kills.                                                   *)
(***************************************************************************)
EXTENDS EntryCompression, TLAPS

-----------------------------------------------------------------------------
(* Types: of the entry, and of the processes.                              *)

\* The steps of those who took a content to compare with later.
Looked == Compressing \cup {"dFlock", "dCheck", "dCommit", "dUnmark"}

USE DEF Forms, Compressing, Decompressing, Restoring, Steps, HoldingData, Looked

EntryT ==
  /\ data \in Inos \cup {None}
  /\ node \in [Inos -> Content \cup {NoContent}]
  /\ side \in Sidecar \cup {NoSidecar}
  /\ writer \in Inos \cup {None} /\ out \in Content \cup {NoContent}
  /\ truth \in Docs \cup {None}
  /\ raced \subseteq Docs /\ misled \subseteq Docs /\ used \subseteq Docs
  /\ data # None => node[data] \in Content
ProcT ==
  /\ rootLock \in Procs \cup {None} /\ entryLock \in [Inos -> Procs \cup {None}]
  /\ pc \in [Procs -> Steps]
  /\ listed \in [Procs -> Entry \cup {NoEntry}]
  /\ held \in [Procs -> Inos \cup {None}] /\ copied \in [Procs -> Docs \cup {None}]
  /\ \A p \in Procs : (pc[p] \in HoldingData) <=> (held[p] # None)
  /\ \A p \in Procs : pc[p] # "idle" => listed[p] \in Entry
  /\ \A p \in Procs : pc[p] \in Looked => copied[p] \in Docs

\* Typed: inductive, and stronger than TypeOK.
Typed == EntryT /\ ProcT /\ ops \in 0..MaxOps /\ crashes \in 0..MaxCrashes

LEMMA InitTyped == Init => Typed
<1> SUFFICES ASSUME Init PROVE Typed OBVIOUS
<1>1. PICK n \in Inos, d \in Docs, v \in Vers, form \in {"plain", "zstd"}, marked \in BOOLEAN :
        /\ data = n /\ side = [ver |-> v, marked |-> marked]
        /\ node = [k \in Inos |-> IF k = n THEN [doc |-> d, form |-> form] ELSE NoContent]
        /\ writer \in {n, None} /\ truth = d /\ used = {d}
  BY DEF Init
<1>2. [doc |-> d, form |-> form] \in Content BY DEF Content
<1>3. side \in Sidecar /\ node[data] \in Content BY <1>1, <1>2 DEF Sidecar
<1>4. EntryT BY <1>1, <1>2, <1>3 DEF Init, EntryT
<1>5. ProcT BY CompressionConstants DEF Init, ProcT
<1>6. ops \in 0..MaxOps /\ crashes \in 0..MaxCrashes BY CompressionConstants DEF Init
<1> QED BY <1>4, <1>5, <1>6 DEF Typed

LEMMA FreshTyped == FreshVers \subseteq Vers BY DEF FreshVers
LEMMA FreeTyped == FreeInos \subseteq Inos BY DEF FreeInos
LEMMA DecodedTyped == \A c \in Content : Decoded(c) \in Content BY DEF Decoded, Content
LEMMA MarkTyped == \A b \in BOOLEAN : SetMarker(b) => side' \in Sidecar BY FreshTyped DEF SetMarker, Sidecar
\* What is at a named inode, or an open one, was written there.
LEMMA PutTyped ==
  ASSUME EntryT, NEW n \in Inos, NEW c \in Content, node' = [node EXCEPT ![n] = c]
  PROVE  node' \in [Inos -> Content \cup {NoContent}]
BY DEF EntryT

LEMMA ListedTyped ==
  ASSUME EntryT, data # None, side # NoSidecar
  PROVE  [ino |-> data, ver |-> side.ver, marked |-> side.marked] \in Entry
<1>1. data \in Inos /\ side \in Sidecar BY DEF EntryT
<1> QED BY <1>1 DEF Entry, Sidecar
LEMMA MovedTyped ==
  /\ \A e \in Entry, n \in Inos : [e EXCEPT !.ino = n] \in Entry
  /\ \A e \in Entry, v \in Vers : [e EXCEPT !.ver = v, !.marked = FALSE] \in Entry
BY DEF Entry
LEMMA DocTyped == ASSUME EntryT, data # None PROVE data \in Inos /\ node[data].doc \in Docs
BY DEF EntryT, Content
LEMMA NewTyped == \A d \in Docs, f \in Forms : [doc |-> d, form |-> f] \in Content
BY DEF Content

\* Guards and descriptors that go out of scope.
LEMMA ReturnTyped == ASSUME ProcT, NEW p \in Procs, Return(p) PROVE ProcT'
<1>1. NoEntry \in Entry \cup {NoEntry} OBVIOUS
<1> QED BY <1>1 DEF ProcT, Return, Goto, DropLocks

LEMMA ProcStep == EntryT /\ ProcT /\ [Next]_vars => ProcT'
<1> SUFFICES ASSUME EntryT, ProcT, [Next]_vars PROVE ProcT' OBVIOUS
<1> USE CompressionConstants
<1>1. ASSUME NEW p \in Procs, ListEntry(p) PROVE ProcT'
  BY <1>1, ListedTyped DEF ListEntry, Goto, DropLocks, ProcT, entryState, locks, local, history, budget
<1>2. ASSUME NEW p \in Procs, Flock(p) PROVE ProcT'
  BY <1>2, ReturnTyped DEF Flock, Goto, DropLocks, ProcT, EntryT, entryState, locks, local, history, budget
<1>3. ASSUME NEW p \in Procs, StatForRetention(p) PROVE ProcT'
  BY <1>3, DocTyped DEF StatForRetention, Goto, DropLocks, ProcT, entryState, locks, local, history, budget
<1>4. ASSUME NEW p \in Procs, OpenForRetention(p) PROVE ProcT'
  BY <1>4, DocTyped, ReturnTyped
    DEF OpenForRetention, Goto, DropLocks, ProcT, entryState, locks, local, history, budget
<1>5. ASSUME NEW p \in Procs, OpenForCommand(p) PROVE ProcT'
  BY <1>5, DocTyped DEF OpenForCommand, Goto, DropLocks, ProcT, entryState, locks, local, history, budget
<1>6. ASSUME NEW p \in Procs, Encode(p) PROVE ProcT'
  BY <1>6, ReturnTyped DEF Encode, Goto, DropLocks, ProcT, EntryT, entryState, locks, local, history, budget
<1>7. ASSUME NEW p \in Procs, MarkCompressed(p) PROVE ProcT'
  <2>1. CASE ~(Current(p) /\ Unchanged(p)) BY <1>7, <2>1, ReturnTyped DEF MarkCompressed
  <2>2. CASE Current(p) /\ Unchanged(p) BY <1>7, <2>2 DEF MarkCompressed, Goto, ProcT, local
  <2> QED BY <2>1, <2>2
<1>8. ASSUME NEW p \in Procs, RecheckSource(p) PROVE ProcT'
  BY <1>8, ReturnTyped
    DEF RecheckSource, Goto, DropLocks, ProcT, EntryT, entryState, locks, local, history, budget
<1>9. ASSUME NEW p \in Procs, SwapData(p) PROVE ProcT'
  BY <1>9, ReturnTyped DEF SwapData, Goto, DropLocks, ProcT, EntryT, entryState, locks, local, history, budget
<1>10. ASSUME NEW p \in Procs, RevertMarker(p) PROVE ProcT'
  BY <1>10, ReturnTyped
    DEF RevertMarker, Goto, DropLocks, ProcT, EntryT, entryState, locks, local, history, budget
<1>11. ASSUME NEW p \in Procs, ChooseRestore(p) PROVE ProcT'
  BY <1>11, ReturnTyped
    DEF ChooseRestore, Goto, DropLocks, ProcT, EntryT, entryState, locks, local, history, budget
<1>12. ASSUME NEW p \in Procs, OpenMarked(p) PROVE ProcT'
  <2>1. CASE data # listed[p].ino BY <1>12, <2>1, ReturnTyped DEF OpenMarked
  <2>2. CASE data = listed[p].ino
    <3>1. data # None BY <1>12, <2>2 DEF OpenMarked, ProcT, Entry
    <3> QED BY <1>12, <2>2, <3>1, DocTyped
      DEF OpenMarked, Goto, DropLocks, ProcT, entryState, locks, local, history, budget
  <2> QED BY <2>1, <2>2
<1>13. ASSUME NEW p \in Procs, Decode(p) PROVE ProcT'
  BY <1>13, ReturnTyped DEF Decode, Goto, DropLocks, ProcT, EntryT, entryState, locks, local, history, budget
<1>14. ASSUME NEW p \in Procs, CommitPlaintext(p) PROVE ProcT'
  <2>1. CASE ~(Current(p) /\ Unchanged(p)) BY <1>14, <2>1, ReturnTyped DEF CommitPlaintext
  <2>2. CASE Current(p) /\ Unchanged(p)
    <3>1. PICK n \in Inos : listed' = listed \/ listed' = [listed EXCEPT ![p] = [@ EXCEPT !.ino = n]]
      BY <1>14, <2>2, FreeTyped DEF CommitPlaintext, ProcT, Entry
    <3>2. listed' \in [Procs -> Entry \cup {NoEntry}] /\ \A q \in Procs : pc[q] # "idle" => listed'[q] \in Entry
      <4>1. listed[p] \in Entry BY <1>14 DEF CommitPlaintext, ProcT
      <4>2. [listed[p] EXCEPT !.ino = n] \in Entry BY <4>1, MovedTyped
      <4>3. CASE listed' = listed BY <4>3 DEF ProcT
      <4>4. CASE listed' = [listed EXCEPT ![p] = [@ EXCEPT !.ino = n]] BY <4>2, <4>4 DEF ProcT
      <4> QED BY <3>1, <4>3, <4>4
    <3> QED BY <1>14, <2>2, <3>2, ZenonT(30)
      DEF CommitPlaintext, Goto, DropLocks, ProcT, entryState, locks, local, history, budget
  <2> QED BY <2>1, <2>2
<1>15. ASSUME NEW p \in Procs, ClearMarker(p) PROVE ProcT'
  <2>1. CASE Return(p) BY <2>1, ReturnTyped
  <2>2. CASE ~Return(p)
    <3>1. PICK v \in Vers : side' = [ver |-> v, marked |-> FALSE] BY <1>15, <2>2, FreshTyped
      DEF ClearMarker, SetMarker
    <3>2. listed' = [listed EXCEPT ![p] = [@ EXCEPT !.ver = v, !.marked = FALSE]] BY <1>15, <2>2, <3>1
      DEF ClearMarker
    <3>3. listed' \in [Procs -> Entry \cup {NoEntry}] /\ \A q \in Procs : pc[q] # "idle" => listed'[q] \in Entry
      BY <1>15, <3>2, MovedTyped DEF ClearMarker, ProcT
    <3>4. pc' = [pc EXCEPT ![p] = "rOpen"] /\ held' = [held EXCEPT ![p] = None]
          /\ copied' = [copied EXCEPT ![p] = None] /\ DropLocks(p)
      BY <1>15, <2>2 DEF ClearMarker, Goto
    <3>5. /\ listed' \in [Procs -> Entry \cup {NoEntry}] /\ pc' \in [Procs -> Steps]
          /\ \A q \in Procs : pc'[q] # "idle" => listed'[q] \in Entry
      BY <1>15, <3>3, <3>4 DEF ProcT, ClearMarker
    <3>6. rootLock' \in Procs \cup {None} /\ entryLock' \in [Inos -> Procs \cup {None}]
      BY <3>4 DEF DropLocks, ProcT
    <3> QED BY <3>4, <3>5, <3>6 DEF ProcT
  <2> QED BY <2>1, <2>2
<1>16. ASSUME NEW p \in Procs, OpenForRestore(p) PROVE ProcT'
  BY <1>16, ReturnTyped
    DEF OpenForRestore, Goto, DropLocks, ProcT, EntryT, entryState, locks, local, history, budget
<1>17. ASSUME NEW p \in Procs, LockRoot(p) PROVE ProcT'
  BY <1>17, ReturnTyped
    DEF LockRoot, Goto, DropLocks, ProcT, EntryT, entryState, locks, local, history, budget
<1>18. ASSUME NEW p \in Procs, Publish(p) PROVE ProcT'
  BY <1>18, ReturnTyped DEF Publish, Goto, DropLocks, ProcT, EntryT, entryState, locks, local, history, budget
<1>19. ASSUME NEW p \in Procs, RetireSidecar(p) PROVE ProcT'
  BY <1>19, ReturnTyped
    DEF RetireSidecar, Goto, DropLocks, ProcT, EntryT, entryState, locks, local, history, budget
<1>20. ASSUME NEW p \in Procs, Crash(p) PROVE ProcT'
  BY <1>20, ReturnTyped DEF Crash, Goto, DropLocks, ProcT, EntryT, entryState, locks, local, history, budget
<1>21. CASE Edit
  BY <1>21, ReturnTyped DEF Edit, Goto, DropLocks, ProcT, EntryT, entryState, locks, local, history, budget
<1>22. CASE Purge
  BY <1>22, ReturnTyped DEF Purge, Goto, DropLocks, ProcT, EntryT, entryState, locks, local, history, budget
<1>23. CASE TrashAgain
  BY <1>23, ReturnTyped
    DEF TrashAgain, Goto, DropLocks, ProcT, EntryT, entryState, locks, local, history, budget
<1>24. CASE UNCHANGED vars BY <1>24
  DEF vars, entryState, locks, local, history, budget, Goto, DropLocks, ProcT, EntryT
<1> QED BY <1>1, <1>2, <1>3, <1>4, <1>5, <1>6, <1>7, <1>8, <1>9, <1>10, <1>11, <1>12, <1>13, <1>14, <1>15, <1>16, <1>17, <1>18, <1>19, <1>20, <1>21, <1>22, <1>23, <1>24
  DEF Next, Compress, Restore

LEMMA EntryStep == EntryT /\ ProcT /\ [Next]_vars => EntryT'
<1> SUFFICES ASSUME EntryT, ProcT, [Next]_vars PROVE EntryT' OBVIOUS
<1> USE CompressionConstants
<1>1. ASSUME NEW p \in Procs, ListEntry(p) PROVE EntryT'
  BY <1>1, MarkTyped, PutTyped, FreshTyped, FreeTyped, DecodedTyped
    DEF ListEntry, ProcT, EntryT, entryState, locks, local, history, budget
<1>2. ASSUME NEW p \in Procs, Flock(p) PROVE EntryT'
  BY <1>2, MarkTyped, PutTyped, FreshTyped, FreeTyped, DecodedTyped
    DEF Flock, ProcT, EntryT, entryState, locks, local, history, budget
<1>3. ASSUME NEW p \in Procs, StatForRetention(p) PROVE EntryT'
  BY <1>3, MarkTyped, PutTyped, FreshTyped, FreeTyped, DecodedTyped
    DEF StatForRetention, ProcT, EntryT, entryState, locks, local, history, budget
<1>4. ASSUME NEW p \in Procs, OpenForRetention(p) PROVE EntryT'
  BY <1>4, MarkTyped, PutTyped, FreshTyped, FreeTyped, DecodedTyped
    DEF OpenForRetention, ProcT, EntryT, entryState, locks, local, history, budget
<1>5. ASSUME NEW p \in Procs, OpenForCommand(p) PROVE EntryT'
  BY <1>5 DEF OpenForCommand, EntryT, entryState, history
<1>6. ASSUME NEW p \in Procs, Encode(p) PROVE EntryT'
  BY <1>6, MarkTyped, PutTyped, FreshTyped, FreeTyped, DecodedTyped
    DEF Encode, ProcT, EntryT, entryState, locks, local, history, budget
<1>7. ASSUME NEW p \in Procs, MarkCompressed(p) PROVE EntryT'
  BY <1>7, MarkTyped, PutTyped, FreshTyped, FreeTyped, DecodedTyped
    DEF MarkCompressed, ProcT, EntryT, entryState, locks, local, history, budget
<1>8. ASSUME NEW p \in Procs, RecheckSource(p) PROVE EntryT'
  BY <1>8, MarkTyped, PutTyped, FreshTyped, FreeTyped, DecodedTyped
    DEF RecheckSource, ProcT, EntryT, entryState, locks, local, history, budget
<1>9. ASSUME NEW p \in Procs, SwapData(p) PROVE EntryT'
  <2>1. CASE UNCHANGED <<data, node>> BY <1>9, <2>1 DEF SwapData, EntryT, history
  <2>2. CASE ~UNCHANGED <<data, node>>
    <3>1. PICK n \in Inos : data' = n /\ node' = [node EXCEPT ![n] = [doc |-> copied[p], form |-> "zstd"]]
      BY <1>9, <2>2, FreeTyped DEF SwapData
    <3>2. [doc |-> copied[p], form |-> "zstd"] \in Content BY <1>9, NewTyped DEF SwapData, ProcT
    <3> QED BY <1>9, <3>1, <3>2 DEF SwapData, EntryT, history
  <2> QED BY <2>1, <2>2
<1>10. ASSUME NEW p \in Procs, RevertMarker(p) PROVE EntryT'
  BY <1>10, MarkTyped, PutTyped, FreshTyped, FreeTyped, DecodedTyped
    DEF RevertMarker, ProcT, EntryT, entryState, locks, local, history, budget
<1>11. ASSUME NEW p \in Procs, ChooseRestore(p) PROVE EntryT'
  BY <1>11, MarkTyped, PutTyped, FreshTyped, FreeTyped, DecodedTyped
    DEF ChooseRestore, ProcT, EntryT, entryState, locks, local, history, budget
<1>12. ASSUME NEW p \in Procs, OpenMarked(p) PROVE EntryT'
  BY <1>12, MarkTyped, PutTyped, FreshTyped, FreeTyped, DecodedTyped
    DEF OpenMarked, ProcT, EntryT, entryState, locks, local, history, budget
<1>13. ASSUME NEW p \in Procs, Decode(p) PROVE EntryT'
  BY <1>13, MarkTyped, PutTyped, FreshTyped, FreeTyped, DecodedTyped
    DEF Decode, ProcT, EntryT, entryState, locks, local, history, budget
<1>14. ASSUME NEW p \in Procs, CommitPlaintext(p) PROVE EntryT'
  <2>1. CASE UNCHANGED <<data, node>> BY <1>14, <2>1 DEF CommitPlaintext, EntryT, history
  <2>2. CASE ~UNCHANGED <<data, node>>
    <3>1. PICK n \in Inos : data' = n /\ node' = [node EXCEPT ![n] = Decoded(node[data])]
      BY <1>14, <2>2, FreeTyped DEF CommitPlaintext
    <3>2. data # None BY <1>14, <2>2 DEF CommitPlaintext, Current, ProcT, Entry
    <3>3. Decoded(node[data]) \in Content BY <3>2, DecodedTyped DEF EntryT
    <3> QED BY <1>14, <3>1, <3>3 DEF CommitPlaintext, EntryT, history
  <2> QED BY <2>1, <2>2
<1>15. ASSUME NEW p \in Procs, ClearMarker(p) PROVE EntryT'
  BY <1>15, MarkTyped, PutTyped, FreshTyped, FreeTyped, DecodedTyped
    DEF ClearMarker, ProcT, EntryT, entryState, locks, local, history, budget
<1>16. ASSUME NEW p \in Procs, OpenForRestore(p) PROVE EntryT'
  BY <1>16, MarkTyped, PutTyped, FreshTyped, FreeTyped, DecodedTyped
    DEF OpenForRestore, ProcT, EntryT, entryState, locks, local, history, budget
<1>17. ASSUME NEW p \in Procs, LockRoot(p) PROVE EntryT'
  BY <1>17, MarkTyped, PutTyped, FreshTyped, FreeTyped, DecodedTyped
    DEF LockRoot, ProcT, EntryT, entryState, locks, local, history, budget
<1>18. ASSUME NEW p \in Procs, Publish(p) PROVE EntryT'
  <2>1. CASE ~Current(p) BY <1>18, <2>1 DEF Publish, EntryT, history
  <2>2. CASE Current(p)
    <3>1. data # None BY <1>18, <2>2 DEF Publish, Current, ProcT, Entry
    <3> QED BY <1>18, <2>2, <3>1 DEF Publish, EntryT, history
  <2> QED BY <2>1, <2>2
<1>19. ASSUME NEW p \in Procs, RetireSidecar(p) PROVE EntryT'
  BY <1>19, MarkTyped, PutTyped, FreshTyped, FreeTyped, DecodedTyped
    DEF RetireSidecar, ProcT, EntryT, entryState, locks, local, history, budget
<1>20. ASSUME NEW p \in Procs, Crash(p) PROVE EntryT'
  BY <1>20, MarkTyped, PutTyped, FreshTyped, FreeTyped, DecodedTyped
    DEF Crash, ProcT, EntryT, entryState, locks, local, history, budget
<1>21. CASE Edit
  <2>1. PICK d \in Docs : /\ node' = [node EXCEPT ![writer] = [doc |-> d, form |-> "plain"]]
                           /\ used' = used \cup {d} /\ truth' \in {d, truth}
                           /\ raced' \in {raced, raced \cup {d}} /\ misled' \in {misled, misled \cup {d}}
    BY <1>21 DEF Edit
  <2>2. [doc |-> d, form |-> "plain"] \in Content BY NewTyped
  <2>3. writer \in Inos BY <1>21 DEF Edit, EntryT
  <2> QED BY <1>21, <2>1, <2>2, <2>3 DEF Edit, EntryT
<1>22. CASE Purge
  BY <1>22, MarkTyped, PutTyped, FreshTyped, FreeTyped, DecodedTyped
    DEF Purge, ProcT, EntryT, entryState, locks, local, history, budget
<1>23. CASE TrashAgain
  <2>1. PICK n \in Inos, d \in Docs, v \in Vers :
           /\ data' = n /\ node' = [node EXCEPT ![n] = [doc |-> d, form |-> "plain"]]
           /\ side' = [ver |-> v, marked |-> FALSE]
           /\ writer' \in {n, None} /\ truth' = d /\ used' = used \cup {d}
    BY <1>23, FreeTyped, FreshTyped DEF TrashAgain
  <2>2. [doc |-> d, form |-> "plain"] \in Content BY NewTyped
  <2>3. side' \in Sidecar BY <2>1 DEF Sidecar
  <2> QED BY <1>23, <2>1, <2>2, <2>3 DEF TrashAgain, EntryT
<1>24. CASE UNCHANGED vars BY <1>24 DEF vars, entryState, locks, local, history, budget, ProcT, EntryT
<1> QED BY <1>1, <1>2, <1>3, <1>4, <1>5, <1>6, <1>7, <1>8, <1>9, <1>10, <1>11, <1>12, <1>13, <1>14, <1>15, <1>16, <1>17, <1>18, <1>19, <1>20, <1>21, <1>22, <1>23, <1>24
  DEF Next, Compress, Restore

\* Typed for any number of processes, contents, inodes and versions.
LEMMA StepTyped == Typed /\ [Next]_vars => Typed'
<1> SUFFICES ASSUME Typed, [Next]_vars PROVE Typed' OBVIOUS
<1>1. EntryT /\ ProcT BY DEF Typed
<1>2. EntryT' /\ ProcT' BY <1>1, EntryStep, ProcStep
<1>3. ops' \in 0..MaxOps /\ crashes' \in 0..MaxCrashes
  <2>1. ASSUME NEW p \in Procs, ListEntry(p) PROVE ops' \in 0..MaxOps /\ UNCHANGED crashes
    BY <2>1, CompressionConstants DEF ListEntry, Typed
  <2>2. ASSUME NEW p \in Procs, Crash(p) PROVE crashes' \in 0..MaxCrashes /\ UNCHANGED ops
    BY <2>2, CompressionConstants DEF Crash, Typed
  <2>3. ASSUME NEW p \in Procs, Compress(p) \/ Restore(p) \/ Flock(p) PROVE UNCHANGED budget
    BY <2>3
      DEF Compress, Restore, Flock, StatForRetention, OpenForRetention, OpenForCommand, Encode, MarkCompressed,
                RecheckSource, SwapData, RevertMarker, ChooseRestore, OpenMarked, Decode, CommitPlaintext, ClearMarker,
                OpenForRestore, LockRoot, Publish, RetireSidecar
  <2>4. Edit \/ Purge \/ TrashAgain \/ UNCHANGED vars => UNCHANGED budget BY DEF Edit, Purge, TrashAgain, vars
  <2> QED BY <2>1, <2>2, <2>3, <2>4 DEF Next, budget, Typed
<1> QED BY <1>2, <1>3 DEF Typed

LEMMA IsTyped == Spec => []Typed
BY InitTyped, StepTyped, PTL DEF Spec

THEOREM Typing == Spec => []TypeOK
<1>1. Typed => TypeOK BY DEF Typed, EntryT, ProcT, TypeOK
<1> QED BY <1>1, IsTyped, PTL

-----------------------------------------------------------------------------
(* Safety.                                                                 *)

\* Who holds store.lock.
Locked == \A p \in Procs :
  pc[p] \in {"swap", "persist", "unmark", "dUnmark", "rCommit", "rSide"} => rootLock = p

\* A listing that is current tells the marker.
Versions == \A p \in Procs : pc[p] # "idle" =>
  /\ side.ver = listed[p].ver => side.marked = listed[p].marked
  /\ pc[p] \in {"dOpen", "dFlock", "dCheck", "dCommit"} => listed[p].marked
  /\ pc[p] \in Restoring => ~listed[p].marked

\* What the data is.
Kept ==
  data # None =>
    /\ node[data].doc \in used
    /\ node[data].form = "zstd" /\ side # NoSidecar => side.marked
    /\ node[data].doc \in Archives /\ (node[data].form = "plain" => side.marked) => node[data].doc \in misled
    /\ node[data].form = "decoded" => node[data].doc \in misled
    /\ node[data].doc = truth \/ truth \in raced

\* What a compressor knows of the data, and what a decoder does.
Knows(p) ==
  /\ copied[p] # None => copied[p] \in used
  /\ pc[p] \in {"commit", "swap", "persist"} /\ copied[p] \in Archives => copied[p] \in misled
  /\ pc[p] = "commit" /\ Unchanged(p) => ~Magic(node[data])
  /\ pc[p] \in {"swap", "persist", "unmark"} => data = held[p] /\ node[data].form # "zstd"
  /\ pc[p] \in {"swap", "persist"} => side.marked
  /\ pc[p] = "persist" => copied[p] = truth \/ truth \in raced
  /\ pc[p] = "dUnmark" => data # None /\ node[data].form # "zstd"

Safe == Kept /\ RestoresPlain /\ \A p \in Procs : Knows(p)

LEMMA LockedStep == Typed /\ Locked /\ [Next]_vars => Locked'
<1> SUFFICES ASSUME Typed, Locked, [Next]_vars PROVE Locked' OBVIOUS
<1> USE CompressionConstants DEF Typed
<1>1. ASSUME NEW p \in Procs, ListEntry(p) PROVE Locked'
  BY <1>1 DEF ListEntry, Locked, ProcT, Return, Goto, DropLocks, entryState, locks, local, history, budget
<1>2. ASSUME NEW p \in Procs, Flock(p) PROVE Locked'
  BY <1>2 DEF Flock, Locked, ProcT, Return, Goto, DropLocks, entryState, locks, local, history, budget
<1>3. ASSUME NEW p \in Procs, StatForRetention(p) PROVE Locked'
  BY <1>3
    DEF StatForRetention, Locked, ProcT, Return, Goto, DropLocks, entryState, locks, local, history, budget
<1>4. ASSUME NEW p \in Procs, OpenForRetention(p) PROVE Locked'
  BY <1>4
    DEF OpenForRetention, Locked, ProcT, Return, Goto, DropLocks, entryState, locks, local, history, budget
<1>5. ASSUME NEW p \in Procs, OpenForCommand(p) PROVE Locked'
  BY <1>5
    DEF OpenForCommand, Locked, ProcT, Return, Goto, DropLocks, entryState, locks, local, history, budget
<1>6. ASSUME NEW p \in Procs, Encode(p) PROVE Locked'
  BY <1>6 DEF Encode, Locked, ProcT, Return, Goto, DropLocks, entryState, locks, local, history, budget
<1>7. ASSUME NEW p \in Procs, MarkCompressed(p) PROVE Locked'
  <2>1. CASE ~(Current(p) /\ Unchanged(p))
    <3>1. Return(p) /\ side' = side /\ rootLock = None BY <1>7, <2>1 DEF MarkCompressed
    <3> QED BY <3>1 DEF Locked, Return, Goto, DropLocks, ProcT
  <2>2. CASE Current(p) /\ Unchanged(p)
    BY <1>7, <2>2 DEF MarkCompressed, Locked, Goto, ProcT, local
  <2> QED BY <2>1, <2>2
<1>8. ASSUME NEW p \in Procs, RecheckSource(p) PROVE Locked'
  BY <1>8 DEF RecheckSource, Locked, ProcT, Return, Goto, DropLocks, entryState, locks, local, history, budget
<1>9. ASSUME NEW p \in Procs, SwapData(p) PROVE Locked'
  BY <1>9 DEF SwapData, Locked, ProcT, Return, Goto, DropLocks, entryState, locks, local, history, budget
<1>10. ASSUME NEW p \in Procs, RevertMarker(p) PROVE Locked'
  BY <1>10 DEF RevertMarker, Locked, ProcT, Return, Goto, DropLocks, entryState, locks, local, history, budget
<1>11. ASSUME NEW p \in Procs, ChooseRestore(p) PROVE Locked'
  BY <1>11
    DEF ChooseRestore, Locked, ProcT, Return, Goto, DropLocks, entryState, locks, local, history, budget
<1>12. ASSUME NEW p \in Procs, OpenMarked(p) PROVE Locked'
  BY <1>12 DEF OpenMarked, Locked, ProcT, Return, Goto, DropLocks, entryState, locks, local, history, budget
<1>13. ASSUME NEW p \in Procs, Decode(p) PROVE Locked'
  BY <1>13 DEF Decode, Locked, ProcT, Return, Goto, DropLocks, entryState, locks, local, history, budget
<1>14. ASSUME NEW p \in Procs, CommitPlaintext(p) PROVE Locked'
  BY <1>14
    DEF CommitPlaintext, Locked, ProcT, Return, Goto, DropLocks, entryState, locks, local, history, budget
<1>15. ASSUME NEW p \in Procs, ClearMarker(p) PROVE Locked'
  BY <1>15 DEF ClearMarker, Locked, ProcT, Return, Goto, DropLocks, entryState, locks, local, history, budget
<1>16. ASSUME NEW p \in Procs, OpenForRestore(p) PROVE Locked'
  BY <1>16
    DEF OpenForRestore, Locked, ProcT, Return, Goto, DropLocks, entryState, locks, local, history, budget
<1>17. ASSUME NEW p \in Procs, LockRoot(p) PROVE Locked'
  BY <1>17 DEF LockRoot, Locked, ProcT, Return, Goto, DropLocks, entryState, locks, local, history, budget
<1>18. ASSUME NEW p \in Procs, Publish(p) PROVE Locked'
  BY <1>18 DEF Publish, Locked, ProcT, Return, Goto, DropLocks, entryState, locks, local, history, budget
<1>19. ASSUME NEW p \in Procs, RetireSidecar(p) PROVE Locked'
  BY <1>19
    DEF RetireSidecar, Locked, ProcT, Return, Goto, DropLocks, entryState, locks, local, history, budget
<1>20. ASSUME NEW p \in Procs, Crash(p) PROVE Locked'
  BY <1>20 DEF Crash, Locked, ProcT, Return, Goto, DropLocks, entryState, locks, local, history, budget
<1>21. CASE Edit
  BY <1>21 DEF Edit, Locked, ProcT, Return, Goto, DropLocks, entryState, locks, local, history, budget
<1>22. CASE Purge
  BY <1>22 DEF Purge, Locked, ProcT, Return, Goto, DropLocks, entryState, locks, local, history, budget
<1>23. CASE TrashAgain
  BY <1>23 DEF TrashAgain, Locked, ProcT, Return, Goto, DropLocks, entryState, locks, local, history, budget
<1>24. CASE UNCHANGED vars BY <1>24
  DEF vars, entryState, locks, local, history, budget, Locked, ProcT, Return, Goto, DropLocks
<1> QED BY <1>1, <1>2, <1>3, <1>4, <1>5, <1>6, <1>7, <1>8, <1>9, <1>10, <1>11, <1>12, <1>13, <1>14, <1>15, <1>16, <1>17, <1>18, <1>19, <1>20, <1>21, <1>22, <1>23, <1>24
  DEF Next, Compress, Restore

LEMMA FreshUnknown ==
  \A v \in FreshVers : v \in Vers /\ v # side.ver /\ \A q \in Procs : v # listed[q].ver
BY DEF FreshVers

LEMMA VersionsStep == Typed /\ Locked /\ Versions /\ [Next]_vars => Versions'
<1> SUFFICES ASSUME Typed, Locked, Versions, [Next]_vars PROVE Versions' OBVIOUS
<1> USE CompressionConstants, FreshUnknown DEF Typed
<1>1. ASSUME NEW p \in Procs, ListEntry(p) PROVE Versions'
  BY <1>1
    DEF ListEntry, Versions, ProcT, SetMarker, Return, Goto, DropLocks, entryState, locks, local, history, budget
<1>2. ASSUME NEW p \in Procs, Flock(p) PROVE Versions'
  BY <1>2
    DEF Flock, Versions, ProcT, SetMarker, Return, Goto, DropLocks, entryState, locks, local, history, budget
<1>3. ASSUME NEW p \in Procs, StatForRetention(p) PROVE Versions'
  BY <1>3
    DEF StatForRetention, Versions, ProcT, SetMarker, Return, Goto, DropLocks, entryState, locks, local, history, budget
<1>4. ASSUME NEW p \in Procs, OpenForRetention(p) PROVE Versions'
  BY <1>4
    DEF OpenForRetention, Versions, ProcT, SetMarker, Return, Goto, DropLocks, entryState, locks, local, history, budget
<1>5. ASSUME NEW p \in Procs, OpenForCommand(p) PROVE Versions'
  BY <1>5
    DEF OpenForCommand, Versions, ProcT, SetMarker, Return, Goto, DropLocks, entryState, locks, local, history, budget
<1>6. ASSUME NEW p \in Procs, Encode(p) PROVE Versions'
  BY <1>6
    DEF Encode, Versions, ProcT, SetMarker, Return, Goto, DropLocks, entryState, locks, local, history, budget
<1>7. ASSUME NEW p \in Procs, MarkCompressed(p) PROVE Versions'
  BY <1>7
    DEF MarkCompressed, Versions, ProcT, SetMarker, Return, Goto, DropLocks, entryState, locks, local, history, budget
<1>8. ASSUME NEW p \in Procs, RecheckSource(p) PROVE Versions'
  BY <1>8
    DEF RecheckSource, Versions, ProcT, SetMarker, Return, Goto, DropLocks, entryState, locks, local, history, budget
<1>9. ASSUME NEW p \in Procs, SwapData(p) PROVE Versions'
  BY <1>9
    DEF SwapData, Versions, ProcT, SetMarker, Return, Goto, DropLocks, entryState, locks, local, history, budget
<1>10. ASSUME NEW p \in Procs, RevertMarker(p) PROVE Versions'
  BY <1>10
    DEF RevertMarker, Versions, ProcT, SetMarker, Return, Goto, DropLocks, entryState, locks, local, history, budget
<1>11. ASSUME NEW p \in Procs, ChooseRestore(p) PROVE Versions'
  BY <1>11
    DEF ChooseRestore, Versions, ProcT, SetMarker, Return, Goto, DropLocks, entryState, locks, local, history, budget
<1>12. ASSUME NEW p \in Procs, OpenMarked(p) PROVE Versions'
  BY <1>12
    DEF OpenMarked, Versions, ProcT, SetMarker, Return, Goto, DropLocks, entryState, locks, local, history, budget
<1>13. ASSUME NEW p \in Procs, Decode(p) PROVE Versions'
  BY <1>13
    DEF Decode, Versions, ProcT, SetMarker, Return, Goto, DropLocks, entryState, locks, local, history, budget
<1>14. ASSUME NEW p \in Procs, CommitPlaintext(p) PROVE Versions'
  <2>1. CASE ~(Current(p) /\ Unchanged(p))
    <3>1. Return(p) /\ side' = side /\ rootLock = None BY <1>14, <2>1 DEF CommitPlaintext
    <3> QED BY <3>1 DEF Versions, Return, Goto, DropLocks, ProcT
  <2>2. CASE Current(p) /\ Unchanged(p)
    <3>1. pc' = [pc EXCEPT ![p] = "dUnmark"] /\ side' = side BY <1>14, <2>2 DEF CommitPlaintext, Goto
    <3>2. \A q \in Procs : listed'[q].ver = listed[q].ver /\ listed'[q].marked = listed[q].marked
      <4>1. CASE listed' = listed BY <4>1
      <4>2. CASE listed' # listed
        <5>1. PICK n \in Inos : listed' = [listed EXCEPT ![p] = [@ EXCEPT !.ino = n]]
          BY <1>14, <2>2, <4>2, FreeTyped DEF CommitPlaintext
        <5>2. listed[p] \in Entry BY <1>14 DEF CommitPlaintext, ProcT
        <5>3. [listed[p] EXCEPT !.ino = n].ver = listed[p].ver /\ [listed[p] EXCEPT !.ino = n].marked = listed[p].marked
          BY <5>2 DEF Entry
        <5> QED BY <5>1, <5>3 DEF ProcT
      <4> QED BY <4>1, <4>2
    <3> QED BY <1>14, <3>1, <3>2 DEF Versions, ProcT, CommitPlaintext
  <2> QED BY <2>1, <2>2
<1>15. ASSUME NEW p \in Procs, ClearMarker(p) PROVE Versions'
  <2>1. CASE Return(p) /\ UNCHANGED side BY <1>15, <2>1 DEF Versions, ProcT, Return, Goto
  <2>2. CASE ~(Return(p) /\ UNCHANGED side)
    <3>1. PICK v \in FreshVers : side' = [ver |-> v, marked |-> FALSE] BY <1>15, <2>2
      DEF ClearMarker, SetMarker
    <3>2. listed' = [listed EXCEPT ![p] = [@ EXCEPT !.ver = v, !.marked = FALSE]] BY <1>15, <2>2, <3>1
      DEF ClearMarker
    <3>3. pc' = [pc EXCEPT ![p] = "rOpen"] BY <1>15, <2>2 DEF ClearMarker, Goto
    <3>4. listed[p] \in Entry BY <1>15 DEF ClearMarker, ProcT
    <3>5. [listed[p] EXCEPT !.ver = v, !.marked = FALSE].marked = FALSE BY <3>4 DEF Entry
    <3>6. listed'[p].marked = FALSE BY <3>2, <3>5 DEF ProcT
    <3>7. \A q \in Procs \ {p} : listed'[q] = listed[q] /\ pc'[q] = pc[q] BY <3>2, <3>3 DEF ProcT
    <3>8. pc'[p] = "rOpen" BY <3>3 DEF ProcT
    <3>9. side'.ver = v /\ side'.marked = FALSE BY <3>1
    <3>10. ASSUME NEW q \in Procs \ {p} PROVE side'.ver # listed'[q].ver BY <3>7, <3>9, FreshUnknown
    <3> QED BY <3>6, <3>7, <3>8, <3>9, <3>10 DEF Versions
  <2> QED BY <2>1, <2>2
<1>16. ASSUME NEW p \in Procs, OpenForRestore(p) PROVE Versions'
  BY <1>16
    DEF OpenForRestore, Versions, ProcT, SetMarker, Return, Goto, DropLocks, entryState, locks, local, history, budget
<1>17. ASSUME NEW p \in Procs, LockRoot(p) PROVE Versions'
  BY <1>17
    DEF LockRoot, Versions, ProcT, SetMarker, Return, Goto, DropLocks, entryState, locks, local, history, budget
<1>18. ASSUME NEW p \in Procs, Publish(p) PROVE Versions'
  BY <1>18
    DEF Publish, Versions, ProcT, SetMarker, Return, Goto, DropLocks, entryState, locks, local, history, budget
<1>19. ASSUME NEW p \in Procs, RetireSidecar(p) PROVE Versions'
  <2>1. \A q \in Procs \ {p} : listed'[q] = listed[q] /\ pc'[q] = pc[q] BY <1>19
    DEF RetireSidecar, Return, Goto, ProcT
  <2>2. pc'[p] = "idle" /\ side'.ver = None BY <1>19 DEF RetireSidecar, Return, Goto, ProcT, NoSidecar
  <2>3. \A q \in Procs : pc[q] # "idle" => listed[q].ver # None BY DEF ProcT, Entry
  <2> QED BY <2>1, <2>2, <2>3 DEF Versions
<1>20. ASSUME NEW p \in Procs, Crash(p) PROVE Versions'
  BY <1>20
    DEF Crash, Versions, ProcT, SetMarker, Return, Goto, DropLocks, entryState, locks, local, history, budget
<1>21. CASE Edit
  BY <1>21
    DEF Edit, Versions, ProcT, SetMarker, Return, Goto, DropLocks, entryState, locks, local, history, budget
<1>22. CASE Purge
  <2>1. listed' = listed /\ pc' = pc /\ side'.ver = None BY <1>22 DEF Purge, NoSidecar, local
  <2>2. \A q \in Procs : pc[q] # "idle" => listed[q].ver # None BY DEF ProcT, Entry
  <2> QED BY <2>1, <2>2 DEF Versions
<1>23. CASE TrashAgain
  <2>1. listed' = listed /\ pc' = pc BY <1>23 DEF TrashAgain, local
  <2>2. PICK v \in FreshVers : side' = [ver |-> v, marked |-> FALSE] BY <1>23 DEF TrashAgain
  <2>3. \A q \in Procs : side'.ver # listed[q].ver BY <2>2, FreshUnknown
  <2> QED BY <2>1, <2>3 DEF Versions
<1>24. CASE UNCHANGED vars BY <1>24
  DEF vars, entryState, locks, local, history, budget, Versions, ProcT, SetMarker, Return, Goto, DropLocks
<1> QED BY <1>1, <1>2, <1>3, <1>4, <1>5, <1>6, <1>7, <1>8, <1>9, <1>10, <1>11, <1>12, <1>13, <1>14, <1>15, <1>16, <1>17, <1>18, <1>19, <1>20, <1>21, <1>22, <1>23, <1>24
  DEF Next, Compress, Restore

\* One process moves and changes nothing of the entry.
world == <<data, node, side, out, truth, raced, misled, used>>
Others(p) == \A q \in Procs \ {p} : pc'[q] = pc[q] /\ held'[q] = held[q] /\ copied'[q] = copied[q]

LEMMA Framed ==
  ASSUME Safe, NEW p \in Procs, UNCHANGED world, Others(p), Knows(p)' PROVE Safe'
<1>1. Kept' /\ RestoresPlain' BY DEF Safe, Kept, RestoresPlain, world
<1>2. ASSUME NEW q \in Procs \ {p} PROVE Knows(q)'
  BY DEF Safe, Knows, world, Others, Unchanged, Magic
<1> QED BY <1>1, <1>2 DEF Safe

LEMMA ReturnKnows == ASSUME ProcT, NEW p \in Procs, Return(p) PROVE Knows(p)'
BY DEF ProcT, Return, Goto, Knows
LEMMA ReturnOthers == ASSUME ProcT, NEW p \in Procs, Return(p) PROVE Others(p)
BY DEF ProcT, Return, Goto, Others
LEMMA Returned ==
  ASSUME Safe, ProcT, NEW p \in Procs, Return(p), UNCHANGED world PROVE Safe'
BY ReturnKnows, ReturnOthers, Framed

LEMMA SafeStep == Typed /\ Locked /\ Versions /\ Safe /\ [Next]_vars => Safe'
<1> SUFFICES ASSUME Typed, Locked, Versions, Safe, [Next]_vars PROVE Safe' OBVIOUS
<1> USE CompressionConstants DEF Typed
<1>1. ASSUME NEW p \in Procs, ListEntry(p) PROVE Safe'
  <2>1. Knows(p)' BY <1>1 DEF ListEntry, Knows, Safe, Kept, Goto, ProcT, entryState, local, history
  <2>2. UNCHANGED world /\ Others(p) BY <1>1
    DEF ListEntry, world, Others, Goto, ProcT, entryState, local, history
  <2> QED BY <2>1, <2>2, Framed
<1>2. ASSUME NEW p \in Procs, Flock(p) PROVE Safe'
  <2>1. Knows(p)' BY <1>2 DEF Flock, Knows, Safe, Kept, Goto, ProcT, entryState, local, history
  <2>2. UNCHANGED world /\ Others(p) BY <1>2 DEF Flock, world, Others, Goto, ProcT, entryState, local, history
  <2> QED BY <2>1, <2>2, Framed
<1>3. ASSUME NEW p \in Procs, StatForRetention(p) PROVE Safe'
  <2>1. Knows(p)' BY <1>3 DEF StatForRetention, Knows, Safe, Kept, Goto, ProcT, entryState, local, history
  <2>2. UNCHANGED world /\ Others(p) BY <1>3
    DEF StatForRetention, world, Others, Goto, ProcT, entryState, local, history
  <2> QED BY <2>1, <2>2, Framed
<1>4. ASSUME NEW p \in Procs, OpenForRetention(p) PROVE Safe'
  <2>1. UNCHANGED world BY <1>4 DEF OpenForRetention, world, entryState, history
  <2>2. CASE Return(p) BY <2>1, <2>2, Returned
  <2>3. CASE ~Return(p)
    <3>1. Knows(p)' BY <1>4, <2>3
      DEF OpenForRetention, Knows, Safe, Kept, Goto, ProcT, entryState, local, history
    <3>2. Others(p) BY <1>4, <2>3 DEF OpenForRetention, Others, Goto, ProcT, local
    <3> QED BY <2>1, <3>1, <3>2, Framed
  <2> QED BY <2>2, <2>3
<1>5. ASSUME NEW p \in Procs, OpenForCommand(p) PROVE Safe'
  <2>1. Knows(p)' BY <1>5 DEF OpenForCommand, Knows, Safe, Kept, Goto, ProcT, entryState, local, history
  <2>2. UNCHANGED world /\ Others(p) BY <1>5
    DEF OpenForCommand, world, Others, Goto, ProcT, entryState, local, history
  <2> QED BY <2>1, <2>2, Framed
<1>6. ASSUME NEW p \in Procs, Encode(p) PROVE Safe'
  <2>1. UNCHANGED world BY <1>6 DEF Encode, world, entryState, history
  <2>2. CASE Return(p) BY <2>1, <2>2, Returned
  <2>3. CASE ~Return(p)
    <3>1. Unchanged(p) /\ ~Magic(node[data]) /\ pc' = [pc EXCEPT ![p] = "commit"] /\ UNCHANGED local
      BY <1>6, <2>3 DEF Encode, Unchanged, Goto
    <3>2. held[p] # None BY <1>6 DEF Encode, ProcT
    <3>3. data # None /\ node[data].doc = copied[p] /\ node[data] \in Content BY <3>1, <3>2
      DEF Unchanged, EntryT
    <3>4. copied[p] \in Archives => copied[p] \in misled
      BY <3>1, <3>3 DEF Safe, Kept, Magic, Content
    <3>5. Knows(p)' BY <2>1, <3>1, <3>4 DEF Knows, Safe, ProcT, local, world, Unchanged, Magic
    <3>6. Others(p) BY <3>1 DEF Others, ProcT, local
    <3> QED BY <2>1, <3>5, <3>6, Framed
  <2> QED BY <2>2, <2>3
<1>7. ASSUME NEW p \in Procs, MarkCompressed(p) PROVE Safe'
  <2>1. CASE ~(Current(p) /\ Unchanged(p))
    <3>1. Return(p) /\ UNCHANGED world BY <1>7, <2>1 DEF MarkCompressed, world, history
    <3> QED BY <3>1, Returned
  <2>2. CASE Current(p) /\ Unchanged(p)
    <3>1. PICK v \in Vers : side' = [ver |-> v, marked |-> TRUE] BY <1>7, <2>2, FreshTyped
      DEF MarkCompressed, SetMarker
    <3>2. /\ pc' = [pc EXCEPT ![p] = "swap"] /\ pc[p] = "commit" /\ rootLock = None
          /\ UNCHANGED <<data, node, out, history, local>>
      BY <1>7, <2>2 DEF MarkCompressed, Goto
    <3>3. data = held[p] /\ node[data].doc = copied[p] /\ ~Magic(node[data])
          /\ (copied[p] \in Archives => copied[p] \in misled)
      BY <2>2, <3>2 DEF Safe, Knows, Unchanged
    <3>4. Kept' BY <3>1, <3>2, <3>3 DEF Safe, Kept, history
    <3>5. Knows(p)' BY <3>1, <3>2, <3>3 DEF Safe, Knows, ProcT, local, history, Magic
    <3>6. ASSUME NEW q \in Procs \ {p} PROVE Knows(q)'
      BY <3>2 DEF Safe, Knows, ProcT, Locked, local, history, Unchanged, Magic
    <3> QED BY <3>2, <3>4, <3>5, <3>6 DEF Safe, RestoresPlain, history
  <2> QED BY <2>1, <2>2
<1>8. ASSUME NEW p \in Procs, RecheckSource(p) PROVE Safe'
  <2>1. UNCHANGED world /\ Others(p) BY <1>8
    DEF RecheckSource, world, Others, Goto, ProcT, entryState, local, history
  <2>2. data # None BY <1>8 DEF RecheckSource, Safe, Knows, ProcT
  <2>3. Knows(p)' BY <1>8, <2>2
    DEF RecheckSource, Knows, Safe, Kept, Goto, ProcT, entryState, local, history, Unchanged
  <2> QED BY <2>1, <2>3, Framed
<1>9. ASSUME NEW p \in Procs, SwapData(p) PROVE Safe'
  <2>1. CASE UNCHANGED <<data, node>> /\ Goto(p, "unmark") /\ UNCHANGED local
    <3>1. UNCHANGED world /\ Others(p) BY <1>9, <2>1 DEF SwapData, world, Others, Goto, ProcT, local, history
    <3>2. Knows(p)' BY <1>9, <2>1 DEF SwapData, Knows, Safe, Goto, ProcT, local, history
    <3> QED BY <3>1, <3>2, Framed
  <2>2. CASE Return(p) /\ ~UNCHANGED <<data, node>>
    <3>1. PICK n \in FreeInos : data' = n /\ node' = [node EXCEPT ![n] = [doc |-> copied[p], form |-> "zstd"]]
      BY <1>9, <2>2 DEF SwapData
    <3>2. pc[p] = "persist" /\ UNCHANGED <<side, writer, out, history>> BY <1>9 DEF SwapData
    <3>3. n \in Inos /\ \A q \in Procs : n # held[q] BY DEF FreeInos
    <3>4. node'[data'] = [doc |-> copied[p], form |-> "zstd"] BY <3>1, <3>3 DEF EntryT
    <3>5. copied[p] # None BY <3>2 DEF ProcT
    <3>6. Kept' BY <3>2, <3>4, <3>5 DEF Safe, Kept, Knows, history
    <3>7. ASSUME NEW q \in Procs \ {p} PROVE Knows(q)'
      <4>1. rootLock = p BY <3>2 DEF Locked
      <4>2. pc'[q] = pc[q] /\ held'[q] = held[q] /\ copied'[q] = copied[q] BY <2>2, ReturnOthers DEF Others
      <4>3. ~Unchanged(q)' BY <3>1, <3>3, <4>2 DEF Unchanged
      <4> QED BY <3>2, <4>1, <4>2, <4>3 DEF Safe, Knows, Locked, history
    <3>8. Knows(p)' BY <2>2, ReturnKnows
    <3> QED BY <3>2, <3>6, <3>7, <3>8 DEF Safe, RestoresPlain, history
  <2>3. CASE Return(p) /\ UNCHANGED <<data, node>>
    BY <1>9, <2>3, Returned DEF SwapData, world, history
  <2> QED BY <1>9, <2>1, <2>2, <2>3 DEF SwapData
<1>10. ASSUME NEW p \in Procs, RevertMarker(p) PROVE Safe'
  <2>1. CASE UNCHANGED side BY <1>10, <2>1, Returned DEF RevertMarker, world, history
  <2>2. CASE ~UNCHANGED side
    <3>1. PICK v \in Vers : side' = [ver |-> v, marked |-> FALSE] BY <1>10, <2>2, FreshTyped
      DEF RevertMarker, SetMarker
    <3>2. node[data].form # "zstd" /\ rootLock = p /\ UNCHANGED <<data, node, out, history>>
      BY <1>10 DEF RevertMarker, Safe, Knows, Locked
    <3>3. pc'[p] \notin {"commit", "swap", "persist", "unmark", "dUnmark"} /\ copied'[p] = None /\ Others(p)
      BY <1>10, <2>2 DEF RevertMarker, Return, Goto, Others, ProcT
    <3>4. Kept' BY <3>1, <3>2 DEF Safe, Kept, history
    <3>5. Knows(p)' BY <3>3 DEF Knows
    <3>6. ASSUME NEW q \in Procs \ {p} PROVE Knows(q)'
      BY <3>2, <3>3 DEF Safe, Knows, Locked, Others, history, Unchanged, Magic
    <3> QED BY <3>2, <3>4, <3>5, <3>6 DEF Safe, RestoresPlain, history
  <2> QED BY <2>1, <2>2
<1>11. ASSUME NEW p \in Procs, ChooseRestore(p) PROVE Safe'
  <2>1. UNCHANGED world BY <1>11 DEF ChooseRestore, world, entryState, history
  <2>2. CASE Return(p) BY <2>1, <2>2, Returned
  <2>3. CASE ~Return(p)
    <3>1. Knows(p)' BY <1>11, <2>3
      DEF ChooseRestore, Knows, Safe, Kept, Goto, ProcT, entryState, local, history
    <3>2. Others(p) BY <1>11, <2>3 DEF ChooseRestore, Others, Goto, ProcT, local
    <3> QED BY <2>1, <3>1, <3>2, Framed
  <2> QED BY <2>2, <2>3
<1>12. ASSUME NEW p \in Procs, OpenMarked(p) PROVE Safe'
  <2>1. UNCHANGED world BY <1>12 DEF OpenMarked, world, entryState, history
  <2>2. CASE Return(p) BY <2>1, <2>2, Returned
  <2>3. CASE ~Return(p)
    <3>1. data # None BY <1>12, <2>3 DEF OpenMarked, ProcT, Entry
    <3>2. Knows(p)' BY <1>12, <2>3, <3>1 DEF OpenMarked, Knows, Safe, Kept, Goto, ProcT, entryState, history
    <3>3. Others(p) BY <1>12, <2>3 DEF OpenMarked, Others, Goto, ProcT
    <3> QED BY <2>1, <3>2, <3>3, Framed
  <2> QED BY <2>2, <2>3
<1>13. ASSUME NEW p \in Procs, Decode(p) PROVE Safe'
  <2>1. UNCHANGED world BY <1>13 DEF Decode, world, entryState, history
  <2>2. CASE Return(p) BY <2>1, <2>2, Returned
  <2>3. CASE ~Return(p)
    <3>1. Knows(p)' BY <1>13, <2>3 DEF Decode, Knows, Safe, Kept, Goto, ProcT, entryState, local, history
    <3>2. Others(p) BY <1>13, <2>3 DEF Decode, Others, Goto, ProcT, local
    <3> QED BY <2>1, <3>1, <3>2, Framed
  <2> QED BY <2>2, <2>3
<1>14. ASSUME NEW p \in Procs, CommitPlaintext(p) PROVE Safe'
  <2>1. CASE ~(Current(p) /\ Unchanged(p))
    <3>1. Return(p) /\ UNCHANGED world BY <1>14, <2>1 DEF CommitPlaintext, world, history
    <3> QED BY <3>1, Returned
  <2>2. CASE Current(p) /\ Unchanged(p)
    <3>1. /\ pc[p] = "dCommit" /\ pc' = [pc EXCEPT ![p] = "dUnmark"] /\ rootLock = None
          /\ UNCHANGED <<side, out, history, held, copied>>
      BY <1>14, <2>2 DEF CommitPlaintext, Goto
    <3>2. side.marked BY <2>2, <3>1 DEF Versions, Current
    <3>3. data # None /\ node[data] \in Content BY <2>2, <3>1 DEF Unchanged, ProcT, EntryT
    <3>4. CASE Magic(node[data])
      <4>1. PICK n \in FreeInos : data' = n /\ node' = [node EXCEPT ![n] = Decoded(node[data])] BY <1>14, <2>2, <3>4
        DEF CommitPlaintext
      <4>2. n \in Inos /\ \A q \in Procs : n # held[q] BY DEF FreeInos
      <4>3. data' # None /\ node'[data'] = Decoded(node[data]) BY <4>1, <4>2 DEF EntryT
      <4>4. Decoded(node[data]).doc = node[data].doc BY <3>3 DEF Decoded, Content
      <4>5. Decoded(node[data]).form = IF node[data].form = "zstd" THEN "plain" ELSE "decoded"
        BY <3>3 DEF Decoded, Content
      <4>6. Kept' BY <3>1, <3>2, <3>3, <3>4, <4>3, <4>4, <4>5 DEF Safe, Kept, Magic, history, Content
      <4>7. Knows(p)' BY <3>1, <4>3, <4>5 DEF Safe, Knows, ProcT, history
      <4>8. ASSUME NEW q \in Procs \ {p} PROVE Knows(q)'
        <5>1. ~Unchanged(q)' BY <3>1, <4>1, <4>2 DEF Unchanged
        <5> QED BY <3>1, <5>1 DEF Safe, Knows, Locked, ProcT, history
      <4> QED BY <3>1, <4>6, <4>7, <4>8 DEF Safe, RestoresPlain, history
    <3>5. CASE ~Magic(node[data])
      <4>1. UNCHANGED world BY <1>14, <2>2, <3>1, <3>5 DEF CommitPlaintext, world, history
      <4>2. Others(p) BY <3>1 DEF Others, ProcT
      <4>3. Knows(p)' BY <3>1, <3>3, <3>5, <4>1 DEF Safe, Knows, ProcT, world, Magic
      <4> QED BY <4>1, <4>2, <4>3, Framed
    <3> QED BY <3>4, <3>5
  <2> QED BY <2>1, <2>2
<1>15. ASSUME NEW p \in Procs, ClearMarker(p) PROVE Safe'
  <2>1. CASE Return(p) /\ UNCHANGED side BY <1>15, <2>1, Returned DEF ClearMarker, world, history
  <2>2. CASE ~(Return(p) /\ UNCHANGED side)
    <3>1. PICK v \in Vers : side' = [ver |-> v, marked |-> FALSE] BY <1>15, <2>2, FreshTyped
      DEF ClearMarker, SetMarker
    <3>2. node[data].form # "zstd" /\ rootLock = p /\ UNCHANGED <<data, node, out, history>>
      BY <1>15 DEF ClearMarker, Safe, Knows, Locked
    <3>3. pc'[p] \notin {"commit", "swap", "persist", "unmark", "dUnmark"} /\ copied'[p] = None /\ Others(p)
      BY <1>15, <2>2 DEF ClearMarker, Return, Goto, Others, ProcT
    <3>4. Kept' BY <3>1, <3>2 DEF Safe, Kept, history
    <3>5. Knows(p)' BY <3>3 DEF Knows
    <3>6. ASSUME NEW q \in Procs \ {p} PROVE Knows(q)'
      BY <3>2, <3>3 DEF Safe, Knows, Locked, Others, history, Unchanged, Magic
    <3> QED BY <3>2, <3>4, <3>5, <3>6 DEF Safe, RestoresPlain, history
  <2> QED BY <2>1, <2>2
<1>16. ASSUME NEW p \in Procs, OpenForRestore(p) PROVE Safe'
  <2>1. UNCHANGED world BY <1>16 DEF OpenForRestore, world, entryState, history
  <2>2. CASE Return(p) BY <2>1, <2>2, Returned
  <2>3. CASE ~Return(p)
    <3>1. Knows(p)' BY <1>16, <2>3
      DEF OpenForRestore, Knows, Safe, Kept, Goto, ProcT, entryState, local, history
    <3>2. Others(p) BY <1>16, <2>3 DEF OpenForRestore, Others, Goto, ProcT, local
    <3> QED BY <2>1, <3>1, <3>2, Framed
  <2> QED BY <2>2, <2>3
<1>17. ASSUME NEW p \in Procs, LockRoot(p) PROVE Safe'
  <2>1. Knows(p)' BY <1>17 DEF LockRoot, Knows, Safe, Kept, Goto, ProcT, entryState, local, history
  <2>2. UNCHANGED world /\ Others(p) BY <1>17
    DEF LockRoot, world, Others, Goto, ProcT, entryState, local, history
  <2> QED BY <2>1, <2>2, Framed
<1>18. ASSUME NEW p \in Procs, Publish(p) PROVE Safe'
  <2>1. CASE ~Current(p)
    <3>1. Return(p) /\ UNCHANGED world BY <1>18, <2>1 DEF Publish, world, history
    <3> QED BY <3>1, Returned
  <2>2. CASE Current(p)
    <3>1. /\ pc[p] = "rCommit" /\ pc' = [pc EXCEPT ![p] = "rSide"] /\ data' = None /\ out' = node[data]
          /\ UNCHANGED <<node, side, history, local>>
      BY <1>18, <2>2 DEF Publish, Goto
    <3>2. rootLock = p BY <3>1 DEF Locked
    <3>3. ~side.marked BY <2>2, <3>1 DEF Versions, Current
    <3>4. data # None /\ side # NoSidecar /\ node[data] \in Content
      BY <2>2, <3>1 DEF ProcT, Entry, Current, EntryT, NoSidecar
    <3>5. RestoresPlain' BY <3>1, <3>3, <3>4 DEF Safe, Kept, RestoresPlain, Content, history
    <3>6. Knows(p)' BY <3>1 DEF Safe, Knows, ProcT, local, history
    <3>7. ASSUME NEW q \in Procs \ {p} PROVE Knows(q)'
      <4>1. pc[q] = "commit" => ~Unchanged(q)' BY <3>1 DEF Unchanged, ProcT, local
      <4> QED BY <3>1, <3>2, <4>1 DEF Safe, Knows, Locked, ProcT, local, history
    <3> QED BY <3>1, <3>5, <3>6, <3>7 DEF Safe, Kept
  <2> QED BY <2>1, <2>2
<1>19. ASSUME NEW p \in Procs, RetireSidecar(p) PROVE Safe'
  <2>1. Return(p) /\ side' = NoSidecar /\ rootLock = p /\ UNCHANGED <<data, node, out, history>>
    BY <1>19 DEF RetireSidecar, Locked
  <2>2. Kept' BY <2>1 DEF Safe, Kept, NoSidecar, history
  <2>3. ASSUME NEW q \in Procs \ {p} PROVE Knows(q)'
    BY <2>1, ReturnOthers DEF Safe, Knows, Locked, Others, history, Unchanged, Magic
  <2> QED BY <2>1, <2>2, <2>3, ReturnKnows DEF Safe, RestoresPlain, history
<1>20. ASSUME NEW p \in Procs, Crash(p) PROVE Safe'
  BY <1>20, Returned DEF Crash, world, entryState, history
<1>21. CASE Edit
  <2>1. PICK d \in Docs \ used :
           /\ node' = [node EXCEPT ![writer] = [doc |-> d, form |-> "plain"]]
           /\ used' = used \cup {d}
           /\ truth' = IF data = writer THEN d ELSE truth
           /\ raced' = IF \E p \in Procs : pc[p] = "persist" THEN raced \cup {d} ELSE raced
           /\ misled' = IF data = writer /\ side.marked THEN misled \cup {d} ELSE misled
    BY <1>21 DEF Edit
  <2>2. writer \in Inos /\ UNCHANGED <<data, side, pc, local, out>> BY <1>21 DEF Edit, EntryT
  <2>3. node'[writer] = [doc |-> d, form |-> "plain"] /\ \A n \in Inos \ {writer} : node'[n] = node[n]
    BY <2>1, <2>2 DEF EntryT
  <2>4. Kept' BY <2>1, <2>2, <2>3 DEF Safe, Kept, EntryT
  <2>5. ASSUME NEW q \in Procs PROVE Knows(q)'
    <3>1. copied[q] # None => copied[q] # d BY DEF Safe, Knows
    <3>2. pc[q] = "commit" => copied[q] # None /\ held[q] \in Inos BY DEF ProcT
    <3>3. pc[q] = "commit" /\ Unchanged(q)' => Unchanged(q) /\ node'[data'] = node[data]
      BY <2>2, <2>3, <3>1, <3>2 DEF Unchanged, local
    <3>4. pc[q] = "commit" /\ Unchanged(q)' => ~Magic(node'[data']) BY <3>3 DEF Safe, Knows, Magic
    <3>5. pc[q] = "persist" => truth' = truth \/ truth' \in raced' BY <2>1
    <3>6. node'[data].form \in {"plain", node[data].form} \/ data = None BY <2>2, <2>3 DEF EntryT
    <3>7. pc[q] \in {"swap", "persist", "unmark"} => data # None BY DEF Safe, Knows, ProcT
    <3> QED BY <2>1, <2>2, <3>4, <3>5, <3>6, <3>7 DEF Safe, Knows, local
  <2> QED BY <2>1, <2>2, <2>4, <2>5 DEF Safe, RestoresPlain
<1>22. CASE Purge
  <2>1. rootLock = None /\ data' = None /\ UNCHANGED <<pc, local, out, history>> BY <1>22 DEF Purge
  <2>2. ASSUME NEW q \in Procs PROVE Knows(q)'
    <3>1. pc[q] = "commit" => ~Unchanged(q)' BY <2>1 DEF Unchanged, ProcT, local
    <3> QED BY <2>1, <3>1 DEF Safe, Knows, Locked, ProcT, local, history
  <2> QED BY <2>1, <2>2 DEF Safe, Kept, RestoresPlain, history
<1>23. CASE TrashAgain
  <2>1. PICK n \in FreeInos, d \in Docs \ used, v \in Vers :
           /\ data' = n /\ node' = [node EXCEPT ![n] = [doc |-> d, form |-> "plain"]]
           /\ side' = [ver |-> v, marked |-> FALSE] /\ truth' = d /\ used' = used \cup {d}
    BY <1>23, FreshTyped DEF TrashAgain
  <2>2. rootLock = None /\ UNCHANGED <<pc, local, out, raced, misled>> BY <1>23 DEF TrashAgain
  <2>3. n \in Inos /\ \A q \in Procs : n # held[q] BY DEF FreeInos
  <2>4. node'[data'] = [doc |-> d, form |-> "plain"] BY <2>1, <2>3 DEF EntryT
  <2>5. Kept' BY <2>1, <2>2, <2>4 DEF Kept
  <2>6. ASSUME NEW q \in Procs PROVE Knows(q)'
    <3>1. ~Unchanged(q)' BY <2>1, <2>2, <2>3 DEF Unchanged, local
    <3> QED BY <2>1, <2>2, <3>1 DEF Safe, Knows, Locked, ProcT, local
  <2> QED BY <2>2, <2>5, <2>6 DEF Safe, RestoresPlain
<1>24. CASE UNCHANGED vars
  <2>1. ASSUME NEW q \in Procs PROVE Knows(q)'
    BY <1>24 DEF vars, Safe, Knows, entryState, local, history, Unchanged, Magic
  <2> QED BY <1>24, <2>1 DEF vars, Safe, Kept, RestoresPlain, entryState, history
<1> QED BY <1>1, <1>2, <1>3, <1>4, <1>5, <1>6, <1>7, <1>8, <1>9, <1>10, <1>11, <1>12, <1>13, <1>14, <1>15, <1>16, <1>17, <1>18, <1>19, <1>20, <1>21, <1>22, <1>23, <1>24
  DEF Next, Compress, Restore

LEMMA InitSafe == Init => Locked /\ Versions /\ Safe
<1> SUFFICES ASSUME Init PROVE Locked /\ Versions /\ Safe OBVIOUS
<1>1. Locked /\ Versions BY DEF Init, Locked, Versions
<1>2. \A p \in Procs : Knows(p) BY DEF Init, Knows
<1>3. PICK n \in Inos, d \in Docs, v \in Vers, form \in {"plain", "zstd"}, marked \in BOOLEAN :
        /\ form = "zstd" => marked
        /\ marked => d \notin Archives
        /\ data = n /\ side = [ver |-> v, marked |-> marked]
        /\ node = [k \in Inos |-> IF k = n THEN [doc |-> d, form |-> form] ELSE NoContent]
        /\ truth = d /\ used = {d}
  BY DEF Init
<1>4. node[data].doc = d /\ node[data].form = form BY <1>3
<1>5. Kept BY <1>3, <1>4 DEF Kept
<1>6. RestoresPlain BY DEF Init, RestoresPlain, NoContent
<1> QED BY <1>1, <1>2, <1>5, <1>6 DEF Safe

LEMMA IsSafe == Spec => []Safe
<1>1. Init => Typed /\ Locked /\ Versions /\ Safe BY InitTyped, InitSafe
<1>2. Typed /\ Locked /\ Versions /\ Safe /\ [Next]_vars => (Typed /\ Locked /\ Versions /\ Safe)'
  BY StepTyped, LockedStep, VersionsStep, SafeStep
<1> QED BY <1>1, <1>2, PTL DEF Spec

\* PackedIsMarked: what a compressor wrote always carries its marker.
THEOREM Marked == Spec => []PackedIsMarked
<1>1. Safe => PackedIsMarked BY DEF Safe, Kept, PackedIsMarked
<1> QED BY <1>1, IsSafe, PTL

\* RestoresPlain: a restore decodes what was encoded, and nothing else.
THEOREM Plain == Spec => []RestoresPlain
<1>1. Safe => RestoresPlain BY DEF Safe
<1> QED BY <1>1, IsSafe, PTL

\* LatestKept: neither direction loses an edit made before its last check.
THEOREM Latest == Spec => []LatestKept
<1>1. Safe => LatestKept BY DEF Safe, Kept, LatestKept
<1> QED BY <1>1, IsSafe, PTL
=============================================================================
