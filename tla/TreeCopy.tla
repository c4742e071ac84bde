------------------------------ MODULE TreeCopy ------------------------------
(* Moving a file or a directory tree between file systems                    *)
(* (trashd-common/src/store.rs: snapshot_retirable_at, copy_staged_at,       *)
(* publish_copy_noreplace and retire_directory_snapshot_at): take a          *)
(* snapshot, copy under a hidden name, publish, and remove exactly what the  *)
(* snapshot holds, while others write, replace, create and remove files in   *)
(* the tree.  Hard links complicate both: a copy keeps them, and removing    *)
(* one changes the inode all the others are compared by.                     *)
EXTENDS Integers, Sequences, FiniteSets, SequencesExt, TLC

CONSTANTS
  Paths, Top,     \* the names of the tree; Top is the one that is moved
  Up,             \* [Paths -> the directory a path is in]
  Order,          \* Paths as a sequence, in the order directories are listed
  Settings,       \* [to, src, dirs, pinned, noreplace, fails, changes, crashes]: the direction
                  \* of the move, the tree, what cannot be removed, whether taking a copy back
                  \* may fail, and bounds for what others do
  None

VARIABLES
  setting,
  src,            \* [Paths -> inode or None]
  ino,            \* [inodes -> [ver, mod, chg]]: content, mtime with size, ctime
  dst,            \* [Paths -> [ino, ver, obj] or None]: the copy; obj tells its inodes apart
  where,          \* of the copy: "nowhere", "staged" or "published"
  taken,          \* somebody else has the destination's name
  pc, todo,       \* what is being done, and the paths it is still to be done to
  before, again,  \* snapshots: [subset of Paths -> stat]
  cur,            \* the stat the step at hand goes by
  held,           \* the content read, or the digest, of the file at hand
  links,          \* TreeCopy.links: [inodes -> path of the first copy, or None]
  unlinked,       \* SnapshotIndex.unlinked: [inodes -> what is known, or None]
  whole,          \* [directories entered -> BOOLEAN]: all their entries are retired so far
  result,
  changed, crashes,
  late,           \* GHOST: others have changed something since the last look at this file
  lost,           \* GHOST: inodes whose last link was removed with content the copy has not
  touched         \* GHOST: paths others have changed

vars == <<setting, src, ino, dst, where, taken, pc, todo, before, again, cur, held, links,
          unlinked, whole, result, changed, crashes, late, lost, touched>>

Inodes == 1 .. Cardinality(Paths) + 2
NotDirs == Paths \ setting.dirs
IsDir(p) == p \in setting.dirs
Nlink(i) == Cardinality({p \in Paths : src[p] = i})
\* read_directory_names
Listing(d) == SelectSeq(Order, LAMBDA p : Up[p] = d /\ src[p] # None)
\* what lstat tells of the inode; the ctime changes with content and links
StatOf(i) == [ino |-> i, chg |-> ino[i].chg, mod |-> ino[i].mod]
Stat(p) == StatOf(src[p])
Bump(i, f) == [f EXCEPT ![i].chg = @ + 1]

Fixed == <<setting, taken, changed, crashes>>
Ghosts == <<late, lost, touched>>
Copies == <<dst, where, links>>
Retirement == <<unlinked, whole>>
P == Head(todo)
Then(step) == /\ todo' = Tail(todo)
              /\ pc' = IF Len(todo) = 1 THEN step ELSE pc

-----------------------------------------------------------------------------
(* the snapshot *)

\* snapshot_retirable_at: only the trash asks before it copies; an immutable entry, or one of a
\* directory that refuses, makes the whole move impossible
Refused(p) == setting.to = "trash" /\ p \in setting.pinned

\* snapshot_retirable_at of the source itself
Begin ==
  /\ pc = "begin"
  /\ UNCHANGED <<Fixed, src, ino, Copies, before, again, cur, held, Retirement, Ghosts>>
  /\ CASE src[Top] = None -> pc' = "end" /\ result' = "err" /\ UNCHANGED todo
       [] src[Top] # None /\ Refused(Top) -> pc' = "end" /\ result' = "refused" /\ UNCHANGED todo
       [] src[Top] # None /\ ~Refused(Top) /\ IsDir(Top) /\ Listing(Top) # <<>> ->
            pc' = "snap" /\ todo' = Listing(Top) /\ UNCHANGED result
       [] src[Top] # None /\ ~Refused(Top) /\ ~(IsDir(Top) /\ Listing(Top) # <<>>) ->
            pc' = "copy" /\ todo' = <<Top>> /\ UNCHANGED result

Entry(snapshot, p) == [q \in DOMAIN snapshot \cup {p} |-> IF q = p THEN Stat(p) ELSE snapshot[q]]
\* snapshot_retirable_fd and snapshot_directory_fd: one entry, and those below it next
Snap ==
  /\ pc = "snap"
  /\ UNCHANGED <<Fixed, src, ino, Copies, again, cur, held, Retirement, Ghosts>>
  /\ IF src[P] = None \/ Refused(P)
     THEN /\ pc' = "end" /\ result' = IF src[P] = None THEN "err" ELSE "refused"
          /\ UNCHANGED <<todo, before>>
     ELSE /\ before' = Entry(before, P) /\ UNCHANGED result
          /\ IF IsDir(P) /\ Listing(P) # <<>>
             THEN todo' = Listing(P) \o Tail(todo) /\ UNCHANGED pc
             ELSE IF Len(todo) = 1 THEN pc' = "copy" /\ todo' = <<Top>>
                  ELSE todo' = Tail(todo) /\ UNCHANGED pc

-----------------------------------------------------------------------------
(* the copy *)

Copied(p, what) == dst' = [dst EXCEPT ![p] = what]
Fail == pc' = "rollback" /\ UNCHANGED todo
\* what a restore and the trash say of a source that is still there
Left == IF setting.to = "restore" THEN "kept" ELSE "partial"
Broken == IF setting.to = "restore" THEN "kept" ELSE "err"
Object(p) == CHOOSE k \in 1 .. Cardinality(Paths) : Order[k] = p

\* copy_staged_at: under a hidden name
Staging == "staged"

\* copy_node_at: a directory is made and listed; a later link to an inode copied before becomes
\* a link to that copy; another file is opened
CopyStat ==
  /\ pc = "copy"
  /\ UNCHANGED <<Fixed, src, ino, before, again, held, Retirement, result, Ghosts, links>>
  /\ CASE src[P] = None -> Fail /\ UNCHANGED <<dst, where, cur>>
       [] src[P] # None /\ IsDir(P) ->
            /\ Copied(P, [ino |-> src[P], ver |-> 0, obj |-> Object(P)]) /\ where' = Staging
            /\ todo' = Listing(P) \o Tail(todo)
            /\ pc' = IF todo' = <<>> THEN "publish" ELSE pc
            /\ UNCHANGED cur
       [] src[P] # None /\ ~IsDir(P) /\ Nlink(src[P]) > 1 /\ links[src[P]] # None ->
            /\ Copied(P, dst[links[src[P]]]) /\ Then("publish") /\ UNCHANGED <<where, cur>>
       [] src[P] # None /\ ~IsDir(P) /\ ~(Nlink(src[P]) > 1 /\ links[src[P]] # None) ->
            cur' = Stat(P) /\ pc' = "open" /\ UNCHANGED <<dst, where, todo>>

\* copy_regular_at: what is opened must be the version selected
CopyOpen ==
  /\ pc = "open"
  /\ UNCHANGED <<Fixed, src, ino, Copies, before, again, cur, Retirement, result, Ghosts>>
  /\ IF src[P] = None \/ (src[P] # None /\ Stat(P) # cur) THEN Fail /\ UNCHANGED held
     ELSE held' = ino[src[P]].ver /\ pc' = "read" /\ UNCHANGED todo

\* and still the same version when it has been read
CopyRead ==
  /\ pc = "read"
  /\ UNCHANGED <<Fixed, src, ino, before, again, cur, held, Retirement, result, Ghosts>>
  /\ IF StatOf(cur.ino) # cur THEN Fail /\ UNCHANGED Copies
     ELSE /\ Copied(P, [ino |-> cur.ino, ver |-> held, obj |-> Object(P)])
          /\ where' = IF where = "nowhere" THEN Staging ELSE where
          /\ links' = IF links[cur.ino] = None THEN [links EXCEPT ![cur.ino] = P] ELSE links
          /\ IF Len(todo) = 1 THEN pc' = "publish" ELSE pc' = "copy"
          /\ todo' = Tail(todo)

\* remove_created_tree_at, whose errors are ignored: one entry of the copy after the other, a
\* directory after what it holds; where one cannot be removed, the rest stays
Leaves == SelectSeq(Order, LAMBDA p : dst[p] # None /\ \A q \in Paths : Up[q] = p => dst[q] = None)
Rollback ==
  /\ pc = "rollback"
  /\ UNCHANGED <<Fixed, src, ino, links, todo, before, again, cur, held, Retirement, Ghosts>>
  /\ \/ /\ Leaves # <<>> /\ Copied(Head(Leaves), None)
        /\ where' = IF Head(Leaves) = Top THEN "nowhere" ELSE where
        /\ UNCHANGED <<pc, result>>
     \/ /\ Leaves = <<>> \/ setting.fails
        /\ pc' = "end" /\ result' = "err" /\ UNCHANGED <<dst, where>>

\* renamed without replacing anything; where that is not supported a file is linked
\* (publish_without_noreplace), and if its hidden name cannot be removed then, the move has
\* failed although the copy is published
Publish ==
  /\ pc = "publish"
  /\ UNCHANGED <<Fixed, src, ino, dst, links, before, again, cur, held, Retirement, Ghosts>>
  /\ \/ /\ taken \/ (~setting.noreplace /\ IsDir(Top))
        /\ Fail /\ UNCHANGED <<where, result>>
     \/ /\ ~taken /\ ~setting.noreplace /\ ~IsDir(Top) /\ setting.fails
        /\ where' = "published" /\ pc' = "end" /\ result' = "err" /\ UNCHANGED todo
     \/ /\ ~taken /\ (setting.noreplace \/ ~IsDir(Top))
        /\ where' = "published" /\ UNCHANGED result
        /\ CASE ~IsDir(Top) -> pc' = "node" /\ UNCHANGED todo
             [] IsDir(Top) /\ setting.to = "trash" -> pc' = "retire" /\ UNCHANGED todo
             [] IsDir(Top) /\ setting.to = "restore" ->
                  todo' = Listing(Top) /\ pc' = IF todo' = <<>> THEN "compare" ELSE "resnap"

-----------------------------------------------------------------------------
(* removing the source *)

\* retire_copied_node_at and unlink_source_or_rollback: only the version that was copied; a
\* restore takes its copy back, the trash keeps it
RetireNode ==
  /\ pc = "node"
  /\ UNCHANGED <<Fixed, src, ino, Copies, todo, before, again, cur, held, Retirement, lost, touched>>
  /\ IF src[Top] # None /\ Stat(Top) = cur
     THEN pc' = "gone" /\ late' = FALSE /\ UNCHANGED result
     ELSE /\ UNCHANGED late
          /\ IF setting.to = "restore" THEN pc' = "rollback" /\ UNCHANGED result
             ELSE pc' = "end" /\ result' = IF src[Top] = None THEN "ok" ELSE "partial"

\* the link at p is removed, whatever inode it is by now
Removed(p) ==
  LET i == src[p] IN
  /\ src' = [src EXCEPT ![p] = None] /\ ino' = Bump(i, ino)
  /\ lost' = IF Nlink(i) = 1 /\ ~late /\ (dst[p] = None \/ dst[p].ino # i \/ dst[p].ver # ino[i].ver)
             THEN lost \cup {i} ELSE lost
RemoveNode ==
  /\ pc = "gone"
  /\ UNCHANGED <<Fixed, todo, before, again, cur, held, Retirement, links, late, touched>>
  /\ CASE src[Top] = None ->                               \* the restore's unlink fails
            /\ pc' = IF setting.to = "restore" THEN "rollback" ELSE "end"
            /\ result' = IF setting.to = "restore" THEN result ELSE "ok"
            /\ UNCHANGED <<src, ino, dst, where, lost>>
       [] src[Top] # None /\ Top \in setting.pinned ->
            /\ pc' = IF setting.to = "restore" THEN "rollback" ELSE "end"
            /\ result' = IF setting.to = "restore" THEN result ELSE "err"
            /\ UNCHANGED <<src, ino, dst, where, lost>>
       [] src[Top] # None /\ Top \notin setting.pinned ->
            Removed(Top) /\ pc' = "end" /\ result' = "ok" /\ UNCHANGED <<dst, where>>

\* a restore takes the snapshot again ...
Resnap ==
  /\ pc = "resnap"
  /\ UNCHANGED <<Fixed, src, ino, Copies, before, cur, held, Retirement, Ghosts>>
  /\ IF src[P] = None THEN pc' = "end" /\ result' = "err" /\ UNCHANGED <<todo, again>>
     ELSE /\ again' = Entry(again, P) /\ UNCHANGED result
          /\ IF IsDir(P) /\ Listing(P) # <<>>
             THEN todo' = Listing(P) \o Tail(todo) /\ UNCHANGED pc
             ELSE Then("compare")
\* ... and keeps the source if it differs
Compare ==
  /\ pc = "compare"
  /\ IF again = before THEN pc' = "retire" /\ UNCHANGED result
     ELSE pc' = "end" /\ result' = "kept"
  /\ UNCHANGED <<Fixed, src, ino, Copies, todo, before, again, cur, held, Retirement, Ghosts>>

\* retire_snapshot_directory_fd: what is not in the snapshot stays, and so does its directory
Known(d) == SelectSeq(Listing(d), LAMBDA p : p \in DOMAIN before)
Complete(d) == Listing(d) = Known(d) /\ Len(Known(d)) = Cardinality({p \in DOMAIN before : Up[p] = d})
Enter(d) == whole' = (d :> Complete(d)) @@ whole
Spoil(p) == whole' = [whole EXCEPT ![Up[p]] = FALSE]

Retire ==
  /\ pc = "retire"
  /\ Enter(Top) /\ todo' = Known(Top)
  /\ pc' = IF todo' = <<>> THEN "rmtop" ELSE "stat"
  /\ UNCHANGED <<Fixed, src, ino, Copies, before, again, cur, held, unlinked, result, Ghosts>>

\* SnapshotIndex::matches: the version of the snapshot, or the one our own unlinking of another
\* name of the inode left
Matches(expected, p) ==
  \/ Stat(p) = expected
  \/ LET u == unlinked[expected.ino] IN
     /\ u # None /\ src[p] = expected.ino
     /\ expected.chg = u.original /\ Stat(p) = u.current /\ Nlink(src[p]) = u.nlink

\* retire_snapshot_node_at: leave what changed; go down a directory; look at the content of a
\* file with several names, or that had several
NextStep == IF Len(todo) = 1 THEN "rmtop" ELSE "stat"
Skip == Spoil(P) /\ todo' = Tail(todo) /\ pc' = NextStep
RetireStat ==
  /\ pc = "stat"
  /\ UNCHANGED <<Fixed, src, ino, Copies, before, again, held, unlinked, result, lost, touched>>
  /\ IF P \in DOMAIN whole                       \* a directory comes up again after its entries
     THEN /\ IF whole[P] THEN pc' = "rmdir" /\ UNCHANGED <<todo, whole>> ELSE Skip
          /\ UNCHANGED <<cur, late>>
     ELSE IF src[P] = None \/ (src[P] # None /\ ~Matches(before[P], P))
     THEN Skip /\ UNCHANGED <<cur, late>>
     ELSE IF IsDir(P)
     THEN Enter(P) /\ todo' = Known(P) \o todo /\ UNCHANGED <<pc, cur, late>>
     ELSE /\ cur' = [stat |-> Stat(P), nlink |-> Nlink(src[P])] /\ late' = FALSE
          /\ pc' = IF (Nlink(src[P]) > 1) # (unlinked[src[P]] # None) THEN "digest" ELSE "unlink"
          /\ UNCHANGED <<todo, whole>>

Same(i) == src[P] = i /\ Stat(P) = cur.stat /\ Nlink(i) = cur.nlink
Digest(i) == IF unlinked[i] = None THEN None ELSE unlinked[i].digest
\* retirement_digest_at: the content is hashed before the first of several links goes, and
\* hashed again and compared before the last
RetireDigest ==
  /\ pc = "digest"
  /\ UNCHANGED <<Fixed, src, ino, Copies, before, again, cur, unlinked, lost, touched>>
  /\ LET i == cur.stat.ino IN
     CASE src[P] = None ->
            pc' = "end" /\ result' = Broken /\ UNCHANGED <<todo, whole, held, late>>
       [] src[P] # None /\ (Same(i) /\ Digest(i) \in {None, ino[i].ver}) ->
            /\ held' = ino[i].ver /\ late' = FALSE /\ pc' = "unlink"
            /\ UNCHANGED <<todo, whole, result>>
       [] src[P] # None /\ ~(Same(i) /\ Digest(i) \in {None, ino[i].ver}) ->
            Skip /\ UNCHANGED <<held, late, result>>

RetireUnlink ==
  /\ pc = "unlink"
  /\ UNCHANGED <<Fixed, Copies, before, again, cur, held, unlinked, late, touched>>
  /\ CASE src[P] = None -> Skip /\ UNCHANGED <<src, ino, result, lost>>
       [] src[P] # None /\ P \in setting.pinned ->
            pc' = "end" /\ result' = Broken /\ UNCHANGED <<src, ino, todo, whole, lost>>
       [] src[P] # None /\ P \notin setting.pinned ->
            /\ Removed(P) /\ UNCHANGED <<result, whole>>
            /\ IF cur.nlink > 1 THEN pc' = "note" /\ UNCHANGED todo
               ELSE todo' = Tail(todo) /\ pc' = NextStep

\* note_unlink: exactly one link fewer and nothing else explains the new ctime
RetireNote ==
  /\ pc = "note"
  /\ todo' = Tail(todo) /\ pc' = NextStep
  /\ LET i == cur.stat.ino IN
     unlinked' = [unlinked EXCEPT ![i] =
       IF ino[i].mod = cur.stat.mod /\ Nlink(i) = cur.nlink - 1
       THEN [original |-> before[P].chg, current |-> StatOf(i), nlink |-> Nlink(i),
             digest |-> IF Digest(i) = None THEN held ELSE Digest(i)]
       ELSE None]
  /\ UNCHANGED <<Fixed, src, ino, Copies, before, again, cur, held, whole, result, Ghosts>>

\* an emptied directory, unless it has entries again
Empty(d) == Listing(d) = <<>>
RetireDir ==
  /\ pc = "rmdir"
  /\ UNCHANGED <<Fixed, Copies, before, again, cur, held, unlinked, result, Ghosts>>
  /\ IF Empty(P)
     THEN /\ src' = [src EXCEPT ![P] = None] /\ ino' = Bump(src[Up[P]], ino)
          /\ todo' = Tail(todo) /\ pc' = NextStep /\ UNCHANGED whole
     ELSE Skip /\ UNCHANGED <<src, ino>>
RetireTop ==
  /\ pc = "rmtop" /\ pc' = "end"
  /\ UNCHANGED <<Fixed, ino, Copies, todo, before, again, cur, held, Retirement, Ghosts>>
  /\ IF whole[Top] /\ Empty(Top) THEN src' = [src EXCEPT ![Top] = None] /\ result' = "ok"
     ELSE UNCHANGED src /\ result' = Left

-----------------------------------------------------------------------------
(* the others *)

UpTouched(f, p) ==                                       \* the directory's own stat
  IF Up[p] = None THEN f ELSE [f EXCEPT ![src[Up[p]]].chg = @ + 1, ![src[Up[p]]].mod = @ + 1]
Write(p, same) ==                                        \* the mtime may be put back
  /\ src[p] # None /\ touched' = touched \cup {q \in Paths : src[p] \in {src[q], setting.src[q]}}
  /\ ino' = [ino EXCEPT ![src[p]] = [ver |-> @.ver + 1, chg |-> @.chg + 1,
                                     mod |-> IF same THEN @.mod ELSE @.mod + 1]]
  /\ UNCHANGED <<src, taken>>
Create(p) ==                                             \* or replace
  /\ (Up[p] # None => src[Up[p]] # None)
  /\ \E i \in Inodes : ino[i] = None /\ (\A j \in Inodes : ino[j] = None => i <= j)
       /\ src' = [src EXCEPT ![p] = i]
       /\ ino' = UpTouched([IF src[p] = None THEN ino ELSE Bump(src[p], ino)
                            EXCEPT ![i] = [ver |-> 0, mod |-> 0, chg |-> 0]], p)
  /\ touched' = touched \cup {p} /\ UNCHANGED taken
Delete(p) ==
  /\ src[p] # None /\ src' = [src EXCEPT ![p] = None] /\ ino' = UpTouched(Bump(src[p], ino), p)
  /\ touched' = touched \cup {p} /\ UNCHANGED taken
Take == where # "published" /\ ~taken /\ taken' = TRUE /\ UNCHANGED <<src, ino, touched>>

Others ==
  /\ pc # "end" /\ changed < setting.changes /\ changed' = changed + 1 /\ late' = TRUE
  /\ UNCHANGED <<setting, dst, where, pc, todo, before, again, cur, held, links, unlinked, whole,
                 result, crashes, lost>>
  /\ \/ \E p \in NotDirs, same \in BOOLEAN : Write(p, same)
     \/ \E p \in NotDirs : Create(p)
     \/ \E p \in NotDirs : Delete(p)
     \/ Take

Crash ==
  /\ pc # "end" /\ crashes < setting.crashes /\ crashes' = crashes + 1
  /\ pc' = "end" /\ result' = "killed"
  /\ UNCHANGED <<setting, src, ino, dst, where, taken, todo, before, again, cur, held, links,
                 unlinked, whole, changed, late, lost, touched>>

Init ==
  /\ setting \in Settings /\ src = setting.src
  /\ ino = [i \in Inodes |-> IF \E p \in Paths : src[p] = i THEN [ver |-> 0, mod |-> 0, chg |-> 0]
                             ELSE None]
  /\ dst = [p \in Paths |-> None] /\ where = "nowhere" /\ taken = FALSE
  /\ pc = "begin" /\ todo = <<>> /\ before = <<>> /\ again = <<>>
  /\ cur = None /\ held = None /\ links = [i \in Inodes |-> None]
  /\ unlinked = [i \in Inodes |-> None] /\ whole = <<>> /\ result = None
  /\ changed = 0 /\ crashes = 0 /\ late = FALSE /\ lost = {} /\ touched = {}

Mover == \/ Begin \/ Snap \/ CopyStat \/ CopyOpen \/ CopyRead \/ Rollback \/ Publish
         \/ RetireNode \/ RemoveNode \/ Resnap \/ Compare
         \/ Retire \/ RetireStat \/ RetireDigest \/ RetireUnlink \/ RetireNote \/ RetireDir \/ RetireTop
Next == Mover \/ Others \/ Crash

\* the mover runs
Spec == Init /\ [][Next]_vars /\ WF_vars(Mover)

-----------------------------------------------------------------------------
(* Properties *)

\* Types; nothing of the source is touched before the copy is published, what is being retired
\* is in the snapshot, and a copy has its directory.
TypeOK ==
  /\ setting \in Settings /\ src \in [Paths -> Inodes \cup {None}]
  /\ where \in {"nowhere", "staged", "published"} /\ taken \in BOOLEAN
  /\ DOMAIN before \subseteq Paths \ {Top} /\ DOMAIN again \subseteq Paths \ {Top}
  /\ DOMAIN whole \subseteq setting.dirs /\ lost \subseteq Inodes /\ touched \subseteq Paths
  /\ result \in {None, "ok", "partial", "kept", "err", "refused", "killed"}
  /\ pc \in {"node", "gone", "resnap", "compare", "retire", "stat", "digest", "unlink", "note",
            "rmdir", "rmtop"} => where = "published"
  /\ pc \in {"stat", "digest", "unlink", "note"} => Range(todo) \subseteq DOMAIN before
  /\ \A p \in Paths : dst[p] # None /\ Up[p] # None => dst[Up[p]] # None
  /\ (where = "nowhere") <=> (\A p \in Paths : dst[p] = None)

\* No content is removed that the copy does not have, whatever others write meanwhile; only a
\* change after the last look at that very file can be lost (#192, #396 and the digests).
NothingLost == lost = {}

\* What is published is whole: every path of the snapshot nobody has touched is in the copy with
\* its content, whoever dies when (#334).
PublishedWhole == where = "published" =>
  \A p \in (DOMAIN before \cup {Top}) \ touched :
    dst[p] # None /\ (IsDir(p) \/ dst[p].ver = ino[dst[p].ino].ver)

\* Undisturbed, a move is complete: nothing is left of the source, hard links are links again
\* (#338), and our own unlinking of one does not strand the others.
Undisturbed == touched = {} /\ ~taken /\ crashes = 0 /\ setting.pinned = {} /\ ~setting.fails
AllMoved ==
  /\ \A p \in Paths : src[p] = None /\ (setting.src[p] # None <=> dst[p] # None)
  /\ \A p, q \in NotDirs : dst[p] # None /\ dst[q] # None =>
       ((setting.src[p] = setting.src[q]) <=> (dst[p].obj = dst[q].obj))
MovedWhole == (pc = "end" /\ Undisturbed /\ (setting.noreplace \/ ~IsDir(Top))) =>
  result = "ok" /\ AllMoved

\* A move that failed has removed nothing as long as its copy is not published, and neither has
\* a restore that failed at all; what the trash had removed before it failed is in the copy,
\* which stays. A failed move leaves no copy behind, unless taking it back failed, or the copy
\* was published before it was found that others had changed the source. One that was refused
\* has not begun, and nothing with an entry in it that cannot be removed gets as far as being
\* published in the trash (#368: the copy was only stranded beside the source).
Failed == result \in {"err", "refused"}
FailedClean ==
  /\ Failed => \A p \in Paths \ touched :
       \/ src[p] = setting.src[p]
       \/ setting.to = "trash" /\ where = "published" /\ dst[p] # None
  /\ Failed /\ where # "nowhere" => setting.fails \/ (where = "published" /\ touched # {})
  /\ result = "refused" => where = "nowhere"
  /\ pc = "end" /\ setting.to = "trash" /\ setting.pinned # {} /\ touched = {} => where # "published"

\* The move ends.
Ended == pc = "end"
=============================================================================
