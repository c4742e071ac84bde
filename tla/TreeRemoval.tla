---------------------------- MODULE TreeRemoval ----------------------------
(* Removing a tree for good (trashd-common/src/store.rs): remove_tree_at for *)
(* purges and claims, remove_tree_for_real for rm --permanent.  Both walk by *)
(* descriptors with a stack of their own, read a directory in batches, and   *)
(* go on after a failure, while others create entries, exchange directories  *)
(* for symlinks or other directories, and mount file systems on them.        *)
EXTENDS Integers, Sequences, FiniteSets, SequencesExt, TLC

CONSTANTS
  Names, Top,       \* entry names; Top is the tree's, in the directory Above
  Dirs, Above, Outside, Foreign,  \* directories: the one of the tree, one of another tree, and the
                    \* root of a file system somebody may mount
  Settings,         \* [walk, start, pinned, locked, broken, depth, changes]: "purge" or "real", the
                    \* content of Dirs, inodes that cannot be unlinked, directories of mode 0,
                    \* those that cannot be read, the depth limit, and a bound for what others do
  New, None

\* A tree: each directory has one name, and none has the name of Above, Outside or Foreign.
RemovalAssumption ==
  /\ IsFiniteSet(Dirs) /\ {Above, Outside, Foreign} \subseteq Dirs /\ Above \notin {Outside, Foreign} /\ Outside # Foreign
  /\ Top \in Names /\ {New, None} \cap Dirs = {} /\ None \notin Names \cup {New, "ok", "err"}
  /\ \A s \in Settings :
       /\ s.walk \in {"purge", "real"} /\ s.depth \in Nat /\ s.changes \in Nat /\ s.locked \subseteq Dirs
       /\ s.start \in [Dirs -> [Names -> UNION {{s.start[d][n] : n \in Names} : d \in Dirs}]]
       /\ \A d \in Dirs, n \in Names : s.start[d][n] \notin {Above, Outside, Foreign}
       /\ \A d \in Dirs \ {Above} : s.start[d][Top] = None
       /\ \A d, e \in Dirs, m, n \in Names :
            s.start[d][n] = s.start[e][m] /\ s.start[d][n] \in Dirs => d = e /\ n = m

VARIABLES
  setting,
  content,          \* [Dirs -> [Names -> inode or None]]
  over,             \* [Dirs -> the directory mounted on it, or None]
  modes,            \* directories nobody may search
  stack,            \* TreeRemovalLevel, RemovalLevel: [dir, name, pending, seen, listed, failed]
  pc, name, hint,   \* the entry at hand, and whether the listing says it is no directory
  ino,              \* the directory seen under that name
  reports,          \* the entries reported (or the failures kept), as <<directory, name>>
  result, changes,
  taken,            \* GHOST: what has been removed, as <<directory, name>>
  been,             \* GHOST: directories that have been in the tree
  opened            \* GHOST: directories the walk has opened

vars == <<setting, content, over, modes, stack, pc, name, hint, ino, reports, result, changes,
          taken, been, opened>>

Files == <<setting, over, changes, been>>
Held(d, n) == content[d][n]
IsDir(i) == i \in Dirs
\* what the name leads to
Node(d, n) == IF IsDir(Held(d, n)) /\ (IsDir(Held(d, n)) => over[Held(d, n)] # None)
              THEN over[Held(d, n)] ELSE Held(d, n)
Mounted(d, n) == Node(d, n) # Held(d, n)
Entries(d) == {n \in Names : Held(d, n) # None}
T == Last(stack)
At == IF stack = <<>> THEN Above ELSE T.dir
Set(level) == stack' = Append(Front(stack), level)

\* the directories of S and those below them: in every set with S that holds what its members hold
Closed(c, X) == \A d \in X, n \in Names : c[d][n] \in Dirs => c[d][n] \in X
From(c, S) ==
  LET around == {X \in SUBSET Dirs : S \subseteq X /\ Closed(c, X)}
  IN  {d \in Dirs : \A X \in around : d \in X}
Below(c) == From(c, {d \in Dirs : c[Above][Top] = d})

-----------------------------------------------------------------------------
(* the walk *)

\* whether the directory above stays for this one
KeptAbove(ok) == ~ok
\* the position in the listing
Relist(seen, some) == seen \cup some
\* one entry is done with: a failure keeps its directories
Done(ok) ==
  /\ pc' = IF stack = <<>> THEN "end" ELSE "walk"
  /\ result' = IF stack = <<>> THEN (IF ok THEN "ok" ELSE "err") ELSE result
  /\ IF stack = <<>> \/ ~KeptAbove(ok) THEN UNCHANGED stack ELSE Set([T EXCEPT !.failed = TRUE])
  /\ reports' = IF ok THEN reports ELSE reports \cup {<<At, name>>}

\* a batch of getdents: some of what has not been listed, in any order, or the end
Batch ==
  /\ pc = "walk" /\ T.pending = {} /\ ~T.listed
  /\ UNCHANGED <<Files, content, modes, pc, name, hint, ino, result, taken, opened>>
  /\ IF T.dir \in setting.broken
     THEN /\ Set([T EXCEPT !.listed = TRUE, !.failed = TRUE])
          /\ reports' = reports \cup {<<T.dir, None>>}
     ELSE /\ UNCHANGED reports
          /\ LET new == Entries(T.dir) \ T.seen IN
             IF new = {} THEN Set([T EXCEPT !.listed = TRUE])
             ELSE \E some \in SUBSET new \ {{}} :
                    Set([T EXCEPT !.pending = {[name |-> n, file |-> ~IsDir(Held(T.dir, n))] : n \in some},
                                  !.seen = Relist(@, some)])

Pop ==
  /\ pc = "walk" /\ T.pending # {}
  /\ \E e \in T.pending :
       /\ Set([T EXCEPT !.pending = @ \ {e}]) /\ name' = e.name /\ hint' = e.file
       /\ pc' = IF setting.walk = "real" /\ e.file THEN "unlink" ELSE "stat"
  /\ UNCHANGED <<Files, content, modes, ino, reports, result, taken, opened>>

\* immutable, append-only: itself, or the directory it is in
Pinned(d, n) == Held(d, n) # None /\ {Held(d, n), d} \cap setting.pinned # {}
Gone(d, n) == content' = [content EXCEPT ![d][n] = None] /\ taken' = taken \cup {<<d, n>>}
\* raw_unlinkat: a name that is gone is no failure; one that is a directory by now is looked at
\* again after a listing's hint, and a failure after a stat
Unlink ==
  /\ pc = "unlink" /\ UNCHANGED <<Files, modes, name, ino, opened>>
  /\ CASE Held(At, name) = None -> Done(TRUE) /\ UNCHANGED <<content, taken, hint>>
       [] IsDir(Held(At, name)) /\ hint ->
            /\ pc' = "stat" /\ hint' = FALSE
            /\ UNCHANGED <<content, taken, stack, reports, result>>
       [] (IsDir(Held(At, name)) /\ ~hint) \/ (~IsDir(Held(At, name)) /\ Pinned(At, name)) ->
            Done(FALSE) /\ UNCHANGED <<content, taken, hint>>
       [] Held(At, name) # None /\ ~IsDir(Held(At, name)) /\ ~Pinned(At, name) ->
            Done(TRUE) /\ Gone(At, name) /\ UNCHANGED hint

\* entry_status_at: the root of a mount is left alone (#368)
Busy(d, n) == Mounted(d, n)
\* REMOVE_TREE_MAX_DEPTH, of a purge only
TooDeep == setting.walk = "purge" /\ Len(stack) > setting.depth
\* what is there: a file is unlinked, a directory opened
Stat ==
  /\ pc = "stat" /\ UNCHANGED <<Files, content, modes, name, taken, opened>>
  /\ LET i == Node(At, name) IN
     CASE i = None -> Done(TRUE) /\ UNCHANGED <<ino, hint>>
       [] i # None /\ ~IsDir(i) ->
            /\ pc' = "unlink" /\ hint' = FALSE /\ UNCHANGED <<ino, stack, reports, result>>
       [] IsDir(i) /\ (Busy(At, name) \/ TooDeep) ->
            Done(FALSE) /\ UNCHANGED <<ino, hint>>
       [] IsDir(i) /\ ~(Busy(At, name) \/ TooDeep) ->
            /\ ino' = i /\ pc' = "open" /\ UNCHANGED <<hint, stack, reports, result>>

\* a purge makes the directory accessible first (#335)
Unlocked(i) == IF setting.walk = "purge" THEN modes \ {i} ELSE modes
\* the directory that was seen, not one mounted or put there since
Same(i) == i = ino
\* open_directory_at, O_NOFOLLOW
Open ==
  /\ pc = "open" /\ UNCHANGED <<Files, name, hint, ino>>
  /\ LET i == Node(At, name) IN
     /\ modes' = IF IsDir(i) THEN Unlocked(i) ELSE modes
     /\ CASE i = None -> Done(setting.walk = "real") /\ UNCHANGED <<content, taken, opened>>
          [] (i # None /\ ~IsDir(i)) \/ (IsDir(i) /\ i \notin modes' /\ ~Same(i)) ->
               Done(FALSE) /\ UNCHANGED <<content, taken, opened>>
          [] IsDir(i) /\ i \in modes' ->              \* rm still tries rmdir(2)
               IF setting.walk = "real" /\ ~Mounted(At, name) /\ Entries(i) = {} /\ ~Pinned(At, name)
               THEN Done(TRUE) /\ Gone(At, name) /\ UNCHANGED opened
               ELSE Done(FALSE) /\ UNCHANGED <<content, taken, opened>>
          [] IsDir(i) /\ i \notin modes' /\ Same(i) ->
               /\ stack' = Append(stack, [dir |-> i, name |-> name, pending |-> {}, seen |-> {},
                                          listed |-> FALSE, failed |-> FALSE])
               /\ pc' = "walk" /\ opened' = opened \cup {i} /\ UNCHANGED <<content, taken, reports, result>>

\* what holds something that stayed is not tried
Keeps == T.failed
Removable(d, n) ==
  LET i == Held(d, n) IN
  IsDir(i) /\ (IsDir(i) => over[i] = None /\ Entries(i) = {} /\ ~Pinned(d, n))
\* settle_removal: a directory that is gone is no failure
Settled(d, n) == Held(d, n) = None \/ Removable(d, n)
\* all entries are done: the directory itself
Leave ==
  /\ pc = "walk" /\ T.pending = {} /\ T.listed
  /\ UNCHANGED <<Files, modes, hint, ino, name, opened>>
  /\ LET below == Front(stack)
         up == IF below = <<>> THEN Above ELSE Last(below).dir
         ok == ~Keeps /\ Settled(up, T.name) IN
     /\ stack' = IF below = <<>> \/ ~KeptAbove(ok) THEN below
                 ELSE Append(Front(below), [Last(below) EXCEPT !.failed = TRUE])
     /\ pc' = IF below = <<>> THEN "end" ELSE "walk"
     /\ result' = IF below = <<>> THEN (IF ok THEN "ok" ELSE "err") ELSE result
     /\ reports' = IF ok \/ Keeps THEN reports ELSE reports \cup {<<up, T.name>>}
     /\ IF ok /\ Removable(up, T.name) THEN Gone(up, T.name) ELSE UNCHANGED <<content, taken>>

-----------------------------------------------------------------------------
(* the others *)

Create(d, n) ==
  /\ Held(d, n) = None /\ content' = [content EXCEPT ![d][n] = New]
  /\ UNCHANGED <<over, been>>
Erase(d, n) ==
  /\ (d = Above => n = Top) /\ Held(d, n) # None
  /\ content' = [content EXCEPT ![d][n] = None] /\ UNCHANGED <<over, been>>
\* two names are exchanged: one of the tree, one outside
Exchange(d, n, m) ==
  /\ d # Outside /\ (d = Above => n = Top)
  /\ Held(d, n) # None /\ Held(Outside, m) # None /\ ~Mounted(d, n)
  /\ content' = [content EXCEPT ![d][n] = Held(Outside, m), ![Outside][m] = Held(d, n)]
  /\ been' = been \cup Below(content') /\ UNCHANGED over
Mount(d) ==
  /\ over[d] = None /\ over' = [over EXCEPT ![d] = Foreign]
  /\ UNCHANGED <<content, been>>
Others ==
  /\ pc # "end" /\ changes < setting.changes /\ changes' = changes + 1
  /\ UNCHANGED <<setting, modes, stack, pc, name, hint, ino, reports, result, taken, opened>>
  /\ \/ \E d \in Below(content) : Mount(d) \/ \E n \in Names : Create(d, n)
     \/ \E d \in Below(content) \cup {Above}, n \in Names : Erase(d, n) \/ \E m \in Names : Exchange(d, n, m)

Init ==
  /\ setting \in Settings /\ content = setting.start /\ over = [d \in Dirs |-> None]
  /\ modes = setting.locked /\ stack = <<>> /\ pc = "stat" /\ name = Top /\ hint = FALSE
  /\ ino = None /\ reports = {} /\ result = None /\ changes = 0 /\ taken = {}
  /\ been = Below(setting.start) /\ opened = {}

Walker == Batch \/ Pop \/ Unlink \/ Stat \/ Open \/ Leave
Next == Walker \/ Others

\* the walker runs
Spec == Init /\ [][Next]_vars /\ WF_vars(Walker)

-----------------------------------------------------------------------------
(* Properties *)

\* Types; a purge goes no deeper than its limit.
TypeOK ==
  /\ setting \in Settings /\ modes \subseteq setting.locked
  /\ pc \in {"walk", "stat", "unlink", "open", "end"} /\ result \in {None, "ok", "err"}
  /\ (result = None) <=> (pc # "end")
  /\ pc = "walk" => stack # <<>>
  /\ setting.walk = "purge" => Len(stack) <= setting.depth + 1
  /\ \A d \in Dirs : Held(d, Top) # None => d \in {Above, Outside} \cup been

\* Only what is or was in the tree goes: not what a symlink, a directory put in place of one of
\* the tree's, or a mount leads to (CVE-2022-21658, #368, #369).
TreeOnly == /\ \A e \in taken : e[1] \in been \cup {Above} /\ e[1] # Foreign
            /\ \A e \in taken : e[1] = Above => e[2] = Top

\* Nothing is left silently: when the walk says so the tree is gone, and a failure was reported.
NothingSilent == pc = "end" =>
  /\ result = "ok" => Held(Above, Top) = None
  /\ result = "err" => reports # {}

\* Undisturbed, all goes but what cannot, with its directories, and that is reported and nothing
\* else: what remains is reported, or holds or is in what is.
Reported(d, n) == <<d, n>> \in reports
Blocked(d, n) == LET i == Held(d, n) IN
  Pinned(d, n) \/ (i \in setting.locked /\ setting.walk = "real" /\ Entries(i) # {})
Thorough == (pc = "end" /\ changes = 0 /\ setting.depth > Cardinality(Dirs)) =>
  /\ \A e \in reports : e[2] # None =>
       Blocked(e[1], e[2]) /\ \A r \in reports : r[1] # Held(e[1], e[2])
  /\ \A d \in been, n \in Names : Held(d, n) # None =>
       \/ Reported(d, n) \/ Reported(d, None)
       \/ IsDir(Held(d, n)) /\ (Entries(Held(d, n)) # {} \/ Reported(Held(d, n), None))
       \/ d \in From(content, {u \in Dirs : \E e \in reports :
                                  e = <<u, None>> \/ (e[2] # None /\ Held(e[1], e[2]) = u)})

\* The walk ends.
Ended == pc = "end"
=============================================================================
