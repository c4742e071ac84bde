----------------------------- MODULE MCUpkeep ------------------------------
(* The work on whole roots and trees: retention, fsck, and the two walks over  *)
(* trees, a copy across file systems and a removal.  Each behaviour takes the  *)
(* steps of one part; the variables of the others are Off, and those of        *)
(* AutoPurge stay at an empty trash.                                           *)
EXTENDS AutoPurge, Sequences, TLC

CONSTANTS a, b, None, Off

VARIABLES
  part,
  start, files, info, lock, fsckPc, cur, listed, fsckTodo, known, cand, snaps, found, mpc, mid,
  mdoc, changes, ver, disturbed, stranded, purged,
  setting, src, ino, dst, where, taken, copyPc, copyTodo, before, again, copyCur, held, links,
  unlinked, whole, result, changed, copyCrashes, late, lost, touched,
  removalSetting, content, over, modes, stack, removalPc, name, hint, removalIno, reports,
  removalResult, removalChanges, removalTaken, been, opened

fsckVars == <<start, files, info, lock, fsckPc, cur, listed, fsckTodo, known, cand, snaps,
  found, mpc, mid, mdoc, changes, ver, disturbed, stranded, purged>>
copyVars == <<setting, src, ino, dst, where, taken, copyPc, copyTodo, before, again, copyCur,
  held, links, unlinked, whole, result, changed, copyCrashes, late, lost, touched>>
removalVars == <<removalSetting, content, over, modes, stack, removalPc, name, hint, removalIno,
  reports, removalResult, removalChanges, removalTaken, been, opened>>

-----------------------------------------------------------------------------
(* Retention.  The second entry alone fills the size limit.  One part has    *)
(* entries that cannot be removed and kills processes; in the other an ID is *)
(* used again while a purge runs.                                            *)
TheSizes == (a :> 1) @@ (b :> 2)
TheLimits == {[age |-> 1, size |-> 0, pressure |-> TRUE], [age |-> 0, size |-> 2, pressure |-> FALSE]}
Reuse == INSTANCE AutoPurge WITH
  MaxGen <- 2, MaxCrashes <- 0, StuckSets <- {{}}, Limits <- {[age |-> 1, size |-> 0, pressure |-> FALSE]}

-----------------------------------------------------------------------------
(* Two IDs with every combination of data and sidecar; one process of      *)
(* trashd and one file manager.                                            *)
Missing == [ver |-> 0, kind |-> "none", old |-> FALSE]
Old(v, k) == [ver |-> v, kind |-> k, old |-> TRUE]
Sidecars(v) == {Missing, Old(v, "good"), Old(v, "corrupt"), Old(v, "odd")}
RootsFound ==
  {[files |-> (a :> fa) @@ (b :> fb), info |-> (a :> ia) @@ (b :> ib), fix |-> x] :
     fa \in {None, "d1"}, fb \in {"d2"}, ia \in Sidecars(1), ib \in {Missing, Old(2, "good")}, x \in BOOLEAN}
F == INSTANCE Fsck WITH
  Ids <- {a, b}, Docs <- {"d1", "d2", "d3"}, Ours <- {"p"}, Desktop <- {"f"}, Starts <- RootsFound,
  MaxChanges <- 1, Careful <- TRUE,
  pc <- fsckPc, todo <- fsckTodo
\* what the theorems about fsck take as given
ASSUME RootsAssumption == F!StartsAssumption

-----------------------------------------------------------------------------
(* A copy of a directory t with a file a, its hard link b, a directory d    *)
(* that holds a file c, and a name n nobody has yet; or t is a file.       *)
Tree == [p \in {"t", "a", "b", "d", "c", "n"} |->
          CASE p = "t" -> 1 [] p \in {"a", "b"} -> 2 [] p = "d" -> 3 [] p = "c" -> 4 [] p = "n" -> None]
Upwards == [p \in DOMAIN Tree |-> IF p = "t" THEN None ELSE IF p \in {"c", "n"} THEN "d" ELSE "t"]
File == [p \in DOMAIN Tree |-> IF p = "t" THEN 1 ELSE None]
Moving(to, tree, pins, nr, fails, ch, cr) ==
  [to |-> to, src |-> tree, dirs |-> IF tree = File THEN {} ELSE {"t", "d"}, pinned |-> pins,
   noreplace |-> nr, fails |-> fails, changes |-> ch, crashes |-> cr]
Moves ==
  {Moving("trash", Tree, {}, TRUE, FALSE, 2, 0), Moving("restore", Tree, {}, TRUE, FALSE, 1, 1)}
  \cup {Moving(to, Tree, {"b"}, TRUE, FALSE, 0, 1) : to \in {"trash", "restore"}}
  \cup {Moving("trash", Tree, {"c"}, TRUE, TRUE, 1, 0), Moving("restore", Tree, {}, FALSE, TRUE, 1, 0)}
  \cup {Moving(to, File, pins, nr, fails, 1, 1) :
          to \in {"trash", "restore"}, pins \in {{}, {"t"}}, nr \in BOOLEAN, fails \in BOOLEAN}
C == INSTANCE TreeCopy WITH
  Paths <- DOMAIN Tree, Top <- "t", Up <- Upwards, Order <- <<"t", "a", "d", "c", "n", "b">>, Settings <- Moves,
  pc <- copyPc, todo <- copyTodo, cur <- copyCur, crashes <- copyCrashes

-----------------------------------------------------------------------------
(* The removal of a tree of a file and a directory d with a file; outside  *)
(* of it a symlink and a directory h with a file of its own.               *)
Has(dir) == dir @@ [n \in {"t", "n1", "n2"} |-> None]
Disk == ("above" :> Has("t" :> "it")) @@ ("it" :> Has(("n1" :> "f1") @@ ("n2" :> "d"))) @@ ("d" :> Has("n1" :> "f2"))
        @@ ("out" :> Has(("n1" :> "link") @@ ("n2" :> "h"))) @@ ("h" :> Has("n1" :> "f3")) @@ ("mnt" :> Has("n1" :> "f4"))
Removing(w, pins, mode0, bad, dep, ch) ==
  [walk |-> w, start |-> Disk, pinned |-> pins, locked |-> mode0, broken |-> bad, depth |-> dep, changes |-> ch]
Removals ==
  {Removing(w, {}, {}, {}, 9, 2) : w \in {"purge", "real"}}
  \cup {Removing(w, {"f2"}, {}, {}, 9, 1) : w \in {"purge", "real"}}
  \cup {Removing(w, pins, mode0, bad, 9, 0) : w \in {"purge", "real"}, pins \in {{}, {"f1"}, {"d", "f1"}},
          mode0 \in {{}, {"d"}, {"it", "d"}}, bad \in {{}, {"d"}, {"it"}}}
  \cup {Removing("purge", {}, {}, {}, 0, 1), Removing("real", {}, {"d"}, {}, 9, 1)}
R == INSTANCE TreeRemoval WITH
  Names <- {"t", "n1", "n2"}, Top <- "t", Dirs <- DOMAIN Disk, Above <- "above", Outside <- "out",
  Foreign <- "mnt", Settings <- Removals, New <- "new",
  setting <- removalSetting, pc <- removalPc, ino <- removalIno, result <- removalResult, changes <-
  removalChanges, taken <- removalTaken
ASSUME TreesAssumption == R!RemovalAssumption

-----------------------------------------------------------------------------
FsckOff ==
  /\ start = Off /\ files = Off /\ info = Off /\ lock = Off /\ fsckPc = Off /\ cur = Off
  /\ listed = Off /\ fsckTodo = Off /\ known = Off /\ cand = Off /\ snaps = Off /\ found = Off
  /\ mpc = Off /\ mid = Off /\ mdoc = Off /\ changes = Off /\ ver = Off /\ disturbed = Off
  /\ stranded = Off /\ purged = Off
CopyOff ==
  /\ setting = Off /\ src = Off /\ ino = Off /\ dst = Off /\ where = Off /\ taken = Off
  /\ copyPc = Off /\ copyTodo = Off /\ before = Off /\ again = Off /\ copyCur = Off /\ held = Off
  /\ links = Off /\ unlinked = Off /\ whole = Off /\ result = Off /\ changed = Off
  /\ copyCrashes = Off /\ late = Off /\ lost = Off /\ touched = Off
RemovalOff ==
  /\ removalSetting = Off /\ content = Off /\ over = Off /\ modes = Off /\ stack = Off
  /\ removalPc = Off /\ name = Off /\ hint = Off /\ removalIno = Off /\ reports = Off
  /\ removalResult = Off /\ removalChanges = Off /\ removalTaken = Off /\ been = Off /\ opened = Off

Start ==
  /\ part \in {"purge", "reuse", "fsck", "copy", "removal"}
  /\ IF part = "reuse" THEN Reuse!Init ELSE Init
  /\ \/ part \in {"purge", "reuse"}
     \/ <<limits, stuck>> = <<CHOOSE l \in Limits : TRUE, CHOOSE s \in StuckSets : TRUE>>
        /\ slot = [s \in Slots |-> Gone] /\ ~pressed
  /\ IF part = "fsck" THEN F!Init ELSE FsckOff
  /\ IF part = "copy" THEN C!Init ELSE CopyOff
  /\ IF part = "removal" THEN R!Init ELSE RemovalOff

PurgeMoves == part = "purge" /\ Next /\ UNCHANGED <<part, fsckVars, copyVars, removalVars>>
ReuseMoves == part = "reuse" /\ Reuse!Next /\ UNCHANGED <<part, fsckVars, copyVars, removalVars>>
FsckMoves == part = "fsck" /\ F!Next /\ UNCHANGED <<part, vars, copyVars, removalVars>>
CopyMoves == part = "copy" /\ C!Next /\ UNCHANGED <<part, vars, fsckVars, removalVars>>
RemovalMoves == part = "removal" /\ R!Next /\ UNCHANGED <<part, vars, fsckVars, copyVars>>
Move == PurgeMoves \/ ReuseMoves \/ FsckMoves \/ CopyMoves \/ RemovalMoves
Fair ==
  /\ WF_vars(part = "purge" /\ Tick)
  /\ \A p \in Procs :
       /\ WF_vars(part = "purge" /\ Mutate(p)) /\ WF_vars(part = "purge" /\ RunDeferred(p))
       /\ WF_vars(part = "purge" /\ Proceed(p)) /\ SF_vars(part = "purge" /\ ListRoots(p))
  /\ WF_fsckVars(part = "fsck" /\ F!Fsck) /\ SF_fsckVars(part = "fsck" /\ F!Relock)
  /\ \A m \in {"p", "f"} : WF_fsckVars(part = "fsck" /\ (F!Land(m) \/ F!Drop(m)))
  /\ WF_copyVars(part = "copy" /\ C!Mover)
  /\ WF_removalVars(part = "removal" /\ R!Walker)
Behaviour == Start /\ [][Move]_<<part, vars, fsckVars, copyVars, removalVars>> /\ Fair

-----------------------------------------------------------------------------
(* Properties.                                                             *)

\* Nothing goes that should stay, whoever interferes: fsck strands and purges no data with a
\* sidecar, a move across file systems loses no content and a failed one leaves nothing behind,
\* and a removal stays in its tree and is silent about nothing.
NothingAstray ==
  /\ part = "purge" => TypeOK
  /\ part = "reuse" => Reuse!TypeOK
  /\ part = "fsck" => F!TypeOK /\ F!NoneStranded /\ F!RecoveredKept /\ F!CleanExit
  /\ part = "copy" => C!TypeOK /\ C!NothingLost /\ C!PublishedWhole /\ C!MovedWhole /\ C!FailedClean
  /\ part = "removal" => R!TypeOK /\ R!TreeOnly /\ R!NothingSilent /\ R!Thorough

\* Retention reaches its limits in the end, and fsck and both walks come to an end while others
\* keep using the root.
UpkeepEnds ==
  /\ part = "purge" => ExpiredGo /\ TrimmedToSize
  /\ <>(part = "fsck" => F!Ended) /\ <>(part = "copy" => C!Ended) /\ <>(part = "removal" => R!Ended)
=============================================================================
