------------------------------ MODULE MCDelete ------------------------------
(* The ways a program's deletion takes to the trash: a call that the preload  *)
(* library hooks, and the rm shim's two levels, its command line and the walk *)
(* over one directory.  Each behaviour takes the steps of one part; the       *)
(* variables of the others are Off, and those of PreloadCall stay as they are *)
(* at first.                                                                  *)
EXTENDS PreloadCall

CONSTANTS a, b, Off

VARIABLES
  part,
  cmd, obj, pc, next, exit, trashed, deleted, declined, commandChanges, unlisted,
  opt, walkAt, mounts, phase, plan, pin, listed, id, run, before, pending, failures, exhausted,
  confirmed, taken, late, walkChanges

commandVars == <<cmd, obj, pc, next, exit, trashed, deleted, declined, commandChanges,
  unlisted>>
walkVars == <<opt, walkAt, mounts, phase, plan, pin, listed, id, run, before, pending, failures,
  exhausted, confirmed, taken, late, walkChanges>>

-----------------------------------------------------------------------------
(* Two calls on one path; every kind of object, store and placement.       *)
Setup(place, store, supervised, kind, hookA, hookB, ch, fo, fa, cr) ==
  [place |-> place, store |-> store, supervised |-> supervised,
   first |-> Object(1, kind, store = "broken"),
   hooks |-> [c \in Callers |-> IF c = a THEN {hookA} ELSE {hookB}],
   most |-> [changes |-> ch, foreign |-> fo, faults |-> fa, crashes |-> cr]]
Setups ==
  { Setup("same", "ok", FALSE, "file", "unlink", "unlinkat", 1, 1, 0, 0),
    Setup("same", "ok", FALSE, "file", "unlinkat", "remove", 0, 1, 1, 1),
    Setup("same", "ok", FALSE, "dir", "rmdir", "remove", 1, 0, 0, 1),
    Setup("same", "ok", FALSE, "dir", "unlinkat", "remove", 1, 0, 1, 0),
    Setup("same", "ok", TRUE, "dir", "unlinkatDir", "unlinkat", 1, 0, 0, 0),
    Setup("cross", "ok", FALSE, "file", "unlinkat", "remove", 1, 0, 1, 0),
    Setup("cross", "ok", FALSE, "file", "unlink", "unlink", 1, 1, 0, 0),
    Setup("cross", "ok", FALSE, "link", "remove", "unlink", 1, 0, 1, 1),
    Setup("denied", "ok", FALSE, "file", "unlink", "remove", 0, 0, 0, 0),
    Setup("same", "unavailable", TRUE, "dir", "remove", "rmdir", 1, 0, 0, 0),
    Setup("same", "unsafe", TRUE, "file", "remove", "unlink", 1, 0, 0, 0),
    Setup("same", "broken", FALSE, "file", "unlink", "unlinkat", 1, 0, 0, 0) }

-----------------------------------------------------------------------------
(* Up to two operands of rm: a, an excluded x, a link l/ to a, and /.      *)
Leads == ("a" :> "a") @@ ("x" :> "x") @@ ("l" :> "a") @@ ("root" :> "root")
Default == [options |-> <<>>, recursive |-> FALSE, dir |-> FALSE, preserveAll |-> FALSE,
            noPreserveRoot |-> FALSE, oneFileSystem |-> FALSE, permanent |-> FALSE,
            invalid |-> FALSE, bypass |-> FALSE, parentBypassed |-> FALSE,
            dots |-> {}, operands |-> <<"a", "x">>]
Options == {<<>>, <<"force">>, <<"always">>, <<"always", "force">>}
Ways == {<<FALSE, FALSE>>, <<TRUE, FALSE>>, <<FALSE, TRUE>>}
CommandLines ==
  {[Default EXCEPT !.options = o, !.recursive = w[1], !.dir = w[2]] : o \in Options, w \in Ways}
  \cup {[Default EXCEPT !.operands = <<"l", "a">>, !.recursive = r] : r \in BOOLEAN}
  \cup {[Default EXCEPT !.recursive = TRUE, !.preserveAll = p, !.noPreserveRoot = n,
                        !.operands = <<"x", "root">>] : p \in BOOLEAN, n \in BOOLEAN}
  \cup {[Default EXCEPT !.dots = {"a"}], [Default EXCEPT !.oneFileSystem = TRUE, !.recursive = TRUE],
        [Default EXCEPT !.permanent = TRUE], [Default EXCEPT !.bypass = TRUE],
        [Default EXCEPT !.parentBypassed = TRUE], [Default EXCEPT !.invalid = TRUE],
        [Default EXCEPT !.dir = TRUE, !.preserveAll = TRUE],
        [Default EXCEPT !.operands = <<>>],
        [Default EXCEPT !.operands = <<>>, !.options = <<"force">>],
        [Default EXCEPT !.operands = <<"a", "a", "x", "x">>, !.options = <<"once">>]}
KindsOfObject == {"none", "file", "empty", "full", "unreadable", "mount", "emptyMount"}
Operands == {"a", "x", "l", "root"}
Outset == {("a" :> ka) @@ ("x" :> kx) @@ ("l" :> "file") @@ ("root" :> "mount") :
             ka \in KindsOfObject, kx \in {"none", "file", "full", "unreadable"}}
C == INSTANCE RmCommand WITH
  Paths <- Operands, Root <- "root", Excluded <- {"x"}, Target <- Leads, Commands <- CommandLines,
  MaxChanges <- 1, Trees <- Outset,
  changes <- commandChanges

-----------------------------------------------------------------------------
(* rm of a directory t with a file f and a directory s that holds a file g; *)
(* or with a file and an empty subvolume.  Somebody else has a file, and   *)
(* directories with something in them, to put into the tree.               *)
TheNames == {"t", "f", "s", "g"}
TheDirs == {"cwd", "it", "is", "sub", "newDir", "newTop", "root"}
Held(S) == [n \in TheNames |-> IF n \in DOMAIN S THEN S[n] ELSE None]
Disk(T) == [d \in TheDirs |-> Held(IF d \in DOMAIN T THEN T[d] ELSE <<>>)]
Common == ("cwd" :> ("t" :> "it")) @@ ("newDir" :> ("g" :> "inNew")) @@ ("newTop" :> ("f" :> "inTop"))
TheTrees == {Disk(Common @@ ("it" :> (("f" :> "if") @@ ("s" :> "is"))) @@ ("is" :> ("g" :> "ig"))),
             Disk(Common @@ ("it" :> (("f" :> "if") @@ ("s" :> "sub"))))}
Option(i, c, fo, e, p, fa, ch) ==
  [interactive |-> i, confined |-> c, force |-> fo, excluded |-> e, pins |-> p, faulty |-> fa,
   changes |-> ch]
TheInodes == TheDirs \cup {"if", "ig", "newFile", "inNew", "inTop"}
TheUp == [n \in TheNames |-> IF n = "g" THEN "s" ELSE "t"]
OtherDevices == {"sub", "root"}
Spares == {"newFile", "newDir", "newTop"}
Walks == {Option(TRUE, FALSE, FALSE, {}, 3, FALSE, 2), Option(TRUE, TRUE, TRUE, {}, 3, FALSE, 1),
          Option(TRUE, FALSE, FALSE, {"f", "s"}, 3, FALSE, 1), Option(FALSE, TRUE, FALSE, {"f"}, 3, TRUE, 1),
          Option(TRUE, FALSE, TRUE, {}, 1, FALSE, 1), Option(TRUE, FALSE, TRUE, {"s"}, 3, TRUE, 0)}
W == INSTANCE RmWalk WITH
  Names <- TheNames, Operand <- "t", Up <- TheUp, Dirs <- TheDirs, Inodes <- TheInodes, Cwd <- "cwd",
  Foreign <- OtherDevices, FsRoot <- "root", Spare <- Spares, Trees <- TheTrees, Settings <- Walks,
  Racing <- TRUE,
  at <- walkAt, changes <- walkChanges

-----------------------------------------------------------------------------
CommandOff ==
  /\ cmd = Off /\ obj = Off /\ pc = Off /\ next = Off /\ exit = Off /\ trashed = Off
  /\ deleted = Off /\ declined = Off /\ commandChanges = Off /\ unlisted = Off
WalkOff ==
  /\ opt = Off /\ walkAt = Off /\ mounts = Off /\ phase = Off /\ plan = Off /\ pin = Off
  /\ listed = Off /\ id = Off /\ run = Off /\ before = Off /\ pending = Off /\ failures = Off
  /\ exhausted = Off /\ confirmed = Off /\ taken = Off /\ late = Off /\ walkChanges = Off

Start ==
  /\ part \in {"call", "command", "walk"}
  /\ Init /\ (part # "call" => setting = CHOOSE s \in Settings : TRUE)
  /\ IF part = "command" THEN C!Init ELSE CommandOff
  /\ IF part = "walk" THEN W!Init ELSE WalkOff

CallMoves == part = "call" /\ Next /\ UNCHANGED <<part, commandVars, walkVars>>
CommandMoves == part = "command" /\ C!Next /\ UNCHANGED <<part, vars, walkVars>>
WalkMoves == part = "walk" /\ W!Next /\ UNCHANGED <<part, vars, commandVars>>
Move == CallMoves \/ CommandMoves \/ WalkMoves
Fair ==
  /\ \A c \in Callers : WF_vars(part = "call" /\ Own(c))
  /\ WF_commandVars(part = "command" /\ C!Step)
  /\ WF_walkVars(part = "walk" /\ W!Walk)
Behaviour == Start /\ [][Move]_<<part, vars, commandVars, walkVars>> /\ Fair

-----------------------------------------------------------------------------
(* Properties.                                                             *)

\* rm does what it says: what leaves is what was named or confirmed, a directory as one entry,
\* mount points stay, the shim itself deletes only what the trash excludes, the failsafe for /
\* covers every operand, each operand is tried, and exit 0 means that they are gone.
RmHonest ==
  /\ part = "call" => TypeOK
  /\ part = "command" => C!TypeOK /\ C!NothingLost /\ C!HonestExit /\ C!AllTried /\ C!RootSafe
  /\ part = "walk" =>
       W!TypeOK /\ W!ConfirmedOrLate /\ W!LeavesAsOne /\ W!StaysMounted /\ W!HonestExit

\* Every hooked call returns, unless its process dies, and rm ends, whatever others do.
DeletionsEnd ==
  /\ part = "call" => CallsEnd
  /\ <>(part = "command" => C!Ended) /\ <>(part = "walk" => W!Ended)
=============================================================================
