----------------------------- MODULE MCSeccomp -----------------------------
(* The parts of crates/trashd-seccomp that SeccompSession abstracts from: the *)
(* startup of a session, the wait for its end, and two questions the          *)
(* supervisor answers for each trapped call.  Each behaviour takes the steps  *)
(* of one part; the variables of the others are Off.                          *)
EXTENDS SessionStartup, TLC

CONSTANTS None, Off

VARIABLES
  part,
  life, parent, inbox, got, broker, pc, refresh, todo, reaped, targets, untracked, parked, fired,
  pending, status, sent, forwarded,
  world, loc, linked, call, at, pinned, candidate, mapped, physical, verdict, moved, could, changes,
  alive, listed, installed, exe, time, cache, own, ownAt, asked, decision, changed, settledAt,
  updatedAt, began

jobVars == <<life, parent, inbox, got, broker, pc, refresh, todo, reaped, targets, untracked, parked,
             fired, pending, status, sent, forwarded>>
pinVars == <<world, loc, linked, call, at, pinned, candidate, mapped, physical, verdict, moved,
             could, changes>>
bypassVars == <<alive, listed, installed, exe, time, cache, own, ownAt, asked, decision, changed,
                settledAt, updatedAt, began>>

-----------------------------------------------------------------------------
(* The command and a daemon it starts, and one pidfd.                      *)
J == INSTANCE JobWait WITH
  Pids <- {"c", "d"}, Command <- "c", Daemons <- {"d"}, MaxFds <- 1, MaxSignals <- 2
\* what the theorems about the wait take as given
ASSUME PidsAssumption == J!JobAssumption

-----------------------------------------------------------------------------
(* Small trees with links and policies, seen by callers that share the     *)
(* supervisor's view, live in a chroot or a bind mount, or have mounted    *)
(* over a directory, an entry or a policy in a namespace of their own.     *)

At(dir, name) == [dir |-> dir, name |-> name]
\* /d/e/f, /d/f, /d/l -> target, /d/z empty; /.trashd.toml or /d/.trashd.toml.
\* T is another file system with its own f; Q another policy file.
KindOf == [n \in {"R", "D", "E", "Z", "F", "G", "L", "T", "U", "P", "Q"} |->
            CASE n \in {"R", "D", "E", "Z", "T"} -> "dir" [] n = "L" -> "link" [] OTHER -> "file"]
Where(policyDir) ==
  [n \in DOMAIN KindOf |->
    CASE n = "R" -> At("R", "") [] n = "T" -> At("T", "") [] n = "D" -> At("R", "d")
      [] n = "E" -> At("D", "e") [] n = "Z" -> At("D", "z") [] n = "F" -> At("D", "f")
      [] n = "G" -> At("E", "f") [] n = "L" -> At("D", "l") [] n = "U" -> At("T", "f")
      [] n = "P" -> At(policyDir, ".trashd.toml") [] n = "Q" -> At("T", "q")]
Links == {[abs |-> TRUE, steps |-> <<"d", "e">>], [abs |-> TRUE, steps |-> <<"e">>],
          [abs |-> FALSE, steps |-> <<"..", "d", "e">>]}
Ours == [root |-> "R", on |-> None]
World(policyDir, link, mounts, namespace, root, cwd) ==
  [kind |-> KindOf, loc |-> Where(policyDir), target |-> [n \in {"L"} |-> link], free |-> {"n", "f"},
   mounts |-> mounts, ours |-> "m0", namespace |-> namespace, root |-> root, cwd |-> cwd]
Alone == [m \in {"m0"} |-> Ours]
BoundRoot == [m \in {"m0", "m1"} |-> IF m = "m0" THEN Ours ELSE [root |-> "R", on |-> <<"m0", "Z">>]]
Foreign(root, on) ==
  [m \in {"m0", "t0", "t1"} |-> IF m = "m0" THEN Ours ELSE IF m = "t0" THEN Ours ELSE [root |-> root, on |-> on]]
Worlds ==
  LET out == [abs |-> FALSE, steps |-> <<"..", "d", "e">>] IN
  {World("T", l, Alone, "ours", <<"m0", "R">>, <<"m0", "D">>) : l \in Links}
  \cup {World("D", out, Alone, "ours", <<"m0", "R">>, <<"m0", "F">>),
        World("T", out, Alone, "ours", <<"m0", "D">>, <<"m0", "D">>),
        World("T", out, BoundRoot, "ours", <<"m1", "R">>, <<"m1", "D">>)}
  \cup {World(p, out, Foreign(over[1], over[2]), "theirs", <<"t0", "R">>, <<"t0", "D">>) :
          over \in {<<"T", <<"t0", "Z">>>>, <<"U", <<"t0", "F">>>>, <<"Q", <<"t0", "P">>>>}, p \in {"D"}}
Calls ==
  {[abs |-> a, steps |-> s, name |-> n, slash |-> x, dir |-> d] :
     a \in {FALSE}, s \in {<<>>, <<"l">>}, n \in {"f", "z"}, x \in {FALSE}, d \in BOOLEAN}
  \cup {[abs |-> TRUE, steps |-> <<"d">>, name |-> "l", slash |-> TRUE, dir |-> FALSE],
        [abs |-> FALSE, steps |-> <<"..", "d">>, name |-> "f", slash |-> TRUE, dir |-> FALSE],
        [abs |-> FALSE, steps |-> <<"e", "..">>, name |-> "z", slash |-> FALSE, dir |-> TRUE],
        [abs |-> FALSE, steps |-> <<>>, name |-> "..", slash |-> FALSE, dir |-> TRUE]}
P == INSTANCE PathPin WITH
  Worlds <- Worlds, Calls <- Calls, Shown <- [n \in {"d", "e", "z", "n"} |-> "n"],
  PolicyName <- ".trashd.toml", MaxChanges <- 1, pc <- at, parent <- pinned

-----------------------------------------------------------------------------
(* A caller, two processes between it and the orchestrator, and a terminal *)
(* above.  The walk ends below the orchestrator while both are there, at   *)
(* it when one has exited, and reaches the terminal when both have.        *)
B == INSTANCE SessionBypass WITH
  Caller <- "caller", Orchestrator <- "orchestrator",
  Chain <- <<"caller", "task", "shell", "orchestrator", "terminal">>,
  Bypassing <- {"task", "terminal"}, Depth <- 2, Ttl <- 1, MaxTime <- 3, MaxChanges <- 2,
  call <- asked, verdict <- decision, changes <- changed
\* what the theorem about trashd's own programs takes as given
ASSUME TtlAssumption == B!BypassAssumption

-----------------------------------------------------------------------------
JobOff ==
  /\ life = Off /\ parent = Off /\ inbox = Off /\ got = Off /\ broker = Off /\ pc = Off
  /\ refresh = Off /\ todo = Off /\ reaped = Off /\ targets = Off /\ untracked = Off /\ parked = Off
  /\ fired = Off /\ pending = Off /\ status = Off /\ sent = Off /\ forwarded = Off
PinOff ==
  /\ world = Off /\ loc = Off /\ linked = Off /\ call = Off /\ at = Off /\ pinned = Off
  /\ candidate = Off /\ mapped = Off /\ physical = Off /\ verdict = Off /\ moved = Off /\ could = Off
  /\ changes = Off
BypassOff ==
  /\ alive = Off /\ listed = Off /\ installed = Off /\ exe = Off /\ time = Off /\ cache = Off
  /\ own = Off /\ ownAt = Off /\ asked = Off /\ decision = Off /\ changed = Off /\ settledAt = Off
  /\ updatedAt = Off /\ began = Off

Start ==
  /\ part \in {"startup", "job", "pin", "bypass"}
  /\ Init
  /\ IF part = "job" THEN J!Init ELSE JobOff
  /\ IF part = "pin" THEN P!Init ELSE PinOff
  /\ IF part = "bypass" THEN B!Init ELSE BypassOff

StartupMoves == part = "startup" /\ Next /\ UNCHANGED <<part, jobVars, pinVars, bypassVars>>
JobMoves == part = "job" /\ J!Next /\ UNCHANGED <<part, vars, pinVars, bypassVars>>
PinMoves == part = "pin" /\ P!Next /\ UNCHANGED <<part, vars, jobVars, bypassVars>>
BypassMoves == part = "bypass" /\ B!Next /\ UNCHANGED <<part, vars, jobVars, pinVars>>
Move == StartupMoves \/ JobMoves \/ PinMoves \/ BypassMoves
Fairness ==
  /\ WF_vars(part = "startup" /\ Child) /\ WF_vars(part = "startup" /\ Orchestrate)
  /\ WF_vars(part = "startup" /\ Expire) /\ WF_vars(part = "startup" /\ ChildGone /\ SupervisorEnds)
  /\ WF_jobVars(part = "job" /\ J!Wait)
  /\ \A p \in {"c", "d"} : WF_jobVars(part = "job" /\ J!Exit(p))
Behaviour == Start /\ [][Move]_<<part, vars, jobVars, pinVars, bypassVars>> /\ Fairness

-----------------------------------------------------------------------------
(* Properties.                                                             *)

\* What a session leaves behind and what it answers: nobody is left unreaped, no signal reaches a
\* process twice or for nothing, an error given to a caller was the kernel's own, and a caller is
\* captured exactly when one walk over a quiet tree finds no program to bypass.
SupervisesHonestly ==
  /\ part = "job" => J!TypeOK /\ J!AllReaped /\ J!IntOnce /\ J!DaemonsSpared
  /\ part = "pin" => P!TypeOK /\ P!HonestAnswer
  /\ part = "bypass" => B!TypeOK /\ B!DecidesLikeTheWalk /\ B!OwnProgramsLeft

\* The supervisor acts in the caller's own view of the tree: the pinned parent is where the
\* caller's kernel would have walked, the recorded place leads there, and the policies on the way
\* up are those the caller sees.
CallersView ==
  /\ [][part = "pin" => P!PinsCallersParent]_pinVars
  /\ [][part = "pin" => P!ProvesPlace]_pinVars
  /\ [][part = "pin" => P!SeesPolicies]_pinVars

\* The wrapper neither stays in its startup, even if the supervisor hangs, nor in its wait, unless
\* a tracer never lets go of a process, nor does its loop keep spinning once the events are over;
\* no supervisor outlives its session for good.
SessionEnds ==
  /\ <>[](part = "startup" => SupervisorGone)
  /\ <>(part = "job" => J!Returned) \/ <>[](part = "job" /\ J!Traced)
  /\ J!Quiet
=============================================================================
