---------------------------- MODULE MCPrograms -----------------------------
(* The decisions and records around a delete: which rm is the real one, who   *)
(* is bypassed, what a pattern matches and a policy says, the operation log,  *)
(* and self-update.  Each behaviour takes the steps of one part; the          *)
(* variables of the others are Off.                                           *)
EXTENDS Integers, Sequences, TLC

CONSTANTS p, q, None, Off

VARIABLES
  part,
  bin, installs, verdicts, pc, at, known, id, copy, chosen, execd, faults, touched,
  parent, alive, me, verdict, stamp, wall, time, setBack, th, epoch, settledAt,
  pattern, globPath, from, pi, ti, star, upto, globPc, matched,
  dir, name, data, wide, logPc, fd, rest, asked, rpc, rfd, end, position, remaining, reversed,
  lines, made, torn, removals, logged,
  now, installed, published, marker, updatePc, opt, current, latest, tmp, tarball, said, killed,
  ran,
  policyKinds, policyConf, policyLocal, mtime, policyPc, policyPath, policyDir, rules, key,
  policy, skips, due, base, told, writes, same, calm, ever

realVars == <<bin, installs, verdicts, pc, at, known, id, copy, chosen, execd, faults, touched>>
verdictVars == <<parent, alive, me, verdict, stamp, wall, time, setBack, th, epoch, settledAt>>
globVars == <<pattern, globPath, from, pi, ti, star, upto, globPc, matched>>
logVars == <<dir, name, data, wide, logPc, fd, rest, asked, rpc, rfd, end, position, remaining,
  reversed, lines, made, torn, removals, logged>>
updateVars == <<now, installed, published, marker, updatePc, opt, current, latest, tmp, tarball,
  said, killed, ran>>
policyVars == <<policyKinds, policyConf, policyLocal, mtime, policyPc, policyPath, policyDir,
  rules, key, policy, skips, due, base, told, writes, same, calm, ever>>

-----------------------------------------------------------------------------
(* The installer's stash, an rm on the PATH, and /usr/bin/rm; two shims.     *)
R == INSTANCE RealRm WITH
  Procs <- {p, q}, Default <- "usrbin", Kinds <- {"none", "rm", "shim"}, NoRm <- None,
  Candidates <- <<[path |-> "stash", stash |-> TRUE], [path |-> "onPath", stash |-> FALSE],
                  [path |-> "usrbin", stash |-> FALSE]>>,
  MaxLines <- 2, MaxReinstalls <- 1, MaxFaults <- 1
ASSUME RealAssumption == R!RealAssumption

\* A program (4) of two threads under a shell (3) under make (2), with one fork.
V == INSTANCE PreloadVerdict WITH
  Threads <- {p, q}, Self <- 4, Children <- {5}, Ancestors <- <<3, 2>>, Bypassing <- {2},
  Ttl <- 1, MaxDepth <- 2, MaxTime <- 2, MaxSetBack <- 0

-----------------------------------------------------------------------------
(* All patterns of up to three characters, and longer ones with stars,       *)
(* classes and escapes, on short absolute paths.                             *)
Codes == ("!" :> 33) @@ ("*" :> 42) @@ ("-" :> 45) @@ ("/" :> 47) @@ ("?" :> 63) @@ ("[" :> 91)
         @@ ("\\" :> 92) @@ ("]" :> 93) @@ ("a" :> 97) @@ ("b" :> 98) @@ ("c" :> 99)
Letters == {"*", "?", "[", "]", "!", "\\", "a", "/"}
Tokens == {<<"*">>, <<"a">>, <<"[", "!", "a", "]">>, <<"[", "a", "-", "b", "]">>, <<"[", "]", "a", "]">>,
           <<"\\", "*">>, <<"[", "b", "-", "a", "]">>, <<"[", "a", "-", "]">>, <<"/">>}
Texts == {<<"/">> \o s : s \in UNION {[1 .. n -> {"a", "b", "/"}] : n \in 0 .. 2}
                           \cup [1 .. 1 -> {"*", "[", "]", "-", "\\"}] \cup {<<"b", "/", "a">>, <<"a", "b", "a">>}}
G == INSTANCE GlobMatch WITH
  Patterns <- {x \o y \o z : x, y, z \in Tokens} \cup UNION {[1 .. n -> Letters] : n \in 0 .. 3},
  TextPaths <- Texts, Code <- Codes,
  path <- globPath, pc <- globPc

-----------------------------------------------------------------------------
(* Two writers of the operation log, and a reader of chunks shorter than a   *)
(* line.                                                                     *)
L == INSTANCE OperationLog WITH
  Writers <- {p, q}, Messages <- {<<"plain">>, <<"slash", "newline">>}, MaxLines <- 2, Chunk <- 3,
  MaxRecords <- 2, MaxTorn <- 1, MaxRemovals <- 1,
  pc <- logPc

-----------------------------------------------------------------------------
(* Two updaters of one user, on the first of two releases, a candidate of  *)
(* the second, or a version of the other scheme.                             *)
Core == [v \in {"0.1", "0.2", "0.2-rc1", "2026"} |->
           CASE v = "0.1" -> 1 [] v \in {"0.2", "0.2-rc1"} -> 2 [] v = "2026" -> 2026]
Asked(c, al, ex, ri) == [check |-> c, allow |-> al, exe |-> ex, rights |-> ri]
Base(x, s) == [exec |-> x, safe |-> s]
S == INSTANCE SelfUpdate WITH
  Updaters <- {p, q}, Releases <- <<"0.1", "0.2">>, Installed <- {"0.1", "0.2-rc1", "2026"},
  Versions <- DOMAIN Core, Scheme <- [v \in DOMAIN Core |-> IF v = "2026" THEN "date" ELSE "semver"],
  Options <- {Asked(TRUE, FALSE, "local", "sudo"), Asked(FALSE, FALSE, "local", "sudo"),
              Asked(FALSE, TRUE, "local", "sudo"), Asked(FALSE, FALSE, "writable", "sudo"),
              Asked(FALSE, FALSE, "local", "blocked")},
  Cached <- TRUE, Bases <- <<Base(FALSE, TRUE), Base(TRUE, FALSE), Base(TRUE, TRUE)>>, Day <- 1, Until <- 1,
  pc <- updatePc

-----------------------------------------------------------------------------
(* One process of either kind; two directories, and three paths of which one *)
(* is excluded by default.  Nothing can match br.                            *)
Unset == [never |-> None, only |-> None]
Conf(s, n, o) == [state |-> s, root |-> [never |-> n, only |-> o], old |-> Unset]
Toml(s, n, o) == [state |-> s, never |-> n, only |-> o]
Absent == Conf("absent", None, None)
NoToml == Toml("absent", {}, {})
Globals == {Absent, Conf("broken", None, {"pb"}), Conf("ok", {"pb"}, None), Conf("ok", {"br"}, {"br"}),
            [Conf("ok", {"br"}, None) EXCEPT !.old = [never |-> {"pa"}, only |-> {"pb"}]]}
Users == {Absent, Conf("special", None, {"pb"}), Conf("ok", {"pa"}, {}), Conf("part", None, {"pa"}),
          Conf("ok", None, {"pb", "br"})}
Projects == {NoToml, Toml("ignored", {}, {"pb"}), Toml("broken", {}, {"pb"}), Toml("ok", {"pa"}, {}),
             Toml("ok", {}, {"pa"}), Toml("ok", {"br"}, {"br"})}
P == INSTANCE DeletePolicy WITH
  Procs <- {p}, Paths <- {"a", "b", "t"}, Dirs <- {1, 2},
  Matches <- [pa |-> {"a"}, pb |-> {"b"}, pt |-> {"t"}, br |-> {}], Unsupported <- {"br"}, Defaults <- {"pt"},
  Starts <- {[kinds |-> (p :> k), conf |-> [global |-> g, user |-> u], local |-> <<l, m>>] :
               k \in {"library", "preload"}, g \in Globals, u \in Users, l \in Projects,
               m \in {NoToml, Toml("ok", {}, {"pb"})}},
  Confs <- {Absent, Conf("ok", None, {"br"})}, Locals <- {Toml("ok", {}, {"br"})}, MaxWrites <- 1,
  kinds <- policyKinds, conf <- policyConf, local <- policyLocal, pc <- policyPc, path <-
  policyPath, dir <- policyDir

-----------------------------------------------------------------------------
RealOff ==
  /\ bin = Off /\ installs = Off /\ verdicts = Off /\ pc = Off /\ at = Off /\ known = Off
  /\ id = Off /\ copy = Off /\ chosen = Off /\ execd = Off /\ faults = Off /\ touched = Off
VerdictOff ==
  /\ parent = Off /\ alive = Off /\ me = Off /\ verdict = Off /\ stamp = Off /\ wall = Off
  /\ time = Off /\ setBack = Off /\ th = Off /\ epoch = Off /\ settledAt = Off
GlobOff ==
  /\ pattern = Off /\ globPath = Off /\ from = Off /\ pi = Off /\ ti = Off /\ star = Off
  /\ upto = Off /\ globPc = Off /\ matched = Off
LogOff ==
  /\ dir = Off /\ name = Off /\ data = Off /\ wide = Off /\ logPc = Off /\ fd = Off /\ rest = Off
  /\ asked = Off /\ rpc = Off /\ rfd = Off /\ end = Off /\ position = Off /\ remaining = Off
  /\ reversed = Off /\ lines = Off /\ made = Off /\ torn = Off /\ removals = Off /\ logged = Off
UpdateOff ==
  /\ now = Off /\ installed = Off /\ published = Off /\ marker = Off /\ updatePc = Off
  /\ opt = Off /\ current = Off /\ latest = Off /\ tmp = Off /\ tarball = Off /\ said = Off
  /\ killed = Off /\ ran = Off
PolicyOff ==
  /\ policyKinds = Off /\ policyConf = Off /\ policyLocal = Off /\ mtime = Off /\ policyPc = Off
  /\ policyPath = Off /\ policyDir = Off /\ rules = Off /\ key = Off /\ policy = Off
  /\ skips = Off /\ due = Off /\ base = Off /\ told = Off /\ writes = Off /\ same = Off
  /\ calm = Off /\ ever = Off

Start ==
  /\ part \in {"real", "verdict", "glob", "log", "update", "policy"}
  /\ IF part = "real" THEN R!Init ELSE RealOff
  /\ IF part = "verdict" THEN V!Init ELSE VerdictOff
  /\ IF part = "glob" THEN G!Init ELSE GlobOff
  /\ IF part = "log" THEN L!Init ELSE LogOff
  /\ IF part = "update" THEN S!Init ELSE UpdateOff
  /\ IF part = "policy" THEN P!Init ELSE PolicyOff

RealMoves == part = "real" /\ R!Next
  /\ UNCHANGED <<part, verdictVars, globVars, logVars, updateVars, policyVars>>
VerdictMoves == part = "verdict" /\ V!Next
  /\ UNCHANGED <<part, realVars, globVars, logVars, updateVars, policyVars>>
GlobMoves == part = "glob" /\ G!Next
  /\ UNCHANGED <<part, realVars, verdictVars, logVars, updateVars, policyVars>>
LogMoves == part = "log" /\ L!Next
  /\ UNCHANGED <<part, realVars, verdictVars, globVars, updateVars, policyVars>>
UpdateMoves == part = "update" /\ S!Next
  /\ UNCHANGED <<part, realVars, verdictVars, globVars, logVars, policyVars>>
PolicyMoves == part = "policy" /\ P!Next
  /\ UNCHANGED <<part, realVars, verdictVars, globVars, logVars, updateVars>>
Move == RealMoves \/ VerdictMoves \/ GlobMoves \/ LogMoves \/ UpdateMoves \/ PolicyMoves
Behaviour == Start /\ [][Move]_<<part, realVars, verdictVars, globVars, logVars, updateVars, policyVars>>

-----------------------------------------------------------------------------
(* Properties.                                                             *)

\* What a program decides or records is right, whoever changes it meanwhile: a genuine rm is
\* found and no shim executes a shim; a verdict on a process is its own and expires; a pattern
\* matches what the documentation says; a policy decides as the files say, and no path is lost to
\* a pattern nobody can match; the log's lines stay whole and private; and what an update runs
\* as root was verified.
ProgramsRight ==
  /\ part = "real" => R!TypeOK /\ R!NoRecursion /\ R!VerdictsTrue /\ R!GenuineFound
  /\ part = "verdict" => V!TypeOK /\ V!SettledVerdict /\ V!OwnVerdict
  /\ part = "glob" => G!TypeOK /\ G!Right
  /\ part = "log" => L!TypeOK /\ L!Whole /\ L!Private /\ L!Exact
  /\ part = "update" => S!TypeOK /\ S!RootRuns /\ S!FreshVerdict /\ S!Cleaned
  /\ part = "policy" => P!TypeOK /\ P!Excluded /\ P!Faithful /\ P!NoBlindDelete
=============================================================================
