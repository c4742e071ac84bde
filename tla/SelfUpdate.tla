----------------------------- MODULE SelfUpdate -----------------------------
(* trash self-update (trashd-cli/src/commands/self_update.rs): the check for *)
(* a release with its cached answer, the download, its two verifications and *)
(* the run of the installer, by several at a time, while releases come out,  *)
(* downloads fail or differ, and an updater is killed.                       *)
EXTENDS Integers, Sequences, FiniteSets, SequencesExt

CONSTANTS
  Updaters,
  Releases,         \* the versions published, in order
  Core, Scheme,     \* [version -> its number], [version -> "semver" or "date"]
  Versions,         \* the releases and builds nobody published
  Installed,        \* the versions that may be there at first
  Options,          \* [check, allow, exe, rights]: --check, --allow-unverified, where trash is
                    \* installed, and how the installer becomes root
  Cached, Bases,    \* whether the cache directory is safe; [exec, safe] of each temporary directory
  Day, Until,       \* the age at which a cached answer expires; a bound on the clock
  None

VARIABLES
  now, installed,
  published,        \* the time of each release so far
  marker,           \* last-update-check: [version, at] or None
  pc, opt,
  current, latest,  \* the version that runs, and the release found
  tmp,              \* the private directory's base, or None
  tarball,          \* what has been downloaded
  said,             \* GHOST: [version, at] called the latest, or None
  killed,           \* GHOST
  ran               \* GHOST: what installers ran: [archive, allowed, exe]

vars == <<now, installed, published, marker, pc, opt, current, latest, tmp, tarball, said,
          killed, ran>>

World == <<now, installed, published, marker, ran>>
Job == <<opt, current, latest, tmp, tarball, said, killed>>
Goto(u, p) == pc' = [pc EXCEPT ![u] = p]

\* is_newer compares the numbers; a suffix (-rc1, +build) does not count
Newer(a, b) == Core[a] > Core[b]
Comparable(a, b) == Scheme[a] = Scheme[b]
UpToDate(v, u) == Comparable(v, current[u]) /\ ~Newer(v, current[u])
Latest == Releases[Len(published)]
\* fatal(), after the private directory is removed
Stop(u) == Goto(u, "end") /\ tmp' = [tmp EXCEPT ![u] = None]

-----------------------------------------------------------------------------
(* one updater *)

Start(u) ==
  /\ pc[u] = "idle" /\ \E o \in Options : opt' = [opt EXCEPT ![u] = o]
  /\ current' = [current EXCEPT ![u] = installed]
  /\ Goto(u, IF opt'[u].check THEN "cache" ELSE "fetch")
  /\ UNCHANGED <<World, latest, tmp, tarball, said, killed>>

\* a regular file of ours in a directory only we write, younger than a day
Valid == Cached /\ marker # None /\ (marker # None => now - marker.at < Day)
\* the verdict on a version: none newer, or an offer
Judge(u, v) == said' = IF UpToDate(v, u) THEN [said EXCEPT ![u] = [version |-> current[u], at |-> now]]
                       ELSE said
Cache(u) ==
  /\ pc[u] = "cache" /\ UNCHANGED <<World, opt, current, latest, tmp, tarball, killed>>
  /\ IF Valid THEN Judge(u, marker.version) /\ Goto(u, "end") ELSE Goto(u, "fetch") /\ UNCHANGED said

Fetch(u) ==
  /\ pc[u] = "fetch" /\ UNCHANGED <<World, opt, current, tmp, tarball, said, killed>>
  /\ \/ Goto(u, "end") /\ UNCHANGED latest
     \/ Goto(u, "mark") /\ latest' = [latest EXCEPT ![u] = Latest]

\* install_prefix_for
Refused(exe) == exe \in {"usr", "writable"}
\* the answer is kept, if that is possible, and judged; then a tarball for this machine, or none
Mark(u) ==
  /\ pc[u] = "mark" /\ UNCHANGED <<now, installed, published, ran, opt, current, latest, tmp, tarball,
                                    killed>>
  /\ \/ Cached /\ marker' = [version |-> latest[u], at |-> now]
     \/ UNCHANGED marker
  /\ Judge(u, latest[u])
  /\ \/ Goto(u, "end")
     \/ /\ ~UpToDate(latest[u], u) /\ ~opt[u].check /\ ~Refused(opt[u].exe)
        /\ Goto(u, "ask")

\* exec_capable_temp_base: files may be executed in it (#331), others cannot replace ours (#343)
Fit(b) == b.exec /\ b.safe
Ask(u) ==
  /\ pc[u] = "ask" /\ UNCHANGED <<World, opt, current, latest, tarball, said, killed>>
  /\ \/ Goto(u, "end") /\ UNCHANGED tmp              \* no, or no checksum in the release
     \/ LET fit == {k \in DOMAIN Bases : Fit(Bases[k])} IN
        /\ fit # {} /\ Goto(u, "get")
        /\ tmp' = [tmp EXCEPT ![u] = Bases[CHOOSE k \in fit : \A j \in fit : k <= j]]

\* download_file: an error, too much, or something; an early end may look like the file's
Get(u) ==
  /\ pc[u] = "get" /\ UNCHANGED <<World, opt, current, latest, said, killed>>
  /\ \/ Stop(u) /\ UNCHANGED tarball
     \/ \E what \in {"built", "cut", "other"} :
          tarball' = [tarball EXCEPT ![u] = what] /\ Goto(u, "sum") /\ UNCHANGED tmp

\* verify_sha256
Sums(u, sum) == tarball[u] = sum
Sum(u) ==
  /\ pc[u] = "sum" /\ UNCHANGED <<World, opt, current, latest, tarball, said, killed>>
  /\ \E sum \in {"built", "other", None} :
       IF Sums(u, sum) THEN Goto(u, "attest") /\ UNCHANGED tmp ELSE Stop(u)

\* provenance_gate: unverified only when asked for
Gate(u, verified) == verified \/ opt[u].allow
\* verify_provenance: gh may be missing or fail
Attest(u) ==
  /\ pc[u] = "attest" /\ UNCHANGED <<World, opt, current, latest, tarball, said, killed>>
  /\ \E verified \in {tarball[u] = "built", FALSE} :
       IF Gate(u, verified) THEN Goto(u, "extract") /\ UNCHANGED tmp ELSE Stop(u)

Extract(u) ==
  /\ pc[u] = "extract" /\ UNCHANGED <<World, opt, current, latest, tarball, said, killed>>
  /\ \/ Stop(u)
     \/ Goto(u, "install") /\ UNCHANGED tmp

\* sudo, or bash when root is there already; not under no_new_privs
Install(u) ==
  /\ pc[u] = "install" /\ UNCHANGED <<now, published, marker, opt, current, latest, tarball, said,
                                       killed>>
  /\ \/ opt[u].rights = "blocked" /\ Stop(u) /\ UNCHANGED <<installed, ran>>
     \/ /\ opt[u].rights # "blocked" /\ Goto(u, "leave") /\ UNCHANGED tmp
        /\ \/ UNCHANGED <<installed, ran>>           \* sudo refused
           \/ /\ installed' \in {installed, latest[u]}
              /\ ran' = ran \cup {[archive |-> tarball[u], allowed |-> opt[u].allow,
                                   exe |-> opt[u].exe]}

Discard(u) == Stop(u)
Leave(u) ==
  /\ pc[u] = "leave" /\ Discard(u)
  /\ UNCHANGED <<World, opt, current, latest, tarball, said, killed>>

Step(u) == \/ Start(u) \/ Cache(u) \/ Fetch(u) \/ Mark(u) \/ Ask(u) \/ Get(u) \/ Sum(u) \/ Attest(u)
           \/ Extract(u) \/ Install(u) \/ Leave(u)
Kill(u) ==
  /\ pc[u] \notin {"idle", "end"} /\ Goto(u, "end") /\ killed' = [killed EXCEPT ![u] = TRUE]
  /\ UNCHANGED <<World, opt, current, latest, tmp, tarball, said>>

-----------------------------------------------------------------------------
(* the world *)

Publish ==
  /\ Len(published) < Len(Releases) /\ published' = Append(published, now)
  /\ UNCHANGED <<now, installed, marker, pc, Job, ran>>
\* a request takes seconds: an answer is kept in the hour it was given
Tick ==
  /\ now < Until /\ \A u \in Updaters : pc[u] \notin {"cache", "fetch", "mark"}
  /\ now' = now + 1 /\ UNCHANGED <<installed, published, marker, pc, Job, ran>>

Init ==
  /\ now = 0 /\ installed \in Installed /\ published = <<0>> /\ marker = None
  /\ pc = [u \in Updaters |-> "idle"] /\ opt = [u \in Updaters |-> None]
  /\ current = [u \in Updaters |-> None] /\ latest = current /\ tmp = current /\ tarball = current
  /\ said = current /\ killed = [u \in Updaters |-> FALSE] /\ ran = {}

Next == (\E u \in Updaters : Step(u) \/ Kill(u)) \/ Publish \/ Tick
Spec == Init /\ [][Next]_vars

-----------------------------------------------------------------------------
(* Properties *)

\* Types; a private directory is one that fits.
TypeOK ==
  /\ now \in 0 .. Until /\ installed \in Versions
  /\ marker # None => marker.version \in Versions /\ marker.at \in 0 .. now
  /\ \A u \in Updaters :
       /\ pc[u] \in {"get", "sum", "attest", "extract", "install", "leave"} => tmp[u] # None
       /\ tmp[u] # None => tmp[u] \in ToSet(Bases) /\ tmp[u].exec /\ tmp[u].safe

\* What runs as root is what the release workflow built, or, with --allow-unverified, at least
\* what the release's own checksum describes: never half a file;
\* and never into a prefix others write (#199, #214).
RootRuns == \A r \in ran :
  /\ r.archive = "built" \/ (r.allowed /\ r.archive = "other")
  /\ ~Refused(r.exe)

\* "already the latest version" is at most a day old: what is newer came out since.
FreshVerdict == \A u \in Updaters : said[u] # None =>
  \A k \in DOMAIN published :
    (Comparable(Releases[k], said[u].version) /\ Newer(Releases[k], said[u].version)
       /\ published[k] <= said[u].at)
    => published[k] > said[u].at - Day

\* Unless it is killed, an updater takes its directory away.
Cleaned == \A u \in Updaters : pc[u] = "end" /\ ~killed[u] => tmp[u] = None
=============================================================================
