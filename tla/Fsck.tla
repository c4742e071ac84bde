-------------------------------- MODULE Fsck --------------------------------
(* trash fsck [--fix] over one trash root (trashd-cli/src/commands/fsck.rs): *)
(* sidecars without data, data without a sidecar, sidecars nobody can read.  *)
(* --fix holds the root's lock while it looks and asks without it; trashd    *)
(* itself (ours), file managers that know no lock (desktop) and the user     *)
(* go on meanwhile.                                                          *)
EXTENDS Naturals, FiniteSets

CONSTANTS
  Ids, Docs,
  Ours, Desktop,    \* the processes that move files to the trash, with and without the lock
  Starts,           \* [files, info, fix]: the roots found at the start, and the option
  MaxChanges,       \* bound: what others do
  Careful,          \* nobody writes a sidecar while a root is being listed
  None

Movers == Ours \cup Desktop
\* a sidecar: its version, whether it parses ("good"), does not ("corrupt") or is no regular file
\* ("odd"), and whether it is 5 seconds old
Missing == [ver |-> 0, kind |-> "none", old |-> FALSE]
Fresh(v) == [ver |-> v, kind |-> "good", old |-> FALSE]

\* The roots found: data and sidecars, whose versions are none that is written later.
StartsAssumption ==
  /\ Cardinality(Ids) \in Nat /\ MaxChanges \in Nat
  /\ None \notin Movers \cup {"fsck"} /\ "fsck" \notin Movers
  /\ \A s \in Starts :
       /\ s.fix \in BOOLEAN /\ s.files \in [Ids -> Docs \cup {None}]
       /\ s.info \in [Ids -> {Missing} \cup
            [ver : 0 .. Cardinality(Ids), kind : {"good", "corrupt", "odd"}, old : BOOLEAN]]

VARIABLES
  start, files, info,
  lock,             \* the holder of .trashd/store.lock: a mover or "fsck"
  pc, cur,          \* fsck: its step, and the ID it is at
  listed, todo,     \* what readdir found when it began, and what it has not returned yet
  known,            \* list_root: the sidecars that parsed
  cand, snaps,      \* orphans to ask about, and their snapshots [doc, ver]
  found,            \* the counts of Findings that are not 0
  mpc, mid, mdoc,   \* the movers: step, ID and data
  changes, ver,
  disturbed, stranded, purged   \* GHOST: somebody changed the root; data whose sidecar
                                \* fsck removed; what it purged, with the sidecar beside it

scan == <<listed, todo, known>>
others == <<mpc, mid, mdoc, changes, ver, disturbed>>
vars == <<start, files, info, lock, pc, cur, scan, cand, snaps, found, others, stranded, purged>>

Locked == lock = "fsck"
Flag(s) == found' = found \cup s
Rest == UNCHANGED <<start, others, stranded, purged>>
Fixed(s) == IF start.fix THEN s \cup {"unresolved"} ELSE s

-----------------------------------------------------------------------------
(* the passes over info/ and files/ *)

Guarded == start.fix
Lock ==
  /\ pc = "start" /\ Rest /\ UNCHANGED <<files, info, cur, scan, cand, snaps>>
  /\ CASE ~Guarded -> pc' = "openInfo" /\ UNCHANGED <<lock, found>>
       [] Guarded ->
            \/ lock = None /\ lock' = "fsck" /\ pc' = "openInfo" /\ UNCHANGED found
            \/ Flag({"unchecked"}) /\ pc' = "report" /\ UNCHANGED lock

Named(s) == {id \in Ids : IF s = "info" THEN info[id] # Missing ELSE files[id] # None}
\* listing, checked_entries: a pass that missed something leaves the root unchecked
Unreadable == {"unchecked"}
Open(from, s, to, next) ==
  /\ pc = from /\ Rest /\ UNCHANGED <<files, info, lock, cur, known, cand, snaps>>
  /\ \/ listed' = Named(s) /\ todo' = Ids /\ pc' = to /\ UNCHANGED found
     \/ Flag(Unreadable) /\ pc' = next /\ UNCHANGED <<listed, todo>>
OpenInfo == Open("openInfo", "info", "info", "openFiles")
OpenFiles == Open("openFiles", "files", "files", "list")

\* readdir returns what was there all the time, and may miss the rest
Pass(at, s, next) ==
  /\ pc = at /\ Rest /\ UNCHANGED <<files, info, lock, cur, listed, known, cand, snaps>>
  /\ \/ todo = {} /\ pc' = next /\ UNCHANGED <<todo, found>>
     \/ \E id \in todo :
          /\ todo' = todo \ {id} /\ UNCHANGED pc
          /\ \/ ~(id \in listed /\ id \in Named(s)) /\ UNCHANGED found
             \/ id \in listed /\ Flag(Unreadable)
EndInfo == Pass("info", "info", "openFiles")
EndFiles == Pass("files", "files", "list")

\* Mutant of Retired: a sidecar without data is no move in flight.
RetiredNot(id) == TRUE
\* data_absence_is_retired (both looks within the grace of 5 seconds)
Retired(id) == info[id] = Missing \/ info[id].old
VisitInfo ==
  /\ pc = "info" /\ Rest /\ UNCHANGED <<files, info, lock, listed, known, cand, snaps>>
  /\ \E id \in todo \cap (listed \cup Named("info")) :
       /\ todo' = todo \ {id}
       /\ CASE files[id] = None /\ ~Retired(id) -> UNCHANGED <<pc, cur, found>>
            [] files[id] = None /\ Retired(id) ->
                 /\ Flag({"info"})
                 /\ IF start.fix THEN pc' = "remove" /\ cur' = id ELSE UNCHANGED <<pc, cur>>
            [] files[id] # None /\ info[id].kind = "good" -> UNCHANGED <<pc, cur, found>>
            [] files[id] # None /\ info[id].kind # "good" ->
                 Flag(Fixed({"corrupt"})) /\ UNCHANGED <<pc, cur>>
RemoveInfo ==
  /\ pc = "remove" /\ pc' = "info" /\ UNCHANGED <<start, others, purged, files, lock, cur, scan, cand, snaps>>
  /\ \/ /\ info[cur] # Missing /\ info' = [info EXCEPT ![cur] = Missing]
        /\ stranded' = stranded \cup ({mdoc[m] : m \in {n \in Movers : mpc[n] = "moving" /\ mid[n] = cur}}
                                       \cup ({files[cur]} \ {None}))
        /\ UNCHANGED found
     \/ Flag({"unresolved"}) /\ UNCHANGED <<info, stranded>>

\* sidecar_is_usable: a regular file, as the store's own listing sees it
Usable(id) == info[id].kind \in {"good", "corrupt"}
VisitFiles ==
  /\ pc = "files" /\ Rest /\ UNCHANGED <<pc, files, info, lock, cur, listed, known, snaps, found>>
  /\ \E id \in todo \cap (listed \cup Named("files")) :
       /\ todo' = todo \ {id}
       /\ cand' = IF Usable(id) THEN cand ELSE cand \cup {id}

-----------------------------------------------------------------------------
(* list_root, under the lock: snapshots for the questions *)

DropGuard == lock' = IF Locked THEN None ELSE lock
Ask == /\ pc' = "ask" /\ DropGuard
       /\ found' = found \cup (IF cand # {} THEN {"files"} ELSE {})
List ==
  /\ pc = "list" /\ Rest /\ UNCHANGED <<files, info, cur, listed, cand, snaps>>
  /\ \/ Ask /\ UNCHANGED <<todo, known>>          \* to report only, or the root cannot be listed
     \/ /\ start.fix /\ cand # {} /\ pc' = "snap" /\ todo' = cand
        /\ known' = {id \in Ids : info[id].kind = "good"} /\ UNCHANGED <<lock, found>>
\* the data and the sidecar of an orphan, each when its turn comes
Snap ==
  /\ pc = "snap" /\ Rest /\ UNCHANGED <<files, info, cur, listed, known, cand>>
  /\ \/ todo = {} /\ Ask /\ UNCHANGED <<todo, snaps>>
     \/ \E id \in todo :
          /\ todo' = todo \ {id} /\ UNCHANGED <<pc, lock, found>>
          /\ snaps' = IF id \in known \/ files[id] = None THEN snaps
                      ELSE [snaps EXCEPT ![id] = [doc |-> files[id], ver |-> info[id].ver]]

-----------------------------------------------------------------------------
(* the questions, without the lock *)

Answer ==
  /\ pc = "ask" /\ Rest /\ UNCHANGED <<files, info, lock, scan, snaps>>
  /\ \/ cand = {} /\ pc' = "report" /\ UNCHANGED <<cur, cand, found>>
     \/ \E id \in cand :
          /\ cand' = cand \ {id}
          /\ \/ ~start.fix /\ UNCHANGED <<pc, cur, found>>
             \/ /\ start.fix /\ Flag({"unresolved"}) /\ UNCHANGED <<pc, cur>>    \* no, or no snapshot
             \/ /\ start.fix /\ snaps[id] # None /\ cur' = id /\ pc' = "relock"
                /\ UNCHANGED found
Relock == /\ pc = "relock" /\ lock = None /\ lock' = "fsck" /\ pc' = "purge" /\ Rest
          /\ UNCHANGED <<files, info, cur, scan, cand, snaps, found>>
\* validated_entry_metadata_locked
Current(id) == files[id] = snaps[id].doc /\ info[id].ver = snaps[id].ver
PurgeData ==
  /\ pc = "purge" /\ UNCHANGED <<start, others, stranded, info, cur, scan, cand, snaps>>
  /\ \/ /\ Current(cur) /\ files' = [files EXCEPT ![cur] = None] /\ pc' = "sidecar"
        /\ purged' = purged \cup {[id |-> cur, doc |-> files[cur], beside |-> info[cur]]}
        /\ UNCHANGED <<lock, found>>
     \/ Flag({"unresolved"}) /\ lock' = None /\ pc' = "ask" /\ UNCHANGED <<files, purged>>
PurgeSidecar ==
  /\ pc = "sidecar" /\ pc' = "ask" /\ lock' = None /\ Rest
  /\ UNCHANGED <<files, cur, scan, cand, snaps>>
  /\ \/ info' = [info EXCEPT ![cur] = Missing] /\ UNCHANGED found
     \/ info[cur] # Missing /\ Flag({"unresolved"}) /\ UNCHANGED info

\* the exit status: check
Clean == IF start.fix THEN found \cap {"unresolved", "unchecked"} = {} ELSE found = {}
Report ==
  /\ pc = "report" /\ pc' = IF Clean THEN "ok" ELSE "problems"
  /\ DropGuard /\ Rest /\ UNCHANGED <<files, info, cur, scan, cand, snaps, found>>

Fsck == \/ Lock \/ OpenInfo \/ OpenFiles \/ EndInfo \/ EndFiles \/ VisitInfo \/ RemoveInfo
        \/ VisitFiles \/ List \/ Snap \/ Answer \/ Relock \/ PurgeData \/ PurgeSidecar \/ Report

-----------------------------------------------------------------------------
(* the others *)

Mine == UNCHANGED <<start, pc, cur, scan, cand, snaps, found, stranded, purged>>
Disturb(how) == disturbed' = disturbed \cup
  (IF pc # "start" THEN {how} ELSE IF how = "harm" THEN {"before"} ELSE {})
Spend(how) == changes < MaxChanges /\ changes' = changes + 1 /\ Disturb(how) /\ Mine
Write(id, s) == info' = [info EXCEPT ![id] = s]
Mover(m, p, id, d) == /\ mpc' = [mpc EXCEPT ![m] = p] /\ mid' = [mid EXCEPT ![m] = id]
                      /\ mdoc' = [mdoc EXCEPT ![m] = d]
Quiet == Careful => pc # "snap"
\* the sidecar first, then the data
Begin(m) == \E id \in Ids, d \in Docs :
  /\ Spend("move") /\ Quiet /\ mpc[m] = "idle" /\ info[id] = Missing /\ files[id] = None
  /\ \A i \in Ids : files[i] # d
  /\ \A n \in Movers : mdoc[n] # d
  /\ m \in Ours => lock = None
  /\ lock' = IF m \in Ours THEN m ELSE lock
  /\ ver' = ver + 1 /\ Write(id, Fresh(ver + 1)) /\ Mover(m, "moving", id, d) /\ UNCHANGED files
Land(m) ==
  /\ mpc[m] = "moving" /\ Mine /\ Disturb("move") /\ UNCHANGED <<info, changes, ver>>
  /\ files' = [files EXCEPT ![mid[m]] = mdoc[m]]
  /\ Mover(m, "idle", None, None) /\ lock' = IF lock = m THEN None ELSE lock
\* restored or purged, by trashd
Take(m) == \E id \in Ids :
  /\ Spend("move") /\ m \in Ours /\ mpc[m] = "idle" /\ lock = None /\ lock' = m
  /\ files[id] # None /\ info[id].kind = "good" /\ files' = [files EXCEPT ![id] = None]
  /\ Mover(m, "taking", id, None) /\ UNCHANGED <<info, ver>>
Drop(m) ==
  /\ mpc[m] = "taking" /\ Mine /\ Disturb("move") /\ UNCHANGED <<files, changes, ver>>
  /\ Write(mid[m], Missing) /\ Mover(m, "idle", None, None) /\ lock' = None
Die(m) == /\ mpc[m] # "idle" /\ Spend("harm") /\ Mover(m, "idle", None, None)
          /\ lock' = (IF lock = m THEN None ELSE lock) /\ UNCHANGED <<files, info, ver>>
\* 5 seconds; a file manager is done by then
Age == \E id \in Ids :
  /\ info[id] # Missing /\ ~info[id].old
  /\ \A m \in Desktop : mid[m] # id
  /\ Write(id, [info[id] EXCEPT !.old = TRUE])
  /\ Disturb("move") /\ Mine /\ UNCHANGED <<files, lock, mpc, mid, mdoc, changes, ver>>
\* an orphan is given its sidecar again by hand, or other data
Recover == \E id \in Ids :
  /\ Spend("harm") /\ Quiet /\ files[id] # None /\ info[id] = Missing
  /\ ver' = ver + 1 /\ Write(id, Fresh(ver + 1)) /\ UNCHANGED <<files, lock, mpc, mid, mdoc>>
Replace == \E id \in Ids, d \in Docs :
  /\ Spend("harm") /\ files[id] # None /\ info[id] = Missing
  /\ \A i \in Ids : files[i] # d
  /\ \A n \in Movers : mdoc[n] # d
  /\ files' = [files EXCEPT ![id] = d] /\ UNCHANGED <<info, lock, mpc, mid, mdoc, ver>>
World == (\E m \in Movers : Begin(m) \/ Land(m) \/ Take(m) \/ Drop(m) \/ Die(m))
          \/ Age \/ Recover \/ Replace

Init ==
  /\ start \in Starts /\ files = start.files /\ info = start.info /\ lock = None
  /\ pc = "start" /\ cur = None /\ listed = {} /\ todo = {} /\ known = {} /\ cand = {}
  /\ snaps = [id \in Ids |-> None] /\ found = {}
  /\ mpc = [m \in Movers |-> "idle"] /\ mid = [m \in Movers |-> None] /\ mdoc = mid
  /\ changes = 0 /\ ver = Cardinality(Ids) /\ disturbed = {} /\ stranded = {} /\ purged = {}

Next == Fsck \/ World
\* the lock is granted in the end, and nobody keeps it for ever
Spec == Init /\ [][Next]_vars /\ WF_vars(Fsck) /\ SF_vars(Relock)
        /\ \A m \in Movers : WF_vars(Land(m) \/ Drop(m))

-----------------------------------------------------------------------------
(* Properties *)

\* Types; fsck changes nothing without the lock.
TypeOK ==
  /\ start \in Starts /\ changes \in 0 .. MaxChanges /\ cand \subseteq Ids /\ todo \subseteq Ids
  /\ found \subseteq {"info", "files", "corrupt", "unresolved", "unchecked"}
  /\ pc \in {"remove", "snap", "purge", "sidecar"} => Locked
  /\ disturbed \subseteq {"before", "move", "harm"}

\* --fix takes no sidecar from data: neither what is there nor what is on its way.
NoneStranded == stranded = {}

\* Data fsck purges had no valid sidecar beside it: what the user or trashd recovered
\* while the question was open is kept.
RecoveredKept == \A e \in purged : e.beside.kind # "good"

\* Exit status 0 means a root without problems, when nobody interfered.
Problem(id) == \/ files[id] = None /\ info[id] # Missing /\ info[id].old
               \/ files[id] # None /\ info[id].kind # "good"
CleanExit == pc = "ok" /\ disturbed \subseteq {"before"} => \A id \in Ids : ~Problem(id)

\* The command comes to an end, also while others keep using the root.
Ended == pc \in {"ok", "problems"}
=============================================================================
