--------------------------- MODULE EntrySelection ---------------------------
(* Which entries a command of the CLI acts on: a selector is looked up in    *)
(* every trash root by tiers (trashed path, ID, file name, glob) in listings *)
(* that take no lock, while other processes trash and remove entries and a   *)
(* root may become unreadable.  crates/trashd-common/src/store/listing.rs,   *)
(* store.rs, crates/trashd-cli/src/commands.                                 *)
EXTENDS Naturals, Sequences

CONSTANTS
  Order,      \* the trash roots in the order they are listed, the home trash first
  Ids,        \* entry IDs, the names in files/
  Names,      \* file names
  NamesOf,    \* NamesOf[id]: the names that this ID may have been made of
  Fits,       \* Fits[glob]: the names that match it
  Commands,   \* what the user may ask: [kind, path, sel], path being a trashed path
  MaxStamp,   \* bound: entries that ever exist
  MaxOthers,  \* bound: what others do during the command
  None        \* no value

Roots == {Order[k] : k \in DOMAIN Order}
Home == Order[1]
Slots == Roots \X Ids

\* What the theorems take as given: a command names its entries by a trashed path or
\* by a selector, and None is nothing else.
SelectionAssumption ==
  /\ Len(Order) \in Nat \ {0} /\ DOMAIN Order = 1..Len(Order)
  /\ NamesOf \in [Ids -> SUBSET Names \ {{}}] /\ MaxStamp \in Nat \ {0} /\ MaxOthers \in Nat
  /\ None \notin Slots /\ None \notin Ids /\ None \notin Names /\ None \notin Commands
  /\ None \notin {"done", "notfound", "ambiguous", "error", "cancelled"}
  /\ None \notin 1..MaxStamp /\ None \notin [stamp : 1..MaxStamp, name : Names]
  /\ \A c \in Commands :
       /\ c.kind \in {"restore", "restoreAll", "purge", "undo", "empty"}
       /\ c.path \in Slots \cup {None} /\ (c.path = None \/ c.sel = None)
       /\ c.kind \in {"undo", "empty"} => c.path = None /\ c.sel = None

VARIABLES
  sidecar,    \* [stamp, name] of each slot; stamps are deletion times and versions
  data,       \* whose data each slot holds
  broken,     \* the roots that cannot be read
  last,       \* the last stamp given
  others,     \* what others have done
  cmd,        \* the running command
  phase,
  at,         \* the root being listed, by number
  unread,     \* the names of its info/ that are still to be read
  lines,      \* what was listed
  chosen,     \* what the command acts on
  answer,
  steady,     \* the entries that were whole and readable all the time since the start
  acted       \* what the command acted on: [line, doc]

disk == <<sidecar, data, broken, last, others>>
scan == <<at, unread, lines>>
vars == <<disk, cmd, phase, scan, chosen, answer, steady, acted>>

Entry == [stamp : 1..MaxStamp, name : Names]
Line == [slot : Slots, stamp : 1..MaxStamp \cup {None}, name : Names \cup {None}, doc : 1..MaxStamp \cup {None}]
Phases == {"idle", "fast", "full", "select", "identify", "prompt", "act", "done"}

TypeOK ==
  /\ sidecar \in [Slots -> Entry \cup {None}] /\ data \in [Slots -> 1..MaxStamp \cup {None}]
  /\ broken \subseteq Roots /\ last \in 0..MaxStamp /\ others \in 0..MaxOthers /\ cmd \in Commands \cup {None} /\ phase \in Phases
  /\ at \in 1..Len(Order) + 1 /\ unread \subseteq Ids /\ lines \subseteq Line /\ chosen \subseteq Line
  /\ answer \in {None, "done", "notfound", "ambiguous", "error", "cancelled"}
  /\ steady \subseteq [slot : Slots, stamp : 1..MaxStamp, name : Names]
  /\ acted \subseteq [line : Line, doc : 1..MaxStamp \cup {None}]

-----------------------------------------------------------------------------
(* What a selector means.                                                   *)

\* An orphan has no name but its ID, and no deletion time.
Orphaned(l) == l.stamp = None

Single(c) == c.kind \in {"restore", "purge"}
EveryCopy(c) == c.kind = "restoreAll"

\* An ordinary name or a path in files/ can only be the ID of a few names.
OnlyId(c) == IF c.path # None THEN {c.path[2]} ELSE {c.sel} \cap (Ids \ DOMAIN Fits)

OfPath(L, path) == {l \in L : l.slot = path}
OfId(L, sel) == {l \in L : l.slot[2] = sel}
OfName(L, sel) == {l \in L : ~Orphaned(l) /\ l.name = sel}
OfGlob(L, sel) == {l \in L : sel \in DOMAIN Fits /\ ~Orphaned(l) /\ l.name \in Fits[sel]}

\* With --all an ID takes the other entries of that file name along.
Exact(c) == OfId(lines, c.sel) \cup (IF EveryCopy(c) THEN OfName(lines, c.sel) ELSE {})

\* The first tier with any match.
Matching(c) ==
  IF OfPath(lines, c.path) # {} THEN OfPath(lines, c.path)
  ELSE IF OfId(lines, c.sel) # {} THEN Exact(c)
  ELSE IF OfName(lines, c.sel) # {} THEN OfName(lines, c.sel)
  ELSE OfGlob(lines, c.sel) \cup {l \in lines : /\ EveryCopy(c) /\ Orphaned(l) /\ c.sel \in DOMAIN Fits
                                                /\ l.slot[2] \in Fits[c.sel]}

\* The first pass ends the search only with a match for the selector itself.
Matched(c) == IF c.path # None THEN OfPath(lines, c.path) # {} ELSE OfId(lines, c.sel) # {}

Newer(a, b) == Orphaned(a) \/ (~Orphaned(b) /\ a.stamp > b.stamp)
Undoable == {l \in lines : ~Orphaned(l) /\ \A m \in lines : Orphaned(m) \/ ~Newer(m, l)}

-----------------------------------------------------------------------------
(* Listing.                                                                 *)

Whole(s) == /\ sidecar[s] # None /\ data[s] = sidecar[s].stamp /\ s[1] \notin broken
Init ==
  /\ last \in 0..MaxStamp - 1
  /\ \E taken \in SUBSET Slots :
       \E number \in [taken -> 1..last], name \in [taken -> Names], lone \in SUBSET taken :
         /\ \A s, t \in taken : s # t => number[s] # number[t]
         /\ \A k \in 1..last : \E s \in taken : number[s] = k
         /\ \A s \in taken : name[s] \in NamesOf[s[2]]
         /\ sidecar = [s \in Slots |-> IF s \in taken \ lone THEN [stamp |-> number[s], name |-> name[s]] ELSE None]
         /\ \A s \in lone : name[s] = CHOOSE n \in NamesOf[s[2]] : TRUE
         /\ data = [s \in Slots |-> IF s \in taken THEN number[s] ELSE None]
  /\ broken = {} /\ others = 0 /\ cmd = None /\ phase = "idle" /\ at = 1 /\ unread = {} /\ lines = {} /\ chosen = {}
  /\ answer = None /\ steady = {} /\ acted = {}

\* A listing begins at the first root.
Begin(pass, names) == phase' = pass /\ at' = 1 /\ unread' = names /\ lines' = {}

Start(c) ==
  /\ phase = "idle" /\ cmd' = c
  /\ IF ~EveryCopy(c) /\ OnlyId(c) # {} THEN Begin("fast", OnlyId(c)) ELSE Begin("full", Ids)
  /\ steady' = {[slot |-> s, stamp |-> sidecar[s].stamp, name |-> sidecar[s].name] : s \in {t \in Slots : Whole(t)}}
  /\ UNCHANGED <<disk, chosen, answer, acted>>

Listing == phase \in {"fast", "full"} /\ at <= Len(Order)
InScan == IF phase = "fast" THEN OnlyId(cmd) ELSE Ids

\* One sidecar is read, unless its name came up before it was there.
ReadSidecar(i) ==
  LET s == <<Order[at], i>> IN
  /\ Listing /\ i \in unread /\ Order[at] \notin broken
  /\ unread' = unread \ {i}
  /\ \/ sidecar[s] # None
        /\ lines' = lines \cup {[slot |-> s, stamp |-> sidecar[s].stamp, name |-> sidecar[s].name, doc |-> data[s]]}
     \/ ~(\E e \in steady : e.slot = s) /\ UNCHANGED lines
  /\ UNCHANGED <<disk, cmd, phase, at, chosen, answer, steady, acted>>

Known == {l.slot : l \in lines}
\* Then files/ is scanned for data without a sidecar that could be read.
ScanOrphans ==
  LET lone == {s \in {Order[at]} \X InScan : data[s] # None /\ s \notin Known} IN
  /\ Listing /\ unread = {} /\ Order[at] \notin broken
  /\ lines' = lines \cup {[slot |-> s, stamp |-> None, name |-> None, doc |-> data[s]] : s \in lone}
  /\ at' = at + 1 /\ unread' = InScan
  /\ UNCHANGED <<disk, cmd, phase, chosen, answer, steady, acted>>

Answer(a) == phase' = "done" /\ answer' = a

\* An unreadable root is passed over with a warning, but the home trash fails the command.
RootFails ==
  /\ Listing /\ Order[at] \in broken
  /\ IF Order[at] = Home
     THEN Answer("error") /\ UNCHANGED <<at, unread>>
     ELSE at' = at + 1 /\ unread' = InScan /\ UNCHANGED <<phase, answer>>
  /\ UNCHANGED <<disk, cmd, lines, chosen, steady, acted>>

\* Mutant of EndPass: the first root that has the ID will do.
EndPassEager ==
  /\ phase \in {"fast", "full"} /\ (at > Len(Order) \/ (phase = "fast" /\ unread = {} /\ Matched(cmd)))
  /\ IF phase = "fast" /\ ~Matched(cmd) THEN Begin("full", Ids) ELSE phase' = "select" /\ UNCHANGED scan
  /\ UNCHANGED <<disk, cmd, chosen, answer, steady, acted>>

EndPass ==
  /\ phase \in {"fast", "full"} /\ at > Len(Order)
  /\ IF phase = "fast" /\ ~Matched(cmd) THEN Begin("full", Ids) ELSE phase' = "select" /\ UNCHANGED scan
  /\ UNCHANGED <<disk, cmd, chosen, answer, steady, acted>>

-----------------------------------------------------------------------------
(* Choosing and acting.                                                     *)

\* The rest of the listing is forgotten.
Choose(L, next) == chosen' = L /\ phase' = next /\ lines' = {} /\ UNCHANGED <<at, unread, answer>>
Refuse(a) == Answer(a) /\ UNCHANGED <<chosen, scan>>
SelectOne ==
  /\ phase = "select" /\ Single(cmd)
  /\ IF Matching(cmd) = {} THEN Refuse("notfound")
     ELSE IF \E l, m \in Matching(cmd) : l # m THEN Refuse("ambiguous")
     ELSE Choose(Matching(cmd), "act")
  /\ UNCHANGED <<disk, cmd, steady, acted>>
SelectAll ==
  /\ phase = "select" /\ EveryCopy(cmd)
  /\ IF Matching(cmd) = {} THEN Refuse("notfound") ELSE Choose(Matching(cmd), "act")
  /\ UNCHANGED <<disk, cmd, steady, acted>>
SelectNewest ==
  /\ phase = "select" /\ cmd.kind = "undo"
  /\ IF Undoable = {} THEN Refuse("notfound")
     ELSE \E l \in Undoable : Choose({l}, "identify")
  /\ UNCHANGED <<disk, cmd, steady, acted>>
\* undo takes the identity of the data only now: its listing did not look at data.
Identify ==
  /\ phase = "identify"
  /\ chosen' = {[l EXCEPT !.doc = data[l.slot]] : l \in chosen}
  /\ phase' = "act"
  /\ UNCHANGED <<disk, cmd, scan, answer, steady, acted>>
\* empty shows what it listed, and waits for an answer.
SelectEverything ==
  /\ phase = "select" /\ cmd.kind = "empty"
  /\ IF lines = {} THEN Refuse("notfound") ELSE Choose(lines, "prompt")
  /\ UNCHANGED <<disk, cmd, steady, acted>>

Confirm == phase = "prompt" /\ phase' = "act" /\ UNCHANGED <<disk, cmd, scan, chosen, answer, steady, acted>>
Cancel == phase = "prompt" /\ Answer("cancelled") /\ UNCHANGED <<disk, cmd, scan, chosen, steady, acted>>

Version(s) == IF sidecar[s] = None THEN None ELSE sidecar[s].stamp
Current(l) == Version(l.slot) = l.stamp /\ data[l.slot] = l.doc
Restores == cmd.kind \in {"restore", "restoreAll", "undo"}
Refused(l) == ~Current(l) \/ (Restores /\ (Orphaned(l) \/ l.doc = None))

ActOn(l) ==
  /\ phase = "act" /\ l \in chosen /\ chosen' = chosen \ {l} /\ l.slot[1] \notin broken /\ ~Refused(l)
  /\ sidecar' = [sidecar EXCEPT ![l.slot] = None] /\ data' = [data EXCEPT ![l.slot] = None]
  /\ acted' = acted \cup {[line |-> l, doc |-> data[l.slot]]}
  /\ steady' = {e \in steady : e.slot # l.slot}
  /\ UNCHANGED <<broken, last, others, cmd, phase, scan, answer>>
\* Stale, unreadable, in conflict, or not removable: reported, and the next one is tried.
PassOver(l) ==
  /\ phase = "act" /\ l \in chosen /\ chosen' = chosen \ {l}
  /\ UNCHANGED <<disk, cmd, phase, scan, answer, steady, acted>>
Finish == phase = "act" /\ chosen = {} /\ Answer("done") /\ UNCHANGED <<disk, cmd, scan, chosen, steady, acted>>

-----------------------------------------------------------------------------
(* Everybody else.                                                          *)

TrashAnother(s, n) ==
  /\ n \in NamesOf[s[2]] /\ last < MaxStamp /\ sidecar[s] = None /\ data[s] = None /\ s[1] \notin broken
  /\ last' = last + 1 /\ data' = [data EXCEPT ![s] = last']
  /\ sidecar' = [sidecar EXCEPT ![s] = [stamp |-> last', name |-> n]]
  /\ UNCHANGED <<broken, cmd, phase, scan, chosen, answer, steady, acted>>
\* A restore or a purge elsewhere: the data goes first.
RemoveData(s) ==
  /\ data[s] # None /\ s[1] \notin broken
  /\ data' = [data EXCEPT ![s] = None] /\ steady' = {e \in steady : e.slot # s}
  /\ UNCHANGED <<sidecar, broken, last, cmd, phase, scan, chosen, answer, acted>>
RemoveSidecar(s) ==
  /\ sidecar[s] # None /\ data[s] = None /\ s[1] \notin broken
  /\ sidecar' = [sidecar EXCEPT ![s] = None]
  /\ UNCHANGED <<data, broken, last, cmd, phase, scan, chosen, answer, steady, acted>>
Break(r) ==
  /\ broken = {} /\ broken' = {r} /\ steady' = {e \in steady : e.slot[1] # r}
  /\ UNCHANGED <<sidecar, data, last, cmd, phase, scan, chosen, answer, acted>>

Lookup == (\E i \in Ids : ReadSidecar(i)) \/ ScanOrphans \/ RootFails \/ EndPass
Command ==
  \/ \E c \in Commands : Start(c)
  \/ Lookup \/ SelectOne \/ SelectAll \/ SelectNewest \/ Identify \/ SelectEverything \/ Confirm \/ Cancel
  \/ \E l \in chosen : ActOn(l) \/ PassOver(l)
  \/ Finish
World == \/ \E s \in Slots : (\E n \in Names : TrashAnother(s, n)) \/ RemoveData(s) \/ RemoveSidecar(s)
         \/ \E r \in Roots : Break(r)
\* Before it starts, the first state stands for every past; afterwards nobody looks.
Next == Command \/ (phase \notin {"idle", "done"} /\ others < MaxOthers /\ others' = others + 1 /\ World)
Spec == Init /\ [][Next]_vars

-----------------------------------------------------------------------------
(* Properties.                                                              *)

\* How well a selector names an entry: by its path, its ID, its name, as a glob, not at all.
Rank(slot, name, c) ==
  IF slot = c.path THEN 1
  ELSE IF slot[2] = c.sel THEN 2
  ELSE IF name = c.sel THEN 3
  ELSE IF c.sel \in DOMAIN Fits /\ name \in Fits[c.sel] THEN 4 ELSE 5

\* A selector that two entries answer to equally well acts on neither (#41, #148): whatever is
\* restored or purged is named better by it than every entry that was there all along.
ActedAlone == phase = "act" /\ cmd.kind \in {"restore", "purge"}
Unambiguous ==
  \A a \in acted' \ acted : ActedAlone =>
    \A e \in steady : e.slot # a.line.slot =>
      Rank(a.line.slot, a.line.name, cmd) < Rank(e.slot, e.name, cmd)

\* The data that goes is that of the line, also where undo looked at it only later, after
\* somebody had used the ID again; and empty deletes nothing that came after its prompt (#217).
ActsOnItsLine == \A a \in acted : Orphaned(a.line) \/ a.doc \in {None, a.line.stamp}

\* "Not found" and "nothing to empty" are never said of an entry that was there all along
\* (#147): the quick pass is followed by a full one, and a broken home trash is an error.
NotFoundHonest ==
  answer = "notfound" =>
    \A e \in steady : cmd.kind \notin {"undo", "empty"} /\ Rank(e.slot, e.name, cmd) = 5

\* --all takes along each copy of a name, also where the name is another entry's ID (#340).
EveryCopyChosen ==
  phase = "select" /\ phase' = "act" /\ EveryCopy(cmd) =>
    \A e \in steady : Rank(e.slot, e.name, cmd) \in {2, 3} => \E l \in chosen' : l.slot = e.slot /\ l.stamp = e.stamp

\* undo restores the newest entry: nothing that was there all along is newer.
UndoesNewest ==
  \A a \in acted' \ acted : cmd.kind = "undo" => \A e \in steady : e.slot # a.line.slot => e.stamp < a.doc
=============================================================================
