------------------------------- MODULE PathPin -------------------------------
(* One trapped deletion as the seccomp supervisor resolves it                *)
(* (crates/trashd-seccomp/src/pin.rs): it pins the caller's root, working    *)
(* directory or descriptor, walks to the parent as the caller's kernel       *)
(* would, checks what the name is, proves where the parent lies in its own   *)
(* view, and moves the entry.  The caller may be in a chroot or in another   *)
(* mount namespace, and other processes rename, swap and remove at any time. *)
(*                                                                           *)
(* A directory is reached as a place <<mount, node>>: the same node may be   *)
(* mounted in several places, and a mount may hide what lies below it.       *)
EXTENDS Naturals, Sequences, FiniteSets

CONSTANTS
  Worlds,     \* trees, mounts and callers; see Init
  Calls,      \* [abs, steps, name, slash, dir]: prefix, last component, rmdir
  Shown,      \* Shown[name]: how /proc shows a removed directory of that name
  PolicyName, \* .trashd.toml
  MaxChanges, \* bound: what other processes do
  None        \* no value

VARIABLES
  world,      \* kind and target of each node, the mounts, the caller
  loc,        \* [dir, name] of each node; it stays when the node is unlinked
  linked,     \* nodes that are linked
  call,       \* the trapped call
  pc,         \* where the supervisor is
  parent,     \* the pinned parent
  candidate,  \* the path /proc showed for it
  mapped,     \* what the supervisor's own view has there
  physical,   \* where the entry is recorded to have been
  verdict,    \* the answer
  moved,      \* the node it moved
  could,      \* what the kernel would have answered since the parent was pinned
  changes     \* number of changes so far

vars == <<world, loc, linked, call, pc, parent, candidate, mapped, physical, verdict, moved, could, changes>>

-----------------------------------------------------------------------------
(* Trees, mounts and walks.                                                 *)

Nodes == DOMAIN world.kind
Kind(n) == world.kind[n]
RootOf(m) == world.mounts[m].root
\* Where a mount is attached; None for the root of a namespace.
On(m) == world.mounts[m].on
Here == <<world.ours, RootOf(world.ours)>>   \* the supervisor's root

\* What is mounted on a place hides it.
Topmost(place) ==
  LET over == {m \in DOMAIN world.mounts : On(m) = place}
  IN  IF over = {} THEN place ELSE LET m == CHOOSE m \in over : TRUE IN <<m, RootOf(m)>>

Entry(dir, name) == {n \in linked : loc[n].dir = dir /\ loc[n].name = name}
Raw(place, name) == LET e == Entry(place[2], name) IN IF e = {} THEN None ELSE <<place[1], CHOOSE n \in e : TRUE>>
Child(place, name) == IF Raw(place, name) = None THEN None ELSE Topmost(Raw(place, name))

RECURSIVE Upward(_, _)
Upward(place, root) ==
  IF place = root THEN place
  ELSE IF place[2] = RootOf(place[1])
       THEN IF On(place[1]) = None THEN place ELSE Upward(On(place[1]), root)
       ELSE Topmost(<<place[1], loc[place[2]].dir>>)

\* Walk to a directory as a process with that root does; a walk that must stay
\* beneath its base fails where it would leave it.
RECURSIVE Walk(_, _, _, _, _)
Walk(place, steps, root, beneath, links) ==
  IF place = None \/ links = 0 THEN None
  ELSE IF Kind(place[2]) # "dir" THEN None
  ELSE IF steps = <<>> THEN place
  ELSE LET name == Head(steps)  rest == Tail(steps)  next == Child(place, name) IN
       IF name = ".."
       THEN IF beneath /\ place = root THEN None ELSE Walk(Upward(place, root), rest, root, beneath, links)
       ELSE IF next = None THEN None
       ELSE IF Kind(next[2]) # "link" THEN Walk(next, rest, root, beneath, links)
       ELSE LET target == world.target[next[2]] IN
            IF target.abs /\ beneath THEN None
            ELSE Walk(IF target.abs THEN root ELSE place, target.steps \o rest, root, beneath, links - 1)

MaxLinks == 3

\* d_path: the names from the namespace's root down to a place.
RECURSIVE PathOf(_)
PathOf(place) ==
  IF place[2] = RootOf(place[1])
  THEN IF On(place[1]) = None THEN <<>> ELSE PathOf(On(place[1]))
  ELSE Append(PathOf(<<place[1], loc[place[2]].dir>>), loc[place[2]].name)

ProcPath(place) ==
  LET path == PathOf(place) IN
  IF place[2] \in linked \/ path = <<>> THEN path ELSE [path EXCEPT ![Len(path)] = Shown[@]]

-----------------------------------------------------------------------------
(* What the kernel would answer now, below a parent.                        *)

IsMountpoint(place) == Topmost(place) # place
EmptyDir(n) == \A m \in linked : loc[m].dir = n => m = n

KernelAnswer(at) ==
  LET leaf == Raw(at, call.name) IN
  IF leaf = None THEN "ENOENT"
  ELSE IF call.dir THEN IF Kind(leaf[2]) # "dir" THEN "ENOTDIR"
                        ELSE IF IsMountpoint(leaf) THEN "EBUSY"
                        ELSE IF EmptyDir(leaf[2]) THEN "ok" ELSE "ENOTEMPTY"
  ELSE IF Kind(leaf[2]) = "dir" THEN "EISDIR"
  ELSE IF call.slash THEN "ENOTDIR"
  ELSE IF IsMountpoint(leaf) THEN "EBUSY" ELSE "ok"

Init ==
  /\ world \in Worlds
  /\ loc = world.loc
  /\ linked = DOMAIN world.kind
  /\ call \in Calls
  /\ pc = "trapped" /\ parent = None /\ candidate = None /\ mapped = None /\ physical = None
  /\ verdict = None /\ moved = None /\ could = {} /\ changes = 0

-----------------------------------------------------------------------------
(* Everybody else.                                                          *)

Busy(n) == \E m \in DOMAIN world.mounts : RootOf(m) = n \/ (On(m) # None /\ On(m)[2] = n)

RECURSIVE Within(_, _)
Within(n, dir) == n = dir \/ (loc[n].dir # n /\ Within(loc[n].dir, dir))

\* The root of the file system a node is in: nothing is renamed across them.
RECURSIVE FileSystem(_)
FileSystem(n) == IF loc[n].dir = n THEN n ELSE FileSystem(loc[n].dir)

Note == could' = IF parent = None THEN could ELSE could \cup {KernelAnswer(parent)'}
Changed ==
  /\ changes < MaxChanges /\ changes' = changes + 1 /\ verdict = None
  /\ UNCHANGED <<world, call, pc, parent, candidate, mapped, physical, verdict, moved>> /\ Note

Rename(n, dir, name) ==
  /\ n \in linked /\ dir \in linked /\ Kind(dir) = "dir" /\ ~Busy(n) /\ ~Within(dir, n)
  /\ FileSystem(n) = FileSystem(dir) /\ Entry(dir, name) = {}
  /\ loc' = [loc EXCEPT ![n] = [dir |-> dir, name |-> name]]
  /\ UNCHANGED linked /\ Changed

Swap(n, o) ==
  /\ n \in linked /\ o \in linked /\ ~Busy(n) /\ ~Busy(o) /\ ~Within(n, o) /\ ~Within(o, n)
  /\ FileSystem(n) = FileSystem(o)
  /\ loc' = [loc EXCEPT ![n] = loc[o], ![o] = loc[n]]
  /\ UNCHANGED linked /\ Changed

Remove(n) ==
  /\ n \in linked /\ ~Busy(n) /\ (Kind(n) = "dir" => EmptyDir(n))
  /\ linked' = linked \ {n} /\ UNCHANGED loc /\ Changed

-----------------------------------------------------------------------------
(* try_pinned()                                                             *)

Answer(v) == verdict' = v /\ pc' = "done" /\ UNCHANGED <<world, loc, linked, call, parent, candidate, mapped, physical, moved, changes>>

\* "." and ".." and a path of slashes are the kernel's.
Split ==
  /\ pc = "trapped"
  /\ IF call.name \in {"", ".", ".."} THEN Answer("continue") /\ UNCHANGED could
     ELSE /\ pc' = "walk"
          /\ UNCHANGED <<world, loc, linked, call, parent, candidate, mapped, physical, verdict, moved, could, changes>>

\* Mutant of SharesView: the same mount namespace is enough.
SharesViewNamespace == world.namespace = "ours"
SharesView == world.namespace = "ours" /\ world.root = Here

\* The base is pinned, and one openat2 walks the prefix from it: within the
\* caller's root, freely if the caller sees what the supervisor sees, else beneath.
Base == IF call.abs THEN world.root ELSE world.cwd
Containment == IF call.abs THEN "in root" ELSE IF SharesView THEN "free" ELSE "beneath"
Resolved ==
  IF call.steps = <<>> THEN Base
  ELSE Walk(Base, call.steps, IF Containment = "free" THEN Here ELSE Base, Containment = "beneath", MaxLinks)

ResolveParent ==
  /\ pc = "walk"
  /\ IF Kind(Base[2]) # "dir" THEN Answer("ENOTDIR") /\ UNCHANGED could
     ELSE IF Resolved = None THEN Answer("decline") /\ UNCHANGED could
     ELSE /\ parent' = Resolved /\ pc' = "stat" /\ could' = {KernelAnswer(Resolved)}
          /\ UNCHANGED <<world, loc, linked, call, candidate, mapped, physical, verdict, moved, changes>>

\* fstatat sees what is mounted on the name, not what it hides.
Leaf == Child(parent, call.name)
Goto(step) == pc' = step /\ UNCHANGED <<world, loc, linked, call, parent, candidate, mapped, physical, verdict, moved, changes>>

\* Mutant of CheckType: a trailing slash is forgotten.
CheckTypeSlashless ==
  /\ pc = "stat" /\ UNCHANGED could
  /\ IF Leaf = None THEN Answer("continue")
     ELSE IF call.dir THEN IF Kind(Leaf[2]) # "dir" THEN Answer("ENOTDIR") ELSE Goto("empty")
     ELSE IF Kind(Leaf[2]) = "dir" THEN Answer("EISDIR") ELSE Goto("path")
CheckType ==
  /\ pc = "stat" /\ UNCHANGED could
  /\ IF Leaf = None THEN Answer("continue")
     ELSE IF call.dir THEN IF Kind(Leaf[2]) # "dir" THEN Answer("ENOTDIR") ELSE Goto("empty")
     ELSE IF Kind(Leaf[2]) = "dir" THEN Answer("EISDIR")
     ELSE IF call.slash THEN Answer("ENOTDIR") ELSE Goto("path")

\* dir_is_empty opens the name anew, and would follow a link.
CheckEmpty ==
  /\ pc = "empty" /\ UNCHANGED could
  /\ LET opened == Walk(parent, <<call.name>>, Here, FALSE, MaxLinks) IN
     IF opened = None THEN Answer("decline")
     ELSE IF EmptyDir(opened[2]) THEN Goto("path") ELSE Answer("ENOTEMPTY")

-----------------------------------------------------------------------------
(* physical_path()                                                          *)

EndsDeleted(path) == path # <<>> /\ \E n \in DOMAIN Shown : path[Len(path)] = Shown[n]

ReadLink ==
  /\ pc = "path"
  /\ candidate' = ProcPath(parent)
  /\ IF SharesView /\ ~EndsDeleted(candidate') THEN physical' = candidate' /\ pc' = "trash"
     ELSE UNCHANGED physical /\ pc' = "open"
  /\ UNCHANGED <<world, loc, linked, call, parent, mapped, verdict, moved, could, changes>>

\* What the supervisor's own view has there, the last component not followed.
Opened(path) ==
  IF path = <<>> THEN Here
  ELSE LET dir == Walk(Here, SubSeq(path, 1, Len(path) - 1), Here, FALSE, MaxLinks)
           last == IF dir = None THEN None ELSE Child(dir, path[Len(path)])
       IN  IF last = None THEN None ELSE IF Kind(last[2]) = "dir" THEN last ELSE None

OpenMapped ==
  /\ pc = "open"
  /\ IF Opened(candidate) = None THEN Answer("decline")
     ELSE mapped' = Opened(candidate) /\ pc' = "same"
          /\ UNCHANGED <<world, loc, linked, call, parent, candidate, physical, verdict, moved, changes>>
  /\ UNCHANGED could

SameObjects ==
  /\ parent[2] = mapped[2]
  /\ Leaf # None /\ Child(mapped, call.name) # None /\ Leaf[2] = Child(mapped, call.name)[2]

CompareObjects ==
  /\ pc = "same" /\ UNCHANGED could
  /\ IF SameObjects THEN Goto("prove") ELSE Answer("decline")

\* The places from one up to the root of its namespace.
RECURSIVE Above(_, _)
Above(place, levels) ==
  IF levels = 0 THEN <<place>> ELSE <<place>> \o Above(Upward(place, None), levels - 1)

Policy(place) == IF Child(place, PolicyName) = None THEN None ELSE Child(place, PolicyName)[2]

\* Another namespace may hide a policy file, or show another, at any level.
SamePolicies(levels) ==
  \A k \in 1..levels + 1 :
    LET theirs == Above(parent, levels)[k]  ours == Above(mapped, levels)[k] IN
    theirs[2] = ours[2] /\ Policy(theirs) = Policy(ours)

Prove ==
  /\ pc = "prove"
  /\ LET path == ProcPath(mapped) IN
     IF world.namespace # "ours" /\ ~SamePolicies(Len(path)) THEN Answer("decline")
     ELSE physical' = path /\ pc' = "trash"
          /\ UNCHANGED <<world, loc, linked, call, parent, candidate, mapped, verdict, moved, changes>>
  /\ UNCHANGED could

-----------------------------------------------------------------------------
(* trash_at_canonical(): eligible by its path, then renamed below the parent. *)

\* The policies that the supervisor finds at a path and above it.
PoliciesAt(path) == {Policy(Walk(Here, SubSeq(path, 1, k), Here, FALSE, MaxLinks)) :
                       k \in {k \in 0..Len(path) : Walk(Here, SubSeq(path, 1, k), Here, FALSE, MaxLinks) # None}} \ {None}

Trash ==
  /\ pc = "trash"
  /\ LET leaf == Raw(parent, call.name) IN
     IF Leaf = None THEN Answer("decline")
     ELSE IF PoliciesAt(physical) # {} THEN Answer("continue")
     ELSE IF IsMountpoint(leaf) THEN Answer("decline")
     ELSE /\ moved' = leaf[2] /\ linked' = linked \ {leaf[2]}
          /\ verdict' = "trashed" /\ pc' = "done"
          /\ UNCHANGED <<world, loc, call, parent, candidate, mapped, physical, changes>>
  /\ UNCHANGED could

Others ==
  \/ \E n \in Nodes, dir \in Nodes, name \in world.free : Rename(n, dir, name)
  \/ \E n, o \in Nodes : n # o /\ Swap(n, o)
  \/ \E n \in Nodes : Remove(n)
Supervisor == Split \/ ResolveParent \/ CheckType \/ CheckEmpty \/ ReadLink \/ OpenMapped \/ CompareObjects \/ Prove \/ Trash
Next == Others \/ Supervisor
Spec == Init /\ [][Next]_vars

-----------------------------------------------------------------------------
(* Properties.                                                              *)

TypeOK ==
  /\ pc \in {"trapped", "walk", "stat", "empty", "path", "open", "same", "prove", "trash", "done"}
  /\ verdict \in {None, "trashed", "continue", "decline", "EISDIR", "ENOTDIR", "ENOTEMPTY"}
  /\ (pc = "done") = (verdict # None) /\ (moved # None) = (verdict = "trashed")
  /\ parent # None => parent \in (DOMAIN world.mounts) \X Nodes
  /\ linked \subseteq Nodes /\ changes \in 0..MaxChanges

\* Whatever the supervisor pins as the parent is the directory to which the caller's own kernel
\* would have walked at that moment: from a chroot, from another namespace, through links and ".."
\* (#62, #195); else the call is declined.
PinsCallersParent ==
  ResolveParent /\ parent' # None =>
    parent' = (IF call.steps = <<>> THEN Base ELSE Walk(Base, call.steps, world.root, FALSE, MaxLinks))

\* An EISDIR or ENOTDIR was, at a moment since the parent was pinned, the kernel's own answer, and
\* what was trashed could at one such moment have been deleted by an unlink.
HonestAnswer ==
  /\ parent # None /\ verdict \in {"EISDIR", "ENOTDIR"} => verdict \in could
  /\ verdict = "trashed" /\ ~call.dir => could \cap {"ok"} # {}

\* Where an entry is recorded, and which policies therefore apply, was proved: at that moment the
\* path led the supervisor itself to the pinned parent, if that still exists (#387).
ProvesPlace ==
  physical' # None /\ physical' # physical /\ parent[2] \in linked =>
    LET place == Walk(Here, physical', Here, FALSE, MaxLinks) IN place # None /\ place[2] = parent[2]

\* A caller in another namespace is handled only if, on the whole way up, it sees the policies that
\* the supervisor goes by.
SeesPolicies ==
  physical' # None /\ physical' # physical =>
    PoliciesAt(physical') = {Policy(Above(parent, 4)[k]) : k \in 1..5} \ {None}

=============================================================================
