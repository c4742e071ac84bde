----------------------------- MODULE RestorePlace -----------------------------
(* Where a restored entry goes (crates/trashd-common/src/store.rs,           *)
(* restore_resolved and restore_batch, and the restore command): the parent  *)
(* of the destination is walked, and made, one component at a time and kept  *)
(* open; the destination is looked at through it, and the entry is renamed   *)
(* there without replacing.  A conflict of --force is retried with a suffix. *)
(* Other processes restore, create, rename and link at any time.             *)
EXTENDS Naturals, Sequences, FiniteSets, Functions

CONSTANTS
  Procs,      \* restoring processes
  Calls,      \* [entry, parents, name, explicit, inside, force, batch]; name None: no last component
  Dirs, Root, \* directories, those not made yet included
  Elsewhere,  \* what every symbolic link leads to
  Link,       \* a symbolic link
  Other,      \* a file of somebody else
  Trees,      \* initial trees: <<directory, <<name, suffix>>>> to what is there
  MaxSuffix,  \* bound of the code: 999
  MaxChanges, \* bound: what other processes do
  None

VARIABLES
  tree,    \* what the directories hold
  trash,   \* entries in the trash
  call,    \* what each process was asked
  pc,
  try,     \* the attempt: [explicit, suffix]
  dir,     \* the pinned directory
  todo,    \* components left to walk
  result,  \* what was answered
  changes

vars == <<tree, trash, call, pc, try, dir, todo, result, changes>>

At(d, leaf) == IF <<d, leaf>> \in DOMAIN tree THEN tree[<<d, leaf>>] ELSE None
Put(d, leaf, what) == tree' = [k \in DOMAIN tree \cup {<<d, leaf>>} |-> IF k = <<d, leaf>> THEN what ELSE tree[k]]
Linked(d) == d = Root \/ d \in Range(tree)
Fresh == {d \in Dirs : ~Linked(d) /\ \A p \in Procs : dir[p] # d}
Steps == UNION {{c.parents[k] : k \in DOMAIN c.parents} : c \in Calls}
Components == {<<n, 0>> : n \in Steps}
Entries == {c.entry : c \in Calls}

ASSUME CallsAssumption == \A c \in Calls : c.parents \in Seq(Steps) /\ c.explicit \in BOOLEAN
Kinds == {"restored", "conflict", "missing", "traversal", "invalid", "io"}
ASSUME ObjectsAssumption ==
  /\ {Root, Elsewhere} \subseteq Dirs /\ Root # Elsewhere /\ MaxSuffix \in Nat \ {0}
  /\ {Link, Other} \cap Dirs = {} /\ None \notin Dirs \cup Entries \cup {Link, Other} \cup Kinds
  /\ Entries \cap (Dirs \cup {Link, Other}) = {}
\* Only links lead from a component of a destination to Elsewhere.
ASSUME TreesAssumption ==
  \A t \in Trees :
    /\ t \in [DOMAIN t -> Dirs \cup {Link, Other}] /\ Elsewhere \in Range(t)
    /\ \A k \in DOMAIN t : k[1] \in Dirs
    /\ \A k \in DOMAIN t : t[k] = Elsewhere => k[2] \notin Components

Leaf(p) == <<call[p].name, try[p].suffix>>

Init ==
  /\ tree \in Trees /\ trash = Entries
  /\ call \in [Procs -> Calls]
  /\ pc = [p \in Procs |-> "begin"]
  /\ try = [p \in Procs |-> [explicit |-> call[p].explicit, suffix |-> 0]]
  /\ dir = [p \in Procs |-> Root] /\ todo = [p \in Procs |-> <<>>]
  /\ result = [p \in Procs |-> None] /\ changes = 0

-----------------------------------------------------------------------------
(* One attempt.                                                             *)

Goto(p, next) == pc' = [pc EXCEPT ![p] = next]
Finish(p, kind) ==
  /\ Goto(p, "done") /\ result' = [result EXCEPT ![p] = kind]
  /\ UNCHANGED <<call, try, dir, todo>>
Step(p, next) == Goto(p, next) /\ UNCHANGED <<call, try, dir, todo, result>>
Still == UNCHANGED <<tree, trash, changes>>

\* A recorded path may neither climb nor leave the root's top directory.
Begin(p) ==
  /\ pc[p] = "begin" /\ Still
  /\ IF ~try[p].explicit /\ ~call[p].inside THEN Finish(p, "traversal")
     ELSE IF call[p].name = None THEN Finish(p, "invalid")
     ELSE /\ dir' = [dir EXCEPT ![p] = Root]
          /\ todo' = [todo EXCEPT ![p] = call[p].parents]
          /\ Goto(p, "walk") /\ UNCHANGED <<call, try, result>>

Next1(p) == At(dir[p], <<Head(todo[p]), 0>>)

Lstat(p) ==
  /\ pc[p] = "walk" /\ todo[p] # <<>> /\ ~try[p].explicit /\ Still
  /\ IF Next1(p) = Link THEN Finish(p, "traversal") ELSE Step(p, "open")

\* Mutant of Opened: O_NOFOLLOW is left to the lstat before.
OpenedAnyway(p) == IF Next1(p) = Link THEN Elsewhere ELSE IF Next1(p) \in Dirs THEN Next1(p) ELSE None
\* Only an explicit destination follows a symbolic link.
Opened(p) ==
  IF Next1(p) = Link /\ try[p].explicit THEN Elsewhere
  ELSE IF Next1(p) \in Dirs THEN Next1(p) ELSE None

\* openat; what is missing is made and opened again.
Open(p) ==
  /\ \/ pc[p] \in {"open", "reopen"}
     \/ pc[p] = "walk" /\ todo[p] # <<>> /\ try[p].explicit
  /\ Still
  /\ IF Opened(p) # None
     THEN /\ dir' = [dir EXCEPT ![p] = Opened(p)] /\ todo' = [todo EXCEPT ![p] = Tail(@)]
          /\ Goto(p, "walk") /\ UNCHANGED <<call, try, result>>
     ELSE IF Next1(p) = None THEN IF pc[p] = "reopen" THEN Finish(p, "io") ELSE Step(p, "mkdir")
     ELSE Finish(p, IF try[p].explicit THEN "io" ELSE "traversal")

Mkdir(p) ==
  /\ pc[p] = "mkdir" /\ UNCHANGED <<trash, changes>>
  /\ IF Next1(p) = None /\ Linked(dir[p])
     THEN /\ \E d \in Fresh : Put(dir[p], <<Head(todo[p]), 0>>, d)
          /\ Step(p, "reopen")
     ELSE /\ UNCHANGED tree
          /\ IF Next1(p) # None THEN Step(p, "reopen") ELSE Finish(p, "io")

\* A batch restores under one suffix after the other; a single restore looks for one first.
Conflict(p) ==
  IF call[p].force /\ (IF call[p].batch THEN try[p].suffix < MaxSuffix ELSE try[p].suffix = 0)
  THEN /\ IF call[p].batch
          THEN try' = [try EXCEPT ![p] = [explicit |-> TRUE, suffix |-> @.suffix + 1]] /\ Goto(p, "begin")
          ELSE try' = [try EXCEPT ![p].suffix = @ + 1] /\ Goto(p, "probe")
       /\ UNCHANGED <<call, dir, todo, result>>
  ELSE Finish(p, "conflict")

Occupied(p) == At(dir[p], Leaf(p)) # None

\* destination_exists, before anything of the entry is read, and after it was decoded.
Look(p) ==
  /\ \/ pc[p] = "walk" /\ todo[p] = <<>>
     \/ pc[p] = "again"
  /\ Still
  /\ IF Occupied(p) THEN Conflict(p) ELSE Step(p, IF pc[p] = "walk" THEN "current" ELSE "publish")

Current(p) ==
  /\ pc[p] = "current" /\ Still
  /\ IF call[p].entry \in trash THEN Step(p, "again") ELSE Finish(p, "missing")

\* Mutant of Stored: what was seen before the locks is believed.
StoredBefore(p) == TRUE
Stored(p) == call[p].entry \in trash
\* Mutant of Blocked: a plain rename.
BlockedNever(p) == FALSE
Blocked(p) == Occupied(p)

\* Under the locks: validate_entry_locked, renameat2 with RENAME_NOREPLACE.
Publish(p) ==
  /\ pc[p] = "publish" /\ UNCHANGED changes
  /\ IF Stored(p) /\ Linked(dir[p]) /\ ~Blocked(p)
     THEN /\ Put(dir[p], Leaf(p), call[p].entry) /\ trash' = trash \ {call[p].entry}
          /\ Finish(p, "restored")
     ELSE /\ UNCHANGED <<tree, trash>>
          /\ IF ~Stored(p) THEN Finish(p, "missing")
             ELSE IF ~Linked(dir[p]) THEN Finish(p, "io") ELSE Conflict(p)

\* lstat of a path follows its ancestors.
Below(d, name) == LET o == IF d = None THEN None ELSE At(d, <<name, 0>>)
                  IN  IF o = Link THEN Elsewhere ELSE IF o \in Dirs THEN o ELSE None
ParentOf(c) ==
  LET up[k \in 0..Len(c.parents)] == IF k = 0 THEN Root ELSE Below(up[k - 1], c.parents[k])
  IN  up[Len(c.parents)]

\* restore_selected_entry: the first free suffix, restored to as an explicit path.
Probe(p) ==
  /\ pc[p] = "probe" /\ Still
  /\ LET d == ParentOf(call[p])
         free == d = None \/ At(d, Leaf(p)) = None
     IN  IF ~free /\ try[p].suffix = MaxSuffix THEN Finish(p, "conflict")
         ELSE /\ \/ free /\ try' = [try EXCEPT ![p].explicit = TRUE] /\ Goto(p, "begin")
                 \/ ~free /\ try' = [try EXCEPT ![p].suffix = @ + 1] /\ Goto(p, "probe")
              /\ UNCHANGED <<call, dir, todo, result>>

Restorer(p) == Begin(p) \/ Lstat(p) \/ Open(p) \/ Mkdir(p) \/ Look(p) \/ Current(p) \/ Publish(p) \/ Probe(p)

-----------------------------------------------------------------------------
(* Other processes.                                                         *)

Change ==
  /\ changes < MaxChanges /\ changes' = changes + 1
  /\ UNCHANGED <<call, pc, try, dir, todo, result>>

Destinations == {<<c.name, k>> : c \in {c \in Calls : c.name # None}, k \in 0..MaxSuffix}

Create(d, leaf) == Linked(d) /\ At(d, leaf) = None /\ Put(d, leaf, Other) /\ UNCHANGED trash /\ Change
Symlink(d, leaf) == Linked(d) /\ At(d, leaf) = None /\ Put(d, leaf, Link) /\ UNCHANGED trash /\ Change
\* A directory is renamed away, or an empty one removed.
Away(d, leaf) ==
  /\ At(d, leaf) \in Dirs \ {Elsewhere}
  /\ \/ /\ At(Root, <<"away", 0>>) = None
        /\ tree' = [k \in (DOMAIN tree \ {<<d, leaf>>}) \cup {<<Root, <<"away", 0>>>>} |->
                      IF k = <<Root, <<"away", 0>>>> THEN At(d, leaf) ELSE tree[k]]
     \/ /\ tree' = Restrict(tree, DOMAIN tree \ {<<d, leaf>>})
        /\ \A k \in DOMAIN tree : k[1] # At(d, leaf)
  /\ UNCHANGED trash /\ Change
Take(e) == e \in trash /\ trash' = trash \ {e} /\ UNCHANGED tree /\ Change

Others ==
  \/ \E d \in Dirs : (\E leaf \in Destinations : Create(d, leaf)) \/ (\E leaf \in Components : Symlink(d, leaf) \/ Away(d, leaf))
  \/ \E e \in Entries : Take(e)

Next == (\E p \in Procs : Restorer(p)) \/ Others
Spec == Init /\ [][Next]_vars

-----------------------------------------------------------------------------
(* Properties.                                                              *)

TypeOK ==
  /\ trash \subseteq Entries /\ call \in [Procs -> Calls]
  /\ \A k \in DOMAIN tree : k[1] \in Dirs /\ tree[k] \in Dirs \cup Entries \cup {Link, Other}
  /\ \A p \in Procs : /\ dir[p] \in Dirs /\ try[p].suffix \in 0..MaxSuffix
                      /\ (pc[p] = "done") = (result[p] # None)
                      /\ pc[p] \in {"open", "reopen", "mkdir"} => todo[p] # <<>>

\* An entry is in one place: two restores of it do not both succeed, and one that is refused
\* leaves it in the trash (validate_entry_locked, store.rs:1507).
RestoredOnce ==
  /\ \A k, l \in DOMAIN tree : tree[k] = tree[l] /\ tree[k] \in Entries => k = l
  /\ \A p, q \in Procs : p # q /\ result[p] = "restored" /\ result[q] = "restored" => call[p].entry # call[q].entry
  /\ \A e \in trash : e \notin Range(tree)

\* "There is deliberately no plain-rename fallback" (store.rs:1533): whatever appears at the
\* destination after it was looked at stays what it is.
NothingReplaced ==
  [][(\E p \in Procs : Restorer(p)) => \A k \in DOMAIN tree : k \in DOMAIN tree' /\ tree'[k] = tree[k]]_vars

\* "Their ancestors may not be symlinks" (store.rs:1435): what goes to its recorded path is not
\* put where a link leads, even one made after the walk looked.
RecordedPlace ==
  \A p \in Procs : result[p] = "restored" /\ ~try[p].explicit => dir[p] # Elsewhere

\* The suffixes that are in use with a name, in any directory; what is there, what others
\* add and what the other restorers restore leaves one free.
InUse(t, n) == {k \in 1..MaxSuffix : \E d \in Dirs : <<d, <<n, k>>>> \in DOMAIN t}
FewFiles ==
  /\ IsFiniteSet(Procs) /\ MaxChanges \in Nat
  /\ \A t \in Trees, c \in Calls : Cardinality(InUse(t, c.name)) + MaxChanges + Cardinality(Procs) <= MaxSuffix

\* "If the destination exists, keep both by restoring as name.1, name.2, ..." (README.md:290):
\* while a suffix is free, a batch with --force is not refused for a conflict, whoever takes
\* the suffix it has come to.  A restore of one entry looks for a suffix first, and may lose it.
KeepsBoth(p) == call[p].force => result[p] # "conflict"
BatchKeepsBoth == \A p \in Procs : call[p].batch => KeepsBoth(p)

=============================================================================
