------------------------------- MODULE RmWalk -------------------------------
(* The walk of the rm shim for `rm -ri', `rm -r --one-file-system' and a     *)
(* mounted operand (trashd-shim/src/rm.rs, Walk).  Every answer is collected *)
(* first (plan); only then is anything moved (act), and by then the tree may *)
(* be another one: somebody else adds, removes and replaces entries, and     *)
(* mounts file systems, at any moment.                                       *)
EXTENDS Integers, FiniteSets

CONSTANTS
  Names,      \* the entries the walk may meet, the operand among them
  Operand,    \* the directory given on the command line
  Up,         \* [Names -> Names]: the directory a name lies in
  Inodes,     \* what the names may hold
  Dirs,       \* the directories among them
  Cwd,        \* the directory that holds the operand
  Foreign,    \* inodes of another device: a file system's root, a subvolume
  FsRoot,     \* the root of the file system somebody may mount
  None,
  Spare,      \* inodes somebody may put into the tree
  Trees,      \* the possible contents when rm starts
  Settings,   \* options, exclusions, descriptor limit, whether calls fail; bound on changes
  Racing      \* whether such a change may fall between a check and its move

VARIABLES
  opt,        \* the options: [interactive, confined, force, excluded, pins, faulty, changes]
  at,         \* [Dirs -> [Names -> Inodes]]: the file system
  mounts,     \* [Dirs -> [Names -> mount]]: none, a bind onto itself, or FsRoot
  phase,      \* "plan", "act", "done"
  plan,       \* [Names -> decision]
  pin,        \* the inode each descended directory is pinned as, None elsewhere
  listed,     \* the names each descended directory held
  id,         \* Planned.identity
  run,        \* how far carrying out got: "no", "now", "done"
  before,     \* the failures there were when a directory's entries began
  pending,    \* a move whose checks are done
  failures, exhausted,
  confirmed,  \* inodes whose removal was confirmed
  taken,      \* inodes that left the tree, each with the entry it left in
  late,       \* inodes put where a check had already passed
  changes     \* how often somebody else changed the tree

planVars == <<plan, pin, listed, id, exhausted, confirmed>>
treeVars == <<at, mounts, taken>>
otherVars == <<late, changes>>
vars == <<opt, planVars, treeVars, otherVars, phase, run, before, pending, failures>>

Decisions == {"unseen", "descend", "open", "whole", "kept", "held", "busy", "gone",
              "confirmed", "refused", "declined", "heldDir", "busyDir"}

-----------------------------------------------------------------------------
(* The file system.                                                          *)

Parent(n) == IF n = Operand THEN Cwd ELSE pin[Up[n]]

Lookup(d, n) == IF mounts[d][n] = FsRoot THEN FsRoot ELSE at[d][n]
IsMount(d, n) == mounts[d][n] # None
NamesIn(d) == {n \in Names : Lookup(d, n) # None}
Empty(d) == NamesIn(d) = {}

Below(i) == IF i \in Dirs THEN {Lookup(i, n) : n \in Names} \ {None} ELSE {}
Inside(S) == S \cup UNION {Below(i) : i \in S}
Tree(i) == Inside(Inside(Inside({i})))
HoldsMount(i) == \E d \in Tree(i) \cap Dirs, n \in Names : IsMount(d, n)

\* homogeneous_tree: one device throughout, and no mount point in it
Homogeneous(d, n) ==
  /\ ~IsMount(d, n)
  /\ ~HoldsMount(Lookup(d, n))
  /\ Tree(Lookup(d, n)) \cap Foreign \cap Dirs = {}

\* whether the entry is the directory of another device --one-file-system skips
IsForeign(i) == opt.confined /\ i \in Foreign /\ i \in Dirs

-----------------------------------------------------------------------------
(* plan: the answers.                                                        *)

Deepest(n, S) == n \in S /\ \A m \in S : Up[m] # n \/ m = n
Open == {n \in Names : plan[n] = "open"}
Next1(S) == CHOOSE n \in S : TRUE

\* the entry plan is called for next
ToPlan ==
  IF plan[Operand] = "unseen" THEN {Operand}
  ELSE UNION {{m \in listed[n] : plan[m] = "unseen"} : n \in {n \in Open : Deepest(n, Open)}}

Decide(n, decision, errors) ==
  /\ plan' = [plan EXCEPT ![n] = decision]
  /\ failures' = failures + errors

\* what is left alone unless a conjunct says otherwise
Planning == phase = "plan" /\ UNCHANGED <<opt, treeVars, otherVars, phase, run, before, pending>>

Asked == IF opt.interactive THEN BOOLEAN ELSE {TRUE}

Missing(n) ==
  /\ Lookup(Parent(n), n) = None
  /\ Decide(n, IF opt.force THEN "gone" ELSE "held", IF opt.force THEN 0 ELSE 1)
  /\ UNCHANGED <<pin, listed, id, exhausted, confirmed>>

\* PlanBudget::pin, through open_plan_dir: a descriptor for the directory now there
Pinned == {n \in Names : pin[n] # None}

Pin(n, decision) ==
  LET i == Lookup(Parent(n), n) IN
  IF i \notin Dirs THEN Decide(n, "held", 1) /\ UNCHANGED <<pin, exhausted>>
  ELSE IF Cardinality(Pinned) >= opt.pins
  THEN Decide(n, "held", 1) /\ exhausted' = TRUE /\ UNCHANGED pin
  ELSE Decide(n, decision, 0) /\ pin' = [pin EXCEPT ![n] = i] /\ UNCHANGED exhausted

\* a directory on another device: skipped, unless it is empty and accepted under -i
SkipForeign(n) ==
  LET d == Parent(n) i == Lookup(d, n) IN
  /\ IsForeign(i)
  /\ id' = [id EXCEPT ![n] = i]
  /\ UNCHANGED listed
  /\ \/ ~opt.interactive /\ Decide(n, "held", 1) /\ UNCHANGED <<pin, exhausted, confirmed>>
     \/ opt.interactive /\ Decide(n, "held", 0) /\ UNCHANGED <<pin, exhausted, confirmed>>
     \/ /\ opt.interactive /\ ~Empty(i)
        /\ Decide(n, "held", 1) /\ UNCHANGED <<pin, exhausted, confirmed>>
     \/ /\ opt.interactive /\ Empty(i) /\ IsMount(d, n)
        /\ Decide(n, "busy", 0) /\ UNCHANGED <<pin, exhausted, confirmed>>
     \/ /\ opt.interactive /\ Empty(i) /\ ~IsMount(d, n)
        /\ Pin(n, "confirmed") /\ confirmed' = confirmed \cup {i}

\* a mount point is busy: a file always, a directory unless its entries are wanted
MountPoint(n) ==
  LET d == Parent(n) i == Lookup(d, n) IN
  /\ i # None /\ ~IsForeign(i) /\ IsMount(d, n)
  /\ i \notin Dirs \/ (n # Operand /\ ~opt.interactive)
  /\ id' = [id EXCEPT ![n] = i]
  /\ \E yes \in Asked : Decide(n, IF yes THEN "busy" ELSE "kept", 0)
  /\ UNCHANGED <<pin, listed, exhausted, confirmed>>

\* an ordinary entry goes as one, or is descended into
Descends(n) ==
  LET d == Parent(n) IN
  /\ Lookup(d, n) \in Dirs
  /\ opt.interactive \/ IsMount(d, n) \/ (opt.confined /\ ~Homogeneous(d, n))

Ordinary(n) ==
  LET d == Parent(n) i == Lookup(d, n) IN
  /\ i # None /\ ~IsForeign(i)
  /\ IsMount(d, n) => i \in Dirs /\ (n = Operand \/ opt.interactive)
  /\ id' = [id EXCEPT ![n] = i]
  /\ \/ Descends(n) /\ Decide(n, "descend", 0) /\ UNCHANGED confirmed
     \/ /\ ~Descends(n)
        /\ \E yes \in Asked :
             /\ Decide(n, IF yes THEN "whole" ELSE "kept", 0)
             /\ confirmed' = IF yes THEN confirmed \cup {i} ELSE confirmed
  /\ UNCHANGED <<pin, listed, exhausted>>

\* statx, the eligibility check, homogeneous_tree or opening it fails, or refuses; the
\* identity it is held with is of no use
Refused(n) ==
  /\ opt.faulty /\ Lookup(Parent(n), n) # None
  /\ Decide(n, "held", 1)
  /\ UNCHANGED <<pin, listed, id, exhausted, confirmed>>

PlanEntry ==
  /\ ToPlan # {} /\ ~exhausted /\ ~\E m \in Names : plan[m] = "descend"
  /\ Planning
  /\ LET n == Next1(ToPlan) IN
       Missing(n) \/ SkipForeign(n) \/ MountPoint(n) \/ Ordinary(n) \/ Refused(n)

\* the directory cannot be opened or read; or it is too deep, or its names are too many,
\* for the budget
Unlisted(n) ==
  /\ opt.faulty
  /\ Decide(n, "held", 1) /\ exhausted' \in BOOLEAN
  /\ UNCHANGED <<pin, listed>>

\* a directory replaced since it was looked at is not descended
PlanDirectory(n) ==
  /\ plan[n] = "descend"
  /\ Planning
  /\ UNCHANGED <<id, confirmed>>
  /\ LET i == Lookup(Parent(n), n) IN
     IF i \in Dirs /\ i # id[n]
     THEN Decide(n, "held", 1) /\ UNCHANGED <<pin, listed, exhausted>>
     ELSE \/ Unlisted(n)
          \/ Pin(n, "open") /\ listed' = [listed EXCEPT ![n] = IF i \in Dirs THEN NamesIn(i) ELSE {}]
          \/ /\ opt.interactive /\ i \in Dirs /\ ~Empty(i)
             /\ Decide(n, "held", 0)
             /\ UNCHANGED <<pin, listed, exhausted>>

\* what a directory comes to once its entries are decided
HeldBelow(n) ==
  \E m \in listed[n] : plan[m] \in {"held", "busy", "refused", "heldDir", "busyDir"}
WholeBelow(n) == \A m \in listed[n] : plan[m] \in {"whole", "gone", "confirmed"}

Asks(n) == IF HeldBelow(n) THEN {TRUE} ELSE Asked
Verdict(n, yes) ==
  CASE HeldBelow(n) -> "heldDir"
    [] ~HeldBelow(n) /\ ~yes -> IF listed[n] = {} THEN "held" ELSE "declined"
    [] ~HeldBelow(n) /\ yes /\ IsMount(Parent(n), n) -> "busyDir"
    [] ~HeldBelow(n) /\ yes /\ ~IsMount(Parent(n), n) ->
         IF WholeBelow(n) THEN "confirmed" ELSE "refused"

CloseDirectory(n) ==
  /\ Deepest(n, Open) /\ ~exhausted
  /\ \A m \in listed[n] : plan[m] \notin {"unseen", "descend"}
  /\ Planning
  /\ \E yes \in Asks(n) :
       /\ Decide(n, Verdict(n, yes), 0)
       /\ confirmed' = IF Verdict(n, yes) \in {"confirmed", "refused"}
                       THEN confirmed \cup {pin[n]} ELSE confirmed
  /\ UNCHANGED <<pin, listed, id, exhausted>>

\* Walk::remove: a plan that exceeds its budget is not carried out at all
Carry ==
  /\ phase = "plan"
  /\ exhausted \/ (plan[Operand] \notin {"unseen", "descend", "open"})
  /\ \/ /\ phase' = IF exhausted \/ plan[Operand] \in {"kept", "held", "gone"} THEN "done" ELSE "act"
        /\ UNCHANGED failures
     \/ /\ opt.faulty /\ ~exhausted                  \* the parent cannot be opened
        /\ plan[Operand] \notin {"kept", "held", "gone"}
        /\ phase' = "done" /\ failures' = failures + 1
  /\ UNCHANGED <<opt, planVars, treeVars, otherVars, run, before, pending>>

-----------------------------------------------------------------------------
(* act: carrying it out.                                                     *)

Now == {n \in Names : run[n] = "now"}
ToAct ==
  IF run[Operand] = "no" THEN {Operand}
  ELSE UNION {{m \in listed[n] : run[m] = "no"} : n \in {n \in Now : Deepest(n, Now)}}

Acting == phase = "act" /\ UNCHANGED <<opt, planVars, otherVars, phase>>

Conclude(n, errors) ==
  /\ run' = [run EXCEPT ![n] = "done"]
  /\ failures' = failures + errors
  /\ pending' = None
  /\ UNCHANGED before

\* the checks passed: what follows works by name
Proceed(n, how) ==
  /\ pending' = [name |-> n, how |-> how]
  /\ UNCHANGED <<run, before, failures>>

EntryByEntry(n) ==
  /\ run' = [run EXCEPT ![n] = "now"]
  /\ before' = [before EXCEPT ![n] = failures]
  /\ pending' = None
  /\ UNCHANGED failures

\* report_io: under -f a missing entry is no error
MissingError == IF opt.force THEN 0 ELSE 1

\* still: whether the name is still the entry that was confirmed
Still(n) == Lookup(Parent(n), n) = id[n]
StillError(n) == IF Lookup(Parent(n), n) = None THEN MissingError ELSE 1

\* unchanged: every planned entry is there, itself, no mount; and nothing else is
Expected(n) == {m \in listed[n] : plan[m] # "gone"}

UnchangedHere(n) ==
  /\ NamesIn(pin[n]) = Expected(n)
  /\ \A m \in Expected(n) : Lookup(pin[n], m) = id[m] /\ ~IsMount(pin[n], m)
Planned(n) == {m \in Names : pin[m] # None /\ (m = n \/ n \in {Up[m], Up[Up[m]]})}
UnchangedTree(n) == \A m \in Planned(n) : UnchangedHere(m)

ActNothing(n) ==
  /\ plan[n] \in {"kept", "held", "gone", "busy"}
  /\ Conclude(n, IF plan[n] = "busy" THEN 1 ELSE 0)

ActWhole(n) ==
  /\ plan[n] = "whole"
  /\ \/ opt.interactive /\ ~Still(n) /\ Conclude(n, StillError(n))
     \/ opt.interactive /\ opt.faulty /\ Conclude(n, 1)      \* it cannot be looked at
     \/ (opt.interactive => Still(n)) /\ Proceed(n, "whole")

\* a directory mounted over since then is busy: its entries go, it stays; one that cannot
\* be listed again goes entry by entry
ActDirectory(n) ==
  /\ plan[n] \in {"confirmed", "refused", "declined", "heldDir", "busyDir"}
  /\ \/ (plan[n] = "confirmed" => IsMount(Parent(n), n)) /\ EntryByEntry(n)
     \/ /\ plan[n] = "confirmed" /\ ~IsMount(Parent(n), n)
        /\ \/ ~Still(n) /\ Conclude(n, StillError(n))
           \/ opt.faulty /\ Conclude(n, 1)
           \/ Still(n) /\ UnchangedTree(n) /\ Proceed(n, "asOne")
           \/ Still(n) /\ (~UnchangedTree(n) \/ opt.faulty) /\ EntryByEntry(n)

ActEntry ==
  /\ ToAct # {} /\ pending = None
  /\ Acting
  /\ UNCHANGED treeVars
  /\ LET n == Next1(ToAct) IN ActNothing(n) \/ ActWhole(n) \/ ActDirectory(n)

\* what is left of a directory whose entries are done; its state was fixed by ActDirectory
MountedOver(n) == plan[n] = "confirmed" /\ IsMount(Parent(n), n)
Emptied(n) ==
  \/ IF Empty(pin[n]) THEN Proceed(n, "emptied") ELSE Conclude(n, 1)
  \/ opt.faulty /\ Conclude(n, 1)                       \* it cannot be listed

FinishDirectory(n) ==
  /\ Deepest(n, Now) /\ pending = None
  /\ \A m \in listed[n] : run[m] = "done"
  /\ Acting
  /\ UNCHANGED treeVars
  /\ \/ failures > before[n] /\ Conclude(n, 0)
     \/ /\ failures = before[n]
        /\ plan[n] \in {"busyDir", "refused"} \/ MountedOver(n)
        /\ Conclude(n, 1)
     \/ failures = before[n] /\ plan[n] \in {"declined", "heldDir"} /\ Conclude(n, 0)
     \/ /\ failures = before[n] /\ plan[n] = "confirmed" /\ ~MountedOver(n)
        /\ Emptied(n)

-----------------------------------------------------------------------------
(* Walk::trash and real_remove, by name; the store's trash_at itself checks  *)
(* for mounts and exclusions (external here).                                *)

Left(n) ==
  LET i == Lookup(Parent(n), n) IN
  /\ at' = [at EXCEPT ![Parent(n)][n] = None]
  /\ taken' = taken \cup {<<j, i>> : j \in Tree(i)}
  /\ UNCHANGED mounts

Confined(n) ==
  /\ opt.confined /\ opt.interactive
  /\ Lookup(Parent(n), n) \notin Foreign
  /\ ~Homogeneous(Parent(n), n)

Stays(n, how, errors) ==
  /\ UNCHANGED treeVars
  /\ IF how = "asOne" THEN EntryByEntry(n) ELSE Conclude(n, errors)

\* an excluded entry is really removed; only without prompts a directory as well
Deletes(n, how) ==
  LET i == Lookup(Parent(n), n) IN
  CASE how = "emptied" -> i \notin Dirs \/ Empty(i)
    [] how = "whole" -> i \notin Dirs \/ ~opt.interactive

Move(n, how) ==
  LET i == Lookup(Parent(n), n) IN
  CASE i = None -> UNCHANGED treeVars /\ Conclude(n, MissingError)
    [] i # None /\ Confined(n) -> Stays(n, how, 1)
    [] i # None /\ ~Confined(n) /\ n \in opt.excluded ->
         IF how = "asOne" THEN Stays(n, how, 0)
         ELSE IF Deletes(n, how) /\ ~IsMount(Parent(n), n) /\ ~HoldsMount(i)
         THEN Left(n) /\ Conclude(n, 0)
         ELSE UNCHANGED treeVars /\ Conclude(n, 1)
    [] i # None /\ ~Confined(n) /\ n \notin opt.excluded ->
         IF IsMount(Parent(n), n) THEN UNCHANGED treeVars /\ Conclude(n, 1)
         ELSE IF HoldsMount(i) THEN Stays(n, how, 1)
         ELSE Left(n) /\ Conclude(n, 0)

\* trash reports what failed, a refusal too, and gives None: not even entry by entry
Fails(n) == opt.faulty /\ UNCHANGED treeVars /\ Conclude(n, 1)

Take ==
  /\ pending # None
  /\ Acting
  /\ Move(pending.name, pending.how) \/ Fails(pending.name)

Done ==
  /\ phase = "act" /\ run[Operand] = "done"
  /\ phase' = "done"
  /\ UNCHANGED <<opt, planVars, treeVars, otherVars, run, before, pending, failures>>

-----------------------------------------------------------------------------
(* Somebody else.                                                            *)

InTree == {Cwd} \cup Tree(at[Cwd][Operand])
Used == {j \in Inodes : \E d \in Dirs, n \in Names : at[d][n] = j} \cup {p[1] : p \in taken}

\* a change under a directory whose check has passed, or of one being emptied
Passed(d, n) == pending # None \/ run[n] = "now" \/ d \in late

Change(d, n) ==
  /\ phase # "done" /\ changes < opt.changes
  /\ Racing \/ pending = None
  /\ d \in InTree
  /\ IF d = Cwd THEN n = Operand ELSE n # Up[n] /\ \E e \in InTree \cap Dirs : at[e][Up[n]] = d
  /\ changes' = changes + 1
  /\ UNCHANGED <<opt, planVars, phase, run, before, pending, failures, taken>>

Put(d, n) ==
  /\ Change(d, n)
  /\ ~IsMount(d, n)
  /\ \E j \in (Spare \ Used) \cup {None} :
       /\ j # at[d][n]
       /\ j \in Dirs => \A m \in NamesIn(j) : Up[m] = n
       /\ at' = [at EXCEPT ![d][n] = j]
       /\ late' = IF j # None /\ Passed(d, n) THEN late \cup Tree(j) ELSE late
  /\ UNCHANGED mounts

Mount(d, n) ==
  /\ Change(d, n)
  /\ ~IsMount(d, n) /\ at[d][n] # None
  /\ \E m \in {at[d][n]} \cup IF at[d][n] \in Dirs THEN {FsRoot} ELSE {} :
       mounts' = [mounts EXCEPT ![d][n] = m]
  /\ UNCHANGED <<at, late>>

-----------------------------------------------------------------------------
Init ==
  /\ opt \in Settings
  /\ at \in Trees
  /\ mounts = [d \in Dirs |-> [n \in Names |-> None]]
  /\ phase = "plan"
  /\ plan = [n \in Names |-> "unseen"]
  /\ pin = [n \in Names |-> None] /\ id = [n \in Names |-> None]
  /\ listed = [n \in Names |-> {}]
  /\ run = [n \in Names |-> "no"] /\ before = [n \in Names |-> 0]
  /\ pending = None /\ failures = 0 /\ exhausted = FALSE
  /\ confirmed = {} /\ taken = {} /\ late = {} /\ changes = 0

Walk ==
  \/ PlanEntry \/ Carry \/ ActEntry \/ Take \/ Done
  \/ \E n \in Names : PlanDirectory(n) \/ CloseDirectory(n) \/ FinishDirectory(n)

Next == Walk \/ \E d \in Dirs, n \in Names : Put(d, n) \/ Mount(d, n)

Spec == Init /\ [][Next]_vars /\ WF_vars(Walk)

-----------------------------------------------------------------------------
Taken == {p[1] : p \in taken}

TypeOK ==
  /\ opt \in Settings
  /\ at \in [Dirs -> [Names -> Inodes \cup {None}]]
  /\ mounts \in [Dirs -> [Names -> Inodes \cup {None}]]
  /\ phase \in {"plan", "act", "done"}
  /\ plan \in [Names -> Decisions] /\ run \in [Names -> {"no", "now", "done"}]
  /\ pin \in [Names -> Dirs \cup {None}] /\ id \in [Names -> Inodes \cup {None}]
  /\ Cardinality(Pinned) <= opt.pins
  /\ failures \in Nat /\ exhausted \in BOOLEAN
  /\ \A p \in taken : p[1] \in Inodes

(* Under -i nothing leaves that was not confirmed, except what somebody put  *)
(* there after the last check of the entry it left with: the plan may be old *)
(* but it is compared with the tree right before each move.                  *)
ConfirmedOrLate == opt.interactive => Taken \subseteq confirmed \cup late

(* One undo brings it back: a fully confirmed operand nobody disturbed and   *)
(* without a subvolume in it leaves as a single entry, unless a call failed. *)
LeavesAsOne ==
  (phase = "done" /\ changes = 0 /\ ~opt.faulty /\ plan[Operand] = "confirmed" /\ Taken \cap Foreign = {})
     => \A p \in taken : p[2] = id[Operand]

(* A mount point never leaves, with anything, and under --one-file-system    *)
(* neither does a directory of another device that was not confirmed itself. *)
StaysMounted ==
  /\ \A d \in Dirs, n \in Names : IsMount(d, n) => at[d][n] \notin Taken /\ FsRoot \notin Taken
  /\ opt.confined /\ opt.interactive => Taken \cap Foreign \subseteq confirmed

(* Success means that what was confirmed is gone from where it was; and a    *)
(* plan that exceeded its budget moved nothing at all.                       *)
HonestExit ==
  /\ phase = "done" /\ failures = 0 /\ plan[Operand] \in {"whole", "confirmed"} =>
       Lookup(Cwd, Operand) # id[Operand]
  /\ exhausted => taken = {} /\ failures > 0

(* Whatever the others do, the walk ends.                                    *)
Ended == phase = "done"
=============================================================================
