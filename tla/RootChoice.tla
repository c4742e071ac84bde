----------------------------- MODULE RootChoice -----------------------------
(* Which trash directory a file goes to, and making it: TrashStore with      *)
(* trashd-common/src/mounts.rs, and the second implementation in the         *)
(* preloaded library (trashd-preload/src/lib.rs).  Several processes make    *)
(* the directories of one volume at a time, while others put entries where   *)
(* they would be, loosen permissions, and clear away what is empty.          *)
EXTENDS Integers, Sequences, FiniteSets, SequencesExt

CONSTANTS
  Writers,
  Shared, Private, Home, Own,   \* $topdir/.Trash/$UID, $topdir/.Trash-$UID, the one in $HOME (or
                    \* $XDG_DATA_HOME), and the one in the user's home of /etc/passwd
  Settings,         \* [kinds, top, shared, homes, nodes, same, busy, changes]: what each writer is
                    \* ("store", "preload" or None); "safe" (root's), "own", "sticky" or "loose"
                    \* directories above; what is there; whether the file is on home's device,
                    \* or the volume's mount point; a bound for what others do
  None

Roots == {Shared, Private, Home, Own}
Parts == {"root", "files", "info", "state"}

ASSUME PlacesAssumption ==
  /\ Shared # Private /\ Home \notin {Shared, Private} /\ Own \notin {Shared, Private, Home}
  /\ None \notin {"store", "preload"}
ASSUME SettingsAssumption == \A s \in Settings :
  /\ s.kinds \in [Writers -> {"store", "preload", None}] /\ s.changes \in Nat
  /\ s.nodes \in [Roots -> [Parts -> {"none", "ours", "open", "foreign", "link"}]]

VARIABLES
  setting,
  node,             \* [Roots -> [Parts -> "none", "ours" (0700), "open", "foreign" or "link"]]
  pc, cand,         \* the step, and the root looked at
  todo, made,       \* the parts still to be made private, and whether the first was just made
  tried,            \* the root has been prepared
  result,           \* the root chosen, or why there is none
  changes,
  published,        \* GHOST: [writer, root, at]
  before            \* GHOST: who was done when a writer started

vars == <<setting, node, pc, cand, todo, made, tried, result, changes, published, before>>

Set(f, w, v) == [f EXCEPT ![w] = v]
Put(r, p, s) == node' = [node EXCEPT ![r][p] = s]
Library(w) == setting.kinds[w] = "store"
Keep(w) == UNCHANGED <<setting, changes, before>>
Calm == UNCHANGED <<setting, node, changes, published, before>>
Go(w, p) == pc' = Set(pc, w, p)
End(w, why) == Go(w, "end") /\ result' = Set(result, w, why) /\ UNCHANGED <<cand, todo, made, tried>>
Try(w, r) ==
  /\ cand' = Set(cand, w, r) /\ tried' = Set(tried, w, FALSE) /\ made' = Set(made, w, FALSE)
  /\ Go(w, "look") /\ UNCHANGED <<todo, result>>
\* the next place, as the specification orders them
NextPlace(w) == Try(w, IF cand[w] = Shared THEN Private ELSE Home)

\* owned by root or us, and where others may write only what is theirs can be replaced
Trusted(d) == d \in {"safe", "own", "sticky"}
\* trusted_topdir, and the checks of .Trash
Usable(r) == Trusted(setting.top) /\ (r = Shared => setting.shared = "sticky")
\* mkdir(2)
Permitted(r, p) ==
  IF p # "root" THEN node[r]["root"] \in {"ours", "open"}
  ELSE CASE r = Shared -> setting.shared \in {"sticky", "plain"}
         [] r = Private -> setting.top # "safe"
         [] r \in {Home, Own} -> setting.homes[r] # "gone"

-----------------------------------------------------------------------------
(* making a root private: ensure_private_dir, part by part *)

Ensure(w, r, parts) ==
  /\ cand' = Set(cand, w, r) /\ todo' = Set(todo, w, parts) /\ made' = Set(made, w, FALSE)
  /\ Go(w, "ensure")

\* it cannot be used: violations of ours are no OS errors (StoreError)
Unfit(w, unsafe) ==
  CASE Library(w) -> End(w, "refused")
    [] ~Library(w) /\ cand[w] \in {Shared, Private} -> NextPlace(w)
    [] ~Library(w) /\ cand[w] = Home /\ unsafe /\ Own # None -> Try(w, Own)
    [] ~Library(w) /\ cand[w] \in {Home, Own} /\ ~(cand[w] = Home /\ unsafe /\ Own # None) ->
         End(w, IF unsafe THEN "refused" ELSE "real")

\* a library's store is open, or its root is prepared
Prepared(w) ==
  IF Library(w) /\ ~tried[w] THEN Go(w, "choose") /\ UNCHANGED tried
  ELSE Go(w, "lock") /\ UNCHANGED tried
\* only the home, and what the preloaded library chose, are created here
Creates(w) == Head(todo[w]) # "root" \/ ~Library(w) \/ ~tried[w]
EnsureStep(w) ==
  /\ pc[w] = "ensure" /\ Keep(w) /\ UNCHANGED published
  /\ LET r == cand[w]
         dir == Head(todo[w])
         s == node[r][dir] IN
     CASE s = "none" /\ Creates(w) /\ ~made[w] ->
            Go(w, "make") /\ UNCHANGED <<node, cand, todo, made, tried, result>>
       [] s = "none" /\ ~(Creates(w) /\ ~made[w]) -> Unfit(w, FALSE) /\ UNCHANGED node
       [] s \in {"foreign", "link"} -> Unfit(w, TRUE) /\ UNCHANGED node
       [] s \in {"ours", "open"} ->
            /\ Put(r, dir, "ours") /\ todo' = Set(todo, w, Tail(todo[w]))
            /\ made' = Set(made, w, FALSE) /\ UNCHANGED <<cand, result>>
            /\ IF Len(todo[w]) = 1 THEN Prepared(w) ELSE UNCHANGED <<pc, tried>>

\* AlreadyExists is none: what is there is looked at
Raced(w) == Go(w, "ensure") /\ made' = Set(made, w, TRUE) /\ UNCHANGED <<node, cand, todo, tried, result>>
MakeStep(w) ==
  /\ pc[w] = "make" /\ Keep(w) /\ UNCHANGED published
  /\ LET r == cand[w]
         dir == Head(todo[w]) IN
     CASE node[r][dir] # "none" -> Raced(w)
       [] node[r][dir] = "none" /\ Permitted(r, dir) ->
            /\ Put(r, dir, "ours") /\ made' = Set(made, w, TRUE) /\ Go(w, "ensure")
            /\ UNCHANGED <<cand, todo, tried, result>>
       [] node[r][dir] = "none" /\ ~Permitted(r, dir) -> Unfit(w, FALSE) /\ UNCHANGED node

-----------------------------------------------------------------------------
(* the choice *)

Start(w) ==
  /\ pc[w] = "start" /\ before' = Set(before, w, {v \in Writers : pc[v] = "end"})
  /\ UNCHANGED <<setting, node, changes, published, tried, result>>
  /\ IF Library(w) /\ Trusted(setting.homes[Home])
     THEN Ensure(w, Home, <<"root", "files", "info", "state">>)
     ELSE UNCHANGED <<cand, todo, made>> /\ Go(w, IF Library(w) THEN "closed" ELSE "choose")
\* TrashStore::open refuses
Closed(w) == pc[w] = "closed" /\ Calm /\ End(w, "refused")

\* a mount root cannot move, and its trash would be inside it (#368)
Busy == setting.busy
Choose(w) ==
  /\ pc[w] = "choose" /\ Calm
  /\ CASE setting.same -> Try(w, Home)
       [] ~setting.same /\ Busy -> End(w, IF Library(w) THEN "busy" ELSE "real")
       [] ~setting.same /\ ~Busy -> Try(w, Shared)

ToLock(w) == Go(w, "lock") /\ UNCHANGED <<cand, todo, made, tried, result>>
\* shared_trash_in, private_trash_in: what is there, before a mkdir
Look(w) ==
  /\ pc[w] = "look" /\ Calm
  /\ LET r == cand[w] IN
     CASE r \in {Shared, Private} /\ ~Usable(r) -> NextPlace(w)
       [] r \in {Shared, Private} /\ Usable(r) ->
            IF Library(w)
            THEN /\ Go(w, IF node[r]["root"] = "none" THEN "create" ELSE "check")
                 /\ UNCHANGED <<cand, todo, made, tried, result>>
            ELSE ToLock(w)
       [] r \in {Home, Own} ->                        \* prepare_home_trash
            CASE Library(w) \/ Trusted(setting.homes[r]) -> ToLock(w)
              [] ~Library(w) /\ ~Trusted(setting.homes[r]) -> Unfit(w, setting.homes[r] = "loose")
\* the library's mkdir: any failure means another place
Create(w) ==
  /\ pc[w] = "create" /\ Keep(w) /\ UNCHANGED published
  /\ LET r == cand[w] IN
     IF node[r]["root"] = "none" /\ Permitted(r, "root")
     THEN Put(r, "root", "ours") /\ Go(w, "check") /\ UNCHANGED <<cand, todo, made, tried, result>>
     ELSE UNCHANGED node /\ NextPlace(w)
\* Mutant of Repaired: a root others may enter is another place's turn.
RepairedNot(s) == s = "ours"
\* validate_private_dir makes it private again
Repaired(s) == s \in {"ours", "open"}
Check(w) ==
  /\ pc[w] = "check" /\ Keep(w) /\ UNCHANGED published
  /\ IF Repaired(node[cand[w]]["root"])
     THEN Put(cand[w], "root", "ours") /\ ToLock(w)
     ELSE UNCHANGED node /\ NextPlace(w)

\* RootMutationGuard::acquire_as
Lockable(r) == /\ \A p \in {"root", "files", "info"} : node[r][p] = "ours"
               /\ node[r]["state"] \in {"none", "ours"}
\* a root is prepared once
Once(w) == tried' = Set(tried, w, TRUE)
\* lock_store, lock_trash_root_prepared: locked, or prepared once and locked; then the file is moved
Lock(w) ==
  /\ pc[w] = "lock" /\ Keep(w)
  /\ LET r == cand[w] IN
     CASE Lockable(r) ->
            /\ Put(r, "state", "ours") /\ End(w, r)
            /\ published' = published \cup {[writer |-> w, root |-> r, at |-> changes]}
       [] ~Lockable(r) /\ tried[w] -> End(w, "refused") /\ UNCHANGED <<node, published>>
       [] ~Lockable(r) /\ ~tried[w] ->
            /\ Ensure(w, r, <<"root", "files", "info">>) /\ Once(w)
            /\ UNCHANGED <<node, published, result>>

Step(w) == \/ Start(w) \/ Closed(w) \/ EnsureStep(w) \/ MakeStep(w) \/ Choose(w) \/ Look(w) \/ Create(w)
           \/ Check(w) \/ Lock(w)

-----------------------------------------------------------------------------
(* the others *)

\* another user is first, where it may create
Rival(r, s) ==
  /\ node[r]["root"] = "none" /\ s \in {"foreign", "link"} /\ Put(r, "root", s)
  /\ \/ r = Shared /\ setting.shared # "none"
     \/ r = Private /\ setting.top \in {"sticky", "loose"}
\* the user changes a mode
Loosen(r, p) == node[r][p] = "ours" /\ Put(r, p, "open")
\* and clears away an empty trash
Clear(r) ==
  /\ r \in {Shared, Private} /\ node[r]["root"] \in {"ours", "open"}
  /\ \A e \in published : e.root # r
  /\ node' = [node EXCEPT ![r] = [p \in Parts |-> "none"]]
Others ==
  /\ changes < setting.changes /\ changes' = changes + 1
  /\ UNCHANGED <<setting, pc, cand, todo, made, tried, result, published, before>>
  /\ \E r \in Roots :
       \/ \E s \in {"foreign", "link"} : Rival(r, s)
       \/ \E p \in Parts : Loosen(r, p)
       \/ Clear(r)

Init ==
  /\ setting \in Settings /\ node = setting.nodes
  /\ pc = [w \in Writers |-> IF setting.kinds[w] = None THEN "end" ELSE "start"]
  /\ cand = [w \in Writers |-> Home] /\ todo = [w \in Writers |-> <<>>]
  /\ made = [w \in Writers |-> FALSE] /\ tried = made /\ result = [w \in Writers |-> None]
  /\ changes = 0 /\ published = {} /\ before = [w \in Writers |-> {}]

Next == (\E w \in Writers : Step(w)) \/ Others
Spec == Init /\ [][Next]_vars /\ \A w \in Writers : WF_vars(Step(w))

-----------------------------------------------------------------------------
(* Properties *)

\* all_trash_dirs: what trash list, restore and empty see; the passwd home's from a login shell
Listed(r) ==
  /\ \A p \in {"root", "files", "info"} : node[r][p] = "ours"
  /\ r \in {Shared, Private} => Usable(r)

\* Types; only a writer's root that is ours is ever prepared.
TypeOK ==
  /\ setting \in Settings /\ changes \in 0 .. setting.changes
  /\ \A w \in Writers :
       /\ pc[w] \in {"start", "closed", "choose", "look", "create", "check", "ensure", "make", "lock", "end"}
       /\ pc[w] \in {"ensure", "make"} => todo[w] # <<>>
       /\ pc[w] \in {"lock", "ensure", "make"} /\ cand[w] = Shared => setting.shared = "sticky"

\* What has been trashed is listed: no implementation publishes where the other does not look.
Findable == \A e \in published : e.at = changes => Listed(e.root)

\* Writers whose time was their own, one after the other, choose the same root, the library or
\* the preloaded one.  (A library that loses a race for mkdir goes on to another place.)
Apart(w) == \A v \in Writers \ {w} : v \in before[w] \/ pc[v] = "start" \/ w \in before[v]
Agree == \A e, f \in published :
  changes = 0 /\ Apart(e.writer) /\ Apart(f.writer) => e.root = f.root

\* A delete that ends busy leaves no trash on the volume.
NoTrace ==
  setting.busy /\ ~setting.same /\ changes = 0 => \A r \in {Shared, Private} : node[r] = setting.nodes[r]

\* A volume that can hold a trash keeps its files.
Holds(r) == Usable(r) /\ node[r]["root"] \in {"ours", "open"}
Stays(w) == \A e \in published :
  (e.writer = w /\ changes = 0 /\ ~setting.same /\ \E r \in {Shared, Private} : Holds(r) /\ Lockable(r))
    => e.root \in {Shared, Private}
\* The preloaded library trashes on the file's own volume when that can hold a trash.
PreloadStays == \A w \in Writers : setting.kinds[w] = "preload" => Stays(w)

\* Both implementations put a file where the other one looks for it, and on the file's own volume
\* when that can hold a trash; a delete that ends busy leaves nothing on the volume.
PlacedFindably == TypeOK /\ Findable /\ Agree /\ NoTrace /\ PreloadStays

\* Every delete is decided.
Decided == \A w \in Writers : pc[w] = "end"
=============================================================================
