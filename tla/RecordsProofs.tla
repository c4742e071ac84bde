---------------------------- MODULE RecordsProofs ----------------------------
(***************************************************************************)
(* What is proved of RestorePlace for every number of processes, calls,    *)
(* directories, suffixes and changes by others, of DirectorySizes, and of  *)
(* EntrySelection.                                                         *)
(***************************************************************************)
EXTENDS RestorePlace, TLAPS, FiniteSetTheorems, WellFoundedInduction

-----------------------------------------------------------------------------
(* The inductive invariant.                                                *)

Pcs == {"begin", "walk", "open", "reopen", "mkdir", "current", "again", "publish", "probe", "done"}
TreeInv ==
  /\ tree = [k \in DOMAIN tree |-> tree[k]]
  /\ \A k \in DOMAIN tree : k[1] \in Dirs /\ tree[k] \in Dirs \cup Entries \cup {Link, Other}
CallInv ==
  /\ trash \subseteq Entries /\ call \in [Procs -> Calls]
  /\ pc \in [Procs -> Pcs] /\ dir \in [Procs -> Dirs] /\ todo \in [Procs -> Seq(Steps)]
  /\ try \in [Procs -> [explicit : BOOLEAN, suffix : 0..MaxSuffix]]
  /\ DOMAIN result = Procs /\ result = [p \in Procs |-> result[p]]
StageInv ==
  \A p \in Procs :
    /\ (pc[p] = "done") = (result[p] # None)
    /\ pc[p] \in {"open", "reopen", "mkdir"} => todo[p] # <<>>
TypeInv == TreeInv /\ CallInv /\ StageInv

\* An entry that was restored is not in the trash, so nobody can publish it again.
OnceInv ==
  /\ RestoredOnce
  /\ \A p \in Procs : result[p] = "restored" => call[p].entry \notin trash

\* No component of a destination names Elsewhere, and it stays where it is.
ElsewhereInv ==
  /\ Elsewhere \in Range(tree)
  /\ \A k \in DOMAIN tree : tree[k] = Elsewhere => k[2] \notin Components
PinInv == \A p \in Procs : ~try[p].explicit => dir[p] # Elsewhere

-----------------------------------------------------------------------------
(* Trees.                                                                  *)

\* Putting something where nothing is keeps the rest.
LEMMA PutNew ==
  ASSUME NEW d, NEW leaf, NEW what, TreeInv, At(d, leaf) = None, Put(d, leaf, what)
  PROVE  /\ <<d, leaf>> \notin DOMAIN tree
         /\ tree' = [k \in DOMAIN tree' |-> tree'[k]]
         /\ DOMAIN tree' = DOMAIN tree \cup {<<d, leaf>>} /\ tree'[<<d, leaf>>] = what
         /\ \A k \in DOMAIN tree : tree'[k] = tree[k]
<1>1. <<d, leaf>> \notin DOMAIN tree
  <2>1. SUFFICES ASSUME <<d, leaf>> \in DOMAIN tree PROVE FALSE OBVIOUS
  <2>2. tree[<<d, leaf>>] = None BY <2>1 DEF At
  <2> QED BY <2>1, <2>2, ObjectsAssumption DEF TreeInv
<1> QED BY <1>1 DEF Put

LEMMA PutTyped ==
  ASSUME NEW d \in Dirs, NEW leaf, NEW what \in Dirs \cup Entries \cup {Link, Other},
         TreeInv, At(d, leaf) = None, Put(d, leaf, what)
  PROVE  TreeInv'
<1> DEFINE new == <<d, leaf>>
<1>1. DOMAIN tree' = DOMAIN tree \cup {new} /\ tree'[new] = what /\ \A k \in DOMAIN tree : tree'[k] = tree[k]
  BY PutNew
<1>2. new[1] \in Dirs OBVIOUS
<1>3. ASSUME NEW k \in DOMAIN tree' PROVE k[1] \in Dirs /\ tree'[k] \in Dirs \cup Entries \cup {Link, Other}
  <2>1. CASE k = new BY <2>1, <1>1, <1>2
  <2>2. CASE k \in DOMAIN tree BY <2>2, <1>1 DEF TreeInv
  <2> QED BY <2>1, <2>2, <1>1
<1> QED BY <1>3, PutNew DEF TreeInv

\* Dirs, entries and what else may be in a directory are told apart.
LEMMA PutElsewhere ==
  ASSUME NEW d, NEW leaf, NEW what, what # Elsewhere,
         TreeInv, ElsewhereInv, At(d, leaf) = None, Put(d, leaf, what)
  PROVE  ElsewhereInv'
<1>1. PICK k \in DOMAIN tree : tree[k] = Elsewhere BY DEF ElsewhereInv, Range
<1>2. Elsewhere \in Range(tree)' BY <1>1, PutNew DEF Range
<1>3. ASSUME NEW l \in DOMAIN tree', tree'[l] = Elsewhere PROVE l[2] \notin Components
  <2>1. l \in DOMAIN tree /\ tree[l] = Elsewhere BY <1>3, PutNew
  <2> QED BY <2>1 DEF ElsewhereInv
<1> QED BY <1>2, <1>3 DEF ElsewhereInv

\* A directory that is renamed away or removed, seen from the other names.
LEMMA AwayTree ==
  ASSUME NEW d \in Dirs, NEW leaf \in Components, TreeInv, Away(d, leaf)
  PROVE  /\ TreeInv'
         /\ \A k \in DOMAIN tree' : \/ k \in DOMAIN tree /\ tree'[k] = tree[k]
                                   \/ tree'[k] \in Dirs \ {Elsewhere}
         /\ \A k \in DOMAIN tree : tree[k] \notin Dirs \ {Elsewhere} => k \in DOMAIN tree' /\ tree'[k] = tree[k]
<1> DEFINE from == <<d, leaf>>
           to == <<Root, <<"away", 0>>>>
<1>1. At(d, leaf) \in Dirs \ {Elsewhere} BY DEF Away
<1>2. from \in DOMAIN tree /\ tree[from] = At(d, leaf) BY <1>1, ObjectsAssumption DEF At
<1>3. Root \in Dirs BY ObjectsAssumption
<1>4. CASE /\ At(Root, <<"away", 0>>) = None
           /\ tree' = [k \in (DOMAIN tree \ {from}) \cup {to} |-> IF k = to THEN At(d, leaf) ELSE tree[k]]
  <2>1. to \notin DOMAIN tree \/ to = from
    <3>1. SUFFICES ASSUME to \in DOMAIN tree PROVE FALSE OBVIOUS
    <3>2. tree[to] = None BY <3>1, <1>4 DEF At
    <3> QED BY <3>1, <3>2, ObjectsAssumption DEF TreeInv
  <2>2. DOMAIN tree' = (DOMAIN tree \ {from}) \cup {to} BY <1>4
  <2>3. TreeInv' BY <1>4, <1>1, <1>3, <2>2 DEF TreeInv
  <2> QED BY <2>1, <2>2, <2>3, <1>1, <1>2, <1>4
<1>5. CASE tree' = Restrict(tree, DOMAIN tree \ {from})
  <2>1. DOMAIN tree' = DOMAIN tree \ {from} /\ \A k \in DOMAIN tree' : tree'[k] = tree[k]
    BY <1>5 DEF Restrict
  <2>2. tree' = [k \in DOMAIN tree' |-> tree'[k]] BY <1>5 DEF Restrict
  <2> QED BY <2>1, <2>2, <1>1, <1>2 DEF TreeInv
<1> QED BY <1>4, <1>5 DEF Away

-----------------------------------------------------------------------------
(* Types.                                                                  *)

LEMMA EntryTyped == \A p \in Procs : CallInv => call[p].entry \in Entries /\ call[p] \in Calls
BY DEF CallInv, Entries

LEMMA InitTyped == Init => TypeInv
<1> SUFFICES ASSUME Init PROVE TypeInv OBVIOUS
<1>1. TreeInv
  <2>1. tree \in Trees BY DEF Init
  <2>2. tree \in [DOMAIN tree -> Dirs \cup {Link, Other}] BY <2>1, TreesAssumption
  <2>3. \A k \in DOMAIN tree : k[1] \in Dirs BY <2>1, TreesAssumption
  <2> QED BY <2>2, <2>3 DEF TreeInv
<1>2. CallInv
  <2>1. \A p \in Procs : call[p].explicit \in BOOLEAN BY CallsAssumption DEF Init
  <2>2. try \in [Procs -> [explicit : BOOLEAN, suffix : 0..MaxSuffix]] BY <2>1, ObjectsAssumption DEF Init
  <2>3. todo \in [Procs -> Seq(Steps)] BY DEF Init
  <2>4. pc \in [Procs -> Pcs] BY DEF Init, Pcs
  <2> QED BY <2>2, <2>3, <2>4, ObjectsAssumption DEF Init, CallInv
<1>3. StageInv BY DEF Init, StageInv
<1> QED BY <1>1, <1>2, <1>3 DEF TypeInv

\* The ways in which an attempt goes on.
LEMMA FinishTyped ==
  ASSUME CallInv, StageInv, NEW p \in Procs, NEW kind, kind # None, Finish(p, kind), trash' \subseteq Entries
  PROVE  CallInv' /\ StageInv'
<1>1. result' = [q \in Procs |-> IF q = p THEN kind ELSE result[q]] BY DEF CallInv, Finish
<1>2. CallInv'
  BY <1>1 DEF CallInv, Finish, Goto, Pcs
<1>3. StageInv' BY <1>1 DEF CallInv, StageInv, Finish, Goto
<1> QED BY <1>2, <1>3

LEMMA StepTyped ==
  ASSUME CallInv, StageInv, NEW p \in Procs, NEW next \in Pcs \ {"done"}, Step(p, next), pc[p] # "done",
         next \in {"open", "reopen", "mkdir"} => todo[p] # <<>>, trash' \subseteq Entries
  PROVE  CallInv' /\ StageInv'
<1>1. CallInv' BY DEF CallInv, Step, Goto
<1>2. StageInv' BY DEF CallInv, StageInv, Step, Goto
<1> QED BY <1>1, <1>2

LEMMA ConflictTyped ==
  ASSUME CallInv, StageInv, NEW p \in Procs, Conflict(p), pc[p] # "done", trash' \subseteq Entries
  PROVE  CallInv' /\ StageInv'
<1> DEFINE more == call[p].force /\ (IF call[p].batch THEN try[p].suffix < MaxSuffix ELSE try[p].suffix = 0)
<1>1. CASE ~more BY <1>1, FinishTyped, ObjectsAssumption DEF Conflict, Kinds
<1>2. CASE more
  <2>1. try[p].suffix + 1 \in 0..MaxSuffix BY <1>2, ObjectsAssumption DEF CallInv
  <2>4. try' \in [Procs -> [explicit : BOOLEAN, suffix : 0..MaxSuffix]]
    <3>1. CASE try' = [try EXCEPT ![p] = [explicit |-> TRUE, suffix |-> try[p].suffix + 1]] BY <2>1, <3>1 DEF CallInv
    <3>2. CASE try' = [try EXCEPT ![p].suffix = try[p].suffix + 1] BY <2>1, <3>2, ZenonT(30) DEF CallInv
    <3> QED BY <1>2, <3>1, <3>2 DEF Conflict
  <2>5. pc' = [pc EXCEPT ![p] = IF call[p].batch THEN "begin" ELSE "probe"] /\ UNCHANGED <<call, dir, todo, result>>
    BY <1>2 DEF Conflict, Goto
  <2>6. CallInv' BY <2>4, <2>5 DEF CallInv, Pcs
  <2>7. StageInv' BY <2>5 DEF CallInv, StageInv
  <2> QED BY <2>6, <2>7
<1> QED BY <1>1, <1>2

USE DEF Pcs
LEMMA StepTypedAll == TypeInv /\ [Next]_vars => TypeInv'
<1> SUFFICES ASSUME TypeInv, [Next]_vars PROVE TypeInv' OBVIOUS
<1> USE DEF TypeInv
<1>0. Kinds \cap {None} = {} /\ \A p \in Procs : call[p].entry \in Entries
  BY ObjectsAssumption, EntryTyped
<1>1. ASSUME NEW p \in Procs, Begin(p) PROVE TypeInv'
  <2>1. TreeInv' /\ trash' \subseteq Entries BY <1>1 DEF Begin, Still, TreeInv, CallInv
  <2>2. CASE Finish(p, "traversal") BY <2>1, <2>2, <1>0, FinishTyped DEF Kinds
  <2>3. CASE Finish(p, "invalid") BY <2>1, <2>3, <1>0, FinishTyped DEF Kinds
  <2>4. CASE /\ dir' = [dir EXCEPT ![p] = Root] /\ todo' = [todo EXCEPT ![p] = call[p].parents]
             /\ Goto(p, "walk") /\ UNCHANGED <<call, try, result>>
    <3>1. call[p].parents \in Seq(Steps) BY CallsAssumption DEF CallInv
    <3>2. CallInv' BY <2>1, <2>4, <3>1, ObjectsAssumption DEF CallInv, Goto
    <3>3. StageInv' BY <1>1, <2>4 DEF StageInv, Goto, CallInv, Begin
    <3> QED BY <2>1, <3>2, <3>3
  <2> QED BY <1>1, <2>2, <2>3, <2>4 DEF Begin
<1>2. ASSUME NEW p \in Procs, Lstat(p) PROVE TypeInv'
  <2>1. TreeInv' /\ trash' \subseteq Entries BY <1>2 DEF Lstat, Still, TreeInv, CallInv
  <2>2. CASE Finish(p, "traversal") BY <2>1, <2>2, <1>0, FinishTyped DEF Kinds
  <2>3. CASE Step(p, "open") BY <2>1, <2>3, <1>2, StepTyped DEF Lstat
  <2> QED BY <1>2, <2>2, <2>3 DEF Lstat
<1>3. ASSUME NEW p \in Procs, Open(p) PROVE TypeInv'
  <2>1. TreeInv' /\ trash' \subseteq Entries BY <1>3 DEF Open, Still, TreeInv, CallInv
  <2>0. todo[p] # <<>> /\ pc[p] # "done" BY <1>3 DEF Open, StageInv
  <2>2. CASE Finish(p, "io") \/ Finish(p, "traversal") BY <2>1, <2>2, <1>0, FinishTyped DEF Kinds
  <2>3. CASE Step(p, "mkdir") BY <2>0, <2>1, <2>3, StepTyped
  <2>4. CASE /\ Opened(p) # None
             /\ dir' = [dir EXCEPT ![p] = Opened(p)] /\ todo' = [todo EXCEPT ![p] = Tail(@)]
             /\ Goto(p, "walk") /\ UNCHANGED <<call, try, result>>
    <3>1. Opened(p) \in Dirs BY <2>4, ObjectsAssumption DEF Opened
    <3>2. Tail(todo[p]) \in Seq(Steps) BY <2>0 DEF CallInv
    <3>3. CallInv' BY <2>1, <2>4, <3>1, <3>2 DEF CallInv, Goto
    <3>4. StageInv' BY <2>0, <2>4 DEF StageInv, Goto, CallInv
    <3> QED BY <2>1, <3>3, <3>4
  <2> QED BY <1>3, <2>2, <2>3, <2>4 DEF Open
<1>4. ASSUME NEW p \in Procs, Mkdir(p) PROVE TypeInv'
  <2>1. trash' \subseteq Entries /\ todo[p] # <<>> BY <1>4 DEF Mkdir, CallInv, StageInv
  <2>2. TreeInv'
    <3>1. CASE UNCHANGED tree BY <3>1 DEF TreeInv
    <3>2. CASE \E d \in Fresh : Next1(p) = None /\ Put(dir[p], <<Head(todo[p]), 0>>, d)
      BY <3>2, PutTyped DEF Fresh, CallInv, Next1
    <3> QED BY <1>4, <3>1, <3>2 DEF Mkdir
  <2>3. CASE Finish(p, "io") BY <2>1, <2>2, <2>3, <1>0, FinishTyped DEF Kinds
  <2>4. CASE Step(p, "reopen") BY <2>1, <2>2, <2>4, <1>4, StepTyped DEF Mkdir
  <2> QED BY <1>4, <2>3, <2>4 DEF Mkdir
<1>5. ASSUME NEW p \in Procs, Look(p) PROVE TypeInv'
  <2>1. TreeInv' /\ trash' \subseteq Entries /\ pc[p] # "done" BY <1>5 DEF Look, Still, TreeInv, CallInv
  <2>2. CASE Conflict(p) BY <2>1, <2>2, ConflictTyped
  <2>3. CASE Step(p, "current") \/ Step(p, "publish") BY <2>1, <2>3, StepTyped
  <2> QED BY <1>5, <2>2, <2>3 DEF Look
<1>6. ASSUME NEW p \in Procs, Current(p) PROVE TypeInv'
  <2>1. TreeInv' /\ trash' \subseteq Entries /\ pc[p] # "done" BY <1>6 DEF Current, Still, TreeInv, CallInv
  <2>2. CASE Step(p, "again") BY <2>1, <2>2, StepTyped
  <2>3. CASE Finish(p, "missing") BY <2>1, <2>3, <1>0, FinishTyped DEF Kinds
  <2> QED BY <1>6, <2>2, <2>3 DEF Current
<1>7. ASSUME NEW p \in Procs, Publish(p) PROVE TypeInv'
  <2>1. trash' \subseteq Entries /\ pc[p] # "done" BY <1>7 DEF Publish, CallInv
  <2>2. TreeInv'
    <3>1. CASE UNCHANGED tree BY <3>1 DEF TreeInv
    <3>2. CASE ~Blocked(p) /\ Put(dir[p], Leaf(p), call[p].entry)
      BY <3>2, <1>0, PutTyped DEF Blocked, Occupied, CallInv
    <3> QED BY <1>7, <3>1, <3>2 DEF Publish
  <2>3. CASE Finish(p, "restored") \/ Finish(p, "missing") \/ Finish(p, "io")
    BY <2>1, <2>2, <2>3, <1>0, FinishTyped DEF Kinds
  <2>4. CASE Conflict(p) BY <2>1, <2>2, <2>4, ConflictTyped
  <2> QED BY <1>7, <2>3, <2>4 DEF Publish
<1>8. ASSUME NEW p \in Procs, Probe(p) PROVE TypeInv'
  <2>1. TreeInv' /\ trash' \subseteq Entries /\ pc[p] # "done" BY <1>8 DEF Probe, Still, TreeInv, CallInv
  <2>2. CASE Finish(p, "conflict") BY <2>1, <2>2, <1>0, FinishTyped DEF Kinds
  <2>3. CASE /\ try' = [try EXCEPT ![p].explicit = TRUE]
             /\ Goto(p, "begin") /\ UNCHANGED <<call, dir, todo, result>>
    <3>1. CallInv' BY <2>1, <2>3 DEF CallInv, Goto
    <3>2. StageInv' BY <2>1, <2>3 DEF StageInv, Goto, CallInv
    <3> QED BY <2>1, <3>1, <3>2
  <2>4. CASE /\ try[p].suffix # MaxSuffix /\ try' = [try EXCEPT ![p].suffix = @ + 1]
             /\ Goto(p, "probe") /\ UNCHANGED <<call, dir, todo, result>>
    <3>1. try[p].suffix + 1 \in 0..MaxSuffix BY <2>4, ObjectsAssumption DEF CallInv
    <3>2. try' \in [Procs -> [explicit : BOOLEAN, suffix : 0..MaxSuffix]] BY <2>4, <3>1, ZenonT(30) DEF CallInv
    <3>3. CallInv' BY <2>1, <2>4, <3>2 DEF CallInv, Goto
    <3>4. StageInv' BY <2>1, <2>4 DEF StageInv, Goto, CallInv
    <3> QED BY <2>1, <3>3, <3>4
  <2> QED BY <1>8, <2>2, <2>3, <2>4 DEF Probe
<1>9. ASSUME Others PROVE TypeInv'
  <2>0. UNCHANGED <<call, pc, try, dir, todo, result>> /\ trash' \subseteq trash
    BY <1>9 DEF Others, Create, Symlink, Away, Take, Change
  <2>1. CallInv' /\ StageInv' BY <2>0 DEF CallInv, StageInv
  <2>2. TreeInv'
    <3>1. CASE \E d \in Dirs, leaf \in Destinations : Create(d, leaf) BY <3>1, PutTyped DEF Create
    <3>2. CASE \E d \in Dirs, leaf \in Components : Symlink(d, leaf) BY <3>2, PutTyped DEF Symlink
    <3>3. CASE \E d \in Dirs, leaf \in Components : Away(d, leaf) BY <3>3, AwayTree
    <3>4. CASE \E e \in Entries : Take(e) BY <3>4 DEF Take, TreeInv
    <3> QED BY <1>9, <3>1, <3>2, <3>3, <3>4 DEF Others
  <2> QED BY <2>1, <2>2
<1>10. CASE UNCHANGED vars BY <1>10 DEF vars, TreeInv, CallInv, StageInv
<1> QED BY <1>1, <1>2, <1>3, <1>4, <1>5, <1>6, <1>7, <1>8, <1>9, <1>10 DEF Next, Restorer

\* TypeOK for any number of processes, calls, directories, suffixes and changes.
THEOREM Typing == Spec => []TypeOK
<1>1. TypeInv => TypeOK BY DEF TypeInv, TreeInv, CallInv, StageInv, TypeOK
<1> QED BY InitTyped, StepTypedAll, <1>1, PTL DEF Spec

-----------------------------------------------------------------------------
(* What a step publishes.                                                  *)

\* The one step that takes an entry out of the trash for a restorer.
Publishes(p) ==
  /\ Stored(p) /\ ~Blocked(p) /\ Put(dir[p], Leaf(p), call[p].entry)
  /\ trash' = trash \ {call[p].entry} /\ Finish(p, "restored")

Quiet(p) ==
  /\ UNCHANGED call /\ \A q \in Procs : result'[q] = "restored" => result[q] = "restored"
  /\ trash' \subseteq trash
  /\ \/ UNCHANGED tree
     \/ \E d \in Dirs : \E leaf : At(d, leaf) = None /\ \E what \in Dirs \ {Elsewhere} : Put(d, leaf, what)

LEMMA QuietFinish ==
  ASSUME TypeInv, NEW p \in Procs, NEW kind, kind # "restored", Finish(p, kind)
  PROVE  UNCHANGED call /\ \A q \in Procs : result'[q] = "restored" => result[q] = "restored"
BY DEF Finish, TypeInv, CallInv

LEMMA QuietConflict ==
  ASSUME TypeInv, NEW p \in Procs, Conflict(p)
  PROVE  UNCHANGED call /\ \A q \in Procs : result'[q] = "restored" => result[q] = "restored"
BY QuietFinish DEF Conflict

LEMMA RestorerSteps ==
  ASSUME TypeInv, ElsewhereInv, NEW p \in Procs, Restorer(p)
  PROVE  Publishes(p) \/ Quiet(p)
<1>1. CASE Begin(p) BY <1>1, QuietFinish DEF Begin, Still, Quiet
<1>2. CASE Lstat(p) BY <1>2, QuietFinish DEF Lstat, Still, Quiet, Step
<1>3. CASE Open(p) BY <1>3, QuietFinish DEF Open, Still, Quiet, Step
<1>4. CASE Mkdir(p)
  <2>1. UNCHANGED call /\ \A q \in Procs : result'[q] = "restored" => result[q] = "restored"
    BY <1>4, QuietFinish DEF Mkdir, Step
  <2>2. CASE UNCHANGED tree BY <1>4, <2>1, <2>2 DEF Mkdir, Quiet
  <2>3. CASE \E d \in Fresh : Next1(p) = None /\ Put(dir[p], <<Head(todo[p]), 0>>, d)
    <3>1. PICK d \in Fresh : Next1(p) = None /\ Put(dir[p], <<Head(todo[p]), 0>>, d) BY <2>3
    <3>2. d \in Dirs /\ d # Elsewhere BY DEF Fresh, Linked, ElsewhereInv
    <3>3. dir[p] \in Dirs BY DEF TypeInv, CallInv
    <3> QED BY <1>4, <2>1, <3>1, <3>2, <3>3 DEF Mkdir, Quiet, Next1
  <2> QED BY <1>4, <2>2, <2>3 DEF Mkdir
<1>5. CASE Look(p) BY <1>5, QuietConflict DEF Look, Still, Quiet, Step
<1>6. CASE Current(p) BY <1>6, QuietFinish DEF Current, Still, Quiet, Step
<1>7. CASE Publish(p) BY <1>7, QuietFinish, QuietConflict DEF Publish, Publishes, Quiet
<1>8. CASE Probe(p) BY <1>8, QuietFinish DEF Probe, Still, Quiet
<1> QED BY <1>1, <1>2, <1>3, <1>4, <1>5, <1>6, <1>7, <1>8 DEF Restorer

-----------------------------------------------------------------------------
(* Nothing is replaced, and an entry is restored once.                     *)

LEMMA RestorerKeeps ==
  ASSUME TypeInv, ElsewhereInv, NEW p \in Procs, Restorer(p)
  PROVE  \A k \in DOMAIN tree : k \in DOMAIN tree' /\ tree'[k] = tree[k]
<1>1. CASE Publishes(p)
  <2>1. At(dir[p], Leaf(p)) = None BY <1>1 DEF Publishes, Blocked, Occupied
  <2> QED BY <1>1, <2>1, PutNew DEF Publishes, TypeInv
<1>2. CASE Quiet(p) BY <1>2, PutNew DEF Quiet, TypeInv
<1> QED BY <1>1, <1>2, RestorerSteps

LEMMA ElsewhereStays == TypeInv /\ ElsewhereInv /\ [Next]_vars => ElsewhereInv'
<1> SUFFICES ASSUME TypeInv, ElsewhereInv, [Next]_vars PROVE ElsewhereInv' OBVIOUS
<1>1. ASSUME NEW p \in Procs, Restorer(p) PROVE ElsewhereInv'
  <2>1. CASE Publishes(p)
    <3>1. call[p].entry # Elsewhere BY ObjectsAssumption, EntryTyped DEF TypeInv
    <3> QED BY <2>1, <3>1, PutElsewhere DEF Publishes, Blocked, Occupied, TypeInv
  <2>2. CASE UNCHANGED tree BY <2>2 DEF ElsewhereInv
  <2>3. CASE \E d \in Dirs : \E leaf : At(d, leaf) = None /\ \E what \in Dirs \ {Elsewhere} : Put(d, leaf, what)
    BY <2>3, PutElsewhere DEF TypeInv
  <2> QED BY <1>1, <2>1, <2>2, <2>3, RestorerSteps DEF Quiet
<1>2. ASSUME NEW d \in Dirs, NEW leaf, Create(d, leaf) \/ Symlink(d, leaf) PROVE ElsewhereInv'
  BY <1>2, PutElsewhere, ObjectsAssumption DEF Create, Symlink, TypeInv
<1>3. ASSUME NEW d \in Dirs, NEW leaf \in Components, Away(d, leaf) PROVE ElsewhereInv'
  <2>1. PICK k \in DOMAIN tree : tree[k] = Elsewhere BY DEF ElsewhereInv, Range
  <2>2. k \in DOMAIN tree' /\ tree'[k] = Elsewhere BY <2>1, <1>3, AwayTree DEF TypeInv
  <2>3. ASSUME NEW l \in DOMAIN tree', tree'[l] = Elsewhere PROVE l[2] \notin Components
    <3>1. l \in DOMAIN tree /\ tree[l] = Elsewhere BY <2>3, <1>3, AwayTree DEF TypeInv
    <3> QED BY <3>1 DEF ElsewhereInv
  <2> QED BY <2>2, <2>3 DEF ElsewhereInv, Range
<1>4. CASE UNCHANGED tree BY <1>4 DEF ElsewhereInv
<1> QED BY <1>1, <1>2, <1>3, <1>4 DEF Next, Others, Take, vars

LEMMA InitElsewhere == Init => ElsewhereInv
BY TreesAssumption DEF Init, ElsewhereInv

\* Whatever appears at the destination after it was looked at stays what it is.
THEOREM NoReplacing == Spec => NothingReplaced
<1>1. TypeInv /\ ElsewhereInv /\ [Next]_vars
        => [(\E p \in Procs : Restorer(p)) => \A k \in DOMAIN tree : k \in DOMAIN tree' /\ tree'[k] = tree[k]]_vars
  BY RestorerKeeps
<1> QED BY InitTyped, StepTypedAll, InitElsewhere, ElsewhereStays, <1>1, PTL DEF Spec, NothingReplaced

LEMMA SameEntries ==
  ASSUME TypeInv, OnceInv, UNCHANGED call, trash' \subseteq trash,
         \A q \in Procs : result'[q] = "restored" => result[q] = "restored",
         \A k \in DOMAIN tree' : (k \in DOMAIN tree /\ tree'[k] = tree[k]) \/ tree'[k] \notin Entries
  PROVE  OnceInv'
<1>1. \A k, l \in DOMAIN tree' : tree'[k] = tree'[l] /\ tree'[k] \in Entries => k = l
  BY DEF OnceInv, RestoredOnce
<1>2. \A p, q \in Procs : p # q /\ result'[p] = "restored" /\ result'[q] = "restored" => call'[p].entry # call'[q].entry
  BY DEF OnceInv, RestoredOnce
<1>3. \A e \in trash' : e \notin Range(tree)'
  BY DEF OnceInv, RestoredOnce, Range, TypeInv, CallInv
<1>4. \A p \in Procs : result'[p] = "restored" => call'[p].entry \notin trash' BY DEF OnceInv
<1> QED BY <1>1, <1>2, <1>3, <1>4 DEF OnceInv, RestoredOnce

LEMMA OnceStays == TypeInv /\ ElsewhereInv /\ OnceInv /\ [Next]_vars => OnceInv'
<1> SUFFICES ASSUME TypeInv, ElsewhereInv, OnceInv, [Next]_vars PROVE OnceInv' OBVIOUS
<1>0. Entries \cap (Dirs \cup {Link, Other}) = {} BY ObjectsAssumption
<1>1. ASSUME NEW p \in Procs, Publishes(p) PROVE OnceInv'
  <2> DEFINE e == call[p].entry
             k0 == <<dir[p], Leaf(p)>>
  <2>1. e \in trash /\ e \in Entries BY <1>1, EntryTyped DEF Publishes, Stored, TypeInv
  <2>2. \A k \in DOMAIN tree : tree[k] # e BY <2>1 DEF OnceInv, RestoredOnce, Range
  <2>3. /\ k0 \notin DOMAIN tree /\ DOMAIN tree' = DOMAIN tree \cup {k0} /\ tree'[k0] = e
        /\ \A k \in DOMAIN tree : tree'[k] = tree[k]
    BY <1>1, PutNew DEF Publishes, Blocked, Occupied, TypeInv
  <2>4. UNCHANGED call /\ trash' = trash \ {e} BY <1>1 DEF Publishes, Finish
  <2>5. \A q \in Procs : result'[q] = "restored" => q = p \/ (result[q] = "restored" /\ call[q].entry # e)
    BY <1>1, <2>1 DEF Publishes, Finish, TypeInv, CallInv, OnceInv
  <2>6. \A k, l \in DOMAIN tree' : tree'[k] = tree'[l] /\ tree'[k] \in Entries => k = l
    BY <2>2, <2>3 DEF OnceInv, RestoredOnce
  <2>7. \A q, r \in Procs : q # r /\ result'[q] = "restored" /\ result'[r] = "restored" => call'[q].entry # call'[r].entry
    BY <2>4, <2>5 DEF OnceInv, RestoredOnce
  <2>8. \A x \in trash' : x \notin Range(tree)'
    BY <2>3, <2>4 DEF OnceInv, RestoredOnce, Range
  <2>9. \A q \in Procs : result'[q] = "restored" => call'[q].entry \notin trash'
    BY <2>4, <2>5 DEF OnceInv
  <2> QED BY <2>6, <2>7, <2>8, <2>9 DEF OnceInv, RestoredOnce
<1>2. ASSUME NEW p \in Procs, Quiet(p) PROVE OnceInv'
  <2>1. CASE UNCHANGED tree BY <1>2, <2>1, SameEntries DEF Quiet
  <2>2. CASE \E d \in Dirs : \E leaf : At(d, leaf) = None /\ \E what \in Dirs \ {Elsewhere} : Put(d, leaf, what)
    <3>1. \A k \in DOMAIN tree' : (k \in DOMAIN tree /\ tree'[k] = tree[k]) \/ tree'[k] \notin Entries
      <4>0. PICK d \in Dirs : \E leaf : At(d, leaf) = None /\ \E what \in Dirs \ {Elsewhere} : Put(d, leaf, what)
        BY <2>2
      <4>1. PICK leaf : At(d, leaf) = None /\ \E what \in Dirs \ {Elsewhere} : Put(d, leaf, what)
        BY <4>0
      <4>2. PICK what \in Dirs : Put(d, leaf, what) BY <4>1
      <4>3. what \notin Entries BY <1>0
      <4> QED BY <4>1, <4>2, <4>3, PutNew DEF TypeInv
    <3> QED BY <1>2, <3>1, SameEntries DEF Quiet
  <2> QED BY <1>2, <2>1, <2>2 DEF Quiet
<1>3. ASSUME Others PROVE OnceInv'
  <2>1. UNCHANGED <<call, result>> /\ trash' \subseteq trash
    BY <1>3 DEF Others, Create, Symlink, Away, Take, Change
  <2>2. \A k \in DOMAIN tree' : (k \in DOMAIN tree /\ tree'[k] = tree[k]) \/ tree'[k] \notin Entries
    <3>1. ASSUME NEW d \in Dirs, NEW leaf, NEW what \in {Link, Other}, At(d, leaf) = None, Put(d, leaf, what)
          PROVE  \A k \in DOMAIN tree' : (k \in DOMAIN tree /\ tree'[k] = tree[k]) \/ tree'[k] \notin Entries
      <4>1. what \notin Entries BY <1>0
      <4> QED BY <3>1, <4>1, PutNew DEF TypeInv
    <3>2. ASSUME NEW d \in Dirs, NEW leaf \in Components, Away(d, leaf)
          PROVE  \A k \in DOMAIN tree' : (k \in DOMAIN tree /\ tree'[k] = tree[k]) \/ tree'[k] \notin Entries
      BY <3>2, <1>0, AwayTree DEF TypeInv
    <3> QED BY <1>3, <3>1, <3>2 DEF Others, Create, Symlink, Take
  <2> QED BY <2>1, <2>2, SameEntries
<1>4. CASE UNCHANGED vars BY <1>4, SameEntries DEF vars
<1> QED BY <1>1, <1>2, <1>3, <1>4, RestorerSteps DEF Next

LEMMA InitOnce == Init => OnceInv
<1> SUFFICES ASSUME Init PROVE OnceInv OBVIOUS
<1>1. \A k \in DOMAIN tree : tree[k] \notin Entries
  <2>1. tree \in Trees BY DEF Init
  <2>2. tree \in [DOMAIN tree -> Dirs \cup {Link, Other}] BY <2>1, TreesAssumption
  <2> QED BY <2>2, ObjectsAssumption
<1>2. \A p \in Procs : result[p] # "restored" BY ObjectsAssumption DEF Init, Kinds
<1> QED BY <1>1, <1>2 DEF OnceInv, RestoredOnce, Range, Init

\* An entry is in one place, whoever restores it.
THEOREM Once == Spec => []RestoredOnce
<1>1. OnceInv => RestoredOnce BY DEF OnceInv
<1> QED BY InitTyped, StepTypedAll, InitElsewhere, ElsewhereStays, InitOnce, OnceStays, <1>1, PTL DEF Spec

-----------------------------------------------------------------------------
(* A recorded path is not put where a link leads.                          *)

LEMMA PinStays == TypeInv /\ ElsewhereInv /\ PinInv /\ [Next]_vars => PinInv'
<1> SUFFICES ASSUME TypeInv, ElsewhereInv, PinInv, [Next]_vars PROVE PinInv' OBVIOUS
<1>0. DOMAIN dir = Procs /\ DOMAIN try = Procs BY DEF TypeInv, CallInv
<1>1. ASSUME NEW p \in Procs, Open(p) PROVE PinInv'
  <2>1. CASE UNCHANGED <<try, dir>> BY <2>1 DEF PinInv
  <2>2. CASE dir' = [dir EXCEPT ![p] = Opened(p)] /\ UNCHANGED try /\ Opened(p) # None
    <3>1. ASSUME ~try[p].explicit PROVE Opened(p) # Elsewhere
      <4>1. Opened(p) = Next1(p) BY <2>2, <3>1 DEF Opened
      <4>2. todo[p] # <<>> /\ todo[p] \in Seq(Steps) BY <1>1 DEF Open, TypeInv, StageInv, CallInv
      <4>3. Head(todo[p]) \in Steps BY <4>2
      <4>4. <<Head(todo[p]), 0>> \in Components BY <4>3 DEF Components
      <4> DEFINE k == <<dir[p], <<Head(todo[p]), 0>>>>
      <4>5. k[2] \in Components BY <4>4
      <4>6. k \in DOMAIN tree => tree[k] # Elsewhere BY <4>5 DEF ElsewhereInv
      <4>7. Next1(p) = IF k \in DOMAIN tree THEN tree[k] ELSE None BY DEF Next1, At
      <4>8. None # Elsewhere BY ObjectsAssumption
      <4> QED BY <4>1, <4>6, <4>7, <4>8
    <3> QED BY <2>2, <3>1, <1>0 DEF PinInv
  <2> QED BY <1>1, <2>1, <2>2 DEF Open, Finish, Step
<1>2. ASSUME NEW p \in Procs, Begin(p) PROVE PinInv'
  BY <1>2, <1>0, ObjectsAssumption DEF Begin, Finish, PinInv
<1>3. ASSUME NEW p \in Procs, Conflict(p) PROVE PinInv'
  <2>1. UNCHANGED dir BY <1>3 DEF Conflict, Finish
  <2>2. \A q \in Procs : ~try'[q].explicit => ~try[q].explicit
    <3>1. CASE try' = [try EXCEPT ![p] = [explicit |-> TRUE, suffix |-> try[p].suffix + 1]] BY <3>1, <1>0
    <3>2. CASE try' = [try EXCEPT ![p].suffix = try[p].suffix + 1] BY <3>2 DEF TypeInv, CallInv
    <3>3. CASE UNCHANGED try BY <3>3
    <3> QED BY <1>3, <3>1, <3>2, <3>3 DEF Conflict, Finish
  <2> QED BY <2>1, <2>2 DEF PinInv
<1>4. ASSUME NEW p \in Procs, Probe(p) PROVE PinInv'
  <2>1. UNCHANGED dir /\ \A q \in Procs : ~try'[q].explicit => ~try[q].explicit
    BY <1>4, <1>0 DEF Probe, Finish, TypeInv, CallInv
  <2> QED BY <2>1 DEF PinInv
<1>5. CASE UNCHANGED <<try, dir>> BY <1>5 DEF PinInv
<1> QED
  <2>1. ASSUME NEW p \in Procs, Restorer(p) PROVE PinInv'
    <3>1. CASE Lstat(p) BY <3>1, <1>5 DEF Lstat, Finish, Step
    <3>2. CASE Mkdir(p)
      <4>1. UNCHANGED <<try, dir>> BY <3>2 DEF Mkdir, Finish, Step
      <4> QED BY <4>1, <1>5
    <3>3. CASE Look(p) BY <3>3, <1>3, <1>5 DEF Look, Step
    <3>4. CASE Current(p) BY <3>4, <1>5 DEF Current, Finish, Step
    <3>5. CASE Publish(p) BY <3>5, <1>3, <1>5 DEF Publish, Finish
    <3> QED BY <2>1, <1>1, <1>2, <1>4, <3>1, <3>2, <3>3, <3>4, <3>5 DEF Restorer
  <2>2. CASE Others BY <2>2, <1>5 DEF Others, Create, Symlink, Away, Take, Change
  <2>3. CASE UNCHANGED vars BY <2>3, <1>5 DEF vars
  <2> QED BY <2>1, <2>2, <2>3 DEF Next

\* What goes to its recorded path is not put where a link leads, even one made after the walk looked.
THEOREM Recorded == Spec => []RecordedPlace
<1>1. Init => PinInv BY ObjectsAssumption DEF Init, PinInv
<1>2. PinInv => RecordedPlace BY DEF PinInv, RecordedPlace
<1> QED BY InitTyped, StepTypedAll, InitElsewhere, ElsewhereStays, PinStays, <1>1, <1>2, PTL DEF Spec

-----------------------------------------------------------------------------
(* --force keeps both while there are fewer files than suffixes.           *)

Restored == {p \in Procs : result[p] = "restored"}
\* Every suffix that is in use was there, or was added by somebody.
CountInv ==
  /\ changes \in 0..MaxChanges
  /\ \E t \in Trees : \A c \in Calls :
       Cardinality(InUse(tree, c.name)) <= Cardinality(InUse(t, c.name)) + changes + Cardinality(Restored)
\* A batch comes to a suffix when it has found those before it in use.
TriedInv ==
  \A p \in Procs : call[p].batch =>
    /\ pc[p] # "probe"
    /\ \A k \in 1..MaxSuffix : k < try[p].suffix => k \in InUse(tree, call[p].name)
BatchInv == CountInv /\ TriedInv /\ BatchKeepsBoth

LEMMA TakenFinite ==
  ASSUME NEW t, NEW n
  PROVE  IsFiniteSet(InUse(t, n)) /\ Cardinality(InUse(t, n)) \in 0..MaxSuffix
<1>1. IsFiniteSet(1..MaxSuffix) /\ Cardinality(1..MaxSuffix) = MaxSuffix
  BY FS_Interval, ObjectsAssumption
<1>2. InUse(t, n) \in SUBSET (1..MaxSuffix)
  BY DEF InUse
<1>3. IsFiniteSet(InUse(t, n)) /\ Cardinality(InUse(t, n)) <= MaxSuffix
  BY <1>1, <1>2, FS_Subset
<1> QED
  BY <1>3, FS_CardinalityType, ObjectsAssumption

LEMMA OneMoreTaken ==
  ASSUME NEW t, NEW u, NEW n, NEW x, InUse(u, n) \subseteq InUse(t, n) \cup {x}
  PROVE  Cardinality(InUse(u, n)) <= Cardinality(InUse(t, n)) + 1
<1>1. IsFiniteSet(InUse(t, n)) /\ Cardinality(InUse(t, n)) \in Nat /\ Cardinality(InUse(u, n)) \in Nat
  BY TakenFinite, ObjectsAssumption
<1>2. /\ IsFiniteSet(InUse(t, n) \cup {x})
      /\ \/ Cardinality(InUse(t, n) \cup {x}) = Cardinality(InUse(t, n))
         \/ Cardinality(InUse(t, n) \cup {x}) = Cardinality(InUse(t, n)) + 1
  BY <1>1, FS_AddElement
<1>3. Cardinality(InUse(u, n)) <= Cardinality(InUse(t, n) \cup {x})
  BY <1>2, FS_Subset
<1> QED
  BY <1>1, <1>2, <1>3

\* What a tree that has one thing more takes.
LEMMA PutTaken ==
  ASSUME NEW d, NEW leaf, NEW what, TreeInv, At(d, leaf) = None, Put(d, leaf, what), NEW n
  PROVE  /\ InUse(tree, n) \subseteq InUse(tree', n)
         /\ InUse(tree', n) \subseteq InUse(tree, n) \cup {leaf[2]}
         /\ leaf[2] = 0 => InUse(tree', n) = InUse(tree, n)
<1>1. DOMAIN tree' = DOMAIN tree \cup {<<d, leaf>>}
  BY PutNew
<1>2. InUse(tree, n) \subseteq InUse(tree', n)
  BY <1>1 DEF InUse
<1>3. ASSUME NEW k \in InUse(tree', n) PROVE k \in InUse(tree, n) \/ k = leaf[2]
  <2>1. PICK e \in Dirs : <<e, <<n, k>>>> \in DOMAIN tree'
    BY <1>3 DEF InUse
  <2>2. CASE <<e, <<n, k>>>> \in DOMAIN tree
    BY <1>3, <2>2 DEF InUse
  <2>3. CASE <<e, <<n, k>>>> = <<d, leaf>>
    BY <2>3
  <2> QED
    BY <1>1, <2>1, <2>2, <2>3
<1>4. leaf[2] = 0 => leaf[2] \notin InUse(tree', n)
  BY ObjectsAssumption DEF InUse
<1> QED
  BY <1>2, <1>3, <1>4

\* What leads to another directory has no suffix.
LEMMA AwayTaken ==
  ASSUME NEW d \in Dirs, NEW leaf \in Components, TreeInv, Away(d, leaf), NEW n
  PROVE  InUse(tree', n) = InUse(tree, n)
<1>1. PICK s \in Steps : leaf = <<s, 0>>
  BY DEF Components
<1> DEFINE from == <<d, leaf>>
           to == <<Root, <<"away", 0>>>>
<1>2. \/ DOMAIN tree' = (DOMAIN tree \ {from}) \cup {to}
      \/ DOMAIN tree' = DOMAIN tree \ {from}
  BY DEF Away, Restrict
<1>3. ASSUME NEW k \in 1..MaxSuffix, NEW e \in Dirs
      PROVE  <<e, <<n, k>>>> \in DOMAIN tree' <=> <<e, <<n, k>>>> \in DOMAIN tree
  <2>1. k # 0
    BY ObjectsAssumption
  <2>2. <<e, <<n, k>>>> # from /\ <<e, <<n, k>>>> # to
    BY <1>1, <2>1
  <2> QED
    BY <1>2, <2>2
<1> QED
  BY <1>3 DEF InUse

\* What a step of a restorer does to its attempt, when it is one of a batch.
Tries(p) ==
  /\ pc'[p] # "probe"
  /\ \/ try'[p] = try[p]
     \/ Occupied(p) /\ try'[p].suffix = try[p].suffix + 1
  /\ result'[p] = "conflict" => Occupied(p) /\ (call[p].force => try[p].suffix = MaxSuffix)

LEMMA FinishTries ==
  ASSUME TypeInv, NEW p \in Procs, NEW kind, kind # "conflict", Finish(p, kind)
  PROVE  Tries(p)
BY DEF Finish, Goto, Tries, TypeInv, CallInv

LEMMA StepTries ==
  ASSUME TypeInv, NEW p \in Procs, pc[p] # "done", NEW next, next # "probe", Step(p, next)
  PROVE  Tries(p)
<1>1. result[p] # "conflict"
  BY ObjectsAssumption DEF TypeInv, StageInv, Kinds
<1> QED
  BY <1>1 DEF Step, Goto, Tries, TypeInv, CallInv

LEMMA ConflictTries ==
  ASSUME TypeInv, NEW p \in Procs, pc[p] # "done", call[p].batch, Occupied(p), Conflict(p)
  PROVE  Tries(p)
<1>1. result[p] # "conflict"
  BY ObjectsAssumption DEF TypeInv, StageInv, Kinds
<1>2. try[p].suffix \in 0..MaxSuffix /\ MaxSuffix \in Nat
  BY ObjectsAssumption DEF TypeInv, CallInv
<1>3. CASE call[p].force /\ try[p].suffix < MaxSuffix
  <2>1. /\ try' = [try EXCEPT ![p] = [explicit |-> TRUE, suffix |-> try[p].suffix + 1]]
        /\ pc' = [pc EXCEPT ![p] = "begin"] /\ UNCHANGED result
    BY <1>3 DEF Conflict, Goto
  <2>2. try'[p].suffix = try[p].suffix + 1 /\ pc'[p] = "begin" /\ result'[p] = result[p]
    BY <2>1 DEF TypeInv, CallInv
  <2> QED
    BY <1>1, <2>2 DEF Tries
<1>4. CASE ~(call[p].force /\ try[p].suffix < MaxSuffix)
  <2>1. Finish(p, "conflict")
    BY <1>4 DEF Conflict
  <2>2. pc'[p] = "done" /\ try'[p] = try[p]
    BY <2>1 DEF Finish, Goto, TypeInv, CallInv
  <2>3. call[p].force => try[p].suffix = MaxSuffix
    BY <1>2, <1>4
  <2> QED
    BY <2>2, <2>3 DEF Tries
<1> QED
  BY <1>3, <1>4

LEMMA RestorerTries ==
  ASSUME TypeInv, NEW p \in Procs, Restorer(p), call[p].batch, pc[p] # "probe"
  PROVE  Tries(p)
<1>1. CASE Begin(p)
  <2>1. CASE dir' = [dir EXCEPT ![p] = Root] /\ Goto(p, "walk") /\ UNCHANGED <<call, try, result>>
    <3>1. result[p] # "conflict"
      BY <1>1, ObjectsAssumption DEF Begin, TypeInv, StageInv, Kinds
    <3> QED
      BY <2>1, <3>1 DEF Goto, Tries, TypeInv, CallInv
  <2> QED
    BY <1>1, <2>1, FinishTries DEF Begin
<1>2. CASE Lstat(p)
  BY <1>2, FinishTries, StepTries DEF Lstat
<1>3. CASE Open(p)
  <2>1. CASE Goto(p, "walk") /\ UNCHANGED <<call, try, result>>
    <3>1. result[p] # "conflict"
      BY <1>3, ObjectsAssumption DEF Open, TypeInv, StageInv, Kinds
    <3> QED
      BY <2>1, <3>1 DEF Goto, Tries, TypeInv, CallInv
  <2> QED
    BY <1>3, <2>1, FinishTries, StepTries DEF Open
<1>4. CASE Mkdir(p)
  BY <1>4, FinishTries, StepTries DEF Mkdir
<1>5. CASE Look(p)
  BY <1>5, ConflictTries, StepTries DEF Look
<1>6. CASE Current(p)
  BY <1>6, FinishTries, StepTries DEF Current
<1>7. CASE Publish(p)
  <2>1. CASE ~Stored(p) \/ ~Linked(dir[p]) \/ ~Blocked(p)
    BY <1>7, <2>1, FinishTries DEF Publish
  <2>2. CASE Stored(p) /\ Linked(dir[p]) /\ Blocked(p)
    BY <1>7, <2>2, ConflictTries DEF Publish, Blocked
  <2> QED
    BY <2>1, <2>2
<1>8. CASE Probe(p)
  BY <1>8 DEF Probe
<1> QED
  BY <1>1, <1>2, <1>3, <1>4, <1>5, <1>6, <1>7, <1>8 DEF Restorer

\* A restorer had no answer, and answers for itself.
LEMMA RestorerAlone ==
  ASSUME TypeInv, NEW p \in Procs, Restorer(p)
  PROVE  /\ result[p] = None /\ UNCHANGED <<call, changes>>
         /\ \A q \in Procs : q # p => result'[q] = result[q] /\ try'[q] = try[q] /\ pc'[q] = pc[q]
<1>1. pc[p] # "done"
  BY DEF Restorer, Begin, Lstat, Open, Mkdir, Look, Current, Publish, Probe
<1>2. result[p] = None
  BY <1>1 DEF TypeInv, StageInv
<1>3. UNCHANGED <<call, changes>>
  BY DEF Restorer, Begin, Lstat, Open, Mkdir, Look, Current, Publish, Probe, Still, Finish, Step, Conflict
<1> DEFINE Only(f, g) == g = f \/ \E v : g = [f EXCEPT ![p] = v]
<1>4. Only(result, result') /\ Only(pc, pc')
  BY DEF Restorer, Begin, Lstat, Open, Mkdir, Look, Current, Publish, Probe, Finish, Step, Conflict, Goto
<1>5. \A q \in Procs : q # p => try'[q] = try[q]
  BY DEF Restorer, Begin, Lstat, Open, Mkdir, Look, Current, Publish, Probe, Finish, Step, Conflict, TypeInv, CallInv
<1>6. \A q \in Procs : q # p => result'[q] = result[q] /\ pc'[q] = pc[q]
  BY <1>4 DEF TypeInv, CallInv
<1> QED
  BY <1>2, <1>3, <1>5, <1>6

\* What another tree takes, seen from what the first tree takes.
LEMMA CountStays ==
  ASSUME CountInv, changes' \in 0..MaxChanges, IsFiniteSet(Procs), MaxChanges \in Nat,
         NEW more \in {0, 1},
         \A c \in Calls : Cardinality(InUse(tree', c.name)) <= Cardinality(InUse(tree, c.name)) + more,
         changes' + Cardinality(Restored') >= changes + Cardinality(Restored) + more
  PROVE  CountInv'
<1>1. PICK t \in Trees : \A c \in Calls :
        Cardinality(InUse(tree, c.name)) <= Cardinality(InUse(t, c.name)) + changes + Cardinality(Restored)
  BY DEF CountInv
<1>2. Cardinality(Restored) \in Nat /\ Cardinality(Restored') \in Nat
  BY FS_Subset, FS_CardinalityType DEF Restored
<1>3. changes \in Nat /\ changes' \in Nat
  BY DEF CountInv
<1>4. ASSUME NEW c \in Calls
      PROVE  Cardinality(InUse(tree', c.name)) <= Cardinality(InUse(t, c.name)) + changes' + Cardinality(Restored')
  <2>1. /\ Cardinality(InUse(tree, c.name)) \in Nat /\ Cardinality(InUse(tree', c.name)) \in Nat
        /\ Cardinality(InUse(t, c.name)) \in Nat
    BY TakenFinite, ObjectsAssumption
  <2> QED
    BY <1>1, <1>2, <1>3, <2>1
<1> QED
  BY <1>4 DEF CountInv

\* Suffixes stay in use, and each that a step takes is counted.
LEMMA TreeSteps ==
  ASSUME TypeInv, ElsewhereInv, CountInv, IsFiniteSet(Procs), MaxChanges \in Nat, [Next]_vars
  PROVE  /\ CountInv'
         /\ \A c \in Calls : InUse(tree, c.name) \subseteq InUse(tree', c.name)
<1>0. changes \in 0..MaxChanges /\ IsFiniteSet(Restored) /\ Cardinality(Restored) \in Nat
  BY FS_Subset, FS_CardinalityType DEF CountInv, Restored
<1> DEFINE Plain == \A c \in Calls : InUse(tree', c.name) = InUse(tree, c.name)
           More == \A c \in Calls : /\ InUse(tree, c.name) \subseteq InUse(tree', c.name)
                                    /\ Cardinality(InUse(tree', c.name)) <= Cardinality(InUse(tree, c.name)) + 1
<1>1. ASSUME NEW n PROVE Cardinality(InUse(tree, n)) \in Nat
  BY TakenFinite, ObjectsAssumption
<1>2. ASSUME NEW d, NEW leaf, NEW what, At(d, leaf) = None, Put(d, leaf, what)
      PROVE  More /\ (leaf[2] = 0 => Plain)
  <2>1. ASSUME NEW n PROVE /\ InUse(tree, n) \subseteq InUse(tree', n)
                           /\ InUse(tree', n) \subseteq InUse(tree, n) \cup {leaf[2]}
                           /\ leaf[2] = 0 => InUse(tree', n) = InUse(tree, n)
    BY <1>2, PutTaken DEF TypeInv
  <2>2. ASSUME NEW n PROVE Cardinality(InUse(tree', n)) <= Cardinality(InUse(tree, n)) + 1
    BY <2>1, OneMoreTaken
  <2> QED
    BY <2>1, <2>2
<1>3. ASSUME Plain, changes' \in 0..MaxChanges, changes' >= changes, Restored \subseteq Restored'
      PROVE  CountInv' /\ \A c \in Calls : InUse(tree, c.name) \subseteq InUse(tree', c.name)
  <2>1. IsFiniteSet(Restored') /\ Cardinality(Restored') \in Nat
    BY FS_Subset, FS_CardinalityType DEF Restored
  <2>2. Cardinality(Restored) <= Cardinality(Restored')
    BY <1>3, <2>1, FS_Subset
  <2>3. \A c \in Calls : Cardinality(InUse(tree', c.name)) <= Cardinality(InUse(tree, c.name)) + 0
    BY <1>1, <1>3
  <2>4. changes' + Cardinality(Restored') >= changes + Cardinality(Restored) + 0
    BY <1>0, <1>3, <2>1, <2>2
  <2>5. CountInv'
    BY <1>3, <2>3, <2>4, CountStays
  <2> QED
    BY <1>3, <2>5
<1>4. ASSUME NEW p \in Procs, Restorer(p)
      PROVE  CountInv' /\ \A c \in Calls : InUse(tree, c.name) \subseteq InUse(tree', c.name)
  <2>1. UNCHANGED changes /\ p \notin Restored /\ Restored \subseteq Restored'
    BY <1>4, RestorerAlone, ObjectsAssumption DEF Restored, Kinds
  <2>2. CASE Publishes(p)
    <3>1. More
      BY <1>2, <2>2 DEF Publishes, Blocked, Occupied
    <3>2. Restored \cup {p} \subseteq Restored'
      BY <2>1, <2>2 DEF Publishes, Finish, Restored, TypeInv, CallInv
    <3>3. IsFiniteSet(Restored') /\ Cardinality(Restored') \in Nat
      BY FS_Subset, FS_CardinalityType DEF Restored
    <3>4. Cardinality(Restored \cup {p}) = Cardinality(Restored) + 1
      BY <1>0, <2>1, FS_AddElement
    <3>5. Cardinality(Restored') >= Cardinality(Restored) + 1
      BY <3>2, <3>3, <3>4, FS_Subset
    <3>6. changes' + Cardinality(Restored') >= changes + Cardinality(Restored) + 1
      BY <1>0, <2>1, <3>3, <3>5
    <3>7. CountInv'
      BY <1>0, <2>1, <3>1, <3>6, CountStays
    <3> QED
      BY <3>1, <3>7
  <2>3. CASE ~Publishes(p)
    <3>1. Plain
      <4>1. CASE UNCHANGED tree
        BY <4>1
      <4>2. CASE Mkdir(p) /\ ~UNCHANGED tree
        <5>1. PICK d \in Fresh : Next1(p) = None /\ Put(dir[p], <<Head(todo[p]), 0>>, d)
          BY <4>2 DEF Mkdir
        <5> QED
          BY <1>2, <5>1 DEF Next1
      <4>3. Mkdir(p) \/ UNCHANGED tree
        BY <1>4, <2>3
        DEF Restorer, Begin, Lstat, Open, Look, Current, Publish, Publishes, Probe, Still
      <4> QED
        BY <4>1, <4>2, <4>3
    <3> QED
      BY <1>0, <1>3, <2>1, <3>1
  <2> QED
    BY <2>2, <2>3
<1>5. ASSUME Others
      PROVE  CountInv' /\ \A c \in Calls : InUse(tree, c.name) \subseteq InUse(tree', c.name)
  <2>1. changes < MaxChanges /\ changes' = changes + 1 /\ UNCHANGED result
    BY <1>5 DEF Others, Create, Symlink, Away, Take, Change
  <2>2. changes' \in 0..MaxChanges /\ changes' >= changes /\ Restored' = Restored
    BY <1>0, <2>1 DEF Restored
  <2>3. CASE \E d \in Dirs, leaf \in Destinations : Create(d, leaf)
    <3>1. More
      BY <1>2, <2>3 DEF Create
    <3>2. changes' + Cardinality(Restored') >= changes + Cardinality(Restored) + 1
      BY <1>0, <2>1, <2>2
    <3>3. CountInv'
      BY <2>2, <3>1, <3>2, CountStays
    <3> QED
      BY <3>1, <3>3
  <2>4. CASE ~ \E d \in Dirs, leaf \in Destinations : Create(d, leaf)
    <3>1. Plain
      <4>1. ASSUME NEW d \in Dirs, NEW leaf \in Components, Symlink(d, leaf) PROVE Plain
        <5>1. leaf[2] = 0
          BY DEF Components
        <5> QED
          BY <1>2, <4>1, <5>1 DEF Symlink
      <4>2. ASSUME NEW d \in Dirs, NEW leaf \in Components, Away(d, leaf) PROVE Plain
        BY <4>2, AwayTaken DEF TypeInv
      <4>3. ASSUME NEW e, Take(e) PROVE Plain
        BY <4>3 DEF Take
      <4> QED
        BY <1>5, <2>4, <4>1, <4>2, <4>3 DEF Others
    <3> QED
      BY <1>3, <2>2, <3>1
  <2> QED
    BY <2>3, <2>4
<1>6. CASE UNCHANGED vars
  BY <1>0, <1>3, <1>6 DEF vars, Restored
<1> QED
  BY <1>4, <1>5, <1>6 DEF Next

\* Nobody is refused a suffix while one is free.
LEMMA OneIsFree ==
  ASSUME FewFiles, TypeInv, CountInv, NEW p \in Procs, result[p] # "restored"
  PROVE  InUse(tree, call[p].name) # 1..MaxSuffix
<1> DEFINE c == call[p]
<1>1. c \in Calls
  BY EntryTyped DEF TypeInv
<1>2. PICK t \in Trees :
        Cardinality(InUse(tree, c.name)) <= Cardinality(InUse(t, c.name)) + changes + Cardinality(Restored)
  BY <1>1 DEF CountInv
<1>3. Cardinality(Restored) \in Nat /\ Cardinality(Procs) \in Nat /\ Cardinality(Restored) < Cardinality(Procs)
  <2>1. IsFiniteSet(Procs) /\ Restored \in SUBSET Procs /\ p \notin Restored
    BY DEF FewFiles, Restored
  <2>2. Restored # Procs
    BY <2>1
  <2> QED
    BY <2>1, <2>2, FS_Subset, FS_CardinalityType
<1>4. Cardinality(InUse(t, c.name)) + MaxChanges + Cardinality(Procs) <= MaxSuffix
  BY <1>1 DEF FewFiles
<1>5. Cardinality(InUse(t, c.name)) \in Nat /\ Cardinality(InUse(tree, c.name)) \in Nat
  BY TakenFinite, ObjectsAssumption
<1>6. changes \in Nat /\ MaxChanges \in Nat /\ changes <= MaxChanges /\ MaxSuffix \in Nat
  BY ObjectsAssumption DEF CountInv, FewFiles
<1>7. Cardinality(InUse(tree, c.name)) < MaxSuffix
  BY <1>2, <1>3, <1>4, <1>5, <1>6
<1>8. Cardinality(1..MaxSuffix) = MaxSuffix
  BY <1>6, FS_Interval
<1> QED
  BY <1>6, <1>7, <1>8

LEMMA BatchStays == FewFiles /\ TypeInv /\ ElsewhereInv /\ BatchInv /\ [Next]_vars => BatchInv'
<1> SUFFICES ASSUME FewFiles, TypeInv, ElsewhereInv, BatchInv, [Next]_vars PROVE BatchInv'
  OBVIOUS
<1>1. CountInv' /\ \A c \in Calls : InUse(tree, c.name) \subseteq InUse(tree', c.name)
  BY TreeSteps DEF BatchInv, FewFiles
<1>2. UNCHANGED call
  BY RestorerAlone DEF Next, Others, Create, Symlink, Away, Take, Change, vars
<1>3. ASSUME NEW q \in Procs, call[q].batch, try'[q] = try[q], pc'[q] = pc[q], result'[q] = result[q]
      PROVE  /\ pc'[q] # "probe" /\ (call[q].force => result'[q] # "conflict")
             /\ \A k \in 1..MaxSuffix : k < try'[q].suffix => k \in InUse(tree', call[q].name)
  <2>1. call[q] \in Calls
    BY EntryTyped DEF TypeInv
  <2> QED
    BY <1>1, <1>3, <2>1 DEF BatchInv, TriedInv, BatchKeepsBoth, KeepsBoth
<1>4. ASSUME NEW q \in Procs, call[q].batch, Restorer(q)
      PROVE  /\ pc'[q] # "probe" /\ (call[q].force => result'[q] # "conflict")
             /\ \A k \in 1..MaxSuffix : k < try'[q].suffix => k \in InUse(tree', call[q].name)
  <2>1. call[q] \in Calls /\ dir[q] \in Dirs /\ try[q].suffix \in 0..MaxSuffix
    BY EntryTyped DEF TypeInv, CallInv
  <2>2. Tries(q)
    BY <1>4, RestorerTries DEF BatchInv, TriedInv
  <2>3. Occupied(q) /\ try[q].suffix # 0 => try[q].suffix \in InUse(tree, call[q].name)
    <3>1. Occupied(q) => <<dir[q], <<call[q].name, try[q].suffix>>>> \in DOMAIN tree
      BY DEF Occupied, At, Leaf
    <3>2. try[q].suffix # 0 => try[q].suffix \in 1..MaxSuffix
      BY <2>1, ObjectsAssumption
    <3> QED
      BY <2>1, <3>1, <3>2 DEF InUse
  <2>4. \A k \in 1..MaxSuffix : k < try[q].suffix => k \in InUse(tree, call[q].name)
    BY <1>4 DEF BatchInv, TriedInv
  <2>5. ASSUME NEW k \in 1..MaxSuffix, k < try'[q].suffix PROVE k \in InUse(tree, call[q].name)
    <3>1. CASE try'[q] = try[q]
      BY <2>4, <2>5, <3>1
    <3>2. CASE Occupied(q) /\ try'[q].suffix = try[q].suffix + 1
      <4>1. k \in Nat /\ k # 0 /\ try[q].suffix \in Nat
        BY <2>1, ObjectsAssumption
      <4>2. k < try[q].suffix \/ k = try[q].suffix
        BY <2>5, <3>2, <4>1
      <4> QED
        BY <2>3, <2>4, <3>2, <4>1, <4>2
    <3> QED
      BY <2>2, <3>1, <3>2 DEF Tries
  <2>6. call[q].force => result'[q] # "conflict"
    <3>1. SUFFICES ASSUME call[q].force, result'[q] = "conflict" PROVE FALSE
      OBVIOUS
    <3>2. Occupied(q) /\ try[q].suffix = MaxSuffix
      BY <2>2, <3>1 DEF Tries
    <3>3. MaxSuffix \in Nat \ {0}
      BY ObjectsAssumption
    <3>4. ASSUME NEW k \in 1..MaxSuffix PROVE k \in InUse(tree, call[q].name)
      BY <2>3, <2>4, <3>2, <3>3
    <3>5. InUse(tree, call[q].name) = 1..MaxSuffix
      BY <3>4 DEF InUse
    <3>6. result[q] # "restored"
      BY <1>4, RestorerAlone, ObjectsAssumption DEF Kinds
    <3> QED
      BY <3>5, <3>6, OneIsFree DEF BatchInv
  <2> QED
    BY <1>1, <2>1, <2>2, <2>5, <2>6 DEF Tries
<1>5. ASSUME NEW q \in Procs, call[q].batch
      PROVE  /\ pc'[q] # "probe" /\ (call[q].force => result'[q] # "conflict")
             /\ \A k \in 1..MaxSuffix : k < try'[q].suffix => k \in InUse(tree', call[q].name)
  <2>1. ASSUME NEW p \in Procs, Restorer(p), p # q PROVE try'[q] = try[q] /\ pc'[q] = pc[q] /\ result'[q] = result[q]
    BY <2>1, RestorerAlone
  <2>2. CASE Others \/ UNCHANGED vars
    BY <1>3, <1>5, <2>2 DEF Others, Create, Symlink, Away, Take, Change, vars
  <2> QED
    BY <1>3, <1>4, <1>5, <2>1, <2>2 DEF Next
<1>6. TriedInv' /\ BatchKeepsBoth'
  BY <1>2, <1>5 DEF TriedInv, BatchKeepsBoth, KeepsBoth
<1> QED
  BY <1>1, <1>6 DEF BatchInv

LEMMA InitBatch == FewFiles /\ Init => BatchInv
<1> SUFFICES ASSUME FewFiles, Init PROVE BatchInv
  OBVIOUS
<1>1. IsFiniteSet(Restored) /\ Cardinality(Restored) \in Nat
  BY FS_Subset, FS_CardinalityType DEF Restored, FewFiles
<1>2. CountInv
  <2>1. tree \in Trees /\ changes = 0 /\ MaxChanges \in Nat
    BY DEF Init, FewFiles
  <2>2. ASSUME NEW c \in Calls
        PROVE  Cardinality(InUse(tree, c.name)) <= Cardinality(InUse(tree, c.name)) + changes + Cardinality(Restored)
    BY <1>1, <2>1, TakenFinite, ObjectsAssumption
  <2> QED
    BY <2>1, <2>2 DEF CountInv
<1>3. TriedInv
  BY DEF Init, TriedInv
<1>4. BatchKeepsBoth
  BY ObjectsAssumption DEF Init, BatchKeepsBoth, KeepsBoth, Kinds
<1> QED
  BY <1>2, <1>3, <1>4 DEF BatchInv

\* A batch with --force keeps both, whoever takes the suffix it came to, while there are
\* fewer files of a name than suffixes.
THEOREM KeepsBothInBatch == ASSUME FewFiles PROVE Spec => []BatchKeepsBoth
<1>1. BatchInv => BatchKeepsBoth
  BY DEF BatchInv
<1>2. Init => BatchInv
  BY InitBatch
<1>3. TypeInv /\ ElsewhereInv /\ BatchInv /\ [Next]_vars => BatchInv'
  BY BatchStays
<1> QED
  BY InitTyped, StepTypedAll, InitElsewhere, ElsewhereStays, <1>1, <1>2, <1>3, PTL DEF Spec

-----------------------------------------------------------------------------
(* The directorysizes cache, for any number of processes, names, seconds,  *)
(* trees and faults.                                                       *)

CONSTANTS ByHandle, Names, MaxTime, MaxTrees, MaxSwaps, MaxFaults
VARIABLES
  data, mtime, cache, lock, sizesPc, job, now, trees, swaps, damage, crashes, published, raced

D == INSTANCE DirectorySizes WITH pc <- sizesPc

Unique(rows) == \A r, s \in rows : r.name = s.name => r = s

DiskTyped ==
  /\ data \in [Names -> D!Thing \cup {D!Nothing}] /\ mtime \in [Names -> 0..MaxTime]
  /\ cache \in [rows : SUBSET D!Row, bad : BOOLEAN]
  /\ published \subseteq [name : Names, tree : 1..MaxTrees, at : 1..MaxTime]
CountsTyped ==
  /\ now \in 1..MaxTime /\ trees \in 0..MaxTrees /\ swaps \in 0..MaxSwaps
  /\ damage \in 0..MaxFaults /\ crashes \in 0..MaxFaults /\ raced \in BOOLEAN
JobsTyped == sizesPc \in [Procs -> D!Steps] /\ job \in [Procs -> D!Job]
LockInv ==
  /\ lock \subseteq Procs /\ \A p, q \in lock : p = q
  /\ \A p \in Procs : sizesPc[p] \in {"read", "write", "unlink"} => p \in lock
\* What is surveyed was never trashed, and is nobody else's.
SurveyInv ==
  /\ \A q \in published : q.tree <= trees /\ q.at <= now
  /\ \A p \in Procs : sizesPc[p] = "survey" =>
       /\ job[p].victim \in D!Thing /\ job[p].victim.tree <= trees
       /\ MaxSwaps = 0 => job[p].sized = job[p].victim.tree
       /\ \A q \in published : q.tree # job[p].victim.tree
       /\ \A o \in Procs : o # p /\ sizesPc[o] = "survey" => job[o].victim.tree # job[p].victim.tree
\* Data with a sidecar was trashed in the second of its sidecar.
Shown ==
  \A n \in Names : data[n] # D!Nothing /\ mtime[n] # 0 =>
    [name |-> n, tree |-> data[n].tree, at |-> mtime[n]] \in published
\* A deletion that goes on to record has measured what it trashed, which stays.
HoldInv ==
  \A p \in Procs : sizesPc[p] \in {"read", "write"} =>
    /\ job[p].victim # D!Nothing /\ data[job[p].name] = job[p].victim
    /\ mtime[job[p].name] # 0 /\ job[p].sized = job[p].victim.tree
\* A row names a second in which its name was used.  So a tree that comes to be
\* accepted by it later was trashed in that same second.
Dated(name, time) == \E q \in published : q.name = name /\ q.at = time
RowOK(r) ==
  /\ Dated(r.name, r.mtime)
  /\ data[r.name].dir /\ mtime[r.name] = r.mtime => r.tree = data[r.name].tree \/ D!SameSecond(r)
RowsInv ==
  /\ \A r \in cache.rows : RowOK(r)
  /\ \A p \in Procs : (\A r \in job[p].rows : RowOK(r)) /\ (\A r \in job[p].lines : RowOK(r))
SeenInv == \A p \in Procs : sizesPc[p] = "measure" => Dated(job[p].name, job[p].seen)
\* One row for each name, also in the making.
UniqueJob(p) ==
  /\ Unique(job[p].rows) /\ Unique(job[p].lines)
  /\ sizesPc[p] = "scan" => job[p].lines = {}
  /\ sizesPc[p] \in {"visit", "measure"} => \A r \in job[p].lines : r.name \notin job[p].todo
  /\ sizesPc[p] = "measure" => job[p].name \in job[p].todo
UniqueInv == Unique(cache.rows) /\ \A p \in Procs : UniqueJob(p)

SizesTyped == DiskTyped /\ CountsTyped /\ JobsTyped
SizesInv ==
  SizesTyped /\ LockInv /\ SurveyInv /\ Shown /\ HoldInv /\ RowsInv /\ SeenInv /\ UniqueInv

\* Every action by its name.
Worker(p) ==
  \/ D!Survey(p) \/ D!Swap(p) \/ D!Publish(p) \/ D!RecordRead(p) \/ D!RecordWrite(p)
  \/ D!RemoveSidecar(p) \/ D!Refresh(p) \/ D!RebuildRead(p) \/ D!RebuildScan(p) \/ D!Measure(p)
  \/ D!RebuildWrite(p) \/ D!Crash(p) \/ (\E n \in Names : D!RemoveData(p, n) \/ D!Visit(p, n))
LEMMA SizesSteps ==
  ASSUME [D!Next]_(D!vars)
  PROVE  (\E p \in Procs : Worker(p)) \/ D!Tick \/ D!Damage \/ UNCHANGED D!vars
BY DEF D!Next, Worker

-----------------------------------------------------------------------------
(* What each step does, field by field.                                    *)

\* A step of one process leaves the others where they are.
LEMMA OthersWait ==
  ASSUME JobsTyped, NEW p \in Procs, Worker(p), NEW o \in Procs, o # p
  PROVE  job'[o] = job[o] /\ sizesPc'[o] = sizesPc[o]
<1> USE DEF JobsTyped
<1>1. CASE D!Survey(p)
  BY <1>1 DEF D!Survey, D!Goto
<1>2. CASE D!Swap(p)
  BY <1>2 DEF D!Swap
<1>3. CASE D!Publish(p)
  BY <1>3 DEF D!Publish, D!Goto
<1>4. CASE D!RecordRead(p)
  BY <1>4 DEF D!RecordRead, D!Goto, D!Done
<1>5. CASE D!RecordWrite(p)
  BY <1>5 DEF D!RecordWrite, D!Goto, D!Done
<1>6. CASE D!RemoveSidecar(p)
  BY <1>6 DEF D!RemoveSidecar, D!Goto
<1>7. CASE D!Refresh(p)
  BY <1>7 DEF D!Refresh, D!Goto, D!Done
<1>8. CASE D!RebuildRead(p)
  BY <1>8 DEF D!RebuildRead, D!Goto
<1>9. CASE D!RebuildScan(p)
  BY <1>9 DEF D!RebuildScan, D!Goto
<1>10. CASE D!Measure(p)
  BY <1>10 DEF D!Measure, D!Goto
<1>11. CASE D!RebuildWrite(p)
  BY <1>11 DEF D!RebuildWrite, D!Goto, D!Done
<1>12. CASE D!Crash(p)
  BY <1>12 DEF D!Crash, D!Goto, D!Done
<1>13. CASE \E n \in Names : D!RemoveData(p, n)
  BY <1>13 DEF D!RemoveData, D!Goto
<1>14. CASE \E n \in Names : D!Visit(p, n)
  BY <1>14 DEF D!Visit, D!Goto
<1> QED
  BY <1>1, <1>2, <1>3, <1>4, <1>5, <1>6, <1>7, <1>8, <1>9, <1>10, <1>11, <1>12, <1>13, <1>14 DEF Worker

LEMMA DoneStep ==
  ASSUME JobsTyped, NEW p \in Procs, D!Done(p)
  PROVE  sizesPc'[p] = "idle" /\ job'[p] = D!NoJob /\ lock' = lock \ {p}
BY DEF D!Done, D!Goto, JobsTyped

LEMMA SurveyStep ==
  ASSUME JobsTyped, NEW p \in Procs, D!Survey(p)
  PROVE  /\ sizesPc[p] = "idle" /\ sizesPc'[p] = "survey" /\ trees < MaxTrees /\ trees' = trees + 1
         /\ \E n \in Names, d \in BOOLEAN :
              job'[p] = [job[p] EXCEPT !.name = n, !.sized = trees + 1, !.victim = [tree |-> trees + 1, dir |-> d]]
         /\ UNCHANGED <<data, mtime, cache, lock, now, published>>
BY DEF D!Survey, D!Goto, D!store, JobsTyped

LEMMA SwapStep ==
  ASSUME JobsTyped, NEW p \in Procs, D!Swap(p)
  PROVE  /\ sizesPc[p] = "survey" /\ sizesPc' = sizesPc /\ trees < MaxTrees /\ trees' = trees + 1
         /\ swaps < MaxSwaps
         /\ job'[p] = [job[p] EXCEPT !.victim = [job[p].victim EXCEPT !.tree = trees + 1]]
         /\ UNCHANGED <<data, mtime, cache, lock, now, published>>
BY DEF D!Swap, D!store, JobsTyped

LEMMA PublishStep ==
  ASSUME JobsTyped, NEW p \in Procs, D!Publish(p)
  PROVE  /\ sizesPc[p] = "survey" /\ sizesPc'[p] = "read" /\ lock = {} /\ lock' = {p}
         /\ data[job[p].name] = D!Nothing /\ mtime[job[p].name] = 0
         /\ data' = [data EXCEPT ![job[p].name] = job[p].victim]
         /\ mtime' = [mtime EXCEPT ![job[p].name] = now]
         /\ published' = published \cup {[name |-> job[p].name, tree |-> job[p].victim.tree, at |-> now]}
         /\ job'[p] = (IF p \in ByHandle THEN job[p] ELSE [job[p] EXCEPT !.sized = job[p].victim.tree])
         /\ UNCHANGED <<cache, now, trees>>
BY DEF D!Publish, D!Goto, D!budget, JobsTyped

LEMMA RecordReadStep ==
  ASSUME JobsTyped, NEW p \in Procs, D!RecordRead(p)
  PROVE  /\ sizesPc[p] = "read"
         /\ \/ sizesPc'[p] = "idle" /\ job'[p] = D!NoJob /\ ~job[p].victim.dir
            \/ sizesPc'[p] = "reread" /\ job'[p] = job[p]
            \/ /\ sizesPc'[p] = "write" /\ job'[p] = [job[p] EXCEPT !.rows = cache.rows] /\ lock' = lock
               /\ job[p].victim.dir /\ ~cache.bad
         /\ UNCHANGED <<data, mtime, cache, now, trees, published>>
<1>1. CASE ~job[p].victim.dir
  BY <1>1, DoneStep DEF D!RecordRead, D!store, D!budget
<1>2. CASE job[p].victim.dir
  BY <1>2 DEF D!RecordRead, D!Goto, D!store, D!budget, JobsTyped
<1> QED
  BY <1>1, <1>2

LEMMA RecordWriteStep ==
  ASSUME JobsTyped, NEW p \in Procs, D!RecordWrite(p)
  PROVE  /\ sizesPc[p] = "write" /\ sizesPc'[p] = "idle" /\ job'[p] = D!NoJob
         /\ cache' = [rows |-> D!OtherRows(p) \cup
                        {[name |-> job[p].name, tree |-> job[p].sized, mtime |-> mtime[job[p].name]]},
                      bad |-> FALSE]
         /\ UNCHANGED <<data, mtime, now, trees, published>>
BY DoneStep DEF D!RecordWrite, D!Replace, D!budget

LEMMA RemoveDataStep ==
  ASSUME JobsTyped, NEW p \in Procs, NEW n \in Names, D!RemoveData(p, n)
  PROVE  /\ sizesPc[p] = "idle" /\ sizesPc'[p] = "unlink" /\ lock = {} /\ lock' = {p}
         /\ data[n] # D!Nothing /\ data' = [data EXCEPT ![n] = D!Nothing]
         /\ job'[p] = [job[p] EXCEPT !.name = n, !.victim = data[n]]
         /\ UNCHANGED <<mtime, cache, now, trees, published>>
BY DEF D!RemoveData, D!Goto, D!budget, JobsTyped

LEMMA RemoveSidecarStep ==
  ASSUME JobsTyped, NEW p \in Procs, D!RemoveSidecar(p)
  PROVE  /\ sizesPc[p] = "unlink" /\ sizesPc'[p] = "refresh" /\ lock' \in {lock, {}}
         /\ mtime' = [mtime EXCEPT ![job[p].name] = 0] /\ job' = job
         /\ UNCHANGED <<data, cache, now, trees, published>>
BY DEF D!RemoveSidecar, D!Goto, D!budget, JobsTyped

LEMMA RefreshStep ==
  ASSUME JobsTyped, NEW p \in Procs, D!Refresh(p)
  PROVE  /\ sizesPc[p] = "refresh"
         /\ \/ sizesPc'[p] = "reread" /\ job'[p] = job[p]
            \/ sizesPc'[p] = "idle" /\ job'[p] = D!NoJob /\ ~job[p].victim.dir
         /\ UNCHANGED <<data, mtime, cache, now, trees, published>>
<1>1. CASE D!NeedsRefresh(p)
  BY <1>1 DEF D!Refresh, D!Goto, D!store, D!budget, JobsTyped
<1>2. CASE ~D!NeedsRefresh(p)
  <2>1. ~job[p].victim.dir
    BY <1>2 DEF D!NeedsRefresh
  <2> QED
    BY <1>2, <2>1, DoneStep DEF D!Refresh, D!store, D!budget
<1> QED
  BY <1>1, <1>2

LEMMA RebuildReadStep ==
  ASSUME JobsTyped, NEW p \in Procs, D!RebuildRead(p)
  PROVE  /\ sizesPc[p] = "reread" /\ sizesPc'[p] = "scan"
         /\ job'[p] = [job[p] EXCEPT !.rows = cache.rows, !.lines = {}]
         /\ UNCHANGED <<data, mtime, cache, lock, now, trees, published>>
BY DEF D!RebuildRead, D!Goto, D!store, D!budget, JobsTyped

LEMMA RebuildScanStep ==
  ASSUME JobsTyped, NEW p \in Procs, D!RebuildScan(p)
  PROVE  /\ sizesPc[p] = "scan" /\ sizesPc'[p] = "visit"
         /\ job'[p] = [job[p] EXCEPT !.todo = {n \in Names : data[n].dir /\ mtime[n] # 0}]
         /\ UNCHANGED <<data, mtime, cache, lock, now, trees, published>>
BY DEF D!RebuildScan, D!Goto, D!store, D!budget, JobsTyped

LEMMA VisitStep ==
  ASSUME JobsTyped, NEW p \in Procs, NEW n \in Names, D!Visit(p, n)
  PROVE  /\ sizesPc[p] = "visit" /\ n \in job[p].todo
         /\ \/ /\ sizesPc'[p] = "visit" /\ job'[p] = [job[p] EXCEPT !.todo = job[p].todo \ {n}]
               /\ ~data[n].dir \/ mtime[n] = 0
            \/ /\ sizesPc'[p] = "visit" /\ data[n].dir
               /\ \E r \in job[p].rows :
                    /\ r.name = n /\ r.mtime = mtime[n]
                    /\ job'[p] = [job[p] EXCEPT !.todo = job[p].todo \ {n},
                                                !.lines = job[p].lines \cup {[r EXCEPT !.mtime = mtime[n]]}]
            \/ /\ sizesPc'[p] = "measure" /\ data[n].dir /\ mtime[n] # 0
               /\ job'[p] = [job[p] EXCEPT !.name = n, !.seen = mtime[n]]
         /\ UNCHANGED <<data, mtime, cache, lock, now, trees, published>>
<1>1. CASE ~data[n].dir \/ mtime[n] = 0
  BY <1>1 DEF D!Visit, D!store, D!budget, JobsTyped
<1>2. CASE data[n].dir /\ mtime[n] # 0 /\ D!Reusable(p, n) # {}
  <2> DEFINE j(r) == [job[p] EXCEPT !.todo = job[p].todo \ {n},
                                    !.lines = job[p].lines \cup {[r EXCEPT !.mtime = mtime[n]]}]
  <2>1. PICK r \in D!Reusable(p, n) : job' = [job EXCEPT ![p] = j(r)]
    BY <1>2 DEF D!Visit
  <2>2. job'[p] = j(r)
    <3> HIDE DEF j
    <3> QED
      BY <2>1 DEF JobsTyped
  <2>3. r \in job[p].rows /\ r.name = n /\ r.mtime = mtime[n]
    BY <2>1 DEF D!Reusable
  <2>4. sizesPc' = sizesPc /\ UNCHANGED <<data, mtime, cache, lock, now, trees, published>>
    BY <1>2 DEF D!Visit, D!store, D!budget
  <2>5. sizesPc[p] = "visit" /\ n \in job[p].todo
    BY <1>2 DEF D!Visit
  <2> QED
    BY <1>2, <2>2, <2>3, <2>4, <2>5
<1>3. CASE data[n].dir /\ mtime[n] # 0 /\ D!Reusable(p, n) = {}
  BY <1>3 DEF D!Visit, D!Goto, D!store, D!budget, JobsTyped
<1> QED
  BY <1>1, <1>2, <1>3

LEMMA MeasureStep ==
  ASSUME JobsTyped, NEW p \in Procs, D!Measure(p)
  PROVE  /\ sizesPc[p] = "measure" /\ sizesPc'[p] = "visit"
         /\ job'[p] = [job[p] EXCEPT !.todo = job[p].todo \ {job[p].name}, !.seen = 0,
                         !.lines = job[p].lines \cup
                           {[name |-> job[p].name, tree |-> data[job[p].name].tree, mtime |-> job[p].seen]}]
         /\ UNCHANGED <<data, mtime, cache, lock, now, trees, published>>
<1> DEFINE n == job[p].name
           j == [job[p] EXCEPT !.todo = job[p].todo \ {n}, !.seen = 0,
                               !.lines = job[p].lines \cup {D!SizedRow(p, n)}]
<1>1. job' = [job EXCEPT ![p] = j]
  BY DEF D!Measure
<1>2. job'[p] = j
  <2> HIDE DEF j
  <2> QED
    BY <1>1 DEF JobsTyped
<1>3. sizesPc[p] = "measure" /\ sizesPc'[p] = "visit"
  BY DEF D!Measure, D!Goto, JobsTyped
<1>4. UNCHANGED <<data, mtime, cache, lock, now, trees, published>>
  BY DEF D!Measure, D!store, D!budget
<1> QED
  BY <1>2, <1>3, <1>4 DEF D!SizedRow

LEMMA RebuildWriteStep ==
  ASSUME JobsTyped, NEW p \in Procs, D!RebuildWrite(p)
  PROVE  /\ sizesPc[p] = "visit" /\ job[p].todo = {} /\ sizesPc'[p] = "idle" /\ job'[p] = D!NoJob
         /\ cache' = [rows |-> job[p].lines, bad |-> FALSE]
         /\ UNCHANGED <<data, mtime, now, trees, published>>
BY DoneStep DEF D!RebuildWrite, D!Replace, D!budget

LEMMA CrashStep ==
  ASSUME JobsTyped, NEW p \in Procs, D!Crash(p)
  PROVE  /\ sizesPc'[p] = "idle" /\ job'[p] = D!NoJob
         /\ UNCHANGED <<data, mtime, cache, now, trees, published>>
BY DoneStep DEF D!Crash, D!store

LEMMA WorldSteps ==
  ASSUME D!Tick \/ D!Damage \/ UNCHANGED D!vars
  PROVE  /\ UNCHANGED <<data, mtime, lock, sizesPc, job, trees, published>>
         /\ now' = now \/ now' = now + 1
         /\ cache' = cache \/ (cache'.rows \subseteq cache.rows)
BY DEF D!Tick, D!Damage, D!vars, D!store, D!budget

-----------------------------------------------------------------------------
(* Types.                                                                  *)

\* A process that is done has an empty job.
LEMMA NoJobTyped ==
  ASSUME D!SizesAssumption
  PROVE  /\ D!NoJob \in D!Job /\ D!NoJob.rows = {} /\ D!NoJob.lines = {} /\ D!Nothing.dir = FALSE
         /\ \A n \in Names : D!Nothing \notin D!Thing
<1>1. (CHOOSE n \in Names : TRUE) \in Names
  BY DEF D!SizesAssumption
<1> QED
  BY <1>1 DEF D!NoJob, D!Job, D!Nothing, D!Thing, D!SizesAssumption

\* The fields of a job.
LEMMA JobFields ==
  ASSUME D!SizesAssumption, SizesTyped, NEW p \in Procs
  PROVE  /\ job[p].name \in Names /\ job[p].victim \in D!Thing \cup {D!Nothing}
         /\ job[p].sized \in 0..MaxTrees /\ job[p].rows \subseteq D!Row /\ job[p].todo \subseteq Names
         /\ job[p].lines \subseteq D!Row /\ job[p].seen \in 0..MaxTime /\ job[p].victim.tree \in 0..MaxTrees
         /\ job[p] = [name |-> job[p].name, victim |-> job[p].victim, sized |-> job[p].sized,
                      rows |-> job[p].rows, todo |-> job[p].todo, lines |-> job[p].lines, seen |-> job[p].seen]
<1>1. job[p] \in D!Job
  BY DEF SizesTyped, JobsTyped
<1>2. job[p].victim.tree \in 0..MaxTrees
  <2>1. job[p].victim \in D!Thing \cup {D!Nothing}
    BY <1>1 DEF D!Job
  <2>2. \A v \in D!Thing \cup {D!Nothing} : v.tree \in 0..MaxTrees
    BY DEF D!Thing, D!Nothing, D!SizesAssumption
  <2> QED
    BY <2>1, <2>2
<1> QED
  BY <1>1, <1>2 DEF D!Job

\* A job of fields that are right is right.
LEMMA JobMade ==
  ASSUME NEW j, DOMAIN j = {"name", "victim", "sized", "rows", "todo", "lines", "seen"},
         j = [k \in DOMAIN j |-> j[k]],
         j.name \in Names, j.victim \in D!Thing \cup {D!Nothing}, j.sized \in 0..MaxTrees,
         j.rows \subseteq D!Row, j.todo \subseteq Names, j.lines \subseteq D!Row, j.seen \in 0..MaxTime
  PROVE  j \in D!Job
<1>1. j = [name |-> j.name, victim |-> j.victim, sized |-> j.sized, rows |-> j.rows, todo |-> j.todo,
           lines |-> j.lines, seen |-> j.seen]
  OBVIOUS
<1> QED
  BY <1>1 DEF D!Job

\* What the disk holds keeps its types.
LEMMA DiskTypedNext ==
  ASSUME D!SizesAssumption, SizesTyped, SurveyInv, HoldInv, [D!Next]_(D!vars)
  PROVE  DiskTyped'
<1> USE DEF SizesTyped, DiskTyped
<1>1. ASSUME NEW p \in Procs, D!Publish(p) PROVE DiskTyped'
  <2> DEFINE n == job[p].name
             v == job[p].victim
  <2>1. /\ sizesPc[p] = "survey" /\ data' = [data EXCEPT ![n] = v] /\ mtime' = [mtime EXCEPT ![n] = now]
        /\ published' = published \cup {[name |-> n, tree |-> v.tree, at |-> now]} /\ cache' = cache
    BY <1>1, PublishStep
  <2>2. n \in Names
    BY JobFields
  <2>3. v \in D!Thing /\ v.tree \in 1..MaxTrees
    BY <2>1 DEF SurveyInv, D!Thing
  <2>4. now \in 1..MaxTime /\ now \in 0..MaxTime
    BY DEF CountsTyped, D!SizesAssumption
  <2> HIDE DEF n, v
  <2>5. [name |-> n, tree |-> v.tree, at |-> now] \in [name : Names, tree : 1..MaxTrees, at : 1..MaxTime]
    BY <2>2, <2>3, <2>4
  <2>6. data' \in [Names -> D!Thing \cup {D!Nothing}]
    BY <2>1, <2>2, <2>3
  <2>7. mtime' \in [Names -> 0..MaxTime]
    BY <2>1, <2>2, <2>4
  <2> QED
    BY <2>1, <2>5, <2>6, <2>7
<1>2. ASSUME NEW p \in Procs, NEW n \in Names, D!RemoveData(p, n) PROVE DiskTyped'
  <2>1. data' = [data EXCEPT ![n] = D!Nothing] /\ UNCHANGED <<mtime, cache, published>>
    BY <1>2, RemoveDataStep
  <2>2. data' \in [Names -> D!Thing \cup {D!Nothing}]
    BY <2>1
  <2> QED
    BY <2>1, <2>2
<1>3. ASSUME NEW p \in Procs, D!RemoveSidecar(p) PROVE DiskTyped'
  <2>1. mtime' = [mtime EXCEPT ![job[p].name] = 0] /\ UNCHANGED <<data, cache, published>>
    BY <1>3, RemoveSidecarStep
  <2>2. 0 \in 0..MaxTime
    BY DEF D!SizesAssumption
  <2>3. mtime' \in [Names -> 0..MaxTime]
    BY <2>1, <2>2
  <2> QED
    BY <2>1, <2>3
<1>4. ASSUME NEW p \in Procs, D!RecordWrite(p) PROVE DiskTyped'
  <2> DEFINE row == [name |-> job[p].name, tree |-> job[p].sized, mtime |-> mtime[job[p].name]]
  <2>1. job[p].name \in Names /\ job[p].sized \in 0..MaxTrees /\ job[p].rows \subseteq D!Row
    BY JobFields
  <2>2. /\ sizesPc[p] = "write" /\ cache' = [rows |-> D!OtherRows(p) \cup {row}, bad |-> FALSE]
        /\ UNCHANGED <<data, mtime, published>>
    BY <1>4, RecordWriteStep
  <2>3. mtime[job[p].name] \in 1..MaxTime
    BY <2>1, <2>2 DEF HoldInv, D!SizesAssumption
  <2>4. row \in D!Row
    BY <2>1, <2>3 DEF D!Row
  <2>5. D!OtherRows(p) \subseteq D!Row
    BY <2>1 DEF D!OtherRows
  <2> HIDE DEF row
  <2>6. cache' \in [rows : SUBSET D!Row, bad : BOOLEAN]
    BY <2>2, <2>4, <2>5
  <2> QED
    BY <2>2, <2>6
<1>5. ASSUME NEW p \in Procs, D!RebuildWrite(p) PROVE DiskTyped'
  <2>1. job[p].lines \subseteq D!Row
    BY JobFields
  <2>2. cache' = [rows |-> job[p].lines, bad |-> FALSE] /\ UNCHANGED <<data, mtime, published>>
    BY <1>5, RebuildWriteStep
  <2>3. cache' \in [rows : SUBSET D!Row, bad : BOOLEAN]
    BY <2>1, <2>2
  <2> QED
    BY <2>2, <2>3
<1>6. ASSUME NEW p \in Procs,
             D!Survey(p) \/ D!Swap(p) \/ D!RecordRead(p) \/ D!Refresh(p) \/ D!RebuildRead(p)
               \/ D!RebuildScan(p) \/ D!Measure(p) \/ D!Crash(p) \/ (\E n \in Names : D!Visit(p, n))
      PROVE  UNCHANGED <<data, mtime, cache, published>>
  BY <1>6, SurveyStep, SwapStep, RecordReadStep, RefreshStep, RebuildReadStep, RebuildScanStep,
     MeasureStep, CrashStep, VisitStep
<1>7. CASE D!Damage
  <2>1. PICK rows \in SUBSET cache.rows : cache' = [rows |-> rows, bad |-> TRUE]
    BY <1>7 DEF D!Damage
  <2>2. UNCHANGED <<data, mtime, published>>
    BY <1>7 DEF D!Damage
  <2> QED
    BY <2>1, <2>2
<1>8. CASE D!Tick \/ UNCHANGED D!vars
  BY <1>8 DEF D!Tick, D!vars, D!store
<1> QED
  BY <1>1, <1>2, <1>3, <1>4, <1>5, <1>6, <1>7, <1>8, SizesSteps DEF Worker

\* The clock and the counts stay in their bounds.
LEMMA CountsTypedNext ==
  ASSUME D!SizesAssumption, CountsTyped, [D!Next]_(D!vars)
  PROVE  CountsTyped'
<1> USE DEF CountsTyped, D!SizesAssumption
<1>1. ASSUME NEW p \in Procs, Worker(p) PROVE CountsTyped'
  <2>1. CASE D!Survey(p)
    BY <2>1 DEF D!Survey
  <2>2. CASE D!Swap(p)
    BY <2>2 DEF D!Swap
  <2>3. CASE D!Publish(p)
    BY <2>3 DEF D!Publish, D!budget
  <2>4. CASE D!RecordRead(p) \/ D!Refresh(p) \/ D!RebuildRead(p) \/ D!RebuildScan(p) \/ D!Measure(p)
               \/ (\E n \in Names : D!Visit(p, n))
    BY <2>4 DEF D!RecordRead, D!Refresh, D!RebuildRead, D!RebuildScan, D!Measure, D!Visit, D!budget
  <2>5. CASE D!RemoveSidecar(p) \/ (\E n \in Names : D!RemoveData(p, n))
    BY <2>5 DEF D!RemoveSidecar, D!RemoveData, D!budget
  <2>6. CASE D!RecordWrite(p) \/ D!RebuildWrite(p)
    <3>1. UNCHANGED <<now, trees, swaps, damage, crashes>>
      BY <2>6 DEF D!RecordWrite, D!RebuildWrite, D!budget
    <3>2. raced' = (raced \/ \E q \in Procs \ {p} : sizesPc[q] \in D!HasRead)
      BY <2>6 DEF D!RecordWrite, D!RebuildWrite, D!Replace
    <3>3. raced' \in BOOLEAN
      BY <3>2
    <3> QED
      BY <3>1, <3>3
  <2>7. CASE D!Crash(p)
    BY <2>7 DEF D!Crash
  <2> QED
    BY <1>1, <2>1, <2>2, <2>3, <2>4, <2>5, <2>6, <2>7 DEF Worker
<1>2. CASE D!Tick
  BY <1>2 DEF D!Tick
<1>3. CASE D!Damage
  BY <1>3 DEF D!Damage
<1>4. CASE UNCHANGED D!vars
  BY <1>4 DEF D!vars, D!budget
<1> QED
  BY <1>1, <1>2, <1>3, <1>4, SizesSteps

\* The tables of the processes stay tables.
LEMMA StillTables ==
  ASSUME JobsTyped, NEW p \in Procs, Worker(p)
  PROVE  job' = [o \in Procs |-> job'[o]] /\ sizesPc' = [o \in Procs |-> sizesPc'[o]]
<1>1. job = [o \in Procs |-> job[o]] /\ sizesPc = [o \in Procs |-> sizesPc[o]]
  BY DEF JobsTyped
<1> USE <1>1
<1>2. ASSUME NEW j, job' = [job EXCEPT ![p] = j] PROVE job' = [o \in Procs |-> job'[o]]
  BY <1>2
<1>3. ASSUME NEW step, D!Goto(p, step) PROVE sizesPc' = [o \in Procs |-> sizesPc'[o]]
  BY <1>3 DEF D!Goto
<1>4. ASSUME D!Done(p) PROVE job' = [o \in Procs |-> job'[o]] /\ sizesPc' = [o \in Procs |-> sizesPc'[o]]
  BY <1>2, <1>3, <1>4 DEF D!Done
<1>5. CASE D!Survey(p)
  BY <1>2, <1>3, <1>5 DEF D!Survey
<1>6. CASE D!Swap(p)
  BY <1>6 DEF D!Swap
<1>7. CASE D!Publish(p)
  BY <1>3, <1>7 DEF D!Publish
<1>8. CASE D!RecordRead(p)
  BY <1>3, <1>4, <1>8 DEF D!RecordRead
<1>9. CASE D!RecordWrite(p)
  BY <1>4, <1>9 DEF D!RecordWrite
<1>10. CASE D!RemoveSidecar(p)
  BY <1>3, <1>10 DEF D!RemoveSidecar
<1>11. CASE D!Refresh(p)
  BY <1>3, <1>4, <1>11 DEF D!Refresh
<1>12. CASE D!RebuildRead(p)
  BY <1>2, <1>3, <1>12 DEF D!RebuildRead
<1>13. CASE D!RebuildScan(p)
  BY <1>3, <1>13 DEF D!RebuildScan
<1>14. CASE D!Measure(p)
  BY <1>2, <1>3, <1>14 DEF D!Measure
<1>15. CASE D!RebuildWrite(p)
  BY <1>4, <1>15 DEF D!RebuildWrite
<1>16. CASE D!Crash(p)
  BY <1>4, <1>16 DEF D!Crash
<1>17. CASE \E n \in Names : D!RemoveData(p, n)
  BY <1>2, <1>3, <1>17 DEF D!RemoveData
<1>18. CASE \E n \in Names : D!Visit(p, n)
  BY <1>2, <1>3, <1>18 DEF D!Visit
<1> QED
  BY <1>5, <1>6, <1>7, <1>8, <1>9, <1>10, <1>11, <1>12, <1>13, <1>14, <1>15, <1>16, <1>17, <1>18 DEF Worker

\* What one process has in hand keeps its types.
LEMMA OwnJobTyped ==
  ASSUME D!SizesAssumption, SizesTyped, SeenInv, NEW p \in Procs, Worker(p)
  PROVE  sizesPc'[p] \in D!Steps /\ job'[p] \in D!Job
<1>1. /\ job[p].name \in Names /\ job[p].victim \in D!Thing \cup {D!Nothing}
      /\ job[p].sized \in 0..MaxTrees /\ job[p].rows \subseteq D!Row /\ job[p].todo \subseteq Names
      /\ job[p].lines \subseteq D!Row /\ job[p].seen \in 0..MaxTime /\ job[p].victim.tree \in 0..MaxTrees
      /\ job[p] = [name |-> job[p].name, victim |-> job[p].victim, sized |-> job[p].sized,
                   rows |-> job[p].rows, todo |-> job[p].todo, lines |-> job[p].lines, seen |-> job[p].seen]
  BY JobFields
<1>2. JobsTyped /\ job[p] \in D!Job /\ sizesPc[p] \in D!Steps /\ cache.rows \subseteq D!Row
  BY DEF SizesTyped, JobsTyped, DiskTyped
<1>3. D!NoJob \in D!Job
  BY NoJobTyped
<1>4. CASE D!Survey(p)
  <2>1. PICK n \in Names, d \in BOOLEAN :
          job'[p] = [job[p] EXCEPT !.name = n, !.sized = trees + 1, !.victim = [tree |-> trees + 1, dir |-> d]]
    BY <1>2, <1>4, SurveyStep
  <2>2. trees + 1 \in 1..MaxTrees /\ trees + 1 \in 0..MaxTrees
    <3>1. trees < MaxTrees /\ trees \in 0..MaxTrees
      BY <1>2, <1>4, SurveyStep DEF SizesTyped, CountsTyped
    <3> QED
      BY <3>1 DEF D!SizesAssumption
  <2>3. [tree |-> trees + 1, dir |-> d] \in D!Thing
    BY <2>2 DEF D!Thing
  <2>4. job'[p] \in D!Job
    BY <1>1, <2>1, <2>2, <2>3, JobMade
  <2>5. sizesPc'[p] = "survey"
    BY <1>2, <1>4, SurveyStep
  <2> QED
    BY <2>4, <2>5 DEF D!Steps
<1>5. CASE D!Swap(p)
  <2> DEFINE v == [job[p].victim EXCEPT !.tree = trees + 1]
  <2>1. job'[p] = [job[p] EXCEPT !.victim = v] /\ sizesPc' = sizesPc
    BY <1>2, <1>5, SwapStep
  <2>2. trees + 1 \in 1..MaxTrees
    <3>1. trees < MaxTrees /\ trees \in 0..MaxTrees
      BY <1>2, <1>5, SwapStep DEF SizesTyped, CountsTyped
    <3> QED
      BY <3>1 DEF D!SizesAssumption
  <2>3. v \in D!Thing
    <3>1. job[p].victim = [tree |-> job[p].victim.tree, dir |-> job[p].victim.dir]
          /\ job[p].victim.dir \in BOOLEAN
      <4>1. CASE job[p].victim \in D!Thing
        BY <4>1 DEF D!Thing
      <4>2. CASE job[p].victim = D!Nothing
        BY <4>2 DEF D!Nothing
      <4> QED
        BY <1>1, <4>1, <4>2
    <3>2. v = [tree |-> trees + 1, dir |-> job[p].victim.dir]
      BY <3>1
    <3> QED
      BY <2>2, <3>1, <3>2 DEF D!Thing
  <2> HIDE DEF v
  <2>4. job'[p] \in D!Job
    BY <1>1, <2>1, <2>3, JobMade
  <2> QED
    BY <1>2, <2>1, <2>4
<1>6. CASE D!Publish(p)
  <2>1. sizesPc'[p] = "read"
        /\ job'[p] = (IF p \in ByHandle THEN job[p] ELSE [job[p] EXCEPT !.sized = job[p].victim.tree])
    BY <1>2, <1>6, PublishStep
  <2>2. job'[p] \in D!Job
    BY <1>1, <1>2, <2>1, JobMade
  <2> QED
    BY <2>1, <2>2 DEF D!Steps
<1>7. CASE D!RecordRead(p)
  <2>1. \/ sizesPc'[p] = "idle" /\ job'[p] = D!NoJob
        \/ sizesPc'[p] = "reread" /\ job'[p] = job[p]
        \/ sizesPc'[p] = "write" /\ job'[p] = [job[p] EXCEPT !.rows = cache.rows]
    BY <1>2, <1>7, RecordReadStep
  <2>2. [job[p] EXCEPT !.rows = cache.rows] \in D!Job
    BY <1>1, <1>2, JobMade
  <2> QED
    BY <1>2, <1>3, <2>1, <2>2 DEF D!Steps
<1>8. CASE D!RecordWrite(p) \/ D!RebuildWrite(p) \/ D!Crash(p)
  <2>1. sizesPc'[p] = "idle" /\ job'[p] = D!NoJob
    BY <1>2, <1>8, RecordWriteStep, RebuildWriteStep, CrashStep
  <2> QED
    BY <1>3, <2>1 DEF D!Steps
<1>9. CASE D!RemoveSidecar(p)
  <2>1. sizesPc'[p] = "refresh" /\ job' = job
    BY <1>2, <1>9, RemoveSidecarStep
  <2> QED
    BY <1>2, <2>1 DEF D!Steps
<1>10. CASE D!Refresh(p)
  <2>1. \/ sizesPc'[p] = "reread" /\ job'[p] = job[p]
        \/ sizesPc'[p] = "idle" /\ job'[p] = D!NoJob
    BY <1>2, <1>10, RefreshStep
  <2> QED
    BY <1>2, <1>3, <2>1 DEF D!Steps
<1>11. CASE D!RebuildRead(p)
  <2>1. sizesPc'[p] = "scan" /\ job'[p] = [job[p] EXCEPT !.rows = cache.rows, !.lines = {}]
    BY <1>2, <1>11, RebuildReadStep
  <2>2. job'[p] \in D!Job
    BY <1>1, <1>2, <2>1, JobMade
  <2> QED
    BY <2>1, <2>2 DEF D!Steps
<1>12. CASE D!RebuildScan(p)
  <2> DEFINE found == {n \in Names : data[n].dir /\ mtime[n] # 0}
  <2>1. sizesPc'[p] = "visit" /\ job'[p] = [job[p] EXCEPT !.todo = found]
    BY <1>2, <1>12, RebuildScanStep
  <2>2. found \subseteq Names
    OBVIOUS
  <2> HIDE DEF found
  <2>3. job'[p] \in D!Job
    BY <1>1, <2>1, <2>2, JobMade
  <2> QED
    BY <2>1, <2>3 DEF D!Steps
<1>13. CASE D!Measure(p)
  <2> DEFINE row == [name |-> job[p].name, tree |-> data[job[p].name].tree, mtime |-> job[p].seen]
  <2>1. /\ sizesPc[p] = "measure" /\ sizesPc'[p] = "visit"
        /\ job'[p] = [job[p] EXCEPT !.todo = job[p].todo \ {job[p].name}, !.seen = 0,
                                    !.lines = job[p].lines \cup {row}]
    BY <1>2, <1>13, MeasureStep
  <2>2. job[p].seen \in 1..MaxTime
    BY <2>1 DEF SeenInv, Dated, SizesTyped, DiskTyped
  <2>3. data[job[p].name].tree \in 0..MaxTrees
    <3>1. data[job[p].name] \in D!Thing \cup {D!Nothing}
      BY <1>1 DEF SizesTyped, DiskTyped
    <3>2. \A v \in D!Thing \cup {D!Nothing} : v.tree \in 0..MaxTrees
      BY DEF D!Thing, D!Nothing, D!SizesAssumption
    <3> QED
      BY <3>1, <3>2
  <2>4. row \in D!Row
    BY <1>1, <2>2, <2>3 DEF D!Row
  <2>5. 0 \in 0..MaxTime
    BY DEF D!SizesAssumption
  <2> HIDE DEF row
  <2>6. job'[p] \in D!Job
    BY <1>1, <2>1, <2>4, <2>5, JobMade
  <2> QED
    BY <2>1, <2>6 DEF D!Steps
<1>14. ASSUME NEW n \in Names, D!RemoveData(p, n)
       PROVE  sizesPc'[p] \in D!Steps /\ job'[p] \in D!Job
  <2>1. sizesPc'[p] = "unlink" /\ job'[p] = [job[p] EXCEPT !.name = n, !.victim = data[n]]
    BY <1>2, <1>14, RemoveDataStep
  <2>2. data[n] \in D!Thing \cup {D!Nothing}
    BY DEF SizesTyped, DiskTyped
  <2>3. job'[p] \in D!Job
    BY <1>1, <2>1, <2>2, JobMade
  <2> QED
    BY <2>1, <2>3 DEF D!Steps
<1>15. ASSUME NEW n \in Names, D!Visit(p, n)
       PROVE  sizesPc'[p] \in D!Steps /\ job'[p] \in D!Job
  <2>1. mtime[n] \in 0..MaxTime
    BY DEF SizesTyped, DiskTyped
  <2>2. ASSUME job'[p] = [job[p] EXCEPT !.todo = job[p].todo \ {n}] PROVE job'[p] \in D!Job
    BY <1>1, <2>2, JobMade
  <2>3. ASSUME \E r \in job[p].rows : /\ r.name = n /\ r.mtime = mtime[n]
               /\ job'[p] = [job[p] EXCEPT !.todo = job[p].todo \ {n},
                                           !.lines = job[p].lines \cup {[r EXCEPT !.mtime = mtime[n]]}]
        PROVE  job'[p] \in D!Job
    <3>1. PICK r \in job[p].rows : /\ r.mtime = mtime[n]
               /\ job'[p] = [job[p] EXCEPT !.todo = job[p].todo \ {n},
                                           !.lines = job[p].lines \cup {[r EXCEPT !.mtime = mtime[n]]}]
      BY <2>3
    <3>2. r \in D!Row /\ [r EXCEPT !.mtime = mtime[n]] = r
      BY <1>1, <3>1 DEF D!Row
    <3>3. job'[p] = [job[p] EXCEPT !.todo = job[p].todo \ {n}, !.lines = job[p].lines \cup {r}]
      BY <3>1, <3>2
    <3> QED
      BY <1>1, <3>2, <3>3, JobMade
  <2>4. ASSUME job'[p] = [job[p] EXCEPT !.name = n, !.seen = mtime[n]] PROVE job'[p] \in D!Job
    BY <1>1, <2>1, <2>4, JobMade
  <2>5. sizesPc'[p] \in {"visit", "measure"}
    BY <1>2, <1>15, VisitStep
  <2>6. job'[p] \in D!Job
    BY <1>2, <1>15, <2>2, <2>3, <2>4, VisitStep
  <2> QED
    BY <2>5, <2>6 DEF D!Steps
<1> QED
  BY <1>4, <1>5, <1>6, <1>7, <1>8, <1>9, <1>10, <1>11, <1>12, <1>13, <1>14, <1>15 DEF Worker

\* One step changes one process, so the tables stay typed.
LEMMA JobsTypedNext ==
  ASSUME D!SizesAssumption, SizesTyped, SeenInv, [D!Next]_(D!vars)
  PROVE  JobsTyped'
<1>1. JobsTyped
  BY DEF SizesTyped
<1>2. ASSUME NEW p \in Procs, Worker(p) PROVE JobsTyped'
  <2>1. sizesPc'[p] \in D!Steps /\ job'[p] \in D!Job
    BY <1>2, OwnJobTyped
  <2>2. \A o \in Procs : sizesPc'[o] \in D!Steps /\ job'[o] \in D!Job
    BY <1>1, <1>2, <2>1, OthersWait DEF JobsTyped
  <2>3. job' = [o \in Procs |-> job'[o]] /\ sizesPc' = [o \in Procs |-> sizesPc'[o]]
    BY <1>1, <1>2, StillTables
  <2> QED
    BY <2>2, <2>3 DEF JobsTyped
<1>3. CASE D!Tick \/ D!Damage \/ UNCHANGED D!vars
  BY <1>1, <1>3, WorldSteps DEF JobsTyped
<1> QED
  BY <1>2, <1>3, SizesSteps

-----------------------------------------------------------------------------
(* What holds at each step.                                                *)

\* How a step of p treats the lock.
LEMMA LockMoves ==
  ASSUME JobsTyped, NEW p \in Procs, Worker(p)
  PROVE  /\ \/ lock' = lock \/ lock' = lock \ {p}
            \/ lock = {} /\ lock' = {p}
            \/ sizesPc[p] = "unlink" /\ lock' = {}
         /\ \/ sizesPc'[p] \notin {"read", "write", "unlink"}
            \/ lock' = {p}
            \/ sizesPc[p] = "read" /\ lock' = lock
<1>1. ASSUME D!Done(p) PROVE lock' = lock \ {p} /\ sizesPc'[p] = "idle"
  BY <1>1, DoneStep
<1>2. CASE D!Survey(p) \/ D!RebuildRead(p) \/ D!RebuildScan(p) \/ D!Measure(p)
  BY <1>2, SurveyStep, RebuildReadStep, RebuildScanStep, MeasureStep
<1>3. CASE D!Swap(p)
  BY <1>3, SwapStep
<1>4. CASE D!Publish(p) \/ (\E n \in Names : D!RemoveData(p, n))
  BY <1>4, PublishStep, RemoveDataStep
<1>5. CASE D!RecordRead(p)
  <2>1. CASE D!Done(p)
    BY <1>1, <2>1
  <2>2. CASE ~D!Done(p)
    <3>1. lock' = lock
      BY <1>5, <2>2 DEF D!RecordRead
    <3> QED
      BY <1>5, <3>1, RecordReadStep
  <2> QED
    BY <2>1, <2>2
<1>6. CASE D!RecordWrite(p) \/ D!RebuildWrite(p) \/ D!Crash(p)
  BY <1>1, <1>6 DEF D!RecordWrite, D!RebuildWrite, D!Crash
<1>7. CASE D!RemoveSidecar(p)
  BY <1>7, RemoveSidecarStep
<1>8. CASE D!Refresh(p)
  <2>1. CASE D!Done(p)
    BY <1>1, <2>1
  <2>2. CASE ~D!Done(p)
    <3>1. lock' = lock
      BY <1>8, <2>2 DEF D!Refresh
    <3> QED
      BY <1>8, <3>1, RefreshStep
  <2> QED
    BY <2>1, <2>2
<1>9. CASE \E n \in Names : D!Visit(p, n)
  BY <1>9, VisitStep
<1> QED
  BY <1>2, <1>3, <1>4, <1>5, <1>6, <1>7, <1>8, <1>9 DEF Worker

\* One process holds the lock; who needs it has it.
LEMMA LockNext ==
  ASSUME JobsTyped, LockInv, [D!Next]_(D!vars)
  PROVE  LockInv'
<1>1. ASSUME NEW p \in Procs, Worker(p) PROVE LockInv'
  <2>1. lock' \subseteq Procs /\ \A a, b \in lock' : a = b
    BY <1>1, LockMoves DEF LockInv
  <2>2. sizesPc'[p] \in {"read", "write", "unlink"} => p \in lock'
    BY <1>1, LockMoves DEF LockInv
  <2>3. ASSUME NEW o \in Procs, o # p, sizesPc'[o] \in {"read", "write", "unlink"} PROVE o \in lock'
    <3>1. o \in lock
      BY <1>1, <2>3, OthersWait DEF LockInv
    <3>2. p \notin lock /\ sizesPc[p] # "unlink"
      BY <2>3, <3>1 DEF LockInv
    <3> QED
      BY <1>1, <2>3, <3>1, <3>2, LockMoves
  <2> QED
    BY <2>1, <2>2, <2>3 DEF LockInv
<1>2. CASE D!Tick \/ D!Damage \/ UNCHANGED D!vars
  BY <1>2, WorldSteps DEF LockInv
<1> QED
  BY <1>1, <1>2, SizesSteps

\* The history only grows, and the number of trees.
LEMMA HistoryGrows ==
  ASSUME SizesTyped, [D!Next]_(D!vars)
  PROVE  /\ published \subseteq published' /\ trees <= trees' /\ now <= now'
         /\ trees' \in Nat /\ now' \in Nat
<1>1. JobsTyped /\ trees \in Nat /\ now \in Nat
  BY DEF SizesTyped, CountsTyped
<1>2. ASSUME NEW p \in Procs, Worker(p)
      PROVE  /\ published \subseteq published' /\ (trees' = trees \/ trees' = trees + 1) /\ now' = now
  <2>1. CASE D!Survey(p) \/ D!Swap(p)
    BY <1>1, <2>1, SurveyStep, SwapStep
  <2>2. CASE D!Publish(p)
    BY <1>1, <2>2, PublishStep
  <2>3. CASE D!RecordRead(p) \/ D!RecordWrite(p) \/ D!RemoveSidecar(p) \/ D!Refresh(p)
    BY <1>1, <2>3, RecordReadStep, RecordWriteStep, RemoveSidecarStep, RefreshStep
  <2>4. CASE D!RebuildRead(p) \/ D!RebuildScan(p) \/ D!Measure(p) \/ D!RebuildWrite(p) \/ D!Crash(p)
    BY <1>1, <2>4, RebuildReadStep, RebuildScanStep, MeasureStep, RebuildWriteStep, CrashStep
  <2>5. CASE \E n \in Names : D!RemoveData(p, n) \/ D!Visit(p, n)
    BY <1>1, <2>5, RemoveDataStep, VisitStep
  <2> QED
    BY <1>2, <2>1, <2>2, <2>3, <2>4, <2>5 DEF Worker
<1>3. CASE D!Tick \/ D!Damage \/ UNCHANGED D!vars
  BY <1>1, <1>3, WorldSteps
<1> QED
  BY <1>1, <1>2, <1>3, SizesSteps

\* Data and sidecars change in three ways.
LEMMA StoreMoves ==
  ASSUME JobsTyped, [D!Next]_(D!vars)
  PROVE  \/ UNCHANGED <<data, mtime, published>>
         \/ \E p \in Procs : D!Publish(p) \/ D!RemoveSidecar(p) \/ \E n \in Names : D!RemoveData(p, n)
<1>1. ASSUME NEW p \in Procs, Worker(p)
      PROVE  \/ UNCHANGED <<data, mtime, published>>
             \/ D!Publish(p) \/ D!RemoveSidecar(p) \/ \E n \in Names : D!RemoveData(p, n)
  <2>1. CASE D!Survey(p) \/ D!Swap(p)
    BY <2>1, SurveyStep, SwapStep
  <2>2. CASE D!RecordRead(p) \/ D!RecordWrite(p) \/ D!Refresh(p)
    BY <2>2, RecordReadStep, RecordWriteStep, RefreshStep
  <2>3. CASE D!RebuildRead(p) \/ D!RebuildScan(p) \/ D!Measure(p) \/ D!RebuildWrite(p) \/ D!Crash(p)
    BY <2>3, RebuildReadStep, RebuildScanStep, MeasureStep, RebuildWriteStep, CrashStep
  <2>4. CASE \E n \in Names : D!Visit(p, n)
    BY <2>4, VisitStep
  <2> QED
    BY <1>1, <2>1, <2>2, <2>3, <2>4 DEF Worker
<1>2. CASE D!Tick \/ D!Damage \/ UNCHANGED D!vars
  BY <1>2, WorldSteps
<1> QED
  BY <1>1, <1>2, SizesSteps

\* A publication, at its name and elsewhere.
LEMMA Published ==
  ASSUME D!SizesAssumption, SizesTyped, SurveyInv, NEW p \in Procs, D!Publish(p), NEW m \in Names
  PROVE  LET n == job[p].name  v == job[p].victim  new == [name |-> n, tree |-> v.tree, at |-> now] IN
         /\ m = n => data'[m] = v /\ mtime'[m] = now
         /\ m # n => data'[m] = data[m] /\ mtime'[m] = mtime[m]
         /\ v # D!Nothing /\ now # 0 /\ published' = published \cup {new}
         /\ \A q \in published : q.tree # v.tree
         /\ data[n] = D!Nothing /\ mtime[n] = 0 /\ n \in Names
<1> DEFINE n == job[p].name
           v == job[p].victim
<1>1. JobsTyped
  BY DEF SizesTyped
<1>2. /\ sizesPc[p] = "survey" /\ data[n] = D!Nothing /\ mtime[n] = 0
      /\ data' = [data EXCEPT ![n] = v] /\ mtime' = [mtime EXCEPT ![n] = now]
      /\ published' = published \cup {[name |-> n, tree |-> v.tree, at |-> now]}
  BY <1>1, PublishStep
<1>3. n \in Names
  BY JobFields
<1>4. v \in D!Thing /\ \A q \in published : q.tree # v.tree
  BY <1>2 DEF SurveyInv
<1>5. v # D!Nothing
  BY <1>4, NoJobTyped
<1>6. now # 0
  BY DEF SizesTyped, CountsTyped
<1> HIDE DEF n, v
<1>7. DOMAIN data = Names /\ DOMAIN mtime = Names
  BY DEF SizesTyped, DiskTyped
<1>8. /\ m = n => data'[m] = v /\ mtime'[m] = now
      /\ m # n => data'[m] = data[m] /\ mtime'[m] = mtime[m]
  BY <1>2, <1>3, <1>7
<1> QED
  BY <1>2, <1>3, <1>4, <1>5, <1>6, <1>8 DEF n, v

\* A removal of data, and of a sidecar.
LEMMA Removed ==
  ASSUME D!SizesAssumption, SizesTyped, NEW p \in Procs, NEW m \in Names
  PROVE  /\ \A n \in Names : D!RemoveData(p, n) =>
              /\ data'[m] = IF m = n THEN D!Nothing ELSE data[m]
              /\ UNCHANGED <<mtime, published>> /\ lock = {}
         /\ D!RemoveSidecar(p) =>
              /\ mtime'[m] = IF m = job[p].name THEN 0 ELSE mtime[m]
              /\ UNCHANGED <<data, published>> /\ sizesPc[p] = "unlink"
<1>1. JobsTyped /\ DOMAIN data = Names /\ DOMAIN mtime = Names
  BY DEF SizesTyped, DiskTyped
<1>2. ASSUME NEW n \in Names, D!RemoveData(p, n)
      PROVE  /\ data'[m] = IF m = n THEN D!Nothing ELSE data[m]
             /\ UNCHANGED <<mtime, published>> /\ lock = {}
  <2>1. data' = [data EXCEPT ![n] = D!Nothing] /\ UNCHANGED <<mtime, published>> /\ lock = {}
    BY <1>1, <1>2, RemoveDataStep
  <2> QED
    BY <1>1, <2>1
<1>3. ASSUME D!RemoveSidecar(p)
      PROVE  /\ mtime'[m] = IF m = job[p].name THEN 0 ELSE mtime[m]
             /\ UNCHANGED <<data, published>> /\ sizesPc[p] = "unlink"
  <2>1. /\ mtime' = [mtime EXCEPT ![job[p].name] = 0] /\ UNCHANGED <<data, published>>
        /\ sizesPc[p] = "unlink"
    BY <1>1, <1>3, RemoveSidecarStep
  <2> QED
    BY <1>1, <2>1
<1> QED
  BY <1>2, <1>3

\* Data that has its sidecar again was trashed with it.
LEMMA ShownNext ==
  ASSUME D!SizesAssumption, SizesTyped, SurveyInv, Shown, [D!Next]_(D!vars)
  PROVE  Shown'
<1> SUFFICES ASSUME NEW m \in Names, data'[m] # D!Nothing, mtime'[m] # 0
             PROVE  [name |-> m, tree |-> data'[m].tree, at |-> mtime'[m]] \in published'
  BY DEF Shown
<1>1. JobsTyped
  BY DEF SizesTyped
<1>2. CASE UNCHANGED <<data, mtime, published>>
  BY <1>2 DEF Shown
<1>3. ASSUME NEW p \in Procs, D!Publish(p)
      PROVE  [name |-> m, tree |-> data'[m].tree, at |-> mtime'[m]] \in published'
  BY <1>3, Published DEF Shown
<1>4. ASSUME NEW p \in Procs, NEW n \in Names, D!RemoveData(p, n)
      PROVE  [name |-> m, tree |-> data'[m].tree, at |-> mtime'[m]] \in published'
  BY <1>4, Removed DEF Shown
<1>5. ASSUME NEW p \in Procs, D!RemoveSidecar(p)
      PROVE  [name |-> m, tree |-> data'[m].tree, at |-> mtime'[m]] \in published'
  BY <1>5, Removed DEF Shown
<1> QED
  BY <1>1, <1>2, <1>3, <1>4, <1>5, StoreMoves

\* A row that is right stays right: what comes to be accepted by it was trashed
\* in the second it names, which is then used twice.
LEMMA RowStays ==
  ASSUME D!SizesAssumption, SizesTyped, SurveyInv, [D!Next]_(D!vars), NEW r, r.name \in Names, RowOK(r),
         r.mtime # 0
  PROVE  RowOK(r)'
<1>1. JobsTyped /\ published \subseteq published'
  BY HistoryGrows DEF SizesTyped
<1>2. Dated(r.name, r.mtime)'
  BY <1>1 DEF RowOK, Dated
<1>3. D!SameSecond(r) => D!SameSecond(r)'
  BY <1>1 DEF D!SameSecond
<1>4. CASE UNCHANGED <<data, mtime, published>>
  BY <1>2, <1>3, <1>4 DEF RowOK
<1>5. ASSUME NEW p \in Procs, D!Publish(p) PROVE RowOK(r)'
  <2> DEFINE new == [name |-> job[p].name, tree |-> job[p].victim.tree, at |-> now]
  <2>1. CASE r.name = job[p].name /\ r.mtime = now
    <3>1. PICK q \in published : q.name = r.name /\ q.at = r.mtime
      BY DEF RowOK, Dated
    <3>2. new \in published' /\ q \in published' /\ new # q
      BY <1>1, <1>5, <3>1, Published
    <3>3. D!SameSecond(r)'
      BY <2>1, <3>1, <3>2 DEF D!SameSecond
    <3> QED
      BY <1>2, <3>3 DEF RowOK
  <2>2. CASE r.name = job[p].name /\ r.mtime # now
    <3>1. mtime'[r.name] # r.mtime
      BY <1>5, <2>2, Published
    <3> QED
      BY <1>2, <3>1 DEF RowOK
  <2>3. CASE r.name # job[p].name
    <3>1. data'[r.name] = data[r.name] /\ mtime'[r.name] = mtime[r.name]
      BY <1>5, <2>3, Published
    <3> QED
      BY <1>2, <1>3, <3>1 DEF RowOK
  <2> QED
    BY <2>1, <2>2, <2>3
<1>6. ASSUME NEW p \in Procs, NEW n \in Names, D!RemoveData(p, n) PROVE RowOK(r)'
  <2>1. data'[r.name].dir => data'[r.name] = data[r.name]
    BY <1>6, Removed, NoJobTyped
  <2>2. UNCHANGED mtime
    BY <1>6, Removed
  <2> QED
    BY <1>2, <1>3, <2>1, <2>2 DEF RowOK
<1>7. ASSUME NEW p \in Procs, D!RemoveSidecar(p) PROVE RowOK(r)'
  <2>1. mtime'[r.name] = r.mtime => mtime[r.name] = r.mtime
    BY <1>7, Removed
  <2>2. UNCHANGED data
    BY <1>7, Removed
  <2> QED
    BY <1>2, <1>3, <2>1, <2>2 DEF RowOK
<1> QED
  BY <1>1, <1>4, <1>5, <1>6, <1>7, StoreMoves


\* A step of one process that leaves trees and history alone, and is not one of
\* a survey.
LEMMA OthersSurvey ==
  ASSUME JobsTyped, SurveyInv, NEW p \in Procs, Worker(p), sizesPc'[p] # "survey",
         UNCHANGED <<published, trees, now>>
  PROVE  SurveyInv'
<1>1. \A o \in Procs : sizesPc'[o] = "survey" => o # p /\ sizesPc[o] = "survey" /\ job'[o] = job[o]
  BY OthersWait
<1>2. ASSUME NEW o \in Procs, sizesPc'[o] = "survey"
      PROVE  /\ job'[o].victim \in D!Thing /\ job'[o].victim.tree <= trees'
             /\ MaxSwaps = 0 => job'[o].sized = job'[o].victim.tree
             /\ \A q \in published' : q.tree # job'[o].victim.tree
             /\ \A s \in Procs : s # o /\ sizesPc'[s] = "survey" => job'[s].victim.tree # job'[o].victim.tree
  BY <1>1, <1>2 DEF SurveyInv
<1>3. \A q \in published' : q.tree <= trees' /\ q.at <= now'
  BY DEF SurveyInv
<1>4. UNCHANGED D!Thing
  BY DEF D!Thing
<1> QED
  BY <1>2, <1>3, <1>4 DEF SurveyInv

\* One that gives p a new tree in hand.
LEMMA NewTree ==
  ASSUME SizesTyped, SurveyInv, NEW p \in Procs, Worker(p), sizesPc'[p] = "survey",
         trees' = trees + 1, UNCHANGED <<published, now>>,
         job'[p].victim \in D!Thing, job'[p].victim.tree = trees + 1,
         MaxSwaps = 0 => job'[p].sized = job'[p].victim.tree
  PROVE  SurveyInv'
<1>1. JobsTyped /\ trees \in Nat
  BY DEF SizesTyped, CountsTyped
<1>2. \A q \in published : q.tree \in Nat /\ q.tree <= trees /\ q.at <= now
  BY DEF SurveyInv, SizesTyped, DiskTyped
<1>3. \A o \in Procs \ {p} : sizesPc'[o] = sizesPc[o] /\ job'[o] = job[o]
  BY <1>1, OthersWait
<1>4. \A o \in Procs : sizesPc[o] = "survey" =>
        /\ job[o].victim \in D!Thing /\ job[o].victim.tree \in Nat /\ job[o].victim.tree <= trees
        /\ MaxSwaps = 0 => job[o].sized = job[o].victim.tree
        /\ \A q \in published : q.tree # job[o].victim.tree
        /\ \A s \in Procs : s # o /\ sizesPc[s] = "survey" => job[s].victim.tree # job[o].victim.tree
  <2>1. \A v \in D!Thing : v.tree \in Nat
    BY DEF D!Thing
  <2> QED
    BY <2>1 DEF SurveyInv
<1>5. ASSUME NEW o \in Procs, sizesPc'[o] = "survey"
      PROVE  /\ job'[o].victim \in D!Thing /\ job'[o].victim.tree <= trees'
             /\ MaxSwaps = 0 => job'[o].sized = job'[o].victim.tree
             /\ \A q \in published' : q.tree # job'[o].victim.tree
             /\ \A s \in Procs : s # o /\ sizesPc'[s] = "survey" => job'[s].victim.tree # job'[o].victim.tree
  <2>1. CASE o = p
    <3>1. \A q \in published' : q.tree # job'[o].victim.tree
      BY <1>1, <1>2, <2>1
    <3>2. \A s \in Procs : s # o /\ sizesPc'[s] = "survey" => job'[s].victim.tree # job'[o].victim.tree
      BY <1>1, <1>3, <1>4, <2>1
    <3> QED
      BY <1>1, <2>1, <3>1, <3>2
  <2>2. CASE o # p
    <3>1. sizesPc[o] = "survey" /\ job'[o] = job[o]
      BY <1>3, <1>5, <2>2
    <3>2. /\ job[o].victim \in D!Thing /\ job[o].victim.tree \in Nat /\ job[o].victim.tree <= trees
          /\ MaxSwaps = 0 => job[o].sized = job[o].victim.tree
          /\ \A q \in published : q.tree # job[o].victim.tree
          /\ \A s \in Procs : s # o /\ sizesPc[s] = "survey" => job[s].victim.tree # job[o].victim.tree
      BY <1>4, <3>1
    <3>3. job'[p].victim.tree # job[o].victim.tree
      BY <1>1, <3>2
    <3>4. \A s \in Procs : s # o /\ sizesPc'[s] = "survey" => job'[s].victim.tree # job'[o].victim.tree
      BY <1>3, <3>1, <3>2, <3>3
    <3>5. job[o].victim.tree <= trees'
      BY <1>1, <3>2
    <3> QED
      BY <3>1, <3>2, <3>4, <3>5
  <2> QED
    BY <2>1, <2>2
<1>6. \A q \in published' : q.tree <= trees' /\ q.at <= now'
  BY <1>1, <1>2
<1> QED
  BY <1>5, <1>6 DEF SurveyInv, D!Thing

\* Every tree is surveyed by one process, before it is ever trashed.
LEMMA SurveyNext ==
  ASSUME D!SizesAssumption, SizesTyped, SurveyInv, [D!Next]_(D!vars)
  PROVE  SurveyInv'
<1>1. JobsTyped
  BY DEF SizesTyped
<1>2. ASSUME NEW p \in Procs, Worker(p), D!Survey(p) PROVE SurveyInv'
  <2>1. PICK n \in Names, d \in BOOLEAN :
          job'[p] = [job[p] EXCEPT !.name = n, !.sized = trees + 1, !.victim = [tree |-> trees + 1, dir |-> d]]
    BY <1>1, <1>2, SurveyStep
  <2>2. /\ sizesPc'[p] = "survey" /\ trees < MaxTrees /\ trees' = trees + 1
        /\ UNCHANGED <<now, published>>
    BY <1>1, <1>2, SurveyStep
  <2>3. trees + 1 \in 1..MaxTrees
    BY <2>2 DEF SizesTyped, CountsTyped, D!SizesAssumption
  <2>4. job'[p].victim = [tree |-> trees + 1, dir |-> d] /\ job'[p].sized = trees + 1
    BY <2>1, JobFields
  <2>5. job'[p].victim \in D!Thing /\ job'[p].victim.tree = trees + 1
    BY <2>3, <2>4 DEF D!Thing
  <2> QED
    BY <1>2, <2>2, <2>4, <2>5, NewTree
<1>3. ASSUME NEW p \in Procs, Worker(p), D!Swap(p) PROVE SurveyInv'
  <2>1. /\ sizesPc[p] = "survey" /\ sizesPc' = sizesPc /\ trees < MaxTrees /\ trees' = trees + 1
        /\ swaps < MaxSwaps /\ UNCHANGED <<now, published>>
        /\ job'[p] = [job[p] EXCEPT !.victim = [job[p].victim EXCEPT !.tree = trees + 1]]
    BY <1>1, <1>3, SwapStep
  <2>2. job[p].victim \in D!Thing
    BY <2>1 DEF SurveyInv
  <2>3. trees + 1 \in 1..MaxTrees /\ MaxSwaps # 0
    BY <2>1 DEF SizesTyped, CountsTyped, D!SizesAssumption
  <2>4. job'[p].victim = [job[p].victim EXCEPT !.tree = trees + 1]
    BY <2>1, JobFields
  <2>5. job'[p].victim \in D!Thing /\ job'[p].victim.tree = trees + 1
    BY <2>2, <2>3, <2>4 DEF D!Thing
  <2> QED
    BY <1>3, <2>1, <2>3, <2>5, NewTree
<1>4. ASSUME NEW p \in Procs, Worker(p), D!Publish(p) PROVE SurveyInv'
  <2> DEFINE n == job[p].name
             v == job[p].victim
  <2>1. /\ sizesPc[p] = "survey" /\ sizesPc'[p] = "read" /\ UNCHANGED <<now, trees>>
        /\ published' = published \cup {[name |-> n, tree |-> v.tree, at |-> now]}
    BY <1>1, <1>4, PublishStep
  <2>2. /\ v.tree <= trees /\ \A q \in published : q.tree <= trees /\ q.at <= now
        /\ \A o \in Procs : o # p /\ sizesPc[o] = "survey" => job[o].victim.tree # v.tree
    BY <2>1 DEF SurveyInv
  <2>3. \A o \in Procs : sizesPc'[o] = "survey" => o # p /\ sizesPc[o] = "survey" /\ job'[o] = job[o]
    BY <1>1, <1>4, <2>1, OthersWait
  <2>4. \A q \in published' : q \in published \/ (q.tree = v.tree /\ q.at = now)
    BY <2>1
  <2>5. now <= now
    BY DEF SizesTyped, CountsTyped
  <2> HIDE DEF n, v
  <2>6. ASSUME NEW o \in Procs, sizesPc'[o] = "survey"
        PROVE  /\ job'[o].victim \in D!Thing /\ job'[o].victim.tree <= trees'
               /\ MaxSwaps = 0 => job'[o].sized = job'[o].victim.tree
               /\ \A q \in published' : q.tree # job'[o].victim.tree
               /\ \A s \in Procs : s # o /\ sizesPc'[s] = "survey" => job'[s].victim.tree # job'[o].victim.tree
    <3>1. o # p /\ sizesPc[o] = "survey" /\ job'[o] = job[o]
      BY <2>3, <2>6
    <3>2. /\ job[o].victim \in D!Thing /\ job[o].victim.tree <= trees
          /\ MaxSwaps = 0 => job[o].sized = job[o].victim.tree
          /\ \A q \in published : q.tree # job[o].victim.tree
          /\ \A s \in Procs : s # o /\ sizesPc[s] = "survey" => job[s].victim.tree # job[o].victim.tree
      BY <3>1 DEF SurveyInv
    <3>3. job[o].victim.tree # v.tree
      BY <2>2, <3>1
    <3>4. \A q \in published' : q.tree # job[o].victim.tree
      BY <2>4, <3>2, <3>3
    <3> QED
      BY <2>1, <2>3, <3>1, <3>2, <3>4
  <2>7. \A q \in published' : q.tree <= trees' /\ q.at <= now'
    BY <2>1, <2>2, <2>4, <2>5
  <2> QED
    BY <2>6, <2>7 DEF SurveyInv, D!Thing
<1>5. ASSUME NEW p \in Procs, Worker(p), ~D!Survey(p), ~D!Swap(p), ~D!Publish(p) PROVE SurveyInv'
  <2>1. sizesPc'[p] # "survey" /\ UNCHANGED <<published, trees, now>>
    <3>1. CASE D!RecordRead(p) \/ D!RecordWrite(p) \/ D!RemoveSidecar(p) \/ D!Refresh(p)
      BY <1>1, <3>1, RecordReadStep, RecordWriteStep, RemoveSidecarStep, RefreshStep
    <3>2. CASE D!RebuildRead(p) \/ D!RebuildScan(p) \/ D!Measure(p) \/ D!RebuildWrite(p) \/ D!Crash(p)
      BY <1>1, <3>2, RebuildReadStep, RebuildScanStep, MeasureStep, RebuildWriteStep, CrashStep
    <3>3. CASE \E n \in Names : D!RemoveData(p, n) \/ D!Visit(p, n)
      BY <1>1, <3>3, RemoveDataStep, VisitStep
    <3> QED
      BY <1>5, <3>1, <3>2, <3>3 DEF Worker
  <2> QED
    BY <1>1, <1>5, <2>1, OthersSurvey
<1>6. CASE D!Tick \/ D!Damage \/ UNCHANGED D!vars
  <2>1. UNCHANGED <<sizesPc, job, trees, published>> /\ now <= now'
    BY <1>6, WorldSteps, HistoryGrows
  <2>2. \A q \in published : q.at <= now'
    BY <2>1, <1>6, WorldSteps DEF SurveyInv, SizesTyped, CountsTyped, DiskTyped
  <2> QED
    BY <2>1, <2>2 DEF SurveyInv, D!Thing
<1> QED
  BY <1>2, <1>3, <1>4, <1>5, <1>6, SizesSteps

\* While a deletion records, its lock keeps its entry as it is.
LEMMA HoldNext ==
  ASSUME D!SizesAssumption, SizesTyped, LockInv, SurveyInv, HoldInv, [D!Next]_(D!vars)
  PROVE  HoldInv'
<1>1. JobsTyped
  BY DEF SizesTyped
<1> SUFFICES ASSUME NEW o \in Procs, sizesPc'[o] \in {"read", "write"}
             PROVE  /\ job'[o].victim # D!Nothing /\ data'[job'[o].name] = job'[o].victim
                    /\ mtime'[job'[o].name] # 0 /\ job'[o].sized = job'[o].victim.tree
  BY DEF HoldInv
<1>2. ASSUME NEW p \in Procs, Worker(p), p # o
      PROVE  /\ job'[o].victim # D!Nothing /\ data'[job'[o].name] = job'[o].victim
             /\ mtime'[job'[o].name] # 0 /\ job'[o].sized = job'[o].victim.tree
  <2>1. sizesPc[o] \in {"read", "write"} /\ job'[o] = job[o]
    BY <1>1, <1>2, OthersWait
  <2>2. o \in lock /\ lock # {} /\ sizesPc[p] # "unlink"
    BY <1>2, <2>1 DEF LockInv
  <2>3. job[o].name \in Names
    BY JobFields
  <2>4. data'[job[o].name] = data[job[o].name] /\ mtime'[job[o].name] = mtime[job[o].name]
    <3>1. ~D!Publish(p) /\ ~D!RemoveSidecar(p) /\ ~(\E n \in Names : D!RemoveData(p, n))
      BY <1>1, <2>2, PublishStep, RemoveSidecarStep, RemoveDataStep
    <3>2. CASE D!Survey(p) \/ D!Swap(p)
      BY <1>1, <3>2, SurveyStep, SwapStep
    <3>3. CASE D!RecordRead(p) \/ D!RecordWrite(p) \/ D!Refresh(p)
      BY <1>1, <3>3, RecordReadStep, RecordWriteStep, RefreshStep
    <3>4. CASE D!RebuildRead(p) \/ D!RebuildScan(p) \/ D!Measure(p) \/ D!RebuildWrite(p) \/ D!Crash(p)
      BY <1>1, <3>4, RebuildReadStep, RebuildScanStep, MeasureStep, RebuildWriteStep, CrashStep
    <3>5. CASE \E n \in Names : D!Visit(p, n)
      BY <1>1, <3>5, VisitStep
    <3> QED
      BY <1>2, <3>1, <3>2, <3>3, <3>4, <3>5 DEF Worker
  <2> QED
    BY <2>1, <2>4 DEF HoldInv
<1>3. ASSUME Worker(o)
      PROVE  /\ job'[o].victim # D!Nothing /\ data'[job'[o].name] = job'[o].victim
             /\ mtime'[job'[o].name] # 0 /\ job'[o].sized = job'[o].victim.tree
  <2>1. D!Publish(o) \/ D!RecordRead(o)
    <3>1. CASE D!Survey(o) \/ D!RecordWrite(o) \/ D!RemoveSidecar(o) \/ D!Refresh(o)
      BY <1>1, <3>1, SurveyStep, RecordWriteStep, RemoveSidecarStep, RefreshStep
    <3>2. CASE D!RebuildRead(o) \/ D!RebuildScan(o) \/ D!Measure(o) \/ D!RebuildWrite(o) \/ D!Crash(o)
      BY <1>1, <3>2, RebuildReadStep, RebuildScanStep, MeasureStep, RebuildWriteStep, CrashStep
    <3>3. CASE \E n \in Names : D!RemoveData(o, n) \/ D!Visit(o, n)
      BY <1>1, <3>3, RemoveDataStep, VisitStep
    <3>4. CASE D!Swap(o)
      BY <1>1, <3>4, SwapStep
    <3> QED
      BY <1>3, <3>1, <3>2, <3>3, <3>4 DEF Worker
  <2>2. ASSUME D!Publish(o)
        PROVE  /\ job'[o].victim # D!Nothing /\ data'[job'[o].name] = job'[o].victim
               /\ mtime'[job'[o].name] # 0 /\ job'[o].sized = job'[o].victim.tree
    <3>1. /\ sizesPc[o] = "survey"
          /\ job'[o] = (IF o \in ByHandle THEN job[o] ELSE [job[o] EXCEPT !.sized = job[o].victim.tree])
      BY <1>1, <2>2, PublishStep
    <3>2. job'[o].name = job[o].name /\ job'[o].victim = job[o].victim /\ job'[o].sized = job[o].victim.tree
      <4>1. CASE o \in ByHandle
        BY <3>1, <4>1 DEF SurveyInv, D!SizesAssumption
      <4>2. CASE o \notin ByHandle
        BY <3>1, <4>2, JobFields
      <4> QED
        BY <4>1, <4>2
    <3>3. job[o].name \in Names
      BY JobFields
    <3>4. data'[job[o].name] = job[o].victim /\ mtime'[job[o].name] = now /\ now # 0 /\ job[o].victim # D!Nothing
      BY <2>2, <3>3, Published
    <3> QED
      BY <3>2, <3>4
  <2>3. ASSUME D!RecordRead(o)
        PROVE  /\ job'[o].victim # D!Nothing /\ data'[job'[o].name] = job'[o].victim
               /\ mtime'[job'[o].name] # 0 /\ job'[o].sized = job'[o].victim.tree
    <3>1. /\ sizesPc[o] = "read" /\ job'[o] = [job[o] EXCEPT !.rows = cache.rows]
          /\ UNCHANGED <<data, mtime>>
      BY <1>1, <2>3, RecordReadStep
    <3>2. job'[o].name = job[o].name /\ job'[o].victim = job[o].victim /\ job'[o].sized = job[o].sized
      BY <3>1, JobFields
    <3> QED
      BY <3>1, <3>2 DEF HoldInv
  <2> QED
    BY <2>1, <2>2, <2>3
<1>4. CASE D!Tick \/ D!Damage \/ UNCHANGED D!vars
  BY <1>4, WorldSteps DEF HoldInv
<1> QED
  BY <1>2, <1>3, <1>4, SizesSteps

\* A process that measures remembers a second in which the name was used.
LEMMA SeenNext ==
  ASSUME D!SizesAssumption, SizesTyped, Shown, SeenInv, [D!Next]_(D!vars)
  PROVE  SeenInv'
<1>1. JobsTyped /\ published \subseteq published'
  BY HistoryGrows DEF SizesTyped
<1> SUFFICES ASSUME NEW o \in Procs, sizesPc'[o] = "measure"
             PROVE  \E q \in published : q.name = job'[o].name /\ q.at = job'[o].seen
  BY <1>1 DEF SeenInv, Dated
<1>2. ASSUME sizesPc[o] = "measure", job'[o] = job[o]
      PROVE  \E q \in published : q.name = job'[o].name /\ q.at = job'[o].seen
  BY <1>2 DEF SeenInv, Dated
<1>3. ASSUME NEW p \in Procs, Worker(p), p # o
      PROVE  \E q \in published : q.name = job'[o].name /\ q.at = job'[o].seen
  BY <1>1, <1>2, <1>3, OthersWait
<1>4. ASSUME NEW n \in Names, D!Visit(o, n)
      PROVE  \E q \in published : q.name = job'[o].name /\ q.at = job'[o].seen
  <2>1. data[n].dir /\ mtime[n] # 0 /\ job'[o] = [job[o] EXCEPT !.name = n, !.seen = mtime[n]]
    BY <1>1, <1>4, VisitStep
  <2>2. job'[o].name = n /\ job'[o].seen = mtime[n]
    BY <2>1, JobFields
  <2>3. data[n] # D!Nothing
    BY <2>1, NoJobTyped
  <2>4. [name |-> n, tree |-> data[n].tree, at |-> mtime[n]] \in published
    BY <2>1, <2>3 DEF Shown
  <2> QED
    BY <2>2, <2>4
<1>5. ASSUME Worker(o)
      PROVE  \E q \in published : q.name = job'[o].name /\ q.at = job'[o].seen
  <2>1. CASE D!Survey(o) \/ D!Publish(o) \/ D!RecordRead(o) \/ D!RecordWrite(o) \/ D!RemoveSidecar(o)
    BY <1>1, <2>1, SurveyStep, PublishStep, RecordReadStep, RecordWriteStep, RemoveSidecarStep
  <2>2. CASE D!Swap(o) \/ D!Refresh(o) \/ D!RebuildRead(o) \/ D!RebuildScan(o)
    BY <1>1, <2>2, SwapStep, RefreshStep, RebuildReadStep, RebuildScanStep
  <2>3. CASE D!Measure(o) \/ D!RebuildWrite(o) \/ D!Crash(o) \/ \E n \in Names : D!RemoveData(o, n)
    BY <1>1, <2>3, MeasureStep, RebuildWriteStep, CrashStep, RemoveDataStep
  <2> QED
    BY <1>4, <1>5, <2>1, <2>2, <2>3 DEF Worker
<1>6. CASE D!Tick \/ D!Damage \/ UNCHANGED D!vars
  BY <1>2, <1>6, WorldSteps
<1> QED
  BY <1>3, <1>5, <1>6, SizesSteps

\* The steps that leave the rows in hand alone.
LEMMA RowsKept ==
  ASSUME D!SizesAssumption, SizesTyped, NEW p \in Procs,
         \/ D!Survey(p) \/ D!Swap(p) \/ D!RebuildScan(p) \/ D!Publish(p)
         \/ \E n \in Names : D!RemoveData(p, n)
  PROVE  job'[p].rows = job[p].rows /\ job'[p].lines = job[p].lines
<1>1. JobsTyped
  BY DEF SizesTyped
<1>2. /\ job[p] = [name |-> job[p].name, victim |-> job[p].victim, sized |-> job[p].sized, rows |-> job[p].rows,
                   todo |-> job[p].todo, lines |-> job[p].lines, seen |-> job[p].seen]
  BY JobFields
<1>3. CASE D!Survey(p)
  <2>1. PICK n \in Names, d \in BOOLEAN :
          job'[p] = [job[p] EXCEPT !.name = n, !.sized = trees + 1, !.victim = [tree |-> trees + 1, dir |-> d]]
    BY <1>1, <1>3, SurveyStep
  <2> QED
    BY <1>2, <2>1
<1>4. CASE D!Swap(p)
  <2>1. job'[p] = [job[p] EXCEPT !.victim = [job[p].victim EXCEPT !.tree = trees + 1]]
    BY <1>1, <1>4, SwapStep
  <2> QED
    BY <1>2, <2>1
<1>5. CASE D!RebuildScan(p)
  <2>1. job'[p] = [job[p] EXCEPT !.todo = {n \in Names : data[n].dir /\ mtime[n] # 0}]
    BY <1>1, <1>5, RebuildScanStep
  <2> QED
    BY <1>2, <2>1
<1>6. CASE D!Publish(p)
  <2>1. job'[p] = job[p] \/ job'[p] = [job[p] EXCEPT !.sized = job[p].victim.tree]
    BY <1>1, <1>6, PublishStep
  <2> QED
    BY <1>2, <2>1
<1>7. ASSUME NEW n \in Names, D!RemoveData(p, n)
      PROVE  job'[p].rows = job[p].rows /\ job'[p].lines = job[p].lines
  <2>1. job'[p] = [job[p] EXCEPT !.name = n, !.victim = data[n]]
    BY <1>1, <1>7, RemoveDataStep
  <2> QED
    BY <1>2, <2>1
<1> QED
  BY <1>3, <1>4, <1>5, <1>6, <1>7

\* A visit passes a name over, takes a row of it over, or goes to measure it.
LEMMA VisitFields ==
  ASSUME D!SizesAssumption, SizesTyped, NEW p \in Procs, NEW n \in Names, D!Visit(p, n)
  PROVE  /\ sizesPc[p] = "visit" /\ n \in job[p].todo /\ job'[p].rows = job[p].rows
         /\ \/ sizesPc'[p] = "visit" /\ job'[p].todo = job[p].todo \ {n} /\ job'[p].lines = job[p].lines
            \/ /\ sizesPc'[p] = "visit" /\ job'[p].todo = job[p].todo \ {n}
               /\ \E s \in job[p].rows : s.name = n /\ job'[p].lines = job[p].lines \cup {s}
            \/ /\ sizesPc'[p] = "measure" /\ job'[p].todo = job[p].todo /\ job'[p].lines = job[p].lines
               /\ job'[p].name = n
<1>1. JobsTyped
  BY DEF SizesTyped
<1>2. /\ job[p] = [name |-> job[p].name, victim |-> job[p].victim, sized |-> job[p].sized, rows |-> job[p].rows,
                   todo |-> job[p].todo, lines |-> job[p].lines, seen |-> job[p].seen]
      /\ job[p].rows \subseteq D!Row
  BY JobFields
<1> DEFINE Over == job'[p] = [job[p] EXCEPT !.todo = job[p].todo \ {n}]
           Taken(s) == job'[p] = [job[p] EXCEPT !.todo = job[p].todo \ {n},
                                    !.lines = job[p].lines \cup {[s EXCEPT !.mtime = mtime[n]]}]
           Sizing == job'[p] = [job[p] EXCEPT !.name = n, !.seen = mtime[n]]
<1>3. /\ sizesPc[p] = "visit" /\ n \in job[p].todo
      /\ \/ sizesPc'[p] = "visit" /\ Over
         \/ sizesPc'[p] = "visit" /\ \E s \in job[p].rows : s.name = n /\ s.mtime = mtime[n] /\ Taken(s)
         \/ sizesPc'[p] = "measure" /\ Sizing
  BY <1>1, VisitStep
<1>4. ASSUME Over
      PROVE  job'[p].rows = job[p].rows /\ job'[p].todo = job[p].todo \ {n} /\ job'[p].lines = job[p].lines
  BY <1>2, <1>4
<1>5. ASSUME NEW s \in job[p].rows, s.mtime = mtime[n], Taken(s)
      PROVE  /\ job'[p].rows = job[p].rows /\ job'[p].todo = job[p].todo \ {n}
             /\ job'[p].lines = job[p].lines \cup {s}
  <2>1. s \in D!Row
    BY <1>2, <1>5
  <2>2. [s EXCEPT !.mtime = mtime[n]] = s
    BY <1>5, <2>1 DEF D!Row
  <2>3. job'[p] = [job[p] EXCEPT !.todo = job[p].todo \ {n}, !.lines = job[p].lines \cup {s}]
    BY <1>5, <2>2
  <2> QED
    BY <1>2, <2>3
<1>6. ASSUME Sizing
      PROVE  /\ job'[p].rows = job[p].rows /\ job'[p].todo = job[p].todo /\ job'[p].lines = job[p].lines
             /\ job'[p].name = n
  BY <1>2, <1>6
<1> HIDE DEF Over, Taken, Sizing
<1> QED
  BY <1>3, <1>4, <1>5, <1>6

\* Where the rows in hand come from: each was in hand or in the file, unless it
\* was just measured.
LEMMA RowsInHand ==
  ASSUME D!SizesAssumption, SizesTyped, NEW p \in Procs, Worker(p),
         NEW r \in job'[p].rows \cup job'[p].lines
  PROVE  r \in job[p].rows \cup job[p].lines \cup cache.rows \/ (D!Measure(p) /\ r = D!SizedRow(p, job[p].name))
<1>1. JobsTyped
  BY DEF SizesTyped
<1> DEFINE Kept == r \in job[p].rows \cup job[p].lines \cup cache.rows
<1>2. ASSUME job'[p].rows = job[p].rows, job'[p].lines = job[p].lines PROVE Kept
  BY <1>2
<1>3. ASSUME job'[p] = D!NoJob PROVE Kept
  BY <1>3, NoJobTyped
<1>4. CASE D!Survey(p) \/ D!Swap(p) \/ D!RebuildScan(p) \/ \E n \in Names : D!RemoveData(p, n)
  BY <1>2, <1>4, RowsKept
<1>5. CASE D!Publish(p)
  BY <1>2, <1>5, RowsKept
<1>6. CASE D!RecordRead(p)
  <2>1. \/ job'[p] = D!NoJob
        \/ job'[p] = job[p]
        \/ job'[p] = [job[p] EXCEPT !.rows = cache.rows]
    BY <1>1, <1>6, RecordReadStep
  <2>2. job'[p] = [job[p] EXCEPT !.rows = cache.rows] =>
          job'[p].rows = cache.rows /\ job'[p].lines = job[p].lines
    BY JobFields
  <2> QED
    BY <1>3, <2>1, <2>2
<1>7. CASE D!RecordWrite(p) \/ D!RebuildWrite(p) \/ D!Crash(p)
  BY <1>1, <1>3, <1>7, RecordWriteStep, RebuildWriteStep, CrashStep
<1>8. CASE D!RemoveSidecar(p) \/ D!Refresh(p)
  <2>1. job'[p] = job[p] \/ job'[p] = D!NoJob
    BY <1>1, <1>8, RemoveSidecarStep, RefreshStep
  <2> QED
    BY <1>3, <2>1
<1>9. CASE D!RebuildRead(p)
  <2>1. job'[p].rows = cache.rows /\ job'[p].lines = {}
    BY <1>1, <1>9, RebuildReadStep, JobFields
  <2> QED
    BY <2>1
<1>10. CASE D!Measure(p)
  <2>1. job'[p].rows = job[p].rows /\ job'[p].lines = job[p].lines \cup {D!SizedRow(p, job[p].name)}
    BY <1>1, <1>10, MeasureStep, JobFields DEF D!SizedRow
  <2> QED
    BY <1>10, <2>1
<1>11. ASSUME NEW n \in Names, D!Visit(p, n) PROVE Kept
  BY <1>11, VisitFields
<1> HIDE DEF Kept
<1>12. Kept \/ (D!Measure(p) /\ r = D!SizedRow(p, job[p].name))
  BY <1>4, <1>5, <1>6, <1>7, <1>8, <1>9, <1>10, <1>11 DEF Worker, Kept
<1> QED
  BY <1>12 DEF Kept

\* Where the rows of the file come from.
LEMMA RowsOnDisk ==
  ASSUME SizesTyped, NEW p \in Procs, Worker(p), NEW r \in cache'.rows
  PROVE  \/ r \in job[p].rows \cup job[p].lines \cup cache.rows
         \/ D!RecordWrite(p) /\ r = [name |-> job[p].name, tree |-> job[p].sized, mtime |-> mtime[job[p].name]]
<1>1. JobsTyped
  BY DEF SizesTyped
<1>2. CASE D!RecordWrite(p)
  BY <1>1, <1>2, RecordWriteStep DEF D!OtherRows
<1>3. CASE D!RebuildWrite(p)
  BY <1>1, <1>3, RebuildWriteStep
<1>4. ASSUME ~D!RecordWrite(p), ~D!RebuildWrite(p) PROVE cache' = cache
  <2>1. CASE D!Survey(p) \/ D!Swap(p)
    BY <1>1, <2>1, SurveyStep, SwapStep
  <2>2. CASE D!Publish(p) \/ D!RecordRead(p) \/ D!RemoveSidecar(p) \/ D!Refresh(p)
    BY <1>1, <2>2, PublishStep, RecordReadStep, RemoveSidecarStep, RefreshStep
  <2>3. CASE D!RebuildRead(p) \/ D!RebuildScan(p) \/ D!Measure(p) \/ D!Crash(p)
    BY <1>1, <2>3, RebuildReadStep, RebuildScanStep, MeasureStep, CrashStep
  <2>4. CASE \E n \in Names : D!RemoveData(p, n) \/ D!Visit(p, n)
    BY <1>1, <2>4, RemoveDataStep, VisitStep
  <2> QED
    BY <1>4, <2>1, <2>2, <2>3, <2>4 DEF Worker
<1> QED
  BY <1>2, <1>3, <1>4

\* Every row, in the file or in hand, stays right.
LEMMA RowsNext ==
  ASSUME D!SizesAssumption, SizesTyped, SurveyInv, Shown, HoldInv, RowsInv, SeenInv, [D!Next]_(D!vars)
  PROVE  RowsInv'
<1>1. JobsTyped
  BY DEF SizesTyped
<1>2. ASSUME NEW r \in D!Row, RowOK(r) PROVE RowOK(r)'
  BY <1>2, RowStays DEF D!Row
<1>3. \A r \in cache.rows : RowOK(r)'
  BY <1>2 DEF RowsInv, SizesTyped, DiskTyped
<1>4. \A o \in Procs : \A r \in job[o].rows \cup job[o].lines : RowOK(r)'
  BY <1>2, JobFields DEF RowsInv
<1>5. ASSUME NEW p \in Procs, Worker(p) PROVE RowsInv'
  <2>1. ASSUME NEW r, D!Measure(p), r = D!SizedRow(p, job[p].name) PROVE RowOK(r)'
    <3>1. sizesPc[p] = "measure" /\ UNCHANGED <<data, mtime, published>>
      BY <1>1, <2>1, MeasureStep
    <3>2. r.name = job[p].name /\ r.tree = data[job[p].name].tree /\ r.mtime = job[p].seen
      BY <2>1 DEF D!SizedRow
    <3>3. Dated(r.name, r.mtime)
      BY <3>1, <3>2 DEF SeenInv
    <3> QED
      BY <3>1, <3>2, <3>3 DEF RowOK, Dated
  <2>2. ASSUME NEW r, D!RecordWrite(p),
               r = [name |-> job[p].name, tree |-> job[p].sized, mtime |-> mtime[job[p].name]]
        PROVE  RowOK(r)'
    <3>1. sizesPc[p] = "write" /\ UNCHANGED <<data, mtime, published>>
      BY <1>1, <2>2, RecordWriteStep
    <3>2. r.name = job[p].name /\ r.tree = job[p].sized /\ r.mtime = mtime[job[p].name]
      BY <2>2
    <3>3. /\ data[r.name] # D!Nothing /\ mtime[r.name] # 0 /\ r.name \in Names
          /\ r.tree = data[r.name].tree /\ r.mtime = mtime[r.name]
      BY <3>1, <3>2, JobFields DEF HoldInv
    <3>4. Dated(r.name, r.mtime)
      BY <3>3 DEF Shown, Dated
    <3> QED
      BY <3>1, <3>3, <3>4 DEF RowOK, Dated
  <2>3. \A r \in cache'.rows : RowOK(r)'
    BY <1>3, <1>4, <1>5, <2>2, RowsOnDisk
  <2>4. \A r \in job'[p].rows \cup job'[p].lines : RowOK(r)'
    BY <1>3, <1>4, <1>5, <2>1, RowsInHand
  <2>5. \A o \in Procs : \A r \in job'[o].rows \cup job'[o].lines : RowOK(r)'
    BY <1>1, <1>4, <1>5, <2>4, OthersWait
  <2> QED
    BY <2>3, <2>5 DEF RowsInv
<1>6. CASE D!Tick \/ D!Damage \/ UNCHANGED D!vars
  <2>1. UNCHANGED job /\ cache'.rows \subseteq cache.rows
    BY <1>6, WorldSteps
  <2> QED
    BY <1>3, <1>4, <2>1 DEF RowsInv
<1> QED
  BY <1>5, <1>6, SizesSteps

\* One row for each name, in the file and in every rebuild.
LEMMA UniqueNext ==
  ASSUME D!SizesAssumption, SizesTyped, UniqueInv, [D!Next]_(D!vars)
  PROVE  UniqueInv'
<1>1. JobsTyped
  BY DEF SizesTyped
<1>2. \A o \in Procs : UniqueJob(o)
  BY DEF UniqueInv
<1>3. Unique(cache.rows)
  BY DEF UniqueInv
<1>4. ASSUME NEW p \in Procs, Worker(p) PROVE Unique(cache'.rows)
  <2>1. CASE D!RecordWrite(p)
    <3> DEFINE row == [name |-> job[p].name, tree |-> job[p].sized, mtime |-> mtime[job[p].name]]
    <3>1. cache'.rows = D!OtherRows(p) \cup {row}
      BY <1>1, <2>1, RecordWriteStep
    <3>2. row.name = job[p].name
      OBVIOUS
    <3> HIDE DEF row
    <3>3. Unique(job[p].rows)
      BY <1>2 DEF UniqueJob
    <3> QED
      BY <3>1, <3>2, <3>3 DEF Unique, D!OtherRows
  <2>2. CASE D!RebuildWrite(p)
    <3>1. cache'.rows = job[p].lines
      BY <1>1, <2>2, RebuildWriteStep
    <3> QED
      BY <1>2, <3>1 DEF UniqueJob
  <2>3. ASSUME ~D!RecordWrite(p), ~D!RebuildWrite(p) PROVE cache' = cache
    <3>1. CASE D!Survey(p) \/ D!Swap(p)
      BY <1>1, <3>1, SurveyStep, SwapStep
    <3>2. CASE D!Publish(p) \/ D!RecordRead(p) \/ D!RemoveSidecar(p) \/ D!Refresh(p)
      BY <1>1, <3>2, PublishStep, RecordReadStep, RemoveSidecarStep, RefreshStep
    <3>3. CASE D!RebuildRead(p) \/ D!RebuildScan(p) \/ D!Measure(p) \/ D!Crash(p)
      BY <1>1, <3>3, RebuildReadStep, RebuildScanStep, MeasureStep, CrashStep
    <3>4. CASE \E n \in Names : D!RemoveData(p, n) \/ D!Visit(p, n)
      BY <1>1, <3>4, RemoveDataStep, VisitStep
    <3> QED
      BY <1>4, <2>3, <3>1, <3>2, <3>3, <3>4 DEF Worker
  <2> QED
    BY <1>3, <2>1, <2>2, <2>3
<1>5. ASSUME NEW p \in Procs, Worker(p) PROVE UniqueJob(p)'
  <2>0. UniqueJob(p)
    BY <1>2
  <2>1. ASSUME job'[p].rows = job[p].rows, job'[p].lines = job[p].lines,
               sizesPc'[p] \notin {"scan", "visit", "measure"}
        PROVE  UniqueJob(p)'
    BY <2>0, <2>1 DEF UniqueJob
  <2>2. ASSUME job'[p] = D!NoJob, sizesPc'[p] = "idle" PROVE UniqueJob(p)'
    BY <2>2, NoJobTyped DEF UniqueJob, Unique
  <2>3. CASE D!Survey(p) \/ D!Publish(p) \/ \E n \in Names : D!RemoveData(p, n)
    <3>1. job'[p].rows = job[p].rows /\ job'[p].lines = job[p].lines
      BY <2>3, RowsKept
    <3>2. sizesPc'[p] \in {"survey", "read", "unlink"}
      BY <1>1, <2>3, SurveyStep, PublishStep, RemoveDataStep
    <3> QED
      BY <2>1, <3>1, <3>2
  <2>4. CASE D!Swap(p)
    <3>1. job'[p].rows = job[p].rows /\ job'[p].lines = job[p].lines
      BY <2>4, RowsKept
    <3>2. sizesPc'[p] = "survey"
      BY <1>1, <2>4, SwapStep
    <3> QED
      BY <2>1, <3>1, <3>2
  <2>5. CASE D!RecordRead(p)
    <3>1. \/ job'[p] = D!NoJob /\ sizesPc'[p] = "idle"
          \/ job'[p] = job[p] /\ sizesPc'[p] = "reread"
          \/ job'[p].rows = cache.rows /\ job'[p].lines = job[p].lines /\ sizesPc'[p] = "write"
      BY <1>1, <2>5, RecordReadStep, JobFields
    <3>2. ASSUME job'[p].rows = cache.rows, job'[p].lines = job[p].lines, sizesPc'[p] = "write"
          PROVE  UniqueJob(p)'
      BY <1>3, <2>0, <3>2 DEF UniqueJob
    <3> QED
      BY <2>1, <2>2, <3>1, <3>2
  <2>6. CASE D!RecordWrite(p) \/ D!RebuildWrite(p) \/ D!Crash(p)
    BY <1>1, <2>2, <2>6, RecordWriteStep, RebuildWriteStep, CrashStep
  <2>7. CASE D!RemoveSidecar(p) \/ D!Refresh(p)
    <3>1. \/ job'[p] = job[p] /\ sizesPc'[p] \in {"refresh", "reread"}
          \/ job'[p] = D!NoJob /\ sizesPc'[p] = "idle"
      BY <1>1, <2>7, RemoveSidecarStep, RefreshStep
    <3> QED
      BY <2>1, <2>2, <3>1
  <2>8. CASE D!RebuildRead(p)
    <3>1. job'[p].rows = cache.rows /\ job'[p].lines = {} /\ sizesPc'[p] = "scan"
      BY <1>1, <2>8, RebuildReadStep, JobFields
    <3> QED
      BY <1>3, <3>1 DEF UniqueJob, Unique
  <2>9. CASE D!RebuildScan(p)
    <3>1. /\ job'[p].rows = job[p].rows /\ job'[p].lines = job[p].lines
          /\ sizesPc[p] = "scan" /\ sizesPc'[p] = "visit"
      BY <1>1, <2>9, RebuildScanStep, JobFields
    <3>2. job[p].lines = {}
      BY <2>0, <3>1 DEF UniqueJob
    <3> QED
      BY <2>0, <3>1, <3>2 DEF UniqueJob
  <2>10. ASSUME NEW n, NEW row, row.name = n, n \in job[p].todo, sizesPc[p] \in {"visit", "measure"},
                job'[p].rows = job[p].rows, job'[p].lines = job[p].lines \cup {row},
                job'[p].todo = job[p].todo \ {n}, sizesPc'[p] = "visit"
         PROVE  UniqueJob(p)'
    <3>1. Unique(job[p].rows) /\ Unique(job[p].lines) /\ \A r \in job[p].lines : r.name \notin job[p].todo
      BY <2>0, <2>10 DEF UniqueJob
    <3>2. Unique(job[p].lines \cup {row})
      BY <2>10, <3>1 DEF Unique
    <3>3. \A r \in job[p].lines \cup {row} : r.name \notin job[p].todo \ {n}
      BY <2>10, <3>1
    <3> QED
      BY <2>10, <3>1, <3>2, <3>3 DEF UniqueJob
  <2>11. CASE D!Measure(p)
    <3>1. /\ sizesPc[p] = "measure" /\ sizesPc'[p] = "visit"
          /\ job'[p].rows = job[p].rows /\ job'[p].lines = job[p].lines \cup {D!SizedRow(p, job[p].name)}
          /\ job'[p].todo = job[p].todo \ {job[p].name}
      BY <1>1, <2>11, MeasureStep, JobFields DEF D!SizedRow
    <3>2. job[p].name \in job[p].todo /\ D!SizedRow(p, job[p].name).name = job[p].name
      BY <2>0, <3>1 DEF UniqueJob, D!SizedRow
    <3> QED
      BY <2>10, <3>1, <3>2
  <2>12. ASSUME NEW n \in Names, D!Visit(p, n) PROVE UniqueJob(p)'
    <3>1. /\ sizesPc[p] = "visit" /\ n \in job[p].todo /\ job'[p].rows = job[p].rows
          /\ \/ sizesPc'[p] = "visit" /\ job'[p].todo = job[p].todo \ {n} /\ job'[p].lines = job[p].lines
             \/ /\ sizesPc'[p] = "visit" /\ job'[p].todo = job[p].todo \ {n}
                /\ \E s \in job[p].rows : s.name = n /\ job'[p].lines = job[p].lines \cup {s}
             \/ /\ sizesPc'[p] = "measure" /\ job'[p].todo = job[p].todo /\ job'[p].lines = job[p].lines
                /\ job'[p].name = n
      BY <2>12, VisitFields
    <3>2. CASE sizesPc'[p] = "visit" /\ job'[p].todo = job[p].todo \ {n} /\ job'[p].lines = job[p].lines
      BY <2>0, <3>1, <3>2 DEF UniqueJob
    <3>3. ASSUME sizesPc'[p] = "visit", job'[p].todo = job[p].todo \ {n},
                 NEW s \in job[p].rows, s.name = n, job'[p].lines = job[p].lines \cup {s}
          PROVE  UniqueJob(p)'
      BY <2>10, <3>1, <3>3
    <3>4. CASE /\ sizesPc'[p] = "measure" /\ job'[p].todo = job[p].todo /\ job'[p].lines = job[p].lines
               /\ job'[p].name = n
      BY <2>0, <3>1, <3>4 DEF UniqueJob
    <3> QED
      BY <3>1, <3>2, <3>3, <3>4
  <2> QED
    BY <1>5, <2>3, <2>4, <2>5, <2>6, <2>7, <2>8, <2>9, <2>11, <2>12 DEF Worker
<1>6. ASSUME NEW p \in Procs, Worker(p), NEW o \in Procs, o # p PROVE UniqueJob(o)'
  <2>1. job'[o] = job[o] /\ sizesPc'[o] = sizesPc[o]
    BY <1>1, <1>6, OthersWait
  <2> QED
    BY <1>2, <2>1 DEF UniqueJob
<1>7. CASE D!Tick \/ D!Damage \/ UNCHANGED D!vars
  <2>1. UNCHANGED <<job, sizesPc>> /\ cache'.rows \subseteq cache.rows
    BY <1>7, WorldSteps
  <2>2. Unique(cache'.rows)
    BY <1>3, <2>1 DEF Unique
  <2>3. \A o \in Procs : UniqueJob(o)'
    BY <1>2, <2>1 DEF UniqueJob
  <2> QED
    BY <2>2, <2>3 DEF UniqueInv
<1> QED
  BY <1>4, <1>5, <1>6, <1>7, SizesSteps DEF UniqueInv

-----------------------------------------------------------------------------
(* Theorems.                                                               *)

LEMMA SizesStart ==
  ASSUME D!SizesAssumption, D!Init
  PROVE  SizesInv
<1> USE DEF D!Init
<1>1. D!NoJob \in D!Job /\ D!NoJob.rows = {} /\ D!NoJob.lines = {}
  BY NoJobTyped
<1>2. DiskTyped
  <2>1. 0 \in 0..MaxTime
    BY DEF D!SizesAssumption
  <2> QED
    BY <2>1 DEF DiskTyped
<1>3. CountsTyped
  <2>1. MaxTrees \in Nat /\ MaxSwaps \in Nat /\ MaxFaults \in Nat /\ MaxTime \in Nat \ {0}
    BY DEF D!SizesAssumption
  <2>2. now \in 1..MaxTime
    BY <2>1
  <2>3. trees \in 0..MaxTrees /\ swaps \in 0..MaxSwaps /\ damage \in 0..MaxFaults /\ crashes \in 0..MaxFaults
    BY <2>1
  <2>4. raced \in BOOLEAN
    OBVIOUS
  <2> QED
    BY <2>2, <2>3, <2>4 DEF CountsTyped
<1>4. JobsTyped
  BY <1>1 DEF JobsTyped, D!Steps
<1>5. \A p \in Procs : sizesPc[p] = "idle" /\ job[p].rows = {} /\ job[p].lines = {}
  BY <1>1
<1>6. LockInv /\ SurveyInv /\ Shown /\ HoldInv /\ SeenInv
  BY <1>5 DEF LockInv, SurveyInv, Shown, HoldInv, SeenInv
<1>7. RowsInv /\ UniqueInv
  BY <1>5 DEF RowsInv, UniqueInv, UniqueJob, Unique
<1> QED
  BY <1>2, <1>3, <1>4, <1>6, <1>7 DEF SizesInv, SizesTyped

LEMMA SizesNext ==
  ASSUME D!SizesAssumption, SizesInv, [D!Next]_(D!vars)
  PROVE  SizesInv'
<1>1. JobsTyped
  BY DEF SizesInv, SizesTyped
<1>2. DiskTyped' /\ CountsTyped' /\ JobsTyped'
  BY DiskTypedNext, CountsTypedNext, JobsTypedNext DEF SizesInv, SizesTyped
<1>3. LockInv' /\ SurveyInv' /\ Shown' /\ HoldInv'
  BY <1>1, LockNext, SurveyNext, ShownNext, HoldNext DEF SizesInv
<1>4. RowsInv' /\ SeenInv' /\ UniqueInv'
  BY RowsNext, SeenNext, UniqueNext DEF SizesInv
<1> QED
  BY <1>2, <1>3, <1>4 DEF SizesInv, SizesTyped

\* What every deletion, removal and rebuild keeps true of the cache, its sidecars
\* and what the processes have read of both.
THEOREM SizesInductive == ASSUME D!SizesAssumption PROVE D!Spec => []SizesInv
<1>1. D!Init => SizesInv
  BY SizesStart
<1>2. SizesInv /\ [D!Next]_(D!vars) => SizesInv'
  BY SizesNext
<1> QED
  BY <1>1, <1>2, PTL DEF D!Spec

\* Types: one row for each name, and who records or removes has the lock.
THEOREM SizesTyping == ASSUME D!SizesAssumption PROVE D!Spec => []D!TypeOK
<1>1. SizesInv => D!TypeOK
  BY DEF SizesInv, SizesTyped, DiskTyped, CountsTyped, JobsTyped, LockInv, UniqueInv, Unique, D!TypeOK
<1> QED
  BY <1>1, SizesInductive, PTL

\* The size a reader accepts is that of the directory that lies there, however
\* rebuilds without a lock overlap deletions and removals.
THEOREM RowsHonest == ASSUME D!SizesAssumption PROVE D!Spec => []D!HonestRows
<1>1. SizesInv => D!HonestRows
  BY DEF SizesInv, RowsInv, RowOK, D!HonestRows
<1> QED
  BY <1>1, SizesInductive, PTL

-----------------------------------------------------------------------------
(* The rebuilt cache is complete.                                          *)

\* A process that has changed a directory under a name, or that rebuilds, has a
\* write before it.
Owes(q, n) ==
  \/ sizesPc[q] \in {"reread", "scan", "visit", "measure"}
  \/ sizesPc[q] \in {"read", "write", "unlink", "refresh"} /\ job[q].victim.dir /\ job[q].name = n
Owed(n) == \E q \in Procs : Owes(q, n)
OwedElse(p, n) == \E q \in Procs : q # p /\ Owes(q, n)
\* Rows have the directory of a name, and nothing else of it.
Fit(rows, n, isDir, time) ==
  /\ (\E r \in rows : r.name = n) <=> isDir
  /\ \A r \in rows : r.name = n => r.mtime = time
\* What the file, a record and a rebuild lack of a name, somebody else will write.
FileFits == \A n \in Names : cache.bad \/ Fit(cache.rows, n, data[n].dir, mtime[n]) \/ Owed(n)
RecordFits ==
  \A p \in Procs, n \in Names :
    sizesPc[p] = "write" /\ n # job[p].name =>
      Fit(job[p].rows, n, data[n].dir, mtime[n]) \/ OwedElse(p, n)
RebuildFits ==
  \A p \in Procs, n \in Names :
    sizesPc[p] \in {"visit", "measure"} =>
      n \in job[p].todo \/ Fit(job[p].lines, n, data[n].dir, mtime[n]) \/ OwedElse(p, n)
MeasureFits ==
  \A p \in Procs, n \in Names :
    sizesPc[p] = "measure" /\ n = job[p].name =>
      (data[n].dir /\ mtime[n] = job[p].seen) \/ OwedElse(p, n)
Accounted == FileFits /\ RecordFits /\ RebuildFits /\ MeasureFits
\* Data has a sidecar, a sidecar that is about to go has no data, only directories are recorded.
Paired ==
  /\ \A n \in Names : data[n] # D!Nothing => mtime[n] # 0
  /\ \A p \in Procs : /\ sizesPc[p] = "unlink" => data[job[p].name] = D!Nothing
                      /\ sizesPc[p] = "write" => job[p].victim.dir
CompleteInv == SizesInv /\ Paired /\ (raced \/ crashes # 0 \/ Accounted)

\* A name whose directory stays what it is.
Same(n) == (data'[n].dir <=> data[n].dir) /\ (data[n].dir => mtime'[n] = mtime[n])

LEMMA FitSame ==
  ASSUME NEW rows, NEW n, NEW isDir, NEW time, NEW isDir2, NEW time2, Fit(rows, n, isDir, time),
         isDir2 <=> isDir, isDir => time2 = time
  PROVE  Fit(rows, n, isDir2, time2)
BY DEF Fit

\* Writes are what others have not read; nobody was killed.
LEMMA QuietWrites ==
  ASSUME SizesTyped, NEW p \in Procs, Worker(p), ~raced', crashes' = 0
  PROVE  /\ ~raced /\ crashes = 0 /\ ~D!Crash(p)
         /\ D!RecordWrite(p) \/ D!RebuildWrite(p) => \A q \in Procs : q # p => sizesPc[q] \notin D!HasRead
<1>1. crashes \in Nat
  BY DEF SizesTyped, CountsTyped
<1>2. ~D!Crash(p)
  BY <1>1 DEF D!Crash
<1>3. CASE D!RecordWrite(p) \/ D!RebuildWrite(p)
  <2>1. crashes' = crashes
    BY <1>3 DEF D!RecordWrite, D!RebuildWrite, D!budget
  <2>2. raced' = (raced \/ \E q \in Procs \ {p} : sizesPc[q] \in D!HasRead)
    BY <1>3 DEF D!RecordWrite, D!RebuildWrite, D!Replace
  <2> QED
    BY <1>2, <2>1, <2>2
<1>4. CASE ~(D!RecordWrite(p) \/ D!RebuildWrite(p))
  <2>1. crashes' = crashes /\ raced' = raced
    <3>1. CASE D!Survey(p) \/ D!Swap(p) \/ D!Publish(p)
      BY <3>1 DEF D!Survey, D!Swap, D!Publish, D!budget
    <3>2. CASE D!RecordRead(p) \/ D!RemoveSidecar(p) \/ D!Refresh(p) \/ D!RebuildRead(p)
      BY <3>2 DEF D!RecordRead, D!RemoveSidecar, D!Refresh, D!RebuildRead, D!budget
    <3>3. CASE D!RebuildScan(p) \/ D!Measure(p) \/ (\E n \in Names : D!RemoveData(p, n) \/ D!Visit(p, n))
      BY <3>3 DEF D!RebuildScan, D!Measure, D!RemoveData, D!Visit, D!budget
    <3> QED
      BY <1>2, <1>4, <3>1, <3>2, <3>3 DEF Worker
  <2> QED
    BY <1>2, <1>4, <2>1
<1> QED
  BY <1>3, <1>4

\* What the others owe they still owe.
LEMMA OthersOwe ==
  ASSUME JobsTyped, NEW p \in Procs, Worker(p), NEW q \in Procs, q # p, NEW n \in Names
  PROVE  Owes(q, n)' <=> Owes(q, n)
BY OthersWait DEF Owes

\* A debt is paid by a write only.
LEMMA OwnDebt ==
  ASSUME SizesTyped, NEW p \in Procs, Worker(p), NEW n \in Names, Owes(p, n),
         ~D!RecordWrite(p), ~D!RebuildWrite(p), ~D!Crash(p)
  PROVE  Owes(p, n)'
<1>1. JobsTyped
  BY DEF SizesTyped
<1>2. CASE D!Survey(p) \/ D!Swap(p) \/ D!Publish(p) \/ (\E m \in Names : D!RemoveData(p, m))
  <2>1. sizesPc[p] \in {"idle", "survey"}
    BY <1>1, <1>2, SurveyStep, SwapStep, PublishStep, RemoveDataStep
  <2> QED
    BY <2>1 DEF Owes
<1>3. CASE D!RecordRead(p)
  <2>1. sizesPc[p] = "read"
    BY <1>1, <1>3, RecordReadStep
  <2>2. job[p].victim.dir /\ job[p].name = n
    BY <2>1 DEF Owes
  <2>3. CASE sizesPc'[p] = "reread"
    BY <2>3 DEF Owes
  <2>4. CASE sizesPc'[p] # "reread"
    <3>1. sizesPc'[p] = "write" /\ job'[p] = [job[p] EXCEPT !.rows = cache.rows]
      BY <1>1, <1>3, <2>2, <2>4, RecordReadStep
    <3>2. job'[p].victim = job[p].victim /\ job'[p].name = job[p].name
      BY <3>1, JobFields
    <3> QED
      BY <2>2, <3>1, <3>2 DEF Owes
  <2> QED
    BY <2>3, <2>4
<1>4. CASE D!RemoveSidecar(p)
  BY <1>1, <1>4, RemoveSidecarStep DEF Owes
<1>5. CASE D!Refresh(p)
  <2>1. sizesPc[p] = "refresh"
    BY <1>1, <1>5, RefreshStep
  <2>2. job[p].victim.dir
    BY <2>1 DEF Owes
  <2>3. sizesPc'[p] = "reread"
    BY <1>1, <1>5, <2>2, RefreshStep
  <2> QED
    BY <2>3 DEF Owes
<1>6. CASE D!RebuildRead(p) \/ D!RebuildScan(p) \/ D!Measure(p) \/ (\E m \in Names : D!Visit(p, m))
  <2>1. sizesPc'[p] \in {"scan", "visit", "measure"}
    BY <1>1, <1>6, RebuildReadStep, RebuildScanStep, MeasureStep, VisitStep
  <2> QED
    BY <2>1 DEF Owes
<1> QED
  BY <1>2, <1>3, <1>4, <1>5, <1>6 DEF Worker

\* Whoever changes the directory under a name owes a write for it.
LEMMA NameMoves ==
  ASSUME D!SizesAssumption, SizesTyped, SurveyInv, Paired, NEW p \in Procs, Worker(p), NEW n \in Names
  PROVE  Same(n) \/ Owes(p, n)'
<1>1. JobsTyped /\ data[n] \in D!Thing \cup {D!Nothing} /\ D!Nothing.dir = FALSE
  BY NoJobTyped DEF SizesTyped, DiskTyped
<1>2. CASE UNCHANGED <<data, mtime>>
  BY <1>2 DEF Same
<1>3. CASE D!Publish(p)
  <2>1. n # job[p].name => data'[n] = data[n] /\ mtime'[n] = mtime[n]
    BY <1>3, Published
  <2>2. CASE n = job[p].name
    <3>1. data'[n] = job[p].victim /\ data[n] = D!Nothing
      BY <1>3, <2>2, Published
    <3>2. /\ sizesPc'[p] = "read"
          /\ job'[p] = (IF p \in ByHandle THEN job[p] ELSE [job[p] EXCEPT !.sized = job[p].victim.tree])
      BY <1>1, <1>3, PublishStep
    <3>3. job'[p].name = job[p].name /\ job'[p].victim = job[p].victim
      BY <3>2, JobFields
    <3>4. CASE job[p].victim.dir
      BY <2>2, <3>2, <3>3, <3>4 DEF Owes
    <3>5. CASE ~job[p].victim.dir
      BY <1>1, <3>1, <3>5 DEF Same
    <3> QED
      BY <3>4, <3>5
  <2> QED
    BY <2>1, <2>2 DEF Same
<1>4. ASSUME NEW m \in Names, D!RemoveData(p, m) PROVE Same(n) \/ Owes(p, n)'
  <2>1. data'[n] = (IF n = m THEN D!Nothing ELSE data[n]) /\ UNCHANGED mtime
    BY <1>4, Removed
  <2>2. sizesPc'[p] = "unlink" /\ job'[p] = [job[p] EXCEPT !.name = m, !.victim = data[m]]
    BY <1>1, <1>4, RemoveDataStep
  <2>3. job'[p].name = m /\ job'[p].victim = data[m]
    BY <2>2, JobFields
  <2>4. CASE n = m /\ data[n].dir
    BY <2>2, <2>3, <2>4 DEF Owes
  <2>5. CASE ~(n = m /\ data[n].dir)
    BY <1>1, <2>1, <2>5 DEF Same
  <2> QED
    BY <2>4, <2>5
<1>5. CASE D!RemoveSidecar(p)
  <2>1. /\ mtime'[n] = (IF n = job[p].name THEN 0 ELSE mtime[n]) /\ UNCHANGED data
        /\ sizesPc[p] = "unlink"
    BY <1>5, Removed
  <2>2. n = job[p].name => ~data[n].dir
    BY <1>1, <2>1 DEF Paired
  <2> QED
    BY <2>1, <2>2 DEF Same
<1>6. CASE D!Survey(p) \/ D!Swap(p) \/ D!RecordRead(p) \/ D!RecordWrite(p) \/ D!Refresh(p)
  BY <1>1, <1>2, <1>6, SurveyStep, SwapStep, RecordReadStep, RecordWriteStep, RefreshStep
<1>7. CASE D!RebuildRead(p) \/ D!RebuildScan(p) \/ D!Measure(p) \/ D!RebuildWrite(p) \/ D!Crash(p)
              \/ (\E m \in Names : D!Visit(p, m))
  BY <1>1, <1>2, <1>7, RebuildReadStep, RebuildScanStep, MeasureStep, RebuildWriteStep, CrashStep, VisitStep
<1> QED
  BY <1>3, <1>4, <1>5, <1>6, <1>7 DEF Worker

\* Rows that fit, fit after the step of another, unless that one owes a write.
LEMMA FitMoves ==
  ASSUME D!SizesAssumption, SizesTyped, SurveyInv, Paired, NEW p \in Procs, Worker(p), NEW n \in Names,
         NEW rows, Fit(rows, n, data[n].dir, mtime[n])
  PROVE  Fit(rows, n, data'[n].dir, mtime'[n]) \/ Owes(p, n)'
<1>1. CASE Same(n)
  BY <1>1, FitSame DEF Same
<1> QED
  BY <1>1, NameMoves

LEMMA PairedNext ==
  ASSUME D!SizesAssumption, SizesTyped, LockInv, SurveyInv, Paired, [D!Next]_(D!vars)
  PROVE  Paired'
<1>1. JobsTyped /\ DOMAIN data = Names /\ DOMAIN mtime = Names
  BY DEF SizesTyped, DiskTyped
<1>2. ASSUME NEW n \in Names, data'[n] # D!Nothing PROVE mtime'[n] # 0
  <2>1. CASE UNCHANGED <<data, mtime, published>>
    BY <1>2, <2>1 DEF Paired
  <2>2. ASSUME NEW p \in Procs, D!Publish(p) PROVE mtime'[n] # 0
    BY <1>2, <2>2, Published DEF Paired
  <2>3. ASSUME NEW p \in Procs, NEW m \in Names, D!RemoveData(p, m) PROVE mtime'[n] # 0
    BY <1>2, <2>3, Removed DEF Paired
  <2>4. ASSUME NEW p \in Procs, D!RemoveSidecar(p) PROVE mtime'[n] # 0
    <3>1. /\ mtime'[n] = (IF n = job[p].name THEN 0 ELSE mtime[n]) /\ UNCHANGED data
          /\ sizesPc[p] = "unlink"
      BY <2>4, Removed
    <3>2. n # job[p].name
      BY <1>2, <3>1 DEF Paired
    <3> QED
      BY <1>2, <3>1, <3>2 DEF Paired
  <2> QED
    BY <1>1, <2>1, <2>2, <2>3, <2>4, StoreMoves
<1>3. ASSUME NEW o \in Procs, sizesPc'[o] = "write" PROVE job'[o].victim.dir
  <2>1. ASSUME NEW p \in Procs, Worker(p) PROVE job'[o].victim.dir
    <3>1. CASE p # o
      BY <1>1, <1>3, <2>1, <3>1, OthersWait DEF Paired
    <3>2. CASE p = o
      <4>1. D!RecordRead(o)
        <5>1. CASE D!Survey(o) \/ D!Swap(o) \/ D!Publish(o) \/ D!RecordWrite(o) \/ D!RemoveSidecar(o)
                     \/ D!Refresh(o)
          BY <1>1, <1>3, <5>1, SurveyStep, SwapStep, PublishStep, RecordWriteStep, RemoveSidecarStep, RefreshStep
        <5>2. CASE D!RebuildRead(o) \/ D!RebuildScan(o) \/ D!Measure(o) \/ D!RebuildWrite(o) \/ D!Crash(o)
          BY <1>1, <1>3, <5>2, RebuildReadStep, RebuildScanStep, MeasureStep, RebuildWriteStep, CrashStep
        <5>3. CASE \E m \in Names : D!RemoveData(o, m) \/ D!Visit(o, m)
          BY <1>1, <1>3, <5>3, RemoveDataStep, VisitStep
        <5> QED
          BY <2>1, <3>2, <5>1, <5>2, <5>3 DEF Worker
      <4>2. job'[o] = [job[o] EXCEPT !.rows = cache.rows] /\ job[o].victim.dir
        BY <1>1, <1>3, <4>1, RecordReadStep
      <4> QED
        BY <4>2, JobFields
    <3> QED
      BY <3>1, <3>2
  <2>2. CASE D!Tick \/ D!Damage \/ UNCHANGED D!vars
    BY <1>3, <2>2, WorldSteps DEF Paired
  <2> QED
    BY <2>1, <2>2, SizesSteps
<1>4. ASSUME NEW o \in Procs, sizesPc'[o] = "unlink" PROVE data'[job'[o].name] = D!Nothing
  <2>1. ASSUME NEW p \in Procs, Worker(p), p # o PROVE data'[job'[o].name] = D!Nothing
    <3>1. sizesPc[o] = "unlink" /\ job'[o] = job[o] /\ job[o].name \in Names
      BY <1>1, <1>4, <2>1, OthersWait, JobFields
    <3>2. o \in lock /\ data[job[o].name] = D!Nothing
      BY <3>1 DEF LockInv, Paired
    <3>3. ~D!Publish(p)
      BY <1>1, <3>2, PublishStep
    <3>4. CASE \E m \in Names : D!RemoveData(p, m)
      BY <3>1, <3>2, <3>4, Removed
    <3>5. CASE UNCHANGED data
      BY <3>1, <3>2, <3>5
    <3>6. CASE D!RemoveSidecar(p)
      BY <3>1, <3>5, <3>6, Removed
    <3>7. CASE D!Survey(p) \/ D!Swap(p) \/ D!RecordRead(p) \/ D!RecordWrite(p) \/ D!Refresh(p)
      BY <1>1, <3>5, <3>7, SurveyStep, SwapStep, RecordReadStep, RecordWriteStep, RefreshStep
    <3>8. CASE D!RebuildRead(p) \/ D!RebuildScan(p) \/ D!Measure(p) \/ D!RebuildWrite(p) \/ D!Crash(p)
                 \/ (\E m \in Names : D!Visit(p, m))
      BY <1>1, <3>5, <3>8, RebuildReadStep, RebuildScanStep, MeasureStep, RebuildWriteStep, CrashStep, VisitStep
    <3> QED
      BY <2>1, <3>3, <3>4, <3>6, <3>7, <3>8 DEF Worker
  <2>2. ASSUME Worker(o) PROVE data'[job'[o].name] = D!Nothing
    <3>1. PICK m \in Names : D!RemoveData(o, m)
      <4>1. CASE D!Survey(o) \/ D!Swap(o) \/ D!Publish(o) \/ D!RecordRead(o) \/ D!RecordWrite(o)
                   \/ D!RemoveSidecar(o) \/ D!Refresh(o)
        BY <1>1, <1>4, <4>1, SurveyStep, SwapStep, PublishStep, RecordReadStep, RecordWriteStep,
           RemoveSidecarStep, RefreshStep
      <4>2. CASE D!RebuildRead(o) \/ D!RebuildScan(o) \/ D!Measure(o) \/ D!RebuildWrite(o) \/ D!Crash(o)
                   \/ (\E m \in Names : D!Visit(o, m))
        BY <1>1, <1>4, <4>2, RebuildReadStep, RebuildScanStep, MeasureStep, RebuildWriteStep, CrashStep, VisitStep
      <4> QED
        BY <2>2, <4>1, <4>2 DEF Worker
    <3>2. job'[o] = [job[o] EXCEPT !.name = m, !.victim = data[m]]
      BY <1>1, <3>1, RemoveDataStep
    <3>3. job'[o].name = m
      BY <3>2, JobFields
    <3>4. data'[m] = D!Nothing
      BY <3>1, Removed
    <3> QED
      BY <3>3, <3>4
  <2>3. CASE D!Tick \/ D!Damage \/ UNCHANGED D!vars
    BY <1>4, <2>3, WorldSteps DEF Paired
  <2> QED
    BY <2>1, <2>2, <2>3, SizesSteps
<1>5. D!Nothing' = D!Nothing
  BY DEF D!Nothing
<1> QED
  BY <1>2, <1>3, <1>4, <1>5 DEF Paired

\* What somebody owed, is owed after a step that writes nothing.
LEMMA StillOwed ==
  ASSUME SizesTyped, NEW p \in Procs, Worker(p), NEW n \in Names, NEW o \in Procs,
         ~D!RecordWrite(p), ~D!RebuildWrite(p), ~D!Crash(p)
  PROVE  /\ Owed(n) => Owed(n)'
         /\ OwedElse(o, n) => OwedElse(o, n)'
<1>1. \A q \in Procs : Owes(q, n) => Owes(q, n)'
  BY OthersOwe, OwnDebt DEF SizesTyped
<1> QED
  BY <1>1 DEF Owed, OwedElse

\* What others owed when p wrote, they owe afterwards.
LEMMA OwedBesides ==
  ASSUME SizesTyped, NEW p \in Procs, Worker(p), NEW n \in Names, OwedElse(p, n)
  PROVE  Owed(n)' /\ OwedElse(p, n)'
<1>1. \A q \in Procs : q # p => (Owes(q, n) => Owes(q, n)')
  BY OthersOwe DEF SizesTyped
<1> QED
  BY <1>1 DEF Owed, OwedElse

\* One row more of another name.
LEMMA FitBeside ==
  ASSUME NEW rows, NEW n, NEW isDir, NEW time, NEW r, r.name # n, Fit(rows, n, isDir, time)
  PROVE  Fit(rows \cup {r}, n, isDir, time)
BY DEF Fit

LEMMA FitNew ==
  ASSUME NEW rows, NEW r, \A s \in rows : s.name # r.name
  PROVE  Fit(rows \cup {r}, r.name, TRUE, r.mtime)
BY DEF Fit

\* The rows that a deletion writes fit, and those that a rebuild writes.
LEMMA WrittenFits ==
  ASSUME D!SizesAssumption, SizesInv, Paired, Accounted, NEW p \in Procs,
         D!RecordWrite(p) \/ D!RebuildWrite(p), NEW n \in Names
  PROVE  Fit(cache'.rows, n, data[n].dir, mtime[n]) \/ OwedElse(p, n)
<1>1. SizesTyped /\ JobsTyped /\ HoldInv
  BY DEF SizesInv, SizesTyped
<1>2. CASE D!RecordWrite(p)
  <2> DEFINE own == [name |-> job[p].name, tree |-> job[p].sized, mtime |-> mtime[job[p].name]]
  <2>1. sizesPc[p] = "write" /\ cache'.rows = D!OtherRows(p) \cup {own}
    BY <1>1, <1>2, RecordWriteStep
  <2>2. own.name = job[p].name /\ own.mtime = mtime[job[p].name]
    OBVIOUS
  <2> HIDE DEF own
  <2>3. CASE n = job[p].name
    <3>1. data[n].dir
      BY <1>1, <2>1, <2>3 DEF HoldInv, Paired
    <3>2. Fit(cache'.rows, own.name, TRUE, own.mtime)
      <4>1. \A s \in D!OtherRows(p) : s.name # own.name
        BY <2>2 DEF D!OtherRows
      <4> QED
        BY <2>1, <4>1, FitNew
    <3> QED
      BY <2>2, <2>3, <3>1, <3>2, FitSame
  <2>4. CASE n # job[p].name
    <3>1. Fit(job[p].rows, n, data[n].dir, mtime[n]) => Fit(D!OtherRows(p), n, data[n].dir, mtime[n])
      BY <2>4 DEF Fit, D!OtherRows
    <3>2. Fit(job[p].rows, n, data[n].dir, mtime[n]) \/ OwedElse(p, n)
      BY <2>1, <2>4 DEF Accounted, RecordFits
    <3>3. own.name # n
      BY <2>2, <2>4
    <3> QED
      BY <2>1, <3>1, <3>2, <3>3, FitBeside
  <2> QED
    BY <2>3, <2>4
<1>3. CASE D!RebuildWrite(p)
  <2>1. sizesPc[p] = "visit" /\ job[p].todo = {} /\ cache'.rows = job[p].lines
    BY <1>1, <1>3, RebuildWriteStep
  <2> QED
    BY <2>1 DEF Accounted, RebuildFits
<1> QED
  BY <1>2, <1>3

LEMMA FileFitsNext ==
  ASSUME D!SizesAssumption, SizesInv, Paired, Accounted, NEW p \in Procs, Worker(p), ~raced', crashes' = 0
  PROVE  FileFits'
<1>1. SizesTyped /\ JobsTyped /\ SurveyInv /\ ~D!Crash(p)
  BY QuietWrites DEF SizesInv, SizesTyped
<1> SUFFICES ASSUME NEW n \in Names
             PROVE  cache'.bad \/ Fit(cache'.rows, n, data'[n].dir, mtime'[n]) \/ Owed(n)'
  BY DEF FileFits
<1>2. CASE D!RecordWrite(p) \/ D!RebuildWrite(p)
  <2>1. UNCHANGED <<data, mtime>>
    BY <1>1, <1>2, RecordWriteStep, RebuildWriteStep
  <2> QED
    BY <1>1, <1>2, <2>1, WrittenFits, OwedBesides
<1>3. CASE ~(D!RecordWrite(p) \/ D!RebuildWrite(p))
  <2>1. cache' = cache
    <3>1. CASE D!Survey(p) \/ D!Swap(p) \/ D!Publish(p) \/ D!RecordRead(p) \/ D!RemoveSidecar(p) \/ D!Refresh(p)
      BY <1>1, <3>1, SurveyStep, SwapStep, PublishStep, RecordReadStep, RemoveSidecarStep, RefreshStep
    <3>2. CASE D!RebuildRead(p) \/ D!RebuildScan(p) \/ D!Measure(p)
      BY <1>1, <3>2, RebuildReadStep, RebuildScanStep, MeasureStep
    <3>3. CASE \E m \in Names : D!RemoveData(p, m) \/ D!Visit(p, m)
      BY <1>1, <3>3, RemoveDataStep, VisitStep
    <3> QED
      BY <1>1, <1>3, <3>1, <3>2, <3>3 DEF Worker
  <2>2. cache.bad \/ Fit(cache.rows, n, data[n].dir, mtime[n]) \/ Owed(n)
    BY DEF Accounted, FileFits
  <2>3. Fit(cache.rows, n, data[n].dir, mtime[n]) => Fit(cache.rows, n, data'[n].dir, mtime'[n]) \/ Owes(p, n)'
    BY <1>1, FitMoves
  <2>4. Owes(p, n)' => Owed(n)'
    BY DEF Owed
  <2> QED
    BY <1>1, <1>3, <2>1, <2>2, <2>3, <2>4, StillOwed
<1> QED
  BY <1>2, <1>3

LEMMA RecordFitsNext ==
  ASSUME D!SizesAssumption, SizesInv, Paired, Accounted, NEW p \in Procs, Worker(p), ~raced', crashes' = 0
  PROVE  RecordFits'
<1>1. SizesTyped /\ JobsTyped /\ SurveyInv /\ ~D!Crash(p)
  BY QuietWrites DEF SizesInv, SizesTyped
<1> SUFFICES ASSUME NEW o \in Procs, NEW n \in Names, sizesPc'[o] = "write", n # job'[o].name
             PROVE  Fit(job'[o].rows, n, data'[n].dir, mtime'[n]) \/ OwedElse(o, n)'
  BY DEF RecordFits
<1>2. CASE o # p
  <2>1. sizesPc[o] = "write" /\ job'[o] = job[o]
    BY <1>1, <1>2, OthersWait
  <2>2. ~D!RecordWrite(p) /\ ~D!RebuildWrite(p)
    BY <1>1, <1>2, <2>1, QuietWrites DEF D!HasRead
  <2>3. Fit(job[o].rows, n, data[n].dir, mtime[n]) \/ OwedElse(o, n)
    BY <2>1 DEF Accounted, RecordFits
  <2>4. Fit(job[o].rows, n, data[n].dir, mtime[n]) =>
          Fit(job[o].rows, n, data'[n].dir, mtime'[n]) \/ Owes(p, n)'
    BY <1>1, FitMoves
  <2>5. Owes(p, n)' => OwedElse(o, n)'
    BY <1>2 DEF OwedElse
  <2> QED
    BY <1>1, <2>1, <2>2, <2>3, <2>4, <2>5, StillOwed
<1>3. CASE o = p
  <2>1. D!RecordRead(p)
    <3>1. CASE D!Survey(p) \/ D!Swap(p) \/ D!Publish(p) \/ D!RecordWrite(p) \/ D!RemoveSidecar(p) \/ D!Refresh(p)
      BY <1>1, <1>3, <3>1, SurveyStep, SwapStep, PublishStep, RecordWriteStep, RemoveSidecarStep, RefreshStep
    <3>2. CASE D!RebuildRead(p) \/ D!RebuildScan(p) \/ D!Measure(p) \/ D!RebuildWrite(p)
      BY <1>1, <1>3, <3>2, RebuildReadStep, RebuildScanStep, MeasureStep, RebuildWriteStep
    <3>3. CASE \E m \in Names : D!RemoveData(p, m) \/ D!Visit(p, m)
      BY <1>1, <1>3, <3>3, RemoveDataStep, VisitStep
    <3> QED
      BY <1>1, <3>1, <3>2, <3>3 DEF Worker
  <2>2. /\ sizesPc[p] = "read" /\ ~cache.bad /\ job'[p] = [job[p] EXCEPT !.rows = cache.rows]
        /\ UNCHANGED <<data, mtime, cache>>
    BY <1>1, <1>3, <2>1, RecordReadStep
  <2>3. job'[p].rows = cache.rows /\ job'[p].name = job[p].name
    BY <1>1, <2>2, JobFields
  <2>4. ~Owes(p, n)
    BY <1>3, <2>2, <2>3 DEF Owes
  <2>5. Fit(cache.rows, n, data[n].dir, mtime[n]) \/ OwedElse(p, n)
    BY <2>2, <2>4 DEF Accounted, FileFits, Owed, OwedElse
  <2> QED
    BY <1>1, <1>3, <2>2, <2>3, <2>5, OwedBesides
<1> QED
  BY <1>2, <1>3

\* A rebuild goes on by scanning, visiting or measuring.
LEMMA RebuildSteps ==
  ASSUME SizesTyped, NEW p \in Procs, Worker(p), sizesPc'[p] \in {"visit", "measure"}
  PROVE  D!RebuildScan(p) \/ D!Measure(p) \/ \E m \in Names : D!Visit(p, m)
<1>1. JobsTyped
  BY DEF SizesTyped
<1>2. CASE D!Survey(p) \/ D!Swap(p) \/ D!Publish(p) \/ D!RecordRead(p) \/ D!RecordWrite(p)
             \/ D!RemoveSidecar(p) \/ D!Refresh(p)
  BY <1>1, <1>2, SurveyStep, SwapStep, PublishStep, RecordReadStep, RecordWriteStep, RemoveSidecarStep,
     RefreshStep
<1>3. CASE D!RebuildRead(p) \/ D!RebuildWrite(p) \/ D!Crash(p) \/ \E m \in Names : D!RemoveData(p, m)
  BY <1>1, <1>3, RebuildReadStep, RebuildWriteStep, CrashStep, RemoveDataStep
<1> QED
  BY <1>2, <1>3 DEF Worker

\* What a visit makes of the names to do and of the lines.
LEMMA Visited ==
  ASSUME D!SizesAssumption, SizesTyped, NEW p \in Procs, NEW m \in Names, D!Visit(p, m)
  PROVE  /\ sizesPc[p] = "visit" /\ m \in job[p].todo /\ UNCHANGED <<data, mtime>>
         /\ \/ /\ sizesPc'[p] = "visit" /\ job'[p].todo = job[p].todo \ {m} /\ job'[p].lines = job[p].lines
               /\ ~data[m].dir \/ mtime[m] = 0
            \/ /\ sizesPc'[p] = "visit" /\ job'[p].todo = job[p].todo \ {m} /\ data[m].dir
               /\ \E r : r.name = m /\ r.mtime = mtime[m] /\ job'[p].lines = job[p].lines \cup {r}
            \/ /\ sizesPc'[p] = "measure" /\ data[m].dir /\ job'[p].name = m /\ job'[p].seen = mtime[m]
               /\ job'[p].todo = job[p].todo /\ job'[p].lines = job[p].lines
<1>1. JobsTyped
  BY DEF SizesTyped
<1>2. job[p].rows \subseteq D!Row /\ job[p] \in D!Job
  BY <1>1, JobFields DEF JobsTyped, SizesTyped
<1>3. ASSUME job'[p] = [job[p] EXCEPT !.todo = job[p].todo \ {m}]
      PROVE  job'[p].todo = job[p].todo \ {m} /\ job'[p].lines = job[p].lines
  BY <1>2, <1>3 DEF D!Job
<1>4. ASSUME NEW r \in job[p].rows, r.name = m, r.mtime = mtime[m],
             job'[p] = [job[p] EXCEPT !.todo = job[p].todo \ {m},
                                      !.lines = job[p].lines \cup {[r EXCEPT !.mtime = mtime[m]]}]
      PROVE  job'[p].todo = job[p].todo \ {m} /\ job'[p].lines = job[p].lines \cup {r}
  <2>1. r \in D!Row
    BY <1>2, <1>4
  <2>2. [r EXCEPT !.mtime = mtime[m]] = r
    BY <1>4, <2>1 DEF D!Row
  <2>3. job'[p] = [job[p] EXCEPT !.todo = job[p].todo \ {m}, !.lines = job[p].lines \cup {r}]
    BY <1>4, <2>2
  <2> QED
    BY <1>2, <2>3 DEF D!Job
<1>5. ASSUME job'[p] = [job[p] EXCEPT !.name = m, !.seen = mtime[m]]
      PROVE  /\ job'[p].name = m /\ job'[p].seen = mtime[m]
             /\ job'[p].todo = job[p].todo /\ job'[p].lines = job[p].lines
  BY <1>2, <1>5 DEF D!Job
<1>6. sizesPc[p] = "visit" /\ m \in job[p].todo /\ UNCHANGED <<data, mtime>>
  BY <1>1, VisitStep
<1>7. CASE sizesPc'[p] = "visit" /\ (~data[m].dir \/ mtime[m] = 0)
             /\ job'[p] = [job[p] EXCEPT !.todo = job[p].todo \ {m}]
  BY <1>3, <1>6, <1>7
<1>8. CASE /\ sizesPc'[p] = "visit" /\ data[m].dir
           /\ \E r \in job[p].rows :
                /\ r.name = m /\ r.mtime = mtime[m]
                /\ job'[p] = [job[p] EXCEPT !.todo = job[p].todo \ {m},
                                            !.lines = job[p].lines \cup {[r EXCEPT !.mtime = mtime[m]]}]
  <2>1. PICK r \in job[p].rows :
          /\ r.name = m /\ r.mtime = mtime[m]
          /\ job'[p] = [job[p] EXCEPT !.todo = job[p].todo \ {m},
                                      !.lines = job[p].lines \cup {[r EXCEPT !.mtime = mtime[m]]}]
    BY <1>8
  <2>2. job'[p].todo = job[p].todo \ {m} /\ job'[p].lines = job[p].lines \cup {r}
    BY <1>4, <2>1
  <2> QED
    BY <1>6, <1>8, <2>1, <2>2
<1>9. CASE sizesPc'[p] = "measure" /\ data[m].dir /\ mtime[m] # 0
             /\ job'[p] = [job[p] EXCEPT !.name = m, !.seen = mtime[m]]
  BY <1>5, <1>6, <1>9
<1> QED
  BY <1>1, <1>7, <1>8, <1>9, VisitStep

LEMMA RebuildFitsNext ==
  ASSUME D!SizesAssumption, SizesInv, Paired, Accounted, NEW p \in Procs, Worker(p), ~raced', crashes' = 0
  PROVE  RebuildFits'
<1>1. SizesTyped /\ JobsTyped /\ SurveyInv /\ UniqueInv /\ ~D!Crash(p)
  BY QuietWrites DEF SizesInv, SizesTyped
<1> SUFFICES ASSUME NEW o \in Procs, NEW n \in Names, sizesPc'[o] \in {"visit", "measure"}
             PROVE  n \in job'[o].todo \/ Fit(job'[o].lines, n, data'[n].dir, mtime'[n]) \/ OwedElse(o, n)'
  BY DEF RebuildFits
<1>2. CASE o # p
  <2>1. sizesPc[o] \in {"visit", "measure"} /\ job'[o] = job[o]
    BY <1>1, <1>2, OthersWait
  <2>2. ~D!RecordWrite(p) /\ ~D!RebuildWrite(p)
    BY <1>1, <1>2, <2>1, QuietWrites DEF D!HasRead
  <2>3. n \in job[o].todo \/ Fit(job[o].lines, n, data[n].dir, mtime[n]) \/ OwedElse(o, n)
    BY <2>1 DEF Accounted, RebuildFits
  <2>4. Fit(job[o].lines, n, data[n].dir, mtime[n]) =>
          Fit(job[o].lines, n, data'[n].dir, mtime'[n]) \/ Owes(p, n)'
    BY <1>1, FitMoves
  <2>5. Owes(p, n)' => OwedElse(o, n)'
    BY <1>2 DEF OwedElse
  <2> QED
    BY <1>1, <2>1, <2>2, <2>3, <2>4, <2>5, StillOwed
<1>3. ASSUME o = p, D!RebuildScan(p)
      PROVE  n \in job'[o].todo \/ Fit(job'[o].lines, n, data'[n].dir, mtime'[n])
  <2>1. /\ sizesPc[p] = "scan" /\ job'[p] = [job[p] EXCEPT !.todo = {m \in Names : data[m].dir /\ mtime[m] # 0}]
        /\ UNCHANGED <<data, mtime>>
    BY <1>1, <1>3, RebuildScanStep
  <2>2. job'[p].todo = {m \in Names : data[m].dir /\ mtime[m] # 0} /\ job'[p].lines = job[p].lines
    BY <1>1, <2>1, JobFields
  <2>3. job[p].lines = {}
    BY <1>1, <2>1 DEF UniqueInv, UniqueJob
  <2>4. data[n].dir => mtime[n] # 0
    BY NoJobTyped DEF Paired
  <2>5. CASE data[n].dir
    BY <1>3, <2>2, <2>4, <2>5
  <2>6. CASE ~data[n].dir
    <3>1. Fit({}, n, data[n].dir, mtime[n])
      BY <2>6 DEF Fit
    <3> QED
      BY <1>3, <2>1, <2>2, <2>3, <3>1
  <2> QED
    BY <2>5, <2>6
<1>4. ASSUME o = p, NEW m \in Names, D!Visit(p, m)
      PROVE  n \in job'[o].todo \/ Fit(job'[o].lines, n, data'[n].dir, mtime'[n]) \/ OwedElse(o, n)'
  <2>1. sizesPc[p] = "visit" /\ m \in job[p].todo /\ UNCHANGED <<data, mtime>>
    BY <1>1, <1>4, Visited
  <2>2. n \in job[p].todo \/ Fit(job[p].lines, n, data[n].dir, mtime[n]) \/ OwedElse(p, n)
    BY <2>1 DEF Accounted, RebuildFits
  <2>3. OwedElse(p, n) => OwedElse(p, n)'
    BY <1>1, OwedBesides
  <2>4. \A r \in job[p].lines : r.name # m
    BY <1>1, <2>1 DEF UniqueInv, UniqueJob
  <2>5. CASE job'[p].todo = job[p].todo \ {m} /\ job'[p].lines = job[p].lines /\ (~data[m].dir \/ mtime[m] = 0)
    <3>1. CASE n = m
      <4>1. ~data[n].dir
        BY <2>5, <3>1, NoJobTyped DEF Paired
      <4>2. Fit(job[p].lines, n, data[n].dir, mtime[n])
        BY <2>4, <3>1, <4>1 DEF Fit
      <4> QED
        BY <1>4, <2>1, <2>5, <4>2
    <3>2. CASE n # m
      BY <1>4, <2>1, <2>2, <2>3, <2>5, <3>2
    <3> QED
      BY <3>1, <3>2
  <2>6. ASSUME job'[p].todo = job[p].todo \ {m}, data[m].dir, NEW r, r.name = m, r.mtime = mtime[m],
               job'[p].lines = job[p].lines \cup {r}
        PROVE  n \in job'[p].todo \/ Fit(job'[p].lines, n, data'[n].dir, mtime'[n]) \/ OwedElse(p, n)'
    <3>1. CASE n = m
      <4>1. Fit(job[p].lines \cup {r}, r.name, TRUE, r.mtime)
        BY <2>4, <2>6, FitNew
      <4>2. Fit(job[p].lines \cup {r}, n, data[n].dir, mtime[n])
        BY <2>6, <3>1, <4>1, FitSame
      <4> QED
        BY <2>1, <2>6, <4>2
    <3>2. CASE n # m
      <4>1. Fit(job[p].lines, n, data[n].dir, mtime[n]) => Fit(job[p].lines \cup {r}, n, data[n].dir, mtime[n])
        BY <2>6, <3>2, FitBeside
      <4> QED
        BY <2>1, <2>2, <2>3, <2>6, <3>2, <4>1
    <3> QED
      BY <3>1, <3>2
  <2>7. CASE job'[p].todo = job[p].todo /\ job'[p].lines = job[p].lines
    BY <1>4, <2>1, <2>2, <2>3, <2>7
  <2> QED
    BY <1>1, <1>4, <2>5, <2>6, <2>7, Visited
<1>5. ASSUME o = p, D!Measure(p)
      PROVE  n \in job'[o].todo \/ Fit(job'[o].lines, n, data'[n].dir, mtime'[n]) \/ OwedElse(o, n)'
  <2> DEFINE m == job[p].name
             r == [name |-> m, tree |-> data[m].tree, mtime |-> job[p].seen]
  <2>1. /\ sizesPc[p] = "measure" /\ UNCHANGED <<data, mtime>>
        /\ job'[p] = [job[p] EXCEPT !.todo = job[p].todo \ {m}, !.seen = 0, !.lines = job[p].lines \cup {r}]
    BY <1>1, <1>5, MeasureStep
  <2>2. r.name = m /\ r.mtime = job[p].seen
    OBVIOUS
  <2> HIDE DEF r
  <2>3. job'[p].todo = job[p].todo \ {m} /\ job'[p].lines = job[p].lines \cup {r}
    BY <1>1, <2>1, JobFields
  <2>4. n \in job[p].todo \/ Fit(job[p].lines, n, data[n].dir, mtime[n]) \/ OwedElse(p, n)
    BY <2>1 DEF Accounted, RebuildFits
  <2>5. OwedElse(p, n) => OwedElse(p, n)'
    BY <1>1, OwedBesides
  <2>6. CASE n = m
    <3>1. \A s \in job[p].lines : s.name # m
      BY <1>1, <2>1 DEF UniqueInv, UniqueJob
    <3>2. (data[n].dir /\ mtime[n] = job[p].seen) \/ OwedElse(p, n)
      BY <2>1, <2>6 DEF Accounted, MeasureFits
    <3>3. Fit(job[p].lines \cup {r}, r.name, TRUE, r.mtime)
      BY <2>2, <3>1, FitNew
    <3>4. data[n].dir /\ mtime[n] = job[p].seen => Fit(job[p].lines \cup {r}, n, data[n].dir, mtime[n])
      BY <2>2, <2>6, <3>3, FitSame
    <3> QED
      BY <1>5, <2>1, <2>3, <2>5, <3>2, <3>4
  <2>7. CASE n # m
    <3>1. Fit(job[p].lines, n, data[n].dir, mtime[n]) => Fit(job[p].lines \cup {r}, n, data[n].dir, mtime[n])
      BY <2>2, <2>7, FitBeside
    <3> QED
      BY <1>5, <2>1, <2>3, <2>4, <2>5, <2>7, <3>1
  <2> QED
    BY <2>6, <2>7
<1> QED
  BY <1>1, <1>2, <1>3, <1>4, <1>5, RebuildSteps

LEMMA MeasureFitsNext ==
  ASSUME D!SizesAssumption, SizesInv, Paired, Accounted, NEW p \in Procs, Worker(p), ~raced', crashes' = 0
  PROVE  MeasureFits'
<1>1. SizesTyped /\ JobsTyped /\ SurveyInv /\ ~D!Crash(p)
  BY QuietWrites DEF SizesInv, SizesTyped
<1> SUFFICES ASSUME NEW o \in Procs, NEW n \in Names, sizesPc'[o] = "measure", n = job'[o].name
             PROVE  (data'[n].dir /\ mtime'[n] = job'[o].seen) \/ OwedElse(o, n)'
  BY DEF MeasureFits
<1>2. CASE o # p
  <2>1. sizesPc[o] = "measure" /\ job'[o] = job[o]
    BY <1>1, <1>2, OthersWait
  <2>2. ~D!RecordWrite(p) /\ ~D!RebuildWrite(p)
    BY <1>1, <1>2, <2>1, QuietWrites DEF D!HasRead
  <2>3. (data[n].dir /\ mtime[n] = job[o].seen) \/ OwedElse(o, n)
    BY <2>1 DEF Accounted, MeasureFits
  <2>4. (data[n].dir /\ mtime[n] = job[o].seen) => (data'[n].dir /\ mtime'[n] = job[o].seen) \/ Owes(p, n)'
    BY <1>1, NameMoves DEF Same
  <2>5. Owes(p, n)' => OwedElse(o, n)'
    BY <1>2 DEF OwedElse
  <2>6. OwedElse(o, n) => OwedElse(o, n)'
    BY <1>1, <2>2, StillOwed
  <2> QED
    BY <2>1, <2>3, <2>4, <2>5, <2>6
<1>3. CASE o = p
  <2>1. ASSUME NEW m \in Names, D!Visit(p, m)
        PROVE  data'[n].dir /\ mtime'[n] = job'[o].seen
    BY <1>1, <1>3, <2>1, Visited
  <2>2. ~D!RebuildScan(p) /\ ~D!Measure(p)
    BY <1>1, <1>3, RebuildScanStep, MeasureStep
  <2> QED
    BY <1>1, <1>3, <2>1, <2>2, RebuildSteps
<1> QED
  BY <1>2, <1>3

LEMMA CompleteNext ==
  ASSUME D!SizesAssumption, CompleteInv, [D!Next]_(D!vars)
  PROVE  CompleteInv'
<1>1. SizesInv /\ SizesTyped /\ JobsTyped /\ LockInv /\ SurveyInv /\ Paired
  BY DEF CompleteInv, SizesInv, SizesTyped
<1>2. SizesInv'
  BY <1>1, SizesNext
<1>3. Paired'
  BY <1>1, PairedNext
<1>4. ASSUME NEW p \in Procs, Worker(p), ~raced', crashes' = 0 PROVE Accounted'
  <2>1. Accounted
    BY <1>1, <1>4, QuietWrites DEF CompleteInv
  <2> QED
    BY <1>1, <1>4, <2>1, FileFitsNext, RecordFitsNext, RebuildFitsNext, MeasureFitsNext DEF Accounted
<1>5. ASSUME D!Tick \/ D!Damage \/ UNCHANGED D!vars, ~raced', crashes' = 0 PROVE Accounted'
  <2>1. UNCHANGED <<data, mtime, sizesPc, job, raced, crashes>>
    BY <1>5 DEF D!Tick, D!Damage, D!vars, D!store, D!budget
  <2>2. cache' = cache \/ cache'.bad
    BY <1>5 DEF D!Tick, D!Damage, D!vars, D!store
  <2>3. Accounted
    BY <1>5, <2>1 DEF CompleteInv
  <2>4. \A q \in Procs, n \in Names : Owes(q, n)' <=> Owes(q, n)
    BY <2>1 DEF Owes
  <2>5. \A o \in Procs, n \in Names : (Owed(n) => Owed(n)') /\ (OwedElse(o, n) => OwedElse(o, n)')
    BY <2>4 DEF Owed, OwedElse
  <2>6. FileFits'
    <3> SUFFICES ASSUME NEW n \in Names
                 PROVE  cache'.bad \/ Fit(cache'.rows, n, data'[n].dir, mtime'[n]) \/ Owed(n)'
      BY DEF FileFits
    <3>1. cache.bad \/ Fit(cache.rows, n, data[n].dir, mtime[n]) \/ Owed(n)
      BY <2>3 DEF Accounted, FileFits
    <3>2. Owed(n) => Owed(n)'
      BY <2>4 DEF Owed
    <3>3. CASE cache' = cache
      BY <2>1, <3>1, <3>2, <3>3
    <3> QED
      BY <2>2, <3>3
  <2>7. RecordFits' /\ RebuildFits' /\ MeasureFits'
    BY <2>1, <2>3, <2>5 DEF Accounted, RecordFits, RebuildFits, MeasureFits
  <2> QED
    BY <2>6, <2>7 DEF Accounted
<1>6. raced' \/ crashes' # 0 \/ Accounted'
  BY <1>4, <1>5, SizesSteps
<1> QED
  BY <1>2, <1>3, <1>6 DEF CompleteInv

\* Whatever a trash holds, the cache and everybody at work on it account for.
THEOREM CompleteInductive == ASSUME D!SizesAssumption PROVE D!Spec => []CompleteInv
<1>1. D!Init => CompleteInv
  <2> SUFFICES ASSUME D!Init PROVE CompleteInv
    OBVIOUS
  <2>1. SizesInv
    BY SizesStart
  <2>2. /\ \A n \in Names : data[n] = D!Nothing
        /\ \A p \in Procs : sizesPc[p] = "idle"
        /\ cache.rows = {}
    BY DEF D!Init
  <2>3. Paired
    BY <2>2 DEF Paired
  <2>4. \A n \in Names : Fit(cache.rows, n, data[n].dir, mtime[n])
    BY <2>2, NoJobTyped DEF Fit
  <2>5. Accounted
    BY <2>2, <2>4 DEF Accounted, FileFits, RecordFits, RebuildFits, MeasureFits
  <2> QED
    BY <2>1, <2>3, <2>5 DEF CompleteInv
<1>2. CompleteInv /\ [D!Next]_(D!vars) => CompleteInv'
  BY CompleteNext
<1> QED
  BY <1>1, <1>2, PTL DEF D!Spec

\* The file that an operation leaves lists every trashed directory with its time, and nothing
\* else, unless writes crossed, somebody was killed or is still at work.
THEOREM LeavesAllRows == ASSUME D!SizesAssumption PROVE D!Spec => [][D!CompleteRows]_(D!vars)
<1>1. CompleteInv /\ [D!Next]_(D!vars) => [D!CompleteRows]_(D!vars)
  <2> SUFFICES ASSUME CompleteInv, [D!Next]_(D!vars), NEW p \in Procs,
                      cache' # cache, sizesPc[p] # "idle", sizesPc'[p] = "idle", crashes' = 0,
                      \A q \in Procs \ {p} : sizesPc[q] \in {"idle", "survey"}, ~raced'
               PROVE  {[name |-> r.name, mtime |-> r.mtime] : r \in cache'.rows} =
                      {[name |-> n, mtime |-> mtime[n]] : n \in {m \in Names : data[m].dir}}
    BY DEF D!CompleteRows
  <2>1. SizesInv /\ SizesTyped /\ JobsTyped /\ Paired /\ SizesInv'
    BY CompleteNext DEF CompleteInv, SizesInv, SizesTyped
  <2>2. Worker(p)
    <3>1. ASSUME NEW o \in Procs, Worker(o), o # p PROVE FALSE
      BY <2>1, <3>1, OthersWait
    <3>2. CASE D!Tick \/ D!Damage \/ UNCHANGED D!vars
      BY <3>2, WorldSteps
    <3> QED
      BY <3>1, <3>2, SizesSteps
  <2>3. Accounted /\ ~D!Crash(p)
    BY <2>1, <2>2, QuietWrites DEF CompleteInv
  <2>4. D!RecordWrite(p) \/ D!RebuildWrite(p)
    <3>1. CASE D!Survey(p) \/ D!Swap(p) \/ D!Publish(p) \/ D!RecordRead(p) \/ D!RemoveSidecar(p) \/ D!Refresh(p)
      BY <2>1, <3>1, SurveyStep, SwapStep, PublishStep, RecordReadStep, RemoveSidecarStep, RefreshStep
    <3>2. CASE D!RebuildRead(p) \/ D!RebuildScan(p) \/ D!Measure(p)
      BY <2>1, <3>2, RebuildReadStep, RebuildScanStep, MeasureStep
    <3>3. CASE \E m \in Names : D!RemoveData(p, m) \/ D!Visit(p, m)
      BY <2>1, <3>3, RemoveDataStep, VisitStep
    <3> QED
      BY <2>2, <2>3, <3>1, <3>2, <3>3 DEF Worker
  <2>5. ASSUME NEW n \in Names PROVE Fit(cache'.rows, n, data[n].dir, mtime[n])
    <3>1. ~OwedElse(p, n)
      BY DEF OwedElse, Owes
    <3> QED
      BY <2>1, <2>3, <2>4, <3>1, WrittenFits
  <2>6. \A r \in cache'.rows : r.name \in Names
    <3>1. cache'.rows \subseteq D!Row'
      BY <2>1 DEF SizesInv, SizesTyped, DiskTyped
    <3> QED
      BY <3>1 DEF D!Row
  <2>7. \A r \in cache'.rows : data[r.name].dir /\ r.mtime = mtime[r.name]
    BY <2>5, <2>6 DEF Fit
  <2>8. \A n \in Names : data[n].dir => \E r \in cache'.rows : r.name = n /\ r.mtime = mtime[n]
    BY <2>5 DEF Fit
  <2> QED
    BY <2>6, <2>7, <2>8
<1> QED
  BY <1>1, CompleteInductive, PTL DEF D!Spec

-----------------------------------------------------------------------------
(* The entries a command acts on, for any roots, IDs, names, globs,        *)
(* commands and moves of others.                                           *)

CONSTANTS Order, Ids, FileNames, NamesOf, Fits, Commands, MaxStamp, MaxOthers
VARIABLES
  sidecar, selectionData, broken, last, others, cmd, phase, at, unread, lines, chosen, answer,
  steady, acted

E == INSTANCE EntrySelection WITH Names <- FileNames, data <- selectionData

\* Data and sidecar of a slot are of one entry, and no stamp is given twice.
SlotsInv ==
  /\ \A s \in E!Slots : sidecar[s] # None /\ selectionData[s] # None => selectionData[s] = sidecar[s].stamp
  /\ \A s \in E!Slots : sidecar[s] # None => sidecar[s].stamp <= last
  /\ \A s, t \in E!Slots :
       sidecar[s] # None /\ sidecar[t] # None /\ sidecar[s].stamp = sidecar[t].stamp => s = t
\* What was there all along is there.
SteadyInv ==
  \A e \in steady :
    /\ sidecar[e.slot] = [stamp |-> e.stamp, name |-> e.name] /\ selectionData[e.slot] = e.stamp
    /\ e.slot[1] \notin broken
CommandInv ==
  /\ (phase # "idle" => cmd \in Commands) /\ (phase # "done" => answer = None)
  /\ (phase = "fast" => ~E!EveryCopy(cmd) /\ E!OnlyId(cmd) # {})
  /\ (phase = "identify" => cmd.kind = "undo") /\ (phase = "prompt" => cmd.kind = "empty")
\* A stamp in the listing is not that of a steady entry elsewhere.
LinesInv == \A l \in lines : \A e \in steady : l.stamp = e.stamp => l.slot = e.slot
\* Where the listing has been, it has a line for each steady entry.
Listed(e) == \E l \in lines : l.slot = e.slot /\ l.stamp = e.stamp /\ l.name = e.name
Passed(s) ==
  \/ \E k \in 1..Len(Order) : k < at /\ Order[k] = s[1]
  \/ at <= Len(Order) /\ Order[at] = s[1] /\ s[2] \notin unread
ListInv ==
  phase \in {"fast", "full"} =>
    \A e \in steady : e.slot[2] \in E!InScan /\ Passed(e.slot) => Listed(e)
\* A quick pass that sufficed had a match, and has a line for every entry of that ID.
Quick ==
  /\ ~E!EveryCopy(cmd) /\ E!OnlyId(cmd) # {} /\ E!Matched(cmd)
  /\ \A e \in steady : e.slot[2] \in E!OnlyId(cmd) => Listed(e)
SelectInv == phase = "select" => (\A e \in steady : Listed(e)) \/ Quick
\* What a command is about to act on is what it was asked for.
Best(l) ==
  \A e \in steady : e.slot # l.slot => E!Rank(l.slot, l.name, cmd) < E!Rank(e.slot, e.name, cmd)
Newest(l) == \A e \in steady : e.slot # l.slot => e.stamp < l.stamp
ChosenInv ==
  /\ phase = "act" /\ E!Single(cmd) => \A l \in chosen : Best(l)
  /\ phase \in {"identify", "act"} /\ cmd.kind = "undo" => \A l \in chosen : ~E!Orphaned(l) /\ Newest(l)
SelectionInv ==
  /\ E!TypeOK /\ SlotsInv /\ SteadyInv /\ CommandInv /\ LinesInv /\ ListInv /\ SelectInv /\ ChosenInv
  /\ E!ActsOnItsLine /\ E!NotFoundHonest

-----------------------------------------------------------------------------
(* Operators.                                                              *)

\* A set of numbers that has a bound has a largest one.
LEMMA Largest ==
  ASSUME NEW n \in Nat, NEW S \in SUBSET (1..n), S # {}
  PROVE  \E x \in S : \A y \in S : y <= x
<1> DEFINE T == {n - x : x \in S}
           R == OpToRel(<, Nat)
<1>0. \A x \in S : x \in Nat /\ 1 <= x /\ x <= n
  OBVIOUS
<1>1. T \subseteq Nat /\ T # {}
  <2>1. \A x \in S : n - x \in Nat
    BY <1>0
  <2>2. PICK x \in S : TRUE
    OBVIOUS
  <2> QED
    BY <2>1, <2>2
<1>2. PICK t \in T : \A u \in T : ~(<<u, t>> \in R)
  <2> HIDE DEF T, R
  <2>1. IsWellFoundedOn(R, Nat)
    BY NatLessThanWellFounded DEF R
  <2> QED
    BY <1>1, <2>1, WFMin
<1>3. \A u \in T : ~(u < t)
  BY <1>1, <1>2 DEF OpToRel
<1>4. PICK x \in S : t = n - x
  OBVIOUS
<1>5. ASSUME NEW y \in S PROVE y <= x
  <2>1. ~(n - y < n - x)
    BY <1>3, <1>4
  <2> QED
    BY <1>0, <2>1
<1> QED
  BY <1>5

\* How a command and its options are told apart.
LEMMA Asks ==
  ASSUME E!SelectionAssumption, NEW c \in Commands
  PROVE  /\ E!OnlyId(c) \subseteq Ids
         /\ c.path # None => c.path \in E!Slots /\ c.sel = None
         /\ E!Single(c) => ~E!EveryCopy(c)
         /\ c.kind \in {"undo", "empty"} => E!OnlyId(c) = {}
BY DEF E!SelectionAssumption, E!OnlyId, E!Slots, E!Single, E!EveryCopy

\* A line of a steady entry has the stamp and the name of one.
LEMMA LineFields ==
  ASSUME E!SelectionAssumption, E!TypeOK, NEW l \in lines
  PROVE  /\ l.slot \in E!Slots /\ l.stamp \in 1..MaxStamp \cup {None} /\ l.name \in FileNames \cup {None}
         /\ l.doc \in 1..MaxStamp \cup {None} /\ l.slot[1] \in E!Roots /\ l.slot[2] \in Ids
BY DEF E!TypeOK, E!Line, E!Slots

LEMMA SteadyFields ==
  ASSUME E!SelectionAssumption, E!TypeOK, NEW e \in steady
  PROVE  /\ e.slot \in E!Slots /\ e.stamp \in 1..MaxStamp /\ e.stamp # None /\ e.name \in FileNames
         /\ e.slot[1] \in E!Roots /\ e.slot[2] \in Ids /\ e.name # None
BY DEF E!TypeOK, E!Slots, E!SelectionAssumption

LEMMA SidecarFields ==
  ASSUME E!SelectionAssumption, E!TypeOK, NEW s \in E!Slots
  PROVE  /\ selectionData[s] \in 1..MaxStamp \cup {None}
         /\ sidecar[s] # None => sidecar[s].stamp \in 1..MaxStamp /\ sidecar[s].name \in FileNames
                                 /\ sidecar[s] = [stamp |-> sidecar[s].stamp, name |-> sidecar[s].name]
         /\ s[1] \in E!Roots /\ s[2] \in Ids
BY DEF E!TypeOK, E!Slots, E!Entry

-----------------------------------------------------------------------------
(* Steps.                                                                  *)

Acts == \E l \in chosen : E!ActOn(l)
Abroad == others' = others + 1 /\ E!World
\* Every step that changes no slot and no root.
Looks ==
  \/ \E c \in Commands : E!Start(c)
  \/ E!Lookup \/ E!SelectOne \/ E!SelectAll \/ E!SelectNewest \/ E!Identify \/ E!SelectEverything
  \/ E!Confirm \/ E!Cancel \/ (\E l \in chosen : E!PassOver(l)) \/ E!Finish
LEMMA SelectionSteps ==
  ASSUME [E!Next]_(E!vars)
  PROVE  \/ Looks \/ Acts \/ UNCHANGED E!vars
         \/ Abroad /\ phase \notin {"idle", "done"} /\ others < MaxOthers
BY DEF E!Next, E!Command, Looks, Acts, Abroad

LEMMA LooksKeep ==
  ASSUME Looks
  PROVE  UNCHANGED <<sidecar, selectionData, broken, last, others, acted>>
<1>1. CASE \E c \in Commands : E!Start(c)
  BY <1>1 DEF E!Start, E!disk
<1>2. CASE E!Lookup
  BY <1>2 DEF E!Lookup, E!ReadSidecar, E!ScanOrphans, E!RootFails, E!EndPass, E!disk
<1>3. CASE E!SelectOne \/ E!SelectAll \/ E!SelectNewest \/ E!Identify \/ E!SelectEverything
  BY <1>3 DEF E!SelectOne, E!SelectAll, E!SelectNewest, E!Identify, E!SelectEverything, E!disk
<1>4. CASE E!Confirm \/ E!Cancel \/ (\E l \in chosen : E!PassOver(l)) \/ E!Finish
  BY <1>4 DEF E!Confirm, E!Cancel, E!PassOver, E!Finish, E!disk
<1> QED
  BY <1>1, <1>2, <1>3, <1>4 DEF Looks

\* Only the start of a command says who is steady from then on.
LEMMA LooksSteady ==
  ASSUME Looks
  PROVE  \/ steady' = steady /\ cmd' = cmd
         \/ \E c \in Commands : E!Start(c)
<1>1. CASE E!Lookup
  BY <1>1 DEF E!Lookup, E!ReadSidecar, E!ScanOrphans, E!RootFails, E!EndPass
<1>2. CASE E!SelectOne \/ E!SelectAll \/ E!SelectNewest \/ E!Identify \/ E!SelectEverything
  BY <1>2 DEF E!SelectOne, E!SelectAll, E!SelectNewest, E!Identify, E!SelectEverything
<1>3. CASE E!Confirm \/ E!Cancel \/ (\E l \in chosen : E!PassOver(l)) \/ E!Finish
  BY <1>3 DEF E!Confirm, E!Cancel, E!PassOver, E!Finish
<1> QED
  BY <1>1, <1>2, <1>3 DEF Looks

\* Acting empties one slot.
LEMMA ActOnStep ==
  ASSUME E!TypeOK, NEW l \in chosen, E!ActOn(l)
  PROVE  /\ l.slot \in E!Slots /\ phase = "act" /\ E!Current(l) /\ ~E!Refused(l)
         /\ \A t \in E!Slots : /\ sidecar'[t] = IF t = l.slot THEN None ELSE sidecar[t]
                               /\ selectionData'[t] = IF t = l.slot THEN None ELSE selectionData[t]
         /\ chosen' = chosen \ {l} /\ acted' = acted \cup {[line |-> l, doc |-> selectionData[l.slot]]}
         /\ steady' = {e \in steady : e.slot # l.slot}
         /\ UNCHANGED <<broken, last, others, cmd, phase, at, unread, lines, answer>>
<1>1. l.slot \in E!Slots /\ DOMAIN sidecar = E!Slots /\ DOMAIN selectionData = E!Slots
  BY DEF E!TypeOK, E!Line
<1>2. sidecar' = [sidecar EXCEPT ![l.slot] = None] /\ selectionData' = [selectionData EXCEPT ![l.slot] = None]
  BY DEF E!ActOn
<1>3. \A t \in E!Slots : /\ sidecar'[t] = IF t = l.slot THEN None ELSE sidecar[t]
                         /\ selectionData'[t] = IF t = l.slot THEN None ELSE selectionData[t]
  BY <1>1, <1>2
<1>4. /\ phase = "act" /\ ~E!Refused(l) /\ chosen' = chosen \ {l}
      /\ acted' = acted \cup {[line |-> l, doc |-> selectionData[l.slot]]}
      /\ steady' = {e \in steady : e.slot # l.slot}
      /\ UNCHANGED <<broken, last, others, cmd, phase, at, unread, lines, answer>>
  BY DEF E!ActOn, E!scan
<1>5. E!Current(l)
  BY <1>4 DEF E!Refused
<1> QED
  BY <1>1, <1>3, <1>4, <1>5

\* Others fill an empty slot, empty one, or make a root unreadable.
LEMMA WorldKeeps ==
  ASSUME E!World
  PROVE  UNCHANGED <<cmd, phase, at, unread, lines, chosen, answer, acted>> /\ steady' \subseteq steady
BY DEF E!World, E!TrashAnother, E!RemoveData, E!RemoveSidecar, E!Break, E!scan

LEMMA WorldStep ==
  ASSUME E!TypeOK, E!World
  PROVE  \/ \E s \in E!Slots, n \in FileNames :
              /\ sidecar[s] = None /\ selectionData[s] = None /\ last < MaxStamp /\ last' = last + 1
              /\ \A t \in E!Slots : /\ sidecar'[t] = IF t = s THEN [stamp |-> last + 1, name |-> n] ELSE sidecar[t]
                                    /\ selectionData'[t] = IF t = s THEN last + 1 ELSE selectionData[t]
              /\ UNCHANGED <<broken, steady>>
         \/ \E s \in E!Slots :
              /\ \A t \in E!Slots : /\ sidecar'[t] = sidecar[t]
                                    /\ selectionData'[t] = IF t = s THEN None ELSE selectionData[t]
              /\ steady' = {e \in steady : e.slot # s} /\ UNCHANGED <<broken, last>>
         \/ \E s \in E!Slots :
              /\ selectionData[s] = None
              /\ \A t \in E!Slots : /\ sidecar'[t] = IF t = s THEN None ELSE sidecar[t]
                                    /\ selectionData'[t] = selectionData[t]
              /\ UNCHANGED <<broken, last, steady>>
         \/ \E r \in E!Roots :
              /\ broken' = {r} /\ broken = {} /\ steady' = {e \in steady : e.slot[1] # r}
              /\ UNCHANGED <<sidecar, selectionData, last>>
<1>1. DOMAIN sidecar = E!Slots /\ DOMAIN selectionData = E!Slots
  BY DEF E!TypeOK
<1>2. ASSUME NEW s \in E!Slots, NEW n \in FileNames, E!TrashAnother(s, n)
      PROVE  /\ sidecar[s] = None /\ selectionData[s] = None /\ last < MaxStamp /\ last' = last + 1
             /\ \A t \in E!Slots : /\ sidecar'[t] = IF t = s THEN [stamp |-> last + 1, name |-> n] ELSE sidecar[t]
                                   /\ selectionData'[t] = IF t = s THEN last + 1 ELSE selectionData[t]
             /\ UNCHANGED <<broken, steady>>
  <2>1. /\ last' = last + 1 /\ selectionData' = [selectionData EXCEPT ![s] = last']
        /\ sidecar' = [sidecar EXCEPT ![s] = [stamp |-> last', name |-> n]]
    BY <1>2 DEF E!TrashAnother
  <2>2. \A t \in E!Slots : /\ sidecar'[t] = IF t = s THEN [stamp |-> last + 1, name |-> n] ELSE sidecar[t]
                           /\ selectionData'[t] = IF t = s THEN last + 1 ELSE selectionData[t]
    BY <1>1, <2>1
  <2>3. sidecar[s] = None /\ selectionData[s] = None /\ last < MaxStamp /\ UNCHANGED <<broken, steady>>
    BY <1>2 DEF E!TrashAnother
  <2> QED
    BY <2>1, <2>2, <2>3
<1>3. ASSUME NEW s \in E!Slots, E!RemoveData(s)
      PROVE  /\ \A t \in E!Slots : /\ sidecar'[t] = sidecar[t]
                                   /\ selectionData'[t] = IF t = s THEN None ELSE selectionData[t]
             /\ steady' = {e \in steady : e.slot # s} /\ UNCHANGED <<broken, last>>
  BY <1>1, <1>3 DEF E!RemoveData
<1>4. ASSUME NEW s \in E!Slots, E!RemoveSidecar(s)
      PROVE  /\ selectionData[s] = None
             /\ \A t \in E!Slots : /\ sidecar'[t] = IF t = s THEN None ELSE sidecar[t]
                                   /\ selectionData'[t] = selectionData[t]
             /\ UNCHANGED <<broken, last, steady>>
  BY <1>1, <1>4 DEF E!RemoveSidecar
<1>5. ASSUME NEW r \in E!Roots, E!Break(r)
      PROVE  /\ broken' = {r} /\ broken = {} /\ steady' = {e \in steady : e.slot[1] # r}
             /\ UNCHANGED <<sidecar, selectionData, last>>
  BY <1>5 DEF E!Break
<1> QED
  BY <1>2, <1>3, <1>4, <1>5 DEF E!World

-----------------------------------------------------------------------------
(* Types, by what they are about.                                          *)

SlotsTyped ==
  /\ sidecar \in [E!Slots -> E!Entry \cup {None}] /\ selectionData \in [E!Slots -> 1..MaxStamp \cup {None}]
  /\ broken \subseteq E!Roots /\ last \in 0..MaxStamp /\ others \in 0..MaxOthers
ListTyped == at \in 1..Len(Order) + 1 /\ unread \subseteq Ids /\ lines \subseteq E!Line
CommandTyped ==
  /\ cmd \in Commands \cup {None} /\ phase \in E!Phases /\ chosen \subseteq E!Line
  /\ answer \in {None, "done", "notfound", "ambiguous", "error", "cancelled"}
HistoryTyped ==
  /\ steady \subseteq [slot : E!Slots, stamp : 1..MaxStamp, name : FileNames]
  /\ acted \subseteq [line : E!Line, doc : 1..MaxStamp \cup {None}]

LEMMA SelectionTyped == E!TypeOK <=> SlotsTyped /\ ListTyped /\ CommandTyped /\ HistoryTyped
BY DEF E!TypeOK, SlotsTyped, ListTyped, CommandTyped, HistoryTyped

LEMMA SlotsTypedNext ==
  ASSUME E!SelectionAssumption, E!TypeOK, [E!Next]_(E!vars)
  PROVE  SlotsTyped'
<1>1. SlotsTyped
  BY SelectionTyped
<1>2. MaxStamp \in Nat \ {0} /\ MaxOthers \in Nat
  BY DEF E!SelectionAssumption
<1>3. CASE Looks \/ UNCHANGED E!vars
  <2>1. UNCHANGED <<sidecar, selectionData, broken, last, others>>
    BY <1>3, LooksKeep DEF E!vars, E!disk
  <2> QED
    BY <1>1, <2>1 DEF SlotsTyped
<1>4. ASSUME NEW l \in chosen, E!ActOn(l) PROVE SlotsTyped'
  <2>1. /\ sidecar' = [sidecar EXCEPT ![l.slot] = None]
        /\ selectionData' = [selectionData EXCEPT ![l.slot] = None]
        /\ UNCHANGED <<broken, last, others>>
    BY <1>4 DEF E!ActOn
  <2>2. sidecar' \in [E!Slots -> E!Entry \cup {None}] /\ selectionData' \in [E!Slots -> 1..MaxStamp \cup {None}]
    BY <1>1, <2>1 DEF SlotsTyped
  <2> QED
    BY <1>1, <2>1, <2>2 DEF SlotsTyped
<1>5. ASSUME Abroad, others < MaxOthers PROVE SlotsTyped'
  <2>0. others' \in 0..MaxOthers
    BY <1>1, <1>2, <1>5 DEF Abroad, SlotsTyped
  <2>1. ASSUME NEW s \in E!Slots, NEW n \in FileNames, E!TrashAnother(s, n) PROVE SlotsTyped'
    <3>1. /\ last' = last + 1 /\ last < MaxStamp /\ selectionData' = [selectionData EXCEPT ![s] = last']
          /\ sidecar' = [sidecar EXCEPT ![s] = [stamp |-> last', name |-> n]] /\ UNCHANGED broken
      BY <2>1 DEF E!TrashAnother
    <3>2. last' \in 1..MaxStamp /\ last' \in 0..MaxStamp
      BY <1>1, <1>2, <3>1 DEF SlotsTyped
    <3>3. [stamp |-> last', name |-> n] \in E!Entry
      BY <3>2 DEF E!Entry
    <3>4. sidecar' \in [E!Slots -> E!Entry \cup {None}]
      BY <1>1, <3>1, <3>3 DEF SlotsTyped
    <3>5. selectionData' \in [E!Slots -> 1..MaxStamp \cup {None}]
      BY <1>1, <3>1, <3>2 DEF SlotsTyped
    <3> QED
      BY <1>1, <2>0, <3>1, <3>2, <3>4, <3>5 DEF SlotsTyped
  <2>2. ASSUME NEW s \in E!Slots, E!RemoveData(s) PROVE SlotsTyped'
    <3>1. selectionData' = [selectionData EXCEPT ![s] = None] /\ UNCHANGED <<sidecar, broken, last>>
      BY <2>2 DEF E!RemoveData
    <3> QED
      BY <1>1, <2>0, <3>1 DEF SlotsTyped
  <2>3. ASSUME NEW s \in E!Slots, E!RemoveSidecar(s) PROVE SlotsTyped'
    <3>1. sidecar' = [sidecar EXCEPT ![s] = None] /\ UNCHANGED <<selectionData, broken, last>>
      BY <2>3 DEF E!RemoveSidecar
    <3> QED
      BY <1>1, <2>0, <3>1 DEF SlotsTyped
  <2>4. ASSUME NEW r \in E!Roots, E!Break(r) PROVE SlotsTyped'
    <3>1. broken' = {r} /\ UNCHANGED <<sidecar, selectionData, last>>
      BY <2>4 DEF E!Break
    <3> QED
      BY <1>1, <2>0, <3>1 DEF SlotsTyped
  <2> QED
    BY <1>5, <2>1, <2>2, <2>3, <2>4 DEF Abroad, E!World
<1> QED
  BY <1>3, <1>4, <1>5, SelectionSteps DEF Acts

\* A listing holds lines of slots, as they were when they were read.
LEMMA ListTypedNext ==
  ASSUME E!SelectionAssumption, E!TypeOK, CommandInv, [E!Next]_(E!vars)
  PROVE  ListTyped'
<1>1. ListTyped /\ SlotsTyped
  BY SelectionTyped
<1>2. Len(Order) \in Nat \ {0} /\ DOMAIN Order = 1..Len(Order)
  BY DEF E!SelectionAssumption
<1>3. ASSUME UNCHANGED <<at, unread, lines>> PROVE ListTyped'
  BY <1>1, <1>3 DEF ListTyped
<1>4. ASSUME NEW pass, NEW names, E!Begin(pass, names), names \subseteq Ids PROVE ListTyped'
  BY <1>2, <1>4 DEF E!Begin, ListTyped
<1>5. ASSUME NEW c \in Commands, E!Start(c) PROVE ListTyped'
  BY <1>4, <1>5, Asks DEF E!Start
<1>6. E!Listing => at + 1 \in 1..Len(Order) + 1 /\ Order[at] \in E!Roots
  BY <1>1, <1>2 DEF ListTyped, E!Listing, E!Roots
<1>7. E!Listing => E!InScan \subseteq Ids
  BY Asks DEF E!Listing, E!InScan, CommandInv
<1>8. ASSUME NEW i \in Ids, E!ReadSidecar(i) PROVE ListTyped'
  <2> DEFINE s == <<Order[at], i>>
             line == [slot |-> s, stamp |-> sidecar[s].stamp, name |-> sidecar[s].name, doc |-> selectionData[s]]
  <2>1. E!Listing /\ unread' = unread \ {i} /\ at' = at /\ (lines' = lines \/ (sidecar[s] # None /\ lines' = lines \cup {line}))
    BY <1>8 DEF E!ReadSidecar
  <2>2. s \in E!Slots
    BY <1>6, <2>1 DEF E!Slots
  <2>3. sidecar[s] # None => line \in E!Line
    <3> HIDE DEF s
    <3> QED
      BY <2>2, SidecarFields DEF E!Line
  <2> HIDE DEF line
  <2> QED
    BY <1>1, <2>1, <2>3 DEF ListTyped
<1>9. CASE E!ScanOrphans
  <2> DEFINE lone == {s \in {Order[at]} \X E!InScan : selectionData[s] # None /\ s \notin E!Known}
             new == {[slot |-> s, stamp |-> None, name |-> None, doc |-> selectionData[s]] : s \in lone}
  <2>1. E!Listing /\ lines' = lines \cup new /\ at' = at + 1 /\ unread' = E!InScan
    BY <1>9 DEF E!ScanOrphans
  <2>2. ASSUME NEW s \in lone
        PROVE  [slot |-> s, stamp |-> None, name |-> None, doc |-> selectionData[s]] \in E!Line
    <3>1. s \in E!Slots
      BY <1>6, <1>7, <2>1 DEF E!Slots
    <3>2. selectionData[s] \in 1..MaxStamp \cup {None}
      BY <3>1, SidecarFields
    <3> QED
      BY <3>1, <3>2 DEF E!Line
  <2>3. new \subseteq E!Line
    BY <2>2
  <2> HIDE DEF new
  <2> QED
    BY <1>1, <1>6, <1>7, <2>1, <2>3 DEF ListTyped
<1>10. CASE E!RootFails
  BY <1>1, <1>3, <1>6, <1>7, <1>10 DEF E!RootFails, ListTyped
<1>11. CASE E!EndPass
  BY <1>3, <1>4, <1>11 DEF E!EndPass, E!scan
<1>12. CASE E!SelectOne \/ E!SelectAll \/ E!SelectNewest \/ E!SelectEverything
  <2>1. UNCHANGED <<at, unread>> /\ (lines' = lines \/ lines' = {})
    BY <1>12 DEF E!SelectOne, E!SelectAll, E!SelectNewest, E!SelectEverything, E!Refuse, E!Choose, E!scan
  <2> QED
    BY <1>1, <2>1 DEF ListTyped
<1>13. CASE E!Identify \/ E!Confirm \/ E!Cancel \/ (\E l \in chosen : E!PassOver(l)) \/ E!Finish
  BY <1>3, <1>13 DEF E!Identify, E!Confirm, E!Cancel, E!PassOver, E!Finish, E!scan
<1>14. CASE Acts
  BY <1>3, <1>14, ActOnStep DEF Acts
<1>15. CASE Abroad
  BY <1>3, <1>15, WorldKeeps DEF Abroad
<1>16. CASE UNCHANGED E!vars
  BY <1>3, <1>16 DEF E!vars, E!scan
<1> QED
  BY <1>5, <1>8, <1>9, <1>10, <1>11, <1>12, <1>13, <1>14, <1>15, <1>16, SelectionSteps DEF Looks, E!Lookup

LEMMA CommandTypedNext ==
  ASSUME E!SelectionAssumption, E!TypeOK, [E!Next]_(E!vars)
  PROVE  CommandTyped'
<1>1. CommandTyped /\ ListTyped /\ SlotsTyped
  BY SelectionTyped
<1> USE DEF E!Phases
<1>2. CASE \E c \in Commands : E!Start(c)
  BY <1>1, <1>2 DEF E!Start, E!Begin, CommandTyped
<1>3. CASE E!Lookup
  <2>1. UNCHANGED <<cmd, chosen>>
    BY <1>3 DEF E!Lookup, E!ReadSidecar, E!ScanOrphans, E!RootFails, E!EndPass
  <2>2. phase' \in E!Phases
    BY <1>1, <1>3 DEF E!Lookup, E!ReadSidecar, E!ScanOrphans, E!RootFails, E!EndPass, E!Begin, E!Answer, CommandTyped
  <2>3. answer' \in {answer, "error"}
    BY <1>3 DEF E!Lookup, E!ReadSidecar, E!ScanOrphans, E!RootFails, E!EndPass, E!Answer
  <2> QED
    BY <1>1, <2>1, <2>2, <2>3 DEF CommandTyped
<1>4. CASE E!SelectOne \/ E!SelectAll \/ E!SelectNewest \/ E!SelectEverything
  <2>1. cmd' = cmd /\ phase' \in {"done", "act", "identify", "prompt"} /\ answer' \in {answer, "notfound", "ambiguous"}
    BY <1>4 DEF E!SelectOne, E!SelectAll, E!SelectNewest, E!SelectEverything, E!Refuse, E!Choose, E!Answer
  <2>2. E!Matching(cmd) \subseteq lines
    BY DEF E!Matching, E!OfPath, E!Exact, E!OfId, E!OfName, E!OfGlob
  <2>3. chosen' \subseteq chosen \cup lines
    <3>1. CASE E!SelectOne \/ E!SelectAll
      BY <2>2, <3>1 DEF E!SelectOne, E!SelectAll, E!Refuse, E!Choose
    <3>2. CASE E!SelectNewest
      BY <3>2 DEF E!SelectNewest, E!Refuse, E!Choose, E!Undoable
    <3>3. CASE E!SelectEverything
      BY <3>3 DEF E!SelectEverything, E!Refuse, E!Choose
    <3> QED
      BY <1>4, <3>1, <3>2, <3>3
  <2> QED
    BY <1>1, <2>1, <2>3 DEF CommandTyped, ListTyped
<1>5. CASE E!Identify
  <2>1. chosen' = {[l EXCEPT !.doc = selectionData[l.slot]] : l \in chosen}
    BY <1>5 DEF E!Identify
  <2>2. ASSUME NEW l \in chosen PROVE [l EXCEPT !.doc = selectionData[l.slot]] \in E!Line
    <3>1. l \in E!Line /\ l.slot \in E!Slots
      BY <1>1 DEF CommandTyped, E!Line
    <3>2. selectionData[l.slot] \in 1..MaxStamp \cup {None}
      BY <3>1, SidecarFields
    <3> QED
      BY <3>1, <3>2 DEF E!Line
  <2>3. chosen' \subseteq E!Line
    BY <2>1, <2>2
  <2>4. cmd' = cmd /\ answer' = answer /\ phase' = "act"
    BY <1>5 DEF E!Identify
  <2> QED
    BY <1>1, <2>3, <2>4 DEF CommandTyped
<1>6. CASE E!Confirm \/ E!Cancel \/ (\E l \in chosen : E!PassOver(l)) \/ E!Finish
  BY <1>1, <1>6 DEF E!Confirm, E!Cancel, E!PassOver, E!Finish, E!Answer, CommandTyped
<1>7. CASE Acts
  BY <1>1, <1>7, ActOnStep DEF Acts, CommandTyped
<1>8. CASE Abroad
  BY <1>1, <1>8, WorldKeeps DEF Abroad, CommandTyped
<1>9. CASE UNCHANGED E!vars
  BY <1>1, <1>9 DEF E!vars, CommandTyped
<1> QED
  BY <1>2, <1>3, <1>4, <1>5, <1>6, <1>7, <1>8, <1>9, SelectionSteps DEF Looks

LEMMA HistoryTypedNext ==
  ASSUME E!SelectionAssumption, E!TypeOK, [E!Next]_(E!vars)
  PROVE  HistoryTyped'
<1>1. HistoryTyped /\ CommandTyped
  BY SelectionTyped
<1>2. ASSUME NEW c \in Commands, E!Start(c) PROVE HistoryTyped'
  <2> DEFINE new == {[slot |-> s, stamp |-> sidecar[s].stamp, name |-> sidecar[s].name] : s \in {t \in E!Slots : E!Whole(t)}}
  <2>1. steady' = new /\ acted' = acted
    BY <1>2 DEF E!Start
  <2>2. ASSUME NEW s \in E!Slots, E!Whole(s)
        PROVE  [slot |-> s, stamp |-> sidecar[s].stamp, name |-> sidecar[s].name]
                 \in [slot : E!Slots, stamp : 1..MaxStamp, name : FileNames]
    BY <2>2, SidecarFields DEF E!Whole
  <2>3. new \subseteq [slot : E!Slots, stamp : 1..MaxStamp, name : FileNames]
    BY <2>2
  <2> HIDE DEF new
  <2> QED
    BY <1>1, <2>1, <2>3 DEF HistoryTyped
<1>3. CASE Looks
  BY <1>1, <1>2, <1>3, LooksKeep, LooksSteady DEF HistoryTyped
<1>4. ASSUME NEW l \in chosen, E!ActOn(l) PROVE HistoryTyped'
  <2>1. /\ acted' = acted \cup {[line |-> l, doc |-> selectionData[l.slot]]} /\ steady' \subseteq steady
        /\ l.slot \in E!Slots
    BY <1>4, ActOnStep
  <2>2. selectionData[l.slot] \in 1..MaxStamp \cup {None} /\ l \in E!Line
    BY <1>1, <2>1, SidecarFields DEF CommandTyped
  <2> QED
    BY <1>1, <2>1, <2>2 DEF HistoryTyped
<1>5. CASE Abroad
  BY <1>1, <1>5, WorldKeeps DEF Abroad, HistoryTyped
<1>6. CASE UNCHANGED E!vars
  BY <1>1, <1>6 DEF E!vars, HistoryTyped
<1> QED
  BY <1>3, <1>4, <1>5, <1>6, SelectionSteps DEF Acts

-----------------------------------------------------------------------------
(* What is there.                                                          *)

LEMMA SlotsInvNext ==
  ASSUME E!SelectionAssumption, E!TypeOK, SlotsInv, [E!Next]_(E!vars)
  PROVE  SlotsInv'
<1>1. SlotsTyped /\ UNCHANGED E!Slots
  BY SelectionTyped DEF E!Slots, E!Roots
<1>2. /\ None \notin 1..MaxStamp /\ None \notin E!Entry /\ last \in Nat
      /\ \A t \in E!Slots : sidecar[t] # None => sidecar[t].stamp \in Nat /\ sidecar[t].stamp <= last
  BY <1>1, SidecarFields DEF SlotsTyped, SlotsInv, E!SelectionAssumption, E!Entry
<1>3. CASE Looks \/ UNCHANGED E!vars
  <2>1. UNCHANGED <<sidecar, selectionData, last>>
    BY <1>3, LooksKeep DEF E!vars, E!disk
  <2> QED
    BY <1>1, <2>1 DEF SlotsInv
<1>4. ASSUME last' = last,
             \A t \in E!Slots : /\ sidecar'[t] = sidecar[t] \/ sidecar'[t] = None
                                /\ selectionData'[t] = selectionData[t] \/ selectionData'[t] = None
      PROVE  SlotsInv'
  BY <1>1, <1>4 DEF SlotsInv
<1>5. CASE Acts
  BY <1>4, <1>5, ActOnStep DEF Acts
<1>6. CASE Abroad
  <2>1. ASSUME NEW s \in E!Slots, NEW n \in FileNames, last < MaxStamp, last' = last + 1,
               \A t \in E!Slots :
                 /\ sidecar'[t] = IF t = s THEN [stamp |-> last + 1, name |-> n] ELSE sidecar[t]
                 /\ selectionData'[t] = IF t = s THEN last + 1 ELSE selectionData[t]
        PROVE  SlotsInv'
    <3>1. sidecar'[s].stamp = last + 1 /\ selectionData'[s] = last + 1
      BY <2>1
    <3>2. \A t \in E!Slots : t # s => sidecar'[t] = sidecar[t] /\ selectionData'[t] = selectionData[t]
      BY <2>1
    <3>3. \A t \in E!Slots : t # s /\ sidecar'[t] # None => sidecar'[t].stamp # last + 1
      BY <1>2, <3>2
    <3>4. \A t \in E!Slots : sidecar'[t] # None => sidecar'[t].stamp <= last'
      BY <1>2, <2>1, <3>1, <3>2
    <3>5. \A t \in E!Slots : sidecar'[t] # None /\ selectionData'[t] # None => selectionData'[t] = sidecar'[t].stamp
      BY <3>1, <3>2 DEF SlotsInv
    <3>6. ASSUME NEW t \in E!Slots, NEW u \in E!Slots, sidecar'[t] # None, sidecar'[u] # None,
                 sidecar'[t].stamp = sidecar'[u].stamp
          PROVE  t = u
      <4>1. CASE t = s \/ u = s
        BY <3>1, <3>3, <3>6, <4>1
      <4>2. CASE t # s /\ u # s
        BY <3>2, <3>6, <4>2 DEF SlotsInv
      <4> QED
        BY <4>1, <4>2
    <3> QED
      BY <1>1, <3>4, <3>5, <3>6 DEF SlotsInv
  <2>2. E!World
    BY <1>6 DEF Abroad
  <2> QED
    BY <1>4, <2>1, <2>2, WorldStep
<1> QED
  BY <1>3, <1>5, <1>6, SelectionSteps

\* A steady entry is whole.
LEMMA SteadyThere ==
  ASSUME E!SelectionAssumption, E!TypeOK, SteadyInv, NEW e \in steady
  PROVE  /\ sidecar[e.slot] # None /\ sidecar[e.slot].stamp = e.stamp /\ sidecar[e.slot].name = e.name
         /\ selectionData[e.slot] # None /\ selectionData[e.slot] = e.stamp
<1> DEFINE entry == [stamp |-> e.stamp, name |-> e.name]
<1>1. e.stamp \in 1..MaxStamp /\ e.stamp # None /\ e.name \in FileNames
  BY SteadyFields
<1>2. entry \in E!Entry /\ entry.stamp = e.stamp /\ entry.name = e.name
  BY <1>1 DEF E!Entry
<1>3. None \notin E!Entry
  BY DEF E!SelectionAssumption, E!Entry
<1>4. sidecar[e.slot] = entry /\ selectionData[e.slot] = e.stamp
  BY DEF SteadyInv
<1> HIDE DEF entry
<1> QED
  BY <1>1, <1>2, <1>3, <1>4

LEMMA SteadyNext ==
  ASSUME E!SelectionAssumption, E!TypeOK, SteadyInv, [E!Next]_(E!vars)
  PROVE  SteadyInv'
<1>1. \A e \in steady : e.slot \in E!Slots /\ e.stamp # None
  BY SteadyFields
<1>2. \A e \in steady : sidecar[e.slot] # None /\ selectionData[e.slot] # None
  BY SteadyThere
<1>3. ASSUME steady' \subseteq steady, broken' = broken,
             \A e \in steady' : sidecar'[e.slot] = sidecar[e.slot] /\ selectionData'[e.slot] = selectionData[e.slot]
      PROVE  SteadyInv'
  BY <1>3 DEF SteadyInv
<1>4. ASSUME NEW c \in Commands, E!Start(c) PROVE SteadyInv'
  <2>1. steady' = {[slot |-> s, stamp |-> sidecar[s].stamp, name |-> sidecar[s].name] :
                     s \in {t \in E!Slots : E!Whole(t)}}
        /\ UNCHANGED <<sidecar, selectionData, broken>>
    BY <1>4 DEF E!Start, E!disk
  <2>2. ASSUME NEW e \in steady'
        PROVE  /\ sidecar[e.slot] = [stamp |-> e.stamp, name |-> e.name] /\ selectionData[e.slot] = e.stamp
               /\ e.slot[1] \notin broken
    <3>1. PICK s \in E!Slots : E!Whole(s) /\ e = [slot |-> s, stamp |-> sidecar[s].stamp, name |-> sidecar[s].name]
      BY <2>1
    <3>2. e.slot = s /\ e.stamp = sidecar[s].stamp /\ e.name = sidecar[s].name
      BY <3>1
    <3> QED
      BY <3>1, <3>2, SidecarFields DEF E!Whole
  <2> QED
    BY <2>1, <2>2 DEF SteadyInv
<1>5. CASE Looks
  BY <1>3, <1>4, <1>5, LooksKeep, LooksSteady
<1>6. CASE Acts
  BY <1>1, <1>3, <1>6, ActOnStep DEF Acts
<1>7. CASE Abroad
  <2>1. E!World
    BY <1>7 DEF Abroad
  <2>2. ASSUME NEW s \in E!Slots, NEW n \in FileNames, sidecar[s] = None,
               \A t \in E!Slots :
                 /\ sidecar'[t] = IF t = s THEN [stamp |-> last + 1, name |-> n] ELSE sidecar[t]
                 /\ selectionData'[t] = IF t = s THEN last + 1 ELSE selectionData[t],
               UNCHANGED <<broken, steady>>
        PROVE  SteadyInv'
    <3>1. \A e \in steady : e.slot # s
      BY <1>2, <2>2
    <3> QED
      BY <1>1, <1>3, <2>2, <3>1
  <2>3. ASSUME NEW s \in E!Slots, steady' = {e \in steady : e.slot # s}, broken' = broken,
               \A t \in E!Slots : /\ sidecar'[t] = sidecar[t]
                                  /\ selectionData'[t] = IF t = s THEN None ELSE selectionData[t]
        PROVE  SteadyInv'
    BY <1>1, <1>3, <2>3
  <2>4. ASSUME NEW s \in E!Slots, selectionData[s] = None, UNCHANGED <<broken, steady>>,
               \A t \in E!Slots : /\ sidecar'[t] = IF t = s THEN None ELSE sidecar[t]
                                  /\ selectionData'[t] = selectionData[t]
        PROVE  SteadyInv'
    <3>1. \A e \in steady : e.slot # s
      BY <1>2, <2>4
    <3> QED
      BY <1>1, <1>3, <2>4, <3>1
  <2>5. ASSUME NEW r \in E!Roots, broken' = {r}, steady' = {e \in steady : e.slot[1] # r},
               UNCHANGED <<sidecar, selectionData>>
        PROVE  SteadyInv'
    BY <2>5 DEF SteadyInv
  <2> QED
    BY <2>1, <2>2, <2>3, <2>4, <2>5, WorldStep
<1>8. CASE UNCHANGED E!vars
  BY <1>3, <1>8 DEF E!vars, E!disk
<1> QED
  BY <1>5, <1>6, <1>7, <1>8, SelectionSteps

LEMMA CommandNext ==
  ASSUME E!SelectionAssumption, E!TypeOK, CommandInv, [E!Next]_(E!vars)
  PROVE  CommandInv'
<1>1. CASE \E c \in Commands : E!Start(c)
  <2>1. PICK c \in Commands : E!Start(c)
    BY <1>1
  <2>2. cmd' = c /\ answer' = answer /\ phase = "idle" /\ phase' \in {"fast", "full"}
        /\ (phase' = "fast" => ~E!EveryCopy(c) /\ E!OnlyId(c) # {})
    BY <2>1 DEF E!Start, E!Begin
  <2> QED
    BY <2>2 DEF CommandInv, E!EveryCopy, E!OnlyId
<1>2. ASSUME cmd' = cmd, phase # "idle", phase' # "done" => answer' = answer /\ phase # "done",
             phase' # "fast" \/ phase = "fast",
             phase' # "identify" \/ phase = "identify" \/ cmd.kind = "undo",
             phase' # "prompt" \/ phase = "prompt" \/ cmd.kind = "empty"
      PROVE  CommandInv'
  BY <1>2 DEF CommandInv, E!EveryCopy, E!OnlyId
<1>3. CASE E!Lookup
  BY <1>2, <1>3 DEF E!Lookup, E!ReadSidecar, E!ScanOrphans, E!RootFails, E!EndPass, E!Listing, E!Begin, E!Answer
<1>4. CASE E!SelectOne \/ E!SelectAll \/ E!Identify
  BY <1>2, <1>4 DEF E!SelectOne, E!SelectAll, E!Identify, E!Refuse, E!Choose, E!Answer
<1>5. CASE E!SelectNewest \/ E!SelectEverything
  BY <1>2, <1>5 DEF E!SelectNewest, E!SelectEverything, E!Refuse, E!Choose, E!Answer
<1>6. CASE E!Confirm \/ E!Cancel \/ (\E l \in chosen : E!PassOver(l)) \/ E!Finish
  BY <1>2, <1>6 DEF E!Confirm, E!Cancel, E!PassOver, E!Finish, E!Answer
<1>7. CASE Acts
  BY <1>2, <1>7, ActOnStep DEF Acts
<1>8. CASE Abroad /\ phase \notin {"idle", "done"}
  BY <1>2, <1>8, WorldKeeps DEF Abroad
<1>9. CASE UNCHANGED E!vars
  BY <1>9 DEF E!vars, CommandInv, E!EveryCopy, E!OnlyId
<1> QED
  BY <1>1, <1>3, <1>4, <1>5, <1>6, <1>7, <1>8, <1>9, SelectionSteps DEF Looks

LEMMA LinesNext ==
  ASSUME E!SelectionAssumption, E!TypeOK, SlotsInv, SteadyInv, LinesInv, [E!Next]_(E!vars)
  PROVE  LinesInv'
<1>1. ASSUME lines' \subseteq lines, steady' \subseteq steady PROVE LinesInv'
  BY <1>1 DEF LinesInv
<1>2. ASSUME lines' = {} PROVE LinesInv'
  BY <1>2 DEF LinesInv
<1>3. CASE \E c \in Commands : E!Start(c)
  BY <1>2, <1>3 DEF E!Start, E!Begin
<1>4. ASSUME NEW i \in Ids, E!ReadSidecar(i) PROVE LinesInv'
  <2> DEFINE s == <<Order[at], i>>
             line == [slot |-> s, stamp |-> sidecar[s].stamp, name |-> sidecar[s].name, doc |-> selectionData[s]]
  <2>1. steady' = steady /\ (lines' = lines \/ (sidecar[s] # None /\ lines' = lines \cup {line}))
        /\ E!Listing
    BY <1>4 DEF E!ReadSidecar
  <2>2. s \in E!Slots
    BY <2>1, SelectionTyped DEF E!Listing, E!Slots, E!Roots, E!SelectionAssumption, ListTyped
  <2>3. line.slot = s /\ line.stamp = sidecar[s].stamp
    OBVIOUS
  <2> HIDE DEF s, line
  <2>4. ASSUME NEW e \in steady, sidecar[s] # None, line.stamp = e.stamp PROVE line.slot = e.slot
    <3>1. e.slot \in E!Slots
      BY SteadyFields
    <3>2. sidecar[e.slot] # None /\ sidecar[e.slot].stamp = e.stamp
      BY SteadyThere
    <3> QED
      BY <2>2, <2>3, <2>4, <3>1, <3>2 DEF SlotsInv
  <2> QED
    BY <2>1, <2>4 DEF LinesInv
<1>5. CASE E!ScanOrphans
  <2> DEFINE lone == {s \in {Order[at]} \X E!InScan : selectionData[s] # None /\ s \notin E!Known}
             new == {[slot |-> s, stamp |-> None, name |-> None, doc |-> selectionData[s]] : s \in lone}
  <2>1. lines' = lines \cup new /\ steady' = steady
    BY <1>5 DEF E!ScanOrphans
  <2>2. \A l \in new : l.stamp = None
    OBVIOUS
  <2> HIDE DEF new
  <2> QED
    BY <2>1, <2>2, SteadyFields DEF LinesInv
<1>6. CASE E!RootFails
  BY <1>1, <1>6 DEF E!RootFails
<1>7. CASE E!EndPass
  BY <1>1, <1>2, <1>7 DEF E!EndPass, E!Begin, E!scan
<1>8. CASE E!SelectOne \/ E!SelectAll \/ E!SelectNewest \/ E!SelectEverything
  <2>1. steady' = steady /\ (lines' = lines \/ lines' = {})
    BY <1>8 DEF E!SelectOne, E!SelectAll, E!SelectNewest, E!SelectEverything, E!Refuse, E!Choose, E!scan
  <2> QED
    BY <1>1, <1>2, <2>1
<1>9. CASE E!Identify \/ E!Confirm \/ E!Cancel \/ (\E l \in chosen : E!PassOver(l)) \/ E!Finish
  BY <1>1, <1>9 DEF E!Identify, E!Confirm, E!Cancel, E!PassOver, E!Finish, E!scan
<1>10. CASE Acts
  BY <1>1, <1>10, ActOnStep DEF Acts
<1>11. CASE Abroad
  BY <1>1, <1>11, WorldKeeps DEF Abroad
<1>12. CASE UNCHANGED E!vars
  BY <1>1, <1>12 DEF E!vars, E!scan
<1> QED
  BY <1>3, <1>4, <1>5, <1>6, <1>7, <1>8, <1>9, <1>10, <1>11, <1>12, SelectionSteps DEF Looks, E!Lookup

-----------------------------------------------------------------------------
(* What the listing has.                                                   *)

\* A step that keeps the place and loses no line.
LEMMA PlaceKept ==
  ASSUME SteadyInv, ListInv, steady' \subseteq steady, lines \subseteq lines', UNCHANGED <<at, unread, cmd, phase>>
  PROVE  ListInv'
BY DEF ListInv, Listed, Passed, E!InScan, E!OnlyId

LEMMA ListNext ==
  ASSUME E!SelectionAssumption, E!TypeOK, SteadyInv, ListInv, [E!Next]_(E!vars)
  PROVE  ListInv'
<1>1. ASSUME phase' \notin {"fast", "full"} PROVE ListInv'
  BY <1>1 DEF ListInv
<1>2. at \in Nat /\ Len(Order) \in Nat /\ DOMAIN Order = 1..Len(Order)
  BY SelectionTyped DEF ListTyped, E!SelectionAssumption
<1>3. ASSUME at' = 1, unread' = E!InScan' PROVE ListInv'
  <2>1. \A s : s[2] \in E!InScan' => ~Passed(s)'
    BY <1>2, <1>3 DEF Passed
  <2> QED
    BY <2>1 DEF ListInv
<1>4. ASSUME NEW c \in Commands, E!Start(c) PROVE ListInv'
  BY <1>3, <1>4 DEF E!Start, E!Begin, E!InScan, E!OnlyId
<1>5. ASSUME NEW i \in Ids, E!ReadSidecar(i) PROVE ListInv'
  <2> DEFINE s == <<Order[at], i>>
             line == [slot |-> s, stamp |-> sidecar[s].stamp, name |-> sidecar[s].name, doc |-> selectionData[s]]
  <2>1. /\ UNCHANGED <<steady, at, phase, cmd>> /\ unread' = unread \ {i} /\ lines \subseteq lines'
        /\ (\E e \in steady : e.slot = s) => line \in lines'
        /\ phase \in {"fast", "full"}
    BY <1>5 DEF E!ReadSidecar, E!Listing
  <2>2. line.slot = s /\ line.stamp = sidecar[s].stamp /\ line.name = sidecar[s].name
    OBVIOUS
  <2>3. E!InScan' = E!InScan
    BY <2>1 DEF E!InScan, E!OnlyId
  <2>4. ASSUME NEW e \in steady, e.slot[2] \in E!InScan, Passed(e.slot)' PROVE Listed(e)'
    <3>1. CASE Passed(e.slot)
      <4>1. Listed(e)
        BY <2>1, <2>4, <3>1 DEF ListInv
      <4> QED
        BY <2>1, <4>1 DEF Listed
    <3>2. CASE ~Passed(e.slot)
      <4>1. e.slot[1] = Order[at] /\ e.slot[2] = i
        BY <2>1, <2>4, <3>2 DEF Passed
      <4>2. e.slot = s
        BY <4>1, SteadyFields DEF E!Slots
      <4>3. line \in lines' /\ line.slot = e.slot /\ line.stamp = e.stamp /\ line.name = e.name
        <5> HIDE DEF line, s
        <5> QED
          BY <2>1, <2>2, <4>2, SteadyThere
      <4> HIDE DEF line
      <4> QED
        BY <4>3 DEF Listed
    <3> QED
      BY <3>1, <3>2
  <2> QED
    BY <2>1, <2>3, <2>4 DEF ListInv
<1>6. ASSUME at' = at + 1, unread' = E!InScan, UNCHANGED <<steady, cmd, phase>>, lines \subseteq lines', E!Listing,
             \A e \in steady : e.slot[2] \in E!InScan /\ e.slot[1] = Order[at] => Listed(e)
      PROVE  ListInv'
  <2>1. E!InScan' = E!InScan
    BY <1>6 DEF E!InScan, E!OnlyId
  <2>2. ASSUME NEW e \in steady, e.slot[2] \in E!InScan, Passed(e.slot)' PROVE Listed(e)'
    <3>1. PICK k \in 1..Len(Order) : k < at + 1 /\ Order[k] = e.slot[1]
      BY <1>6, <2>2 DEF Passed
    <3>2. k < at \/ k = at
      BY <1>2, <3>1
    <3>3. Listed(e)
      <4>1. CASE k < at
        BY <1>6, <2>2, <3>1, <4>1 DEF ListInv, Passed, E!Listing
      <4>2. CASE k = at
        BY <1>6, <2>2, <3>1, <4>2
      <4> QED
        BY <3>2, <4>1, <4>2
    <3> QED
      BY <1>6, <3>3 DEF Listed
  <2> QED
    BY <1>6, <2>1, <2>2 DEF ListInv
<1>7. CASE E!ScanOrphans
  <2>1. /\ at' = at + 1 /\ unread' = E!InScan /\ UNCHANGED <<steady, cmd, phase>> /\ lines \subseteq lines'
        /\ E!Listing /\ unread = {}
    BY <1>7 DEF E!ScanOrphans
  <2>2. \A e \in steady : e.slot[2] \in E!InScan /\ e.slot[1] = Order[at] => Listed(e)
    BY <2>1 DEF ListInv, Passed, E!Listing
  <2> QED
    BY <1>6, <2>1, <2>2
<1>8. CASE E!RootFails
  <2>1. E!Listing /\ Order[at] \in broken /\ UNCHANGED <<steady, cmd, lines>>
        /\ (phase' = "done" \/ (at' = at + 1 /\ unread' = E!InScan /\ phase' = phase))
    BY <1>8 DEF E!RootFails, E!Answer
  <2>2. \A e \in steady : e.slot[1] # Order[at]
    BY <2>1 DEF SteadyInv
  <2> QED
    BY <1>1, <1>6, <2>1, <2>2
<1>9. CASE E!EndPass
  BY <1>1, <1>3, <1>9 DEF E!EndPass, E!Begin, E!InScan
<1>10. CASE E!SelectOne \/ E!SelectAll \/ E!SelectNewest \/ E!SelectEverything \/ E!Identify
  BY <1>1, <1>10 DEF E!SelectOne, E!SelectAll, E!SelectNewest, E!SelectEverything, E!Identify,
                     E!Refuse, E!Choose, E!Answer
<1>11. CASE E!Confirm \/ E!Cancel \/ (\E l \in chosen : E!PassOver(l)) \/ E!Finish
  BY <1>1, <1>11 DEF E!Confirm, E!Cancel, E!PassOver, E!Finish, E!Answer
<1>12. CASE Acts
  BY <1>12, ActOnStep, PlaceKept DEF Acts
<1>13. CASE Abroad
  BY <1>13, WorldKeeps, PlaceKept DEF Abroad
<1>14. CASE UNCHANGED E!vars
  BY <1>14, PlaceKept DEF E!vars, E!scan
<1> QED
  BY <1>4, <1>5, <1>7, <1>8, <1>9, <1>10, <1>11, <1>12, <1>13, <1>14, SelectionSteps DEF Looks, E!Lookup

\* When a listing ends, it is complete, or the quick one that sufficed.
LEMMA SelectNext ==
  ASSUME E!SelectionAssumption, E!TypeOK, CommandInv, ListInv, SelectInv, [E!Next]_(E!vars)
  PROVE  SelectInv'
<1>1. ASSUME phase' # "select" PROVE SelectInv'
  BY <1>1 DEF SelectInv
<1>2. ASSUME UNCHANGED <<lines, cmd, phase>>, steady' \subseteq steady PROVE SelectInv'
  BY <1>2 DEF SelectInv, Quick, Listed, E!EveryCopy, E!OnlyId, E!Matched, E!OfPath, E!OfId
<1>3. CASE E!EndPass
  <2>1. phase \in {"fast", "full"} /\ at > Len(Order) /\ steady' = steady /\ cmd' = cmd
    BY <1>3 DEF E!EndPass
  <2>2. \A e \in steady : Passed(e.slot) /\ e.slot[2] \in Ids
    BY <2>1, SteadyFields, SelectionTyped DEF Passed, E!Roots, E!SelectionAssumption, ListTyped
  <2>3. \A e \in steady : e.slot[2] \in E!InScan => Listed(e)
    BY <2>1, <2>2 DEF ListInv
  <2>4. ASSUME phase' = "select" PROVE lines' = lines /\ (phase = "fast" => E!Matched(cmd))
    BY <1>3, <2>4 DEF E!EndPass, E!Begin, E!scan
  <2>5. ASSUME phase' = "select" PROVE (\A e \in steady : Listed(e)) \/ Quick
    BY <2>1, <2>2, <2>3, <2>4, <2>5 DEF E!InScan, Quick, CommandInv
  <2> QED
    BY <2>1, <2>4, <2>5 DEF SelectInv, Quick, Listed, E!EveryCopy, E!OnlyId, E!Matched, E!OfPath, E!OfId
<1>4. CASE (\E c \in Commands : E!Start(c)) \/ (\E i \in Ids : E!ReadSidecar(i)) \/ E!ScanOrphans \/ E!RootFails
  BY <1>1, <1>4 DEF E!Start, E!ReadSidecar, E!ScanOrphans, E!RootFails, E!Listing, E!Begin, E!Answer
<1>5. CASE E!SelectOne \/ E!SelectAll \/ E!SelectNewest \/ E!SelectEverything \/ E!Identify
  BY <1>1, <1>5 DEF E!SelectOne, E!SelectAll, E!SelectNewest, E!SelectEverything, E!Identify,
                    E!Refuse, E!Choose, E!Answer
<1>6. CASE E!Confirm \/ E!Cancel \/ (\E l \in chosen : E!PassOver(l)) \/ E!Finish
  BY <1>1, <1>2, <1>6 DEF E!Confirm, E!Cancel, E!PassOver, E!Finish, E!Answer, E!scan
<1>7. CASE Acts
  BY <1>1, <1>7, ActOnStep DEF Acts
<1>8. CASE Abroad
  BY <1>2, <1>8, WorldKeeps DEF Abroad
<1>9. CASE UNCHANGED E!vars
  BY <1>2, <1>9 DEF E!vars, E!scan
<1> QED
  BY <1>3, <1>4, <1>5, <1>6, <1>7, <1>8, <1>9, SelectionSteps DEF Looks, E!Lookup

-----------------------------------------------------------------------------
(* What a listing lets a command choose.                                   *)

\* A selector is None in commands that name a path, and no slot has that ID or name.
LEMMA SelectorFields ==
  ASSUME E!SelectionAssumption, E!TypeOK, CommandInv, phase # "idle"
  PROVE  /\ cmd \in Commands /\ (cmd.path # None => cmd.sel = None)
         /\ \A e \in steady : e.slot # None /\ e.slot[2] # None /\ e.name # None
         /\ \A l \in lines : l.slot # None /\ l.slot[2] # None
<1>1. cmd \in Commands
  BY DEF CommandInv
<1>2. None \notin E!Slots /\ None \notin Ids
  BY DEF E!SelectionAssumption
<1> QED
  BY <1>1, <1>2, Asks, SteadyFields, LineFields

\* The line of a steady entry is ranked as the entry is.
LEMMA ListedTiers ==
  ASSUME E!SelectionAssumption, E!TypeOK, NEW e \in steady, Listed(e), NEW c
  PROVE  /\ e.slot = c.path => \E m \in E!OfPath(lines, c.path) : m.slot = e.slot /\ m.stamp = e.stamp
         /\ e.slot[2] = c.sel => \E m \in E!OfId(lines, c.sel) : m.slot = e.slot /\ m.stamp = e.stamp
         /\ e.name = c.sel => \E m \in E!OfName(lines, c.sel) : m.slot = e.slot /\ m.stamp = e.stamp
         /\ c.sel \in DOMAIN Fits /\ e.name \in Fits[c.sel] =>
              \E m \in E!OfGlob(lines, c.sel) : m.slot = e.slot /\ m.stamp = e.stamp
<1>1. PICK m \in lines : m.slot = e.slot /\ m.stamp = e.stamp /\ m.name = e.name
  BY DEF Listed
<1>2. ~E!Orphaned(m)
  BY <1>1, SteadyFields DEF E!Orphaned
<1> QED
  BY <1>1, <1>2 DEF E!OfPath, E!OfId, E!OfName, E!OfGlob

\* Unless the quick listing has the path or the ID, the listing is complete.
LEMMA Complete ==
  ASSUME E!SelectionAssumption, E!TypeOK, CommandInv, SelectInv, phase = "select",
         E!OfPath(lines, cmd.path) = {}, NEW e \in steady
  PROVE  \/ Listed(e)
         \/ /\ cmd.path = None /\ E!OfId(lines, cmd.sel) # {} /\ e.slot[2] # cmd.sel /\ Quick
<1>1. CASE \A f \in steady : Listed(f)
  BY <1>1
<1>2. CASE Quick
  <2>1. cmd.path = None /\ E!OfId(lines, cmd.sel) # {}
    BY <1>2 DEF Quick, E!Matched
  <2>2. cmd.sel \in E!OnlyId(cmd)
    BY <1>2, <2>1 DEF Quick, E!OnlyId
  <2> QED
    BY <1>2, <2>1, <2>2 DEF Quick
<1> QED
  BY <1>1, <1>2 DEF SelectInv

\* The one match of a selector names its entry better than any steady entry.
LEMMA OneBest ==
  ASSUME E!SelectionAssumption, E!TypeOK, CommandInv, SelectInv, phase = "select", E!Single(cmd),
         NEW l \in E!Matching(cmd), \A m \in E!Matching(cmd) : m = l
  PROVE  Best(l)
<1> DEFINE path == cmd.path
           sel == cmd.sel
<1>1. cmd \in Commands /\ ~E!EveryCopy(cmd) /\ (path # None => sel = None)
  BY SelectorFields, Asks DEF CommandInv
<1>2. l \in lines
  BY DEF E!Matching, E!OfPath, E!Exact, E!OfId, E!OfName, E!OfGlob
<1> SUFFICES ASSUME NEW e \in steady, e.slot # l.slot
             PROVE  E!Rank(l.slot, l.name, cmd) < E!Rank(e.slot, e.name, cmd)
  BY DEF Best
<1>3. CASE E!OfPath(lines, path) # {}
  <2>1. l.slot = path
    BY <1>3 DEF E!Matching, E!OfPath
  <2> QED
    BY <2>1 DEF E!Rank
<1>4. ASSUME E!OfPath(lines, path) = {}, E!OfId(lines, sel) # {}
      PROVE  E!Rank(l.slot, l.name, cmd) < E!Rank(e.slot, e.name, cmd)
  <2>1. E!Matching(cmd) = E!OfId(lines, sel)
    BY <1>1, <1>4 DEF E!Matching, E!Exact
  <2>2. l.slot # path /\ l.slot[2] = sel
    BY <1>2, <1>4, <2>1 DEF E!OfPath, E!OfId
  <2>3. e.slot # path
    BY <1>4, Complete, ListedTiers, SelectorFields
  <2>4. e.slot[2] # sel
    BY <1>4, <2>1, Complete, ListedTiers
  <2> QED
    BY <2>2, <2>3, <2>4 DEF E!Rank
<1>5. ASSUME E!OfPath(lines, path) = {}, E!OfId(lines, sel) = {}
      PROVE  E!Rank(l.slot, l.name, cmd) < E!Rank(e.slot, e.name, cmd)
  <2>1. Listed(e)
    BY <1>5, Complete
  <2>2. l.slot # path /\ l.slot[2] # sel
    BY <1>2, <1>5 DEF E!OfPath, E!OfId
  <2>3. e.slot # path /\ e.slot[2] # sel
    BY <1>5, <2>1, ListedTiers
  <2>4. CASE E!OfName(lines, sel) # {}
    <3>1. E!Matching(cmd) = E!OfName(lines, sel)
      BY <1>5, <2>4 DEF E!Matching
    <3>2. l.name = sel
      BY <3>1 DEF E!OfName
    <3>3. e.name # sel
      BY <2>1, <3>1, ListedTiers
    <3> QED
      BY <2>2, <2>3, <3>2, <3>3 DEF E!Rank
  <2>5. CASE E!OfName(lines, sel) = {}
    <3>1. E!Matching(cmd) = E!OfGlob(lines, sel)
      BY <1>1, <1>5, <2>5 DEF E!Matching
    <3>2. sel \in DOMAIN Fits /\ ~E!Orphaned(l) /\ l.name \in Fits[sel]
      BY <3>1 DEF E!OfGlob
    <3>3. l.name # sel
      BY <1>2, <2>5, <3>2 DEF E!OfName
    <3>4. e.name # sel /\ e.name \notin Fits[sel]
      BY <2>1, <2>5, <3>1, <3>2, ListedTiers
    <3> QED
      BY <2>2, <2>3, <3>2, <3>3, <3>4 DEF E!Rank
  <2> QED
    BY <2>4, <2>5
<1> QED
  BY <1>3, <1>4, <1>5

\* Nothing is found only where no steady entry answers to the selector.
LEMMA NoneFits ==
  ASSUME E!SelectionAssumption, E!TypeOK, CommandInv, SelectInv, phase = "select", E!Matching(cmd) = {},
         NEW e \in steady
  PROVE  E!Rank(e.slot, e.name, cmd) = 5
<1>1. E!OfPath(lines, cmd.path) = {} /\ E!OfId(lines, cmd.sel) = {}
  BY DEF E!Matching, E!Exact
<1>2. E!OfName(lines, cmd.sel) = {} /\ E!OfGlob(lines, cmd.sel) = {}
  BY <1>1 DEF E!Matching
<1>3. Listed(e)
  BY <1>1, Complete
<1> QED
  BY <1>1, <1>2, <1>3, ListedTiers DEF E!Rank

\* undo and empty look at everything.
LEMMA EverythingListed ==
  ASSUME E!SelectionAssumption, E!TypeOK, CommandInv, SelectInv, phase = "select",
         cmd.kind \in {"undo", "empty"}
  PROVE  \A e \in steady : Listed(e)
BY Asks DEF SelectInv, Quick, CommandInv

\* A listing with a steady entry has a newest one to undo.
LEMMA SomethingNewest ==
  ASSUME E!SelectionAssumption, E!TypeOK, NEW e \in steady, Listed(e)
  PROVE  E!Undoable # {}
<1> DEFINE named == {l \in lines : ~E!Orphaned(l)}
           stamps == {l.stamp : l \in named}
<1>1. PICK m \in lines : m.stamp = e.stamp
  BY DEF Listed
<1>2. m \in named
  BY <1>1, SteadyFields DEF E!Orphaned
<1>3. \A l \in named : l.stamp \in 1..MaxStamp
  BY LineFields DEF E!Orphaned
<1>4. stamps \subseteq 1..MaxStamp /\ stamps # {} /\ MaxStamp \in Nat
  BY <1>2, <1>3 DEF E!SelectionAssumption
<1>5. PICK x \in stamps : \A y \in stamps : y <= x
  <2> HIDE DEF stamps
  <2> QED
    BY <1>4, Largest
<1>6. PICK l \in named : l.stamp = x
  OBVIOUS
<1>7. \A k \in named : k.stamp <= l.stamp
  BY <1>5, <1>6
<1>8. l \in lines /\ ~E!Orphaned(l) /\ \A k \in lines : E!Orphaned(k) \/ ~E!Newer(k, l)
  BY <1>3, <1>6, <1>7 DEF E!Newer
<1> QED
  BY <1>8 DEF E!Undoable

\* What undo chooses is newer than every other steady entry.
LEMMA UndoesTheNewest ==
  ASSUME E!SelectionAssumption, E!TypeOK, CommandInv, LinesInv, SelectInv, phase = "select",
         cmd.kind = "undo", NEW l \in E!Undoable
  PROVE  ~E!Orphaned(l) /\ Newest(l)
<1>1. l \in lines /\ ~E!Orphaned(l) /\ \A k \in lines : E!Orphaned(k) \/ ~E!Newer(k, l)
  BY DEF E!Undoable
<1>2. l.stamp \in 1..MaxStamp
  BY <1>1, LineFields DEF E!Orphaned
<1>3. ASSUME NEW e \in steady, e.slot # l.slot PROVE e.stamp < l.stamp
  <2>1. PICK m \in lines : m.stamp = e.stamp
    BY EverythingListed DEF Listed
  <2>2. e.stamp \in 1..MaxStamp /\ e.stamp # None
    BY SteadyFields
  <2>3. ~(e.stamp > l.stamp)
    BY <1>1, <2>1, <2>2 DEF E!Newer, E!Orphaned
  <2>4. e.stamp # l.stamp
    BY <1>1, <1>3 DEF LinesInv
  <2> QED
    BY <1>2, <2>2, <2>3, <2>4
<1> QED
  BY <1>1, <1>3 DEF Newest

-----------------------------------------------------------------------------
(* What is chosen and done.                                                *)

LEMMA ChosenNext ==
  ASSUME E!SelectionAssumption, E!TypeOK, CommandInv, LinesInv, SelectInv, ChosenInv, [E!Next]_(E!vars)
  PROVE  ChosenInv'
<1>1. ASSUME phase' \notin {"identify", "act"} PROVE ChosenInv'
  BY <1>1 DEF ChosenInv
<1>2. ASSUME phase \in {"identify", "act"}, phase' = phase, cmd' = cmd, chosen' \subseteq chosen, steady' \subseteq steady
      PROVE  ChosenInv'
  BY <1>2 DEF ChosenInv, Best, Newest, E!Single, E!Rank, E!Orphaned
<1>3. ASSUME cmd' = cmd, ~E!Single(cmd), cmd.kind # "undo" PROVE ChosenInv'
  BY <1>3 DEF ChosenInv, E!Single
<1>4. CASE E!SelectOne
  <2>1. phase = "select" /\ E!Single(cmd) /\ cmd' = cmd /\ steady' = steady
    BY <1>4 DEF E!SelectOne
  <2>2. \/ phase' = "done"
        \/ phase' = "act" /\ chosen' = E!Matching(cmd) /\ \A l, m \in E!Matching(cmd) : l = m
    BY <1>4 DEF E!SelectOne, E!Refuse, E!Choose, E!Answer
  <2>3. ASSUME chosen' = E!Matching(cmd), \A l, m \in E!Matching(cmd) : l = m
        PROVE  ChosenInv'
    <3>1. \A l \in chosen' : Best(l)
      BY <2>1, <2>3, OneBest
    <3>2. \A l \in chosen' : Best(l)'
      BY <2>1, <3>1 DEF Best, E!Rank
    <3> QED
      BY <2>1, <3>2 DEF ChosenInv, E!Single
  <2> QED
    BY <1>1, <2>2, <2>3
<1>5. CASE E!SelectAll
  BY <1>3, <1>5 DEF E!SelectAll, E!EveryCopy, E!Single
<1>6. CASE E!SelectNewest
  <2>1. phase = "select" /\ cmd.kind = "undo" /\ cmd' = cmd /\ steady' = steady
        /\ (phase' = "done" \/ \E l \in E!Undoable : phase' = "identify" /\ chosen' = {l})
    BY <1>6 DEF E!SelectNewest, E!Refuse, E!Choose, E!Answer
  <2>2. ASSUME NEW l \in E!Undoable, phase' = "identify", chosen' = {l} PROVE ChosenInv'
    <3>1. ~E!Orphaned(l) /\ Newest(l)
      BY <2>1, UndoesTheNewest
    <3>2. Newest(l)'
      BY <2>1, <3>1 DEF Newest
    <3> QED
      BY <2>1, <2>2, <3>1, <3>2 DEF ChosenInv, E!Orphaned
  <2> QED
    BY <1>1, <2>1, <2>2
<1>7. CASE E!Identify
  <2>1. phase = "identify" /\ cmd' = cmd /\ steady' = steady
        /\ chosen' = {[l EXCEPT !.doc = selectionData[l.slot]] : l \in chosen}
    BY <1>7 DEF E!Identify
  <2>2. cmd.kind = "undo"
    BY <2>1 DEF CommandInv
  <2>3. ASSUME NEW k \in chosen' PROVE ~E!Orphaned(k) /\ Newest(k)
    <3>1. PICK l \in chosen : k = [l EXCEPT !.doc = selectionData[l.slot]]
      BY <2>1
    <3>2. l \in E!Line
      BY DEF E!TypeOK
    <3>3. k.slot = l.slot /\ k.stamp = l.stamp
      BY <3>1, <3>2 DEF E!Line
    <3>4. ~E!Orphaned(l) /\ Newest(l)
      BY <2>1, <2>2 DEF ChosenInv
    <3> QED
      BY <3>3, <3>4 DEF E!Orphaned, Newest
  <2>4. \A k \in chosen' : Newest(k)'
    BY <2>1, <2>3 DEF Newest
  <2> QED
    BY <2>1, <2>2, <2>3, <2>4 DEF ChosenInv, E!Single, E!Orphaned
<1>8. CASE E!SelectEverything
  BY <1>1, <1>8 DEF E!SelectEverything, E!Refuse, E!Choose, E!Answer
<1>9. CASE E!Confirm
  BY <1>3, <1>9 DEF E!Confirm, CommandInv, E!Single
<1>10. CASE E!Cancel \/ E!Finish
  BY <1>1, <1>10 DEF E!Cancel, E!Finish, E!Answer
<1>11. CASE \E l \in chosen : E!PassOver(l)
  BY <1>2, <1>11 DEF E!PassOver
<1>12. CASE (\E c \in Commands : E!Start(c)) \/ E!Lookup
  BY <1>1, <1>12 DEF E!Start, E!Lookup, E!ReadSidecar, E!ScanOrphans, E!RootFails, E!EndPass, E!Listing,
                     E!Begin, E!Answer
<1>13. CASE Acts
  BY <1>2, <1>13, ActOnStep DEF Acts
<1>14. CASE Abroad \/ UNCHANGED E!vars
  BY <1>1, <1>2, <1>14, WorldKeeps DEF Abroad, E!vars
<1> QED
  BY <1>4, <1>5, <1>6, <1>7, <1>8, <1>9, <1>10, <1>11, <1>12, <1>13, <1>14, SelectionSteps DEF Looks

\* The data that goes is that of the line.
LEMMA ActsNext ==
  ASSUME E!SelectionAssumption, E!TypeOK, SlotsInv, E!ActsOnItsLine, [E!Next]_(E!vars)
  PROVE  E!ActsOnItsLine'
<1>1. ASSUME acted' = acted PROVE E!ActsOnItsLine'
  BY <1>1 DEF E!ActsOnItsLine, E!Orphaned
<1>2. ASSUME NEW l \in chosen, E!ActOn(l) PROVE E!ActsOnItsLine'
  <2> DEFINE new == [line |-> l, doc |-> selectionData[l.slot]]
  <2>1. E!Current(l) /\ l.slot \in E!Slots /\ acted' = acted \cup {new}
    BY <1>2, ActOnStep
  <2>2. E!Orphaned(l) \/ selectionData[l.slot] \in {None, l.stamp}
    BY <2>1 DEF E!Current, E!Version, E!Orphaned, SlotsInv
  <2>3. new.line = l /\ new.doc = selectionData[l.slot]
    OBVIOUS
  <2> HIDE DEF new
  <2> QED
    BY <2>1, <2>2, <2>3 DEF E!ActsOnItsLine, E!Orphaned
<1> QED
  BY <1>1, <1>2, LooksKeep, WorldKeeps, SelectionSteps DEF Acts, Abroad, E!vars

\* "Not found" is said of nothing that was there all along.
LEMMA NotFoundNext ==
  ASSUME E!SelectionAssumption, E!TypeOK, CommandInv, SelectInv, E!NotFoundHonest, [E!Next]_(E!vars)
  PROVE  E!NotFoundHonest'
<1>0. None # "notfound"
  BY DEF E!SelectionAssumption
<1>1. ASSUME UNCHANGED <<answer, cmd>>, steady' \subseteq steady PROVE E!NotFoundHonest'
  BY <1>1 DEF E!NotFoundHonest, E!Rank
<1>2. ASSUME answer' # "notfound" PROVE E!NotFoundHonest'
  BY <1>2 DEF E!NotFoundHonest
<1>3. CASE E!SelectOne \/ E!SelectAll
  <2>1. phase = "select" /\ cmd' = cmd /\ steady' = steady /\ cmd.kind \notin {"undo", "empty"}
        /\ (answer' = answer \/ answer' = "ambiguous" \/ (answer' = "notfound" /\ E!Matching(cmd) = {}))
    BY <1>3 DEF E!SelectOne, E!SelectAll, E!Refuse, E!Choose, E!Answer, E!Single, E!EveryCopy
  <2>2. ASSUME answer' = "notfound", E!Matching(cmd) = {} PROVE E!NotFoundHonest'
    BY <2>1, <2>2, NoneFits DEF E!NotFoundHonest, E!Rank
  <2> QED
    BY <1>1, <1>2, <2>1, <2>2
<1>4. CASE E!SelectNewest
  <2>1. phase = "select" /\ cmd' = cmd /\ steady' = steady /\ cmd.kind = "undo"
        /\ (answer' = answer \/ (answer' = "notfound" /\ E!Undoable = {}))
    BY <1>4 DEF E!SelectNewest, E!Refuse, E!Choose, E!Answer
  <2>2. ASSUME E!Undoable = {} PROVE E!NotFoundHonest'
    BY <2>1, <2>2, EverythingListed, SomethingNewest DEF E!NotFoundHonest
  <2> QED
    BY <1>1, <2>1, <2>2
<1>5. CASE E!SelectEverything
  <2>1. phase = "select" /\ cmd' = cmd /\ steady' = steady /\ cmd.kind = "empty"
        /\ (answer' = answer \/ (answer' = "notfound" /\ lines = {}))
    BY <1>5 DEF E!SelectEverything, E!Refuse, E!Choose, E!Answer
  <2>2. ASSUME lines = {} PROVE E!NotFoundHonest'
    BY <2>1, <2>2, EverythingListed DEF E!NotFoundHonest, Listed
  <2> QED
    BY <1>1, <2>1, <2>2
<1>6. CASE \E c \in Commands : E!Start(c)
  <2>1. phase = "idle" /\ answer' = answer
    BY <1>6 DEF E!Start
  <2> QED
    BY <1>0, <1>2, <2>1 DEF CommandInv
<1>7. CASE E!Lookup \/ E!Identify \/ E!Confirm \/ E!Cancel \/ (\E l \in chosen : E!PassOver(l)) \/ E!Finish
  <2>1. UNCHANGED <<cmd, steady>> /\ answer' \in {answer, "error", "cancelled", "done"}
    BY <1>7 DEF E!Lookup, E!ReadSidecar, E!ScanOrphans, E!RootFails, E!EndPass, E!Identify, E!Confirm, E!Cancel,
                E!PassOver, E!Finish, E!Answer
  <2> QED
    BY <1>1, <1>2, <2>1
<1>8. CASE Acts
  BY <1>1, <1>8, ActOnStep DEF Acts
<1>9. CASE Abroad \/ UNCHANGED E!vars
  BY <1>1, <1>9, WorldKeeps DEF Abroad, E!vars
<1> QED
  BY <1>3, <1>4, <1>5, <1>6, <1>7, <1>8, <1>9, SelectionSteps DEF Looks

LEMMA SelectionStart ==
  ASSUME E!SelectionAssumption, E!Init
  PROVE  SelectionInv
<1>1. MaxStamp \in Nat \ {0} /\ MaxOthers \in Nat /\ Len(Order) \in Nat \ {0}
  BY DEF E!SelectionAssumption
<1>2. /\ last \in 0..MaxStamp - 1 /\ broken = {} /\ others = 0 /\ cmd = None /\ phase = "idle" /\ at = 1
      /\ unread = {} /\ lines = {} /\ chosen = {} /\ answer = None /\ steady = {} /\ acted = {}
  BY DEF E!Init
<1>3. PICK taken \in SUBSET E!Slots :
        \E number \in [taken -> 1..last], name \in [taken -> FileNames], lone \in SUBSET taken :
          /\ \A s, t \in taken : s # t => number[s] # number[t]
          /\ \A k \in 1..last : \E s \in taken : number[s] = k
          /\ \A s \in taken : name[s] \in NamesOf[s[2]]
          /\ sidecar = [s \in E!Slots |-> IF s \in taken \ lone THEN [stamp |-> number[s], name |-> name[s]] ELSE None]
          /\ \A s \in lone : name[s] = CHOOSE n \in NamesOf[s[2]] : TRUE
          /\ selectionData = [s \in E!Slots |-> IF s \in taken THEN number[s] ELSE None]
  BY DEF E!Init
<1>31. PICK number \in [taken -> 1..last], name \in [taken -> FileNames], lone \in SUBSET taken :
         /\ \A s, t \in taken : s # t => number[s] # number[t]
         /\ \A k \in 1..last : \E s \in taken : number[s] = k
         /\ \A s \in taken : name[s] \in NamesOf[s[2]]
         /\ sidecar = [s \in E!Slots |-> IF s \in taken \ lone THEN [stamp |-> number[s], name |-> name[s]] ELSE None]
         /\ \A s \in lone : name[s] = CHOOSE n \in NamesOf[s[2]] : TRUE
         /\ selectionData = [s \in E!Slots |-> IF s \in taken THEN number[s] ELSE None]
  BY <1>3
<1>4. \A s \in taken : number[s] \in 1..MaxStamp /\ number[s] <= last /\ name[s] \in FileNames
  BY <1>1, <1>2
<1>5. ASSUME NEW s \in E!Slots
      PROVE  /\ sidecar[s] \in E!Entry \cup {None} /\ selectionData[s] \in 1..MaxStamp \cup {None}
             /\ sidecar[s] # None => /\ s \in taken /\ sidecar[s].stamp = number[s] /\ number[s] <= last
                                     /\ selectionData[s] = number[s]
  <2>1. CASE s \in taken \ lone
    <3>1. sidecar[s] = [stamp |-> number[s], name |-> name[s]] /\ selectionData[s] = number[s]
      BY <1>31, <2>1
    <3>2. [stamp |-> number[s], name |-> name[s]] \in E!Entry
      BY <1>4, <2>1 DEF E!Entry
    <3> QED
      BY <1>4, <2>1, <3>1, <3>2
  <2>2. CASE s \notin taken \ lone
    BY <1>31, <1>4, <2>2
  <2> QED
    BY <2>1, <2>2
<1>6. sidecar = [s \in E!Slots |-> sidecar[s]] /\ selectionData = [s \in E!Slots |-> selectionData[s]]
  BY <1>31
<1>7. SlotsTyped
  BY <1>1, <1>2, <1>5, <1>6 DEF SlotsTyped
<1>8. ListTyped
  BY <1>1, <1>2 DEF ListTyped
<1>9. CommandTyped /\ HistoryTyped
  BY <1>2 DEF CommandTyped, HistoryTyped, E!Phases
<1>10. SlotsInv
  BY <1>31, <1>5 DEF SlotsInv
<1>11. SteadyInv /\ LinesInv /\ ListInv /\ SelectInv /\ ChosenInv
  BY <1>2 DEF SteadyInv, LinesInv, ListInv, SelectInv, ChosenInv
<1>12. CommandInv /\ E!ActsOnItsLine
  BY <1>2 DEF CommandInv, E!ActsOnItsLine
<1>13. E!NotFoundHonest
  BY <1>2 DEF E!NotFoundHonest
<1> QED
  BY <1>7, <1>8, <1>9, <1>10, <1>11, <1>12, <1>13, SelectionTyped DEF SelectionInv

LEMMA SelectionNext ==
  ASSUME E!SelectionAssumption, SelectionInv, [E!Next]_(E!vars)
  PROVE  SelectionInv'
<1>1. /\ E!TypeOK /\ SlotsInv /\ SteadyInv /\ CommandInv /\ LinesInv /\ ListInv /\ SelectInv /\ ChosenInv
      /\ E!ActsOnItsLine /\ E!NotFoundHonest
  BY DEF SelectionInv
<1>2. E!TypeOK'
  <2>1. SlotsTyped' /\ ListTyped' /\ CommandTyped' /\ HistoryTyped'
    BY <1>1, SlotsTypedNext, ListTypedNext, CommandTypedNext, HistoryTypedNext
  <2> QED
    BY <2>1 DEF E!TypeOK, SlotsTyped, ListTyped, CommandTyped, HistoryTyped
<1>3. SlotsInv' /\ SteadyInv' /\ CommandInv' /\ LinesInv'
  BY <1>1, SlotsInvNext, SteadyNext, CommandNext, LinesNext
<1>4. ListInv' /\ SelectInv' /\ ChosenInv'
  BY <1>1, ListNext, SelectNext, ChosenNext
<1>5. E!ActsOnItsLine' /\ E!NotFoundHonest'
  BY <1>1, ActsNext, NotFoundNext
<1> QED
  BY <1>2, <1>3, <1>4, <1>5 DEF SelectionInv

\* What is acted on is the one added to the history.
LEMMA ActedNow ==
  ASSUME E!TypeOK, [E!Next]_(E!vars), NEW a \in acted' \ acted
  PROVE  \E l \in chosen : E!ActOn(l) /\ a.line = l /\ a.doc = selectionData[l.slot] /\ phase = "act"
<1>1. Acts
  BY LooksKeep, WorldKeeps, SelectionSteps DEF Abroad, E!vars
<1>2. PICK l \in chosen : E!ActOn(l)
  BY <1>1 DEF Acts
<1>3. a = [line |-> l, doc |-> selectionData[l.slot]] /\ phase = "act"
  BY <1>2, ActOnStep
<1>4. a.line = l /\ a.doc = selectionData[l.slot]
  BY <1>3
<1> QED
  BY <1>2, <1>3, <1>4

-----------------------------------------------------------------------------
(* Theorems.                                                               *)

\* What a command knows of the entries that have been there since its start.
THEOREM SelectionInductive == ASSUME E!SelectionAssumption PROVE E!Spec => []SelectionInv
<1>1. E!Init => SelectionInv
  BY SelectionStart
<1>2. SelectionInv /\ [E!Next]_(E!vars) => SelectionInv'
  BY SelectionNext
<1> QED
  BY <1>1, <1>2, PTL DEF E!Spec

\* Types of what is listed, chosen and acted on.
THEOREM SelectionTyping == ASSUME E!SelectionAssumption PROVE E!Spec => []E!TypeOK
<1>1. SelectionInv => E!TypeOK
  BY DEF SelectionInv
<1> QED
  BY <1>1, SelectionInductive, PTL

\* A command acts on the data of the line that it chose, however often the ID was used again since.
THEOREM ActsAsListed == ASSUME E!SelectionAssumption PROVE E!Spec => []E!ActsOnItsLine
<1>1. SelectionInv => E!ActsOnItsLine
  BY DEF SelectionInv
<1> QED
  BY <1>1, SelectionInductive, PTL

\* "Not found" and "nothing to empty" are true of all that was there all along.
THEOREM SaysNotFound == ASSUME E!SelectionAssumption PROVE E!Spec => []E!NotFoundHonest
<1>1. SelectionInv => E!NotFoundHonest
  BY DEF SelectionInv
<1> QED
  BY <1>1, SelectionInductive, PTL

\* What one restore or purge acts on is named better than whatever was there all along.
THEOREM ChoosesAlone == ASSUME E!SelectionAssumption PROVE E!Spec => [][E!Unambiguous]_(E!vars)
<1>1. SelectionInv /\ [E!Next]_(E!vars) => [E!Unambiguous]_(E!vars)
  <2> SUFFICES ASSUME SelectionInv, [E!Next]_(E!vars), NEW a \in acted' \ acted, E!ActedAlone,
                      NEW e \in steady, e.slot # a.line.slot
               PROVE  E!Rank(a.line.slot, a.line.name, cmd) < E!Rank(e.slot, e.name, cmd)
    BY DEF E!Unambiguous
  <2>1. PICK l \in chosen : a.line = l
    BY ActedNow DEF SelectionInv
  <2>2. Best(l)
    BY DEF SelectionInv, ChosenInv, E!ActedAlone, E!Single
  <2> QED
    BY <2>1, <2>2 DEF Best
<1> QED
  BY <1>1, SelectionInductive, PTL DEF E!Spec

\* --all takes each copy of a name that was there all along.
THEOREM TakesEveryCopy == ASSUME E!SelectionAssumption PROVE E!Spec => [][E!EveryCopyChosen]_(E!vars)
<1>1. SelectionInv /\ [E!Next]_(E!vars) => [E!EveryCopyChosen]_(E!vars)
  <2> SUFFICES ASSUME SelectionInv, [E!Next]_(E!vars), phase = "select", phase' = "act", E!EveryCopy(cmd),
                      NEW e \in steady, E!Rank(e.slot, e.name, cmd) \in {2, 3}
               PROVE  \E l \in chosen' : l.slot = e.slot /\ l.stamp = e.stamp
    BY DEF E!EveryCopyChosen
  <2>1. E!TypeOK /\ CommandInv /\ SelectInv
    BY DEF SelectionInv
  <2>2. chosen' = E!Matching(cmd)
    <3>1. E!SelectAll
      <4>1. CASE Looks
        BY <4>1 DEF Looks, E!Start, E!Lookup, E!ReadSidecar, E!ScanOrphans, E!RootFails, E!EndPass, E!Listing,
                    E!SelectOne, E!SelectNewest, E!Identify, E!SelectEverything, E!Confirm, E!Cancel, E!PassOver,
                    E!Finish, E!Single, E!EveryCopy
      <4>2. CASE Acts \/ Abroad \/ UNCHANGED E!vars
        BY <2>1, <4>2, ActOnStep, WorldKeeps DEF Acts, Abroad, E!vars
      <4> QED
        BY <4>1, <4>2, SelectionSteps
    <3> QED
      BY <3>1 DEF E!SelectAll, E!Refuse, E!Choose, E!Answer
  <2>3. Listed(e)
    BY <2>1 DEF SelectInv, Quick
  <2>4. cmd.path = None
    <3>1. /\ e.slot # None /\ e.slot[2] # None /\ e.name # None
          /\ cmd.path # None => cmd.sel = None
      BY <2>1, SelectorFields
    <3>2. e.slot # cmd.path /\ (e.slot[2] = cmd.sel \/ e.name = cmd.sel)
      BY DEF E!Rank
    <3> QED
      BY <3>1, <3>2
  <2>5. E!OfPath(lines, cmd.path) = {}
    BY <2>1, <2>4, SelectorFields DEF E!OfPath
  <2>6. CASE e.slot[2] = cmd.sel
    BY <2>1, <2>2, <2>3, <2>5, <2>6, ListedTiers DEF E!Matching, E!Exact
  <2>7. CASE e.slot[2] # cmd.sel
    <3>1. e.name = cmd.sel
      BY <2>7 DEF E!Rank
    <3>2. PICK m \in E!OfName(lines, cmd.sel) : m.slot = e.slot /\ m.stamp = e.stamp
      BY <2>1, <2>3, <3>1, ListedTiers
    <3>3. m \in E!Matching(cmd)
      BY <2>5, <3>2 DEF E!Matching, E!Exact
    <3> QED
      BY <2>2, <3>2, <3>3
  <2> QED
    BY <2>6, <2>7
<1> QED
  BY <1>1, SelectionInductive, PTL DEF E!Spec

\* undo restores the newest of what was there all along.
THEOREM TakesTheNewest == ASSUME E!SelectionAssumption PROVE E!Spec => [][E!UndoesNewest]_(E!vars)
<1>1. SelectionInv /\ [E!Next]_(E!vars) => [E!UndoesNewest]_(E!vars)
  <2> SUFFICES ASSUME SelectionInv, [E!Next]_(E!vars), NEW a \in acted' \ acted, cmd.kind = "undo",
                      NEW e \in steady, e.slot # a.line.slot
               PROVE  e.stamp < a.doc
    BY DEF E!UndoesNewest
  <2>1. PICK l \in chosen : E!ActOn(l) /\ a.line = l /\ a.doc = selectionData[l.slot] /\ phase = "act"
    BY ActedNow DEF SelectionInv
  <2>2. ~E!Orphaned(l) /\ Newest(l)
    BY <2>1 DEF SelectionInv, ChosenInv
  <2>3. E!Current(l) /\ ~E!Refused(l) /\ l.slot \in E!Slots
    BY <2>1, ActOnStep DEF SelectionInv
  <2>4. a.doc = l.stamp
    BY <2>1, <2>2, <2>3 DEF SelectionInv, SlotsInv, E!Current, E!Refused, E!Restores, E!Version, E!Orphaned
  <2> QED
    BY <2>1, <2>2, <2>4 DEF Newest
<1> QED
  BY <1>1, SelectionInductive, PTL DEF E!Spec
=============================================================================
