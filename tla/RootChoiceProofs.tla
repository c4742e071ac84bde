-------------------------- MODULE RootChoiceProofs --------------------------
(* Where files go, for any number of processes, volumes and settings: what is *)
(* published is where every reader looks, writers apart from each other agree, *)
(* and a place is passed over only for a reason that stays true.              *)
EXTENDS RootChoice, TLAPS

Short == {<<"root", "files", "info">>, <<"files", "info">>, <<"info">>}
Long == {<<"root", "files", "info", "state">>, <<"files", "info", "state">>,
         <<"info", "state">>, <<"state">>}
States == {"none", "ours", "open", "foreign", "link"}
Steps == {"start", "closed", "choose", "look", "create", "check", "ensure", "make", "lock", "end"}

-----------------------------------------------------------------------------
(* The inductive invariant.                                                  *)

Typed ==
  /\ pc \in [Writers -> Steps] /\ cand \in [Writers -> Roots]
  /\ todo \in [Writers -> {<<>>} \cup Short \cup Long]
  /\ made \in [Writers -> BOOLEAN] /\ tried \in [Writers -> BOOLEAN]
Shape ==
  /\ setting \in Settings /\ changes \in 0 .. setting.changes
  /\ node \in [Roots -> [Parts -> States]]
  /\ Typed /\ before \in [Writers -> SUBSET Writers]
  /\ published \subseteq [writer : Writers, root : Roots, at : Nat]

\* Who was done when another started stays done; only who is done has published.
Order ==
  /\ \A w \in Writers : \A v \in before[w] : pc[v] = "end"
  /\ \A w \in Writers : pc[w] = "start" => before[w] = {}
  /\ \A e \in published : pc[e.writer] = "end" /\ e.at <= changes

\* A writer looks for a place, and no longer prepares the library's store.
Ensuring(w) == pc[w] \in {"ensure", "make"}
Chosen(w) == pc[w] \in {"look", "create", "check", "lock"} \/ (Ensuring(w) /\ tried[w])

\* What a step has been given by the steps before it.
StageOf(w) ==
  /\ pc[w] \in {"create", "check"} => Library(w) /\ cand[w] \in {Shared, Private}
  /\ Ensuring(w) /\ tried[w] => todo[w] \in Short
  /\ Ensuring(w) /\ ~tried[w] => todo[w] \in Long /\ cand[w] = Home /\ Library(w)
  /\ pc[w] \in {"start", "choose"} => ~tried[w]
  /\ pc[w] = "start" => cand[w] = Home
  /\ pc[w] \in {"create", "check", "lock", "ensure", "make"} /\ cand[w] \in {Shared, Private}
       => Usable(cand[w])
  /\ pc[w] \in {"lock", "ensure", "make"} /\ cand[w] = Home => Trusted(setting.homes[Home])
  /\ Library(w) /\ pc[w] \notin {"start", "closed", "end"} =>
       Trusted(setting.homes[Home]) /\ cand[w] # Own
  /\ Chosen(w) => setting.same \/ ~setting.busy
Stage == \A w \in Writers : StageOf(w)

\* While others leave the volume alone, what a writer has made or seen is still there, and
\* what a writer apart from the others missed is still missing.
MadeOf(w) ==
  changes = 0 =>
    /\ Ensuring(w) /\ Head(todo[w]) # "root" => node[cand[w]]["root"] = "ours"
    /\ pc[w] = "ensure" /\ made[w] => node[cand[w]][Head(todo[w])] # "none"
    /\ pc[w] = "check" => node[cand[w]]["root"] # "none"
    /\ pc[w] = "create" /\ Apart(w) => node[cand[w]]["root"] = "none"
Made == \A w \in Writers : MadeOf(w)

\* The reasons to pass a place over, none of which a writer takes away.
Foreign(r) == \E p \in {"root", "files", "info"} : node[r][p] \in {"foreign", "link"}
Blocked(r) == ~Usable(r) \/ Foreign(r) \/ (node[r]["root"] = "none" /\ ~Permitted(r, "root"))
Justified(r) ==
  /\ setting.same => r \in {Home, Own}
  /\ ~setting.same /\ r # Shared => Blocked(Shared)
  /\ ~setting.same /\ r \in {Home, Own} => Blocked(Private)
  /\ r = Own => ~Trusted(setting.homes[Home]) \/ Foreign(Home)
\* Writers that pass no place over because another one was faster.
Counts(w) == changes = 0 /\ (~Library(w) \/ Apart(w))
Reasons == \A w \in Writers : Counts(w) /\ Chosen(w) => Justified(cand[w])

Results ==
  \A e \in published :
    /\ e.at = changes => Listed(e.root)
    /\ e.root = Home => Trusted(setting.homes[Home])
    /\ Counts(e.writer) => Justified(e.root)

IInv == Shape /\ Order /\ Stage /\ Made /\ Reasons /\ Results /\ NoTrace

-----------------------------------------------------------------------------
(* What a step does, point by point.                                         *)

Apiece(w) ==
  /\ setting' = setting /\ changes' = changes /\ Typed'
  /\ \A v \in Writers \ {w} :
       pc'[v] = pc[v] /\ cand'[v] = cand[v] /\ todo'[v] = todo[v] /\ made'[v] = made[v]
         /\ tried'[v] = tried[v] /\ before'[v] = before[v]
Same(w) == cand'[w] = cand[w] /\ todo'[w] = todo[w] /\ made'[w] = made[w] /\ tried'[w] = tried[w]
Tries(w, r) == pc'[w] = "look" /\ cand'[w] = r /\ tried'[w] = FALSE /\ made'[w] = FALSE
Leaves == node' = node /\ published' = published
Sets(r, p) == \A q \in Roots, d \in Parts :
  node'[q][d] = IF q = r /\ d = p THEN "ours" ELSE node[q][d]
\* the place is passed over, or the writer is done
Passes(w) ==
  \/ pc'[w] = "end"
  \/ cand[w] = Shared /\ Tries(w, Private)
  \/ cand[w] = Private /\ Tries(w, Home)
  \/ cand[w] = Home /\ ~Library(w) /\ Tries(w, Own)

\* The lists of parts to be made private, and what is left of them.
LEMMA Todos ==
  ASSUME NEW t \in Short \cup Long
  PROVE  /\ Head(t) \in Parts /\ t # <<>>
         /\ t \in Short => Head(t) \in {"root", "files", "info"}
         /\ Tail(t) \in {<<>>} \cup Short \cup Long
         /\ Len(t) # 1 => Head(Tail(t)) # "root" /\ Tail(t) # <<>>
         /\ Len(t) # 1 /\ t \in Short => Tail(t) \in Short
         /\ Len(t) # 1 /\ t \in Long => Tail(t) \in Long
<1>1. /\ t \in Short => t = <<"root", "files", "info">> \/ t = <<"files", "info">> \/ t = <<"info">>
      /\ t \in Long => \/ t = <<"root", "files", "info", "state">>
                       \/ t = <<"files", "info", "state">>
                       \/ t = <<"info", "state">> \/ t = <<"state">>
  BY DEF Short, Long
<1>2. ASSUME t = <<"root", "files", "info">> PROVE Head(t) = "root" /\ Tail(t) = <<"files", "info">>
  BY <1>2
<1>3. ASSUME t = <<"files", "info">> PROVE Head(t) = "files" /\ Tail(t) = <<"info">>
  BY <1>3
<1>4. ASSUME t = <<"info">> PROVE Head(t) = "info" /\ Tail(t) = <<>> /\ Len(t) = 1
  BY <1>4
<1>5. ASSUME t = <<"root", "files", "info", "state">>
      PROVE  Head(t) = "root" /\ Tail(t) = <<"files", "info", "state">>
  BY <1>5
<1>6. ASSUME t = <<"files", "info", "state">>
      PROVE  Head(t) = "files" /\ Tail(t) = <<"info", "state">>
  BY <1>6
<1>7. ASSUME t = <<"info", "state">> PROVE Head(t) = "info" /\ Tail(t) = <<"state">>
  BY <1>7
<1>8. ASSUME t = <<"state">> PROVE Head(t) = "state" /\ Tail(t) = <<>> /\ Len(t) = 1
  BY <1>8
<1>9. /\ Head(<<"files", "info">>) = "files" /\ Head(<<"info">>) = "info"
      /\ Head(<<"files", "info", "state">>) = "files" /\ Head(<<"info", "state">>) = "info"
      /\ Head(<<"state">>) = "state"
  OBVIOUS
<1>10. <<"files", "info">> \in Short /\ <<"info">> \in Short
  BY DEF Short
<1>11. <<"files", "info", "state">> \in Long /\ <<"info", "state">> \in Long /\ <<"state">> \in Long
  BY DEF Long
<1>12. \A a, b, c, d : <<a>> # <<>> /\ <<a, b>> # <<>> /\ <<a, b, c>> # <<>> /\ <<a, b, c, d>> # <<>>
  OBVIOUS
<1>13. t \in Short => t \notin Long
  BY DEF Short, Long
<1> QED
  BY <1>1, <1>2, <1>3, <1>4, <1>5, <1>6, <1>7, <1>8, <1>9, <1>10, <1>11, <1>12, <1>13, Zenon DEF Parts

\* What looking at another place, or ending, leaves to others.
Aside(w) ==
  /\ Typed'
  /\ \A v \in Writers \ {w} :
       /\ pc'[v] = pc[v] /\ cand'[v] = cand[v] /\ todo'[v] = todo[v]
       /\ made'[v] = made[v] /\ tried'[v] = tried[v]

\* Another place is looked at.
LEMMA TryDoes ==
  ASSUME Shape, NEW w \in Writers, NEW r \in Roots, Try(w, r)
  PROVE  Tries(w, r) /\ todo' = todo /\ Aside(w)
  BY DEF Try, Go, Set, Shape, Typed, Steps, Tries, Aside

\* The writer ends.
LEMMA EndDoes ==
  ASSUME Shape, NEW w \in Writers, NEW why, End(w, why)
  PROVE  pc'[w] = "end" /\ Same(w) /\ Aside(w)
  BY DEF End, Go, Set, Shape, Typed, Steps, Same, Aside

\* A place on the volume is passed over for the next one.
LEMMA NextPlaceDoes ==
  ASSUME Shape, NEW w \in Writers, cand[w] \in {Shared, Private}, NextPlace(w)
  PROVE  Passes(w) /\ Aside(w) /\ todo' = todo /\ (Tries(w, Private) \/ Tries(w, Home))
<1>1. CASE cand[w] = Shared
  BY <1>1, TryDoes DEF NextPlace, Passes, Aside, Roots
<1>2. CASE cand[w] = Private
  BY <1>2, TryDoes, PlacesAssumption DEF NextPlace, Passes, Aside, Roots
<1> QED
  BY <1>1, <1>2

\* The library fails where it cannot go on; the daemon goes to its own place from an unsafe home.
LEMMA UnfitDoes ==
  ASSUME Shape, NEW w \in Writers, NEW unsafe, Unfit(w, unsafe)
  PROVE  Passes(w) /\ Aside(w)
         /\ (Library(w) => pc'[w] = "end")
         /\ (Tries(w, Own) /\ pc'[w] # "end" /\ cand[w] = Home => unsafe)
         /\ (pc'[w] = "end" => Same(w))
<1>1. CASE Library(w)
  BY <1>1, EndDoes DEF Unfit, Passes, Aside
<1>2. CASE ~Library(w) /\ cand[w] \in {Shared, Private}
  <2>1. NextPlace(w)
    BY <1>2, PlacesAssumption DEF Unfit
  <2>2. pc'[w] # "end" /\ cand[w] # Home
    BY <2>1, <1>2, NextPlaceDoes, PlacesAssumption DEF Tries
  <2> QED
    BY <2>1, <2>2, <1>2, NextPlaceDoes
<1>3. CASE ~Library(w) /\ cand[w] = Home /\ unsafe /\ Own # None
  <2>1. Try(w, Own)
    BY <1>3, PlacesAssumption DEF Unfit
  <2> QED
    BY <2>1, <1>3, TryDoes DEF Passes, Aside, Tries, Roots
<1>4. CASE ~Library(w) /\ cand[w] \in {Home, Own} /\ ~(cand[w] = Home /\ unsafe /\ Own # None)
  <2>1. \E why : End(w, why)
    BY <1>4, PlacesAssumption DEF Unfit
  <2> QED
    BY <2>1, <1>4, EndDoes DEF Passes, Aside
<1>5. cand[w] \in {Shared, Private, Home, Own}
  BY DEF Shape, Typed, Roots
<1> QED
  BY <1>1, <1>2, <1>3, <1>4, <1>5

Begins(w) ==
  \/ /\ Library(w) /\ Trusted(setting.homes[Home]) /\ pc'[w] = "ensure" /\ cand'[w] = Home
     /\ todo'[w] = <<"root", "files", "info", "state">> /\ made'[w] = FALSE
  \/ Library(w) /\ pc'[w] = "closed" /\ Same(w)
  \/ ~Library(w) /\ pc'[w] = "choose" /\ Same(w)

\* The library prepares its store in the home trash first; the daemon chooses at once.
LEMMA StartDoes ==
  ASSUME Shape, NEW w \in Writers, Start(w)
  PROVE  /\ Apiece(w) /\ Leaves /\ pc[w] = "start" /\ tried'[w] = tried[w] /\ Begins(w)
         /\ before'[w] = {v \in Writers : pc[v] = "end"}
         /\ before' \in [Writers -> SUBSET Writers]
<1>1. CASE Library(w) /\ Trusted(setting.homes[Home])
  <2>1. Ensure(w, Home, <<"root", "files", "info", "state">>)
    BY <1>1 DEF Start
  <2> QED
    BY <1>1, <2>1 DEF Start, Ensure, Set, Go, Shape, Typed, Steps, Roots, Long, Apiece, Leaves, Begins
<1>2. CASE ~(Library(w) /\ Trusted(setting.homes[Home]))
  <2>1. UNCHANGED <<cand, todo, made>> /\ Go(w, IF Library(w) THEN "closed" ELSE "choose")
    BY <1>2 DEF Start
  <2> QED
    BY <1>2, <2>1 DEF Start, Set, Go, Shape, Typed, Steps, Apiece, Leaves, Begins, Same
<1> QED
  BY <1>1, <1>2

\* A library without a store of its own ends.
LEMMA ClosedDoes ==
  ASSUME Shape, NEW w \in Writers, Closed(w)
  PROVE  Apiece(w) /\ Leaves /\ pc[w] = "closed" /\ before' = before /\ pc'[w] = "end" /\ Same(w)
  BY EndDoes DEF Closed, Calm, Apiece, Aside, Leaves

\* The home trash for its own volume, otherwise the volume, unless that is busy.
LEMMA ChooseDoes ==
  ASSUME Shape, NEW w \in Writers, Choose(w)
  PROVE  /\ Apiece(w) /\ Leaves /\ pc[w] = "choose" /\ before' = before
         /\ \/ setting.same /\ Tries(w, Home) /\ todo' = todo
            \/ ~setting.same /\ ~setting.busy /\ Tries(w, Shared) /\ todo' = todo
            \/ pc'[w] = "end" /\ Same(w)
<1>1. CASE setting.same
  BY <1>1, TryDoes DEF Choose, Calm, Apiece, Aside, Leaves, Roots
<1>2. CASE ~setting.same /\ Busy
  BY <1>2, EndDoes DEF Choose, Calm, Apiece, Aside, Leaves
<1>3. CASE ~setting.same /\ ~Busy
  BY <1>3, TryDoes DEF Choose, Calm, Apiece, Aside, Leaves, Roots, Busy
<1> QED
  BY <1>1, <1>2, <1>3

Looks(w) ==
  \/ cand[w] \in {Shared, Private} /\ ~Usable(cand[w]) /\ Passes(w) /\ todo' = todo
  \/ /\ cand[w] \in {Shared, Private} /\ Usable(cand[w]) /\ Library(w) /\ Same(w)
     /\ pc'[w] = IF node[cand[w]]["root"] = "none" THEN "create" ELSE "check"
  \/ /\ pc'[w] = "lock" /\ Same(w)
     /\ cand[w] \in {Shared, Private} => Usable(cand[w])
     /\ cand[w] \in {Home, Own} => Library(w) \/ Trusted(setting.homes[cand[w]])
  \/ /\ cand[w] \in {Home, Own} /\ ~Library(w) /\ ~Trusted(setting.homes[cand[w]])
     /\ Passes(w) /\ todo' = todo

\* A place that is not usable is passed over; the library then makes the root, others do not.
LEMMA LookDoes ==
  ASSUME Shape, NEW w \in Writers, Look(w)
  PROVE  Apiece(w) /\ Leaves /\ pc[w] = "look" /\ before' = before /\ Looks(w)
<1>1. pc[w] = "look" /\ Calm /\ cand[w] \in Roots
  BY DEF Look, Shape, Typed
<1>2. CASE cand[w] \in {Shared, Private} /\ ~Usable(cand[w])
  <2>1. NextPlace(w)
    BY <1>2, PlacesAssumption DEF Look
  <2> QED
    BY <1>1, <1>2, <2>1, NextPlaceDoes DEF Calm, Apiece, Leaves, Looks, Aside
<1>3. CASE cand[w] \in {Shared, Private} /\ Usable(cand[w]) /\ Library(w)
  <2>1. Go(w, IF node[cand[w]]["root"] = "none" THEN "create" ELSE "check")
        /\ UNCHANGED <<cand, todo, made, tried, result>>
    BY <1>3, PlacesAssumption DEF Look
  <2> QED
    BY <1>1, <1>3, <2>1 DEF Calm, Apiece, Leaves, Looks, Go, Set, Shape, Typed, Steps, Same
<1>4. CASE cand[w] \in {Shared, Private} /\ Usable(cand[w]) /\ ~Library(w)
  <2>1. ToLock(w)
    BY <1>4, PlacesAssumption DEF Look
  <2> QED
    BY <1>1, <1>4, <2>1, PlacesAssumption DEF Calm, Apiece, Leaves, Looks, ToLock, Go, Set, Shape, Typed, Steps, Same
<1>5. CASE cand[w] \in {Home, Own} /\ (Library(w) \/ Trusted(setting.homes[cand[w]]))
  <2>1. ToLock(w)
    BY <1>5, PlacesAssumption DEF Look
  <2> QED
    BY <1>1, <1>5, <2>1, PlacesAssumption DEF Calm, Apiece, Leaves, Looks, ToLock, Go, Set, Shape, Typed, Steps, Same
<1>6. CASE cand[w] \in {Home, Own} /\ ~Library(w) /\ ~Trusted(setting.homes[cand[w]])
  <2>1. Unfit(w, setting.homes[cand[w]] = "loose")
    BY <1>6, PlacesAssumption DEF Look
  <2>2. todo' = todo
    BY <2>1, <1>6, PlacesAssumption DEF Unfit, End, Try
  <2> QED
    BY <1>1, <1>6, <2>1, <2>2, UnfitDoes DEF Calm, Apiece, Leaves, Looks, Aside
<1> QED
  BY <1>1, <1>2, <1>3, <1>4, <1>5, <1>6 DEF Roots

\* A part that is made or made private is ours, and nothing else changes.
LEMMA PutDoes ==
  ASSUME Shape, NEW r \in Roots, NEW p \in Parts, Put(r, p, "ours")
  PROVE  Sets(r, p) /\ node' \in [Roots -> [Parts -> States]]
  BY DEF Put, Shape, Sets, States

MakesRoot(w) ==
  \/ /\ node[cand[w]]["root"] = "none" /\ Permitted(cand[w], "root")
     /\ Sets(cand[w], "root") /\ pc'[w] = "check" /\ Same(w)
  \/ /\ ~(node[cand[w]]["root"] = "none" /\ Permitted(cand[w], "root"))
     /\ node' = node /\ Passes(w) /\ pc'[w] = "look"

\* A missing root is made when that is permitted, and the place passed over otherwise.
LEMMA CreateDoes ==
  ASSUME Shape, NEW w \in Writers, cand[w] \in {Shared, Private}, Create(w)
  PROVE  /\ Apiece(w) /\ pc[w] = "create" /\ before' = before /\ published' = published
         /\ node' \in [Roots -> [Parts -> States]] /\ todo' = todo /\ MakesRoot(w)
<1>1. pc[w] = "create" /\ Keep(w) /\ published' = published /\ cand[w] \in Roots /\ "root" \in Parts
  BY DEF Create, Shape, Typed, Parts
<1>2. CASE node[cand[w]]["root"] = "none" /\ Permitted(cand[w], "root")
  <2>1. Put(cand[w], "root", "ours") /\ Go(w, "check") /\ UNCHANGED <<cand, todo, made, tried, result>>
    BY <1>2 DEF Create
  <2>2. Apiece(w) /\ Same(w) /\ pc'[w] = "check" /\ todo' = todo /\ before' = before
    BY <1>1, <2>1 DEF Keep, Apiece, Same, Go, Set, Shape, Typed, Steps
  <2> QED
    BY <1>1, <1>2, <2>1, <2>2, PutDoes DEF MakesRoot
<1>3. CASE ~(node[cand[w]]["root"] = "none" /\ Permitted(cand[w], "root"))
  <2>1. NextPlace(w) /\ node' = node
    BY <1>3 DEF Create
  <2> QED
    BY <1>1, <1>3, <2>1, NextPlaceDoes DEF Keep, Apiece, Aside, MakesRoot, Tries, Shape
<1> QED
  BY <1>2, <1>3

Checks(w) ==
  \/ node[cand[w]]["root"] \in {"ours", "open"} /\ Sets(cand[w], "root") /\ pc'[w] = "lock" /\ Same(w)
  \/ /\ node[cand[w]]["root"] \in {"none", "foreign", "link"}
     /\ node' = node /\ Passes(w) /\ pc'[w] = "look"

\* A root that was found is made private when it belongs to the user.
LEMMA CheckDoes ==
  ASSUME Shape, NEW w \in Writers, cand[w] \in {Shared, Private}, Check(w)
  PROVE  /\ Apiece(w) /\ pc[w] = "check" /\ before' = before /\ published' = published
         /\ node' \in [Roots -> [Parts -> States]] /\ todo' = todo /\ Checks(w)
<1>1. pc[w] = "check" /\ Keep(w) /\ published' = published /\ cand[w] \in Roots /\ "root" \in Parts
  BY DEF Check, Shape, Typed, Parts
<1>2. CASE Repaired(node[cand[w]]["root"])
  <2>1. Put(cand[w], "root", "ours") /\ ToLock(w)
    BY <1>2 DEF Check
  <2>2. Apiece(w) /\ Same(w) /\ pc'[w] = "lock" /\ todo' = todo /\ before' = before
    BY <1>1, <2>1 DEF Keep, Apiece, Same, ToLock, Go, Set, Shape, Typed, Steps
  <2> QED
    BY <1>1, <1>2, <2>1, <2>2, PutDoes DEF Checks, Repaired
<1>3. CASE ~Repaired(node[cand[w]]["root"])
  <2>1. NextPlace(w) /\ node' = node
    BY <1>3 DEF Check
  <2>2. node[cand[w]]["root"] \in {"none", "foreign", "link"}
    BY <1>1, <1>3 DEF Repaired, Shape, States
  <2>3. Apiece(w) /\ before' = before
    BY <1>1, <2>1, NextPlaceDoes DEF Keep, Apiece, Aside
  <2>4. Passes(w) /\ pc'[w] = "look" /\ todo' = todo
    BY <2>1, NextPlaceDoes DEF Tries
  <2> QED
    BY <1>1, <2>1, <2>2, <2>3, <2>4 DEF Checks, Shape
<1> QED
  BY <1>2, <1>3

Ensures(w) ==
  \/ node' = node /\ node[cand[w]][Head(todo[w])] = "none" /\ pc'[w] = "make" /\ Same(w)
  \/ /\ node' = node /\ node[cand[w]][Head(todo[w])] = "none" /\ (Library(w) \/ made[w])
     /\ Unfit(w, FALSE)
  \/ /\ node' = node /\ node[cand[w]][Head(todo[w])] \in {"foreign", "link"}
     /\ Unfit(w, TRUE)
  \/ /\ node[cand[w]][Head(todo[w])] \in {"ours", "open"} /\ Sets(cand[w], Head(todo[w]))
     /\ cand'[w] = cand[w] /\ made'[w] = FALSE /\ tried'[w] = tried[w]
     /\ todo'[w] = Tail(todo[w])
     /\ pc'[w] = IF Len(todo[w]) # 1 THEN "ensure"
                 ELSE IF Library(w) /\ ~tried[w] THEN "choose" ELSE "lock"

\* The next directory of a place is made private, is about to be made, or ends the attempt.
LEMMA EnsureDoes ==
  ASSUME Shape, NEW w \in Writers, todo[w] \in Short \cup Long, EnsureStep(w)
  PROVE  /\ Apiece(w) /\ pc[w] = "ensure" /\ before' = before /\ published' = published
         /\ node' \in [Roots -> [Parts -> States]] /\ Ensures(w)
<1> DEFINE dir == Head(todo[w])
           s == node[cand[w]][dir]
<1>1. /\ pc[w] = "ensure" /\ Keep(w) /\ published' = published /\ cand[w] \in Roots
      /\ dir \in Parts /\ s \in States /\ Tail(todo[w]) \in {<<>>} \cup Short \cup Long
  BY Todos DEF EnsureStep, Shape, Typed
<1>2. CASE s = "none" /\ Creates(w) /\ ~made[w]
  <2>1. Go(w, "make") /\ UNCHANGED <<node, cand, todo, made, tried, result>>
    BY <1>2 DEF EnsureStep
  <2> QED
    BY <1>1, <1>2, <2>1 DEF Keep, Apiece, Ensures, Same, Go, Set, Shape, Typed, Steps
<1>3. CASE s = "none" /\ ~(Creates(w) /\ ~made[w])
  <2>1. Unfit(w, FALSE) /\ node' = node
    BY <1>3 DEF EnsureStep
  <2> QED
    <3>1. Library(w) \/ made[w]
      BY <1>3 DEF Creates
    <3>2. Apiece(w) /\ before' = before
      BY <1>1, <2>1, UnfitDoes DEF Keep, Apiece, Aside
    <3> QED
      BY <1>1, <1>3, <2>1, <3>1, <3>2 DEF Ensures, Shape
<1>4. CASE s \in {"foreign", "link"}
  <2>1. Unfit(w, TRUE) /\ node' = node
    BY <1>4 DEF EnsureStep
  <2> QED
    BY <1>1, <1>4, <2>1, UnfitDoes DEF Keep, Apiece, Aside, Ensures, Shape
<1>5. CASE s \in {"ours", "open"}
  <2>1. /\ Put(cand[w], dir, "ours") /\ todo' = Set(todo, w, Tail(todo[w]))
        /\ made' = Set(made, w, FALSE) /\ UNCHANGED <<cand, result>>
        /\ IF Len(todo[w]) = 1 THEN Prepared(w) ELSE UNCHANGED <<pc, tried>>
    BY <1>5 DEF EnsureStep
  <2>2. Sets(cand[w], dir) /\ node' \in [Roots -> [Parts -> States]]
    BY <1>1, <2>1, PutDoes
  <2>3. /\ tried' = tried
        /\ pc' = [pc EXCEPT ![w] = IF Len(todo[w]) # 1 THEN "ensure"
                                  ELSE IF Library(w) /\ ~tried[w] THEN "choose" ELSE "lock"]
    <3>1. CASE Len(todo[w]) = 1
      BY <2>1, <3>1 DEF Prepared, Go, Set
    <3>2. CASE Len(todo[w]) # 1
      BY <1>1, <2>1, <3>2 DEF Shape, Typed
    <3> QED
      BY <3>1, <3>2
  <2>4. /\ Apiece(w) /\ before' = before /\ todo'[w] = Tail(todo[w]) /\ made'[w] = FALSE
        /\ tried'[w] = tried[w] /\ cand'[w] = cand[w]
        /\ pc'[w] = IF Len(todo[w]) # 1 THEN "ensure"
                    ELSE IF Library(w) /\ ~tried[w] THEN "choose" ELSE "lock"
    BY <1>1, <2>1, <2>3 DEF Keep, Apiece, Set, Shape, Typed, Steps
  <2> QED
    BY <1>1, <1>5, <2>2, <2>4 DEF Ensures
<1> QED
  BY <1>1, <1>2, <1>3, <1>4, <1>5 DEF States

Makes(w) ==
  \/ /\ node' = node /\ node[cand[w]][Head(todo[w])] # "none" /\ pc'[w] = "ensure"
     /\ cand'[w] = cand[w] /\ todo'[w] = todo[w] /\ tried'[w] = tried[w]
  \/ /\ node[cand[w]][Head(todo[w])] = "none" /\ Permitted(cand[w], Head(todo[w]))
     /\ Sets(cand[w], Head(todo[w])) /\ pc'[w] = "ensure"
     /\ cand'[w] = cand[w] /\ todo'[w] = todo[w] /\ tried'[w] = tried[w]
  \/ /\ node' = node /\ node[cand[w]][Head(todo[w])] = "none"
     /\ ~Permitted(cand[w], Head(todo[w])) /\ Unfit(w, FALSE)

\* A directory is made, or somebody else was faster.
LEMMA MakeDoes ==
  ASSUME Shape, NEW w \in Writers, todo[w] \in Short \cup Long, MakeStep(w)
  PROVE  /\ Apiece(w) /\ pc[w] = "make" /\ before' = before /\ published' = published
         /\ node' \in [Roots -> [Parts -> States]] /\ Makes(w)
<1> DEFINE dir == Head(todo[w])
           s == node[cand[w]][dir]
<1>1. /\ pc[w] = "make" /\ Keep(w) /\ published' = published /\ cand[w] \in Roots
      /\ dir \in Parts
  BY Todos DEF MakeStep, Shape, Typed
<1>2. CASE s # "none"
  <2>1. Raced(w)
    BY <1>2 DEF MakeStep
  <2> QED
    BY <1>1, <1>2, <2>1 DEF Keep, Apiece, Makes, Raced, Go, Set, Shape, Typed, Steps
<1>3. CASE s = "none" /\ Permitted(cand[w], dir)
  <2>1. /\ Put(cand[w], dir, "ours") /\ made' = Set(made, w, TRUE) /\ Go(w, "ensure")
        /\ UNCHANGED <<cand, todo, tried, result>>
    BY <1>3 DEF MakeStep
  <2>2. Sets(cand[w], dir) /\ node' \in [Roots -> [Parts -> States]]
    BY <1>1, <2>1, PutDoes
  <2>3. /\ Apiece(w) /\ before' = before /\ pc'[w] = "ensure"
        /\ cand'[w] = cand[w] /\ todo'[w] = todo[w] /\ tried'[w] = tried[w]
    BY <1>1, <2>1 DEF Keep, Apiece, Go, Set, Shape, Typed, Steps
  <2> QED
    BY <1>1, <1>3, <2>2, <2>3 DEF Makes
<1>4. CASE s = "none" /\ ~Permitted(cand[w], dir)
  <2>1. Unfit(w, FALSE) /\ node' = node
    BY <1>4 DEF MakeStep
  <2> QED
    BY <1>1, <1>4, <2>1, UnfitDoes DEF Keep, Apiece, Aside, Makes, Shape
<1> QED
  BY <1>2, <1>3, <1>4

Locks(w) ==
  \/ /\ Lockable(cand[w]) /\ Sets(cand[w], "state") /\ pc'[w] = "end" /\ Same(w)
     /\ published' = published \cup {[writer |-> w, root |-> cand[w], at |-> changes]}
  \/ node' = node /\ published' = published /\ pc'[w] = "end" /\ Same(w)
  \/ /\ node' = node /\ published' = published /\ pc'[w] = "ensure" /\ cand'[w] = cand[w]
     /\ todo'[w] = <<"root", "files", "info">> /\ made'[w] = FALSE /\ tried'[w] = TRUE

\* The place is locked and the file published there, or the place is not fit.
LEMMA LockDoes ==
  ASSUME Shape, NEW w \in Writers, Lock(w)
  PROVE  /\ Apiece(w) /\ pc[w] = "lock" /\ before' = before
         /\ node' \in [Roots -> [Parts -> States]] /\ Locks(w)
<1>1. pc[w] = "lock" /\ Keep(w) /\ cand[w] \in Roots /\ "state" \in Parts
  BY DEF Lock, Shape, Typed, Parts
<1>2. CASE Lockable(cand[w])
  <2>1. /\ Put(cand[w], "state", "ours") /\ End(w, cand[w])
        /\ published' = published \cup {[writer |-> w, root |-> cand[w], at |-> changes]}
    BY <1>2 DEF Lock
  <2>2. Sets(cand[w], "state") /\ node' \in [Roots -> [Parts -> States]]
    BY <1>1, <2>1, PutDoes
  <2> QED
    BY <1>1, <1>2, <2>1, <2>2, EndDoes DEF Keep, Apiece, Aside, Locks
<1>3. CASE ~Lockable(cand[w]) /\ tried[w]
  <2>1. End(w, "refused") /\ UNCHANGED <<node, published>>
    BY <1>3 DEF Lock
  <2> QED
    BY <1>1, <2>1, EndDoes DEF Keep, Apiece, Aside, Locks, Shape
<1>4. CASE ~Lockable(cand[w]) /\ ~tried[w]
  <2>1. /\ Ensure(w, cand[w], <<"root", "files", "info">>) /\ Once(w)
        /\ UNCHANGED <<node, published, result>>
    BY <1>4 DEF Lock
  <2> QED
    BY <1>1, <2>1 DEF Keep, Apiece, Locks, Ensure, Once, Go, Set, Shape, Typed, Steps, Short
<1> QED
  BY <1>2, <1>3, <1>4

-----------------------------------------------------------------------------
(* What all steps have in common.                                            *)

\* Directories are made where they may be, or made private; only in the place looked at.
Grows(w) == \A q \in Roots, d \in Parts :
  \/ node'[q][d] = node[q][d]
  \/ /\ q = cand[w] /\ pc[w] \in {"create", "check", "ensure", "make", "lock"}
     /\ node'[q][d] = "ours" /\ node[q][d] \in {"none", "ours", "open"}
     /\ node[q][d] = "none" => Permitted(q, d)
Records(w) ==
  \/ published' = published
  \/ /\ pc[w] = "lock" /\ pc'[w] = "end" /\ Lockable(cand[w])
     /\ published' = published \cup {[writer |-> w, root |-> cand[w], at |-> changes]}
Notes(w) ==
  \/ pc[w] = "start" /\ before'[w] = {v \in Writers : pc[v] = "end"}
  \/ pc[w] # "start" /\ before' = before
Common(w) ==
  /\ Apiece(w) /\ node' \in [Roots -> [Parts -> States]] /\ before' \in [Writers -> SUBSET Writers]
  /\ pc[w] # "end" /\ pc'[w] # "start" /\ Grows(w) /\ Records(w) /\ Notes(w)

\* Nobody starts again.
LEMMA PassesOn ==
  ASSUME NEW w \in Writers, Passes(w)
  PROVE  pc'[w] \in {"end", "look"}
  BY DEF Passes, Tries

\* A part that could be made private was no one else's.
LEMMA SetsGrows ==
  ASSUME NEW w \in Writers, NEW d \in Parts, Sets(cand[w], d),
         pc[w] \in {"create", "check", "ensure", "make", "lock"},
         node[cand[w]][d] \in {"none", "ours", "open"},
         node[cand[w]][d] = "none" => Permitted(cand[w], d)
  PROVE  Grows(w)
  BY DEF Sets, Grows

\* What all steps of a writer have in common.
LEMMA StepDoes ==
  ASSUME Shape, Stage, NEW w \in Writers, Step(w)
  PROVE  Common(w)
<1>1. Shape /\ cand[w] \in Roots /\ node \in [Roots -> [Parts -> States]]
      /\ before \in [Writers -> SUBSET Writers]
  BY DEF Shape, Typed
<1>2. node' = node => Grows(w)
  BY DEF Grows
<1>3. published' = published => Records(w)
  BY DEF Records
<1>4. ASSUME Start(w) PROVE Common(w)
  BY <1>1, <1>2, <1>3, <1>4, StartDoes DEF Common, Leaves, Begins, Notes
<1>5. ASSUME Closed(w) PROVE Common(w)
  BY <1>1, <1>2, <1>3, <1>5, ClosedDoes DEF Common, Leaves, Notes
<1>6. ASSUME Choose(w) PROVE Common(w)
  BY <1>1, <1>2, <1>3, <1>6, ChooseDoes DEF Common, Leaves, Notes, Tries
<1>7. ASSUME Look(w) PROVE Common(w)
  BY <1>1, <1>2, <1>3, <1>7, LookDoes, PassesOn DEF Common, Leaves, Notes, Looks
<1>8. ASSUME Create(w) PROVE Common(w)
  <2>1. pc[w] = "create" /\ cand[w] \in {Shared, Private}
    BY <1>8 DEF Create, Stage, StageOf
  <2>2. MakesRoot(w) /\ Apiece(w) /\ before' = before /\ published' = published
        /\ node' \in [Roots -> [Parts -> States]]
    BY <1>1, <1>8, <2>1, CreateDoes
  <2>3. Grows(w)
    BY <1>2, <2>1, <2>2, SetsGrows DEF MakesRoot, Parts
  <2> QED
    BY <1>1, <1>3, <2>1, <2>2, <2>3, PassesOn DEF Common, Notes, MakesRoot
<1>9. ASSUME Check(w) PROVE Common(w)
  <2>1. pc[w] = "check" /\ cand[w] \in {Shared, Private}
    BY <1>9 DEF Check, Stage, StageOf
  <2>2. Checks(w) /\ Apiece(w) /\ before' = before /\ published' = published
        /\ node' \in [Roots -> [Parts -> States]]
    BY <1>1, <1>9, <2>1, CheckDoes
  <2>3. Grows(w)
    BY <1>2, <2>1, <2>2, SetsGrows DEF Checks, Parts
  <2> QED
    BY <1>1, <1>3, <2>1, <2>2, <2>3, PassesOn DEF Common, Notes, Checks
<1>10. ASSUME EnsureStep(w) PROVE Common(w)
  <2>1. pc[w] = "ensure" /\ todo[w] \in Short \cup Long /\ Head(todo[w]) \in Parts
    BY <1>1, <1>10, Todos DEF EnsureStep, Stage, StageOf, Ensuring, Shape, Typed
  <2>2. Ensures(w) /\ Apiece(w) /\ before' = before /\ published' = published
        /\ node' \in [Roots -> [Parts -> States]]
    BY <1>1, <1>10, <2>1, EnsureDoes
  <2>3. Grows(w)
    BY <1>2, <2>1, <2>2, SetsGrows DEF Ensures
  <2>4. pc'[w] # "start"
    BY <1>1, <2>2, UnfitDoes, PassesOn DEF Ensures
  <2> QED
    BY <1>1, <1>3, <2>1, <2>2, <2>3, <2>4 DEF Common, Notes
<1>11. ASSUME MakeStep(w) PROVE Common(w)
  <2>1. pc[w] = "make" /\ todo[w] \in Short \cup Long /\ Head(todo[w]) \in Parts
    BY <1>1, <1>11, Todos DEF MakeStep, Stage, StageOf, Ensuring, Shape, Typed
  <2>2. Makes(w) /\ Apiece(w) /\ before' = before /\ published' = published
        /\ node' \in [Roots -> [Parts -> States]]
    BY <1>1, <1>11, <2>1, MakeDoes
  <2>3. Grows(w)
    BY <1>2, <2>1, <2>2, SetsGrows DEF Makes
  <2>4. pc'[w] # "start"
    BY <1>1, <2>2, UnfitDoes, PassesOn DEF Makes
  <2> QED
    BY <1>1, <1>3, <2>1, <2>2, <2>3, <2>4 DEF Common, Notes
<1>12. ASSUME Lock(w) PROVE Common(w)
  <2>1. Locks(w) /\ Apiece(w) /\ before' = before /\ pc[w] = "lock"
        /\ node' \in [Roots -> [Parts -> States]]
    BY <1>1, <1>12, LockDoes
  <2>2. Grows(w)
    BY <1>2, <2>1, SetsGrows DEF Locks, Lockable, Permitted, Parts
  <2>3. Records(w) /\ pc'[w] # "start"
    BY <2>1 DEF Locks, Records
  <2> QED
    BY <1>1, <2>1, <2>2, <2>3 DEF Common, Notes
<1> QED
  BY <1>4, <1>5, <1>6, <1>7, <1>8, <1>9, <1>10, <1>11, <1>12 DEF Step

\* What others do to the volume.
LEMMA OthersDo ==
  ASSUME Shape, Others
  PROVE  /\ changes < setting.changes /\ changes' = changes + 1
         /\ UNCHANGED <<setting, pc, cand, todo, made, tried, result, published, before>>
         /\ node' \in [Roots -> [Parts -> States]]
<1>1. /\ changes < setting.changes /\ changes' = changes + 1
      /\ UNCHANGED <<setting, pc, cand, todo, made, tried, result, published, before>>
  BY DEF Others
<1>2. PICK r \in Roots : \/ \E s \in {"foreign", "link"} : Rival(r, s)
                         \/ \E p \in Parts : Loosen(r, p)
                         \/ Clear(r)
  BY DEF Others
<1>3. ASSUME NEW s \in {"foreign", "link"}, Rival(r, s) PROVE node' \in [Roots -> [Parts -> States]]
  BY <1>3 DEF Rival, Put, Shape, States, Parts
<1>4. ASSUME NEW p \in Parts, Loosen(r, p) PROVE node' \in [Roots -> [Parts -> States]]
  BY <1>4 DEF Loosen, Put, Shape, States
<1>5. ASSUME Clear(r) PROVE node' \in [Roots -> [Parts -> States]]
  BY <1>5 DEF Clear, Shape, States
<1> QED
  BY <1>1, <1>2, <1>3, <1>4, <1>5

\* The types are kept.
LEMMA ShapeNext == Shape /\ Stage /\ [Next]_vars => Shape'
<1> SUFFICES ASSUME Shape, Stage, [Next]_vars PROVE Shape'
  OBVIOUS
<1>1. ASSUME NEW w \in Writers, Step(w) PROVE Shape'
  <2>1. Common(w)
    BY <1>1, StepDoes
  <2>2. published' \subseteq [writer : Writers, root : Roots, at : Nat]
    BY <2>1, SettingsAssumption DEF Common, Records, Shape, Typed
  <2> QED
    BY <2>1, <2>2 DEF Common, Apiece, Shape
<1>2. ASSUME Others PROVE Shape'
  BY <1>2, OthersDo, SettingsAssumption DEF Shape, Typed
<1>3. CASE UNCHANGED vars
  BY <1>3 DEF vars, Shape, Typed
<1> QED
  BY <1>1, <1>2, <1>3 DEF Next

\* Who is done stays done.
LEMMA OrderNext == Shape /\ Stage /\ Order /\ [Next]_vars => Order'
<1> SUFFICES ASSUME Shape, Stage, Order, [Next]_vars PROVE Order'
  OBVIOUS
<1>1. ASSUME NEW w \in Writers, Step(w) PROVE Order'
  <2>1. Common(w) /\ pc[w] # "end" /\ pc'[w] # "start" /\ changes' = changes
    BY <1>1, StepDoes DEF Common, Apiece
  <2>2. \A v \in Writers : pc[v] = "end" => pc'[v] = "end"
    BY <2>1 DEF Common, Apiece
  <2>3. ASSUME NEW u \in Writers, NEW v \in before'[u] PROVE pc'[v] = "end"
    <3>1. v \in before[u] \/ (v \in Writers /\ pc[v] = "end")
      BY <2>1, <2>3 DEF Common, Apiece, Notes
    <3>2. v \in Writers /\ pc[v] = "end"
      BY <3>1 DEF Order, Shape
    <3> QED
      BY <3>2, <2>2
  <2>4. ASSUME NEW u \in Writers, pc'[u] = "start" PROVE before'[u] = {}
    <3>1. u # w
      BY <2>1, <2>4
    <3>2. pc[u] = "start" /\ before'[u] = before[u]
      BY <2>1, <2>4, <3>1 DEF Common, Apiece
    <3> QED
      BY <3>2 DEF Order
  <2>5. ASSUME NEW e \in published' PROVE pc'[e.writer] = "end" /\ e.at <= changes'
    <3>1. CASE e \in published
      <4>1. e.writer \in Writers /\ pc[e.writer] = "end" /\ e.at <= changes
        BY <3>1 DEF Order, Shape
      <4> QED
        BY <4>1, <2>1, <2>2
    <3>2. CASE e \notin published
      <4>1. pc'[w] = "end" /\ e = [writer |-> w, root |-> cand[w], at |-> changes]
        BY <2>1, <2>5, <3>2 DEF Common, Records
      <4>2. changes \in Nat
        BY SettingsAssumption DEF Shape
      <4> QED
        BY <4>1, <4>2, <2>1
    <3> QED
      BY <3>1, <3>2
  <2> QED
    BY <2>3, <2>4, <2>5 DEF Order
<1>2. ASSUME Others PROVE Order'
  <2>1. /\ changes' = changes + 1 /\ changes \in Nat
        /\ UNCHANGED <<pc, published, before>>
    BY <1>2, OthersDo, SettingsAssumption DEF Shape
  <2>2. \A e \in published : e.at \in Nat
    BY DEF Shape
  <2> QED
    BY <2>1, <2>2 DEF Order
<1>3. CASE UNCHANGED vars
  BY <1>3 DEF vars, Order
<1> QED
  BY <1>1, <1>2, <1>3 DEF Next

-----------------------------------------------------------------------------
(* What a step has been given.                                               *)

\* A writer's stage is its own.
LEMMA StageElsewhere ==
  ASSUME NEW w \in Writers, Apiece(w), NEW v \in Writers, v # w, StageOf(v)
  PROVE  StageOf(v)'
  BY DEF Apiece, StageOf, Ensuring, Chosen, Library, Usable

\* The next place is looked at with what the last one was.
LEMMA StagePasses ==
  ASSUME NEW w \in Writers, Apiece(w), Passes(w), StageOf(w), Chosen(w)
  PROVE  StageOf(w)'
<1>1. pc[w] \notin {"start", "closed", "end"}
  BY DEF Chosen, Ensuring
<1>2. CASE pc'[w] = "end"
  BY <1>2 DEF StageOf, Ensuring, Chosen
<1>3. CASE pc'[w] # "end"
  <2>1. pc'[w] = "look" /\ (Library(w) => cand'[w] # Own)
    BY <1>3, PlacesAssumption DEF Passes, Tries
  <2> QED
    BY <1>1, <2>1 DEF Apiece, StageOf, Ensuring, Chosen, Library
<1> QED
  BY <1>2, <1>3

\* A writer that ends has nothing to answer for.
LEMMA StageEnds ==
  ASSUME NEW w \in Writers, pc'[w] = "end"
  PROVE  StageOf(w)'
  BY DEF StageOf, Ensuring, Chosen

\* Each step gives the next one what it needs.
LEMMA StageNext == Shape /\ Stage /\ [Next]_vars => Stage'
<1> SUFFICES ASSUME Shape, Stage, [Next]_vars PROVE Stage'
  OBVIOUS
<1>1. ASSUME NEW w \in Writers, Step(w) PROVE Stage'
  <2>1. Apiece(w) /\ StageOf(w) /\ cand[w] \in Roots /\ setting' = setting
    BY <1>1, StepDoes DEF Common, Stage, Shape, Typed, Apiece
  <2>2. ASSUME Start(w) PROVE StageOf(w)'
    BY <2>1, <2>2, StartDoes, PlacesAssumption
       DEF Begins, Same, StageOf, Ensuring, Chosen, Library, Long
  <2>3. ASSUME Closed(w) PROVE StageOf(w)'
    BY <2>3, ClosedDoes, StageEnds
  <2>4. ASSUME Choose(w) PROVE StageOf(w)'
    <3>1. /\ pc[w] = "choose"
          /\ \/ setting.same /\ Tries(w, Home)
             \/ ~setting.busy /\ Tries(w, Shared)
             \/ pc'[w] = "end"
      BY <2>4, ChooseDoes
    <3> QED
      BY <2>1, <3>1, StageEnds, PlacesAssumption DEF StageOf, Ensuring, Chosen, Library, Tries
  <2>5. ASSUME Look(w) PROVE StageOf(w)'
    <3>1. pc[w] = "look" /\ Looks(w) /\ Chosen(w)
      BY <2>5, LookDoes DEF Chosen
    <3>2. CASE Passes(w)
      BY <2>1, <3>1, <3>2, StagePasses
    <3>3. CASE /\ cand[w] \in {Shared, Private} /\ Usable(cand[w]) /\ Library(w) /\ Same(w)
               /\ pc'[w] \in {"create", "check"}
      BY <2>1, <3>1, <3>3, PlacesAssumption DEF StageOf, Ensuring, Chosen, Library, Same, Usable
    <3>4. CASE /\ pc'[w] = "lock" /\ Same(w)
               /\ cand[w] \in {Shared, Private} => Usable(cand[w])
               /\ cand[w] \in {Home, Own} => Library(w) \/ Trusted(setting.homes[cand[w]])
      BY <2>1, <3>1, <3>4 DEF StageOf, Ensuring, Chosen, Library, Same, Usable
    <3> QED
      BY <3>1, <3>2, <3>3, <3>4 DEF Looks
  <2>6. ASSUME Create(w) PROVE StageOf(w)'
    <3>1. pc[w] = "create" /\ Chosen(w) /\ cand[w] \in {Shared, Private}
      BY <2>1, <2>6 DEF Create, StageOf, Chosen
    <3>2. MakesRoot(w)
      BY <2>6, <3>1, CreateDoes
    <3>3. CASE Passes(w)
      BY <2>1, <3>1, <3>3, StagePasses
    <3>4. CASE pc'[w] = "check" /\ Same(w)
      BY <2>1, <3>1, <3>4, PlacesAssumption DEF StageOf, Ensuring, Chosen, Library, Same, Usable
    <3> QED
      BY <3>2, <3>3, <3>4 DEF MakesRoot
  <2>7. ASSUME Check(w) PROVE StageOf(w)'
    <3>1. pc[w] = "check" /\ Chosen(w) /\ cand[w] \in {Shared, Private}
      BY <2>1, <2>7 DEF Check, StageOf, Chosen
    <3>2. Checks(w)
      BY <2>7, <3>1, CheckDoes
    <3>3. CASE Passes(w)
      BY <2>1, <3>1, <3>3, StagePasses
    <3>4. CASE pc'[w] = "lock" /\ Same(w)
      BY <2>1, <3>1, <3>4, PlacesAssumption DEF StageOf, Ensuring, Chosen, Library, Same, Usable
    <3> QED
      BY <3>2, <3>3, <3>4 DEF Checks
  <2>8. ASSUME NEW unsafe, Unfit(w, unsafe), Ensuring(w) PROVE StageOf(w)'
    <3>1. Passes(w) /\ (Library(w) => pc'[w] = "end")
      BY <2>8, UnfitDoes
    <3>2. ~Library(w) => Chosen(w)
      BY <2>1, <2>8 DEF StageOf, Chosen
    <3> QED
      BY <2>1, <3>1, <3>2, StageEnds, StagePasses
  <2>9. ASSUME EnsureStep(w) PROVE StageOf(w)'
    <3>1. pc[w] = "ensure" /\ Ensuring(w) /\ todo[w] \in Short \cup Long
      BY <2>1, <2>9 DEF EnsureStep, StageOf, Ensuring
    <3>2. Ensures(w)
      BY <2>9, <3>1, EnsureDoes
    <3>3. CASE \E unsafe : Unfit(w, unsafe)
      BY <2>8, <3>1, <3>3
    <3>4. CASE pc'[w] = "make" /\ Same(w)
      BY <2>1, <3>1, <3>4 DEF StageOf, Ensuring, Chosen, Library, Same, Usable
    <3>5. CASE /\ cand'[w] = cand[w] /\ tried'[w] = tried[w] /\ todo'[w] = Tail(todo[w])
               /\ pc'[w] = IF Len(todo[w]) # 1 THEN "ensure"
                           ELSE IF Library(w) /\ ~tried[w] THEN "choose" ELSE "lock"
      <4>1. /\ Len(todo[w]) # 1 /\ todo[w] \in Short => todo'[w] \in Short
            /\ Len(todo[w]) # 1 /\ todo[w] \in Long => todo'[w] \in Long
        BY <3>1, <3>5, Todos
      <4>2. CASE Len(todo[w]) # 1
        BY <2>1, <3>1, <3>5, <4>1, <4>2 DEF StageOf, Ensuring, Chosen, Library, Usable
      <4>3. CASE Len(todo[w]) = 1 /\ Library(w) /\ ~tried[w]
        <5>1. pc'[w] = "choose"
          BY <3>5, <4>3
        <5> QED
          BY <2>1, <3>1, <3>5, <4>3, <5>1, PlacesAssumption DEF StageOf, Ensuring, Chosen, Library
      <4>4. CASE Len(todo[w]) = 1 /\ ~(Library(w) /\ ~tried[w])
        <5>1. pc'[w] = "lock" /\ tried[w]
          BY <2>1, <3>1, <3>5, <4>4 DEF StageOf
        <5> QED
          BY <2>1, <3>1, <3>5, <5>1 DEF StageOf, Ensuring, Chosen, Library, Usable
      <4> QED
        BY <4>2, <4>3, <4>4
    <3> QED
      BY <3>2, <3>3, <3>4, <3>5 DEF Ensures
  <2>10. ASSUME MakeStep(w) PROVE StageOf(w)'
    <3>1. pc[w] = "make" /\ Ensuring(w) /\ todo[w] \in Short \cup Long
      BY <2>1, <2>10 DEF MakeStep, StageOf, Ensuring
    <3>2. Makes(w)
      BY <2>10, <3>1, MakeDoes
    <3>3. CASE Unfit(w, FALSE)
      BY <2>8, <3>1, <3>3
    <3>4. CASE pc'[w] = "ensure" /\ cand'[w] = cand[w] /\ todo'[w] = todo[w] /\ tried'[w] = tried[w]
      BY <2>1, <3>1, <3>4 DEF StageOf, Ensuring, Chosen, Library, Usable
    <3> QED
      BY <3>2, <3>3, <3>4 DEF Makes
  <2>11. ASSUME Lock(w) PROVE StageOf(w)'
    <3>1. pc[w] = "lock" /\ Locks(w)
      BY <2>11, LockDoes
    <3>2. CASE pc'[w] = "end"
      BY <3>2, StageEnds
    <3>3. CASE /\ pc'[w] = "ensure" /\ cand'[w] = cand[w] /\ tried'[w] = TRUE
               /\ todo'[w] = <<"root", "files", "info">>
      BY <2>1, <3>1, <3>3 DEF StageOf, Ensuring, Chosen, Library, Usable, Short
    <3> QED
      BY <3>1, <3>2, <3>3 DEF Locks
  <2>12. StageOf(w)'
    BY <1>1, <2>2, <2>3, <2>4, <2>5, <2>6, <2>7, <2>9, <2>10, <2>11 DEF Step
  <2> QED
    BY <2>1, <2>12, StageElsewhere DEF Stage
<1>2. ASSUME Others PROVE Stage'
  <2>1. UNCHANGED <<setting, pc, cand, todo, made, tried>>
    BY <1>2, OthersDo
  <2> QED
    BY <2>1 DEF Stage, StageOf, Ensuring, Chosen, Library, Usable
<1>3. CASE UNCHANGED vars
  BY <1>3 DEF vars, Stage, StageOf, Ensuring, Chosen, Library, Usable
<1> QED
  BY <1>1, <1>2, <1>3 DEF Next

-----------------------------------------------------------------------------
(* What stays as it is while only writers work on the volume.                *)

\* No writer takes away a reason to pass a place over.
LEMMA BlockedStays ==
  ASSUME Shape, NEW w \in Writers, Grows(w), setting' = setting, NEW r \in Roots, Blocked(r)
  PROVE  Blocked(r)'
<1>1. "root" \in Parts /\ "files" \in Parts /\ "info" \in Parts
  BY DEF Parts
<1>2. CASE ~Usable(r)
  BY <1>2 DEF Blocked, Usable
<1>3. CASE Foreign(r)
  BY <1>1, <1>3 DEF Blocked, Foreign, Grows
<1>4. CASE node[r]["root"] = "none" /\ ~Permitted(r, "root")
  <2>1. node'[r]["root"] = "none"
    BY <1>1, <1>4 DEF Grows
  <2>2. ~Permitted(r, "root")'
    BY <1>4 DEF Permitted
  <2> QED
    BY <2>1, <2>2 DEF Blocked
<1> QED
  BY <1>2, <1>3, <1>4 DEF Blocked

\* Nor the reasons for a choice.
LEMMA JustifiedStays ==
  ASSUME Shape, NEW w \in Writers, Grows(w), setting' = setting, NEW r \in Roots, Justified(r)
  PROVE  Justified(r)'
<1>1. Shared \in Roots /\ Private \in Roots /\ Home \in Roots /\ {"root", "files", "info"} \subseteq Parts
  BY DEF Roots, Parts
<1>2. Foreign(Home) => Foreign(Home)'
  BY <1>1 DEF Foreign, Grows
<1>3. (Blocked(Shared) => Blocked(Shared)') /\ (Blocked(Private) => Blocked(Private)')
  BY <1>1, BlockedStays
<1> QED
  BY <1>2, <1>3 DEF Justified

\* What is listed stays listed.
LEMMA ListedStays ==
  ASSUME Shape, NEW w \in Writers, Grows(w), setting' = setting, NEW r \in Roots, Listed(r)
  PROVE  Listed(r)'
<1>1. {"root", "files", "info"} \subseteq Parts
  BY DEF Parts
<1>2. \A p \in {"root", "files", "info"} : node'[r][p] = "ours"
  BY <1>1 DEF Listed, Grows
<1> QED
  BY <1>2 DEF Listed, Usable

\* Who has started and is apart from the others was so before.
LEMMA ApartBefore ==
  ASSUME Shape, NEW w \in Writers, Common(w), NEW u \in Writers, pc[u] # "start", Apart(u)'
  PROVE  Apart(u)
<1> SUFFICES ASSUME NEW v \in Writers \ {u}, pc[v] # "start" PROVE v \in before[u] \/ u \in before[v]
  BY DEF Apart
<1>1. pc'[v] # "start"
  BY DEF Common, Apiece
<1>2. v \in before'[u] \/ u \in before'[v]
  BY <1>1 DEF Apart
<1>3. before'[u] = before[u] /\ before'[v] = before[v]
  BY DEF Common, Apiece, Notes
<1> QED
  BY <1>2, <1>3

\* While one that is apart from the others works, nobody else does.
LEMMA ApartAlone ==
  ASSUME Shape, Order, NEW w \in Writers, Common(w),
         NEW u \in Writers, u # w, pc[u] \notin {"start", "end"}
  PROVE  ~Apart(u)'
<1> SUFFICES ASSUME Apart(u)' PROVE FALSE
  OBVIOUS
<1>1. w \in before'[u] \/ pc'[w] = "start" \/ u \in before'[w]
  BY DEF Apart
<1>2. pc[w] # "end" /\ pc'[w] # "start" /\ before'[u] = before[u]
  BY DEF Common, Apiece
<1>3. w \notin before[u]
  BY <1>2 DEF Order
<1>4. u \notin before'[w]
  BY DEF Common, Notes, Order
<1> QED
  BY <1>1, <1>2, <1>3, <1>4

\* A writer that was apart from the others after a step was so before it.
LEMMA CountsBefore ==
  ASSUME Shape, NEW w \in Writers, Common(w), NEW u \in Writers, pc[u] # "start", Counts(u)'
  PROVE  Counts(u)
  BY ApartBefore DEF Counts, Common, Apiece, Library

-----------------------------------------------------------------------------
(* What a writer has made, and why it is where it is.                        *)

\* What a writer has made or seen stays, whatever the others do.
LEMMA MadeElsewhere ==
  ASSUME Shape, Order, NEW w \in Writers, Common(w), NEW v \in Writers, v # w, StageOf(v), MadeOf(v)
  PROVE  MadeOf(v)'
<1>1. /\ pc'[v] = pc[v] /\ cand'[v] = cand[v] /\ todo'[v] = todo[v] /\ made'[v] = made[v]
      /\ changes' = changes /\ cand[v] \in Roots /\ "root" \in Parts /\ Grows(w)
  BY DEF Common, Apiece, Shape, Typed, Parts
<1>2. Ensuring(v) => Head(todo[v]) \in Parts
  BY Todos DEF StageOf
<1>3. pc[v] = "create" => ~Apart(v)'
  BY ApartAlone
<1>4. pc[v] = "ensure" => Ensuring(v)
  BY DEF Ensuring
<1>5. /\ node[cand[v]]["root"] = "ours" => node'[cand[v]]["root"] = "ours"
      /\ node[cand[v]]["root"] # "none" => node'[cand[v]]["root"] # "none"
      /\ \A d \in Parts : node[cand[v]][d] # "none" => node'[cand[v]][d] # "none"
  BY <1>1 DEF Grows
<1> QED
  BY <1>1, <1>2, <1>3, <1>4, <1>5 DEF MadeOf, Ensuring

\* A writer at another step has made nothing it relies on.
LEMMA MadeNothing ==
  ASSUME NEW w \in Writers, pc'[w] \notin {"ensure", "make", "check", "create"}
  PROVE  MadeOf(w)'
  BY DEF MadeOf, Ensuring

\* What a writer has made or seen is still there.
LEMMA MadeNext == Shape /\ Order /\ Stage /\ Made /\ [Next]_vars => Made'
<1> SUFFICES ASSUME Shape, Order, Stage, Made, [Next]_vars PROVE Made'
  OBVIOUS
<1>1. ASSUME NEW w \in Writers, Step(w) PROVE Made'
  <2>1. /\ Common(w) /\ StageOf(w) /\ MadeOf(w) /\ cand[w] \in Roots /\ changes' = changes
        /\ "root" \in Parts
    BY <1>1, StepDoes DEF Common, Stage, Made, Shape, Typed, Apiece, Parts
  <2>2. ASSUME Start(w) PROVE MadeOf(w)'
    <3>1. Begins(w)
      BY <2>2, StartDoes
    <3>2. CASE pc'[w] \in {"closed", "choose"}
      BY <3>2, MadeNothing
    <3>3. CASE pc'[w] = "ensure" /\ todo'[w] = <<"root", "files", "info", "state">> /\ ~made'[w]
      <4>1. Head(<<"root", "files", "info", "state">>) = "root"
        OBVIOUS
      <4> QED
        BY <3>3, <4>1 DEF MadeOf, Ensuring
    <3> QED
      BY <3>1, <3>2, <3>3 DEF Begins
  <2>3. ASSUME Closed(w) PROVE MadeOf(w)'
    BY <2>3, ClosedDoes, MadeNothing
  <2>4. ASSUME Choose(w) PROVE MadeOf(w)'
    BY <2>4, ChooseDoes, MadeNothing DEF Tries
  <2>5. ASSUME Look(w) PROVE MadeOf(w)'
    <3>1. Looks(w) /\ node' = node
      BY <2>5, LookDoes DEF Leaves
    <3>2. CASE pc'[w] \in {"end", "look", "lock"}
      BY <3>2, MadeNothing
    <3>3. CASE Same(w) /\ pc'[w] = IF node[cand[w]]["root"] = "none" THEN "create" ELSE "check"
      BY <3>1, <3>3 DEF Same, MadeOf, Ensuring
    <3> QED
      BY <3>1, <3>2, <3>3, PassesOn DEF Looks
  <2>6. ASSUME Create(w) PROVE MadeOf(w)'
    <3>1. MakesRoot(w)
      BY <2>1, <2>6, CreateDoes DEF Create, StageOf
    <3>2. CASE Sets(cand[w], "root") /\ pc'[w] = "check" /\ Same(w)
      BY <2>1, <3>2 DEF Sets, Same, MadeOf, Ensuring
    <3> QED
      BY <3>1, <3>2, MadeNothing DEF MakesRoot
  <2>7. ASSUME Check(w) PROVE MadeOf(w)'
    <3>1. Checks(w)
      BY <2>1, <2>7, CheckDoes DEF Check, StageOf
    <3> QED
      BY <3>1, MadeNothing DEF Checks
  <2>8. ASSUME NEW unsafe, Unfit(w, unsafe) PROVE MadeOf(w)'
    BY <2>8, UnfitDoes, PassesOn, MadeNothing
  <2>9. ASSUME EnsureStep(w) PROVE MadeOf(w)'
    <3>1. pc[w] = "ensure" /\ Ensuring(w) /\ todo[w] \in Short \cup Long
      BY <2>1, <2>9 DEF EnsureStep, StageOf, Ensuring
    <3>2. Ensures(w) /\ Head(todo[w]) \in Parts
      BY <2>9, <3>1, EnsureDoes, Todos
    <3>3. CASE \E unsafe : Unfit(w, unsafe)
      BY <2>8, <3>3
    <3>4. CASE node' = node /\ pc'[w] = "make" /\ Same(w)
      BY <2>1, <3>1, <3>4 DEF MadeOf, Ensuring, Same
    <3>5. CASE /\ Sets(cand[w], Head(todo[w])) /\ cand'[w] = cand[w] /\ made'[w] = FALSE
               /\ todo'[w] = Tail(todo[w])
               /\ pc'[w] = IF Len(todo[w]) # 1 THEN "ensure"
                           ELSE IF Library(w) /\ ~tried[w] THEN "choose" ELSE "lock"
      <4>1. CASE Len(todo[w]) # 1
        <5>1. changes = 0 => node'[cand[w]]["root"] = "ours"
          <6>1. CASE Head(todo[w]) = "root"
            BY <2>1, <3>5, <6>1 DEF Sets
          <6>2. CASE Head(todo[w]) # "root"
            BY <2>1, <3>1, <3>5, <6>2 DEF Sets, MadeOf
          <6> QED
            BY <6>1, <6>2
        <5> QED
          BY <2>1, <3>5, <4>1, <5>1 DEF MadeOf
      <4>2. CASE Len(todo[w]) = 1
        BY <3>5, <4>2, MadeNothing
      <4> QED
        BY <4>1, <4>2
    <3> QED
      BY <3>2, <3>3, <3>4, <3>5 DEF Ensures
  <2>10. ASSUME MakeStep(w) PROVE MadeOf(w)'
    <3>1. pc[w] = "make" /\ Ensuring(w) /\ todo[w] \in Short \cup Long
      BY <2>1, <2>10 DEF MakeStep, StageOf, Ensuring
    <3>2. Makes(w) /\ Head(todo[w]) \in Parts
      BY <2>10, <3>1, MakeDoes, Todos
    <3>3. CASE Unfit(w, FALSE)
      BY <2>8, <3>3
    <3>4. CASE /\ node' = node /\ node[cand[w]][Head(todo[w])] # "none" /\ pc'[w] = "ensure"
               /\ cand'[w] = cand[w] /\ todo'[w] = todo[w]
      BY <2>1, <3>1, <3>4 DEF MadeOf, Ensuring
    <3>5. CASE /\ Sets(cand[w], Head(todo[w])) /\ pc'[w] = "ensure"
               /\ cand'[w] = cand[w] /\ todo'[w] = todo[w]
      <4>1. node'[cand[w]][Head(todo[w])] = "ours"
        BY <2>1, <3>2, <3>5 DEF Sets
      <4>2. node[cand[w]]["root"] = "ours" => node'[cand[w]]["root"] = "ours"
        BY <2>1, <3>2, <3>5 DEF Sets
      <4> QED
        BY <2>1, <3>1, <3>5, <4>1, <4>2 DEF MadeOf, Ensuring
    <3> QED
      BY <3>2, <3>3, <3>4, <3>5 DEF Makes
  <2>11. ASSUME Lock(w) PROVE MadeOf(w)'
    <3>1. Locks(w)
      BY <2>11, LockDoes
    <3> QED
      BY <3>1, MadeNothing DEF Locks, MadeOf, Ensuring
  <2>12. MadeOf(w)'
    BY <1>1, <2>2, <2>3, <2>4, <2>5, <2>6, <2>7, <2>9, <2>10, <2>11 DEF Step
  <2> QED
    BY <2>1, <2>12, MadeElsewhere DEF Made, Stage
<1>2. ASSUME Others PROVE Made'
  <2>1. changes' # 0
    BY <1>2, OthersDo, SettingsAssumption DEF Shape
  <2> QED
    BY <2>1 DEF Made, MadeOf
<1>3. CASE UNCHANGED vars
  BY <1>3 DEF vars, Made, MadeOf, Ensuring, Apart
<1> QED
  BY <1>1, <1>2, <1>3 DEF Next

-----------------------------------------------------------------------------
(* Why a place is passed over.                                               *)

\* What is passed over was blocked, and stays so.
LEMMA PassJustified ==
  ASSUME Shape, NEW w \in Writers, Common(w), Passes(w), Justified(cand[w]),
         ~setting.same /\ cand[w] \in {Shared, Private} => Blocked(cand[w]),
         cand[w] = Home /\ Tries(w, Own) => ~Trusted(setting.homes[Home]) \/ Foreign(Home)
  PROVE  pc'[w] = "end" \/ \E r \in Roots : cand'[w] = r /\ Justified(r)'
<1>1. Shared \in Roots /\ Private \in Roots /\ Home \in Roots /\ Grows(w) /\ setting' = setting
  BY DEF Roots, Common, Apiece
<1>2. CASE cand[w] = Shared /\ Tries(w, Private)
  <2>1. Justified(Private)
    BY <1>2, PlacesAssumption DEF Justified
  <2> QED
    BY <1>1, <1>2, <2>1, JustifiedStays DEF Tries
<1>3. CASE cand[w] = Private /\ Tries(w, Home)
  <2>1. Justified(Home)
    BY <1>3, PlacesAssumption DEF Justified
  <2> QED
    BY <1>1, <1>3, <2>1, JustifiedStays DEF Tries
<1>4. CASE cand[w] = Home /\ Tries(w, Own)
  <2>1. Own \in Roots /\ Justified(Own)
    BY <1>4, PlacesAssumption DEF Justified, Roots
  <2> QED
    BY <1>1, <1>4, <2>1, JustifiedStays DEF Tries
<1> QED
  BY <1>2, <1>3, <1>4 DEF Passes

\* A writer that goes on at its place keeps its reasons.
LEMMA StayJustified ==
  ASSUME Shape, NEW w \in Writers, Common(w), cand'[w] = cand[w], Justified(cand[w])
  PROVE  \E r \in Roots : cand'[w] = r /\ Justified(r)'
<1>1. cand[w] \in Roots /\ Grows(w) /\ setting' = setting
  BY DEF Common, Apiece, Shape, Typed
<1> QED
  BY <1>1, JustifiedStays

\* A writer that prepares a place gives it up only for what others have there, or cannot make it.
LEMMA UnfitJustified ==
  ASSUME Shape, NEW w \in Writers, Common(w), Justified(cand[w]), NEW unsafe, Unfit(w, unsafe),
         Foreign(cand[w]) \/ (~unsafe /\ Blocked(cand[w]))
  PROVE  pc'[w] = "end" \/ \E r \in Roots : cand'[w] = r /\ Justified(r)'
<1>1. Passes(w) /\ (Tries(w, Own) /\ pc'[w] # "end" /\ cand[w] = Home => unsafe)
  BY UnfitDoes
<1>2. Tries(w, Own) => pc'[w] # "end"
  BY DEF Tries
<1> QED
  BY <1>1, <1>2, PassJustified DEF Blocked

\* A place is passed over for a reason, and the reason stays true.
LEMMA ReasonsNext == Shape /\ Order /\ Stage /\ Made /\ Reasons /\ [Next]_vars => Reasons'
<1> SUFFICES ASSUME Shape, Order, Stage, Made, Reasons, [Next]_vars PROVE Reasons'
  OBVIOUS
<1>1. ASSUME NEW w \in Writers, Step(w) PROVE Reasons'
  <2>1. /\ Common(w) /\ StageOf(w) /\ MadeOf(w) /\ cand[w] \in Roots /\ setting' = setting
        /\ changes' = changes /\ Grows(w)
    BY <1>1, StepDoes DEF Common, Stage, Made, Shape, Typed, Apiece
  <2> DEFINE Fine == pc'[w] = "end" \/ \E r \in Roots : cand'[w] = r /\ Justified(r)'
  <2>2. ASSUME NEW v \in Writers, v # w, Counts(v)', Chosen(v)'
        PROVE  \E r \in Roots : cand'[v] = r /\ Justified(r)'
    <3>1. pc'[v] = pc[v] /\ cand'[v] = cand[v] /\ tried'[v] = tried[v]
      BY <2>1, <2>2 DEF Common, Apiece
    <3>2. Chosen(v) /\ pc[v] # "start" /\ cand[v] \in Roots
      BY <2>2, <3>1 DEF Chosen, Ensuring, Shape, Typed
    <3>3. Justified(cand[v])
      BY <2>1, <2>2, <3>2, CountsBefore DEF Reasons
    <3> QED
      BY <2>1, <3>1, <3>2, <3>3, JustifiedStays
  <2>3. ASSUME Counts(w)', Chosen(w)' PROVE Fine
    <3>1. pc[w] # "start"
      <4>1. ASSUME Start(w) PROVE FALSE
        BY <2>1, <2>3, <4>1, StartDoes DEF Begins, Chosen, Ensuring, StageOf
      <4> QED
        BY <1>1, <4>1 DEF Step, Closed, EnsureStep, MakeStep, Choose, Look, Create, Check, Lock
    <3>2. Counts(w) /\ changes = 0 /\ (Library(w) => Apart(w))
      BY <2>1, <2>3, <3>1, CountsBefore DEF Counts
    <3>3. ASSUME Closed(w) PROVE Fine
      BY <3>3, ClosedDoes
    <3>4. ASSUME Choose(w) PROVE Fine
      <4>1. CASE setting.same /\ Tries(w, Home)
        <5>1. Home \in Roots /\ Justified(Home)
          BY <4>1, PlacesAssumption DEF Justified, Roots
        <5> QED
          BY <2>1, <4>1, <5>1, JustifiedStays DEF Tries
      <4>2. CASE ~setting.same /\ Tries(w, Shared)
        <5>1. Shared \in Roots /\ Justified(Shared)
          BY <4>2, PlacesAssumption DEF Justified, Roots
        <5> QED
          BY <2>1, <4>2, <5>1, JustifiedStays DEF Tries
      <4> QED
        BY <3>4, <4>1, <4>2, ChooseDoes
    <3>5. ASSUME Look(w) PROVE Fine
      <4>1. pc[w] = "look" /\ Looks(w)
        BY <3>5, LookDoes
      <4>2. Justified(cand[w])
        BY <3>2, <4>1 DEF Reasons, Chosen
      <4>3. CASE Same(w)
        BY <2>1, <4>2, <4>3, StayJustified DEF Same
      <4>4. CASE cand[w] \in {Shared, Private} /\ ~Usable(cand[w]) /\ Passes(w)
        <5>1. Blocked(cand[w]) /\ cand[w] # Home
          BY <4>4, PlacesAssumption DEF Blocked
        <5> QED
          BY <2>1, <4>2, <4>4, <5>1, PassJustified
      <4>5. CASE cand[w] \in {Home, Own} /\ ~Trusted(setting.homes[cand[w]]) /\ Passes(w)
        <5>1. cand[w] \notin {Shared, Private}
          BY <4>5, PlacesAssumption
        <5> QED
          BY <2>1, <4>2, <4>5, <5>1, PassJustified
      <4> QED
        BY <4>1, <4>3, <4>4, <4>5 DEF Looks
    <3>6. ASSUME Create(w) PROVE Fine
      <4>1. pc[w] = "create" /\ Library(w) /\ cand[w] \in {Shared, Private}
        BY <2>1, <3>6 DEF Create, StageOf
      <4>2. Justified(cand[w]) /\ MakesRoot(w)
        BY <3>2, <3>6, <4>1, CreateDoes DEF Reasons, Chosen
      <4>3. CASE Same(w)
        BY <2>1, <4>2, <4>3, StayJustified DEF Same
      <4>4. CASE ~(node[cand[w]]["root"] = "none" /\ Permitted(cand[w], "root")) /\ Passes(w)
        <5>1. node[cand[w]]["root"] = "none"
          BY <2>1, <3>2, <4>1 DEF MadeOf
        <5>2. Blocked(cand[w]) /\ cand[w] # Home
          BY <4>1, <4>4, <5>1, PlacesAssumption DEF Blocked
        <5> QED
          BY <2>1, <4>2, <4>4, <5>2, PassJustified
      <4> QED
        BY <4>2, <4>3, <4>4 DEF MakesRoot
    <3>7. ASSUME Check(w) PROVE Fine
      <4>1. pc[w] = "check" /\ cand[w] \in {Shared, Private}
        BY <2>1, <3>7 DEF Check, StageOf
      <4>2. Justified(cand[w]) /\ Checks(w)
        BY <3>2, <3>7, <4>1, CheckDoes DEF Reasons, Chosen
      <4>3. CASE Same(w)
        BY <2>1, <4>2, <4>3, StayJustified DEF Same
      <4>4. CASE node[cand[w]]["root"] \in {"none", "foreign", "link"} /\ Passes(w)
        <5>1. node[cand[w]]["root"] # "none"
          BY <2>1, <3>2, <4>1 DEF MadeOf
        <5>2. Blocked(cand[w]) /\ cand[w] # Home
          BY <4>1, <4>4, <5>1, PlacesAssumption DEF Blocked, Foreign
        <5> QED
          BY <2>1, <4>2, <4>4, <5>2, PassJustified
      <4> QED
        BY <4>2, <4>3, <4>4 DEF Checks
    <3>8. ASSUME Ensuring(w), tried[w] PROVE todo[w] \in Short /\ Justified(cand[w])
      BY <2>1, <3>2, <3>8 DEF StageOf, Reasons, Chosen
    <3>9. ASSUME EnsureStep(w) PROVE Fine
      <4>1. pc[w] = "ensure" /\ Ensuring(w) /\ todo[w] \in Short \cup Long
        BY <2>1, <3>9 DEF EnsureStep, StageOf, Ensuring
      <4>2. Ensures(w)
        BY <3>9, <4>1, EnsureDoes
      <4>3. CASE tried[w]
        <5>1. /\ Justified(cand[w]) /\ Head(todo[w]) \in {"root", "files", "info"}
          BY <3>8, <4>1, <4>3, Todos
        <5>2. CASE cand'[w] = cand[w]
          BY <2>1, <5>1, <5>2, StayJustified
        <5>3. CASE node[cand[w]][Head(todo[w])] \in {"foreign", "link"} /\ Unfit(w, TRUE)
          <6>1. Foreign(cand[w])
            BY <5>1, <5>3 DEF Foreign
          <6> QED
            BY <2>1, <5>1, <5>3, <6>1, UnfitJustified
        <5>4. CASE /\ node[cand[w]][Head(todo[w])] = "none" /\ (Library(w) \/ made[w])
                   /\ Unfit(w, FALSE)
          <6>1. ~made[w]
            BY <2>1, <3>2, <4>1, <5>4 DEF MadeOf
          <6> QED
            BY <5>4, <6>1, UnfitDoes
        <5> QED
          BY <4>2, <5>2, <5>3, <5>4 DEF Ensures, Same
      <4>4. CASE ~tried[w]
        <5>1. Library(w)
          BY <2>1, <4>1, <4>4 DEF StageOf
        <5>2. ASSUME NEW unsafe, Unfit(w, unsafe) PROVE Fine
          BY <5>1, <5>2, UnfitDoes
        <5>3. CASE tried'[w] = tried[w] /\ pc'[w] \in {"ensure", "make", "choose"}
          BY <2>3, <4>4, <5>3 DEF Chosen, Ensuring
        <5> QED
          BY <4>2, <4>4, <5>1, <5>2, <5>3 DEF Ensures, Same
      <4> QED
        BY <4>3, <4>4
    <3>10. ASSUME MakeStep(w) PROVE Fine
      <4>1. pc[w] = "make" /\ Ensuring(w) /\ todo[w] \in Short \cup Long
        BY <2>1, <3>10 DEF MakeStep, StageOf, Ensuring
      <4>2. Makes(w)
        BY <3>10, <4>1, MakeDoes
      <4>3. CASE tried[w]
        <5>1. Justified(cand[w])
          BY <3>8, <4>1, <4>3
        <5>2. CASE cand'[w] = cand[w]
          BY <2>1, <5>1, <5>2, StayJustified
        <5>3. CASE /\ node[cand[w]][Head(todo[w])] = "none"
                   /\ ~Permitted(cand[w], Head(todo[w])) /\ Unfit(w, FALSE)
          <6>1. Head(todo[w]) = "root"
            BY <2>1, <3>2, <4>1, <5>3 DEF MadeOf, Permitted
          <6>2. Blocked(cand[w])
            BY <5>3, <6>1 DEF Blocked
          <6> QED
            BY <2>1, <5>1, <5>3, <6>2, UnfitJustified
        <5> QED
          BY <4>2, <5>2, <5>3 DEF Makes
      <4>4. CASE ~tried[w]
        <5>1. Library(w)
          BY <2>1, <4>1, <4>4 DEF StageOf
        <5>2. CASE Unfit(w, FALSE)
          BY <5>1, <5>2, UnfitDoes
        <5>3. CASE tried'[w] = tried[w] /\ pc'[w] = "ensure"
          BY <2>3, <4>4, <5>3 DEF Chosen, Ensuring
        <5> QED
          BY <4>2, <5>2, <5>3 DEF Makes
      <4> QED
        BY <4>3, <4>4
    <3>11. ASSUME Lock(w) PROVE Fine
      <4>1. pc[w] = "lock" /\ Locks(w)
        BY <3>11, LockDoes
      <4>2. Justified(cand[w])
        BY <3>2, <4>1 DEF Reasons, Chosen
      <4> QED
        BY <2>1, <4>1, <4>2, StayJustified DEF Locks
    <3> QED
      BY <1>1, <3>1, <3>3, <3>4, <3>5, <3>6, <3>7, <3>9, <3>10, <3>11 DEF Step, Start
  <2> HIDE DEF Fine
  <2>4. ASSUME NEW v \in Writers, Counts(v)', Chosen(v)' PROVE Justified(cand[v])'
    <3>1. pc'[v] # "end"
      BY <2>4 DEF Chosen, Ensuring
    <3>2. PICK r \in Roots : cand'[v] = r /\ Justified(r)'
      BY <2>2, <2>3, <2>4, <3>1 DEF Fine
    <3> QED
      BY <3>2
  <2> QED
    BY <2>4 DEF Reasons
<1>2. ASSUME Others PROVE Reasons'
  <2>1. changes' # 0
    BY <1>2, OthersDo, SettingsAssumption DEF Shape
  <2> QED
    BY <2>1 DEF Reasons, Counts
<1>3. CASE UNCHANGED vars
  BY <1>3 DEF vars, Reasons, Counts, Chosen, Ensuring, Library, Apart, Justified, Blocked, Foreign,
       Usable, Permitted
<1> QED
  BY <1>1, <1>2, <1>3 DEF Next

-----------------------------------------------------------------------------
(* What is published.                                                        *)

\* A root that can be locked, and may be used, is listed.
LEMMA LockableListed ==
  ASSUME NEW r \in Roots, Lockable(r), r \in {Shared, Private} => Usable(r)
  PROVE  Listed(r)
  BY DEF Lockable, Listed

\* A file is published in a fit place, and the places before it were passed over for a reason.
LEMMA ResultsNext == Shape /\ Order /\ Stage /\ Reasons /\ Results /\ [Next]_vars => Results'
<1> SUFFICES ASSUME Shape, Order, Stage, Reasons, Results, [Next]_vars PROVE Results'
  OBVIOUS
<1>1. ASSUME NEW w \in Writers, Step(w) PROVE Results'
  <2>1. /\ Common(w) /\ StageOf(w) /\ cand[w] \in Roots /\ setting' = setting
        /\ changes' = changes /\ Grows(w)
    BY <1>1, StepDoes DEF Common, Stage, Shape, Typed, Apiece
  <2>2. ASSUME NEW e \in published'
        PROVE  /\ e.root \in Roots /\ e.writer \in Writers
               /\ e.at = changes => Listed(e.root)
               /\ e.root = Home => Trusted(setting.homes[Home])
               /\ Counts(e.writer)' => Justified(e.root)
    <3>1. CASE e \in published
      <4>1. e.root \in Roots /\ e.writer \in Writers /\ pc[e.writer] # "start"
        BY <3>1 DEF Shape, Order
      <4>2. Counts(e.writer)' => Counts(e.writer)
        BY <2>1, <4>1, CountsBefore
      <4> QED
        BY <3>1, <4>1, <4>2 DEF Results
    <3>2. CASE e \notin published
      <4>1. pc[w] = "lock" /\ Lockable(cand[w]) /\ e.writer = w /\ e.root = cand[w]
        BY <2>1, <2>2, <3>2 DEF Common, Records
      <4>2. /\ cand[w] \in {Shared, Private} => Usable(cand[w])
            /\ cand[w] = Home => Trusted(setting.homes[Home])
        BY <2>1, <4>1 DEF StageOf
      <4>3. Listed(cand[w])
        BY <2>1, <4>1, <4>2, LockableListed
      <4>4. Counts(w)' => Justified(cand[w])
        BY <2>1, <4>1, CountsBefore DEF Reasons, Chosen
      <4> QED
        BY <2>1, <4>1, <4>2, <4>3, <4>4
    <3> QED
      BY <3>1, <3>2
  <2>3. ASSUME NEW e \in published'
        PROVE  /\ e.at = changes' => Listed(e.root)'
               /\ e.root = Home => Trusted(setting.homes[Home])'
               /\ Counts(e.writer)' => Justified(e.root)'
    BY <2>1, <2>2, <2>3, ListedStays, JustifiedStays DEF Trusted
  <2> QED
    BY <2>3 DEF Results
<1>2. ASSUME Others PROVE Results'
  <2>1. /\ changes' = changes + 1 /\ changes \in Nat /\ published' = published /\ setting' = setting
    BY <1>2, OthersDo, SettingsAssumption DEF Shape
  <2>2. \A e \in published : e.at \in Nat /\ e.at <= changes
    BY DEF Shape, Order
  <2>3. ~(changes' = 0) /\ \A e \in published : e.at # changes'
    BY <2>1, <2>2
  <2> QED
    BY <2>1, <2>3 DEF Results, Counts, Trusted
<1>3. CASE UNCHANGED vars
  BY <1>3 DEF vars, Results, Listed, Counts, Library, Apart, Justified, Blocked, Foreign,
       Usable, Permitted
<1> QED
  BY <1>1, <1>2, <1>3 DEF Next

-----------------------------------------------------------------------------
(* A delete that ends busy.                                                  *)

\* A delete on a busy volume leaves nothing.
LEMMA NoTraceNext == Shape /\ Stage /\ NoTrace /\ [Next]_vars => NoTrace'
<1> SUFFICES ASSUME Shape, Stage, NoTrace, [Next]_vars PROVE NoTrace'
  OBVIOUS
<1>1. ASSUME NEW w \in Writers, Step(w) PROVE NoTrace'
  <2>1. /\ StageOf(w) /\ setting' = setting /\ changes' = changes /\ Grows(w)
        /\ node' \in [Roots -> [Parts -> States]] /\ node \in [Roots -> [Parts -> States]]
    BY <1>1, StepDoes DEF Common, Stage, Shape, Apiece
  <2>2. ASSUME setting.busy, ~setting.same, NEW r \in {Shared, Private}
        PROVE  node'[r] = node[r]
    <3>1. ~Chosen(w)
      BY <2>1, <2>2 DEF StageOf
    <3>2. pc[w] \in {"create", "check", "ensure", "make", "lock"} => cand[w] = Home
      BY <2>1, <3>1 DEF StageOf, Chosen, Ensuring
    <3>3. r \in Roots /\ r # Home
      BY PlacesAssumption DEF Roots
    <3>4. \A d \in Parts : node'[r][d] = node[r][d]
      BY <2>1, <3>2, <3>3 DEF Grows
    <3> QED
      BY <2>1, <3>3, <3>4
  <2> QED
    BY <2>1, <2>2 DEF NoTrace
<1>2. ASSUME Others PROVE NoTrace'
  <2>1. changes' # 0
    BY <1>2, OthersDo, SettingsAssumption DEF Shape
  <2> QED
    BY <2>1 DEF NoTrace
<1>3. CASE UNCHANGED vars
  BY <1>3 DEF vars, NoTrace
<1> QED
  BY <1>1, <1>2, <1>3 DEF Next

-----------------------------------------------------------------------------
(* The theorems.                                                             *)

\* The settings satisfy the invariant.
LEMMA InvInit == Init => IInv
<1> SUFFICES ASSUME Init PROVE IInv
  OBVIOUS
<1>1. /\ setting \in Settings /\ setting.changes \in Nat
      /\ setting.nodes \in [Roots -> [Parts -> States]] /\ node = setting.nodes
  BY SettingsAssumption DEF Init, States
<1>2. Shape
  BY <1>1 DEF Init, Shape, Typed, Steps, Roots
<1>3. \A w \in Writers : pc[w] \in {"start", "end"} /\ ~tried[w] /\ cand[w] = Home /\ before[w] = {}
  BY DEF Init
<1>4. published = {}
  BY DEF Init
<1>5. Order
  BY <1>3, <1>4 DEF Order
<1>6. Stage
  BY <1>3 DEF Stage, StageOf, Ensuring, Chosen
<1>7. Made
  BY <1>3 DEF Made, MadeOf, Ensuring
<1>8. Reasons
  BY <1>3 DEF Reasons, Chosen, Ensuring
<1>9. Results
  BY <1>4 DEF Results
<1>10. NoTrace
  BY <1>1 DEF NoTrace
<1> QED
  BY <1>2, <1>5, <1>6, <1>7, <1>8, <1>9, <1>10 DEF IInv

\* Every step keeps the invariant.
LEMMA InvNext == IInv /\ [Next]_vars => IInv'
<1> SUFFICES ASSUME IInv, [Next]_vars PROVE IInv'
  OBVIOUS
<1> QED
  BY ShapeNext, OrderNext, StageNext, MadeNext, ReasonsNext, ResultsNext, NoTraceNext DEF IInv

\* For any number of writers and any settings, the invariant of the choice of roots: what is
\* made stays, and a place is passed over only for a reason that stays true.
THEOREM Invariant == Spec => []IInv
<1>1. Init => IInv
  BY InvInit
<1>2. IInv /\ [Next]_vars => IInv'
  BY InvNext
<1> QED
  BY <1>1, <1>2, PTL DEF Spec

\* The types, from the invariant.
LEMMA InvType == IInv => TypeOK
<1> SUFFICES ASSUME IInv PROVE TypeOK
  OBVIOUS
<1>1. Shape /\ Stage
  BY DEF IInv
<1>2. ASSUME NEW w \in Writers
      PROVE  /\ pc[w] \in Steps
             /\ pc[w] \in {"ensure", "make"} => todo[w] # <<>>
             /\ pc[w] \in {"lock", "ensure", "make"} /\ cand[w] = Shared => setting.shared = "sticky"
  <2>1. pc[w] \in Steps /\ StageOf(w)
    BY <1>1 DEF Shape, Typed, Stage
  <2>2. pc[w] \in {"ensure", "make"} => todo[w] # <<>>
    BY <2>1, Todos DEF StageOf, Ensuring
  <2>3. pc[w] \in {"lock", "ensure", "make"} /\ cand[w] = Shared => setting.shared = "sticky"
    BY <2>1 DEF StageOf, Usable
  <2> QED
    BY <2>1, <2>2, <2>3
<1> QED
  BY <1>1, <1>2 DEF TypeOK, Shape, Steps

\* A place that can be locked was not passed over.
LEMMA NotBlocked ==
  ASSUME NEW r \in Roots, Listed(r), r \in {Shared, Private} => Usable(r)
  PROVE  ~Foreign(r) /\ (r \in {Shared, Private} => ~Blocked(r))
<1>1. \A p \in {"root", "files", "info"} : node[r][p] = "ours"
  BY DEF Listed
<1>2. ~Foreign(r) /\ node[r]["root"] # "none"
  BY <1>1 DEF Foreign
<1> QED
  BY <1>2 DEF Blocked

\* Two files of writers apart from the others go to one place: every place before that of the
\* one was blocked, and so was every place before that of the other.
LEMMA InvAgree == IInv => Agree
<1> SUFFICES ASSUME IInv, NEW e \in published, NEW f \in published,
                    changes = 0, Apart(e.writer), Apart(f.writer)
             PROVE  e.root = f.root
  BY DEF Agree
<1>1. ASSUME NEW g \in published, Apart(g.writer)
      PROVE  /\ g.root \in Roots /\ Listed(g.root) /\ Justified(g.root)
             /\ g.root = Home => Trusted(setting.homes[Home])
             /\ ~Foreign(g.root) /\ (g.root \in {Shared, Private} => ~Blocked(g.root))
  <2>1. g.root \in Roots /\ g.writer \in Writers /\ g.at \in Nat /\ g.at <= changes
    BY DEF IInv, Shape, Order
  <2>2. g.at = changes /\ Counts(g.writer)
    BY <2>1, <1>1 DEF Counts
  <2>3. Listed(g.root) /\ Justified(g.root) /\ (g.root = Home => Trusted(setting.homes[Home]))
    BY <2>2 DEF IInv, Results
  <2> QED
    BY <2>1, <2>3, NotBlocked DEF Listed
<1>2. ASSUME NEW r \in Roots, NEW s \in Roots, r # s, Justified(r), Justified(s),
             r \in {Shared, Private} => ~Blocked(r), s \in {Shared, Private} => ~Blocked(s),
             ~Foreign(r), ~Foreign(s),
             Home \in {r, s} => Trusted(setting.homes[Home])
      PROVE  FALSE
  BY <1>2, PlacesAssumption DEF Justified, Roots
<1>3. /\ e.root \in Roots /\ Justified(e.root) /\ ~Foreign(e.root)
      /\ e.root \in {Shared, Private} => ~Blocked(e.root)
      /\ e.root = Home => Trusted(setting.homes[Home])
  BY <1>1
<1>4. /\ f.root \in Roots /\ Justified(f.root) /\ ~Foreign(f.root)
      /\ f.root \in {Shared, Private} => ~Blocked(f.root)
      /\ f.root = Home => Trusted(setting.homes[Home])
  BY <1>1
<1> QED
  BY <1>2, <1>3, <1>4

\* The library stays on the file's volume: a place there that can be locked was not blocked.
LEMMA InvStays == IInv => PreloadStays
<1> SUFFICES ASSUME IInv, NEW w \in Writers, setting.kinds[w] = "preload", NEW e \in published,
                    e.writer = w, changes = 0, ~setting.same,
                    NEW r \in {Shared, Private}, Holds(r), Lockable(r)
             PROVE  e.root \in {Shared, Private}
  BY DEF PreloadStays, Stays
<1>1. Counts(w)
  BY DEF Counts, Library
<1>2. Justified(e.root) /\ e.root \in Roots
  BY <1>1 DEF IInv, Results, Shape
<1>3. r \in Roots /\ ~Blocked(r)
  BY LockableListed, NotBlocked DEF Holds, Roots
<1>4. CASE r = Private
  BY <1>2, <1>3, <1>4 DEF Justified, Roots
<1>5. CASE r = Shared
  BY <1>2, <1>3, <1>5 DEF Justified, Roots
<1> QED
  BY <1>4, <1>5

\* For any number of writers, settings and changes by others: both implementations put a file
\* where every reader looks; writers whose time was their own choose the same place; the preloaded
\* library stays on the file's volume when that can hold a trash; a busy delete leaves no trace.
THEOREM Placed == Spec => []PlacedFindably
<1>1. IInv => PlacedFindably
  <2>1. IInv => Findable
    BY DEF IInv, Results, Findable
  <2>2. IInv => NoTrace
    BY DEF IInv
  <2> QED
    BY <2>1, <2>2, InvType, InvAgree, InvStays DEF PlacedFindably
<1> QED
  BY <1>1, Invariant, PTL
=============================================================================
