---------------------------- MODULE UpkeepProofs ----------------------------
(* The upkeep of a trash root, for any number of processes and entries:      *)
(* retention (AutoPurge) begins when it is due, takes the entries it has     *)
(* listed and stops at its limits, trash fsck (Fsck) strands no data, purges *)
(* none that was recovered, and exits with 0 on a sound root, and a removal  *)
(* (TreeRemoval) takes nothing outside its tree, answers for what it leaves, *)
(* and removes everything that it can.                                       *)
EXTENDS AutoPurge, Sequences, FiniteSetTheorems, TLAPS

-----------------------------------------------------------------------------
(* Retention.  What entries occupy together.                                 *)

\* One entry occupies its size.
LEMMA OneSize ==
  ASSUME NEW s \in Slots
  PROVE  IsFiniteSet({s} \X (1..SizeOf[s])) /\ Cardinality({s} \X (1..SizeOf[s])) = SizeOf[s]
<1>1. SizeOf[s] \in Nat
  BY PurgeConstants
<1>2. IsFiniteSet(1..SizeOf[s]) /\ Cardinality(1..SizeOf[s]) = SizeOf[s]
  BY <1>1, FS_Interval, SMTT(40)
<1>3. IsFiniteSet({s}) /\ Cardinality({s}) = 1
  BY FS_Singleton
<1>4. /\ IsFiniteSet({s} \X (1..SizeOf[s]))
      /\ Cardinality({s} \X (1..SizeOf[s])) = Cardinality({s}) * Cardinality(1..SizeOf[s])
  BY <1>2, <1>3, FS_Product
<1> QED
  BY <1>1, <1>2, <1>3, <1>4

\* A directory occupies finitely many bytes.
LEMMA BytesFinite ==
  ASSUME NEW ids \in SUBSET Slots
  PROVE  IsFiniteSet(Bytes(ids)) /\ Cardinality(Bytes(ids)) \in Nat
<1> DEFINE parts == {{s} \X (1..SizeOf[s]) : s \in ids}
           f == [s \in ids |-> {s} \X (1..SizeOf[s])]
<1>1. IsFiniteSet(ids)
  BY PurgeConstants, FS_Subset
<1>2. f \in Surjection(ids, parts)
  BY DEF Surjection
<1>3. IsFiniteSet(parts)
  <2> HIDE DEF parts, f
  <2> QED
    BY <1>1, <1>2, FS_Surjection
<1>4. \A t \in parts : IsFiniteSet(t)
  BY OneSize
<1>5. IsFiniteSet(UNION parts)
  <2> HIDE DEF parts
  <2> QED
    BY <1>3, <1>4, FS_UNION
<1>6. IsFiniteSet(Bytes(ids))
  BY <1>5 DEF Bytes
<1> QED
  BY <1>6, FS_CardinalityType

\* Fewer entries occupy less.
LEMMA BytesGrow ==
  ASSUME NEW ids \in SUBSET Slots, NEW some \in SUBSET ids
  PROVE  Cardinality(Bytes(some)) <= Cardinality(Bytes(ids))
<1>1. Bytes(some) \subseteq Bytes(ids)
  BY DEF Bytes
<1> QED
  BY <1>1, BytesFinite, FS_Subset

\* Without one entry it is its size less.
LEMMA BytesLess ==
  ASSUME NEW ids \in SUBSET Slots, NEW s \in ids
  PROVE  Cardinality(Bytes(ids)) = Cardinality(Bytes(ids \ {s})) + SizeOf[s]
<1> DEFINE rest == Bytes(ids \ {s})
           own == {s} \X (1..SizeOf[s])
<1>1. Bytes(ids) = rest \cup own
  <2>1. \A b : b \in Bytes(ids) => b \in rest \/ b \in own
    BY DEF Bytes
  <2>2. \A b : b \in rest \/ b \in own => b \in Bytes(ids)
    BY DEF Bytes
  <2> HIDE DEF rest, own
  <2> QED
    BY <2>1, <2>2
<1>2. rest \cap own = {}
  BY DEF Bytes
<1>3. IsFiniteSet(rest) /\ Cardinality(rest) \in Nat
  BY BytesFinite
<1>4. IsFiniteSet(own) /\ Cardinality(own) = SizeOf[s] /\ SizeOf[s] \in Nat
  BY OneSize, PurgeConstants
<1> HIDE DEF rest, own
<1>5. Cardinality(rest \cup own) = Cardinality(rest) + Cardinality(own) - Cardinality(rest \cap own)
  BY <1>3, <1>4, FS_Union
<1>6. Cardinality(rest \cap own) = 0
  BY <1>2, FS_EmptySet
<1>7. Cardinality(Bytes(ids)) = Cardinality(rest) + SizeOf[s]
  BY <1>1, <1>3, <1>4, <1>5, <1>6
<1> QED
  BY <1>7 DEF rest

-----------------------------------------------------------------------------
(* The inductive invariant.                                                  *)

Store ==
  /\ limits \in Limits /\ stuck \in StuckSets /\ pressed \in BOOLEAN
  /\ slot \in [Slots -> Entry \cup {Gone}] /\ gens \in [Slots -> 0..MaxGen]
Clocks ==
  /\ markAge \in 0..Interval /\ sinceRun \in 0..Interval /\ notDue \in [Procs -> 0..Interval]
  /\ due \in [Procs -> BOOLEAN] /\ crashes \in 0..MaxCrashes
Turns ==
  /\ running \subseteq Procs /\ pc \in [Procs -> Steps]
  /\ \A p \in Procs : pc[p] \in Run \cup {"recheck"} <=> p \in running
Work ==
  /\ snap \in [Procs -> SUBSET Line] /\ todo \in [Procs -> SUBSET Line]
  /\ excess \in [Procs -> Nat] /\ quota \in [Procs -> Nat] /\ userFreed \in [Procs -> Nat]
  /\ \A p \in Procs : IsFiniteSet(snap[p])

\* One run at a time, and the marker is as old as the last one.
Alone == \A p, q \in running : p = q
Marked == sinceRun = markAge
\* No generation of an ID comes back.
Used == \A s \in Slots : slot[s].gen <= gens[s]
\* What a listing says of an entry: if it is still that one, it is at least as old.
LineOK(x) == x.gen <= gens[x.id] /\ (slot[x.id].gen = x.gen => slot[x.id].age >= x.age)
Listed == \A p \in Procs : \A x \in snap[p] \cup todo[p] : LineOK(x)
\* What each phase has selected; the size phase has never more to free than is too much.
PhaseOK(p) ==
  /\ pc[p] = "age" => \A x \in todo[p] : limits.age > 0 /\ x.age >= limits.age
  /\ pc[p] = "trim" /\ excess[p] > 0 =>
       limits.size > 0 /\ Total + userFreed[p] >= limits.size + excess[p]
  /\ pc[p] = "relieve" =>
       (quota[p] > 0 => limits.pressure) /\ \A x \in todo[p] : x.age >= MinAge
Phases == \A p \in Procs : PhaseOK(p)

IInv == Store /\ Clocks /\ Turns /\ Work /\ Alone /\ Marked /\ Used /\ Listed /\ Phases

-----------------------------------------------------------------------------
(* Types.                                                                    *)

\* The entries: made, removed, older.
LEMMA StoreNext == Store /\ Work /\ [Next]_vars => Store'
<1> SUFFICES ASSUME Store, Work, [Next]_vars PROVE Store'
  OBVIOUS
<1> USE PurgeConstants DEF Store
<1>1. ASSUME NEW p \in Procs, Mutate(p) PROVE Store'
  <2>1. UNCHANGED <<limits, stuck, pressed>>
    BY <1>1 DEF Mutate
  <2>2. CASE UNCHANGED <<slot, gens>>
    BY <2>1, <2>2
  <2>3. ASSUME NEW s \in Slots, gens[s] < MaxGen, gens' = [gens EXCEPT ![s] = @ + 1],
               slot' = [slot EXCEPT ![s] = [gen |-> gens[s] + 1, age |-> 0]]
        PROVE  Store'
    <3>1. gens[s] \in 0..MaxGen /\ gens[s] + 1 \in 1..MaxGen
      BY <2>3
    <3>2. [gen |-> gens[s] + 1, age |-> 0] \in Entry
      BY <3>1 DEF Entry
    <3>3. gens' \in [Slots -> 0..MaxGen] /\ slot' \in [Slots -> Entry \cup {Gone}]
      BY <2>3, <3>1, <3>2
    <3> QED
      BY <2>1, <3>3
  <2> QED
    BY <1>1, <2>2, <2>3 DEF Mutate
<1>2. ASSUME UNCHANGED <<limits, stuck, pressed, gens>>,
             slot' = slot \/ \E s \in Slots : slot' = [slot EXCEPT ![s] = Gone]
      PROVE  Store'
  BY <1>2
<1>3. ASSUME NEW p \in Procs, NEW x \in Line, Purged(p, x)
      PROVE  \E s \in Slots : slot' = [slot EXCEPT ![s] = Gone]
  BY <1>3 DEF Purged, Line
<1>4. \A p \in Procs : Oldest(p) \subseteq Line
  BY DEF Work, Oldest
<1>5. ASSUME NEW p \in Procs, PurgeExpired(p) \/ TrimToSize(p) \/ RelievePressure(p) PROVE Store'
  <2>1. UNCHANGED <<limits, stuck, pressed, gens>>
    BY <1>5 DEF PurgeExpired, TrimToSize, RelievePressure
  <2>2. slot' = slot \/ \E x \in Oldest(p) : Purged(p, x)
    BY <1>5 DEF PurgeExpired, TrimToSize, RelievePressure, NotPurged
  <2> QED
    BY <2>1, <2>2, <1>2, <1>3, <1>4
<1>6. ASSUME NEW s \in Slots, UserRemoves(s) PROVE Store'
  BY <1>2, <1>6 DEF UserRemoves
<1>7. ASSUME Tick PROVE Store'
  <2>1. UNCHANGED <<limits, stuck, gens>> /\ pressed' \in BOOLEAN
    BY <1>7 DEF Tick
  <2>2. ASSUME NEW s \in Slots
        PROVE  (IF slot[s] = Gone THEN Gone ELSE [slot[s] EXCEPT !.age = Older(@, OldAge)])
                 \in Entry \cup {Gone}
    BY DEF Entry, Older
  <2>3. slot' = [s \in Slots |-> IF slot[s] = Gone THEN Gone
                                ELSE [slot[s] EXCEPT !.age = Older(@, OldAge)]]
    BY <1>7 DEF Tick
  <2> QED
    BY <2>1, <2>2, <2>3
<1>8. ASSUME UNCHANGED entries PROVE Store'
  BY <1>8 DEF entries
<1> QED
  BY <1>1, <1>5, <1>6, <1>7, <1>8 DEF Next, Proceed, RunStep, RunDeferred, LookAtMarker, TryLock,
     Recheck, ListRoots, ListFails, MeasureSizes, MeasurePressure, Finish, Crash, vars

\* The clocks.
LEMMA ClocksNext == Clocks /\ [Next]_vars => Clocks'
<1> SUFFICES ASSUME Clocks, [Next]_vars PROVE Clocks'
  OBVIOUS
<1> USE PurgeConstants DEF Clocks
<1>1. ASSUME NEW p \in Procs, Mutate(p) \/ RunDeferred(p) PROVE Clocks'
  BY <1>1 DEF Mutate, RunDeferred
<1>2. ASSUME NEW p \in Procs, LookAtMarker(p) PROVE Clocks'
  BY <1>2 DEF LookAtMarker
<1>3. ASSUME NEW p \in Procs, Recheck(p) PROVE Clocks'
  BY <1>3 DEF Recheck
<1>4. ASSUME NEW p \in Procs, Crash(p) PROVE Clocks'
  BY <1>4 DEF Crash
<1>5. ASSUME Tick PROVE Clocks'
  <2>1. notDue' \in [Procs -> 0..Interval]
    <3>1. notDue' = [p \in Procs |-> IF notDue[p] = 0 THEN 0 ELSE notDue[p] - 1]
      BY <1>5 DEF Tick
    <3>2. ASSUME NEW n \in 0..Interval PROVE (IF n = 0 THEN 0 ELSE n - 1) \in 0..Interval
      OBVIOUS
    <3>3. \A p \in Procs : notDue[p] \in 0..Interval
      OBVIOUS
    <3> QED
      BY <3>1, <3>2, <3>3
  <2>2. ASSUME NEW a \in 0..Interval PROVE Older(a, Interval) \in 0..Interval
    BY DEF Older
  <2>3. /\ markAge' = Older(markAge, Interval) /\ sinceRun' = Older(sinceRun, Interval)
        /\ UNCHANGED <<due, crashes>>
    BY <1>5 DEF Tick
  <2> QED
    BY <2>1, <2>2, <2>3
<1>6. ASSUME UNCHANGED <<markAge, sinceRun, notDue, due, crashes>> PROVE Clocks'
  BY <1>6
<1> QED
  BY <1>1, <1>2, <1>3, <1>4, <1>5, <1>6 DEF Next, Proceed, RunStep, TryLock, ListRoots, ListFails,
     PurgeExpired, MeasureSizes, TrimToSize, MeasurePressure, RelievePressure, Finish, UserRemoves,
     vars, locals

\* Whose turn it is: the lock is held from the second look at the marker to the end of the run.
LEMMA TurnsNext == Turns /\ Alone /\ [Next]_vars => Turns' /\ Alone'
<1> SUFFICES ASSUME Turns, Alone, [Next]_vars PROVE Turns' /\ Alone'
  OBVIOUS
<1> USE DEF Turns, Alone, Steps, Run
<1>1. ASSUME NEW p \in Procs, NEW to \in Steps, Goto(p, to)
      PROVE  pc' \in [Procs -> Steps] /\ pc'[p] = to /\ \A q \in Procs \ {p} : pc'[q] = pc[q]
  BY <1>1 DEF Goto
<1>2. ASSUME NEW p \in Procs, NEW to \in Steps, Goto(p, to), UNCHANGED running,
             to \in Run \cup {"recheck"} <=> pc[p] \in Run \cup {"recheck"}
      PROVE  Turns' /\ Alone'
  BY <1>1, <1>2
<1>3. ASSUME NEW p \in Procs, Leave(p) PROVE Turns' /\ Alone'
  <2>1. Goto(p, "idle") /\ running' = running \ {p}
    BY <1>3 DEF Leave
  <2> QED
    BY <1>1, <2>1
<1>4. CASE UNCHANGED <<pc, running>>
  BY <1>4
<1>5. ASSUME NEW p \in Procs, Mutate(p) \/ RunDeferred(p) \/ LookAtMarker(p) PROVE Turns' /\ Alone'
  BY <1>2, <1>4, <1>5 DEF Mutate, RunDeferred, LookAtMarker
<1>6. ASSUME NEW p \in Procs, TryLock(p) PROVE Turns' /\ Alone'
  <2>1. CASE running = {} /\ running' = {p} /\ Goto(p, "recheck")
    BY <1>1, <2>1
  <2> QED
    BY <1>2, <1>6, <2>1 DEF TryLock
<1>7. ASSUME NEW p \in Procs, Recheck(p) PROVE Turns' /\ Alone'
  BY <1>2, <1>3, <1>7 DEF Recheck
<1>8. ASSUME NEW p \in Procs, RunStep(p) PROVE Turns' /\ Alone'
  BY <1>2, <1>3, <1>4, <1>8 DEF RunStep, ListRoots, ListFails, PurgeExpired, MeasureSizes, TrimToSize,
     MeasurePressure, RelievePressure, Finish
<1> QED
  BY <1>3, <1>4, <1>5, <1>6, <1>7, <1>8 DEF Next, Proceed, Crash, UserRemoves, Tick, vars

\* Everything a run keeps for itself.
LEMMA WorkNext == Store /\ Work /\ [Next]_vars => Work'
<1> SUFFICES ASSUME Store, Work, [Next]_vars PROVE Work'
  OBVIOUS
<1> USE PurgeConstants DEF Work
<1>1. ASSUME NEW p \in Procs, Leave(p) PROVE Work'
  <2>1. \A q \in Procs : snap'[q] = IF q = p THEN {} ELSE snap[q]
    BY <1>1 DEF Leave
  <2>2. \A q \in Procs : IsFiniteSet(snap'[q])
    BY <2>1, FS_EmptySet
  <2> QED
    BY <1>1, <2>2 DEF Leave
<1>2. ASSUME UNCHANGED <<snap, todo, excess, quota, userFreed>> PROVE Work'
  BY <1>2
<1>3. ASSUME NEW p \in Procs, Recheck(p) PROVE Work'
  <2>1. Leave(p) \/ UNCHANGED <<snap, todo, excess, quota, userFreed>>
    BY <1>3 DEF Recheck
  <2> QED
    BY <2>1, <1>1, <1>2
<1>4. ASSUME NEW p \in Procs, ListRoots(p) PROVE Work'
  <2> DEFINE lines == {[id |-> s, gen |-> slot[s].gen, age |-> slot[s].age] :
                         s \in {r \in Slots : slot[r] # Gone}}
  <2>1. lines \in SUBSET Line
    BY DEF Store, Entry, Line
  <2>2. /\ snap' = [snap EXCEPT ![p] = lines]
        /\ todo' = [todo EXCEPT ![p] =
                      IF limits.age = 0 THEN {} ELSE {x \in lines : x.age >= limits.age}]
        /\ UNCHANGED <<excess, quota, userFreed>>
    BY <1>4 DEF ListRoots
  <2>3. IsFiniteSet(lines)
    <3> DEFINE ids == {r \in Slots : slot[r] # Gone}
               f == [s \in ids |-> [id |-> s, gen |-> slot[s].gen, age |-> slot[s].age]]
    <3>1. IsFiniteSet(ids)
      BY FS_Subset
    <3>2. f \in Surjection(ids, lines)
      BY DEF Surjection
    <3> HIDE DEF ids, f, lines
    <3> QED
      BY <3>1, <3>2, FS_Surjection
  <2> HIDE DEF lines
  <2>4. snap' \in [Procs -> SUBSET Line] /\ todo' \in [Procs -> SUBSET Line]
    BY <2>1, <2>2
  <2>5. \A q \in Procs : snap'[q] = IF q = p THEN lines ELSE snap[q]
    BY <2>2
  <2>6. \A q \in Procs : IsFiniteSet(snap'[q])
    BY <2>3, <2>5
  <2> QED
    BY <2>2, <2>4, <2>6
<1>5. ASSUME NEW p \in Procs, NEW x, Visit(p, x) PROVE todo' \in [Procs -> SUBSET Line]
  BY <1>5 DEF Visit
<1>6. ASSUME NEW p \in Procs, NEW x, Purged(p, x) \/ NotPurged(x)
      PROVE  snap' \in [Procs -> SUBSET Line] /\ \A q \in Procs : IsFiniteSet(snap'[q])
  <2>1. CASE NotPurged(x)
    BY <2>1 DEF NotPurged
  <2>2. CASE Purged(p, x)
    <3>1. \A q \in Procs : snap'[q] = IF q = p THEN snap[q] \ {x} ELSE snap[q]
      BY <2>2 DEF Purged
    <3>2. IsFiniteSet(snap[p] \ {x})
      BY FS_RemoveElement
    <3>3. \A q \in Procs : IsFiniteSet(snap'[q])
      BY <3>1, <3>2
    <3> QED
      BY <2>2, <3>3 DEF Purged
  <2> QED
    BY <1>6, <2>1, <2>2
<1>7. ASSUME NEW p \in Procs, PurgeExpired(p) PROVE Work'
  <2>1. UNCHANGED <<excess, quota, userFreed>>
    BY <1>7 DEF PurgeExpired
  <2>2. UNCHANGED <<snap, todo>> \/ \E x : Visit(p, x) /\ (Purged(p, x) \/ NotPurged(x))
    BY <1>7 DEF PurgeExpired
  <2> QED
    BY <2>1, <2>2, <1>5, <1>6
<1>8. ASSUME NEW p \in Procs, MeasureSizes(p) PROVE Work'
  <2> DEFINE ids == {x.id : x \in snap[p]}
             n == Held(ids)
  <2>1. {s \in ids : slot[s] # Gone} \in SUBSET Slots
    BY DEF Line
  <2>2. n \in Nat
    BY <2>1, BytesFinite DEF Held
  <2>3. limits.size \in Nat
    BY DEF Store
  <2>4. /\ excess' = [excess EXCEPT ![p] =
                        IF limits.size > 0 /\ n > limits.size THEN n - limits.size ELSE 0]
        /\ todo' = [todo EXCEPT ![p] = IF limits.size > 0 /\ n > limits.size THEN snap[p] ELSE {}]
        /\ UNCHANGED <<snap, quota, userFreed>>
    BY <1>8 DEF MeasureSizes
  <2> HIDE DEF n
  <2>5. excess' \in [Procs -> Nat]
    BY <2>2, <2>3, <2>4
  <2>6. todo' \in [Procs -> SUBSET Line]
    BY <2>4
  <2> QED
    BY <2>4, <2>5, <2>6
<1>9. ASSUME NEW p \in Procs, TrimToSize(p) PROVE Work'
  <2>1. UNCHANGED <<quota, userFreed>>
    BY <1>9 DEF TrimToSize
  <2>2. UNCHANGED <<snap, todo, excess>>
        \/ \E x \in Oldest(p) :
             Visit(p, x) /\ (Purged(p, x) \/ NotPurged(x)) /\ (Freed(p, x) \/ UNCHANGED excess)
    BY <1>9 DEF TrimToSize
  <2>3. ASSUME NEW x \in Oldest(p), Freed(p, x) PROVE excess' \in [Procs -> Nat]
    <3>1. SizeOf[x.id] \in Nat
      BY DEF Oldest, Line
    <3> QED
      BY <2>3, <3>1 DEF Freed
  <2>4. CASE UNCHANGED <<snap, todo, excess>>
    BY <2>1, <2>4
  <2>5. ASSUME NEW x \in Oldest(p), Visit(p, x), Purged(p, x) \/ NotPurged(x),
               Freed(p, x) \/ UNCHANGED excess
        PROVE  Work'
    BY <2>1, <2>3, <2>5, <1>5, <1>6
  <2> QED
    BY <2>2, <2>4, <2>5
<1>10. ASSUME NEW p \in Procs, MeasurePressure(p) PROVE Work'
  <2> DEFINE some == {x \in snap[p] : x.age >= MinAge /\ x.id \in OnHome}
             n == Cardinality(some) \div 10
             share == IF n = 0 THEN 1 ELSE n
  <2>1. /\ todo' = [todo EXCEPT ![p] = some] \/ todo' = [todo EXCEPT ![p] = {}]
        /\ quota' = [quota EXCEPT ![p] = share] \/ quota' = [quota EXCEPT ![p] = 0]
        /\ UNCHANGED <<snap, excess, userFreed>>
    BY <1>10 DEF MeasurePressure
  <2>2. some \in SUBSET Line
    OBVIOUS
  <2>3. share \in Nat
    <3>1. IsFiniteSet(some)
      BY FS_Subset
    <3>2. Cardinality(some) \in Nat
      BY <3>1, FS_CardinalityType
    <3> HIDE DEF some
    <3> QED
      BY <3>2
  <2> HIDE DEF some, share
  <2>4. todo' \in [Procs -> SUBSET Line]
    BY <2>1, <2>2
  <2>5. quota' \in [Procs -> Nat]
    BY <2>1, <2>3
  <2> QED
    BY <2>1, <2>4, <2>5
<1>11. ASSUME NEW p \in Procs, RelievePressure(p) PROVE Work'
  <2>1. UNCHANGED <<excess, userFreed>>
    BY <1>11 DEF RelievePressure
  <2>2. UNCHANGED <<snap, todo, quota>>
        \/ /\ \E x \in Oldest(p) : Visit(p, x) /\ (Purged(p, x) \/ NotPurged(x))
           /\ (quota[p] > 0 /\ quota' = [quota EXCEPT ![p] = @ - 1]) \/ UNCHANGED quota
    BY <1>11 DEF RelievePressure
  <2>3. ASSUME quota[p] > 0, quota' = [quota EXCEPT ![p] = @ - 1] PROVE quota' \in [Procs -> Nat]
    BY <2>3
  <2> QED
    BY <2>1, <2>2, <2>3, <1>5, <1>6
<1>12. ASSUME NEW s \in Slots, UserRemoves(s) PROVE Work'
  <2>1. SizeOf[s] \in Nat
    OBVIOUS
  <2>2. \A p \in Procs : userFreed[p] + SizeOf[s] \in Nat
    BY <2>1
  <2>3. userFreed' \in [Procs -> Nat]
    BY <1>12, <2>2 DEF UserRemoves
  <2> QED
    BY <1>12, <2>3 DEF UserRemoves, locals
<1>13. ASSUME NEW p \in Procs, Crash(p) \/ ListFails(p) \/ Finish(p) PROVE Work'
  BY <1>1, <1>13 DEF Crash, ListFails, Finish
<1> QED
  BY <1>2, <1>3, <1>4, <1>7, <1>8, <1>9, <1>10, <1>11, <1>12, <1>13 DEF Next, Proceed, RunStep,
     Mutate, RunDeferred, LookAtMarker, TryLock, Tick, vars, locals

-----------------------------------------------------------------------------
(* What can happen to the entries.                                           *)

Same == slot' = slot /\ gens' = gens
Made(s) ==
  /\ slot[s] = Gone /\ slot'[s] = [gen |-> gens[s] + 1, age |-> 0] /\ gens'[s] = gens[s] + 1
  /\ \A r \in Slots \ {s} : slot'[r] = slot[r] /\ gens'[r] = gens[r]
Dropped(s) ==
  /\ slot[s] # Gone /\ slot'[s] = Gone /\ gens' = gens
  /\ \A r \in Slots \ {s} : slot'[r] = slot[r]
Aged ==
  /\ gens' = gens
  /\ \A s \in Slots : slot[s] = Gone => slot'[s] = Gone
  /\ \A s \in Slots : slot[s] # Gone =>
       slot'[s] # Gone /\ slot'[s].gen = slot[s].gen /\ slot'[s].age >= slot[s].age

\* A purge removes the entry that was listed.
LEMMA PurgedDrops ==
  ASSUME Store, NEW p \in Procs, NEW x \in Line, Purged(p, x), gens' = gens
  PROVE  x.id \in Slots /\ slot[x.id].gen = x.gen /\ Dropped(x.id)
<1>1. x.id \in Slots /\ x.gen \in 1..MaxGen
  BY DEF Line
<1>2. slot[x.id].gen = x.gen /\ slot' = [slot EXCEPT ![x.id] = Gone]
  BY DEF Purged
<1>3. slot[x.id] # Gone
  BY <1>1, <1>2, PurgeConstants DEF Gone
<1> QED
  BY <1>1, <1>2, <1>3 DEF Store, Dropped

\* A phase visits one line after the other, the oldest first.
LEMMA OldestIsLine ==
  ASSUME Work, NEW p \in Procs
  PROVE  Oldest(p) \subseteq todo[p] /\ Oldest(p) \subseteq Line
  BY DEF Work, Oldest

\* An entry is removed by a phase of a run.
LEMMA RunDrops ==
  ASSUME Store, Work, NEW p \in Procs, PurgeExpired(p) \/ TrimToSize(p) \/ RelievePressure(p)
  PROVE  Same \/ \E s \in Slots : Dropped(s)
<1>1. gens' = gens
  BY DEF PurgeExpired, TrimToSize, RelievePressure
<1>2. slot' = slot \/ \E x \in Oldest(p) : Purged(p, x)
  BY DEF PurgeExpired, TrimToSize, RelievePressure, NotPurged
<1> QED
  BY <1>1, <1>2, PurgedDrops, OldestIsLine DEF Same

\* Entries get older.
LEMMA TickAges ==
  ASSUME Store, Tick
  PROVE  Aged
<1>1. gens' = gens /\ slot' = [s \in Slots |-> IF slot[s] = Gone THEN Gone
                                ELSE [slot[s] EXCEPT !.age = Older(@, OldAge)]]
  BY DEF Tick
<1>2. ASSUME NEW s \in Slots, slot[s] # Gone
      PROVE  slot'[s] # Gone /\ slot'[s].gen = slot[s].gen /\ slot'[s].age >= slot[s].age
  <2>1. slot[s] \in Entry
    BY <1>2 DEF Store
  <2>2. slot'[s] = [slot[s] EXCEPT !.age = Older(@, OldAge)]
    BY <1>1, <1>2
  <2>3. PICK e \in Entry : e = slot[s]
    BY <2>1
  <2>4. slot'[s].gen = e.gen /\ slot'[s].age = Older(e.age, OldAge)
    BY <2>2, <2>3 DEF Entry
  <2>5. e.gen \in 1..MaxGen /\ e.age \in 0..OldAge
    BY DEF Entry
  <2>6. slot'[s].gen # 0 /\ slot'[s].age >= e.age
    BY <2>4, <2>5, PurgeConstants DEF Older
  <2> QED
    BY <2>3, <2>4, <2>6 DEF Gone
<1>3. \A s \in Slots : slot[s] = Gone => slot'[s] = Gone
  BY <1>1
<1> QED
  BY <1>1, <1>2, <1>3 DEF Aged

\* An entry under a new generation of its ID.
LEMMA MutateMakes ==
  ASSUME Store, NEW p \in Procs, Mutate(p)
  PROVE  Same \/ \E s \in Slots : Made(s)
<1>1. CASE UNCHANGED <<slot, gens>>
  BY <1>1 DEF Same
<1>2. ASSUME NEW s \in Slots, slot[s] = Gone, gens' = [gens EXCEPT ![s] = @ + 1],
             slot' = [slot EXCEPT ![s] = [gen |-> gens[s] + 1, age |-> 0]]
      PROVE  Made(s)
  BY <1>2 DEF Store, Made
<1> QED
  BY <1>1, <1>2 DEF Mutate

\* Nothing else happens to entries.
LEMMA Changes ==
  ASSUME Store, Work, [Next]_vars
  PROVE  Same \/ (\E s \in Slots : Made(s) \/ Dropped(s)) \/ Aged
<1>1. ASSUME NEW s \in Slots, UserRemoves(s) PROVE Dropped(s)
  BY <1>1 DEF UserRemoves, locals, Store, Dropped
<1>2. ASSUME UNCHANGED entries PROVE Same
  BY <1>2 DEF entries, Same
<1> QED
  BY <1>1, <1>2, RunDrops, TickAges, MutateMakes DEF Next, Proceed, RunStep, RunDeferred,
     LookAtMarker, TryLock, Recheck, ListRoots, ListFails, MeasureSizes, MeasurePressure, Finish,
     Crash, vars

\* No generation comes back.
LEMMA UsedNext == Store /\ Work /\ Used /\ [Next]_vars => Used'
<1> SUFFICES ASSUME Store, Work, Used, [Next]_vars, NEW s \in Slots PROVE slot'[s].gen <= gens'[s]
  BY DEF Used
<1>1. slot[s].gen <= gens[s] /\ gens[s] \in Nat
  BY DEF Used, Store
<1>2. CASE Same
  BY <1>1, <1>2 DEF Same
<1>3. ASSUME NEW r \in Slots, Made(r) PROVE slot'[s].gen <= gens'[s]
  BY <1>1, <1>3 DEF Made
<1>4. ASSUME NEW r \in Slots, Dropped(r) PROVE slot'[s].gen <= gens'[s]
  BY <1>1, <1>4 DEF Dropped, Gone
<1>5. CASE Aged
  <2>1. CASE slot[s] = Gone
    BY <1>1, <1>5, <2>1 DEF Aged
  <2>2. CASE slot[s] # Gone
    BY <1>1, <1>5, <2>2 DEF Aged
  <2> QED
    BY <2>1, <2>2
<1> QED
  BY <1>2, <1>3, <1>4, <1>5, Changes

\* What a line says stays true.
LEMMA Lasts ==
  ASSUME Store, Work, [Next]_vars, NEW x \in Line, LineOK(x)
  PROVE  LineOK(x)'
<1>1. /\ x.id \in Slots /\ x.gen \in Nat /\ x.gen # 0 /\ x.age \in Nat
      /\ gens[x.id] \in Nat /\ x.gen <= gens[x.id]
      /\ slot[x.id].gen = x.gen => slot[x.id].age >= x.age
  BY PurgeConstants DEF Line, Store, LineOK
<1>2. slot[x.id].age \in Nat
  BY <1>1, PurgeConstants DEF Store, Entry, Gone
<1> SUFFICES x.gen <= gens'[x.id] /\ (slot'[x.id].gen = x.gen => slot'[x.id].age >= x.age)
  BY DEF LineOK
<1>3. CASE Same
  BY <1>1, <1>3 DEF Same
<1>4. ASSUME NEW r \in Slots, Made(r)
      PROVE  x.gen <= gens'[x.id] /\ (slot'[x.id].gen = x.gen => slot'[x.id].age >= x.age)
  BY <1>1, <1>4 DEF Made
<1>5. ASSUME NEW r \in Slots, Dropped(r)
      PROVE  x.gen <= gens'[x.id] /\ (slot'[x.id].gen = x.gen => slot'[x.id].age >= x.age)
  BY <1>1, <1>5 DEF Dropped, Gone
<1>6. CASE Aged
  <2>1. slot'[x.id].age \in Nat
    <3>1. Store'
      BY StoreNext
    <3> QED
      BY <1>1, <3>1, PurgeConstants DEF Store, Entry, Gone
  <2>2. CASE slot[x.id] = Gone
    BY <1>1, <1>6, <2>2 DEF Aged, Gone
  <2>3. CASE slot[x.id] # Gone
    BY <1>1, <1>2, <1>6, <2>1, <2>3 DEF Aged
  <2> QED
    BY <2>2, <2>3
<1> QED
  BY <1>3, <1>4, <1>5, <1>6, Changes

\* What entries occupy, after what can happen to them.
LEMMA TotalNext ==
  ASSUME Store, Store'
  PROVE  /\ Total \in Nat /\ Total' \in Nat
         /\ Same \/ Aged => Total' = Total
         /\ \A s \in Slots : Made(s) => Total' >= Total
         /\ \A s \in Slots : Dropped(s) => Total = Total' + SizeOf[s]
<1> DEFINE H == {s \in Slots : slot[s] # Gone}
           K == {s \in Slots : slot'[s] # Gone}
<1>1. Total = Cardinality(Bytes(H)) /\ Total' = Cardinality(Bytes(K))
  BY DEF Total, Held
<1>2. H \in SUBSET Slots /\ K \in SUBSET Slots
  OBVIOUS
<1>3. Same \/ Aged => H = K
  BY DEF Same, Aged
<1>4. \A s \in Slots : Made(s) => H \subseteq K
  BY DEF Made
<1>5. \A s \in Slots : Dropped(s) => s \in H /\ K = H \ {s}
  BY DEF Dropped
<1> HIDE DEF H, K
<1>6. Total \in Nat /\ Total' \in Nat
  BY <1>1, <1>2, BytesFinite
<1>7. Same \/ Aged => Total' = Total
  BY <1>1, <1>3
<1>8. ASSUME NEW s \in Slots, Made(s) PROVE Total' >= Total
  BY <1>1, <1>2, <1>4, <1>6, <1>8, BytesGrow
<1>9. ASSUME NEW s \in Slots, Dropped(s) PROVE Total = Total' + SizeOf[s]
  BY <1>1, <1>2, <1>5, <1>9, BytesLess
<1> QED
  BY <1>6, <1>7, <1>8, <1>9

-----------------------------------------------------------------------------
(* What a run keeps for itself.                                              *)

\* The marker is as old as the last run that began.
LEMMA MarkedNext == Marked /\ [Next]_vars => Marked'
<1> SUFFICES ASSUME Marked, [Next]_vars PROVE markAge' = sinceRun'
  BY DEF Marked
<1>1. markAge = sinceRun
  BY DEF Marked
<1>2. CASE UNCHANGED <<markAge, sinceRun>>
  BY <1>1, <1>2
<1>3. ASSUME NEW p \in Procs, Recheck(p) PROVE markAge' = sinceRun'
  BY <1>1, <1>3 DEF Recheck
<1>4. CASE Tick
  BY <1>1, <1>4 DEF Tick
<1> QED
  BY <1>2, <1>3, <1>4 DEF Next, Proceed, RunStep, Mutate, RunDeferred, LookAtMarker, TryLock,
     ListRoots, ListFails, PurgeExpired, MeasureSizes, TrimToSize, MeasurePressure, RelievePressure,
     Finish, UserRemoves, Crash, vars

\* The configuration stays.
LEMMA LimitsStay == [Next]_vars => limits' = limits
  BY DEF Next, Proceed, RunStep, Mutate, RunDeferred, LookAtMarker, TryLock, Recheck, ListRoots,
     ListFails, PurgeExpired, MeasureSizes, TrimToSize, MeasurePressure, RelievePressure, Finish,
     UserRemoves, Crash, Tick, vars, entries

OthersKeep(p) ==
  \A q \in Procs \ {p} :
    /\ pc'[q] = pc[q] /\ snap'[q] = snap[q] /\ todo'[q] = todo[q]
    /\ excess'[q] = excess[q] /\ quota'[q] = quota[q] /\ userFreed'[q] = userFreed[q]

\* A process changes nothing that another keeps for itself.
LEMMA Private ==
  ASSUME Turns, Work, NEW p \in Procs, Mutate(p) \/ RunDeferred(p) \/ Proceed(p) \/ Crash(p)
  PROVE  OthersKeep(p)
<1> USE DEF Turns, Work, OthersKeep
<1>1. ASSUME NEW to, Goto(p, to) PROVE \A q \in Procs \ {p} : pc'[q] = pc[q]
  BY <1>1 DEF Goto
<1>2. ASSUME Leave(p) PROVE OthersKeep(p)
  BY <1>2 DEF Leave, Goto
<1>3. ASSUME NEW x, Visit(p, x) PROVE \A q \in Procs \ {p} : todo'[q] = todo[q]
  BY <1>3 DEF Visit
<1>4. ASSUME NEW x, Purged(p, x) \/ NotPurged(x) PROVE \A q \in Procs \ {p} : snap'[q] = snap[q]
  BY <1>4 DEF Purged, NotPurged
<1>5. CASE Mutate(p) \/ RunDeferred(p) \/ LookAtMarker(p) \/ TryLock(p)
  <2>1. UNCHANGED <<snap, todo, excess, quota, userFreed>>
    BY <1>5 DEF Mutate, RunDeferred, LookAtMarker, TryLock, locals
  <2>2. \A q \in Procs \ {p} : pc'[q] = pc[q]
    BY <1>1, <1>5 DEF Mutate, RunDeferred, LookAtMarker, TryLock
  <2> QED
    BY <2>1, <2>2
<1>6. CASE Recheck(p)
  BY <1>1, <1>2, <1>6 DEF Recheck
<1>7. CASE ListRoots(p)
  BY <1>7 DEF ListRoots, Goto
<1>8. CASE PurgeExpired(p)
  <2>1. UNCHANGED <<excess, quota, userFreed>>
    BY <1>8 DEF PurgeExpired
  <2>2. \/ Goto(p, "measure") /\ UNCHANGED <<snap, todo>>
        \/ \E x : Visit(p, x) /\ (Purged(p, x) \/ NotPurged(x)) /\ UNCHANGED pc
    BY <1>8 DEF PurgeExpired
  <2> QED
    BY <2>1, <2>2, <1>1, <1>3, <1>4
<1>9. CASE MeasureSizes(p)
  BY <1>9 DEF MeasureSizes, Goto
<1>10. CASE TrimToSize(p)
  <2>1. UNCHANGED <<quota, userFreed>>
    BY <1>10 DEF TrimToSize
  <2>2. \/ Goto(p, "press") /\ UNCHANGED <<snap, todo, excess>>
        \/ \E x : /\ Visit(p, x) /\ (Purged(p, x) \/ NotPurged(x)) /\ UNCHANGED pc
                  /\ Freed(p, x) \/ UNCHANGED excess
    BY <1>10 DEF TrimToSize
  <2>3. ASSUME NEW x, Freed(p, x) PROVE \A q \in Procs \ {p} : excess'[q] = excess[q]
    BY <2>3 DEF Freed
  <2> QED
    BY <2>1, <2>2, <2>3, <1>1, <1>3, <1>4
<1>11. CASE MeasurePressure(p)
  BY <1>11 DEF MeasurePressure, Goto
<1>12. CASE RelievePressure(p)
  <2>1. UNCHANGED <<excess, userFreed>>
    BY <1>12 DEF RelievePressure
  <2>2. \/ Goto(p, "finish") /\ UNCHANGED <<snap, todo, quota>>
        \/ \E x : /\ Visit(p, x) /\ (Purged(p, x) \/ NotPurged(x)) /\ UNCHANGED pc
                  /\ quota' = [quota EXCEPT ![p] = @ - 1] \/ UNCHANGED quota
    BY <1>12 DEF RelievePressure
  <2> QED
    BY <2>1, <2>2, <1>1, <1>3, <1>4
<1>13. CASE ListFails(p) \/ Finish(p) \/ Crash(p)
  BY <1>2, <1>13 DEF ListFails, Finish, Crash
<1> QED
  BY <1>5, <1>6, <1>7, <1>8, <1>9, <1>10, <1>11, <1>12, <1>13 DEF Proceed, RunStep

\* A step that lists nothing adds no line.
LEMMA Shrinks ==
  ASSUME Turns, Work, NEW p \in Procs, Mutate(p) \/ RunDeferred(p) \/ Proceed(p) \/ Crash(p),
         ~ListRoots(p)
  PROVE  snap'[p] \subseteq snap[p] /\ todo'[p] \subseteq snap[p] \cup todo[p]
<1> USE DEF Work
<1>1. ASSUME Leave(p) PROVE snap'[p] = {} /\ todo'[p] = {}
  BY <1>1 DEF Leave
<1>2. ASSUME NEW x, Visit(p, x), Purged(p, x) \/ NotPurged(x)
      PROVE  snap'[p] \subseteq snap[p] /\ todo'[p] \subseteq todo[p]
  BY <1>2 DEF Visit, Purged, NotPurged
<1>3. CASE UNCHANGED <<snap, todo>>
  BY <1>3
<1>4. CASE MeasureSizes(p) \/ MeasurePressure(p)
  BY <1>4 DEF MeasureSizes, MeasurePressure
<1>5. CASE PurgeExpired(p) \/ TrimToSize(p) \/ RelievePressure(p)
  <2>1. UNCHANGED <<snap, todo>> \/ \E x : Visit(p, x) /\ (Purged(p, x) \/ NotPurged(x))
    BY <1>5 DEF PurgeExpired, TrimToSize, RelievePressure
  <2> QED
    BY <2>1, <1>2, <1>3
<1> QED
  BY <1>1, <1>3, <1>4, <1>5 DEF Mutate, RunDeferred, LookAtMarker, TryLock, Recheck, ListFails,
     Finish, Crash, Proceed, RunStep, locals

\* What is listed is there, and whatever replaces it has another generation.
LEMMA ListedNext == Store /\ Turns /\ Work /\ Used /\ Listed /\ [Next]_vars => Listed'
<1> SUFFICES ASSUME Store, Turns, Work, Used, Listed, [Next]_vars PROVE Listed'
  OBVIOUS
<1>1. \A q \in Procs : \A x \in snap[q] \cup todo[q] : LineOK(x)'
  <2>1. \A q \in Procs : \A x \in snap[q] \cup todo[q] : x \in Line /\ LineOK(x)
    BY DEF Listed, Work
  <2> QED
    BY <2>1, Lasts
<1>2. ASSUME UNCHANGED <<snap, todo>> PROVE Listed'
  BY <1>1, <1>2 DEF Listed
<1>3. ASSUME NEW p \in Procs, Mutate(p) \/ RunDeferred(p) \/ Proceed(p) \/ Crash(p) PROVE Listed'
  <2>1. OthersKeep(p)
    BY <1>3, Private
  <2>2. \A q \in Procs \ {p} : \A x \in snap'[q] \cup todo'[q] : LineOK(x)'
    BY <1>1, <2>1 DEF OthersKeep
  <2>3. CASE ~ListRoots(p)
    <3>1. snap'[p] \cup todo'[p] \subseteq snap[p] \cup todo[p]
      BY <1>3, <2>3, Shrinks
    <3>2. \A x \in snap'[p] \cup todo'[p] : LineOK(x)'
      BY <1>1, <3>1
    <3> QED
      BY <2>2, <3>2 DEF Listed
  <2>4. CASE ListRoots(p)
    <3> DEFINE lines == {[id |-> s, gen |-> slot[s].gen, age |-> slot[s].age] :
                           s \in {r \in Slots : slot[r] # Gone}}
    <3>1. UNCHANGED <<slot, gens>> /\ snap'[p] = lines /\ todo'[p] \subseteq lines
      BY <2>4 DEF ListRoots, Work, entries
    <3>2. ASSUME NEW x \in lines PROVE LineOK(x)'
      <4>1. PICK s \in Slots : x = [id |-> s, gen |-> slot[s].gen, age |-> slot[s].age]
        OBVIOUS
      <4>2. x.id = s /\ x.gen = slot[s].gen /\ x.age = slot[s].age
        BY <4>1
      <4>3. slot[s].gen <= gens[s] /\ slot[s].age \in Nat
        BY PurgeConstants DEF Used, Store, Entry, Gone
      <4> QED
        BY <3>1, <4>2, <4>3 DEF LineOK
    <3>3. \A x \in snap'[p] \cup todo'[p] : LineOK(x)'
      BY <3>1, <3>2
    <3> QED
      BY <2>2, <3>3 DEF Listed
  <2> QED
    BY <2>3, <2>4
<1> QED
  BY <1>2, <1>3 DEF Next, UserRemoves, Tick, vars, locals

-----------------------------------------------------------------------------
(* The phases.                                                               *)

\* A phase whose selection only shrinks, while nobody else frees anything it does not know of.
LEMMA PhaseStays ==
  ASSUME NEW p \in Procs, PhaseOK(p), limits' = limits, pc'[p] = pc[p], todo'[p] \subseteq todo[p],
         excess'[p] = excess[p], quota'[p] = quota[p],
         pc[p] = "trim" /\ excess[p] > 0 => Total' + userFreed'[p] >= limits.size + excess[p]
  PROVE  PhaseOK(p)'
<1>1. /\ pc[p] = "age" => \A x \in todo[p] : limits.age > 0 /\ x.age >= limits.age
      /\ pc[p] = "trim" /\ excess[p] > 0 => limits.size > 0
      /\ pc[p] = "relieve" => (quota[p] > 0 => limits.pressure) /\ \A x \in todo[p] : x.age >= MinAge
  BY DEF PhaseOK
<1> QED
  BY <1>1 DEF PhaseOK, MinAge

\* The other steps of a run select nothing.
LEMMA PhaseEnds ==
  ASSUME NEW p \in Procs, pc'[p] \notin {"age", "trim", "relieve"}
  PROVE  PhaseOK(p)'
  BY DEF PhaseOK

\* What the size phase goes by: what is there, and what users removed since the listing.
LEMMA Balance ==
  ASSUME Store, Work, NEW p \in Procs
  PROVE  /\ Total \in Nat /\ userFreed[p] \in Nat /\ excess[p] \in Nat /\ limits.size \in Nat
         /\ PhaseOK(p) /\ pc[p] = "trim" /\ excess[p] > 0 =>
              limits.size > 0 /\ Total + userFreed[p] >= limits.size + excess[p]
<1>1. Total \in Nat
  <2>1. {s \in Slots : slot[s] # Gone} \in SUBSET Slots
    OBVIOUS
  <2> QED
    BY <2>1, BytesFinite DEF Total, Held
<1>2. limits.size \in Nat
  BY PurgeConstants DEF Store
<1> QED
  BY <1>1, <1>2 DEF Work, PhaseOK

\* Another process that takes a step: only the one with the lock frees anything.
LEMMA OtherPhase ==
  ASSUME Store, Turns, Work, Alone, [Next]_vars, NEW p \in Procs, NEW q \in Procs, q # p, PhaseOK(q),
         Mutate(p) \/ RunDeferred(p) \/ Proceed(p) \/ Crash(p)
  PROVE  PhaseOK(q)'
<1>1. OthersKeep(p)
  BY Private
<1>2. /\ pc'[q] = pc[q] /\ todo'[q] = todo[q] /\ excess'[q] = excess[q]
      /\ quota'[q] = quota[q] /\ userFreed'[q] = userFreed[q]
  BY <1>1 DEF OthersKeep
<1>3. limits' = limits
  BY LimitsStay
<1>4. ASSUME pc[q] = "trim", excess[q] > 0
      PROVE  Total' + userFreed'[q] >= limits.size + excess[q]
  <2>1. q \in running
    BY <1>4 DEF Turns, Run
  <2>2. ~RunStep(p)
    <3>1. p \notin running
      BY <2>1 DEF Alone
    <3>2. pc[p] \notin Run
      BY <3>1 DEF Turns
    <3> QED
      BY <3>2 DEF Run, RunStep, ListRoots, ListFails, PurgeExpired, MeasureSizes, TrimToSize,
         MeasurePressure, RelievePressure, Finish
  <2>3. Same \/ \E s \in Slots : Made(s)
    BY <2>2, MutateMakes DEF Proceed, RunDeferred, LookAtMarker, TryLock, Recheck, Crash, entries, Same
  <2>4. Store'
    BY StoreNext
  <2>5. Total' \in Nat /\ Total' >= Total
    <3>1. Total \in Nat /\ Total' \in Nat
      BY <2>4, TotalNext
    <3>2. Same => Total' = Total
      BY <2>4, TotalNext
    <3>3. \A s \in Slots : Made(s) => Total' >= Total
      BY <2>4, TotalNext
    <3> QED
      BY <2>3, <3>1, <3>2, <3>3
  <2>6. /\ Total \in Nat /\ userFreed[q] \in Nat /\ excess[q] \in Nat /\ limits.size \in Nat
        /\ Total + userFreed[q] >= limits.size + excess[q]
    BY <1>4, Balance
  <2> HIDE DEF Total
  <2> QED
    BY <1>2, <2>5, <2>6
<1> QED
  BY <1>2, <1>3, <1>4, PhaseStays

\* The listing selects what is too old.
LEMMA ListPhase ==
  ASSUME Store, Turns, Work, NEW p \in Procs, ListRoots(p)
  PROVE  PhaseOK(p)'
<1>1. limits' = limits /\ pc'[p] \in {"finish", "age"}
  BY DEF ListRoots, Turns, Goto, entries
<1>2. \A x \in todo'[p] : limits.age > 0 /\ x.age >= limits.age
  <2>1. limits.age \in Nat
    BY PurgeConstants DEF Store
  <2>2. \E lines :
          todo' = [todo EXCEPT ![p] = IF limits.age = 0 THEN {} ELSE {x \in lines : x.age >= limits.age}]
    BY DEF ListRoots
  <2>3. PICK lines :
          todo' = [todo EXCEPT ![p] = IF limits.age = 0 THEN {} ELSE {x \in lines : x.age >= limits.age}]
    BY <2>2
  <2>4. todo'[p] = IF limits.age = 0 THEN {} ELSE {x \in lines : x.age >= limits.age}
    BY <2>3 DEF Work
  <2> QED
    BY <2>1, <2>4
<1> QED
  BY <1>1, <1>2 DEF PhaseOK

\* The size phase has to free what is listed and too much.
LEMMA MeasurePhase ==
  ASSUME Store, Turns, Work, Store', NEW p \in Procs, MeasureSizes(p)
  PROVE  PhaseOK(p)'
<1> DEFINE ids == {x.id : x \in snap[p]}
           n == Held(ids)
<1>1. limits' = limits /\ pc'[p] = "trim" /\ slot' = slot /\ gens' = gens /\ userFreed' = userFreed
  BY DEF MeasureSizes, Turns, Goto, entries
<1>2. excess'[p] = IF limits.size > 0 /\ n > limits.size THEN n - limits.size ELSE 0
  <2>1. excess' = [excess EXCEPT ![p] =
                    IF limits.size > 0 /\ n > limits.size THEN n - limits.size ELSE 0]
    BY DEF MeasureSizes
  <2> HIDE DEF n
  <2> QED
    BY <2>1 DEF Work
<1>3. n \in Nat /\ n <= Total
  <2> DEFINE there == {s \in ids : slot[s] # Gone}
             all == {s \in Slots : slot[s] # Gone}
  <2>1. ids \subseteq Slots
    BY DEF Work, Line
  <2>2. all \in SUBSET Slots /\ there \in SUBSET all
    BY <2>1
  <2>3. n = Cardinality(Bytes(there)) /\ Total = Cardinality(Bytes(all))
    BY DEF Held, Total
  <2> HIDE DEF n, there, all
  <2> QED
    BY <2>2, <2>3, BytesGrow, BytesFinite
<1>4. Total \in Nat /\ userFreed[p] \in Nat /\ limits.size \in Nat
  BY Balance
<1>5. Total' = Total
  <2>1. Same
    BY <1>1 DEF Same
  <2> QED
    BY <2>1, TotalNext
<1> HIDE DEF n
<1>6. excess'[p] > 0 => limits.size > 0 /\ Total' + userFreed'[p] >= limits.size + excess'[p]
  <2> HIDE DEF Total
  <2> QED
    BY <1>1, <1>2, <1>3, <1>4, <1>5
<1> QED
  BY <1>1, <1>6 DEF PhaseOK

\* The size phase counts what it has really removed.
LEMMA TrimPhase ==
  ASSUME Store, Turns, Work, Store', NEW p \in Procs, PhaseOK(p), TrimToSize(p)
  PROVE  PhaseOK(p)'
<1>1. /\ pc[p] = "trim" /\ limits' = limits /\ gens' = gens /\ userFreed' = userFreed
      /\ quota' = quota
  BY DEF TrimToSize
<1>2. CASE Goto(p, "press")
  BY <1>2, PhaseEnds DEF Turns, Goto
<1>3. ASSUME excess[p] > 0, NEW x \in Oldest(p), Visit(p, x), NotPurged(x), UNCHANGED <<excess, pc>>
      PROVE  PhaseOK(p)'
  <2>1. todo'[p] \subseteq todo[p]
    BY <1>3 DEF Visit, Work
  <2>2. Total' = Total
    <3>1. Same
      BY <1>1, <1>3 DEF NotPurged, Same
    <3> QED
      BY <3>1, TotalNext
  <2>3. Total + userFreed[p] >= limits.size + excess[p]
    BY <1>1, <1>3, Balance
  <2> HIDE DEF Total
  <2> QED
    BY <1>1, <1>3, <2>1, <2>2, <2>3, PhaseStays
<1>4. ASSUME excess[p] > 0, NEW x \in Oldest(p), Purged(p, x), Freed(p, x), UNCHANGED pc
      PROVE  PhaseOK(p)'
  <2>1. x \in Line /\ x.id \in Slots
    BY OldestIsLine DEF Line
  <2>2. Dropped(x.id)
    BY <1>1, <1>4, <2>1, PurgedDrops
  <2>3. Total' \in Nat /\ Total = Total' + SizeOf[x.id]
    BY <2>1, <2>2, TotalNext
  <2>4. SizeOf[x.id] \in Nat
    BY <2>1, PurgeConstants
  <2>5. excess'[p] = IF excess[p] > SizeOf[x.id] THEN excess[p] - SizeOf[x.id] ELSE 0
    BY <1>4 DEF Freed, Work
  <2>6. /\ Total \in Nat /\ userFreed[p] \in Nat /\ excess[p] \in Nat /\ limits.size \in Nat
        /\ limits.size > 0 /\ Total + userFreed[p] >= limits.size + excess[p]
    BY <1>1, <1>4, Balance
  <2>7. excess'[p] > 0 => limits.size > 0 /\ Total' + userFreed[p] >= limits.size + excess'[p]
    <3> HIDE DEF Total
    <3> QED
      BY <2>3, <2>4, <2>5, <2>6
  <2> QED
    BY <1>1, <1>4, <2>7 DEF PhaseOK
<1> QED
  BY <1>2, <1>3, <1>4 DEF TrimToSize

\* A step of a run's own keeps its phase in order.
LEMMA OwnPhase ==
  ASSUME Store, Turns, Work, Store', NEW p \in Procs, PhaseOK(p),
         Mutate(p) \/ RunDeferred(p) \/ Proceed(p) \/ Crash(p)
  PROVE  PhaseOK(p)'
<1>1. ASSUME NEW to, Goto(p, to), to \notin {"age", "trim", "relieve"} PROVE PhaseOK(p)'
  BY <1>1, PhaseEnds DEF Goto, Turns
<1>2. ASSUME Leave(p) PROVE PhaseOK(p)'
  BY <1>1, <1>2 DEF Leave
<1>3. CASE Mutate(p)
  <2>1. pc'[p] \in {"idle", "look"}
    BY <1>3 DEF Mutate, Goto, Turns
  <2> QED
    BY <2>1, PhaseEnds
<1>4. CASE RunDeferred(p) \/ LookAtMarker(p) \/ TryLock(p) \/ Recheck(p)
  BY <1>1, <1>2, <1>4 DEF RunDeferred, LookAtMarker, TryLock, Recheck
<1>5. CASE PurgeExpired(p)
  <2>1. pc[p] = "age" /\ limits' = limits /\ excess' = excess /\ quota' = quota
    BY <1>5 DEF PurgeExpired
  <2>2. CASE Goto(p, "measure")
    BY <1>1, <2>2
  <2>3. ASSUME NEW x, Visit(p, x), UNCHANGED pc PROVE PhaseOK(p)'
    <3>1. todo'[p] \subseteq todo[p]
      BY <2>3 DEF Visit, Work
    <3> QED
      BY <2>1, <2>3, <3>1, PhaseStays
  <2> QED
    BY <1>5, <2>2, <2>3 DEF PurgeExpired
<1>6. CASE MeasurePressure(p)
  <2> DEFINE some == {x \in snap[p] : x.age >= MinAge /\ x.id \in OnHome}
  <2>1. limits' = limits /\ pc'[p] = "relieve"
    BY <1>6 DEF MeasurePressure, Goto, Turns, entries
  <2>2. \/ limits.pressure /\ todo' = [todo EXCEPT ![p] = some]
        \/ todo' = [todo EXCEPT ![p] = {}] /\ quota' = [quota EXCEPT ![p] = 0]
    BY <1>6 DEF MeasurePressure
  <2>3. limits.pressure \/ quota'[p] = 0
    BY <2>2 DEF Work
  <2>4. todo'[p] = some \/ todo'[p] = {}
    BY <2>2 DEF Work
  <2> QED
    BY <2>1, <2>3, <2>4 DEF PhaseOK, MinAge
<1>7. CASE RelievePressure(p)
  <2>1. pc[p] = "relieve" /\ limits' = limits /\ excess' = excess
    BY <1>7 DEF RelievePressure
  <2>2. CASE Goto(p, "finish")
    BY <1>1, <2>2
  <2>3. ASSUME quota[p] > 0, NEW x, Visit(p, x), UNCHANGED pc PROVE PhaseOK(p)'
    <3>1. todo'[p] \subseteq todo[p]
      BY <2>3 DEF Visit, Work
    <3>2. limits.pressure /\ \A y \in todo[p] : y.age >= MinAge
      BY <2>1, <2>3 DEF PhaseOK
    <3> QED
      BY <2>1, <2>3, <3>1, <3>2 DEF PhaseOK
  <2> QED
    BY <1>7, <2>2, <2>3 DEF RelievePressure
<1>8. CASE ListFails(p) \/ Finish(p) \/ Crash(p)
  BY <1>2, <1>8 DEF ListFails, Finish, Crash
<1> QED
  BY <1>3, <1>4, <1>5, <1>6, <1>7, <1>8, ListPhase, MeasurePhase, TrimPhase DEF Proceed, RunStep

\* Every phase removes what it may, until it must stop.
LEMMA PhasesNext == Store /\ Turns /\ Work /\ Alone /\ Phases /\ [Next]_vars => Phases'
<1> SUFFICES ASSUME Store, Turns, Work, Alone, Phases, [Next]_vars, NEW q \in Procs PROVE PhaseOK(q)'
  BY DEF Phases
<1>1. PhaseOK(q) /\ limits' = limits
  BY LimitsStay DEF Phases
<1>2. Store'
  BY StoreNext
<1>3. ASSUME NEW p \in Procs, Mutate(p) \/ RunDeferred(p) \/ Proceed(p) \/ Crash(p) PROVE PhaseOK(q)'
  <2>1. CASE q = p
    BY <1>1, <1>2, <1>3, <2>1, OwnPhase
  <2>2. CASE q # p
    BY <1>1, <1>3, <2>2, OtherPhase
  <2> QED
    BY <2>1, <2>2
<1>4. /\ Total \in Nat /\ userFreed[q] \in Nat /\ excess[q] \in Nat /\ limits.size \in Nat
      /\ pc[q] = "trim" /\ excess[q] > 0 => Total + userFreed[q] >= limits.size + excess[q]
  BY <1>1, Balance
<1>5. ASSUME NEW s \in Slots, UserRemoves(s) PROVE PhaseOK(q)'
  <2>1. UNCHANGED <<pc, todo, excess, quota>>
    BY <1>5 DEF UserRemoves, locals
  <2>2. Dropped(s)
    BY <1>5 DEF UserRemoves, locals, Store, Dropped
  <2>3. Total' \in Nat /\ Total = Total' + SizeOf[s] /\ SizeOf[s] \in Nat
    BY <1>2, <2>2, TotalNext, PurgeConstants
  <2>4. pc[q] = "trim" => userFreed'[q] = userFreed[q] + SizeOf[s]
    <3>1. pc[q] = "trim" => q \in running
      BY DEF Turns, Run
    <3> QED
      BY <1>5, <3>1 DEF UserRemoves, Run
  <2>5. pc[q] = "trim" /\ excess[q] > 0 => Total' + userFreed'[q] >= limits.size + excess[q]
    <3> HIDE DEF Total
    <3> QED
      BY <1>4, <2>3, <2>4
  <2> QED
    BY <1>1, <2>1, <2>5, PhaseStays
<1>6. ASSUME UNCHANGED <<pc, todo, excess, quota, userFreed>>, Same \/ Aged PROVE PhaseOK(q)'
  <2>1. Total' = Total
    BY <1>2, <1>6, TotalNext
  <2>2. pc[q] = "trim" /\ excess[q] > 0 => Total' + userFreed'[q] >= limits.size + excess[q]
    <3> HIDE DEF Total
    <3> QED
      BY <1>4, <1>6, <2>1
  <2> QED
    BY <1>1, <1>6, <2>2, PhaseStays
<1>7. CASE Tick
  BY <1>6, <1>7, TickAges DEF Tick
<1>8. CASE UNCHANGED vars
  BY <1>6, <1>8 DEF vars, locals, entries, Same
<1> QED
  BY <1>3, <1>5, <1>7, <1>8 DEF Next

-----------------------------------------------------------------------------
(* The theorems.                                                             *)

\* An empty trash, or old entries, and no run.
LEMMA InvInit == Init => IInv
<1> SUFFICES ASSUME Init PROVE IInv
  OBVIOUS
<1> USE PurgeConstants
<1>1. \A s \in Slots : slot[s] = Gone \/ slot[s] \in [gen: {1}, age: {OldAge}]
  BY DEF Init
<1>2. \A s \in Slots : slot[s] \in Entry \cup {Gone} /\ slot[s].gen \in 0..MaxGen /\ gens[s] = slot[s].gen
  <2> SUFFICES ASSUME NEW s \in Slots
               PROVE  slot[s] \in Entry \cup {Gone} /\ slot[s].gen \in 0..MaxGen /\ gens[s] = slot[s].gen
    OBVIOUS
  <2>1. gens[s] = slot[s].gen
    BY DEF Init
  <2>2. CASE slot[s] = Gone
    BY <2>1, <2>2 DEF Gone
  <2>3. CASE slot[s] \in [gen: {1}, age: {OldAge}]
    <3>1. 1 \in 1..MaxGen /\ 1 \in 0..MaxGen /\ OldAge \in 0..OldAge
      OBVIOUS
    <3>2. slot[s].gen = 1
      BY <2>3
    <3>3. slot[s] \in Entry
      BY <2>3, <3>1 DEF Entry
    <3> QED
      BY <2>1, <3>1, <3>2, <3>3
  <2> QED
    BY <1>1, <2>2, <2>3
<1>3. Store
  <2>1. limits \in Limits /\ stuck \in StuckSets
    BY DEF Init
  <2>2. pressed \in BOOLEAN
    BY <2>1 DEF Init
  <2>3. slot \in [Slots -> {Gone} \cup [gen: {1}, age: {OldAge}]] /\ gens = [s \in Slots |-> slot[s].gen]
    BY DEF Init
  <2>4. slot \in [Slots -> Entry \cup {Gone}] /\ gens \in [Slots -> 0..MaxGen]
    BY <1>2, <2>3
  <2> QED
    BY <2>1, <2>2, <2>4 DEF Store
<1>4. Clocks
  BY DEF Init, Clocks
<1>5. Turns /\ Alone
  BY DEF Init, Turns, Alone, Steps, Run
<1>6. Work
  BY FS_EmptySet DEF Init, Work
<1>7. Marked
  BY DEF Init, Marked
<1>8. Used
  BY <1>2 DEF Used
<1>9. Listed /\ Phases
  BY DEF Init, Listed, Phases, PhaseOK
<1> QED
  BY <1>3, <1>4, <1>5, <1>6, <1>7, <1>8, <1>9 DEF IInv

\* Every step keeps it.
LEMMA InvNext == IInv /\ [Next]_vars => IInv'
  BY StoreNext, ClocksNext, TurnsNext, WorkNext, MarkedNext, UsedNext, ListedNext, PhasesNext DEF IInv

\* The inductive invariant: one run at a time, the marker as old as the last one, listings that say
\* nothing false of what is still there, and a size phase that never has more to free than is too
\* much (maybe_auto_purge and auto_purge_in_roots).
THEOREM Invariance == Spec => []IInv
  BY InvInit, InvNext, PTL DEF Spec

\* Types, and a lock held exactly from the second look at the marker to the end of a run.
THEOREM Typing == Spec => []TypeOK
<1>1. IInv => TypeOK
  BY DEF IInv, Store, Clocks, Turns, Work, TypeOK
<1> QED
  BY <1>1, Invariance, PTL

\* A step that changes something a process keeps for itself is a step of that process.
LEMMA Acts ==
  ASSUME Turns, Work, [Next]_vars, NEW p \in Procs, pc'[p] # pc[p] \/ todo'[p] # todo[p]
  PROVE  Mutate(p) \/ RunDeferred(p) \/ Proceed(p) \/ Crash(p)
<1>1. ASSUME NEW q \in Procs, Mutate(q) \/ RunDeferred(q) \/ Proceed(q) \/ Crash(q) PROVE q = p
  <2>1. OthersKeep(q)
    BY <1>1, Private
  <2> QED
    BY <2>1 DEF OthersKeep
<1> QED
  BY <1>1 DEF Next, UserRemoves, Tick, vars, locals

\* A run that begins finds the marker due.
LEMMA BeginsDue ==
  ASSUME IInv, [Next]_vars, NEW p \in Procs, pc[p] = "recheck", pc'[p] = "list"
  PROVE  sinceRun >= Interval
<1>1. Marked /\ Clocks /\ Turns /\ Work
  BY DEF IInv
<1>2. Recheck(p)
  <2>1. Mutate(p) \/ RunDeferred(p) \/ Proceed(p) \/ Crash(p)
    BY <1>1, Acts
  <2>2. ~Crash(p)
    BY <1>1 DEF Crash, Leave, Goto, Turns
  <2> QED
    BY <2>1, <2>2 DEF Mutate, RunDeferred, Proceed, LookAtMarker, TryLock, RunStep, ListRoots,
       ListFails, PurgeExpired, MeasureSizes, TrimToSize, MeasurePressure, RelievePressure, Finish
<1>3. ~(markAge < Interval)
  BY <1>1, <1>2 DEF Recheck, Leave, Goto, Turns
<1> QED
  BY <1>1, <1>3, PurgeConstants DEF Marked, Clocks

\* A run that removes an entry has found that very entry, old enough for its
\* phase or the trash too large.
LEMMA RemovesDue ==
  ASSUME IInv, [Next]_vars, NEW p \in Procs, NEW s \in Slots, Removes(p, s),
         pc[p] \in Run, pc'[p] = pc[p], todo'[p] # todo[p]
  PROVE  \/ slot[s].age >= MinAge /\ (limits.age > 0 \/ limits.size > 0 \/ limits.pressure)
         \/ limits.size > 0 /\ pc[p] = "trim"
<1>1. Store /\ Turns /\ Work /\ Listed /\ PhaseOK(p)
  BY DEF IInv, Phases
<1>2. Mutate(p) \/ RunDeferred(p) \/ Proceed(p) \/ Crash(p)
  BY <1>1, Acts
<1>3. PurgeExpired(p) \/ TrimToSize(p) \/ RelievePressure(p)
  <2>1. \A to : Goto(p, to) => pc[p] = to
    BY <1>1 DEF Goto, Turns
  <2> QED
    BY <1>2, <2>1 DEF Run, Mutate, RunDeferred, Proceed, LookAtMarker, TryLock, Recheck, RunStep,
       ListRoots, ListFails, MeasureSizes, MeasurePressure, Finish, Crash, Leave
<1>4. gens' = gens /\ slot' # slot
  BY <1>3 DEF PurgeExpired, TrimToSize, RelievePressure, Removes
<1>5. PICK x \in Oldest(p) : Purged(p, x)
  BY <1>3, <1>4 DEF PurgeExpired, TrimToSize, RelievePressure, NotPurged
<1>6. x \in todo[p] /\ x \in Line
  BY <1>1, OldestIsLine
<1>7. s = x.id /\ slot[s].gen = x.gen
  <2>1. x.id \in Slots /\ slot[x.id].gen = x.gen /\ Dropped(x.id)
    BY <1>1, <1>4, <1>5, <1>6, PurgedDrops
  <2> QED
    BY <2>1 DEF Dropped, Removes
<1>8. slot[s].age >= x.age /\ slot[s].age \in Nat /\ x.age \in Nat /\ limits.age \in Nat
  <2>1. LineOK(x)
    BY <1>1, <1>6 DEF Listed
  <2> QED
    BY <1>1, <1>6, <1>7, <2>1, PurgeConstants DEF LineOK, Store, Entry, Gone, Line
<1>9. CASE PurgeExpired(p)
  <2>1. limits.age > 0 /\ x.age >= limits.age
    BY <1>1, <1>6, <1>9 DEF PurgeExpired, PhaseOK
  <2> QED
    BY <1>8, <2>1 DEF MinAge
<1>10. CASE TrimToSize(p)
  <2>1. pc[p] = "trim" /\ excess[p] > 0
    BY <1>4, <1>10 DEF TrimToSize
  <2> QED
    BY <1>1, <2>1 DEF PhaseOK
<1>11. CASE RelievePressure(p)
  <2>1. pc[p] = "relieve" /\ quota[p] > 0
    BY <1>4, <1>11 DEF RelievePressure
  <2>2. x.age >= MinAge /\ limits.pressure
    BY <1>1, <1>6, <2>1 DEF PhaseOK
  <2> QED
    BY <1>8, <2>2 DEF MinAge
<1> QED
  BY <1>3, <1>9, <1>10, <1>11

\* The size phase counts down only while the trash is too large.
LEMMA TrimsDue ==
  ASSUME IInv, [Next]_vars, NEW p \in Procs, pc[p] = "trim", excess'[p] < excess[p]
  PROVE  Total + userFreed[p] > limits.size
<1>1. Store /\ Work /\ Work' /\ PhaseOK(p)
  BY WorkNext DEF IInv, Phases
<1>2. /\ Total \in Nat /\ userFreed[p] \in Nat /\ excess[p] \in Nat /\ limits.size \in Nat
      /\ excess[p] > 0 => Total + userFreed[p] >= limits.size + excess[p]
  BY <1>1, Balance
<1>3. excess'[p] \in Nat
  BY <1>1 DEF Work
<1> HIDE DEF Total
<1> QED
  BY <1>2, <1>3

\* Runs begin an interval apart, remove only the entries that were listed and are due, and stop at
\* the size limit, whatever users and other processes do to the trash meanwhile, however long time
\* passes between two steps, and whoever is killed (maybe_auto_purge and auto_purge_in_roots).
THEOREM Right == Spec => PurgesRight
<1>1. IInv /\ [Next]_vars =>
        [\A p \in Procs : pc[p] = "recheck" /\ pc'[p] = "list" => sinceRun >= Interval]_vars
  BY BeginsDue
<1>2. IInv /\ [Next]_vars =>
        [\A p \in Procs, s \in Slots :
           Removes(p, s) /\ pc[p] \in Run /\ pc'[p] = pc[p] /\ todo'[p] # todo[p] =>
               \/ slot[s].age >= MinAge /\ (limits.age > 0 \/ limits.size > 0 \/ limits.pressure)
               \/ limits.size > 0 /\ pc[p] = "trim"]_vars
  BY RemovesDue
<1>3. IInv /\ [Next]_vars =>
        [\A p \in Procs :
           pc[p] = "trim" /\ excess'[p] # excess[p] /\ excess'[p] < excess[p] =>
               Total + userFreed[p] > limits.size]_vars
  BY TrimsDue
<1>4. Spec => Throttled
  BY <1>1, Invariance, PTL DEF Spec, Throttled
<1>5. Spec => RecentKept
  BY <1>2, Invariance, PTL DEF Spec, RecentKept
<1>6. Spec => NotOverTrimmed
  BY <1>3, Invariance, PTL DEF Spec, NotOverTrimmed
<1> QED
  BY <1>4, <1>5, <1>6 DEF PurgesRight

-----------------------------------------------------------------------------
(* trash fsck on any root, whatever trashd, file managers and the user do    *)
(* meanwhile.                                                                *)

CONSTANTS Ids, Docs, Ours, Desktop, Starts, MaxChanges, Careful, None
VARIABLES
  start, files, info, lock, fsckPc, cur, listed, fsckTodo, known, cand, snaps, found, mpc, mid,
  mdoc, changes, ver, disturbed, stranded, purged

F == INSTANCE Fsck WITH pc <- fsckPc, todo <- fsckTodo

Sidecar == [ver : Nat, kind : {"none", "good", "corrupt", "odd"}, old : BOOLEAN]
Findings == {"info", "files", "corrupt", "unresolved", "unchecked"}
FsckSteps == {"start", "openInfo", "info", "remove", "openFiles", "files", "list", "snap", "ask",
          "relock", "purge", "sidecar", "report", "ok", "problems"}

-----------------------------------------------------------------------------
(* The inductive invariant.                                                  *)

Places ==
  /\ files \in [Ids -> Docs \cup {None}] /\ info \in [Ids -> Sidecar]
  /\ \A id \in Ids : info[id].ver <= ver /\ (info[id].kind = "none" => info[id] = F!Missing)
Own ==
  /\ fsckPc \in FsckSteps /\ cur \in Ids \cup {None} /\ found \subseteq Findings
  /\ listed \subseteq Ids /\ fsckTodo \subseteq Ids /\ cand \subseteq Ids
  /\ snaps \in [Ids -> {None} \cup [doc : Docs \cup {None}, ver : Nat]]
  /\ fsckPc \in {"remove", "relock", "purge", "sidecar"} => cur \in Ids /\ start.fix
  /\ fsckPc = "snap" => start.fix
Outside ==
  /\ mpc \in [F!Movers -> {"idle", "moving", "taking"}] /\ mid \in [F!Movers -> Ids \cup {None}]
  /\ mdoc \in [F!Movers -> Docs \cup {None}] /\ changes \in 0 .. MaxChanges /\ ver \in Nat
  /\ disturbed \subseteq {"before", "move", "harm"}
Shape == start \in Starts /\ Places /\ Own /\ Outside

\* Who holds the lock; a file manager is done before its sidecar is old.
LockHeld ==
  /\ fsckPc \in {"purge", "sidecar"} => F!Locked
  /\ start.fix /\ fsckPc \in {"openInfo", "info", "remove", "openFiles", "files", "list", "snap"} => F!Locked
  /\ \A m \in F!Movers : mpc[m] = "taking" => m \in Ours
  /\ \A m \in F!Movers : mpc[m] # "idle" => mid[m] \in Ids
  /\ \A m \in Ours : mpc[m] # "idle" => lock = m
  /\ \A m \in Desktop : mpc[m] = "moving" => ~info[mid[m]].old

\* While sidecars without data are looked for with the lock, no sidecar goes; the one that is
\* about to be removed is old, and so nobody's.
Listing ==
  /\ fsckPc \in {"info", "remove"} /\ start.fix => \A id \in listed \cap fsckTodo : info[id] # F!Missing
  /\ fsckPc = "remove" => files[cur] = None /\ info[cur].old /\ cur \notin fsckTodo

\* A snapshot is of data without a valid sidecar, and a sidecar written later has another version.
Snapped ==
  /\ \A id \in Ids : snaps[id] # None =>
       snaps[id].ver <= ver /\ (Careful /\ info[id].ver = snaps[id].ver => info[id].kind # "good")
  /\ Careful /\ fsckPc = "snap" => \A id \in Ids \ known : info[id].kind # "good"
  /\ fsckPc \in {"relock", "purge"} => snaps[cur] # None

\* Nobody has interfered, and nothing was found that makes the exit status 1.
Tidy == disturbed \subseteq {"before"} /\ F!Clean
\* What is done for the sidecar of an ID, and for its data.
Sound(id) == info[id] # F!Missing => ~F!Problem(id)
Orphan(id) == files[id] # None /\ info[id] = F!Missing
Looked == Tidy =>
  /\ fsckPc \in {"info", "remove"} =>
       /\ F!Named("info") \subseteq listed
       /\ \A id \in Ids \ fsckTodo : Sound(id) \/ (fsckPc = "remove" /\ id = cur)
  /\ fsckPc \in {"openFiles", "files", "list", "snap", "ask", "relock", "purge", "report", "ok"} =>
       \A id \in Ids : Sound(id)
  /\ fsckPc = "files" => F!Named("files") \subseteq listed
                         /\ \A id \in Ids \ fsckTodo : Orphan(id) => id \in cand
  /\ fsckPc \in {"list", "snap", "ask"} => \A id \in Ids : Orphan(id) => id \in cand
  /\ fsckPc = "ask" /\ ~start.fix => cand = {}
  /\ fsckPc \in {"relock", "purge"} => \A id \in Ids : Orphan(id) => id \in cand \cup {cur}
  /\ fsckPc = "sidecar" =>
       /\ files[cur] = None
       /\ \A id \in Ids \ {cur} : Sound(id) /\ (Orphan(id) => id \in cand)
  /\ fsckPc \in {"report", "ok"} => \A id \in Ids : ~Orphan(id)
Exits == fsckPc = "ok" => F!Clean

FsckInv == Shape /\ LockHeld /\ Listing /\ Snapped /\ Looked /\ Exits /\ F!NoneStranded
        /\ (Careful => F!RecoveredKept)

-----------------------------------------------------------------------------
(* Types.                                                                    *)

\* A sidecar is removed, and the others stay.
LEMMA SidecarGoes ==
  ASSUME Places, ver \in Nat, NEW id \in Ids, info' = [info EXCEPT ![id] = F!Missing]
  PROVE  /\ info' \in [Ids -> Sidecar]
         /\ \A i \in Ids : info'[i] = IF i = id THEN F!Missing ELSE info[i]
         /\ \A i \in Ids : info'[i].ver <= ver /\ (info'[i].kind = "none" => info'[i] = F!Missing)
<1>1. F!Missing \in Sidecar /\ F!Missing.ver = 0
  BY DEF F!Missing, Sidecar
<1>2. \A i \in Ids : info'[i] = IF i = id THEN F!Missing ELSE info[i]
  BY DEF Places
<1>3. info' \in [Ids -> Sidecar]
  BY <1>1 DEF Places
<1> QED
  BY <1>1, <1>2, <1>3 DEF Places

\* A sidecar is written, with a version of its own.
LEMMA SidecarWritten ==
  ASSUME Places, ver \in Nat, NEW id \in Ids, F!Write(id, F!Fresh(ver + 1))
  PROVE  /\ info' \in [Ids -> Sidecar]
         /\ info'[id].ver = ver + 1 /\ info'[id].kind = "good" /\ ~info'[id].old
         /\ info'[id] # F!Missing
         /\ \A i \in Ids : i # id => info'[i] = info[i]
  BY DEF Places, F!Write, F!Fresh, F!Missing, Sidecar

\* A sidecar gets old.
LEMMA SidecarAges ==
  ASSUME Places, NEW id \in Ids, info[id] # F!Missing, F!Write(id, [info[id] EXCEPT !.old = TRUE])
  PROVE  /\ info' \in [Ids -> Sidecar]
         /\ info'[id].ver = info[id].ver /\ info'[id].kind = info[id].kind /\ info'[id].old
         /\ info'[id] # F!Missing
         /\ \A i \in Ids : i # id => info'[i] = info[i]
  BY DEF Places, F!Write, F!Missing, Sidecar

\* The step of a mover is its own.
LEMMA MoverDoes ==
  ASSUME Outside, NEW m \in F!Movers, NEW p \in {"idle", "moving", "taking"},
         NEW id \in Ids \cup {None}, NEW d \in Docs \cup {None}, F!Mover(m, p, id, d)
  PROVE  /\ mpc' \in [F!Movers -> {"idle", "moving", "taking"}]
         /\ mid' \in [F!Movers -> Ids \cup {None}] /\ mdoc' \in [F!Movers -> Docs \cup {None}]
         /\ mpc'[m] = p /\ mid'[m] = id /\ mdoc'[m] = d
         /\ \A n \in F!Movers : n # m => mpc'[n] = mpc[n] /\ mid'[n] = mid[n] /\ mdoc'[n] = mdoc[n]
  BY DEF Outside, F!Mover

\* The steps of fsck keep to the types.
LEMMA ShapeFsck ==
  ASSUME F!StartsAssumption, Shape, F!Fsck
  PROVE  Shape'
<1>1. start.fix \in BOOLEAN
  BY DEF F!StartsAssumption, Shape
<1> USE DEF F!Rest, F!others, F!scan, F!Flag, Shape, Own, FsckSteps, Findings
<1>2. ASSUME F!Lock PROVE Shape'
  BY <1>1, <1>2 DEF F!Lock, F!Guarded, Places, Outside
<1>3. ASSUME F!OpenInfo PROVE Shape'
  BY <1>1, <1>3 DEF F!OpenInfo, F!Open, F!Named, F!Unreadable, Places, Outside
<1>4. ASSUME F!OpenFiles PROVE Shape'
  BY <1>1, <1>4 DEF F!OpenFiles, F!Open, F!Named, F!Unreadable, Places, Outside
<1>5. ASSUME F!EndInfo PROVE Shape'
  BY <1>1, <1>5 DEF F!EndInfo, F!Pass, F!Unreadable, Places, Outside
<1>6. ASSUME F!EndFiles PROVE Shape'
  BY <1>1, <1>6 DEF F!EndFiles, F!Pass, F!Unreadable, Places, Outside
<1>7. ASSUME F!VisitInfo PROVE Shape'
  BY <1>1, <1>7, ZenonT(60) DEF F!VisitInfo, F!Fixed, Places, Outside
<1>8. ASSUME F!RemoveInfo PROVE Shape'
  <2>1. fsckPc = "remove" /\ cur \in Ids
    BY <1>8 DEF F!RemoveInfo
  <2>2. /\ UNCHANGED <<start, files, cur, snaps, cand, F!others, F!scan>>
        /\ fsckPc' = "info" /\ found' \subseteq Findings
    BY <1>8 DEF F!RemoveInfo
  <2>3. CASE info' = info
    BY <2>2, <2>3 DEF Places, Outside
  <2>4. CASE info' = [info EXCEPT ![cur] = F!Missing]
    <3>1. Places'
      BY <2>1, <2>2, <2>4, SidecarGoes DEF Places, Outside
    <3> QED
      BY <2>2, <3>1 DEF Outside
  <2> QED
    BY <1>8, <2>3, <2>4 DEF F!RemoveInfo
<1>9. ASSUME F!VisitFiles PROVE Shape'
  BY <1>1, <1>9 DEF F!VisitFiles, Places, Outside
<1>10. ASSUME F!List PROVE Shape'
  BY <1>1, <1>10 DEF F!List, F!Ask, F!DropGuard, Places, Outside
<1>11. ASSUME F!Snap PROVE Shape'
  <2>1. UNCHANGED <<start, files, info, cur, listed, cand, F!others>> /\ found' \subseteq Findings
        /\ fsckPc = "snap" /\ fsckPc' \in {"snap", "ask"} /\ fsckTodo' \subseteq Ids
    BY <1>11 DEF F!Snap, F!Ask
  <2>2. snaps' \in [Ids -> {None} \cup [doc : Docs \cup {None}, ver : Nat]]
    <3>1. CASE snaps' = snaps
      BY <3>1
    <3>2. ASSUME NEW id \in Ids,
                 snaps' = [snaps EXCEPT ![id] = [doc |-> files[id], ver |-> info[id].ver]]
          PROVE  snaps' \in [Ids -> {None} \cup [doc : Docs \cup {None}, ver : Nat]]
      <4>1. files[id] \in Docs \cup {None} /\ info[id].ver \in Nat
        BY DEF Places, Sidecar
      <4> QED
        BY <3>2, <4>1
    <3> QED
      BY <1>11, <3>1, <3>2 DEF F!Snap
  <2> QED
    BY <1>1, <2>1, <2>2 DEF Places, Outside
<1>12. ASSUME F!Answer PROVE Shape'
  BY <1>1, <1>12 DEF F!Answer, Places, Outside
<1>13. ASSUME F!Relock PROVE Shape'
  BY <1>1, <1>13 DEF F!Relock, Places, Outside
<1>14. ASSUME F!PurgeData PROVE Shape'
  <2>1. UNCHANGED <<start, info, cur, F!scan, cand, snaps, F!others>> /\ found' \subseteq Findings
        /\ fsckPc = "purge" /\ fsckPc' \in {"sidecar", "ask"} /\ cur \in Ids
        /\ (files' = files \/ files' = [files EXCEPT ![cur] = None])
    BY <1>14 DEF F!PurgeData
  <2>2. files' \in [Ids -> Docs \cup {None}]
    BY <2>1 DEF Places
  <2> QED
    BY <1>1, <2>1, <2>2 DEF Places, Outside
<1>15. ASSUME F!PurgeSidecar PROVE Shape'
  <2>1. UNCHANGED <<start, files, cur, F!scan, cand, snaps, F!others>> /\ found' \subseteq Findings
        /\ fsckPc = "sidecar" /\ fsckPc' = "ask" /\ cur \in Ids
    BY <1>15 DEF F!PurgeSidecar
  <2>2. CASE info' = info
    BY <2>1, <2>2 DEF Places, Outside
  <2>3. CASE info' = [info EXCEPT ![cur] = F!Missing]
    <3>1. Places'
      BY <2>1, <2>3, SidecarGoes DEF Places, Outside
    <3> QED
      BY <2>1, <3>1 DEF Outside
  <2> QED
    BY <1>15, <2>2, <2>3 DEF F!PurgeSidecar
<1>16. ASSUME F!Report PROVE Shape'
  BY <1>1, <1>16 DEF F!Report, F!DropGuard, Places, Outside
<1> QED
  BY <1>2, <1>3, <1>4, <1>5, <1>6, <1>7, <1>8, <1>9, <1>10, <1>11, <1>12, <1>13, <1>14, <1>15,
     <1>16 DEF F!Fsck

\* What all others leave as it is, and that it shows in the ghost.
LEMMA WorldDoes ==
  ASSUME F!StartsAssumption, Shape, F!World
  PROVE  F!Mine /\ disturbed' \subseteq {"before", "move", "harm"}
         /\ (fsckPc # "start" => ~(disturbed' \subseteq {"before"}))
         /\ changes' \in 0 .. MaxChanges
<1>1. F!Mine /\ \E how \in {"move", "harm"} : F!Disturb(how)
  BY DEF F!World, F!Begin, F!Land, F!Take, F!Drop, F!Die, F!Age, F!Recover, F!Replace, F!Spend
<1>2. changes' = changes \/ (changes < MaxChanges /\ changes' = changes + 1)
  BY DEF F!World, F!Begin, F!Land, F!Take, F!Drop, F!Die, F!Age, F!Recover, F!Replace, F!Spend
<1>3. changes' \in 0 .. MaxChanges
  BY <1>2 DEF Shape, Outside, F!StartsAssumption
<1> QED
  BY <1>1, <1>3 DEF F!Disturb, Shape, Outside

\* So do the steps of the others.
LEMMA ShapeWorld ==
  ASSUME F!StartsAssumption, Shape, LockHeld, F!World
  PROVE  Shape'
<1>1. /\ F!Mine /\ disturbed' \subseteq {"before", "move", "harm"} /\ changes' \in 0 .. MaxChanges
      /\ Places /\ Outside /\ ver \in Nat
  BY WorldDoes DEF Shape, Outside
<1>2. start' \in Starts /\ Own'
  BY <1>1 DEF F!Mine, F!scan, Shape, Own
<1> SUFFICES files' \in [Ids -> Docs \cup {None}] /\ info' \in [Ids -> Sidecar]
             /\ (\A id \in Ids : info'[id].ver <= ver' /\ (info'[id].kind = "none" => info'[id] = F!Missing))
             /\ mpc' \in [F!Movers -> {"idle", "moving", "taking"}] /\ mid' \in [F!Movers -> Ids \cup {None}]
             /\ mdoc' \in [F!Movers -> Docs \cup {None}] /\ ver' \in Nat
  BY <1>1, <1>2 DEF Shape, Places, Outside
<1>3. ASSUME NEW m \in F!Movers, F!Begin(m) PROVE Places' /\ Outside'
  <2>1. PICK id \in Ids, d \in Docs :
          /\ ver' = ver + 1 /\ F!Write(id, F!Fresh(ver + 1)) /\ F!Mover(m, "moving", id, d) /\ files' = files
    BY <1>3 DEF F!Begin
  <2>2. Places'
    BY <1>1, <2>1, SidecarWritten DEF Places, Sidecar
  <2> QED
    BY <1>1, <2>1, <2>2, MoverDoes DEF Outside
<1>4. ASSUME NEW m \in F!Movers, F!Land(m) PROVE Places' /\ Outside'
  <2>1. UNCHANGED <<info, ver>> /\ files' = [files EXCEPT ![mid[m]] = mdoc[m]] /\ F!Mover(m, "idle", None, None)
        /\ mdoc[m] \in Docs \cup {None}
    BY <1>1, <1>4 DEF F!Land, Outside
  <2>2. Places'
    BY <1>1, <2>1 DEF Places
  <2> QED
    BY <1>1, <2>1, <2>2, MoverDoes DEF Outside
<1>5. ASSUME NEW m \in F!Movers, F!Take(m) PROVE Places' /\ Outside'
  <2>1. PICK id \in Ids : /\ files' = [files EXCEPT ![id] = None] /\ F!Mover(m, "taking", id, None)
                          /\ UNCHANGED <<info, ver>>
    BY <1>5 DEF F!Take
  <2>2. Places'
    BY <1>1, <2>1 DEF Places
  <2> QED
    BY <1>1, <2>1, <2>2, MoverDoes DEF Outside
<1>6. ASSUME NEW m \in F!Movers, F!Drop(m) PROVE Places' /\ Outside'
  <2>1. /\ UNCHANGED <<files, ver>> /\ F!Mover(m, "idle", None, None)
        /\ info' = [info EXCEPT ![mid[m]] = F!Missing]
        /\ mid[m] \in Ids
    BY <1>6 DEF F!Drop, F!Write, LockHeld
  <2>2. Places'
    BY <1>1, <2>1, SidecarGoes DEF Places
  <2> QED
    BY <1>1, <2>1, <2>2, MoverDoes DEF Outside
<1>7. ASSUME NEW m \in F!Movers, F!Die(m) PROVE Places' /\ Outside'
  <2>1. UNCHANGED <<files, info, ver>> /\ F!Mover(m, "idle", None, None)
    BY <1>7 DEF F!Die
  <2> QED
    BY <1>1, <2>1, MoverDoes DEF Outside, Places
<1>8. ASSUME F!Age PROVE Places' /\ Outside'
  <2>1. PICK id \in Ids : /\ info[id] # F!Missing /\ F!Write(id, [info[id] EXCEPT !.old = TRUE])
                          /\ UNCHANGED <<files, mpc, mid, mdoc, ver>>
    BY <1>8 DEF F!Age
  <2>2. Places'
    BY <1>1, <2>1, SidecarAges DEF Places
  <2> QED
    BY <1>1, <2>1, <2>2 DEF Outside
<1>9. ASSUME F!Recover PROVE Places' /\ Outside'
  <2>1. PICK id \in Ids : /\ ver' = ver + 1 /\ F!Write(id, F!Fresh(ver + 1))
                          /\ UNCHANGED <<files, mpc, mid, mdoc>>
    BY <1>9 DEF F!Recover
  <2>2. Places'
    BY <1>1, <2>1, SidecarWritten DEF Places, Sidecar
  <2> QED
    BY <1>1, <2>1, <2>2 DEF Outside
<1>10. ASSUME F!Replace PROVE Places' /\ Outside'
  <2>1. PICK id \in Ids, d \in Docs :
          files' = [files EXCEPT ![id] = d] /\ UNCHANGED <<info, mpc, mid, mdoc, ver>>
    BY <1>10 DEF F!Replace
  <2>2. Places'
    BY <1>1, <2>1 DEF Places
  <2> QED
    BY <1>1, <2>1, <2>2 DEF Outside
<1> QED
  BY <1>3, <1>4, <1>5, <1>6, <1>7, <1>8, <1>9, <1>10 DEF F!World, Places, Outside

-----------------------------------------------------------------------------
(* The lock.                                                                 *)

\* fsck holds the lock through its passes, and gives it up only between them and the questions.
LEMMA HeldFsck ==
  ASSUME F!StartsAssumption, Shape, LockHeld, F!Fsck
  PROVE  LockHeld'
<1>1. UNCHANGED <<start, mpc, mid>> /\ (info' = info \/ info' = [info EXCEPT ![cur] = F!Missing])
  BY DEF F!Fsck, F!Rest, F!others, F!Lock, F!OpenInfo, F!OpenFiles, F!Open, F!EndInfo, F!EndFiles,
     F!Pass, F!VisitInfo, F!RemoveInfo, F!VisitFiles, F!List, F!Snap, F!Answer, F!Relock,
     F!PurgeData, F!PurgeSidecar, F!Report
<1>2. \A m \in Desktop : mpc'[m] = "moving" => ~info'[mid'[m]].old
  <2> SUFFICES ASSUME NEW m \in Desktop, mpc[m] = "moving" PROVE ~info'[mid[m]].old
    BY <1>1
  <2>1. mid[m] \in Ids /\ ~info[mid[m]].old
    BY DEF LockHeld, F!Movers
  <2>2. \A i \in Ids : info'[i] = info[i] \/ ~info'[i].old
    BY <1>1 DEF Shape, Places, F!Missing
  <2> QED
    BY <2>1, <2>2
<1>3. "fsck" \notin Ours /\ Ours \subseteq F!Movers /\ (lock = "fsck" => \A m \in Ours : mpc[m] = "idle")
  BY DEF F!StartsAssumption, F!Movers, LockHeld
<1>4. lock' # lock => lock = "fsck" \/ lock = None
  BY DEF F!Fsck, LockHeld, F!Locked, F!Lock, F!OpenInfo, F!OpenFiles, F!Open, F!EndInfo,
     F!EndFiles, F!Pass, F!VisitInfo, F!RemoveInfo, F!VisitFiles, F!List, F!Snap, F!Answer,
     F!Relock, F!PurgeData, F!PurgeSidecar, F!Report, F!Ask, F!DropGuard
<1>5. \A m \in Ours : mpc[m] # "idle" => lock' = m
  <2> SUFFICES ASSUME NEW m \in Ours, mpc[m] # "idle" PROVE lock' = m
    OBVIOUS
  <2>1. lock = m /\ m # None /\ m # "fsck"
    BY DEF LockHeld, F!StartsAssumption, F!Movers
  <2> QED
    BY <1>4, <2>1
<1> DEFINE Step == /\ fsckPc' \in {"purge", "sidecar"} => F!Locked'
                   /\ start.fix /\ fsckPc' \in {"openInfo", "info", "remove", "openFiles", "files",
                                            "list", "snap"} => F!Locked'
<1> USE DEF F!Locked
<1>6. ASSUME F!Lock PROVE Step
  BY <1>6 DEF LockHeld, F!Lock, F!Guarded
<1>7. ASSUME F!OpenInfo PROVE Step
  BY <1>7 DEF LockHeld, F!OpenInfo, F!Open
<1>8. ASSUME F!OpenFiles PROVE Step
  BY <1>8 DEF LockHeld, F!OpenFiles, F!Open
<1>9. ASSUME F!EndInfo PROVE Step
  BY <1>9 DEF LockHeld, F!EndInfo, F!Pass
<1>10. ASSUME F!EndFiles PROVE Step
  BY <1>10 DEF LockHeld, F!EndFiles, F!Pass
<1>11. ASSUME F!VisitInfo PROVE Step
  BY <1>11 DEF LockHeld, F!VisitInfo
<1>12. ASSUME F!RemoveInfo PROVE Step
  BY <1>12 DEF LockHeld, F!RemoveInfo
<1>13. ASSUME F!VisitFiles PROVE Step
  BY <1>13 DEF LockHeld, F!VisitFiles
<1>14. ASSUME F!List PROVE Step
  BY <1>14 DEF LockHeld, F!List, F!Ask, F!DropGuard
<1>15. ASSUME F!Snap PROVE Step
  BY <1>15 DEF LockHeld, F!Snap, F!Ask, F!DropGuard
<1>16. ASSUME F!Answer PROVE Step
  BY <1>16 DEF LockHeld, F!Answer
<1>17. ASSUME F!Relock PROVE Step
  BY <1>17 DEF LockHeld, F!Relock
<1>18. ASSUME F!PurgeData PROVE Step
  BY <1>18 DEF LockHeld, F!PurgeData
<1>19. ASSUME F!PurgeSidecar PROVE Step
  BY <1>19 DEF LockHeld, F!PurgeSidecar
<1>20. ASSUME F!Report PROVE Step
  BY <1>20 DEF LockHeld, F!Report, F!DropGuard
<1>21. Step
  BY <1>6, <1>7, <1>8, <1>9, <1>10, <1>11, <1>12, <1>13, <1>14, <1>15, <1>16, <1>17, <1>18, <1>19,
     <1>20 DEF F!Fsck
<1> QED
  BY <1>1, <1>2, <1>5, <1>21 DEF LockHeld

\* While fsck holds the lock, no process of trashd moves anything.
LEMMA OursIdle ==
  ASSUME F!StartsAssumption, LockHeld, F!Locked, NEW m \in F!Movers, mpc[m] # "idle"
  PROVE  m \in Desktop /\ m \notin Ours /\ mpc[m] # "taking"
  BY DEF F!StartsAssumption, LockHeld, F!Locked, F!Movers

\* Nobody takes the lock from fsck, and a process that has moved a sidecar keeps its own.
LEMMA HeldWorld ==
  ASSUME F!StartsAssumption, Shape, LockHeld, F!World
  PROVE  LockHeld'
<1>1. F!Mine /\ Places /\ Outside /\ ver \in Nat /\ None \notin F!Movers \cup {"fsck"} /\ "fsck" \notin F!Movers
  BY WorldDoes DEF Shape, Outside, F!StartsAssumption
<1> DEFINE Kept == /\ lock = "fsck" => lock' = "fsck"
                   /\ \A m \in F!Movers : mpc'[m] = "taking" => m \in Ours
                   /\ \A m \in F!Movers : mpc'[m] # "idle" => mid'[m] \in Ids
                   /\ \A m \in Ours : mpc'[m] # "idle" => lock' = m
                   /\ \A m \in Desktop : mpc'[m] = "moving" => ~info'[mid'[m]].old
<1>2. SUFFICES Kept
  BY <1>1 DEF LockHeld, F!Mine, F!Locked
<1>3. Ours \subseteq F!Movers /\ Desktop \subseteq F!Movers
  BY DEF F!Movers
<1>4. ASSUME NEW m \in F!Movers, F!Begin(m) PROVE Kept
  <2>1. PICK id \in Ids, d \in Docs :
          /\ mpc[m] = "idle" /\ (m \in Ours => lock = None) /\ lock' = IF m \in Ours THEN m ELSE lock
          /\ F!Write(id, F!Fresh(ver + 1)) /\ F!Mover(m, "moving", id, d)
    BY <1>4 DEF F!Begin
  <2>2. /\ mpc'[m] = "moving" /\ mid'[m] = id /\ ~info'[id].old
        /\ \A n \in F!Movers : n # m => mpc'[n] = mpc[n] /\ mid'[n] = mid[n]
        /\ \A i \in Ids : i # id => info'[i] = info[i]
    BY <1>1, <2>1, MoverDoes, SidecarWritten
  <2>3. ASSUME NEW n \in Desktop, mpc'[n] = "moving" PROVE ~info'[mid'[n]].old
    BY <1>3, <2>2, <2>3 DEF LockHeld
  <2>4. ASSUME NEW n \in Ours, mpc'[n] # "idle" PROVE lock' = n
    BY <1>1, <1>3, <2>1, <2>2, <2>4 DEF LockHeld
  <2> QED
    BY <1>1, <1>3, <2>1, <2>2, <2>3, <2>4 DEF LockHeld
<1>5. ASSUME NEW m \in F!Movers, mpc[m] # "idle", F!Mover(m, "idle", None, None),
             lock' = (IF lock = m THEN None ELSE lock),
             \A i \in Ids : info'[i] = info[i] \/ ~info'[i].old
      PROVE  Kept
  <2>1. /\ mpc'[m] = "idle"
        /\ \A n \in F!Movers : n # m => mpc'[n] = mpc[n] /\ mid'[n] = mid[n]
    BY <1>1, <1>5, MoverDoes
  <2>2. ASSUME NEW n \in Desktop, mpc'[n] = "moving" PROVE ~info'[mid'[n]].old
    BY <1>3, <1>5, <2>1, <2>2 DEF LockHeld
  <2>3. ASSUME NEW n \in Ours, mpc'[n] # "idle" PROVE lock' = n
    BY <1>1, <1>3, <1>5, <2>1, <2>3 DEF LockHeld
  <2> QED
    BY <1>1, <1>3, <1>5, <2>1, <2>2, <2>3 DEF LockHeld
<1>6. ASSUME NEW m \in F!Movers, F!Land(m) PROVE Kept
  BY <1>5, <1>6 DEF F!Land
<1>7. ASSUME NEW m \in F!Movers, F!Die(m) PROVE Kept
  BY <1>5, <1>7 DEF F!Die
<1>8. ASSUME NEW m \in F!Movers, F!Drop(m) PROVE Kept
  <2>1. /\ mpc[m] = "taking" /\ F!Mover(m, "idle", None, None) /\ lock' = None /\ lock = m
        /\ mid[m] \in Ids /\ info' = [info EXCEPT ![mid[m]] = F!Missing]
    BY <1>8 DEF F!Drop, F!Write, LockHeld
  <2>2. \A i \in Ids : info'[i] = info[i] \/ ~info'[i].old
    BY <1>1, <2>1, SidecarGoes DEF F!Missing
  <2> QED
    BY <1>5, <2>1, <2>2
<1>9. ASSUME NEW m \in F!Movers, F!Take(m) PROVE Kept
  <2>1. PICK id \in Ids : /\ m \in Ours /\ lock = None /\ lock' = m /\ info' = info
                          /\ F!Mover(m, "taking", id, None)
    BY <1>9 DEF F!Take
  <2>2. /\ mpc'[m] = "taking" /\ mid'[m] = id
        /\ \A n \in F!Movers : n # m => mpc'[n] = mpc[n] /\ mid'[n] = mid[n]
    BY <1>1, <2>1, MoverDoes
  <2>3. ASSUME NEW n \in Desktop, mpc'[n] = "moving" PROVE ~info'[mid'[n]].old
    BY <1>3, <2>1, <2>2, <2>3 DEF LockHeld
  <2>4. ASSUME NEW n \in Ours, mpc'[n] # "idle" PROVE lock' = n
    BY <1>1, <1>3, <2>1, <2>2, <2>4 DEF LockHeld
  <2> QED
    BY <1>1, <1>3, <2>1, <2>2, <2>3, <2>4 DEF LockHeld
<1>10. ASSUME F!Age PROVE Kept
  <2>1. PICK id \in Ids : /\ info[id] # F!Missing /\ F!Write(id, [info[id] EXCEPT !.old = TRUE])
                          /\ UNCHANGED <<lock, mpc, mid>> /\ \A m \in Desktop : mid[m] # id
    BY <1>10 DEF F!Age
  <2>2. \A i \in Ids : i # id => info'[i] = info[i]
    BY <1>1, <2>1, SidecarAges
  <2> QED
    BY <1>3, <2>1, <2>2 DEF LockHeld
<1>11. ASSUME F!Recover PROVE Kept
  <2>1. PICK id \in Ids : F!Write(id, F!Fresh(ver + 1)) /\ UNCHANGED <<lock, mpc, mid>>
    BY <1>11 DEF F!Recover
  <2>2. ~info'[id].old /\ \A i \in Ids : i # id => info'[i] = info[i]
    BY <1>1, <2>1, SidecarWritten
  <2> QED
    BY <1>3, <2>1, <2>2 DEF LockHeld
<1>12. ASSUME F!Replace PROVE Kept
  BY <1>3, <1>12 DEF F!Replace, LockHeld
<1> QED
  BY <1>4, <1>6, <1>7, <1>8, <1>9, <1>10, <1>11, <1>12 DEF F!World

-----------------------------------------------------------------------------
(* No data is stranded.                                                      *)

\* A pass of fsck meets every sidecar it listed, until it removes the one it has found old.
LEMMA ListingFsck ==
  ASSUME F!StartsAssumption, Shape, LockHeld, Listing, F!Fsck
  PROVE  Listing'
<1>1. start' = start
  BY DEF F!Fsck, F!Rest, F!Lock, F!OpenInfo, F!OpenFiles, F!Open, F!EndInfo, F!EndFiles, F!Pass,
     F!VisitInfo, F!RemoveInfo, F!VisitFiles, F!List, F!Snap, F!Answer, F!Relock, F!PurgeData,
     F!PurgeSidecar, F!Report
<1>2. CASE fsckPc' \notin {"info", "remove"}
  BY <1>2 DEF Listing
<1>3. ASSUME F!OpenInfo PROVE Listing'
  BY <1>1, <1>3 DEF F!OpenInfo, F!Open, F!Named, Listing
<1>4. ASSUME F!EndInfo PROVE Listing'
  BY <1>1, <1>4 DEF F!EndInfo, F!Pass, Listing
<1>5. ASSUME F!VisitInfo PROVE Listing'
  <2>1. PICK id \in fsckTodo \cap (listed \cup F!Named("info")) :
          /\ fsckPc = "info" /\ UNCHANGED <<files, info, listed>> /\ fsckTodo' = fsckTodo \ {id}
          /\ \/ fsckPc' = fsckPc
             \/ files[id] = None /\ F!Retired(id) /\ start.fix /\ fsckPc' = "remove" /\ cur' = id
    BY <1>5 DEF F!VisitInfo
  <2>2. start.fix => info[id] # F!Missing
    BY <2>1 DEF Listing, F!Named
  <2> QED
    BY <1>1, <2>1, <2>2 DEF Listing, F!Retired
<1>6. ASSUME F!RemoveInfo PROVE Listing'
  <2>1. /\ fsckPc = "remove" /\ fsckPc' = "info" /\ cur \in Ids /\ UNCHANGED <<listed, fsckTodo>>
        /\ info' = info \/ info' = [info EXCEPT ![cur] = F!Missing]
    BY <1>6 DEF F!RemoveInfo, F!scan, Shape, Own
  <2>2. \A id \in Ids : id # cur => info'[id] = info[id]
    BY <2>1 DEF Shape, Places
  <2> QED
    BY <1>1, <2>1, <2>2 DEF Listing, Shape, Own
<1> QED
  BY <1>2, <1>3, <1>4, <1>5, <1>6 DEF F!Fsck, F!Lock, F!OpenFiles, F!Open, F!EndFiles, F!Pass,
     F!VisitFiles, F!List, F!Snap, F!Answer, F!Relock, F!PurgeData, F!PurgeSidecar, F!Report, F!Ask

\* With the lock taken, a sidecar that is there stays, an old one without data is nobody's, and
\* data without a sidecar is not put beside it.
LEMMA WorldLocked ==
  ASSUME F!StartsAssumption, Shape, LockHeld, F!Locked, F!World, NEW id \in Ids
  PROVE  /\ info[id] # F!Missing => info'[id] # F!Missing
         /\ info[id].old => info'[id].old
         /\ files[id] = None /\ info[id].old => files'[id] = None
<1>1. /\ F!Mine /\ Places /\ Outside /\ ver \in Nat /\ None \notin F!Movers \cup {"fsck"}
      /\ Desktop \subseteq F!Movers
  BY WorldDoes DEF Shape, Outside, F!StartsAssumption, F!Movers
<1>2. ASSUME NEW m \in F!Movers, mpc[m] # "idle"
      PROVE  m \in Desktop /\ m \notin Ours /\ mpc[m] = "moving" /\ mid[m] \in Ids /\ ~info[mid[m]].old
  BY <1>1, <1>2, OursIdle DEF Outside, LockHeld
<1>3. ~F!Missing.old
  BY DEF F!Missing
<1> DEFINE Stays == /\ info[id] # F!Missing => info'[id] # F!Missing
                    /\ info[id].old => info'[id].old
                    /\ files[id] = None /\ info[id].old => files'[id] = None
<1>4. ASSUME NEW m \in F!Movers, F!Begin(m) PROVE Stays
  <2>1. PICK i \in Ids : info[i] = F!Missing /\ F!Write(i, F!Fresh(ver + 1)) /\ files' = files
    BY <1>4 DEF F!Begin
  <2>2. \A k \in Ids : k # i => info'[k] = info[k]
    BY <1>1, <2>1, SidecarWritten
  <2> QED
    BY <1>3, <2>1, <2>2
<1>5. ASSUME NEW m \in F!Movers, F!Land(m) PROVE Stays
  <2>1. /\ info' = info /\ files' = [files EXCEPT ![mid[m]] = mdoc[m]] /\ mpc[m] = "moving"
    BY <1>5 DEF F!Land
  <2>2. mid[m] \in Ids /\ ~info[mid[m]].old
    BY <1>2, <2>1
  <2>3. \A i \in Ids : i # mid[m] => files'[i] = files[i]
    BY <1>1, <2>1 DEF Places
  <2> QED
    BY <2>1, <2>2, <2>3
<1>6. ASSUME NEW m \in F!Movers, F!Take(m) PROVE Stays
  BY <1>1, <1>6 DEF F!Take, F!Locked
<1>7. ASSUME NEW m \in F!Movers, F!Drop(m) PROVE Stays
  BY <1>2, <1>7 DEF F!Drop
<1>8. ASSUME NEW m \in F!Movers, F!Die(m) PROVE Stays
  BY <1>8 DEF F!Die
<1>9. ASSUME F!Age PROVE Stays
  <2>1. PICK i \in Ids : /\ info[i] # F!Missing /\ F!Write(i, [info[i] EXCEPT !.old = TRUE]) /\ files' = files
    BY <1>9 DEF F!Age
  <2>2. info'[i].old /\ info'[i] # F!Missing /\ \A k \in Ids : k # i => info'[k] = info[k]
    BY <1>1, <2>1, SidecarAges
  <2> QED
    BY <2>1, <2>2
<1>10. ASSUME F!Recover PROVE Stays
  <2>1. PICK i \in Ids : info[i] = F!Missing /\ F!Write(i, F!Fresh(ver + 1)) /\ files' = files
    BY <1>10 DEF F!Recover
  <2>2. \A k \in Ids : k # i => info'[k] = info[k]
    BY <1>1, <2>1, SidecarWritten
  <2> QED
    BY <1>3, <2>1, <2>2
<1>11. ASSUME F!Replace PROVE Stays
  <2>1. PICK i \in Ids, d \in Docs : files[i] # None /\ files' = [files EXCEPT ![i] = d] /\ info' = info
    BY <1>11 DEF F!Replace
  <2>2. \A k \in Ids : k # i => files'[k] = files[k]
    BY <1>1, <2>1 DEF Places
  <2> QED
    BY <2>1, <2>2
<1> QED
  BY <1>4, <1>5, <1>6, <1>7, <1>8, <1>9, <1>10, <1>11 DEF F!World

\* While fsck holds the lock, nobody else removes a sidecar or brings data for an old one.
LEMMA ListingWorld ==
  ASSUME F!StartsAssumption, Shape, LockHeld, Listing, F!World
  PROVE  Listing'
<1>1. UNCHANGED <<start, fsckPc, cur, listed, fsckTodo>> /\ listed \subseteq Ids
  BY WorldDoes DEF F!Mine, F!scan, Shape, Own
<1>2. fsckPc = "remove" => F!Locked /\ cur \in Ids
  BY DEF LockHeld, Shape, Own
<1>3. fsckPc \in {"info", "remove"} /\ start.fix => F!Locked
  BY DEF LockHeld
<1>4. fsckPc = "remove" => files'[cur] = None /\ info'[cur].old
  BY <1>2, WorldLocked DEF Listing
<1>5. fsckPc \in {"info", "remove"} /\ start.fix => \A id \in listed \cap fsckTodo : info'[id] # F!Missing
  BY <1>1, <1>3, WorldLocked DEF Listing
<1> QED
  BY <1>1, <1>4, <1>5 DEF Listing

\* The sidecar that is removed has no data, and nobody is putting any there.
LEMMA StrandedNext ==
  ASSUME F!StartsAssumption, Shape, LockHeld, Listing, F!NoneStranded, [F!Next]_(F!vars)
  PROVE  F!NoneStranded'
<1>1. ASSUME F!RemoveInfo PROVE F!NoneStranded'
  <2>1. fsckPc = "remove" /\ F!Locked /\ files[cur] = None /\ info[cur].old
    BY <1>1 DEF F!RemoveInfo, LockHeld, Listing, Shape, Own
  <2>2. \A m \in F!Movers : ~(mpc[m] = "moving" /\ mid[m] = cur)
    BY <2>1, OursIdle DEF LockHeld
  <2> QED
    BY <1>1, <2>1, <2>2 DEF F!RemoveInfo, F!NoneStranded
<1>2. ASSUME F!World PROVE F!NoneStranded'
  BY <1>2, WorldDoes DEF F!Mine, F!NoneStranded
<1> QED
  BY <1>1, <1>2 DEF F!Next, F!vars, F!NoneStranded, F!Fsck, F!Rest, F!Lock, F!OpenInfo,
     F!OpenFiles, F!Open, F!EndInfo, F!EndFiles, F!Pass, F!VisitInfo, F!VisitFiles, F!List, F!Snap,
     F!Answer, F!Relock, F!PurgeData, F!PurgeSidecar, F!Report

-----------------------------------------------------------------------------
(* What was recovered is kept.                                               *)

\* What others do to a sidecar: it gets older, goes, or is another one from now on.
LEMMA WorldWrites ==
  ASSUME F!StartsAssumption, Shape, LockHeld, F!World
  PROVE  /\ ver' \in Nat /\ ver <= ver'
         /\ \A id \in Ids :
              \/ info'[id].ver = info[id].ver /\ info'[id].kind = info[id].kind
              \/ info'[id].kind = "none"
              \/ info'[id].ver = ver + 1 /\ ver' = ver + 1 /\ (Careful => fsckPc # "snap")
<1>1. Places /\ Outside /\ ver \in Nat
  BY DEF Shape, Outside
<1> DEFINE Newer == /\ ver' \in Nat /\ ver <= ver'
                    /\ \A id \in Ids :
                         \/ info'[id].ver = info[id].ver /\ info'[id].kind = info[id].kind
                         \/ info'[id].kind = "none"
                         \/ info'[id].ver = ver + 1 /\ ver' = ver + 1 /\ (Careful => fsckPc # "snap")
<1>2. ASSUME NEW i \in Ids, F!Quiet, ver' = ver + 1, F!Write(i, F!Fresh(ver + 1)) PROVE Newer
  <2>1. info'[i].ver = ver + 1 /\ \A k \in Ids : k # i => info'[k] = info[k]
    BY <1>1, <1>2, SidecarWritten
  <2> QED
    BY <1>1, <1>2, <2>1 DEF F!Quiet
<1>3. ASSUME NEW m \in F!Movers, F!Begin(m) PROVE Newer
  BY <1>2, <1>3 DEF F!Begin
<1>4. ASSUME F!Recover PROVE Newer
  BY <1>2, <1>4 DEF F!Recover
<1>5. ASSUME NEW m \in F!Movers, F!Drop(m) PROVE Newer
  <2>1. ver' = ver /\ mid[m] \in Ids /\ info' = [info EXCEPT ![mid[m]] = F!Missing]
    BY <1>5 DEF F!Drop, F!Write, LockHeld
  <2>2. \A k \in Ids : info'[k] = info[k] \/ info'[k].kind = "none"
    BY <1>1, <2>1, SidecarGoes DEF F!Missing
  <2> QED
    BY <1>1, <2>1, <2>2
<1>6. ASSUME F!Age PROVE Newer
  <2>1. PICK i \in Ids : info[i] # F!Missing /\ F!Write(i, [info[i] EXCEPT !.old = TRUE]) /\ ver' = ver
    BY <1>6 DEF F!Age
  <2>2. /\ info'[i].ver = info[i].ver /\ info'[i].kind = info[i].kind
        /\ \A k \in Ids : k # i => info'[k] = info[k]
    BY <1>1, <2>1, SidecarAges
  <2> QED
    BY <1>1, <2>1, <2>2
<1>7. ASSUME info' = info, ver' = ver PROVE Newer
  BY <1>1, <1>7
<1> QED
  BY <1>3, <1>4, <1>5, <1>6, <1>7 DEF F!World, F!Land, F!Take, F!Die, F!Replace

\* What others write has a version no snapshot has.
LEMMA SnappedWorld ==
  ASSUME F!StartsAssumption, Shape, LockHeld, Snapped, F!World
  PROVE  Snapped'
<1>1. UNCHANGED <<fsckPc, cur, known, snaps>> /\ ver \in Nat
  BY WorldDoes DEF F!Mine, F!scan, Shape, Outside
<1>2. ASSUME NEW id \in Ids, snaps[id] # None
      PROVE  snaps[id].ver <= ver' /\ (Careful /\ info'[id].ver = snaps[id].ver => info'[id].kind # "good")
  <2>1. snaps[id].ver \in Nat /\ snaps[id].ver <= ver
        /\ (Careful /\ info[id].ver = snaps[id].ver => info[id].kind # "good")
    BY <1>2 DEF Snapped, Shape, Own
  <2> QED
    BY <1>1, <2>1, WorldWrites
<1>3. Careful /\ fsckPc = "snap" => \A id \in Ids \ known : info'[id].kind # "good"
  BY WorldWrites DEF Snapped
<1> QED
  BY <1>1, <1>2, <1>3 DEF Snapped

\* fsck takes a snapshot only of data that had no valid sidecar when the root was listed.
LEMMA SnappedFsck ==
  ASSUME F!StartsAssumption, Shape, Snapped, F!Fsck
  PROVE  Snapped'
<1>1. ver' = ver /\ ver \in Nat
  BY DEF F!Fsck, F!Rest, F!others, F!Lock, F!OpenInfo, F!OpenFiles, F!Open, F!EndInfo, F!EndFiles,
     F!Pass, F!VisitInfo, F!RemoveInfo, F!VisitFiles, F!List, F!Snap, F!Answer, F!Relock,
     F!PurgeData, F!PurgeSidecar, F!Report, Shape, Outside
<1>2. \A id \in Ids : info'[id] = info[id] \/ info'[id].kind = "none"
  <2>1. info' = info \/ (cur \in Ids /\ info' = [info EXCEPT ![cur] = F!Missing])
    BY DEF F!Fsck, F!Lock, F!OpenInfo, F!OpenFiles, F!Open, F!EndInfo, F!EndFiles, F!Pass,
       F!VisitInfo, F!RemoveInfo, F!VisitFiles, F!List, F!Snap, F!Answer, F!Relock, F!PurgeData,
       F!PurgeSidecar, F!Report, Shape, Own
  <2> QED
    BY <1>1, <2>1, SidecarGoes DEF F!Missing, Shape
<1>3. CASE snaps' = snaps
  <2>1. \A id \in Ids : snaps'[id] # None =>
          snaps'[id].ver <= ver' /\ (Careful /\ info'[id].ver = snaps'[id].ver => info'[id].kind # "good")
    BY <1>1, <1>2, <1>3 DEF Snapped
  <2>2. Careful /\ fsckPc' = "snap" => \A id \in Ids \ known' : info'[id].kind # "good"
    <3>1. ASSUME F!List PROVE fsckPc' = "snap" => \A id \in Ids \ known' : info'[id].kind # "good"
      BY <3>1 DEF F!List, F!Ask
    <3>2. ASSUME ~F!List, fsckPc' = "snap" PROVE fsckPc = "snap" /\ known' = known
      BY <3>2 DEF F!Fsck, F!Lock, F!OpenInfo, F!OpenFiles, F!Open, F!EndInfo, F!EndFiles, F!Pass,
         F!VisitInfo, F!RemoveInfo, F!VisitFiles, F!Snap, F!Answer, F!Relock, F!PurgeData,
         F!PurgeSidecar, F!Report, F!Ask
    <3> QED
      BY <1>2, <3>1, <3>2 DEF Snapped
  <2>3. fsckPc' \in {"relock", "purge"} => snaps'[cur'] # None
    BY <1>3 DEF Snapped, F!Fsck, F!Lock, F!OpenInfo, F!OpenFiles, F!Open, F!EndInfo, F!EndFiles,
       F!Pass, F!VisitInfo, F!RemoveInfo, F!VisitFiles, F!List, F!Snap, F!Answer, F!Relock,
       F!PurgeData, F!PurgeSidecar, F!Report, F!Ask
  <2> QED
    BY <2>1, <2>2, <2>3 DEF Snapped
<1>4. ASSUME F!Snap PROVE Snapped'
  <2>1. /\ fsckPc = "snap" /\ fsckPc' \in {"snap", "ask"} /\ UNCHANGED <<info, known>>
        /\ \/ snaps' = snaps
           \/ \E id \in Ids : id \notin known
                /\ snaps' = [snaps EXCEPT ![id] = [doc |-> files[id], ver |-> info[id].ver]]
    BY <1>4 DEF F!Snap, F!Ask, Shape, Own
  <2>2. ASSUME NEW i \in Ids, i \notin known,
               snaps' = [snaps EXCEPT ![i] = [doc |-> files[i], ver |-> info[i].ver]]
        PROVE  Snapped'
    <3>1. snaps'[i].ver = info[i].ver /\ \A id \in Ids : id # i => snaps'[id] = snaps[id]
      BY <2>2 DEF Shape, Own
    <3>2. info[i].ver <= ver /\ (Careful => info[i].kind # "good")
      BY <2>1, <2>2 DEF Snapped, Shape, Places
    <3>3. \A id \in Ids : snaps'[id] # None =>
            snaps'[id].ver <= ver /\ (Careful /\ info[id].ver = snaps'[id].ver => info[id].kind # "good")
      BY <3>1, <3>2 DEF Snapped
    <3> QED
      BY <1>1, <2>1, <3>3 DEF Snapped
  <2> QED
    BY <1>3, <2>1, <2>2
<1> QED
  BY <1>3, <1>4 DEF F!Fsck, F!Lock, F!OpenInfo, F!OpenFiles, F!Open, F!EndInfo, F!EndFiles, F!Pass,
     F!VisitInfo, F!RemoveInfo, F!VisitFiles, F!List, F!Answer, F!Relock, F!PurgeData,
     F!PurgeSidecar, F!Report

\* Data is purged only with the snapshot's sidecar still beside it.
LEMMA RecoveredNext ==
  ASSUME F!StartsAssumption, Shape, Snapped, Careful, F!RecoveredKept, [F!Next]_(F!vars)
  PROVE  F!RecoveredKept'
<1>1. ASSUME F!PurgeData PROVE F!RecoveredKept'
  <2>1. \/ purged' = purged
        \/ /\ F!Current(cur) /\ cur \in Ids /\ snaps[cur] # None
           /\ purged' = purged \cup {[id |-> cur, doc |-> files[cur], beside |-> info[cur]]}
    BY <1>1 DEF F!PurgeData, Snapped, Shape, Own
  <2>2. CASE purged' = purged
    BY <2>2 DEF F!RecoveredKept
  <2>3. ASSUME F!Current(cur), cur \in Ids, snaps[cur] # None PROVE info[cur].kind # "good"
    BY <2>3 DEF F!Current, Snapped
  <2> QED
    BY <2>1, <2>2, <2>3 DEF F!RecoveredKept
<1>2. ASSUME F!World PROVE F!RecoveredKept'
  BY <1>2, WorldDoes DEF F!Mine, F!RecoveredKept
<1> QED
  BY <1>1, <1>2 DEF F!Next, F!vars, F!RecoveredKept, F!Fsck, F!Rest, F!Lock, F!OpenInfo,
     F!OpenFiles, F!Open, F!EndInfo, F!EndFiles, F!Pass, F!VisitInfo, F!RemoveInfo, F!VisitFiles,
     F!List, F!Snap, F!Answer, F!Relock, F!PurgeSidecar, F!Report

-----------------------------------------------------------------------------
(* Exit status 0.                                                            *)

\* Whoever interferes is seen.
LEMMA LookedWorld ==
  ASSUME F!StartsAssumption, Shape, F!World
  PROVE  Looked'
<1>1. Tidy' => fsckPc' = "start"
  BY WorldDoes DEF Tidy, F!Mine
<1> QED
  BY <1>1 DEF Looked

\* Nothing that was found is forgotten.
LEMMA TidyBefore ==
  ASSUME F!Fsck, Tidy'
  PROVE  Tidy /\ start' = start
<1>1. start' = start /\ disturbed' = disturbed /\ found \subseteq found'
  BY DEF F!Fsck, F!Rest, F!others, F!Flag, F!Lock, F!OpenInfo, F!OpenFiles, F!Open, F!EndInfo,
     F!EndFiles, F!Pass, F!VisitInfo, F!RemoveInfo, F!VisitFiles, F!List, F!Snap, F!Answer,
     F!Relock, F!PurgeData, F!PurgeSidecar, F!Report, F!Ask
<1> QED
  BY <1>1 DEF Tidy, F!Clean

\* What a finding makes of the exit status.
LEMMA Untidy ==
  ASSUME start' = start
  PROVE  /\ "unchecked" \in found' \/ "unresolved" \in found' => ~Tidy'
         /\ ~start.fix /\ found' # {} => ~Tidy'
  BY DEF Tidy, F!Clean

\* The root is as it was.
LEMMA SameRoot ==
  ASSUME UNCHANGED <<files, info>>
  PROVE  /\ \A id \in Ids : (Sound(id)' <=> Sound(id)) /\ (Orphan(id)' <=> Orphan(id))
         /\ F!Named("info")' = F!Named("info") /\ F!Named("files")' = F!Named("files")
  BY DEF Sound, F!Problem, Orphan, F!Named

\* A problem of the sidecar, and one of the data.
LEMMA SoundIs ==
  ASSUME NEW id \in Ids
  PROVE  Sound(id) <=> \/ info[id] = F!Missing
                       \/ files[id] = None /\ ~info[id].old
                       \/ files[id] # None /\ info[id].kind = "good"
  BY DEF Sound, F!Problem

\* Each pass leaves no problem behind it that it has not counted or noted down.
LEMMA LookedFsck ==
  ASSUME F!StartsAssumption, Shape, Listing, Looked, F!Fsck
  PROVE  Looked'
<1> SUFFICES ASSUME Tidy' PROVE Looked'
  BY DEF Looked
<1>1. Tidy /\ start' = start /\ start.fix \in BOOLEAN
  BY TidyBefore DEF F!StartsAssumption, Shape
<1>2. /\ "unchecked" \notin found' /\ "unresolved" \notin found'
      /\ ~start.fix => found' = {}
  BY <1>1, Untidy
<1>3. ASSUME F!Lock PROVE Looked'
  BY <1>2, <1>3 DEF F!Lock, F!Flag, Looked
<1>4. ASSUME F!OpenInfo PROVE Looked'
  <2>1. /\ fsckPc = "openInfo" /\ UNCHANGED <<files, info>> /\ fsckPc' = "info" /\ fsckTodo' = Ids
        /\ listed' = F!Named("info")
    BY <1>2, <1>4 DEF F!OpenInfo, F!Open, F!Flag, F!Unreadable
  <2> QED
    BY <2>1, SameRoot DEF Looked
<1>5. ASSUME F!EndInfo PROVE Looked'
  <2>1. fsckPc = "info" /\ UNCHANGED <<files, info, listed, cand>>
    BY <1>5 DEF F!EndInfo, F!Pass
  <2>2. /\ F!Named("info") \subseteq listed /\ \A id \in Ids \ fsckTodo : Sound(id)
    BY <1>1, <2>1 DEF Looked
  <2>3. CASE fsckTodo = {} /\ fsckPc' = "openFiles"
    BY <2>1, <2>2, <2>3, SameRoot DEF Looked
  <2>4. CASE \E id \in fsckTodo :
          /\ fsckTodo' = fsckTodo \ {id} /\ fsckPc' = fsckPc
          /\ ~(id \in listed /\ id \in F!Named("info"))
    <3>1. PICK id \in fsckTodo :
          /\ fsckTodo' = fsckTodo \ {id} /\ fsckPc' = fsckPc
          /\ ~(id \in listed /\ id \in F!Named("info"))
      BY <2>4
    <3>2. id \in Ids => Sound(id)
      BY <2>2, <3>1 DEF F!Named, Sound
    <3>3. \A i \in Ids \ fsckTodo' : Sound(i)
      BY <2>2, <3>1, <3>2
    <3> QED
      BY <2>1, <2>2, <3>1, <3>3, SameRoot DEF Looked
  <2> QED
    BY <1>2, <1>5, <2>3, <2>4 DEF F!EndInfo, F!Pass, F!Flag, F!Unreadable
<1>6. ASSUME F!VisitInfo PROVE Looked'
  <2>1. PICK id \in fsckTodo \cap (listed \cup F!Named("info")) :
          /\ fsckTodo' = fsckTodo \ {id}
          /\ CASE files[id] = None /\ ~F!Retired(id) -> UNCHANGED <<fsckPc, cur, found>>
               [] files[id] = None /\ F!Retired(id) ->
                    /\ F!Flag({"info"})
                    /\ IF start.fix THEN fsckPc' = "remove" /\ cur' = id ELSE UNCHANGED <<fsckPc, cur>>
               [] files[id] # None /\ info[id].kind = "good" -> UNCHANGED <<fsckPc, cur, found>>
               [] files[id] # None /\ info[id].kind # "good" ->
                    F!Flag(F!Fixed({"corrupt"})) /\ UNCHANGED <<fsckPc, cur>>
    BY <1>6 DEF F!VisitInfo
  <2>2. fsckPc = "info" /\ UNCHANGED <<files, info, listed, cand>> /\ id \in Ids
    BY <1>6, <2>1 DEF F!VisitInfo, Shape, Own
  <2>3. /\ F!Named("info") \subseteq listed /\ \A i \in Ids \ fsckTodo : Sound(i)
    BY <1>1, <2>2 DEF Looked
  <2>4. CASE Sound(id) /\ fsckPc' = "info"
    <3>1. \A i \in Ids \ fsckTodo' : Sound(i)
      BY <2>1, <2>3, <2>4
    <3> QED
      BY <2>2, <2>3, <2>4, <3>1, SameRoot DEF Looked
  <2>5. CASE fsckPc' = "remove" /\ cur' = id
    <3>1. \A i \in Ids \ fsckTodo' : Sound(i) \/ i = id
      BY <2>1, <2>3
    <3> QED
      BY <2>2, <2>3, <2>5, <3>1, SameRoot DEF Looked
  <2>6. CASE files[id] = None /\ ~F!Retired(id)
    BY <2>1, <2>2, <2>4, <2>6, SoundIs DEF F!Retired
  <2>7. CASE files[id] = None /\ F!Retired(id)
    BY <1>2, <2>1, <2>5, <2>7 DEF F!Flag
  <2>8. CASE files[id] # None /\ info[id].kind = "good"
    BY <2>1, <2>2, <2>4, <2>8, SoundIs
  <2>9. CASE files[id] # None /\ info[id].kind # "good"
    <3>1. F!Flag(F!Fixed({"corrupt"}))
      BY <2>1, <2>9
    <3> QED
      BY <1>2, <3>1 DEF F!Flag, F!Fixed
  <2> QED
    BY <2>6, <2>7, <2>8, <2>9
<1>7. ASSUME F!RemoveInfo PROVE Looked'
  <2>1. /\ fsckPc = "remove" /\ fsckPc' = "info" /\ UNCHANGED <<files, listed, fsckTodo>> /\ cur \in Ids
        /\ info' = [info EXCEPT ![cur] = F!Missing]
    BY <1>2, <1>7 DEF F!RemoveInfo, F!Flag, F!scan, Shape, Own
  <2>2. info'[cur] = F!Missing /\ \A i \in Ids : i # cur => info'[i] = info[i]
    BY <2>1 DEF Shape, Places
  <2>3. /\ F!Named("info") \subseteq listed /\ \A i \in Ids \ fsckTodo : Sound(i) \/ i = cur
    BY <1>1, <2>1 DEF Looked
  <2>4. F!Named("info")' \subseteq F!Named("info")
    BY <2>2 DEF F!Named
  <2>5. ASSUME NEW i \in Ids \ fsckTodo PROVE Sound(i)'
    <3>1. CASE i = cur
      BY <2>2, <3>1 DEF Sound
    <3>2. CASE i # cur
      BY <2>1, <2>2, <2>3, <3>2 DEF Sound, F!Problem
    <3> QED
      BY <3>1, <3>2
  <2> QED
    BY <2>1, <2>3, <2>4, <2>5 DEF Looked
<1>8. ASSUME F!OpenFiles PROVE Looked'
  <2>1. /\ fsckPc = "openFiles" /\ UNCHANGED <<files, info, cand>> /\ fsckPc' = "files" /\ fsckTodo' = Ids
        /\ listed' = F!Named("files")
    BY <1>2, <1>8 DEF F!OpenFiles, F!Open, F!Flag, F!Unreadable
  <2>2. \A id \in Ids : Sound(id)
    BY <1>1, <2>1 DEF Looked
  <2> QED
    BY <2>1, <2>2, SameRoot DEF Looked
<1>9. ASSUME F!EndFiles PROVE Looked'
  <2>1. fsckPc = "files" /\ UNCHANGED <<files, info, listed, cand>>
    BY <1>9 DEF F!EndFiles, F!Pass
  <2>2. /\ \A id \in Ids : Sound(id)
        /\ F!Named("files") \subseteq listed
                         /\ \A id \in Ids \ fsckTodo : Orphan(id) => id \in cand
    BY <1>1, <2>1 DEF Looked
  <2>3. CASE fsckTodo = {} /\ fsckPc' = "list"
    BY <2>1, <2>2, <2>3, SameRoot DEF Looked
  <2>4. CASE \E id \in fsckTodo :
          /\ fsckTodo' = fsckTodo \ {id} /\ fsckPc' = fsckPc
          /\ ~(id \in listed /\ id \in F!Named("files"))
    <3>1. PICK id \in fsckTodo :
          /\ fsckTodo' = fsckTodo \ {id} /\ fsckPc' = fsckPc
          /\ ~(id \in listed /\ id \in F!Named("files"))
      BY <2>4
    <3>2. id \in Ids => ~Orphan(id)
      BY <2>2, <3>1 DEF F!Named, Orphan
    <3>3. \A i \in Ids \ fsckTodo' : Orphan(i) => i \in cand
      BY <2>2, <3>1, <3>2
    <3> QED
      BY <2>1, <2>2, <3>1, <3>3, SameRoot DEF Looked
  <2> QED
    BY <1>2, <1>9, <2>3, <2>4 DEF F!EndFiles, F!Pass, F!Flag, F!Unreadable
<1>10. ASSUME F!VisitFiles PROVE Looked'
  <2>1. PICK id \in fsckTodo \cap (listed \cup F!Named("files")) :
          /\ fsckTodo' = fsckTodo \ {id} /\ cand' = IF F!Usable(id) THEN cand ELSE cand \cup {id}
    BY <1>10 DEF F!VisitFiles
  <2>2. fsckPc = "files" /\ fsckPc' = fsckPc /\ UNCHANGED <<files, info, listed>>
    BY <1>10 DEF F!VisitFiles
  <2>3. /\ \A i \in Ids : Sound(i)
        /\ F!Named("files") \subseteq listed /\ \A i \in Ids \ fsckTodo : Orphan(i) => i \in cand
    BY <1>1, <2>2 DEF Looked
  <2>4. Orphan(id) => ~F!Usable(id)
    BY DEF Orphan, F!Usable, F!Missing
  <2>5. \A i \in Ids \ fsckTodo' : Orphan(i) => i \in cand'
    BY <2>1, <2>3, <2>4
  <2> QED
    BY <2>2, <2>3, <2>5, SameRoot DEF Looked
<1>11. ASSUME fsckPc \in {"list", "snap"}, UNCHANGED <<files, info, cand>>, F!Ask PROVE Looked'
  <2>1. \A id \in Ids : Sound(id) /\ (Orphan(id) => id \in cand)
    BY <1>1, <1>11 DEF Looked
  <2>2. fsckPc' = "ask" /\ (~start.fix => cand = {})
    BY <1>2, <1>11 DEF F!Ask
  <2> QED
    BY <1>1, <1>11, <2>1, <2>2, SameRoot DEF Looked
<1>12. ASSUME fsckPc \in {"list", "snap"}, UNCHANGED <<files, info, cand>>, fsckPc' = "snap" PROVE Looked'
  <2>1. \A id \in Ids : Sound(id) /\ (Orphan(id) => id \in cand)
    BY <1>1, <1>12 DEF Looked
  <2> QED
    BY <1>12, <2>1, SameRoot DEF Looked
<1>13. ASSUME F!List PROVE Looked'
  BY <1>11, <1>12, <1>13 DEF F!List
<1>14. ASSUME F!Snap PROVE Looked'
  BY <1>11, <1>12, <1>14 DEF F!Snap
<1>15. ASSUME F!Answer PROVE Looked'
  <2>1. fsckPc = "ask" /\ UNCHANGED <<files, info>>
    BY <1>15 DEF F!Answer
  <2>2. (\A id \in Ids : Sound(id) /\ (Orphan(id) => id \in cand)) /\ (~start.fix => cand = {})
    BY <1>1, <2>1 DEF Looked
  <2>3. CASE cand = {} /\ fsckPc' = "report"
    BY <2>1, <2>2, <2>3, SameRoot DEF Looked
  <2>4. CASE \E id \in cand : cand' = cand \ {id} /\ cur' = id /\ fsckPc' = "relock"
    <3>1. PICK id \in cand : cand' = cand \ {id} /\ cur' = id /\ fsckPc' = "relock"
      BY <2>4
    <3>2. cand \subseteq cand' \cup {cur'}
      BY <3>1
    <3> QED
      BY <2>1, <2>2, <3>1, <3>2, SameRoot DEF Looked
  <2> QED
    BY <1>2, <1>15, <2>2, <2>3, <2>4 DEF F!Answer, F!Flag
<1>16. ASSUME F!Relock PROVE Looked'
  <2>1. fsckPc = "relock" /\ fsckPc' = "purge" /\ UNCHANGED <<files, info, cand, cur>>
    BY <1>16 DEF F!Relock
  <2>2. \A id \in Ids : Sound(id) /\ (Orphan(id) => id \in cand \cup {cur})
    BY <1>1, <2>1 DEF Looked
  <2> QED
    BY <2>1, <2>2, SameRoot DEF Looked
<1>17. ASSUME F!PurgeData PROVE Looked'
  <2>1. /\ fsckPc = "purge" /\ fsckPc' = "sidecar" /\ UNCHANGED <<info, cand, cur>> /\ cur \in Ids
        /\ files' = [files EXCEPT ![cur] = None]
    BY <1>2, <1>17 DEF F!PurgeData, F!Flag, Shape, Own
  <2>2. files'[cur] = None /\ \A i \in Ids : i # cur => files'[i] = files[i]
    BY <2>1 DEF Shape, Places
  <2>3. \A id \in Ids : Sound(id) /\ (Orphan(id) => id \in cand \cup {cur})
    BY <1>1, <2>1 DEF Looked
  <2>4. ASSUME NEW i \in Ids \ {cur} PROVE Sound(i)' /\ (Orphan(i)' => i \in cand')
    BY <2>1, <2>2, <2>3 DEF Sound, F!Problem, Orphan
  <2> QED
    BY <2>1, <2>2, <2>4 DEF Looked
<1>18. ASSUME F!PurgeSidecar PROVE Looked'
  <2>1. /\ fsckPc = "sidecar" /\ fsckPc' = "ask" /\ UNCHANGED <<files, cand, cur>> /\ cur \in Ids /\ start.fix
        /\ info' = [info EXCEPT ![cur] = F!Missing]
    BY <1>2, <1>18 DEF F!PurgeSidecar, F!Flag, Shape, Own
  <2>2. info'[cur] = F!Missing /\ \A i \in Ids : i # cur => info'[i] = info[i]
    BY <2>1 DEF Shape, Places
  <2>3. files[cur] = None /\ \A i \in Ids \ {cur} : Sound(i) /\ (Orphan(i) => i \in cand)
    BY <1>1, <2>1 DEF Looked
  <2>4. ASSUME NEW i \in Ids PROVE Sound(i)' /\ (Orphan(i)' => i \in cand')
    <3>1. CASE i = cur
      BY <2>1, <2>2, <2>3, <3>1 DEF Sound, Orphan
    <3>2. CASE i # cur
      BY <2>1, <2>2, <2>3, <3>2 DEF Sound, F!Problem, Orphan
    <3> QED
      BY <3>1, <3>2
  <2> QED
    BY <1>1, <2>1, <2>4 DEF Looked
<1>19. ASSUME F!Report PROVE Looked'
  <2>1. fsckPc = "report" /\ fsckPc' \in {"ok", "problems"} /\ UNCHANGED <<files, info>>
    BY <1>19 DEF F!Report
  <2>2. \A id \in Ids : Sound(id) /\ ~Orphan(id)
    BY <1>1, <2>1 DEF Looked
  <2> QED
    BY <2>1, <2>2, SameRoot DEF Looked
<1> QED
  BY <1>3, <1>4, <1>5, <1>6, <1>7, <1>8, <1>9, <1>10, <1>13, <1>14, <1>15, <1>16, <1>17, <1>18, <1>19
     DEF F!Fsck

\* The exit status is decided at the end.
LEMMA ExitsNext ==
  ASSUME F!StartsAssumption, Shape, Exits, [F!Next]_(F!vars)
  PROVE  Exits'
<1>1. ASSUME F!Report PROVE Exits'
  BY <1>1 DEF F!Report, Exits, F!Clean, F!Rest
<1>2. ASSUME F!World PROVE Exits'
  BY <1>2, WorldDoes DEF F!Mine, Exits, F!Clean
<1>3. ASSUME F!Fsck, ~F!Report PROVE fsckPc' # "ok"
  BY <1>3 DEF F!Fsck, F!Lock, F!OpenInfo, F!OpenFiles, F!Open, F!EndInfo, F!EndFiles, F!Pass,
     F!VisitInfo, F!RemoveInfo, F!VisitFiles, F!List, F!Snap, F!Answer, F!Relock, F!PurgeData,
     F!PurgeSidecar, F!Ask
<1>4. CASE UNCHANGED F!vars
  BY <1>4 DEF F!vars, Exits, F!Clean
<1> QED
  BY <1>1, <1>2, <1>3, <1>4 DEF F!Next, Exits

-----------------------------------------------------------------------------
(* The theorems.                                                             *)

\* Every root fsck may find satisfies the invariant.
LEMMA FsckInvInit == F!StartsAssumption /\ F!Init => FsckInv
<1> SUFFICES ASSUME F!StartsAssumption, F!Init PROVE FsckInv
  OBVIOUS
<1>1. /\ start \in Starts /\ fsckPc = "start" /\ files = start.files /\ info = start.info
      /\ ver \in Nat
      /\ files \in [Ids -> Docs \cup {None}]
      /\ info \in [Ids -> {F!Missing} \cup
            [ver : 0 .. ver, kind : {"good", "corrupt", "odd"}, old : BOOLEAN]]
  BY DEF F!Init, F!StartsAssumption
<1>2. ASSUME NEW id \in Ids
      PROVE  /\ info[id] \in Sidecar /\ info[id].ver <= ver
             /\ info[id].kind = "none" => info[id] = F!Missing
  <2>1. CASE info[id] = F!Missing
    BY <1>1, <2>1 DEF F!Missing, Sidecar
  <2>2. CASE info[id] \in [ver : 0 .. ver, kind : {"good", "corrupt", "odd"}, old : BOOLEAN]
    BY <1>1, <2>2 DEF Sidecar
  <2> QED
    BY <1>1, <2>1, <2>2
<1>3. Places
  BY <1>1, <1>2 DEF Places
<1>4. Own /\ Outside
  BY <1>1 DEF F!Init, Own, Outside, FsckSteps, F!StartsAssumption
<1>5. LockHeld /\ Listing /\ Exits
  BY <1>1 DEF F!Init, LockHeld, Listing, Exits, F!Movers
<1>6. Snapped /\ Looked
  BY <1>1 DEF F!Init, Snapped, Looked
<1>7. F!NoneStranded /\ F!RecoveredKept
  BY DEF F!Init, F!NoneStranded, F!RecoveredKept
<1> QED
  BY <1>1, <1>3, <1>4, <1>5, <1>6, <1>7 DEF FsckInv, Shape

\* Every step of fsck and of the others keeps the invariant.
LEMMA FsckInvNext == F!StartsAssumption /\ FsckInv /\ [F!Next]_(F!vars) => FsckInv'
<1> SUFFICES ASSUME F!StartsAssumption, FsckInv, [F!Next]_(F!vars) PROVE FsckInv'
  OBVIOUS
<1>1. F!NoneStranded' /\ (Careful => F!RecoveredKept') /\ Exits'
  BY StrandedNext, RecoveredNext, ExitsNext DEF FsckInv
<1>2. ASSUME F!Fsck PROVE Shape' /\ LockHeld' /\ Listing' /\ Snapped' /\ Looked'
  BY <1>2, ShapeFsck, HeldFsck, ListingFsck, SnappedFsck, LookedFsck DEF FsckInv
<1>3. ASSUME F!World PROVE Shape' /\ LockHeld' /\ Listing' /\ Snapped' /\ Looked'
  BY <1>3, ShapeWorld, HeldWorld, ListingWorld, SnappedWorld, LookedWorld DEF FsckInv
<1>4. ASSUME UNCHANGED F!vars PROVE Shape' /\ LockHeld' /\ Listing' /\ Snapped' /\ Looked'
  <2> USE <1>4 DEF F!vars, F!scan, F!others
  <2>1. Shape'
    BY DEF FsckInv, Shape, Places, Own, Outside
  <2>2. LockHeld' /\ Listing'
    BY DEF FsckInv, LockHeld, Listing, F!Locked
  <2>3. Snapped'
    BY DEF FsckInv, Snapped
  <2>4. Tidy' = Tidy /\ F!Named("info")' = F!Named("info") /\ F!Named("files")' = F!Named("files")
    BY DEF Tidy, F!Clean, F!Named
  <2>5. \A id \in Ids : Sound(id)' = Sound(id) /\ Orphan(id)' = Orphan(id)
    BY DEF Sound, F!Problem, Orphan
  <2>6. Looked
    BY DEF FsckInv
  <2>7. Looked'
    BY <2>4, <2>5, <2>6 DEF Looked
  <2> QED
    BY <2>1, <2>2, <2>3, <2>7
<1> QED
  BY <1>1, <1>2, <1>3, <1>4 DEF F!Next, FsckInv

\* The inductive invariant of fsck and its surroundings.
LEMMA FsckInvariance == ASSUME F!StartsAssumption PROVE F!Spec => []FsckInv
<1>1. F!Init => FsckInv
  BY FsckInvInit
<1>2. FsckInv /\ [F!Next]_(F!vars) => FsckInv'
  BY FsckInvNext
<1> QED
  BY <1>1, <1>2, PTL DEF F!Spec

\* fsck --fix changes a root only with its lock.
THEOREM FsckTyping == ASSUME F!StartsAssumption PROVE F!Spec => []F!TypeOK
<1>1. FsckInv => F!TypeOK
  BY DEF FsckInv, Shape, Own, Outside, LockHeld, Findings, F!TypeOK
<1> QED
  BY <1>1, FsckInvariance, PTL

\* Whatever processes of trashd, file managers and the user do, at any of its steps, fsck --fix
\* takes no sidecar from data that is there or on its way.
THEOREM StrandsNothing == ASSUME F!StartsAssumption PROVE F!Spec => []F!NoneStranded
<1>1. FsckInv => F!NoneStranded
  BY DEF FsckInv
<1> QED
  BY <1>1, FsckInvariance, PTL

\* If no sidecar is written while fsck takes its snapshots, data that got its sidecar again while
\* the question was open is not purged.
THEOREM KeepsRecovered == ASSUME F!StartsAssumption, Careful PROVE F!Spec => []F!RecoveredKept
<1>1. FsckInv => F!RecoveredKept
  BY DEF FsckInv
<1> QED
  BY <1>1, FsckInvariance, PTL

\* Exit status 0 with nobody interfering means that no problem is left.
THEOREM CleanMeansClean == ASSUME F!StartsAssumption PROVE F!Spec => []F!CleanExit
<1>1. FsckInv => F!CleanExit
  <2> SUFFICES ASSUME FsckInv, fsckPc = "ok", disturbed \subseteq {"before"}, NEW id \in Ids
               PROVE  ~F!Problem(id)
    BY DEF F!CleanExit
  <2>1. Tidy
    BY DEF FsckInv, Exits, Tidy
  <2>2. Sound(id) /\ ~Orphan(id)
    BY <2>1 DEF FsckInv, Looked
  <2>3. info[id] = F!Missing => ~info[id].old
    BY DEF F!Missing
  <2> QED
    BY <2>2, <2>3 DEF Sound, Orphan, F!Problem
<1> QED
  BY <1>1, FsckInvariance, PTL
-----------------------------------------------------------------------------
(* The removal of a tree, whatever others create, erase, exchange and mount. *)

CONSTANTS Names, Top, Dirs, Above, OutsideDir, Foreign, Settings, New
VARIABLES
  setting, content, over, modes, stack, removalPc, name, hint, ino, reports, result,
  removalChanges, taken, been, opened

R == INSTANCE TreeRemoval WITH
  Outside <- OutsideDir, pc <- removalPc, changes <- removalChanges

-----------------------------------------------------------------------------
(* The inductive invariant.                                                  *)

Bystanders == {Above, OutsideDir, Foreign}
Inodes == Dirs \cup {New, None} \cup UNION {UNION {{s.start[d][n] : n \in Names} : d \in Dirs} : s \in Settings}
Level ==
  [dir : Dirs, name : Names, pending : SUBSET [name : Names, file : BOOLEAN], seen : SUBSET Names,
   listed : BOOLEAN, failed : BOOLEAN]
RemovalTyped ==
  /\ setting \in Settings /\ content \in [Dirs -> [Names -> Inodes]]
  /\ over \in [Dirs -> {None, Foreign}] /\ modes \subseteq setting.locked
  /\ stack \in Seq(Level) /\ removalPc \in {"walk", "stat", "unlink", "open", "end"}
  /\ name \in Names /\ hint \in BOOLEAN /\ ino \in Dirs \cup {None}
  /\ reports \subseteq Dirs \X (Names \cup {None}) /\ taken \subseteq Dirs \X Names
  /\ result \in {None, "ok", "err"} /\ removalChanges \in Nat
  /\ been \subseteq Dirs \ Bystanders /\ opened \subseteq been

\* What is in the tree has been in it, and so has all that those directories hold.
TreeInv ==
  /\ R!Below(content) \subseteq been /\ R!Closed(content, been)
  /\ \A d \in Dirs, n \in Names : content[d][n] \notin Bystanders
  /\ \A d \in Dirs : content[d][Top] # None => d \in been \cup {Above}

\* The walk is in the tree, and keeps in mind what it has to report.
WalkInv ==
  /\ \A k \in DOMAIN stack : stack[k].dir \in been /\ (k = 1 => stack[k].name = Top)
  /\ stack = <<>> /\ removalPc # "end" => name = Top
  /\ removalPc = "walk" => stack # <<>>
  /\ removalPc = "end" => stack = <<>>
  /\ removalPc = "open" => ino \in been
AnswerInv ==
  /\ (result = None) <=> (removalPc # "end")
  /\ result = "ok" => content[Above][Top] = None
  /\ result = "err" => reports # {}
  /\ \A k \in DOMAIN stack : stack[k].failed => reports # {}
DepthInv ==
  setting.walk = "purge" =>
    Len(stack) <= setting.depth + 1 /\ (removalPc = "open" => Len(stack) <= setting.depth)
RemovalInv == RemovalTyped /\ TreeInv /\ WalkInv /\ AnswerInv /\ DepthInv /\ R!TreeOnly

-----------------------------------------------------------------------------
(* What holds of it while nobody interferes.                                 *)

Undisturbed == removalChanges = 0 /\ setting.depth > Cardinality(Dirs)
\* Directories are as they were until the walk opens them, and entries as they were or gone.
SameTree ==
  /\ \A d \in Dirs : over[d] = None
  /\ been = R!Below(setting.start)
  /\ \A d \in Dirs, n \in Names : content[d][n] \in {setting.start[d][n], None}
  /\ \A d \in Dirs \ (opened \cup {Above}), n \in Names : content[d][n] = setting.start[d][n]
  /\ \A i \in opened : \E d \in opened \cup {Above}, n \in Names : setting.start[d][n] = i
\* What a directory that is gone held was looked at, if it held anything.
GoneInv ==
  \A d \in Dirs, n \in Names :
    setting.start[d][n] \in Dirs /\ content[d][n] = None =>
      \/ setting.start[d][n] \in opened
      \/ \A m \in Names : setting.start[setting.start[d][n]][m] = None

Parent(k) == IF k = 1 THEN Above ELSE stack[k - 1].dir
Waits(level, n) == \E e \in level.pending : e.name = n
Working == removalPc \in {"stat", "unlink", "open"}
\* The stack is a way down the tree.
ChainInv ==
  \A k \in DOMAIN stack :
    /\ stack[k].dir \in opened /\ content[Parent(k)][stack[k].name] = stack[k].dir
    /\ \A j \in DOMAIN stack : stack[j].dir = stack[k].dir => j = k
    /\ k > 1 => stack[k].name \in stack[k - 1].seen /\ ~Waits(stack[k - 1], stack[k].name)
ListInv ==
  \A k \in DOMAIN stack :
    /\ \A e \in stack[k].pending :
         /\ e.name \in stack[k].seen /\ content[stack[k].dir][e.name] # None
         /\ e.file <=> content[stack[k].dir][e.name] \notin Dirs
         /\ \A f \in stack[k].pending : e.name = f.name => e = f
    /\ stack[k].listed =>
         \/ <<stack[k].dir, None>> \in reports
         \/ \A n \in Names : content[stack[k].dir][n] # None => n \in stack[k].seen
HandInv ==
  Working =>
    /\ content[R!At][name] # None
    /\ stack # <<>> => name \in stack[Len(stack)].seen /\ ~Waits(stack[Len(stack)], name)
    /\ hint \/ removalPc = "unlink" => content[R!At][name] \notin Dirs
    /\ removalPc = "open" => ino = content[R!At][name]

\* The walk is not done with an entry.
AheadIn(k, n) ==
  \/ n \notin stack[k].seen \/ Waits(stack[k], n)
  \/ k < Len(stack) /\ stack[k + 1].name = n
  \/ k = Len(stack) /\ Working /\ name = n
Ahead(d, n) ==
  \/ d = Above /\ removalPc # "end"
  \/ \E k \in DOMAIN stack : stack[k].dir = d /\ AheadIn(k, n)
\* Why an entry stays that the walk is done with.
Stays(d, n) ==
  LET i == content[d][n] IN
  \/ <<d, n>> \in reports \/ <<d, None>> \in reports
  \/ i \in opened /\ (<<i, None>> \in reports \/ \E m \in Names : content[i][m] # None)
DoneInv ==
  \A d \in opened \cup {Above}, n \in Names :
    content[d][n] # None /\ (d = Above => n = Top) /\ ~Ahead(d, n) => Stays(d, n)
\* A level has failed when something of its directory stays.
FailedInv ==
  \A k \in DOMAIN stack :
    /\ ~stack[k].failed =>
         /\ \A n \in Names : content[stack[k].dir][n] # None => AheadIn(k, n)
         /\ \A r \in reports : r[1] # stack[k].dir
    /\ stack[k].failed =>
         \/ <<stack[k].dir, None>> \in reports
         \/ \E n \in Names : content[stack[k].dir][n] # None /\ ~AheadIn(k, n)
\* A directory is opened once: what is opened and still ahead is on the stack.
OnceInv ==
  \A i \in opened, d \in Dirs, n \in Names :
    content[d][n] = i /\ Ahead(d, n) => \E k \in DOMAIN stack : stack[k].dir = i
\* What is reported cannot go, and the walk has nothing to do with it any more.
ReportInv ==
  \A r \in reports :
    /\ r[1] \in opened \cup {Above}
    /\ r[1] = Above => r[2] = Top
    /\ r[2] # None =>
         /\ content[r[1]][r[2]] # None /\ ~Ahead(r[1], r[2]) /\ R!Blocked(r[1], r[2])
         /\ \A q \in reports : q[1] # content[r[1]][r[2]]
UndisturbedInv ==
  /\ SameTree /\ GoneInv /\ ChainInv /\ ListInv /\ HandInv
  /\ DoneInv /\ FailedInv /\ OnceInv /\ ReportInv
\* When there is no tree.
NothingInv ==
  /\ reports = {} /\ been = {} /\ stack = <<>> /\ removalPc \in {"stat", "end"}
  /\ content[Above][Top] = None /\ \A d \in Dirs : over[d] = None
ThoroughInv ==
  Undisturbed =>
    IF setting.start[Above][Top] = None THEN NothingInv ELSE UndisturbedInv

-----------------------------------------------------------------------------
(* Directories and what they hold.                                           *)

\* What lies below some directories is closed, and the smallest set that is.
LEMMA Reach ==
  ASSUME NEW c, NEW S \in SUBSET Dirs
  PROVE  /\ S \subseteq R!From(c, S) /\ R!From(c, S) \subseteq Dirs /\ R!Closed(c, R!From(c, S))
         /\ \A X \in SUBSET Dirs : S \subseteq X /\ R!Closed(c, X) => R!From(c, S) \subseteq X
<1>1. S \subseteq R!From(c, S) /\ R!From(c, S) \subseteq Dirs
  BY DEF R!From
<1>2. ASSUME NEW X \in SUBSET Dirs, S \subseteq X, R!Closed(c, X) PROVE R!From(c, S) \subseteq X
  BY <1>2 DEF R!From
<1>3. ASSUME NEW d \in R!From(c, S), NEW n \in Names, c[d][n] \in Dirs PROVE c[d][n] \in R!From(c, S)
  <2>1. ASSUME NEW X \in SUBSET Dirs, S \subseteq X, R!Closed(c, X) PROVE c[d][n] \in X
    <3>1. d \in X
      BY <1>2, <2>1
    <3> QED
      BY <1>3, <2>1, <3>1 DEF R!Closed
  <2> QED
    BY <1>3, <2>1 DEF R!From
<1> QED
  BY <1>1, <1>2, <1>3 DEF R!Closed

LEMMA ReachBelow ==
  ASSUME NEW c
  PROVE  /\ R!Below(c) \subseteq Dirs /\ R!Closed(c, R!Below(c))
         /\ c[Above][Top] \in Dirs => c[Above][Top] \in R!Below(c)
         /\ \A X \in SUBSET Dirs : (c[Above][Top] \in Dirs => c[Above][Top] \in X) /\ R!Closed(c, X)
                                     => R!Below(c) \subseteq X
<1> DEFINE S == {d \in Dirs : c[Above][Top] = d}
<1>1. S \in SUBSET Dirs /\ R!Below(c) = R!From(c, S)
  BY DEF R!Below
<1> QED
  BY <1>1, Reach

\* A tree whose directories hold fewer directories has fewer below.
LEMMA BelowLess ==
  ASSUME NEW c, NEW b, Above \in Dirs, Top \in Names,
         \A d \in Dirs, n \in Names : b[d][n] \in Dirs => b[d][n] = c[d][n]
  PROVE  R!Below(b) \subseteq R!Below(c)
<1>1. R!Closed(b, R!Below(c))
  BY ReachBelow DEF R!Closed
<1>2. b[Above][Top] \in Dirs => b[Above][Top] \in R!Below(c)
  BY ReachBelow
<1> QED
  BY <1>1, <1>2, ReachBelow

LEMMA PutEntry ==
  ASSUME content \in [Dirs -> [Names -> Inodes]], NEW d \in Dirs, NEW n \in Names, NEW v \in Inodes,
         content' = [content EXCEPT ![d][n] = v]
  PROVE  /\ content' \in [Dirs -> [Names -> Inodes]]
         /\ \A e \in Dirs, m \in Names : content'[e][m] = IF e = d /\ m = n THEN v ELSE content[e][m]
OBVIOUS

-----------------------------------------------------------------------------
(* The stack.                                                                *)

\* A sequence without its last member.
LEMMA AllButLast ==
  ASSUME NEW A, NEW s \in Seq(A), s # <<>>
  PROVE  /\ SubSeq(s, 1, Len(s) - 1) \in Seq(A) /\ Len(SubSeq(s, 1, Len(s) - 1)) = Len(s) - 1
         /\ \A k \in 1 .. Len(s) - 1 : SubSeq(s, 1, Len(s) - 1)[k] = s[k]
<1>1. Len(s) \in Nat \ {0}
  OBVIOUS
<1> QED
  BY <1>1, SMTT(60)

LEMMA SetLevel ==
  ASSUME stack \in Seq(Level), stack # <<>>, NEW l \in Level, R!Set(l)
  PROVE  /\ stack' \in Seq(Level) /\ Len(stack') = Len(stack) /\ stack'[Len(stack)] = l
         /\ \A k \in 1 .. Len(stack) - 1 : stack'[k] = stack[k]
<1>1. Len(stack) \in Nat \ {0}
  OBVIOUS
<1>2. stack' = Append(SubSeq(stack, 1, Len(stack) - 1), l)
  BY DEF R!Set, R!Front
<1> DEFINE below == SubSeq(stack, 1, Len(stack) - 1)
<1>3. below \in Seq(Level) /\ Len(below) = Len(stack) - 1 /\ \A k \in 1 .. Len(stack) - 1 : below[k] = stack[k]
  BY AllButLast
<1> HIDE DEF below
<1> QED
  BY <1>1, <1>2, <1>3 DEF below

LEMMA TopLevel ==
  ASSUME stack \in Seq(Level), stack # <<>>
  PROVE  /\ Len(stack) \in Nat \ {0} /\ Len(stack) \in DOMAIN stack /\ DOMAIN stack = 1 .. Len(stack)
         /\ R!T = stack[Len(stack)] /\ R!T \in Level /\ R!At = R!T.dir /\ R!At \in Dirs
<1>1. Len(stack) \in Nat \ {0} /\ DOMAIN stack = 1 .. Len(stack) /\ stack[Len(stack)] \in Level
  OBVIOUS
<1> QED
  BY <1>1 DEF R!T, R!Last, R!At, Level

\* Levels of the same directories, with the same lists; the last may have failed.
SameLevels(ok) ==
  /\ stack' \in Seq(Level) /\ Len(stack') = Len(stack)
  /\ \A k \in DOMAIN stack :
       /\ stack'[k].dir = stack[k].dir /\ stack'[k].name = stack[k].name
       /\ stack'[k].pending = stack[k].pending /\ stack'[k].seen = stack[k].seen
       /\ stack'[k].listed = stack[k].listed
       /\ stack'[k].failed <=> stack[k].failed \/ (k = Len(stack) /\ ~ok)

LEMMA DoneStep ==
  ASSUME RemovalTyped, NEW ok \in BOOLEAN, R!Done(ok)
  PROVE  /\ SameLevels(ok)
         /\ removalPc' = (IF stack = <<>> THEN "end" ELSE "walk")
         /\ result' = (IF stack = <<>> THEN (IF ok THEN "ok" ELSE "err") ELSE result)
         /\ reports' = (IF ok THEN reports ELSE reports \cup {<<R!At, name>>})
<1>1. SameLevels(ok)
  <2>1. CASE stack = <<>> \/ ok
    <3>1. UNCHANGED stack
      BY <2>1 DEF R!Done, R!KeptAbove
    <3>2. stack \in Seq(Level)
      BY DEF RemovalTyped
    <3>3. \A k \in DOMAIN stack : stack[k].failed <=> stack[k].failed \/ (k = Len(stack) /\ ~ok)
      BY <2>1, <3>2
    <3> QED
      BY <3>1, <3>2, <3>3 DEF SameLevels
  <2>2. CASE stack # <<>> /\ ~ok
    <3> DEFINE l == [R!T EXCEPT !.failed = TRUE]
    <3>1. R!Set(l)
      BY <2>2 DEF R!Done, R!KeptAbove
    <3>2. stack \in Seq(Level) /\ R!T \in Level /\ Len(stack) \in Nat \ {0} /\ R!T = stack[Len(stack)] /\ DOMAIN stack = 1 .. Len(stack)
      BY <2>2, TopLevel DEF RemovalTyped
    <3>3. /\ l \in Level /\ l.dir = R!T.dir /\ l.name = R!T.name /\ l.pending = R!T.pending /\ l.seen = R!T.seen
          /\ l.listed = R!T.listed /\ l.failed
      BY <3>2 DEF Level
    <3> HIDE DEF l
    <3>4. /\ stack' \in Seq(Level) /\ Len(stack') = Len(stack) /\ stack'[Len(stack)] = l
          /\ \A k \in 1 .. Len(stack) - 1 : stack'[k] = stack[k]
      BY <2>2, <3>1, <3>2, <3>3, SetLevel
    <3>5. ASSUME NEW k \in DOMAIN stack
          PROVE  /\ stack'[k].dir = stack[k].dir /\ stack'[k].name = stack[k].name
                 /\ stack'[k].pending = stack[k].pending /\ stack'[k].seen = stack[k].seen
                 /\ stack'[k].listed = stack[k].listed
                 /\ stack'[k].failed <=> stack[k].failed \/ (k = Len(stack) /\ ~ok)
      <4>1. CASE k = Len(stack)
        BY <2>2, <3>2, <3>3, <3>4, <4>1
      <4>2. CASE k \in 1 .. Len(stack) - 1
        BY <3>2, <3>4, <4>2
      <4> QED
        BY <3>2, <4>1, <4>2
    <3> QED
      BY <3>4, <3>5 DEF SameLevels
  <2> QED
    BY <2>1, <2>2
<1> QED
  BY <1>1 DEF R!Done

\* What the walker has at hand is in the tree.
LEMMA Hand ==
  ASSUME R!RemovalAssumption, RemovalInv, Working
  PROVE  /\ R!At \in Dirs /\ name \in Names /\ (R!At \in been \/ (R!At = Above /\ name = Top /\ stack = <<>>))
         /\ content[R!At][name] \in Dirs => content[R!At][name] \in been
<1>1. name \in Names /\ Above \in Dirs /\ stack \in Seq(Level)
  BY DEF R!RemovalAssumption, RemovalInv, RemovalTyped
<1>2. CASE stack = <<>>
  <2>1. R!At = Above /\ name = Top
    BY <1>2 DEF R!At, RemovalInv, WalkInv, Working
  <2>2. content[Above][Top] \in Dirs => content[Above][Top] \in been
    BY ReachBelow DEF RemovalInv, TreeInv
  <2> QED
    BY <1>1, <1>2, <2>1, <2>2
<1>3. CASE stack # <<>>
  <2>1. R!At \in Dirs /\ R!At \in been
    BY <1>1, <1>3, TopLevel DEF RemovalInv, WalkInv
  <2> QED
    BY <1>1, <2>1 DEF RemovalInv, TreeInv, R!Closed
<1> QED
  BY <1>2, <1>3

\* What leads nowhere is not there, and what is mounted on is not what it is seen as.
LEMMA Nodes ==
  ASSUME R!RemovalAssumption, RemovalTyped, NEW d \in Dirs, NEW n \in Names
  PROVE  /\ R!Node(d, n) = None <=> content[d][n] = None
         /\ R!Node(d, n) \in Dirs <=> content[d][n] \in Dirs
         /\ ~R!Mounted(d, n) => R!Node(d, n) = content[d][n]
         /\ content[d][n] \in Dirs /\ over[content[d][n]] = None => ~R!Mounted(d, n)
         /\ content[d][n] \notin Dirs => ~R!Mounted(d, n)
<1>1. None \notin Dirs /\ Foreign \in Dirs
  BY DEF R!RemovalAssumption
<1>2. content[d][n] \in Dirs => over[content[d][n]] \in {None, Foreign}
  BY DEF RemovalTyped
<1> QED
  BY <1>1, <1>2 DEF R!Node, R!Mounted, R!Held, R!IsDir

\* A walker takes away at most one entry of the tree.
LEMMA TreeShrinks ==
  ASSUME R!RemovalAssumption, RemovalInv, UNCHANGED been,
         \A d \in Dirs, n \in Names : content'[d][n] \in {content[d][n], None},
         \/ UNCHANGED taken
         \/ \E d \in been \cup {Above}, n \in Names : (d = Above => n = Top) /\ taken' = taken \cup {<<d, n>>}
  PROVE  TreeInv' /\ R!TreeOnly'
<1>0. None \notin Dirs /\ Bystanders \subseteq Dirs /\ Above \in Dirs /\ Top \in Names /\ Foreign # Above
  BY DEF R!RemovalAssumption, Bystanders
<1>1. R!Below(content') \subseteq R!Below(content)
  BY <1>0, BelowLess, ZenonT(60)
<1>2. R!Closed(content', been)
  <2>1. been \subseteq Dirs
    BY DEF RemovalInv, RemovalTyped
  <2> QED
    BY <1>0, <2>1 DEF R!Closed, RemovalInv, TreeInv
<1>3. \A d \in Dirs, n \in Names : content'[d][n] \notin Bystanders
  BY <1>0 DEF RemovalInv, TreeInv
<1>4. \A d \in Dirs : content'[d][Top] # None => d \in been \cup {Above}
  BY <1>0 DEF RemovalInv, TreeInv
<1>5. \A e \in taken : (e[1] \in been \cup {Above} /\ e[1] # Foreign) /\ (e[1] = Above => e[2] = Top)
  BY DEF RemovalInv, R!TreeOnly
<1>6. \A d \in been \cup {Above} : d # Foreign
  BY <1>0 DEF RemovalInv, RemovalTyped, Bystanders
<1>7. \A e \in taken' : (e[1] \in been \cup {Above} /\ e[1] # Foreign) /\ (e[1] = Above => e[2] = Top)
  BY <1>5, <1>6
<1> QED
  BY <1>1, <1>2, <1>3, <1>4, <1>7 DEF TreeInv, R!TreeOnly, RemovalInv

\* What an entry that is done with does to the walk and its answer.
LEMMA DoneKeeps ==
  ASSUME R!RemovalAssumption, RemovalInv, Working, NEW ok \in BOOLEAN, R!Done(ok), UNCHANGED <<setting, been, name>>,
         \A d \in Dirs, n \in Names : content'[d][n] \in {content[d][n], None},
         ok /\ stack = <<>> => content'[Above][Top] = None
  PROVE  WalkInv' /\ AnswerInv' /\ DepthInv'
<1>1. /\ SameLevels(ok)
      /\ removalPc' = (IF stack = <<>> THEN "end" ELSE "walk")
      /\ result' = (IF stack = <<>> THEN (IF ok THEN "ok" ELSE "err") ELSE result)
      /\ reports' = (IF ok THEN reports ELSE reports \cup {<<R!At, name>>})
  BY DoneStep DEF RemovalInv
<1>2. /\ stack \in Seq(Level) /\ stack' \in Seq(Level) /\ Len(stack') = Len(stack) /\ DOMAIN stack' = DOMAIN stack
      /\ stack' = <<>> <=> stack = <<>>
  BY <1>1 DEF SameLevels, RemovalInv, RemovalTyped
<1>3. \A k \in DOMAIN stack : stack'[k].dir = stack[k].dir /\ stack'[k].name = stack[k].name
                              /\ (stack'[k].failed <=> stack[k].failed \/ (k = Len(stack) /\ ~ok))
  BY <1>1 DEF SameLevels
<1>4. WalkInv'
  BY <1>1, <1>2, <1>3 DEF WalkInv, RemovalInv
<1>5. AnswerInv'
  <2>1. None \notin {"ok", "err"}
    BY DEF R!RemovalAssumption
  <2>2. result = None
    BY DEF RemovalInv, AnswerInv, Working
  <2>3. (result' = None) <=> (removalPc' # "end")
    BY <1>1, <2>1, <2>2
  <2>4. result' = "ok" => content'[Above][Top] = None
    BY <1>1, <2>1, <2>2
  <2>5. ~ok => reports' # {}
    BY <1>1
  <2>6. result' = "err" => reports' # {}
    BY <1>1, <2>1, <2>2, <2>5
  <2>7. \A k \in DOMAIN stack' : stack'[k].failed => reports' # {}
    BY <1>1, <1>2, <1>3, <2>5 DEF RemovalInv, AnswerInv
  <2> QED
    BY <2>3, <2>4, <2>6, <2>7 DEF AnswerInv
<1>6. DepthInv'
  BY <1>1, <1>2 DEF DepthInv, RemovalInv
<1> QED
  BY <1>4, <1>5, <1>6

-----------------------------------------------------------------------------
(* Steps of the walker.                                                      *)

\* The last level goes on.
LEMMA LevelKeeps ==
  ASSUME R!RemovalAssumption, RemovalInv, stack # <<>>, removalPc = "walk", NEW l \in Level, R!Set(l),
         l.dir = R!T.dir, l.name = R!T.name, UNCHANGED <<setting, content, been, result>>,
         removalPc' \in {"walk", "stat", "unlink"}, reports \subseteq reports', l.failed => R!T.failed \/ reports' # {}
  PROVE  WalkInv' /\ AnswerInv' /\ DepthInv'
<1>1. /\ stack \in Seq(Level) /\ Len(stack) \in Nat \ {0} /\ R!T = stack[Len(stack)] /\ DOMAIN stack = 1 .. Len(stack)
  BY TopLevel DEF RemovalInv, RemovalTyped
<1>2. /\ stack' \in Seq(Level) /\ Len(stack') = Len(stack) /\ stack'[Len(stack)] = l
      /\ \A k \in 1 .. Len(stack) - 1 : stack'[k] = stack[k]
  BY <1>1, SetLevel
<1>3. DOMAIN stack' = DOMAIN stack /\ stack' # <<>>
  BY <1>1, <1>2
<1>4. ASSUME NEW k \in DOMAIN stack
      PROVE  stack'[k].dir = stack[k].dir /\ stack'[k].name = stack[k].name
             /\ (stack'[k].failed => stack[k].failed \/ reports' # {})
  BY <1>1, <1>2
<1>5. WalkInv'
  BY <1>3, <1>4 DEF WalkInv, RemovalInv
<1>6. AnswerInv'
  BY <1>3, <1>4 DEF AnswerInv, RemovalInv
<1>7. DepthInv'
  BY <1>2 DEF DepthInv, RemovalInv
<1> QED
  BY <1>5, <1>6, <1>7

\* A read of a directory that fails, that finds the end, or that finds some entries.
LEMMA BatchStep ==
  ASSUME R!RemovalAssumption, RemovalTyped, R!Batch, stack # <<>>
  PROVE  \E l \in Level :
    /\ R!Set(l) /\ l.dir = R!T.dir /\ l.name = R!T.name /\ R!T.pending = {} /\ ~R!T.listed
    /\ \/ /\ l.pending = {} /\ l.seen = R!T.seen /\ l.listed /\ l.failed
          /\ reports' = reports \cup {<<R!T.dir, None>>}
       \/ /\ UNCHANGED reports /\ (l.failed <=> R!T.failed)
          /\ \/ /\ l.pending = {} /\ l.seen = R!T.seen /\ l.listed
                /\ \A n \in Names : content[R!T.dir][n] # None => n \in R!T.seen
             \/ /\ ~l.listed
                /\ \E some \in SUBSET Names :
                     /\ \A n \in some : content[R!T.dir][n] # None /\ n \notin R!T.seen
                     /\ l.pending = {[name |-> n, file |-> content[R!T.dir][n] \notin Dirs] : n \in some}
                     /\ l.seen = R!T.seen \cup some
<1>1. R!T \in Level /\ R!T.dir \in Dirs
  BY TopLevel DEF RemovalTyped, Level
<1> DEFINE new == R!Entries(R!T.dir) \ R!T.seen
<1>2. R!T.pending = {} /\ ~R!T.listed
  BY DEF R!Batch
<1>3. CASE R!T.dir \in setting.broken
  <2> DEFINE l == [R!T EXCEPT !.listed = TRUE, !.failed = TRUE]
  <2>1. R!Set(l) /\ reports' = reports \cup {<<R!T.dir, None>>}
    BY <1>3 DEF R!Batch
  <2>2. l \in Level /\ l.dir = R!T.dir /\ l.name = R!T.name /\ l.pending = R!T.pending /\ l.seen = R!T.seen /\ l.listed /\ l.failed
    BY <1>1 DEF Level
  <2> HIDE DEF l
  <2> QED
    BY <1>2, <2>1, <2>2
<1>4. CASE R!T.dir \notin setting.broken /\ new = {}
  <2> DEFINE l == [R!T EXCEPT !.listed = TRUE]
  <2>1. R!Set(l) /\ UNCHANGED reports
    BY <1>4 DEF R!Batch
  <2>2. l \in Level /\ l.dir = R!T.dir /\ l.name = R!T.name /\ l.pending = R!T.pending /\ l.seen = R!T.seen /\ l.listed
        /\ l.failed = R!T.failed
    BY <1>1 DEF Level
  <2>3. \A n \in Names : content[R!T.dir][n] # None => n \in R!T.seen
    BY <1>4 DEF R!Entries, R!Held
  <2> HIDE DEF l
  <2> QED
    BY <1>2, <2>1, <2>2, <2>3
<1>5. CASE R!T.dir \notin setting.broken /\ new # {}
  <2>1. PICK some \in SUBSET new \ {{}} :
          R!Set([R!T EXCEPT !.pending = {[name |-> n, file |-> ~R!IsDir(R!Held(R!T.dir, n))] : n \in some},
                            !.seen = R!Relist(R!T.seen, some)])
    BY <1>5 DEF R!Batch
  <2> DEFINE p == {[name |-> n, file |-> content[R!T.dir][n] \notin Dirs] : n \in some}
             l == [R!T EXCEPT !.pending = p, !.seen = R!T.seen \cup some]
  <2>2. UNCHANGED reports /\ R!Set(l)
    BY <1>5, <2>1 DEF R!Batch, R!IsDir, R!Held, R!Relist
  <2>3. some \in SUBSET Names /\ \A n \in some : content[R!T.dir][n] # None /\ n \notin R!T.seen
    BY DEF R!Entries, R!Held
  <2>4. p \in SUBSET [name : Names, file : BOOLEAN]
    <3>1. ASSUME NEW n \in some, NEW file \in BOOLEAN PROVE [name |-> n, file |-> file] \in [name : Names, file : BOOLEAN]
      BY <2>3
    <3>2. ASSUME NEW n \in some PROVE (content[R!T.dir][n] \notin Dirs) \in BOOLEAN
      OBVIOUS
    <3> QED
      BY <3>1, <3>2
  <2> HIDE DEF p
  <2>5. l \in Level /\ l.dir = R!T.dir /\ l.name = R!T.name /\ l.pending = p /\ l.seen = R!T.seen \cup some
        /\ l.failed = R!T.failed /\ l.listed = R!T.listed
    BY <1>1, <2>3, <2>4 DEF Level
  <2> HIDE DEF l
  <2> QED
    BY <1>2, <2>2, <2>3, <2>5 DEF p
<1> QED
  BY <1>3, <1>4, <1>5

LEMMA BatchKeeps ==
  ASSUME R!RemovalAssumption, RemovalInv, R!Batch
  PROVE  RemovalInv'
<1>1. removalPc = "walk" /\ stack # <<>> /\ RemovalTyped
  BY DEF R!Batch, RemovalInv, WalkInv
<1>2. PICK l \in Level :
        /\ R!Set(l) /\ l.dir = R!T.dir /\ l.name = R!T.name
        /\ \/ reports' = reports \cup {<<R!T.dir, None>>}
           \/ UNCHANGED reports /\ (l.failed <=> R!T.failed)
  BY <1>1, BatchStep
<1>3. UNCHANGED <<setting, over, removalChanges, been, content, modes, removalPc, name, hint, ino, result, taken, opened>>
  BY DEF R!Batch, R!Files
<1>4. stack \in Seq(Level) /\ R!T \in Level /\ R!T.dir \in Dirs
  BY <1>1, TopLevel DEF RemovalTyped, Level
<1>5. stack' \in Seq(Level)
  BY <1>1, <1>2, <1>4, SetLevel
<1>6. reports' \subseteq Dirs \X (Names \cup {None})
  BY <1>1, <1>2, <1>4 DEF RemovalTyped
<1>7. RemovalTyped'
  BY <1>1, <1>3, <1>5, <1>6 DEF RemovalTyped
<1>8. WalkInv' /\ AnswerInv' /\ DepthInv'
  BY <1>1, <1>2, <1>3, LevelKeeps
<1>9. TreeInv' /\ R!TreeOnly'
  BY <1>3, TreeShrinks
<1> QED
  BY <1>7, <1>8, <1>9 DEF RemovalInv

\* An entry is taken from the list.
LEMMA PopStep ==
  ASSUME R!RemovalAssumption, RemovalTyped, R!Pop, stack # <<>>
  PROVE  \E e \in R!T.pending, l \in Level :
    /\ R!Set(l) /\ l.dir = R!T.dir /\ l.name = R!T.name /\ l.pending = R!T.pending \ {e} /\ l.seen = R!T.seen
    /\ l.listed = R!T.listed /\ l.failed = R!T.failed
    /\ e \in [name : Names, file : BOOLEAN] /\ name' = e.name /\ hint' = e.file
    /\ removalPc' \in {"stat", "unlink"} /\ (removalPc' = "unlink" => e.file)
<1>1. R!T \in Level
  BY TopLevel DEF RemovalTyped
<1>2. PICK e \in R!T.pending :
        /\ R!Set([R!T EXCEPT !.pending = R!T.pending \ {e}]) /\ name' = e.name /\ hint' = e.file
        /\ removalPc' = IF setting.walk = "real" /\ e.file THEN "unlink" ELSE "stat"
  BY DEF R!Pop
<1> DEFINE l == [R!T EXCEPT !.pending = R!T.pending \ {e}]
<1>3. e \in [name : Names, file : BOOLEAN]
  BY <1>1 DEF Level
<1>4. l \in Level /\ l.dir = R!T.dir /\ l.name = R!T.name /\ l.pending = R!T.pending \ {e} /\ l.seen = R!T.seen
      /\ l.listed = R!T.listed /\ l.failed = R!T.failed
  BY <1>1 DEF Level
<1>5. R!Set(l) /\ removalPc' \in {"stat", "unlink"} /\ (removalPc' = "unlink" => e.file)
  BY <1>2
<1> HIDE DEF l
<1> QED
  BY <1>2, <1>3, <1>4, <1>5

LEMMA PopKeeps ==
  ASSUME R!RemovalAssumption, RemovalInv, R!Pop
  PROVE  RemovalInv'
<1>1. removalPc = "walk" /\ stack # <<>> /\ RemovalTyped
  BY DEF R!Pop, RemovalInv, WalkInv
<1>2. PICK e \in R!T.pending, l \in Level :
        /\ R!Set(l) /\ l.dir = R!T.dir /\ l.name = R!T.name /\ l.failed = R!T.failed
        /\ e \in [name : Names, file : BOOLEAN] /\ name' = e.name /\ hint' = e.file
        /\ removalPc' \in {"stat", "unlink"}
  BY <1>1, PopStep
<1>3. UNCHANGED <<setting, over, removalChanges, been, content, modes, ino, result, reports, taken, opened>>
  BY DEF R!Pop, R!Files
<1>4. stack' \in Seq(Level)
  BY <1>1, <1>2, SetLevel DEF RemovalTyped
<1>5. RemovalTyped'
  BY <1>1, <1>2, <1>3, <1>4 DEF RemovalTyped
<1>6. WalkInv' /\ AnswerInv' /\ DepthInv'
  BY <1>1, <1>2, <1>3, LevelKeeps
<1>7. TreeInv' /\ R!TreeOnly'
  BY <1>3, TreeShrinks
<1> QED
  BY <1>5, <1>6, <1>7 DEF RemovalInv

\* What is done with is reported as done, or as not.
LEMMA DoneTyped ==
  ASSUME R!RemovalAssumption, RemovalInv, Working, NEW ok \in BOOLEAN, R!Done(ok),
         UNCHANGED <<setting, over, removalChanges, been, name, ino, opened>>,
         content' \in [Dirs -> [Names -> Inodes]], modes' \subseteq modes, hint' \in BOOLEAN,
         taken' \subseteq Dirs \X Names
  PROVE  RemovalTyped'
<1>1. /\ SameLevels(ok)
      /\ removalPc' = (IF stack = <<>> THEN "end" ELSE "walk")
      /\ result' = (IF stack = <<>> THEN (IF ok THEN "ok" ELSE "err") ELSE result)
      /\ reports' = (IF ok THEN reports ELSE reports \cup {<<R!At, name>>})
  BY DoneStep DEF RemovalInv
<1>2. reports' \subseteq Dirs \X (Names \cup {None})
  BY <1>1, Hand DEF RemovalInv, RemovalTyped
<1>3. stack' \in Seq(Level) /\ removalPc' \in {"walk", "end"} /\ result' \in {None, "ok", "err"}
  BY <1>1 DEF SameLevels, RemovalInv, RemovalTyped
<1> QED
  BY <1>2, <1>3 DEF RemovalInv, RemovalTyped

\* An entry that is at hand is taken away.
LEMMA GoneStep ==
  ASSUME R!RemovalAssumption, RemovalTyped, NEW d \in Dirs, NEW n \in Names, R!Gone(d, n)
  PROVE  /\ content' \in [Dirs -> [Names -> Inodes]] /\ taken' \subseteq Dirs \X Names
         /\ taken' = taken \cup {<<d, n>>}
         /\ \A e \in Dirs, m \in Names : content'[e][m] = IF e = d /\ m = n THEN None ELSE content[e][m]
<1>1. None \in Inodes /\ content \in [Dirs -> [Names -> Inodes]]
  BY DEF Inodes, RemovalTyped
<1>2. content' = [content EXCEPT ![d][n] = None] /\ taken' = taken \cup {<<d, n>>}
  BY DEF R!Gone
<1>3. taken' \subseteq Dirs \X Names
  BY <1>2 DEF RemovalTyped
<1> QED
  BY <1>1, <1>2, <1>3, PutEntry

\* The ways in which what is at hand is done with: it is left, or taken away.
LEMMA HandKeeps ==
  ASSUME R!RemovalAssumption, RemovalInv, Working, NEW ok \in BOOLEAN, R!Done(ok),
         UNCHANGED <<setting, over, removalChanges, been, name, ino, opened>>, modes' \subseteq modes, hint' \in BOOLEAN,
         \/ UNCHANGED <<content, taken>> /\ (ok => content[R!At][name] = None)
         \/ R!Gone(R!At, name)
  PROVE  RemovalInv'
<1>1. R!At \in Dirs /\ name \in Names /\ (R!At \in been \/ (R!At = Above /\ name = Top /\ stack = <<>>))
  BY Hand
<1>2. RemovalTyped /\ Above \notin been
  BY DEF RemovalInv, RemovalTyped, Bystanders
<1>3. /\ content' \in [Dirs -> [Names -> Inodes]] /\ taken' \subseteq Dirs \X Names
      /\ \A d \in Dirs, n \in Names : content'[d][n] \in {content[d][n], None}
      /\ UNCHANGED taken \/ taken' = taken \cup {<<R!At, name>>}
      /\ ok => content'[R!At][name] = None
  <2>1. CASE UNCHANGED <<content, taken>> /\ (ok => content[R!At][name] = None)
    BY <1>2, <2>1 DEF RemovalTyped
  <2>2. CASE R!Gone(R!At, name)
    BY <1>1, <1>2, <2>2, GoneStep
  <2> QED
    BY <2>1, <2>2
<1>4. RemovalTyped'
  BY <1>3, DoneTyped
<1>5. TreeInv' /\ R!TreeOnly'
  <2>1. \/ UNCHANGED taken
        \/ \E d \in been \cup {Above}, n \in Names : (d = Above => n = Top) /\ taken' = taken \cup {<<d, n>>}
    BY <1>1, <1>2, <1>3
  <2> QED
    BY <1>3, <2>1, TreeShrinks
<1>6. ok /\ stack = <<>> => content'[Above][Top] = None
  BY <1>1, <1>3 DEF RemovalInv, WalkInv, Working, R!At
<1>7. WalkInv' /\ AnswerInv' /\ DepthInv'
  BY <1>3, <1>6, DoneKeeps
<1> QED
  BY <1>4, <1>5, <1>7 DEF RemovalInv

\* What is at hand is looked at once more.
LEMMA LooksAgain ==
  ASSUME R!RemovalAssumption, RemovalInv, Working,
         UNCHANGED <<setting, over, removalChanges, been, opened, content, modes, name, stack, reports, result, taken>>,
         removalPc' \in {"stat", "unlink", "open"}, hint' \in BOOLEAN, ino' \in Dirs \cup {None},
         removalPc' = "open" => ino' \in been /\ (setting.walk = "purge" => Len(stack) <= setting.depth)
  PROVE  RemovalInv'
<1>1. RemovalTyped'
  BY DEF RemovalInv, RemovalTyped
<1>2. TreeInv' /\ R!TreeOnly'
  BY TreeShrinks
<1>3. WalkInv'
  BY DEF RemovalInv, WalkInv, Working
<1>4. AnswerInv' /\ DepthInv'
  BY DEF RemovalInv, AnswerInv, DepthInv, Working
<1> QED
  BY <1>1, <1>2, <1>3, <1>4 DEF RemovalInv

LEMMA UnlinkKeeps ==
  ASSUME R!RemovalAssumption, RemovalInv, R!Unlink
  PROVE  RemovalInv'
<1> DEFINE i == content[R!At][name]
<1>1. Working /\ UNCHANGED <<setting, over, removalChanges, been, modes, name, ino, opened>>
  BY DEF R!Unlink, R!Files, Working
<1>2. hint \in BOOLEAN /\ ino \in Dirs \cup {None} /\ modes \subseteq modes
  BY DEF RemovalInv, RemovalTyped
<1>3. CASE i = None
  <2>0. i \notin Dirs
    BY <1>3 DEF R!RemovalAssumption
  <2>1. R!Done(TRUE) /\ UNCHANGED <<content, taken, hint>>
    BY <1>3, <2>0 DEF R!Unlink, R!Held, R!IsDir, R!Pinned
  <2> QED
    BY <1>1, <1>2, <1>3, <2>1, HandKeeps
<1>4. CASE i \in Dirs /\ hint
  <2>0. i # None
    BY <1>4 DEF R!RemovalAssumption
  <2>1. removalPc' = "stat" /\ hint' = FALSE /\ UNCHANGED <<content, taken, stack, reports, result>>
    BY <1>4, <2>0 DEF R!Unlink, R!Held, R!IsDir
  <2> QED
    BY <1>1, <1>2, <2>1, LooksAgain
<1>5. CASE i # None /\ ((i \in Dirs /\ ~hint) \/ (i \notin Dirs /\ R!Pinned(R!At, name)))
  <2>1. R!Done(FALSE) /\ UNCHANGED <<content, taken, hint>>
    BY <1>5 DEF R!Unlink, R!Held, R!IsDir
  <2> QED
    BY <1>1, <1>2, <2>1, HandKeeps
<1>6. CASE i # None /\ i \notin Dirs /\ ~R!Pinned(R!At, name)
  <2>1. R!Done(TRUE) /\ R!Gone(R!At, name) /\ UNCHANGED hint
    BY <1>6 DEF R!Unlink, R!Held, R!IsDir
  <2> QED
    BY <1>1, <1>2, <2>1, HandKeeps
<1> QED
  BY <1>2, <1>3, <1>4, <1>5, <1>6

LEMMA StatKeeps ==
  ASSUME R!RemovalAssumption, RemovalInv, R!Stat
  PROVE  RemovalInv'
<1> DEFINE i == R!Node(R!At, name)
<1>1. Working /\ UNCHANGED <<setting, over, removalChanges, been, content, modes, name, taken, opened>>
  BY DEF R!Stat, R!Files, Working
<1>2. hint \in BOOLEAN /\ ino \in Dirs \cup {None} /\ modes \subseteq modes /\ RemovalTyped
  BY DEF RemovalInv, RemovalTyped
<1>3. R!At \in Dirs /\ name \in Names /\ (content[R!At][name] \in Dirs => content[R!At][name] \in been)
  BY <1>1, Hand
<1>4. CASE i = None
  <2>1. R!Done(TRUE) /\ UNCHANGED <<ino, hint>>
    BY <1>4 DEF R!Stat, R!IsDir, R!RemovalAssumption
  <2>2. content[R!At][name] = None
    BY <1>2, <1>3, <1>4, Nodes
  <2> QED
    BY <1>1, <1>2, <2>1, <2>2, HandKeeps
<1>5. CASE i # None /\ i \notin Dirs
  <2>1. removalPc' = "unlink" /\ hint' = FALSE /\ UNCHANGED <<ino, stack, reports, result>>
    BY <1>5 DEF R!Stat, R!IsDir
  <2> QED
    BY <1>1, <1>2, <2>1, LooksAgain
<1>6. CASE i # None /\ i \in Dirs /\ (R!Busy(R!At, name) \/ R!TooDeep)
  <2>1. R!Done(FALSE) /\ UNCHANGED <<ino, hint>>
    BY <1>6 DEF R!Stat, R!IsDir
  <2> QED
    BY <1>1, <1>2, <2>1, HandKeeps
<1>7. CASE i # None /\ i \in Dirs /\ ~(R!Busy(R!At, name) \/ R!TooDeep)
  <2>1. ino' = i /\ removalPc' = "open" /\ UNCHANGED <<hint, stack, reports, result>>
    BY <1>7 DEF R!Stat, R!IsDir
  <2>2. i = content[R!At][name]
    BY <1>2, <1>3, <1>7, Nodes DEF R!Busy
  <2>3. ino' \in been
    BY <1>3, <1>7, <2>1, <2>2
  <2>4. setting.walk = "purge" => Len(stack) <= setting.depth
    <3>1. setting.depth \in Nat /\ Len(stack) \in Nat
      BY <1>2 DEF RemovalTyped, R!RemovalAssumption
    <3> QED
      BY <1>7, <3>1 DEF R!TooDeep
  <2> QED
    BY <1>1, <1>2, <1>7, <2>1, <2>3, <2>4, LooksAgain
<1> QED
  BY <1>4, <1>5, <1>6, <1>7

\* The directory at hand is opened, or it is done with.
LEMMA OpenStep ==
  ASSUME R!RemovalAssumption, RemovalInv, R!Open
  PROVE  \/ /\ R!Node(R!At, name) = ino /\ ino \in been /\ ino \notin modes'
            /\ stack' = Append(stack, [dir |-> ino, name |-> name, pending |-> {}, seen |-> {},
                                       listed |-> FALSE, failed |-> FALSE])
            /\ removalPc' = "walk" /\ opened' = opened \cup {ino} /\ UNCHANGED <<content, taken, reports, result>>
         \/ /\ UNCHANGED opened
            /\ \E ok \in BOOLEAN :
                 /\ R!Done(ok)
                 /\ \/ UNCHANGED <<content, taken>> /\ (ok => content[R!At][name] = None)
                    \/ /\ R!Gone(R!At, name) /\ ok /\ setting.walk = "real" /\ R!Node(R!At, name) \in modes
                       /\ R!Entries(R!Node(R!At, name)) = {} /\ ~R!Mounted(R!At, name)
<1> DEFINE i == R!Node(R!At, name)
<1>1. Working /\ RemovalTyped /\ None \notin Dirs
  BY DEF R!Open, Working, RemovalInv, R!RemovalAssumption
<1>2. R!At \in Dirs /\ name \in Names
  BY <1>1, Hand
<1>3. modes' \subseteq modes
  BY DEF R!Open, R!Unlocked
<1>4. CASE i = None
  <2>1. R!Done(setting.walk = "real") /\ UNCHANGED <<content, taken, opened>>
    BY <1>1, <1>4 DEF R!Open, R!IsDir
  <2>2. content[R!At][name] = None /\ (setting.walk = "real") \in BOOLEAN
    BY <1>1, <1>2, <1>4, Nodes
  <2> QED
    BY <2>1, <2>2
<1>5. CASE i # None /\ (i \notin Dirs \/ (i \in Dirs /\ i \notin modes' /\ i # ino))
  <2>1. R!Done(FALSE) /\ UNCHANGED <<content, taken, opened>>
    BY <1>5 DEF R!Open, R!IsDir, R!Same
  <2> QED
    BY <2>1
<1>6. CASE i \in Dirs /\ i \in modes'
  <2>1. IF setting.walk = "real" /\ ~R!Mounted(R!At, name) /\ R!Entries(i) = {} /\ ~R!Pinned(R!At, name)
        THEN R!Done(TRUE) /\ R!Gone(R!At, name) /\ UNCHANGED opened
        ELSE R!Done(FALSE) /\ UNCHANGED <<content, taken, opened>>
    BY <1>1, <1>6 DEF R!Open, R!IsDir, R!Same
  <2> QED
    BY <1>3, <1>6, <2>1
<1>7. CASE i \in Dirs /\ i \notin modes' /\ i = ino
  <2>1. /\ stack' = Append(stack, [dir |-> i, name |-> name, pending |-> {}, seen |-> {},
                                  listed |-> FALSE, failed |-> FALSE])
        /\ removalPc' = "walk" /\ opened' = opened \cup {i} /\ UNCHANGED <<content, taken, reports, result>>
    BY <1>1, <1>7 DEF R!Open, R!IsDir, R!Same
  <2>2. ino \in been
    BY DEF R!Open, RemovalInv, WalkInv
  <2> QED
    BY <1>7, <2>1, <2>2
<1> QED
  BY <1>4, <1>5, <1>6, <1>7

LEMMA PushLevel ==
  ASSUME R!RemovalAssumption, RemovalTyped, ino \in Dirs,
         stack' = Append(stack, [dir |-> ino, name |-> name, pending |-> {}, seen |-> {},
                                 listed |-> FALSE, failed |-> FALSE])
  PROVE  /\ stack' \in Seq(Level) /\ Len(stack) \in Nat /\ Len(stack') = Len(stack) + 1 /\ stack' # <<>>
         /\ \A k \in DOMAIN stack : k \in DOMAIN stack' /\ stack'[k] = stack[k]
         /\ DOMAIN stack' = DOMAIN stack \cup {Len(stack) + 1} /\ Len(stack) + 1 \notin DOMAIN stack
         /\ LET l == stack'[Len(stack) + 1] IN
            l.dir = ino /\ l.name = name /\ l.pending = {} /\ l.seen = {} /\ ~l.listed /\ ~l.failed
<1> DEFINE l == [dir |-> ino, name |-> name, pending |-> {}, seen |-> {}, listed |-> FALSE, failed |-> FALSE]
<1>1. stack \in Seq(Level) /\ name \in Names
  BY DEF RemovalTyped
<1>2. l \in Level
  BY <1>1 DEF Level
<1>3. l.dir = ino /\ l.name = name /\ l.pending = {} /\ l.seen = {} /\ ~l.listed /\ ~l.failed
  OBVIOUS
<1> HIDE DEF l
<1>4. stack' = Append(stack, l)
  BY DEF l
<1>5. /\ stack' \in Seq(Level) /\ Len(stack) \in Nat /\ Len(stack') = Len(stack) + 1
      /\ stack'[Len(stack) + 1] = l /\ \A k \in 1 .. Len(stack) : stack'[k] = stack[k]
  BY <1>1, <1>2, <1>4
<1>6. DOMAIN stack = 1 .. Len(stack) /\ DOMAIN stack' = 1 .. Len(stack) + 1
  BY <1>1, <1>5
<1> QED
  BY <1>3, <1>5, <1>6

LEMMA OpenKeeps ==
  ASSUME R!RemovalAssumption, RemovalInv, R!Open
  PROVE  RemovalInv'
<1>1. /\ Working /\ removalPc = "open" /\ RemovalTyped /\ modes' \subseteq modes
      /\ UNCHANGED <<setting, over, removalChanges, been, name, hint, ino>>
  BY DEF R!Open, R!Files, R!Unlocked, Working, RemovalInv
<1>2. CASE UNCHANGED opened /\ \E ok \in BOOLEAN :
                 /\ R!Done(ok)
                 /\ \/ UNCHANGED <<content, taken>> /\ (ok => content[R!At][name] = None)
                    \/ R!Gone(R!At, name)
  <2>1. hint' \in BOOLEAN
    BY <1>1 DEF RemovalTyped
  <2> QED
    BY <1>1, <1>2, <2>1, HandKeeps
<1>3. CASE /\ ino \in been
           /\ stack' = Append(stack, [dir |-> ino, name |-> name, pending |-> {}, seen |-> {},
                                      listed |-> FALSE, failed |-> FALSE])
           /\ removalPc' = "walk" /\ opened' = opened \cup {ino} /\ UNCHANGED <<content, taken, reports, result>>
  <2>1. ino \in Dirs
    BY <1>1, <1>3 DEF RemovalTyped
  <2>2. /\ stack' \in Seq(Level) /\ Len(stack) \in Nat /\ Len(stack') = Len(stack) + 1 /\ stack' # <<>>
        /\ \A k \in DOMAIN stack : k \in DOMAIN stack' /\ stack'[k] = stack[k]
        /\ DOMAIN stack' = DOMAIN stack \cup {Len(stack) + 1}
        /\ stack'[Len(stack) + 1].dir = ino /\ stack'[Len(stack) + 1].name = name /\ ~stack'[Len(stack) + 1].failed
    BY <1>1, <1>3, <2>1, PushLevel
  <2>3. RemovalTyped'
    BY <1>1, <1>3, <2>2 DEF RemovalTyped
  <2>4. TreeInv' /\ R!TreeOnly'
    BY <1>1, <1>3, TreeShrinks
  <2>5. Len(stack) + 1 = 1 => name = Top
    <3>1. Len(stack) = 0 => stack = <<>>
      BY <1>1 DEF RemovalTyped
    <3> QED
      BY <1>1, <2>2, <3>1 DEF RemovalInv, WalkInv
  <2>6. WalkInv'
    BY <1>1, <1>3, <2>2, <2>5 DEF RemovalInv, WalkInv
  <2>7. AnswerInv'
    BY <1>1, <1>3, <2>2 DEF RemovalInv, AnswerInv
  <2>8. DepthInv'
    <3>1. setting.depth \in Nat
      BY <1>1 DEF RemovalTyped, R!RemovalAssumption
    <3> QED
      BY <1>1, <1>3, <2>2, <3>1 DEF RemovalInv, DepthInv
  <2> QED
    BY <2>3, <2>4, <2>6, <2>7, <2>8 DEF RemovalInv
<1> QED
  BY <1>2, <1>3, OpenStep

\* A directory is left, and taken away when it can be.
LEMMA LeaveStep ==
  ASSUME R!RemovalAssumption, RemovalInv, R!Leave
  PROVE  \E up \in Dirs, ok \in BOOLEAN :
    /\ up = Parent(Len(stack)) /\ R!T.name \in Names
    /\ R!T.pending = {} /\ R!T.listed /\ removalPc = "walk"
    /\ ok <=> ~R!T.failed /\ R!Settled(up, R!T.name)
    /\ UNCHANGED <<setting, over, removalChanges, been, modes, hint, ino, name, opened>>
    /\ reports' = IF ok \/ R!T.failed THEN reports ELSE reports \cup {<<up, R!T.name>>}
    /\ IF ok /\ R!Removable(up, R!T.name) THEN R!Gone(up, R!T.name) ELSE UNCHANGED <<content, taken>>
    /\ stack' \in Seq(Level) /\ Len(stack') = Len(stack) - 1 /\ DOMAIN stack' = 1 .. Len(stack) - 1
    /\ \A k \in DOMAIN stack' :
         /\ stack'[k].dir = stack[k].dir /\ stack'[k].name = stack[k].name
         /\ stack'[k].pending = stack[k].pending /\ stack'[k].seen = stack[k].seen
         /\ stack'[k].listed = stack[k].listed
         /\ stack'[k].failed <=> stack[k].failed \/ (k = Len(stack) - 1 /\ ~ok)
    /\ removalPc' = IF Len(stack) = 1 THEN "end" ELSE "walk"
    /\ result' = IF Len(stack) = 1 THEN (IF ok THEN "ok" ELSE "err") ELSE result
<1>1. stack # <<>> /\ RemovalTyped /\ Above \in Dirs /\ removalPc = "walk" /\ R!T.pending = {} /\ R!T.listed
  BY DEF R!Leave, RemovalInv, WalkInv, R!RemovalAssumption
<1>2. /\ stack \in Seq(Level) /\ Len(stack) \in Nat \ {0} /\ Len(stack) \in DOMAIN stack /\ DOMAIN stack = 1 .. Len(stack)
      /\ R!T = stack[Len(stack)] /\ R!T \in Level
  BY <1>1, TopLevel DEF RemovalTyped
<1> DEFINE below == SubSeq(stack, 1, Len(stack) - 1)
           up == IF below = <<>> THEN Above ELSE below[Len(below)].dir
           ok == ~R!T.failed /\ R!Settled(up, R!T.name)
           top == [below[Len(below)] EXCEPT !.failed = TRUE]
<1>3. /\ below \in Seq(Level) /\ Len(below) = Len(stack) - 1 /\ DOMAIN below = 1 .. Len(stack) - 1
      /\ \A k \in 1 .. Len(stack) - 1 : below[k] = stack[k]
  BY <1>2
<1>4. below = <<>> <=> Len(stack) = 1
  <2> HIDE DEF below
  <2>1. below = <<>> <=> Len(below) = 0
    BY <1>3
  <2> QED
    BY <1>2, <1>3, <2>1
<1>5. up = Parent(Len(stack)) /\ up \in Dirs
  BY <1>1, <1>2, <1>3, <1>4 DEF Parent, Level
<1>6. /\ stack' = (IF below = <<>> \/ ok THEN below ELSE Append(SubSeq(below, 1, Len(below) - 1), top))
      /\ removalPc' = (IF below = <<>> THEN "end" ELSE "walk")
      /\ result' = (IF below = <<>> THEN (IF ok THEN "ok" ELSE "err") ELSE result)
      /\ reports' = (IF ok \/ R!T.failed THEN reports ELSE reports \cup {<<up, R!T.name>>})
      /\ IF ok /\ R!Removable(up, R!T.name) THEN R!Gone(up, R!T.name) ELSE UNCHANGED <<content, taken>>
      /\ UNCHANGED <<setting, over, removalChanges, been, modes, hint, ino, name, opened>>
  BY DEF R!Leave, R!KeptAbove, R!Keeps, R!Front, R!Last, R!Files
<1>7. /\ stack' \in Seq(Level) /\ Len(stack') = Len(stack) - 1 /\ DOMAIN stack' = 1 .. Len(stack) - 1
      /\ \A k \in DOMAIN stack' :
         /\ stack'[k].dir = stack[k].dir /\ stack'[k].name = stack[k].name
         /\ stack'[k].pending = stack[k].pending /\ stack'[k].seen = stack[k].seen
         /\ stack'[k].listed = stack[k].listed
         /\ stack'[k].failed <=> stack[k].failed \/ (k = Len(stack) - 1 /\ ~ok)
  <2>1. CASE below = <<>> \/ ok
    <3>1. stack' = below
      BY <1>6, <2>1
    <3>2. \A k \in 1 .. Len(stack) - 1 : ok
      BY <1>2, <1>4, <2>1
    <3> QED
      BY <1>3, <3>1, <3>2
  <2>2. CASE below # <<>> /\ ~ok
    <3> HIDE DEF below, ok
    <3>1. Len(below) \in Nat \ {0} /\ below[Len(below)] \in Level
      BY <1>2, <1>3, <1>4, <2>2
    <3>2. /\ top \in Level /\ top.dir = below[Len(below)].dir /\ top.name = below[Len(below)].name
          /\ top.pending = below[Len(below)].pending /\ top.seen = below[Len(below)].seen
          /\ top.listed = below[Len(below)].listed /\ top.failed
      BY <3>1 DEF Level
    <3> DEFINE low == SubSeq(below, 1, Len(below) - 1)
    <3>3. low \in Seq(Level) /\ Len(low) = Len(below) - 1 /\ \A k \in 1 .. Len(below) - 1 : low[k] = below[k]
      BY <1>3, <3>1
    <3>4. stack' = Append(low, top)
      BY <1>6, <2>2
    <3> HIDE DEF low, top
    <3>5. /\ stack' \in Seq(Level) /\ Len(stack') = Len(below) /\ stack'[Len(below)] = top
          /\ \A k \in 1 .. Len(below) - 1 : stack'[k] = below[k]
      BY <3>1, <3>2, <3>3, <3>4
    <3>6. DOMAIN stack' = 1 .. Len(stack) - 1
      BY <1>3, <3>5
    <3>0. Len(stack) - 1 = Len(below) /\ 1 .. Len(stack) - 1 = 1 .. Len(below)
      BY <1>3
    <3>7. ASSUME NEW k \in 1 .. Len(stack) - 1
          PROVE  /\ stack'[k].dir = stack[k].dir /\ stack'[k].name = stack[k].name
                 /\ stack'[k].pending = stack[k].pending /\ stack'[k].seen = stack[k].seen
                 /\ stack'[k].listed = stack[k].listed
                 /\ stack'[k].failed <=> stack[k].failed \/ (k = Len(stack) - 1 /\ ~ok)
      <4>1. CASE k = Len(below)
        BY <1>3, <2>2, <3>2, <3>5, <4>1
      <4>2. CASE k \in 1 .. Len(below) - 1
        <5>1. stack'[k] = stack[k] /\ k # Len(stack) - 1
          BY <1>3, <3>0, <3>1, <3>5, <4>2
        <5> QED
          BY <5>1
      <4> QED
        BY <3>0, <3>1, <4>1, <4>2
    <3> QED
      BY <1>3, <3>5, <3>6, <3>7
  <2> QED
    BY <2>1, <2>2
<1>8. ok \in BOOLEAN /\ R!T.name \in Names
  BY <1>2 DEF Level
<1> HIDE DEF below, up, ok
<1>9. ok <=> ~R!T.failed /\ R!Settled(up, R!T.name)
  BY DEF ok
<1> QED
  BY <1>1, <1>4, <1>5, <1>6, <1>7, <1>8, <1>9, ZenonT(60)

LEMMA LeaveKeeps ==
  ASSUME R!RemovalAssumption, RemovalInv, R!Leave
  PROVE  RemovalInv'
<1>1. PICK up \in Dirs, ok \in BOOLEAN :
    /\ up = Parent(Len(stack)) /\ R!T.name \in Names
    /\ R!T.pending = {} /\ R!T.listed /\ removalPc = "walk"
    /\ ok <=> ~R!T.failed /\ R!Settled(up, R!T.name)
    /\ UNCHANGED <<setting, over, removalChanges, been, modes, hint, ino, name, opened>>
    /\ reports' = IF ok \/ R!T.failed THEN reports ELSE reports \cup {<<up, R!T.name>>}
    /\ IF ok /\ R!Removable(up, R!T.name) THEN R!Gone(up, R!T.name) ELSE UNCHANGED <<content, taken>>
    /\ stack' \in Seq(Level) /\ Len(stack') = Len(stack) - 1 /\ DOMAIN stack' = 1 .. Len(stack) - 1
    /\ \A k \in DOMAIN stack' :
         /\ stack'[k].dir = stack[k].dir /\ stack'[k].name = stack[k].name
         /\ stack'[k].pending = stack[k].pending /\ stack'[k].seen = stack[k].seen
         /\ stack'[k].listed = stack[k].listed
         /\ stack'[k].failed <=> stack[k].failed \/ (k = Len(stack) - 1 /\ ~ok)
    /\ removalPc' = IF Len(stack) = 1 THEN "end" ELSE "walk"
    /\ result' = IF Len(stack) = 1 THEN (IF ok THEN "ok" ELSE "err") ELSE result
  BY LeaveStep
<1>2. RemovalTyped /\ stack # <<>> /\ None \notin {"ok", "err"} /\ result = None
  BY <1>1 DEF RemovalInv, WalkInv, AnswerInv, R!RemovalAssumption
<1>3. /\ Len(stack) \in Nat \ {0} /\ Len(stack) \in DOMAIN stack /\ DOMAIN stack = 1 .. Len(stack)
      /\ R!T = stack[Len(stack)]
  BY <1>2, TopLevel DEF RemovalTyped
<1> DEFINE n == R!T.name
<1>4. (up \in been \/ (up = Above /\ n = Top)) /\ (Len(stack) = 1 => up = Above /\ n = Top)
  <2>1. CASE Len(stack) = 1
    BY <1>1, <1>3, <2>1 DEF Parent, RemovalInv, WalkInv
  <2>2. CASE Len(stack) # 1
    <3>1. Len(stack) - 1 \in DOMAIN stack
      BY <1>3, <2>2
    <3>2. up = stack[Len(stack) - 1].dir
      BY <1>1, <2>2 DEF Parent
    <3> QED
      BY <2>2, <3>1, <3>2 DEF RemovalInv, WalkInv
  <2> QED
    BY <2>1, <2>2
<1>5. Above \notin been
  BY <1>2 DEF RemovalTyped, Bystanders
<1>6. /\ content' \in [Dirs -> [Names -> Inodes]] /\ taken' \subseteq Dirs \X Names
      /\ \A d \in Dirs, m \in Names : content'[d][m] \in {content[d][m], None}
      /\ UNCHANGED taken \/ taken' = taken \cup {<<up, n>>}
      /\ ok => content'[up][n] = None
  <2>1. CASE ok /\ R!Removable(up, n)
    BY <1>1, <1>2, <2>1, GoneStep
  <2>2. CASE ~(ok /\ R!Removable(up, n))
    <3>1. UNCHANGED <<content, taken>>
      BY <1>1, <2>2
    <3>2. ok => content[up][n] = None
      BY <1>1, <2>2 DEF R!Settled, R!Held
    <3> QED
      BY <1>2, <3>1, <3>2 DEF RemovalTyped
  <2> QED
    BY <2>1, <2>2
<1>7. TreeInv' /\ R!TreeOnly'
  <2>1. \/ UNCHANGED taken
        \/ \E d \in been \cup {Above}, m \in Names : (d = Above => m = Top) /\ taken' = taken \cup {<<d, m>>}
    BY <1>1, <1>4, <1>5, <1>6
  <2> QED
    BY <1>1, <1>6, <2>1, TreeShrinks
<1>8. reports \subseteq reports' /\ (~ok => reports' # {})
  <2>1. R!T.failed => reports # {}
    BY <1>3 DEF RemovalInv, AnswerInv
  <2> QED
    BY <1>1, <2>1
<1>9. RemovalTyped'
  <2>1. reports' \subseteq Dirs \X (Names \cup {None})
    BY <1>1, <1>2 DEF RemovalTyped
  <2>2. removalPc' \in {"walk", "end"} /\ result' \in {None, "ok", "err"}
    BY <1>1, <1>2
  <2> QED
    BY <1>1, <1>2, <1>6, <2>1, <2>2 DEF RemovalTyped
<1>10. DOMAIN stack' \subseteq DOMAIN stack /\ (removalPc' = "walk" => stack' # <<>>) /\ (stack' = <<>> => removalPc' = "end")
  <2>1. stack' = <<>> <=> Len(stack') = 0
    BY <1>1
  <2>2. 1 .. Len(stack) - 1 \subseteq 1 .. Len(stack)
    BY <1>3
  <2>3. Len(stack') = 0 <=> Len(stack) = 1
    BY <1>1, <1>3
  <2> QED
    BY <1>1, <1>3, <2>1, <2>2, <2>3
<1>11. WalkInv'
  BY <1>1, <1>10 DEF RemovalInv, WalkInv
<1>12. AnswerInv'
  <2>1. (result' = None) <=> (removalPc' # "end")
    BY <1>1, <1>2
  <2>2. result' = "ok" => content'[Above][Top] = None
    BY <1>1, <1>2, <1>4, <1>6
  <2>3. result' = "err" => reports' # {}
    BY <1>1, <1>2, <1>8
  <2>4. \A k \in DOMAIN stack' : stack'[k].failed => reports' # {}
    BY <1>1, <1>8, <1>10 DEF RemovalInv, AnswerInv
  <2> QED
    BY <2>1, <2>2, <2>3, <2>4 DEF AnswerInv
<1>13. DepthInv'
  <2>1. setting.depth \in Nat
    BY <1>2 DEF RemovalTyped, R!RemovalAssumption
  <2>2. removalPc' # "open"
    BY <1>1
  <2> QED
    BY <1>1, <1>3, <2>1, <2>2 DEF RemovalInv, DepthInv
<1> QED
  BY <1>7, <1>9, <1>11, <1>12, <1>13 DEF RemovalInv

-----------------------------------------------------------------------------
(* Steps of the others.                                                      *)

\* What the others leave alone.
LEMMA WalkStays ==
  ASSUME R!RemovalAssumption, RemovalInv, removalPc # "end", removalChanges' = removalChanges + 1,
         UNCHANGED <<setting, modes, stack, removalPc, name, hint, ino, reports, result, taken, opened>>,
         content' \in [Dirs -> [Names -> Inodes]], over' \in [Dirs -> {None, Foreign}],
         been \subseteq been', been' \subseteq Dirs \ Bystanders
  PROVE  RemovalTyped' /\ WalkInv' /\ AnswerInv' /\ DepthInv' /\ R!TreeOnly'
<1>1. RemovalTyped'
  BY DEF RemovalInv, RemovalTyped
<1>2. WalkInv'
  BY DEF RemovalInv, WalkInv
<1>3. result = None /\ None \notin {"ok", "err"}
  BY DEF RemovalInv, AnswerInv, R!RemovalAssumption
<1>4. AnswerInv'
  BY <1>3 DEF RemovalInv, AnswerInv
<1>5. DepthInv'
  BY DEF RemovalInv, DepthInv
<1>6. R!TreeOnly'
  BY DEF RemovalInv, R!TreeOnly
<1> QED
  BY <1>1, <1>2, <1>4, <1>5, <1>6

\* Something is put in the tree, or taken from it, that is no directory.
LEMMA PutTree ==
  ASSUME R!RemovalAssumption, RemovalInv, NEW d \in been \cup {Above}, NEW n \in Names, NEW v \in {New, None},
         \A e \in Dirs, m \in Names : content'[e][m] = IF e = d /\ m = n THEN v ELSE content[e][m],
         d = Above => v = None, UNCHANGED been
  PROVE  TreeInv'
<1>1. /\ v \notin Dirs /\ d \in Dirs /\ Above \in Dirs /\ Top \in Names
      /\ Bystanders \subseteq Dirs /\ been \subseteq Dirs
  BY DEF R!RemovalAssumption, RemovalInv, RemovalTyped, Bystanders
<1>2. \A e \in Dirs, m \in Names : content'[e][m] \in Dirs => content'[e][m] = content[e][m]
  BY <1>1
<1>3. R!Below(content') \subseteq R!Below(content)
  BY <1>1, <1>2, BelowLess
<1>4. R!Closed(content', been) /\ \A e \in Dirs, m \in Names : content'[e][m] \notin Bystanders
  BY <1>1 DEF R!Closed, RemovalInv, TreeInv
<1>5. \A e \in Dirs : content'[e][Top] # None => e \in been \cup {Above}
  BY <1>1 DEF RemovalInv, TreeInv
<1> QED
  BY <1>3, <1>4, <1>5 DEF RemovalInv, TreeInv

Puts(d, n, v) == content' = [content EXCEPT ![d][n] = v]
LEMMA PutKeeps ==
  ASSUME R!RemovalAssumption, RemovalInv, NEW d \in been \cup {Above}, NEW n \in Names, NEW v \in {New, None},
         Puts(d, n, v), d = Above => v = None, UNCHANGED been
  PROVE  content' \in [Dirs -> [Names -> Inodes]] /\ TreeInv'
<1>1. RemovalTyped /\ v \in Inodes /\ d \in Dirs
  BY DEF R!RemovalAssumption, RemovalInv, RemovalTyped, Inodes
<1>2. /\ content' \in [Dirs -> [Names -> Inodes]]
      /\ \A e \in Dirs, m \in Names : content'[e][m] = IF e = d /\ m = n THEN v ELSE content[e][m]
  BY <1>1, PutEntry DEF RemovalTyped, Puts
<1> QED
  BY <1>2, PutTree

\* Directories of the tree and of another one are exchanged.
LEMMA ExchangeKeeps ==
  ASSUME R!RemovalAssumption, RemovalInv, NEW d \in R!Below(content) \cup {Above}, NEW n \in Names, NEW m \in Names,
         R!Exchange(d, n, m)
  PROVE  content' \in [Dirs -> [Names -> Inodes]] /\ been' \subseteq Dirs \ Bystanders /\ TreeInv'
<1>1. /\ RemovalTyped /\ Above \in Dirs /\ OutsideDir \in Dirs /\ Top \in Names /\ Above # OutsideDir
      /\ Bystanders \subseteq Dirs /\ been \subseteq Dirs \ Bystanders /\ {Above, OutsideDir} \subseteq Bystanders
  BY DEF R!RemovalAssumption, RemovalInv, RemovalTyped, Bystanders
<1>2. /\ d \in been \cup {Above} /\ d \in Dirs /\ d # OutsideDir /\ (d = Above => n = Top)
      /\ content[d][n] # None /\ content[OutsideDir][m] # None /\ been' = been \cup R!Below(content')
      /\ content' = [content EXCEPT ![d][n] = content[OutsideDir][m], ![OutsideDir][m] = content[d][n]]
  BY <1>1 DEF R!Exchange, R!Held, RemovalInv, TreeInv
<1>3. content \in [Dirs -> [Names -> Inodes]] /\ content[d][n] \in Inodes /\ content[OutsideDir][m] \in Inodes
  BY <1>1, <1>2 DEF RemovalTyped
<1>4. /\ content' \in [Dirs -> [Names -> Inodes]]
      /\ \A e \in Dirs, k \in Names :
           content'[e][k] = IF e = d /\ k = n THEN content[OutsideDir][m]
                            ELSE IF e = OutsideDir /\ k = m THEN content[d][n] ELSE content[e][k]
  BY <1>1, <1>2, <1>3
<1>5. \A e \in Dirs, k \in Names : content[e][k] \notin Bystanders
  BY DEF RemovalInv, TreeInv
<1>6. \A e \in Dirs, k \in Names : content'[e][k] \notin Bystanders
  <2>1. content[d][n] \notin Bystanders /\ content[OutsideDir][m] \notin Bystanders
    BY <1>1, <1>2, <1>5
  <2>2. ASSUME NEW e \in Dirs, NEW k \in Names PROVE content'[e][k] \in {content[d][n], content[OutsideDir][m], content[e][k]}
    BY <1>4
  <2> QED
    BY <1>5, <2>1, <2>2
<1> DEFINE X == R!Below(content')
<1>7. /\ X \subseteq Dirs /\ R!Closed(content', X) /\ (content'[Above][Top] \in Dirs => content'[Above][Top] \in X)
      /\ \A Y \in SUBSET Dirs : (content'[Above][Top] \in Dirs => content'[Above][Top] \in Y) /\ R!Closed(content', Y)
                                  => X \subseteq Y
  BY ReachBelow
<1>8. X \subseteq Dirs \ Bystanders
  <2> DEFINE Y == Dirs \ Bystanders
  <2>1. R!Closed(content', Y) /\ Y \in SUBSET Dirs
    BY <1>6 DEF R!Closed
  <2>2. content'[Above][Top] \in Dirs => content'[Above][Top] \in Y
    BY <1>1, <1>6
  <2> HIDE DEF X, Y
  <2>3. X \subseteq Y
    BY <1>7, <2>1, <2>2
  <2> QED
    BY <2>3 DEF Y
<1>9. d \in X \cup {Above}
  <2> SUFFICES ASSUME d \notin X, d # Above PROVE FALSE
    OBVIOUS
  <2> HIDE DEF X
  <2>1. R!Closed(content, X)
    <3> SUFFICES ASSUME NEW e \in X, NEW k \in Names, content[e][k] \in Dirs PROVE content[e][k] \in X
      BY DEF R!Closed
    <3>1. e \in Dirs /\ e # d /\ e # OutsideDir
      BY <1>1, <1>8
    <3>2. content'[e][k] = content[e][k]
      BY <1>4, <3>1
    <3> QED
      BY <1>7, <3>2 DEF R!Closed
  <2>2. content'[Above][Top] = content[Above][Top]
    BY <1>1, <1>4
  <2>3. R!Below(content) \subseteq X
    BY <1>7, <2>1, <2>2, ReachBelow
  <2> QED
    BY <2>3
<1> HIDE DEF X
<1>10. R!Closed(content', been')
  <2> SUFFICES ASSUME NEW e \in been', NEW k \in Names, content'[e][k] \in Dirs PROVE content'[e][k] \in been'
    BY DEF R!Closed
  <2>1. been' = been \cup X
    BY <1>2 DEF X
  <2>2. CASE e \in X
    BY <1>7, <2>1, <2>2 DEF R!Closed
  <2>3. CASE e = d /\ k = n
    <3>1. CASE d \in X
      BY <2>2, <2>3, <3>1
    <3>2. CASE d = Above
      BY <1>2, <1>7, <2>1, <2>3, <3>2
    <3> QED
      BY <1>9, <3>1, <3>2
  <2>4. CASE e \in been /\ ~(e = d /\ k = n)
    <3>1. e \in Dirs /\ e # OutsideDir
      BY <1>1, <2>4
    <3>2. content'[e][k] = content[e][k]
      BY <1>4, <2>4, <3>1
    <3> QED
      BY <2>1, <2>4, <3>2 DEF R!Closed, RemovalInv, TreeInv
  <2> QED
    BY <2>1, <2>2, <2>3, <2>4
<1>11. \A e \in Dirs : content'[e][Top] # None => e \in been \cup {Above}
  <2>1. \A e \in Dirs : content[e][Top] # None => e \in been \cup {Above}
    BY DEF RemovalInv, TreeInv
  <2>2. m # Top
    BY <1>1, <1>2, <2>1
  <2> QED
    BY <1>1, <1>2, <1>4, <2>1, <2>2
<1>12. been' = been \cup X
  BY <1>2 DEF X
<1>13. TreeInv'
  BY <1>6, <1>10, <1>11, <1>12 DEF TreeInv, X
<1> QED
  BY <1>1, <1>4, <1>8, <1>12, <1>13

LEMMA TreeOthersKeep ==
  ASSUME R!RemovalAssumption, RemovalInv, R!Others
  PROVE  RemovalInv'
<1>1. /\ RemovalTyped /\ removalPc # "end" /\ removalChanges' = removalChanges + 1
      /\ UNCHANGED <<setting, modes, stack, removalPc, name, hint, ino, reports, result, taken, opened>>
  BY DEF R!Others, RemovalInv
<1>2. SUFFICES /\ content' \in [Dirs -> [Names -> Inodes]] /\ over' \in [Dirs -> {None, Foreign}]
               /\ been \subseteq been' /\ been' \subseteq Dirs \ Bystanders /\ TreeInv'
  BY <1>1, WalkStays DEF RemovalInv
<1>3. R!Below(content) \subseteq been
  BY DEF RemovalInv, TreeInv
<1>4. been \subseteq Dirs \ Bystanders /\ over \in [Dirs -> {None, Foreign}] /\ content \in [Dirs -> [Names -> Inodes]]
  BY <1>1 DEF RemovalTyped
<1>5. ASSUME NEW d \in R!Below(content), R!Mount(d) PROVE over' \in [Dirs -> {None, Foreign}] /\ TreeInv' /\ UNCHANGED <<content, been>>
  <2>1. over' \in [Dirs -> {None, Foreign}] /\ UNCHANGED <<content, been>>
    BY <1>4, <1>5 DEF R!Mount
  <2>2. TreeInv'
    BY <2>1 DEF RemovalInv, TreeInv
  <2> QED
    BY <2>1, <2>2
<1>6. ASSUME NEW d \in R!Below(content), NEW n \in Names, R!Create(d, n)
      PROVE  content' \in [Dirs -> [Names -> Inodes]] /\ TreeInv' /\ UNCHANGED <<over, been>>
  <2>1. d \in been /\ d # Above /\ Puts(d, n, New) /\ UNCHANGED <<over, been>>
    BY <1>3, <1>4, <1>6 DEF R!Create, Bystanders, Puts
  <2> QED
    BY <2>1, PutKeeps
<1>7. ASSUME NEW d \in R!Below(content) \cup {Above}, NEW n \in Names, R!Erase(d, n)
      PROVE  content' \in [Dirs -> [Names -> Inodes]] /\ TreeInv' /\ UNCHANGED <<over, been>>
  <2>1. d \in been \cup {Above} /\ Puts(d, n, None) /\ UNCHANGED <<over, been>>
    BY <1>3, <1>7 DEF R!Erase, Puts
  <2> QED
    BY <2>1, PutKeeps
<1>8. ASSUME NEW d \in R!Below(content) \cup {Above}, NEW n \in Names, NEW m \in Names, R!Exchange(d, n, m)
      PROVE  content' \in [Dirs -> [Names -> Inodes]] /\ been' \subseteq Dirs \ Bystanders /\ TreeInv' /\ UNCHANGED over
             /\ been \subseteq been'
  BY <1>8, ExchangeKeeps DEF R!Exchange
<1>9. \/ \E d \in R!Below(content) : R!Mount(d) \/ \E n \in Names : R!Create(d, n)
      \/ \E d \in R!Below(content) \cup {Above}, n \in Names : R!Erase(d, n) \/ \E m \in Names : R!Exchange(d, n, m)
  BY DEF R!Others
<1> QED
  BY <1>4, <1>5, <1>6, <1>7, <1>8, <1>9

-----------------------------------------------------------------------------
(* Theorems.                                                                 *)

\* Of a tree none of whose directories is a bystander, none is below another place.
LEMMA RemovalStarts ==
  ASSUME R!RemovalAssumption, R!Init
  PROVE  RemovalInv
<1> DEFINE Y == Dirs \ Bystanders
<1>1. /\ setting \in Settings /\ content = setting.start /\ over = [d \in Dirs |-> None]
      /\ modes = setting.locked /\ stack = <<>> /\ removalPc = "stat" /\ name = Top /\ hint = FALSE
      /\ ino = None /\ reports = {} /\ result = None /\ removalChanges = 0 /\ taken = {}
      /\ been = R!Below(content) /\ opened = {}
  BY DEF R!Init
<1>2. /\ Top \in Names /\ None \notin {"ok", "err"} /\ None \notin Dirs /\ Bystanders \subseteq Dirs
      /\ setting.depth \in Nat
      /\ \A d \in Dirs, n \in Names : content[d][n] \notin Bystanders
      /\ \A d \in Dirs \ {Above} : content[d][Top] = None
  BY <1>1 DEF R!RemovalAssumption, Bystanders
<1>3. content \in [Dirs -> [Names -> Inodes]]
  <2>1. setting.start \in [Dirs -> [Names -> UNION {{setting.start[e][n] : n \in Names} : e \in Dirs}]]
    BY <1>1 DEF R!RemovalAssumption
  <2>2. UNION {{setting.start[e][n] : n \in Names} : e \in Dirs} \subseteq Inodes
    BY <1>1 DEF Inodes
  <2> DEFINE V == UNION {{setting.start[e][n] : n \in Names} : e \in Dirs}
  <2> HIDE DEF V
  <2>3. [Names -> V] \subseteq [Names -> Inodes]
    BY <2>2 DEF V
  <2> QED
    BY <1>1, <2>1, <2>3 DEF V
<1>4. been \subseteq Y
  <2>1. Y \in SUBSET Dirs /\ R!Closed(content, Y) /\ (content[Above][Top] \in Dirs => content[Above][Top] \in Y)
    BY <1>2 DEF R!Closed, Bystanders
  <2> HIDE DEF Y
  <2> QED
    BY <1>1, <2>1, ReachBelow
<1>5. RemovalTyped
  <2>0. <<>> \in Seq(Level)
    OBVIOUS
  <2>1. stack \in Seq(Level) /\ over \in [Dirs -> {None, Foreign}] /\ hint \in BOOLEAN /\ removalChanges \in Nat
    <3>1. over \in [Dirs -> {None, Foreign}]
      BY <1>1
    <3>2. stack \in Seq(Level)
      BY <1>1, <2>0
    <3> QED
      BY <1>1, <3>1, <3>2
  <2>2. reports = {} /\ taken = {} /\ opened = {} /\ ino = None /\ result = None /\ removalPc = "stat" /\ name \in Names
    BY <1>1, <1>2
  <2>3. setting \in Settings /\ modes \subseteq setting.locked
    BY <1>1
  <2> QED
    BY <1>3, <1>4, <2>1, <2>2, <2>3 DEF RemovalTyped
<1>6. TreeInv
  <2>1. R!Closed(content, been)
    BY <1>1, ReachBelow
  <2> QED
    BY <1>1, <1>2, <2>1 DEF TreeInv
<1>7. WalkInv /\ AnswerInv
  BY <1>1, <1>2 DEF WalkInv, AnswerInv
<1>8. DepthInv /\ R!TreeOnly
  BY <1>1, <1>2 DEF DepthInv, R!TreeOnly
<1> QED
  BY <1>5, <1>6, <1>7, <1>8 DEF RemovalInv

\* The invariant of a removal is kept, whatever the walk and the others do.
LEMMA RemovalInvariance == ASSUME R!RemovalAssumption PROVE R!Spec => []RemovalInv
<1>1. R!Init => RemovalInv
  BY RemovalStarts
<1>2. RemovalInv /\ [R!Next]_(R!vars) => RemovalInv'
  <2> SUFFICES ASSUME RemovalInv, [R!Next]_(R!vars) PROVE RemovalInv'
    OBVIOUS
  <2>1. CASE R!Batch
    BY <2>1, BatchKeeps
  <2>2. CASE R!Pop
    BY <2>2, PopKeeps
  <2>3. CASE R!Unlink
    BY <2>3, UnlinkKeeps
  <2>4. CASE R!Stat
    BY <2>4, StatKeeps
  <2>5. CASE R!Open
    BY <2>5, OpenKeeps
  <2>6. CASE R!Leave
    BY <2>6, LeaveKeeps
  <2>7. CASE R!Others
    BY <2>7, TreeOthersKeep
  <2>8. CASE UNCHANGED R!vars
    BY <2>8 DEF R!vars, RemovalInv, RemovalTyped, TreeInv, WalkInv, AnswerInv, DepthInv, R!TreeOnly
  <2> QED
    BY <2>1, <2>2, <2>3, <2>4, <2>5, <2>6, <2>7, <2>8 DEF R!Next, R!Walker
<1> QED
  BY <1>1, <1>2, PTL DEF R!Spec

\* A removal is well typed, and a purge opens no more directories below each other than its limit
\* allows (remove_tree_at, REMOVE_TREE_MAX_DEPTH).
THEOREM RemovalTyping == ASSUME R!RemovalAssumption PROVE R!Spec => []R!TypeOK
<1>1. RemovalInv => R!TypeOK
  BY DEF RemovalInv, RemovalTyped, WalkInv, AnswerInv, DepthInv, TreeInv, R!TypeOK, R!Held
<1> QED
  BY <1>1, RemovalInvariance, PTL

\* Whatever others put in its way, a removal takes only what is or was in its tree: nothing behind
\* a symlink, a mount, or a directory that took the place of one of the tree's (#368, #369).
THEOREM TakesItsTreeOnly == ASSUME R!RemovalAssumption PROVE R!Spec => []R!TreeOnly
<1>1. RemovalInv => R!TreeOnly
  BY DEF RemovalInv
<1> QED
  BY <1>1, RemovalInvariance, PTL

\* A removal says that it succeeded only when the tree is gone, and reports a failure when not.
THEOREM RemovalAnswers == ASSUME R!RemovalAssumption PROVE R!Spec => []R!NothingSilent
<1>1. RemovalInv => R!NothingSilent
  BY DEF RemovalInv, AnswerInv, R!NothingSilent, R!Held
<1> QED
  BY <1>1, RemovalInvariance, PTL
-----------------------------------------------------------------------------
(* A removal that nobody disturbs.                                           *)

Calm == R!RemovalAssumption /\ RemovalInv /\ Undisturbed /\ UndisturbedInv

LEMMA CalmFacts ==
  ASSUME Calm
  PROVE  /\ RemovalTyped /\ TreeInv /\ WalkInv /\ setting \in Settings /\ stack \in Seq(Level) /\ name \in Names
         /\ None \notin Dirs /\ None \notin Names /\ Above \in Dirs /\ Top \in Names
         /\ been \subseteq Dirs \ {Above} /\ opened \subseteq been
         /\ \A d \in Dirs, n \in Names : content[d][n] # Above
         /\ \A k \in DOMAIN stack : stack[k] \in Level /\ stack[k].dir \in Dirs /\ stack[k].name \in Names /\ Parent(k) \in Dirs
         /\ DOMAIN stack = 1 .. Len(stack) /\ Len(stack) \in Nat
         /\ \A r \in reports : r \in Dirs \X (Names \cup {None}) /\ r[1] \in Dirs /\ r[2] \in Names \cup {None} /\ r = <<r[1], r[2]>>
<1>1. RemovalTyped /\ TreeInv /\ WalkInv /\ R!RemovalAssumption
  BY DEF Calm, RemovalInv
<1>2. /\ setting \in Settings /\ stack \in Seq(Level) /\ name \in Names /\ opened \subseteq been
      /\ been \subseteq Dirs \ Bystanders /\ reports \subseteq Dirs \X (Names \cup {None})
  BY <1>1 DEF RemovalTyped
<1>3. None \notin Dirs /\ None \notin Names /\ Above \in Dirs /\ Top \in Names
  BY <1>1 DEF R!RemovalAssumption
<1>4. \A d \in Dirs, n \in Names : content[d][n] # Above
  BY <1>1 DEF TreeInv, Bystanders
<1>5. DOMAIN stack = 1 .. Len(stack) /\ Len(stack) \in Nat
  BY <1>2
<1>6. \A k \in DOMAIN stack : stack[k] \in Level
  BY <1>2
<1>7. \A k \in DOMAIN stack : stack[k].dir \in Dirs /\ stack[k].name \in Names
  BY <1>6 DEF Level
<1>8. ASSUME NEW k \in DOMAIN stack PROVE Parent(k) \in Dirs
  <2>1. k # 1 => k - 1 \in DOMAIN stack
    BY <1>5
  <2> QED
    BY <1>3, <1>7, <2>1 DEF Parent
<1> QED
  BY <1>1, <1>2, <1>3, <1>4, <1>5, <1>6, <1>7, <1>8 DEF Bystanders

\* A directory has one name.
LEMMA OneHolder ==
  ASSUME Calm, NEW d \in Dirs, NEW n \in Names, NEW e \in Dirs, NEW m \in Names,
         content[d][n] \in Dirs, content[d][n] = content[e][m]
  PROVE  d = e /\ n = m
<1>1. setting \in Settings /\ None \notin Dirs
  BY CalmFacts
<1>2. setting.start[d][n] = content[d][n] /\ setting.start[e][m] = content[e][m]
  BY <1>1 DEF Calm, UndisturbedInv, SameTree
<1>3. setting.start[d][n] = setting.start[e][m] /\ setting.start[d][n] \in Dirs => d = e /\ n = m
  BY <1>1 DEF Calm, R!RemovalAssumption
<1> QED
  BY <1>2, <1>3

\* The walk is not done with what holds the directories on its stack.
LEMMA HolderAhead ==
  ASSUME Calm, removalPc # "end", NEW p \in Dirs, p = Above \/ \E k \in DOMAIN stack : stack[k].dir = p,
         NEW d \in Dirs, NEW n \in Names, content[d][n] = p
  PROVE  /\ Ahead(d, n)
         /\ \E k \in DOMAIN stack : stack[k].dir = p /\ d = Parent(k) /\ n = stack[k].name
<1>1. PICK k \in DOMAIN stack : stack[k].dir = p
  BY CalmFacts
<1>2. content[Parent(k)][stack[k].name] = p /\ Parent(k) \in Dirs /\ stack[k].name \in Names
  BY <1>1, CalmFacts DEF Calm, UndisturbedInv, ChainInv
<1>3. d = Parent(k) /\ n = stack[k].name
  BY <1>2, OneHolder
<1>4. Ahead(d, n)
  <2>1. CASE k = 1
    BY <1>3, <2>1 DEF Ahead, Parent
  <2>2. CASE k # 1
    <3>1. k - 1 \in DOMAIN stack /\ k - 1 < Len(stack) /\ (k - 1) + 1 = k
      BY <2>2, CalmFacts
    <3>2. stack[k - 1].dir = d
      BY <1>3, <2>2 DEF Parent
    <3>3. AheadIn(k - 1, n)
      BY <1>3, <3>1 DEF AheadIn
    <3> QED
      BY <3>1, <3>2, <3>3 DEF Ahead
  <2> QED
    BY <2>1, <2>2
<1> QED
  BY <1>1, <1>3, <1>4

\* What is at hand is ahead, and is no directory that was opened.
LEMMA HandAhead ==
  ASSUME Calm, Working
  PROVE  /\ Ahead(R!At, name) /\ R!At \in Dirs /\ R!At \in opened \cup {Above} /\ (R!At = Above => name = Top /\ stack = <<>>)
         /\ stack # <<>> => R!At = stack[Len(stack)].dir /\ Len(stack) \in DOMAIN stack /\ AheadIn(Len(stack), name)
         /\ content[R!At][name] # None /\ content[R!At][name] \notin opened \cup {Above}
<1>1. removalPc # "end"
  BY DEF Working
<1>2. CASE stack = <<>>
  <2>1. R!At = Above /\ name = Top
    BY <1>1, <1>2, CalmFacts DEF R!At, WalkInv
  <2>2. Ahead(R!At, name)
    BY <1>1, <2>1 DEF Ahead
  <2>3. content[R!At][name] # None
    BY DEF Calm, UndisturbedInv, HandInv
  <2>4. content[R!At][name] \notin opened
    <3> SUFFICES ASSUME content[Above][Top] \in opened PROVE FALSE
      BY <2>1
    <3>1. PICK k \in DOMAIN stack : stack[k].dir = content[Above][Top]
      BY <2>1, <2>2, CalmFacts DEF Calm, UndisturbedInv, OnceInv
    <3> QED
      BY <1>2, <3>1
  <2> QED
    BY <1>2, <2>1, <2>2, <2>3, <2>4, CalmFacts
<1>3. CASE stack # <<>>
  <2> DEFINE l == Len(stack)
  <2>1. R!At = stack[l].dir /\ l \in DOMAIN stack /\ R!At \in Dirs
    BY <1>3, CalmFacts, TopLevel
  <2>2. R!At \in opened /\ R!At # Above
    BY <2>1, CalmFacts DEF Calm, UndisturbedInv, ChainInv
  <2>3. AheadIn(l, name)
    BY DEF AheadIn
  <2>4. Ahead(R!At, name)
    BY <2>1, <2>3 DEF Ahead
  <2>5. content[R!At][name] # None
    BY DEF Calm, UndisturbedInv, HandInv
  <2>6. content[R!At][name] \notin opened
    <3> SUFFICES ASSUME content[R!At][name] \in opened PROVE FALSE
      OBVIOUS
    <3>1. content[R!At][name] \in Dirs /\ name \in Names
      BY CalmFacts
    <3>2. \E k \in DOMAIN stack : stack[k].dir = content[R!At][name]
      BY <2>1, <2>4, <3>1 DEF Calm, UndisturbedInv, OnceInv
    <3>3. PICK k \in DOMAIN stack : R!At = Parent(k)
      BY <1>1, <2>1, <3>1, <3>2, HolderAhead
    <3>4. CASE k = 1
      BY <2>2, <3>3, <3>4 DEF Parent
    <3>5. CASE k # 1
      <4>1. k - 1 \in DOMAIN stack /\ k - 1 # l
        BY <3>5, CalmFacts
      <4>2. stack[k - 1].dir = stack[l].dir
        BY <2>1, <3>3, <3>5 DEF Parent
      <4> QED
        BY <2>1, <4>1, <4>2 DEF Calm, UndisturbedInv, ChainInv
    <3> QED
      BY <3>4, <3>5
  <2> QED
    BY <1>3, <2>1, <2>2, <2>3, <2>4, <2>5, <2>6, CalmFacts
<1> QED
  BY <1>2, <1>3

\* The two instances of the library count alike.
LEMMA SameFinite == (R!IsFiniteSet(Dirs) <=> IsFiniteSet(Dirs)) /\ R!Cardinality(Dirs) = Cardinality(Dirs)
BY DEF R!IsFiniteSet, IsFiniteSet, R!Cardinality, Cardinality

\* A walk into a tree of its own does not reach a limit the tree is below.
LEMMA Shallow ==
  ASSUME Calm
  PROVE  ~R!TooDeep
<1> DEFINE f == [k \in 1 .. Len(stack) |-> stack[k].dir]
<1>1. Len(stack) \in Nat /\ DOMAIN stack = 1 .. Len(stack) /\ \A k \in 1 .. Len(stack) : stack[k].dir \in Dirs
  BY CalmFacts
<1>2. \A k, j \in 1 .. Len(stack) : stack[j].dir = stack[k].dir => j = k
  BY <1>1 DEF Calm, UndisturbedInv, ChainInv
<1>3. f \in Injection(1 .. Len(stack), Dirs)
  BY <1>1, <1>2 DEF Injection, IsInjective
<1>4. IsFiniteSet(Dirs) /\ setting.depth \in Nat
  <2>1. setting \in Settings /\ R!RemovalAssumption
    BY CalmFacts DEF Calm
  <2>2. IsFiniteSet(Dirs)
    <3>1. R!IsFiniteSet(Dirs)
      BY <2>1 DEF R!RemovalAssumption
    <3> QED
      BY <3>1, SameFinite
  <2>3. setting.depth \in Nat
    BY <2>1 DEF R!RemovalAssumption
  <2> QED
    BY <2>2, <2>3
<1>5. Cardinality(1 .. Len(stack)) <= Cardinality(Dirs)
  <2> HIDE DEF f
  <2> QED
    BY <1>3, <1>4, FS_Injection
<1>6. Cardinality(1 .. Len(stack)) = Len(stack) /\ Cardinality(Dirs) \in Nat
  <2>1. 1 \in Int /\ Len(stack) \in Int
    BY <1>1
  <2>2. Cardinality(1 .. Len(stack)) = IF 1 > Len(stack) THEN 0 ELSE Len(stack) - 1 + 1
    BY <2>1, FS_Interval
  <2> QED
    BY <1>1, <1>4, <2>2, FS_CardinalityType
<1>7. setting.depth > Cardinality(Dirs)
  BY DEF Calm, Undisturbed
<1>8. ~(Len(stack) > setting.depth)
  BY <1>1, <1>4, <1>5, <1>6, <1>7
<1> QED
  BY <1>8 DEF R!TooDeep
\* Entries go from directories that were opened, with directories that were opened or hold nothing.
LEMMA EntriesKeep ==
  ASSUME Calm, UNCHANGED <<setting, over, been>>, opened \subseteq opened',
         \A d \in Dirs, n \in Names : content'[d][n] \in {content[d][n], None},
         \A d \in Dirs, n \in Names :
           content'[d][n] # content[d][n] =>
             /\ d \in opened \cup {Above}
             /\ content[d][n] \in Dirs =>
                  content[d][n] \in opened \/ \A m \in Names : content[content[d][n]][m] = None,
         \A i \in opened' \ opened : \E d \in opened \cup {Above}, n \in Names : content[d][n] = i /\ i \in Dirs
  PROVE  SameTree' /\ GoneInv'
<1>1. /\ None \notin Dirs /\ Above \in Dirs /\ opened \subseteq Dirs \ {Above}
      /\ \A d \in Dirs, n \in Names : content[d][n] # Above
  BY CalmFacts
<1>2. SameTree /\ GoneInv
  BY DEF Calm, UndisturbedInv
<1>3. SameTree'
  <2>1. (\A d \in Dirs : over'[d] = None) /\ been' = R!Below(setting'.start)
    BY <1>2 DEF SameTree
  <2>2. \A d \in Dirs, n \in Names : content'[d][n] \in {setting'.start[d][n], None}
    BY <1>2 DEF SameTree
  <2>3. \A d \in Dirs \ (opened' \cup {Above}), n \in Names : content'[d][n] = setting'.start[d][n]
    BY <1>2 DEF SameTree
  <2>4. ASSUME NEW i \in opened' PROVE \E d \in opened' \cup {Above}, n \in Names : setting'.start[d][n] = i
    <3>1. CASE i \in opened
      BY <1>2, <3>1 DEF SameTree
    <3>2. CASE i \in opened' \ opened
      <4>1. PICK d \in opened \cup {Above}, n \in Names : content[d][n] = i /\ i \in Dirs
        BY <3>2
      <4>2. setting.start[d][n] = i
        BY <1>1, <1>2, <4>1 DEF SameTree
      <4> QED
        BY <4>1, <4>2
    <3> QED
      BY <3>1, <3>2
  <2> QED
    BY <2>1, <2>2, <2>3, <2>4 DEF SameTree
<1>4. GoneInv'
  <2> SUFFICES ASSUME NEW d \in Dirs, NEW n \in Names, setting.start[d][n] \in Dirs, content'[d][n] = None
               PROVE  \/ setting.start[d][n] \in opened'
                      \/ \A m \in Names : setting.start[setting.start[d][n]][m] = None
    BY DEF GoneInv
  <2>1. CASE content[d][n] = None
    BY <1>2, <2>1 DEF GoneInv
  <2>2. CASE content[d][n] # None
    <3>1. content[d][n] = setting.start[d][n]
      BY <1>2, <2>2 DEF SameTree
    <3>2. CASE content[d][n] \in opened
      BY <3>1, <3>2
    <3>3. CASE content[d][n] \notin opened /\ \A m \in Names : content[content[d][n]][m] = None
      BY <1>1, <1>2, <3>1, <3>3 DEF SameTree
    <3> QED
      BY <2>2, <3>1, <3>2, <3>3
  <2> QED
    BY <2>1, <2>2
<1> QED
  BY <1>3, <1>4

\* What stays was reported, or holds something that stays.
LEMMA DoneEntriesKeep ==
  ASSUME Calm, opened \subseteq opened', reports \subseteq reports',
         \A d \in Dirs, n \in Names : content'[d][n] \in {content[d][n], None},
         \A p \in Dirs, q \in Names :
           content'[p][q] # content[p][q] => \A d \in Dirs, n \in Names : content[d][n] = p => Ahead(d, n),
         \A d \in opened' \ opened, n \in Names : Ahead(d, n)',
         \A d \in opened \cup {Above}, n \in Names :
           Ahead(d, n) /\ ~Ahead(d, n)' /\ content'[d][n] # None /\ (d = Above => n = Top) => Stays(d, n)'
  PROVE  DoneInv'
<1>1. Above \in Dirs /\ opened \subseteq Dirs /\ DoneInv
  BY CalmFacts DEF Calm, UndisturbedInv
<1> SUFFICES ASSUME NEW d \in opened' \cup {Above}, NEW n \in Names,
                    content'[d][n] # None, d = Above => n = Top, ~Ahead(d, n)'
             PROVE  Stays(d, n)'
  BY DEF DoneInv
<1>2. d \in opened \cup {Above} /\ d \in Dirs
  BY <1>1
<1>3. CASE Ahead(d, n)
  BY <1>2, <1>3
<1>4. CASE ~Ahead(d, n)
  <2>1. content'[d][n] = content[d][n]
    BY <1>2
  <2>2. Stays(d, n)
    BY <1>1, <1>2, <1>4, <2>1 DEF DoneInv
  <2> DEFINE i == content[d][n]
  <2>3. CASE <<d, n>> \in reports \/ <<d, None>> \in reports
    BY <2>3 DEF Stays
  <2>4. CASE i \in opened /\ <<i, None>> \in reports
    BY <2>1, <2>4 DEF Stays
  <2>5. CASE i \in opened /\ \E m \in Names : content[i][m] # None
    <3>1. PICK m \in Names : content[i][m] # None
      BY <2>5
    <3>2. content'[i][m] = content[i][m]
      BY <1>1, <1>2, <1>4, <2>5
    <3> QED
      BY <2>1, <2>5, <3>1, <3>2 DEF Stays
  <2> QED
    BY <2>2, <2>3, <2>4, <2>5 DEF Stays
<1> QED
  BY <1>3, <1>4

\* What is reported cannot go.
LEMMA ReportsKeep ==
  ASSUME Calm, UNCHANGED setting, opened \subseteq opened', reports \subseteq reports',
         \A d \in Dirs, n \in Names : content'[d][n] \in {content[d][n], None},
         \A p \in Dirs, q \in Names :
           content'[p][q] # content[p][q] =>
             Ahead(p, q) /\ \A d \in Dirs, n \in Names : content[d][n] = p => Ahead(d, n),
         \A d \in opened \cup {Above}, n \in Names : Ahead(d, n)' => Ahead(d, n),
         \A r \in reports' \ reports :
           /\ r[1] \in opened' \cup {Above} /\ r[2] \in Names \cup {None} /\ (r[1] = Above => r[2] = Top)
           /\ \A d \in Dirs, n \in Names : content[d][n] = r[1] => Ahead(d, n)
           /\ r[2] # None =>
                /\ content'[r[1]][r[2]] # None /\ ~Ahead(r[1], r[2])' /\ R!Blocked(r[1], r[2])'
                /\ \A q \in reports' : q[1] # content'[r[1]][r[2]]
  PROVE  ReportInv'
<1>1. /\ Above \in Dirs /\ opened \subseteq Dirs /\ ReportInv /\ None \notin Dirs
      /\ \A r \in reports : r[1] \in Dirs /\ r[2] \in Names \cup {None}
  BY CalmFacts DEF Calm, UndisturbedInv
<1> SUFFICES ASSUME NEW r \in reports'
             PROVE  /\ r[1] \in opened' \cup {Above}
                    /\ r[1] = Above => r[2] = Top
                    /\ r[2] # None =>
                         /\ content'[r[1]][r[2]] # None /\ ~Ahead(r[1], r[2])' /\ R!Blocked(r[1], r[2])'
                         /\ \A q \in reports' : q[1] # content'[r[1]][r[2]]
  BY DEF ReportInv
<1>2. CASE r \notin reports
  BY <1>2
<1>3. CASE r \in reports
  <2> DEFINE i == content[r[1]][r[2]]
  <2>1. /\ r[1] \in Dirs /\ r[2] \in Names \cup {None} /\ r[1] \in opened \cup {Above} /\ (r[1] = Above => r[2] = Top)
        /\ r[2] # None => i # None /\ ~Ahead(r[1], r[2]) /\ R!Blocked(r[1], r[2]) /\ \A q \in reports : q[1] # i
    BY <1>1, <1>3 DEF ReportInv
  <2>2. ASSUME r[2] # None
        PROVE  /\ content'[r[1]][r[2]] # None /\ ~Ahead(r[1], r[2])' /\ R!Blocked(r[1], r[2])'
               /\ \A q \in reports' : q[1] # content'[r[1]][r[2]]
    <3>1. r[2] \in Names /\ content'[r[1]][r[2]] = i
      BY <2>1, <2>2
    <3>2. ~Ahead(r[1], r[2])'
      BY <2>1, <2>2, <3>1
    <3>3. \A q \in reports' : q[1] # i
      BY <2>1, <2>2, <3>1
    <3>4. i \in Dirs => \A m \in Names : content'[i][m] = content[i][m]
      BY <2>1, <2>2, <3>1
    <3>5. R!Blocked(r[1], r[2])'
      <4>1. CASE R!Pinned(r[1], r[2])
        BY <3>1, <4>1 DEF R!Blocked, R!Pinned, R!Held
      <4>2. CASE i \in setting.locked /\ setting.walk = "real" /\ R!Entries(i) # {}
        <5>1. i \in Dirs
          <6>1. setting.locked \subseteq Dirs
            BY CalmFacts DEF Calm, R!RemovalAssumption
          <6> QED
            BY <4>2, <6>1
        <5>2. PICK m \in Names : content[i][m] # None
          BY <4>2 DEF R!Entries, R!Held
        <5>3. content'[i][m] # None
          BY <3>4, <5>1, <5>2
        <5>4. \E m1 \in Names : content'[content'[r[1]][r[2]]][m1] # None
          BY <3>1, <5>3
        <5> QED
          BY <3>1, <4>2, <5>4 DEF R!Blocked, R!Entries, R!Held
      <4> QED
        BY <2>1, <2>2, <4>1, <4>2 DEF R!Blocked, R!Held
    <3> QED
      BY <2>1, <2>2, <3>1, <3>2, <3>3, <3>5
  <2> QED
    BY <2>1, <2>2
<1> QED
  BY <1>2, <1>3
\* The walk goes on: it reads a directory, takes an entry or looks at it.
LEMMA WalksOn ==
  ASSUME Calm, UNCHANGED <<setting, over, been, opened, content>>, removalPc # "end", removalPc' # "end",
         stack' \in Seq(Level), Len(stack') = Len(stack),
         \A k \in DOMAIN stack :
           /\ stack'[k].dir = stack[k].dir /\ stack'[k].name = stack[k].name
           /\ k < Len(stack) => stack'[k].pending = stack[k].pending /\ stack'[k].seen = stack[k].seen,
         \A k \in DOMAIN stack, n \in Names : AheadIn(k, n)' <=> AheadIn(k, n),
         NEW failing, failing => stack # <<>>, reports' = IF failing THEN reports \cup {<<R!T.dir, None>>} ELSE reports,
         \A k \in DOMAIN stack : stack'[k].failed <=> stack[k].failed \/ (k = Len(stack) /\ failing)
  PROVE  SameTree' /\ GoneInv' /\ ChainInv' /\ DoneInv' /\ FailedInv' /\ OnceInv' /\ ReportInv'
<1>1. DOMAIN stack' = DOMAIN stack /\ DOMAIN stack = 1 .. Len(stack) /\ Len(stack) \in Nat
  BY CalmFacts
<1>2. \A d \in Dirs, n \in Names : Ahead(d, n)' <=> Ahead(d, n)
  BY <1>1 DEF Ahead
<1>3. /\ Above \in Dirs /\ opened \subseteq Dirs \ {Above} /\ None \notin Dirs /\ None \notin Names
      /\ \A k \in DOMAIN stack : stack[k].dir \in Dirs
  BY CalmFacts
<1>4. SameTree' /\ GoneInv'
  BY EntriesKeep
<1>5. DoneInv'
  BY <1>2, <1>3, DoneEntriesKeep
<1>6. ChainInv'
  <2>1. ChainInv
    BY DEF Calm, UndisturbedInv
  <2> SUFFICES ASSUME NEW k \in DOMAIN stack
               PROVE  /\ stack'[k].dir \in opened' /\ content'[Parent(k)'][stack'[k].name] = stack'[k].dir
                      /\ \A j \in DOMAIN stack : stack'[j].dir = stack'[k].dir => j = k
                      /\ k > 1 => stack'[k].name \in stack'[k - 1].seen /\ ~Waits(stack'[k - 1], stack'[k].name)
    BY <1>1 DEF ChainInv
  <2>2. k # 1 => k - 1 \in DOMAIN stack /\ k - 1 < Len(stack)
    BY <1>1
  <2>3. Parent(k)' = Parent(k)
    BY <2>2 DEF Parent
  <2>4. stack'[k].dir \in opened' /\ content'[Parent(k)'][stack'[k].name] = stack'[k].dir
    BY <2>1, <2>3 DEF ChainInv
  <2>5. \A j \in DOMAIN stack : stack'[j].dir = stack'[k].dir => j = k
    BY <2>1 DEF ChainInv
  <2>6. k > 1 => stack'[k].name \in stack'[k - 1].seen /\ ~Waits(stack'[k - 1], stack'[k].name)
    BY <1>1, <2>1, <2>2 DEF ChainInv, Waits
  <2> QED
    BY <2>4, <2>5, <2>6
<1>7. failing => /\ R!T.dir = stack[Len(stack)].dir /\ Len(stack) \in DOMAIN stack /\ R!T.dir \in opened /\ R!T.dir \in Dirs
               /\ \A k \in DOMAIN stack : stack[k].dir = R!T.dir => k = Len(stack)
  <2>1. stack \in Seq(Level)
    BY CalmFacts
  <2>2. failing => R!T = stack[Len(stack)] /\ Len(stack) \in DOMAIN stack
    BY <2>1, TopLevel
  <2> QED
    BY <1>3, <2>2 DEF Calm, UndisturbedInv, ChainInv
<1>8. FailedInv'
  <2> SUFFICES ASSUME NEW k \in DOMAIN stack
               PROVE  /\ ~stack'[k].failed =>
                           /\ \A n \in Names : content'[stack'[k].dir][n] # None => AheadIn(k, n)'
                           /\ \A r \in reports' : r[1] # stack'[k].dir
                      /\ stack'[k].failed =>
                           \/ <<stack'[k].dir, None>> \in reports'
                           \/ \E n \in Names : content'[stack'[k].dir][n] # None /\ ~AheadIn(k, n)'
    BY <1>1 DEF FailedInv
  <2>1. /\ ~stack[k].failed => /\ \A n \in Names : content[stack[k].dir][n] # None => AheadIn(k, n)
                               /\ \A r \in reports : r[1] # stack[k].dir
        /\ stack[k].failed => \/ <<stack[k].dir, None>> \in reports
                              \/ \E n \in Names : content[stack[k].dir][n] # None /\ ~AheadIn(k, n)
    BY DEF Calm, UndisturbedInv, FailedInv
  <2>2. ASSUME ~stack'[k].failed PROVE \A r \in reports' : r[1] # stack'[k].dir
    <3>1. ~stack[k].failed /\ ~(k = Len(stack) /\ failing)
      BY <2>2
    <3>2. <<R!T.dir, None>>[1] = R!T.dir
      OBVIOUS
    <3> QED
      BY <1>7, <2>1, <3>1, <3>2
  <2>3. ~stack'[k].failed => \A n \in Names : content'[stack'[k].dir][n] # None => AheadIn(k, n)'
    BY <2>1
  <2>4. ASSUME stack'[k].failed
        PROVE  \/ <<stack'[k].dir, None>> \in reports'
               \/ \E n \in Names : content'[stack'[k].dir][n] # None /\ ~AheadIn(k, n)'
    <3>1. CASE k = Len(stack) /\ failing
      BY <1>7, <3>1
    <3>2. CASE stack[k].failed
      BY <2>1, <3>2
    <3> QED
      BY <2>4, <3>1, <3>2
  <2> QED
    BY <2>2, <2>3, <2>4
<1>9. OnceInv'
  BY <1>1, <1>2, <1>3 DEF OnceInv, Calm, UndisturbedInv
<1>10. ReportInv'
  <2>1. ASSUME NEW r \in reports' \ reports
        PROVE  /\ r[1] \in opened' \cup {Above} /\ r[2] \in Names \cup {None} /\ (r[1] = Above => r[2] = Top)
               /\ \A d \in Dirs, n \in Names : content[d][n] = r[1] => Ahead(d, n)
               /\ r[2] = None
    <3>1. failing /\ r[1] = R!T.dir /\ r[2] = None
      BY <2>1
    <3>2. \E k \in DOMAIN stack : stack[k].dir = r[1]
      BY <1>7, <3>1
    <3> QED
      BY <1>3, <1>7, <3>1, <3>2, HolderAhead
  <2> QED
    BY <1>2, <1>3, <2>1, ReportsKeep
<1> QED
  BY <1>4, <1>5, <1>6, <1>8, <1>9, <1>10

LEMMA BatchCalm ==
  ASSUME Calm, R!Batch
  PROVE  UndisturbedInv'
<1>1. /\ RemovalTyped /\ R!RemovalAssumption /\ removalPc = "walk" /\ stack # <<>> /\ stack \in Seq(Level)
      /\ UNCHANGED <<setting, over, been, opened, content, removalPc>> /\ None \notin Names
  BY CalmFacts DEF Calm, R!Batch, R!Files, WalkInv
<1> DEFINE top == Len(stack)
<1>2. top \in Nat \ {0} /\ top \in DOMAIN stack /\ DOMAIN stack = 1 .. top /\ R!T = stack[top] /\ R!T \in Level
  BY <1>1, TopLevel
<1>3. PICK l \in Level :
    /\ R!Set(l) /\ l.dir = R!T.dir /\ l.name = R!T.name /\ R!T.pending = {} /\ ~R!T.listed
    /\ \/ /\ l.pending = {} /\ l.seen = R!T.seen /\ l.listed /\ l.failed
          /\ reports' = reports \cup {<<R!T.dir, None>>}
       \/ /\ UNCHANGED reports /\ (l.failed <=> R!T.failed)
          /\ \/ /\ l.pending = {} /\ l.seen = R!T.seen /\ l.listed
                /\ \A n \in Names : content[R!T.dir][n] # None => n \in R!T.seen
             \/ /\ ~l.listed
                /\ \E some \in SUBSET Names :
                     /\ \A n \in some : content[R!T.dir][n] # None /\ n \notin R!T.seen
                     /\ l.pending = {[name |-> n, file |-> content[R!T.dir][n] \notin Dirs] : n \in some}
                     /\ l.seen = R!T.seen \cup some
  BY <1>1, BatchStep
<1>4. /\ stack' \in Seq(Level) /\ Len(stack') = top /\ stack'[top] = l
      /\ \A k \in 1 .. top - 1 : stack'[k] = stack[k]
  BY <1>1, <1>3, SetLevel
<1>5. \A k \in DOMAIN stack : k = top \/ (k \in 1 .. top - 1 /\ k < top)
  BY <1>2
<1>6. \A n \in Names : (n \notin l.seen \/ Waits(l, n)) <=> (n \notin R!T.seen \/ Waits(R!T, n))
  <2>1. CASE l.pending = {} /\ l.seen = R!T.seen
    BY <1>3, <2>1 DEF Waits
  <2>2. ASSUME NEW some \in SUBSET Names,
               \A n \in some : content[R!T.dir][n] # None /\ n \notin R!T.seen,
               l.pending = {[name |-> n, file |-> content[R!T.dir][n] \notin Dirs] : n \in some},
               l.seen = R!T.seen \cup some
        PROVE  \A n \in Names : (n \notin l.seen \/ Waits(l, n)) <=> (n \notin R!T.seen \/ Waits(R!T, n))
    <3>1. ASSUME NEW n \in Names PROVE Waits(l, n) <=> n \in some
      <4>1. ASSUME n \in some PROVE Waits(l, n)
        <5>1. [name |-> n, file |-> content[R!T.dir][n] \notin Dirs] \in l.pending
          BY <2>2, <4>1
        <5> QED
          BY <5>1 DEF Waits
      <4>2. ASSUME NEW e \in l.pending PROVE e.name \in some
        BY <2>2
      <4> QED
        BY <4>1, <4>2 DEF Waits
    <3>2. \A n \in Names : ~Waits(R!T, n)
      BY <1>3 DEF Waits
    <3> QED
      BY <2>2, <3>1, <3>2
  <2> QED
    BY <1>3, <2>1, <2>2
<1>7. \A k \in DOMAIN stack, n \in Names : AheadIn(k, n)' <=> AheadIn(k, n)
  <2> SUFFICES ASSUME NEW k \in DOMAIN stack, NEW n \in Names PROVE AheadIn(k, n)' <=> AheadIn(k, n)
    OBVIOUS
  <2>1. ~Working /\ ~Working'
    BY <1>1 DEF Working
  <2>2. CASE k = top
    <3>1. AheadIn(k, n) <=> n \notin R!T.seen \/ Waits(R!T, n)
      BY <1>2, <2>1, <2>2 DEF AheadIn
    <3>2. AheadIn(k, n)' <=> n \notin l.seen \/ Waits(l, n)
      BY <1>2, <1>4, <2>1, <2>2 DEF AheadIn
    <3> QED
      BY <1>6, <3>1, <3>2
  <2>3. CASE k \in 1 .. top - 1
    <3>1. stack'[k] = stack[k] /\ stack'[k + 1].name = stack[k + 1].name
      <4>1. k + 1 \in DOMAIN stack
        BY <1>2, <2>3
      <4> QED
        BY <1>2, <1>3, <1>4, <1>5, <2>3, <4>1
    <3> QED
      BY <1>4, <2>1, <3>1 DEF AheadIn
  <2> QED
    BY <1>5, <2>2, <2>3
<1>8. PICK failing \in BOOLEAN :
        /\ reports' = IF failing THEN reports \cup {<<R!T.dir, None>>} ELSE reports
        /\ failing => l.failed
        /\ ~failing => (l.failed <=> R!T.failed)
  BY <1>3
<1>9. \A k \in DOMAIN stack :
        /\ stack'[k].dir = stack[k].dir /\ stack'[k].name = stack[k].name
        /\ k < Len(stack) => stack'[k].pending = stack[k].pending /\ stack'[k].seen = stack[k].seen
        /\ stack'[k].failed <=> stack[k].failed \/ (k = Len(stack) /\ failing)
  <2> SUFFICES ASSUME NEW k \in DOMAIN stack
               PROVE  /\ stack'[k].dir = stack[k].dir /\ stack'[k].name = stack[k].name
                      /\ k < Len(stack) => stack'[k].pending = stack[k].pending /\ stack'[k].seen = stack[k].seen
                      /\ stack'[k].failed <=> stack[k].failed \/ (k = Len(stack) /\ failing)
    OBVIOUS
  <2>1. CASE k = top
    BY <1>2, <1>3, <1>4, <1>8, <2>1
  <2>2. CASE k \in 1 .. top - 1
    BY <1>2, <1>4, <2>2
  <2> QED
    BY <1>5, <2>1, <2>2
<1>10. SameTree' /\ GoneInv' /\ ChainInv' /\ DoneInv' /\ FailedInv' /\ OnceInv' /\ ReportInv'
  BY <1>1, <1>4, <1>7, <1>8, <1>9, WalksOn
<1>11. ListInv'
  <2>1. DOMAIN stack' = DOMAIN stack
    BY <1>2, <1>4
  <2> SUFFICES ASSUME NEW k \in DOMAIN stack
               PROVE  /\ \A e \in stack'[k].pending :
                           /\ e.name \in stack'[k].seen /\ content'[stack'[k].dir][e.name] # None
                           /\ e.file <=> content'[stack'[k].dir][e.name] \notin Dirs
                           /\ \A f \in stack'[k].pending : e.name = f.name => e = f
                      /\ stack'[k].listed =>
                           \/ <<stack'[k].dir, None>> \in reports'
                           \/ \A n \in Names : content'[stack'[k].dir][n] # None => n \in stack'[k].seen
    BY <2>1 DEF ListInv
  <2>2. CASE k \in 1 .. top - 1
    BY <1>1, <1>4, <1>8, <2>2 DEF Calm, UndisturbedInv, ListInv
  <2>3. CASE k = top
    <3>1. CASE l.pending = {}
      BY <1>1, <1>2, <1>3, <1>4, <2>3, <3>1
    <3>2. ASSUME ~l.listed, NEW some \in SUBSET Names,
                 \A n \in some : content[R!T.dir][n] # None /\ n \notin R!T.seen,
                 l.pending = {[name |-> n, file |-> content[R!T.dir][n] \notin Dirs] : n \in some},
                 l.seen = R!T.seen \cup some
          PROVE  /\ \A e \in l.pending :
                      /\ e.name \in l.seen /\ content[l.dir][e.name] # None
                      /\ e.file <=> content[l.dir][e.name] \notin Dirs
                      /\ \A f \in l.pending : e.name = f.name => e = f
                 /\ ~l.listed
      <4>1. ASSUME NEW e \in l.pending
            PROVE  /\ e.name \in some /\ (e.file <=> content[R!T.dir][e.name] \notin Dirs)
                   /\ e = [name |-> e.name, file |-> content[R!T.dir][e.name] \notin Dirs]
        <5>1. PICK n \in some : e = [name |-> n, file |-> content[R!T.dir][n] \notin Dirs]
          BY <3>2
        <5>2. e.name = n
          BY <5>1
        <5>3. e.file = (content[R!T.dir][n] \notin Dirs)
          BY <5>1
        <5> QED
          BY <5>1, <5>2, <5>3
      <4>2. ASSUME NEW e \in l.pending, NEW f \in l.pending, e.name = f.name PROVE e = f
        <5>1. e = [name |-> e.name, file |-> content[R!T.dir][e.name] \notin Dirs]
          BY <4>1
        <5>2. f = [name |-> f.name, file |-> content[R!T.dir][f.name] \notin Dirs]
          BY <4>1
        <5> QED
          BY <4>2, <5>1, <5>2
      <4> QED
        BY <1>3, <3>2, <4>1, <4>2
    <3> QED
      BY <1>1, <1>3, <1>4, <2>3, <3>1, <3>2
  <2> QED
    BY <1>5, <2>2, <2>3
<1>12. HandInv'
  BY <1>1 DEF HandInv, Working
<1> QED
  BY <1>10, <1>11, <1>12 DEF UndisturbedInv
LEMMA PopCalm ==
  ASSUME Calm, R!Pop
  PROVE  UndisturbedInv'
<1>1. /\ RemovalTyped /\ R!RemovalAssumption /\ removalPc = "walk" /\ stack # <<>> /\ stack \in Seq(Level)
      /\ UNCHANGED <<setting, over, been, opened, content, reports>>
  BY CalmFacts DEF Calm, R!Pop, R!Files, WalkInv
<1> DEFINE top == Len(stack)
<1>2. top \in Nat \ {0} /\ top \in DOMAIN stack /\ DOMAIN stack = 1 .. top /\ R!T = stack[top] /\ R!T \in Level
  BY <1>1, TopLevel
<1>3. PICK e \in R!T.pending, l \in Level :
    /\ R!Set(l) /\ l.dir = R!T.dir /\ l.name = R!T.name /\ l.pending = R!T.pending \ {e} /\ l.seen = R!T.seen
    /\ l.listed = R!T.listed /\ l.failed = R!T.failed
    /\ e \in [name : Names, file : BOOLEAN] /\ name' = e.name /\ hint' = e.file
    /\ removalPc' \in {"stat", "unlink"} /\ (removalPc' = "unlink" => e.file)
  BY <1>1, PopStep
<1>4. /\ stack' \in Seq(Level) /\ Len(stack') = top /\ stack'[top] = l
      /\ \A k \in 1 .. top - 1 : stack'[k] = stack[k]
  BY <1>1, <1>3, SetLevel
<1>5. \A k \in DOMAIN stack : k = top \/ (k \in 1 .. top - 1 /\ k < top)
  BY <1>2
<1>6. /\ e.name \in R!T.seen /\ content[R!T.dir][e.name] # None
      /\ e.file => content[R!T.dir][e.name] \notin Dirs
      /\ \A f \in R!T.pending : e.name = f.name => e = f
  BY <1>2 DEF Calm, UndisturbedInv, ListInv
<1>7. \A n \in Names : Waits(R!T, n) <=> Waits(l, n) \/ e.name = n
  BY <1>3 DEF Waits
<1>8. ~Waits(l, e.name)
  BY <1>3, <1>6 DEF Waits
<1>9. \A k \in DOMAIN stack, n \in Names : AheadIn(k, n)' <=> AheadIn(k, n)
  <2> SUFFICES ASSUME NEW k \in DOMAIN stack, NEW n \in Names PROVE AheadIn(k, n)' <=> AheadIn(k, n)
    OBVIOUS
  <2>1. ~Working /\ Working'
    BY <1>1, <1>3 DEF Working
  <2>2. CASE k = top
    <3>1. AheadIn(k, n) <=> n \notin R!T.seen \/ Waits(R!T, n)
      BY <1>2, <2>1, <2>2 DEF AheadIn
    <3>2. AheadIn(k, n)' <=> n \notin l.seen \/ Waits(l, n) \/ name' = n
      BY <1>2, <1>4, <2>1, <2>2 DEF AheadIn
    <3> QED
      BY <1>3, <1>7, <3>1, <3>2
  <2>3. CASE k \in 1 .. top - 1
    <3>1. stack'[k] = stack[k] /\ stack'[k + 1].name = stack[k + 1].name
      <4>1. k + 1 \in DOMAIN stack
        BY <1>2, <2>3
      <4> QED
        BY <1>2, <1>3, <1>4, <1>5, <2>3, <4>1
    <3>2. k # top
      BY <1>2, <2>3
    <3> QED
      BY <1>4, <2>1, <3>1, <3>2 DEF AheadIn
  <2> QED
    BY <1>5, <2>2, <2>3
<1>10. \A k \in DOMAIN stack :
        /\ stack'[k].dir = stack[k].dir /\ stack'[k].name = stack[k].name
        /\ k < Len(stack) => stack'[k].pending = stack[k].pending /\ stack'[k].seen = stack[k].seen
        /\ stack'[k].failed = stack[k].failed /\ stack'[k].listed = stack[k].listed /\ stack'[k].seen = stack[k].seen
        /\ stack'[k].pending \subseteq stack[k].pending
  <2> SUFFICES ASSUME NEW k \in DOMAIN stack
               PROVE  /\ stack'[k].dir = stack[k].dir /\ stack'[k].name = stack[k].name
                      /\ k < Len(stack) => stack'[k].pending = stack[k].pending /\ stack'[k].seen = stack[k].seen
                      /\ stack'[k].failed = stack[k].failed /\ stack'[k].listed = stack[k].listed
                      /\ stack'[k].seen = stack[k].seen
                      /\ stack'[k].pending \subseteq stack[k].pending
    OBVIOUS
  <2>1. CASE k = top
    BY <1>2, <1>3, <1>4, <2>1
  <2>2. CASE k \in 1 .. top - 1
    BY <1>2, <1>4, <2>2
  <2> QED
    BY <1>5, <2>1, <2>2
<1>11. SameTree' /\ GoneInv' /\ ChainInv' /\ DoneInv' /\ FailedInv' /\ OnceInv' /\ ReportInv'
  <2>1. reports' = IF FALSE THEN reports \cup {<<R!T.dir, None>>} ELSE reports
    BY <1>1
  <2>2. \A k \in DOMAIN stack : stack'[k].failed <=> stack[k].failed \/ (k = Len(stack) /\ FALSE)
    BY <1>10
  <2>3. removalPc # "end" /\ removalPc' # "end"
    BY <1>1, <1>3
  <2> QED
    BY <1>1, <1>4, <1>9, <1>10, <2>1, <2>2, <2>3, WalksOn
<1>12. ListInv'
  <2>1. DOMAIN stack' = DOMAIN stack
    BY <1>2, <1>4
  <2> SUFFICES ASSUME NEW k \in DOMAIN stack
               PROVE  /\ \A f \in stack'[k].pending :
                           /\ f.name \in stack'[k].seen /\ content'[stack'[k].dir][f.name] # None
                           /\ f.file <=> content'[stack'[k].dir][f.name] \notin Dirs
                           /\ \A g \in stack'[k].pending : f.name = g.name => f = g
                      /\ stack'[k].listed =>
                           \/ <<stack'[k].dir, None>> \in reports'
                           \/ \A n \in Names : content'[stack'[k].dir][n] # None => n \in stack'[k].seen
    BY <2>1 DEF ListInv
  <2>2. /\ \A f \in stack[k].pending :
             /\ f.name \in stack[k].seen /\ content[stack[k].dir][f.name] # None
             /\ f.file <=> content[stack[k].dir][f.name] \notin Dirs
             /\ \A g \in stack[k].pending : f.name = g.name => f = g
        /\ stack[k].listed =>
             \/ <<stack[k].dir, None>> \in reports
             \/ \A n \in Names : content[stack[k].dir][n] # None => n \in stack[k].seen
    BY DEF Calm, UndisturbedInv, ListInv
  <2> QED
    BY <1>1, <1>10, <2>2
<1>13. HandInv'
  <2>1. stack' # <<>> /\ R!At' = R!T.dir
    <3>1. stack' # <<>>
      BY <1>2, <1>4
    <3> QED
      BY <1>3, <1>4, <3>1 DEF R!At, R!T, R!Last
  <2> QED
    BY <1>1, <1>3, <1>4, <1>6, <1>8, <2>1 DEF HandInv, Working
<1> QED
  BY <1>11, <1>12, <1>13 DEF UndisturbedInv

\* What is at hand is what is was: no one put anything there.
LEMMA HandNode ==
  ASSUME Calm, Working
  PROVE  /\ R!Node(R!At, name) = content[R!At][name] /\ ~R!Mounted(R!At, name)
         /\ content[R!At][name] # None
<1>1. R!At \in Dirs /\ name \in Names /\ content[R!At][name] # None /\ RemovalTyped /\ R!RemovalAssumption
  BY HandAhead, CalmFacts DEF Calm
<1>2. \A d \in Dirs : over[d] = None
  BY DEF Calm, UndisturbedInv, SameTree
<1>3. ~R!Mounted(R!At, name)
  BY <1>1, <1>2, Nodes
<1> QED
  BY <1>1, <1>3, Nodes

LEMMA StatCalm ==
  ASSUME Calm, R!Stat
  PROVE  UndisturbedInv'
<1> DEFINE i == content[R!At][name]
<1>1. /\ removalPc = "stat" /\ Working /\ None \notin Dirs
      /\ UNCHANGED <<setting, over, been, content, modes, name, taken, opened>>
  BY CalmFacts DEF R!Stat, R!Files, Working
<1>2. R!Node(R!At, name) = i /\ ~R!Busy(R!At, name) /\ i # None /\ ~R!TooDeep
  BY <1>1, HandNode, Shallow DEF R!Busy
<1>3. /\ UNCHANGED <<stack, reports>>
      /\ \/ i \notin Dirs /\ removalPc' = "unlink" /\ ~hint'
         \/ i \in Dirs /\ removalPc' = "open" /\ ino' = i /\ UNCHANGED hint
  <2>1. CASE i \notin Dirs
    BY <1>2, <2>1 DEF R!Stat, R!IsDir
  <2>2. CASE i \in Dirs
    BY <1>2, <2>2 DEF R!Stat, R!IsDir
  <2> QED
    BY <2>1, <2>2
<1>4. Working' /\ removalPc # "end" /\ removalPc' # "end"
  BY <1>1, <1>3 DEF Working
<1>5. \A k \in DOMAIN stack, n \in Names : AheadIn(k, n)' <=> AheadIn(k, n)
  BY <1>1, <1>3, <1>4 DEF AheadIn, Waits
<1>6. SameTree' /\ GoneInv' /\ ChainInv' /\ DoneInv' /\ FailedInv' /\ OnceInv' /\ ReportInv'
  <2>1. reports' = IF FALSE THEN reports \cup {<<R!T.dir, None>>} ELSE reports
    BY <1>3
  <2>2. \A k \in DOMAIN stack : stack'[k].failed <=> stack[k].failed \/ (k = Len(stack) /\ FALSE)
    BY <1>3
  <2>3. stack' \in Seq(Level) /\ Len(stack') = Len(stack)
    BY <1>3, CalmFacts
  <2> QED
    BY <1>1, <1>3, <1>4, <1>5, <2>1, <2>2, <2>3, WalksOn
<1>7. ListInv'
  BY <1>1, <1>3 DEF Calm, UndisturbedInv, ListInv
<1>8. HandInv'
  <2>1. R!At' = R!At
    BY <1>3 DEF R!At, R!T, R!Last
  <2>2. HandInv
    BY DEF Calm, UndisturbedInv
  <2> QED
    BY <1>1, <1>2, <1>3, <2>1, <2>2 DEF HandInv, Working, Waits
<1> QED
  BY <1>6, <1>7, <1>8 DEF UndisturbedInv
\* What is at hand is done with: it is taken away, or it cannot be and is reported.
LEMMA FinishHand ==
  ASSUME Calm, Working, NEW ok \in BOOLEAN, R!Done(ok), UNCHANGED <<setting, over, been, opened>>,
         IF ok THEN R!Gone(R!At, name) ELSE UNCHANGED content,
         ok => content[R!At][name] \notin Dirs \/ \A m \in Names : content[content[R!At][name]][m] = None,
         ~ok => R!Blocked(R!At, name)
  PROVE  UndisturbedInv'
<1>1. PICK p \in Dirs, q \in Names : p = R!At /\ q = name
  BY HandAhead, CalmFacts
<1>2. /\ RemovalTyped /\ R!RemovalAssumption /\ removalPc # "end" /\ stack \in Seq(Level)
      /\ None \notin Dirs /\ None \notin Names /\ Above \in Dirs /\ opened \subseteq Dirs \ {Above}
      /\ DOMAIN stack = 1 .. Len(stack) /\ Len(stack) \in Nat
      /\ \A k \in DOMAIN stack : stack[k].dir \in Dirs /\ stack[k].dir \in opened
      /\ \A k, j \in DOMAIN stack : stack[j].dir = stack[k].dir => j = k
  BY CalmFacts DEF Calm, Working, UndisturbedInv, ChainInv
<1>3. /\ Ahead(p, q) /\ p \in opened \cup {Above} /\ (p = Above => q = Top /\ stack = <<>>)
      /\ stack # <<>> => p = stack[Len(stack)].dir /\ Len(stack) \in DOMAIN stack
      /\ content[p][q] # None /\ content[p][q] \notin opened \cup {Above}
  BY <1>1, HandAhead
<1>4. stack # <<>> => q \in stack[Len(stack)].seen /\ ~Waits(stack[Len(stack)], q)
  BY <1>1 DEF Calm, UndisturbedInv, HandInv
<1>5. /\ SameLevels(ok) /\ Len(stack') = Len(stack) /\ stack' \in Seq(Level) /\ DOMAIN stack' = DOMAIN stack
      /\ removalPc' = (IF stack = <<>> THEN "end" ELSE "walk") /\ ~Working'
      /\ reports' = (IF ok THEN reports ELSE reports \cup {<<p, q>>})
  <2>1. /\ SameLevels(ok) /\ removalPc' = (IF stack = <<>> THEN "end" ELSE "walk")
        /\ reports' = (IF ok THEN reports ELSE reports \cup {<<p, q>>})
    BY <1>1, <1>2, DoneStep
  <2>2. Len(stack') = Len(stack) /\ stack' \in Seq(Level)
    BY <2>1 DEF SameLevels
  <2> QED
    BY <1>2, <2>1, <2>2 DEF Working
<1>6. \A k \in DOMAIN stack :
        /\ stack'[k].dir = stack[k].dir /\ stack'[k].name = stack[k].name
        /\ stack'[k].pending = stack[k].pending /\ stack'[k].seen = stack[k].seen
        /\ stack'[k].listed = stack[k].listed
        /\ stack'[k].failed <=> stack[k].failed \/ (k = Len(stack) /\ ~ok)
  BY <1>5 DEF SameLevels
<1>7. \A e \in Dirs, m \in Names : content'[e][m] = IF ok /\ e = p /\ m = q THEN None ELSE content[e][m]
  <2>1. CASE ok
    <3>1. R!Gone(p, q)
      BY <1>1, <2>1
    <3> QED
      BY <1>2, <2>1, <3>1, GoneStep
  <2>2. CASE ~ok
    BY <2>2
  <2> QED
    BY <2>1, <2>2
<1>8. \A k \in DOMAIN stack, n \in Names : AheadIn(k, n)' <=> AheadIn(k, n) /\ ~(k = Len(stack) /\ n = q)
  <2> SUFFICES ASSUME NEW k \in DOMAIN stack, NEW n \in Names
               PROVE  AheadIn(k, n)' <=> AheadIn(k, n) /\ ~(k = Len(stack) /\ n = q)
    OBVIOUS
  <2>1. stack'[k].seen = stack[k].seen /\ (Waits(stack[k], n)' <=> Waits(stack[k], n))
    BY <1>6 DEF Waits
  <2>2. CASE k = Len(stack)
    <3>1. stack # <<>>
      BY <1>2
    <3>2. AheadIn(k, n)' <=> n \notin stack[k].seen \/ Waits(stack[k], n)
      BY <1>2, <1>5, <2>1, <2>2 DEF AheadIn
    <3>3. AheadIn(k, n) <=> n \notin stack[k].seen \/ Waits(stack[k], n) \/ n = q
      BY <1>1, <1>2, <2>2 DEF AheadIn
    <3> QED
      BY <1>4, <2>2, <3>1, <3>2, <3>3
  <2>3. CASE k # Len(stack)
    <3>1. k + 1 \in DOMAIN stack /\ k < Len(stack)
      BY <1>2, <2>3
    <3>2. stack'[k + 1].name = stack[k + 1].name
      BY <1>6, <3>1
    <3> QED
      BY <1>5, <2>1, <2>3, <3>1, <3>2 DEF AheadIn
  <2> QED
    BY <2>2, <2>3
<1>9. /\ \A d \in Dirs, n \in Names : Ahead(d, n)' => Ahead(d, n)
      /\ ~Ahead(p, q)'
      /\ \A d \in Dirs, n \in Names : Ahead(d, n) /\ ~Ahead(d, n)' /\ (d = Above => n = Top) => d = p /\ n = q
  <2>1. ASSUME NEW d \in Dirs, NEW n \in Names, Ahead(d, n)' PROVE Ahead(d, n)
    BY <1>2, <1>5, <1>6, <1>8, <2>1 DEF Ahead
  <2>2. ~Ahead(p, q)'
    <3>1. ~(p = Above /\ removalPc' # "end")
      BY <1>3, <1>5
    <3>2. ASSUME NEW k \in DOMAIN stack, stack'[k].dir = p PROVE ~AheadIn(k, q)'
      <4>1. stack # <<>>
        BY <1>2
      <4>2. k = Len(stack)
        BY <1>2, <1>3, <1>6, <3>2, <4>1
      <4> QED
        BY <1>8, <4>2
    <3> QED
      BY <1>5, <3>1, <3>2 DEF Ahead
  <2>3. ASSUME NEW d \in Dirs, NEW n \in Names, Ahead(d, n), ~Ahead(d, n)', d = Above => n = Top PROVE d = p /\ n = q
    <3>1. CASE stack = <<>>
      <4>1. d = Above /\ n = Top
        BY <1>2, <2>3, <3>1 DEF Ahead
      <4>2. p = Above /\ q = Top
        BY <1>1, <1>2, <3>1, CalmFacts DEF R!At, WalkInv
      <4> QED
        BY <4>1, <4>2
    <3>2. CASE stack # <<>>
      <4>1. d # Above /\ removalPc' = "walk"
        BY <1>5, <2>3, <3>2 DEF Ahead
      <4>2. PICK k \in DOMAIN stack : stack[k].dir = d /\ AheadIn(k, n)
        BY <2>3, <4>1 DEF Ahead
      <4>3. ~AheadIn(k, n)'
        BY <1>5, <1>6, <2>3, <4>2 DEF Ahead
      <4> QED
        BY <1>3, <1>8, <3>2, <4>2, <4>3
    <3> QED
      BY <3>1, <3>2
  <2> QED
    BY <2>1, <2>2, <2>3
<1>10. \A d \in Dirs, n \in Names : content[d][n] = p => Ahead(d, n)
  <2>1. p = Above \/ \E k \in DOMAIN stack : stack[k].dir = p
    <3>1. CASE stack = <<>>
      BY <1>1, <3>1 DEF R!At
    <3> QED
      BY <1>3, <3>1
  <2> QED
    BY <1>2, <2>1, HolderAhead
<1>11. SameTree' /\ GoneInv'
  <2>1. ok => content[p][q] \notin Dirs \/ \A m \in Names : content[content[p][q]][m] = None
    BY <1>1
  <2>2. \A d \in Dirs, n \in Names : content'[d][n] # content[d][n] => d = p /\ n = q /\ ok
    BY <1>7
  <2>3. \A d \in Dirs, n \in Names : content'[d][n] \in {content[d][n], None}
    BY <1>7
  <2>4. ASSUME NEW d \in Dirs, NEW n \in Names, content'[d][n] # content[d][n]
        PROVE  /\ d \in opened \cup {Above}
               /\ content[d][n] \in Dirs =>
                    content[d][n] \in opened \/ \A m \in Names : content[content[d][n]][m] = None
    BY <1>3, <2>1, <2>2, <2>4
  <2> QED
    BY <2>3, <2>4, EntriesKeep
<1>12. DoneInv'
  <2>1. \A d \in Dirs, n \in Names : content'[d][n] \in {content[d][n], None}
    BY <1>7
  <2>2. \A e \in Dirs, m \in Names :
          content'[e][m] # content[e][m] => \A d \in Dirs, n \in Names : content[d][n] = e => Ahead(d, n)
    BY <1>7, <1>10
  <2>3. ASSUME NEW d \in opened \cup {Above}, NEW n \in Names,
               Ahead(d, n), ~Ahead(d, n)', content'[d][n] # None, d = Above => n = Top
        PROVE  Stays(d, n)'
    <3>1. d = p /\ n = q /\ d \in Dirs
      BY <1>2, <1>9, <2>3
    <3>2. ~ok
      BY <1>7, <2>3, <3>1
    <3>3. <<d, n>> \in reports'
      BY <1>5, <3>1, <3>2
    <3> QED
      BY <3>3 DEF Stays
  <2> QED
    BY <1>5, <2>1, <2>2, <2>3, DoneEntriesKeep
<1>13. ReportInv'
  <2>1. \A d \in Dirs, n \in Names : content'[d][n] \in {content[d][n], None}
    BY <1>7
  <2>2. \A e \in Dirs, m \in Names :
          content'[e][m] # content[e][m] =>
            Ahead(e, m) /\ \A d \in Dirs, n \in Names : content[d][n] = e => Ahead(d, n)
    BY <1>3, <1>7, <1>10
  <2>3. ASSUME NEW r \in reports' \ reports
        PROVE  /\ r[1] \in opened' \cup {Above} /\ r[2] \in Names \cup {None} /\ (r[1] = Above => r[2] = Top)
               /\ \A d \in Dirs, n \in Names : content[d][n] = r[1] => Ahead(d, n)
               /\ r[2] # None =>
                    /\ content'[r[1]][r[2]] # None /\ ~Ahead(r[1], r[2])' /\ R!Blocked(r[1], r[2])'
                    /\ \A s \in reports' : s[1] # content'[r[1]][r[2]]
    <3>1. r = <<p, q>> /\ ~ok
      BY <1>5, <2>3
    <3>2. r[1] = p /\ r[2] = q
      BY <3>1
    <3>3. content'[p][q] = content[p][q] /\ UNCHANGED content
      BY <1>7, <3>1
    <3>4. R!Blocked(p, q)'
      <4>1. R!Blocked(p, q)
        BY <1>1, <3>1
      <4> QED
        BY <3>3, <4>1 DEF R!Blocked, R!Pinned, R!Held, R!Entries
    <3>5. \A s \in reports' : s[1] # content'[p][q]
      <4>1. \A s \in reports : s[1] \in opened \cup {Above}
        BY DEF Calm, UndisturbedInv, ReportInv
      <4>2. <<p, q>>[1] = p
        OBVIOUS
      <4>3. \A s \in reports' : s[1] \in opened \cup {Above}
        BY <1>3, <1>5, <4>1, <4>2
      <4> QED
        BY <1>3, <3>3, <4>3
    <3>6. R!Blocked(r[1], r[2])' /\ ~Ahead(r[1], r[2])'
      BY <1>9, <3>1, <3>4
    <3> QED
      BY <1>3, <1>10, <3>2, <3>3, <3>5, <3>6
  <2>4. \A d \in opened \cup {Above}, n \in Names : Ahead(d, n)' => Ahead(d, n)
    BY <1>2, <1>9
  <2> QED
    BY <1>5, <2>1, <2>2, <2>3, <2>4, ReportsKeep
<1>14. ChainInv'
  <2> SUFFICES ASSUME NEW k \in DOMAIN stack
               PROVE  /\ stack'[k].dir \in opened' /\ content'[Parent(k)'][stack'[k].name] = stack'[k].dir
                      /\ \A j \in DOMAIN stack : stack'[j].dir = stack'[k].dir => j = k
                      /\ k > 1 => stack'[k].name \in stack'[k - 1].seen /\ ~Waits(stack'[k - 1], stack'[k].name)
    BY <1>5 DEF ChainInv
  <2>1. /\ stack[k].dir \in opened /\ content[Parent(k)][stack[k].name] = stack[k].dir
        /\ k > 1 => stack[k].name \in stack[k - 1].seen /\ ~Waits(stack[k - 1], stack[k].name)
        /\ Parent(k) \in Dirs /\ stack[k].name \in Names
    BY CalmFacts DEF Calm, UndisturbedInv, ChainInv
  <2>2. k # 1 => k - 1 \in DOMAIN stack
    BY <1>2
  <2>3. Parent(k)' = Parent(k)
    BY <1>6, <2>2 DEF Parent
  <2>4. content'[Parent(k)][stack[k].name] = stack[k].dir
    BY <1>3, <1>7, <2>1
  <2>5. k > 1 => stack'[k].name \in stack'[k - 1].seen /\ ~Waits(stack'[k - 1], stack'[k].name)
    <3>1. k > 1 => k # 1
      BY <1>2
    <3> QED
      BY <1>6, <2>1, <2>2, <3>1 DEF Waits
  <2> QED
    BY <1>2, <1>6, <2>1, <2>3, <2>4, <2>5
<1>15. ListInv'
  <2> SUFFICES ASSUME NEW k \in DOMAIN stack
               PROVE  /\ \A e \in stack'[k].pending :
                           /\ e.name \in stack'[k].seen /\ content'[stack'[k].dir][e.name] # None
                           /\ e.file <=> content'[stack'[k].dir][e.name] \notin Dirs
                           /\ \A f \in stack'[k].pending : e.name = f.name => e = f
                      /\ stack'[k].listed =>
                           \/ <<stack'[k].dir, None>> \in reports'
                           \/ \A n \in Names : content'[stack'[k].dir][n] # None => n \in stack'[k].seen
    BY <1>5 DEF ListInv
  <2>1. /\ \A e \in stack[k].pending :
             /\ e.name \in stack[k].seen /\ content[stack[k].dir][e.name] # None
             /\ e.file <=> content[stack[k].dir][e.name] \notin Dirs
             /\ \A f \in stack[k].pending : e.name = f.name => e = f
        /\ stack[k].listed =>
             \/ <<stack[k].dir, None>> \in reports
             \/ \A n \in Names : content[stack[k].dir][n] # None => n \in stack[k].seen
    BY DEF Calm, UndisturbedInv, ListInv
  <2>2. ASSUME NEW e \in stack[k].pending
        PROVE  content'[stack[k].dir][e.name] = content[stack[k].dir][e.name]
    <3>1. e.name \in Names
      BY CalmFacts DEF Level
    <3>2. ~(stack[k].dir = p /\ e.name = q)
      <4> SUFFICES ASSUME stack[k].dir = p, e.name = q PROVE FALSE
        OBVIOUS
      <4>1. k = Len(stack) /\ stack # <<>>
        BY <1>2, <1>3
      <4>2. Waits(stack[k], q)
        BY DEF Waits
      <4> QED
        BY <1>4, <4>1, <4>2
    <3> QED
      BY <1>2, <1>7, <3>1, <3>2
  <2>3. \A n \in Names : content'[stack[k].dir][n] # None => content[stack[k].dir][n] # None
    BY <1>2, <1>7
  <2>4. reports \subseteq reports'
    BY <1>5
  <2> QED
    BY <1>6, <2>1, <2>2, <2>3, <2>4
<1>16. HandInv'
  BY <1>5 DEF HandInv
<1>17. FailedInv'
  <2> SUFFICES ASSUME NEW k \in DOMAIN stack
               PROVE  /\ ~stack'[k].failed =>
                           /\ \A n \in Names : content'[stack'[k].dir][n] # None => AheadIn(k, n)'
                           /\ \A r \in reports' : r[1] # stack'[k].dir
                      /\ stack'[k].failed =>
                           \/ <<stack'[k].dir, None>> \in reports'
                           \/ \E n \in Names : content'[stack'[k].dir][n] # None /\ ~AheadIn(k, n)'
    BY <1>5 DEF FailedInv
  <2>1. /\ ~stack[k].failed => /\ \A n \in Names : content[stack[k].dir][n] # None => AheadIn(k, n)
                               /\ \A r \in reports : r[1] # stack[k].dir
        /\ stack[k].failed => \/ <<stack[k].dir, None>> \in reports
                              \/ \E n \in Names : content[stack[k].dir][n] # None /\ ~AheadIn(k, n)
    BY DEF Calm, UndisturbedInv, FailedInv
  <2>2. stack # <<>>
    BY <1>2
  <2>3. ASSUME ~stack'[k].failed
        PROVE  /\ \A n \in Names : content'[stack'[k].dir][n] # None => AheadIn(k, n)'
               /\ \A r \in reports' : r[1] # stack'[k].dir
    <3>1. ~stack[k].failed /\ ~(k = Len(stack) /\ ~ok)
      BY <1>6, <2>3
    <3>2. ASSUME NEW n \in Names, content'[stack[k].dir][n] # None PROVE AheadIn(k, n)'
      <4>1. content[stack[k].dir][n] # None /\ AheadIn(k, n)
        BY <1>2, <1>7, <2>1, <3>1, <3>2
      <4>2. ~(k = Len(stack) /\ n = q)
        BY <1>3, <1>7, <2>2, <3>1, <3>2
      <4> QED
        BY <1>8, <4>1, <4>2
    <3>3. \A r \in reports' : r[1] # stack[k].dir
      <4>1. CASE ok
        BY <1>5, <2>1, <3>1, <4>1
      <4>2. CASE ~ok
        <5>1. p # stack[k].dir
          BY <1>2, <1>3, <2>2, <3>1, <4>2
        <5>2. <<p, q>>[1] = p
          OBVIOUS
        <5> QED
          BY <1>5, <2>1, <3>1, <5>1, <5>2
      <4> QED
        BY <4>1, <4>2
    <3> QED
      BY <1>6, <3>2, <3>3
  <2>4. ASSUME stack'[k].failed
        PROVE  \/ <<stack'[k].dir, None>> \in reports'
               \/ \E n \in Names : content'[stack'[k].dir][n] # None /\ ~AheadIn(k, n)'
    <3>1. CASE k = Len(stack) /\ ~ok
      <4>1. content'[stack'[k].dir][q] # None /\ ~AheadIn(k, q)'
        BY <1>3, <1>6, <1>7, <1>8, <2>2, <3>1
      <4> QED
        BY <4>1
    <3>2. CASE stack[k].failed /\ ~(k = Len(stack) /\ ~ok)
      <4>1. CASE <<stack[k].dir, None>> \in reports
        BY <1>5, <1>6, <4>1
      <4>2. ASSUME NEW n \in Names, content[stack[k].dir][n] # None, ~AheadIn(k, n)
            PROVE  content'[stack'[k].dir][n] # None /\ ~AheadIn(k, n)'
        <5>1. ~AheadIn(k, n)'
          BY <1>8, <4>2
        <5>2. ~(stack[k].dir = p /\ n = q)
          <6> SUFFICES ASSUME stack[k].dir = p, n = q PROVE FALSE
            OBVIOUS
          <6>1. k = Len(stack)
            BY <1>2, <1>3, <2>2
          <6>2. AheadIn(k, q)
            BY <1>1, <6>1 DEF AheadIn
          <6> QED
            BY <4>2, <6>2
        <5> QED
          BY <1>2, <1>6, <1>7, <4>2, <5>1, <5>2
      <4> QED
        BY <2>1, <3>2, <4>1, <4>2
    <3> QED
      BY <1>6, <2>4, <3>1, <3>2
  <2> QED
    BY <2>3, <2>4
<1>18. OnceInv'
  <2> SUFFICES ASSUME NEW i \in opened, NEW d \in Dirs, NEW n \in Names, content'[d][n] = i, Ahead(d, n)'
               PROVE  \E k \in DOMAIN stack' : stack'[k].dir = i
    BY DEF OnceInv
  <2>1. content[d][n] = i
    BY <1>2, <1>7
  <2>2. Ahead(d, n)
    BY <1>9
  <2>3. \E k \in DOMAIN stack : stack[k].dir = i
    BY <2>1, <2>2 DEF Calm, UndisturbedInv, OnceInv
  <2> QED
    BY <1>5, <1>6, <2>3
<1> QED
  BY <1>11, <1>12, <1>13, <1>14, <1>15, <1>16, <1>17, <1>18 DEF UndisturbedInv
LEMMA UnlinkCalm ==
  ASSUME Calm, R!Unlink
  PROVE  UndisturbedInv'
<1> DEFINE i == content[R!At][name]
<1>1. Working /\ removalPc = "unlink" /\ UNCHANGED <<setting, over, been, opened>>
  BY DEF R!Unlink, R!Files, Working
<1>2. i # None /\ i \notin Dirs
  BY <1>1 DEF Calm, UndisturbedInv, HandInv
<1>3. CASE R!Pinned(R!At, name)
  <2>1. R!Done(FALSE) /\ UNCHANGED content
    BY <1>2, <1>3 DEF R!Unlink, R!Held, R!IsDir
  <2>2. R!Blocked(R!At, name)
    BY <1>3 DEF R!Blocked
  <2> QED
    BY <1>1, <2>1, <2>2, FinishHand
<1>4. CASE ~R!Pinned(R!At, name)
  <2>1. R!Done(TRUE) /\ R!Gone(R!At, name)
    BY <1>2, <1>4 DEF R!Unlink, R!Held, R!IsDir
  <2> QED
    BY <1>1, <1>2, <2>1, FinishHand
<1> QED
  BY <1>3, <1>4

\* A directory is opened, and the walk goes on in it.
LEMMA PushCalm ==
  ASSUME Calm, Working, content[R!At][name] = ino, ino \in Dirs, UNCHANGED <<setting, over, been, content, reports>>,
         stack' = Append(stack, [dir |-> ino, name |-> name, pending |-> {}, seen |-> {},
                                 listed |-> FALSE, failed |-> FALSE]),
         removalPc' = "walk", opened' = opened \cup {ino}
  PROVE  UndisturbedInv'
<1>1. PICK p \in Dirs, q \in Names : p = R!At /\ q = name
  BY HandAhead, CalmFacts
<1>2. /\ RemovalTyped /\ R!RemovalAssumption /\ removalPc # "end" /\ ~Working'
      /\ None \notin Dirs /\ None \notin Names /\ Above \in Dirs /\ opened \subseteq Dirs \ {Above}
      /\ DOMAIN stack = 1 .. Len(stack) /\ Len(stack) \in Nat
      /\ \A k \in DOMAIN stack : stack[k].dir \in Dirs /\ stack[k].dir \in opened
      /\ \A k, j \in DOMAIN stack : stack[j].dir = stack[k].dir => j = k
  BY CalmFacts DEF Calm, Working, UndisturbedInv, ChainInv
<1>3. /\ Ahead(p, q) /\ p \in opened \cup {Above} /\ (p = Above => q = Top /\ stack = <<>>)
      /\ stack # <<>> => p = stack[Len(stack)].dir /\ Len(stack) \in DOMAIN stack
      /\ content[p][q] = ino /\ ino \notin opened \cup {Above}
      /\ stack = <<>> => p = Above
  BY <1>1, HandAhead DEF R!At
<1>4. stack # <<>> => q \in stack[Len(stack)].seen /\ ~Waits(stack[Len(stack)], q)
  BY <1>1 DEF Calm, UndisturbedInv, HandInv
<1>0. PICK last \in Nat : last = Len(stack) + 1
  BY <1>2
<1>5. /\ stack' \in Seq(Level) /\ Len(stack') = last /\ stack' # <<>>
      /\ \A k \in DOMAIN stack : k \in DOMAIN stack' /\ stack'[k] = stack[k]
      /\ DOMAIN stack' = DOMAIN stack \cup {last} /\ last \notin DOMAIN stack
      /\ stack'[last].dir = ino /\ stack'[last].name = q /\ stack'[last].pending = {} /\ stack'[last].seen = {}
      /\ ~stack'[last].listed /\ ~stack'[last].failed
  BY <1>0, <1>1, <1>2, PushLevel
<1>6. \A k \in DOMAIN stack, n \in Names : AheadIn(k, n)' <=> AheadIn(k, n)
  <2> SUFFICES ASSUME NEW k \in DOMAIN stack, NEW n \in Names PROVE AheadIn(k, n)' <=> AheadIn(k, n)
    OBVIOUS
  <2>1. stack'[k] = stack[k]
    BY <1>5
  <2>2. CASE k = Len(stack)
    <3>0. k + 1 = last /\ k < last /\ k # last
      <4>1. k \in Nat /\ last = k + 1
        BY <1>0, <1>2, <2>2
      <4> QED
        BY <4>1
    <3>1. AheadIn(k, n)' <=> n \notin stack[k].seen \/ Waits(stack[k], n) \/ n = q
      BY <1>5, <2>1, <3>0 DEF AheadIn
    <3>2. AheadIn(k, n) <=> n \notin stack[k].seen \/ Waits(stack[k], n) \/ n = q
      BY <1>1, <1>2, <2>2 DEF AheadIn
    <3> QED
      BY <3>1, <3>2
  <2>3. CASE k # Len(stack)
    <3>1. k + 1 \in DOMAIN stack /\ k < Len(stack) /\ k < last /\ k # last
      BY <1>0, <1>2, <2>3
    <3>2. stack'[k + 1].name = stack[k + 1].name
      BY <1>5, <3>1
    <3> QED
      BY <1>5, <2>1, <2>3, <3>1, <3>2 DEF AheadIn
  <2> QED
    BY <2>2, <2>3
<1>7. \A n \in Names : AheadIn(last, n)'
  BY <1>5 DEF AheadIn
<1>8. \A d \in Dirs, n \in Names : Ahead(d, n)' <=> Ahead(d, n) \/ d = ino
  <2> SUFFICES ASSUME NEW d \in Dirs, NEW n \in Names PROVE Ahead(d, n)' <=> Ahead(d, n) \/ d = ino
    OBVIOUS
  <2>1. Ahead(d, n)' <=> d = Above \/ \E k \in DOMAIN stack' : stack'[k].dir = d /\ AheadIn(k, n)'
    BY <1>2 DEF Ahead
  <2>2. Ahead(d, n) <=> d = Above \/ \E k \in DOMAIN stack : stack[k].dir = d /\ AheadIn(k, n)
    BY <1>2 DEF Ahead
  <2> QED
    BY <1>5, <1>6, <1>7, <2>1, <2>2
<1>9. SameTree' /\ GoneInv'
  <2>1. \A i \in opened' \ opened : \E d \in opened \cup {Above}, n \in Names : content[d][n] = i /\ i \in Dirs
    BY <1>3
  <2> QED
    BY <2>1, EntriesKeep
<1>10. DoneInv'
  <2>1. \A d \in opened' \ opened, n \in Names : Ahead(d, n)'
    BY <1>8
  <2>2. \A d \in opened \cup {Above}, n \in Names : Ahead(d, n) => Ahead(d, n)'
    BY <1>2, <1>8
  <2> QED
    BY <2>1, <2>2, DoneEntriesKeep
<1>11. ReportInv'
  <2>1. \A d \in opened \cup {Above}, n \in Names : Ahead(d, n)' => Ahead(d, n)
    BY <1>2, <1>3, <1>8
  <2> QED
    BY <2>1, ReportsKeep
<1>12. ChainInv'
  <2> SUFFICES ASSUME NEW k \in DOMAIN stack'
               PROVE  /\ stack'[k].dir \in opened' /\ content'[Parent(k)'][stack'[k].name] = stack'[k].dir
                      /\ \A j \in DOMAIN stack' : stack'[j].dir = stack'[k].dir => j = k
                      /\ k > 1 => stack'[k].name \in stack'[k - 1].seen /\ ~Waits(stack'[k - 1], stack'[k].name)
    BY DEF ChainInv
  <2>1. \A j, i \in DOMAIN stack' : stack'[j].dir = stack'[i].dir => j = i
    BY <1>2, <1>3, <1>5
  <2>2. CASE k \in DOMAIN stack
    <3>1. /\ stack[k].dir \in opened /\ content[Parent(k)][stack[k].name] = stack[k].dir
          /\ k > 1 => stack[k].name \in stack[k - 1].seen /\ ~Waits(stack[k - 1], stack[k].name)
      BY <2>2 DEF Calm, UndisturbedInv, ChainInv
    <3>2. (k > 1 => k # 1) /\ (k # 1 => k - 1 \in DOMAIN stack)
      BY <1>2, <2>2
    <3>3. Parent(k)' = Parent(k)
      BY <1>5, <3>2 DEF Parent
    <3> QED
      BY <1>5, <2>1, <2>2, <3>1, <3>2, <3>3
  <2>3. CASE k = last
    <3>1. CASE stack = <<>>
      <4>1. last = 1 /\ Parent(k)' = Above
        BY <1>0, <2>3, <3>1 DEF Parent
      <4> QED
        BY <1>3, <1>5, <2>1, <2>3, <3>1, <4>1
    <3>2. CASE stack # <<>>
      <4>1. last # 1 /\ last - 1 = Len(stack) /\ Len(stack) \in DOMAIN stack
        BY <1>0, <1>2, <1>3, <3>2
      <4>2. Parent(k)' = p
        BY <1>3, <1>5, <2>3, <3>2, <4>1 DEF Parent
      <4> QED
        BY <1>3, <1>4, <1>5, <2>1, <2>3, <3>2, <4>1, <4>2
    <3> QED
      BY <3>1, <3>2
  <2> QED
    BY <1>5, <2>2, <2>3
<1>13. ListInv'
  <2> SUFFICES ASSUME NEW k \in DOMAIN stack'
               PROVE  /\ \A e \in stack'[k].pending :
                           /\ e.name \in stack'[k].seen /\ content'[stack'[k].dir][e.name] # None
                           /\ e.file <=> content'[stack'[k].dir][e.name] \notin Dirs
                           /\ \A f \in stack'[k].pending : e.name = f.name => e = f
                      /\ stack'[k].listed =>
                           \/ <<stack'[k].dir, None>> \in reports'
                           \/ \A n \in Names : content'[stack'[k].dir][n] # None => n \in stack'[k].seen
    BY DEF ListInv
  <2>1. CASE k \in DOMAIN stack
    BY <1>5, <2>1 DEF Calm, UndisturbedInv, ListInv
  <2>2. CASE k = last
    BY <1>5, <2>2
  <2> QED
    BY <1>5, <2>1, <2>2
<1>14. HandInv'
  BY <1>2 DEF HandInv
<1>15. FailedInv'
  <2> SUFFICES ASSUME NEW k \in DOMAIN stack'
               PROVE  /\ ~stack'[k].failed =>
                           /\ \A n \in Names : content'[stack'[k].dir][n] # None => AheadIn(k, n)'
                           /\ \A r \in reports' : r[1] # stack'[k].dir
                      /\ stack'[k].failed =>
                           \/ <<stack'[k].dir, None>> \in reports'
                           \/ \E n \in Names : content'[stack'[k].dir][n] # None /\ ~AheadIn(k, n)'
    BY DEF FailedInv
  <2>1. CASE k \in DOMAIN stack
    <3>1. stack'[k] = stack[k] /\ \A n \in Names : AheadIn(k, n)' <=> AheadIn(k, n)
      BY <1>5, <1>6, <2>1
    <3> QED
      BY <2>1, <3>1 DEF Calm, UndisturbedInv, FailedInv
  <2>2. CASE k = last
    <3>1. \A r \in reports : r[1] # ino
      BY <1>3 DEF Calm, UndisturbedInv, ReportInv
    <3> QED
      BY <1>5, <1>7, <2>2, <3>1
  <2> QED
    BY <1>5, <2>1, <2>2
<1>16. OnceInv'
  <2> SUFFICES ASSUME NEW i \in opened', NEW d \in Dirs, NEW n \in Names, content[d][n] = i, Ahead(d, n)'
               PROVE  \E k \in DOMAIN stack' : stack'[k].dir = i
    BY DEF OnceInv
  <2>1. CASE i = ino
    BY <1>5, <2>1
  <2>2. CASE i \in opened /\ Ahead(d, n)
    <3>1. \E k \in DOMAIN stack : stack[k].dir = i
      BY <2>2 DEF Calm, UndisturbedInv, OnceInv
    <3> QED
      BY <1>5, <3>1
  <2>3. CASE i \in opened /\ d = ino
    <3>1. PICK e \in opened \cup {Above}, m \in Names : setting.start[e][m] = i
      BY <2>3 DEF Calm, UndisturbedInv, SameTree
    <3>2. setting.start[d][n] = i /\ setting \in Settings /\ i \in Dirs
      <4>1. setting \in Settings /\ i \in Dirs /\ i # None
        BY <1>2, <2>3, CalmFacts
      <4> QED
        BY <4>1 DEF Calm, UndisturbedInv, SameTree
    <3>3. d = e
      <4>1. e \in Dirs
        BY <1>2
      <4> QED
        BY <1>2, <3>1, <3>2, <4>1 DEF R!RemovalAssumption
    <3> QED
      BY <1>3, <2>3, <3>3
  <2> QED
    BY <1>8, <2>1, <2>2, <2>3
<1> QED
  BY <1>9, <1>10, <1>11, <1>12, <1>13, <1>14, <1>15, <1>16 DEF UndisturbedInv

LEMMA OpenCalm ==
  ASSUME Calm, R!Open
  PROVE  UndisturbedInv'
<1> DEFINE i == content[R!At][name]
<1>1. Working /\ removalPc = "open" /\ UNCHANGED <<setting, over, been>> /\ RemovalTyped /\ R!RemovalAssumption
  BY CalmFacts DEF R!Open, R!Files, Working, Calm
<1>2. i = ino /\ i # None /\ R!Node(R!At, name) = i /\ ~R!Mounted(R!At, name)
  BY <1>1, HandNode DEF Calm, UndisturbedInv, HandInv
<1>3. i \in Dirs
  BY <1>1, <1>2 DEF RemovalTyped
<1>4. CASE i \notin modes'
  <2>1. /\ stack' = Append(stack, [dir |-> ino, name |-> name, pending |-> {}, seen |-> {},
                                  listed |-> FALSE, failed |-> FALSE])
        /\ removalPc' = "walk" /\ opened' = opened \cup {ino} /\ UNCHANGED <<content, reports>>
    BY <1>2, <1>3, <1>4 DEF R!Open, R!IsDir, R!Same
  <2> QED
    BY <1>1, <1>2, <1>3, <2>1, PushCalm
<1>5. CASE i \in modes'
  <2>1. IF setting.walk = "real" /\ ~R!Mounted(R!At, name) /\ R!Entries(i) = {} /\ ~R!Pinned(R!At, name)
        THEN R!Done(TRUE) /\ R!Gone(R!At, name) /\ UNCHANGED opened
        ELSE R!Done(FALSE) /\ UNCHANGED <<content, taken, opened>>
    BY <1>2, <1>3, <1>5 DEF R!Open, R!IsDir, R!Same
  <2>2. setting.walk = "real" /\ i \in setting.locked
    <3>1. modes' = IF setting.walk = "purge" THEN modes \ {i} ELSE modes
      BY <1>2, <1>3 DEF R!Open, R!IsDir, R!Unlocked
    <3>2. setting.walk \in {"purge", "real"} /\ modes \subseteq setting.locked
      BY <1>1 DEF RemovalTyped, R!RemovalAssumption
    <3> QED
      BY <1>5, <3>1, <3>2
  <2>3. CASE R!Entries(i) = {} /\ ~R!Pinned(R!At, name)
    <3>1. R!Done(TRUE) /\ R!Gone(R!At, name) /\ UNCHANGED opened
      BY <1>2, <2>1, <2>2, <2>3
    <3>2. \A m \in Names : content[i][m] = None
      BY <2>3 DEF R!Entries, R!Held
    <3> QED
      BY <1>1, <3>1, <3>2, FinishHand
  <2>4. CASE ~(R!Entries(i) = {} /\ ~R!Pinned(R!At, name))
    <3>1. R!Done(FALSE) /\ UNCHANGED <<content, opened>>
      BY <2>1, <2>4
    <3>2. R!Blocked(R!At, name)
      BY <2>2, <2>4 DEF R!Blocked, R!Held
    <3> QED
      BY <1>1, <3>1, <3>2, FinishHand
  <2> QED
    BY <2>3, <2>4
<1> QED
  BY <1>4, <1>5
LEMMA LeaveCalm ==
  ASSUME Calm, R!Leave
  PROVE  UndisturbedInv'
<1>1. PICK p \in Dirs, ok \in BOOLEAN :
    /\ p = Parent(Len(stack)) /\ R!T.name \in Names
    /\ R!T.pending = {} /\ R!T.listed /\ removalPc = "walk"
    /\ ok <=> ~R!T.failed /\ R!Settled(p, R!T.name)
    /\ UNCHANGED <<setting, over, removalChanges, been, modes, hint, ino, name, opened>>
    /\ reports' = IF ok \/ R!T.failed THEN reports ELSE reports \cup {<<p, R!T.name>>}
    /\ IF ok /\ R!Removable(p, R!T.name) THEN R!Gone(p, R!T.name) ELSE UNCHANGED <<content, taken>>
    /\ stack' \in Seq(Level) /\ Len(stack') = Len(stack) - 1 /\ DOMAIN stack' = 1 .. Len(stack) - 1
    /\ \A k \in DOMAIN stack' :
         /\ stack'[k].dir = stack[k].dir /\ stack'[k].name = stack[k].name
         /\ stack'[k].pending = stack[k].pending /\ stack'[k].seen = stack[k].seen
         /\ stack'[k].listed = stack[k].listed
         /\ stack'[k].failed <=> stack[k].failed \/ (k = Len(stack) - 1 /\ ~ok)
    /\ removalPc' = IF Len(stack) = 1 THEN "end" ELSE "walk"
    /\ result' = IF Len(stack) = 1 THEN (IF ok THEN "ok" ELSE "err") ELSE result
  BY LeaveStep DEF Calm
<1>2. /\ RemovalTyped /\ R!RemovalAssumption /\ removalPc = "walk" /\ stack # <<>> /\ stack \in Seq(Level)
      /\ ~Working /\ ~Working' /\ removalPc # "end"
      /\ None \notin Dirs /\ None \notin Names /\ Above \in Dirs /\ Top \in Names /\ opened \subseteq Dirs \ {Above}
      /\ DOMAIN stack = 1 .. Len(stack)
      /\ \A k \in DOMAIN stack : stack[k].dir \in Dirs /\ stack[k].dir \in opened
      /\ \A k, j \in DOMAIN stack : stack[j].dir = stack[k].dir => j = k
  <2>1. /\ RemovalTyped /\ R!RemovalAssumption /\ removalPc = "walk" /\ stack # <<>> /\ stack \in Seq(Level)
        /\ ~Working /\ ~Working' /\ removalPc # "end"
    BY <1>1, CalmFacts DEF Calm, WalkInv, Working
  <2> QED
    BY <2>1, CalmFacts DEF Calm, UndisturbedInv, ChainInv
<1>3. PICK top \in Nat \ {0}, f \in Dirs, q \in Names : top = Len(stack) /\ f = R!T.dir /\ q = R!T.name
  BY <1>1, <1>2, TopLevel DEF Level
<1>4. /\ top \in DOMAIN stack /\ R!T = stack[top] /\ stack[top].dir = f /\ stack[top].name = q
      /\ f \in opened /\ content[p][q] = f /\ f # Above
      /\ stack[top].pending = {} /\ stack[top].listed
      /\ p \in opened \cup {Above} /\ (p = Above <=> top = 1) /\ (p = Above => q = Top)
      /\ top # 1 => top - 1 \in DOMAIN stack /\ p = stack[top - 1].dir /\ q \in stack[top - 1].seen
                    /\ ~Waits(stack[top - 1], q)
  <2>1. top \in DOMAIN stack /\ R!T = stack[top]
    BY <1>2, <1>3, TopLevel
  <2>2. content[p][q] = f /\ f \in opened /\ f # Above
    BY <1>1, <1>2, <1>3, <2>1 DEF Calm, UndisturbedInv, ChainInv
  <2>3. CASE top = 1
    <3>1. p = Above
      BY <1>1, <1>3, <2>3 DEF Parent
    <3>2. q = Top
      BY <1>3, <2>1, <2>3, CalmFacts DEF WalkInv
    <3> QED
      BY <1>1, <1>3, <2>1, <2>2, <2>3, <3>1, <3>2
  <2>4. CASE top # 1
    <3>1. top - 1 \in DOMAIN stack /\ top > 1
      BY <1>2, <1>3, <2>4
    <3>2. p = stack[top - 1].dir
      BY <1>1, <1>3, <2>4 DEF Parent
    <3>3. q \in stack[top - 1].seen /\ ~Waits(stack[top - 1], q)
      BY <1>3, <2>1, <3>1 DEF Calm, UndisturbedInv, ChainInv
    <3> QED
      BY <1>1, <1>2, <1>3, <2>1, <2>2, <2>4, <3>1, <3>2, <3>3
  <2> QED
    BY <2>3, <2>4
\* What nothing stayed in is empty.
<1>5. ~stack[top].failed => \A m \in Names : content[f][m] = None
  <2> SUFFICES ASSUME ~stack[top].failed, NEW m \in Names, content[f][m] # None PROVE FALSE
    OBVIOUS
  <2>1. AheadIn(top, m) /\ \A r \in reports : r[1] # f
    BY <1>4, ZenonT(60) DEF Calm, UndisturbedInv, FailedInv
  <2>2. m \notin stack[top].seen
    BY <1>2, <1>3, <1>4, <2>1 DEF AheadIn, Waits
  <2>3. <<f, None>> \in reports
    BY <1>4, <2>2 DEF Calm, UndisturbedInv, ListInv
  <2>4. <<f, None>>[1] = f
    OBVIOUS
  <2> QED
    BY <2>1, <2>3, <2>4
<1>6. /\ ok <=> ~stack[top].failed /\ ~R!Pinned(p, q)
      /\ ok => R!Removable(p, q)
  <2>1. over[f] = None
    BY DEF Calm, UndisturbedInv, SameTree
  <2>2. R!Removable(p, q) <=> R!Entries(f) = {} /\ ~R!Pinned(p, q)
    BY <1>4, <2>1 DEF R!Removable, R!Held, R!IsDir
  <2>3. R!Settled(p, q) <=> R!Removable(p, q)
    BY <1>2, <1>4 DEF R!Settled, R!Held
  <2>4. ~stack[top].failed => R!Entries(f) = {}
    BY <1>5 DEF R!Entries, R!Held
  <2> QED
    BY <1>1, <1>3, <1>4, <2>2, <2>3, <2>4
<1>7. \A e \in Dirs, m \in Names : content'[e][m] = IF ok /\ e = p /\ m = q THEN None ELSE content[e][m]
  <2>1. CASE ok
    <3>1. R!Gone(p, q)
      BY <1>1, <1>3, <1>6, <2>1
    <3> QED
      BY <1>2, <2>1, <3>1, GoneStep
  <2>2. CASE ~ok
    BY <1>1, <2>2
  <2> QED
    BY <2>1, <2>2
<1>8. /\ reports' = (IF ok \/ stack[top].failed THEN reports ELSE reports \cup {<<p, q>>})
      /\ stack' \in Seq(Level) /\ Len(stack') = top - 1 /\ DOMAIN stack' = 1 .. top - 1
      /\ DOMAIN stack' = DOMAIN stack \ {top}
      /\ removalPc' = (IF top = 1 THEN "end" ELSE "walk")
      /\ \A k \in DOMAIN stack' :
           /\ stack'[k].dir = stack[k].dir /\ stack'[k].name = stack[k].name
           /\ stack'[k].pending = stack[k].pending /\ stack'[k].seen = stack[k].seen
           /\ stack'[k].listed = stack[k].listed
           /\ stack'[k].failed <=> stack[k].failed \/ (k = top - 1 /\ ~ok)
      /\ UNCHANGED <<setting, over, been, opened>>
  <2>1. 1 .. top - 1 = (1 .. top) \ {top}
    BY <1>3
  <2> QED
    BY <1>1, <1>2, <1>3, <1>4, <2>1
<1>9. \A k \in DOMAIN stack', n \in Names : AheadIn(k, n)' <=> AheadIn(k, n) /\ ~(k = top - 1 /\ n = q)
  <2> SUFFICES ASSUME NEW k \in DOMAIN stack', NEW n \in Names
               PROVE  AheadIn(k, n)' <=> AheadIn(k, n) /\ ~(k = top - 1 /\ n = q)
    OBVIOUS
  <2>1. stack'[k].seen = stack[k].seen /\ (Waits(stack[k], n)' <=> Waits(stack[k], n))
    BY <1>8 DEF Waits
  <2>2. CASE k = top - 1
    <3>1. top # 1 /\ k < top /\ k # top /\ k + 1 = top /\ ~(k < top - 1)
      BY <1>3, <1>8, <2>2
    <3>2. AheadIn(k, n)' <=> n \notin stack[k].seen \/ Waits(stack[k], n)
      BY <1>2, <1>8, <2>1, <3>1 DEF AheadIn
    <3>3. AheadIn(k, n) <=> n \notin stack[k].seen \/ Waits(stack[k], n) \/ n = q
      BY <1>2, <1>3, <1>4, <3>1 DEF AheadIn
    <3> QED
      BY <1>4, <2>2, <3>1, <3>2, <3>3
  <2>3. CASE k # top - 1
    <3>1. k + 1 \in DOMAIN stack' /\ k < top - 1 /\ k < top
      BY <1>3, <1>8, <2>3
    <3>2. stack'[k + 1].name = stack[k + 1].name
      BY <1>8, <3>1
    <3> QED
      BY <1>2, <1>3, <1>8, <2>1, <2>3, <3>1, <3>2 DEF AheadIn
  <2> QED
    BY <2>2, <2>3
<1>10. /\ \A d \in Dirs, n \in Names : Ahead(d, n)' => Ahead(d, n) /\ d # f /\ ~(d = p /\ n = q)
       /\ \A d \in Dirs, n \in Names : Ahead(d, n) /\ ~Ahead(d, n)' /\ (d = Above => n = Top) =>
            (d = p /\ n = q) \/ (d = f /\ AheadIn(top, n))
  <2>1. ASSUME NEW d \in Dirs, NEW n \in Names, Ahead(d, n)' PROVE Ahead(d, n) /\ d # f /\ ~(d = p /\ n = q)
    <3>1. CASE d = Above /\ removalPc' # "end"
      BY <1>2, <1>4, <1>8, <3>1 DEF Ahead
    <3>2. ASSUME NEW k \in DOMAIN stack', stack'[k].dir = d, AheadIn(k, n)' PROVE Ahead(d, n) /\ d # f /\ ~(d = p /\ n = q)
      <4>1. k \in DOMAIN stack /\ k # top /\ stack[k].dir = d
        BY <1>8, <3>2
      <4>2. AheadIn(k, n) /\ ~(k = top - 1 /\ n = q)
        BY <1>9, <3>2
      <4>3. d # f
        BY <1>2, <1>4, <4>1
      <4>4. ~(d = p /\ n = q)
        <5>1. CASE top = 1
          BY <1>2, <1>4, <4>1, <5>1
        <5>2. CASE top # 1
          BY <1>2, <1>4, <4>1, <4>2, <5>2
        <5> QED
          BY <5>1, <5>2
      <4> QED
        BY <4>1, <4>2, <4>3, <4>4 DEF Ahead
    <3> QED
      BY <2>1, <3>1, <3>2 DEF Ahead
  <2>2. ASSUME NEW d \in Dirs, NEW n \in Names, Ahead(d, n), ~Ahead(d, n)', d = Above => n = Top
        PROVE  (d = p /\ n = q) \/ (d = f /\ AheadIn(top, n))
    <3>1. CASE d = Above
      <4>1. removalPc' = "end"
        BY <2>2, <3>1 DEF Ahead
      <4>2. top = 1
        BY <1>8, <4>1
      <4> QED
        BY <1>4, <2>2, <3>1, <4>2
    <3>2. CASE d # Above
      <4>1. PICK k \in DOMAIN stack : stack[k].dir = d /\ AheadIn(k, n)
        BY <2>2, <3>2 DEF Ahead
      <4>2. CASE k = top
        BY <1>4, <4>1, <4>2
      <4>3. CASE k # top
        <5>1. k \in DOMAIN stack' /\ stack'[k].dir = d
          BY <1>8, <4>1, <4>3
        <5>2. ~AheadIn(k, n)'
          BY <2>2, <5>1 DEF Ahead
        <5>3. k = top - 1 /\ n = q
          BY <1>9, <4>1, <5>1, <5>2
        <5>4. top # 1
          BY <1>8, <5>1, <5>3
        <5> QED
          BY <1>4, <4>1, <5>3, <5>4
      <4> QED
        BY <4>2, <4>3
    <3> QED
      BY <3>1, <3>2
  <2> QED
    BY <2>1, <2>2
<1>11. \A d \in Dirs, n \in Names : content[d][n] = p => Ahead(d, n)
  <2>1. p = Above \/ \E k \in DOMAIN stack : stack[k].dir = p
    BY <1>4
  <2> QED
    BY <1>2, <2>1, HolderAhead
<1>12. Ahead(p, q)
  BY <1>2, <1>4, HolderAhead
<1>13. /\ \A d \in Dirs, n \in Names : content'[d][n] \in {content[d][n], None}
       /\ \A e \in Dirs, m \in Names :
            content'[e][m] # content[e][m] =>
              Ahead(e, m) /\ \A d \in Dirs, n \in Names : content[d][n] = e => Ahead(d, n)
  BY <1>7, <1>11, <1>12
<1>14. SameTree' /\ GoneInv'
  <2>1. ASSUME NEW d \in Dirs, NEW n \in Names, content'[d][n] # content[d][n]
        PROVE  d \in opened \cup {Above} /\ content[d][n] \in opened
    BY <1>4, <1>7, <2>1
  <2> QED
    BY <1>8, <1>13, <2>1, EntriesKeep
<1>15. reports \subseteq reports'
  BY <1>8
<1>16. DoneInv'
  <2>1. ASSUME NEW d \in opened \cup {Above}, NEW n \in Names,
               Ahead(d, n), ~Ahead(d, n)', content'[d][n] # None, d = Above => n = Top
        PROVE  Stays(d, n)'
    <3>1. d \in Dirs
      BY <1>2
    <3>2. CASE d = p /\ n = q
      <4>1. ~ok /\ content'[p][q] = f
        BY <1>4, <1>7, <2>1, <3>2
      <4>2. CASE stack[top].failed
        <5>1. <<f, None>> \in reports \/ \E m \in Names : content[f][m] # None
          BY <1>4, <4>2 DEF Calm, UndisturbedInv, FailedInv
        <5>2. <<f, None>> \in reports' \/ \E m \in Names : content'[f][m] # None
          BY <1>7, <1>15, <4>1, <5>1
        <5> QED
          BY <1>4, <1>8, <3>2, <4>1, <5>2 DEF Stays
      <4>3. CASE ~stack[top].failed
        <5>1. <<d, n>> \in reports'
          BY <1>8, <3>2, <4>1, <4>3
        <5> QED
          BY <5>1 DEF Stays
      <4> QED
        BY <4>2, <4>3
    <3>3. CASE d = f /\ AheadIn(top, n)
      <4>1. n \notin stack[top].seen
        BY <1>2, <1>3, <1>4, <3>3 DEF AheadIn, Waits
      <4>2. content[f][n] # None
        BY <1>7, <2>1, <3>3
      <4>3. <<f, None>> \in reports
        BY <1>4, <4>1, <4>2 DEF Calm, UndisturbedInv, ListInv
      <4>4. <<d, None>> \in reports'
        BY <1>15, <3>3, <4>3
      <4> QED
        BY <4>4 DEF Stays
    <3> QED
      BY <1>10, <2>1, <3>1, <3>2, <3>3
  <2> QED
    BY <1>8, <1>13, <1>15, <2>1, DoneEntriesKeep
<1>17. ReportInv'
  <2>1. ASSUME NEW r \in reports' \ reports
        PROVE  /\ r[1] \in opened' \cup {Above} /\ r[2] \in Names \cup {None} /\ (r[1] = Above => r[2] = Top)
               /\ \A d \in Dirs, n \in Names : content[d][n] = r[1] => Ahead(d, n)
               /\ r[2] # None =>
                    /\ content'[r[1]][r[2]] # None /\ ~Ahead(r[1], r[2])' /\ R!Blocked(r[1], r[2])'
                    /\ \A s \in reports' : s[1] # content'[r[1]][r[2]]
    <3>1. r = <<p, q>> /\ ~ok /\ ~stack[top].failed
      BY <1>8, <2>1
    <3>2. r[1] = p /\ r[2] = q
      BY <3>1
    <3>3. content'[p][q] = f /\ UNCHANGED content
      BY <1>1, <1>4, <1>7, <3>1
    <3>4. R!Blocked(p, q)'
      <4>1. R!Pinned(p, q)
        BY <1>6, <3>1
      <4> QED
        BY <1>8, <3>3, <4>1 DEF R!Blocked, R!Pinned, R!Held
    <3>5. \A s \in reports' : s[1] # f
      <4>1. \A s \in reports : s[1] # f
        <5>1. top \in DOMAIN stack /\ stack[top].dir = f /\ ~stack[top].failed /\ FailedInv
          BY <1>4, <3>1 DEF Calm, UndisturbedInv
        <5> QED
          BY <5>1 DEF FailedInv
      <4>2. p # f
        <5>1. CASE top = 1
          BY <1>4, <5>1
        <5>2. CASE top # 1
          <6>1. top - 1 # top
            BY <1>3
          <6> QED
            BY <1>2, <1>4, <5>2, <6>1
        <5> QED
          BY <5>1, <5>2
      <4>3. <<p, q>>[1] = p
        OBVIOUS
      <4> QED
        BY <1>8, <4>1, <4>2, <4>3
    <3>6. R!Blocked(r[1], r[2])' /\ ~Ahead(r[1], r[2])'
      BY <1>10, <3>1, <3>4
    <3>7. content'[r[1]][r[2]] = f /\ f # None
      BY <1>2, <3>2, <3>3
    <3> QED
      BY <1>4, <1>8, <1>11, <3>2, <3>5, <3>6, <3>7
  <2>2. \A d \in opened \cup {Above}, n \in Names : Ahead(d, n)' => Ahead(d, n)
    BY <1>2, <1>10
  <2> QED
    BY <1>8, <1>13, <1>15, <2>1, <2>2, ReportsKeep
<1>18. ChainInv'
  <2> SUFFICES ASSUME NEW k \in DOMAIN stack'
               PROVE  /\ stack'[k].dir \in opened' /\ content'[Parent(k)'][stack'[k].name] = stack'[k].dir
                      /\ \A j \in DOMAIN stack' : stack'[j].dir = stack'[k].dir => j = k
                      /\ k > 1 => stack'[k].name \in stack'[k - 1].seen /\ ~Waits(stack'[k - 1], stack'[k].name)
    BY DEF ChainInv
  <2>1. k \in DOMAIN stack /\ k # top /\ k \in 1 .. top - 1
    BY <1>8
  <2>2. /\ stack[k].dir \in opened /\ content[Parent(k)][stack[k].name] = stack[k].dir
        /\ k > 1 => stack[k].name \in stack[k - 1].seen /\ ~Waits(stack[k - 1], stack[k].name)
        /\ Parent(k) \in Dirs /\ stack[k].name \in Names
    BY <2>1, CalmFacts DEF Calm, UndisturbedInv, ChainInv
  <2>3. (k > 1 => k # 1) /\ (k # 1 => k - 1 \in DOMAIN stack')
    BY <1>3, <1>8, <2>1
  <2>4. Parent(k)' = Parent(k)
    BY <1>8, <2>3 DEF Parent
  <2>5. content'[Parent(k)][stack[k].name] = stack[k].dir
    <3>1. stack[k].dir # f
      BY <1>2, <1>4, <2>1
    <3> QED
      BY <1>4, <1>7, <2>2, <3>1
  <2>6. \A j \in DOMAIN stack' : stack'[j].dir = stack'[k].dir => j = k
    BY <1>2, <1>8, <2>1
  <2>7. k > 1 => stack'[k].name \in stack'[k - 1].seen /\ ~Waits(stack'[k - 1], stack'[k].name)
    BY <1>8, <2>2, <2>3 DEF Waits
  <2> QED
    BY <1>8, <2>2, <2>4, <2>5, <2>6, <2>7
<1>19. ListInv'
  <2> SUFFICES ASSUME NEW k \in DOMAIN stack'
               PROVE  /\ \A e \in stack'[k].pending :
                           /\ e.name \in stack'[k].seen /\ content'[stack'[k].dir][e.name] # None
                           /\ e.file <=> content'[stack'[k].dir][e.name] \notin Dirs
                           /\ \A g \in stack'[k].pending : e.name = g.name => e = g
                      /\ stack'[k].listed =>
                           \/ <<stack'[k].dir, None>> \in reports'
                           \/ \A n \in Names : content'[stack'[k].dir][n] # None => n \in stack'[k].seen
    BY DEF ListInv
  <2>0. k \in DOMAIN stack /\ k # top
    BY <1>8
  <2>1. /\ \A e \in stack[k].pending :
             /\ e.name \in stack[k].seen /\ content[stack[k].dir][e.name] # None
             /\ e.file <=> content[stack[k].dir][e.name] \notin Dirs
             /\ \A g \in stack[k].pending : e.name = g.name => e = g
        /\ stack[k].listed =>
             \/ <<stack[k].dir, None>> \in reports
             \/ \A n \in Names : content[stack[k].dir][n] # None => n \in stack[k].seen
    BY <2>0 DEF Calm, UndisturbedInv, ListInv
  <2>2. ASSUME NEW e \in stack[k].pending
        PROVE  content'[stack[k].dir][e.name] = content[stack[k].dir][e.name]
    <3>1. e.name \in Names
      BY <2>0, CalmFacts DEF Level
    <3>2. ~(stack[k].dir = p /\ e.name = q)
      <4> SUFFICES ASSUME stack[k].dir = p, e.name = q PROVE FALSE
        OBVIOUS
      <4>1. top # 1
        BY <1>2, <1>4, <2>0
      <4>2. k = top - 1
        BY <1>2, <1>4, <2>0, <4>1
      <4>3. Waits(stack[k], q)
        BY DEF Waits
      <4> QED
        BY <1>4, <4>1, <4>2, <4>3
    <3> QED
      BY <1>2, <1>7, <2>0, <3>1, <3>2
  <2>3. \A n \in Names : content'[stack[k].dir][n] # None => content[stack[k].dir][n] # None
    BY <1>2, <1>7, <2>0
  <2>4. /\ stack'[k].dir = stack[k].dir /\ stack'[k].pending = stack[k].pending
        /\ stack'[k].seen = stack[k].seen /\ stack'[k].listed = stack[k].listed
    BY <1>8
  <2>5. \A e \in stack'[k].pending :
          /\ e.name \in stack'[k].seen /\ content'[stack'[k].dir][e.name] # None
          /\ e.file <=> content'[stack'[k].dir][e.name] \notin Dirs
          /\ \A g \in stack'[k].pending : e.name = g.name => e = g
    BY <2>1, <2>2, <2>4
  <2>6. stack'[k].listed =>
          \/ <<stack'[k].dir, None>> \in reports'
          \/ \A n \in Names : content'[stack'[k].dir][n] # None => n \in stack'[k].seen
    BY <1>15, <2>1, <2>3, <2>4
  <2> QED
    BY <2>5, <2>6
<1>20. HandInv'
  BY <1>2 DEF HandInv
<1>21. FailedInv'
  <2> SUFFICES ASSUME NEW k \in DOMAIN stack'
               PROVE  /\ ~stack'[k].failed =>
                           /\ \A n \in Names : content'[stack'[k].dir][n] # None => AheadIn(k, n)'
                           /\ \A r \in reports' : r[1] # stack'[k].dir
                      /\ stack'[k].failed =>
                           \/ <<stack'[k].dir, None>> \in reports'
                           \/ \E n \in Names : content'[stack'[k].dir][n] # None /\ ~AheadIn(k, n)'
    BY DEF FailedInv
  <2>0. k \in DOMAIN stack /\ k # top
    BY <1>8
  <2>1. /\ ~stack[k].failed => /\ \A n \in Names : content[stack[k].dir][n] # None => AheadIn(k, n)
                               /\ \A r \in reports : r[1] # stack[k].dir
        /\ stack[k].failed => \/ <<stack[k].dir, None>> \in reports
                              \/ \E n \in Names : content[stack[k].dir][n] # None /\ ~AheadIn(k, n)
    BY <2>0 DEF Calm, UndisturbedInv, FailedInv
  <2>2. stack[k].dir = p => top # 1 /\ k = top - 1
    BY <1>2, <1>4, <2>0
  <2>3. k = top - 1 => top # 1 /\ stack[k].dir = p
    BY <1>4, <1>8
  <2>4. ASSUME ~stack'[k].failed
        PROVE  /\ \A n \in Names : content'[stack'[k].dir][n] # None => AheadIn(k, n)'
               /\ \A r \in reports' : r[1] # stack'[k].dir
    <3>1. ~stack[k].failed /\ ~(k = top - 1 /\ ~ok)
      BY <1>8, <2>4
    <3>2. ASSUME NEW n \in Names, content'[stack[k].dir][n] # None PROVE AheadIn(k, n)'
      <4>1. content[stack[k].dir][n] # None /\ AheadIn(k, n)
        BY <1>2, <1>7, <2>0, <2>1, <3>1, <3>2
      <4>2. ~(k = top - 1 /\ n = q)
        BY <1>7, <2>3, <3>1, <3>2
      <4> QED
        BY <1>9, <4>1, <4>2
    <3>3. \A r \in reports' : r[1] # stack[k].dir
      <4>1. CASE ok \/ stack[top].failed
        BY <1>8, <2>1, <3>1, <4>1
      <4>2. CASE ~ok /\ ~stack[top].failed
        <5>1. p # stack[k].dir
          BY <2>2, <3>1, <4>2
        <5>2. <<p, q>>[1] = p
          OBVIOUS
        <5> QED
          BY <1>8, <2>1, <3>1, <5>1, <5>2
      <4> QED
        BY <4>1, <4>2
    <3> QED
      BY <1>8, <3>2, <3>3
  <2>5. ASSUME stack'[k].failed
        PROVE  \/ <<stack'[k].dir, None>> \in reports'
               \/ \E n \in Names : content'[stack'[k].dir][n] # None /\ ~AheadIn(k, n)'
    <3>1. CASE k = top - 1 /\ ~ok
      <4>1. content'[stack'[k].dir][q] # None /\ ~AheadIn(k, q)'
        BY <1>2, <1>4, <1>7, <1>8, <1>9, <2>3, <3>1
      <4> QED
        BY <4>1
    <3>2. CASE stack[k].failed /\ ~(k = top - 1 /\ ~ok)
      <4>1. CASE <<stack[k].dir, None>> \in reports
        BY <1>8, <1>15, <4>1
      <4>2. ASSUME NEW n \in Names, content[stack[k].dir][n] # None, ~AheadIn(k, n)
            PROVE  content'[stack'[k].dir][n] # None /\ ~AheadIn(k, n)'
        <5>1. ~AheadIn(k, n)'
          BY <1>9, <4>2
        <5>2. ~(stack[k].dir = p /\ n = q)
          <6> SUFFICES ASSUME stack[k].dir = p, n = q PROVE FALSE
            OBVIOUS
          <6>1. k < Len(stack) /\ stack[k + 1].name = q
            BY <1>3, <1>4, <2>2
          <6>2. AheadIn(k, q)
            BY <6>1 DEF AheadIn
          <6> QED
            BY <4>2, <6>2
        <5> QED
          BY <1>2, <1>7, <1>8, <2>0, <4>2, <5>1, <5>2
      <4> QED
        BY <2>1, <3>2, <4>1, <4>2
    <3> QED
      BY <1>8, <2>5, <3>1, <3>2
  <2> QED
    BY <2>4, <2>5
<1>22. OnceInv'
  <2> SUFFICES ASSUME NEW i \in opened, NEW d \in Dirs, NEW n \in Names, content'[d][n] = i, Ahead(d, n)'
               PROVE  \E k \in DOMAIN stack' : stack'[k].dir = i
    BY <1>8 DEF OnceInv
  <2>1. content[d][n] = i /\ i \in Dirs
    BY <1>2, <1>7
  <2>2. Ahead(d, n) /\ ~(d = p /\ n = q)
    BY <1>10
  <2>3. PICK k \in DOMAIN stack : stack[k].dir = i
    BY <2>1, <2>2 DEF Calm, UndisturbedInv, OnceInv
  <2>4. k # top
    <3> SUFFICES ASSUME k = top PROVE FALSE
      OBVIOUS
    <3>1. content[d][n] = f
      BY <1>4, <2>1, <2>3
    <3> QED
      BY <1>4, <2>2, <3>1, OneHolder
  <2> QED
    BY <1>8, <2>3, <2>4
<1> QED
  BY <1>14, <1>16, <1>17, <1>18, <1>19, <1>20, <1>21, <1>22 DEF UndisturbedInv
-----------------------------------------------------------------------------
(* Why the whole tree was visited.                                           *)

\* The first step of a removal that nobody disturbed.
LEMMA CalmStarts ==
  ASSUME R!RemovalAssumption, R!Init
  PROVE  ThoroughInv
<1>1. /\ setting \in Settings /\ content = setting.start /\ over = [d \in Dirs |-> None]
      /\ stack = <<>> /\ removalPc = "stat" /\ name = Top /\ hint = FALSE
      /\ reports = {} /\ been = R!Below(setting.start) /\ opened = {}
  BY DEF R!Init
<1>2. None \notin Dirs /\ Above \in Dirs /\ Top \in Names /\ \A d \in Dirs : over[d] = None
  BY <1>1 DEF R!RemovalAssumption
<1>3. DOMAIN stack = {}
  BY <1>1
<1>4. CASE setting.start[Above][Top] = None
  <2>1. been = {}
    <3>1. R!Closed(content, {})
      BY DEF R!Closed
    <3>2. R!Below(content) \subseteq {}
      BY <1>1, <1>2, <1>4, <3>1, ReachBelow
    <3> QED
      BY <1>1, <3>2
  <2> QED
    BY <1>1, <1>2, <1>4, <2>1 DEF ThoroughInv, NothingInv
<1>5. CASE setting.start[Above][Top] # None
  <2>1. SameTree /\ GoneInv
    BY <1>1, <1>2 DEF SameTree, GoneInv
  <2>2. ChainInv /\ ListInv /\ FailedInv
    BY <1>3 DEF ChainInv, ListInv, FailedInv
  <2>3. HandInv
    <3>1. R!At = Above
      BY <1>1 DEF R!At
    <3> QED
      BY <1>1, <1>5, <3>1 DEF HandInv
  <2>4. DoneInv
    BY <1>1, <1>2 DEF DoneInv, Ahead
  <2>5. OnceInv /\ ReportInv
    BY <1>1 DEF OnceInv, ReportInv
  <2> QED
    BY <1>5, <2>1, <2>2, <2>3, <2>4, <2>5 DEF ThoroughInv, UndisturbedInv
<1> QED
  BY <1>4, <1>5

LEMMA CalmKeeps ==
  ASSUME R!RemovalAssumption, RemovalInv, ThoroughInv, [R!Next]_(R!vars)
  PROVE  ThoroughInv'
<1> SUFFICES ASSUME Undisturbed' PROVE IF setting'.start[Above][Top] = None THEN NothingInv' ELSE UndisturbedInv'
  BY DEF ThoroughInv
<1>1. CASE UNCHANGED R!vars
  <2>1. UNCHANGED <<setting, content, over, modes, stack, removalPc, name, hint, ino, reports, result,
                    removalChanges, taken, been, opened>>
    BY <1>1 DEF R!vars
  <2>2. Undisturbed
    BY <2>1 DEF Undisturbed
  <2>3. NothingInv => NothingInv'
    BY <2>1 DEF NothingInv
  <2>4. UndisturbedInv => UndisturbedInv'
    <3>1. SameTree /\ GoneInv => SameTree' /\ GoneInv'
      BY <2>1 DEF SameTree, GoneInv
    <3>2. ChainInv => ChainInv'
      BY <2>1 DEF ChainInv, Parent
    <3>3. ListInv => ListInv'
      BY <2>1 DEF ListInv
    <3>4. HandInv => HandInv'
      BY <2>1 DEF HandInv, Working, R!At, R!T, R!Last
    <3>5. \A k \in DOMAIN stack, n \in Names : AheadIn(k, n)' <=> AheadIn(k, n)
      BY <2>1 DEF AheadIn, Working
    <3>6. \A d, n : Ahead(d, n)' <=> Ahead(d, n)
      BY <2>1 DEF Ahead, AheadIn, Working
    <3>7. DoneInv => DoneInv'
      BY <2>1, <3>6 DEF DoneInv, Stays
    <3>8. FailedInv => FailedInv'
      BY <2>1, <3>5 DEF FailedInv
    <3>9. OnceInv => OnceInv'
      BY <2>1, <3>6 DEF OnceInv
    <3>10. ReportInv => ReportInv'
      BY <2>1, <3>6 DEF ReportInv, R!Blocked, R!Pinned, R!Held, R!Entries
    <3> QED
      BY <3>1, <3>2, <3>3, <3>4, <3>7, <3>8, <3>9, <3>10 DEF UndisturbedInv
  <2> QED
    BY <2>1, <2>2, <2>3, <2>4 DEF ThoroughInv
<1>2. CASE R!Others
  <2>1. removalChanges' = removalChanges + 1 /\ removalChanges \in Nat
    BY <1>2 DEF R!Others, RemovalInv, RemovalTyped
  <2> QED
    BY <2>1 DEF Undisturbed
<1>3. CASE R!Walker
  <2>1. UNCHANGED <<setting, over, removalChanges, been>>
    BY <1>3 DEF R!Walker, R!Batch, R!Pop, R!Unlink, R!Stat, R!Open, R!Leave, R!Files
  <2>2. Undisturbed
    BY <2>1 DEF Undisturbed
  <2>3. CASE setting.start[Above][Top] = None
    <3>1. NothingInv /\ RemovalTyped
      BY <2>2, <2>3 DEF ThoroughInv, RemovalInv
    <3>2. R!Stat
      BY <1>3, <3>1 DEF NothingInv, R!Walker, R!Batch, R!Pop, R!Unlink, R!Open, R!Leave
    <3>3. R!At = Above /\ name = Top /\ Above \in Dirs /\ Top \in Names /\ None \notin Dirs
      BY <3>1, <3>2 DEF NothingInv, R!At, RemovalInv, WalkInv, R!Stat, R!RemovalAssumption
    <3>4. R!Node(R!At, name) = None
      BY <3>1, <3>3, Nodes DEF NothingInv
    <3>5. R!Done(TRUE) /\ UNCHANGED content
      BY <3>2, <3>3, <3>4 DEF R!Stat, R!IsDir
    <3>6. UNCHANGED <<stack, reports>> /\ removalPc' = "end"
      BY <3>1, <3>5 DEF R!Done, NothingInv
    <3> QED
      BY <2>1, <2>3, <3>1, <3>5, <3>6 DEF NothingInv
  <2>4. CASE setting.start[Above][Top] # None
    <3>1. Calm
      BY <2>2, <2>4 DEF ThoroughInv, Calm
    <3>2. UndisturbedInv'
      BY <1>3, <3>1, BatchCalm, PopCalm, UnlinkCalm, StatCalm, OpenCalm, LeaveCalm DEF R!Walker
    <3> QED
      BY <2>1, <2>4, <3>2
  <2> QED
    BY <2>3, <2>4
<1> QED
  BY <1>1, <1>2, <1>3 DEF R!Next

\* When the walk is done, what remains of the tree is reported, or holds or is in what is.
LEMMA AllVisited ==
  ASSUME Calm, removalPc = "end", NEW d \in been, NEW n \in Names, content[d][n] # None
  PROVE  \/ R!Reported(d, n) \/ R!Reported(d, None)
         \/ content[d][n] \in Dirs /\ (R!Entries(content[d][n]) # {} \/ R!Reported(content[d][n], None))
         \/ d \in R!From(content, {u \in Dirs : \E e \in reports :
                                     e = <<u, None>> \/ (e[2] # None /\ R!Held(e[1], e[2]) = u)})
<1> DEFINE U == {u \in Dirs : \E e \in reports : e = <<u, None>> \/ (e[2] # None /\ R!Held(e[1], e[2]) = u)}
           X == R!From(content, U)
<1>1. /\ None \notin Dirs /\ None \notin Names /\ Above \in Dirs /\ Top \in Names
      /\ been \subseteq Dirs \ {Above} /\ opened \subseteq been
      /\ \A e \in Dirs, m \in Names : content[e][m] # Above
      /\ \A r \in reports : r[1] \in Dirs /\ r[2] \in Names \cup {None} /\ r = <<r[1], r[2]>>
  BY CalmFacts
<1>2. stack = <<>>
  BY CalmFacts DEF WalkInv
<1>3. \A e \in Dirs, m \in Names : ~Ahead(e, m)
  BY <1>2 DEF Ahead
<1>4. \A e \in opened \cup {Above}, m \in Names :
        content[e][m] # None /\ (e = Above => m = Top) => Stays(e, m)
  BY <1>1, <1>3 DEF Calm, UndisturbedInv, DoneInv
<1>5. CASE d \in opened
  <2>1. Stays(d, n) /\ opened \subseteq Dirs
    BY <1>1, <1>4, <1>5
  <2> QED
    BY <2>1 DEF Stays, R!Reported, R!Entries, R!Held
<1>6. CASE d \notin opened
  <2>1. U \subseteq X /\ X \subseteq Dirs /\ R!Closed(content, X)
        /\ \A Y \in SUBSET Dirs : U \subseteq Y /\ R!Closed(content, Y) => X \subseteq Y
    <3>1. U \in SUBSET Dirs
      OBVIOUS
    <3> HIDE DEF U
    <3> QED
      BY <3>1, Reach
  <2>2. \A u \in Dirs, m \in Names : <<u, m>> \in reports /\ content[u][m] \in Dirs => content[u][m] \in U
    <3> SUFFICES ASSUME NEW u \in Dirs, NEW m \in Names, <<u, m>> \in reports, content[u][m] \in Dirs
                 PROVE  content[u][m] \in U
      OBVIOUS
    <3>1. <<u, m>>[1] = u /\ <<u, m>>[2] = m
      OBVIOUS
    <3> QED
      BY <1>1, <3>1 DEF R!Held
  <2>3. \A u \in Dirs : <<u, None>> \in reports => u \in U
    OBVIOUS
  <2>4. Above \notin U /\ <<Above, None>> \notin reports
    <3>1. <<Above, None>> \notin reports
      <4>1. <<Above, None>>[1] = Above /\ <<Above, None>>[2] = None
        OBVIOUS
      <4> QED
        BY <1>1, <4>1 DEF Calm, UndisturbedInv, ReportInv
    <3>2. \A e \in reports : e[2] # None => R!Held(e[1], e[2]) # Above
      BY <1>1 DEF R!Held
    <3> QED
      BY <3>1, <3>2
  <2>5. Above \notin X
    <3> DEFINE Y == Dirs \ {Above}
    <3>1. U \subseteq Y /\ Y \in SUBSET Dirs /\ R!Closed(content, Y)
      BY <1>1, <2>4 DEF R!Closed
    <3> HIDE DEF U, X, Y
    <3>2. X \subseteq Y
      BY <2>1, <3>1
    <3> QED
      BY <3>2 DEF Y
  <2> DEFINE disk == setting.start
             Z == opened \cup X \cup {e \in Dirs : \A m \in Names : disk[e][m] = None}
  <2> HIDE DEF U, X
  <2>6. /\ \A e \in Dirs, m \in Names : content[e][m] \in {disk[e][m], None}
        /\ \A e \in Dirs \ (opened \cup {Above}), m \in Names : content[e][m] = disk[e][m]
        /\ been = R!Below(disk)
        /\ \A e \in Dirs, m \in Names : disk[e][m] \in Dirs /\ content[e][m] = None =>
             disk[e][m] \in opened \/ \A k \in Names : disk[disk[e][m]][k] = None
    BY DEF Calm, UndisturbedInv, SameTree, GoneInv
  <2>7. \A e \in opened \cup {Above}, m \in Names :
          disk[e][m] \in Dirs /\ (e = Above => m = Top) => disk[e][m] \in Z
    <3> SUFFICES ASSUME NEW e \in opened \cup {Above}, NEW m \in Names, disk[e][m] \in Dirs, e = Above => m = Top
                 PROVE  disk[e][m] \in Z
      OBVIOUS
    <3>0. e \in Dirs
      BY <1>1
    <3>1. CASE content[e][m] = None
      BY <2>6, <3>0, <3>1
    <3>2. CASE content[e][m] # None
      <4>1. content[e][m] = disk[e][m] /\ Stays(e, m)
        BY <1>4, <2>6, <3>0, <3>2
      <4>2. CASE <<e, m>> \in reports
        BY <2>1, <2>2, <3>0, <4>1, <4>2
      <4>3. CASE <<e, None>> \in reports
        <5>1. e \in X
          BY <2>1, <2>3, <3>0, <4>3
        <5> QED
          BY <2>1, <4>1, <5>1 DEF R!Closed
      <4>4. CASE content[e][m] \in opened
        BY <4>1, <4>4
      <4> QED
        BY <4>1, <4>2, <4>3, <4>4 DEF Stays
    <3> QED
      BY <3>1, <3>2
  <2>8. R!Closed(disk, Z) /\ Z \in SUBSET Dirs
    <3> SUFFICES ASSUME NEW e \in Z, NEW m \in Names, disk[e][m] \in Dirs PROVE disk[e][m] \in Z
      BY <1>1, <2>1 DEF R!Closed
    <3>1. CASE e \in opened
      BY <1>1, <2>7, <3>1
    <3>2. CASE e \in X /\ e \notin opened
      <4>1. content[e][m] = disk[e][m]
        BY <2>1, <2>5, <2>6, <3>2
      <4> QED
        BY <2>1, <3>2, <4>1 DEF R!Closed
    <3>3. CASE \A k \in Names : disk[e][k] = None
      BY <1>1, <3>3
    <3> QED
      BY <3>1, <3>2, <3>3
  <2>9. disk[Above][Top] \in Dirs => disk[Above][Top] \in Z
    BY <1>1, <2>7
  <2>10. d \in Z
    <3> HIDE DEF Z, disk
    <3> QED
      BY <2>6, <2>8, <2>9, ReachBelow
  <2>11. content[d][n] = disk[d][n]
    BY <1>1, <1>6, <2>6
  <2> QED
    BY <1>6, <2>10, <2>11 DEF X, U
<1> QED
  BY <1>5, <1>6

\* A removal nobody disturbs takes the whole tree, but for what the kernel keeps and what holds it,
\* reports that, and reports nothing else, however the directories are read.
THEOREM RemovesThoroughly == ASSUME R!RemovalAssumption PROVE R!Spec => []R!Thorough
<1>1. R!Init => ThoroughInv
  BY CalmStarts
<1>2. RemovalInv /\ ThoroughInv /\ [R!Next]_(R!vars) => ThoroughInv'
  BY CalmKeeps
<1>3. ASSUME RemovalInv, ThoroughInv PROVE R!Thorough
  <2> SUFFICES ASSUME removalPc = "end", Undisturbed
               PROVE  /\ \A e \in reports : e[2] # None =>
                           R!Blocked(e[1], e[2]) /\ \A r \in reports : r[1] # R!Held(e[1], e[2])
                      /\ \A d \in been, n \in Names : R!Held(d, n) # None =>
                           \/ R!Reported(d, n) \/ R!Reported(d, None)
                           \/ R!IsDir(R!Held(d, n)) /\ (R!Entries(R!Held(d, n)) # {} \/ R!Reported(R!Held(d, n), None))
                           \/ d \in R!From(content, {u \in Dirs : \E e \in reports :
                                     e = <<u, None>> \/ (e[2] # None /\ R!Held(e[1], e[2]) = u)})
    BY SameFinite DEF R!Thorough, Undisturbed
  <2>1. CASE setting.start[Above][Top] = None
    <3>1. reports = {} /\ been = {}
      BY <1>3, <2>1 DEF ThoroughInv, NothingInv
    <3> QED
      BY <3>1
  <2>2. CASE setting.start[Above][Top] # None
    <3>1. Calm
      BY <1>3, <2>2 DEF ThoroughInv, Calm
    <3>2. \A e \in reports : e[2] # None =>
            R!Blocked(e[1], e[2]) /\ \A r \in reports : r[1] # R!Held(e[1], e[2])
      BY <3>1 DEF Calm, UndisturbedInv, ReportInv, R!Held
    <3>3. ASSUME NEW d \in been, NEW n \in Names, R!Held(d, n) # None
          PROVE  \/ R!Reported(d, n) \/ R!Reported(d, None)
                 \/ R!IsDir(R!Held(d, n)) /\ (R!Entries(R!Held(d, n)) # {} \/ R!Reported(R!Held(d, n), None))
                 \/ d \in R!From(content, {u \in Dirs : \E e \in reports :
                           e = <<u, None>> \/ (e[2] # None /\ R!Held(e[1], e[2]) = u)})
      <4>1. R!Held(d, n) = content[d][n]
        BY DEF R!Held
      <4>2. R!IsDir(content[d][n]) <=> content[d][n] \in Dirs
        BY DEF R!IsDir
      <4>3. content[d][n] # None
        BY <3>3, <4>1
      <4> QED
        BY <3>1, <4>1, <4>2, <4>3, AllVisited
    <3> QED
      BY <3>2, <3>3
  <2> QED
    BY <2>1, <2>2
<1> QED
  BY <1>1, <1>2, <1>3, RemovalInvariance, PTL DEF R!Spec
=============================================================================
