----------------------------- MODULE AutoPurge -----------------------------
(***************************************************************************)
(* Retention: what runs after a deletion to keep the trash within its age, *)
(* size and disk-pressure limits (maybe_auto_purge and auto_purge_in_roots *)
(* in crates/trashd-common/src/store.rs).                                  *)
(*                                                                         *)
(* Several processes delete and may all find a purge due.  A marker file's *)
(* age throttles them, a lock that is only tried keeps runs apart.  A run  *)
(* works on one listing; meanwhile users restore, purge and trash again,   *)
(* so an ID may hold another entry by the time the run comes to it.        *)
(*                                                                         *)
(* Time is kept as ages that stop counting where nothing can tell them     *)
(* apart any more, so time itself needs no bound.                          *)
(***************************************************************************)
EXTENDS Naturals, FiniteSets

CONSTANTS
    Procs,      \* processes that delete through trashd
    Deferring,  \* those that postpone retention (the seccomp supervisor)
    Slots,      \* entry IDs
    SizeOf,     \* the disk size of what is trashed under each ID
    OnHome,     \* the IDs in roots on the home filesystem
    StuckSets,  \* which IDs hold what cannot be removed: the cases looked at
    Limits,     \* the configurations looked at: [age, size, pressure]
    Interval,   \* auto_purge_interval_secs
    OldAge,     \* bound: entries this old are all alike
    MaxGen,     \* bound: how often an ID is used again
    MaxCrashes  \* bound: processes killed

ASSUME PurgeConstants ==
    /\ Deferring \subseteq Procs /\ OnHome \subseteq Slots
    /\ StuckSets \subseteq SUBSET Slots
    /\ SizeOf \in [Slots -> Nat]
    /\ Limits \subseteq [age: 0..OldAge, size: Nat, pressure: BOOLEAN]
    /\ Interval \in Nat \ {0} /\ OldAge \in Nat \ {0}
    /\ IsFiniteSet(Slots) /\ MaxGen \in Nat \ {0} /\ MaxCrashes \in Nat

\* PRESSURE_MIN_AGE, in ticks.
MinAge == 1

VARIABLES
    limits,     \* the configuration
    stuck,      \* IDs whose entries cannot be removed by this user
    slot,       \* slot[id]: the entry's generation and age, or Gone
    gens,       \* how often each ID was used
    pressed,    \* the home filesystem is above disk_pressure_percent
    markAge,    \* age of .trashd/last_purge; Interval when it is due or absent
    running,    \* the holders of auto_purge.lock: none or one
    pc,
    due,        \* retention a deferring process still owes
    notDue,     \* purge_not_due_until: what a process still waits, by its own clock
    snap,       \* entries of the listing not purged by this run
    todo,       \* those the current phase has still to visit
    excess,     \* what the size phase has still to free
    quota,      \* what the pressure phase may still purge
    sinceRun,   \* history: time since a run last began
    userFreed,  \* history: what users removed since each run's listing
    crashes

entries == <<limits, stuck, slot, gens, pressed>>
locals == <<due, notDue, snap, todo, excess, quota>>
vars == <<entries, markAge, running, pc, locals, sinceRun, userFreed, crashes>>

Gone == [gen |-> 0, age |-> 0]
Entry == [gen: 1..MaxGen, age: 0..OldAge]
Line == [id: Slots, gen: 1..MaxGen, age: 0..OldAge]
Run == {"list", "age", "measure", "trim", "press", "relieve", "finish"}
Steps == {"idle", "look", "lock", "recheck"} \cup Run

\* What entries occupy together: as many bytes as their sizes add up to.
Bytes(ids) == UNION {{s} \X (1..SizeOf[s]) : s \in ids}
Held(ids) == Cardinality(Bytes({s \in ids : slot[s] # Gone}))
Total == Held(Slots)

TypeOK ==
    /\ limits \in Limits /\ stuck \in StuckSets
    /\ slot \in [Slots -> Entry \cup {Gone}] /\ gens \in [Slots -> 0..MaxGen]
    /\ pressed \in BOOLEAN /\ markAge \in 0..Interval
    /\ running \subseteq Procs /\ pc \in [Procs -> Steps]
    /\ due \in [Procs -> BOOLEAN] /\ notDue \in [Procs -> 0..Interval]
    /\ snap \in [Procs -> SUBSET Line] /\ todo \in [Procs -> SUBSET Line]
    /\ excess \in [Procs -> Nat] /\ quota \in [Procs -> Nat]
    /\ sinceRun \in 0..Interval /\ userFreed \in [Procs -> Nat]
    /\ crashes \in 0..MaxCrashes
    /\ \A p \in Procs : pc[p] \in Run \cup {"recheck"} <=> p \in running

Init ==
    /\ limits \in Limits /\ stuck \in StuckSets
    /\ slot \in [Slots -> {Gone} \cup [gen: {1}, age: {OldAge}]]
    /\ gens = [s \in Slots |-> slot[s].gen]
    /\ pressed \in {FALSE, limits.pressure}
    /\ markAge = Interval /\ running = {}
    /\ pc = [p \in Procs |-> "idle"]
    /\ due = [p \in Procs |-> FALSE] /\ notDue = [p \in Procs |-> 0]
    /\ snap = [p \in Procs |-> {}] /\ todo = [p \in Procs |-> {}]
    /\ excess = [p \in Procs |-> 0] /\ quota = [p \in Procs |-> 0]
    /\ sinceRun = Interval /\ userFreed = [p \in Procs |-> 0]
    /\ crashes = 0

Goto(p, step) == pc' = [pc EXCEPT ![p] = step]

\* The run's locals and its lock go when it returns.
Leave(p) ==
    /\ Goto(p, "idle")
    /\ running' = running \ {p}
    /\ snap' = [snap EXCEPT ![p] = {}] /\ todo' = [todo EXCEPT ![p] = {}]
    /\ excess' = [excess EXCEPT ![p] = 0] /\ quota' = [quota EXCEPT ![p] = 0]
    /\ userFreed' = [userFreed EXCEPT ![p] = 0]

-----------------------------------------------------------------------------
(* When a run begins.                                                      *)

\* A deletion, perhaps of something new under a free ID of these roots.
Mutate(p) ==
    /\ pc[p] = "idle"
    /\ \/ UNCHANGED <<slot, gens>>
       \/ \E s \in Slots :
              /\ slot[s] = Gone /\ gens[s] < MaxGen
              /\ gens' = [gens EXCEPT ![s] = @ + 1]
              /\ slot' = [slot EXCEPT ![s] = [gen |-> gens[s] + 1, age |-> 0]]
    /\ IF p \in Deferring
       THEN due' = [due EXCEPT ![p] = TRUE] /\ UNCHANGED pc
       ELSE Goto(p, "look") /\ UNCHANGED due
    /\ UNCHANGED <<limits, stuck, pressed, markAge, running, notDue, snap, todo, excess, quota,
                   sinceRun, userFreed, crashes>>

\* The supervisor has answered its client.
RunDeferred(p) ==
    /\ pc[p] = "idle" /\ due[p]
    /\ due' = [due EXCEPT ![p] = FALSE]
    /\ Goto(p, "look")
    /\ UNCHANGED <<entries, markAge, running, notDue, snap, todo, excess, quota,
                   sinceRun, userFreed, crashes>>

\* What this process remembers, then the marker, tell most of them to go.
LookAtMarker(p) ==
    /\ pc[p] = "look"
    /\ IF notDue[p] > 0
       THEN Goto(p, "idle") /\ UNCHANGED notDue
       ELSE IF markAge < Interval
       THEN Goto(p, "idle") /\ notDue' = [notDue EXCEPT ![p] = Interval - markAge]
       ELSE Goto(p, "lock") /\ UNCHANGED notDue
    /\ UNCHANGED <<entries, markAge, running, due, snap, todo, excess, quota,
                   sinceRun, userFreed, crashes>>

\* A held lock means that somebody else is at it.
TryLock(p) ==
    /\ pc[p] = "lock"
    /\ IF running = {} THEN running' = {p} /\ Goto(p, "recheck")
       ELSE Goto(p, "idle") /\ UNCHANGED running
    /\ UNCHANGED <<entries, markAge, locals, sinceRun, userFreed, crashes>>

\* Mutant of Recheck: the look before the lock was enough.
RecheckNothing(p) ==
    /\ pc[p] = "recheck"
    /\ markAge' = 0 /\ sinceRun' = 0
    /\ notDue' = [notDue EXCEPT ![p] = Interval]
    /\ Goto(p, "list")
    /\ UNCHANGED <<running, due, snap, todo, excess, quota, userFreed, entries, crashes>>

\* Another run may have ended between the look and the lock.
Recheck(p) ==
    /\ pc[p] = "recheck"
    /\ IF markAge < Interval
       THEN Leave(p) /\ UNCHANGED <<markAge, notDue, sinceRun>>
       ELSE /\ markAge' = 0 /\ sinceRun' = 0
            /\ notDue' = [notDue EXCEPT ![p] = Interval]
            /\ Goto(p, "list")
            /\ UNCHANGED <<running, snap, todo, excess, quota, userFreed>>
    /\ UNCHANGED <<entries, due, crashes>>

-----------------------------------------------------------------------------
(* A run.                                                                  *)

\* The oldest entry this phase has not visited.
Oldest(p) == {x \in todo[p] : \A y \in todo[p] : y.age <= x.age}
Visit(p, x) == todo' = [todo EXCEPT ![p] = @ \ {x}]

\* purge_reporting_kind: only the very entry that was listed.
Purged(p, x) ==
    /\ x.id \notin stuck /\ slot[x.id].gen = x.gen
    /\ slot' = [slot EXCEPT ![x.id] = Gone]
    /\ snap' = [snap EXCEPT ![p] = @ \ {x}]
\* It is gone, another one, or cannot be removed: it stays in the accounts.
NotPurged(x) ==
    /\ x.id \in stuck \/ slot[x.id].gen # x.gen
    /\ UNCHANGED <<slot, snap>>

\* An empty listing ends the run.  An age limit of 0 keeps entries for ever.
ListRoots(p) ==
    LET lines == {[id |-> s, gen |-> slot[s].gen, age |-> slot[s].age] :
                      s \in {r \in Slots : slot[r] # Gone}}
    IN
    /\ pc[p] = "list"
    /\ snap' = [snap EXCEPT ![p] = lines]
    /\ todo' = [todo EXCEPT ![p] =
                   IF limits.age = 0 THEN {} ELSE {x \in lines : x.age >= limits.age}]
    /\ Goto(p, IF lines = {} THEN "finish" ELSE "age")
    /\ UNCHANGED <<entries, markAge, running, due, notDue, excess, quota,
                   sinceRun, userFreed, crashes>>

\* A root cannot be listed: the run is over.
ListFails(p) ==
    /\ pc[p] = "list"
    /\ Leave(p)
    /\ UNCHANGED <<entries, markAge, due, notDue, sinceRun, crashes>>

\* Mutant of PurgeExpired: the first entry that cannot be removed ends the phase.
PurgeUntilFailure(p) ==
    /\ pc[p] = "age"
    /\ \/ todo[p] = {} /\ Goto(p, "measure") /\ UNCHANGED <<slot, snap, todo>>
       \/ \E x \in Oldest(p) : Visit(p, x) /\ Purged(p, x) /\ UNCHANGED pc
       \/ /\ todo' = [todo EXCEPT ![p] = {}]
          /\ Goto(p, "measure") /\ UNCHANGED <<slot, snap>>
    /\ UNCHANGED <<limits, stuck, gens, pressed, markAge, running, due, notDue, excess, quota,
                   sinceRun, userFreed, crashes>>

PurgeExpired(p) ==
    /\ pc[p] = "age"
    /\ \/ todo[p] = {} /\ Goto(p, "measure") /\ UNCHANGED <<slot, snap, todo>>
       \/ \E x \in Oldest(p) : Visit(p, x) /\ (Purged(p, x) \/ NotPurged(x)) /\ UNCHANGED pc
    /\ UNCHANGED <<limits, stuck, gens, pressed, markAge, running, due, notDue, excess, quota,
                   sinceRun, userFreed, crashes>>

\* A size limit of 0 is none.  What an ID holds now is measured.
MeasureSizes(p) ==
    LET held == Held({x.id : x \in snap[p]})
        over == limits.size > 0 /\ held > limits.size
    IN
    /\ pc[p] = "measure"
    /\ excess' = [excess EXCEPT ![p] = IF over THEN held - limits.size ELSE 0]
    /\ todo' = [todo EXCEPT ![p] = IF over THEN snap[p] ELSE {}]
    /\ Goto(p, "trim")
    /\ UNCHANGED <<entries, markAge, running, due, notDue, snap, quota,
                   sinceRun, userFreed, crashes>>

Freed(p, x) == excess' = [excess EXCEPT ![p] = IF @ > SizeOf[x.id] THEN @ - SizeOf[x.id] ELSE 0]

\* Oldest first, until enough is really gone.
TrimToSize(p) ==
    /\ pc[p] = "trim"
    /\ \/ /\ excess[p] = 0 \/ todo[p] = {}
          /\ Goto(p, "press") /\ UNCHANGED <<slot, snap, todo, excess>>
       \/ /\ excess[p] > 0
          /\ \E x \in Oldest(p) :
                 /\ Visit(p, x)
                 /\ \/ Purged(p, x) /\ Freed(p, x)
                    \/ NotPurged(x) /\ UNCHANGED excess
          /\ UNCHANGED pc
    /\ UNCHANGED <<limits, stuck, gens, pressed, markAge, running, due, notDue, quota,
                   sinceRun, userFreed, crashes>>

\* A tenth of what is on the home filesystem and not brand new, at least one.
MeasurePressure(p) ==
    LET eligible == {x \in snap[p] : x.age >= MinAge /\ x.id \in OnHome} IN
    /\ pc[p] = "press"
    /\ IF limits.pressure /\ pressed /\ eligible # {}
       THEN /\ todo' = [todo EXCEPT ![p] = eligible]
            /\ quota' = [quota EXCEPT ![p] = LET n == Cardinality(eligible) \div 10
                                             IN  IF n = 0 THEN 1 ELSE n]
       ELSE todo' = [todo EXCEPT ![p] = {}] /\ quota' = [quota EXCEPT ![p] = 0]
    /\ Goto(p, "relieve")
    /\ UNCHANGED <<entries, markAge, running, due, notDue, snap, excess,
                   sinceRun, userFreed, crashes>>

RelievePressure(p) ==
    /\ pc[p] = "relieve"
    /\ \/ /\ quota[p] = 0 \/ todo[p] = {}
          /\ Goto(p, "finish") /\ UNCHANGED <<slot, snap, todo, quota>>
       \/ /\ quota[p] > 0
          /\ \E x \in Oldest(p) :
                 /\ Visit(p, x)
                 /\ \/ Purged(p, x) /\ quota' = [quota EXCEPT ![p] = @ - 1]
                    \/ NotPurged(x) /\ UNCHANGED quota
          /\ UNCHANGED pc
    /\ UNCHANGED <<limits, stuck, gens, pressed, markAge, running, due, notDue, excess,
                   sinceRun, userFreed, crashes>>

Finish(p) ==
    /\ pc[p] = "finish"
    /\ Leave(p)
    /\ UNCHANGED <<entries, markAge, due, notDue, sinceRun, crashes>>

-----------------------------------------------------------------------------
(* The rest of the world.                                                  *)

\* A restore or a purge by a user.
UserRemoves(s) ==
    /\ slot[s] # Gone
    /\ slot' = [slot EXCEPT ![s] = Gone]
    /\ userFreed' = [p \in Procs |-> IF p \in running /\ pc[p] \in Run \ {"list"}
                                     THEN userFreed[p] + SizeOf[s] ELSE userFreed[p]]
    /\ UNCHANGED <<limits, stuck, gens, pressed, markAge, running, pc, locals, sinceRun, crashes>>

Older(a, top) == IF a < top THEN a + 1 ELSE top

Tick ==
    /\ markAge' = Older(markAge, Interval) /\ sinceRun' = Older(sinceRun, Interval)
    /\ notDue' = [p \in Procs |-> IF notDue[p] = 0 THEN 0 ELSE notDue[p] - 1]
    /\ slot' = [s \in Slots |-> IF slot[s] = Gone THEN Gone
                                ELSE [slot[s] EXCEPT !.age = Older(@, OldAge)]]
    /\ pressed' \in {FALSE, limits.pressure}
    /\ UNCHANGED <<limits, stuck, gens, running, pc, due, snap, todo, excess, quota, userFreed, crashes>>

Crash(p) ==
    /\ pc[p] # "idle" /\ crashes < MaxCrashes
    /\ crashes' = crashes + 1
    /\ Leave(p)
    /\ due' = [due EXCEPT ![p] = FALSE] /\ notDue' = [notDue EXCEPT ![p] = 0]
    /\ UNCHANGED <<entries, markAge, sinceRun>>

RunStep(p) ==
    \/ ListRoots(p) \/ ListFails(p) \/ PurgeExpired(p) \/ MeasureSizes(p) \/ TrimToSize(p)
    \/ MeasurePressure(p) \/ RelievePressure(p) \/ Finish(p)

Proceed(p) == LookAtMarker(p) \/ TryLock(p) \/ Recheck(p) \/ RunStep(p)

Next ==
    \/ \E p \in Procs : Mutate(p) \/ RunDeferred(p) \/ Proceed(p) \/ Crash(p)
    \/ \E s \in Slots : UserRemoves(s)
    \/ Tick

Spec == Init /\ [][Next]_vars

\* Time passes, somebody goes on deleting, a call that began goes on, a
\* process pays what it deferred, and the listing does not fail for ever.
Fairness ==
    /\ WF_vars(Tick)
    /\ \A p \in Procs :
           /\ WF_vars(Mutate(p)) /\ WF_vars(RunDeferred(p)) /\ WF_vars(Proceed(p))
           /\ SF_vars(ListRoots(p))

FairSpec == Spec /\ Fairness

-----------------------------------------------------------------------------
(* Properties.                                                             *)

\* Runs begin at least an interval apart, whoever starts them, however many
\* find the purge due at once, and whoever is killed in one.
Throttled ==
    [][\A p \in Procs : pc[p] = "recheck" /\ pc'[p] = "list" => sinceRun >= Interval]_vars

Removes(p, s) == p \in running /\ slot[s] # Gone /\ slot'[s] = Gone

\* Retention removes nothing that was just trashed, not even under an ID its
\* listing knew, unless the whole trash is too large: moving a file into the
\* trash frees nothing, and removing it would turn an rm into a permanent
\* deletion (#201).  With every limit 0 it removes nothing at all.
RecentKept ==
    [][\A p \in Procs, s \in Slots :
           Removes(p, s) /\ pc[p] \in Run /\ pc'[p] = pc[p] /\ todo'[p] # todo[p] =>
               \/ slot[s].age >= MinAge /\ (limits.age > 0 \/ limits.size > 0 \/ limits.pressure)
               \/ limits.size > 0 /\ pc[p] = "trim"]_vars

\* The size phase never goes on once the limit is reached: two runs at a time
\* would each remove the full excess (#220).  What users removed since the
\* listing is not known to it.
NotOverTrimmed ==
    [][\A p \in Procs :
           pc[p] = "trim" /\ excess'[p] # excess[p] /\ excess'[p] < excess[p] =>
               Total + userFreed[p] > limits.size]_vars

\* What a purge may do: begin when it is due, and take what the limits let it.
PurgesRight == Throttled /\ RecentKept /\ NotOverTrimmed

\* An entry past the age limit goes in the end: a run killed after its marker
\* delays that by an interval, and one that cannot be removed delays no other.
ExpiredGo ==
    \A s \in Slots : s \notin stuck /\ limits.age > 0 /\ slot[s].age >= limits.age ~> slot[s].age < limits.age

\* So does what exceeds the size limit, as long as what can be removed
\* suffices: a failed removal frees nothing and is not counted (#106).
TrimmedToSize == limits.size > 0 /\ Total > limits.size ~> Total <= limits.size
=============================================================================
