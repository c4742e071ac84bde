--------------------------- MODULE PreloadVerdict ---------------------------
(* The bypass verdict a process under the preload library remembers          *)
(* (trashd-preload/src/lib.rs, known_bypassed to process_is_bypassed): a     *)
(* program under git, make or a package manager deletes for real, any other  *)
(* one into the trash.  The verdict is kept in two atomics that all threads  *)
(* read and write without a lock, and that a fork copies in any state; the   *)
(* process tree changes meanwhile.                                           *)
EXTENDS Integers, Sequences

CONSTANTS
  Threads,
  Self, Children,   \* the process that loaded the library, and what it may fork into
  Ancestors,        \* its possible ancestors, nearest first, as a sequence
  Bypassing,        \* the processes whose name the configuration lists
  Ttl,              \* bound of the code: seconds a verdict is fresh (5)
  MaxDepth,         \* bound of the code: ancestors looked at (10)
  MaxTime,          \* bound: seconds explored
  MaxSetBack,       \* bound: times the wall clock is set back
  None

VARIABLES
  parent, alive,    \* the process tree; 1 is init
  me,               \* the process whose memory this is
  verdict,          \* BYPASS_VERDICT: [pid, ppid, on], with the ghost epoch
  stamp,            \* BYPASS_VERDICT_AT
  wall, time,       \* the clock the code reads, and the time that has passed
  setBack,
  th,               \* [Threads -> the call in progress]
  epoch,            \* GHOST: forks and reparentings so far
  settledAt         \* GHOST: when the tree last changed, or a verdict from before was published

vars == <<parent, alive, me, verdict, stamp, wall, time, setBack, th, epoch, settledAt>>

Ancestor == {Ancestors[i] : i \in DOMAIN Ancestors}
Mine == {Self} \cup Children
Processes == Mine \cup Ancestor
Tree == <<parent, alive, me, epoch, settledAt>>
Clock == <<wall, time, setBack>>
Cache == <<verdict, stamp>>

Idle == [pc |-> "idle", now |-> 0, since |-> 0, ppid |-> 1, epoch |-> 0, cursor |-> 1, depth |-> 0,
         read |-> 0, loaded |-> None, from |-> 0, out |-> FALSE, walked |-> FALSE, mixed |-> FALSE]
Set(t, r) == th' = [th EXCEPT ![t] = r]

\* saturating_sub: a stamp from the future is no time ago
Fresh(now, at) == (IF now < at THEN 0 ELSE now - at) <= Ttl
\* bypass_cache_hit
Hit(v, pid, ppid) == v # None /\ v.pid = pid /\ v.ppid = ppid

\* a hook begins: known_bypassed loads the verdict and looks further only if it says bypassed
Begin(t) ==
  /\ th[t].pc = "idle"
  /\ Set(t, [Idle EXCEPT !.pc = IF verdict # None /\ verdict.on THEN "known" ELSE "sample",
                         !.loaded = verdict, !.since = time])
  /\ UNCHANGED <<Tree, Clock, Cache>>

Decide(t, r, v) == Set(t, [Idle EXCEPT !.pc = "decided", !.out = v.on, !.from = v.epoch,
                                       !.since = r.since, !.epoch = r.epoch, !.mixed = r.mixed])
\* known_bypassed, with the verdict loaded: the clock, then the stamp and the ids
Known(t) ==
  /\ th[t].pc = "known"
  /\ UNCHANGED <<Tree, Clock, Cache>>
  /\ IF Fresh(wall, stamp) /\ Hit(th[t].loaded, me, parent[me])
     THEN Decide(t, [th[t] EXCEPT !.epoch = epoch], th[t].loaded)
     ELSE Set(t, [th[t] EXCEPT !.pc = "sample"])

\* intercepted: the process and the time are sampled once for the hook, then the parent
Sample(t) ==
  /\ th[t].pc = "sample"
  /\ Set(t, [th[t] EXCEPT !.pc = "stamp", !.now = wall, !.since = time, !.mixed = FALSE,
                          !.ppid = parent[me], !.epoch = epoch])
  /\ UNCHANGED <<Tree, Clock, Cache>>

\* is_process_bypassed reads the stamp ...
ReadStamp(t) ==
  /\ th[t].pc = "stamp"
  /\ Set(t, [th[t] EXCEPT !.pc = "verdict", !.read = stamp])
  /\ UNCHANGED <<Tree, Clock, Cache>>
\* ... and then the verdict
ReadVerdict(t) ==
  /\ th[t].pc = "verdict"
  /\ UNCHANGED <<Tree, Clock, Cache>>
  /\ IF Fresh(th[t].now, th[t].read) /\ Hit(verdict, me, th[t].ppid)
     THEN Decide(t, th[t], verdict)
     ELSE Set(t, [th[t] EXCEPT !.pc = "walk", !.cursor = me, !.read = 0, !.loaded = None,
                                  !.walked = TRUE])

\* process_is_bypassed: one process of the tree at a time, to init or the last level
Walk(t) ==
  LET pid == th[t].cursor IN
  /\ th[t].pc = "walk"
  /\ UNCHANGED <<Tree, Clock, Cache>>
  /\ IF pid \in alive /\ pid \in Bypassing THEN Set(t, [th[t] EXCEPT !.pc = "store", !.out = TRUE])
     ELSE IF pid \notin alive \/ parent[pid] = 1 \/ th[t].depth = MaxDepth
     THEN Set(t, [th[t] EXCEPT !.pc = "store", !.out = FALSE])
     ELSE Set(t, [th[t] EXCEPT !.cursor = parent[pid], !.depth = @ + 1])

\* a publication from before the tree changed unsettles the verdict once more
Publish(t) ==
  /\ th[t].pc = "store"
  /\ verdict' = [pid |-> me, ppid |-> th[t].ppid, on |-> th[t].out, epoch |-> th[t].epoch]
  /\ Set(t, [th[t] EXCEPT !.pc = "restamp"])
  /\ settledAt' = IF th[t].since <= settledAt THEN time ELSE settledAt
  /\ UNCHANGED <<parent, alive, me, epoch, Clock, stamp>>
Restamped(t) == th' = [u \in Threads |-> IF u = t THEN [th[t] EXCEPT !.pc = "decided"]
                                         ELSE [th[u] EXCEPT !.mixed = @ \/ th[u].pc = "known"]]
\* Mutant of Restamp: the verdict is as old as its publication.
RestampLate(t) ==
  /\ th[t].pc = "restamp"
  /\ stamp' = wall
  /\ Restamped(t)
  /\ UNCHANGED <<Tree, Clock, verdict>>
\* the stamp is the time sampled before the walk
Restamp(t) ==
  /\ th[t].pc = "restamp"
  /\ stamp' = th[t].now
  /\ Restamped(t)
  /\ UNCHANGED <<Tree, Clock, verdict>>

\* the hook acts on it and returns
Return(t) == th[t].pc = "decided" /\ Set(t, Idle) /\ UNCHANGED <<Tree, Clock, Cache>>

-----------------------------------------------------------------------------
(* the process tree and the clock *)

\* an ancestor ends: its children belong to init
Die ==
  /\ \E p \in alive \cap (Ancestor \cup (Mine \ {me})) :
       /\ alive' = alive \ {p}
       /\ parent' = [q \in Processes |-> IF parent[q] = p THEN 1 ELSE parent[q]]
       /\ epoch' = IF parent[me] = p THEN epoch + 1 ELSE epoch
  /\ settledAt' = time
  /\ UNCHANGED <<me, Clock, Cache, th>>

\* the process forks and this is the child: one thread is left, the atomics are as they were
Fork ==
  /\ \E t \in Threads : th[t].pc = "idle"
  /\ \E c \in Children \ alive :
       /\ parent[c] = 1                             \* bound: each child is forked once
       /\ ~\E d \in Children : parent[d] = c
       /\ me' = c /\ alive' = alive \cup {c} /\ parent' = [parent EXCEPT ![c] = me]
  /\ epoch' = epoch + 1 /\ settledAt' = time
  /\ th' = [t \in Threads |-> Idle]
  /\ UNCHANGED <<Clock, Cache>>

Tick ==
  /\ time < MaxTime /\ time' = time + 1 /\ wall' = wall + 1
  /\ UNCHANGED <<Tree, Cache, setBack, th>>
SetBack ==
  /\ setBack < MaxSetBack /\ setBack' = setBack + 1
  /\ verdict # None                     \* bound: one second back, with something to mistake
  /\ wall' = wall - 1
  /\ UNCHANGED <<Tree, Cache, time, th>>

Line(i) == IF i = Len(Ancestors) THEN 1 ELSE Ancestors[i + 1]
Init ==
  /\ parent = [p \in Processes |->
                 IF p = Self THEN Line(0)
                 ELSE IF p \in Children THEN 1
                 ELSE Line(CHOOSE i \in DOMAIN Ancestors : Ancestors[i] = p)]
  /\ alive = {Self} \cup Ancestor /\ me = Self
  /\ verdict = None /\ stamp = 0 /\ wall = Ttl + 1 /\ time = 0 /\ setBack = 0
  /\ th = [t \in Threads |-> Idle] /\ epoch = 0 /\ settledAt = 0

Step(t) == Begin(t) \/ Known(t) \/ Sample(t) \/ ReadStamp(t) \/ ReadVerdict(t)
           \/ Walk(t) \/ Publish(t) \/ Restamp(t) \/ Return(t)
Next == (\E t \in Threads : Step(t)) \/ Die \/ Fork \/ Tick \/ SetBack
Spec == Init /\ [][Next]_vars

-----------------------------------------------------------------------------
(* Properties *)

RECURSIVE Under(_, _)
\* whether p or one of n ancestors of it is listed
Under(p, n) == \/ p \in Bypassing
               \/ n > 0 /\ parent[p] # 1 /\ Under(parent[p], n - 1)

\* Types; the stamp of a published verdict is a time some hook sampled, never later than now.
TypeOK ==
  /\ parent \in [Processes -> Processes \cup {1}] /\ alive \subseteq Processes /\ me \in alive
  /\ stamp \in 0 .. Ttl + 1 + MaxTime /\ time \in 0 .. MaxTime /\ setBack \in 0 .. MaxSetBack
  /\ verdict # None => verdict.pid \in Mine /\ verdict.on \in BOOLEAN
  /\ \A t \in Threads : th[t].depth \in 0 .. MaxDepth /\ th[t].out \in BOOLEAN
  /\ setBack = 0 => stamp <= wall

Settled(t) == th[t].pc = "decided" /\ th[t].since > settledAt + Ttl
\* Once the tree has been quiet, and no verdict from before was published, for longer than a
\* verdict is fresh, a hook acts on what the tree says, although verdict and stamp are stored
\* without a lock (the comment in is_process_bypassed); except a hook that took the verdict
\* before, and its stamp after, another one renewed both, and while the clock only goes forward.
SettledVerdict == \A t \in Threads :
  Settled(t) /\ ~th[t].mixed /\ setBack = 0 => (th[t].out = Under(me, MaxDepth))

\* A verdict that is not walked for was reached by this process under this parent: a fork's
\* child and a reparented process look at the tree again (#249).
OwnVerdict == \A t \in Threads :
  (th[t].pc = "decided" /\ ~th[t].walked) => th[t].from = th[t].epoch
=============================================================================
