---------------------------- MODULE SessionBypass ----------------------------
(* Whether the seccomp supervisor leaves a trapped deletion to the kernel    *)
(* because of who deletes (crates/trashd-seccomp/src/supervisor.rs,          *)
(* capture_protected_path): trashd's own programs, and whatever runs under   *)
(* git, make or a package manager.  The walk up the process tree reads one   *)
(* level after the other while processes exit and exec; from the             *)
(* orchestrator on it uses levels remembered for a few seconds, as the       *)
(* inodes of trashd's own programs are.                                      *)
EXTENDS Naturals, Sequences

CONSTANTS
  Caller, Orchestrator,
  Chain,      \* the processes from the caller up, as a sequence
  Bypassing,  \* those that carry a name of bypass_processes if they exec it
  Depth,      \* bound of the code: BYPASS_DEPTH (10)
  Ttl,        \* bound of the code: REFRESH of both caches (5 seconds)
  MaxTime,    \* bound: seconds explored
  MaxChanges, \* bound: exits, execs and updates
  None

\* what the theorem takes as given
BypassAssumption == Ttl \in Nat

Processes == {Chain[k] : k \in DOMAIN Chain}
Place(p) == CHOOSE k \in DOMAIN Chain : Chain[k] = p
OrchestratorAt == Place(Orchestrator)

VARIABLES
  alive,      \* the processes that run; who is left of an exit moves up
  listed,     \* those that run a program of bypass_processes
  installed,  \* the inode of trashd's installed program
  exe,        \* the inode the caller runs; 0 is no program of trashd
  time,
  cache,      \* SessionAncestry: [levels, at]
  own, ownAt, \* OwnComponents
  call,       \* the call being handled: [pc, cur, depth, levels, now]
  verdict,    \* what became of the last call
  changes,
  settledAt,  \* GHOST: when the tree last changed
  updatedAt,  \* GHOST: when the program was last replaced
  began       \* GHOST: when the last call was received

vars == <<alive, listed, installed, exe, time, cache, own, ownAt, call, verdict, changes, settledAt, updatedAt, began>>
Tree == <<alive, listed>>
Caches == <<cache, own, ownAt>>
Ghosts == <<settledAt, updatedAt>>

\* Below the orchestrator, a subreaper, orphans become its children; above it, init's.
Parent(p) ==
  LET next == Place(p) + 1
  IN  IF next \in DOMAIN Chain /\ Chain[next] \in alive THEN Chain[next]
      ELSE IF Place(p) < OrchestratorAt THEN Orchestrator ELSE None

\* process_bypassed() without a cache, in one instant.
FullWalk ==
  LET up[k \in 0..Depth] ==
        IF k = 0 THEN Caller
        ELSE LET p == up[k - 1] IN IF p = None THEN None ELSE Parent(p)
  IN  \E k \in 0..Depth : up[k] \in listed

Idle == [pc |-> "idle", cur |-> None, depth |-> 0, levels |-> <<>>, now |-> 0]

Init ==
  /\ alive = Processes /\ listed \in SUBSET Bypassing
  /\ installed = 1 /\ exe \in {0, 1} /\ time = 0
  /\ cache = None /\ own = {1} /\ ownAt = 0
  /\ call = Idle /\ verdict = None /\ changes = 0
  /\ settledAt = 0 /\ updatedAt = 0 /\ began = 0

-----------------------------------------------------------------------------
(* What changes meanwhile.                                                  *)

Change == changes < MaxChanges /\ changes' = changes + 1 /\ verdict' = None /\ UNCHANGED <<time, Caches, call, began>>

\* The caller is blocked in its call, and the session lasts while the orchestrator does.
Exit(p) ==
  /\ p \in alive \ {Caller, Orchestrator}
  /\ alive' = alive \ {p} /\ UNCHANGED <<listed, installed, exe, updatedAt>>
  /\ settledAt' = time /\ Change

Exec(p) ==
  /\ p \in alive \cap Bypassing /\ (p = Caller => call.pc = "idle")
  /\ listed' = IF p \in listed THEN listed \ {p} ELSE listed \cup {p}
  /\ UNCHANGED <<alive, installed, exe, updatedAt>>
  /\ settledAt' = time /\ Change

\* self-update: a new inode under the same name.
Update ==
  /\ installed' = installed + 1 /\ updatedAt' = time
  /\ UNCHANGED <<Tree, exe, settledAt>> /\ Change

\* The caller starts what is installed now, or something else.
Start ==
  /\ call.pc = "idle" /\ exe' \in {0, installed} \ {exe}
  /\ UNCHANGED <<Tree, installed, updatedAt, settledAt>> /\ Change

Tick ==
  /\ time < MaxTime /\ time' = time + 1 /\ verdict' = None
  /\ UNCHANGED <<Tree, installed, exe, Caches, call, changes, Ghosts, began>>

-----------------------------------------------------------------------------
(* One notification.                                                        *)

Around == UNCHANGED <<Tree, installed, exe, time, changes, Ghosts>>
Stale(at) == time - at > Ttl
Goto(c) == call' = c /\ verdict' = None /\ UNCHANGED began
Decide(v) == call' = Idle /\ verdict' = v /\ UNCHANGED began

\* own.ids(): a notification arrives.
Receive ==
  /\ call.pc = "idle"
  /\ IF Stale(ownAt) THEN own' = {installed} /\ ownAt' = time ELSE UNCHANGED <<own, ownAt>>
  /\ call' = [Idle EXCEPT !.pc = "own"] /\ verdict' = None
  /\ began' = time /\ UNCHANGED cache /\ Around

OwnComponent ==
  /\ call.pc = "own"
  /\ IF exe \in own THEN Decide("own") ELSE Goto([Idle EXCEPT !.pc = "level", !.cur = Caller])
  /\ UNCHANGED Caches /\ Around

\* One level: a process that has exited shows neither a name nor a parent.
Level ==
  /\ call.pc = "level" /\ (call.depth = 0 \/ call.cur # Orchestrator)
  /\ IF call.cur \notin alive THEN Decide("captured")
     ELSE IF call.cur \in listed THEN Decide("bypassed")
     ELSE IF Parent(call.cur) = None \/ call.depth = Depth THEN Decide("captured")
     ELSE Goto([call EXCEPT !.cur = Parent(call.cur), !.depth = @ + 1])
  /\ UNCHANGED Caches /\ Around

Within(levels, depth) == \E k \in DOMAIN levels : k <= Depth + 1 - depth /\ levels[k]
BypassedWithin(levels) == Decide(IF Within(levels, call.depth) THEN "bypassed" ELSE "captured")

\* bypassed_within(): from the orchestrator on, remembered levels decide while they are fresh.
Remembered ==
  /\ call.pc = "level" /\ call.depth > 0 /\ call.cur = Orchestrator
  /\ IF cache # None /\ ~Stale(cache.at) THEN BypassedWithin(cache.levels)
     ELSE Goto([call EXCEPT !.pc = "rebuild", !.levels = <<>>, !.now = time])
  /\ UNCHANGED Caches /\ Around

Rebuild ==
  /\ call.pc = "rebuild" /\ UNCHANGED <<own, ownAt>> /\ Around
  /\ LET levels == Append(call.levels, call.cur \in alive \cap listed)
         next == IF call.cur \in alive THEN Parent(call.cur) ELSE None
     IN  IF next = None \/ Len(levels) > Depth
         THEN cache' = [levels |-> levels, at |-> call.now] /\ BypassedWithin(levels)
         ELSE Goto([call EXCEPT !.levels = levels, !.cur = next]) /\ UNCHANGED cache

Others == (\E p \in Processes : Exit(p) \/ Exec(p)) \/ Update \/ Start \/ Tick
Supervisor == Receive \/ OwnComponent \/ Level \/ Remembered \/ Rebuild
Next == Others \/ Supervisor
Spec == Init /\ [][Next]_vars

-----------------------------------------------------------------------------
(* Properties.                                                              *)

TypeOK ==
  /\ alive \subseteq Processes /\ {Caller, Orchestrator} \subseteq alive /\ listed \subseteq Bypassing
  /\ call.pc \in {"idle", "own", "level", "rebuild"} /\ call.depth \in 0..Depth
  /\ verdict \in {None, "own", "bypassed", "captured"} /\ (verdict # None => call = Idle)
  /\ cache = None \/ (cache.at <= time /\ Len(cache.levels) \in 1..Depth + 1)

\* "The same depth, so every layer decides alike", "a bypass ancestor that exits stops applying"
\* (#23, #249, #320): once the tree has been still for longer than the caches live, the decision
\* is that of one walk over the whole tree.
DecidesLikeTheWalk ==
  verdict \in {"bypassed", "captured"} /\ began - settledAt > Ttl => (verdict = "bypassed") = FullWalk

\* A program of trashd's that has been installed for longer than the identities live is left alone
\* (#323), and no other one is.
OwnProgramsLeft ==
  verdict # None /\ began - updatedAt > Ttl => (exe = installed) = (verdict = "own")

=============================================================================
