--------------------------- MODULE SeccompSession ---------------------------
(***************************************************************************)
(* A running seccomp session of crates/trashd-seccomp: filtered tasks      *)
(* whose deletions trap, the supervisor that answers them, the watchdog    *)
(* that replaces a dead supervisor, and the orchestrator that reads the    *)
(* tasks' memory for it (the broker).                                      *)
(*                                                                         *)
(* A trapped call waits in the kernel as a notification with a fresh id    *)
(* until somebody who received it answers.  Meanwhile its task may be      *)
(* killed, and its number taken over by a stranger, or be interrupted by a *)
(* signal, which restarts the call as a new notification.  The supervisor  *)
(* handles one notification at a time and may wait for the root lock while *)
(* it does.  It, and the watchdog, can be killed at any point.             *)
(*                                                                         *)
(* Files are numbered by the call that first named them; 0 is whatever a   *)
(* stranger under a reused task number has at hand.                        *)
(***************************************************************************)
EXTENDS Naturals, FiniteSets

CONSTANTS
    Tasks,      \* the filtered tasks
    Deferring,  \* those whose preload marks its calls (DEFER_MARK)
    Bypassed,   \* those whose deletions policy leaves to the kernel
    Lockers,    \* trashd's own tools, which delete with the root lock held
    Confining,  \* those that may enter a Landlock domain
    Excluded,   \* files that policy, or the lack of a store, keeps out of the trash
    MaxCalls,   \* bound: notifications
    MaxDeaths,  \* bound: supervisors and watchdogs killed
    None        \* no value

ASSUME SessionConstants ==
    /\ Deferring \subseteq Tasks
    /\ Bypassed \subseteq Tasks
    /\ Lockers \subseteq Bypassed
    /\ Confining \subseteq Tasks
    /\ MaxCalls \in Nat
    /\ Excluded \subseteq 1..MaxCalls
    /\ MaxDeaths \in Nat
    /\ None \notin Tasks \cup {"supervisor"} \cup Nat
    /\ "supervisor" \notin Tasks

VARIABLES
    \* The tasks and the kernel's side of their calls.
    task,       \* running, waiting in the kernel, deleting by itself, gone
    call,       \* the id of a task's last notification
    kind,       \* what it asks for
    file,       \* the file it names
    fate,       \* what became of each file
    confined,   \* some task has entered a Landlock domain
    \* The supervisor.
    spc,        \* where it is
    gen,        \* its generation
    parent,     \* the parent it saw when it started
    armed,      \* its death signal is bound to the watchdog
    job,        \* the notification it handles: [task, call, file, kind]
    grips,      \* the files its captured paths and descriptors lead to
    \* Watchdog, orchestrator and what they share.
    wd,         \* where the watchdog is
    requests,   \* broker requests not served yet
    replies,    \* broker replies not read yet
    restricted, \* the shared Landlock bit
    rootLock,   \* the holder of the root's store.lock
    \* Budgets and history.
    calls, deaths,
    lost        \* calls a dead supervisor had received and not answered

kernel == <<task, call, kind, file, fate, confined>>
supervisor == <<spc, gen, parent, armed, job, grips>>
broker == <<requests, replies>>
counts == <<calls, deaths, lost>>
vars == <<kernel, supervisor, wd, broker, restricted, rootLock, counts>>

Files == 0..MaxCalls
Job == [task: Tasks, call: 1..MaxCalls, file: 1..MaxCalls,
        kind: {"delete", "restrict"}]
NoJob == [task |-> None, call |-> 0, file |-> 0, kind |-> None]

\* Where the supervisor acts on a captured caller, in order.
Committing == {"lock", "locked", "move"}
Listening == {"asked", "askedfd"}
Capturing == {"asked", "pin", "check", "askedfd", "recheck"}
Answering == {"success", "errno", "continue", "decline"}
Handling == {"received"} \cup Capturing \cup Committing \cup Answering
Starting == {"forked", "arm", "parent", "open"}
SupervisorSteps ==
    {"none", "recv", "maintain", "passthrough"} \cup Starting \cup Handling

TypeOK ==
    /\ task \in [Tasks -> {"run", "queued", "taken", "self", "gone"}]
    /\ call \in [Tasks -> 0..MaxCalls]
    /\ kind \in [Tasks -> {"delete", "restrict"}]
    /\ file \in [Tasks -> Files]
    /\ fate \in [1..MaxCalls -> {"there", "trashed", "deleted"}]
    /\ confined \in BOOLEAN
    /\ spc \in SupervisorSteps
    /\ gen \in Nat
    /\ parent \in {"watchdog", "reaper"}
    /\ armed \in BOOLEAN
    /\ job \in Job \cup {NoJob}
    /\ spc \in Handling => job \in Job
    /\ grips \subseteq Files
    /\ wd \in {"wait", "drain", "sleep", "passthrough", "dead"}
    /\ requests \subseteq [gen: Nat, task: Tasks]
    /\ replies \subseteq [gen: Nat, file: Files]
    /\ restricted \in BOOLEAN
    /\ rootLock \in Tasks \cup {"supervisor", None}
    /\ calls \in 0..MaxCalls /\ deaths \in 0..MaxDeaths
    /\ lost \subseteq 1..MaxCalls

\* The startup handshake is over: one supervisor, watched, and its command.
Init ==
    /\ task = [t \in Tasks |-> "run"]
    /\ call = [t \in Tasks |-> 0]
    /\ kind = [t \in Tasks |-> "delete"]
    /\ file = [t \in Tasks |-> 0]
    /\ fate = [f \in 1..MaxCalls |-> "there"]
    /\ confined = FALSE
    /\ spc = "recv" /\ gen = 1 /\ parent = "watchdog" /\ armed = TRUE
    /\ job = NoJob /\ grips = {}
    /\ wd = "wait"
    /\ requests = {} /\ replies = {}
    /\ restricted = FALSE
    /\ rootLock = None
    /\ calls = 0 /\ deaths = 0 /\ lost = {}

-----------------------------------------------------------------------------
(* The tasks and their kernel.                                             *)

Waiting(t) == task[t] \in {"queued", "taken"}

\* unlink, unlinkat, rmdir or landlock_restrict_self traps.
Trap(t, what) ==
    /\ task[t] = "run" /\ calls < MaxCalls
    /\ what = "restrict" => t \in Confining
    /\ t \in Lockers => rootLock = t
    /\ calls' = calls + 1
    /\ task' = [task EXCEPT ![t] = "queued"]
    /\ call' = [call EXCEPT ![t] = calls + 1]
    /\ kind' = [kind EXCEPT ![t] = what]
    /\ file' = [file EXCEPT ![t] = calls + 1]
    /\ UNCHANGED <<fate, confined, supervisor, wd, broker, restricted, rootLock, deaths, lost>>

\* A signal handler ran.  The kernel drops the notification, and the call
\* starts again as another one or returns EINTR.
Interrupt(t) ==
    /\ Waiting(t)
    /\ \/ /\ calls < MaxCalls /\ calls' = calls + 1
          /\ task' = [task EXCEPT ![t] = "queued"]
          /\ call' = [call EXCEPT ![t] = calls + 1]
       \/ /\ task' = [task EXCEPT ![t] = "run"]
          /\ UNCHANGED <<calls, call>>
    /\ UNCHANGED <<kind, file, fate, confined, supervisor, wd, broker,
                   restricted, rootLock, deaths, lost>>

\* The task is killed; its number may name a stranger from now on.
Kill(t) ==
    /\ task[t] # "gone"
    /\ task' = [task EXCEPT ![t] = "gone"]
    /\ rootLock' = IF rootLock = t THEN None ELSE rootLock
    /\ UNCHANGED <<call, kind, file, fate, confined, supervisor, wd, broker,
                   restricted, counts>>

\* A trash, rm or compress process around its store-internal deletions.
LockerLocks(t) ==
    /\ t \in Lockers /\ task[t] = "run" /\ rootLock = None
    /\ rootLock' = t
    /\ UNCHANGED <<kernel, supervisor, wd, broker, restricted, counts>>

LockerUnlocks(t) ==
    /\ t \in Lockers /\ task[t] = "run" /\ rootLock = t
    /\ rootLock' = None
    /\ UNCHANGED <<kernel, supervisor, wd, broker, restricted, counts>>

\* The preload trashes what the supervisor declined, in its own process, or
\* fails; what has no place in the trash it passes on to libc.
SelfTrash(t) ==
    /\ task[t] = "self" /\ rootLock = None
    /\ task' = [task EXCEPT ![t] = "run"]
    /\ \/ UNCHANGED fate
       \/ fate' = [fate EXCEPT ![file[t]] =
              IF @ # "there" THEN @ ELSE IF file[t] \in Excluded THEN "deleted" ELSE "trashed"]
    /\ UNCHANGED <<call, kind, file, confined, supervisor, wd, broker,
                   restricted, rootLock, counts>>

\* NOTIF_SEND to a task that still waits under this id; else it fails.
Valid(j) == j.task \in Tasks /\ task[j.task] = "taken" /\ call[j.task] = j.call

\* CONTINUE: the kernel executes the call.
KernelRuns(t) ==
    /\ task' = [task EXCEPT ![t] = "run"]
    /\ IF kind[t] = "restrict"
       THEN confined' = TRUE /\ UNCHANGED fate
       ELSE /\ fate' = [fate EXCEPT ![file[t]] = IF @ = "there" THEN "deleted" ELSE @]
            /\ UNCHANGED confined

\* ENOSYS: a deferring preload does it itself, anybody else sees an error.
AnswerEnosys(t) ==
    /\ task' = [task EXCEPT ![t] =
           IF t \in Deferring /\ kind[t] = "delete" THEN "self" ELSE "run"]
    /\ UNCHANGED <<fate, confined>>

\* Mutant of Declined: the mark of a deferring preload is not looked at.
DeclinedUnmarked(t) == KernelRuns(t)

\* decline(): leave the call to the credentials of its task.
Declined(t) ==
    IF t \in Deferring /\ kind[t] = "delete" THEN AnswerEnosys(t) ELSE KernelRuns(t)

\* The last listener has been closed: every waiting call fails.
ListenerClosed(t) ==
    /\ wd = "dead" /\ spc = "none" /\ Waiting(t)
    /\ AnswerEnosys(t)
    /\ UNCHANGED <<call, kind, file, supervisor, wd, broker, restricted, rootLock, counts>>

-----------------------------------------------------------------------------
(* The supervisor: run_supervisor(), handle_notification(), try_pinned().  *)

Goto(step) == spc' = step

Release == rootLock' = IF rootLock = "supervisor" THEN None ELSE rootLock

\* The parent must be known before the death signal is bound to it.
ReadParent ==
    /\ spc = "forked"
    /\ parent' = IF wd = "dead" THEN "reaper" ELSE "watchdog"
    /\ Goto("arm")
    /\ UNCHANGED <<kernel, gen, armed, job, grips, wd, broker, restricted, rootLock, counts>>

ArmDeathSignal ==
    /\ spc = "arm"
    /\ armed' = (wd # "dead")
    /\ Goto("parent")
    /\ UNCHANGED <<kernel, gen, parent, job, grips, wd, broker, restricted, rootLock, counts>>

CompareParent ==
    /\ spc = "parent"
    /\ Goto(IF wd = "dead" /\ parent = "watchdog" THEN "none" ELSE "open")
    /\ UNCHANGED <<kernel, gen, parent, armed, job, grips, wd, broker,
                   restricted, rootLock, counts>>

\* Without a store a replacement still answers, by declining everything.
OpenStore ==
    /\ spc = "open"
    /\ Goto("recv") \/ Goto("passthrough")
    /\ UNCHANGED <<kernel, gen, parent, armed, job, grips, wd, broker,
                   restricted, rootLock, counts>>

Receive(t) ==
    /\ spc = "recv" /\ task[t] = "queued"
    /\ task' = [task EXCEPT ![t] = "taken"]
    /\ job' = [task |-> t, call |-> call[t], file |-> file[t], kind |-> kind[t]]
    /\ Goto("received")
    /\ UNCHANGED <<call, kind, file, fate, confined, gen, parent, armed, grips,
                   wd, broker, restricted, rootLock, counts>>

\* Every filtered task has exited: POLLHUP ends the loop.
SessionOver ==
    /\ spc \in {"recv", "passthrough"} /\ \A t \in Tasks : task[t] = "gone"
    /\ Goto("none")
    /\ UNCHANGED <<kernel, gen, parent, armed, job, grips, wd, broker,
                   restricted, rootLock, counts>>

Ask(next) ==
    /\ requests' = requests \cup {[gen |-> gen, task |-> job.task]}
    /\ UNCHANGED replies
    /\ Goto(next)

\* The gates before any capture.  A caller may always be declined, because
\* its credentials differ; after a restriction it must be.
Gate ==
    /\ spc = "received"
    /\ \/ /\ job.kind = "restrict"
          /\ Goto("decline") /\ UNCHANGED broker
       \/ /\ job.kind = "delete" /\ ~Valid(job)
          /\ Goto("continue") /\ UNCHANGED broker
       \/ /\ job.kind = "delete" /\ Valid(job)
          /\ Goto("decline") /\ UNCHANGED broker
       \/ /\ job.kind = "delete" /\ Valid(job) /\ ~restricted
          /\ IF job.task \in Bypassed
             THEN Goto("continue") /\ UNCHANGED broker
             ELSE Ask("asked")
    /\ UNCHANGED <<kernel, gen, parent, armed, job, grips, wd, restricted, rootLock, counts>>

\* What reading /proc/<tid> gives: the caller's, or a stranger's.
ReadOf(t) == IF task[t] = "gone" THEN 0 ELSE file[t]

\* The orchestrator serves one request, on the reply socket it came with.
Serve ==
    /\ \E r \in requests :
           /\ requests' = requests \ {r}
           /\ replies' = replies \cup {[gen |-> r.gen, file |-> ReadOf(r.task)]}
    /\ UNCHANGED <<kernel, supervisor, wd, restricted, rootLock, counts>>

\* Mutant of Hear: one reply socket for every generation of supervisors.
HearAny ==
    /\ spc \in Listening
    /\ \E r \in replies :
           /\ replies' = replies \ {r}
           /\ grips' = grips \cup {r.file}
    /\ Goto("decline") \/ Goto(IF spc = "asked" THEN "pin" ELSE "recheck")
    /\ UNCHANGED <<kernel, gen, parent, armed, job, wd, requests, restricted, rootLock, counts>>

\* The path, or the descriptor of an explicit dirfd, arrives, or an error.
Hear ==
    /\ spc \in Listening
    /\ \E r \in replies :
           /\ r.gen = gen
           /\ replies' = replies \ {r}
           /\ grips' = grips \cup {r.file}
    /\ Goto("decline") \/ Goto(IF spc = "asked" THEN "pin" ELSE "recheck")
    /\ UNCHANGED <<kernel, gen, parent, armed, job, wd, requests, restricted, rootLock, counts>>

\* Open the task's root and working directory in /proc.
PinTask ==
    /\ spc = "pin"
    /\ grips' = grips \cup {ReadOf(job.task)}
    /\ Goto("check")
    /\ UNCHANGED <<kernel, gen, parent, armed, job, wd, broker, restricted, rootLock, counts>>

\* A valid id proves that everything read so far belongs to the caller.
CheckCaller ==
    /\ spc = "check"
    /\ \/ Valid(job) /\ Goto("lock") /\ UNCHANGED broker
       \/ Valid(job) /\ Ask("askedfd")
       \/ ~Valid(job) /\ Goto("continue") /\ UNCHANGED broker
    /\ UNCHANGED <<kernel, gen, parent, armed, job, grips, wd, restricted, rootLock, counts>>

\* Again after the round trip for the descriptor.
RecheckCaller ==
    /\ spc = "recheck"
    /\ Goto(IF Valid(job) THEN "lock" ELSE "continue")
    /\ UNCHANGED <<kernel, gen, parent, armed, job, grips, wd, broker,
                   restricted, rootLock, counts>>

\* The name is no longer there, or policy keeps its place out of the trash.
LeaveToKernel ==
    /\ spc = "lock" /\ (fate[job.file] # "there" \/ job.file \in Excluded)
    /\ Goto("continue")
    /\ UNCHANGED <<kernel, gen, parent, armed, job, grips, wd, broker,
                   restricted, rootLock, counts>>

\* What the pinned parent shows is answered with an errno (EISDIR, ENOTDIR,
\* ENOTEMPTY), or cannot be captured, proved or stored.
Refuse ==
    /\ \/ spc = "lock" /\ Goto("errno")
       \/ spc \in (Capturing \ Listening) \cup Committing /\ Goto("decline")
    /\ Release
    /\ UNCHANGED <<kernel, gen, parent, armed, job, grips, wd, broker, restricted, counts>>

\* trash_at() waits for the root lock, however long.
LockRoot ==
    /\ spc = "lock" /\ job.file \notin Excluded /\ rootLock = None
    /\ rootLock' = "supervisor"
    /\ Goto("locked")
    /\ UNCHANGED <<kernel, gen, parent, armed, job, grips, wd, broker, restricted, counts>>

\* may_commit(): the caller still waits.
MayCommit ==
    /\ spc = "locked"
    /\ IF Valid(job) THEN Goto("move") /\ UNCHANGED rootLock
       ELSE Goto("decline") /\ Release
    /\ UNCHANGED <<kernel, gen, parent, armed, job, grips, wd, broker, restricted, counts>>

\* The rename below the pinned parent; whatever prevents it declines.
MoveFile ==
    /\ spc = "move"
    /\ IF fate[job.file] = "there"
       THEN fate' = [fate EXCEPT ![job.file] = "trashed"] /\ Goto("success")
       ELSE UNCHANGED fate /\ Goto("decline")
    /\ Release
    /\ UNCHANGED <<task, call, kind, file, confined, gen, parent, armed, job, grips,
                   wd, broker, restricted, counts>>

\* Mutant of Panic: the notification is dropped with the unwound stack.
PanicForgets ==
    /\ spc \in Handling \ (Listening \cup Answering)
    /\ Goto("decline") /\ job' = NoJob
    /\ Release
    /\ UNCHANGED <<kernel, gen, parent, armed, grips, wd, broker, restricted, counts>>

\* catch_unwind: whatever was going on, the notification is declined.
Panic ==
    /\ spc \in Handling \ (Listening \cup Answering)
    /\ Goto("decline")
    /\ Release
    /\ UNCHANGED <<kernel, gen, parent, armed, job, grips, wd, broker, restricted, counts>>

\* decline() of a restriction writes the shared bit before it is continued.
NoteRestriction ==
    /\ spc = "decline" /\ job.kind = "restrict"
    /\ restricted' = TRUE
    /\ Goto("continue")
    /\ UNCHANGED <<kernel, gen, parent, armed, job, grips, wd, broker, rootLock, counts>>

\* One answer; a notification that is gone makes it fail, and that is ignored.
Answer ==
    /\ \/ spc \in {"success", "errno", "continue"}
       \/ spc = "decline" /\ job.kind = "delete"
    /\ \/ ~Valid(job) /\ UNCHANGED <<task, fate, confined>>
       \/ /\ Valid(job) /\ spc \in {"success", "errno"}
          /\ task' = [task EXCEPT ![job.task] = "run"]
          /\ UNCHANGED <<fate, confined>>
       \/ Valid(job) /\ spc = "continue" /\ KernelRuns(job.task)
       \/ Valid(job) /\ spc = "decline" /\ Declined(job.task)
    /\ Goto("recv") \/ (spc = "success" /\ Goto("maintain"))
    /\ job' = NoJob /\ grips' = {}
    /\ UNCHANGED <<call, kind, file, gen, parent, armed, wd, broker,
                   restricted, rootLock, counts>>

\* Retention runs between two notifications and purges under the root lock.
Maintain ==
    /\ spc = "maintain" /\ rootLock = None
    /\ Goto("recv")
    /\ UNCHANGED <<kernel, gen, parent, armed, job, grips, wd, broker,
                   restricted, rootLock, counts>>

\* The fallback without a store: receive and decline.
PassThrough(t) ==
    /\ spc = "passthrough" /\ task[t] = "queued"
    /\ Declined(t)
    /\ restricted' = (restricted \/ kind[t] = "restrict")
    /\ UNCHANGED <<call, kind, file, supervisor, wd, broker, rootLock, counts>>

\* The process ends; what it had received stays unanswered.
SupervisorEnds ==
    /\ Goto("none") /\ job' = NoJob /\ grips' = {}
    /\ Release
    /\ lost' = IF Valid(job) THEN lost \cup {job.call} ELSE lost
    /\ UNCHANGED <<kernel, gen, parent, armed, broker, restricted, calls>>

\* Killed, out of memory, or without a broker socket.
SupervisorDies ==
    /\ spc # "none" /\ deaths < MaxDeaths
    /\ deaths' = deaths + 1
    /\ SupervisorEnds
    /\ UNCHANGED wd

\* The death signal of a watchdog that has ended.
DeathSignal ==
    /\ spc # "none" /\ wd = "dead" /\ armed
    /\ SupervisorEnds
    /\ UNCHANGED <<wd, deaths>>

-----------------------------------------------------------------------------
(* The watchdog: supervise_loop().                                         *)

\* waitpid returns.  With no filtered task left there is nothing to watch.
Reap ==
    /\ wd = "wait" /\ spc = "none"
    /\ wd' = IF \A t \in Tasks : task[t] = "gone" THEN "dead" ELSE "drain"
    /\ UNCHANGED <<kernel, supervisor, broker, restricted, rootLock, counts>>

\* Decline what is pending; also the emergency passthrough.
Drain(t) ==
    /\ wd \in {"drain", "passthrough"} /\ task[t] = "queued"
    /\ Declined(t)
    /\ restricted' = (restricted \/ kind[t] = "restrict")
    /\ UNCHANGED <<call, kind, file, supervisor, wd, broker, rootLock, counts>>

\* Mutant of StopDraining: wait for the calls a dead supervisor had taken.
StopDrainingIdle ==
    /\ wd = "drain" /\ \A t \in Tasks : ~Waiting(t)
    /\ wd' = "sleep"
    /\ UNCHANGED <<kernel, supervisor, broker, restricted, rootLock, counts>>

\* Nothing is pending: back off for a moment.
StopDraining ==
    /\ wd = "drain" /\ \A t \in Tasks : task[t] # "queued"
    /\ wd' = "sleep"
    /\ UNCHANGED <<kernel, supervisor, broker, restricted, rootLock, counts>>

\* Mutant of Respawn: the Landlock bit lives in the supervisor's own memory.
RespawnForgetful ==
    /\ wd = "sleep" /\ spc = "none"
    /\ wd' = "wait"
    /\ Goto("forked") /\ gen' = gen + 1
    /\ armed' = FALSE /\ restricted' = FALSE
    /\ UNCHANGED <<kernel, parent, job, grips, broker, rootLock, counts>>

Respawn ==
    /\ wd = "sleep" /\ spc = "none"
    /\ wd' = "wait"
    /\ Goto("forked") /\ gen' = gen + 1
    /\ armed' = FALSE
    /\ UNCHANGED <<kernel, parent, job, grips, broker, restricted, rootLock, counts>>

ForkFails ==
    /\ wd = "sleep"
    /\ wd' = "passthrough"
    /\ UNCHANGED <<kernel, supervisor, broker, restricted, rootLock, counts>>

\* The emergency passthrough ends with the last filtered task.
PassthroughOver ==
    /\ wd = "passthrough" /\ \A t \in Tasks : task[t] = "gone"
    /\ wd' = "dead"
    /\ UNCHANGED <<kernel, supervisor, broker, restricted, rootLock, counts>>

\* The watchdog is killed, or told to end when the command has.
WatchdogDies ==
    /\ wd # "dead" /\ deaths < MaxDeaths
    /\ deaths' = deaths + 1
    /\ wd' = "dead"
    /\ UNCHANGED <<kernel, supervisor, broker, restricted, rootLock, calls, lost>>

TaskStep(t) ==
    \/ \E what \in {"delete", "restrict"} : Trap(t, what)
    \/ Interrupt(t) \/ Kill(t) \/ LockerLocks(t)

SupervisorStep ==
    \/ ReadParent \/ ArmDeathSignal \/ CompareParent \/ OpenStore
    \/ (\E t \in Tasks : Receive(t) \/ PassThrough(t))
    \/ SessionOver \/ Gate \/ Hear \/ PinTask \/ CheckCaller \/ RecheckCaller
    \/ LeaveToKernel \/ MayCommit \/ MoveFile \/ NoteRestriction \/ Answer

WatchdogStep ==
    \/ Reap \/ StopDraining \/ Respawn \/ PassthroughOver
    \/ \E t \in Tasks : Drain(t)

Next ==
    \/ \E t \in Tasks :
           TaskStep(t) \/ LockerUnlocks(t) \/ SelfTrash(t) \/ ListenerClosed(t)
    \/ SupervisorStep \/ LockRoot \/ Maintain \/ Refuse \/ Panic
    \/ SupervisorDies \/ DeathSignal
    \/ WatchdogStep \/ ForkFails \/ WatchdogDies
    \/ Serve

Spec == Init /\ [][Next]_vars

\* Supervisor, watchdog and orchestrator run on, a death signal arrives, who
\* waits for the root lock gets it, and tools finish what they hold it for.
SessionFairness ==
    /\ WF_vars(SupervisorStep) /\ WF_vars(WatchdogStep)
    /\ WF_vars(Serve) /\ WF_vars(DeathSignal)
    /\ SF_vars(LockRoot) /\ SF_vars(Maintain)
    /\ \A t \in Tasks :
           /\ WF_vars(LockerUnlocks(t)) /\ WF_vars(ListenerClosed(t))
           /\ SF_vars(SelfTrash(t))

FairSpec == Spec /\ SessionFairness

-----------------------------------------------------------------------------
(* Properties.                                                             *)

\* What the supervisor moves is what the caller named: every path and
\* descriptor it captured, through whichever process and socket, was read
\* from the blocked caller and not from a stranger under its number (#6, #92)
\* or from a reply meant for an earlier supervisor.
ActsOnCaller == spc \in Committing => grips = {job.file}

\* Once a task has confined itself, no deletion is done with the supervisor's
\* credentials any more, whichever process answered the confinement and
\* whatever died since (#390).
ConfinedUntouched == [][MoveFile => ~confined]_vars

\* A deletion that the preload handed over is never executed by the kernel,
\* unless policy wants that: it is trashed by one side or the other, through
\* every refusal, panic, drain and fallback (#349, #355).
DeferredKept ==
    \A f \in 1..MaxCalls : fate[f] = "deleted" =>
        f \in Excluded \/ \A t \in Deferring \ Bypassed : file[t] # f

\* Every call gets an answer, or its task ends, unless a supervisor died
\* with it: no failure path forgets a notification.
CallsAnswered ==
    \A t \in Tasks : Waiting(t) ~> (~Waiting(t) \/ call[t] \in lost)

\* Notifications are served again after a death, or nobody needs it.
ServiceReturns ==
    spc = "none" ~> spc \in {"recv", "passthrough"} \/ wd \in {"passthrough", "dead"}

\* "From this point, ALL code paths MUST send a response" (supervisor.rs):
\* no call of an undisturbed session waits for ever.
EveryCallAnswered == \A t \in Tasks : Waiting(t) ~> ~Waiting(t)

=============================================================================
