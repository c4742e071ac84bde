--------------------------- MODULE SessionStartup ---------------------------
(***************************************************************************)
(* How trashd-exec starts a protected command, or gives up and becomes the *)
(* unprotected one (run and wait_for_startup in                            *)
(* crates/trashd-seccomp/src/main.rs, the first steps of watchdog.rs and   *)
(* supervisor.rs).                                                         *)
(*                                                                         *)
(* The orchestrator forks a child, which installs its filter, sends the    *)
(* listener and waits; then a watchdog, whose supervisor reports that it   *)
(* protects.  Only then is the child released by one byte.  Any of them    *)
(* may fail, die or be late, and the user may send a signal.  A filter     *)
(* cannot be removed, so giving up means killing the child and executing   *)
(* the command in the orchestrator's own process.                          *)
(*                                                                         *)
(* What happens once the command runs is modelled in SeccompSession and    *)
(* JobWait.                                                                *)
(***************************************************************************)
EXTENDS Naturals

CONSTANTS
    MaxKills    \* bound: processes killed from outside during the startup

ASSUME StartupConstants == MaxKills \in Nat

VARIABLES
    orch,       \* the orchestrator's step
    stage,      \* which message wait_for_startup is called for
    seen,       \* that message's descriptor was readable when poll looked at it
    expired,    \* the 10 seconds of the current wait are over
    signal,     \* a job signal is pending in the signalfd
    child, filtered, released,
    watchdog, supervisor,
    listener,   \* what the child sent: nothing yet, its listener, or a refusal
    report,     \* what the supervisor side sent: nothing yet, ready, or failed
    starts,     \* how often the command was executed, by anybody
    answer,     \* what the orchestrator returns
    kills

tree == <<child, filtered, released, watchdog, supervisor>>
messages == <<listener, report>>
waiting == <<stage, seen, expired>>
vars == <<orch, waiting, signal, tree, messages, starts, answer, kills>>

TypeOK ==
    /\ orch \in {"fork", "scan", "decide", "recv", "probe", "spawn", "readiness",
                 "release", "wait", "teardown", "return", "giveup", "fallback", "done"}
    /\ stage \in {"listener", "ready"}
    /\ seen \in BOOLEAN /\ expired \in BOOLEAN /\ signal \in BOOLEAN
    /\ child \in {"none", "filter", "send", "blocked", "command", "zombie", "reaped"}
    /\ filtered \in BOOLEAN /\ released \in BOOLEAN
    /\ watchdog \in {"none", "starting", "watching", "zombie", "reaped"}
    /\ supervisor \in {"none", "setup", "protecting", "gone"}
    /\ listener \in {"none", "sent", "refused"} /\ report \in {"none", "ready", "failed"}
    /\ starts \in 0..2 /\ answer \in {"none", "signaled", "status", "fallback"}
    /\ kills \in 0..MaxKills
    /\ child \in {"command", "blocked"} => filtered
    /\ orch \in {"spawn", "readiness", "release"} => listener = "sent"
    /\ orch = "done" <=> answer # "none"

Init ==
    /\ orch = "fork" /\ stage = "listener"
    /\ seen = FALSE /\ expired = FALSE /\ signal = FALSE
    /\ child = "none" /\ filtered = FALSE /\ released = FALSE
    /\ watchdog = "none" /\ supervisor = "none"
    /\ listener = "none" /\ report = "none"
    /\ starts = 0 /\ answer = "none" /\ kills = 0

ChildGone == child \in {"none", "zombie", "reaped"}

\* ChildProcess::terminate: signal it and wait for it.
ReapChild == child' = IF child = "none" THEN "none" ELSE "reaped"
\* Only the watchdog is waited for: its supervisor ends on its own.
ReapWatchdog == watchdog' = IF watchdog = "none" THEN "none" ELSE "reaped"

-----------------------------------------------------------------------------
(* The child.                                                              *)

InstallFilter ==
    /\ child = "filter"
    /\ \/ child' = "send" /\ filtered' = TRUE /\ UNCHANGED listener
       \/ child' = "zombie" /\ listener' = "refused" /\ UNCHANGED filtered
    /\ UNCHANGED <<orch, waiting, signal, released, watchdog, supervisor, report,
                   starts, answer, kills>>

SendListener ==
    /\ child = "send"
    /\ \/ child' = "blocked" /\ listener' = "sent"
       \/ child' = "zombie" /\ UNCHANGED listener
    /\ UNCHANGED <<orch, waiting, signal, filtered, released, watchdog, supervisor,
                   report, starts, answer, kills>>

\* Only the byte lets it go on.
ExecCommand ==
    /\ child = "blocked" /\ released
    /\ child' = "command" /\ starts' = starts + 1
    /\ UNCHANGED <<orch, waiting, signal, filtered, released, watchdog, supervisor,
                   messages, answer, kills>>

CommandEnds ==
    /\ child = "command" /\ child' = "zombie"
    /\ UNCHANGED <<orch, waiting, signal, filtered, released, watchdog, supervisor,
                   messages, starts, answer, kills>>

-----------------------------------------------------------------------------
(* The watchdog and its supervisor.                                        *)

\* Without a supervisor the watchdog stays, to let every call through.
ForkSupervisor ==
    /\ watchdog = "starting"
    /\ watchdog' = "watching"
    /\ \/ supervisor' = "setup" /\ UNCHANGED report
       \/ report' = "failed" /\ UNCHANGED supervisor
    /\ UNCHANGED <<orch, waiting, signal, child, filtered, released, listener,
                   starts, answer, kills>>

ReportReady ==
    /\ supervisor = "setup"
    /\ \/ supervisor' = "protecting" /\ report' = "ready"
       \/ supervisor' = "gone" /\ report' = "failed"
    /\ UNCHANGED <<orch, waiting, signal, child, filtered, released, watchdog, listener,
                   starts, answer, kills>>

\* The watchdog passed TERM on, or there was a death signal; one that came before
\* the supervisor asked for it leaves the end of the filtered child's listener.
SupervisorEnds ==
    /\ supervisor \in {"setup", "protecting"} /\ watchdog \in {"zombie", "reaped"}
    /\ supervisor' = "gone"
    /\ UNCHANGED <<orch, waiting, signal, child, filtered, released, watchdog, messages,
                   starts, answer, kills>>

-----------------------------------------------------------------------------
(* The orchestrator.                                                       *)

Fork ==
    /\ orch = "fork"
    /\ \/ child' = "filter" /\ orch' = "scan"
       \/ UNCHANGED child /\ orch' = "giveup"
    /\ UNCHANGED <<waiting, signal, filtered, released, watchdog, supervisor, messages,
                   starts, answer, kills>>

\* The child's socket is also readable, at its end, once the child is gone; the
\* supervisor side's datagram socket says nothing of that.
Readable ==
    IF stage = "listener" THEN listener # "none" \/ ChildGone ELSE report # "none"

\* poll looks at the message's descriptor first, at the child's later.
ScanMessage ==
    /\ orch = "scan"
    /\ seen' = Readable
    /\ orch' = "decide"
    /\ UNCHANGED <<stage, expired, signal, tree, messages, starts, answer, kills>>

\* A signal ends the startup, whatever else is ready.
Cancelled ==
    /\ orch = "decide" /\ signal
    /\ signal' = FALSE
    /\ ReapChild
    /\ orch' = "return"
    /\ UNCHANGED <<waiting, filtered, released, watchdog, supervisor, messages,
                   starts, answer, kills>>

MessageArrived ==
    /\ orch = "decide" /\ ~signal /\ seen
    /\ orch' = IF stage = "listener" THEN "recv" ELSE "readiness"
    /\ UNCHANGED <<waiting, signal, tree, messages, starts, answer, kills>>

ChildDied ==
    /\ orch = "decide" /\ ~signal /\ ~seen /\ child = "zombie"
    /\ ReapChild
    /\ orch' = "teardown"
    /\ UNCHANGED <<waiting, signal, filtered, released, watchdog, supervisor,
                   messages, starts, answer, kills>>

\* A last look found nothing and the time is over.
TimedOut ==
    /\ orch = "decide" /\ ~signal /\ ~seen /\ ~ChildGone
    /\ expired
    /\ orch' = "giveup"
    /\ UNCHANGED <<waiting, signal, tree, messages, starts, answer, kills>>

\* poll sleeps until something is ready; it then looks again.
Wake ==
    /\ orch = "decide" /\ ~signal /\ ~seen /\ child # "zombie" /\ ~expired /\ Readable
    /\ orch' = "scan"
    /\ UNCHANGED <<waiting, signal, tree, messages, starts, answer, kills>>

\* A refusal or an end of file ends the startup.
ReceiveListener ==
    /\ orch = "recv"
    /\ orch' = IF listener = "sent" THEN "probe" ELSE "giveup"
    /\ UNCHANGED <<waiting, signal, tree, messages, starts, answer, kills>>

\* Memory and descriptors of the child must be accessible, and what the
\* watchdog needs must be there.
Probe ==
    /\ orch = "probe"
    /\ orch' \in {"spawn", "giveup"}
    /\ UNCHANGED <<waiting, signal, tree, messages, starts, answer, kills>>

SpawnWatchdog ==
    /\ orch = "spawn"
    /\ \/ /\ watchdog' = "starting" /\ orch' = "scan"
          /\ stage' = "ready" /\ seen' = FALSE /\ expired' = FALSE
       \/ orch' = "giveup" /\ UNCHANGED <<watchdog, waiting>>
    /\ UNCHANGED <<signal, child, filtered, released, supervisor, messages,
                   starts, answer, kills>>

\* Mutant of Readiness: any message will do.
AnyMessage ==
    /\ orch = "readiness"
    /\ orch' = "release"
    /\ UNCHANGED <<waiting, signal, tree, messages, starts, answer, kills>>

Readiness ==
    /\ orch = "readiness"
    /\ orch' = IF report = "ready" THEN "release" ELSE "giveup"
    /\ UNCHANGED <<waiting, signal, tree, messages, starts, answer, kills>>

\* Mutant of Release: what fails after the byte is a startup failure as well.
ReleaseThenFail ==
    /\ orch = "release"
    /\ orch' \in {"wait", "giveup"} /\ released' = TRUE
    /\ UNCHANGED <<waiting, signal, child, filtered, watchdog, supervisor, messages,
                   starts, answer, kills>>

\* A child that is gone has closed its end.
Release ==
    /\ orch = "release"
    /\ IF ChildGone THEN orch' = "giveup" /\ UNCHANGED released
       ELSE orch' = "wait" /\ released' = TRUE
    /\ UNCHANGED <<waiting, signal, child, filtered, watchdog, supervisor, messages,
                   starts, answer, kills>>

AwaitCommand ==
    /\ orch = "wait" /\ child = "zombie"
    /\ ReapChild
    /\ orch' = "teardown"
    /\ UNCHANGED <<waiting, signal, filtered, released, watchdog, supervisor, messages,
                   starts, answer, kills>>

\* Retire the watchdog, then return the status.
Teardown ==
    /\ orch = "teardown"
    /\ ReapWatchdog
    /\ orch' = "done" /\ answer' = "status"
    /\ UNCHANGED <<waiting, signal, child, filtered, released, supervisor, messages,
                   starts, kills>>

\* run returns the signal: the watchdog's owner drops it.
ReturnSignal ==
    /\ orch = "return"
    /\ ReapWatchdog
    /\ orch' = "done" /\ answer' = "signaled"
    /\ UNCHANGED <<waiting, signal, child, filtered, released, supervisor, messages,
                   starts, kills>>

\* Mutant of GiveUp: the child is left to see the end of its socket.
GiveUpLazily ==
    /\ orch = "giveup"
    /\ ReapWatchdog
    /\ orch' = "fallback"
    /\ UNCHANGED <<waiting, signal, child, filtered, released, supervisor, messages,
                   starts, answer, kills>>

\* The watchdog and the child are ended and reaped before the fallback.
GiveUp ==
    /\ orch = "giveup"
    /\ ReapWatchdog /\ ReapChild
    /\ orch' = "fallback"
    /\ UNCHANGED <<waiting, signal, filtered, released, supervisor, messages,
                   starts, answer, kills>>

\* Pending signals are delivered when the mask is restored: to the wrapper,
\* which is about to be the command, as they would have been without it.
Fallback ==
    /\ orch = "fallback"
    /\ orch' = "done"
    /\ \/ signal /\ answer' = "signaled" /\ UNCHANGED starts
       \/ ~signal /\ answer' = "fallback" /\ starts' = starts + 1
    /\ UNCHANGED <<waiting, signal, tree, messages, kills>>

-----------------------------------------------------------------------------
(* The environment.                                                        *)

Expire ==
    /\ orch \in {"scan", "decide"} /\ ~expired /\ expired' = TRUE
    /\ UNCHANGED <<orch, stage, seen, signal, tree, messages, starts, answer, kills>>

Signal ==
    /\ orch \notin {"wait", "teardown", "return", "done"} /\ ~signal /\ signal' = TRUE
    /\ UNCHANGED <<orch, waiting, tree, messages, starts, answer, kills>>

Killed ==
    /\ kills < MaxKills /\ kills' = kills + 1
    /\ \/ child \in {"filter", "send", "blocked"} /\ child' = "zombie"
          /\ UNCHANGED <<watchdog, supervisor>>
       \/ /\ watchdog \in {"starting", "watching"} /\ watchdog' = "zombie"
          /\ UNCHANGED <<child, supervisor>>
       \/ /\ supervisor \in {"setup", "protecting"} /\ supervisor' = "gone"
          /\ UNCHANGED <<child, watchdog>>
    /\ UNCHANGED <<orch, waiting, signal, filtered, released, messages, starts, answer>>

Child == InstallFilter \/ SendListener \/ ExecCommand \/ CommandEnds
Workers == ForkSupervisor \/ ReportReady \/ SupervisorEnds
Await ==
    \/ ScanMessage \/ Cancelled \/ MessageArrived \/ ChildDied \/ TimedOut \/ Wake
Orchestrate ==
    \/ Fork \/ Await \/ ReceiveListener \/ Probe \/ SpawnWatchdog \/ Readiness \/ Release
    \/ AwaitCommand \/ Teardown \/ ReturnSignal \/ GiveUp \/ Fallback

Next == Child \/ Workers \/ Orchestrate \/ Expire \/ Signal \/ Killed

Spec == Init /\ [][Next]_vars

\* Every process that can go on does, the command ends, and time passes.  The
\* supervisor side may hang for ever, but ends when its watchdog and the child have.
FairSpec ==
    /\ Spec
    /\ WF_vars(Child) /\ WF_vars(Orchestrate) /\ WF_vars(Expire)
    /\ WF_vars(ChildGone /\ SupervisorEnds)

-----------------------------------------------------------------------------
(* Properties.                                                             *)

\* The command is executed once at most: never by the child and by the
\* fallback, however late the child or the supervisor is.
StartedOnce == starts <= 1

\* The command begins as a filtered child only after its supervisor said that
\* it protects: without one its first deletion would hang.
StartsProtected ==
    [][child # "command" /\ child' = "command" => filtered /\ report = "ready"]_vars

\* Neither the child nor the watchdog is left when the wrapper is done, not even
\* as a zombie that the command would find among its children, and the supervisor
\* only without a watchdog; one that was cancelled never ran the command.
NothingLeft ==
    orch = "done" =>
        /\ child \in {"none", "reaped"} /\ watchdog \in {"none", "reaped"}
        /\ supervisor # "none" => watchdog = "reaped"
        /\ answer = "signaled" => starts = 0

\* The supervisor ends as well: by then there is nobody to reap it but the command
\* that the wrapper has become.
SupervisorGone == orch = "done" /\ supervisor \in {"none", "gone"}

=============================================================================
