------------------------ MODULE SessionStartupProofs ------------------------
(***************************************************************************)
(* The startup of a protected command, proved for any number of killed     *)
(* processes: it is executed once at most, behind a supervisor that said   *)
(* it protects, and only a dying supervisor outlives the wrapper. Then the *)
(* wait for its end, and the programs whose deletions are left alone.      *)
(***************************************************************************)
EXTENDS SessionStartup, TLAPS

\* The child is as far as what it sent says: before its listener was sent it
\* cannot be released, and once it is blocked or gone the message stays.
ChildInv ==
    /\ orch = "fork" => child = "none"
    /\ child = "none" => listener = "none"
    /\ child \in {"filter", "send"} => listener = "none"
    /\ child \in {"send", "blocked", "command"} => filtered
    /\ child = "command" => released
    /\ orch = "probe" => listener = "sent"
    /\ orch \in {"scan", "decide", "readiness", "release"} /\ stage = "ready" => listener = "sent"

\* The watchdog starts once, after the listener arrived; its supervisor
\* reports once, so that "ready" is never taken back.
WatchInv ==
    /\ orch \in {"fork", "recv", "probe", "spawn"} => watchdog = "none"
    /\ orch \in {"scan", "decide"} /\ stage = "listener" => watchdog = "none"
    /\ orch \in {"fork", "recv", "probe", "spawn"} => stage = "listener"
    /\ orch \in {"readiness", "release", "wait"} => stage = "ready"
    /\ watchdog \in {"none", "starting"} => report = "none" /\ supervisor = "none"
    /\ supervisor = "setup" => report = "none"
    /\ orch = "release" \/ released => report = "ready"

\* Who has executed the command.  The byte that lets the child go on is the
\* orchestrator's last word: after it there is no fallback.
StartInv ==
    /\ released => orch \in {"wait", "teardown", "done"} /\ answer \notin {"fallback", "signaled"}
    /\ ~released => starts = IF answer = "fallback" THEN 1 ELSE 0
    /\ released => starts <= 1
    /\ released /\ child \in {"filter", "send", "blocked"} => starts = 0

\* What has been ended stays ended.
EndInv ==
    /\ orch \in {"teardown", "return", "fallback", "done"} => child \in {"none", "reaped"}
    /\ orch \in {"fallback", "done"} => watchdog \in {"none", "reaped"}

IInv == TypeOK /\ ChildInv /\ WatchInv /\ StartInv /\ EndInv

-----------------------------------------------------------------------------
(* One lemma per conjunct.                                                 *)

\* Type correctness is preserved, with what it says of the steps.
LEMMA Types ==
  ASSUME TypeOK, ChildInv, StartInv, [Next]_vars
  PROVE  TypeOK'
<1> USE StartupConstants DEF TypeOK, ChildInv, StartInv, tree, messages, waiting
<1>1. CASE InstallFilter
  <2>1. filtered' \in BOOLEAN
    BY <1>1 DEF InstallFilter
  <2>2. /\ (child \in {"command", "blocked"} => filtered)'
        /\ (orch \in {"spawn", "readiness", "release"} => listener = "sent")'
        /\ (orch = "done" <=> answer # "none")'
    BY <1>1 DEF InstallFilter
  <2> QED
    BY <1>1, <2>1, <2>2 DEF InstallFilter
<1>2. CASE SendListener
  BY <1>2 DEF SendListener
<1>3. CASE ExecCommand
  BY <1>3 DEF ExecCommand
<1>4. CASE CommandEnds
  BY <1>4 DEF CommandEnds
<1>5. CASE ForkSupervisor
  BY <1>5 DEF ForkSupervisor
<1>6. CASE ReportReady
  BY <1>6 DEF ReportReady
<1>7. CASE Fork
  BY <1>7 DEF Fork
<1>8. CASE ScanMessage
  <2>1. seen' \in BOOLEAN
    BY <1>8 DEF ScanMessage, Readable, ChildGone
  <2>2. /\ (child \in {"command", "blocked"} => filtered)'
        /\ (orch \in {"spawn", "readiness", "release"} => listener = "sent")'
        /\ (orch = "done" <=> answer # "none")'
    BY <1>8 DEF ScanMessage, Readable, ChildGone
  <2> QED
    BY <1>8, <2>1, <2>2 DEF ScanMessage, Readable, ChildGone
<1>9. CASE Cancelled
  <2>1. signal' \in BOOLEAN
    BY <1>9 DEF Cancelled, ReapChild
  <2>2. /\ (child \in {"command", "blocked"} => filtered)'
        /\ (orch \in {"spawn", "readiness", "release"} => listener = "sent")'
        /\ (orch = "done" <=> answer # "none")'
    BY <1>9 DEF Cancelled, ReapChild
  <2> QED
    BY <1>9, <2>1, <2>2 DEF Cancelled, ReapChild
<1>10. CASE MessageArrived
  BY <1>10 DEF MessageArrived
<1>11. CASE ChildDied
  BY <1>11 DEF ChildDied, ReapChild
<1>12. CASE TimedOut
  BY <1>12 DEF TimedOut, ChildGone
<1>13. CASE Wake
  BY <1>13 DEF Wake, Readable, ChildGone
<1>14. CASE ReceiveListener
  BY <1>14 DEF ReceiveListener
<1>15. CASE Probe
  BY <1>15 DEF Probe
<1>16. CASE SpawnWatchdog
  BY <1>16 DEF SpawnWatchdog
<1>17. CASE Readiness
  BY <1>17 DEF Readiness
<1>18. CASE Release
  <2>1. released' \in BOOLEAN
    BY <1>18 DEF Release, ChildGone
  <2>2. /\ (child \in {"command", "blocked"} => filtered)'
        /\ (orch \in {"spawn", "readiness", "release"} => listener = "sent")'
        /\ (orch = "done" <=> answer # "none")'
    BY <1>18 DEF Release, ChildGone
  <2> QED
    BY <1>18, <2>1, <2>2 DEF Release, ChildGone
<1>19. CASE AwaitCommand
  BY <1>19 DEF AwaitCommand, ReapChild
<1>20. CASE Teardown
  BY <1>20 DEF Teardown, ReapWatchdog
<1>21. CASE ReturnSignal
  BY <1>21 DEF ReturnSignal, ReapWatchdog
<1>22. CASE GiveUp
  BY <1>22 DEF GiveUp, ReapChild, ReapWatchdog
<1>23. CASE Fallback
  BY <1>23 DEF Fallback
<1>24. CASE Expire
  BY <1>24 DEF Expire
<1>25. CASE Signal
  BY <1>25 DEF Signal
<1>26. CASE Killed
  BY <1>26 DEF Killed
<1>27. CASE UNCHANGED vars
  BY <1>27 DEF vars
<1>28. CASE SupervisorEnds
  BY <1>28 DEF SupervisorEnds
<1> QED
  BY <1>1, <1>2, <1>3, <1>4, <1>5, <1>6, <1>7, <1>8, <1>9, <1>10, <1>11, <1>12, <1>13, <1>14, <1>15, <1>16, <1>17, <1>18, <1>19, <1>20, <1>21, <1>22, <1>23, <1>24, <1>25, <1>26, <1>27, <1>28
     DEF Next, Child, Workers, Orchestrate, Await

\* What the child sent matches how far it is.
LEMMA Children ==
  ASSUME TypeOK, ChildInv, WatchInv, [Next]_vars
  PROVE  ChildInv'
<1> USE StartupConstants DEF TypeOK, ChildInv, WatchInv, tree, messages, waiting
<1>1. CASE InstallFilter
  BY <1>1 DEF InstallFilter
<1>2. CASE SendListener
  BY <1>2 DEF SendListener
<1>3. CASE ExecCommand
  BY <1>3 DEF ExecCommand
<1>4. CASE CommandEnds
  BY <1>4 DEF CommandEnds
<1>5. CASE ForkSupervisor
  BY <1>5 DEF ForkSupervisor
<1>6. CASE ReportReady
  BY <1>6 DEF ReportReady
<1>7. CASE Fork
  BY <1>7 DEF Fork
<1>8. CASE ScanMessage
  BY <1>8 DEF ScanMessage, Readable, ChildGone
<1>9. CASE Cancelled
  BY <1>9 DEF Cancelled, ReapChild
<1>10. CASE MessageArrived
  BY <1>10 DEF MessageArrived
<1>11. CASE ChildDied
  BY <1>11 DEF ChildDied, ReapChild
<1>12. CASE TimedOut
  BY <1>12 DEF TimedOut, ChildGone
<1>13. CASE Wake
  BY <1>13 DEF Wake, Readable, ChildGone
<1>14. CASE ReceiveListener
  BY <1>14 DEF ReceiveListener
<1>15. CASE Probe
  BY <1>15 DEF Probe
<1>16. CASE SpawnWatchdog
  BY <1>16 DEF SpawnWatchdog
<1>17. CASE Readiness
  BY <1>17 DEF Readiness
<1>18. CASE Release
  BY <1>18 DEF Release, ChildGone
<1>19. CASE AwaitCommand
  BY <1>19 DEF AwaitCommand, ReapChild
<1>20. CASE Teardown
  BY <1>20 DEF Teardown, ReapWatchdog
<1>21. CASE ReturnSignal
  BY <1>21 DEF ReturnSignal, ReapWatchdog
<1>22. CASE GiveUp
  BY <1>22 DEF GiveUp, ReapChild, ReapWatchdog
<1>23. CASE Fallback
  BY <1>23 DEF Fallback
<1>24. CASE Expire
  BY <1>24 DEF Expire
<1>25. CASE Signal
  BY <1>25 DEF Signal
<1>26. CASE Killed
  BY <1>26 DEF Killed
<1>27. CASE UNCHANGED vars
  BY <1>27 DEF vars
<1>28. CASE SupervisorEnds
  BY <1>28 DEF SupervisorEnds
<1> QED
  BY <1>1, <1>2, <1>3, <1>4, <1>5, <1>6, <1>7, <1>8, <1>9, <1>10, <1>11, <1>12, <1>13, <1>14, <1>15, <1>16, <1>17, <1>18, <1>19, <1>20, <1>21, <1>22, <1>23, <1>24, <1>25, <1>26, <1>27, <1>28
     DEF Next, Child, Workers, Orchestrate, Await

\* The watchdog is started once and its supervisor reports once.
LEMMA Watchers ==
  ASSUME TypeOK, ChildInv, WatchInv, StartInv, [Next]_vars
  PROVE  WatchInv'
<1> USE StartupConstants DEF TypeOK, ChildInv, WatchInv, StartInv, tree, messages, waiting
<1>1. CASE InstallFilter
  BY <1>1 DEF InstallFilter
<1>2. CASE SendListener
  BY <1>2 DEF SendListener
<1>3. CASE ExecCommand
  BY <1>3 DEF ExecCommand
<1>4. CASE CommandEnds
  BY <1>4 DEF CommandEnds
<1>5. CASE ForkSupervisor
  BY <1>5 DEF ForkSupervisor
<1>6. CASE ReportReady
  BY <1>6 DEF ReportReady
<1>7. CASE Fork
  BY <1>7 DEF Fork
<1>8. CASE ScanMessage
  BY <1>8 DEF ScanMessage, Readable, ChildGone
<1>9. CASE Cancelled
  BY <1>9 DEF Cancelled, ReapChild
<1>10. CASE MessageArrived
  BY <1>10 DEF MessageArrived
<1>11. CASE ChildDied
  BY <1>11 DEF ChildDied, ReapChild
<1>12. CASE TimedOut
  BY <1>12 DEF TimedOut, ChildGone
<1>13. CASE Wake
  BY <1>13 DEF Wake, Readable, ChildGone
<1>14. CASE ReceiveListener
  BY <1>14 DEF ReceiveListener
<1>15. CASE Probe
  BY <1>15 DEF Probe
<1>16. CASE SpawnWatchdog
  BY <1>16 DEF SpawnWatchdog
<1>17. CASE Readiness
  BY <1>17 DEF Readiness
<1>18. CASE Release
  BY <1>18 DEF Release, ChildGone
<1>19. CASE AwaitCommand
  BY <1>19 DEF AwaitCommand, ReapChild
<1>20. CASE Teardown
  BY <1>20 DEF Teardown, ReapWatchdog
<1>21. CASE ReturnSignal
  BY <1>21 DEF ReturnSignal, ReapWatchdog
<1>22. CASE GiveUp
  BY <1>22 DEF GiveUp, ReapChild, ReapWatchdog
<1>23. CASE Fallback
  BY <1>23 DEF Fallback
<1>24. CASE Expire
  BY <1>24 DEF Expire
<1>25. CASE Signal
  BY <1>25 DEF Signal
<1>26. CASE Killed
  BY <1>26 DEF Killed
<1>27. CASE UNCHANGED vars
  BY <1>27 DEF vars
<1>28. CASE SupervisorEnds
  BY <1>28 DEF SupervisorEnds
<1> QED
  BY <1>1, <1>2, <1>3, <1>4, <1>5, <1>6, <1>7, <1>8, <1>9, <1>10, <1>11, <1>12, <1>13, <1>14, <1>15, <1>16, <1>17, <1>18, <1>19, <1>20, <1>21, <1>22, <1>23, <1>24, <1>25, <1>26, <1>27, <1>28
     DEF Next, Child, Workers, Orchestrate, Await

\* Nobody else executes the command once somebody has.
LEMMA Starts ==
  ASSUME IInv, [Next]_vars
  PROVE  StartInv'
<1> USE StartupConstants DEF IInv, TypeOK, ChildInv, WatchInv, StartInv, EndInv, tree, messages, waiting
<1>1. CASE InstallFilter
  BY <1>1 DEF InstallFilter
<1>2. CASE SendListener
  BY <1>2 DEF SendListener
<1>3. CASE ExecCommand
  BY <1>3 DEF ExecCommand
<1>4. CASE CommandEnds
  BY <1>4 DEF CommandEnds
<1>5. CASE ForkSupervisor
  BY <1>5 DEF ForkSupervisor
<1>6. CASE ReportReady
  BY <1>6 DEF ReportReady
<1>7. CASE Fork
  BY <1>7 DEF Fork
<1>8. CASE ScanMessage
  BY <1>8 DEF ScanMessage, Readable, ChildGone
<1>9. CASE Cancelled
  BY <1>9 DEF Cancelled, ReapChild
<1>10. CASE MessageArrived
  BY <1>10 DEF MessageArrived
<1>11. CASE ChildDied
  BY <1>11 DEF ChildDied, ReapChild
<1>12. CASE TimedOut
  BY <1>12 DEF TimedOut, ChildGone
<1>13. CASE Wake
  BY <1>13 DEF Wake, Readable, ChildGone
<1>14. CASE ReceiveListener
  BY <1>14 DEF ReceiveListener
<1>15. CASE Probe
  BY <1>15 DEF Probe
<1>16. CASE SpawnWatchdog
  BY <1>16 DEF SpawnWatchdog
<1>17. CASE Readiness
  BY <1>17 DEF Readiness
<1>18. CASE Release
  BY <1>18 DEF Release, ChildGone
<1>19. CASE AwaitCommand
  BY <1>19 DEF AwaitCommand, ReapChild
<1>20. CASE Teardown
  BY <1>20 DEF Teardown, ReapWatchdog
<1>21. CASE ReturnSignal
  BY <1>21 DEF ReturnSignal, ReapWatchdog
<1>22. CASE GiveUp
  BY <1>22 DEF GiveUp, ReapChild, ReapWatchdog
<1>23. CASE Fallback
  BY <1>23 DEF Fallback
<1>24. CASE Expire
  BY <1>24 DEF Expire
<1>25. CASE Signal
  BY <1>25 DEF Signal
<1>26. CASE Killed
  BY <1>26 DEF Killed
<1>27. CASE UNCHANGED vars
  BY <1>27 DEF vars
<1>28. CASE SupervisorEnds
  BY <1>28 DEF SupervisorEnds
<1> QED
  BY <1>1, <1>2, <1>3, <1>4, <1>5, <1>6, <1>7, <1>8, <1>9, <1>10, <1>11, <1>12, <1>13, <1>14, <1>15, <1>16, <1>17, <1>18, <1>19, <1>20, <1>21, <1>22, <1>23, <1>24, <1>25, <1>26, <1>27, <1>28
     DEF Next, Child, Workers, Orchestrate, Await

\* Nothing that was ended is started again.
LEMMA Ends ==
  ASSUME IInv, [Next]_vars
  PROVE  EndInv'
<1> USE StartupConstants DEF IInv, TypeOK, ChildInv, StartInv, EndInv, WatchInv, tree, messages, waiting
<1>1. CASE InstallFilter
  BY <1>1 DEF InstallFilter
<1>2. CASE SendListener
  BY <1>2 DEF SendListener
<1>3. CASE ExecCommand
  BY <1>3 DEF ExecCommand
<1>4. CASE CommandEnds
  BY <1>4 DEF CommandEnds
<1>5. CASE ForkSupervisor
  BY <1>5 DEF ForkSupervisor
<1>6. CASE ReportReady
  BY <1>6 DEF ReportReady
<1>7. CASE Fork
  BY <1>7 DEF Fork
<1>8. CASE ScanMessage
  BY <1>8 DEF ScanMessage, Readable, ChildGone
<1>9. CASE Cancelled
  BY <1>9 DEF Cancelled, ReapChild
<1>10. CASE MessageArrived
  BY <1>10 DEF MessageArrived
<1>11. CASE ChildDied
  BY <1>11 DEF ChildDied, ReapChild
<1>12. CASE TimedOut
  BY <1>12 DEF TimedOut, ChildGone
<1>13. CASE Wake
  BY <1>13 DEF Wake, Readable, ChildGone
<1>14. CASE ReceiveListener
  BY <1>14 DEF ReceiveListener
<1>15. CASE Probe
  BY <1>15 DEF Probe
<1>16. CASE SpawnWatchdog
  BY <1>16 DEF SpawnWatchdog
<1>17. CASE Readiness
  BY <1>17 DEF Readiness
<1>18. CASE Release
  BY <1>18 DEF Release, ChildGone
<1>19. CASE AwaitCommand
  BY <1>19 DEF AwaitCommand, ReapChild
<1>20. CASE Teardown
  BY <1>20 DEF Teardown, ReapWatchdog
<1>21. CASE ReturnSignal
  BY <1>21 DEF ReturnSignal, ReapWatchdog
<1>22. CASE GiveUp
  BY <1>22 DEF GiveUp, ReapChild, ReapWatchdog
<1>23. CASE Fallback
  BY <1>23 DEF Fallback
<1>24. CASE Expire
  BY <1>24 DEF Expire
<1>25. CASE Signal
  BY <1>25 DEF Signal
<1>26. CASE Killed
  BY <1>26 DEF Killed
<1>27. CASE UNCHANGED vars
  BY <1>27 DEF vars
<1>28. CASE SupervisorEnds
  BY <1>28 DEF SupervisorEnds
<1> QED
  BY <1>1, <1>2, <1>3, <1>4, <1>5, <1>6, <1>7, <1>8, <1>9, <1>10, <1>11, <1>12, <1>13, <1>14, <1>15, <1>16, <1>17, <1>18, <1>19, <1>20, <1>21, <1>22, <1>23, <1>24, <1>25, <1>26, <1>27, <1>28
     DEF Next, Child, Workers, Orchestrate, Await

THEOREM Inductive == Spec => []IInv
<1>1. Init => IInv
  <2> SUFFICES ASSUME Init PROVE IInv
    OBVIOUS
  <2>1. TypeOK
    <3>1. /\ kills \in 0..MaxKills /\ starts \in 0..2
          /\ (orch = "done" <=> answer # "none")
      BY StartupConstants DEF Init
    <3> QED
      BY <3>1 DEF Init, TypeOK
  <2>2. ChildInv /\ WatchInv /\ StartInv /\ EndInv
    BY DEF Init, ChildInv, WatchInv, StartInv, EndInv
  <2> QED
    BY <2>1, <2>2 DEF IInv
<1>2. IInv /\ [Next]_vars => IInv'
  BY Types, Children, Watchers, Starts, Ends DEF IInv
<1> QED
  BY <1>1, <1>2, PTL DEF Spec

-----------------------------------------------------------------------------
(* The properties of the startup.                                          *)

\* The command is executed once at most, by the child or by the fallback,
\* however late or dead anybody is (run in crates/trashd-seccomp/src/main.rs).
THEOREM ExecutedOnce == Spec => []StartedOnce
<1>1. IInv => StartedOnce
  BY DEF IInv, TypeOK, StartInv, StartedOnce
<1> QED
  BY Inductive, <1>1, PTL

\* When the wrapper is done, neither the child nor the watchdog of the attempt is
\* left, nor a supervisor with a watchdog, and after a signal nobody has executed
\* the command.
THEOREM LeavesNothing == Spec => []NothingLeft
<1>1. IInv => NothingLeft
  BY DEF IInv, TypeOK, WatchInv, StartInv, EndInv, NothingLeft
<1> QED
  BY Inductive, <1>1, PTL

\* The child becomes the command only under its filter and behind a supervisor
\* that has reported ready (wait_for_startup).
THEOREM ProtectedFromTheStart == Spec => StartsProtected
<1> DEFINE Begins == child # "command" /\ child' = "command"
<1>1. IInv /\ [Next]_vars => [Begins => filtered /\ report = "ready"]_vars
  <2> SUFFICES ASSUME IInv, Next, Begins
               PROVE  filtered /\ report = "ready"
    OBVIOUS
  <2>1. ExecCommand
    BY DEF Next, Child, Workers, Orchestrate, Await, Begins, InstallFilter, SendListener, SupervisorEnds,
           CommandEnds, ForkSupervisor, ReportReady, Fork, ScanMessage, Cancelled, MessageArrived,
           ChildDied, TimedOut, Wake, ReceiveListener, Probe, SpawnWatchdog, Readiness, Release,
           AwaitCommand, Teardown, ReturnSignal, GiveUp, Fallback, Expire, Signal, Killed,
           ReapChild, tree, messages, waiting
  <2> QED
    BY <2>1 DEF ExecCommand, IInv, TypeOK, WatchInv
<1> QED
  BY Inductive, <1>1, PTL DEF Spec, StartsProtected

-----------------------------------------------------------------------------
(* The wait for the command and everything it leaves behind, for any number  *)
(* of processes, descriptors and signals.                                    *)

CONSTANTS Pids, Command, Daemons, MaxFds, MaxSignals
VARIABLES
  life, parent, inbox, got, broker, pc, refresh, todo, reaped, targets, untracked, parked, fired,
  pending, status, sent, forwarded

J == INSTANCE JobWait

Lives == {"unborn", "live", "held", "zombie", "reaped"}
Alive == {p \in Pids : life[p] \notin {"unborn", "reaped"}}

Tables ==
  /\ life \in [Pids -> Lives]
  /\ parent \in [Pids -> Pids \cup {J!Orchestrator}] /\ got \in [Pids -> Nat]
Tracking == todo \subseteq Pids /\ targets \subseteq Pids /\ untracked \subseteq Pids

\* A process has a live parent or the orchestrator, and whoever goes up the
\* tree comes to the orchestrator.
Parents ==
  \A p \in Pids : parent[p] # J!Orchestrator => life[parent[p]] = "live" /\ life[p] # "unborn"
Rooted == \A S \in SUBSET Pids : S # {} => \E p \in S : parent[p] \notin S
\* Whoever is asked for or watched is a child of the orchestrator.
Adopted ==
  \A p \in todo \cup targets \cup untracked \cup {Command} :
     parent[p] = J!Orchestrator /\ life[p] # "unborn"
\* While anybody is left and nothing was reaped since the list was made, one of
\* the orchestrator's children is still to be asked or is watched.
Watched ==
  /\ pc = "reap" /\ ~reaped /\ Alive # {} => (todo \cap J!Ours) \cup targets \cup untracked # {}
  /\ pc = "returned" => Alive = {}
\* Before the command has ended, INT is never pending.
Ints ==
  /\ "INT" \in pending => status
  /\ ~status => \A p \in Pids : got[p] = 0 \/ (got[p] = 1 /\ "INT" \in sent)

Waits == Tables /\ Tracking /\ Parents /\ Rooted /\ Adopted /\ Watched /\ Ints /\ J!DaemonsSpared

\* Every action by its name.
LEMMA JobSteps ==
  ASSUME [J!Next]_(J!vars)
  PROVE  \/ J!ListChildren \/ (\E p \in Pids : J!ReapOne(p)) \/ J!Conclude \/ J!Forward \/ J!Poll
         \/ (\E p, c \in Pids : J!ForkChild(p, c))
         \/ (\E p \in Pids : J!Exit(p) \/ J!Detach(p) \/ J!ReapedInside(p))
         \/ J!BrokerCloses \/ (\E sig \in J!JobSignals : J!Send(sig)) \/ UNCHANGED J!vars
BY DEF J!Next, J!Wait, J!Processes

\* What no step but those of the processes and the reaping touches.
LEMMA TreeKept ==
  ASSUME J!ListChildren \/ J!Conclude \/ J!Forward \/ J!Poll \/ J!BrokerCloses
           \/ (\E sig \in J!JobSignals : J!Send(sig)) \/ UNCHANGED J!vars
  PROVE  UNCHANGED <<life, parent, targets, untracked, status>>
BY DEF J!ListChildren, J!Conclude, J!Forward, J!Poll, J!BrokerCloses, J!Send, J!vars, J!kernel,
       J!known, J!loop

\* The process that forks, exits, is let go of or is waited for: what changes
\* is its life and, of the others, at most the parent.
LEMMA ProcessKept ==
  ASSUME \/ \E p, c \in Pids : J!ForkChild(p, c)
         \/ \E p \in Pids : J!Exit(p) \/ J!Detach(p) \/ J!ReapedInside(p)
  PROVE  UNCHANGED <<got, pc, reaped, todo, targets, untracked, pending, status, sent, forwarded>>
BY DEF J!ForkChild, J!Exit, J!Detach, J!ReapedInside, J!known, J!loop

\* Types of the process table, the parents and the counts.
LEMMA TablesNext ==
  ASSUME Tables, [J!Next]_(J!vars)
  PROVE  Tables'
<1>1. CASE \E p, c \in Pids : J!ForkChild(p, c)
  BY <1>1 DEF J!ForkChild, Tables, Lives
<1>2. CASE \E p \in Pids : J!Exit(p)
  <2>1. PICK p \in Pids : J!Exit(p)
    BY <1>2
  <2>2. life' \in [Pids -> Lives]
    BY <2>1 DEF J!Exit, Tables, Lives
  <2>3. parent' \in [Pids -> Pids \cup {J!Orchestrator}]
    BY <2>1 DEF J!Exit, Tables
  <2> QED
    BY <2>1, <2>2, <2>3 DEF J!Exit, Tables
<1>3. CASE \E p \in Pids : J!Detach(p) \/ J!ReapedInside(p)
  BY <1>3 DEF J!Detach, J!ReapedInside, Tables, Lives
<1>4. CASE \E p \in Pids : J!ReapOne(p)
  BY <1>4 DEF J!ReapOne, Tables, Lives
<1>5. CASE J!Forward
  <2>1. got' \in [Pids -> Nat]
    BY <1>5 DEF J!Forward, Tables
  <2> QED
    BY <2>1, <1>5, TreeKept DEF Tables
<1>6. CASE \E sig \in J!JobSignals : J!Send(sig)
  <2>1. got' \in [Pids -> Nat]
    BY <1>6 DEF J!Send, Tables
  <2> QED
    BY <2>1, <1>6, TreeKept DEF Tables
<1>7. CASE J!ListChildren \/ J!Conclude \/ J!Poll \/ J!BrokerCloses \/ UNCHANGED J!vars
  <2>1. UNCHANGED got
    BY <1>7 DEF J!ListChildren, J!Conclude, J!Poll, J!BrokerCloses, J!vars
  <2> QED
    BY <2>1, <1>7, TreeKept DEF Tables
<1> QED
  BY <1>1, <1>2, <1>3, <1>4, <1>5, <1>6, <1>7, JobSteps

\* What the loop keeps of processes.
LEMMA TrackingNext ==
  ASSUME J!JobAssumption, Tracking, [J!Next]_(J!vars)
  PROVE  Tracking'
<1>1. CASE \E p \in Pids : J!ReapOne(p)
  BY <1>1 DEF J!ReapOne, Tracking
<1>2. CASE J!ListChildren
  BY <1>2, TreeKept DEF J!ListChildren, J!Ours, J!JobAssumption, Tracking
<1>3. CASE J!Conclude \/ J!Forward \/ J!Poll \/ J!BrokerCloses
             \/ (\E sig \in J!JobSignals : J!Send(sig)) \/ UNCHANGED J!vars
  <2>1. UNCHANGED todo
    BY <1>3 DEF J!Conclude, J!Forward, J!Poll, J!BrokerCloses, J!Send, J!vars, J!loop
  <2> QED
    BY <2>1, <1>3, TreeKept DEF Tracking
<1> QED
  BY <1>1, <1>2, <1>3, JobSteps, ProcessKept DEF Tracking

\* What Exit makes of the parents: an orphan is the orchestrator's, another
\* process keeps its own.
LEMMA ExitParents ==
  ASSUME Tables, NEW p \in Pids, J!Exit(p), NEW q \in Pids
  PROVE  /\ parent'[q] = IF parent[q] = p /\ life[q] # "unborn" THEN J!Orchestrator ELSE parent[q]
         /\ life[p] = "live" /\ life'[p] \in {"zombie", "held"}
         /\ q # p => life'[q] = life[q]
BY DEF J!Exit, Tables

\* What a fork does.
LEMMA ForkParents ==
  ASSUME Tables, NEW p \in Pids, NEW c \in Pids, J!ForkChild(p, c), NEW q \in Pids
  PROVE  /\ life[p] = "live" /\ life[c] = "unborn" /\ life'[c] = "live" /\ parent'[c] = p
         /\ q # c => life'[q] = life[q] /\ parent'[q] = parent[q]
BY DEF J!ForkChild, Tables

\* What the other steps of the tree do.
LEMMA EndedKept ==
  ASSUME Tables, NEW p \in Pids, J!Detach(p) \/ J!ReapedInside(p) \/ J!ReapOne(p), NEW q \in Pids
  PROVE  /\ parent' = parent
         /\ life'[q] = life[q] \/ (life[q] # "live" /\ life[q] # "unborn" /\ life'[q] # "live" /\ life'[q] # "unborn")
BY DEF J!Detach, J!ReapedInside, J!ReapOne, Tables

\* Who forks is alive, and who exits leaves no child behind.
LEMMA ParentsNext ==
  ASSUME J!JobAssumption, Tables, Parents, [J!Next]_(J!vars)
  PROVE  Parents'
<1>1. ASSUME NEW p \in Pids, NEW c \in Pids, J!ForkChild(p, c)
      PROVE  Parents'
  <2> SUFFICES ASSUME NEW q \in Pids, parent'[q] # J!Orchestrator
               PROVE  life'[parent'[q]] = "live" /\ life'[q] # "unborn"
    BY DEF Parents
  <2>1. CASE q = c
    BY <1>1, <2>1, ForkParents
  <2>2. CASE q # c
    <3>1. parent'[q] = parent[q] /\ parent[q] \in Pids
      BY <1>1, <2>2, ForkParents DEF Tables
    <3>2. life[parent[q]] = "live" /\ life[c] = "unborn" /\ life[q] # "unborn"
      BY <1>1, <3>1, ForkParents DEF Parents
    <3> QED
      BY <1>1, <3>1, <3>2, ForkParents
  <2> QED
    BY <2>1, <2>2
<1>2. ASSUME NEW p \in Pids, J!Exit(p)
      PROVE  Parents'
  <2> SUFFICES ASSUME NEW q \in Pids, parent'[q] # J!Orchestrator
               PROVE  life'[parent'[q]] = "live" /\ life'[q] # "unborn"
    BY DEF Parents
  <2>1. parent'[q] = parent[q] /\ parent[q] \in Pids
    BY <1>2, ExitParents DEF Tables
  <2>2. life[parent[q]] = "live" /\ life[q] # "unborn"
    BY <2>1 DEF Parents
  <2>3. parent[q] # p /\ life[q] # "unborn"
    BY <1>2, <2>1, ExitParents DEF Parents
  <2> QED
    BY <1>2, <2>1, <2>2, <2>3, ExitParents
<1>3. ASSUME NEW p \in Pids, J!Detach(p) \/ J!ReapedInside(p) \/ J!ReapOne(p)
      PROVE  Parents'
  <2> SUFFICES ASSUME NEW q \in Pids, parent'[q] # J!Orchestrator
               PROVE  life'[parent'[q]] = "live" /\ life'[q] # "unborn"
    BY DEF Parents
  <2>1. parent'[q] = parent[q] /\ parent[q] \in Pids
    BY <1>3, EndedKept DEF Tables
  <2> QED
    BY <1>3, <2>1, EndedKept DEF Parents
<1>4. CASE UNCHANGED <<life, parent>>
  BY <1>4 DEF Parents
<1> QED
  BY <1>1, <1>2, <1>3, <1>4, JobSteps, TreeKept

\* A new process has no children and an orphan has the orchestrator: no step
\* closes a circle.
LEMMA RootedNext ==
  ASSUME J!JobAssumption, Tables, Parents, Rooted, [J!Next]_(J!vars)
  PROVE  Rooted'
<1>1. ASSUME NEW p \in Pids, NEW c \in Pids, J!ForkChild(p, c)
      PROVE  Rooted'
  <2> SUFFICES ASSUME NEW S \in SUBSET Pids, S # {}, \A q \in S : parent'[q] \in S
               PROVE  FALSE
    BY DEF Rooted
  <2>1. CASE c \notin S
    <3>1. \A q \in S : parent'[q] = parent[q]
      BY <1>1, <2>1, ForkParents
    <3> QED
      BY <3>1 DEF Rooted
  <2>2. CASE c \in S
    <3> DEFINE T == S \ {c}
    <3>1. p \in T
      BY <1>1, <2>2, ForkParents
    <3>2. \A q \in T : parent[q] \in T
      <4> TAKE q \in T
      <4>1. parent[q] = parent'[q] /\ parent[q] \in Pids
        BY <1>1, ForkParents
      <4>2. life[parent[q]] = "live" /\ life[c] = "unborn"
        BY <1>1, <4>1, ForkParents DEF Parents, J!JobAssumption
      <4> QED
        BY <4>1, <4>2
    <3> QED
      BY <3>1, <3>2 DEF Rooted
  <2> QED
    BY <2>1, <2>2
<1>2. ASSUME NEW p \in Pids, J!Exit(p)
      PROVE  Rooted'
  <2> SUFFICES ASSUME NEW S \in SUBSET Pids, S # {}, \A q \in S : parent'[q] \in S
               PROVE  FALSE
    BY DEF Rooted
  <2>1. \A q \in S : parent'[q] = parent[q]
    BY <1>2, ExitParents DEF J!JobAssumption
  <2> QED
    BY <2>1 DEF Rooted
<1>3. CASE UNCHANGED parent
  BY <1>3 DEF Rooted
<1>4. ASSUME NEW p \in Pids, J!Detach(p) \/ J!ReapedInside(p) \/ J!ReapOne(p)
      PROVE  UNCHANGED parent
  BY <1>4 DEF J!Detach, J!ReapedInside, J!ReapOne
<1> QED
  BY <1>1, <1>2, <1>3, <1>4, JobSteps, TreeKept

\* Whoever the loop knows was listed as its child, and stays one.
LEMMA AdoptedNext ==
  ASSUME J!JobAssumption, Tables, Tracking, Parents, Adopted, [J!Next]_(J!vars)
  PROVE  Adopted'
<1> DEFINE mine == todo \cup targets \cup untracked \cup {Command}
<1>1. mine \subseteq Pids
  BY DEF Tracking, J!JobAssumption
<1>2. ASSUME NEW p \in Pids, NEW c \in Pids, J!ForkChild(p, c)
      PROVE  Adopted'
  <2>1. mine' = mine
    BY <1>2, ProcessKept
  <2>2. \A q \in mine : q # c
    BY <1>1, <1>2, ForkParents DEF Adopted
  <2>3. \A q \in mine : parent'[q] = parent[q] /\ life'[q] = life[q]
    BY <1>1, <1>2, <2>2, ForkParents
  <2> QED
    BY <2>1, <2>3 DEF Adopted
<1>3. ASSUME NEW p \in Pids, J!Exit(p)
      PROVE  Adopted'
  <2>1. mine' = mine
    BY <1>3, ProcessKept
  <2>2. \A q \in mine : parent'[q] = J!Orchestrator /\ life'[q] # "unborn"
    BY <1>1, <1>3, ExitParents DEF Adopted
  <2> QED
    BY <2>1, <2>2 DEF Adopted
<1>4. ASSUME NEW p \in Pids, J!Detach(p) \/ J!ReapedInside(p)
      PROVE  Adopted'
  <2>1. mine' = mine
    BY <1>4, ProcessKept
  <2>2. \A q \in mine : parent'[q] = parent[q] /\ life'[q] # "unborn"
    BY <1>1, <1>4, EndedKept DEF Adopted
  <2> QED
    BY <2>1, <2>2 DEF Adopted
<1>5. ASSUME NEW p \in Pids, J!ReapOne(p)
      PROVE  Adopted'
  <2>1. mine' \subseteq mine
    BY <1>5 DEF J!ReapOne
  <2>2. \A q \in mine : parent'[q] = parent[q] /\ life'[q] # "unborn"
    BY <1>1, <1>5, EndedKept DEF Adopted
  <2> QED
    BY <2>1, <2>2 DEF Adopted
<1>6. CASE J!ListChildren
  <2>1. mine' \subseteq mine \cup J!Ours
    BY <1>6, TreeKept DEF J!ListChildren
  <2>2. UNCHANGED <<life, parent>>
    BY <1>6, TreeKept
  <2>3. \A q \in J!Ours : parent[q] = J!Orchestrator /\ life[q] # "unborn"
    BY DEF J!Ours
  <2> QED
    BY <2>1, <2>2, <2>3 DEF Adopted
<1>7. CASE J!Conclude \/ J!Forward \/ J!Poll \/ J!BrokerCloses
             \/ (\E sig \in J!JobSignals : J!Send(sig)) \/ UNCHANGED J!vars
  <2>1. UNCHANGED todo
    BY <1>7 DEF J!Conclude, J!Forward, J!Poll, J!BrokerCloses, J!Send, J!vars, J!loop
  <2> QED
    BY <2>1, <1>7, TreeKept DEF Adopted
<1> QED
  BY <1>2, <1>3, <1>4, <1>5, <1>6, <1>7, JobSteps

\* If anybody is left, somebody is who has the orchestrator for a parent.
LEMMA SomebodyOurs ==
  ASSUME J!JobAssumption, Tables, Parents, Rooted, Alive # {}
  PROVE  J!Ours # {}
<1>1. PICK p \in Alive : parent[p] \notin Alive
  BY DEF Rooted, Alive
<1>2. parent[p] = J!Orchestrator
  <2> SUFFICES ASSUME parent[p] # J!Orchestrator PROVE FALSE
    OBVIOUS
  <2>1. parent[p] \in Pids /\ life[parent[p]] = "live"
    BY DEF Alive, Tables, Parents
  <2> QED
    BY <1>1, <2>1 DEF Alive
<1>3. life[p] \in {"live", "held", "zombie"}
  BY DEF Alive, Tables, Lives
<1> QED
  BY <1>2, <1>3 DEF J!Ours, Alive

\* Nobody is lost to the loop: not when it asks, and not when the tree changes.
LEMMA WatchedNext ==
  ASSUME J!JobAssumption, Tables, Tracking, Parents, Rooted, Adopted, Watched, [J!Next]_(J!vars)
  PROVE  Watched'
<1>1. ASSUME NEW p \in Pids, NEW c \in Pids, J!ForkChild(p, c)
      PROVE  Watched'
  <2>1. p \in Alive
    BY <1>1, ForkParents DEF Alive
  <2>2. J!Ours \subseteq J!Ours'
    <3> SUFFICES ASSUME NEW q \in J!Ours PROVE q \in J!Ours'
      OBVIOUS
    <3>1. q \in Pids /\ q # c
      BY <1>1, ForkParents DEF J!Ours
    <3> QED
      BY <1>1, <3>1, ForkParents DEF J!Ours
  <2>3. UNCHANGED <<pc, reaped, todo, targets, untracked>>
    BY <1>1, ProcessKept
  <2> QED
    BY <2>1, <2>2, <2>3 DEF Watched
<1>2. ASSUME NEW p \in Pids, J!Exit(p)
      PROVE  Watched'
  <2>1. p \in Alive
    BY <1>2, ExitParents DEF Alive
  <2>2. J!Ours \subseteq J!Ours'
    <3> SUFFICES ASSUME NEW q \in J!Ours PROVE q \in J!Ours'
      OBVIOUS
    <3>1. q \in Pids /\ parent'[q] = J!Orchestrator
      BY <1>2, ExitParents DEF J!Ours
    <3>2. life'[q] \in {"live", "held", "zombie"}
      BY <1>2, <3>1, ExitParents DEF J!Ours
    <3> QED
      BY <3>1, <3>2 DEF J!Ours
  <2>3. UNCHANGED <<pc, reaped, todo, targets, untracked>>
    BY <1>2, ProcessKept
  <2> QED
    BY <2>1, <2>2, <2>3 DEF Watched
<1>3. ASSUME NEW p \in Pids, J!Detach(p) \/ J!ReapedInside(p)
      PROVE  Watched'
  <2>1. Alive' \subseteq Alive
    BY <1>3 DEF J!Detach, J!ReapedInside, Alive, Tables
  <2>2. J!Ours \subseteq J!Ours'
    BY <1>3 DEF J!Detach, J!ReapedInside, J!Ours, Tables
  <2>3. UNCHANGED <<pc, reaped, todo, targets, untracked>>
    BY <1>3, ProcessKept
  <2> QED
    BY <2>1, <2>2, <2>3 DEF Watched
<1>4. ASSUME NEW p \in Pids, J!ReapOne(p)
      PROVE  Watched'
  <2>1. pc' = "reap"
    BY <1>4 DEF J!ReapOne
  <2>2. CASE reaped' = TRUE
    BY <2>1, <2>2 DEF Watched
  <2>3. CASE p \in targets' \cup untracked'
    BY <2>1, <2>3 DEF Watched
  <2> QED
    BY <1>4, <2>2, <2>3 DEF J!ReapOne
<1>5. CASE J!ListChildren
  <2>1. UNCHANGED <<life, parent>> /\ pc' = "reap" /\ J!Ours \subseteq todo'
    BY <1>5, TreeKept DEF J!ListChildren
  <2>2. Alive' = Alive /\ J!Ours' = J!Ours
    BY <2>1 DEF Alive, J!Ours
  <2> QED
    BY <2>1, <2>2, SomebodyOurs DEF Watched
<1>6. CASE J!Conclude
  <2>1. UNCHANGED <<life, parent>>
    BY <1>6, TreeKept
  <2>2. Alive' = Alive
    BY <2>1 DEF Alive
  <2>3. pc' # "reap" /\ (pc' = "returned" => pc = "reap" /\ ~reaped /\ todo = {} /\ targets = {} /\ untracked = {})
    BY <1>6 DEF J!Conclude
  <2> QED
    BY <2>2, <2>3 DEF Watched
<1>7. CASE J!Forward \/ J!Poll
  BY <1>7 DEF J!Forward, J!Poll, Watched
<1>8. CASE J!BrokerCloses \/ (\E sig \in J!JobSignals : J!Send(sig)) \/ UNCHANGED J!vars
  <2>1. UNCHANGED <<life, parent, pc, reaped, todo, targets, untracked>>
    BY <1>8, TreeKept DEF J!BrokerCloses, J!Send, J!vars, J!loop
  <2> QED
    BY <2>1 DEF Watched, Alive, J!Ours
<1> QED
  BY <1>1, <1>2, <1>3, <1>4, <1>5, <1>6, <1>7, <1>8, JobSteps

\* What poll takes from the signalfd is pending only if it may be sent.
LEMMA IntsNext ==
  ASSUME Tables, Ints, [J!Next]_(J!vars)
  PROVE  Ints'
<1>1. CASE J!Poll
  <2>1. UNCHANGED <<got, status, sent>> /\ ("INT" \in pending' => status)
    BY <1>1 DEF J!Poll, J!Forwardable
  <2> QED
    BY <2>1 DEF Ints
<1>2. CASE J!Forward
  <2>1. pending' = {} /\ UNCHANGED <<status, sent>>
    BY <1>2 DEF J!Forward
  <2>2. ASSUME ~status, NEW p \in Pids PROVE got'[p] = got[p]
    BY <1>2, <2>2 DEF J!Forward, Ints
  <2> QED
    BY <2>1, <2>2 DEF Ints
<1>3. ASSUME NEW sig \in J!JobSignals, J!Send(sig)
      PROVE  Ints'
  <2>1. UNCHANGED <<pending, status>> /\ sig \notin sent /\ sent' = sent \cup {sig}
    BY <1>3 DEF J!Send
  <2>2. CASE sig # "INT"
    <3>1. UNCHANGED got
      BY <1>3, <2>2 DEF J!Send
    <3> QED
      BY <2>1, <3>1 DEF Ints
  <2>3. CASE sig = "INT"
    <3>1. \A p \in Pids : got'[p] \in {got[p], got[p] + 1}
      BY <1>3, <2>3 DEF J!Send
    <3>2. ~status => \A p \in Pids : got[p] = 0
      BY <2>1, <2>3 DEF Ints
    <3>3. ~status => \A p \in Pids : got'[p] = 0 \/ got'[p] = 1
      BY <3>1, <3>2
    <3> QED
      BY <2>1, <2>3, <3>3 DEF Ints
  <2> QED
    BY <2>2, <2>3
<1>4. ASSUME NEW p \in Pids, J!ReapOne(p)
      PROVE  Ints'
  <2>1. UNCHANGED <<got, pending, sent>>
    BY <1>4 DEF J!ReapOne
  <2>2. status' = (status \/ p = Command) \/ status' = status
    BY <1>4 DEF J!ReapOne
  <2>3. status => status'
    BY <2>2
  <2> QED
    BY <2>1, <2>3 DEF Ints
<1>5. CASE J!ListChildren \/ J!Conclude \/ J!BrokerCloses \/ UNCHANGED J!vars
  <2>1. UNCHANGED <<got, pending, status, sent>>
    BY <1>5 DEF J!ListChildren, J!Conclude, J!BrokerCloses, J!vars
  <2> QED
    BY <2>1 DEF Ints
<1> QED
  BY <1>1, <1>2, <1>3, <1>4, <1>5, JobSteps, ProcessKept DEF Ints

\* No signal is forwarded to a daemon.
LEMMA SparedNext ==
  ASSUME J!JobAssumption, J!DaemonsSpared, [J!Next]_(J!vars)
  PROVE  J!DaemonsSpared'
<1>1. CASE J!Forward
  <2>1. forwarded' = pending \X J!Recipients
    BY <1>1 DEF J!Forward
  <2>2. J!Recipients \cap Daemons = {}
    BY DEF J!Recipients, J!JobAssumption
  <2> QED
    BY <2>1, <2>2 DEF J!DaemonsSpared
<1>2. CASE J!ListChildren \/ (\E p \in Pids : J!ReapOne(p)) \/ J!Conclude \/ J!Poll \/ J!BrokerCloses
             \/ (\E sig \in J!JobSignals : J!Send(sig)) \/ UNCHANGED J!vars
  <2>1. UNCHANGED forwarded
    BY <1>2 DEF J!ListChildren, J!ReapOne, J!Conclude, J!Poll, J!BrokerCloses, J!Send, J!vars
  <2> QED
    BY <2>1 DEF J!DaemonsSpared
<1> QED
  BY <1>1, <1>2, JobSteps, ProcessKept DEF J!DaemonsSpared

\* The wait keeps its invariant (wait_for_children in
\* crates/trashd-seccomp/src/main.rs).
THEOREM WaitsInductive == ASSUME J!JobAssumption PROVE J!Spec => []Waits
<1>1. J!Init => Waits
  <2> SUFFICES ASSUME J!Init PROVE Waits
    OBVIOUS
  <2>1. Tables /\ Tracking
    BY DEF J!Init, Tables, Tracking, Lives, J!JobAssumption
  <2>2. Parents /\ Adopted
    BY DEF J!Init, Parents, Adopted, J!JobAssumption
  <2>3. Rooted
    BY DEF J!Init, Rooted, J!JobAssumption
  <2>4. Watched /\ Ints /\ J!DaemonsSpared
    BY DEF J!Init, Watched, Ints, J!DaemonsSpared
  <2> QED
    BY <2>1, <2>2, <2>3, <2>4 DEF Waits
<1>2. Waits /\ [J!Next]_(J!vars) => Waits'
  BY TablesNext, TrackingNext, ParentsNext, RootedNext, AdoptedNext, WatchedNext, IntsNext, SparedNext
     DEF Waits
<1> QED
  BY <1>1, <1>2, PTL DEF J!Spec

\* The wrapper returns only when the command and every descendant it left was
\* reaped: a live one would be without its supervisor.
THEOREM LastOneReaped == ASSUME J!JobAssumption PROVE J!Spec => []J!AllReaped
<1>1. Waits => J!AllReaped
  BY DEF Waits, Watched, Alive, J!AllReaped
<1> QED
  BY <1>1, WaitsInductive, PTL

\* An INT of the terminal, which has reached the command already, is not sent
\* to it again, however signals and exits interleave with the loop.
THEOREM InterruptedOnce == ASSUME J!JobAssumption PROVE J!Spec => []J!IntOnce
<1>1. Waits => J!IntOnce
  BY DEF Waits, Ints, J!IntOnce
<1> QED
  BY <1>1, WaitsInductive, PTL

\* A daemon of the tree gets none of the signals meant for the command.
THEOREM DaemonsLeft == ASSUME J!JobAssumption PROVE J!Spec => []J!DaemonsSpared
<1>1. Waits => J!DaemonsSpared
  BY DEF Waits
<1> QED
  BY <1>1, WaitsInductive, PTL

-----------------------------------------------------------------------------
(* Which deletions are left to the kernel because a program of trashd's makes *)
(* them, for any process tree and any age of the caches.                     *)

CONSTANTS Caller, Chain, Bypassing, Depth, Ttl, MaxTime, MaxChanges, None
VARIABLES
  alive, listed, installed, exe, time, cache, own, ownAt, call, verdict, changed, settledAt,
  updatedAt, began

B == INSTANCE SessionBypass WITH Orchestrator <- J!Orchestrator, changes <- changed

Clocks ==
  /\ time \in Nat /\ ownAt \in 0..time /\ updatedAt \in 0..time /\ began \in 0..time
  /\ installed \in Nat \ {0}

\* The remembered identities are those of the installed program or older than
\* it; a call is judged by identities that were fresh when it arrived, and
\* gets past them only with a program that is none of them.
Identities ==
  /\ 0 \notin own /\ (own # {installed} => ownAt <= updatedAt)
  /\ call.pc # "idle" \/ verdict # None => began - ownAt <= Ttl
  /\ call.pc \in {"level", "rebuild"} => exe \notin own
  /\ verdict # None => (verdict = "own" <=> exe \in own)

Judged == Clocks /\ Identities

\* A decision that no other step changes: the tree is walked for a call whose
\* program is not among the identities.
LEMMA WalkNext ==
  ASSUME Judged, B!Level \/ B!Remembered \/ B!Rebuild
  PROVE  Judged'
<1>1. UNCHANGED <<time, ownAt, updatedAt, began, installed, own, exe>> /\ call.pc \in {"level", "rebuild"}
  BY DEF B!Level, B!Remembered, B!Rebuild, B!Around, B!Ghosts, B!Caches, B!Goto, B!Decide,
         B!BypassedWithin
<1>2. verdict' \in {None, "bypassed", "captured"}
  BY DEF B!Level, B!Remembered, B!Rebuild, B!Goto, B!Decide, B!BypassedWithin
<1> QED
  BY <1>1, <1>2 DEF Judged, Clocks, Identities

\* Each change of the world and each step of a call keeps it.
LEMMA JudgedNext ==
  ASSUME B!BypassAssumption, Judged, [B!Next]_(B!vars)
  PROVE  Judged'
<1> USE DEF Judged, Clocks, Identities
<1>1. CASE \E p \in B!Processes : B!Exit(p) \/ B!Exec(p)
  <2>1. UNCHANGED <<time, ownAt, updatedAt, began, installed, own, exe, call>> /\ verdict' = None
    BY <1>1 DEF B!Exit, B!Exec, B!Change, B!Caches
  <2> QED
    BY <2>1
<1>2. CASE B!Update
  <2>1. /\ UNCHANGED <<time, ownAt, began, own, exe, call>> /\ verdict' = None
        /\ installed' = installed + 1 /\ updatedAt' = time
    BY <1>2 DEF B!Update, B!Change, B!Caches
  <2> QED
    BY <2>1
<1>3. CASE B!Start
  <2>1. /\ UNCHANGED <<time, ownAt, updatedAt, began, installed, own, call>> /\ verdict' = None
        /\ call.pc = "idle"
    BY <1>3 DEF B!Start, B!Change, B!Caches
  <2> QED
    BY <2>1
<1>4. CASE B!Tick
  <2>1. /\ UNCHANGED <<ownAt, updatedAt, began, installed, own, exe, call>> /\ verdict' = None
        /\ time' = time + 1
    BY <1>4 DEF B!Tick, B!Caches, B!Ghosts
  <2> QED
    BY <2>1
<1>5. CASE B!Receive
  <2>1. /\ UNCHANGED <<time, updatedAt, installed, exe>> /\ verdict' = None /\ began' = time
        /\ call'.pc = "own"
        /\ \/ time - ownAt > Ttl /\ own' = {installed} /\ ownAt' = time
           \/ time - ownAt <= Ttl /\ UNCHANGED <<own, ownAt>>
    BY <1>5 DEF B!Receive, B!Around, B!Ghosts, B!Stale, B!Idle, B!BypassAssumption
  <2> QED
    BY <2>1 DEF B!BypassAssumption
<1>6. CASE B!OwnComponent
  <2>1. UNCHANGED <<time, ownAt, updatedAt, began, installed, own, exe>> /\ call.pc = "own"
    BY <1>6 DEF B!OwnComponent, B!Around, B!Ghosts, B!Caches, B!Goto, B!Decide
  <2>2. CASE exe \in own
    <3>1. verdict' = "own" /\ call' = B!Idle
      BY <1>6, <2>2 DEF B!OwnComponent, B!Decide
    <3>2. call'.pc = "idle"
      BY <3>1 DEF B!Idle
    <3> QED
      BY <2>1, <2>2, <3>1, <3>2
  <2>3. CASE exe \notin own
    <3>1. verdict' = None
      BY <1>6, <2>3 DEF B!OwnComponent, B!Goto
    <3> QED
      BY <2>1, <2>3, <3>1
  <2> QED
    BY <2>2, <2>3
<1>7. CASE B!Level \/ B!Remembered \/ B!Rebuild
  BY <1>7, WalkNext
<1>8. CASE UNCHANGED B!vars
  BY <1>8 DEF B!vars
<1> QED
  BY <1>1, <1>2, <1>3, <1>4, <1>5, <1>6, <1>7, <1>8 DEF B!Next, B!Others, B!Supervisor

\* A program of trashd's that is installed for longer than the identities live
\* is left alone, and no other one is, whatever is replaced, started or
\* remembered meanwhile (capture_protected_path in
\* crates/trashd-seccomp/src/supervisor.rs).
THEOREM OwnProgramsKnown == ASSUME B!BypassAssumption PROVE B!Spec => []B!OwnProgramsLeft
<1>1. B!Init => Judged
  BY DEF B!Init, B!Idle, B!BypassAssumption, Judged, Clocks, Identities
<1>2. Judged /\ [B!Next]_(B!vars) => Judged'
  BY JudgedNext
<1>3. Judged => B!OwnProgramsLeft
  <2> SUFFICES ASSUME Judged, verdict # None, began - updatedAt > Ttl
               PROVE  (exe = installed) = (verdict = "own")
    BY DEF B!OwnProgramsLeft
  <2>1. updatedAt < ownAt
    BY DEF Judged, Clocks, Identities, B!BypassAssumption
  <2>2. own = {installed}
    BY <2>1 DEF Judged, Clocks, Identities
  <2> QED
    BY <2>2 DEF Judged, Identities
<1> QED
  BY <1>1, <1>2, <1>3, PTL DEF B!Spec

=============================================================================
