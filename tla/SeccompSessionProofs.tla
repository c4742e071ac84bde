------------------------ MODULE SeccompSessionProofs ------------------------
(***************************************************************************)
(* What is proved of SeccompSession for every set of tasks, every policy   *)
(* and any number of calls and deaths.                                     *)
(***************************************************************************)
EXTENDS SeccompSession, TLAPS

-----------------------------------------------------------------------------
(* The inductive invariant.                                                *)

\* Notification ids and files are fresh when they are given out, and nothing
\* has happened yet to the files that are not.
CountInv ==
    /\ \A t \in Tasks : call[t] <= calls /\ file[t] <= calls
    /\ \A t \in Tasks : Waiting(t) \/ task[t] = "self" => call[t] >= 1 /\ file[t] >= 1
    /\ spc \in Handling => job.file <= calls
    /\ \A f \in 1..MaxCalls : f > calls => fate[f] = "there"
    /\ \A t, u \in Tasks : file[t] = file[u] /\ file[t] # 0 => t = u

\* While the caller waits for this answer, it asks for what was received.
JobInv ==
    spc \in Handling /\ Valid(job) =>
        kind[job.task] = job.kind /\ file[job.task] = job.file

\* The watchdog touches the listener only without a supervisor.
WatchInv == wd \in {"drain", "sleep", "passthrough"} => spc = "none"

\* A living supervisor has at most one request or reply under way, which it
\* waits for; everything else belongs to earlier ones.
SocketInv ==
    /\ \A r \in requests : r.gen <= gen
    /\ \A r \in replies : r.gen <= gen
    /\ \A r \in requests : r.gen = gen /\ spc # "none" =>
           spc \in Listening /\ r.task = job.task
    /\ \A r \in replies : r.gen = gen /\ spc # "none" =>
           spc \in Listening /\ (Valid(job) => r.file = job.file)
    /\ \A q, r \in requests : q.gen = gen /\ r.gen = gen => q = r
    /\ \A q, r \in replies : q.gen = gen /\ r.gen = gen => q = r
    /\ \A q \in requests, r \in replies : ~(q.gen = gen /\ r.gen = gen)

\* What a waiting caller was captured from is its own; before a capture there
\* is nothing.
GripInv ==
    /\ spc \notin (Capturing \ {"asked"}) \cup Committing \cup Answering => grips = {}
    /\ spc \in Capturing \ {"asked"} /\ Valid(job) => grips = {job.file}
    /\ ActsOnCaller

\* The shared bit is set before anybody is confined, and the supervisor is
\* past the gate only while it is not.
BitInv ==
    /\ confined => restricted
    /\ spc \in Capturing \cup Committing => ~restricted /\ job.kind = "delete"
    /\ spc = "continue" /\ job.kind = "restrict" => restricted

\* A deferred deletion is continued only if policy says so, or if there is
\* nothing to delete.
GrantInv ==
    spc = "continue" /\ job.kind = "delete" /\ Valid(job) =>
        \/ job.task \notin Deferring \ Bypassed
        \/ job.file \in Excluded
        \/ fate[job.file] # "there"

IInv ==
    /\ TypeOK /\ CountInv /\ JobInv /\ WatchInv
    /\ SocketInv /\ GripInv /\ BitInv /\ GrantInv /\ DeferredKept

-----------------------------------------------------------------------------
(* The initial state.                                                      *)

\* A session that has just started satisfies all of it.
LEMMA InvInit == Init => IInv
<1> SUFFICES ASSUME Init PROVE IInv
  OBVIOUS
<1> USE SessionConstants DEF Init
<1>1. TypeOK
  <2>1. /\ call \in [Tasks -> 0..MaxCalls]
        /\ file \in [Tasks -> Files]
        /\ calls \in 0..MaxCalls /\ deaths \in 0..MaxDeaths
    BY DEF Files
  <2>2. spc \in SupervisorSteps \ Handling
    BY DEF SupervisorSteps, Starting, Handling, Capturing, Committing,
        Answering
  <2> QED
    BY <2>1, <2>2 DEF TypeOK
<1>2. CountInv
  BY DEF CountInv, Waiting, Handling, Capturing, Committing, Answering
<1>3. JobInv /\ WatchInv /\ GrantInv
  BY DEF JobInv, WatchInv, GrantInv, Handling, Capturing, Committing,
        Answering
<1>4. SocketInv
  BY DEF SocketInv
<1>5. GripInv /\ BitInv
  BY DEF GripInv, BitInv, ActsOnCaller, Capturing, Committing, Answering
<1>6. DeferredKept
  BY DEF DeferredKept
<1> QED
  BY <1>1, <1>2, <1>3, <1>4, <1>5, <1>6 DEF IInv

-----------------------------------------------------------------------------
(* Every step.                                                             *)

\* Where a call is left to its task, the kernel's variables keep their types.
LEMMA LeftToTask ==
    ASSUME TypeOK, NEW t \in Tasks,
           KernelRuns(t) \/ AnswerEnosys(t) \/ Declined(t)
    PROVE  /\ task' \in [Tasks -> {"run", "queued", "taken", "self", "gone"}]
           /\ fate' \in [1..MaxCalls -> {"there", "trashed", "deleted"}]
           /\ confined' \in BOOLEAN
<1>1. CASE KernelRuns(t)
  BY <1>1 DEF KernelRuns, TypeOK
<1>2. CASE AnswerEnosys(t)
  BY <1>2 DEF AnswerEnosys, TypeOK
<1> QED
  BY <1>1, <1>2 DEF Declined

\* Type correctness.
LEMMA TypeNext == TypeOK /\ CountInv /\ [Next]_vars => TypeOK'
<1> SUFFICES ASSUME TypeOK, CountInv, [Next]_vars PROVE TypeOK'
  OBVIOUS
<1> USE SessionConstants DEF TypeOK, SupervisorSteps, Starting,
        Handling, Capturing, Committing, Answering, Listening,
        kernel, supervisor, broker, counts
<1>1. ASSUME NEW t \in Tasks, NEW what \in {"delete", "restrict"}, Trap(t, what)
      PROVE TypeOK'
  BY <1>1 DEF Trap, Files
<1>2. ASSUME NEW t \in Tasks, Interrupt(t) PROVE TypeOK'
  <2>1. call' \in [Tasks -> 0..MaxCalls] /\ calls' \in 0..MaxCalls
    BY <1>2 DEF Interrupt
  <2>2. task' \in [Tasks -> {"run", "queued", "taken", "self", "gone"}]
    BY <1>2 DEF Interrupt
  <2> QED
    BY <1>2, <2>1, <2>2 DEF Interrupt
<1>3. ASSUME NEW t \in Tasks, Kill(t) PROVE TypeOK'
  BY <1>3 DEF Kill
<1>4. ASSUME NEW t \in Tasks, LockerLocks(t) PROVE TypeOK'
  BY <1>4 DEF LockerLocks
<1>5. ASSUME NEW t \in Tasks, LockerUnlocks(t) PROVE TypeOK'
  BY <1>5 DEF LockerUnlocks
<1>6. ASSUME NEW t \in Tasks, SelfTrash(t) PROVE TypeOK'
  <2>1. fate' \in [1..MaxCalls -> {"there", "trashed", "deleted"}]
    BY <1>6 DEF SelfTrash
  <2> QED
    BY <1>6, <2>1 DEF SelfTrash
<1>7. ASSUME NEW t \in Tasks, ListenerClosed(t) PROVE TypeOK'
  BY <1>7 DEF ListenerClosed, AnswerEnosys, Waiting
<1>8. ASSUME NEW t \in Tasks, Receive(t) PROVE TypeOK'
  BY <1>8 DEF Receive, Goto, CountInv, Waiting, Job, Files
<1>9. ASSUME NEW t \in Tasks, PassThrough(t) PROVE TypeOK'
  <2>1. /\ task' \in [Tasks -> {"run", "queued", "taken", "self", "gone"}]
        /\ fate' \in [1..MaxCalls -> {"there", "trashed", "deleted"}]
        /\ confined' \in BOOLEAN
    BY <1>9, LeftToTask DEF PassThrough
  <2> QED
    BY <1>9, <2>1 DEF PassThrough
<1>10. ASSUME NEW t \in Tasks, Drain(t) PROVE TypeOK'
  <2>1. /\ task' \in [Tasks -> {"run", "queued", "taken", "self", "gone"}]
        /\ fate' \in [1..MaxCalls -> {"there", "trashed", "deleted"}]
        /\ confined' \in BOOLEAN
    BY <1>10, LeftToTask DEF Drain
  <2> QED
    BY <1>10, <2>1 DEF Drain
<1>11. CASE SessionOver
  BY <1>11 DEF SessionOver, Goto
<1>12. CASE ReadParent
  BY <1>12 DEF ReadParent, Goto
<1>13. CASE ArmDeathSignal
  BY <1>13 DEF ArmDeathSignal, Goto
<1>14. CASE CompareParent
  BY <1>14 DEF CompareParent, Goto
<1>15. CASE OpenStore
  BY <1>15 DEF OpenStore, Goto
<1>16. CASE Gate
  BY <1>16 DEF Gate, Goto, Ask, Job
<1>17. CASE Hear
  BY <1>17 DEF Hear, Goto
<1>18. CASE PinTask
  <2>1. ReadOf(job.task) \in Files
    BY <1>18 DEF PinTask, ReadOf, Job, Files
  <2> QED
    BY <1>18, <2>1 DEF PinTask, Goto
<1>19. CASE CheckCaller
  BY <1>19 DEF CheckCaller, Goto, Ask, Job
<1>20. CASE RecheckCaller
  BY <1>20 DEF RecheckCaller, Goto
<1>21. CASE LeaveToKernel
  BY <1>21 DEF LeaveToKernel, Goto
<1>22. CASE MayCommit
  BY <1>22 DEF MayCommit, Goto, Release
<1>23. CASE MoveFile
  BY <1>23 DEF MoveFile, Goto, Release
<1>24. CASE NoteRestriction
  BY <1>24 DEF NoteRestriction, Goto
<1>25. CASE Answer
  <2>1. /\ task' \in [Tasks -> {"run", "queued", "taken", "self", "gone"}]
        /\ fate' \in [1..MaxCalls -> {"there", "trashed", "deleted"}]
        /\ confined' \in BOOLEAN
    <3>1. job \in Job
      BY <1>25 DEF Answer
    <3>2. job.task \in Tasks
      BY <3>1 DEF Job
    <3> QED
      BY <1>25, <3>2, LeftToTask DEF Answer
  <2>2. /\ spc' \in {"recv", "maintain"}
        /\ job' = NoJob /\ grips' = {}
        /\ UNCHANGED <<call, kind, file, gen, parent, armed, wd, broker,
                       restricted, rootLock, counts>>
    BY <1>25 DEF Answer, Goto
  <2> QED
    BY <2>1, <2>2
<1>26. CASE LockRoot
  BY <1>26 DEF LockRoot, Goto
<1>27. CASE Maintain
  BY <1>27 DEF Maintain, Goto
<1>28. CASE Refuse
  BY <1>28 DEF Refuse, Goto, Release
<1>29. CASE Panic
  BY <1>29 DEF Panic, Goto, Release
<1>30. CASE SupervisorDies
  <2>1. lost' \subseteq 1..MaxCalls
    <3>1. CASE Valid(job)
      <4>1. job # NoJob
        BY <3>1 DEF Valid, NoJob
      <4> QED
        BY <1>30, <4>1 DEF SupervisorDies, SupervisorEnds, Job
    <3> QED
      BY <1>30, <3>1 DEF SupervisorDies, SupervisorEnds
  <2> QED
    BY <1>30, <2>1 DEF SupervisorDies, SupervisorEnds, Goto, Release
<1>31. CASE DeathSignal
  <2>1. lost' \subseteq 1..MaxCalls
    <3>1. CASE Valid(job)
      <4>1. job # NoJob
        BY <3>1 DEF Valid, NoJob
      <4> QED
        BY <1>31, <4>1 DEF DeathSignal, SupervisorEnds, Job
    <3> QED
      BY <1>31, <3>1 DEF DeathSignal, SupervisorEnds
  <2> QED
    BY <1>31, <2>1 DEF DeathSignal, SupervisorEnds, Goto, Release
<1>32. CASE Reap
  BY <1>32 DEF Reap
<1>33. CASE StopDraining
  BY <1>33 DEF StopDraining
<1>34. CASE Respawn
  <2>1. gen' \in Nat
    BY <1>34 DEF Respawn
  <2> QED
    BY <1>34, <2>1 DEF Respawn, Goto
<1>35. CASE PassthroughOver
  BY <1>35 DEF PassthroughOver
<1>36. CASE ForkFails
  BY <1>36 DEF ForkFails
<1>37. CASE WatchdogDies
  BY <1>37 DEF WatchdogDies
<1>38. CASE Serve
  BY <1>38 DEF Serve, ReadOf, Files
<1>39. CASE UNCHANGED vars
  BY <1>39 DEF vars
<1> HIDE DEF TypeOK
<1> QED
  BY <1>1, <1>2, <1>3, <1>4, <1>5, <1>6, <1>7, <1>8, <1>9, <1>10, <1>11,
     <1>12, <1>13, <1>14, <1>15, <1>16, <1>17, <1>18, <1>19, <1>20, <1>21,
     <1>22, <1>23, <1>24, <1>25, <1>26, <1>27, <1>28, <1>29, <1>30, <1>31,
     <1>32, <1>33, <1>34, <1>35, <1>36, <1>37, <1>38, <1>39
     DEF Next, TaskStep, SupervisorStep, WatchdogStep

\* Ids and files are given out once.
LEMMA CountNext == TypeOK /\ CountInv /\ [Next]_vars => CountInv'
<1> SUFFICES ASSUME TypeOK, CountInv, [Next]_vars PROVE CountInv'
  OBVIOUS
<1> USE SessionConstants DEF TypeOK, CountInv, Files, Job, NoJob, Waiting, Handling,
        Capturing, Committing, Answering, Listening, kernel, supervisor, broker, counts
<1>1. ASSUME NEW t \in Tasks, NEW what \in {"delete", "restrict"}, Trap(t, what)
      PROVE CountInv'
  BY <1>1 DEF Trap
<1>2. ASSUME NEW t \in Tasks, Interrupt(t) PROVE CountInv'
  <2>1. calls <= calls' /\ calls' \in Nat
    BY <1>2 DEF Interrupt
  <2>2. \A u \in Tasks : call'[u] <= calls' /\ file'[u] <= calls'
    <3> SUFFICES ASSUME NEW u \in Tasks
            PROVE call'[u] <= calls' /\ file'[u] <= calls'
      OBVIOUS
    <3>1. file'[u] = file[u] /\ file[u] \in Nat /\ call[u] \in Nat
      BY <1>2 DEF Interrupt
    <3>2. call'[u] = call[u] \/ call'[u] = calls'
      BY <1>2 DEF Interrupt
    <3> QED
      BY <2>1, <3>1, <3>2, SMTT(30)
  <2>3. \A u \in Tasks : (Waiting(u) \/ task[u] = "self")' =>
            call'[u] >= 1 /\ file'[u] >= 1
    BY <1>2, <2>1 DEF Interrupt
  <2> QED
    BY <1>2, <2>1, <2>2, <2>3 DEF Interrupt
<1>3. ASSUME NEW t \in Tasks, Kill(t) PROVE CountInv'
  BY <1>3 DEF Kill
<1>4. ASSUME NEW t \in Tasks, LockerLocks(t) PROVE CountInv'
  BY <1>4 DEF LockerLocks
<1>5. ASSUME NEW t \in Tasks, LockerUnlocks(t) PROVE CountInv'
  BY <1>5 DEF LockerUnlocks
<1>6. ASSUME NEW t \in Tasks, SelfTrash(t) PROVE CountInv'
  BY <1>6 DEF SelfTrash
<1>7. ASSUME NEW t \in Tasks, ListenerClosed(t) PROVE CountInv'
  BY <1>7 DEF ListenerClosed, AnswerEnosys, Waiting
<1>8. ASSUME NEW t \in Tasks, Receive(t) PROVE CountInv'
  BY <1>8 DEF Receive, Goto
<1>9. ASSUME NEW t \in Tasks, PassThrough(t) PROVE CountInv'
  BY <1>9 DEF PassThrough, Declined, AnswerEnosys, KernelRuns
<1>10. ASSUME NEW t \in Tasks, Drain(t) PROVE CountInv'
  BY <1>10 DEF Drain, Declined, AnswerEnosys, KernelRuns
<1>11. CASE SessionOver
  BY <1>11 DEF SessionOver, Goto
<1>12. CASE ReadParent
  BY <1>12 DEF ReadParent, Goto
<1>13. CASE ArmDeathSignal
  BY <1>13 DEF ArmDeathSignal, Goto
<1>14. CASE CompareParent
  BY <1>14 DEF CompareParent, Goto
<1>15. CASE OpenStore
  BY <1>15 DEF OpenStore, Goto
<1>16. CASE Gate
  BY <1>16 DEF Gate, Goto, Ask
<1>17. CASE Hear
  BY <1>17 DEF Hear, Goto
<1>18. CASE PinTask
  BY <1>18 DEF PinTask, Goto, ReadOf
<1>19. CASE CheckCaller
  BY <1>19 DEF CheckCaller, Goto, Ask
<1>20. CASE RecheckCaller
  BY <1>20 DEF RecheckCaller, Goto
<1>21. CASE LeaveToKernel
  BY <1>21 DEF LeaveToKernel, Goto
<1>22. CASE MayCommit
  BY <1>22 DEF MayCommit, Goto, Release
<1>23. CASE MoveFile
  BY <1>23 DEF MoveFile, Goto, Release
<1>24. CASE NoteRestriction
  BY <1>24 DEF NoteRestriction, Goto
<1>25. CASE Answer
  BY <1>25 DEF Answer, Goto, Declined, AnswerEnosys, KernelRuns, Valid
<1>26. CASE LockRoot
  BY <1>26 DEF LockRoot, Goto
<1>27. CASE Maintain
  BY <1>27 DEF Maintain, Goto
<1>28. CASE Refuse
  BY <1>28 DEF Refuse, Goto, Release
<1>29. CASE Panic
  BY <1>29 DEF Panic, Goto, Release
<1>30. CASE SupervisorDies
  BY <1>30 DEF SupervisorDies, SupervisorEnds, Goto, Release
<1>31. CASE DeathSignal
  BY <1>31 DEF DeathSignal, SupervisorEnds, Goto, Release
<1>32. CASE Reap
  BY <1>32 DEF Reap
<1>33. CASE StopDraining
  BY <1>33 DEF StopDraining
<1>34. CASE Respawn
  BY <1>34 DEF Respawn, Goto
<1>35. CASE PassthroughOver
  BY <1>35 DEF PassthroughOver
<1>36. CASE ForkFails
  BY <1>36 DEF ForkFails
<1>37. CASE WatchdogDies
  BY <1>37 DEF WatchdogDies
<1>38. CASE Serve
  BY <1>38 DEF Serve, ReadOf
<1>39. CASE UNCHANGED vars
  BY <1>39 DEF vars
<1> HIDE DEF CountInv
<1> QED
  BY <1>1, <1>2, <1>3, <1>4, <1>5, <1>6, <1>7, <1>8, <1>9, <1>10, <1>11,
     <1>12, <1>13, <1>14, <1>15, <1>16, <1>17, <1>18, <1>19, <1>20, <1>21,
     <1>22, <1>23, <1>24, <1>25, <1>26, <1>27, <1>28, <1>29, <1>30, <1>31,
     <1>32, <1>33, <1>34, <1>35, <1>36, <1>37, <1>38, <1>39
     DEF Next, TaskStep, SupervisorStep, WatchdogStep

\* Nobody but its receiver makes a call wait for an answer again.
LEMMA JobNext == TypeOK /\ CountInv /\ JobInv /\ [Next]_vars => JobInv'
<1> SUFFICES ASSUME TypeOK, CountInv, JobInv, [Next]_vars PROVE JobInv'
  OBVIOUS
<1> USE SessionConstants DEF TypeOK, JobInv, Job, NoJob, Valid,
        Handling, Capturing, Committing, Answering, Listening, kernel, supervisor, broker, counts
<1>1. ASSUME NEW t \in Tasks, NEW what \in {"delete", "restrict"}, Trap(t, what)
      PROVE JobInv'
  BY <1>1 DEF Trap, CountInv, Waiting
<1>2. ASSUME NEW t \in Tasks, Interrupt(t) PROVE JobInv'
  BY <1>2 DEF Interrupt, Waiting, CountInv
<1>3. ASSUME NEW t \in Tasks, Kill(t) PROVE JobInv'
  BY <1>3 DEF Kill
<1>4. ASSUME NEW t \in Tasks, LockerLocks(t) PROVE JobInv'
  BY <1>4 DEF LockerLocks
<1>5. ASSUME NEW t \in Tasks, LockerUnlocks(t) PROVE JobInv'
  BY <1>5 DEF LockerUnlocks
<1>6. ASSUME NEW t \in Tasks, SelfTrash(t) PROVE JobInv'
  BY <1>6 DEF SelfTrash
<1>7. ASSUME NEW t \in Tasks, ListenerClosed(t) PROVE JobInv'
  BY <1>7 DEF ListenerClosed, AnswerEnosys, Waiting
<1>8. ASSUME NEW t \in Tasks, Receive(t) PROVE JobInv'
  BY <1>8 DEF Receive, Goto
<1>9. ASSUME NEW t \in Tasks, PassThrough(t) PROVE JobInv'
  BY <1>9 DEF PassThrough, Declined, AnswerEnosys, KernelRuns
<1>10. ASSUME NEW t \in Tasks, Drain(t) PROVE JobInv'
  BY <1>10 DEF Drain, Declined, AnswerEnosys, KernelRuns
<1>11. CASE SessionOver
  BY <1>11 DEF SessionOver, Goto
<1>12. CASE ReadParent
  BY <1>12 DEF ReadParent, Goto
<1>13. CASE ArmDeathSignal
  BY <1>13 DEF ArmDeathSignal, Goto
<1>14. CASE CompareParent
  BY <1>14 DEF CompareParent, Goto
<1>15. CASE OpenStore
  BY <1>15 DEF OpenStore, Goto
<1>16. CASE Gate
  BY <1>16 DEF Gate, Goto, Ask
<1>17. CASE Hear
  BY <1>17 DEF Hear, Goto
<1>18. CASE PinTask
  BY <1>18 DEF PinTask, Goto, ReadOf
<1>19. CASE CheckCaller
  BY <1>19 DEF CheckCaller, Goto, Ask
<1>20. CASE RecheckCaller
  BY <1>20 DEF RecheckCaller, Goto
<1>21. CASE LeaveToKernel
  BY <1>21 DEF LeaveToKernel, Goto
<1>22. CASE MayCommit
  BY <1>22 DEF MayCommit, Goto, Release
<1>23. CASE MoveFile
  BY <1>23 DEF MoveFile, Goto, Release
<1>24. CASE NoteRestriction
  BY <1>24 DEF NoteRestriction, Goto
<1>25. CASE Answer
  BY <1>25 DEF Answer, Goto, Declined, AnswerEnosys, KernelRuns
<1>26. CASE LockRoot
  BY <1>26 DEF LockRoot, Goto
<1>27. CASE Maintain
  BY <1>27 DEF Maintain, Goto
<1>28. CASE Refuse
  BY <1>28 DEF Refuse, Goto, Release
<1>29. CASE Panic
  BY <1>29 DEF Panic, Goto, Release
<1>30. CASE SupervisorDies
  BY <1>30 DEF SupervisorDies, SupervisorEnds, Goto, Release
<1>31. CASE DeathSignal
  BY <1>31 DEF DeathSignal, SupervisorEnds, Goto, Release
<1>32. CASE Reap
  BY <1>32 DEF Reap
<1>33. CASE StopDraining
  BY <1>33 DEF StopDraining
<1>34. CASE Respawn
  BY <1>34 DEF Respawn, Goto
<1>35. CASE PassthroughOver
  BY <1>35 DEF PassthroughOver
<1>36. CASE ForkFails
  BY <1>36 DEF ForkFails
<1>37. CASE WatchdogDies
  BY <1>37 DEF WatchdogDies
<1>38. CASE Serve
  BY <1>38 DEF Serve, ReadOf
<1>39. CASE UNCHANGED vars
  BY <1>39 DEF vars
<1> HIDE DEF JobInv
<1> QED
  BY <1>1, <1>2, <1>3, <1>4, <1>5, <1>6, <1>7, <1>8, <1>9, <1>10, <1>11,
     <1>12, <1>13, <1>14, <1>15, <1>16, <1>17, <1>18, <1>19, <1>20, <1>21,
     <1>22, <1>23, <1>24, <1>25, <1>26, <1>27, <1>28, <1>29, <1>30, <1>31,
     <1>32, <1>33, <1>34, <1>35, <1>36, <1>37, <1>38, <1>39
     DEF Next, TaskStep, SupervisorStep, WatchdogStep

\* The watchdog stays away from a living supervisor's notifications.
LEMMA WatchNext == TypeOK /\ WatchInv /\ [Next]_vars => WatchInv'
<1> SUFFICES ASSUME TypeOK, WatchInv, [Next]_vars PROVE WatchInv'
  OBVIOUS
<1> USE DEF WatchInv, Handling, Capturing, Committing, Answering, Listening,
        kernel, supervisor, broker, counts
<1>1. ASSUME NEW t \in Tasks, NEW what \in {"delete", "restrict"}, Trap(t, what)
      PROVE WatchInv'
  BY <1>1 DEF Trap
<1>2. ASSUME NEW t \in Tasks, Interrupt(t) PROVE WatchInv'
  BY <1>2 DEF Interrupt, Waiting
<1>3. ASSUME NEW t \in Tasks, Kill(t) PROVE WatchInv'
  BY <1>3 DEF Kill
<1>4. ASSUME NEW t \in Tasks, LockerLocks(t) PROVE WatchInv'
  BY <1>4 DEF LockerLocks
<1>5. ASSUME NEW t \in Tasks, LockerUnlocks(t) PROVE WatchInv'
  BY <1>5 DEF LockerUnlocks
<1>6. ASSUME NEW t \in Tasks, SelfTrash(t) PROVE WatchInv'
  BY <1>6 DEF SelfTrash
<1>7. ASSUME NEW t \in Tasks, ListenerClosed(t) PROVE WatchInv'
  BY <1>7 DEF ListenerClosed, AnswerEnosys, Waiting
<1>8. ASSUME NEW t \in Tasks, Receive(t) PROVE WatchInv'
  BY <1>8 DEF Receive, Goto
<1>9. ASSUME NEW t \in Tasks, PassThrough(t) PROVE WatchInv'
  BY <1>9 DEF PassThrough, Declined, AnswerEnosys, KernelRuns
<1>10. ASSUME NEW t \in Tasks, Drain(t) PROVE WatchInv'
  BY <1>10 DEF Drain, Declined, AnswerEnosys, KernelRuns
<1>11. CASE SessionOver
  BY <1>11 DEF SessionOver, Goto
<1>12. CASE ReadParent
  BY <1>12 DEF ReadParent, Goto
<1>13. CASE ArmDeathSignal
  BY <1>13 DEF ArmDeathSignal, Goto
<1>14. CASE CompareParent
  BY <1>14 DEF CompareParent, Goto
<1>15. CASE OpenStore
  BY <1>15 DEF OpenStore, Goto
<1>16. CASE Gate
  BY <1>16 DEF Gate, Goto, Ask
<1>17. CASE Hear
  BY <1>17 DEF Hear, Goto
<1>18. CASE PinTask
  BY <1>18 DEF PinTask, Goto, ReadOf
<1>19. CASE CheckCaller
  BY <1>19 DEF CheckCaller, Goto, Ask
<1>20. CASE RecheckCaller
  BY <1>20 DEF RecheckCaller, Goto
<1>21. CASE LeaveToKernel
  BY <1>21 DEF LeaveToKernel, Goto
<1>22. CASE MayCommit
  BY <1>22 DEF MayCommit, Goto, Release
<1>23. CASE MoveFile
  BY <1>23 DEF MoveFile, Goto, Release
<1>24. CASE NoteRestriction
  BY <1>24 DEF NoteRestriction, Goto
<1>25. CASE Answer
  BY <1>25 DEF Answer, Goto, Declined, AnswerEnosys, KernelRuns
<1>26. CASE LockRoot
  BY <1>26 DEF LockRoot, Goto
<1>27. CASE Maintain
  BY <1>27 DEF Maintain, Goto
<1>28. CASE Refuse
  BY <1>28 DEF Refuse, Goto, Release
<1>29. CASE Panic
  BY <1>29 DEF Panic, Goto, Release
<1>30. CASE SupervisorDies
  BY <1>30 DEF SupervisorDies, SupervisorEnds, Goto, Release
<1>31. CASE DeathSignal
  BY <1>31 DEF DeathSignal, SupervisorEnds, Goto, Release
<1>32. CASE Reap
  BY <1>32 DEF Reap
<1>33. CASE StopDraining
  BY <1>33 DEF StopDraining
<1>34. CASE Respawn
  BY <1>34 DEF Respawn, Goto
<1>35. CASE PassthroughOver
  BY <1>35 DEF PassthroughOver
<1>36. CASE ForkFails
  BY <1>36 DEF ForkFails
<1>37. CASE WatchdogDies
  BY <1>37 DEF WatchdogDies
<1>38. CASE Serve
  BY <1>38 DEF Serve, ReadOf
<1>39. CASE UNCHANGED vars
  BY <1>39 DEF vars
<1> HIDE DEF WatchInv
<1> QED
  BY <1>1, <1>2, <1>3, <1>4, <1>5, <1>6, <1>7, <1>8, <1>9, <1>10, <1>11,
     <1>12, <1>13, <1>14, <1>15, <1>16, <1>17, <1>18, <1>19, <1>20, <1>21,
     <1>22, <1>23, <1>24, <1>25, <1>26, <1>27, <1>28, <1>29, <1>30, <1>31,
     <1>32, <1>33, <1>34, <1>35, <1>36, <1>37, <1>38, <1>39
     DEF Next, TaskStep, SupervisorStep, WatchdogStep

\* Requests and replies stay with the supervisor they belong to.
LEMMA SocketNext == TypeOK /\ JobInv /\ SocketInv /\ [Next]_vars => SocketInv'
<1> SUFFICES ASSUME TypeOK, JobInv, SocketInv, [Next]_vars PROVE SocketInv'
  OBVIOUS
<1> USE SessionConstants DEF TypeOK, SocketInv, Job, NoJob, Valid,
        Handling, Capturing, Committing, Answering, Listening,
        kernel, supervisor, broker, counts
<1>1. ASSUME NEW t \in Tasks, NEW what \in {"delete", "restrict"}, Trap(t, what)
      PROVE SocketInv'
  BY <1>1 DEF Trap
<1>2. ASSUME NEW t \in Tasks, Interrupt(t) PROVE SocketInv'
  BY <1>2 DEF Interrupt, Waiting
<1>3. ASSUME NEW t \in Tasks, Kill(t) PROVE SocketInv'
  BY <1>3 DEF Kill
<1>4. ASSUME NEW t \in Tasks, LockerLocks(t) PROVE SocketInv'
  BY <1>4 DEF LockerLocks
<1>5. ASSUME NEW t \in Tasks, LockerUnlocks(t) PROVE SocketInv'
  BY <1>5 DEF LockerUnlocks
<1>6. ASSUME NEW t \in Tasks, SelfTrash(t) PROVE SocketInv'
  BY <1>6 DEF SelfTrash
<1>7. ASSUME NEW t \in Tasks, ListenerClosed(t) PROVE SocketInv'
  BY <1>7 DEF ListenerClosed, AnswerEnosys, Waiting
<1>8. ASSUME NEW t \in Tasks, Receive(t) PROVE SocketInv'
  BY <1>8 DEF Receive, Goto
<1>9. ASSUME NEW t \in Tasks, PassThrough(t) PROVE SocketInv'
  BY <1>9 DEF PassThrough, Declined, AnswerEnosys, KernelRuns
<1>10. ASSUME NEW t \in Tasks, Drain(t) PROVE SocketInv'
  BY <1>10 DEF Drain, Declined, AnswerEnosys, KernelRuns
<1>11. CASE SessionOver
  BY <1>11 DEF SessionOver, Goto
<1>12. CASE ReadParent
  BY <1>12 DEF ReadParent, Goto
<1>13. CASE ArmDeathSignal
  BY <1>13 DEF ArmDeathSignal, Goto
<1>14. CASE CompareParent
  BY <1>14 DEF CompareParent, Goto
<1>15. CASE OpenStore
  BY <1>15 DEF OpenStore, Goto
<1>16. CASE Gate
  BY <1>16 DEF Gate, Goto, Ask
<1>17. CASE Hear
  BY <1>17 DEF Hear, Goto
<1>18. CASE PinTask
  BY <1>18 DEF PinTask, Goto, ReadOf
<1>19. CASE CheckCaller
  BY <1>19 DEF CheckCaller, Goto, Ask
<1>20. CASE RecheckCaller
  BY <1>20 DEF RecheckCaller, Goto
<1>21. CASE LeaveToKernel
  BY <1>21 DEF LeaveToKernel, Goto
<1>22. CASE MayCommit
  BY <1>22 DEF MayCommit, Goto, Release
<1>23. CASE MoveFile
  BY <1>23 DEF MoveFile, Goto, Release
<1>24. CASE NoteRestriction
  BY <1>24 DEF NoteRestriction, Goto
<1>25. CASE Answer
  BY <1>25 DEF Answer, Goto, Declined, AnswerEnosys, KernelRuns
<1>26. CASE LockRoot
  BY <1>26 DEF LockRoot, Goto
<1>27. CASE Maintain
  BY <1>27 DEF Maintain, Goto
<1>28. CASE Refuse
  BY <1>28 DEF Refuse, Goto, Release
<1>29. CASE Panic
  BY <1>29 DEF Panic, Goto, Release
<1>30. CASE SupervisorDies
  BY <1>30 DEF SupervisorDies, SupervisorEnds, Goto, Release
<1>31. CASE DeathSignal
  BY <1>31 DEF DeathSignal, SupervisorEnds, Goto, Release
<1>32. CASE Reap
  BY <1>32 DEF Reap
<1>33. CASE StopDraining
  BY <1>33 DEF StopDraining
<1>34. CASE Respawn
  BY <1>34 DEF Respawn, Goto
<1>35. CASE PassthroughOver
  BY <1>35 DEF PassthroughOver
<1>36. CASE ForkFails
  BY <1>36 DEF ForkFails
<1>37. CASE WatchdogDies
  BY <1>37 DEF WatchdogDies
<1>38. CASE Serve
  BY <1>38 DEF Serve, ReadOf, JobInv
<1>39. CASE UNCHANGED vars
  BY <1>39 DEF vars
<1> HIDE DEF SocketInv
<1> QED
  BY <1>1, <1>2, <1>3, <1>4, <1>5, <1>6, <1>7, <1>8, <1>9, <1>10, <1>11,
     <1>12, <1>13, <1>14, <1>15, <1>16, <1>17, <1>18, <1>19, <1>20, <1>21,
     <1>22, <1>23, <1>24, <1>25, <1>26, <1>27, <1>28, <1>29, <1>30, <1>31,
     <1>32, <1>33, <1>34, <1>35, <1>36, <1>37, <1>38, <1>39
     DEF Next, TaskStep, SupervisorStep, WatchdogStep

\* Captured descriptors lead to the caller as long as it waits, and when the
\* supervisor commits.
LEMMA GripNext ==
    TypeOK /\ JobInv /\ SocketInv /\ GripInv /\ [Next]_vars => GripInv'
<1> SUFFICES ASSUME TypeOK, JobInv, SocketInv, GripInv, [Next]_vars
            PROVE GripInv'
  OBVIOUS
<1> USE SessionConstants DEF TypeOK, GripInv, ActsOnCaller, Job, NoJob, Valid,
        Handling, Capturing, Committing, Answering, Listening,
        kernel, supervisor, broker, counts
<1>1. ASSUME NEW t \in Tasks, NEW what \in {"delete", "restrict"}, Trap(t, what)
      PROVE GripInv'
  BY <1>1 DEF Trap
<1>2. ASSUME NEW t \in Tasks, Interrupt(t) PROVE GripInv'
  BY <1>2 DEF Interrupt, Waiting
<1>3. ASSUME NEW t \in Tasks, Kill(t) PROVE GripInv'
  BY <1>3 DEF Kill
<1>4. ASSUME NEW t \in Tasks, LockerLocks(t) PROVE GripInv'
  BY <1>4 DEF LockerLocks
<1>5. ASSUME NEW t \in Tasks, LockerUnlocks(t) PROVE GripInv'
  BY <1>5 DEF LockerUnlocks
<1>6. ASSUME NEW t \in Tasks, SelfTrash(t) PROVE GripInv'
  BY <1>6 DEF SelfTrash
<1>7. ASSUME NEW t \in Tasks, ListenerClosed(t) PROVE GripInv'
  BY <1>7 DEF ListenerClosed, AnswerEnosys, Waiting
<1>8. ASSUME NEW t \in Tasks, Receive(t) PROVE GripInv'
  BY <1>8 DEF Receive, Goto
<1>9. ASSUME NEW t \in Tasks, PassThrough(t) PROVE GripInv'
  BY <1>9 DEF PassThrough, Declined, AnswerEnosys, KernelRuns
<1>10. ASSUME NEW t \in Tasks, Drain(t) PROVE GripInv'
  BY <1>10 DEF Drain, Declined, AnswerEnosys, KernelRuns
<1>11. CASE SessionOver
  BY <1>11 DEF SessionOver, Goto
<1>12. CASE ReadParent
  BY <1>12 DEF ReadParent, Goto
<1>13. CASE ArmDeathSignal
  BY <1>13 DEF ArmDeathSignal, Goto
<1>14. CASE CompareParent
  BY <1>14 DEF CompareParent, Goto
<1>15. CASE OpenStore
  BY <1>15 DEF OpenStore, Goto
<1>16. CASE Gate
  BY <1>16 DEF Gate, Goto, Ask
<1>17. CASE Hear
  BY <1>17 DEF Hear, Goto, SocketInv
<1>18. CASE PinTask
  BY <1>18 DEF PinTask, Goto, ReadOf, JobInv
<1>19. CASE CheckCaller
  BY <1>19 DEF CheckCaller, Goto, Ask
<1>20. CASE RecheckCaller
  BY <1>20 DEF RecheckCaller, Goto
<1>21. CASE LeaveToKernel
  BY <1>21 DEF LeaveToKernel, Goto
<1>22. CASE MayCommit
  BY <1>22 DEF MayCommit, Goto, Release
<1>23. CASE MoveFile
  BY <1>23 DEF MoveFile, Goto, Release
<1>24. CASE NoteRestriction
  BY <1>24 DEF NoteRestriction, Goto
<1>25. CASE Answer
  BY <1>25 DEF Answer, Goto, Declined, AnswerEnosys, KernelRuns
<1>26. CASE LockRoot
  BY <1>26 DEF LockRoot, Goto
<1>27. CASE Maintain
  BY <1>27 DEF Maintain, Goto
<1>28. CASE Refuse
  BY <1>28 DEF Refuse, Goto, Release
<1>29. CASE Panic
  BY <1>29 DEF Panic, Goto, Release
<1>30. CASE SupervisorDies
  BY <1>30 DEF SupervisorDies, SupervisorEnds, Goto, Release
<1>31. CASE DeathSignal
  BY <1>31 DEF DeathSignal, SupervisorEnds, Goto, Release
<1>32. CASE Reap
  BY <1>32 DEF Reap
<1>33. CASE StopDraining
  BY <1>33 DEF StopDraining
<1>34. CASE Respawn
  BY <1>34 DEF Respawn, Goto
<1>35. CASE PassthroughOver
  BY <1>35 DEF PassthroughOver
<1>36. CASE ForkFails
  BY <1>36 DEF ForkFails
<1>37. CASE WatchdogDies
  BY <1>37 DEF WatchdogDies
<1>38. CASE Serve
  BY <1>38 DEF Serve, ReadOf
<1>39. CASE UNCHANGED vars
  BY <1>39 DEF vars
<1> HIDE DEF GripInv
<1> QED
  BY <1>1, <1>2, <1>3, <1>4, <1>5, <1>6, <1>7, <1>8, <1>9, <1>10, <1>11,
     <1>12, <1>13, <1>14, <1>15, <1>16, <1>17, <1>18, <1>19, <1>20, <1>21,
     <1>22, <1>23, <1>24, <1>25, <1>26, <1>27, <1>28, <1>29, <1>30, <1>31,
     <1>32, <1>33, <1>34, <1>35, <1>36, <1>37, <1>38, <1>39
     DEF Next, TaskStep, SupervisorStep, WatchdogStep

\* The Landlock bit comes first.
LEMMA BitNext ==
    TypeOK /\ JobInv /\ WatchInv /\ BitInv /\ [Next]_vars => BitInv'
<1> SUFFICES ASSUME TypeOK, JobInv, WatchInv, BitInv, [Next]_vars
            PROVE BitInv'
  OBVIOUS
<1> USE SessionConstants DEF TypeOK, BitInv, Job, NoJob, Valid,
        Handling, Capturing, Committing, Answering, Listening,
        kernel, supervisor, broker, counts
<1>1. ASSUME NEW t \in Tasks, NEW what \in {"delete", "restrict"}, Trap(t, what)
      PROVE BitInv'
  BY <1>1 DEF Trap
<1>2. ASSUME NEW t \in Tasks, Interrupt(t) PROVE BitInv'
  BY <1>2 DEF Interrupt, Waiting
<1>3. ASSUME NEW t \in Tasks, Kill(t) PROVE BitInv'
  BY <1>3 DEF Kill
<1>4. ASSUME NEW t \in Tasks, LockerLocks(t) PROVE BitInv'
  BY <1>4 DEF LockerLocks
<1>5. ASSUME NEW t \in Tasks, LockerUnlocks(t) PROVE BitInv'
  BY <1>5 DEF LockerUnlocks
<1>6. ASSUME NEW t \in Tasks, SelfTrash(t) PROVE BitInv'
  BY <1>6 DEF SelfTrash
<1>7. ASSUME NEW t \in Tasks, ListenerClosed(t) PROVE BitInv'
  BY <1>7 DEF ListenerClosed, AnswerEnosys, Waiting
<1>8. ASSUME NEW t \in Tasks, Receive(t) PROVE BitInv'
  BY <1>8 DEF Receive, Goto
<1>9. ASSUME NEW t \in Tasks, PassThrough(t) PROVE BitInv'
  BY <1>9 DEF PassThrough, Declined, AnswerEnosys, KernelRuns
<1>10. ASSUME NEW t \in Tasks, Drain(t) PROVE BitInv'
  BY <1>10 DEF Drain, Declined, AnswerEnosys, KernelRuns, WatchInv
<1>11. CASE SessionOver
  BY <1>11 DEF SessionOver, Goto
<1>12. CASE ReadParent
  BY <1>12 DEF ReadParent, Goto
<1>13. CASE ArmDeathSignal
  BY <1>13 DEF ArmDeathSignal, Goto
<1>14. CASE CompareParent
  BY <1>14 DEF CompareParent, Goto
<1>15. CASE OpenStore
  BY <1>15 DEF OpenStore, Goto
<1>16. CASE Gate
  BY <1>16 DEF Gate, Goto, Ask
<1>17. CASE Hear
  BY <1>17 DEF Hear, Goto
<1>18. CASE PinTask
  BY <1>18 DEF PinTask, Goto, ReadOf
<1>19. CASE CheckCaller
  BY <1>19 DEF CheckCaller, Goto, Ask
<1>20. CASE RecheckCaller
  BY <1>20 DEF RecheckCaller, Goto
<1>21. CASE LeaveToKernel
  BY <1>21 DEF LeaveToKernel, Goto
<1>22. CASE MayCommit
  BY <1>22 DEF MayCommit, Goto, Release
<1>23. CASE MoveFile
  BY <1>23 DEF MoveFile, Goto, Release
<1>24. CASE NoteRestriction
  BY <1>24 DEF NoteRestriction, Goto
<1>25. CASE Answer
  BY <1>25 DEF Answer, Goto, Declined, AnswerEnosys, KernelRuns, JobInv
<1>26. CASE LockRoot
  BY <1>26 DEF LockRoot, Goto
<1>27. CASE Maintain
  BY <1>27 DEF Maintain, Goto
<1>28. CASE Refuse
  BY <1>28 DEF Refuse, Goto, Release
<1>29. CASE Panic
  BY <1>29 DEF Panic, Goto, Release
<1>30. CASE SupervisorDies
  BY <1>30 DEF SupervisorDies, SupervisorEnds, Goto, Release
<1>31. CASE DeathSignal
  BY <1>31 DEF DeathSignal, SupervisorEnds, Goto, Release
<1>32. CASE Reap
  BY <1>32 DEF Reap
<1>33. CASE StopDraining
  BY <1>33 DEF StopDraining
<1>34. CASE Respawn
  BY <1>34 DEF Respawn, Goto
<1>35. CASE PassthroughOver
  BY <1>35 DEF PassthroughOver
<1>36. CASE ForkFails
  BY <1>36 DEF ForkFails
<1>37. CASE WatchdogDies
  BY <1>37 DEF WatchdogDies
<1>38. CASE Serve
  BY <1>38 DEF Serve, ReadOf
<1>39. CASE UNCHANGED vars
  BY <1>39 DEF vars
<1> HIDE DEF BitInv
<1> QED
  BY <1>1, <1>2, <1>3, <1>4, <1>5, <1>6, <1>7, <1>8, <1>9, <1>10, <1>11,
     <1>12, <1>13, <1>14, <1>15, <1>16, <1>17, <1>18, <1>19, <1>20, <1>21,
     <1>22, <1>23, <1>24, <1>25, <1>26, <1>27, <1>28, <1>29, <1>30, <1>31,
     <1>32, <1>33, <1>34, <1>35, <1>36, <1>37, <1>38, <1>39
     DEF Next, TaskStep, SupervisorStep, WatchdogStep

\* Only policy, or nothing to delete, continues a deferred deletion.
LEMMA GrantNext ==
    TypeOK /\ CountInv /\ JobInv /\ WatchInv /\ BitInv /\ GrantInv /\ [Next]_vars => GrantInv'
<1> SUFFICES ASSUME TypeOK, CountInv, JobInv, WatchInv, BitInv, GrantInv, [Next]_vars
            PROVE GrantInv'
  OBVIOUS
<1> USE SessionConstants DEF TypeOK, GrantInv, Job, NoJob, Valid,
        Handling, Capturing, Committing, Answering, Listening,
        kernel, supervisor, broker, counts
<1>1. ASSUME NEW t \in Tasks, NEW what \in {"delete", "restrict"}, Trap(t, what)
      PROVE GrantInv'
  BY <1>1 DEF Trap
<1>2. ASSUME NEW t \in Tasks, Interrupt(t) PROVE GrantInv'
  BY <1>2 DEF Interrupt, Waiting
<1>3. ASSUME NEW t \in Tasks, Kill(t) PROVE GrantInv'
  BY <1>3 DEF Kill
<1>4. ASSUME NEW t \in Tasks, LockerLocks(t) PROVE GrantInv'
  BY <1>4 DEF LockerLocks
<1>5. ASSUME NEW t \in Tasks, LockerUnlocks(t) PROVE GrantInv'
  BY <1>5 DEF LockerUnlocks
<1>6. ASSUME NEW t \in Tasks, SelfTrash(t) PROVE GrantInv'
  BY <1>6 DEF SelfTrash
<1>7. ASSUME NEW t \in Tasks, ListenerClosed(t) PROVE GrantInv'
  BY <1>7 DEF ListenerClosed, AnswerEnosys, Waiting
<1>8. ASSUME NEW t \in Tasks, Receive(t) PROVE GrantInv'
  BY <1>8 DEF Receive, Goto
<1>9. ASSUME NEW t \in Tasks, PassThrough(t) PROVE GrantInv'
  BY <1>9 DEF PassThrough, Declined, AnswerEnosys, KernelRuns
<1>10. ASSUME NEW t \in Tasks, Drain(t) PROVE GrantInv'
  BY <1>10 DEF Drain, Declined, AnswerEnosys, KernelRuns, WatchInv
<1>11. CASE SessionOver
  BY <1>11 DEF SessionOver, Goto
<1>12. CASE ReadParent
  BY <1>12 DEF ReadParent, Goto
<1>13. CASE ArmDeathSignal
  BY <1>13 DEF ArmDeathSignal, Goto
<1>14. CASE CompareParent
  BY <1>14 DEF CompareParent, Goto
<1>15. CASE OpenStore
  BY <1>15 DEF OpenStore, Goto
<1>16. CASE Gate
  BY <1>16 DEF Gate, Goto, Ask
<1>17. CASE Hear
  BY <1>17 DEF Hear, Goto
<1>18. CASE PinTask
  BY <1>18 DEF PinTask, Goto, ReadOf
<1>19. CASE CheckCaller
  BY <1>19 DEF CheckCaller, Goto, Ask
<1>20. CASE RecheckCaller
  BY <1>20 DEF RecheckCaller, Goto
<1>21. CASE LeaveToKernel
  BY <1>21 DEF LeaveToKernel, Goto
<1>22. CASE MayCommit
  BY <1>22 DEF MayCommit, Goto, Release
<1>23. CASE MoveFile
  BY <1>23 DEF MoveFile, Goto, Release
<1>24. CASE NoteRestriction
  BY <1>24 DEF NoteRestriction, Goto, BitInv
<1>25. CASE Answer
  BY <1>25 DEF Answer, Goto, Declined, AnswerEnosys, KernelRuns
<1>26. CASE LockRoot
  BY <1>26 DEF LockRoot, Goto
<1>27. CASE Maintain
  BY <1>27 DEF Maintain, Goto
<1>28. CASE Refuse
  BY <1>28 DEF Refuse, Goto, Release
<1>29. CASE Panic
  BY <1>29 DEF Panic, Goto, Release
<1>30. CASE SupervisorDies
  BY <1>30 DEF SupervisorDies, SupervisorEnds, Goto, Release
<1>31. CASE DeathSignal
  BY <1>31 DEF DeathSignal, SupervisorEnds, Goto, Release
<1>32. CASE Reap
  BY <1>32 DEF Reap
<1>33. CASE StopDraining
  BY <1>33 DEF StopDraining
<1>34. CASE Respawn
  BY <1>34 DEF Respawn, Goto
<1>35. CASE PassthroughOver
  BY <1>35 DEF PassthroughOver
<1>36. CASE ForkFails
  BY <1>36 DEF ForkFails
<1>37. CASE WatchdogDies
  BY <1>37 DEF WatchdogDies
<1>38. CASE Serve
  BY <1>38 DEF Serve, ReadOf
<1>39. CASE UNCHANGED vars
  BY <1>39 DEF vars
<1> HIDE DEF GrantInv
<1> QED
  BY <1>1, <1>2, <1>3, <1>4, <1>5, <1>6, <1>7, <1>8, <1>9, <1>10, <1>11,
     <1>12, <1>13, <1>14, <1>15, <1>16, <1>17, <1>18, <1>19, <1>20, <1>21,
     <1>22, <1>23, <1>24, <1>25, <1>26, <1>27, <1>28, <1>29, <1>30, <1>31,
     <1>32, <1>33, <1>34, <1>35, <1>36, <1>37, <1>38, <1>39
     DEF Next, TaskStep, SupervisorStep, WatchdogStep

\* decline() has the kernel run only what was not deferred.
LEMMA DeclinedKeeps ==
    ASSUME TypeOK, CountInv, DeferredKept, NEW t \in Tasks, Waiting(t),
           Declined(t), file' = file
    PROVE  DeferredKept'
<1> USE DEF TypeOK
<1>1. CASE fate' = fate
  BY <1>1 DEF DeferredKept
<1>2. CASE fate' # fate
  <2>1. t \notin Deferring
    BY <1>2 DEF Declined, AnswerEnosys, KernelRuns
  <2>2. fate' = [fate EXCEPT ![file[t]] = IF @ = "there" THEN "deleted" ELSE @]
    BY <1>2, <2>1 DEF Declined, KernelRuns
  <2>3. \A u \in Tasks : file[u] = file[t] => u = t
    BY DEF CountInv, Files
  <2>4. \A f \in 1..MaxCalls : fate'[f] = "deleted" => fate[f] = "deleted" \/ f = file[t]
    BY <2>2
  <2> QED
    BY <2>1, <2>3, <2>4, SessionConstants DEF DeferredKept
<1> QED
  BY <1>1, <1>2

\* No deferred file is deleted by the kernel.
LEMMA DeferNext ==
    TypeOK /\ CountInv /\ JobInv /\ GrantInv /\ DeferredKept /\ [Next]_vars => DeferredKept'
<1> SUFFICES ASSUME TypeOK, CountInv, JobInv, GrantInv, DeferredKept, [Next]_vars
            PROVE DeferredKept'
  OBVIOUS
<1> USE SessionConstants DEF TypeOK, DeferredKept, Job, NoJob, Valid,
        Handling, Capturing, Committing, Answering, Listening,
        kernel, supervisor, broker, counts
<1>1. ASSUME NEW t \in Tasks, NEW what \in {"delete", "restrict"}, Trap(t, what)
      PROVE DeferredKept'
  <2>1. file' = [file EXCEPT ![t] = calls + 1] /\ fate' = fate
    BY <1>1 DEF Trap
  <2>2. \A f \in 1..MaxCalls : fate[f] = "deleted" => f # calls + 1
    BY DEF CountInv
  <2> QED
    BY <2>1, <2>2
<1>2. ASSUME NEW t \in Tasks, Interrupt(t) PROVE DeferredKept'
  BY <1>2 DEF Interrupt, Waiting
<1>3. ASSUME NEW t \in Tasks, Kill(t) PROVE DeferredKept'
  BY <1>3 DEF Kill
<1>4. ASSUME NEW t \in Tasks, LockerLocks(t) PROVE DeferredKept'
  BY <1>4 DEF LockerLocks
<1>5. ASSUME NEW t \in Tasks, LockerUnlocks(t) PROVE DeferredKept'
  BY <1>5 DEF LockerUnlocks
<1>6. ASSUME NEW t \in Tasks, SelfTrash(t) PROVE DeferredKept'
  BY <1>6 DEF SelfTrash
<1>7. ASSUME NEW t \in Tasks, ListenerClosed(t) PROVE DeferredKept'
  BY <1>7 DEF ListenerClosed, AnswerEnosys, Waiting
<1>8. ASSUME NEW t \in Tasks, Receive(t) PROVE DeferredKept'
  BY <1>8 DEF Receive, Goto
<1>9. ASSUME NEW t \in Tasks, PassThrough(t) PROVE DeferredKept'
  BY <1>9, DeclinedKeeps DEF PassThrough, Waiting
<1>10. ASSUME NEW t \in Tasks, Drain(t) PROVE DeferredKept'
  BY <1>10, DeclinedKeeps DEF Drain, Waiting
<1>11. CASE SessionOver
  BY <1>11 DEF SessionOver, Goto
<1>12. CASE ReadParent
  BY <1>12 DEF ReadParent, Goto
<1>13. CASE ArmDeathSignal
  BY <1>13 DEF ArmDeathSignal, Goto
<1>14. CASE CompareParent
  BY <1>14 DEF CompareParent, Goto
<1>15. CASE OpenStore
  BY <1>15 DEF OpenStore, Goto
<1>16. CASE Gate
  BY <1>16 DEF Gate, Goto, Ask
<1>17. CASE Hear
  BY <1>17 DEF Hear, Goto
<1>18. CASE PinTask
  BY <1>18 DEF PinTask, Goto, ReadOf
<1>19. CASE CheckCaller
  BY <1>19 DEF CheckCaller, Goto, Ask
<1>20. CASE RecheckCaller
  BY <1>20 DEF RecheckCaller, Goto
<1>21. CASE LeaveToKernel
  BY <1>21 DEF LeaveToKernel, Goto
<1>22. CASE MayCommit
  BY <1>22 DEF MayCommit, Goto, Release
<1>23. CASE MoveFile
  BY <1>23 DEF MoveFile, Goto, Release
<1>24. CASE NoteRestriction
  BY <1>24 DEF NoteRestriction, Goto
<1>25. CASE Answer
  <2>1. file' = file
    BY <1>25 DEF Answer
  <2>2. CASE fate' = fate
    BY <2>1, <2>2
  <2>3. CASE fate' # fate
    <3>1. job \in Job /\ Valid(job) /\ (KernelRuns(job.task) \/ Declined(job.task))
      BY <1>25, <2>3 DEF Answer
    <3>2. KernelRuns(job.task) /\ kind[job.task] = "delete"
      BY <3>1, <2>3 DEF Declined, AnswerEnosys, KernelRuns
    <3>3. /\ job.task \in Tasks /\ task[job.task] = "taken"
          /\ kind[job.task] = job.kind /\ file[job.task] = job.file
      BY <1>25, <3>1 DEF JobInv, Answer
    <3>4. job.file \in 1..MaxCalls
      BY <3>1
    <3>5. fate' = [fate EXCEPT ![job.file] = IF @ = "there" THEN "deleted" ELSE @]
      BY <3>2, <3>3 DEF KernelRuns
    <3>6. fate[job.file] = "there"
      BY <2>3, <3>4, <3>5
    <3>7. job.task \notin Deferring \ Bypassed \/ job.file \in Excluded
      <4>1. CASE spc = "continue"
        BY <4>1, <3>1, <3>2, <3>3, <3>6 DEF GrantInv
      <4>2. CASE spc = "decline"
        BY <1>25, <4>2, <3>1, <3>2, <3>3, <2>3 DEF Answer, Declined,
        AnswerEnosys
      <4>3. CASE spc \in {"success", "errno"}
        BY <1>25, <4>3, <2>3 DEF Answer
      <4> QED
        BY <1>25, <4>1, <4>2, <4>3 DEF Answer
    <3>8. \A u \in Tasks : file[u] = job.file => u = job.task
      BY <3>3, <3>4 DEF CountInv
    <3>9. \A f \in 1..MaxCalls : fate'[f] = "deleted" => fate[f] = "deleted" \/ f = job.file
      BY <3>5
    <3> QED
      BY <2>1, <3>3, <3>7, <3>8, <3>9
  <2> QED
    BY <2>2, <2>3
<1>26. CASE LockRoot
  BY <1>26 DEF LockRoot, Goto
<1>27. CASE Maintain
  BY <1>27 DEF Maintain, Goto
<1>28. CASE Refuse
  BY <1>28 DEF Refuse, Goto, Release
<1>29. CASE Panic
  BY <1>29 DEF Panic, Goto, Release
<1>30. CASE SupervisorDies
  BY <1>30 DEF SupervisorDies, SupervisorEnds, Goto, Release
<1>31. CASE DeathSignal
  BY <1>31 DEF DeathSignal, SupervisorEnds, Goto, Release
<1>32. CASE Reap
  BY <1>32 DEF Reap
<1>33. CASE StopDraining
  BY <1>33 DEF StopDraining
<1>34. CASE Respawn
  BY <1>34 DEF Respawn, Goto
<1>35. CASE PassthroughOver
  BY <1>35 DEF PassthroughOver
<1>36. CASE ForkFails
  BY <1>36 DEF ForkFails
<1>37. CASE WatchdogDies
  BY <1>37 DEF WatchdogDies
<1>38. CASE Serve
  BY <1>38 DEF Serve, ReadOf
<1>39. CASE UNCHANGED vars
  BY <1>39 DEF vars
<1> HIDE DEF DeferredKept
<1> QED
  BY <1>1, <1>2, <1>3, <1>4, <1>5, <1>6, <1>7, <1>8, <1>9, <1>10, <1>11,
     <1>12, <1>13, <1>14, <1>15, <1>16, <1>17, <1>18, <1>19, <1>20, <1>21,
     <1>22, <1>23, <1>24, <1>25, <1>26, <1>27, <1>28, <1>29, <1>30, <1>31,
     <1>32, <1>33, <1>34, <1>35, <1>36, <1>37, <1>38, <1>39
     DEF Next, TaskStep, SupervisorStep, WatchdogStep

\* Every step preserves all of it.
LEMMA InvNext == IInv /\ [Next]_vars => IInv'
  BY TypeNext, CountNext, JobNext, WatchNext, SocketNext, GripNext, BitNext,
     GrantNext, DeferNext DEF IInv

\* It is an invariant of every session.
LEMMA Invariance == Spec => []IInv
<1>1. Init => IInv
  BY InvInit
<1>2. IInv /\ [Next]_vars => IInv'
  BY InvNext
<1> QED
  BY <1>1, <1>2, PTL DEF Spec

-----------------------------------------------------------------------------
(* The theorems.                                                           *)

\* Every variable keeps its type, and a supervisor that handles something
\* knows what (main loop of run_supervisor, supervisor.rs).
THEOREM Typing == Spec => []TypeOK
<1>1. IInv => TypeOK
  BY DEF IInv
<1> QED
  BY <1>1, Invariance, PTL

\* The supervisor moves what its caller named, however many calls, reused
\* task numbers and dead predecessors there are (try_pinned, pin.rs).
THEOREM CallerOnly == Spec => []ActsOnCaller
<1>1. IInv => ActsOnCaller
  BY DEF IInv, GripInv
<1> QED
  BY <1>1, Invariance, PTL

\* A supervisor and its replacements never answer each other's requests
\* (connect and serve, broker.rs).
THEOREM RepliesArePrivate == Spec => []SocketInv
<1>1. IInv => SocketInv
  BY DEF IInv
<1> QED
  BY <1>1, Invariance, PTL

\* After a confinement nothing is moved with the supervisor's credentials
\* (the gate of handle_notification, supervisor.rs, and landlock.rs).
THEOREM ConfinedStayUntouched == Spec => ConfinedUntouched
<1>1. IInv /\ [Next]_vars => [MoveFile => ~confined]_vars
  BY DEF IInv, BitInv, MoveFile, Committing, Capturing
<1> QED
  BY <1>1, Invariance, PTL DEF Spec, ConfinedUntouched

\* No deferred deletion reaches the kernel against policy (decline and the
\* refusals of try_pinned).
THEOREM DeferredAreKept == Spec => []DeferredKept
<1>1. IInv => DeferredKept
  BY DEF IInv
<1> QED
  BY <1>1, Invariance, PTL

=============================================================================
