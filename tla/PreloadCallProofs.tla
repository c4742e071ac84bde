-------------------------- MODULE PreloadCallProofs --------------------------
(***************************************************************************)
(* The deletion call of the preload library, proved for any number of      *)
(* callers, names, changes, foreign tools, faults and crashes: the caller  *)
(* is told the truth, entries are complete and nothing else goes.          *)
(* At the end: which rm the shim passes a call through to (RealRm), for    *)
(* any number of invocations, candidates, installations and failed probes. *)
(***************************************************************************)
EXTENDS PreloadCall, TLAPS, WellFoundedInduction, SequenceTheorems

-----------------------------------------------------------------------------
(* The inductive invariant, one conjunct for each thing a call knows.      *)

\* the steps up to the acquisition of the lock
Before == {"idle", "defer", "deferDir", "resolve", "stat", "peek", "limits", "lock"}
\* the steps at which its copy is not there, its information is whole, and it is being copied
Unfilled == {"vacant", "write", "drop", "recheck", "rename", "restat", "link", "open", "compare"}
Described == {"recheck", "rename", "restat", "link", "open", "read", "retire", "unlink"}
Copying == {"link", "open", "read", "retire", "unlink"}

\* How a call goes from step to step, whatever the others do.
CallOK(k) ==
  /\ k.pc \in Steps \ {"idle", "done", "dead"} => k.inside
  /\ k.pc # "done" => k.took.how = "not"
  /\ k.pc = "done" => (k.ret = "ok" <=> k.took.how # "not")
  /\ k.pc \in Locked \ {"claim"} \/ (k.pc = "done" /\ k.took.how = "trash") => k.slot \in Names
  /\ k.pc = "drop" => k.next \in Errors \cup {"again", "real"}
  /\ k.pc = "uncopy" => k.next \in Errors \cup {"compare"}
  /\ k.pc \in Before \cup (Locked \ {"drop"}) => k.attempts < MaxAttempts
  /\ k.pc = "drop" /\ k.next = "again" => k.attempts < MaxAttempts /\ ~k.copying
  /\ k.pc \in Before \cup {"claim", "vacant", "write", "recheck", "rename", "restat"} => ~k.copying
  /\ k.passed /\ setting.store \in {"unsafe", "broken"} =>
       k.pc \in {"lock", "done", "dead"} /\ k.took.how = "not"
  /\ k.pc \in Locked => setting.store = "ok"

\* What a call has in the trash is under the name it claimed; a call that has not got so far, or
\* ends with nothing there, has nothing anywhere.
TraceOK(c, k) == \A n \in Names :
  /\ \/ k.pc \in Before \cup {"claim", "real"}
     \/ k.pc = "done" /\ k.took.how # "trash"
     \/ k.pc \in Locked /\ n # k.slot
     => info[n].by # c /\ files[n].by # c
  /\ k.pc \in Unfilled => files[n].by # c

\* The entry of a call is its own, and described before anything is moved into it.
EntryOK(c, k) == k.slot \notin alien =>
  /\ k.pc \in Locked \ {"claim"} => info[k.slot].by = c
  /\ k.pc \in Described => info[k.slot].whole
  /\ k.pc \in {"read", "retire", "unlink"} => files[k.slot].by = c
  /\ k.pc = "done" /\ k.took.how = "trash" =>
       info[k.slot] = [by |-> c, whole |-> TRUE] /\ files[k.slot].by = c

\* an identity that was at the path at some moment, and what is there now is no older
Seen(i, v) == i <= made /\ (at.id = i /\ i # 0 => v <= at.ver)
\* what is at the path is the source, or nothing
Unchanged(k) == at.id = 0 \/ (at.id = k.src.id /\ at.ver = k.src.ver)

\* The object of a call is the one its stat saw, until the last check.
SourceOK(k) ==
  /\ Seen(k.src.id, k.src.ver)
  /\ k.pc \in Copying => k.src.id # 0 /\ k.src.id = k.meta.id
  /\ k.pc = "rename" /\ ~k.late => at.id \in {0, k.meta.id}
  /\ k.pc = "unlink" /\ ~k.late => Unchanged(k)
  /\ (k.pc = "real" \/ (k.pc = "drop" /\ k.next = "real")) /\ k.copying /\ ~k.late =>
       Unchanged(k) \/ (k.src.kind = "link" /\ ~k.copied)
  /\ k.pc = "link" => k.src.kind = "link" /\ ~k.copied
  /\ k.pc = "done" /\ k.took.how = "trash" /\ ~k.late => k.took.id = k.meta.id
  /\ k.pc = "done" /\ k.took.how = "real" /\ k.copying /\ ~k.late =>
       \/ k.took.id = k.src.id /\ k.took.ver = k.src.ver
       \/ k.src.kind = "link" /\ ~k.copied

\* The copy is of the source or of what came to its place, and of the source itself once that
\* is about to be removed.
CopyOK(k) == k.slot \notin alien =>
  /\ k.pc = "retire" =>
       /\ Seen(files[k.slot].id, files[k.slot].ver)
       /\ files[k.slot].id >= k.src.id
       /\ files[k.slot].id = k.src.id => files[k.slot].ver >= k.src.ver
  /\ k.pc = "unlink" => files[k.slot].id = k.src.id /\ files[k.slot].ver = k.src.ver
  /\ k.pc = "done" /\ k.took.how = "trash" /\ ~k.late =>
       files[k.slot].id = k.took.id /\ files[k.slot].ver = k.took.ver

Known(c, k) == CallOK(k) /\ TraceOK(c, k) /\ EntryOK(c, k) /\ SourceOK(k) /\ CopyOK(k)
KnownInv == \A c \in Callers : Known(c, call[c])
IInv == TypeOK /\ KnownInv

-----------------------------------------------------------------------------
(* Types.                                                                  *)

\* A step of one call leaves the others as they are.
LEMMA Becomes ==
  ASSUME call \in [Callers -> Calls], NEW c \in Callers, NEW k \in Calls, Become(c, k)
  PROVE  call' \in [Callers -> Calls] /\ call'[c] = k /\ \A d \in Callers \ {c} : call'[d] = call[d]
BY DEF Become

Nexts == Errors \cup {"again", "real", "compare"}
Tooks == [id : Nat, ver : Nat, how : {"not", "supervisor", "trash", "real"}]

\* Each step knows of the call what Calls says.
LEMMA Updates ==
  ASSUME NEW k \in Calls
  PROVE  /\ \A step \in Steps : [k EXCEPT !.pc = step] \in Calls
         /\ \A ret \in Errors : [k EXCEPT !.pc = "done", !.ret = ret, !.inside = FALSE] \in Calls
         /\ \A took \in Tooks : [k EXCEPT !.pc = "done", !.ret = "ok", !.inside = FALSE,
                                          !.took = took] \in Calls
         /\ \A next \in Nexts, step \in Steps : [k EXCEPT !.pc = step, !.next = next] \in Calls
         /\ \A step \in Steps, hook \in Hooks : [k EXCEPT !.pc = step, !.hook = hook,
                                                          !.inside = TRUE] \in Calls
         /\ \A object \in Objects : [k EXCEPT !.pc = "stat", !.named = object] \in Calls
         /\ \A object \in Objects, step \in Steps : [k EXCEPT !.pc = step,
                                                              !.meta = object] \in Calls
         /\ \A step \in Steps : [k EXCEPT !.pc = step, !.passed = TRUE] \in Calls
         /\ \A n \in 1..MaxNames + 1 : [k EXCEPT !.try = n] \in Calls
         /\ \A n \in 0..MaxNames : [k EXCEPT !.pc = "vacant", !.slot = n] \in Calls
         /\ \A n \in 1..MaxNames + 1 : [k EXCEPT !.pc = "claim", !.try = n] \in Calls
         /\ \A step \in Steps, late \in BOOLEAN : [k EXCEPT !.pc = step, !.late = late] \in Calls
         /\ \A n \in 0..MaxAttempts, next \in Nexts : [k EXCEPT !.pc = "drop", !.attempts = n,
                                                                !.next = next] \in Calls
         /\ \A step \in Steps, object \in Objects :
              [k EXCEPT !.pc = step, !.src = object, !.copying = TRUE, !.copied = FALSE,
                        !.late = FALSE] \in Calls
         /\ \A step \in Steps, object \in Objects :
              [k EXCEPT !.pc = step, !.src = object, !.copied = TRUE] \in Calls
         /\ \A step \in Steps : [k EXCEPT !.pc = step, !.copied = TRUE] \in Calls
         /\ \A next \in Nexts, late \in BOOLEAN : [k EXCEPT !.pc = "drop", !.next = next,
                                                            !.late = late] \in Calls
         /\ \A late \in BOOLEAN : [k EXCEPT !.late = late] \in Calls
<1>1. ASSUME NEW step \in Steps PROVE [k EXCEPT !.pc = step] \in Calls
  BY DEF Calls
<1>2. ASSUME NEW ret \in Errors
      PROVE  [k EXCEPT !.pc = "done", !.ret = ret, !.inside = FALSE] \in Calls
  BY DEF Calls, Steps
<1>3. ASSUME NEW took \in Tooks
      PROVE  [k EXCEPT !.pc = "done", !.ret = "ok", !.inside = FALSE, !.took = took] \in Calls
  BY DEF Calls, Steps, Tooks
<1>4. ASSUME NEW next \in Nexts, NEW step \in Steps
      PROVE  [k EXCEPT !.pc = step, !.next = next] \in Calls
  BY DEF Calls, Nexts
<1>5. ASSUME NEW step \in Steps, NEW hook \in Hooks
      PROVE  [k EXCEPT !.pc = step, !.hook = hook, !.inside = TRUE] \in Calls
  BY DEF Calls
<1>6. ASSUME NEW object \in Objects PROVE [k EXCEPT !.pc = "stat", !.named = object] \in Calls
  BY DEF Calls, Steps
<1>7. ASSUME NEW object \in Objects, NEW step \in Steps
      PROVE  [k EXCEPT !.pc = step, !.meta = object] \in Calls
  BY DEF Calls
<1>8. ASSUME NEW step \in Steps PROVE [k EXCEPT !.pc = step, !.passed = TRUE] \in Calls
  BY DEF Calls
<1>9. ASSUME NEW n \in 1..MaxNames + 1 PROVE [k EXCEPT !.try = n] \in Calls
  BY DEF Calls
<1>10. ASSUME NEW n \in 0..MaxNames PROVE [k EXCEPT !.pc = "vacant", !.slot = n] \in Calls
  BY DEF Calls, Steps, Locked
<1>11. ASSUME NEW n \in 1..MaxNames + 1 PROVE [k EXCEPT !.pc = "claim", !.try = n] \in Calls
  BY DEF Calls, Steps, Locked
<1>12. ASSUME NEW step \in Steps, NEW late \in BOOLEAN
      PROVE  [k EXCEPT !.pc = step, !.late = late] \in Calls
  BY DEF Calls
<1>13. ASSUME NEW n \in 0..MaxAttempts, NEW next \in Nexts
      PROVE  [k EXCEPT !.pc = "drop", !.attempts = n, !.next = next] \in Calls
  BY DEF Calls, Steps, Locked, Nexts
<1>14. ASSUME NEW step \in Steps, NEW object \in Objects
      PROVE  [k EXCEPT !.pc = step, !.src = object, !.copying = TRUE, !.copied = FALSE,
                       !.late = FALSE] \in Calls
  BY DEF Calls
<1>15. ASSUME NEW step \in Steps, NEW object \in Objects
      PROVE  [k EXCEPT !.pc = step, !.src = object, !.copied = TRUE] \in Calls
  BY DEF Calls
<1>16. ASSUME NEW next \in Nexts, NEW late \in BOOLEAN
      PROVE  [k EXCEPT !.pc = "drop", !.next = next, !.late = late] \in Calls
  BY DEF Calls, Steps, Locked, Nexts
<1>17. ASSUME NEW late \in BOOLEAN PROVE [k EXCEPT !.late = late] \in Calls
  BY DEF Calls
<1>18. ASSUME NEW step \in Steps PROVE [k EXCEPT !.pc = step, !.copied = TRUE] \in Calls
  BY DEF Calls
<1> QED
  BY <1>1, <1>2, <1>3, <1>4, <1>5, <1>6, <1>7, <1>8, <1>9, <1>10, <1>11, <1>12, <1>13, <1>14,
     <1>15, <1>16, <1>17, <1>18

\* What the kernel answers is an error or success.
LEMMA Fit ==
  ASSUME NEW object \in Objects, NEW removedir
  PROVE  Unfit(object, removedir) \in Errors \cup {"ok"}
BY DEF Unfit, Errors

\* What a call knows stays of its type.
LEMMA CallTypes ==
  ASSUME TypeOK, KnownInv, [Next]_vars
  PROVE  call' \in [Callers -> Calls]
<1> USE PreloadConstants
<1> call \in [Callers -> Calls] /\ at \in Objects /\ setting \in Settings
  BY DEF TypeOK
<1> /\ "real" \in Steps /\ "stat" \in Steps /\ "peek" \in Steps /\ "limits" \in Steps
/\ "lock" \in Steps
    /\ "resolve" \in Steps /\ "deferDir" \in Steps /\ "defer" \in Steps /\ "done" \in Steps
    /\ "dead" \in Steps /\ Locked \subseteq Steps
  BY DEF Steps
<1> /\ "claim" \in Locked /\ "write" \in Locked /\ "drop" \in Locked /\ "recheck" \in Locked
    /\ "rename" \in Locked /\ "restat" \in Locked /\ "link" \in Locked /\ "open" \in Locked
    /\ "read" \in Locked /\ "uncopy" \in Locked /\ "compare" \in Locked /\ "retire" \in Locked
    /\ "unlink" \in Locked
  BY DEF Locked
<1> /\ Errors \subseteq Nexts /\ "again" \in Nexts /\ "real" \in Nexts /\ "compare" \in Nexts
    /\ "EBUSY" \in Errors /\ "EACCES" \in Errors /\ "EIO" \in Errors
  BY DEF Nexts, Errors
<1>a. \A how \in {"supervisor", "trash", "real"} : [id |-> at.id, ver |-> at.ver, how |-> how] \in Tooks
  BY DEF Objects, Tooks
<1>t. ASSUME NEW c \in Callers, NEW how \in {"supervisor", "trash", "real"}, Take(c, how)
      PROVE  call' \in [Callers -> Calls]
  BY <1>a, <1>t, Becomes, Updates DEF Take
<1>r. ASSUME NEW c \in Callers, NEW ret \in Errors, Return(c, ret)
      PROVE  call' \in [Callers -> Calls]
  BY <1>r, Becomes, Updates DEF Return
<1>o. ASSUME NEW c \in Callers, NEW step \in Steps, To(c, step)
      PROVE  call' \in [Callers -> Calls]
  BY <1>o, Becomes, Updates DEF To
<1>g. ASSUME NEW c \in Callers, NEW next \in Nexts, GiveUp(c, next) \/ UndoCopy(c, next)
      PROVE  call' \in [Callers -> Calls]
  BY <1>g, Becomes, Updates DEF GiveUp, UndoCopy
<1>1. ASSUME NEW c \in Callers, Enter(c) PROVE call' \in [Callers -> Calls]
  <2> PICK hook \in setting.hooks[c], step \in {"defer", "real"} :
         Become(c, [call[c] EXCEPT !.pc = step, !.hook = hook, !.inside = TRUE])
    BY <1>1 DEF Enter
  <2> hook \in Hooks
    OBVIOUS
  <2> QED
    BY Becomes, Updates
<1>2. ASSUME NEW c \in Callers, Defer(c) PROVE call' \in [Callers -> Calls]
  BY <1>2, <1>t, <1>r, <1>o, Fit DEF Defer
<1>3. ASSUME NEW c \in Callers, Resolve(c) PROVE call' \in [Callers -> Calls]
  <2> DEFINE named == IF Named(call[c].hook) THEN at ELSE Nothing
  <2>1. named \in Objects
    BY DEF Nothing, Object, Objects
  <2> HIDE DEF named
  <2>2. [call[c] EXCEPT !.pc = "stat", !.named = named] \in Calls
    BY <2>1, Updates
  <2> QED
    BY <1>3, <2>2, <1>o, Becomes DEF Resolve, named
<1>4. ASSUME NEW c \in Callers, Stat(c) PROVE call' \in [Callers -> Calls]
  <2>2. \A step \in Steps : [call[c] EXCEPT !.pc = step, !.meta = at] \in Calls
    BY Updates
  <2> QED
    BY <1>4, <2>2, <1>o, Becomes DEF Stat
<1>5. ASSUME NEW c \in Callers, Peek(c) PROVE call' \in [Callers -> Calls]
  BY <1>5, <1>o DEF Peek
<1>6. ASSUME NEW c \in Callers, Limits(c) PROVE call' \in [Callers -> Calls]
  BY <1>6, <1>o, Becomes, Updates DEF Limits
<1>7. ASSUME NEW c \in Callers, Lock(c) PROVE call' \in [Callers -> Calls]
  BY <1>7, <1>o, <1>r DEF Lock
<1>8. ASSUME NEW c \in Callers, Claim(c) PROVE call' \in [Callers -> Calls]
  <2>1. call[c].try \in Names => call[c].try + 1 \in 1..MaxNames + 1 /\ call[c].try \in 0..MaxNames
    BY DEF Names
  <2>2. call[c].try \in Names => /\ [call[c] EXCEPT !.try = call[c].try + 1] \in Calls
                                 /\ [call[c] EXCEPT !.pc = "vacant", !.slot = call[c].try] \in Calls
    BY <2>1, Updates
  <2> QED
    BY <1>8, <2>2, <1>o, Becomes DEF Claim
<1>9. ASSUME NEW c \in Callers, Vacant(c) PROVE call' \in [Callers -> Calls]
  <2>1. call[c].slot + 1 \in 1..MaxNames + 1
    BY DEF Calls
  <2> QED
    BY <1>9, <2>1, <1>o, Becomes, Updates DEF Vacant
<1>10. ASSUME NEW c \in Callers, Write(c) PROVE call' \in [Callers -> Calls]
  BY <1>10, <1>o, <1>g DEF Write
<1>11. ASSUME NEW c \in Callers, Drop(c) PROVE call' \in [Callers -> Calls]
  <2>1. 1 \in 1..MaxNames + 1
    OBVIOUS
  <2>2. call[c].next \in Errors \cup {"again", "real"}
    BY <1>11 DEF Drop, KnownInv, Known, CallOK
  <2> QED
    BY <1>11, <2>1, <2>2, <1>o, <1>r, Becomes, Updates DEF Drop
<1>12. ASSUME NEW c \in Callers, Recheck(c) PROVE call' \in [Callers -> Calls]
  BY <1>12, <1>g, Becomes, Updates DEF Recheck
<1>13. ASSUME NEW c \in Callers, Rename(c) PROVE call' \in [Callers -> Calls]
  <2>1. call[c].attempts + 1 \in 0..MaxAttempts
    BY <1>13 DEF Rename, KnownInv, Known, CallOK, Before, Calls, Locked
  <2>2. \A next \in Nexts : [call[c] EXCEPT !.pc = "drop", !.attempts = call[c].attempts + 1,
                                            !.next = next] \in Calls
    BY <2>1, Updates
  <2> QED
    BY <1>13, <2>2, <1>g, <1>t, <1>o, Becomes DEF Rename
<1>14. ASSUME NEW c \in Callers, Restat(c) PROVE call' \in [Callers -> Calls]
  <2>1. \A step \in Steps : [call[c] EXCEPT !.pc = step, !.src = at, !.copying = TRUE,
                                               !.copied = FALSE, !.late = FALSE] \in Calls
    BY Updates
  <2> QED
    BY <1>14, <2>1, <1>g, Becomes DEF Restat
<1>15. ASSUME NEW c \in Callers, CopyLink(c) PROVE call' \in [Callers -> Calls]
  BY <1>15, <1>g, Becomes, Updates DEF CopyLink
<1>16. ASSUME NEW c \in Callers, Open(c) PROVE call' \in [Callers -> Calls]
  BY <1>16, <1>o, <1>g, Becomes, Updates DEF Open
<1>17. ASSUME NEW c \in Callers, Read(c) PROVE call' \in [Callers -> Calls]
  BY <1>17, <1>o, <1>g DEF Read
<1>18. ASSUME NEW c \in Callers, Uncopy(c) PROVE call' \in [Callers -> Calls]
  BY <1>18, <1>o DEF Uncopy
<1>19. ASSUME NEW c \in Callers, Compare(c) PROVE call' \in [Callers -> Calls]
  BY <1>19, <1>g, Becomes, Updates DEF Compare
<1>20. ASSUME NEW c \in Callers, Retire(c) PROVE call' \in [Callers -> Calls]
  BY <1>20, <1>g, Becomes, Updates DEF Retire
<1>21. ASSUME NEW c \in Callers, Unlink(c) PROVE call' \in [Callers -> Calls]
  BY <1>21, <1>g, <1>t, Fit DEF Unlink
<1>22. ASSUME NEW c \in Callers, Real(c) PROVE call' \in [Callers -> Calls]
  BY <1>22, <1>r, <1>t, Fit DEF Real
<1>23. ASSUME NEW c \in Callers, Crash(c) PROVE call' \in [Callers -> Calls]
  BY <1>23, <1>o DEF Crash
<1>24. CASE Change
  <2>1. \A c \in Callers : [call[c] EXCEPT !.late = call[c].late \/ call[c].pc \in Checked]
          \in Calls
    BY Updates
  <2> QED
    BY <1>24, <2>1 DEF Change, Noted
<1>25. CASE Foreign
  BY <1>25 DEF Foreign
<1>26. CASE UNCHANGED vars
  BY <1>26 DEF vars
<1> QED
  BY <1>1, <1>2, <1>3, <1>4, <1>5, <1>6, <1>7, <1>8, <1>9, <1>10, <1>11, <1>12, <1>13, <1>14,
     <1>15, <1>16, <1>17, <1>18, <1>19, <1>20, <1>21, <1>22, <1>23, <1>24, <1>25, <1>26
     DEF Next, Own

-----------------------------------------------------------------------------
(* What a call knows survives its own steps.                               *)

\* m is what k becomes when at most its step and these fields change
Kept(k, m, changed) ==
  /\ "inside" \in changed \/ m.inside = k.inside
  /\ "meta" \in changed \/ m.meta = k.meta
  /\ "attempts" \in changed \/ m.attempts = k.attempts
  /\ "slot" \in changed \/ m.slot = k.slot
  /\ "src" \in changed \/ m.src = k.src
  /\ "next" \in changed \/ m.next = k.next
  /\ "ret" \in changed \/ m.ret = k.ret
  /\ "took" \in changed \/ m.took = k.took
  /\ "passed" \in changed \/ m.passed = k.passed
  /\ "copying" \in changed \/ m.copying = k.copying
  /\ "copied" \in changed \/ m.copied = k.copied
  /\ "late" \in changed \/ m.late = k.late

\* the step is one of c alone
Alone(c) == \A d \in Callers \ {c} : call'[d] = call[d]

\* The same, for what a step of the call alone changes.
LEMMA Becoming ==
  ASSUME call \in [Callers -> Calls], NEW c \in Callers, NEW k, Become(c, k)
  PROVE  call'[c] = k /\ Alone(c)
BY DEF Become, Alone

\* What each way of going on changes of the call.
LEMMA ToMoves ==
  ASSUME call \in [Callers -> Calls], NEW c \in Callers, NEW step, To(c, step)
  PROVE  LET k == call[c]
             m == call'[c]
         IN  Alone(c) /\ m.pc = step /\ Kept(k, m, {})
<1> DEFINE k == call[c]
           m == call'[c]
<1>1. k \in Calls /\ m = [k EXCEPT !.pc = step] /\ Alone(c)
  BY Becoming DEF To
<1> HIDE DEF k, m
<1>2. m.pc = step /\ Kept(k, m, {})
  BY <1>1 DEF Calls, Kept
<1> QED
  BY <1>1, <1>2 DEF k, m

\* The hook returns.
LEMMA ReturnMoves ==
  ASSUME call \in [Callers -> Calls], NEW c \in Callers, NEW ret, Return(c, ret)
  PROVE  LET k == call[c]
             m == call'[c]
         IN  Alone(c) /\ m.pc = "done" /\ m.ret = ret /\ m.inside = FALSE
             /\ Kept(k, m, {"ret", "inside"})
<1> DEFINE k == call[c]
           m == call'[c]
<1>1. k \in Calls /\ m = [k EXCEPT !.pc = "done", !.ret = ret, !.inside = FALSE] /\ Alone(c)
  BY Becoming DEF Return
<1> HIDE DEF k, m
<1>2. m.pc = "done" /\ m.ret = ret /\ m.inside = FALSE /\ Kept(k, m, {"ret", "inside"})
  BY <1>1 DEF Calls, Kept
<1> QED
  BY <1>1, <1>2 DEF k, m

\* An attempt comes to nothing.
LEMMA GiveUpMoves ==
  ASSUME call \in [Callers -> Calls], NEW c \in Callers, NEW next, GiveUp(c, next)
  PROVE  LET k == call[c]
             m == call'[c]
         IN  Alone(c) /\ m.pc = "drop" /\ m.next = next /\ Kept(k, m, {"next"})
<1> DEFINE k == call[c]
           m == call'[c]
<1>1. k \in Calls /\ m = [k EXCEPT !.pc = "drop", !.next = next] /\ Alone(c)
  BY Becoming DEF GiveUp
<1> HIDE DEF k, m
<1>2. m.pc = "drop" /\ m.next = next /\ Kept(k, m, {"next"})
  BY <1>1 DEF Calls, Kept
<1> QED
  BY <1>1, <1>2 DEF k, m

\* A copy is taken back.
LEMMA UndoCopyMoves ==
  ASSUME call \in [Callers -> Calls], NEW c \in Callers, NEW next, UndoCopy(c, next)
  PROVE  LET k == call[c]
             m == call'[c]
         IN  Alone(c) /\ m.pc = "uncopy" /\ m.next = next /\ Kept(k, m, {"next"})
<1> DEFINE k == call[c]
           m == call'[c]
<1>1. k \in Calls /\ m = [k EXCEPT !.pc = "uncopy", !.next = next] /\ Alone(c)
  BY Becoming DEF UndoCopy
<1> HIDE DEF k, m
<1>2. m.pc = "uncopy" /\ m.next = next /\ Kept(k, m, {"next"})
  BY <1>1 DEF Calls, Kept
<1> QED
  BY <1>1, <1>2 DEF k, m

\* The path is emptied.
LEMMA TakeMoves ==
  ASSUME call \in [Callers -> Calls], NEW c \in Callers, NEW how, Take(c, how)
  PROVE  LET k == call[c]
             m == call'[c]
         IN  Alone(c) /\ m.pc = "done" /\ m.ret = "ok" /\ m.inside = FALSE
             /\ m.took = [id |-> at.id, ver |-> at.ver, how |-> how]
             /\ Kept(k, m, {"ret", "inside", "took"})
<1> DEFINE k == call[c]
           m == call'[c]
<1>1. k \in Calls
      /\ m = [k EXCEPT !.pc = "done", !.ret = "ok", !.inside = FALSE,
                       !.took = [id |-> at.id, ver |-> at.ver, how |-> how]] /\ Alone(c)
  BY Becoming DEF Take
<1> HIDE DEF k, m
<1>2. m.pc = "done" /\ m.ret = "ok" /\ m.inside = FALSE
      /\ m.took = [id |-> at.id, ver |-> at.ver, how |-> how]
      /\ Kept(k, m, {"ret", "inside", "took"})
  BY <1>1 DEF Calls, Kept
<1> QED
  BY <1>1, <1>2 DEF k, m

LockOK == lock \in Callers \cup {None} /\ \A c \in Callers : lock = c <=> call[c].pc \in Locked

\* The lock is held exactly from its acquisition to the return of try_trash.
LEMMA LockKept ==
  ASSUME LockOK, NEW c \in Callers, Alone(c),
         \/ lock' = lock /\ (call[c].pc \in Locked <=> call'[c].pc \in Locked)
         \/ Release(c) /\ call'[c].pc \notin Locked
         \/ lock = None /\ lock' = c /\ call'[c].pc \in Locked
  PROVE  LockOK'
BY PreloadConstants DEF LockOK, Alone, Release

\* A step that changes the call alone has to care for that call alone.
LEMMA Quiet ==
  ASSUME KnownInv, UNCHANGED <<setting, at, made, files, info, alien>>,
         NEW c \in Callers, Alone(c), Known(c, call'[c])
  PROVE  KnownInv'
<1> SUFFICES ASSUME NEW d \in Callers PROVE Known(d, call[d])'
  BY DEF KnownInv
<1>1. Known(d, call'[d])
  BY DEF KnownInv, Alone
<1> QED
  BY <1>1, SMTT(40) DEF Known, CallOK, TraceOK, EntryOK, SourceOK, CopyOK, Seen, Unchanged

\* A call that enters knows nothing yet.
LEMMA EnterKnown ==
  ASSUME IInv, NEW c \in Callers, Enter(c), call' \in [Callers -> Calls]
  PROVE  KnownInv' /\ LockOK'
<1> DEFINE k == call[c]
           m == call'[c]
<1>1. /\ k \in Calls /\ m \in Calls /\ Known(c, k) /\ call \in [Callers -> Calls]
      /\ at \in Objects /\ made \in Nat /\ at.id <= made /\ (at.id = 0 <=> at.kind = "none")
      /\ LockOK
  BY DEF IInv, TypeOK, KnownInv, Objects, LockOK
<1>2. /\ k.pc = "idle" /\ Alone(c)
      /\ m.pc \in {"defer", "real"} /\ m.inside = TRUE /\ Kept(k, m, {"inside"})
  <2> PICK hook \in setting.hooks[c], step \in {"defer", "real"} :
         Become(c, [k EXCEPT !.pc = step, !.hook = hook, !.inside = TRUE])
    BY DEF Enter
  <2>1. m = [k EXCEPT !.pc = step, !.hook = hook, !.inside = TRUE] /\ Alone(c) /\ k.pc = "idle"
    BY <1>1, Becoming DEF Enter
  <2> HIDE DEF k, m
  <2>2. m.pc = step /\ m.inside = TRUE /\ Kept(k, m, {"inside"})
    BY <1>1, <2>1 DEF Calls, Kept
  <2> QED
    BY <2>1, <2>2
<1>3. UNCHANGED <<setting, at, made, files, info, alien, lock>>
  BY DEF Enter, Outside, Trash
<1>l. LockOK'
  <2>1. \/ lock' = lock /\ (k.pc \in Locked <=> m.pc \in Locked)
        \/ Release(c) /\ m.pc \notin Locked
        \/ lock = None /\ lock' = c /\ m.pc \in Locked
    <3> HIDE DEF k, m
    <3> QED
      BY <1>2, <1>3 DEF Locked
  <2> QED
    BY <1>1, <1>2, <2>1, LockKept
<1> HIDE DEF k, m
<1>4. CallOK(m)
  BY <1>1, <1>2 DEF Known, CallOK, Kept, Before, Locked, Steps, Errors
<1>5. TraceOK(c, m)
  BY <1>1, <1>2 DEF Known, TraceOK, CallOK, Kept, Before, Unfilled, Locked
<1>6. EntryOK(c, m)
  BY <1>1, <1>2 DEF Known, EntryOK, CallOK, Kept, Described, Locked
<1>7. SourceOK(m)
  BY <1>1, <1>2 DEF Known, SourceOK, CallOK, Kept, Before, Locked, Seen, Unchanged, Copying,
       Objects
<1>8. CopyOK(m)
  BY <1>1, <1>2 DEF Known, CopyOK, SourceOK, CallOK, Kept, Seen, Unchanged, Copying, Objects
<1> QED
  BY <1>2, <1>3, <1>4, <1>5, <1>6, <1>7, <1>8, <1>l, Quiet DEF Known, IInv, m

\* Before the lock nothing of the call is in the trash.
LEMMA ResolveKnown ==
  ASSUME IInv, NEW c \in Callers, Resolve(c), call' \in [Callers -> Calls]
  PROVE  KnownInv' /\ LockOK'
<1> DEFINE k == call[c]
           m == call'[c]
<1>1. /\ k \in Calls /\ m \in Calls /\ Known(c, k) /\ call \in [Callers -> Calls]
      /\ at \in Objects /\ made \in Nat /\ at.id <= made /\ (at.id = 0 <=> at.kind = "none")
      /\ LockOK
  BY DEF IInv, TypeOK, KnownInv, Objects, LockOK
<1>a1. To(c, "real") => Alone(c) /\ m.pc = "real" /\ Kept(k, m, {})
  BY <1>1, ToMoves
<1>a2. Become(c, [k EXCEPT !.pc = "stat", !.named = IF Named(k.hook) THEN at ELSE Nothing])
      => Alone(c) /\ m.pc = "stat" /\ Kept(k, m, {})
  <2> SUFFICES ASSUME Become(c, [k EXCEPT !.pc = "stat",
                                          !.named = IF Named(k.hook) THEN at ELSE Nothing])
               PROVE  Alone(c) /\ m.pc = "stat" /\ Kept(k, m, {})
    OBVIOUS
  <2>1. m = [k EXCEPT !.pc = "stat", !.named = IF Named(k.hook) THEN at ELSE Nothing]
        /\ Alone(c)
    BY <1>1, Becoming
  <2> HIDE DEF k, m
  <2>2. m.pc = "stat" /\ Kept(k, m, {})
    BY <1>1, <2>1 DEF Calls, Kept
  <2> QED
    BY <2>1, <2>2
<1>a. /\ k.pc = "resolve"
      /\ \/ To(c, "real")
         \/ Become(c, [k EXCEPT !.pc = "stat",
                                !.named = IF Named(k.hook) THEN at ELSE Nothing])
  BY <1>1 DEF Resolve
<1>2. /\ k.pc = "resolve" /\ Alone(c)
      /\ \/ m.pc = "real" /\ Kept(k, m, {})
         \/ m.pc = "stat" /\ Kept(k, m, {})
  BY <1>a, <1>a1, <1>a2
<1>3. UNCHANGED <<setting, at, made, files, info, alien, lock>>
  BY DEF Resolve, Outside, Trash
<1>l. LockOK'
  <2>1. \/ lock' = lock /\ (k.pc \in Locked <=> m.pc \in Locked)
        \/ Release(c) /\ m.pc \notin Locked
        \/ lock = None /\ lock' = c /\ m.pc \in Locked
    <3> HIDE DEF k, m
    <3> QED
      BY <1>2, <1>3 DEF Locked
  <2> QED
    BY <1>1, <1>2, <2>1, LockKept
<1> HIDE DEF k, m
<1>4. CallOK(m)
  BY <1>1, <1>2 DEF Known, CallOK, Kept, Before, Locked, Steps, Errors
<1>5. TraceOK(c, m)
  BY <1>1, <1>2 DEF Known, TraceOK, CallOK, Kept, Before, Unfilled, Locked
<1>6. EntryOK(c, m)
  BY <1>1, <1>2 DEF Known, EntryOK, CallOK, Kept, Described, Locked
<1>7. SourceOK(m)
  BY <1>1, <1>2 DEF Known, SourceOK, CallOK, Kept, Before, Locked, Seen, Unchanged, Copying,
       Objects
<1>8. CopyOK(m)
  BY <1>1, <1>2 DEF Known, CopyOK, SourceOK, CallOK, Kept, Seen, Unchanged, Copying, Objects
<1> QED
  BY <1>2, <1>3, <1>4, <1>5, <1>6, <1>7, <1>8, <1>l, Quiet DEF Known, IInv, m

\* What the stat saw is what the call is about from here on.
LEMMA StatKnown ==
  ASSUME IInv, NEW c \in Callers, Stat(c), call' \in [Callers -> Calls]
  PROVE  KnownInv' /\ LockOK'
<1> DEFINE k == call[c]
           m == call'[c]
<1>1. /\ k \in Calls /\ m \in Calls /\ Known(c, k) /\ call \in [Callers -> Calls]
      /\ at \in Objects /\ made \in Nat /\ at.id <= made /\ (at.id = 0 <=> at.kind = "none")
      /\ LockOK
  BY DEF IInv, TypeOK, KnownInv, Objects, LockOK
<1>a1. To(c, "real") => Alone(c) /\ m.pc = "real" /\ Kept(k, m, {})
  BY <1>1, ToMoves
<1>a2. Become(c, [k EXCEPT !.pc = IF at.kind = "dir" THEN "peek" ELSE "limits", !.meta = at])
      => Alone(c) /\ m.pc = (IF at.kind = "dir" THEN "peek" ELSE "limits") /\ m.meta = at
         /\ Kept(k, m, {"meta"})
  <2> SUFFICES ASSUME Become(c, [k EXCEPT !.pc = IF at.kind = "dir" THEN "peek" ELSE "limits",
                                          !.meta = at])
               PROVE  Alone(c) /\ m.pc = (IF at.kind = "dir" THEN "peek" ELSE "limits")
                      /\ m.meta = at /\ Kept(k, m, {"meta"})
    OBVIOUS
  <2>1. m = [k EXCEPT !.pc = IF at.kind = "dir" THEN "peek" ELSE "limits", !.meta = at] /\ Alone(c)
    BY <1>1, Becoming
  <2> HIDE DEF k, m
  <2>2. m.pc = (IF at.kind = "dir" THEN "peek" ELSE "limits") /\ m.meta = at /\ Kept(k, m, {"meta"})
    BY <1>1, <2>1 DEF Calls, Kept
  <2> QED
    BY <2>1, <2>2
<1>a. /\ k.pc = "stat"
      /\ \/ To(c, "real")
         \/ Become(c, [k EXCEPT !.pc = IF at.kind = "dir" THEN "peek" ELSE "limits", !.meta = at])
  BY <1>1 DEF Stat
<1>2. /\ k.pc = "stat" /\ Alone(c)
      /\ \/ m.pc = "real" /\ Kept(k, m, {})
         \/ /\ m.pc = (IF at.kind = "dir" THEN "peek" ELSE "limits") /\ m.meta = at
            /\ Kept(k, m, {"meta"})
  BY <1>a, <1>a1, <1>a2
<1>3. UNCHANGED <<setting, at, made, files, info, alien, lock>>
  BY DEF Stat, Outside, Trash
<1>l. LockOK'
  <2>1. \/ lock' = lock /\ (k.pc \in Locked <=> m.pc \in Locked)
        \/ Release(c) /\ m.pc \notin Locked
        \/ lock = None /\ lock' = c /\ m.pc \in Locked
    <3> HIDE DEF k, m
    <3> QED
      BY <1>2, <1>3 DEF Locked
  <2> QED
    BY <1>1, <1>2, <2>1, LockKept
<1> HIDE DEF k, m
<1>4. CallOK(m)
  BY <1>1, <1>2 DEF Known, CallOK, Kept, Before, Locked, Steps, Errors
<1>5. TraceOK(c, m)
  BY <1>1, <1>2 DEF Known, TraceOK, CallOK, Kept, Before, Unfilled, Locked
<1>6. EntryOK(c, m)
  BY <1>1, <1>2 DEF Known, EntryOK, CallOK, Kept, Described, Locked
<1>7. SourceOK(m)
  BY <1>1, <1>2 DEF Known, SourceOK, CallOK, Kept, Before, Locked, Seen, Unchanged, Copying,
       Objects
<1>8. CopyOK(m)
  BY <1>1, <1>2 DEF Known, CopyOK, SourceOK, CallOK, Kept, Seen, Unchanged, Copying, Objects
<1> QED
  BY <1>2, <1>3, <1>4, <1>5, <1>6, <1>7, <1>8, <1>l, Quiet DEF Known, IInv, m

\* A directory is only looked at.
LEMMA PeekKnown ==
  ASSUME IInv, NEW c \in Callers, Peek(c), call' \in [Callers -> Calls]
  PROVE  KnownInv' /\ LockOK'
<1> DEFINE k == call[c]
           m == call'[c]
<1>1. /\ k \in Calls /\ m \in Calls /\ Known(c, k) /\ call \in [Callers -> Calls]
      /\ at \in Objects /\ made \in Nat /\ at.id <= made /\ (at.id = 0 <=> at.kind = "none")
      /\ LockOK
  BY DEF IInv, TypeOK, KnownInv, Objects, LockOK
<1>a1. To(c, "limits") => Alone(c) /\ m.pc = "limits" /\ Kept(k, m, {})
  BY <1>1, ToMoves
<1>a2. To(c, "real") => Alone(c) /\ m.pc = "real" /\ Kept(k, m, {})
  BY <1>1, ToMoves
<1>a. /\ k.pc = "peek"
      /\ \/ To(c, "limits")
         \/ To(c, "real")
  BY <1>1 DEF Peek
<1>2. /\ k.pc = "peek" /\ Alone(c)
      /\ \/ m.pc = "limits" /\ Kept(k, m, {})
         \/ m.pc = "real" /\ Kept(k, m, {})
  BY <1>a, <1>a1, <1>a2
<1>3. UNCHANGED <<setting, at, made, files, info, alien, lock>>
  BY DEF Peek, Outside, Trash
<1>l. LockOK'
  <2>1. \/ lock' = lock /\ (k.pc \in Locked <=> m.pc \in Locked)
        \/ Release(c) /\ m.pc \notin Locked
        \/ lock = None /\ lock' = c /\ m.pc \in Locked
    <3> HIDE DEF k, m
    <3> QED
      BY <1>2, <1>3 DEF Locked
  <2> QED
    BY <1>1, <1>2, <2>1, LockKept
<1> HIDE DEF k, m
<1>4. CallOK(m)
  BY <1>1, <1>2 DEF Known, CallOK, Kept, Before, Locked, Steps, Errors
<1>5. TraceOK(c, m)
  BY <1>1, <1>2 DEF Known, TraceOK, CallOK, Kept, Before, Unfilled, Locked
<1>6. EntryOK(c, m)
  BY <1>1, <1>2 DEF Known, EntryOK, CallOK, Kept, Described, Locked
<1>7. SourceOK(m)
  BY <1>1, <1>2 DEF Known, SourceOK, CallOK, Kept, Before, Locked, Seen, Unchanged, Copying,
       Objects
<1>8. CopyOK(m)
  BY <1>1, <1>2 DEF Known, CopyOK, SourceOK, CallOK, Kept, Seen, Unchanged, Copying, Objects
<1> QED
  BY <1>2, <1>3, <1>4, <1>5, <1>6, <1>7, <1>8, <1>l, Quiet DEF Known, IInv, m

\* Past the limits an unsafe or broken store can only fail.
LEMMA LimitsKnown ==
  ASSUME IInv, NEW c \in Callers, Limits(c), call' \in [Callers -> Calls]
  PROVE  KnownInv' /\ LockOK'
<1> DEFINE k == call[c]
           m == call'[c]
<1>1. /\ k \in Calls /\ m \in Calls /\ Known(c, k) /\ call \in [Callers -> Calls]
      /\ at \in Objects /\ made \in Nat /\ at.id <= made /\ (at.id = 0 <=> at.kind = "none")
      /\ LockOK
  BY DEF IInv, TypeOK, KnownInv, Objects, LockOK
<1>a1. To(c, "real") => Alone(c) /\ m.pc = "real" /\ Kept(k, m, {})
  BY <1>1, ToMoves
<1>a2. Become(c, [k EXCEPT !.pc = "lock", !.passed = TRUE])
      => Alone(c) /\ m.pc = "lock" /\ m.passed = TRUE /\ Kept(k, m, {"passed"})
  <2> SUFFICES ASSUME Become(c, [k EXCEPT !.pc = "lock", !.passed = TRUE])
               PROVE  Alone(c) /\ m.pc = "lock" /\ m.passed = TRUE /\ Kept(k, m, {"passed"})
    OBVIOUS
  <2>1. m = [k EXCEPT !.pc = "lock", !.passed = TRUE] /\ Alone(c)
    BY <1>1, Becoming
  <2> HIDE DEF k, m
  <2>2. m.pc = "lock" /\ m.passed = TRUE /\ Kept(k, m, {"passed"})
    BY <1>1, <2>1 DEF Calls, Kept
  <2> QED
    BY <2>1, <2>2
<1>a. /\ k.pc = "limits"
      /\ \/ To(c, "real")
         \/ Become(c, [k EXCEPT !.pc = "lock", !.passed = TRUE])
  BY <1>1 DEF Limits
<1>2. /\ k.pc = "limits" /\ Alone(c)
      /\ \/ m.pc = "real" /\ Kept(k, m, {})
         \/ m.pc = "lock" /\ m.passed = TRUE /\ Kept(k, m, {"passed"})
  BY <1>a, <1>a1, <1>a2
<1>3. UNCHANGED <<setting, at, made, files, info, alien, lock>>
  BY DEF Limits, Outside, Trash
<1>l. LockOK'
  <2>1. \/ lock' = lock /\ (k.pc \in Locked <=> m.pc \in Locked)
        \/ Release(c) /\ m.pc \notin Locked
        \/ lock = None /\ lock' = c /\ m.pc \in Locked
    <3> HIDE DEF k, m
    <3> QED
      BY <1>2, <1>3 DEF Locked
  <2> QED
    BY <1>1, <1>2, <2>1, LockKept
<1> HIDE DEF k, m
<1>4. CallOK(m)
  BY <1>1, <1>2 DEF Known, CallOK, Kept, Before, Locked, Steps, Errors
<1>5. TraceOK(c, m)
  BY <1>1, <1>2 DEF Known, TraceOK, CallOK, Kept, Before, Unfilled, Locked
<1>6. EntryOK(c, m)
  BY <1>1, <1>2 DEF Known, EntryOK, CallOK, Kept, Described, Locked
<1>7. SourceOK(m)
  BY <1>1, <1>2 DEF Known, SourceOK, CallOK, Kept, Before, Locked, Seen, Unchanged, Copying,
       Objects
<1>8. CopyOK(m)
  BY <1>1, <1>2 DEF Known, CopyOK, SourceOK, CallOK, Kept, Seen, Unchanged, Copying, Objects
<1> QED
  BY <1>2, <1>3, <1>4, <1>5, <1>6, <1>7, <1>8, <1>l, Quiet DEF Known, IInv, m

\* Only a store that works gives the lock.
LEMMA LockKnown ==
  ASSUME IInv, NEW c \in Callers, Lock(c), call' \in [Callers -> Calls]
  PROVE  KnownInv' /\ LockOK'
<1> DEFINE k == call[c]
           m == call'[c]
<1>1. /\ k \in Calls /\ m \in Calls /\ Known(c, k) /\ call \in [Callers -> Calls]
      /\ at \in Objects /\ made \in Nat /\ at.id <= made /\ (at.id = 0 <=> at.kind = "none")
      /\ LockOK
  BY DEF IInv, TypeOK, KnownInv, Objects, LockOK
<1>a1. To(c, "claim") => Alone(c) /\ m.pc = "claim" /\ Kept(k, m, {})
  BY <1>1, ToMoves
<1>a2. To(c, "real") => Alone(c) /\ m.pc = "real" /\ Kept(k, m, {})
  BY <1>1, ToMoves
<1>a3. Return(c, "EACCES")
      => Alone(c) /\ m.pc = "done" /\ m.ret = "EACCES" /\ m.inside = FALSE
         /\ Kept(k, m, {"ret", "inside"})
  BY <1>1, ReturnMoves
<1>a4. Return(c, "EIO")
      => Alone(c) /\ m.pc = "done" /\ m.ret = "EIO" /\ m.inside = FALSE
         /\ Kept(k, m, {"ret", "inside"})
  BY <1>1, ReturnMoves
<1>a. /\ k.pc = "lock"
      /\ \/ lock = None /\ lock' = c /\ setting.store = "ok" /\ To(c, "claim")
         \/ lock' = lock /\ setting.store = "unavailable" /\ To(c, "real")
         \/ lock' = lock /\ Return(c, "EACCES")
         \/ lock' = lock /\ Return(c, "EIO")
  BY <1>1, PreloadConstants DEF Lock, IInv, TypeOK
<1>2. /\ k.pc = "lock" /\ Alone(c)
      /\ \/ lock = None /\ lock' = c /\ setting.store = "ok" /\ m.pc = "claim" /\ Kept(k, m, {})
         \/ lock' = lock /\ setting.store = "unavailable" /\ m.pc = "real" /\ Kept(k, m, {})
         \/ /\ lock' = lock /\ m.pc = "done" /\ m.ret = "EACCES" /\ m.inside = FALSE
            /\ Kept(k, m, {"ret", "inside"})
         \/ /\ lock' = lock /\ m.pc = "done" /\ m.ret = "EIO" /\ m.inside = FALSE
            /\ Kept(k, m, {"ret", "inside"})
  BY <1>a, <1>a1, <1>a2, <1>a3, <1>a4
<1>3. UNCHANGED <<setting, at, made, files, info, alien>>
  BY DEF Lock, Outside, Trash
<1>l. LockOK'
  <2>1. \/ lock' = lock /\ (k.pc \in Locked <=> m.pc \in Locked)
        \/ Release(c) /\ m.pc \notin Locked
        \/ lock = None /\ lock' = c /\ m.pc \in Locked
    <3> HIDE DEF k, m
    <3> QED
      BY <1>2, <1>3 DEF Locked
  <2> QED
    BY <1>1, <1>2, <2>1, LockKept
<1> HIDE DEF k, m
<1>4. CallOK(m)
  BY <1>1, <1>2 DEF Known, CallOK, Kept, Before, Locked, Steps, Errors
<1>5. TraceOK(c, m)
  BY <1>1, <1>2 DEF Known, TraceOK, CallOK, Kept, Before, Unfilled, Locked
<1>6. EntryOK(c, m)
  BY <1>1, <1>2 DEF Known, EntryOK, CallOK, Kept, Described, Locked
<1>7. SourceOK(m)
  BY <1>1, <1>2 DEF Known, SourceOK, CallOK, Kept, Before, Locked, Seen, Unchanged, Copying,
       Objects
<1>8. CopyOK(m)
  BY <1>1, <1>2 DEF Known, CopyOK, SourceOK, CallOK, Kept, Seen, Unchanged, Copying, Objects
<1> QED
  BY <1>2, <1>3, <1>4, <1>5, <1>6, <1>7, <1>8, <1>l, Quiet DEF Known, IInv, m

\* What is moved is the object of the stat, as long as nothing comes after this look.
LEMMA RecheckKnown ==
  ASSUME IInv, NEW c \in Callers, Recheck(c), call' \in [Callers -> Calls]
  PROVE  KnownInv' /\ LockOK'
<1> DEFINE k == call[c]
           m == call'[c]
<1>1. /\ k \in Calls /\ m \in Calls /\ Known(c, k) /\ call \in [Callers -> Calls]
      /\ at \in Objects /\ made \in Nat /\ at.id <= made /\ (at.id = 0 <=> at.kind = "none")
      /\ LockOK
  BY DEF IInv, TypeOK, KnownInv, Objects, LockOK
<1>a1. GiveUp(c, "real") => Alone(c) /\ m.pc = "drop" /\ m.next = "real" /\ Kept(k, m, {"next"})
  BY <1>1, GiveUpMoves
<1>a2. Become(c, [k EXCEPT !.pc = "rename", !.late = FALSE])
      => Alone(c) /\ m.pc = "rename" /\ m.late = FALSE /\ Kept(k, m, {"late"})
  <2> SUFFICES ASSUME Become(c, [k EXCEPT !.pc = "rename", !.late = FALSE])
               PROVE  Alone(c) /\ m.pc = "rename" /\ m.late = FALSE /\ Kept(k, m, {"late"})
    OBVIOUS
  <2>1. m = [k EXCEPT !.pc = "rename", !.late = FALSE] /\ Alone(c)
    BY <1>1, Becoming
  <2> HIDE DEF k, m
  <2>2. m.pc = "rename" /\ m.late = FALSE /\ Kept(k, m, {"late"})
    BY <1>1, <2>1 DEF Calls, Kept
  <2> QED
    BY <2>1, <2>2
<1>a. /\ k.pc = "recheck"
      /\ \/ GiveUp(c, "real")
         \/ at.id \in {0, k.meta.id} /\ Become(c, [k EXCEPT !.pc = "rename", !.late = FALSE])
  BY <1>1 DEF Recheck, Same
<1>2. /\ k.pc = "recheck" /\ Alone(c)
      /\ \/ m.pc = "drop" /\ m.next = "real" /\ Kept(k, m, {"next"})
         \/ at.id \in {0, k.meta.id} /\ m.pc = "rename" /\ m.late = FALSE /\ Kept(k, m, {"late"})
  BY <1>a, <1>a1, <1>a2
<1>3. UNCHANGED <<setting, at, made, files, info, alien, lock>>
  BY DEF Recheck, Outside, Trash
<1>l. LockOK'
  <2>1. \/ lock' = lock /\ (k.pc \in Locked <=> m.pc \in Locked)
        \/ Release(c) /\ m.pc \notin Locked
        \/ lock = None /\ lock' = c /\ m.pc \in Locked
    <3> HIDE DEF k, m
    <3> QED
      BY <1>2, <1>3 DEF Locked
  <2> QED
    BY <1>1, <1>2, <2>1, LockKept
<1> HIDE DEF k, m
<1>4. CallOK(m)
  BY <1>1, <1>2 DEF Known, CallOK, Kept, Before, Locked, Steps, Errors
<1>5. TraceOK(c, m)
  BY <1>1, <1>2 DEF Known, TraceOK, CallOK, Kept, Before, Unfilled, Locked
<1>6. EntryOK(c, m)
  BY <1>1, <1>2 DEF Known, EntryOK, CallOK, Kept, Described, Locked
<1>7. SourceOK(m)
  BY <1>1, <1>2 DEF Known, SourceOK, CallOK, Kept, Before, Locked, Seen, Unchanged, Copying,
       Objects
<1>8. CopyOK(m)
  BY <1>1, <1>2 DEF Known, CopyOK, SourceOK, CallOK, Kept, Seen, Unchanged, Copying, Objects
<1> QED
  BY <1>2, <1>3, <1>4, <1>5, <1>6, <1>7, <1>8, <1>l, Quiet DEF Known, IInv, m

\* The source is what the stat saw.
LEMMA RestatKnown ==
  ASSUME IInv, NEW c \in Callers, Restat(c), call' \in [Callers -> Calls]
  PROVE  KnownInv' /\ LockOK'
<1> DEFINE k == call[c]
           m == call'[c]
<1>1. /\ k \in Calls /\ m \in Calls /\ Known(c, k) /\ call \in [Callers -> Calls]
      /\ at \in Objects /\ made \in Nat /\ at.id <= made /\ (at.id = 0 <=> at.kind = "none")
      /\ LockOK
  BY DEF IInv, TypeOK, KnownInv, Objects, LockOK
<1>a1. GiveUp(c, "real") => Alone(c) /\ m.pc = "drop" /\ m.next = "real" /\ Kept(k, m, {"next"})
  BY <1>1, GiveUpMoves
<1>a2. GiveUp(c, "EBUSY") => Alone(c) /\ m.pc = "drop" /\ m.next = "EBUSY" /\ Kept(k, m, {"next"})
  BY <1>1, GiveUpMoves
<1>a3. Become(c, [k EXCEPT !.pc = IF at.kind = "link" THEN "link" ELSE "open", !.src = at,
                           !.copying = TRUE, !.copied = FALSE, !.late = FALSE])
      => Alone(c) /\ m.pc = (IF at.kind = "link" THEN "link" ELSE "open") /\ m.src = at
         /\ m.copying = TRUE /\ m.copied = FALSE /\ Kept(k, m, {"src", "copying", "copied", "late"})
  <2> SUFFICES ASSUME Become(c, [k EXCEPT !.pc = IF at.kind = "link" THEN "link" ELSE "open",
                                          !.src = at, !.copying = TRUE, !.copied = FALSE,
                                          !.late = FALSE])
               PROVE  Alone(c) /\ m.pc = (IF at.kind = "link" THEN "link" ELSE "open")
                      /\ m.src = at /\ m.copying = TRUE /\ m.copied = FALSE
                      /\ Kept(k, m, {"src", "copying", "copied", "late"})
    OBVIOUS
  <2>1. m = [k EXCEPT !.pc = IF at.kind = "link" THEN "link" ELSE "open", !.src = at,
                      !.copying = TRUE, !.copied = FALSE, !.late = FALSE] /\ Alone(c)
    BY <1>1, Becoming
  <2> HIDE DEF k, m
  <2>2. m.pc = (IF at.kind = "link" THEN "link" ELSE "open") /\ m.src = at /\ m.copying = TRUE
        /\ m.copied = FALSE /\ Kept(k, m, {"src", "copying", "copied", "late"})
    BY <1>1, <2>1 DEF Calls, Kept
  <2> QED
    BY <2>1, <2>2
<1>a. /\ k.pc = "restat"
      /\ \/ GiveUp(c, "real")
         \/ GiveUp(c, "EBUSY")
         \/ at.id = k.meta.id /\ at.id # 0
            /\ Become(c, [k EXCEPT !.pc = IF at.kind = "link" THEN "link" ELSE "open", !.src = at,
                                   !.copying = TRUE, !.copied = FALSE, !.late = FALSE])
  BY <1>1 DEF Restat, Same
<1>2. /\ k.pc = "restat" /\ Alone(c)
      /\ \/ m.pc = "drop" /\ m.next = "real" /\ Kept(k, m, {"next"})
         \/ m.pc = "drop" /\ m.next = "EBUSY" /\ Kept(k, m, {"next"})
         \/ /\ at.id = k.meta.id /\ at.id # 0
            /\ m.pc = (IF at.kind = "link" THEN "link" ELSE "open") /\ m.src = at
            /\ m.copying = TRUE /\ m.copied = FALSE
            /\ Kept(k, m, {"src", "copying", "copied", "late"})
  BY <1>a, <1>a1, <1>a2, <1>a3
<1>3. UNCHANGED <<setting, at, made, files, info, alien, lock>>
  BY DEF Restat, Outside, Trash
<1>l. LockOK'
  <2>1. \/ lock' = lock /\ (k.pc \in Locked <=> m.pc \in Locked)
        \/ Release(c) /\ m.pc \notin Locked
        \/ lock = None /\ lock' = c /\ m.pc \in Locked
    <3> HIDE DEF k, m
    <3> QED
      BY <1>2, <1>3 DEF Locked
  <2> QED
    BY <1>1, <1>2, <2>1, LockKept
<1> HIDE DEF k, m
<1>4. CallOK(m)
  BY <1>1, <1>2 DEF Known, CallOK, Kept, Before, Locked, Steps, Errors
<1>5. TraceOK(c, m)
  BY <1>1, <1>2 DEF Known, TraceOK, CallOK, Kept, Before, Unfilled, Locked
<1>6. EntryOK(c, m)
  BY <1>1, <1>2 DEF Known, EntryOK, CallOK, Kept, Described, Locked
<1>7. SourceOK(m)
  BY <1>1, <1>2 DEF Known, SourceOK, CallOK, Kept, Before, Locked, Seen, Unchanged, Copying,
       Objects
<1>8. CopyOK(m)
  BY <1>1, <1>2 DEF Known, CopyOK, SourceOK, CallOK, Kept, Seen, Unchanged, Copying, Objects
<1> QED
  BY <1>2, <1>3, <1>4, <1>5, <1>6, <1>7, <1>8, <1>l, Quiet DEF Known, IInv, m

\* The real call is let at an unchanged source only.
LEMMA CompareKnown ==
  ASSUME IInv, NEW c \in Callers, Compare(c), call' \in [Callers -> Calls]
  PROVE  KnownInv' /\ LockOK'
<1> DEFINE k == call[c]
           m == call'[c]
<1>1. /\ k \in Calls /\ m \in Calls /\ Known(c, k) /\ call \in [Callers -> Calls]
      /\ at \in Objects /\ made \in Nat /\ at.id <= made /\ (at.id = 0 <=> at.kind = "none")
      /\ LockOK
  BY DEF IInv, TypeOK, KnownInv, Objects, LockOK
<1>a1. GiveUp(c, "EBUSY") => Alone(c) /\ m.pc = "drop" /\ m.next = "EBUSY" /\ Kept(k, m, {"next"})
  BY <1>1, GiveUpMoves
<1>a2. Become(c, [k EXCEPT !.pc = "drop", !.next = "real", !.late = FALSE])
      => Alone(c) /\ m.pc = "drop" /\ m.next = "real" /\ m.late = FALSE
         /\ Kept(k, m, {"next", "late"})
  <2> SUFFICES ASSUME Become(c, [k EXCEPT !.pc = "drop", !.next = "real", !.late = FALSE])
               PROVE  Alone(c) /\ m.pc = "drop" /\ m.next = "real" /\ m.late = FALSE
                      /\ Kept(k, m, {"next", "late"})
    OBVIOUS
  <2>1. m = [k EXCEPT !.pc = "drop", !.next = "real", !.late = FALSE] /\ Alone(c)
    BY <1>1, Becoming
  <2> HIDE DEF k, m
  <2>2. m.pc = "drop" /\ m.next = "real" /\ m.late = FALSE /\ Kept(k, m, {"next", "late"})
    BY <1>1, <2>1 DEF Calls, Kept
  <2> QED
    BY <2>1, <2>2
<1>a. /\ k.pc = "compare"
      /\ \/ GiveUp(c, "EBUSY")
         \/ Unchanged(k) /\ Become(c, [k EXCEPT !.pc = "drop", !.next = "real", !.late = FALSE])
  BY <1>1 DEF Compare, Same, SameVersion, Unchanged
<1>2. /\ k.pc = "compare" /\ Alone(c)
      /\ \/ m.pc = "drop" /\ m.next = "EBUSY" /\ Kept(k, m, {"next"})
         \/ /\ Unchanged(k) /\ m.pc = "drop" /\ m.next = "real" /\ m.late = FALSE
            /\ Kept(k, m, {"next", "late"})
  BY <1>a, <1>a1, <1>a2
<1>3. UNCHANGED <<setting, at, made, files, info, alien, lock>>
  BY DEF Compare, Outside, Trash
<1>l. LockOK'
  <2>1. \/ lock' = lock /\ (k.pc \in Locked <=> m.pc \in Locked)
        \/ Release(c) /\ m.pc \notin Locked
        \/ lock = None /\ lock' = c /\ m.pc \in Locked
    <3> HIDE DEF k, m
    <3> QED
      BY <1>2, <1>3 DEF Locked
  <2> QED
    BY <1>1, <1>2, <2>1, LockKept
<1> HIDE DEF k, m
<1>4. CallOK(m)
  BY <1>1, <1>2 DEF Known, CallOK, Kept, Before, Locked, Steps, Errors
<1>5. TraceOK(c, m)
  BY <1>1, <1>2 DEF Known, TraceOK, CallOK, Kept, Before, Unfilled, Locked
<1>6. EntryOK(c, m)
  BY <1>1, <1>2 DEF Known, EntryOK, CallOK, Kept, Described, Locked
<1>7. SourceOK(m)
  BY <1>1, <1>2 DEF Known, SourceOK, CallOK, Kept, Before, Locked, Seen, Unchanged, Copying,
       Objects
<1>8. CopyOK(m)
  BY <1>1, <1>2 DEF Known, CopyOK, SourceOK, CallOK, Kept, Seen, Unchanged, Copying, Objects
<1> QED
  BY <1>2, <1>3, <1>4, <1>5, <1>6, <1>7, <1>8, <1>l, Quiet DEF Known, IInv, m

\* The source is retired only as the version that was copied: the copy is that version.
LEMMA RetireKnown ==
  ASSUME IInv, NEW c \in Callers, Retire(c), call' \in [Callers -> Calls]
  PROVE  KnownInv' /\ LockOK'
<1> DEFINE k == call[c]
           m == call'[c]
<1>1. /\ k \in Calls /\ m \in Calls /\ Known(c, k) /\ call \in [Callers -> Calls]
      /\ at \in Objects /\ made \in Nat /\ at.id <= made /\ (at.id = 0 <=> at.kind = "none")
      /\ LockOK
  BY DEF IInv, TypeOK, KnownInv, Objects, LockOK
<1>a1. Become(c, [k EXCEPT !.pc = "unlink", !.late = FALSE])
      => Alone(c) /\ m.pc = "unlink" /\ m.late = FALSE /\ Kept(k, m, {"late"})
  <2> SUFFICES ASSUME Become(c, [k EXCEPT !.pc = "unlink", !.late = FALSE])
               PROVE  Alone(c) /\ m.pc = "unlink" /\ m.late = FALSE /\ Kept(k, m, {"late"})
    OBVIOUS
  <2>1. m = [k EXCEPT !.pc = "unlink", !.late = FALSE] /\ Alone(c)
    BY <1>1, Becoming
  <2> HIDE DEF k, m
  <2>2. m.pc = "unlink" /\ m.late = FALSE /\ Kept(k, m, {"late"})
    BY <1>1, <2>1 DEF Calls, Kept
  <2> QED
    BY <2>1, <2>2
<1>a2. UndoCopy(c, "EBUSY")
      => Alone(c) /\ m.pc = "uncopy" /\ m.next = "EBUSY" /\ Kept(k, m, {"next"})
  BY <1>1, UndoCopyMoves
<1>a. /\ k.pc = "retire"
      /\ \/ Unchanged(k) /\ at.id # 0 /\ Become(c, [k EXCEPT !.pc = "unlink", !.late = FALSE])
         \/ UndoCopy(c, "EBUSY")
  BY <1>1 DEF Retire, Same, SameVersion, Unchanged
<1>2. /\ k.pc = "retire" /\ Alone(c)
      /\ \/ Unchanged(k) /\ at.id # 0 /\ m.pc = "unlink" /\ m.late = FALSE /\ Kept(k, m, {"late"})
         \/ m.pc = "uncopy" /\ m.next = "EBUSY" /\ Kept(k, m, {"next"})
  BY <1>a, <1>a1, <1>a2
<1>3. UNCHANGED <<setting, at, made, files, info, alien, lock>>
  BY DEF Retire, Outside, Trash
<1>l. LockOK'
  <2>1. \/ lock' = lock /\ (k.pc \in Locked <=> m.pc \in Locked)
        \/ Release(c) /\ m.pc \notin Locked
        \/ lock = None /\ lock' = c /\ m.pc \in Locked
    <3> HIDE DEF k, m
    <3> QED
      BY <1>2, <1>3 DEF Locked
  <2> QED
    BY <1>1, <1>2, <2>1, LockKept
<1> HIDE DEF k, m
<1>4. CallOK(m)
  BY <1>1, <1>2 DEF Known, CallOK, Kept, Before, Locked, Steps, Errors
<1>5. TraceOK(c, m)
  BY <1>1, <1>2 DEF Known, TraceOK, CallOK, Kept, Before, Unfilled, Locked
<1>6. EntryOK(c, m)
  BY <1>1, <1>2 DEF Known, EntryOK, CallOK, Kept, Described, Locked
<1>7. SourceOK(m)
  BY <1>1, <1>2 DEF Known, SourceOK, CallOK, Kept, Before, Locked, Seen, Unchanged, Copying,
       Objects
<1>8. CopyOK(m)
  <2>1. CASE m.pc = "unlink"
    <3>1. k.pc = "retire" /\ m.slot = k.slot /\ m.src = k.src /\ at.id = k.src.id
          /\ at.ver = k.src.ver
      BY <1>2, <2>1 DEF Kept, Unchanged
    <3>2. files[k.slot].id \in Nat /\ files[k.slot].ver \in Nat /\ at.id = made /\ at.ver \in Nat
      BY <1>1, <1>2, <2>1, <3>1 DEF IInv, TypeOK, Known, CallOK, Locked, Objects
    <3>3. k.slot \notin alien =>
            /\ files[k.slot].id <= made
            /\ at.id = files[k.slot].id /\ files[k.slot].id # 0 => files[k.slot].ver <= at.ver
            /\ files[k.slot].id >= k.src.id
            /\ files[k.slot].id = k.src.id => files[k.slot].ver >= k.src.ver
      BY <1>1, <3>1 DEF Known, CopyOK, Seen
    <3>4. at.id # 0
      BY <1>2, <2>1
    <3>5. k.slot \notin alien => files[k.slot].id = k.src.id /\ files[k.slot].ver = k.src.ver
      BY <1>1, <3>1, <3>2, <3>3, <3>4
    <3> QED
      BY <2>1, <3>1, <3>5 DEF CopyOK
  <2>2. CASE m.pc = "uncopy"
    BY <2>2 DEF CopyOK
  <2> QED
    BY <1>2, <2>1, <2>2
<1> QED
  BY <1>2, <1>3, <1>4, <1>5, <1>6, <1>7, <1>8, <1>l, Quiet DEF Known, IInv, m

\* A dead call knows nothing that matters.
LEMMA CrashKnown ==
  ASSUME IInv, NEW c \in Callers, Crash(c), call' \in [Callers -> Calls]
  PROVE  KnownInv' /\ LockOK'
<1> DEFINE k == call[c]
           m == call'[c]
<1>1. /\ k \in Calls /\ m \in Calls /\ Known(c, k) /\ call \in [Callers -> Calls]
      /\ at \in Objects /\ made \in Nat /\ at.id <= made /\ (at.id = 0 <=> at.kind = "none")
      /\ LockOK
  BY DEF IInv, TypeOK, KnownInv, Objects, LockOK
<1>a1. To(c, "dead") => Alone(c) /\ m.pc = "dead" /\ Kept(k, m, {})
  BY <1>1, ToMoves
<1>a. /\ k.pc \notin {"idle", "done", "dead"}
      /\ Release(c) /\ To(c, "dead")
  BY <1>1 DEF Crash
<1>2. /\ k.pc \notin {"idle", "done", "dead"} /\ Alone(c)
      /\ Release(c) /\ m.pc = "dead" /\ Kept(k, m, {})
  BY <1>a, <1>a1
<1>3. UNCHANGED <<setting, at, made, files, info, alien>>
  BY DEF Crash, Outside, Trash
<1>l. LockOK'
  <2>1. \/ lock' = lock /\ (k.pc \in Locked <=> m.pc \in Locked)
        \/ Release(c) /\ m.pc \notin Locked
        \/ lock = None /\ lock' = c /\ m.pc \in Locked
    <3> HIDE DEF k, m
    <3> QED
      BY <1>2, <1>3 DEF Locked
  <2> QED
    BY <1>1, <1>2, <2>1, LockKept
<1> HIDE DEF k, m
<1>4. CallOK(m)
  BY <1>1, <1>2 DEF Known, CallOK, Kept, Before, Locked, Steps, Errors
<1>5. TraceOK(c, m)
  BY <1>1, <1>2 DEF Known, TraceOK, CallOK, Kept, Before, Unfilled, Locked
<1>6. EntryOK(c, m)
  BY <1>1, <1>2 DEF Known, EntryOK, CallOK, Kept, Described, Locked
<1>7. SourceOK(m)
  BY <1>1, <1>2 DEF Known, SourceOK, CallOK, Kept, Before, Locked, Seen, Unchanged, Copying,
       Objects
<1>8. CopyOK(m)
  BY <1>1, <1>2 DEF Known, CopyOK, SourceOK, CallOK, Kept, Seen, Unchanged, Copying, Objects
<1> QED
  BY <1>2, <1>3, <1>4, <1>5, <1>6, <1>7, <1>8, <1>l, Quiet DEF Known, IInv, m

-----------------------------------------------------------------------------
(* Steps that change the trash under one name, or empty the path.          *)

\* in the trash the step of c changes the entry n at most, and that only if no other call has it
Within(c, n) ==
  /\ \A x \in Names \ {n} : info'[x] = info[x] /\ files'[x] = files[x]
  /\ n \in Names =>
       \/ info'[n] = info[n] /\ files'[n] = files[n]
       \/ /\ n \in alien \/ info[n].by \in {c, None}
          /\ info'[n] = info[n] \/ info'[n].by \in {c, None}
          /\ files'[n] = files[n] \/ files'[n].by \in {c, None}

\* What the others have is under other names.
LEMMA Neighbours ==
  ASSUME TypeOK, KnownInv, UNCHANGED <<setting, made, alien>>, at' = at \/ at' = Nothing,
         NEW c \in Callers, Alone(c), NEW n, Within(c, n), Known(c, call[c])'
  PROVE  KnownInv'
<1> SUFFICES ASSUME NEW d \in Callers \ {c} PROVE Known(d, call[d])'
  BY DEF KnownInv
<1> DEFINE k == call[d]
<1>1. /\ Known(d, k) /\ call'[d] = k /\ d # None /\ d # c /\ k \in Calls
  BY PreloadConstants DEF KnownInv, Alone, TypeOK
<1>2. \A x \in Names : info'[x].by = d => info[x].by = d
  BY <1>1 DEF Within
<1>3. \A x \in Names : files'[x].by = d => files[x].by = d
  BY <1>1 DEF Within
<1>4. k.slot \in Names /\ k.slot \notin alien /\ info[k.slot].by = d =>
        info'[k.slot] = info[k.slot] /\ files'[k.slot] = files[k.slot]
  BY <1>1 DEF Within
<1>5. CallOK(k)'
  BY <1>1 DEF Known, CallOK
<1>6. TraceOK(d, k)'
  BY <1>1, <1>2, <1>3 DEF Known, TraceOK
<1>7. EntryOK(d, k)'
  BY <1>1, <1>4 DEF Known, EntryOK, CallOK, Described, Locked
<1>8. SourceOK(k)'
  BY <1>1 DEF Known, SourceOK, Seen, Unchanged, Nothing, Object
<1>9. CopyOK(k)'
  BY <1>1, <1>4 DEF Known, CopyOK, EntryOK, CallOK, Locked, Seen, Nothing, Object
<1> QED
  BY <1>1, <1>5, <1>6, <1>7, <1>8, <1>9 DEF Known

\* A claimed name is one that no other call has.
LEMMA ClaimKnown ==
  ASSUME IInv, NEW c \in Callers, Claim(c), call' \in [Callers -> Calls]
  PROVE  KnownInv' /\ LockOK'
<1> DEFINE k == call[c]
           m == call'[c]
           n == k.try
<1>1. /\ k \in Calls /\ m \in Calls /\ Known(c, k) /\ call \in [Callers -> Calls]
      /\ at \in Objects /\ made \in Nat /\ at.id \in {0, made} /\ (at.id = 0 <=> at.kind = "none")
      /\ info \in [Names -> [by : Callers \cup {None}, whole : BOOLEAN]]
      /\ files \in [Names -> [by : Callers \cup {None, Tool}, id : Nat, ver : Nat]]
      /\ c # None /\ m = call'[c] /\ LockOK
  BY PreloadConstants DEF IInv, TypeOK, KnownInv, Objects, LockOK
<1>n. n \in Names /\ n = k.try /\ n \in 0..MaxNames
  BY <1>1 DEF Claim, Names, Calls
<1>a1. ASSUME Become(c, [k EXCEPT !.try = k.try + 1])
      PROVE  Alone(c) /\ m.pc = k.pc /\ Kept(k, m, {})
  <2>1. m = [k EXCEPT !.try = k.try + 1] /\ Alone(c)
    BY <1>1, <1>a1, Becoming
  <2> HIDE DEF k, m, n
  <2>2. m.pc = k.pc /\ Kept(k, m, {})
    BY <1>1, <2>1 DEF Calls, Kept
  <2> QED
    BY <2>1, <2>2
<1>a2. ASSUME Become(c, [k EXCEPT !.pc = "vacant", !.slot = k.try])
      PROVE  Alone(c) /\ m.pc = "vacant" /\ m.slot = k.try /\ Kept(k, m, {"slot"})
  <2>1. m = [k EXCEPT !.pc = "vacant", !.slot = k.try] /\ Alone(c)
    BY <1>1, <1>a2, Becoming
  <2> HIDE DEF k, m, n
  <2>2. m.pc = "vacant" /\ m.slot = k.try /\ Kept(k, m, {"slot"})
    BY <1>1, <2>1 DEF Calls, Kept
  <2> QED
    BY <2>1, <2>2
<1>a3. To(c, "real") => Alone(c) /\ m.pc = "real" /\ Kept(k, m, {})
  BY <1>1, ToMoves
<1>a. /\ k.pc = "claim"
      /\ \/ /\ Become(c, [k EXCEPT !.try = k.try + 1]) /\ info'[n] = info[n]
            /\ files'[n] = files[n] /\ lock' = lock
         \/ /\ info[n].by = None /\ Become(c, [k EXCEPT !.pc = "vacant", !.slot = k.try])
            /\ info'[n].by = c /\ files'[n] = files[n] /\ lock' = lock
         \/ /\ To(c, "real") /\ info'[n] = info[n] /\ files'[n] = files[n] /\ Release(c)
  BY <1>1, <1>n DEF Claim, NoInfo, Outside, Trash
<1>2. /\ k.pc = "claim" /\ Alone(c)
      /\ \/ /\ m.pc = k.pc /\ Kept(k, m, {}) /\ info'[n] = info[n] /\ files'[n] = files[n]
            /\ lock' = lock
         \/ /\ info[n].by = None /\ m.pc = "vacant" /\ m.slot = k.try /\ Kept(k, m, {"slot"})
            /\ info'[n].by = c /\ files'[n] = files[n] /\ lock' = lock
         \/ /\ m.pc = "real" /\ Kept(k, m, {}) /\ info'[n] = info[n] /\ files'[n] = files[n]
            /\ Release(c)
  BY <1>a, <1>a1, <1>a2, <1>a3
<1>3. /\ UNCHANGED <<setting, made, alien>> /\ at' = at
      /\ \A x \in Names \ {n} : info'[x] = info[x] /\ files'[x] = files[x]
  BY <1>1, <1>n DEF Claim, NoInfo, Outside, Trash
<1>l. LockOK'
  <2>1. \/ lock' = lock /\ (k.pc \in Locked <=> m.pc \in Locked)
        \/ Release(c) /\ m.pc \notin Locked
        \/ lock = None /\ lock' = c /\ m.pc \in Locked
    <3> HIDE DEF k, m, n
    <3> QED
      BY <1>2, <1>3 DEF Locked
  <2> QED
    BY <1>1, <1>2, <2>1, LockKept
<1> HIDE DEF k, m, n
<1>w. Within(c, n)
  BY <1>1, <1>n, <1>2, <1>3 DEF Within, Known, EntryOK, Locked
<1>4. CallOK(call[c])'
  BY <1>1, <1>n, <1>2, <1>3 DEF Known, CallOK, Kept, Before, Locked, Steps, Errors
<1>5. TraceOK(c, call[c])'
  BY <1>1, <1>n, <1>2, <1>3 DEF Known, TraceOK, CallOK, Kept, Before, Unfilled, Locked
<1>6. EntryOK(c, call[c])'
  BY <1>1, <1>n, <1>2, <1>3 DEF Known, EntryOK, CallOK, Kept, Described, Locked
<1>7. SourceOK(call[c])'
  BY <1>1, <1>n, <1>2, <1>3 DEF Known, SourceOK, CallOK, Kept, Before, Locked, Seen, Unchanged,
       Copying, Objects, Nothing, Object
<1>8. CopyOK(call[c])'
  BY <1>1, <1>n, <1>2, <1>3 DEF Known, CopyOK, EntryOK, SourceOK, CallOK, Kept, Seen, Unchanged,
       Copying, Objects, Nothing, Object
<1> QED
  BY <1>1, <1>2, <1>3, <1>w, <1>4, <1>5, <1>6, <1>7, <1>8, <1>l, Neighbours DEF Known, IInv

\* A name whose data is there is given back.
LEMMA VacantKnown ==
  ASSUME IInv, NEW c \in Callers, Vacant(c), call' \in [Callers -> Calls]
  PROVE  KnownInv' /\ LockOK'
<1> DEFINE k == call[c]
           m == call'[c]
           n == k.slot
<1>1. /\ k \in Calls /\ m \in Calls /\ Known(c, k) /\ call \in [Callers -> Calls]
      /\ at \in Objects /\ made \in Nat /\ at.id \in {0, made} /\ (at.id = 0 <=> at.kind = "none")
      /\ info \in [Names -> [by : Callers \cup {None}, whole : BOOLEAN]]
      /\ files \in [Names -> [by : Callers \cup {None, Tool}, id : Nat, ver : Nat]]
      /\ c # None /\ m = call'[c] /\ LockOK
  BY PreloadConstants DEF IInv, TypeOK, KnownInv, Objects, LockOK
<1>n. n \in Names /\ n = k.slot
  BY <1>1 DEF Vacant, Known, CallOK, Locked
<1>a1. ASSUME Become(c, [k EXCEPT !.pc = "claim", !.try = k.slot + 1])
      PROVE  Alone(c) /\ m.pc = "claim" /\ Kept(k, m, {})
  <2>1. m = [k EXCEPT !.pc = "claim", !.try = k.slot + 1] /\ Alone(c)
    BY <1>1, <1>a1, Becoming
  <2> HIDE DEF k, m, n
  <2>2. m.pc = "claim" /\ Kept(k, m, {})
    BY <1>1, <2>1 DEF Calls, Kept
  <2> QED
    BY <2>1, <2>2
<1>a2. To(c, "write") => Alone(c) /\ m.pc = "write" /\ Kept(k, m, {})
  BY <1>1, ToMoves
<1>a. /\ k.pc = "vacant"
      /\ \/ /\ Become(c, [k EXCEPT !.pc = "claim", !.try = k.slot + 1]) /\ info'[n].by = None
            /\ files'[n] = files[n]
         \/ /\ To(c, "write") /\ info'[n] = info[n] /\ files'[n] = files[n]
  BY <1>1, <1>n DEF Vacant, NoInfo, DropInfo, Outside, Trash
<1>2. /\ k.pc = "vacant" /\ Alone(c)
      /\ \/ /\ m.pc = "claim" /\ Kept(k, m, {}) /\ info'[n].by = None /\ files'[n] = files[n]
         \/ /\ m.pc = "write" /\ Kept(k, m, {}) /\ info'[n] = info[n] /\ files'[n] = files[n]
  BY <1>a, <1>a1, <1>a2
<1>3. /\ UNCHANGED <<setting, made, alien>> /\ at' = at /\ lock' = lock
      /\ \A x \in Names \ {n} : info'[x] = info[x] /\ files'[x] = files[x]
  BY <1>1, <1>n DEF Vacant, NoInfo, DropInfo, Outside, Trash
<1>l. LockOK'
  <2>1. \/ lock' = lock /\ (k.pc \in Locked <=> m.pc \in Locked)
        \/ Release(c) /\ m.pc \notin Locked
        \/ lock = None /\ lock' = c /\ m.pc \in Locked
    <3> HIDE DEF k, m, n
    <3> QED
      BY <1>2, <1>3 DEF Locked
  <2> QED
    BY <1>1, <1>2, <2>1, LockKept
<1> HIDE DEF k, m, n
<1>w. Within(c, n)
  BY <1>1, <1>n, <1>2, <1>3 DEF Within, Known, EntryOK, Locked
<1>4. CallOK(call[c])'
  BY <1>1, <1>n, <1>2, <1>3 DEF Known, CallOK, Kept, Before, Locked, Steps, Errors
<1>5. TraceOK(c, call[c])'
  BY <1>1, <1>n, <1>2, <1>3 DEF Known, TraceOK, CallOK, Kept, Before, Unfilled, Locked
<1>6. EntryOK(c, call[c])'
  BY <1>1, <1>n, <1>2, <1>3 DEF Known, EntryOK, CallOK, Kept, Described, Locked
<1>7. SourceOK(call[c])'
  BY <1>1, <1>n, <1>2, <1>3 DEF Known, SourceOK, CallOK, Kept, Before, Locked, Seen, Unchanged,
       Copying, Objects, Nothing, Object
<1>8. CopyOK(call[c])'
  BY <1>1, <1>n, <1>2, <1>3 DEF Known, CopyOK, EntryOK, SourceOK, CallOK, Kept, Seen, Unchanged,
       Copying, Objects, Nothing, Object
<1> QED
  BY <1>1, <1>2, <1>3, <1>w, <1>4, <1>5, <1>6, <1>7, <1>8, <1>l, Neighbours DEF Known, IInv

\* Whole information is under its own name.
LEMMA WriteKnown ==
  ASSUME IInv, NEW c \in Callers, Write(c), call' \in [Callers -> Calls]
  PROVE  KnownInv' /\ LockOK'
<1> DEFINE k == call[c]
           m == call'[c]
           n == k.slot
<1>1. /\ k \in Calls /\ m \in Calls /\ Known(c, k) /\ call \in [Callers -> Calls]
      /\ at \in Objects /\ made \in Nat /\ at.id \in {0, made} /\ (at.id = 0 <=> at.kind = "none")
      /\ info \in [Names -> [by : Callers \cup {None}, whole : BOOLEAN]]
      /\ files \in [Names -> [by : Callers \cup {None, Tool}, id : Nat, ver : Nat]]
      /\ c # None /\ m = call'[c] /\ LockOK
  BY PreloadConstants DEF IInv, TypeOK, KnownInv, Objects, LockOK
<1>n. n \in Names /\ n = k.slot
  BY <1>1 DEF Write, Known, CallOK, Locked
<1>a1. To(c, "recheck") => Alone(c) /\ m.pc = "recheck" /\ Kept(k, m, {})
  BY <1>1, ToMoves
<1>a2. GiveUp(c, "real") => Alone(c) /\ m.pc = "drop" /\ m.next = "real" /\ Kept(k, m, {"next"})
  BY <1>1, GiveUpMoves
<1>a. /\ k.pc = "write"
      /\ \/ /\ To(c, "recheck") /\ (info'[n] = info[n] \/ info'[n].by = c)
            /\ info'[n].by = info[n].by /\ (info[n].by = c => info'[n].whole)
            /\ files'[n] = files[n]
         \/ /\ GiveUp(c, "real") /\ info'[n] = info[n] /\ files'[n] = files[n]
  BY <1>1, <1>n DEF Write, Outside, Trash
<1>2. /\ k.pc = "write" /\ Alone(c)
      /\ \/ /\ m.pc = "recheck" /\ Kept(k, m, {}) /\ (info'[n] = info[n] \/ info'[n].by = c)
            /\ info'[n].by = info[n].by /\ (info[n].by = c => info'[n].whole)
            /\ files'[n] = files[n]
         \/ /\ m.pc = "drop" /\ m.next = "real" /\ Kept(k, m, {"next"}) /\ info'[n] = info[n]
            /\ files'[n] = files[n]
  BY <1>a, <1>a1, <1>a2
<1>3. /\ UNCHANGED <<setting, made, alien>> /\ at' = at /\ lock' = lock
      /\ \A x \in Names \ {n} : info'[x] = info[x] /\ files'[x] = files[x]
  BY <1>1, <1>n DEF Write, Outside, Trash
<1>l. LockOK'
  <2>1. \/ lock' = lock /\ (k.pc \in Locked <=> m.pc \in Locked)
        \/ Release(c) /\ m.pc \notin Locked
        \/ lock = None /\ lock' = c /\ m.pc \in Locked
    <3> HIDE DEF k, m, n
    <3> QED
      BY <1>2, <1>3 DEF Locked
  <2> QED
    BY <1>1, <1>2, <2>1, LockKept
<1> HIDE DEF k, m, n
<1>w. Within(c, n)
  BY <1>1, <1>n, <1>2, <1>3 DEF Within, Known, EntryOK, Locked
<1>4. CallOK(call[c])'
  BY <1>1, <1>n, <1>2, <1>3 DEF Known, CallOK, Kept, Before, Locked, Steps, Errors
<1>5. TraceOK(c, call[c])'
  BY <1>1, <1>n, <1>2, <1>3 DEF Known, TraceOK, CallOK, Kept, Before, Unfilled, Locked
<1>6. EntryOK(c, call[c])'
  BY <1>1, <1>n, <1>2, <1>3 DEF Known, EntryOK, CallOK, Kept, Described, Locked
<1>7. SourceOK(call[c])'
  BY <1>1, <1>n, <1>2, <1>3 DEF Known, SourceOK, CallOK, Kept, Before, Locked, Seen, Unchanged,
       Copying, Objects, Nothing, Object
<1>8. CopyOK(call[c])'
  BY <1>1, <1>n, <1>2, <1>3 DEF Known, CopyOK, EntryOK, SourceOK, CallOK, Kept, Seen, Unchanged,
       Copying, Objects, Nothing, Object
<1> QED
  BY <1>1, <1>2, <1>3, <1>w, <1>4, <1>5, <1>6, <1>7, <1>8, <1>l, Neighbours DEF Known, IInv

\* After the cleanup nothing of the call is left.
LEMMA DropKnown ==
  ASSUME IInv, NEW c \in Callers, Drop(c), call' \in [Callers -> Calls]
  PROVE  KnownInv' /\ LockOK'
<1> DEFINE k == call[c]
           m == call'[c]
           n == k.slot
<1>1. /\ k \in Calls /\ m \in Calls /\ Known(c, k) /\ call \in [Callers -> Calls]
      /\ at \in Objects /\ made \in Nat /\ at.id \in {0, made} /\ (at.id = 0 <=> at.kind = "none")
      /\ info \in [Names -> [by : Callers \cup {None}, whole : BOOLEAN]]
      /\ files \in [Names -> [by : Callers \cup {None, Tool}, id : Nat, ver : Nat]]
      /\ c # None /\ m = call'[c] /\ LockOK
  BY PreloadConstants DEF IInv, TypeOK, KnownInv, Objects, LockOK
<1>n. n \in Names /\ n = k.slot
  BY <1>1 DEF Drop, Known, CallOK, Locked
<1>a1. ASSUME Become(c, [k EXCEPT !.pc = "claim", !.try = 1])
      PROVE  Alone(c) /\ m.pc = "claim" /\ Kept(k, m, {})
  <2>1. m = [k EXCEPT !.pc = "claim", !.try = 1] /\ Alone(c)
    BY <1>1, <1>a1, Becoming
  <2> HIDE DEF k, m, n
  <2>2. m.pc = "claim" /\ Kept(k, m, {})
    BY <1>1, <2>1 DEF Calls, Kept
  <2> QED
    BY <2>1, <2>2
<1>a2. To(c, "real") => Alone(c) /\ m.pc = "real" /\ Kept(k, m, {})
  BY <1>1, ToMoves
<1>a3. Return(c, k.next)
      => Alone(c) /\ m.pc = "done" /\ m.ret = k.next /\ m.inside = FALSE
         /\ Kept(k, m, {"ret", "inside"})
  BY <1>1, ReturnMoves
<1>a. /\ k.pc = "drop"
      /\ \/ /\ k.next = "again" /\ Become(c, [k EXCEPT !.pc = "claim", !.try = 1])
            /\ info'[n].by = None /\ files'[n] = files[n] /\ lock' = lock
         \/ /\ k.next = "real" /\ To(c, "real") /\ info'[n].by = None /\ files'[n] = files[n]
            /\ Release(c)
         \/ /\ k.next \notin {"again", "real"} /\ Return(c, k.next) /\ info'[n].by = None
            /\ files'[n] = files[n] /\ Release(c)
  BY <1>1, <1>n DEF Drop, NoInfo, DropInfo, Outside, Trash
<1>2. /\ k.pc = "drop" /\ Alone(c)
      /\ \/ /\ k.next = "again" /\ m.pc = "claim" /\ Kept(k, m, {}) /\ info'[n].by = None
            /\ files'[n] = files[n] /\ lock' = lock
         \/ /\ k.next = "real" /\ m.pc = "real" /\ Kept(k, m, {}) /\ info'[n].by = None
            /\ files'[n] = files[n] /\ Release(c)
         \/ /\ k.next \notin {"again", "real"} /\ m.pc = "done" /\ m.ret = k.next
            /\ m.inside = FALSE /\ Kept(k, m, {"ret", "inside"}) /\ info'[n].by = None
            /\ files'[n] = files[n] /\ Release(c)
  BY <1>a, <1>a1, <1>a2, <1>a3
<1>3. /\ UNCHANGED <<setting, made, alien>> /\ at' = at
      /\ \A x \in Names \ {n} : info'[x] = info[x] /\ files'[x] = files[x]
  BY <1>1, <1>n DEF Drop, NoInfo, DropInfo, Outside, Trash
<1>l. LockOK'
  <2>1. \/ lock' = lock /\ (k.pc \in Locked <=> m.pc \in Locked)
        \/ Release(c) /\ m.pc \notin Locked
        \/ lock = None /\ lock' = c /\ m.pc \in Locked
    <3> HIDE DEF k, m, n
    <3> QED
      BY <1>2, <1>3 DEF Locked
  <2> QED
    BY <1>1, <1>2, <2>1, LockKept
<1> HIDE DEF k, m, n
<1>w. Within(c, n)
  BY <1>1, <1>n, <1>2, <1>3 DEF Within, Known, EntryOK, Locked
<1>4. CallOK(call[c])'
  BY <1>1, <1>n, <1>2, <1>3 DEF Known, CallOK, Kept, Before, Locked, Steps, Errors
<1>5. TraceOK(c, call[c])'
  BY <1>1, <1>n, <1>2, <1>3 DEF Known, TraceOK, CallOK, Kept, Before, Unfilled, Locked
<1>6. EntryOK(c, call[c])'
  BY <1>1, <1>n, <1>2, <1>3 DEF Known, EntryOK, CallOK, Kept, Described, Locked
<1>7. SourceOK(call[c])'
  BY <1>1, <1>n, <1>2, <1>3 DEF Known, SourceOK, CallOK, Kept, Before, Locked, Seen, Unchanged,
       Copying, Objects, Nothing, Object
<1>8. CopyOK(call[c])'
  BY <1>1, <1>n, <1>2, <1>3 DEF Known, CopyOK, EntryOK, SourceOK, CallOK, Kept, Seen, Unchanged,
       Copying, Objects, Nothing, Object
<1> QED
  BY <1>1, <1>2, <1>3, <1>w, <1>4, <1>5, <1>6, <1>7, <1>8, <1>l, Neighbours DEF Known, IInv

\* What was renamed into the trash is what the last check saw.
LEMMA RenameKnown ==
  ASSUME IInv, NEW c \in Callers, Rename(c), call' \in [Callers -> Calls]
  PROVE  KnownInv' /\ LockOK'
<1> DEFINE k == call[c]
           m == call'[c]
           n == k.slot
<1>1. /\ k \in Calls /\ m \in Calls /\ Known(c, k) /\ call \in [Callers -> Calls]
      /\ at \in Objects /\ made \in Nat /\ at.id \in {0, made} /\ (at.id = 0 <=> at.kind = "none")
      /\ info \in [Names -> [by : Callers \cup {None}, whole : BOOLEAN]]
      /\ files \in [Names -> [by : Callers \cup {None, Tool}, id : Nat, ver : Nat]]
      /\ c # None /\ m = call'[c] /\ LockOK
  BY PreloadConstants DEF IInv, TypeOK, KnownInv, Objects, LockOK
<1>n. n \in Names /\ n = k.slot
  BY <1>1 DEF Rename, Known, CallOK, Locked
<1>a1. ASSUME Become(c, [k EXCEPT !.pc = "drop", !.attempts = k.attempts + 1,
                                  !.next = IF k.attempts + 1 < MaxAttempts THEN "again" ELSE "real"])
      PROVE  Alone(c) /\ m.pc = "drop" /\ m.attempts = k.attempts + 1
             /\ m.next = (IF k.attempts + 1 < MaxAttempts THEN "again" ELSE "real")
             /\ Kept(k, m, {"attempts", "next"})
  <2>1. m = [k EXCEPT !.pc = "drop", !.attempts = k.attempts + 1,
                      !.next = IF k.attempts + 1 < MaxAttempts THEN "again" ELSE "real"] /\ Alone(c)
    BY <1>1, <1>a1, Becoming
  <2> HIDE DEF k, m, n
  <2>2. m.pc = "drop" /\ m.attempts = k.attempts + 1
        /\ m.next = (IF k.attempts + 1 < MaxAttempts THEN "again" ELSE "real")
        /\ Kept(k, m, {"attempts", "next"})
    BY <1>1, <2>1 DEF Calls, Kept
  <2> QED
    BY <2>1, <2>2
<1>a2. GiveUp(c, "real") => Alone(c) /\ m.pc = "drop" /\ m.next = "real" /\ Kept(k, m, {"next"})
  BY <1>1, GiveUpMoves
<1>a3. Take(c, "trash")
      => Alone(c) /\ m.pc = "done" /\ m.ret = "ok" /\ m.inside = FALSE
         /\ m.took = [id |-> at.id, ver |-> at.ver, how |-> "trash"]
         /\ Kept(k, m, {"ret", "inside", "took"})
  BY <1>1, TakeMoves
<1>a4. To(c, "restat") => Alone(c) /\ m.pc = "restat" /\ Kept(k, m, {})
  BY <1>1, ToMoves
<1>a. /\ k.pc = "rename"
      /\ \/ /\ Become(c, [k EXCEPT !.pc = "drop", !.attempts = k.attempts + 1,
                                   !.next = IF k.attempts + 1 < MaxAttempts THEN "again" ELSE "real"])
            /\ at' = at /\ info'[n] = info[n] /\ files'[n] = files[n] /\ lock' = lock
         \/ /\ GiveUp(c, "real") /\ at' = at /\ info'[n] = info[n] /\ files'[n] = files[n]
            /\ lock' = lock
         \/ /\ at.kind # "none" /\ Take(c, "trash") /\ at' = Nothing /\ info'[n] = info[n]
            /\ files'[n].by = c /\ files'[n].id = at.id /\ files'[n].ver = at.ver /\ Release(c)
         \/ /\ To(c, "restat") /\ at' = at /\ info'[n] = info[n] /\ files'[n] = files[n]
            /\ lock' = lock
  BY <1>1, <1>n DEF Rename, Take, Outside, Trash
<1>2. /\ k.pc = "rename" /\ Alone(c)
      /\ \/ /\ m.pc = "drop" /\ m.attempts = k.attempts + 1
            /\ m.next = (IF k.attempts + 1 < MaxAttempts THEN "again" ELSE "real")
            /\ Kept(k, m, {"attempts", "next"}) /\ at' = at /\ info'[n] = info[n]
            /\ files'[n] = files[n] /\ lock' = lock
         \/ /\ m.pc = "drop" /\ m.next = "real" /\ Kept(k, m, {"next"}) /\ at' = at
            /\ info'[n] = info[n] /\ files'[n] = files[n] /\ lock' = lock
         \/ /\ at.kind # "none" /\ m.pc = "done" /\ m.ret = "ok" /\ m.inside = FALSE
            /\ m.took = [id |-> at.id, ver |-> at.ver, how |-> "trash"]
            /\ Kept(k, m, {"ret", "inside", "took"}) /\ at' = Nothing /\ info'[n] = info[n]
            /\ files'[n].by = c /\ files'[n].id = at.id /\ files'[n].ver = at.ver /\ Release(c)
         \/ /\ m.pc = "restat" /\ Kept(k, m, {}) /\ at' = at /\ info'[n] = info[n]
            /\ files'[n] = files[n] /\ lock' = lock
  BY <1>a, <1>a1, <1>a2, <1>a3, <1>a4
<1>3. /\ UNCHANGED <<setting, made, alien>> /\ (at' = at \/ at' = Nothing)
      /\ \A x \in Names \ {n} : info'[x] = info[x] /\ files'[x] = files[x]
  BY <1>1, <1>n DEF Rename, Take, Outside, Trash
<1>l. LockOK'
  <2>1. \/ lock' = lock /\ (k.pc \in Locked <=> m.pc \in Locked)
        \/ Release(c) /\ m.pc \notin Locked
        \/ lock = None /\ lock' = c /\ m.pc \in Locked
    <3> HIDE DEF k, m, n
    <3> QED
      BY <1>2, <1>3 DEF Locked
  <2> QED
    BY <1>1, <1>2, <2>1, LockKept
<1> HIDE DEF k, m, n
<1>w. Within(c, n)
  BY <1>1, <1>n, <1>2, <1>3 DEF Within, Known, EntryOK, Locked
<1>4. CallOK(call[c])'
  BY <1>1, <1>n, <1>2, <1>3 DEF Known, CallOK, Kept, Before, Locked, Steps, Errors
<1>5. TraceOK(c, call[c])'
  BY <1>1, <1>n, <1>2, <1>3 DEF Known, TraceOK, CallOK, Kept, Before, Unfilled, Locked
<1>6. EntryOK(c, call[c])'
  <2>1. info[n] = [by |-> info[n].by, whole |-> info[n].whole]
    BY <1>1, <1>n
  <2>2. n \notin alien => info[n].by = c /\ info[n].whole = TRUE
    BY <1>1, <1>n, <1>2 DEF Known, EntryOK, Locked, Described
  <2>3. n \notin alien => info'[n] = [by |-> c, whole |-> TRUE]
    BY <1>2, <2>1, <2>2
  <2>4. m.slot = n
    BY <1>n, <1>2 DEF Kept
  <2> QED
    BY <1>1, <1>2, <1>3, <2>2, <2>3, <2>4 DEF EntryOK, Described, Locked
<1>7. SourceOK(call[c])'
  BY <1>1, <1>n, <1>2, <1>3 DEF Known, SourceOK, CallOK, Kept, Before, Locked, Seen, Unchanged,
       Copying, Objects, Nothing, Object
<1>8. CopyOK(call[c])'
  BY <1>1, <1>n, <1>2, <1>3 DEF Known, CopyOK, EntryOK, SourceOK, CallOK, Kept, Seen, Unchanged,
       Copying, Objects, Nothing, Object
<1> QED
  BY <1>1, <1>2, <1>3, <1>w, <1>4, <1>5, <1>6, <1>7, <1>8, <1>l, Neighbours DEF Known, IInv

\* A copied link is of what the path names now, which is no older than the source.
LEMMA CopyLinkKnown ==
  ASSUME IInv, NEW c \in Callers, CopyLink(c), call' \in [Callers -> Calls]
  PROVE  KnownInv' /\ LockOK'
<1> DEFINE k == call[c]
           m == call'[c]
           n == k.slot
<1>1. /\ k \in Calls /\ m \in Calls /\ Known(c, k) /\ call \in [Callers -> Calls]
      /\ at \in Objects /\ made \in Nat /\ at.id \in {0, made} /\ (at.id = 0 <=> at.kind = "none")
      /\ info \in [Names -> [by : Callers \cup {None}, whole : BOOLEAN]]
      /\ files \in [Names -> [by : Callers \cup {None, Tool}, id : Nat, ver : Nat]]
      /\ c # None /\ m = call'[c] /\ LockOK
  BY PreloadConstants DEF IInv, TypeOK, KnownInv, Objects, LockOK
<1>n. n \in Names /\ n = k.slot
  BY <1>1 DEF CopyLink, Known, CallOK, Locked
<1>a1. ASSUME Become(c, [k EXCEPT !.pc = "retire", !.copied = TRUE])
      PROVE  Alone(c) /\ m.pc = "retire" /\ Kept(k, m, {"copied"})
  <2>1. m = [k EXCEPT !.pc = "retire", !.copied = TRUE] /\ Alone(c)
    BY <1>1, <1>a1, Becoming
  <2> HIDE DEF k, m, n
  <2>2. m.pc = "retire" /\ Kept(k, m, {"copied"})
    BY <1>1, <2>1 DEF Calls, Kept
  <2> QED
    BY <2>1, <2>2
<1>a2. GiveUp(c, "real") => Alone(c) /\ m.pc = "drop" /\ m.next = "real" /\ Kept(k, m, {"next"})
  BY <1>1, GiveUpMoves
<1>a. /\ k.pc = "link"
      /\ \/ /\ at.kind = "link" /\ Become(c, [k EXCEPT !.pc = "retire", !.copied = TRUE])
            /\ info'[n] = info[n] /\ files'[n].by = c
            /\ files'[n].id = at.id /\ files'[n].ver = at.ver
         \/ /\ GiveUp(c, "real") /\ info'[n] = info[n] /\ files'[n] = files[n]
  BY <1>1, <1>n DEF CopyLink, Outside, Trash
<1>2. /\ k.pc = "link" /\ Alone(c)
      /\ \/ /\ at.kind = "link" /\ m.pc = "retire" /\ Kept(k, m, {"copied"}) /\ info'[n] = info[n]
            /\ files'[n].by = c /\ files'[n].id = at.id /\ files'[n].ver = at.ver
         \/ /\ m.pc = "drop" /\ m.next = "real" /\ Kept(k, m, {"next"})
            /\ info'[n] = info[n] /\ files'[n] = files[n]
  BY <1>a, <1>a1, <1>a2
<1>3. /\ UNCHANGED <<setting, made, alien>> /\ at' = at /\ lock' = lock
      /\ \A x \in Names \ {n} : info'[x] = info[x] /\ files'[x] = files[x]
  BY <1>1, <1>n DEF CopyLink, Outside, Trash
<1>l. LockOK'
  <2>1. \/ lock' = lock /\ (k.pc \in Locked <=> m.pc \in Locked)
        \/ Release(c) /\ m.pc \notin Locked
        \/ lock = None /\ lock' = c /\ m.pc \in Locked
    <3> HIDE DEF k, m, n
    <3> QED
      BY <1>2, <1>3 DEF Locked
  <2> QED
    BY <1>1, <1>2, <2>1, LockKept
<1> HIDE DEF k, m, n
<1>w. Within(c, n)
  BY <1>1, <1>n, <1>2, <1>3 DEF Within, Known, EntryOK, Locked
<1>4. CallOK(call[c])'
  BY <1>1, <1>n, <1>2, <1>3 DEF Known, CallOK, Kept, Before, Locked, Steps, Errors
<1>5. TraceOK(c, call[c])'
  BY <1>1, <1>n, <1>2, <1>3 DEF Known, TraceOK, CallOK, Kept, Before, Unfilled, Locked
<1>6. EntryOK(c, call[c])'
  BY <1>1, <1>n, <1>2, <1>3 DEF Known, EntryOK, CallOK, Kept, Described, Locked
<1>7. SourceOK(call[c])'
  BY <1>1, <1>n, <1>2, <1>3 DEF Known, SourceOK, CallOK, Kept, Before, Locked, Seen, Unchanged,
       Copying, Objects, Nothing, Object
<1>8. CopyOK(call[c])'
  BY <1>1, <1>n, <1>2, <1>3 DEF Known, CopyOK, EntryOK, SourceOK, CallOK, Kept, Seen, Unchanged,
       Copying, Objects, Nothing, Object
<1> QED
  BY <1>1, <1>2, <1>3, <1>w, <1>4, <1>5, <1>6, <1>7, <1>8, <1>l, Neighbours DEF Known, IInv

\* The copy is created under a name that holds no data.
LEMMA OpenKnown ==
  ASSUME IInv, NEW c \in Callers, Open(c), call' \in [Callers -> Calls]
  PROVE  KnownInv' /\ LockOK'
<1> DEFINE k == call[c]
           m == call'[c]
           n == k.slot
<1>1. /\ k \in Calls /\ m \in Calls /\ Known(c, k) /\ call \in [Callers -> Calls]
      /\ at \in Objects /\ made \in Nat /\ at.id \in {0, made} /\ (at.id = 0 <=> at.kind = "none")
      /\ info \in [Names -> [by : Callers \cup {None}, whole : BOOLEAN]]
      /\ files \in [Names -> [by : Callers \cup {None, Tool}, id : Nat, ver : Nat]]
      /\ c # None /\ m = call'[c] /\ LockOK
  BY PreloadConstants DEF IInv, TypeOK, KnownInv, Objects, LockOK
<1>n. n \in Names /\ n = k.slot
  BY <1>1 DEF Open, Known, CallOK, Locked
<1>a1. To(c, "compare") => Alone(c) /\ m.pc = "compare" /\ Kept(k, m, {})
  BY <1>1, ToMoves
<1>a2. GiveUp(c, "EBUSY") => Alone(c) /\ m.pc = "drop" /\ m.next = "EBUSY" /\ Kept(k, m, {"next"})
  BY <1>1, GiveUpMoves
<1>a3. ASSUME Become(c, [k EXCEPT !.pc = "read", !.src = at, !.copied = TRUE])
      PROVE  Alone(c) /\ m.pc = "read" /\ m.src = at /\ Kept(k, m, {"src", "copied"})
  <2>1. m = [k EXCEPT !.pc = "read", !.src = at, !.copied = TRUE] /\ Alone(c)
    BY <1>1, <1>a3, Becoming
  <2> HIDE DEF k, m, n
  <2>2. m.pc = "read" /\ m.src = at /\ Kept(k, m, {"src", "copied"})
    BY <1>1, <2>1 DEF Calls, Kept
  <2> QED
    BY <2>1, <2>2
<1>a. /\ k.pc = "open"
      /\ \/ /\ To(c, "compare") /\ info'[n] = info[n] /\ files'[n] = files[n]
         \/ /\ GiveUp(c, "EBUSY") /\ info'[n] = info[n] /\ files'[n] = files[n]
         \/ /\ at.id # 0 /\ at.id = k.meta.id /\ Become(c, [k EXCEPT !.pc = "read", !.src = at, !.copied = TRUE])
            /\ info'[n] = info[n] /\ files'[n].by = c
  BY <1>1, <1>n DEF Open, Same, Outside, Trash
<1>2. /\ k.pc = "open" /\ Alone(c)
      /\ \/ /\ m.pc = "compare" /\ Kept(k, m, {}) /\ info'[n] = info[n] /\ files'[n] = files[n]
         \/ /\ m.pc = "drop" /\ m.next = "EBUSY" /\ Kept(k, m, {"next"}) /\ info'[n] = info[n]
            /\ files'[n] = files[n]
         \/ /\ at.id # 0 /\ at.id = k.meta.id /\ m.pc = "read" /\ m.src = at
            /\ Kept(k, m, {"src", "copied"}) /\ info'[n] = info[n] /\ files'[n].by = c
  BY <1>a, <1>a1, <1>a2, <1>a3
<1>3. /\ UNCHANGED <<setting, made, alien>> /\ at' = at /\ lock' = lock
      /\ \A x \in Names \ {n} : info'[x] = info[x] /\ files'[x] = files[x]
  BY <1>1, <1>n DEF Open, Same, Outside, Trash
<1>l. LockOK'
  <2>1. \/ lock' = lock /\ (k.pc \in Locked <=> m.pc \in Locked)
        \/ Release(c) /\ m.pc \notin Locked
        \/ lock = None /\ lock' = c /\ m.pc \in Locked
    <3> HIDE DEF k, m, n
    <3> QED
      BY <1>2, <1>3 DEF Locked
  <2> QED
    BY <1>1, <1>2, <2>1, LockKept
<1> HIDE DEF k, m, n
<1>w. Within(c, n)
  BY <1>1, <1>n, <1>2, <1>3 DEF Within, Known, EntryOK, Locked
<1>4. CallOK(call[c])'
  BY <1>1, <1>n, <1>2, <1>3 DEF Known, CallOK, Kept, Before, Locked, Steps, Errors
<1>5. TraceOK(c, call[c])'
  BY <1>1, <1>n, <1>2, <1>3 DEF Known, TraceOK, CallOK, Kept, Before, Unfilled, Locked
<1>6. EntryOK(c, call[c])'
  BY <1>1, <1>n, <1>2, <1>3 DEF Known, EntryOK, CallOK, Kept, Described, Locked
<1>7. SourceOK(call[c])'
  BY <1>1, <1>n, <1>2, <1>3 DEF Known, SourceOK, CallOK, Kept, Before, Locked, Seen, Unchanged,
       Copying, Objects, Nothing, Object
<1>8. CopyOK(call[c])'
  BY <1>1, <1>n, <1>2, <1>3 DEF Known, CopyOK, EntryOK, SourceOK, CallOK, Kept, Seen, Unchanged,
       Copying, Objects, Nothing, Object
<1> QED
  BY <1>1, <1>2, <1>3, <1>w, <1>4, <1>5, <1>6, <1>7, <1>8, <1>l, Neighbours DEF Known, IInv

\* The copy is of the source that was opened.
LEMMA ReadKnown ==
  ASSUME IInv, NEW c \in Callers, Read(c), call' \in [Callers -> Calls]
  PROVE  KnownInv' /\ LockOK'
<1> DEFINE k == call[c]
           m == call'[c]
           n == k.slot
<1>1. /\ k \in Calls /\ m \in Calls /\ Known(c, k) /\ call \in [Callers -> Calls]
      /\ at \in Objects /\ made \in Nat /\ at.id \in {0, made} /\ (at.id = 0 <=> at.kind = "none")
      /\ info \in [Names -> [by : Callers \cup {None}, whole : BOOLEAN]]
      /\ files \in [Names -> [by : Callers \cup {None, Tool}, id : Nat, ver : Nat]]
      /\ c # None /\ m = call'[c] /\ LockOK
  BY PreloadConstants DEF IInv, TypeOK, KnownInv, Objects, LockOK
<1>n. n \in Names /\ n = k.slot
  BY <1>1 DEF Read, Known, CallOK, Locked
<1>a1. UndoCopy(c, "EBUSY")
      => Alone(c) /\ m.pc = "uncopy" /\ m.next = "EBUSY" /\ Kept(k, m, {"next"})
  BY <1>1, UndoCopyMoves
<1>a2. To(c, "retire") => Alone(c) /\ m.pc = "retire" /\ Kept(k, m, {})
  BY <1>1, ToMoves
<1>a3. UndoCopy(c, "compare")
      => Alone(c) /\ m.pc = "uncopy" /\ m.next = "compare" /\ Kept(k, m, {"next"})
  BY <1>1, UndoCopyMoves
<1>a. /\ k.pc = "read"
      /\ \/ /\ UndoCopy(c, "EBUSY") /\ info'[n] = info[n]
            /\ (files'[n] = files[n] \/ files'[n].by = c) /\ files'[n].by = files[n].by
         \/ /\ To(c, "retire") /\ info'[n] = info[n] /\ files'[n].by = files[n].by
            /\ (files'[n] = files[n] \/ files'[n].by = c)
            /\ (files[n].by = c => files'[n].id = k.src.id /\ files'[n].ver = k.src.ver)
         \/ /\ UndoCopy(c, "compare") /\ info'[n] = info[n] /\ files'[n] = files[n]
  BY <1>1, <1>n DEF Read, Owned, Outside, Trash
<1>2. /\ k.pc = "read" /\ Alone(c)
      /\ \/ /\ m.pc = "uncopy" /\ m.next = "EBUSY" /\ Kept(k, m, {"next"}) /\ info'[n] = info[n]
            /\ (files'[n] = files[n] \/ files'[n].by = c) /\ files'[n].by = files[n].by
         \/ /\ m.pc = "retire" /\ Kept(k, m, {}) /\ info'[n] = info[n]
            /\ files'[n].by = files[n].by /\ (files'[n] = files[n] \/ files'[n].by = c)
            /\ (files[n].by = c => files'[n].id = k.src.id /\ files'[n].ver = k.src.ver)
         \/ /\ m.pc = "uncopy" /\ m.next = "compare" /\ Kept(k, m, {"next"}) /\ info'[n] = info[n]
            /\ files'[n] = files[n]
  BY <1>a, <1>a1, <1>a2, <1>a3
<1>3. /\ UNCHANGED <<setting, made, alien>> /\ at' = at /\ lock' = lock
      /\ \A x \in Names \ {n} : info'[x] = info[x] /\ files'[x] = files[x]
  BY <1>1, <1>n DEF Read, Owned, Outside, Trash
<1>l. LockOK'
  <2>1. \/ lock' = lock /\ (k.pc \in Locked <=> m.pc \in Locked)
        \/ Release(c) /\ m.pc \notin Locked
        \/ lock = None /\ lock' = c /\ m.pc \in Locked
    <3> HIDE DEF k, m, n
    <3> QED
      BY <1>2, <1>3 DEF Locked
  <2> QED
    BY <1>1, <1>2, <2>1, LockKept
<1> HIDE DEF k, m, n
<1>w. Within(c, n)
  BY <1>1, <1>n, <1>2, <1>3 DEF Within, Known, EntryOK, Locked
<1>4. CallOK(call[c])'
  BY <1>1, <1>n, <1>2, <1>3 DEF Known, CallOK, Kept, Before, Locked, Steps, Errors
<1>5. TraceOK(c, call[c])'
  BY <1>1, <1>n, <1>2, <1>3 DEF Known, TraceOK, CallOK, Kept, Before, Unfilled, Locked
<1>6. EntryOK(c, call[c])'
  BY <1>1, <1>n, <1>2, <1>3 DEF Known, EntryOK, CallOK, Kept, Described, Locked
<1>7. SourceOK(call[c])'
  BY <1>1, <1>n, <1>2, <1>3 DEF Known, SourceOK, CallOK, Kept, Before, Locked, Seen, Unchanged,
       Copying, Objects, Nothing, Object
<1>8. CopyOK(call[c])'
  <2>1. n \notin alien /\ m.pc = "retire" => files'[n].id = k.src.id /\ files'[n].ver = k.src.ver
    BY <1>1, <1>n, <1>2 DEF Known, EntryOK
  <2>2. m.slot = n /\ m.src = k.src /\ m.pc \in {"uncopy", "retire"}
    BY <1>n, <1>2 DEF Kept
  <2>3. Seen(k.src.id, k.src.ver) /\ k.src.id \in Nat /\ k.src.ver \in Nat
    BY <1>1, <1>3 DEF Known, SourceOK, Seen, Calls, Objects
  <2> QED
    BY <1>1, <1>3, <2>1, <2>2, <2>3 DEF CopyOK, Seen
<1> QED
  BY <1>1, <1>2, <1>3, <1>w, <1>4, <1>5, <1>6, <1>7, <1>8, <1>l, Neighbours DEF Known, IInv

\* remove_owned_copy leaves no copy of the call.
LEMMA UncopyKnown ==
  ASSUME IInv, NEW c \in Callers, Uncopy(c), call' \in [Callers -> Calls]
  PROVE  KnownInv' /\ LockOK'
<1> DEFINE k == call[c]
           m == call'[c]
           n == k.slot
<1>1. /\ k \in Calls /\ m \in Calls /\ Known(c, k) /\ call \in [Callers -> Calls]
      /\ at \in Objects /\ made \in Nat /\ at.id \in {0, made} /\ (at.id = 0 <=> at.kind = "none")
      /\ info \in [Names -> [by : Callers \cup {None}, whole : BOOLEAN]]
      /\ files \in [Names -> [by : Callers \cup {None, Tool}, id : Nat, ver : Nat]]
      /\ c # None /\ m = call'[c] /\ LockOK
  BY PreloadConstants DEF IInv, TypeOK, KnownInv, Objects, LockOK
<1>n. n \in Names /\ n = k.slot
  BY <1>1 DEF Uncopy, Known, CallOK, Locked
<1>a1. To(c, IF k.next = "compare" THEN "compare" ELSE "drop")
      => Alone(c) /\ m.pc = (IF k.next = "compare" THEN "compare" ELSE "drop") /\ Kept(k, m, {})
  BY <1>1, ToMoves
<1>a. /\ k.pc = "uncopy"
      /\ To(c, IF k.next = "compare" THEN "compare" ELSE "drop") /\ info'[n] = info[n]
      /\ files'[n].by # c /\ (files'[n] = files[n] \/ files'[n].by = None)
  BY <1>1, <1>n DEF Uncopy, Owned, Free, Outside, Trash
<1>2. /\ k.pc = "uncopy" /\ Alone(c)
      /\ m.pc = (IF k.next = "compare" THEN "compare" ELSE "drop") /\ Kept(k, m, {})
      /\ info'[n] = info[n] /\ files'[n].by # c /\ (files'[n] = files[n] \/ files'[n].by = None)
  BY <1>a, <1>a1
<1>3. /\ UNCHANGED <<setting, made, alien>> /\ at' = at /\ lock' = lock
      /\ \A x \in Names \ {n} : info'[x] = info[x] /\ files'[x] = files[x]
  BY <1>1, <1>n DEF Uncopy, Owned, Free, Outside, Trash
<1>l. LockOK'
  <2>1. \/ lock' = lock /\ (k.pc \in Locked <=> m.pc \in Locked)
        \/ Release(c) /\ m.pc \notin Locked
        \/ lock = None /\ lock' = c /\ m.pc \in Locked
    <3> HIDE DEF k, m, n
    <3> QED
      BY <1>2, <1>3 DEF Locked
  <2> QED
    BY <1>1, <1>2, <2>1, LockKept
<1> HIDE DEF k, m, n
<1>w. Within(c, n)
  BY <1>1, <1>n, <1>2, <1>3 DEF Within, Known, EntryOK, Locked
<1>4. CallOK(call[c])'
  BY <1>1, <1>n, <1>2, <1>3 DEF Known, CallOK, Kept, Before, Locked, Steps, Errors
<1>5. TraceOK(c, call[c])'
  BY <1>1, <1>n, <1>2, <1>3 DEF Known, TraceOK, CallOK, Kept, Before, Unfilled, Locked
<1>6. EntryOK(c, call[c])'
  BY <1>1, <1>n, <1>2, <1>3 DEF Known, EntryOK, CallOK, Kept, Described, Locked
<1>7. SourceOK(call[c])'
  <2>1. m.pc = "drop" => m.next # "real"
    BY <1>1, <1>2 DEF Kept, Known, CallOK, Errors
  <2> QED
    BY <1>1, <1>n, <1>2, <1>3, <2>1 DEF Known, SourceOK, CallOK, Kept, Seen, Unchanged, Copying
<1>8. CopyOK(call[c])'
  BY <1>1, <1>n, <1>2, <1>3 DEF Known, CopyOK, EntryOK, SourceOK, CallOK, Kept, Seen, Unchanged,
       Copying, Objects, Nothing, Object
<1> QED
  BY <1>1, <1>2, <1>3, <1>w, <1>4, <1>5, <1>6, <1>7, <1>8, <1>l, Neighbours DEF Known, IInv

\* The supervisor touches neither the trash nor what others know.
LEMMA DeferKnown ==
  ASSUME IInv, NEW c \in Callers, Defer(c), call' \in [Callers -> Calls]
  PROVE  KnownInv' /\ LockOK'
<1> DEFINE k == call[c]
           m == call'[c]
<1>1. /\ k \in Calls /\ m \in Calls /\ Known(c, k) /\ call \in [Callers -> Calls]
      /\ at \in Objects /\ made \in Nat /\ at.id \in {0, made} /\ (at.id = 0 <=> at.kind = "none")
      /\ m = call'[c] /\ LockOK
  BY DEF IInv, TypeOK, KnownInv, LockOK
<1>a1. To(c, "resolve") => Alone(c) /\ m.pc = "resolve" /\ Kept(k, m, {})
  BY <1>1, ToMoves
<1>a2. Take(c, "supervisor")
      => Alone(c) /\ m.pc = "done" /\ m.ret = "ok" /\ m.inside = FALSE
         /\ m.took = [id |-> at.id, ver |-> at.ver, how |-> "supervisor"]
         /\ Kept(k, m, {"ret", "inside", "took"})
  BY <1>1, TakeMoves
<1>a3. To(c, "deferDir") => Alone(c) /\ m.pc = "deferDir" /\ Kept(k, m, {})
  BY <1>1, ToMoves
<1>a4. ASSUME NEW r \in Errors, Return(c, r)
      PROVE  Alone(c) /\ m.pc = "done" /\ m.ret \in Errors /\ m.inside = FALSE
             /\ Kept(k, m, {"ret", "inside"})
  BY <1>1, <1>a4, ReturnMoves
<1>f. \A removedir : Unfit(at, removedir) = "ok" => at.kind # "none"
  BY DEF Unfit
<1>a. /\ k.pc \in {"defer", "deferDir"}
      /\ \/ /\ at' = at /\ To(c, "resolve")
         \/ /\ at' = Nothing /\ Take(c, "supervisor")
         \/ /\ at' = at /\ To(c, "deferDir")
         \/ /\ at' = at /\ (\E r \in Errors : Return(c, r))
  BY <1>1, <1>f, Fit DEF Defer, Take
<1>2. /\ k.pc \in {"defer", "deferDir"} /\ Alone(c)
      /\ \/ /\ m.pc = "resolve" /\ Kept(k, m, {}) /\ at' = at
         \/ /\ m.pc = "done" /\ m.ret = "ok" /\ m.inside = FALSE
            /\ m.took = [id |-> at.id, ver |-> at.ver, how |-> "supervisor"]
            /\ Kept(k, m, {"ret", "inside", "took"}) /\ at' = Nothing
         \/ /\ m.pc = "deferDir" /\ Kept(k, m, {}) /\ at' = at
         \/ /\ m.pc = "done" /\ m.ret \in Errors /\ m.inside = FALSE
            /\ Kept(k, m, {"ret", "inside"}) /\ at' = at
  BY <1>a, <1>a1, <1>a2, <1>a3, <1>a4
<1>3. UNCHANGED <<setting, made, alien, files, info, lock>>
  BY DEF Defer, Outside, Trash
<1>l. LockOK'
  <2>1. \/ lock' = lock /\ (k.pc \in Locked <=> m.pc \in Locked)
        \/ Release(c) /\ m.pc \notin Locked
        \/ lock = None /\ lock' = c /\ m.pc \in Locked
    <3> HIDE DEF k, m
    <3> QED
      BY <1>2, <1>3 DEF Locked
  <2> QED
    BY <1>1, <1>2, <2>1, LockKept
<1> HIDE DEF k, m
<1>w. Within(c, 0)
  BY <1>3 DEF Within
<1>4. CallOK(call[c])'
  BY <1>1, <1>2, <1>3 DEF Known, CallOK, Kept, Before, Locked, Steps, Errors
<1>5. TraceOK(c, call[c])'
  BY <1>1, <1>2, <1>3 DEF Known, TraceOK, CallOK, Kept, Before, Unfilled, Locked
<1>6. EntryOK(c, call[c])'
  BY <1>1, <1>2, <1>3 DEF Known, EntryOK, CallOK, Kept, Described, Locked
<1>7. SourceOK(call[c])'
  BY <1>1, <1>2, <1>3 DEF Known, SourceOK, CallOK, Kept, Before, Locked, Seen, Unchanged,
       Copying, Objects, Nothing, Object
<1>8. CopyOK(call[c])'
  BY <1>1, <1>2, <1>3 DEF Known, CopyOK, EntryOK, SourceOK, CallOK, Kept, Seen, Unchanged,
       Copying, Objects, Nothing, Object
<1> QED
  BY <1>1, <1>2, <1>3, <1>w, <1>4, <1>5, <1>6, <1>7, <1>8, <1>l, Neighbours DEF Known, IInv

\* The copy is of what was removed.
LEMMA UnlinkKnown ==
  ASSUME IInv, NEW c \in Callers, Unlink(c), call' \in [Callers -> Calls]
  PROVE  KnownInv' /\ LockOK'
<1> DEFINE k == call[c]
           m == call'[c]
<1>1. /\ k \in Calls /\ m \in Calls /\ Known(c, k) /\ call \in [Callers -> Calls]
      /\ at \in Objects /\ made \in Nat /\ at.id \in {0, made} /\ (at.id = 0 <=> at.kind = "none")
      /\ m = call'[c] /\ LockOK
  BY DEF IInv, TypeOK, KnownInv, LockOK
<1>a1. Take(c, "trash")
      => Alone(c) /\ m.pc = "done" /\ m.ret = "ok" /\ m.inside = FALSE
         /\ m.took = [id |-> at.id, ver |-> at.ver, how |-> "trash"]
         /\ Kept(k, m, {"ret", "inside", "took"})
  BY <1>1, TakeMoves
<1>a2. ASSUME NEW r \in Errors, UndoCopy(c, r)
      PROVE  Alone(c) /\ m.pc = "uncopy" /\ m.next \in Errors /\ Kept(k, m, {"next"})
  BY <1>1, <1>a2, UndoCopyMoves
<1>f. \A removedir : Unfit(at, removedir) = "ok" => at.kind # "none"
  BY DEF Unfit
<1>a. /\ k.pc = "unlink"
      /\ \/ /\ at.kind # "none" /\ at' = Nothing /\ Release(c) /\ Take(c, "trash")
         \/ /\ at' = at /\ lock' = lock /\ (\E r \in Errors : UndoCopy(c, r))
  BY <1>1, <1>f, Fit DEF Unlink, Take
<1>2. /\ k.pc = "unlink" /\ Alone(c)
      /\ \/ /\ at.kind # "none" /\ m.pc = "done" /\ m.ret = "ok" /\ m.inside = FALSE
            /\ m.took = [id |-> at.id, ver |-> at.ver, how |-> "trash"]
            /\ Kept(k, m, {"ret", "inside", "took"}) /\ at' = Nothing /\ Release(c)
         \/ /\ m.pc = "uncopy" /\ m.next \in Errors /\ Kept(k, m, {"next"}) /\ at' = at
            /\ lock' = lock
  BY <1>a, <1>a1, <1>a2
<1>3. UNCHANGED <<setting, made, alien, files, info>>
  BY DEF Unlink, Outside, Trash
<1>l. LockOK'
  <2>1. \/ lock' = lock /\ (k.pc \in Locked <=> m.pc \in Locked)
        \/ Release(c) /\ m.pc \notin Locked
        \/ lock = None /\ lock' = c /\ m.pc \in Locked
    <3> HIDE DEF k, m
    <3> QED
      BY <1>2, <1>3 DEF Locked
  <2> QED
    BY <1>1, <1>2, <2>1, LockKept
<1> HIDE DEF k, m
<1>w. Within(c, 0)
  BY <1>3 DEF Within
<1>4. CallOK(call[c])'
  BY <1>1, <1>2, <1>3 DEF Known, CallOK, Kept, Before, Locked, Steps, Errors
<1>5. TraceOK(c, call[c])'
  BY <1>1, <1>2, <1>3 DEF Known, TraceOK, CallOK, Kept, Before, Unfilled, Locked
<1>6. EntryOK(c, call[c])'
  <2>1. info[k.slot] = [by |-> info[k.slot].by, whole |-> info[k.slot].whole]
    BY <1>1, <1>2 DEF IInv, TypeOK, Known, CallOK, Locked
  <2>2. m.slot = k.slot /\ m.pc \in {"uncopy", "done"}
    BY <1>2 DEF Kept
  <2>3. k.slot \notin alien => info[k.slot] = [by |-> c, whole |-> TRUE] /\ files[k.slot].by = c
    <3>1. k.slot \notin alien => info[k.slot].by = c /\ info[k.slot].whole /\ files[k.slot].by = c
      BY <1>1, <1>2 DEF Known, EntryOK, Locked, Described
    <3>2. k.slot \in Names /\ info \in [Names -> [by : Callers \cup {None}, whole : BOOLEAN]]
      BY <1>1, <1>2 DEF IInv, TypeOK, Known, CallOK, Locked
    <3> QED
      BY <2>1, <3>1, <3>2
  <2> QED
    BY <1>1, <1>3, <2>2, <2>3 DEF EntryOK, Described, Locked
<1>7. SourceOK(call[c])'
  BY <1>1, <1>2, <1>3 DEF Known, SourceOK, CallOK, Kept, Before, Locked, Seen, Unchanged,
       Copying, Objects, Nothing, Object
<1>8. CopyOK(call[c])'
  BY <1>1, <1>2, <1>3 DEF Known, CopyOK, EntryOK, SourceOK, CallOK, Kept, Seen, Unchanged,
       Copying, Objects, Nothing, Object
<1> QED
  BY <1>1, <1>2, <1>3, <1>w, <1>4, <1>5, <1>6, <1>7, <1>8, <1>l, Neighbours DEF Known, IInv

\* The real call leaves the trash alone.
LEMMA RealKnown ==
  ASSUME IInv, NEW c \in Callers, Real(c), call' \in [Callers -> Calls]
  PROVE  KnownInv' /\ LockOK'
<1> DEFINE k == call[c]
           m == call'[c]
<1>1. /\ k \in Calls /\ m \in Calls /\ Known(c, k) /\ call \in [Callers -> Calls]
      /\ at \in Objects /\ made \in Nat /\ at.id \in {0, made} /\ (at.id = 0 <=> at.kind = "none")
      /\ m = call'[c] /\ LockOK
  BY DEF IInv, TypeOK, KnownInv, LockOK
<1>a1. Take(c, "real")
      => Alone(c) /\ m.pc = "done" /\ m.ret = "ok" /\ m.inside = FALSE
         /\ m.took = [id |-> at.id, ver |-> at.ver, how |-> "real"]
         /\ Kept(k, m, {"ret", "inside", "took"})
  BY <1>1, TakeMoves
<1>a2. ASSUME NEW r \in Errors, Return(c, r)
      PROVE  Alone(c) /\ m.pc = "done" /\ m.ret \in Errors /\ m.inside = FALSE
             /\ Kept(k, m, {"ret", "inside"})
  BY <1>1, <1>a2, ReturnMoves
<1>f. \A removedir : Unfit(at, removedir) = "ok" => at.kind # "none"
  BY DEF Unfit
<1>a. /\ k.pc = "real"
      /\ \/ /\ at.kind # "none" /\ at' = Nothing /\ Take(c, "real")
         \/ /\ at' = at /\ (\E r \in Errors : Return(c, r))
  BY <1>1, <1>f, Fit DEF Real, Take
<1>2. /\ k.pc = "real" /\ Alone(c)
      /\ \/ /\ at.kind # "none" /\ m.pc = "done" /\ m.ret = "ok" /\ m.inside = FALSE
            /\ m.took = [id |-> at.id, ver |-> at.ver, how |-> "real"]
            /\ Kept(k, m, {"ret", "inside", "took"}) /\ at' = Nothing
         \/ /\ m.pc = "done" /\ m.ret \in Errors /\ m.inside = FALSE
            /\ Kept(k, m, {"ret", "inside"}) /\ at' = at
  BY <1>a, <1>a1, <1>a2
<1>3. UNCHANGED <<setting, made, alien, files, info, lock>>
  BY DEF Real, Outside, Trash
<1>l. LockOK'
  <2>1. \/ lock' = lock /\ (k.pc \in Locked <=> m.pc \in Locked)
        \/ Release(c) /\ m.pc \notin Locked
        \/ lock = None /\ lock' = c /\ m.pc \in Locked
    <3> HIDE DEF k, m
    <3> QED
      BY <1>2, <1>3 DEF Locked
  <2> QED
    BY <1>1, <1>2, <2>1, LockKept
<1> HIDE DEF k, m
<1>w. Within(c, 0)
  BY <1>3 DEF Within
<1>4. CallOK(call[c])'
  BY <1>1, <1>2, <1>3 DEF Known, CallOK, Kept, Before, Locked, Steps, Errors
<1>5. TraceOK(c, call[c])'
  BY <1>1, <1>2, <1>3 DEF Known, TraceOK, CallOK, Kept, Before, Unfilled, Locked
<1>6. EntryOK(c, call[c])'
  BY <1>1, <1>2, <1>3 DEF Known, EntryOK, CallOK, Kept, Described, Locked
<1>7. SourceOK(call[c])'
  BY <1>1, <1>2, <1>3 DEF Known, SourceOK, CallOK, Kept, Before, Locked, Seen, Unchanged,
       Copying, Objects, Nothing, Object
<1>8. CopyOK(call[c])'
  BY <1>1, <1>2, <1>3 DEF Known, CopyOK, EntryOK, SourceOK, CallOK, Kept, Seen, Unchanged,
       Copying, Objects, Nothing, Object
<1> QED
  BY <1>1, <1>2, <1>3, <1>w, <1>4, <1>5, <1>6, <1>7, <1>8, <1>l, Neighbours DEF Known, IInv

-----------------------------------------------------------------------------
(* What the others do.                                                     *)

\* A change at the path comes after the last check, or before a look that finds it.
LEMMA ChangeKnown ==
  ASSUME IInv, Change, call' \in [Callers -> Calls]
  PROVE  KnownInv'
<1>1. UNCHANGED <<setting, files, info, alien>> /\ made \in Nat /\ at \in Objects
      /\ at.id \in {0, made}
  BY DEF Change, IInv, TypeOK
<1>2. \/ made' = made + 1 /\ at'.id = made + 1
      \/ made' = made /\ at'.id = 0
      \/ made' = made /\ at'.id = at.id /\ at'.ver \in Nat /\ at'.ver >= at.ver
  <2>1. CASE made' = made + 1 /\ \E kind \in Kinds : at' = Object(made + 1, kind, FALSE)
    BY <2>1 DEF Object
  <2>2. CASE at' = Nothing /\ UNCHANGED made
    BY <2>2 DEF Nothing, Object
  <2>3. CASE at' = [at EXCEPT !.ver = @ + 1] /\ UNCHANGED made
    BY <1>1, <2>3 DEF Objects
  <2>4. CASE at' = [at EXCEPT !.full = TRUE] /\ UNCHANGED made
    BY <1>1, <2>4 DEF Objects
  <2> QED
    BY <2>1, <2>2, <2>3, <2>4 DEF Change
<1>s. \A i, v \in Nat : Seen(i, v) => Seen(i, v)'
  <2>1. at.ver \in Nat
    BY <1>1 DEF Objects
  <2> QED
    BY <1>1, <1>2, <2>1 DEF Seen
<1> SUFFICES ASSUME NEW c \in Callers PROVE Known(c, call[c])'
  BY DEF KnownInv
<1> DEFINE k == call[c]
           m == call'[c]
<1>3. Known(c, k) /\ k \in Calls /\ m \in Calls /\ m = call'[c]
  BY DEF IInv, TypeOK, KnownInv
<1>4. m.pc = k.pc /\ m.late = (k.late \/ k.pc \in Checked) /\ Kept(k, m, {"late"})
  <2>1. m = [k EXCEPT !.late = k.late \/ k.pc \in Checked]
    BY DEF Change, Noted
  <2> HIDE DEF k, m
  <2> QED
    BY <1>3, <2>1 DEF Calls, Kept
<1> HIDE DEF k, m
<1>5. CallOK(call[c])'
  BY <1>1, <1>3, <1>4 DEF Known, CallOK, Kept
<1>6. TraceOK(c, call[c])'
  BY <1>1, <1>3, <1>4 DEF Known, TraceOK, Kept
<1>7. EntryOK(c, call[c])'
  BY <1>1, <1>3, <1>4 DEF Known, EntryOK, Kept
<1>8. SourceOK(call[c])'
  <2>1. Seen(k.src.id, k.src.ver) /\ k.src.id \in Nat /\ k.src.ver \in Nat
    BY <1>3 DEF Known, SourceOK, Calls, Objects
  <2>2. \A i, v : m.src.id = i /\ m.src.ver = v /\ Seen(i, v)'
        => Seen(call[c].src.id, call[c].src.ver)'
    BY <1>3 DEF Seen
  <2>3. Seen(call[c].src.id, call[c].src.ver)'
    BY <1>s, <1>4, <2>1, <2>2 DEF Kept
  <2> QED
    BY <1>3, <1>4, <2>3 DEF Known, SourceOK, Kept, Checked
<1>9. CopyOK(call[c])'
  <2>1. CASE k.pc = "retire" /\ k.slot \notin alien
    <3>1. Seen(files[k.slot].id, files[k.slot].ver) /\ k.slot \in Names
      BY <1>3, <2>1 DEF Known, CopyOK, CallOK, Locked
    <3>2. files[k.slot].id \in Nat /\ files[k.slot].ver \in Nat
      BY <3>1 DEF IInv, TypeOK
    <3>3. m.slot = k.slot /\ m.src = k.src
      BY <1>4 DEF Kept
    <3>4. \A i, v : files[k.slot].id = i /\ files[k.slot].ver = v /\ Seen(i, v)' =>
                      Seen(files[call[c].slot].id, files[call[c].slot].ver)'
      BY <1>1, <1>3, <3>3 DEF Seen
    <3>5. Seen(files[call[c].slot].id, files[call[c].slot].ver)'
      BY <1>s, <3>1, <3>2, <3>4
    <3> QED
      BY <1>1, <1>3, <1>4, <2>1, <3>3, <3>5 DEF Known, CopyOK
  <2>2. CASE k.pc # "retire" \/ k.slot \in alien
    BY <1>1, <1>3, <1>4, <2>2 DEF Known, CopyOK, Kept
  <2> QED
    BY <2>1, <2>2
<1> QED
  BY <1>5, <1>6, <1>7, <1>8, <1>9 DEF Known

\* A foreign tool touches only names that are alien from then on.
LEMMA ForeignKnown ==
  ASSUME IInv, Foreign
  PROVE  KnownInv'
<1>1. /\ UNCHANGED <<setting, at, made, call>>
      /\ info \in [Names -> [by : Callers \cup {None}, whole : BOOLEAN]]
      /\ files \in [Names -> [by : Callers \cup {None, Tool}, id : Nat, ver : Nat]]
  BY DEF Foreign, IInv, TypeOK
<1> PICK n \in Names :
      /\ alien' = alien \cup {n}
      /\ \/ files' = [files EXCEPT ![n] = [by |-> Tool, id |-> 0, ver |-> 0]] /\ UNCHANGED info
         \/ files' = [files EXCEPT ![n] = Free] /\ info' = [info EXCEPT ![n] = NoInfo]
         \/ info' = [info EXCEPT ![n] = NoInfo] /\ UNCHANGED files
  BY DEF Foreign
<1>2. /\ \A x \in Names \ {n} : info'[x] = info[x] /\ files'[x] = files[x]
      /\ info'[n].by \in {info[n].by, None} /\ files'[n].by \in {files[n].by, Tool, None}
  BY <1>1 DEF Free, NoInfo
<1> SUFFICES ASSUME NEW c \in Callers PROVE Known(c, call[c])'
  BY DEF KnownInv
<1> DEFINE k == call[c]
<1>3. Known(c, k) /\ k \in Calls /\ call'[c] = k /\ c # None /\ c # Tool
  BY <1>1, PreloadConstants DEF IInv, TypeOK, KnownInv
<1> HIDE DEF k
<1>4. k.slot \in Names /\ k.slot \notin alien' =>
        k.slot \notin alien /\ info'[k.slot] = info[k.slot] /\ files'[k.slot] = files[k.slot]
  BY <1>2
<1>5. CallOK(call[c])'
  BY <1>1, <1>3 DEF Known, CallOK
<1>6. TraceOK(c, call[c])'
  BY <1>1, <1>2, <1>3 DEF Known, TraceOK
<1>7. EntryOK(c, call[c])'
  BY <1>1, <1>3, <1>4 DEF Known, EntryOK, CallOK, Described, Locked
<1>8. SourceOK(call[c])'
  BY <1>1, <1>3 DEF Known, SourceOK, Seen, Unchanged
<1>9. CopyOK(call[c])'
  BY <1>1, <1>3, <1>4 DEF Known, CopyOK, CallOK, Locked, Seen
<1> QED
  BY <1>5, <1>6, <1>7, <1>8, <1>9 DEF Known

-----------------------------------------------------------------------------
(* Types.                                                                  *)

InfoType == [Names -> [by : Callers \cup {None}, whole : BOOLEAN]]
FilesType == [Names -> [by : Callers \cup {None, Tool}, id : Nat, ver : Nat]]

\* The path, the counters and the trash stay of their types.
LEMMA TrashTypes ==
  ASSUME IInv, [Next]_vars
  PROVE  info' \in InfoType /\ files' \in FilesType
<1>1. /\ info \in InfoType /\ files \in FilesType /\ at \in Objects
      /\ call \in [Callers -> Calls]
  BY DEF IInv, TypeOK, InfoType, FilesType
<1>2. \A n : \A c \in Callers : [info EXCEPT ![n] = [by |-> c, whole |-> FALSE]] \in InfoType
  BY <1>1 DEF InfoType
<1>3. \A n : [info EXCEPT ![n] = NoInfo] \in InfoType
      /\ [info EXCEPT ![n].whole = TRUE] \in InfoType
  BY <1>1 DEF InfoType, NoInfo
<1>4. \A n : \A b \in Callers \cup {None, Tool}, i, v \in Nat :
        [files EXCEPT ![n] = [by |-> b, id |-> i, ver |-> v]] \in FilesType
  BY <1>1 DEF FilesType
<1>5. \A n : /\ [files EXCEPT ![n] = Free] \in FilesType
             /\ [files EXCEPT ![n] = [by |-> Tool, id |-> 0, ver |-> 0]] \in FilesType
  BY <1>1 DEF FilesType, Free
<1>6. \A n : \A i, v \in Nat : [files EXCEPT ![n].id = i, ![n].ver = v] \in FilesType
  BY <1>1 DEF FilesType
<1>7. at.id \in Nat /\ at.ver \in Nat /\ \A c \in Callers : call[c].src.id \in Nat
      /\ call[c].src.ver \in Nat
  BY <1>1 DEF Objects, Calls
<1> HIDE DEF InfoType, FilesType
<1>8. ASSUME NEW c \in Callers, Own(c) PROVE info' \in InfoType /\ files' \in FilesType
  <2>1. CASE Enter(c) \/ Defer(c) \/ Resolve(c) \/ Stat(c) \/ Peek(c) \/ Limits(c) \/ Lock(c)
          \/ Recheck(c)
    BY <1>1, <2>1 DEF Enter, Defer, Resolve, Stat, Peek, Limits, Lock, Recheck, Trash
  <2>2. CASE Restat(c) \/ Compare(c) \/ Retire(c) \/ Unlink(c) \/ Real(c)
    BY <1>1, <2>2 DEF Restat, Compare, Retire, Unlink, Real, Trash
  <2>3. CASE Claim(c)
    <3>1. \/ info' = info
          \/ info' = [info EXCEPT ![call[c].try] = [by |-> c, whole |-> FALSE]]
      BY <2>3 DEF Claim, Outside
    <3>2. files' = files
      BY <2>3 DEF Claim
    <3>3. [info EXCEPT ![call[c].try] = [by |-> c, whole |-> FALSE]] \in InfoType
      BY <1>2
    <3>4. info' \in InfoType
      BY <1>1, <3>1, <3>3
    <3> QED
      BY <1>1, <3>2, <3>4
  <2>4. CASE Vacant(c) \/ Drop(c)
    BY <1>1, <1>3, <2>4 DEF Vacant, Drop, DropInfo
  <2>5. CASE Write(c)
    BY <1>1, <1>3, <2>5 DEF Write
  <2>6. CASE Rename(c) \/ CopyLink(c) \/ Open(c)
    <3>1. \/ files' = files
          \/ files' = [files EXCEPT ![call[c].slot] = [by |-> c, id |-> at.id, ver |-> at.ver]]
          \/ files' = [files EXCEPT ![call[c].slot] = [by |-> c, id |-> 0, ver |-> 0]]
      BY <2>6 DEF Rename, CopyLink, Open
    <3>2. info' = info
      BY <2>6 DEF Rename, CopyLink, Open
    <3> QED
      BY <1>1, <1>4, <1>7, <3>1, <3>2
  <2>7. CASE Read(c)
    <3>1. \/ files' = files
          \/ files' = [files EXCEPT ![call[c].slot].id = call[c].src.id,
                                    ![call[c].slot].ver = call[c].src.ver]
      BY <2>7 DEF Read
    <3>2. info' = info
      BY <2>7 DEF Read
    <3> QED
      BY <1>1, <1>6, <1>7, <3>1, <3>2
  <2>8. CASE Uncopy(c)
    <3>1. files' \in {files, [files EXCEPT ![call[c].slot] = Free]} /\ info' = info
      BY <2>8 DEF Uncopy
    <3> QED
      BY <1>1, <1>5, <3>1
  <2> QED
    BY <1>8, <2>1, <2>2, <2>3, <2>4, <2>5, <2>6, <2>7, <2>8 DEF Own
<1>9. CASE Foreign
  <2>1. PICK n \in Names :
        /\ info' \in {info, [info EXCEPT ![n] = NoInfo]}
        /\ files' \in {files, [files EXCEPT ![n] = Free],
                       [files EXCEPT ![n] = [by |-> Tool, id |-> 0, ver |-> 0]]}
    BY <1>9 DEF Foreign
  <2>2. [info EXCEPT ![n] = NoInfo] \in InfoType
    BY <1>3
  <2>3. /\ [files EXCEPT ![n] = Free] \in FilesType
        /\ [files EXCEPT ![n] = [by |-> Tool, id |-> 0, ver |-> 0]] \in FilesType
    BY <1>5
  <2>4. info' \in InfoType
    BY <1>1, <2>1, <2>2, Zenon
  <2>5. files' \in FilesType
    BY <1>1, <2>1, <2>3, Zenon
  <2> QED
    BY <2>4, <2>5
<1> QED
  BY <1>1, <1>8, <1>9 DEF Next, Crash, Change, vars

Counted ==
  /\ setting \in Settings
  /\ at \in Objects /\ at.id \in {0, made} /\ (at.id = 0 <=> at.kind = "none")
  /\ made \in Nat \ {0} /\ changes \in Nat /\ foreign \in Nat /\ faults \in Nat /\ crashes \in Nat
  /\ made <= changes + 1 /\ changes <= setting.most.changes /\ foreign <= setting.most.foreign
  /\ faults <= setting.most.faults /\ crashes <= setting.most.crashes /\ alien \subseteq Names

\* The path and the counters stay within their bounds.
LEMMA CountedTypes ==
  ASSUME IInv, [Next]_vars
  PROVE  Counted'
<1>1. Counted
  BY DEF IInv, TypeOK, Counted
<1>2. /\ Nothing \in Objects /\ Nothing.id = 0 /\ Nothing.kind = "none"
      /\ \A m \in Nat, kind \in Kinds :
           /\ Object(m + 1, kind, FALSE) \in Objects
           /\ Object(m + 1, kind, FALSE).id = m + 1 /\ Object(m + 1, kind, FALSE).kind = kind
  BY DEF Nothing, Object, Objects
<1>3. setting.most \in Bounds
  BY <1>1, PreloadConstants DEF Counted
<1>4. ASSUME NEW c \in Callers, Own(c) PROVE Counted'
  <2>1. /\ UNCHANGED Outside /\ at' \in {at, Nothing}
        /\ faults' = faults \/ (faults < setting.most.faults /\ faults' = faults + 1)
    <3>1. CASE Enter(c) \/ Defer(c) \/ Resolve(c) \/ Stat(c) \/ Peek(c) \/ Limits(c) \/ Lock(c)
            \/ Recheck(c)
      BY <3>1 DEF Enter, Defer, Resolve, Stat, Peek, Limits, Lock, Recheck, Take
    <3>2. CASE Restat(c) \/ Compare(c) \/ Retire(c) \/ Unlink(c) \/ Real(c)
      BY <3>2 DEF Restat, Compare, Retire, Unlink, Real, Take
    <3>3. CASE Claim(c) \/ Vacant(c) \/ Write(c) \/ Drop(c)
      BY <3>3 DEF Claim, Vacant, Write, Drop
    <3>4. CASE Rename(c) \/ CopyLink(c) \/ Open(c) \/ Read(c) \/ Uncopy(c)
      BY <3>4 DEF Rename, CopyLink, Open, Read, Uncopy, Take
    <3> QED
      BY <1>4, <3>1, <3>2, <3>3, <3>4 DEF Own
  <2> QED
    BY <1>1, <1>2, <1>3, <2>1 DEF Counted, Outside, Bounds
<1>5. ASSUME NEW c \in Callers, Crash(c) PROVE Counted'
  BY <1>1, <1>3, <1>5 DEF Crash, Counted, Bounds
<1>6. CASE Change
  <2>1. at' \in Objects /\ at'.id \in {0, made'} /\ (at'.id = 0 <=> at'.kind = "none")
        /\ made' \in {made, made + 1}
    <3>1. CASE made' = made + 1 /\ \E kind \in Kinds : at' = Object(made + 1, kind, FALSE)
      <4>0. PICK kind \in Kinds : at' = Object(made + 1, kind, FALSE)
        BY <3>1
      <4>1. made \in Nat /\ kind # "none"
        BY <1>1 DEF Counted, Kinds
      <4> DEFINE new == Object(made + 1, kind, FALSE)
      <4>2. new \in Objects /\ new.id = made + 1 /\ new.kind # "none"
        BY <1>2, <4>1
      <4> HIDE DEF new
      <4>3. at' = new
        BY <4>0 DEF new
      <4>4. made' = made + 1
        BY <3>1
      <4> QED
        BY <4>1, <4>2, <4>3, <4>4
    <3>2. CASE at' = Nothing /\ UNCHANGED made
      BY <1>2, <3>2
    <3>3. CASE at' = [at EXCEPT !.ver = @ + 1] /\ UNCHANGED made
      BY <1>1, <3>3 DEF Counted, Objects
    <3>4. CASE at' = [at EXCEPT !.full = TRUE] /\ UNCHANGED made
      BY <1>1, <3>4 DEF Counted, Objects
    <3> QED
      BY <1>6, <3>1, <3>2, <3>3, <3>4 DEF Change
  <2>2. made' \in Nat \ {0} /\ changes' \in Nat /\ made' <= changes' + 1
        /\ changes' <= setting.most.changes
    BY <1>1, <1>3, <1>6, <2>1 DEF Change, Counted, Bounds
  <2> QED
    BY <1>1, <1>6, <2>1, <2>2 DEF Change, Counted
<1>7. CASE Foreign
  <2>1. foreign' \in Nat /\ foreign' <= setting.most.foreign /\ alien' \subseteq Names
    BY <1>1, <1>3, <1>7 DEF Foreign, Counted, Bounds
  <2> QED
    BY <1>1, <1>7, <2>1 DEF Foreign, Counted
<1>8. CASE UNCHANGED vars
  BY <1>1, <1>8 DEF vars, Counted
<1> QED
  BY <1>4, <1>5, <1>6, <1>7, <1>8 DEF Next

-----------------------------------------------------------------------------
(* The theorems.                                                           *)

\* The invariant holds at first.
LEMMA Initially == Init => IInv
<1> SUFFICES ASSUME Init PROVE IInv
  OBVIOUS
<1> USE PreloadConstants
<1>1. Nothing \in Objects /\ Nothing.id = 0 /\ Nothing.kind = "none" /\ Nothing.ver = 0
  BY DEF Nothing, Object, Objects
<1>2. \A kind \in Kinds, big \in BOOLEAN :
        /\ Object(1, kind, big) \in Objects /\ Object(1, kind, big).id = 1
        /\ Object(1, kind, big).kind = kind /\ kind # "none"
  BY DEF Object, Objects, Kinds
<1>3. /\ setting \in Settings /\ at = setting.first /\ setting.most \in Bounds
      /\ at = Nothing \/ \E kind \in Kinds, big \in BOOLEAN : at = Object(1, kind, big)
  BY DEF Init
<1>4. at \in Objects /\ at.id \in {0, 1} /\ (at.id = 0 <=> at.kind = "none")
  BY <1>1, <1>2, <1>3
<1>5. Counted
  BY <1>3, <1>4 DEF Init, Counted, Bounds
<1>6. Idle \in Calls
  <2>1. /\ 1 \in 1 .. MaxNames + 1 /\ 0 \in 0 .. MaxAttempts /\ 0 \in 0 .. MaxNames
        /\ "idle" \in Steps /\ [id |-> 0, ver |-> 0, how |-> "not"] \in Tooks
    BY DEF Steps, Tooks
  <2> QED
    BY <1>1, <2>1 DEF Idle, Calls, Tooks
<1>7. call \in [Callers -> Calls] /\ \A c \in Callers : call[c] = Idle
  BY <1>6 DEF Init
<1>8. /\ info \in InfoType /\ files \in FilesType
      /\ \A n \in Names : info[n].by = None /\ files[n].by = None
  BY DEF Init, InfoType, FilesType, NoInfo, Free
<1>9. Idle.pc = "idle" /\ "idle" \notin Locked
  BY DEF Idle, Locked
<1>10. LockOK
  BY <1>7, <1>9 DEF Init, LockOK
<1>11. TypeOK
  BY <1>5, <1>7, <1>8, <1>10 DEF TypeOK, Counted, LockOK, InfoType, FilesType
<1>12. ASSUME NEW c \in Callers PROVE Known(c, Idle)
  <2>1. /\ Idle.pc = "idle" /\ Idle.took.how = "not" /\ Idle.attempts = 0 /\ ~Idle.copying
        /\ ~Idle.passed /\ Idle.src = Nothing
    BY DEF Idle
  <2>2. CallOK(Idle)
    BY <2>1 DEF CallOK, Locked
  <2>3. TraceOK(c, Idle) /\ EntryOK(c, Idle)
    BY <1>8, <2>1 DEF TraceOK, EntryOK, Locked, Described
  <2>4. SourceOK(Idle) /\ CopyOK(Idle)
    BY <1>1, <1>5, <2>1 DEF SourceOK, CopyOK, Seen, Counted, Copying
  <2> QED
    BY <2>2, <2>3, <2>4 DEF Known
<1> QED
  BY <1>7, <1>11, <1>12 DEF IInv, KnownInv

\* Every step keeps the types and what every call knows.
THEOREM Inductive == IInv /\ [Next]_vars => IInv'
<1> SUFFICES ASSUME IInv, [Next]_vars PROVE IInv'
  OBVIOUS
<1>1. call' \in [Callers -> Calls]
  BY CallTypes DEF IInv
<1>2. LockOK
  BY DEF IInv, TypeOK, LockOK
<1>3. ASSUME NEW c \in Callers, Own(c) PROVE KnownInv' /\ LockOK'
  BY <1>1, <1>3, EnterKnown, DeferKnown, ResolveKnown, StatKnown, PeekKnown, LimitsKnown,
     LockKnown, ClaimKnown, VacantKnown, WriteKnown, DropKnown, RecheckKnown, RenameKnown,
     RestatKnown, CopyLinkKnown, OpenKnown, ReadKnown, UncopyKnown, CompareKnown, RetireKnown,
     UnlinkKnown, RealKnown DEF Own
<1>4. ASSUME NEW c \in Callers, Crash(c) PROVE KnownInv' /\ LockOK'
  BY <1>1, <1>4, CrashKnown
<1>5. ASSUME Change PROVE KnownInv' /\ LockOK'
  <2>1. \A c \in Callers : call'[c].pc = call[c].pc
    <3> SUFFICES ASSUME NEW c \in Callers PROVE call'[c].pc = call[c].pc
      OBVIOUS
    <3> DEFINE k == call[c]
               m == call'[c]
    <3>1. k \in Calls /\ m = [k EXCEPT !.late = k.late \/ k.pc \in Checked]
      BY <1>5 DEF Change, Noted, IInv, TypeOK
    <3> HIDE DEF k, m
    <3>2. m.pc = k.pc
      BY <3>1 DEF Calls
    <3> QED
      BY <3>2 DEF k, m
  <2>2. lock' = lock
    BY <1>5 DEF Change
  <2>3. LockOK'
    BY <1>2, <2>1, <2>2 DEF LockOK
  <2> QED
    BY <1>1, <1>5, <2>3, ChangeKnown
<1>6. ASSUME Foreign PROVE KnownInv' /\ LockOK'
  <2>1. LockOK'
    BY <1>2, <1>6 DEF Foreign, LockOK
  <2> QED
    BY <1>6, <2>1, ForeignKnown
<1>7. ASSUME UNCHANGED vars PROVE KnownInv' /\ LockOK'
  <2>1. LockOK'
    BY <1>2, <1>7 DEF vars, LockOK
  <2>2. KnownInv'
    <3> UNCHANGED <<setting, at, made, files, info, alien, call>>
      BY <1>7 DEF vars
    <3> SUFFICES ASSUME NEW c \in Callers PROVE Known(c, call[c])'
      BY DEF KnownInv
    <3>1. Known(c, call[c])
      BY DEF IInv, KnownInv
    <3>2. CallOK(call[c])' /\ TraceOK(c, call[c])'
      BY <3>1 DEF Known, CallOK, TraceOK
    <3>3. EntryOK(c, call[c])' /\ SourceOK(call[c])' /\ CopyOK(call[c])'
      BY <3>1 DEF Known, EntryOK, SourceOK, CopyOK, Seen, Unchanged
    <3> QED
      BY <3>2, <3>3 DEF Known
  <2> QED
    BY <2>1, <2>2
<1>8. KnownInv' /\ LockOK'
  BY <1>3, <1>4, <1>5, <1>6, <1>7 DEF Next
<1>9. Counted' /\ info' \in InfoType /\ files' \in FilesType
  BY CountedTypes, TrashTypes
<1> QED
  BY <1>1, <1>8, <1>9 DEF IInv, TypeOK, LockOK, Counted, InfoType, FilesType

\* Always: the types of the code's data, at most MAX_CLAIM_ATTEMPTS names lost to others, and the
\* lock of the root held exactly between its acquisition and the return of try_trash.
THEOREM Typing == Spec => []TypeOK
<1>1. IInv => TypeOK
  BY DEF IInv
<1> QED
  BY Initially, Inductive, <1>1, PTL DEF Spec

\* try_trash and the hooks tell the caller the truth: success means that the object left the path,
\* and a failed call has left neither a copy nor information in the trash (#205).
THEOREM Honest == Spec => []HonestResult
<1>1. IInv => HonestResult
  BY DEF IInv, KnownInv, Known, CallOK, TraceOK, HonestResult, Done
<1> QED
  BY Initially, Inductive, <1>1, PTL DEF Spec

\* What a successful call put in the trash is the version it took off the path, with its whole
\* information: a recoverable entry.
THEOREM Complete == Spec => []CompleteEntry
<1>1. IInv => CompleteEntry
  BY DEF IInv, KnownInv, Known, EntryOK, CopyOK, CompleteEntry, Done
<1> QED
  BY Initially, Inductive, <1>1, PTL DEF Spec

\* Only what the eligibility stat saw goes to the trash; once a copy has begun, a source that
\* changed before the last check is not deleted for real, except what replaces a link before the
\* link's copy is made, which the code does delete; and an unsafe or broken store takes nothing.
THEOREM OnlyChosen == Spec => []NothingElseGoes
<1>1. ASSUME IInv, NEW c \in Callers
      PROVE  Known(c, call[c]) /\ call[c] \in Calls
  BY <1>1 DEF IInv, TypeOK, KnownInv
<1>2. IInv => ChosenOnly
  BY <1>1 DEF ChosenOnly, Known, CallOK, SourceOK
<1>3. IInv => ReplacedKept
  BY <1>1 DEF ReplacedKept, LinkLost, Known, CallOK, SourceOK
<1>4. IInv => FailsClosed
  BY <1>1 DEF FailsClosed, Known, CallOK
<1>5. IInv => NothingElseGoes
  BY <1>2, <1>3, <1>4 DEF NothingElseGoes
<1> QED
  BY Initially, Inductive, <1>5, PTL DEF Spec
-----------------------------------------------------------------------------
(* Which rm the shim passes through to, for any number of invocations,       *)
(* candidates, installations and failed probes.                              *)

CONSTANTS
  Invocations, Candidates, Default, Programs, MaxLines, MaxReinstalls, MaxFaults, NoRm
VARIABLES
  bin, installs, verdicts, rmPc, spot, known, ident, copied, chosen, execd, probeFaults, touched

Rm == INSTANCE RealRm WITH
  Procs <- Invocations, Kinds <- Programs, pc <- rmPc, at <- spot, id <- ident, copy <- copied, faults <- probeFaults

RmSteps == {"start", "next", "probe", "remember", "guard", "guardProbe", "guardRemember",
            "exec", "done", "refused"}
Identities == 0 .. Len(Candidates) + MaxReinstalls
\* A line says nothing false of the binaries b, the last of which was the n-th installed, and
\* never will: an identity does not come back.
TrueLine(l, b, n) ==
  l.id <= n /\ (b[l.path] # NoRm /\ b[l.path].id = l.id => (l.shim <=> Rm!IsShim(b[l.path].what)))
TrueFile(s, b, n) ==
  /\ s \in Seq(Rm!Lines) /\ Len(s) <= MaxLines
  /\ \A i, j \in DOMAIN s : s[i].path = s[j].path => i = j
  /\ \A i \in DOMAIN s : TrueLine(s[i], b, n)
Genuine(path) == bin[path] # NoRm /\ ~Rm!IsShim(bin[path].what)

RealTyped ==
  /\ bin \in [Rm!Paths -> [what : Programs \ {"none"}, id : Nat] \cup {NoRm}]
  /\ installs \in Identities
  /\ \A path \in Rm!Paths : bin[path] # NoRm => bin[path].id <= installs
  /\ rmPc \in [Invocations -> RmSteps] /\ spot \in [Invocations -> DOMAIN Candidates]
  /\ ident \in [Invocations -> Identities] /\ \A p \in Invocations : ident[p] <= installs
  /\ chosen \in [Invocations -> Rm!Paths] /\ touched \in [Invocations -> BOOLEAN]
  /\ DOMAIN known = Invocations /\ DOMAIN copied = Invocations /\ DOMAIN execd = Invocations
  /\ \A p \in Invocations : DOMAIN known[p] \subseteq Rm!Paths
  /\ \A p \in Invocations : known[p] \in [DOMAIN known[p] -> BOOLEAN]
\* The file, and each copy about to be rewritten.
VerdictFiles ==
  /\ TrueFile(verdicts, bin, installs)
  /\ \A p \in Invocations : TrueFile(copied[p], bin, installs)
\* The line about to be written.
NewLine(p) == [path |-> Rm!Path(p), id |-> ident[p], shim |-> known[p][Rm!Path(p)]]
LineInHand(p) == rmPc[p] \in {"remember", "guardRemember"} =>
  Rm!Path(p) \in DOMAIN known[p] /\ TrueLine(NewLine(p), bin, installs)
AtStart(p) ==
  /\ rmPc[p] = "start" => spot[p] = 1 /\ DOMAIN known[p] = {} /\ execd[p] = "none" /\ ~touched[p]
  /\ rmPc[p] \in {"guard", "guardProbe", "guardRemember"} => chosen[p] = Default
\* the candidates still to be judged
AheadOf(p) ==
  IF rmPc[p] \in {"start", "next", "probe", "remember"} THEN {i \in DOMAIN Candidates : i >= spot[p]} ELSE {}
\* What an invocation has found is true as long as nothing was installed or failed under it, and
\* each genuine rm outside the stash is still ahead of it.
FoundTrue(p) ==
  /\ \A path \in DOMAIN known[p] : known[p][path] <=> ~Genuine(path)
  /\ rmPc[p] = "exec" => Genuine(chosen[p])
  /\ execd[p] # "shim"
  /\ rmPc[p] \notin {"exec", "done"} =>
       \A i \in DOMAIN Candidates :
         ~Candidates[i].stash /\ Genuine(Candidates[i].path) => i \in AheadOf(p)
OneRight(p) == LineInHand(p) /\ AtStart(p) /\ (~touched[p] => FoundTrue(p))
RealInv == RealTyped /\ VerdictFiles /\ \A p \in Invocations : OneRight(p)

-----------------------------------------------------------------------------
(* The constants, and the file of verdicts.                                  *)

LEMMA CandidateFacts ==
  ASSUME Rm!RealAssumption
  PROVE  /\ Len(Candidates) \in Nat \ {0} /\ DOMAIN Candidates = 1 .. Len(Candidates)
         /\ \A i \in DOMAIN Candidates : Candidates[i].path \in Rm!Paths /\ Candidates[i].stash \in BOOLEAN
         /\ Default \in Rm!Paths
         /\ \A path \in Rm!Paths : \E i \in DOMAIN Candidates : Candidates[i].path = path
         /\ MaxLines \in Nat \ {0} /\ MaxReinstalls \in Nat
<1>1. /\ Len(Candidates) \in Nat /\ DOMAIN Candidates = 1 .. Len(Candidates)
      /\ \E i \in DOMAIN Candidates : Candidates[i].path = Default
      /\ MaxLines \in Nat \ {0} /\ MaxReinstalls \in Nat
      /\ \A i \in DOMAIN Candidates : Candidates[i] \in [path : {Candidates[j].path : j \in DOMAIN Candidates}, stash : BOOLEAN]
  <2> DEFINE R == [path : {Candidates[j].path : j \in DOMAIN Candidates}, stash : BOOLEAN]
  <2>1. /\ Candidates \in Seq(R) /\ \E i \in DOMAIN Candidates : Candidates[i].path = Default
        /\ MaxLines \in Nat \ {0} /\ MaxReinstalls \in Nat
    BY DEF Rm!RealAssumption
  <2> HIDE DEF R
  <2>2. Len(Candidates) \in Nat /\ DOMAIN Candidates = 1 .. Len(Candidates) /\ \A i \in DOMAIN Candidates : Candidates[i] \in R
    BY <2>1
  <2> QED
    BY <2>1, <2>2 DEF R
<1>2. Len(Candidates) # 0
  BY <1>1
<1> QED
  BY <1>1, <1>2 DEF Rm!Paths

\* A set of numbers has a smallest one.
LEMMA Smallest ==
  ASSUME NEW S \in SUBSET Nat, S # {}
  PROVE  \E x \in S : \A y \in S : x <= y
<1> DEFINE R == OpToRel(<, Nat)
<1>1. PICK x \in S : \A y \in S : ~(<<y, x>> \in R)
  <2> HIDE DEF R
  <2>1. IsWellFoundedOn(R, Nat)
    BY NatLessThanWellFounded DEF R
  <2> QED
    BY <2>1, WFMin
<1>2. \A y \in S : ~(y < x)
  BY <1>1 DEF OpToRel
<1> QED
  BY <1>2

\* A sequence without one of its members.
LEMMA WithoutOne ==
  ASSUME NEW A, NEW s \in Seq(A), NEW i \in DOMAIN s
  PROVE  LET t == SubSeq(s, 1, i - 1) \o SubSeq(s, i + 1, Len(s)) IN
         /\ t \in Seq(A) /\ Len(t) = Len(s) - 1
         /\ \A k \in 1 .. Len(s) - 1 : t[k] = s[IF k < i THEN k ELSE k + 1]
<1> DEFINE u == SubSeq(s, 1, i - 1)
           v == SubSeq(s, i + 1, Len(s))
<1>1. Len(s) \in Nat /\ DOMAIN s = 1 .. Len(s) /\ i \in 1 .. Len(s)
  OBVIOUS
<1>2. u \in Seq(A) /\ Len(u) = i - 1 /\ \A k \in 1 .. i - 1 : u[k] = s[k]
  BY <1>1, SMTT(30)
<1>3. v \in Seq(A) /\ Len(v) = Len(s) - i /\ \A k \in 1 .. Len(s) - i : v[k] = s[i + k]
  BY <1>1, SMTT(30)
<1> HIDE DEF u, v
<1>4. /\ u \o v \in Seq(A) /\ Len(u \o v) = Len(u) + Len(v)
      /\ \A k \in 1 .. Len(u) + Len(v) : (u \o v)[k] = IF k <= Len(u) THEN u[k] ELSE v[k - Len(u)]
  BY <1>2, <1>3, ConcatProperties
<1>5. u \o v \in Seq(A) /\ Len(u \o v) = Len(s) - 1
  BY <1>1, <1>2, <1>3, <1>4
<1>6. \A k \in 1 .. Len(s) - 1 : (u \o v)[k] = IF k < i THEN u[k] ELSE v[k - (i - 1)]
  BY <1>1, <1>2, <1>3, <1>4, SMTT(40)
<1>7. \A k \in 1 .. Len(s) - 1 : (u \o v)[k] = s[IF k < i THEN k ELSE k + 1]
  <2> SUFFICES ASSUME NEW k \in 1 .. Len(s) - 1 PROVE (u \o v)[k] = s[IF k < i THEN k ELSE k + 1]
    OBVIOUS
  <2>1. CASE k < i
    BY <1>1, <1>2, <1>6, <2>1
  <2>2. CASE ~(k < i)
    <3>1. k - (i - 1) \in 1 .. Len(s) - i /\ i + (k - (i - 1)) = k + 1
      BY <1>1, <2>2
    <3>2. v[k - (i - 1)] = s[i + (k - (i - 1))]
      BY <1>3, <3>1
    <3> QED
      BY <1>6, <2>2, <3>1, <3>2
  <2> QED
    BY <2>1, <2>2
<1> QED
  BY <1>5, <1>7 DEF u, v

\* A line stays true when something is installed: its identity is new.
LEMMA LineStaysTrue ==
  ASSUME Rm!RealAssumption, RealTyped, NEW path \in Rm!Paths, NEW b,
         b = NoRm \/ b.id = installs + 1, bin' = [bin EXCEPT ![path] = b], installs' = installs + 1,
         NEW l \in Rm!Lines, TrueLine(l, bin, installs)
  PROVE  TrueLine(l, bin', installs')
<1>1. installs \in Nat
  BY CandidateFacts DEF RealTyped, Identities
<1>2. l.path \in Rm!Paths /\ l.id \in Nat
  BY CandidateFacts DEF Rm!Lines
<1>3. bin'[l.path] = IF l.path = path THEN b ELSE bin[l.path]
  BY <1>2 DEF RealTyped
<1>4. l.id <= installs /\ l.id <= installs' /\ l.id # installs + 1
  BY <1>1, <1>2 DEF TrueLine
<1> QED
  BY <1>3, <1>4 DEF TrueLine

\* The file rewritten with a true line is true: the line for the same path goes, and when there are
\* too many the oldest.
LEMMA TrueRewrite ==
  ASSUME Rm!RealAssumption, RealTyped, NEW p \in Invocations, TrueFile(copied[p], bin, installs),
         Rm!Path(p) \in Rm!Paths, known[p][Rm!Path(p)] \in BOOLEAN, TrueLine(NewLine(p), bin, installs)
  PROVE  TrueFile(Rm!Rewritten(p), bin, installs)
<1> DEFINE s == copied[p]
           old == {i \in DOMAIN s : s[i].path = Rm!Path(p)}
           one == CHOOSE i \in old : TRUE
           others == IF old = {} THEN s ELSE SubSeq(s, 1, one - 1) \o SubSeq(s, one + 1, Len(s))
           all == Append(others, NewLine(p))
<1>1. Rm!Rewritten(p) = IF Len(all) > MaxLines THEN Tail(all) ELSE all
  BY DEF Rm!Rewritten, Rm!RemoveAt, NewLine
<1>2. NewLine(p) \in Rm!Lines /\ NewLine(p).path = Rm!Path(p) /\ MaxLines \in Nat \ {0}
  BY CandidateFacts DEF NewLine, Rm!Lines, RealTyped, Identities
<1>3. s \in Seq(Rm!Lines) /\ Len(s) \in Nat /\ DOMAIN s = 1 .. Len(s) /\ Len(s) <= MaxLines
  BY DEF TrueFile
\* What is left of the lines are lines, each of its own path and none of this one.
<1>4. /\ others \in Seq(Rm!Lines) /\ Len(others) \in Nat /\ DOMAIN others = 1 .. Len(others)
      /\ Len(others) <= MaxLines
      /\ \A i \in DOMAIN others : TrueLine(others[i], bin, installs) /\ others[i].path # Rm!Path(p)
      /\ \A i, j \in DOMAIN others : others[i].path = others[j].path => i = j
  <2>1. CASE old = {}
    BY <1>3, <2>1 DEF TrueFile
  <2>2. CASE old # {}
    <3>1. one \in DOMAIN s /\ s[one].path = Rm!Path(p) /\ one \in 1 .. Len(s)
      BY <1>3, <2>2
    <3>2. others = SubSeq(s, 1, one - 1) \o SubSeq(s, one + 1, Len(s))
      BY <2>2
    <3> HIDE DEF others, one
    <3>3. /\ others \in Seq(Rm!Lines) /\ Len(others) = Len(s) - 1
          /\ \A k \in 1 .. Len(s) - 1 : others[k] = s[IF k < one THEN k ELSE k + 1]
      BY <1>3, <3>1, <3>2, WithoutOne
    <3>4. DOMAIN others = 1 .. Len(s) - 1
      BY <3>3
    <3> DEFINE was(k) == IF k < one THEN k ELSE k + 1
    <3>5. \A k \in DOMAIN others : was(k) \in DOMAIN s /\ was(k) # one /\ others[k] = s[was(k)]
      BY <1>3, <3>1, <3>3, <3>4
    <3>6. \A k, j \in DOMAIN others : was(k) = was(j) => k = j
      BY <1>3, <3>1, <3>4
    <3> HIDE DEF was
    <3>7. \A i, j \in DOMAIN s : s[i].path = s[j].path => i = j
      BY DEF TrueFile
    <3>8. \A k \in DOMAIN others : TrueLine(others[k], bin, installs) /\ others[k].path # Rm!Path(p)
      BY <3>1, <3>5, <3>7 DEF TrueFile
    <3>9. \A k, j \in DOMAIN others : others[k].path = others[j].path => k = j
      BY <3>5, <3>6, <3>7
    <3> QED
      BY <1>2, <1>3, <3>1, <3>3, <3>4, <3>8, <3>9
  <2> QED
    BY <2>1, <2>2
<1> HIDE DEF others
<1>5. /\ all \in Seq(Rm!Lines) /\ Len(all) = Len(others) + 1 /\ DOMAIN all = 1 .. Len(others) + 1
      /\ \A i \in DOMAIN others : all[i] = others[i]
      /\ all[Len(others) + 1] = NewLine(p)
  BY <1>2, <1>4
<1> HIDE DEF all
<1>6. \A i \in DOMAIN all : TrueLine(all[i], bin, installs)
  <2> SUFFICES ASSUME NEW i \in DOMAIN all PROVE TrueLine(all[i], bin, installs)
    OBVIOUS
  <2>1. i \in DOMAIN others \/ i = Len(others) + 1
    BY <1>4, <1>5
  <2> QED
    BY <1>4, <1>5, <2>1
<1>7. \A i, j \in DOMAIN all : all[i].path = all[j].path => i = j
  <2> SUFFICES ASSUME NEW i \in DOMAIN all, NEW j \in DOMAIN all, all[i].path = all[j].path PROVE i = j
    OBVIOUS
  <2>1. (i \in DOMAIN others \/ i = Len(others) + 1) /\ (j \in DOMAIN others \/ j = Len(others) + 1)
    BY <1>4, <1>5
  <2> QED
    BY <1>2, <1>4, <1>5, <2>1
<1>8. CASE Len(all) > MaxLines
  <2> DEFINE t == Tail(all)
  <2>1. /\ t \in Seq(Rm!Lines) /\ Len(t) = Len(all) - 1 /\ DOMAIN t = 1 .. Len(all) - 1
        /\ \A i \in 1 .. Len(all) - 1 : t[i] = all[i + 1]
    BY <1>4, <1>5
  <2> HIDE DEF t
  <2>2. Len(t) <= MaxLines /\ \A i \in DOMAIN t : i + 1 \in DOMAIN all /\ t[i] = all[i + 1]
    BY <1>2, <1>4, <1>5, <2>1
  <2>3. TrueFile(t, bin, installs)
    BY <1>6, <1>7, <2>1, <2>2 DEF TrueFile
  <2> QED
    BY <1>1, <1>8, <2>3 DEF t
<1>9. CASE ~(Len(all) > MaxLines)
  <2>1. TrueFile(all, bin, installs)
    BY <1>2, <1>4, <1>5, <1>6, <1>7, <1>9 DEF TrueFile
  <2> QED
    BY <1>1, <1>9, <2>1
<1> QED
  BY <1>8, <1>9

-----------------------------------------------------------------------------
(* Judging a candidate.                                                      *)

\* The others' steps and the types are as they were.
Mine(p) ==
  /\ rmPc' \in [Invocations -> RmSteps] /\ spot' \in [Invocations -> DOMAIN Candidates]
  /\ chosen' \in [Invocations -> Rm!Paths]
  /\ \A q \in Invocations \ {p} : rmPc'[q] = rmPc[q] /\ spot'[q] = spot[q] /\ chosen'[q] = chosen[q]

LEMMA AdvanceGoes ==
  ASSUME Rm!RealAssumption, RealTyped, NEW p \in Invocations, NEW poisoned, Rm!Advance(p, poisoned)
  PROVE  /\ Mine(p)
         /\ \/ /\ rmPc'[p] = "guard" /\ chosen'[p] = Default /\ spot' = spot
               /\ \A i \in DOMAIN Candidates : i > spot[p] => Candidates[i].stash
            \/ /\ rmPc'[p] = "next" /\ chosen' = chosen /\ spot'[p] > spot[p]
               /\ \A i \in DOMAIN Candidates : i > spot[p] /\ i < spot'[p] => Candidates[i].stash
<1> DEFINE rest == {i \in DOMAIN Candidates : i > spot[p] /\ ~(poisoned /\ Candidates[i].stash)}
           first == CHOOSE i \in rest : \A j \in rest : i <= j
<1>1. spot[p] \in DOMAIN Candidates /\ DOMAIN Candidates \subseteq Nat /\ Default \in Rm!Paths
  BY CandidateFacts DEF RealTyped
<1>2. CASE rest = {}
  <2>1. /\ chosen' = [chosen EXCEPT ![p] = Default] /\ rmPc' = [rmPc EXCEPT ![p] = "guard"] /\ spot' = spot
    BY <1>2 DEF Rm!Advance, Rm!Set
  <2>2. \A i \in DOMAIN Candidates : i > spot[p] => Candidates[i].stash
    BY <1>2
  <2> QED
    BY <1>1, <2>1, <2>2 DEF Mine, RealTyped, RmSteps
<1>3. CASE rest # {}
  <2>1. /\ spot' = [spot EXCEPT ![p] = first] /\ rmPc' = [rmPc EXCEPT ![p] = "next"] /\ chosen' = chosen
    BY <1>3 DEF Rm!Advance, Rm!Set
  <2>2. \E i \in rest : \A j \in rest : i <= j
    BY <1>1, <1>3, Smallest
  <2>3. first \in rest /\ \A j \in rest : first <= j
    BY <2>2
  <2>4. first \in DOMAIN Candidates /\ first > spot[p]
    BY <2>3
  <2>5. \A i \in DOMAIN Candidates : i > spot[p] /\ i < first => Candidates[i].stash
    <3> SUFFICES ASSUME NEW i \in DOMAIN Candidates, i > spot[p], i < first, ~Candidates[i].stash PROVE FALSE
      OBVIOUS
    <3>1. i \in rest
      OBVIOUS
    <3>2. first <= i
      BY <2>3, <3>1
    <3> HIDE DEF first, rest
    <3> QED
      BY <1>1, <2>4, <3>2
  <2> HIDE DEF first, rest
  <2>6. spot'[p] = first
    BY <2>1 DEF RealTyped
  <2> QED
    BY <2>1, <2>4, <2>5, <2>6 DEF Mine, RealTyped, RmSteps
<1> QED
  BY <1>2, <1>3

\* What nothing is known of but the truth stays so when the candidate that is no rm is passed.
LEMMA AdvanceRight ==
  ASSUME Rm!RealAssumption, RealTyped, NEW p \in Invocations, NEW poisoned, Rm!Advance(p, poisoned),
         AtStart(p), rmPc[p] \in {"next", "probe", "remember"}, bin' = bin, execd'[p] = execd[p],
         ~touched'[p] => FoundTrue(p) /\ ~Genuine(Rm!Path(p)) /\
                         \A path \in DOMAIN known'[p] : known'[p][path] <=> ~Genuine(path)
  PROVE  AtStart(p)' /\ (~touched'[p] => FoundTrue(p)') /\ LineInHand(p)'
<1>1. /\ Mine(p) /\ rmPc'[p] \in {"guard", "next"}
      /\ rmPc'[p] = "guard" => chosen'[p] = Default
      /\ rmPc'[p] = "guard" => \A i \in DOMAIN Candidates : i > spot[p] => Candidates[i].stash
      /\ rmPc'[p] = "next" => /\ spot'[p] > spot[p]
                              /\ \A i \in DOMAIN Candidates : i > spot[p] /\ i < spot'[p] => Candidates[i].stash
  BY AdvanceGoes
<1>2. AtStart(p)' /\ LineInHand(p)'
  BY <1>1 DEF AtStart, LineInHand
<1>3. ASSUME ~touched'[p] PROVE FoundTrue(p)'
  <2>1. FoundTrue(p) /\ ~Genuine(Candidates[spot[p]].path) /\ \A path : Genuine(path)' <=> Genuine(path)
    BY <1>3 DEF Genuine, Rm!Path, Rm!Guarding
  <2>2. \A path \in DOMAIN known'[p] : known'[p][path] <=> ~Genuine(path)'
    BY <1>3, <2>1
  <2>3. execd'[p] # "shim"
    BY <2>1 DEF FoundTrue
  <2>4. ASSUME NEW i \in DOMAIN Candidates, ~Candidates[i].stash, Genuine(Candidates[i].path)'
        PROVE  i \in AheadOf(p)'
    <3>1. i \in AheadOf(p)
      BY <2>1, <2>4 DEF FoundTrue
    <3>2. i >= spot[p] /\ i # spot[p]
      BY <2>1, <2>4, <3>1 DEF AheadOf
    <3>3. /\ spot[p] \in DOMAIN Candidates /\ spot'[p] \in DOMAIN Candidates
          /\ DOMAIN Candidates \subseteq Nat
      BY <1>1, CandidateFacts DEF RealTyped, Mine
    <3>4. i > spot[p]
      BY <3>2, <3>3
    <3>5. rmPc'[p] = "next" /\ i >= spot'[p]
      BY <1>1, <2>4, <3>3, <3>4
    <3> QED
      BY <3>5 DEF AheadOf
  <2> QED
    BY <1>1, <2>2, <2>3, <2>4 DEF FoundTrue
<1> QED
  BY <1>2, <1>3

LEMMA JudgeGoes ==
  ASSUME Rm!RealAssumption, RealTyped, NEW p \in Invocations, NEW shim \in BOOLEAN, Rm!Judge(p, shim)
  PROVE  /\ Mine(p)
         /\ Rm!Guarding(p) => chosen' = chosen /\ rmPc'[p] = (IF shim THEN "refused" ELSE "exec")
         /\ ~Rm!Guarding(p) /\ ~shim => chosen'[p] = Rm!Path(p) /\ rmPc'[p] = "exec"
         /\ ~Rm!Guarding(p) /\ shim => Rm!Advance(p, Candidates[spot[p]].stash)
<1>1. Rm!Path(p) \in Rm!Paths
  BY CandidateFacts DEF Rm!Path, RealTyped
<1>2. CASE Rm!Guarding(p)
  <2>1. rmPc' = [rmPc EXCEPT ![p] = IF shim THEN "refused" ELSE "exec"] /\ spot' = spot /\ chosen' = chosen
    BY <1>2 DEF Rm!Judge, Rm!Set
  <2> QED
    BY <1>2, <2>1 DEF Mine, RealTyped, RmSteps
<1>3. CASE ~Rm!Guarding(p) /\ ~shim
  <2>1. rmPc' = [rmPc EXCEPT ![p] = "exec"] /\ spot' = spot /\ chosen' = [chosen EXCEPT ![p] = Rm!Path(p)]
    BY <1>3 DEF Rm!Judge, Rm!Set
  <2> QED
    BY <1>1, <1>3, <2>1 DEF Mine, RealTyped, RmSteps
<1>4. CASE ~Rm!Guarding(p) /\ shim
  <2>1. Rm!Advance(p, Candidates[spot[p]].stash)
    BY <1>4 DEF Rm!Judge
  <2>2. Mine(p)
    BY <2>1, AdvanceGoes
  <2> QED
    BY <1>4, <2>1, <2>2
<1> QED
  BY <1>2, <1>3, <1>4

\* A judgement that is true, unless something was touched, keeps what was found true.
LEMMA JudgeRight ==
  ASSUME Rm!RealAssumption, RealTyped, NEW p \in Invocations, NEW shim \in BOOLEAN, Rm!Judge(p, shim),
         AtStart(p), rmPc[p] \in {"next", "probe", "remember", "guard", "guardProbe", "guardRemember"},
         bin' = bin, execd'[p] = execd[p],
         ~touched'[p] => FoundTrue(p) /\ (shim <=> ~Genuine(Rm!Path(p))) /\
                         \A path \in DOMAIN known'[p] : known'[p][path] <=> ~Genuine(path)
  PROVE  Mine(p) /\ AtStart(p)' /\ (~touched'[p] => FoundTrue(p)') /\ LineInHand(p)'
<1>1. /\ Mine(p)
      /\ Rm!Guarding(p) => chosen' = chosen /\ rmPc'[p] = (IF shim THEN "refused" ELSE "exec")
      /\ ~Rm!Guarding(p) /\ ~shim => chosen'[p] = Rm!Path(p) /\ rmPc'[p] = "exec"
      /\ ~Rm!Guarding(p) /\ shim => Rm!Advance(p, Candidates[spot[p]].stash)
  BY JudgeGoes
<1>2. CASE ~Rm!Guarding(p) /\ shim
  <2>1. Rm!Advance(p, Candidates[spot[p]].stash) /\ rmPc[p] \in {"next", "probe", "remember"}
    BY <1>1, <1>2 DEF Rm!Guarding
  <2> QED
    BY <1>1, <1>2, <2>1, AdvanceRight
<1>3. CASE Rm!Guarding(p) \/ ~shim
  <2>1. rmPc'[p] \in {"refused", "exec"} /\ (rmPc'[p] = "refused" <=> shim)
    BY <1>1, <1>3
  <2>2. AtStart(p)' /\ LineInHand(p)'
    BY <2>1 DEF AtStart, LineInHand
  <2>3. ASSUME ~touched'[p] PROVE FoundTrue(p)'
    <3>1. \A path : Genuine(path)' <=> Genuine(path)
      BY DEF Genuine
    <3>2. FoundTrue(p) /\ (shim <=> ~Genuine(Rm!Path(p))) /\ \A path \in DOMAIN known'[p] : known'[p][path] <=> ~Genuine(path)
      BY <2>3
    <3>3. (\A path \in DOMAIN known'[p] : known'[p][path] <=> ~Genuine(path)') /\ execd'[p] # "shim"
      BY <3>1, <3>2 DEF FoundTrue
    <3>4. rmPc'[p] = "exec" => Genuine(chosen[p])'
      <4> SUFFICES ASSUME ~shim PROVE Genuine(chosen'[p])
        BY <2>1, <3>1
      <4>1. Rm!Guarding(p) => chosen'[p] = Default /\ Rm!Path(p) = Default
        BY <1>1 DEF Rm!Guarding, Rm!Path, AtStart
      <4>2. chosen'[p] = Rm!Path(p)
        BY <1>1, <4>1
      <4> QED
        BY <3>2, <4>2
    <3>5. rmPc'[p] = "refused" =>
            \A i \in DOMAIN Candidates : ~(~Candidates[i].stash /\ Genuine(Candidates[i].path))
      <4> SUFFICES ASSUME rmPc'[p] = "refused", NEW i \in DOMAIN Candidates, ~Candidates[i].stash,
                          Genuine(Candidates[i].path)
                   PROVE  FALSE
        OBVIOUS
      <4>1. Rm!Guarding(p)
        BY <1>3, <2>1
      <4>2. AheadOf(p) = {} /\ rmPc[p] \notin {"exec", "done"}
        BY <4>1 DEF AheadOf, Rm!Guarding
      <4> QED
        BY <3>2, <4>2 DEF FoundTrue
    <3>6. rmPc'[p] \notin {"exec", "done"} =>
            \A i \in DOMAIN Candidates : ~Candidates[i].stash /\ Genuine(Candidates[i].path)' => i \in AheadOf(p)'
      BY <2>1, <3>1, <3>5
    <3> QED
      BY <3>3, <3>4, <3>6 DEF FoundTrue
  <2> QED
    BY <1>1, <2>2, <2>3
<1> QED
  BY <1>2, <1>3

-----------------------------------------------------------------------------
(* The steps.                                                                *)

\* What an invocation has in hand after its step; the others have what they had.
Hands(p) ==
  /\ bin' = bin /\ installs' = installs
  /\ ident' \in [Invocations -> Identities] /\ ident'[p] <= installs
  /\ touched' \in [Invocations -> BOOLEAN]
  /\ DOMAIN known' = Invocations /\ DOMAIN copied' = Invocations /\ DOMAIN execd' = Invocations
  /\ DOMAIN known'[p] \subseteq Rm!Paths /\ known'[p] \in [DOMAIN known'[p] -> BOOLEAN]
  /\ TrueFile(verdicts', bin, installs) /\ TrueFile(copied'[p], bin, installs)
  /\ \A q \in Invocations \ {p} :
       /\ known'[q] = known[q] /\ ident'[q] = ident[q] /\ copied'[q] = copied[q]
       /\ execd'[q] = execd[q] /\ touched'[q] = touched[q]

LEMMA OthersAsBefore ==
  ASSUME NEW p \in Invocations, Mine(p), Hands(p), NEW q \in Invocations \ {p}, OneRight(q)
  PROVE  OneRight(q)'
<1>1. /\ bin' = bin /\ installs' = installs /\ rmPc'[q] = rmPc[q] /\ spot'[q] = spot[q] /\ chosen'[q] = chosen[q]
      /\ known'[q] = known[q] /\ ident'[q] = ident[q] /\ execd'[q] = execd[q] /\ touched'[q] = touched[q]
  BY DEF Mine, Hands
<1>2. LineInHand(q)'
  BY <1>1 DEF OneRight, LineInHand, NewLine, TrueLine, Rm!Path, Rm!Guarding
<1>3. AtStart(q)'
  BY <1>1 DEF OneRight, AtStart
<1>4. ASSUME ~touched'[q] PROVE FoundTrue(q)'
  <2>1. FoundTrue(q) /\ AheadOf(q)' = AheadOf(q) /\ \A path : Genuine(path)' <=> Genuine(path)
    BY <1>1, <1>4 DEF OneRight, AheadOf, Genuine
  <2> QED
    BY <1>1, <2>1 DEF FoundTrue
<1> QED
  BY <1>2, <1>3, <1>4 DEF OneRight

LEMMA StepKeeps ==
  ASSUME RealInv, NEW p \in Invocations, Mine(p), Hands(p), OneRight(p)'
  PROVE  RealInv'
<1>1. \A q \in Invocations : OneRight(q)'
  BY OthersAsBefore DEF RealInv
<1>2. VerdictFiles'
  BY DEF RealInv, VerdictFiles, Hands
<1>3. RealTyped'
  <2>1. \A q \in Invocations : ident'[q] <= installs'
    BY DEF RealInv, RealTyped, Hands
  <2>2. \A q \in Invocations : DOMAIN known'[q] \subseteq Rm!Paths
    BY DEF RealInv, RealTyped, Hands
  <2>3. \A q \in Invocations : known'[q] \in [DOMAIN known'[q] -> BOOLEAN]
    BY DEF RealInv, RealTyped, Hands
  <2> QED
    BY <2>1, <2>2, <2>3 DEF RealInv, RealTyped, Hands, Mine
<1> QED
  BY <1>1, <1>2, <1>3 DEF RealInv

\* When nothing is taken in hand.
LEMMA SameHands ==
  ASSUME RealInv, NEW p \in Invocations, UNCHANGED <<bin, installs, verdicts, known, ident, copied, execd, touched>>
  PROVE  Hands(p)
BY DEF RealInv, RealTyped, VerdictFiles, Hands

LEMMA LearnGoes ==
  ASSUME RealTyped, NEW p \in Invocations, NEW shim \in BOOLEAN, Rm!Path(p) \in Rm!Paths, Rm!Learn(p, shim)
  PROVE  /\ DOMAIN known' = Invocations /\ \A q \in Invocations \ {p} : known'[q] = known[q]
         /\ DOMAIN known'[p] = DOMAIN known[p] \cup {Rm!Path(p)} /\ DOMAIN known'[p] \subseteq Rm!Paths
         /\ known'[p] \in [DOMAIN known'[p] -> BOOLEAN]
         /\ \A path \in DOMAIN known'[p] : known'[p][path] = IF path = Rm!Path(p) THEN shim ELSE known[p][path]
<1> DEFINE f == [path \in DOMAIN known[p] \cup {Rm!Path(p)} |-> IF path = Rm!Path(p) THEN shim ELSE known[p][path]]
<1>1. known' = [known EXCEPT ![p] = f]
  BY DEF Rm!Learn
<1>2. f \in [DOMAIN known[p] \cup {Rm!Path(p)} -> BOOLEAN]
  BY DEF RealTyped
<1>3. known'[p] = f /\ DOMAIN known' = Invocations /\ \A q \in Invocations \ {p} : known'[q] = known[q]
  <2> HIDE DEF f
  <2> QED
    BY <1>1 DEF RealTyped
<1> QED
  BY <1>2, <1>3 DEF RealTyped

LEMMA PathFacts ==
  ASSUME Rm!RealAssumption, RealTyped, NEW p \in Invocations
  PROVE  Rm!Path(p) \in Rm!Paths
BY CandidateFacts DEF Rm!Path, RealTyped

LEMMA BeginKeeps ==
  ASSUME Rm!RealAssumption, RealInv, NEW p \in Invocations, Rm!Begin(p)
  PROVE  RealInv'
<1>1. rmPc[p] = "start" /\ rmPc' = [rmPc EXCEPT ![p] = "next"] /\ spot' = spot /\ chosen' = chosen
  BY DEF Rm!Begin, Rm!Set
<1>2. Mine(p) /\ rmPc'[p] = "next"
  BY <1>1 DEF Mine, RealInv, RealTyped, RmSteps
<1>3. Hands(p)
  BY SameHands DEF Rm!Begin
<1>4. OneRight(p) /\ UNCHANGED <<bin, known, execd, touched>>
  BY DEF RealInv, Rm!Begin
<1>5. LineInHand(p)' /\ AtStart(p)'
  BY <1>2 DEF LineInHand, AtStart
<1>6. ASSUME ~touched'[p] PROVE FoundTrue(p)'
  <2>1. FoundTrue(p) /\ AheadOf(p)' = AheadOf(p) /\ \A path : Genuine(path)' <=> Genuine(path)
    BY <1>1, <1>2, <1>4, <1>6 DEF OneRight, AheadOf, Genuine
  <2> QED
    BY <1>1, <1>2, <1>4, <2>1 DEF FoundTrue
<1> QED
  BY <1>2, <1>3, <1>5, <1>6, StepKeeps DEF OneRight

LEMMA ExecKeeps ==
  ASSUME Rm!RealAssumption, RealInv, NEW p \in Invocations, Rm!Exec(p)
  PROVE  RealInv'
<1>1. /\ rmPc[p] = "exec" /\ rmPc' = [rmPc EXCEPT ![p] = "done"] /\ spot' = spot /\ chosen' = chosen
      /\ known' = [known EXCEPT ![p] = [path \in {} |-> FALSE]]
      /\ execd' = [execd EXCEPT ![p] = IF bin[chosen[p]] = NoRm THEN "nothing" ELSE bin[chosen[p]].what]
      /\ UNCHANGED <<bin, installs, verdicts, ident, copied, touched>>
  BY DEF Rm!Exec, Rm!Set
<1>2. RealTyped /\ VerdictFiles /\ OneRight(p)
  BY DEF RealInv
<1>3. /\ Mine(p) /\ rmPc'[p] = "done"
  BY <1>1, <1>2 DEF Mine, RealTyped, RmSteps
<1>4. /\ known'[p] = [path \in {} |-> FALSE]
      /\ DOMAIN known' = Invocations /\ \A q \in Invocations \ {p} : known'[q] = known[q]
  BY <1>1, <1>2 DEF RealTyped
<1>5. /\ execd'[p] = (IF bin[chosen[p]] = NoRm THEN "nothing" ELSE bin[chosen[p]].what)
      /\ DOMAIN execd' = Invocations /\ \A q \in Invocations \ {p} : execd'[q] = execd[q]
  BY <1>1, <1>2 DEF RealTyped
<1>6. Hands(p)
  BY <1>1, <1>2, <1>4, <1>5 DEF Hands, RealTyped, VerdictFiles
<1>7. LineInHand(p)' /\ AtStart(p)'
  BY <1>3 DEF LineInHand, AtStart
<1>8. ASSUME ~touched'[p] PROVE FoundTrue(p)'
  <2>1. Genuine(chosen[p])
    BY <1>1, <1>2, <1>8 DEF OneRight, FoundTrue
  <2>2. execd'[p] # "shim"
    BY <1>5, <2>1 DEF Genuine, Rm!IsShim
  <2> QED
    BY <1>3, <1>4, <2>2 DEF FoundTrue
<1> QED
  BY <1>3, <1>6, <1>7, <1>8, StepKeeps DEF OneRight

LEMMA RememberKeeps ==
  ASSUME Rm!RealAssumption, RealInv, NEW p \in Invocations, Rm!Remember(p)
  PROVE  RealInv'
<1>1. /\ rmPc[p] \in {"remember", "guardRemember"}
      /\ verdicts' \in {Rm!Rewritten(p), verdicts}
      /\ Rm!Judge(p, known[p][Rm!Path(p)])
      /\ ident' = [ident EXCEPT ![p] = 0] /\ copied' = [copied EXCEPT ![p] = <<>>]
      /\ UNCHANGED <<bin, installs, known, execd, touched>>
  BY DEF Rm!Remember
<1>2. RealTyped /\ VerdictFiles /\ OneRight(p) /\ Rm!Path(p) \in Rm!Paths
  BY PathFacts DEF RealInv
<1>3. /\ Rm!Path(p) \in DOMAIN known[p] /\ TrueLine(NewLine(p), bin, installs)
      /\ known[p][Rm!Path(p)] \in BOOLEAN
  BY <1>1, <1>2 DEF OneRight, LineInHand, RealTyped
<1>4. TrueFile(Rm!Rewritten(p), bin, installs)
  BY <1>2, <1>3, TrueRewrite DEF VerdictFiles
<1>5. Mine(p) /\ AtStart(p)' /\ (~touched'[p] => FoundTrue(p)') /\ LineInHand(p)'
  <2>1. ASSUME ~touched'[p]
        PROVE  FoundTrue(p) /\ (known[p][Rm!Path(p)] <=> ~Genuine(Rm!Path(p))) /\
               \A path \in DOMAIN known'[p] : known'[p][path] <=> ~Genuine(path)
    BY <1>1, <1>2, <1>3, <2>1 DEF OneRight, FoundTrue
  <2> QED
    BY <1>1, <1>2, <1>3, <2>1, JudgeRight DEF OneRight
<1>6. TrueFile(<<>>, bin, installs)
  BY CandidateFacts DEF TrueFile
<1>7. Hands(p)
  <2>1. ident' \in [Invocations -> Identities] /\ ident'[p] = 0 /\ \A q \in Invocations \ {p} : ident'[q] = ident[q]
    BY <1>1, <1>2, CandidateFacts DEF RealTyped, Identities
  <2>2. DOMAIN copied' = Invocations /\ copied'[p] = <<>> /\ \A q \in Invocations \ {p} : copied'[q] = copied[q]
    BY <1>1, <1>2 DEF RealTyped
  <2>3. 0 <= installs
    BY <1>2, CandidateFacts DEF RealTyped, Identities
  <2>4. TrueFile(verdicts', bin, installs)
    BY <1>1, <1>2, <1>4 DEF VerdictFiles
  <2> QED
    BY <1>1, <1>2, <1>6, <2>1, <2>2, <2>3, <2>4 DEF Hands, RealTyped
<1> QED
  BY <1>5, <1>7, StepKeeps DEF OneRight

\* A verdict from memory or from the file is what a probe would say.
LEMMA ExamineKeeps ==
  ASSUME Rm!RealAssumption, RealInv, NEW p \in Invocations, Rm!Examine(p)
  PROVE  RealInv'
<1> DEFINE path == Rm!Path(p)
           b == bin[Rm!Path(p)]
           here == IF b = NoRm THEN {} ELSE Rm!Remembered(path, b.id)
<1>1. /\ rmPc[p] \in {"next", "guard"}
      /\ UNCHANGED <<bin, installs, verdicts, copied, execd, probeFaults, touched>>
      /\ \/ b = NoRm /\ rmPc[p] = "next" /\ Rm!Advance(p, FALSE) /\ UNCHANGED <<known, ident>>
         \/ path \in DOMAIN known[p] /\ Rm!Judge(p, known[p][path]) /\ UNCHANGED <<known, ident>>
         \/ /\ path \notin DOMAIN known[p] /\ here # {}
            /\ \E shim : shim = (CHOOSE l \in here : TRUE).shim /\ Rm!Judge(p, shim) /\ Rm!Learn(p, shim)
            /\ UNCHANGED ident
         \/ /\ ident' = [ident EXCEPT ![p] = IF b = NoRm THEN 0 ELSE b.id]
            /\ Rm!Set(p, IF Rm!Guarding(p) THEN "guardProbe" ELSE "probe")
            /\ UNCHANGED <<spot, chosen, known>>
  BY DEF Rm!Examine, Rm!Known
<1>2. RealTyped /\ VerdictFiles /\ LineInHand(p) /\ AtStart(p) /\ (~touched[p] => FoundTrue(p)) /\ path \in Rm!Paths
  BY PathFacts DEF RealInv, OneRight
<1>3. ~touched[p] => \A q \in DOMAIN known[p] : known[p][q] <=> ~Genuine(q)
  BY <1>2 DEF FoundTrue
<1>4. ASSUME b = NoRm, rmPc[p] = "next", Rm!Advance(p, FALSE), UNCHANGED <<known, ident>> PROVE RealInv'
  <2>1. Mine(p)
    BY <1>2, <1>4, AdvanceGoes
  <2>2. ~Genuine(path)
    BY <1>4 DEF Genuine
  <2>3. AtStart(p)' /\ (~touched'[p] => FoundTrue(p)') /\ LineInHand(p)'
    <3>1. ~touched'[p] => FoundTrue(p) /\ ~Genuine(Rm!Path(p)) /\ \A q \in DOMAIN known'[p] : known'[p][q] <=> ~Genuine(q)
      BY <1>1, <1>2, <1>3, <1>4, <2>2
    <3> HIDE DEF b, path
    <3> QED
      BY <1>1, <1>2, <1>4, <3>1, AdvanceRight
  <2>4. Hands(p)
    BY <1>1, <1>4, SameHands
  <2> QED
    BY <2>1, <2>3, <2>4, StepKeeps DEF OneRight
<1>5. ASSUME path \in DOMAIN known[p], Rm!Judge(p, known[p][path]), UNCHANGED <<known, ident>> PROVE RealInv'
  <2>1. known[p][path] \in BOOLEAN
    BY <1>2, <1>5 DEF RealTyped
  <2>2. Mine(p) /\ AtStart(p)' /\ (~touched'[p] => FoundTrue(p)') /\ LineInHand(p)'
    <3>1. ~touched'[p] => FoundTrue(p) /\ (known[p][Rm!Path(p)] <=> ~Genuine(Rm!Path(p))) /\
                          \A q \in DOMAIN known'[p] : known'[p][q] <=> ~Genuine(q)
      BY <1>1, <1>2, <1>3, <1>5
    <3> QED
      BY <1>1, <1>2, <1>5, <2>1, <3>1, JudgeRight
  <2>3. Hands(p)
    BY <1>1, <1>5, SameHands
  <2> QED
    BY <2>2, <2>3, StepKeeps DEF OneRight
<1>6. ASSUME path \notin DOMAIN known[p], here # {}, NEW shim, shim = (CHOOSE l \in here : TRUE).shim,
             Rm!Judge(p, shim), Rm!Learn(p, shim), UNCHANGED ident
      PROVE  RealInv'
  <2>1. PICK l \in here : shim = l.shim
    BY <1>6
  <2>2. PICK i \in DOMAIN verdicts : l = verdicts[i] /\ l.path = path /\ b # NoRm /\ l.id = b.id
    BY <2>1 DEF Rm!Remembered, Rm!Range
  <2>3. l \in Rm!Lines /\ TrueLine(l, bin, installs)
    BY <1>2, <2>2 DEF VerdictFiles, TrueFile
  <2>4. shim \in BOOLEAN /\ (shim <=> ~Genuine(path))
    BY <2>1, <2>2, <2>3 DEF TrueLine, Genuine, Rm!Lines
  <2>5. /\ DOMAIN known' = Invocations /\ \A q \in Invocations \ {p} : known'[q] = known[q]
        /\ DOMAIN known'[p] = DOMAIN known[p] \cup {path} /\ DOMAIN known'[p] \subseteq Rm!Paths
        /\ known'[p] \in [DOMAIN known'[p] -> BOOLEAN]
        /\ \A q \in DOMAIN known'[p] : known'[p][q] = IF q = path THEN shim ELSE known[p][q]
    BY <1>2, <1>6, <2>4, LearnGoes
  <2>6. Mine(p) /\ AtStart(p)' /\ (~touched'[p] => FoundTrue(p)') /\ LineInHand(p)'
    <3>1. ~touched'[p] => FoundTrue(p) /\ (shim <=> ~Genuine(Rm!Path(p))) /\
                          \A q \in DOMAIN known'[p] : known'[p][q] <=> ~Genuine(q)
      BY <1>1, <1>2, <1>3, <2>4, <2>5
    <3> QED
      BY <1>1, <1>2, <1>6, <2>4, <3>1, JudgeRight
  <2>7. Hands(p)
    BY <1>1, <1>2, <1>6, <2>5 DEF Hands, RealTyped, VerdictFiles
  <2> QED
    BY <2>6, <2>7, StepKeeps DEF OneRight
<1>7. ASSUME ident' = [ident EXCEPT ![p] = IF b = NoRm THEN 0 ELSE b.id],
             Rm!Set(p, IF Rm!Guarding(p) THEN "guardProbe" ELSE "probe"),
             UNCHANGED <<spot, chosen, known>>
      PROVE  RealInv'
  <2>1. rmPc' = [rmPc EXCEPT ![p] = IF Rm!Guarding(p) THEN "guardProbe" ELSE "probe"]
    BY <1>7 DEF Rm!Set
  <2>2. Mine(p) /\ rmPc'[p] = IF Rm!Guarding(p) THEN "guardProbe" ELSE "probe"
    BY <1>2, <1>7, <2>1 DEF Mine, RealTyped, RmSteps
  <2>3. /\ ident' \in [Invocations -> Identities] /\ ident'[p] <= installs
        /\ \A q \in Invocations \ {p} : ident'[q] = ident[q]
    <3> DEFINE new == IF b = NoRm THEN 0 ELSE b.id
    <3>1. new \in Identities /\ new <= installs
      <4>1. installs \in Nat /\ installs <= Len(Candidates) + MaxReinstalls /\ Len(Candidates) + MaxReinstalls \in Nat
        BY <1>2, CandidateFacts DEF RealTyped, Identities
      <4>2. b # NoRm => b.id \in Nat /\ b.id <= installs
        BY <1>2 DEF RealTyped
      <4> QED
        BY <4>1, <4>2 DEF Identities
    <3>2. ident' = [ident EXCEPT ![p] = new]
      BY <1>7
    <3> HIDE DEF new
    <3> QED
      BY <1>2, <3>1, <3>2 DEF RealTyped
  <2>4. Hands(p)
    BY <1>1, <1>2, <1>7, <2>3 DEF Hands, RealTyped, VerdictFiles
  <2>5. LineInHand(p)' /\ AtStart(p)'
    <3>1. rmPc'[p] = "guardProbe" => rmPc[p] = "guard"
      BY <1>1, <2>2 DEF Rm!Guarding
    <3> QED
      BY <1>2, <1>7, <2>2, <3>1 DEF LineInHand, AtStart
  <2>6. ASSUME ~touched'[p] PROVE FoundTrue(p)'
    <3>1. FoundTrue(p) /\ \A q : Genuine(q)' <=> Genuine(q)
      BY <1>1, <1>2, <2>6 DEF Genuine
    <3>2. AheadOf(p)' = AheadOf(p)
      BY <1>1, <1>7, <2>2 DEF AheadOf, Rm!Guarding
    <3> QED
      BY <1>1, <1>7, <2>2, <3>1, <3>2 DEF FoundTrue
  <2> QED
    BY <2>2, <2>4, <2>5, <2>6, StepKeeps DEF OneRight
<1> QED
  BY <1>1, <1>4, <1>5, <1>6, <1>7

\* A probe that ran to its end tells the truth of the binary that is there by then, and what is
\* remembered under the older identity is never asked for again.
LEMMA ProbeKeeps ==
  ASSUME Rm!RealAssumption, RealInv, NEW p \in Invocations, Rm!Probe(p)
  PROVE  RealInv'
<1> DEFINE path == Rm!Path(p)
           b == bin[Rm!Path(p)]
<1>1. /\ rmPc[p] \in {"probe", "guardProbe"} /\ UNCHANGED <<bin, installs, verdicts, ident, execd>>
      /\ \E o \in Rm!Outcomes(p) :
           /\ touched' = (IF o.fault THEN [touched EXCEPT ![p] = TRUE] ELSE touched)
           /\ Rm!Learn(p, o.result.shim)
           /\ IF o.result.keep
              THEN /\ Rm!Set(p, IF Rm!Guarding(p) THEN "guardRemember" ELSE "remember")
                   /\ copied' = [copied EXCEPT ![p] = verdicts] /\ UNCHANGED <<spot, chosen>>
              ELSE Rm!Judge(p, o.result.shim) /\ UNCHANGED copied
  BY DEF Rm!Probe
<1>2. RealTyped /\ VerdictFiles /\ LineInHand(p) /\ AtStart(p) /\ (~touched[p] => FoundTrue(p)) /\ path \in Rm!Paths
  BY PathFacts DEF RealInv, OneRight
<1>3. ~touched[p] => \A q \in DOMAIN known[p] : known[p][q] <=> ~Genuine(q)
  BY <1>2 DEF FoundTrue
<1>4. PICK fault \in BOOLEAN, shim \in BOOLEAN, keep \in BOOLEAN :
        /\ touched' = (IF fault THEN [touched EXCEPT ![p] = TRUE] ELSE touched)
        /\ Rm!Learn(p, shim)
        /\ ~fault => (shim <=> ~Genuine(path)) /\ (keep => b # NoRm)
        /\ fault => ~keep
        /\ keep => /\ Rm!Set(p, IF Rm!Guarding(p) THEN "guardRemember" ELSE "remember")
                   /\ copied' = [copied EXCEPT ![p] = verdicts] /\ UNCHANGED <<spot, chosen>>
        /\ ~keep => Rm!Judge(p, shim) /\ UNCHANGED copied
  <2>1. PICK o \in Rm!Outcomes(p) :
           /\ touched' = (IF o.fault THEN [touched EXCEPT ![p] = TRUE] ELSE touched)
           /\ Rm!Learn(p, o.result.shim)
           /\ IF o.result.keep
              THEN /\ Rm!Set(p, IF Rm!Guarding(p) THEN "guardRemember" ELSE "remember")
                   /\ copied' = [copied EXCEPT ![p] = verdicts] /\ UNCHANGED <<spot, chosen>>
              ELSE Rm!Judge(p, o.result.shim) /\ UNCHANGED copied
    BY <1>1
  <2>2. /\ o.fault \in BOOLEAN /\ o.result.shim \in BOOLEAN /\ o.result.keep \in BOOLEAN
        /\ ~o.fault => (o.result.shim <=> ~Genuine(path)) /\ (o.result.keep => b # NoRm)
        /\ o.fault => ~o.result.keep
    <3> DEFINE ran == IF b = NoRm THEN {[shim |-> TRUE, keep |-> FALSE]}
                      ELSE {[shim |-> Rm!IsShim(b.what), keep |-> ident[p] # 0]}
               failing == {[shim |-> s, keep |-> FALSE] : s \in BOOLEAN}
    <3>1. o \in [fault : {FALSE}, result : ran] \cup [fault : {TRUE}, result : failing]
      BY DEF Rm!Outcomes
    <3>2. (o.fault = FALSE /\ o.result \in ran) \/ (o.fault = TRUE /\ o.result \in failing)
      <4> HIDE DEF ran, failing
      <4> QED
        BY <3>1
    <3>3. CASE o.fault = TRUE /\ o.result \in failing
      <4>1. PICK s \in BOOLEAN : o.result = [shim |-> s, keep |-> FALSE]
        BY <3>3
      <4>2. o.result.shim = s /\ o.result.keep = FALSE
        BY <4>1
      <4> QED
        BY <3>3, <4>2
    <3>4. CASE o.fault = FALSE /\ o.result \in ran /\ b = NoRm
      <4>1. o.result.shim = TRUE /\ o.result.keep = FALSE
        BY <3>4
      <4> QED
        BY <3>4, <4>1 DEF Genuine
    <3>5. CASE o.fault = FALSE /\ o.result \in ran /\ b # NoRm
      <4>1. o.result = [shim |-> Rm!IsShim(b.what), keep |-> ident[p] # 0]
        BY <3>5
      <4>2. o.result.shim = (b.what = "shim") /\ o.result.keep = (ident[p] # 0)
        BY <4>1 DEF Rm!IsShim
      <4>3. o.result.shim \in BOOLEAN /\ o.result.keep \in BOOLEAN
        BY <4>2
      <4>4. Genuine(path) <=> ~(b.what = "shim")
        BY <3>5 DEF Genuine, Rm!IsShim
      <4> QED
        BY <3>5, <4>2, <4>3, <4>4
    <3> QED
      BY <3>2, <3>3, <3>4, <3>5
  <2> QED
    BY <2>1, <2>2
<1>5. /\ DOMAIN known' = Invocations /\ \A q \in Invocations \ {p} : known'[q] = known[q]
      /\ DOMAIN known'[p] = DOMAIN known[p] \cup {path} /\ DOMAIN known'[p] \subseteq Rm!Paths
      /\ known'[p] \in [DOMAIN known'[p] -> BOOLEAN]
      /\ \A q \in DOMAIN known'[p] : known'[p][q] = IF q = path THEN shim ELSE known[p][q]
  BY <1>2, <1>4, LearnGoes
<1>6. /\ touched' \in [Invocations -> BOOLEAN] /\ \A q \in Invocations \ {p} : touched'[q] = touched[q]
      /\ touched'[p] = (touched[p] \/ fault)
  <2>1. CASE fault
    BY <1>2, <1>4, <2>1 DEF RealTyped
  <2>2. CASE ~fault
    BY <1>2, <1>4, <2>2 DEF RealTyped
  <2> QED
    BY <2>1, <2>2
<1>7. ~touched'[p] => FoundTrue(p) /\ ~fault /\ (shim <=> ~Genuine(path)) /\
                      \A q \in DOMAIN known'[p] : known'[p][q] <=> ~Genuine(q)
  BY <1>2, <1>3, <1>4, <1>5, <1>6
<1>8. CASE ~keep
  <2>1. Mine(p) /\ AtStart(p)' /\ (~touched'[p] => FoundTrue(p)') /\ LineInHand(p)'
    <3>1. bin' = bin /\ execd'[p] = execd[p] /\ Rm!Judge(p, shim)
      BY <1>1, <1>4, <1>8
    <3> QED
      BY <1>1, <1>2, <1>7, <3>1, JudgeRight
  <2>2. Hands(p)
    BY <1>1, <1>2, <1>4, <1>5, <1>6, <1>8 DEF Hands, RealTyped, VerdictFiles
  <2> QED
    BY <2>1, <2>2, StepKeeps DEF OneRight
<1>9. CASE keep
  <2>1. /\ rmPc' = [rmPc EXCEPT ![p] = IF Rm!Guarding(p) THEN "guardRemember" ELSE "remember"]
        /\ copied' = [copied EXCEPT ![p] = verdicts] /\ spot' = spot /\ chosen' = chosen
    BY <1>4, <1>9 DEF Rm!Set
  <2>2. Mine(p) /\ rmPc'[p] = IF Rm!Guarding(p) THEN "guardRemember" ELSE "remember"
    BY <1>2, <2>1 DEF Mine, RealTyped, RmSteps
  <2>3. DOMAIN copied' = Invocations /\ copied'[p] = verdicts /\ \A q \in Invocations \ {p} : copied'[q] = copied[q]
    BY <1>2, <2>1 DEF RealTyped
  <2>4. Hands(p)
    BY <1>1, <1>2, <1>5, <1>6, <2>3 DEF Hands, RealTyped, VerdictFiles
  <2>5. Rm!Path(p)' = path
    BY <2>1, <2>2 DEF Rm!Path, Rm!Guarding
  <2>6. known'[p][path] = shim /\ path \in DOMAIN known'[p]
    BY <1>5
  <2>7. LineInHand(p)'
    <3>1. NewLine(p)' = [path |-> path, id |-> ident[p], shim |-> shim]
      BY <1>1, <2>5, <2>6 DEF NewLine
    <3>2. ident[p] <= installs /\ b # NoRm /\ (shim <=> Rm!IsShim(b.what))
      BY <1>2, <1>4, <1>9 DEF RealTyped, Genuine
    <3>3. TrueLine([path |-> path, id |-> ident[p], shim |-> shim], bin, installs)
      BY <3>2 DEF TrueLine
    <3> HIDE DEF path
    <3> QED
      BY <1>1, <2>5, <2>6, <3>1, <3>3 DEF LineInHand
  <2>8. AtStart(p)'
    <3>1. rmPc'[p] = "guardRemember" => rmPc[p] = "guardProbe"
      BY <1>1, <2>2 DEF Rm!Guarding
    <3> QED
      BY <1>2, <2>1, <2>2, <3>1 DEF AtStart
  <2>9. ASSUME ~touched'[p] PROVE FoundTrue(p)'
    <3>1. FoundTrue(p) /\ \A q : Genuine(q)' <=> Genuine(q)
      BY <1>1, <1>7, <2>9 DEF Genuine
    <3>2. AheadOf(p)' = AheadOf(p)
      BY <1>1, <2>1, <2>2 DEF AheadOf, Rm!Guarding
    <3> QED
      BY <1>1, <1>7, <2>2, <2>9, <3>1, <3>2 DEF FoundTrue
  <2> QED
    BY <2>2, <2>4, <2>7, <2>8, <2>9, StepKeeps DEF OneRight
<1> QED
  BY <1>8, <1>9

\* Whoever has begun is touched by an installation; who has not knows nothing yet.
LEMMA ReinstallKeeps ==
  ASSUME Rm!RealAssumption, RealInv, Rm!Reinstall
  PROVE  RealInv'
<1>1. PICK path \in Rm!Paths, what \in Programs :
        bin' = [bin EXCEPT ![path] = IF what = "none" THEN NoRm ELSE [what |-> what, id |-> installs + 1]]
  BY DEF Rm!Reinstall
<1>2. /\ installs' = installs + 1 /\ installs < Len(Candidates) + MaxReinstalls
      /\ touched' = [p \in Invocations |-> rmPc[p] # "start"]
      /\ UNCHANGED <<verdicts, rmPc, spot, known, ident, copied, chosen, execd>>
  BY DEF Rm!Reinstall
<1> DEFINE new == IF what = "none" THEN NoRm ELSE [what |-> what, id |-> installs + 1]
<1>3. RealTyped /\ VerdictFiles /\ installs \in Nat /\ Len(Candidates) + MaxReinstalls \in Nat
  BY CandidateFacts DEF RealInv, RealTyped, Identities
<1>4. /\ new = NoRm \/ new.id = installs + 1
      /\ new \in [what : Programs \ {"none"}, id : Nat] \cup {NoRm}
      /\ bin' = [bin EXCEPT ![path] = new]
  BY <1>1, <1>3
<1> HIDE DEF new
<1>5. \A l \in Rm!Lines : TrueLine(l, bin, installs) => TrueLine(l, bin', installs')
  BY <1>2, <1>3, <1>4, LineStaysTrue
<1>6. ASSUME NEW s, TrueFile(s, bin, installs) PROVE TrueFile(s, bin', installs')
  <2>1. \A i \in DOMAIN s : s[i] \in Rm!Lines
    BY <1>6 DEF TrueFile
  <2> QED
    BY <1>5, <1>6, <2>1 DEF TrueFile
<1>7. VerdictFiles'
  BY <1>2, <1>3, <1>6 DEF VerdictFiles
<1>8. RealTyped'
  <2>1. /\ bin' \in [Rm!Paths -> [what : Programs \ {"none"}, id : Nat] \cup {NoRm}]
        /\ \A q \in Rm!Paths : bin'[q] = IF q = path THEN new ELSE bin[q]
    BY <1>3, <1>4 DEF RealTyped
  <2>2. \A q \in Rm!Paths : bin'[q] # NoRm => bin'[q].id <= installs'
    <3> SUFFICES ASSUME NEW q \in Rm!Paths, bin'[q] # NoRm PROVE bin'[q].id <= installs'
      OBVIOUS
    <3>1. CASE q = path
      BY <1>2, <1>3, <1>4, <2>1, <3>1
    <3>2. CASE q # path
      <4>1. bin'[q] = bin[q] /\ bin[q].id \in Nat /\ bin[q].id <= installs
        BY <1>3, <2>1, <3>2 DEF RealTyped
      <4> QED
        BY <1>2, <1>3, <4>1
    <3> QED
      BY <3>1, <3>2
  <2>3. installs' \in Identities /\ \A p \in Invocations : ident'[p] <= installs'
    <3>1. installs' \in Identities
      BY <1>2, <1>3 DEF Identities
    <3>2. \A p \in Invocations : ident[p] \in Nat /\ ident[p] <= installs
      BY <1>3 DEF RealTyped, Identities
    <3> QED
      BY <1>2, <1>3, <3>1, <3>2
  <2>4. touched' \in [Invocations -> BOOLEAN]
    BY <1>2
  <2> QED
    BY <1>2, <1>3, <2>1, <2>2, <2>3, <2>4 DEF RealTyped
<1>9. ASSUME NEW p \in Invocations PROVE OneRight(p)'
  <2>1. OneRight(p)
    BY DEF RealInv
  <2>2. touched'[p] <=> rmPc[p] # "start"
    BY <1>2
  <2>3. AtStart(p)'
    BY <1>2, <2>1, <2>2 DEF OneRight, AtStart
  <2>4. LineInHand(p)'
    <3>1. NewLine(p)' = NewLine(p) /\ Rm!Path(p)' = Rm!Path(p)
      BY <1>2 DEF NewLine, Rm!Path, Rm!Guarding
    <3>2. ASSUME rmPc[p] \in {"remember", "guardRemember"} PROVE TrueLine(NewLine(p), bin', installs')
      <4>1. Rm!Path(p) \in DOMAIN known[p] /\ TrueLine(NewLine(p), bin, installs)
        BY <2>1, <3>2 DEF OneRight, LineInHand
      <4>2. NewLine(p) \in Rm!Lines
        BY <1>3, <4>1 DEF NewLine, Rm!Lines, RealTyped, Identities
      <4> QED
        BY <1>5, <4>1, <4>2
    <3> QED
      BY <1>2, <2>1, <3>1, <3>2 DEF OneRight, LineInHand
  <2>5. ASSUME ~touched'[p] PROVE FoundTrue(p)'
    <3>1. rmPc'[p] = "start" /\ spot'[p] = 1 /\ DOMAIN known'[p] = {} /\ execd'[p] = "none"
      BY <1>2, <2>1, <2>2, <2>5 DEF OneRight, AtStart
    <3>2. AheadOf(p)' = DOMAIN Candidates
      BY <3>1, CandidateFacts DEF AheadOf
    <3> QED
      BY <3>1, <3>2 DEF FoundTrue
  <2> QED
    BY <2>3, <2>4, <2>5 DEF OneRight
<1> QED
  BY <1>7, <1>8, <1>9 DEF RealInv

-----------------------------------------------------------------------------
(* The theorems.                                                             *)

LEMMA RealStarts ==
  ASSUME Rm!RealAssumption
  PROVE  Rm!Init => RealInv
<1> SUFFICES ASSUME Rm!Init PROVE RealInv
  OBVIOUS
<1>1. PICK k \in [1 .. Len(Candidates) -> Programs] :
        bin = [path \in Rm!Paths |->
                 LET i == CHOOSE i \in DOMAIN Candidates : Candidates[i].path = path
                 IN IF k[i] = "none" THEN NoRm ELSE [what |-> k[i], id |-> i]]
  BY DEF Rm!Init
<1>2. /\ installs = Len(Candidates) /\ verdicts = <<>>
      /\ rmPc = [p \in Invocations |-> "start"] /\ spot = [p \in Invocations |-> 1]
      /\ known = [p \in Invocations |-> [q \in {} |-> FALSE]] /\ ident = [p \in Invocations |-> 0]
      /\ copied = [p \in Invocations |-> <<>>] /\ chosen = [p \in Invocations |-> Default]
      /\ execd = [p \in Invocations |-> "none"] /\ touched = [p \in Invocations |-> FALSE]
  BY DEF Rm!Init
<1> DEFINE first(path) == CHOOSE i \in DOMAIN Candidates : Candidates[i].path = path
<1>3. \A path \in Rm!Paths : first(path) \in 1 .. Len(Candidates)
  BY CandidateFacts
<1>4. \A path \in Rm!Paths : bin[path] = IF k[first(path)] = "none" THEN NoRm ELSE [what |-> k[first(path)], id |-> first(path)]
  BY <1>1
<1> HIDE DEF first
<1>5. /\ bin \in [Rm!Paths -> [what : Programs \ {"none"}, id : Nat] \cup {NoRm}]
      /\ \A path \in Rm!Paths : bin[path] # NoRm => bin[path].id <= installs
  <2>1. \A path \in Rm!Paths :
          /\ bin[path] \in [what : Programs \ {"none"}, id : Nat] \cup {NoRm}
          /\ bin[path] # NoRm => bin[path].id <= installs
    <3> SUFFICES ASSUME NEW path \in Rm!Paths
                 PROVE  /\ bin[path] \in [what : Programs \ {"none"}, id : Nat] \cup {NoRm}
                        /\ bin[path] # NoRm => bin[path].id <= installs
      OBVIOUS
    <3>1. PICK i \in 1 .. Len(Candidates) : i = first(path)
      BY <1>3
    <3>2. bin[path] = IF k[i] = "none" THEN NoRm ELSE [what |-> k[i], id |-> i]
      BY <1>4, <3>1
    <3>3. k[i] \in Programs /\ i \in Nat /\ i <= installs
      BY <1>2, CandidateFacts, SMTT(40)
    <3>4. CASE k[i] = "none"
      BY <3>2, <3>4
    <3>5. CASE k[i] # "none"
      <4>1. bin[path] = [what |-> k[i], id |-> i]
        BY <3>2, <3>5
      <4> QED
        BY <3>3, <3>5, <4>1
    <3> QED
      BY <3>4, <3>5
  <2>2. bin \in [Rm!Paths -> {bin[path] : path \in Rm!Paths}]
    BY <1>1
  <2> QED
    BY <2>1, <2>2
<1>6. RealTyped
  BY <1>2, <1>5, CandidateFacts DEF RealTyped, RmSteps, Identities
<1>7. TrueFile(<<>>, bin, installs)
  BY CandidateFacts DEF TrueFile
<1>8. VerdictFiles
  BY <1>2, <1>7 DEF VerdictFiles
<1>9. ASSUME NEW p \in Invocations PROVE OneRight(p)
  <2>1. /\ rmPc[p] = "start" /\ spot[p] = 1 /\ DOMAIN known[p] = {} /\ execd[p] = "none" /\ ~touched[p]
    BY <1>2
  <2>2. AheadOf(p) = DOMAIN Candidates
    BY <2>1, CandidateFacts DEF AheadOf
  <2> QED
    BY <2>1, <2>2 DEF OneRight, LineInHand, AtStart, FoundTrue
<1> QED
  BY <1>6, <1>8, <1>9 DEF RealInv

LEMMA RealKeeps ==
  ASSUME Rm!RealAssumption
  PROVE  RealInv /\ [Rm!Next]_(Rm!vars) => RealInv'
<1> SUFFICES ASSUME RealInv, [Rm!Next]_(Rm!vars) PROVE RealInv'
  OBVIOUS
<1>1. CASE UNCHANGED Rm!vars
  <2>1. RealTyped' /\ VerdictFiles'
    BY <1>1 DEF Rm!vars, RealInv, RealTyped, VerdictFiles
  <2>2. ASSUME NEW p \in Invocations PROVE OneRight(p)'
    <3>1. OneRight(p) /\ AheadOf(p)' = AheadOf(p) /\ NewLine(p)' = NewLine(p) /\ Rm!Path(p)' = Rm!Path(p)
      BY <1>1 DEF RealInv, Rm!vars, AheadOf, NewLine, Rm!Path, Rm!Guarding
    <3>2. LineInHand(p)' /\ AtStart(p)'
      BY <1>1, <3>1 DEF OneRight, Rm!vars, LineInHand, AtStart
    <3>3. FoundTrue(p)' <=> FoundTrue(p)
      BY <1>1, <3>1 DEF Rm!vars, FoundTrue, Genuine
    <3> QED
      BY <1>1, <3>1, <3>2, <3>3 DEF OneRight, Rm!vars
  <2> QED
    BY <2>1, <2>2 DEF RealInv
<1>2. ASSUME NEW p \in Invocations, Rm!Step(p) PROVE RealInv'
  BY <1>2, BeginKeeps, ExamineKeeps, ProbeKeeps, RememberKeeps, ExecKeeps DEF Rm!Step
<1> QED
  BY <1>1, <1>2, ReinstallKeeps DEF Rm!Next

LEMMA RealInvariance == ASSUME Rm!RealAssumption PROVE Rm!Spec => []RealInv
<1>1. Rm!Init => RealInv
  BY RealStarts
<1>2. RealInv /\ [Rm!Next]_(Rm!vars) => RealInv'
  BY RealKeeps
<1> QED
  BY <1>1, <1>2, PTL DEF Rm!Spec

\* However many shims look for the real rm, and whoever installs what where meanwhile, their types,
\* and that the file of verdicts keeps one line for a path and no more lines than it may.
THEOREM RealTyping == ASSUME Rm!RealAssumption PROVE Rm!Spec => []Rm!TypeOK
<1>1. RealInv => Rm!TypeOK
  BY DEF RealInv, RealTyped, VerdictFiles, TrueFile, Rm!TypeOK
<1> QED
  BY <1>1, RealInvariance, PTL

\* A shim does not execute another copy of the shim, unless one was put there, or a probe failed,
\* after it began to look.
THEOREM NeverRecurses == ASSUME Rm!RealAssumption PROVE Rm!Spec => []Rm!NoRecursion
<1>1. RealInv => Rm!NoRecursion
  BY DEF RealInv, RealTyped, OneRight, FoundTrue, Rm!NoRecursion
<1> QED
  BY <1>1, RealInvariance, PTL

\* What the shared file says of a binary is true of the binary that has this identity, whatever
\* was replaced, failed, or was rewritten by others meanwhile.
THEOREM RemembersTruly == ASSUME Rm!RealAssumption PROVE Rm!Spec => []Rm!VerdictsTrue
<1>1. ASSUME RealInv PROVE Rm!VerdictsTrue
  <2> SUFFICES ASSUME NEW l \in Rm!Range(verdicts), bin[l.path] # NoRm, bin[l.path].id = l.id
               PROVE  l.shim = Rm!IsShim(bin[l.path].what)
    BY DEF Rm!VerdictsTrue
  <2>1. l \in Rm!Lines /\ TrueLine(l, bin, installs)
    BY <1>1 DEF RealInv, VerdictFiles, TrueFile, Rm!Range
  <2>2. l.shim \in BOOLEAN /\ Rm!IsShim(bin[l.path].what) \in BOOLEAN
    BY <2>1 DEF Rm!Lines, Rm!IsShim
  <2>3. l.shim <=> Rm!IsShim(bin[l.path].what)
    BY <2>1 DEF TrueLine
  <2> QED
    BY <2>2, <2>3
<1> QED
  BY <1>1, RealInvariance, PTL

\* A shim refuses to pass through only when there is no genuine rm outside the stash.
THEOREM FindsGenuine == ASSUME Rm!RealAssumption PROVE Rm!Spec => []Rm!GenuineFound
<1>1. ASSUME RealInv PROVE Rm!GenuineFound
  <2> SUFFICES ASSUME NEW p \in Invocations, rmPc[p] = "refused", ~touched[p],
                      NEW i \in DOMAIN Candidates, ~Candidates[i].stash,
                      bin[Candidates[i].path] # NoRm, bin[Candidates[i].path].what # "shim"
               PROVE  FALSE
    BY DEF Rm!GenuineFound
  <2>1. FoundTrue(p) /\ Genuine(Candidates[i].path)
    BY <1>1 DEF RealInv, OneRight, Genuine, Rm!IsShim
  <2>2. i \in AheadOf(p)
    BY <2>1 DEF FoundTrue
  <2> QED
    BY <2>2 DEF AheadOf
<1> QED
  BY <1>1, RealInvariance, PTL
=============================================================================
