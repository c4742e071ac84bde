----------------------------- MODULE PreloadCall -----------------------------
(* One deletion call of a process under the LD_PRELOAD library               *)
(* (trashd-preload/src/lib.rs: the hooks unlink, unlinkat, rmdir and remove, *)
(* and try_trash).  Callers delete the same path while others replace, write *)
(* or fill it, and while trash tools that ignore trashd's lock use the same  *)
(* trash directory.  Whatever happens, the caller must be told the truth.    *)
EXTENDS Integers, FiniteSets, Sequences, TLC

CONSTANTS
  Callers,
  Settings,     \* what holds throughout: [place, store, supervised, first, hooks, most], `most`
                \* bounding the steps of others: [changes, foreign, faults, crashes]
  MaxAttempts,  \* bound of the code: MAX_CLAIM_ATTEMPTS (8)
  MaxNames,     \* bound: names tried for one entry; the code has no end of them
  Tool,         \* a trash tool that ignores trashd's lock
  None

VARIABLES
  setting,
  at,        \* what is at the path, or Nothing
  made, changes,
  files,     \* [Names -> [by, id, ver]]: data in the trash, or Free
  info,      \* [Names -> [by, whole]]: its information, or NoInfo
  alien,     \* names a foreign tool has touched
  foreign,
  lock,      \* who holds the root's lock
  call,      \* [Callers -> what the call knows and has done]
  faults, crashes

vars == <<setting, at, made, changes, files, info, alien, foreign, lock, call, faults, crashes>>

Names == 1 .. MaxNames
Kinds == {"file", "link", "dir", "fifo"}
Object(i, kind, big) == [id |-> i, ver |-> 0, kind |-> kind, full |-> FALSE, big |-> big]
Nothing == Object(0, "none", FALSE)
Free == [by |-> None, id |-> 0, ver |-> 0]
NoInfo == [by |-> None, whole |-> FALSE]
Same(a, b) == a.id # 0 /\ a.id = b.id                      \* dev and inode
SameVersion(a, b) == Same(a, b) /\ a.ver = b.ver

\* unlinkatDir is unlinkat with AT_REMOVEDIR
Hooks == {"unlink", "unlinkat", "unlinkatDir", "rmdir", "remove"}
Named(hook) == hook \in {"unlinkat", "unlinkatDir"}
RemovesDir(hook) == hook \in {"rmdir", "unlinkatDir"}
Bounds == [changes : Nat, foreign : Nat, faults : Nat, crashes : Nat]
ASSUME PreloadConstants ==
  /\ None \notin Callers /\ Tool \notin Callers \cup {None}
  /\ MaxNames \in Nat /\ MaxAttempts \in Nat \ {0}
  /\ \A s \in Settings :
       /\ s.place \in {"same", "cross", "denied"}
       /\ s.store \in {"ok", "unavailable", "unsafe", "broken"}
       /\ s.supervised \in BOOLEAN
       /\ s.first = Nothing \/ \E kind \in Kinds, big \in BOOLEAN : s.first = Object(1, kind, big)
       /\ s.hooks \in [Callers -> SUBSET Hooks]
       /\ s.most \in Bounds

Idle == [pc |-> "idle", hook |-> "none", inside |-> FALSE, named |-> Nothing, meta |-> Nothing,
         try |-> 1, attempts |-> 0, slot |-> 0, src |-> Nothing, next |-> "none", ret |-> "none",
         took |-> [id |-> 0, ver |-> 0, how |-> "not"],
         passed |-> FALSE, copying |-> FALSE, copied |-> FALSE, late |-> FALSE]

\* a step takes the call from what it knew to k
Become(c, k) == call' = [call EXCEPT ![c] = k]
To(c, step) == Become(c, [call[c] EXCEPT !.pc = step])
\* the hook returns, and a later call may enter
Return(c, ret) ==
  Become(c, [call[c] EXCEPT !.pc = "done", !.ret = ret, !.inside = FALSE])
\* the path is emptied by or for c, the object going where `how` says, and the hook returns
Take(c, how) ==
  /\ at' = Nothing
  /\ Become(c, [call[c] EXCEPT !.pc = "done", !.ret = "ok", !.inside = FALSE,
                               !.took = [id |-> at.id, ver |-> at.ver, how |-> how]])
\* the guard of the root is dropped when try_trash returns
Release(c) == lock' = IF lock = c THEN None ELSE lock
Outside == <<setting, made, changes, alien, foreign, crashes>>
Trash == <<files, info>>

-----------------------------------------------------------------------------
(* the hooks *)

\* the reentrancy guard; a bypassed process takes the real call at once
Enter(c) ==
  /\ call[c].pc = "idle"
  /\ UNCHANGED <<Outside, at, Trash, lock, faults>>
  /\ \E hook \in setting.hooks[c], step \in {"defer", "real"} :
       Become(c, [call[c] EXCEPT !.pc = step, !.hook = hook, !.inside = TRUE])

\* what the kernel says of removing the object with this call
Unfit(object, removedir) ==
  IF object.kind = "none" THEN "ENOENT"
  ELSE IF setting.place = "denied" THEN "EACCES"
  ELSE IF removedir
       THEN IF object.kind # "dir" THEN "ENOTDIR"
            ELSE IF object.full THEN "ENOTEMPTY" ELSE "ok"
       ELSE IF object.kind = "dir" THEN "EISDIR" ELSE "ok"

\* defer_to_supervisor and defer_remove_to_supervisor: a supervisor that does not decline
\* (ENOSYS) disposes of the entry or answers the real result
Defer(c) ==
  /\ call[c].pc \in {"defer", "deferDir"}
  /\ UNCHANGED <<Outside, Trash, lock, faults>>
  /\ \/ To(c, "resolve") /\ UNCHANGED at
     \/ /\ setting.supervised
        /\ LET dir == RemovesDir(call[c].hook) \/ call[c].pc = "deferDir"
               r == Unfit(at, dir) IN
           IF r = "ok" THEN Take(c, "supervisor")
           ELSE UNCHANGED at /\ IF call[c].hook = "remove" /\ ~dir /\ r = "EISDIR"
                                THEN To(c, "deferDir") ELSE Return(c, r)

\* resolve_at_path: with a directory descriptor, what the caller itself named
Resolve(c) ==
  /\ call[c].pc = "resolve"
  /\ UNCHANGED <<Outside, at, Trash, lock, faults>>
  /\ IF Named(call[c].hook) /\ at.kind = "none" THEN To(c, "real")
     ELSE Become(c, [call[c] EXCEPT !.pc = "stat",
                                    !.named = IF Named(call[c].hook) THEN at ELSE Nothing])

\* the eligibility stat, with the kinds each hook takes on; exclusions may call the rest off
Fits(hook, kind) == CASE hook \in {"unlink", "unlinkat"} -> kind # "dir"
                      [] RemovesDir(hook) -> kind = "dir"
                      [] hook = "remove" -> TRUE
Stat(c) ==
  /\ call[c].pc = "stat"
  /\ UNCHANGED <<Outside, at, Trash, lock, faults>>
  /\ \/ To(c, "real")
     \/ /\ at.kind # "none" /\ Fits(call[c].hook, at.kind)
        /\ call[c].named.kind # "none" => Same(call[c].named, at)
        /\ Become(c, [call[c] EXCEPT !.pc = IF at.kind = "dir" THEN "peek" ELSE "limits",
                                     !.meta = at])

\* read_dir: only an empty directory is trashed by these calls
Peek(c) ==
  /\ call[c].pc = "peek"
  /\ UNCHANGED <<Outside, at, Trash, lock, faults>>
  /\ To(c, IF at.kind = "dir" /\ ~at.full THEN "limits" ELSE "real")

-----------------------------------------------------------------------------
(* try_trash *)

\* the size limits; what has come into the directory since may exceed one
Limits(c) ==
  /\ call[c].pc = "limits"
  /\ UNCHANGED <<Outside, at, Trash, lock, faults>>
  /\ IF call[c].meta.big THEN To(c, "real")
     ELSE \/ Become(c, [call[c] EXCEPT !.pc = "lock", !.passed = TRUE])
          \/ call[c].meta.kind = "dir" /\ at.full /\ To(c, "real")

\* trash_dir_for and its errors; the lock is exclusive and waited for
Lock(c) ==
  /\ call[c].pc = "lock"
  /\ UNCHANGED <<Outside, at, Trash, faults>>
  /\ CASE setting.store = "ok" -> lock = None /\ lock' = c /\ To(c, "claim")
       [] setting.store = "unavailable" -> To(c, "real") /\ UNCHANGED lock
       [] setting.store = "unsafe" -> Return(c, "EACCES") /\ UNCHANGED lock
       [] setting.store = "broken" -> Return(c, "EIO") /\ UNCHANGED lock

\* unique_id_atomic: the information file is created exclusively ...
Claim(c) ==
  LET n == call[c].try IN
  /\ call[c].pc = "claim"
  /\ n \in Names
  /\ UNCHANGED <<Outside, at, files>>
  /\ \/ /\ info[n] # NoInfo
        /\ Become(c, [call[c] EXCEPT !.try = n + 1]) /\ UNCHANGED <<info, lock, faults>>
     \/ /\ info[n] = NoInfo
        /\ info' = [info EXCEPT ![n] = [by |-> c, whole |-> FALSE]]
        /\ Become(c, [call[c] EXCEPT !.pc = "vacant", !.slot = n])
        /\ UNCHANGED <<lock, faults>>
     \/ /\ faults < setting.most.faults /\ faults' = faults + 1
        /\ To(c, "real") /\ Release(c) /\ UNCHANGED info

\* removes an information file through the hooked unlink: inside a hook that is the real
\* one; outside it would wait for the lock its own caller holds
DropInfo(c) ==
  /\ call[c].inside
  /\ info' = [info EXCEPT ![call[c].slot] = NoInfo]

\* ... and given up when data is there under that name
Vacant(c) ==
  /\ call[c].pc = "vacant"
  /\ UNCHANGED <<Outside, at, files, lock, faults>>
  /\ IF files[call[c].slot] # Free
     THEN DropInfo(c) /\ Become(c, [call[c] EXCEPT !.pc = "claim", !.try = call[c].slot + 1])
     ELSE To(c, "write") /\ UNCHANGED info

\* an attempt comes to nothing, and the call goes on to `next`
GiveUp(c, next) == Become(c, [call[c] EXCEPT !.pc = "drop", !.next = next])

\* the information is written through the descriptor that claimed the name
Write(c) ==
  /\ call[c].pc = "write"
  /\ UNCHANGED <<Outside, at, files, lock>>
  /\ \/ /\ info' = IF info[call[c].slot].by = c
                   THEN [info EXCEPT ![call[c].slot].whole = TRUE] ELSE info
        /\ To(c, "recheck") /\ UNCHANGED faults
     \/ /\ faults < setting.most.faults /\ faults' = faults + 1
        /\ GiveUp(c, "real") /\ UNCHANGED info

\* the information of an attempt that came to nothing is removed
Drop(c) ==
  /\ call[c].pc = "drop"
  /\ UNCHANGED <<Outside, at, files, faults>>
  /\ DropInfo(c)
  /\ CASE call[c].next = "again" ->
              Become(c, [call[c] EXCEPT !.pc = "claim", !.try = 1]) /\ UNCHANGED lock
       [] call[c].next = "real" -> To(c, "real") /\ Release(c)
       [] OTHER -> Return(c, call[c].next) /\ Release(c)
\* Mutant of Recheck: what is there now is trashed.
RecheckNot(c) ==
  /\ call[c].pc = "recheck"
  /\ UNCHANGED <<Outside, at, Trash, lock, faults>>
  /\ Become(c, [call[c] EXCEPT !.pc = "rename", !.late = FALSE])
\* just before the move: a replaced object is left to the real call
Recheck(c) ==
  /\ call[c].pc = "recheck"
  /\ UNCHANGED <<Outside, at, Trash, lock, faults>>
  /\ IF at.kind # "none" /\ ~Same(at, call[c].meta) THEN GiveUp(c, "real")
     ELSE Become(c, [call[c] EXCEPT !.pc = "rename", !.late = FALSE])

\* renameat2 with RENAME_NOREPLACE, and what its failure leads to
Rename(c) ==
  LET n == call[c].slot IN
  /\ call[c].pc = "rename"
  /\ UNCHANGED <<Outside, info, faults>>
  /\ \/ /\ files[n] # Free
        /\ UNCHANGED <<at, files, lock>>
        /\ Become(c, [call[c] EXCEPT
                        !.pc = "drop", !.attempts = @ + 1,
                        !.next = IF call[c].attempts + 1 < MaxAttempts THEN "again" ELSE "real"])
     \/ /\ files[n] = Free /\ (at.kind = "none" \/ setting.place = "denied")
        /\ GiveUp(c, "real") /\ UNCHANGED <<at, files, lock>>
     \/ /\ files[n] = Free /\ at.kind # "none" /\ setting.place = "same"
        /\ files' = [files EXCEPT ![n] = [by |-> c, id |-> at.id, ver |-> at.ver]]
        /\ Take(c, "trash") /\ Release(c)
     \/ /\ files[n] = Free /\ at.kind # "none" /\ setting.place = "cross"
        /\ To(c, "restat") /\ UNCHANGED <<at, files, lock>>

-----------------------------------------------------------------------------
(* across file systems: copy, then remove the source *)

Restat(c) ==
  /\ call[c].pc = "restat"
  /\ UNCHANGED <<Outside, at, Trash, lock, faults>>
  /\ \/ at.kind = "none" /\ GiveUp(c, "real")
     \/ at.kind # "none" /\ ~Same(at, call[c].meta) /\ GiveUp(c, "EBUSY")
     \/ Same(at, call[c].meta) /\ at.kind \in {"dir", "fifo"} /\ GiveUp(c, "real")
     \/ /\ Same(at, call[c].meta) /\ at.kind \in {"file", "link"}
        /\ Become(c, [call[c] EXCEPT !.pc = IF at.kind = "link" THEN "link" ELSE "open",
                                     !.src = at, !.copying = TRUE, !.copied = FALSE,
                                     !.late = FALSE])

\* a link is made anew from the target the path has now; if that fails, whatever the path names
\* by now is left to the real call
CopyLink(c) ==
  LET n == call[c].slot IN
  /\ call[c].pc = "link"
  /\ UNCHANGED <<Outside, at, info, lock>>
  /\ \/ /\ at.kind = "link" /\ files[n] = Free /\ UNCHANGED faults
        /\ files' = [files EXCEPT ![n] = [by |-> c, id |-> at.id, ver |-> at.ver]]
        /\ Become(c, [call[c] EXCEPT !.pc = "retire", !.copied = TRUE])
     \/ /\ at.kind # "link" \/ files[n] # Free
        /\ GiveUp(c, "real") /\ UNCHANGED <<files, faults>>
     \/ /\ faults < setting.most.faults /\ faults' = faults + 1
        /\ GiveUp(c, "real") /\ UNCHANGED files

\* copy_regular_verified: the source is opened and must still be the one selected, the copy is
\* created exclusively, and the source must not have changed while it was read
Open(c) ==
  /\ call[c].pc = "open"
  /\ UNCHANGED <<Outside, at, info, lock, faults>>
  /\ \/ /\ at.kind \in {"none", "link"} \/ (Same(at, call[c].meta) /\ files[call[c].slot] # Free)
        /\ To(c, "compare") /\ UNCHANGED files
     \/ /\ at.kind \notin {"none", "link"} /\ ~Same(at, call[c].meta)
        /\ GiveUp(c, "EBUSY") /\ UNCHANGED files
     \/ /\ at.kind \notin {"none", "link"} /\ Same(at, call[c].meta)
        /\ files[call[c].slot] = Free
        /\ files' = [files EXCEPT ![call[c].slot] = [by |-> c, id |-> 0, ver |-> 0]]
        /\ Become(c, [call[c] EXCEPT !.pc = "read", !.src = at, !.copied = TRUE])

Owned(c) == files[call[c].slot].by = c
UndoCopy(c, next) == Become(c, [call[c] EXCEPT !.pc = "uncopy", !.next = next])
Read(c) ==
  /\ call[c].pc = "read"
  /\ UNCHANGED <<Outside, at, info, lock>>
  /\ \/ /\ files' = IF Owned(c) THEN [files EXCEPT ![call[c].slot].id = call[c].src.id,
                                                  ![call[c].slot].ver = call[c].src.ver]
                                ELSE files
        /\ IF Same(at, call[c].src) /\ at.ver # call[c].src.ver
           THEN UndoCopy(c, "EBUSY") ELSE To(c, "retire")
        /\ UNCHANGED faults
     \/ /\ faults < setting.most.faults /\ faults' = faults + 1
        /\ UndoCopy(c, "compare") /\ UNCHANGED files

\* remove_owned_copy: only what this call created
Uncopy(c) ==
  /\ call[c].pc = "uncopy"
  /\ UNCHANGED <<Outside, at, info, lock, faults>>
  /\ files' = IF Owned(c) THEN [files EXCEPT ![call[c].slot] = Free] ELSE files
  /\ To(c, IF call[c].next = "compare" THEN "compare" ELSE "drop")

\* after a failed copy: an error if the source changed, the real call if it did not
\* (the information is removed first in the code; nobody looks at it in between)
Compare(c) ==
  /\ call[c].pc = "compare"
  /\ UNCHANGED <<Outside, at, Trash, lock, faults>>
  /\ IF at.kind # "none" /\ ~SameVersion(call[c].src, at) THEN GiveUp(c, "EBUSY")
     ELSE Become(c, [call[c] EXCEPT !.pc = "drop", !.next = "real", !.late = FALSE])

\* Mutant of Retire: the copied source is removed without another look.
RetireBlind(c) ==
  /\ call[c].pc = "retire"
  /\ UNCHANGED <<Outside, at, Trash, lock, faults>>
  /\ Become(c, [call[c] EXCEPT !.pc = "unlink", !.late = FALSE])
\* retire_copied_source: the source must still be the version that was copied
Retire(c) ==
  /\ call[c].pc = "retire"
  /\ UNCHANGED <<Outside, at, Trash, lock, faults>>
  /\ IF SameVersion(call[c].src, at)
     THEN Become(c, [call[c] EXCEPT !.pc = "unlink", !.late = FALSE])
     ELSE UndoCopy(c, "EBUSY")

\* Mutant of Unlink: the copy stays when the source cannot be removed.
UnlinkKeepsCopy(c) ==
  LET r == Unfit(at, FALSE) IN
  /\ call[c].pc = "unlink"
  /\ UNCHANGED <<Outside, Trash, faults>>
  /\ Release(c)
  /\ IF r = "ok" THEN Take(c, "trash") ELSE UNCHANGED at /\ Return(c, r)
\* retire_unlink removes what the path names; if it cannot, the copy is taken back
Unlink(c) ==
  LET r == Unfit(at, FALSE) IN
  /\ call[c].pc = "unlink"
  /\ UNCHANGED <<Outside, Trash, faults>>
  /\ IF r = "ok" THEN Take(c, "trash") /\ Release(c)
     ELSE UndoCopy(c, r) /\ UNCHANGED <<at, lock>>

\* the real call, for whatever the path names by now
Real(c) ==
  /\ call[c].pc = "real"
  /\ UNCHANGED <<Outside, Trash, lock, faults>>
  /\ LET r == IF call[c].hook = "remove"
              THEN Unfit(at, at.kind = "dir")
              ELSE Unfit(at, RemovesDir(call[c].hook)) IN
     IF r = "ok" THEN Take(c, "real") ELSE UNCHANGED at /\ Return(c, r)

-----------------------------------------------------------------------------
(* the others *)

Checked == {"rename", "unlink", "drop", "real"}
Noted == [c \in Callers |-> [call[c] EXCEPT !.late = @ \/ call[c].pc \in Checked]]

Change ==
  /\ changes < setting.most.changes /\ changes' = changes + 1 /\ call' = Noted
  /\ UNCHANGED <<setting, files, info, alien, foreign, lock, faults, crashes>>
  /\ \/ /\ made' = made + 1
        /\ \E kind \in Kinds : at' = Object(made + 1, kind, FALSE)
     \/ at.kind # "none" /\ at' = Nothing /\ UNCHANGED made
     \/ at.kind = "file" /\ at' = [at EXCEPT !.ver = @ + 1] /\ UNCHANGED made
     \/ at.kind = "dir" /\ at' = [at EXCEPT !.full = TRUE] /\ UNCHANGED made

\* another trash tool takes a name, empties an entry, or tidies information without data
Foreign ==
  /\ foreign < setting.most.foreign /\ foreign' = foreign + 1
  /\ lock # None                                  \* bound: at other moments it changes nothing
  /\ UNCHANGED <<setting, at, made, changes, lock, call, faults, crashes>>
  /\ \E n \in {n \in Names : n = 1 \/ info[n] # NoInfo \/ files[n] # Free} :
       /\ alien' = alien \cup {n}
       /\ \/ /\ files[n] = Free
             /\ files' = [files EXCEPT ![n] = [by |-> Tool, id |-> 0, ver |-> 0]]
             /\ UNCHANGED info
          \/ /\ files[n] # Free
             /\ files' = [files EXCEPT ![n] = Free] /\ info' = [info EXCEPT ![n] = NoInfo]
          \/ /\ files[n] = Free /\ info[n] # NoInfo
             /\ info' = [info EXCEPT ![n] = NoInfo] /\ UNCHANGED files

Crash(c) ==
  /\ call[c].pc \notin {"idle", "done", "dead"}
  /\ crashes < setting.most.crashes /\ crashes' = crashes + 1
  /\ To(c, "dead") /\ Release(c)
  /\ UNCHANGED <<setting, at, made, changes, files, info, alien, foreign, faults>>

Init ==
  /\ setting \in Settings
  /\ at = setting.first /\ made = 1 /\ changes = 0
  /\ files = [n \in Names |-> Free] /\ info = [n \in Names |-> NoInfo]
  /\ alien = {} /\ foreign = 0 /\ lock = None /\ faults = 0 /\ crashes = 0
  /\ call = [c \in Callers |-> Idle]

Own(c) ==
  \/ Enter(c) \/ Defer(c) \/ Resolve(c) \/ Stat(c) \/ Peek(c)
  \/ Limits(c) \/ Lock(c) \/ Claim(c) \/ Vacant(c) \/ Write(c) \/ Drop(c) \/ Recheck(c) \/ Rename(c)
  \/ Restat(c) \/ CopyLink(c) \/ Open(c) \/ Read(c) \/ Uncopy(c) \/ Compare(c)
  \/ Retire(c) \/ Unlink(c) \/ Real(c)
Next == (\E c \in Callers : Own(c) \/ Crash(c)) \/ Change \/ Foreign

\* a called function runs
Spec == Init /\ [][Next]_vars /\ \A c \in Callers : WF_vars(Own(c))

-----------------------------------------------------------------------------
(* Properties *)

Done(c) == call[c].pc = "done"
Locked == {"claim", "vacant", "write", "drop", "recheck", "rename", "restat", "link", "open", "read",
           "uncopy", "compare", "retire", "unlink"}
Steps == Locked \cup {"idle", "defer", "deferDir", "resolve", "stat", "peek", "limits", "lock",
                      "real", "done", "dead"}
Errors == {"ENOENT", "EACCES", "ENOTDIR", "ENOTEMPTY", "EISDIR", "EBUSY", "EIO"}
Objects == [id : Nat, ver : Nat, kind : Kinds \cup {"none"}, full : BOOLEAN, big : BOOLEAN]
Calls ==
  [pc : Steps, hook : Hooks \cup {"none"}, inside : BOOLEAN, named : Objects, meta : Objects,
   try : 1 .. MaxNames + 1, attempts : 0 .. MaxAttempts, slot : 0 .. MaxNames, src : Objects,
   next : Errors \cup {"none", "again", "real", "compare"}, ret : Errors \cup {"none", "ok"},
   took : [id : Nat, ver : Nat, how : {"not", "supervisor", "trash", "real"}],
   passed : BOOLEAN, copying : BOOLEAN, copied : BOOLEAN, late : BOOLEAN]

\* Types; at most MAX_CLAIM_ATTEMPTS names are lost to others, and the lock is held exactly
\* between its acquisition and the return of try_trash.
TypeOK ==
  /\ setting \in Settings /\ lock \in Callers \cup {None}
  /\ at \in Objects /\ at.id \in {0, made} /\ (at.id = 0 <=> at.kind = "none")
  /\ made \in Nat \ {0} /\ changes \in Nat /\ foreign \in Nat /\ faults \in Nat /\ crashes \in Nat
  /\ made <= changes + 1 /\ changes <= setting.most.changes /\ foreign <= setting.most.foreign
  /\ faults <= setting.most.faults /\ crashes <= setting.most.crashes /\ alien \subseteq Names
  /\ info \in [Names -> [by : Callers \cup {None}, whole : BOOLEAN]]
  /\ files \in [Names -> [by : Callers \cup {None, Tool}, id : Nat, ver : Nat]]
  /\ call \in [Callers -> Calls]
  /\ \A c \in Callers : lock = c <=> call[c].pc \in Locked

\* The caller is told the truth: success exactly when the call took an object off the path.
\* A failed call leaves neither a copy nor information behind (try_trash's cleanups, #205).
HonestResult == \A c \in Callers : Done(c) =>
  /\ (call[c].ret = "ok") <=> (call[c].took.how # "not")
  /\ call[c].took.how # "trash" =>
       \A n \in Names \ alien : info[n].by # c /\ files[n].by # c

\* What a successful call put in the trash is the version it took off the path, with its whole
\* information, unless a foreign tool used the name or the object changed after the last check.
CompleteEntry == \A c \in Callers :
  (Done(c) /\ call[c].took.how = "trash" /\ call[c].slot \notin alien) =>
    /\ info[call[c].slot] = [by |-> c, whole |-> TRUE]
    /\ files[call[c].slot].by = c
    /\ call[c].late \/ (/\ files[call[c].slot].id = call[c].took.id
                        /\ files[call[c].slot].ver = call[c].took.ver)

\* Only the object the eligibility stat saw is trashed, unless it was replaced after the last
\* check (the recheck before the move, #44).
ChosenOnly == \A c \in Callers :
  call[c].took.how = "trash" => call[c].took.id = call[c].meta.id \/ call[c].late

\* Once a copy has begun, a source that changed is not deleted for real, as long as it changed
\* before the last check (retire_copied_source: NotTrashed would delete the replacement).
\* The exception is the code's: a link that is replaced before its copy is made. Then the copy
\* fails and the real call deletes the replacement, whatever it is.
LinkLost(k) == k.src.kind = "link" /\ ~k.copied
ReplacedKept == \A c \in Callers :
  (call[c].copying /\ call[c].took.how = "real") =>
    \/ call[c].late
    \/ call[c].took.id = call[c].src.id /\ call[c].took.ver = call[c].src.ver
    \/ LinkLost(call[c])

\* An unsafe or broken store never turns a call that was to be trashed into a deletion
\* (TrashAttempt::UnsafeStore).
FailsClosed == \A c \in Callers :
  call[c].passed /\ setting.store \in {"unsafe", "broken"} => call[c].took.how = "not"

\* Nothing else goes than what the call was made for, seen and not changed since, and only to
\* where it was to go, but for what replaces a link before it is copied.
NothingElseGoes == ChosenOnly /\ ReplacedKept /\ FailsClosed

\* Every call returns or dies: no wait for the lock its own process holds.
CallsEnd == \A c \in Callers : (call[c].pc # "idle") ~> (call[c].pc \in {"done", "dead"})
=============================================================================
