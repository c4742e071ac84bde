------------------------------ MODULE RmCommand ------------------------------
(* One invocation of the rm shim (trashd-shim/src/rm.rs, main): the options, *)
(* the guards on the whole command, and then every operand in turn, looked   *)
(* at, asked about, trashed, and really removed only where trash excludes    *)
(* it.  Others change an operand between two steps.  The walk of RmWalk is   *)
(* one step here; the store is external.                                     *)
EXTENDS Integers, Sequences, SequencesExt

CONSTANTS
  Paths,       \* the entries operands may name
  Root,        \* the one that is /
  Excluded,    \* those the trash excludes
  Target,      \* [Paths -> Paths]: where an operand `link/' leads, else itself
  Commands,    \* the command lines tried
  Trees,       \* what the paths may be when rm starts
  MaxChanges   \* bound: changes made by others

Kinds == {"none", "file", "empty", "full", "unreadable", "mount", "emptyMount"}
Directories == Kinds \ {"none", "file"}
Mounted == {"mount", "emptyMount"}

VARIABLES
  cmd,         \* the command line and the environment
  obj,         \* [Paths -> Kinds]
  pc,          \* "start", "look", "list", "trash", "walk", "rmdir", "real", "done", "exec"
  next,        \* the operand in hand
  exit,        \* exit_code
  trashed, deleted,  \* what went, as <<path, kind>>
  declined,    \* paths whose removal the user declined
  changes,
  unlisted     \* GHOST: paths whose entries could not be listed


vars == <<cmd, obj, pc, next, exit, trashed, deleted, declined, changes, unlisted>>

-----------------------------------------------------------------------------
(* RemovalBehavior: the last option decides about prompts; -f ignores what   *)
(* is missing, whatever follows it.                                          *)

Interaction == IF cmd.options = <<>> THEN "never"
               ELSE LET last == Last(cmd.options) IN IF last = "force" THEN "never" ELSE last
IgnoreMissing == "force" \in Range(cmd.options)
PromptOnce == Interaction = "once" /\ (cmd.recursive \/ Len(cmd.operands) > 3)
Always == Interaction = "always"

\* effective_operand and is_root_operand
Path == Target[cmd.operands[next]]
HasRoot == \E i \in DOMAIN cmd.operands : Target[cmd.operands[i]] = Root

-----------------------------------------------------------------------------
Finish(code) ==
  /\ pc' = "done" /\ exit' = code
  /\ UNCHANGED <<next, declined>>

\* before anything is looked at
Start ==
  /\ pc = "start"
  /\ UNCHANGED <<cmd, obj, trashed, deleted, changes, unlisted>>
  /\ CASE cmd.bypass -> pc' = "exec" /\ UNCHANGED <<next, exit, declined>>
       [] ~cmd.bypass /\ cmd.invalid -> Finish("failure")
       [] OTHER ->
            IF cmd.recursive /\ ~cmd.noPreserveRoot /\ HasRoot THEN Finish("failure")
            ELSE IF cmd.permanent THEN pc' = "exec" /\ UNCHANGED <<next, exit, declined>>
            ELSE IF cmd.operands = <<>>
            THEN Finish(IF IgnoreMissing THEN "success" ELSE "failure")
            ELSE IF cmd.parentBypassed THEN pc' = "exec" /\ UNCHANGED <<next, exit, declined>>
            ELSE \/ Finish("failure")      \* the trash cannot be opened
                 \/ PromptOnce /\ Finish("success")       \* declined
                 \/ pc' = "look" /\ UNCHANGED <<next, exit, declined>>

\* Mutant of Continue: the same operand again.
ContinueSame(code) ==
  /\ exit' = code /\ UNCHANGED next
  /\ pc' = IF next = Len(cmd.operands) THEN "done" ELSE "look"
\* on to the next operand
Continue(code) ==
  /\ exit' = IF code = "failure" THEN "failure" ELSE exit
  /\ next' = next + 1
  /\ pc' = IF next = Len(cmd.operands) THEN "done" ELSE "look"

Failed == Continue("failure") /\ UNCHANGED declined
Skipped == Continue("success") /\ UNCHANGED declined
Declined == Continue("success") /\ declined' = declined \cup {Path}
Then(step) == pc' = step /\ UNCHANGED <<next, exit, declined>>
Ask(step) == Then(step) \/ (Always /\ Declined)

EmptyOnly == cmd.dir /\ ~cmd.recursive

LookAtDirectory(k) ==
  CASE ~cmd.recursive /\ ~cmd.dir -> Failed
    [] (cmd.recursive \/ cmd.dir) /\ cmd.preserveAll /\ k \in Mounted -> Failed
    [] EmptyOnly /\ ~cmd.preserveAll /\ k = "emptyMount" -> Failed \/ (Always /\ Declined)
    [] EmptyOnly /\ ~cmd.preserveAll /\ k = "mount" -> Failed
    [] EmptyOnly /\ k \notin Mounted -> Then("list")
    [] cmd.recursive /\ ~(cmd.preserveAll /\ k \in Mounted) ->
         IF cmd.oneFileSystem \/ Always \/ k \in Mounted THEN Then("walk") ELSE Then("trash")

Look ==
  /\ pc = "look"
  /\ UNCHANGED <<cmd, obj, trashed, deleted, changes, unlisted>>
  /\ IF cmd.operands[next] \in cmd.dots THEN Failed
     ELSE LET k == obj[Path] IN
          CASE k = "none" -> IF IgnoreMissing THEN Skipped ELSE Failed
            [] k \in Directories -> LookAtDirectory(k)
            [] k = "file" -> Ask("trash")

\* read_dir, for -d without -r: what is not empty stays; what cannot be listed is left to
\* rmdir(2), so the code says, and given to real_rm
List ==
  /\ pc = "list"
  /\ UNCHANGED <<cmd, obj, trashed, deleted, changes>>
  /\ CASE obj[Path] \in {"full", "mount"} -> Failed /\ UNCHANGED unlisted
       [] obj[Path] \in {"empty", "emptyMount"} -> Ask("trash") /\ UNCHANGED unlisted
       [] obj[Path] \in {"none", "file", "unreadable"} -> Ask("rmdir") /\ unlisted' = unlisted \cup {Path}

Gone(how) ==
  /\ obj' = [obj EXCEPT ![Path] = "none"]
  /\ trashed' = IF how = "trash" THEN trashed \cup {<<Path, obj[Path]>>} ELSE trashed
  /\ deleted' = IF how = "real" THEN deleted \cup {<<Path, obj[Path]>>} ELSE deleted
Stays == UNCHANGED <<obj, trashed, deleted>>

\* Mutant of Trash: what cannot be trashed is removed for real (#10).
TrashEscalates ==
  /\ pc = "trash"
  /\ UNCHANGED <<cmd, changes, unlisted>>
  /\ \/ obj[Path] \notin Mounted \cup {"none"} /\ Path \notin Excluded /\ Gone("trash") /\ Skipped
     \/ obj[Path] # "none" /\ Stays /\ Then("real")
     \/ Stays /\ Failed
\* store.trash: moved, excluded, or refused for one of many reasons, which all leave it alone
Trash ==
  /\ pc = "trash"
  /\ UNCHANGED <<cmd, changes, unlisted>>
  /\ \/ obj[Path] \notin Mounted \cup {"none"} /\ Path \notin Excluded /\ Gone("trash") /\ Skipped
     \/ obj[Path] # "none" /\ Path \in Excluded /\ Stays /\ Then("real")
     \/ Stays /\ Failed

\* Walk::remove, see RmWalk; what is left was declined or is reported
WalkOperand ==
  /\ pc = "walk"
  /\ UNCHANGED <<cmd, changes, unlisted>>
  /\ \/ obj[Path] \notin Mounted \cup {"none"} /\ Gone("trash") /\ Skipped
     \/ Always /\ Stays /\ Declined
     \/ obj[Path] = "none" /\ IgnoreMissing /\ Stays /\ Skipped
     \/ Stays /\ Failed

\* real_rm: whatever the path is by now
Removes(k, recursive, dir) ==
  \/ k = "file"
  \/ k \in {"empty", "full", "unreadable"} /\ recursive
  \/ k = "empty" /\ dir
  \/ k = "unreadable" /\ dir /\ ~recursive

Real ==
  /\ pc \in {"real", "rmdir"}
  /\ UNCHANGED <<cmd, changes, unlisted>>
  /\ \/ /\ Removes(obj[Path], cmd.recursive /\ pc = "real", cmd.dir \/ pc = "rmdir")
        /\ Gone("real") /\ Skipped
     \/ Stays /\ Failed

Change ==
  /\ pc \notin {"done", "exec"} /\ changes < MaxChanges
  /\ \E p \in Paths \ {Root}, k \in {"none", "file", "empty", "full"} :
       k # obj[p] /\ obj' = [obj EXCEPT ![p] = k]
  /\ changes' = changes + 1
  /\ UNCHANGED <<cmd, pc, next, exit, trashed, deleted, declined, unlisted>>

Init ==
  /\ cmd \in Commands /\ obj \in Trees
  /\ pc = "start" /\ next = 1 /\ exit = "success"
  /\ trashed = {} /\ deleted = {} /\ declined = {} /\ changes = 0
  /\ unlisted = {}

Step == Start \/ Look \/ List \/ Trash \/ WalkOperand \/ Real
Next == Step \/ Change
Spec == Init /\ [][Next]_vars /\ WF_vars(Step)

-----------------------------------------------------------------------------
Operands == {Target[cmd.operands[i]] : i \in DOMAIN cmd.operands}
Taken == trashed \cup deleted

TypeOK ==
  /\ cmd \in Commands /\ obj \in [Paths -> Kinds]
  /\ pc \in {"start", "look", "list", "trash", "walk", "rmdir", "real", "done", "exec"}
  /\ next \in 1 .. Len(cmd.operands) + 1 /\ exit \in {"success", "failure"}
  /\ Taken \subseteq Operands \X (Kinds \ (Mounted \cup {"none"}))
  /\ declined \subseteq Operands /\ unlisted \subseteq Operands

(* The shim itself deletes only what the trash excludes, or with -d a        *)
(* directory it cannot list, which then is empty; a trash that fails is no   *)
(* reason (#10).  The exception: a file put in place of the directory after  *)
(* it was looked at cannot be listed either, and is deleted for real.  With  *)
(* something in it, a directory goes only with -r and only if excluded,      *)
(* whatever has replaced the operand since.                                  *)
NothingLost ==
  \A d \in deleted :
    /\ d[1] \in Excluded \cup unlisted
    /\ d[1] \notin Excluded /\ d[2] = "file" => changes > 0
    /\ d[2] = "full" => cmd.recursive /\ d[1] \in Excluded

(* Exit 0 means that every operand is gone, unless the user kept it; as long *)
(* as nobody interferes.                                                     *)
HonestExit ==
  pc = "done" /\ exit = "success" /\ changes = 0 /\ ~PromptOnce =>
    \A p \in Operands : obj[p] = "none" \/ p \in declined

(* Everything or nothing: a command refused as a whole (/, an invalid option, *)
(* a closed trash) touches no operand; otherwise each one is tried, even     *)
(* after another failed.                                                     *)
AllTried ==
  pc = "done" =>
    \/ next = Len(cmd.operands) + 1 /\ ~cmd.invalid
    \/ Taken = {} /\ (exit = "failure" \/ PromptOnce \/ cmd.operands = <<>>)

(* The failsafe covers every operand and every link to /.                    *)
RootSafe ==
  (cmd.recursive /\ ~cmd.noPreserveRoot /\ \E i \in DOMAIN cmd.operands : Target[cmd.operands[i]] = Root)
     => Taken = {} /\ pc \in {"start", "done", "exec"}

(* rm ends, or has become the real rm.                                       *)
Ended == pc \in {"done", "exec"}
=============================================================================
