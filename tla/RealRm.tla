------------------------------- MODULE RealRm -------------------------------
(* How the rm shim finds the rm it passes through to (trashd-shim/src/rm.rs, *)
(* real_rm_path to passthrough_with_args).  An older installer could leave a *)
(* copy of the shim where the real rm belongs; executing it would recurse.   *)
(* Each candidate is probed once (rm --version) and the verdict remembered   *)
(* in a file all invocations share.  Installers replace candidates and       *)
(* probes fail at any moment.                                                *)
EXTENDS Integers, Sequences, SequencesExt

CONSTANTS
  Procs,         \* concurrent invocations
  Candidates,    \* the paths tried, in order, as [path, stash]
  Default,       \* /usr/bin/rm, when none will do
  Kinds,         \* what may be installed at a path
  MaxLines,      \* bound of the code: verdicts the file keeps (32)
  MaxReinstalls, \* bound: installations while somebody runs
  MaxFaults,     \* bound: probes that cannot be run or are killed
  NoRm

VARIABLES
  bin,       \* [Paths -> [what, id] or NoRm]: the candidates on disk
  installs,  \* so many so far; the next identity
  verdicts,  \* the shared file: lines [path, id, shim]
  pc, at,    \* what each invocation does, with which candidate
  known,     \* CACHED: [Procs -> [path -> verdict]]
  id,        \* the identity read before the probe
  copy,      \* the verdicts loaded to be rewritten
  chosen,    \* the rm to execute
  execd,     \* what was executed in the end
  faults,
  touched    \* whether a candidate changed, or a probe failed, while it ran

vars == <<bin, installs, verdicts, pc, at, known, id, copy, chosen, execd, faults, touched>>

Paths == {Candidates[i].path : i \in DOMAIN Candidates} \cup {Default}
IsShim(what) == what = "shim"
Lines == [path : Paths, id : 0 .. Len(Candidates) + MaxReinstalls, shim : BOOLEAN]

Set(p, step) == pc' = [pc EXCEPT ![p] = step]
\* passthrough_with_args looks once more at what real_rm_path found
Guarding(p) == pc[p] \in {"guard", "guardProbe", "guardRemember"}
Path(p) == IF Guarding(p) THEN Default ELSE Candidates[at[p]].path

\* /usr/bin/rm is among the candidates
RealAssumption ==
  /\ Candidates \in Seq([path : {Candidates[i].path : i \in DOMAIN Candidates}, stash : BOOLEAN])
  /\ \E i \in DOMAIN Candidates : Candidates[i].path = Default
  /\ NoRm \notin [what : Kinds, id : Nat]
  /\ MaxLines \in Nat \ {0} /\ MaxReinstalls \in Nat

-----------------------------------------------------------------------------
\* the candidate is no rm to execute: the next one; after a poisoned stash, PATH
Advance(p, poisoned) ==
  LET rest == {i \in DOMAIN Candidates : i > at[p] /\ ~(poisoned /\ Candidates[i].stash)} IN
  IF rest = {}
  THEN chosen' = [chosen EXCEPT ![p] = Default] /\ Set(p, "guard") /\ UNCHANGED at
  ELSE /\ at' = [at EXCEPT ![p] = CHOOSE i \in rest : \A j \in rest : i <= j]
       /\ Set(p, "next") /\ UNCHANGED chosen

\* what a verdict leads to
Judge(p, shim) ==
  IF Guarding(p)
  THEN Set(p, IF shim THEN "refused" ELSE "exec") /\ UNCHANGED <<at, chosen>>
  ELSE IF shim THEN Advance(p, Candidates[at[p]].stash)
  ELSE chosen' = [chosen EXCEPT ![p] = Path(p)] /\ Set(p, "exec") /\ UNCHANGED at

Known(p) == Path(p) \in DOMAIN known[p]
Learn(p, shim) ==
  known' = [known EXCEPT ![p] = [q \in DOMAIN known[p] \cup {Path(p)} |->
                                    IF q = Path(p) THEN shim ELSE known[p][q]]]

\* ProbeVerdicts::get
Remembered(path, i) == {l \in Range(verdicts) : l.path = path /\ l.id = i}

\* genuine_rm and probed_shim up to the probe
Examine(p) ==
  /\ pc[p] \in {"next", "guard"}
  /\ UNCHANGED <<bin, installs, verdicts, copy, execd, faults, touched>>
  /\ LET b == bin[Path(p)]
         here == IF b = NoRm THEN {} ELSE Remembered(Path(p), b.id)
     IN
     CASE b = NoRm /\ pc[p] = "next" -> Advance(p, FALSE) /\ UNCHANGED <<known, id>>
       [] Known(p) /\ (b # NoRm \/ pc[p] = "guard") ->
            Judge(p, known[p][Path(p)]) /\ UNCHANGED <<known, id>>
       [] ~Known(p) /\ here # {} ->
            LET shim == (CHOOSE l \in here : TRUE).shim IN
            Judge(p, shim) /\ Learn(p, shim) /\ UNCHANGED id
       [] ~Known(p) /\ here = {} /\ (b # NoRm \/ pc[p] = "guard") ->
            /\ id' = [id EXCEPT ![p] = IF b = NoRm THEN 0 ELSE b.id]
            /\ Set(p, IF Guarding(p) THEN "guardProbe" ELSE "probe")
            /\ UNCHANGED <<at, chosen, known>>

\* the probe: executes whatever the path is by now.  Spawn errors count as a
\* shim; a killed probe printed nothing; neither describes the binary
Outcomes(p) ==
  LET b == bin[Path(p)]
      done == IF b = NoRm THEN {[shim |-> TRUE, keep |-> FALSE]}
              ELSE {[shim |-> IsShim(b.what), keep |-> id[p] # 0]}
  IN [fault : {FALSE}, result : done]
       \cup [fault : {TRUE}, result : {[shim |-> s, keep |-> FALSE] : s \in BOOLEAN}]

Probe(p) ==
  /\ pc[p] \in {"probe", "guardProbe"}
  /\ UNCHANGED <<bin, installs, verdicts, id, execd>>
  /\ \E o \in Outcomes(p) :
       /\ o.fault => faults < MaxFaults
       /\ faults' = faults + IF o.fault THEN 1 ELSE 0
       /\ touched' = IF o.fault THEN [touched EXCEPT ![p] = TRUE] ELSE touched
       /\ Learn(p, o.result.shim)
       /\ IF o.result.keep
          THEN /\ Set(p, IF Guarding(p) THEN "guardRemember" ELSE "remember")
               /\ copy' = [copy EXCEPT ![p] = verdicts] /\ UNCHANGED <<at, chosen>>
          ELSE Judge(p, o.result.shim) /\ UNCHANGED copy

\* ProbeVerdicts::remember: staged and renamed; it may undo another's line, or fail
Rewritten(p) ==
  LET old == {i \in DOMAIN copy[p] : copy[p][i].path = Path(p)}   \* one line at most
      others == IF old = {} THEN copy[p] ELSE RemoveAt(copy[p], CHOOSE i \in old : TRUE)
      all == Append(others, [path |-> Path(p), id |-> id[p], shim |-> known[p][Path(p)]])
  IN IF Len(all) > MaxLines THEN Tail(all) ELSE all

Remember(p) ==
  /\ pc[p] \in {"remember", "guardRemember"}
  /\ verdicts' \in {Rewritten(p), verdicts}
  /\ Judge(p, known[p][Path(p)])
  /\ id' = [id EXCEPT ![p] = 0] /\ copy' = [copy EXCEPT ![p] = <<>>]
  /\ UNCHANGED <<bin, installs, known, execd, faults, touched>>

\* passthrough_with_args: the shell's process becomes the rm
Exec(p) ==
  /\ pc[p] = "exec"
  /\ execd' = [execd EXCEPT ![p] = IF bin[chosen[p]] = NoRm THEN "nothing" ELSE bin[chosen[p]].what]
  /\ Set(p, "done")
  /\ known' = [known EXCEPT ![p] = [q \in {} |-> FALSE]]
  /\ UNCHANGED <<bin, installs, verdicts, at, id, copy, chosen, faults, touched>>

Reinstall ==
  /\ installs < Len(Candidates) + MaxReinstalls
  /\ \E p \in Procs : pc[p] \notin {"done", "refused"}
  /\ installs' = installs + 1
  /\ \E path \in Paths, what \in Kinds :
       /\ bin[path] # NoRm => what # bin[path].what
       /\ bin' = [bin EXCEPT ![path] = IF what = "none" THEN NoRm ELSE [what |-> what, id |-> installs + 1]]
  /\ touched' = [p \in Procs |-> pc[p] # "start"]
  /\ UNCHANGED <<verdicts, pc, at, known, id, copy, chosen, execd, faults>>

Begin(p) ==
  /\ pc[p] = "start"
  /\ Set(p, "next")
  /\ UNCHANGED <<bin, installs, verdicts, at, known, id, copy, chosen, execd, faults, touched>>

Init ==
  /\ \E k \in [1 .. Len(Candidates) -> Kinds] :
       bin = [path \in Paths |->
                LET i == CHOOSE i \in DOMAIN Candidates : Candidates[i].path = path
                IN IF k[i] = "none" THEN NoRm ELSE [what |-> k[i], id |-> i]]
  /\ installs = Len(Candidates)
  /\ verdicts = <<>>
  /\ pc = [p \in Procs |-> "start"] /\ at = [p \in Procs |-> 1]
  /\ known = [p \in Procs |-> [q \in {} |-> FALSE]] /\ id = [p \in Procs |-> 0]
  /\ copy = [p \in Procs |-> <<>>] /\ chosen = [p \in Procs |-> Default]
  /\ execd = [p \in Procs |-> "none"] /\ faults = 0
  /\ touched = [p \in Procs |-> FALSE]

Step(p) == Begin(p) \/ Examine(p) \/ Probe(p) \/ Remember(p) \/ Exec(p)
Next == Reinstall \/ \E p \in Procs : Step(p)
Spec == Init /\ [][Next]_vars /\ \A p \in Procs : WF_vars(Step(p))

-----------------------------------------------------------------------------
TypeOK ==
  /\ bin \in [Paths -> [what : Kinds \ {"none"}, id : Nat] \cup {NoRm}]
  /\ verdicts \in Seq(Lines) /\ Len(verdicts) <= MaxLines
  /\ \A i, j \in DOMAIN verdicts : verdicts[i].path = verdicts[j].path => i = j
  /\ \A p \in Procs : at[p] \in DOMAIN Candidates /\ DOMAIN known[p] \subseteq Paths

(* A shim copy is never executed, unless it was put there, or a probe was    *)
(* killed, while the invocation ran: no chain of copies recurses.            *)
NoRecursion == \A p \in Procs : execd[p] = "shim" => touched[p]

(* A remembered verdict is true of the binary it is looked up for, whatever  *)
(* was replaced or failed since: one bad probe poisons one invocation only.  *)
VerdictsTrue ==
  \A l \in Range(verdicts) :
    bin[l.path] # NoRm /\ bin[l.path].id = l.id => l.shim = IsShim(bin[l.path].what)

(* A genuine rm outside the stash is found: only a command without one is    *)
(* refused.                                                                  *)
GenuineFound ==
  \A p \in Procs : pc[p] = "refused" /\ ~touched[p] =>
    \A i \in DOMAIN Candidates :
      ~Candidates[i].stash /\ bin[Candidates[i].path] # NoRm
        => bin[Candidates[i].path].what = "shim"
=============================================================================
