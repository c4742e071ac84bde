----------------------------- MODULE MCDaemon ------------------------------
(* What must be decided, logged or noticed in the end: the root a delete     *)
(* goes to, the log of the deletion monitor, the mounts it watches, and a    *)
(* configuration that changes.  Each behaviour takes the steps of one part;  *)
(* the variables of the others are Off, and those of RootChoice stay as they *)
(* are at first.                                                             *)
EXTENDS RootChoice, TLC

CONSTANTS p, q, Off, Overflow, Deleted

VARIABLES
  part,
  auditSetting, place, rec, opened, queue, auditPc, batch, auditTodo, holding, deferred, decodes,
  paths, order, lines, moves, gone, dropped, had, reads, readIn, forgotten,
  mountsSetting, table, reported, marks, mountsPc, listed, fresh, marked, watched, due,
  mountsChanges,
  kinds, conf, local, mtime, noticePc, path, dir, rules, key, policy, skips, noticeDue, base,
  told, writes, noticeSame, calm, ever

auditVars == <<auditSetting, place, rec, opened, queue, auditPc, batch, auditTodo, holding,
  deferred, decodes, paths, order, lines, moves, gone, dropped, had, reads, readIn, forgotten>>
mountsVars == <<mountsSetting, table, reported, marks, mountsPc, listed, fresh, marked, watched,
  due, mountsChanges>>
noticeVars == <<kinds, conf, local, mtime, noticePc, path, dir, rules, key, policy, skips,
  noticeDue, base, told, writes, noticeSame, calm, ever>>

-----------------------------------------------------------------------------
(* Two processes p and q delete files of one volume: both implementations,   *)
(* all kinds of volume, and roots that are missing, loose or another's.      *)
Missing == [x \in {"root", "files", "info", "state"} |-> "none"]
Whole == [x \in DOMAIN Missing |-> "ours"]
States(s, v, h) == ("shared" :> s) @@ ("private" :> v) @@ ("home" :> h) @@ ("own" :> Missing)
Volume(k, top, sh, home, nodes, same, busy, ch) ==
  [kinds |-> (p :> k[1]) @@ (q :> k[2]), top |-> top, shared |-> sh,
   homes |-> ("home" :> home) @@ ("own" :> "own"), nodes |-> nodes, same |-> same, busy |-> busy, changes |-> ch]
Kinds == {<<"store", "preload">>, <<"preload", "preload">>}
Volumes ==
  {Volume(<<"store", "preload">>, top, "sticky", "own", States(Missing, Missing, Whole), FALSE, FALSE, 1) :
     top \in {"sticky", "safe"}}
  \cup {Volume(k, top, sh, "own", States([Missing EXCEPT !["root"] = s], v, Whole), FALSE, FALSE, 0) :
     k \in Kinds, top \in {"own", "loose"}, sh \in {"plain", "sticky"}, s \in {"none", "open", "foreign"},
     v \in {Missing, [Whole EXCEPT !["files"] = "open"]}}
  \cup {Volume(k, "sticky", "none", h, States(Missing, Missing, Missing), sm, ~sm, 0) :
     k \in Kinds, h \in {"own", "loose", "gone"}, sm \in BOOLEAN}

-----------------------------------------------------------------------------
(* A tree r with a directory a (with a file f) and in it a directory b (with *)
(* a file g); another file system s where a directory x has the handle of a. *)
Names == {"r", "a", "b", "f", "g", "s", "x", "y"}
Nowhere == [n \in Names |-> None]
Tree == ("r" :> "r") @@ ("a" :> "r") @@ ("b" :> "a") @@ ("f" :> "a") @@ ("g" :> "b") @@ Nowhere
Both == ("r" :> "r") @@ ("a" :> "r") @@ ("f" :> "a") @@ ("s" :> "s") @@ ("x" :> "s") @@ ("y" :> "x") @@ Nowhere
Deleting(at, open, ms, tf, que, rd, c, mv) ==
  [start |-> at, dirs |-> {"r", "a", "b", "s", "x"}, open |-> open, mounts |-> ms, target |-> tf,
   queue |-> que, read |-> rd, cached |-> c, moves |-> mv]
\* a and b held open, and a cache for fewer directories than there are, as 4096 are fewer than a
\* read can name
Logs == {Deleting(Tree, {}, <<1>>, TRUE, 4, rd, 4, 1) : rd \in {1, 2, 4}}
  \cup {Deleting(Tree, {"a", "b"}, <<1>>, TRUE, 4, 2, 4, 0)}
  \cup {Deleting(Tree, {}, <<1>>, TRUE, 4, 2, c, 0) : c \in {1, 2}}
  \cup {Deleting(Tree, {}, <<1>>, TRUE, 2, 2, 4, 0), Deleting(Tree, {}, <<1>>, FALSE, 4, 2, 4, 1),
        Deleting(Both, {}, <<1, 2>>, TRUE, 4, 2, 4, 0), Deleting(Both, {}, <<2, 1>>, TRUE, 4, 3, 6, 0)}
A == INSTANCE DeletionAudit WITH
  Nodes <- Names, Roots <- {"r", "s"}, Fs <- [n \in Names |-> IF n \in {"s", "x", "y"} THEN 2 ELSE 1],
  Handle <- [n \in Names |-> CASE n \in {"r", "s"} -> 1 [] n \in {"a", "x"} -> 2 [] n = "b" -> 3
                               [] n = "f" -> 4 [] n = "g" -> 5 [] n = "y" -> 6],
  Settings <- Logs,
  setting <- auditSetting, pc <- auditPc, todo <- auditTodo

-----------------------------------------------------------------------------
(* Superblocks s1 and s2 of one file system, one after the other, s3 of      *)
(* another, s4 that cannot be marked and a tmpfs s5.                         *)
At(s, bd, n) == [super |-> s, bind |-> bd, id |-> n]
Tables ==
  {[start |-> st, polls |-> po, busy |-> bu, changes |-> IF po THEN 3 ELSE 2] : po \in BOOLEAN, bu \in BOOLEAN,
     st \in {(1 :> At("s1", FALSE, 1)) @@ (2 :> At("s3", FALSE, 2)),
             (1 :> At("s1", TRUE, 1)) @@ (2 :> At("s1", FALSE, 2)), (1 :> At("s4", FALSE, 1)) @@ (2 :> None)}}
M == INSTANCE MountWatch WITH
  Points <- {1, 2}, Supers <- {"s1", "s2", "s3", "s4", "s5"}, Markable <- {"s1", "s2", "s3"}, Memory <- {"s5"},
  FsidOf <- [s1 |-> "x", s2 |-> "x", s3 |-> "y", s4 |-> "z", s5 |-> "w"], Settings <- Tables,
  setting <- mountsSetting, pc <- mountsPc, changes <- mountsChanges

-----------------------------------------------------------------------------
(* A preloaded library goes on deleting while its configuration changes.     *)
Unset == [never |-> None, only |-> None]
Conf(s, n, o) == [state |-> s, root |-> [never |-> n, only |-> o], old |-> Unset]
Toml(s, n, o) == [state |-> s, never |-> n, only |-> o]
Absent == Conf("absent", None, None)
Rules ==
  {[kinds |-> (p :> "preload") @@ (q :> None), conf |-> [global |-> g, user |-> Absent],
    local |-> <<l, Toml("absent", {}, {})>>] :
     g \in {Absent, Conf("broken", None, {"pb"})}, l \in {Toml("absent", {}, {}), Toml("ok", {"pa"}, {})}}
N == INSTANCE DeletePolicy WITH
  Procs <- {p, q}, Paths <- {"a", "b", "t"}, Dirs <- {1, 2},
  Matches <- [pa |-> {"a"}, pb |-> {"b"}, pt |-> {"t"}, br |-> {}], Unsupported <- {"br"}, Defaults <- {"pt"},
  Starts <- Rules, Confs <- {Absent, Conf("ok", None, {"br"})},
  Locals <- {Toml("absent", {}, {}), Toml("ok", {}, {"br"})}, MaxWrites <- 2,
  pc <- noticePc, due <- noticeDue, same <- noticeSame

-----------------------------------------------------------------------------
AuditOff ==
  /\ auditSetting = Off /\ place = Off /\ rec = Off /\ queue = Off /\ auditPc = Off /\ batch = Off
  /\ auditTodo = Off /\ holding = Off /\ deferred = Off /\ decodes = Off /\ paths = Off
  /\ order = Off /\ lines = Off /\ moves = Off /\ gone = Off /\ dropped = Off /\ had = Off
  /\ reads = Off /\ readIn = Off /\ opened = Off /\ forgotten = Off
MountsOff ==
  /\ mountsSetting = Off /\ table = Off /\ reported = Off /\ marks = Off /\ mountsPc = Off
  /\ fresh = Off /\ marked = Off /\ watched = Off /\ due = Off /\ mountsChanges = Off
  /\ listed = Off
NoticeOff ==
  /\ kinds = Off /\ conf = Off /\ local = Off /\ mtime = Off /\ noticePc = Off /\ path = Off
  /\ dir = Off /\ rules = Off /\ key = Off /\ policy = Off /\ skips = Off /\ noticeDue = Off
  /\ base = Off /\ told = Off /\ writes = Off /\ noticeSame = Off /\ calm = Off /\ ever = Off

Begin ==
  /\ part \in {"choice", "audit", "mounts", "notice"}
  /\ Init /\ (part # "choice" => setting = CHOOSE s \in Settings : TRUE)
  /\ IF part = "audit" THEN A!Init ELSE AuditOff
  /\ IF part = "mounts" THEN M!Init ELSE MountsOff
  /\ IF part = "notice" THEN N!Init ELSE NoticeOff

ChoiceMoves == part = "choice" /\ Next /\ UNCHANGED <<part, auditVars, mountsVars, noticeVars>>
AuditMoves == part = "audit" /\ A!Next /\ UNCHANGED <<part, vars, mountsVars, noticeVars>>
MountsMoves == part = "mounts" /\ M!Next /\ UNCHANGED <<part, vars, auditVars, noticeVars>>
NoticeMoves == part = "notice" /\ N!Next /\ UNCHANGED <<part, vars, auditVars, mountsVars>>
Move == ChoiceMoves \/ AuditMoves \/ MountsMoves \/ NoticeMoves
Fair ==
  /\ \A w \in {p, q} :
       /\ WF_vars(part = "choice" /\ Step(w))
       /\ WF_noticeVars(part = "notice" /\ N!Step(w)) /\ WF_noticeVars(part = "notice" /\ N!Tick(w))
       /\ \A x \in {"a", "b", "t"} : SF_noticeVars(part = "notice" /\ N!Call(w, x))
  /\ WF_auditVars(part = "audit" /\ A!Daemon)
  /\ WF_mountsVars(part = "mounts" /\ M!Daemon)
Behaviour == Begin /\ [][Move]_<<part, vars, auditVars, mountsVars, noticeVars>> /\ Fair

-----------------------------------------------------------------------------
(* Properties.                                                             *)

\* The log has every deletion once and in order, under a path it has had, decoded on its own
\* file system.
AuditTrue ==
  /\ part = "audit" => A!TypeOK /\ A!Accounted /\ A!TruePath /\ A!Named
  /\ part = "mounts" => M!TypeOK

\* Once the users stop, every delete is decided, every recorded deletion is logged, every mount is
\* marked and resolved on, and a process that goes on deleting has reported a changed configuration.
SettledInTheEnd == <>[](
  /\ part = "choice" => Decided
  /\ part = "audit" => A!EveryLogged
  /\ part = "mounts" => M!AllMarked /\ M!AllResolved
  /\ part = "notice" => \A w \in {p, q} : N!Changed(w) => N!Noticed(w))
=============================================================================
