----------------------------- MODULE MountWatch -----------------------------
(* Which file systems the deletion monitor (trashd-daemon) watches: a mark   *)
(* lives in a superblock and dies with its last mount, so the daemon marks   *)
(* all mounts again whenever the mount table changes.  For resolving handles *)
(* it keeps [mount point, f_fsid] pairs, which a remount at the same point   *)
(* makes wrong: two superblocks may even have the same f_fsid.               *)
EXTENDS Integers, Sequences, FiniteSets, SequencesExt, TLC

CONSTANTS
  Points, Supers,   \* mount points; the superblocks, of all mounts there ever are
  FsidOf,           \* [Supers -> f_fsid]: a file system mounted again keeps it
  Markable, Memory, \* superblocks fanotify accepts, and those of tmpfs, overlay, ...
  Settings,         \* [start, polls, busy, changes]: the first mounts, whether /proc/self/mounts
                    \* opens, whether deletions never stop, and a bound for mount changes
  None

VARIABLES
  setting,
  table,            \* [Points -> [super, bind, id] or None]
  reported,         \* the table has not changed since poll was last told (POLLPRI)
  marks,            \* superblocks that are marked
  pc,
  listed,           \* mount_list: the mounts found at the start
  fresh,            \* the mounts of the scan that are still to be marked
  marked,           \* marked_paths: [Points -> fsid or None]
  watched,          \* mount_fds: sequence of [at, fsid], in the order they are tried
  due,              \* without the table: the last refresh is at least a second ago
  changes

vars == <<setting, table, reported, marks, pc, listed, fresh, marked, watched, due, changes>>

World == <<setting, table, marks, changes>>
Super(p) == table[p].super
Mounted(p) == table[p] # None
Live == {Super(p) : p \in {q \in Points : Mounted(q)}}
Fsid(p) == IF Mounted(p) THEN FsidOf[Super(p)] ELSE None         \* fsid_of_path
\* list_mounts, less what is skipped, in any order
Scanned == {p \in Points : Mounted(p) /\ (Mounted(p) => Super(p) \notin Memory)}

-----------------------------------------------------------------------------
(* the mounts *)

Mount(p, s, b) ==
  /\ changes < setting.changes /\ changes' = changes + 1 /\ ~Mounted(p)
  /\ (b => s \in Live) /\ (s \notin Live => s \notin marks)
  /\ table' = [table EXCEPT ![p] = [super |-> s, bind |-> b, id |-> changes + 10]]
  /\ reported' = FALSE
  /\ UNCHANGED <<setting, marks, pc, listed, fresh, marked, watched, due>>
\* the mark goes with the superblock
Unmount(p) ==
  /\ changes < setting.changes /\ changes' = changes + 1 /\ Mounted(p)
  /\ table' = [table EXCEPT ![p] = None] /\ reported' = FALSE
  /\ marks' = marks \cap {Super(q) : q \in {o \in Points \ {p} : Mounted(o)}}
  /\ UNCHANGED <<setting, pc, listed, fresh, marked, watched, due>>

-----------------------------------------------------------------------------
(* starting *)

\* before the first scan, so that a mount added while it runs is reported (#344)
Open ==
  /\ pc = "open" /\ pc' = "first" /\ listed' = Scanned /\ fresh' = listed' /\ reported' = TRUE
  /\ UNCHANGED <<World, marked, watched, due>>
Mark(p) == IF Mounted(p) /\ Super(p) \in Markable THEN marks \cup {Super(p)} ELSE marks
MarkFirst(p) ==
  /\ pc = "first" /\ p \in fresh /\ fresh' = fresh \ {p} /\ marks' = Mark(p)
  /\ marked' = [marked EXCEPT ![p] = IF Mounted(p) /\ Super(p) \in Markable THEN Fsid(p) ELSE None]
  /\ UNCHANGED <<setting, table, changes, reported, pc, listed, watched, due>>

\* order_for_resolution: whole file systems before binds, then the earliest (#326)
Rank(p) == IF ~Mounted(p) THEN 1000 ELSE table[p].id + IF table[p].bind THEN 100 ELSE 0
Ordered(entries) == SetToSortSeq(entries, LAMBDA d, e : Rank(d.at) < Rank(e.at))
\* all that were listed, marked or not, as they are now
Started ==
  /\ pc = "first" /\ fresh = {} /\ pc' = "loop" /\ due' = FALSE /\ listed' = {}
  /\ watched' = Ordered({[at |-> p, fsid |-> Fsid(p)] : p \in listed})
  /\ UNCHANGED <<World, reported, fresh, marked>>

-----------------------------------------------------------------------------
(* the loop *)

Changed == IF setting.polls THEN ~reported ELSE due
Refresh ==
  /\ fresh' = Scanned /\ pc' = "refresh" /\ reported' = TRUE /\ due' = FALSE
  /\ marked' = [p \in Points |-> IF Mounted(p) THEN marked[p] ELSE None]
  /\ watched' = SelectSeq(watched, LAMBDA e : Mounted(e.at))

\* a batch of deletions was read (#253)
AfterBatch ==
  /\ pc = "loop" /\ setting.busy /\ Changed /\ Refresh
  /\ UNCHANGED <<World, listed>>
\* nothing to read: wait for deletions and for the table
Poll ==
  /\ pc = "loop" /\ ~setting.busy /\ Changed /\ Refresh
  /\ UNCHANGED <<World, listed>>
Second ==
  /\ pc = "loop" /\ ~setting.polls /\ ~due /\ due' = TRUE
  /\ UNCHANGED <<World, reported, pc, listed, fresh, marked, watched>>

Entries == Range(watched)
\* Mutant of Rearm: only what is new or has another f_fsid is marked.
RearmNew(p) ==
  /\ pc = "refresh" /\ p \in fresh /\ fresh' = fresh \ {p}
  /\ marks' = IF marked[p] = Fsid(p) THEN marks ELSE Mark(p)
  /\ IF Mounted(p) /\ (Mounted(p) => Super(p) \in Markable)
     THEN /\ marked' = [marked EXCEPT ![p] = Fsid(p)]
          /\ watched' = SetToSeq({e \in Entries : e.at # p} \cup {[at |-> p, fsid |-> Fsid(p)]})
     ELSE UNCHANGED <<marked, watched>>
  /\ UNCHANGED <<setting, table, changes, reported, pc, listed, due>>
\* every live mount again: the identity does not tell a remount (#98, #122)
Rearm(p) ==
  /\ pc = "refresh" /\ p \in fresh /\ fresh' = fresh \ {p} /\ marks' = Mark(p)
  /\ IF Mounted(p) /\ (Mounted(p) => Super(p) \in Markable)
     THEN /\ marked' = [marked EXCEPT ![p] = Fsid(p)]
          /\ watched' = SetToSeq({e \in Entries : e.at # p} \cup {[at |-> p, fsid |-> Fsid(p)]})
     ELSE UNCHANGED <<marked, watched>>
  /\ UNCHANGED <<setting, table, changes, reported, pc, listed, due>>
Refreshed ==
  /\ pc = "refresh" /\ fresh = {} /\ pc' = "loop" /\ watched' = Ordered(Entries)
  /\ UNCHANGED <<World, reported, listed, fresh, marked, due>>

Init ==
  /\ setting \in Settings /\ table = setting.start /\ reported = TRUE /\ marks = {}
  /\ pc = "open" /\ listed = {} /\ fresh = {} /\ marked = [p \in Points |-> None] /\ watched = <<>>
  /\ due = FALSE /\ changes = 0

Daemon == \/ Open \/ (\E p \in Points : MarkFirst(p) \/ Rearm(p)) \/ Started
          \/ AfterBatch \/ Poll \/ Second \/ Refreshed
Next == \/ Daemon
        \/ (\E p \in Points, s \in Supers, b \in BOOLEAN : Mount(p, s, b))
        \/ (\E p \in Points : Unmount(p))

\* the daemon runs
Spec == Init /\ [][Next]_vars /\ WF_vars(Daemon)

-----------------------------------------------------------------------------
(* Properties *)

\* Types; one entry per mount point, and a mark only while its superblock is mounted.
TypeOK ==
  /\ setting \in Settings /\ reported \in BOOLEAN /\ due \in BOOLEAN
  /\ pc \in {"open", "first", "loop", "refresh"} /\ listed \cup fresh \subseteq Points
  /\ marks \subseteq Live \cap Markable
  /\ \A p \in Points : marked[p] \in {FsidOf[s] : s \in Supers} \cup {None}
  /\ \A j, k \in DOMAIN watched : watched[j].at = watched[k].at => j = k

\* Every mount that stays is marked in the end, also while deletions never stop and when the
\* table changed during a scan (#37, #98, #122, #253, #344).
AllMarked == \A p \in Scanned : Super(p) \in Markable => Super(p) \in marks

\* and its handles are then resolved on it, the whole file system before a bind (#326)
First(f) == CHOOSE k \in DOMAIN watched : watched[k].fsid = f /\ \A j \in 1 .. k - 1 : watched[j].fsid # f
AllResolved == pc = "loop" =>
  \A p \in Scanned : Super(p) \in Markable =>
    /\ \E k \in DOMAIN watched : watched[k] = [at |-> p, fsid |-> Fsid(p)]
    /\ LET first == watched[First(Fsid(p))].at IN
       ~table[p].bind => Mounted(first) /\ (Mounted(first) => ~table[first].bind)
=============================================================================
