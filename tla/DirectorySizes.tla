--------------------------- MODULE DirectorySizes ---------------------------
(***************************************************************************)
(* The directorysizes cache of one trash root                              *)
(* (crates/trashd-common/src/directorysizes.rs and its callers in          *)
(* store.rs): one row per trashed directory with its size, which readers   *)
(* accept when the row's mtime is that of the directory's sidecar, in      *)
(* seconds.                                                                *)
(*                                                                         *)
(* A deletion adds its row under the root's lock.  A removal rebuilds the  *)
(* file, reusing the rows that still match; batches do so without a lock.  *)
(* Writes replace the file, so of two at a time the later wins.            *)
(***************************************************************************)
EXTENDS Naturals

CONSTANTS
    Procs,      \* processes that trash, restore and purge
    ByHandle,   \* those that trash through a directory handle (trash_at)
    Names,      \* entry IDs
    MaxTime,    \* bound: seconds
    MaxTrees,   \* bound: things trashed
    MaxSwaps,   \* bound: victims replaced by their user while being trashed
    MaxFaults   \* bound: malformed files left by foreign tools, processes killed

\* What the theorems take as given.  A victim that is replaced meanwhile is
\* measured again only when it is trashed by its path.
SizesAssumption ==
    /\ Names # {} /\ MaxTime \in Nat \ {0} /\ {MaxTrees, MaxSwaps, MaxFaults} \subseteq Nat
    /\ ByHandle = {} \/ MaxSwaps = 0

VARIABLES
    data,       \* data[n]: what files/n is: a tree (its number) or a file
    mtime,      \* mtime[n]: the second info/n.trashinfo was written; 0: absent
    cache,      \* the file: its rows, and whether some line cannot be parsed
    lock,       \* holders of the root's lock
    pc, job,    \* each process: its step and its locals
    now, trees, swaps, damage, crashes,
    published,  \* history: what was ever trashed, where and when
    raced       \* history: a write once came between another's read and write of the file

store == <<data, mtime, cache>>
budget == <<now, trees, swaps, damage, crashes>>
vars == <<store, lock, pc, job, budget, published, raced>>

Nothing == [tree |-> 0, dir |-> FALSE]
Thing == [tree: 1..MaxTrees, dir: BOOLEAN]
\* Measuring what is gone yields size 0, that is no tree.
Row == [name: Names, tree: 0..MaxTrees, mtime: 1..MaxTime]

\* name: the entry; victim: what is being trashed or was removed; sized: the
\* tree that was measured; rows: the file as read; todo, lines, seen: a
\* rebuild's names to visit, its new rows, and the mtime of the one it measures.
Job == [name: Names, victim: Thing \cup {Nothing}, sized: 0..MaxTrees,
        rows: SUBSET Row, todo: SUBSET Names, lines: SUBSET Row, seen: 0..MaxTime]
NoJob == [name |-> CHOOSE n \in Names : TRUE, victim |-> Nothing, sized |-> 0,
          rows |-> {}, todo |-> {}, lines |-> {}, seen |-> 0]

Steps == {"idle", "survey", "read", "write", "unlink", "refresh",
          "reread", "scan", "visit", "measure"}
HasRead == {"write", "scan", "visit", "measure"}

TypeOK ==
    /\ data \in [Names -> Thing \cup {Nothing}] /\ mtime \in [Names -> 0..MaxTime]
    /\ cache \in [rows: SUBSET Row, bad: BOOLEAN]
    /\ lock \subseteq Procs /\ \A p, q \in lock : p = q
    /\ pc \in [Procs -> Steps] /\ job \in [Procs -> Job]
    /\ now \in 1..MaxTime /\ trees \in 0..MaxTrees /\ swaps \in 0..MaxSwaps
    /\ damage \in 0..MaxFaults /\ crashes \in 0..MaxFaults
    /\ published \subseteq [name: Names, tree: 1..MaxTrees, at: 1..MaxTime]
    /\ raced \in BOOLEAN
    /\ \A r, s \in cache.rows : r.name = s.name => r = s
    /\ \A p \in Procs : pc[p] \in {"read", "write", "unlink"} => p \in lock

Init ==
    /\ data = [n \in Names |-> Nothing] /\ mtime = [n \in Names |-> 0]
    /\ cache = [rows |-> {}, bad |-> FALSE]
    /\ lock = {} /\ pc = [p \in Procs |-> "idle"] /\ job = [p \in Procs |-> NoJob]
    /\ now = 1 /\ trees = 0 /\ swaps = 0 /\ damage = 0 /\ crashes = 0
    /\ published = {} /\ raced = FALSE

Goto(p, step) == pc' = [pc EXCEPT ![p] = step]
Done(p) == Goto(p, "idle") /\ job' = [job EXCEPT ![p] = NoJob] /\ lock' = lock \ {p}

\* Replace the file.  Whoever has read it already will write over this.
Replace(p, rows) ==
    /\ cache' = [rows |-> rows, bad |-> FALSE]
    /\ raced' = (raced \/ \E q \in Procs \ {p} : pc[q] \in HasRead)

-----------------------------------------------------------------------------
(* A deletion.                                                             *)

\* The victim is surveyed before the lock is taken.
Survey(p) ==
    /\ pc[p] = "idle" /\ trees < MaxTrees
    /\ trees' = trees + 1
    /\ \E n \in Names, d \in BOOLEAN :
           job' = [job EXCEPT ![p] = [@ EXCEPT !.name = n, !.sized = trees + 1,
                                               !.victim = [tree |-> trees + 1, dir |-> d]]]
    /\ Goto(p, "survey")
    /\ UNCHANGED <<store, lock, now, swaps, damage, crashes, published, raced>>

\* The user puts another one in the victim's place.
Swap(p) ==
    /\ pc[p] = "survey" /\ swaps < MaxSwaps /\ trees < MaxTrees
    /\ swaps' = swaps + 1 /\ trees' = trees + 1
    /\ job' = [job EXCEPT ![p].victim.tree = trees + 1]
    /\ UNCHANGED <<store, lock, pc, now, damage, crashes, published, raced>>

\* Under the lock: the sidecar, the data, and for a path a second look at
\* what landed.
Publish(p) ==
    LET n == job[p].name v == job[p].victim IN
    /\ pc[p] = "survey" /\ lock = {} /\ data[n] = Nothing /\ mtime[n] = 0
    /\ lock' = {p}
    /\ data' = [data EXCEPT ![n] = v] /\ mtime' = [mtime EXCEPT ![n] = now]
    /\ published' = published \cup {[name |-> n, tree |-> v.tree, at |-> now]}
    /\ IF p \in ByHandle THEN UNCHANGED job
       ELSE job' = [job EXCEPT ![p].sized = v.tree]
    /\ Goto(p, "read")
    /\ UNCHANGED <<cache, budget, raced>>

\* Only a directory gets a row; a damaged file is rebuilt instead.
RecordRead(p) ==
    /\ pc[p] = "read"
    /\ IF ~job[p].victim.dir THEN Done(p)
       ELSE IF cache.bad THEN Goto(p, "reread") /\ UNCHANGED <<lock, job>>
       ELSE /\ job' = [job EXCEPT ![p].rows = cache.rows]
            /\ Goto(p, "write") /\ UNCHANGED lock
    /\ UNCHANGED <<store, budget, published, raced>>

OtherRows(p) == {r \in job[p].rows : r.name # job[p].name}

RecordWrite(p) ==
    LET n == job[p].name IN
    /\ pc[p] = "write"
    /\ Replace(p, OtherRows(p) \cup {[name |-> n, tree |-> job[p].sized, mtime |-> mtime[n]]})
    /\ Done(p)
    /\ UNCHANGED <<data, mtime, budget, published>>

-----------------------------------------------------------------------------
(* A removal: a restore or a purge.                                        *)

RemoveData(p, n) ==
    /\ pc[p] = "idle" /\ lock = {} /\ data[n] # Nothing
    /\ lock' = {p}
    /\ job' = [job EXCEPT ![p] = [@ EXCEPT !.name = n, !.victim = data[n]]]
    /\ data' = [data EXCEPT ![n] = Nothing]
    /\ Goto(p, "unlink")
    /\ UNCHANGED <<mtime, cache, budget, published, raced>>

\* A restore of one entry keeps the lock until it is done, a purge and a
\* batch let it go first.
RemoveSidecar(p) ==
    /\ pc[p] = "unlink"
    /\ mtime' = [mtime EXCEPT ![job[p].name] = 0]
    /\ lock' \in {lock, {}}
    /\ Goto(p, "refresh")
    /\ UNCHANGED <<data, cache, job, budget, published, raced>>

\* A file matters only when a stale row carries its name.
NeedsRefresh(p) ==
    job[p].victim.dir \/ cache.bad \/ \E r \in cache.rows : r.name = job[p].name

Refresh(p) ==
    /\ pc[p] = "refresh"
    /\ IF NeedsRefresh(p) THEN Goto(p, "reread") /\ UNCHANGED <<job, lock>> ELSE Done(p)
    /\ UNCHANGED <<store, budget, published, raced>>

-----------------------------------------------------------------------------
(* A rebuild (write_cache).                                                *)

RebuildRead(p) ==
    /\ pc[p] = "reread"
    /\ job' = [job EXCEPT ![p] = [@ EXCEPT !.rows = cache.rows, !.lines = {}]]
    /\ Goto(p, "scan")
    /\ UNCHANGED <<store, lock, budget, published, raced>>

\* The directories in files/ that have a sidecar in info/.
RebuildScan(p) ==
    /\ pc[p] = "scan"
    /\ job' = [job EXCEPT ![p].todo = {n \in Names : data[n].dir /\ mtime[n] # 0}]
    /\ Goto(p, "visit")
    /\ UNCHANGED <<store, lock, budget, published, raced>>

\* Mutant of Reusable: the row of the same name.
SameName(p, n) == {r \in job[p].rows : r.name = n}
\* The row of the same sidecar is still good.
Reusable(p, n) == {r \in job[p].rows : r.name = n /\ r.mtime = mtime[n]}

\* What is no directory any more, or has no sidecar, is passed over.
Visit(p, n) ==
    LET reusable == Reusable(p, n) IN
    /\ pc[p] = "visit" /\ n \in job[p].todo
    /\ IF ~data[n].dir \/ mtime[n] = 0
       THEN job' = [job EXCEPT ![p].todo = @ \ {n}] /\ UNCHANGED pc
       ELSE IF reusable # {}
       THEN /\ \E r \in reusable :
                   job' = [job EXCEPT ![p] =
                              [@ EXCEPT !.todo = job[p].todo \ {n},
                                        !.lines = job[p].lines \cup {[r EXCEPT !.mtime = mtime[n]]}]]
            /\ UNCHANGED pc
       ELSE /\ job' = [job EXCEPT ![p] = [@ EXCEPT !.name = n, !.seen = mtime[n]]]
            /\ Goto(p, "measure")
    /\ UNCHANGED <<store, lock, budget, published, raced>>

\* Walk the tree under the name; the sidecar was read before.
SizedRow(p, n) == [name |-> n, tree |-> data[n].tree, mtime |-> job[p].seen]

Measure(p) ==
    LET n == job[p].name IN
    /\ pc[p] = "measure"
    /\ job' = [job EXCEPT ![p] = [@ EXCEPT !.todo = job[p].todo \ {n}, !.seen = 0,
                                            !.lines = job[p].lines \cup {SizedRow(p, n)}]]
    /\ Goto(p, "visit")
    /\ UNCHANGED <<store, lock, budget, published, raced>>

RebuildWrite(p) ==
    /\ pc[p] = "visit" /\ job[p].todo = {}
    /\ Replace(p, job[p].lines)
    /\ Done(p)
    /\ UNCHANGED <<data, mtime, budget, published>>

-----------------------------------------------------------------------------
(* The environment.                                                        *)

Tick ==
    /\ now < MaxTime /\ now' = now + 1
    /\ UNCHANGED <<store, lock, pc, job, trees, swaps, damage, crashes, published, raced>>

\* Another trash implementation leaves a file that cannot be parsed.
Damage ==
    /\ damage + crashes < MaxFaults /\ damage' = damage + 1
    /\ \E rows \in SUBSET cache.rows : cache' = [rows |-> rows, bad |-> TRUE]
    /\ UNCHANGED <<data, mtime, lock, pc, job, now, trees, swaps, crashes, published, raced>>

Crash(p) ==
    /\ pc[p] # "idle" /\ damage + crashes < MaxFaults /\ crashes' = crashes + 1
    /\ Done(p)
    /\ UNCHANGED <<store, now, trees, swaps, damage, published, raced>>

Next ==
    \/ \E p \in Procs :
           \/ Survey(p) \/ Swap(p) \/ Publish(p) \/ RecordRead(p) \/ RecordWrite(p)
           \/ RemoveSidecar(p) \/ Refresh(p)
           \/ RebuildRead(p) \/ RebuildScan(p) \/ Measure(p) \/ RebuildWrite(p)
           \/ Crash(p)
           \/ \E n \in Names : RemoveData(p, n) \/ Visit(p, n)
    \/ Tick \/ Damage

Spec == Init /\ [][Next]_vars

-----------------------------------------------------------------------------
(* Properties.                                                             *)

\* The name was used twice within the second the row and the sidecar share:
\* the one case the format cannot tell.
SameSecond(r) ==
    \E q, s \in published :
        q.name = r.name /\ s.name = r.name /\ q.at = r.mtime /\ s.at = r.mtime /\ q # s

\* A row that a reader accepts for a directory gives the size of that very
\* directory, not of an earlier one of its name and not of one half removed,
\* however rebuilds without a lock overlap deletions and removals.
HonestRows ==
    \A r \in cache.rows :
        data[r.name].dir /\ mtime[r.name] = r.mtime /\ ~SameSecond(r) =>
            r.tree = data[r.name].tree

\* While no write came between another's read and write, and nobody was
\* killed, the file a finished operation leaves lists every trashed directory
\* and nothing else, also after a foreign tool damaged it.
CompleteRows ==
  \A p \in Procs :
      cache' # cache /\ pc[p] # "idle" /\ pc'[p] = "idle" /\ crashes' = 0
        /\ (\A q \in Procs \ {p} : pc[q] \in {"idle", "survey"}) /\ ~raced' =>
          {[name |-> r.name, mtime |-> r.mtime] : r \in cache'.rows} =
          {[name |-> n, mtime |-> mtime[n]] : n \in {m \in Names : data[m].dir}}
=============================================================================
