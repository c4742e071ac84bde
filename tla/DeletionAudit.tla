---------------------------- MODULE DeletionAudit ----------------------------
(* The deletion monitor (trashd-daemon): the kernel queues a record for each *)
(* removed name, with the handle of its directory, which is often removed    *)
(* as well before the daemon looks.  A read takes what is queued; the path   *)
(* of a removed directory is learned from its own record, in the same read   *)
(* or the next, for which the records that need it are held back.            *)
EXTENDS Integers, Sequences, FiniteSets, SequencesExt, TLC

CONSTANTS
  Nodes, Roots,     \* the names of all trees; each root is its own parent
  Fs, Handle,       \* [Nodes -> file system], [Nodes -> handle]: unique together only
  Settings,         \* [start, dirs, open, mounts, target, queue, read, cached, moves]: where each
                    \* node is, which are directories, and which of them somebody holds open, the
                    \* file systems in the order they are tried, FAN_REPORT_TARGET_FID, and the
                    \* limits of queue, read and cache
  Overflow, None,
  Deleted           \* the " (deleted)" after the path of a removed directory

VARIABLES
  setting,
  place,            \* [Nodes -> the directory it is in, or None]
  rec,              \* [Nodes -> the directory its removal record names, or None]
  opened,           \* the directories somebody holds open
  queue,            \* the fanotify queue
  pc,
  batch, todo,      \* the records of this read, and those the step at hand has still to go through
  holding,
  deferred,         \* Deferred: [node, resolved]
  decodes,          \* HandleCache.batch: [keys -> path or None]
  paths, order,     \* HandleCache: [keys -> path], and the keys in order of insertion
  lines,            \* the log: [node, path], or Overflow
  moves,
  gone, dropped,    \* GHOST: all removals in order, and those the kernel had no room for
  had,              \* GHOST: [Nodes -> the paths it has had]
  reads, readIn,    \* GHOST: reads so far, and the one each record came with
  forgotten         \* GHOST: the keys the cache has let go

vars == <<setting, place, rec, opened, queue, pc, batch, todo, holding, deferred, decodes, paths,
          order, lines, moves, gone, dropped, had, reads, readIn, forgotten>>

World == <<setting, place, rec, opened, moves, gone, dropped, had>>
Cache == <<decodes, paths, order, forgotten>>
Reads == <<reads, readIn>>
IsDir(n) == n \in setting.dirs
\* a removed directory stays in the one it was removed from
PathOf(n) ==
  LET path[m \in Nodes] ==
        CASE place[m] = m    -> <<m>>
          [] place[m] = None -> Append(path[rec[m]], m)
          [] OTHER           -> Append(path[place[m]], m) IN path[n]
Absolute(path) == path[1] \in Roots /\ Len(path) > 1
Key(n) == <<Fs[n], Handle[n]>>

-----------------------------------------------------------------------------
(* the file systems *)

\* a full queue takes one overflow record, and nothing more
Queued(n) ==
  IF Len(queue) < setting.queue THEN queue' = Append(queue, n) /\ UNCHANGED dropped
  ELSE /\ queue' = IF Last(queue) = Overflow THEN queue ELSE Append(queue, Overflow)
       /\ dropped' = dropped \cup {n}
Delete(n) ==
  /\ place[n] \notin {None, n} /\ (\A m \in Nodes : place[m] # n)
  /\ place' = [place EXCEPT ![n] = None] /\ rec' = [rec EXCEPT ![n] = place[n]]
  /\ gone' = Append(gone, n) /\ Queued(n)
  /\ UNCHANGED <<setting, opened, pc, batch, todo, holding, deferred, Cache, lines, moves, had, Reads>>
Move(n, d) ==
  /\ moves < setting.moves /\ moves' = moves + 1
  /\ IsDir(n) /\ IsDir(d) /\ place[n] \notin {None, n, d} /\ place[d] # None /\ Fs[n] = Fs[d]
  /\ ~(\E k \in 1 .. Len(PathOf(d)) : PathOf(d)[k] = n)
  /\ place' = [place EXCEPT ![n] = d]
  /\ had' = [m \in Nodes |-> IF place[m] = None /\ m \notin opened THEN had[m]
                             ELSE had[m] \cup {PathOf(m)'}]
  /\ UNCHANGED <<setting, rec, opened, queue, pc, batch, todo, holding, deferred, Cache, lines,
                 gone, dropped, Reads>>
\* the last descriptor of a removed directory: its handle is stale from here
Close(n) ==
  /\ n \in opened /\ place[n] = None /\ opened' = opened \ {n}
  /\ UNCHANGED <<setting, place, rec, queue, pc, batch, todo, holding, deferred, Cache, lines,
                 moves, gone, dropped, had, Reads>>

-----------------------------------------------------------------------------
(* resolving a record *)

\* resolve_handle_to_path: only on a mount of the record's file system (#97); the link of a
\* removed directory that is still open says so after its last path
Decode(key) ==
  LET there == {n \in Nodes : Key(n) = key /\ (place[n] # None \/ n \in opened)}
      dir == CHOOSE n \in there : TRUE IN
  IF there = {} \/ ~(\E k \in DOMAIN setting.mounts : setting.mounts[k] = key[1]) THEN None
  ELSE IF place[dir] = None THEN Append(PathOf(dir), Deleted)
  ELSE PathOf(dir)

\* HandleCache::remember: the oldest key goes when there are too many
Remembered(c, key, path) ==
  IF key \in DOMAIN c.paths THEN [c EXCEPT !.paths[key] = path]
  ELSE LET more == Append(c.order, key)
           all == (key :> path) @@ c.paths IN
       IF Len(more) > setting.cached
       THEN [paths |-> [k \in DOMAIN all \ {Head(more)} |-> all[k]], order |-> Tail(more),
             forgotten |-> c.forgotten \cup {Head(more)}]
       ELSE [c EXCEPT !.paths = all, !.order = more]
Cached(c, key) == IF key \in DOMAIN c.paths THEN c.paths[key] ELSE None

\* extract_dfid_name_path: the directory, decoded once per batch, or its last known path;
\* the bare name if there is none
Resolved(n) ==
  LET key == Key(rec[n])
      known == key \in DOMAIN decodes
      found == IF known THEN decodes[key] ELSE Decode(key)
      now == [paths |-> paths, order |-> order, forgotten |-> forgotten]
      after == IF ~known /\ found # None THEN Remembered(now, key, found) ELSE now
      dir == IF found # None THEN found ELSE Cached(after, key) IN
  [decodes |-> IF known THEN decodes ELSE (key :> found) @@ decodes,
   cache |-> after,
   path |-> IF dir = None THEN <<n>> ELSE Append(dir, n)]
Remember(r, cache) ==
  /\ decodes' = r.decodes /\ paths' = cache.paths /\ order' = cache.order
  /\ forgotten' = cache.forgotten

-----------------------------------------------------------------------------
(* the daemon *)

Newest(records, held) ==
  SelectSeq(Reverse(records), LAMBDA n : n # Overflow) \o Reverse([k \in DOMAIN held |-> held[k].node])
Line(n, path) == lines' = Append(lines, [node |-> n, path |-> path])

\* the read, or EAGAIN: what is held is then logged as it is known
Read ==
  /\ pc = "read" /\ decodes' = <<>>
  /\ UNCHANGED <<World, holding, deferred, paths, order, forgotten, lines>>
  /\ IF queue = <<>>
     THEN /\ deferred # <<>> /\ pc' = "held" /\ reads' = reads + 1
          /\ UNCHANGED <<queue, batch, todo, readIn>>
     ELSE LET k == IF Len(queue) > setting.read THEN setting.read ELSE Len(queue) IN
          /\ batch' = SubSeq(queue, 1, k) /\ queue' = SubSeq(queue, k + 1, Len(queue))
          /\ todo' = Newest(batch', deferred) /\ reads' = reads + 1
          /\ readIn' = [n \in Nodes |-> IF Contains(batch', n) THEN reads' ELSE readIn[n]]
          /\ pc' = "learn"

\* Mutant of Learn: a directory is learned when it is logged.
LearnLater ==
  /\ pc = "learn" /\ pc' = "held" /\ todo' = <<>>
  /\ UNCHANGED <<World, queue, batch, holding, deferred, Cache, lines, Reads>>
\* the removed directories first, the outermost before those in it (#326)
Learn ==
  /\ pc = "learn"
  /\ UNCHANGED <<World, queue, batch, holding, deferred, lines, Reads>>
  /\ IF todo = <<>> THEN pc' = "held" /\ UNCHANGED <<todo, Cache>>
     ELSE LET n == Head(todo)
              r == Resolved(n) IN
          /\ todo' = Tail(todo) /\ UNCHANGED pc
          /\ IF ~(IsDir(n) /\ setting.target) THEN UNCHANGED Cache
             ELSE IF Absolute(r.path) THEN Remember(r, Remembered(r.cache, Key(n), r.path))
             ELSE Remember(r, r.cache)

\* the records held from the previous read
Held ==
  /\ pc = "held"
  /\ UNCHANGED <<World, queue, holding, todo, batch, Reads>>
  /\ IF deferred = <<>>
     THEN pc' = (IF batch = <<>> THEN "read" ELSE "log") /\ UNCHANGED <<deferred, Cache, lines>>
     ELSE LET held == Head(deferred)
              r == Resolved(held.node) IN
          /\ deferred' = Tail(deferred) /\ UNCHANGED pc
          /\ IF held.resolved # None
             THEN Line(held.node, held.resolved) /\ UNCHANGED Cache
             ELSE Line(held.node, r.path) /\ Remember(r, r.cache)

\* once a record is held, so are the later ones (#352)
Holds(path) == holding \/ ~Absolute(path)
\* the records of this read
Log ==
  /\ pc = "log"
  /\ UNCHANGED <<World, queue, todo, Reads>>
  /\ IF batch = <<>>
     THEN /\ pc' = "read" /\ holding' = FALSE
          /\ UNCHANGED <<batch, deferred, Cache, lines>>
     ELSE /\ batch' = Tail(batch) /\ UNCHANGED pc
          /\ IF Head(batch) = Overflow
             THEN lines' = Append(lines, Overflow) /\ UNCHANGED <<holding, deferred, Cache>>
             ELSE LET n == Head(batch)
                      r == Resolved(n) IN
                  /\ Remember(r, r.cache) /\ holding' = (holding \/ ~Absolute(r.path))
                  /\ IF Holds(r.path)
                     THEN /\ UNCHANGED lines
                          /\ deferred' = Append(deferred, [node |-> n, resolved |->
                               IF Absolute(r.path) THEN r.path ELSE None])
                     ELSE Line(n, r.path) /\ UNCHANGED deferred

Init ==
  /\ setting \in Settings /\ place = setting.start /\ rec = [n \in Nodes |-> None]
  /\ opened = setting.open
  /\ queue = <<>> /\ pc = "read" /\ batch = <<>> /\ todo = <<>> /\ holding = FALSE
  /\ deferred = <<>> /\ decodes = <<>> /\ paths = <<>> /\ order = <<>> /\ lines = <<>>
  /\ moves = 0 /\ gone = <<>> /\ dropped = {}
  /\ had = [n \in Nodes |-> IF place[n] = None THEN {} ELSE {PathOf(n)}]
  /\ reads = 0 /\ readIn = [n \in Nodes |-> 0] /\ forgotten = {}

Daemon == Read \/ Learn \/ Held \/ Log
Users == (\E n \in Nodes : Delete(n) \/ Close(n)) \/ (\E n, d \in Nodes : Move(n, d))
Next == Daemon \/ Users

\* the daemon runs
Spec == Init /\ [][Next]_vars /\ WF_vars(Daemon)

-----------------------------------------------------------------------------
(* Properties *)

Logged(s) == [k \in DOMAIN s |-> IF s[k] = Overflow THEN Overflow ELSE s[k].node]
NodesOnly(s) == SelectSeq(s, LAMBDA n : n # Overflow)

\* Types; the cache holds exactly the keys of its order, no more than it may, and what is held
\* is held over one read only.
TypeOK ==
  /\ setting \in Settings /\ place \in [Nodes -> Nodes \cup {None}]
  /\ pc \in {"read", "learn", "held", "log"} /\ holding \in BOOLEAN
  /\ Len(queue) <= setting.queue + 1 /\ Len(batch) <= setting.read
  /\ Len(deferred) <= setting.read /\ Len(order) <= setting.cached
  /\ DOMAIN paths = Range(order) /\ IsInjective(order)
  /\ \A k \in DOMAIN deferred : readIn[deferred[k].node] >= reads - 1

\* No deletion is lost, repeated or out of order: the log, what is held, and what is still to be
\* read are together all removals in the order they happened, less those an overflow dropped,
\* and then the log says so (#32, #352).
Accounted ==
  /\ NodesOnly(Logged(lines)) \o [k \in DOMAIN deferred |-> deferred[k].node]
       \o NodesOnly(batch) \o NodesOnly(queue) = SelectSeq(gone, LAMBDA n : n \notin dropped)
  /\ dropped # {} => \E s \in {Logged(lines), batch, queue} : Contains(s, Overflow)

Above(n) == LET up[m \in Nodes] == IF rec[m] = None THEN {} ELSE {rec[m]} \cup up[rec[m]] IN up[n]

\* A path in the log is one its directory has had, on its own file system: "false entries are
\* worse than missing" ones (#31, #97).  Exception: below a directory that was still open when
\* it was removed, the path has the " (deleted)" of that directory's link as well.
TruePath == \A k \in DOMAIN lines : (lines[k] # Overflow /\ Absolute(lines[k].path)) =>
  LET n == lines[k].node
      dir == Front(lines[k].path) IN
  /\ SelectSeq(dir, LAMBDA m : m # Deleted) \in had[rec[n]]
  /\ Contains(dir, Deleted) => \E m \in Above(n) : m \in setting.open /\ rec[m] # None

\* A record is logged without its directory only if the record of a removed directory above it
\* came later than with the next read, or not at all (#326, #344, #352, #355), or if the cache,
\* once it was full, let the path of one of them go.
Late(n, d) == rec[d] # None /\ (d \in dropped \/ readIn[d] = 0 \/ readIn[d] > readIn[n] + 1)
Named == setting.target => \A k \in DOMAIN lines :
  (lines[k] # Overflow /\ ~Absolute(lines[k].path)) =>
    \E d \in Above(lines[k].node) : Late(lines[k].node, d) \/ Key(d) \in forgotten

\* What the kernel has recorded is logged in the end, and nothing stays held.
EveryLogged == queue = <<>> /\ batch = <<>> /\ deferred = <<>>
=============================================================================
