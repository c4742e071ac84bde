---------------------------- MODULE DeletePolicy ----------------------------
(* Whether a path is trashed or really deleted: the layers of configuration  *)
(* and the policies of project directories, as the library reads them        *)
(* (trashd-common/src/config.rs) and as the preloaded library does, which    *)
(* has a loader of its own (trashd-preload/src/lib.rs).  The files change    *)
(* while processes run.                                                      *)
EXTENDS Naturals

CONSTANTS
  Procs, Paths,
  Dirs,             \* the directories above every path: 1 is the nearest
  Matches,          \* [pattern -> SUBSET Paths]
  Unsupported,      \* the patterns with braces
  Defaults,         \* the built-in never_trash
  Starts,           \* [kinds, conf, local]: the files at first, "library" or "preload" processes
  Confs, Locals,    \* what is written to a configuration and to a .trashd.toml
  MaxWrites, None

Layers == {"global", "user"}
LegacyKeys == {"never", "only"}
NoRules == [never |-> {}, only |-> {}]

VARIABLES
  kinds,
  conf,             \* [Layers -> [state, root, old]]: "absent", "special" (no regular UTF-8 file),
                    \* "broken", "ok", or "part" (a key only the library reads is of a wrong
                    \* type); old: the settings under [retention]
  local,            \* [Dirs -> [state, never, only]]: "absent", "ignored" (not to be trusted),
                    \* "broken" or "ok"
  mtime,            \* of the configurations, in seconds; 0 without a file
  pc, path, dir,    \* the step, the path asked about, and the directory of the walk
  rules,            \* the Config: [never, only]
  key,              \* mtime_key: of what was loaded
  policy,           \* the project's rules
  skips,            \* the answer: a real delete
  due, base, told,  \* check_config_changed: 60 s are over, its mtime, and that it has logged
  writes,
  same, calm,       \* GHOST: no file has changed since the process loaded, and since the call
  ever              \* GHOST: every configuration and project policy there has been

loaded == <<rules, key>>
notice == <<due, base, told>>
vars == <<kinds, conf, local, mtime, pc, path, dir, loaded, policy, skips, notice, writes, same, calm, ever>>

Set(f, w, v) == [f EXCEPT ![w] = v]
Go(w, p) == pc' = Set(pc, w, p)
Files == UNCHANGED <<kinds, conf, local, mtime, writes, same, ever>>

-----------------------------------------------------------------------------
(* the layers *)

\* sanitize_patterns
Sanitized(list) == list \ Unsupported
\* normalize: what older releases kept under [retention], unless it is set
Normalized(f) == [s \in LegacyKeys |-> IF f.root[s] # None THEN f.root[s] ELSE f.old[s]]
\* load_partial: the preload has no use for the keys it does not name
Parses(k, f) == f.state = "ok" \/ (k = "preload" /\ f.state = "part")
\* merge: exclusions add up, a whitelist replaces the one before
Merge(r, p) ==
  [never |-> r.never \cup (IF p.never = None THEN {} ELSE Sanitized(p.never)),
   only |-> IF p.only = None THEN r.only ELSE Sanitized(p.only)]
Layer(k, r, f) == IF Parses(k, f) THEN Merge(r, Normalized(f)) ELSE r

Load(w, from, layer, to) ==
  /\ pc[w] = from /\ Go(w, to)
  /\ rules' = Set(rules, w, Layer(kinds[w], rules[w], conf[layer]))
  /\ key' = [key EXCEPT ![w][layer] = mtime[layer]]
  /\ UNCHANGED <<kinds, conf, local, mtime, path, dir, policy, skips, notice, writes, calm, ever>>
LoadGlobal(w) == Load(w, "new", "global", "user") /\ same' = Set(same, w, TRUE)
LoadUser(w) == Load(w, "user", "user", "ready") /\ UNCHANGED same

-----------------------------------------------------------------------------
(* one deletion *)

Hits(list, p) == \E pattern \in list : p \in Matches[pattern]
Call(w, p) ==
  /\ pc[w] = "ready" /\ Go(w, "veto") /\ path' = Set(path, w, p) /\ calm' = Set(calm, w, TRUE)
  /\ Files /\ UNCHANGED <<dir, policy, loaded, skips, notice>>
Answer(w, skip) == skips' = Set(skips, w, skip) /\ Go(w, "answered")

\* the global never_trash, before a file system is looked at
Vetoed(w) == Hits(rules[w].never, path[w])
Veto(w) ==
  /\ pc[w] = "veto" /\ Files /\ UNCHANGED <<path, dir, loaded, policy, notice, calm>>
  /\ IF Vetoed(w) THEN Answer(w, TRUE)
     ELSE Go(w, IF kinds[w] = "preload" THEN "check" ELSE "walk") /\ UNCHANGED skips

\* the first check adopts what was seen while loading
Baseline(w) == IF base[w] = None THEN key[w] ELSE base[w]
\* check_config_changed, once in 60 seconds
Check(w) ==
  /\ pc[w] = "check" /\ Go(w, "walk") /\ Files
  /\ IF due[w]
     THEN /\ due' = Set(due, w, FALSE)
          /\ base' = Set(base, w, IF base[w] = None THEN Baseline(w) ELSE mtime)
          /\ told' = Set(told, w, told[w] \/ (base[w] # None /\ base[w] # mtime))
     ELSE UNCHANGED notice
  /\ UNCHANGED <<path, dir, loaded, policy, skips, calm>>

\* a policy that is there ends the walk, whether it can be used or not
Stops(f) == f.state # "absent"
\* load_local_config, one directory
Walk(w) ==
  /\ pc[w] = "walk" /\ Files /\ UNCHANGED <<path, loaded, skips, notice, calm>>
  /\ LET f == local[dir[w]] IN
     CASE Stops(f) ->
            /\ Go(w, "rules") /\ UNCHANGED dir
            /\ policy' = Set(policy, w,
                 IF f.state # "ok" THEN None
                 ELSE [never |-> Sanitized(f.never), only |-> Sanitized(f.only)])
       [] ~Stops(f) /\ dir[w] + 1 \in Dirs -> dir' = Set(dir, w, dir[w] + 1) /\ UNCHANGED <<pc, policy>>
       [] ~Stops(f) /\ dir[w] + 1 \notin Dirs -> Go(w, "rules") /\ UNCHANGED <<dir, policy>>

\* an empty whitelist is none
Outside(only, p) == only # {} /\ ~Hits(only, p)
\* Config::should_skip, without a project's rules and with them
ShouldSkip(r, l, p) ==
  \/ l # None /\ Hits(l.never, p)
  \/ l # None /\ l.only # {} /\ ~Hits(l.only, p)
  \/ (l = None \/ l.only = {}) /\ Outside(r.only, p)
\* policy_skips of the preload
PolicySkips(r, l, p) ==
  IF l # None /\ Hits(l.never, p) THEN TRUE
  ELSE IF l # None /\ l.only # {} THEN Outside(l.only, p)
  ELSE Outside(r.only, p)
Rules(w) ==
  /\ pc[w] = "rules" /\ Files /\ UNCHANGED <<path, dir, loaded, policy, notice, calm>>
  /\ Answer(w, IF kinds[w] = "library" THEN ShouldSkip(rules[w], policy[w], path[w])
               ELSE PolicySkips(rules[w], policy[w], path[w]))
Return(w) ==
  /\ pc[w] = "answered" /\ Go(w, "ready") /\ Files /\ UNCHANGED <<loaded, notice>>
  /\ path' = Set(path, w, None) /\ dir' = Set(dir, w, 1) /\ policy' = Set(policy, w, None)
  /\ skips' = Set(skips, w, FALSE) /\ calm' = Set(calm, w, FALSE)

Step(w) == \/ LoadGlobal(w) \/ LoadUser(w) \/ (\E p \in Paths : Call(w, p)) \/ Veto(w) \/ Check(w)
           \/ Walk(w) \/ Rules(w) \/ Return(w)

-----------------------------------------------------------------------------
(* the user, the administrator and the clock *)

Spend == writes < MaxWrites /\ writes' = writes + 1
         /\ UNCHANGED <<kinds, pc, path, dir, loaded, policy, skips, notice>>
\* within the second of the file's mtime, or later
WriteConf == \E l \in Layers, f \in Confs :
  /\ Spend /\ conf' = [conf EXCEPT ![l] = f] /\ same' = [w \in Procs |-> FALSE]
  /\ ever' = [ever EXCEPT !.confs = @ \cup {f}]
  /\ \E t \in {mtime[l], mtime[l] + 1} :
       mtime' = [mtime EXCEPT ![l] = IF f.state = "absent" THEN 0 ELSE t]
  /\ UNCHANGED <<local, calm>>
WriteLocal == \E d \in Dirs, f \in Locals :
  /\ Spend /\ local' = [local EXCEPT ![d] = f] /\ calm' = [w \in Procs |-> FALSE]
  /\ ever' = [ever EXCEPT !.locals = @ \cup {f}]
  /\ UNCHANGED <<conf, mtime, same>>
Tick(w) == /\ ~due[w] /\ due' = Set(due, w, TRUE) /\ Files
           /\ UNCHANGED <<pc, path, dir, loaded, policy, skips, base, told, calm>>

Init ==
  /\ \E s \in Starts : kinds = s.kinds /\ conf = s.conf /\ local = s.local
  /\ mtime = [l \in Layers |-> IF conf[l].state = "absent" THEN 0 ELSE 1]
  /\ pc = [w \in Procs |-> IF kinds[w] = None THEN "none" ELSE "new"]
  /\ path = [w \in Procs |-> None] /\ dir = [w \in Procs |-> 1]
  /\ rules = [w \in Procs |-> [NoRules EXCEPT !.never = Defaults]]
  /\ key = [w \in Procs |-> [l \in Layers |-> 0]] /\ policy = path
  /\ skips = [w \in Procs |-> FALSE] /\ due = [w \in Procs |-> TRUE] /\ base = path /\ told = skips
  /\ writes = 0 /\ same = skips /\ calm = skips
  /\ ever = [confs |-> {conf[l] : l \in Layers}, locals |-> {local[d] : d \in Dirs}]

Next == (\E w \in Procs : Step(w) \/ Tick(w)) \/ WriteConf \/ WriteLocal
\* time passes, and the process goes on deleting all over the place
Spec == /\ Init /\ [][Next]_vars
        /\ \A w \in Procs : WF_vars(Step(w)) /\ WF_vars(Tick(w)) /\ \A p \in Paths : SF_vars(Call(w, p))

-----------------------------------------------------------------------------
(* Properties *)

\* Types; a walk ends at its policy.
TypeOK ==
  /\ writes \in 0 .. MaxWrites
  /\ \A w \in Procs :
       /\ pc[w] \in {"none", "new", "user", "ready", "veto", "check", "walk", "rules", "answered"}
       /\ dir[w] \in Dirs /\ (policy[w] # None => policy[w].only \cap Unsupported = {})

\* What the documentation promises for the files as they are.
Given(k, l, s) == IF Parses(k, conf[l]) THEN Normalized(conf[l])[s] ELSE None
Never(k) == (Defaults \cup UNION ({Given(k, l, "never") : l \in Layers} \ {None})) \ Unsupported
Only(k) == (IF Given(k, "user", "only") # None THEN Given(k, "user", "only")
            ELSE IF Given(k, "global", "only") # None THEN Given(k, "global", "only") ELSE {})
           \ Unsupported
Nearest == {d \in Dirs : local[d].state # "absent" /\ \A e \in Dirs : e < d => local[e].state = "absent"}
Project == {local[d] : d \in {e \in Nearest : local[e].state = "ok"}}
Ordered(k, p) ==
  \/ Hits(Never(k), p)
  \/ \E l \in Project : Hits(l.never \ Unsupported, p) \/ Outside(l.only \ Unsupported, p)
  \/ (\A l \in Project : l.only \subseteq Unsupported) /\ Outside(Only(k), p)

\* While the files stay as they are, a path is really deleted exactly when the exclusions of
\* any layer, the nearest project policy, or else the whitelist of the last layer say so.
Faithful == \A w \in Procs :
  pc[w] = "answered" /\ same[w] /\ calm[w] => (skips[w] <=> Ordered(kinds[w], path[w]))

\* A layer that excludes a path excludes it whatever a project says, or changes meanwhile.
Excluded == \A w \in Procs :
  pc[w] = "answered" /\ same[w] /\ Hits(Never(kinds[w]), path[w]) => skips[w]

\* No path is lost to a pattern nobody can match: it is really deleted only if a usable file
\* has excluded it, or has had a whitelist, by a pattern the matcher supports.
Supported(list) == list \ ({None} \cup Unsupported)
Listed(f, s) == IF Normalized(f)[s] = None THEN {} ELSE Supported(Normalized(f)[s])
Wanted(k, p) ==
  \/ Hits(Defaults, p)
  \/ \E f \in {g \in ever.confs : Parses(k, g)} : Hits(Listed(f, "never"), p) \/ Listed(f, "only") # {}
  \/ \E l \in {m \in ever.locals : m.state = "ok"} :
       Hits(Supported(l.never), p) \/ Supported(l.only) # {}
NoBlindDelete == \A w \in Procs : pc[w] = "answered" /\ skips[w] => Wanted(kinds[w], path[w])

\* A changed configuration is reported by a process that goes on deleting.
Changed(w) == kinds[w] = "preload" /\ pc[w] = "ready" /\ mtime # key[w]
Noticed(w) == told[w] \/ mtime = key[w]
=============================================================================
