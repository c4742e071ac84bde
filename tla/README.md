# trashd in TLA+

trashd is a recycle bin for Linux: `rm`, `unlink(2)` and `rmdir(2)` end in a
freedesktop-style trash instead of destroying data.  This directory holds TLA+
models of the parts of it where several processes, crashes and stale
information meet, the TLC configurations that check them, and TLAPS proofs.
Paths below are relative to the repository.

## The system

| Component | State | Operations | Talks to |
|---|---|---|---|
| **Trash root** (`crates/trashd-common/src/store.rs`, `store/`, `store_lock.rs`, `trash_id.rs`) | `files/<id>`, `info/<id>.trashinfo`, `.trashd/` (lock, copy stages, detached trees, markers) | trash, trash_at, list, restore, undo, purge, empty, cleanup | every process, through the file system and two kinds of `flock` |
| **Compression** (`store.rs`, CLI `compress.rs`) | zstd data in place of plain data, a marker in the sidecar | compress before publish, decompress before restore | entry lock, root lock |
| **Automatic purge** (`store.rs` 1713-2085, `config.rs`) | `last_purge`, `auto_purge.lock` | age, compression, size and disk-pressure phases | trash root |
| **Size cache** (`directorysizes.rs`) | `directorysizes` file | record, drop, rebuild | listing, automatic purge |
| **Mounts** (`mounts.rs`) | none kept | choose the root for a path | trash root |
| **Configuration, trust, trashinfo, oplog, proc_stat** | files read or appended | parse, merge, append, rotate | all |
| **Seccomp session** (`crates/trashd-seccomp`) | notification listener, supervisor and watchdog processes, a shared Landlock bit, broker sockets | receive, pin, trash, answer; drain and respawn; startup handshake | kernel, trash root |
| **Preload** (`crates/trashd-preload`) | per-process caches | trash in process, defer to the supervisor, or leave to libc | supervisor (marked system calls), trash root |
| **rm shim** (`crates/trashd-shim`) | the plan for its operands | parse, confirm, trash each operand | trash root |
| **Daemon** (`crates/trashd-daemon`) | event queue, socket | log and report deletions | preload, CLI |
| **CLI** (`crates/trashd-cli`) | none | select entries, call the store, print | trash root |

What is hard in it:

* Every process mutates one root under one advisory lock, `.trashd/store.lock`,
  but lists it without any lock.  What a user chose may be gone, or may be
  another file under the same ID or inode number, when the lock is finally
  taken.
* Data and sidecar are two files; a kill can fall between any two system
  calls, and each system call can fail alone.
* Moves across file systems are copies.  The source is removed after the copy
  is durable, and the user may write to it in the meantime; under a seccomp
  filter that removal happens without the lock.
* The supervisor of a seccomp session answers the system calls of other
  processes; it can die with one in its hands.

### What makes each component correct

* Trash root: no document is ever lost; a restore returns what was listed; an
  entry always has its sidecar; the stages of live copies are left alone and
  those of dead ones are reclaimed; nobody waits for ever.
* Compression: the marker never lies about the data for longer than the
  recovery rules allow, and a restore always delivers plain data.
* Automatic purge: only entries that a phase selected are removed; one purge
  at a time; a crash delays it by at most one period.
* Size cache: a stale size is detected; no update of another process is lost
  unless two rewrite the file at once.
* Seccomp session: each trapped call gets one answer; what the supervisor
  moves is what the caller named; a confined task never borrows the
  supervisor's credentials; a deferred deletion is never left to the kernel.
* Preload: the caller is told the truth about its deletion; a verdict on who is
  deleting does not outlive what it was about.
* Configuration: an excluded path is never trashed and any other never deleted
  for real, whatever layer is missing, broken or being rewritten.
* Shim: nothing leaves that was not confirmed; the exit code is honest; the
  real rm that is executed is never a copy of the shim.
* Daemon: every removal is logged, below the path its directory had; what is
  mounted is watched.
* CLI: a command acts on the entries its user saw; a restore replaces nothing
  and follows no link below a recorded path; repair strands nothing.

## Modules

The `MC` modules give values to the constants of one or several of these for
TLC (see "Runs").

| Module | Models | Code |
|---|---|---|
| `TrashRoot` | one trash root and the processes that share it | `store.rs`, `store/`, `store_lock.rs`, `trash_id.rs` |
| `TrashBin` | what a root promises its user: where documents are and how they move | (abstract) |
| `TrashRootBin` | `TrashRoot` mapped to `TrashBin` | |
| `TreeCopy` | moving one tree between file systems, node by node | `store.rs` |
| `TreeRemoval` | removing one tree for good, node by node | `store.rs` |
| `EntryCompression` | the data and marker of one entry | `store.rs`, CLI `compress.rs` |
| `AutoPurge` | retention: throttle, lock, phases | `store.rs` |
| `DirectorySizes` | the size cache | `directorysizes.rs`, `store.rs` |
| `RootChoice` | which trash directory a file goes to, and making it | `mounts.rs`, `store.rs`, preload |
| `SidecarText` | writing and reading the text of a `.trashinfo` | `trashinfo.rs` |
| `OperationLog` | appending to and reading the log | `oplog.rs` |
| `DeletePolicy` | configuration layers, project policies, the decision | `config.rs`, `store.rs`, preload |
| `GlobMatch` | one pattern against one path | `config.rs`, `store.rs`, preload |
| `SessionStartup` | starting a protected command, or falling back | seccomp `main.rs` |
| `SeccompSession` | a running session: tasks, supervisor, watchdog, broker | seccomp `supervisor.rs`, `watchdog.rs`, `broker.rs`, `pin.rs` |
| `SessionBypass` | whose deletions the supervisor leaves alone | seccomp `supervisor.rs` |
| `PathPin` | one trapped path: pinned, walked, checked, proved, moved | seccomp `pin.rs` |
| `JobWait` | waiting for the command and its orphans | seccomp `main.rs` |
| `PreloadCall` | one interposed deletion | preload `lib.rs` |
| `PreloadVerdict` | the remembered verdict on a process's ancestors | preload `lib.rs` |
| `RmCommand`, `RmWalk`, `RealRm` | one `rm`: operands; the confirmed walk; finding the real rm | shim `rm.rs` |
| `DeletionAudit`, `MountWatch` | the daemon's events; its marks and mount list | daemon `main.rs` |
| `EntrySelection` | which entries a command of the CLI acts on | `store/listing.rs`, `store.rs`, CLI |
| `RestorePlace` | where a restored entry goes | `store.rs`, CLI `restore.rs` |
| `Fsck` | checking and repairing a root | CLI `fsck.rs`, `store/listing.rs` |
| `SelfUpdate` | updating trashd itself | CLI `self_update.rs` |
| `TrashRootProofs`, `EntryCompressionProofs`, `RootChoiceProofs`, `RecordsProofs` (of `RestorePlace`, `DirectorySizes` and `EntrySelection`), `UpkeepProofs` (of `AutoPurge`, `Fsck` and `TreeRemoval`), `SeccompSessionProofs`, `SessionStartupProofs` (of `SessionStartup`, `JobWait` and `SessionBypass`), `PreloadCallProofs` (of `PreloadCall` and `RealRm`) | theorems and their proofs | |

How they fit together: `TrashRoot` is the protocol of one root, seen from
outside as `TrashBin`.  Other modules open what it takes as one step: the copy
(`TreeCopy`), the removal of a detached tree (`TreeRemoval`), the data of an
entry under its own lock (`EntryCompression`), the destination of a restore
(`RestorePlace`), the sidecar's text (`SidecarText`).  `SessionStartup` ends
where `SeccompSession` begins; `SessionBypass` and `PathPin` open its steps
`Gate` and the capture up to `MoveFile`, and `JobWait` is the orchestrator
meanwhile.  `PreloadCall` is what happens in the caller's process and takes the
verdict of `PreloadVerdict` and the decision of `DeletePolicy`, which takes
that of `GlobMatch`, as given.

### TrashRoot

A *document* stands for one content that a file or a directory ever had;
inodes (`Inos`) hold documents, and inode numbers are reused as soon as they
are free.  A sidecar is its version (what `SidecarVersion` compares) and
whether it is completely written.

| Variable | In the code |
|---|---|
| `home` | what the user's paths name |
| `files`, `info` | `files/<id>` and `info/<id>.trashinfo` |
| `stages`, `purging` | unpublished copies and `purging-*` trees in `.trashd/` |
| `rootLock`, `entryLock` | `flock` on `store.lock` and on a data file (`lock_entry_file`) |
| `pc`, `target`, `snap`, `entry`, `seen`, `held`, `made` | locals of one call: where it is, the path, the prepared or listed identity, the ID, the listed sidecar version, the opened data file, the copy it created |
| `ops`, `crashes` | budgets, bounded by `MaxOps` and `MaxCrashes` |
| `born`, `gone`, `raced` | history used by properties only |

One action is what happens between two points where another process can
interfere: a system call or a group of them of which only one is visible to
others.  The actions follow the calls in order:

* trash: `PrepareSource`, `LockForTrash`, `ClaimBaseName`, `ProbeClaim`,
  `ClaimCollisionName`, `WriteSidecar`, then either `MoveByRename` and
  `RefreshSidecar`, or `BeginCopy`, `StageCopy`, `PublishCopy`, `SyncCopy`,
  `RetireCheck`, `RetireUnlink`, and for processes under a filter
  `RelockToVerify`, `VerifyEntry`; errors are `ClaimFails`, `RollBack`,
  `UndoCopy` and the last disjunct of `RetireCheck`.
* list: `ListEntry`, `StatData`, or for data without a readable sidecar
  `ScanOrphan`, `StatOrphanSidecar`.
* restore: `ChooseRestore`, `OpenEntry`, `FlockEntry`, `LockForEntry`,
  `RefuseStale`, `RestoreByRename` or `RestoreByCopy` and `RetireRestored`,
  `RemoveRestoredSidecar`; `RestoreFails` for a conflict or a failed publish.
* purge and empty: `ChoosePurge`, the same locks, `PurgeData`, `PurgeSidecar`,
  `PurgeFails`; `RemoveDetached` deletes a detached tree later.
* cleanup: `TrySweepLock` (never waits), `ClaimAbandonedStage`, `FinishSweep`.
* the rest of the world: `UserWrite` puts new content at a watched path, in
  place or as a new inode, at any time; `Crash` kills a process anywhere.

`Filtered` processes run under a seccomp filter and drop the lock before they
retire a copied source; `Pinned` ones trash through `trash_at()`, which never
drops it, compares with the version it prepared, and rolls back differently.

Three abstractions deserve a word.  Sidecar versions contain timestamps and
are not reused while somebody remembers them (`FreshVers`); the prepared
version of a source that is being copied is protected in the same way, the
bare inode number in a listing is not.  `Forget` clears locals on return, so
idle processes look alike.  A line of a listing shows the document its sidecar
described; `Shown` records it, the code never sees it.

### SeccompSession

The deletions of every filtered task trap.  A trapped call waits in the kernel
under a fresh notification id; a supervisor receives it, looks at the task
through `/proc` and the broker, and answers.  Paths, descriptors and the memory
they are read from are abstracted to the *file* they lead to, numbered by the
call that first named it; 0 is what a stranger under a reused task number
would show.  The root is reduced to its lock and to each file's fate: there,
trashed, deleted.  (The root itself is `TrashRoot`.)

| Variable | In the code |
|---|---|
| `task`, `call`, `kind`, `file` | the kernel's side: running, waiting unreceived or received, left to itself by `ENOSYS`, gone; the id; deletion or `landlock_restrict_self`; what it names |
| `fate`, `confined` | what became of each file; some task is in a Landlock domain |
| `spc`, `gen`, `parent`, `armed` | the supervisor's step, its generation, what its first `getppid` saw, whether its death signal is bound to the watchdog |
| `job`, `grips` | the notification in its hands, and what it captured for it |
| `wd` | the watchdog: waiting, draining, backing off, in emergency passthrough, dead |
| `requests`, `replies` | broker datagrams under way; `gen` stands for the reply socket each supervisor makes |
| `restricted` | the shared bit of `landlock.rs` |
| `rootLock` | who holds `store.lock` |
| `lost` | history: calls that died in the hands of a supervisor |

Actions, in the order of a call: `Trap`; `Receive`; `Gate` (all checks of
`handle_notification` up to the capture); `Ask`, `Serve`, `Hear` (a broker round
trip); `PinTask`, `CheckCaller`, again a round trip for an explicit dirfd,
`RecheckCaller`; `LeaveToKernel` and `Refuse` (the early returns of `try_pinned`);
`LockRoot`, `MayCommit`, `MoveFile` (`trash_at`); `Answer`; `Maintain`.  `Panic` is
the `catch_unwind`, `Declined` is `decline()`.  A new supervisor goes through
`ReadParent`, `ArmDeathSignal`, `CompareParent`, `OpenStore`.  The watchdog does
`Reap`, `Drain`, `StopDraining`, `Respawn` or `ForkFails`.  Around them tasks are
killed and interrupted, trashd's own tools take and release the root lock, a
preload trashes what was declined (`SelfTrash`), supervisor and watchdog die,
and the kernel fails what waits when nobody holds the listener any more.

Whether credentials differ is a free choice in `Gate`: any caller may be
declined at any time.  Which tasks policy leaves to the kernel (`Bypassed`) and
which files it keeps out of the trash (`Excluded`) are constants.  `SelfTrash` is
one step under the lock; its inside is `trash()` in `TrashRoot`.  A broker answer
stands for all the reads one capture makes.  The last `stat` of `try_pinned` fails
only if nothing is left under the name (see the hazards).

### TrashBin and TrashRootBin

`TrashBin` has documents only: `at[d]` is where the copies of `d` are, under a
user path, in an unpublished copy, or in the trash.  A copy may be added where
another is; the last safe one may go only if the user gave the document up
(overwrote it, or agreed to a purge) or wrote it where something was just being
removed.  `TrashRootBin` computes `at` from `home`, `stages` and `files` of
`TrashRoot`, keeps the history variables, and states `Refines == Bin!Spec`: each
of the protocol's steps, kills and failures included, is a move of the promise
or a stutter.

### The data of one entry

`EntryCompression`: inodes hold a content in a form (plain, compressed, decoded
by mistake); the sidecar is a version and the marker.  Retention
(`StatForRetention`, `OpenForRetention`) and the command (`OpenForCommand`) meet
in `Flock`, `Encode`, `MarkCompressed`, `RecheckSource`, `SwapData`,
`RevertMarker`; a restore decodes in place (`OpenMarked`, `Decode`,
`CommitPlaintext`, `ClearMarker`) and then moves out (`OpenForRestore`,
`LockRoot`, `Publish`, `RetireSidecar`).  `Edit` is an application that kept the
file open, `Purge` and `TrashAgain` everybody else.

`TreeCopy` takes a snapshot of a tree, copies it under a hidden name, publishes
it and retires the source node by node, with hard links, immutable entries and
writers.  After a failure the copy is taken back one entry at a time (`Rollback`),
and with the setting `fails` an entry cannot be removed, so that the rest stays.
The second link of a published file is not followed further, and nobody replaces a
published copy; `TreeRemoval` is the same for the two ways of removing a tree
(`remove_tree_at`, `remove_tree_for_real`) with their stacks, batches and what
they do about a directory that was exchanged.  Both state what is left behind
and reported.

### Retention and the size cache

`AutoPurge` keeps ages instead of clocks, and stops counting where nothing can
tell ages apart, so time needs no bound.  A call that trashes (`Mutate`) looks at
the marker, tries the lock, looks again, lists, and goes through the phases age,
size and pressure, purging entries of its listing that are still those.  What
entries occupy (`Held`) is the number of their bytes, a cardinality rather than a
sum, which lets it be reasoned about.
`DirectorySizes` has one file that is read and later replaced as a whole:
`RecordRead` and `RecordWrite` under the root lock, `RebuildRead` to
`RebuildWrite` without or with it, readers that accept a row whose mtime, in whole
seconds, is that of the sidecar.

### Roots and sidecars

`RootChoice` runs the two implementations of choosing and making a volume's
trash (`mounts.rs` and the preload) against each other, directory by directory,
and against `all_trash_dirs`, which must find what was trashed.  `SidecarText`
works on sequences of tokens: keys, line ends and the bytes of values; `Written`
is what the code writes; `ReadHeader`, `ReadPath`, `ReadDate` and
`ReadExtension` are the reader line by line with its "first one wins" rules, so that hostile names and files are simply members of a set.

### Configuration

`DeletePolicy` has the files of two layers and of two project directories, each
with a state (absent, sound, partly or wholly broken, not a regular file,
ignored because of its owner), and two loaders; a process decides on a path with
what it loaded, and the preload's may be out of date until `Noticed`.
`GlobMatch` evaluates the code's matcher, its three shortcuts included, as a
machine with one point to go back to, and compares with a definition by
recursion on the pattern.

### The session around SeccompSession

`SessionStartup` has child, watchdog, supervisor and orchestrator, their sockets
and the poll in `wait_for_startup`; each step may fail, hang or be killed.  The
orchestrator reaps the child and the watchdog; the supervisor ends on its own
(`SupervisorEnds`), at its death signal or with the last user of its listener.
`JobWait` has the loop of `wait_for_children` with its signalfd, its limited
pidfds, reparented processes and a tracer.  `SessionBypass` walks the process
tree level by level with both caches, while processes exit and exec.  `PathPin`
represents a directory as a place (mount, node), so that the same node may be
visible twice or hidden; the caller's view and the supervisor's differ in root,
namespace or both.  `Walk` is the kernel's resolution; in the caller's view it is
what the pinned parent is checked against.

### The preload library

`PreloadCall` follows one hook through its guards, the store's preparation, the
lock, the claim of a name, the sidecar and the move or copy, for each of the hooks
(`unlinkat` with and without `AT_REMOVEDIR`), against other callers, writers, and trash programs that know no lock.  `PreloadVerdict` has the
two atomics and the fork that copies them in any state.

### The rm shim

`RmCommand` is `main` after parsing, over several operands, with the walk as one
step, and for `-d` the look into the directory (`List`) apart from the first one;
`RmWalk` is the plan (all questions first) and the act that may meet
another tree, and with the setting `faulty` each call of either may fail; `RealRm` the search for the real program with the shared file of
verdicts.

### The daemon

`DeletionAudit` has the kernel's queue with its overflow record, reads of up to
some records, the learning of removed directories from the same read or the
next, and the cache of handles with its eviction.  A removed directory that
somebody holds open can still be decoded until `Close`.  `MountWatch` has
superblocks, mounts, marks that die with the superblock, the scan at the start and
those after it, and the order in which file systems are tried; handles themselves
are decoded in `DeletionAudit`.

### The commands

`EntrySelection` gives each command a listing per root and compares what it acts
on with what was in the roots all along.  `RestorePlace` is the walk to the
destination's parent, component by component with pinned directories, `mkdir` on
the way, the look at the destination, and the rename that replaces nothing; with
`--force` the suffixes, singly or in a batch.  `Fsck` is the two-look listing,
the questions asked without the lock, and the repairs; `SelfUpdate` the check
with its cached answer, the download, its verifications and the installer.

## Runs

`MCTrashRoot`, `MCSeccompSession` and `MCEntryCompression` instantiate one
component each.  The other `MC` modules put components next to each other that
answer one question together: `Start` chooses a `part`, the variables of that part
begin as its `Init` says, all others are `Off`, and only the actions of the part
are taken.  So a behaviour of the run is one of one component, none of its
behaviours is missing, and nothing of another component can make a property
true or false: each conjunct of a property is guarded by its part, and each
`[][...]` and `WF`/`SF` is over the variables of its part.  The parts are
listed with each run.

| Run | Module, configuration | Properties |
|---|---|---|
| `root_safety` | `MCTrashRoot`, `MCTrashRoot.cfg` | `TypeOK`, `NoDocumentLost`, `LiveStageKept`, `DataHasSidecar`, `RestoreDeliversListed` |
| `root_liveness` | `MCTrashRoot`, `MCTrashRootLive.cfg` | `OperationsEnd`, `LeftoversReclaimed`, `Refines` |
| `session_safety` | `MCSeccompSession`, `MCSeccompSession.cfg` | `TypeOK`, `ActsOnCaller`, `DeferredKept`, `ConfinedUntouched` |
| `session_liveness` | `MCSeccompSession`, `MCSeccompSessionLive.cfg` | `CallsAnswered`, `ServiceReturns` |
| `session_lock_hang` | `MCSeccompSession`, `MCSeccompSessionLocked.cfg` | `EveryCallAnswered` **violated** |
| `compression` | `MCEntryCompression`, `MCEntryCompression.cfg` | `PackedIsMarked`, `RestoresPlain`, `LatestKept` |
| `records` | `MCRecords`, `MCRecords.cfg` | `RestoredOnce`, `RecordedPlace`, `HonestRecords`, `NothingReplaced`, `ChoosesRight` |
| `upkeep` | `MCUpkeep`, `MCUpkeep.cfg` | `NothingAstray`, `PurgesRight`, `UpkeepEnds` |
| `seccomp` | `MCSeccomp`, `MCSeccomp.cfg` | `StartedOnce`, `NothingLeft`, `SupervisesHonestly`, `StartsProtected`, `CallersView`, `SessionEnds` |
| `delete` | `MCDelete`, `MCDelete.cfg` | `HonestResult`, `CompleteEntry`, `NothingElseGoes`, `RmHonest`, `DeletionsEnd` |
| `daemon` | `MCDaemon`, `MCDaemon.cfg` | `PlacedFindably`, `AuditTrue`, `SettledInTheEnd` |
| `programs` | `MCPrograms`, `MCPrograms.cfg` | `ProgramsRight` |

What they show, and with which bounds:

* **`root_safety`.**  Two processes, one of them under a seccomp filter, trash, list, restore, purge and sweep one root with a foreign and a local path, a crash and reused inode numbers and IDs: no document is lost.  A local and a foreign path; two IDs, one of
  which is the base name of both paths, so that every claim can collide; three
  documents and three inode numbers, so that a number is reused while somebody
  remembers it; six sidecar versions, enough for one to be fresh whenever one is
  needed; three operations, which is what the longest interesting history needs
  (trash, list and purge or restore, trash again under the same ID); one crash.
* **`root_liveness`.**  Whatever the others hold or die with, an operation that began ends and what crashes left is removed; and each step, with one process using trash_at(), moves a document as the abstract TrashBin allows.  One foreign path, a document that is a
  directory, two operations, no symmetry because liveness is checked.  Every
  action of `TrashRoot` fires.  The theorem `Refinement` needs no bounds.
* **`session_safety`.**  A deferring task and a lock-holding tool that may confine itself, killed and interrupted tasks, two deaths of supervisor or watchdog: the supervisor moves only what its caller named, never after a confinement, and no deferred deletion reaches the kernel.  Three notifications, so that a call can
  be restarted and the other task still have one, the second of them naming an
  excluded file; two deaths, so that a reply to a dead supervisor meets its
  second successor and a watchdog can die after a replacement.
* **`session_liveness`.**  Every trapped call is answered unless a supervisor died with it, and after a death notifications are served again.  Two notifications, one death, and no
  tool that holds the lock while it deletes, because that is the hang of
  `session_lock_hang`; the second task is a plain one.
* **`session_lock_hang`** must find `EveryCallAnswered` **violated**.
  The supervisor waits for the root lock of a tool whose own trapped unlink waits for the supervisor.
* **`compression`.**  Two processes compress and restore one entry, an application still writes to its data, the name is purged and trashed again, one process is killed: packed data is marked, restores deliver what the user had, and no edit is swapped away.  Two plain contents and an archive; four inode
  numbers (data, two open ones, a new one) and four versions, two of which may be
  remembered; two operations and a kill, after which the second finds what the
  first left.  Proved without bounds.
* **`records`.**  Two restores while directories on the way are moved and replaced by links, rows of directorysizes under swaps and damage, commands that select from a changing listing, and hostile sidecars: what is recorded is true and what is done follows it.  Parts: `place` (`RestorePlace`: two processes, paths of
  two directories, suffixes to three, one change by somebody else), `sizes`
  (`DirectorySizes`: two processes and two IDs, two trees, two seconds, one swapped
  victim and one fault), `selection` and `undo` (`EntrySelection`: two roots, the
  commands of the CLI, entries made or removed by others meanwhile) and `text`
  (`SidecarText`: short names with hostile bytes, crafted `Path` values, every order of
  up to three lines: enough for a `..` in escapes, a key inside a value, and each pair of
  duplicates).
* **`upkeep`.**  Retention on a stale listing with users, kills and reused IDs, fsck against processes that know no lock, and the copy and the removal of a tree that others change: only what was meant goes, and the work ends.  Parts: `purge` and `reuse` (`AutoPurge`: two processes,
  one of which defers retention; two entries of which one alone fills the
  limit; with a kill and an entry that cannot be removed, or with two
  generations of an ID; ages stop counting one above the largest limit), `fsck`
  (`Fsck`: two IDs with combinations of data and sidecar, one change by a
  trashing process and a file manager), `copy` and `removal` (`TreeCopy`, `TreeRemoval`:
  a directory with a file, a hard link, a directory with a file and a free name;
  up to two changes by others, immutable, inaccessible and unreadable nodes, a copy
  that cannot be taken back, one kill).
* **`seccomp`.**  Every failure, kill, signal and delay of a session startup, the wait for its processes, paths named from other views of the file system and renamed while they are pinned, and cached ancestors: started once and protected, judged as the caller stands, ended when all are reaped.  Parts: `startup` (`SessionStartup`: two kills, so that
  the failure of a failure's handler happens), `job` (`JobWait`: a command and a
  daemon, one pidfd, two signals), `pin` (`PathPin`: three levels of directories, a
  link, an empty directory and a policy file, callers with views of their own,
  one change) and `bypass` (`SessionBypass`: two levels between caller and
  orchestrator, caches that live one tick of three, two changes).
* **`delete`.**  Two hooked deletions against writers and trash programs without a lock, rm over several operands, and the confirmed walk of a tree that others change: callers are told the truth, entries are complete and nothing else goes.  Parts: `call` (`PreloadCall`: twelve settings, each with
  two calls on one path; a change, a foreign tool, a fault and a kill are spread
  over them, since all at once exceed what TLC can do; proved without bounds),
  `command` (`RmCommand`: two to four operands of every kind under every
  combination of options that interact, one change) and `walk` (`RmWalk`: a tree of three
  levels, every answer, one or two changes, or calls that fail).
* **`daemon`.**  Two implementations choose and make trash roots of one volume, the deletion log under overflow and late directory records, mounts that come and go, and a configuration that changes: roots can be found, the log is true, and all is settled once the users stop.  Parts: `choice` (`RootChoice`: each pair of
  implementations, on volumes that are sticky, safe, loose or the user's own, one
  change), `audit` (`DeletionAudit`: two nested directories with files and an equal
  handle elsewhere, reads of one, two or four records, a queue that overflows, a cache
  for one or two directories where three can be asked for, directories that are
  held open while they are removed), `mounts`
  (`MountWatch`: two mount points, more superblocks than mount points, changes while
  the daemon scans) and `notice` (`DeletePolicy`: two loaders while a file is rewritten).
* **`programs`.**  The search for the real rm, the cached verdict on a process, pattern matching, the shared operation log, self update and the decision of the policy, each under concurrent changes and faults: every answer is right when it is used.  Parts: `real` (`RealRm`: two invocations, three
  candidates, one reinstallation, one fault), `verdict` (`PreloadVerdict`: two
  threads, a fork, two ancestors, two ticks), `glob` (`GlobMatch`: all patterns of
  three characters and combinations of three tokens on short paths; a star has to
  go back twice), `log` (`OperationLog`: two writers, two records, chunks shorter than
  a line, one torn write, one removal), `update` (`SelfUpdate`: two updaters, two
  releases) and `policy` (`DeletePolicy`: combinations of a global and a user
  configuration and two project files, one rewriting).

Deadlock checking is off: the modelled programs return and the budgets of the
rest of the world are used up, so every instance stops.  That nothing hangs
before is what `OperationsEnd`, `CallsAnswered`, `SessionEnds`, `UpkeepEnds`,
`DeletionsEnd` and `SettledInTheEnd` say.

### Disagreements

`session_lock_hang` shows a real difference between the code and what is written
next to it:

* **Waiting for the lock.**  The supervisor is single-threaded and waits for the
  root lock without a limit.  A `trash restore` or `trash empty` started inside
  the session holds it while its own `unlinkat` is trapped; the bypass for
  trashd's own binaries is applied when that notification is read, which
  never happens.  Both hang, and every other deletion of the session after
  them.  ("ALL code paths MUST send a response", supervisor.rs:304.)

The other differences met while modelling are described here and are not checked
by a run.  Where a property would say the opposite it has the exception: only
what is left of it is claimed.

* **Retirement window.**  `retire_copied_node_at` stats the source and unlinks
  it by name.  "A replaced or modified file is the user's newer data: it
  stays" (store.rs:3902) does not hold for a file written in between.
  `NoDocumentLost` therefore excepts exactly the documents put there.
* **Verification by existence.**  After retiring without the lock, `trash()`
  asks whether `files/<id>` and its sidecar exist.  A purge and another trash
  of the same name in between satisfy it; the comment (store.rs:806) promises
  that the entry survived.
* **Rollback of `trash_at`.**  A failed `fsync` after publication removes the
  sidecar only; the copy stays as an orphan.  `trash()` removes it.
* **Expired is not dead.**  A signal ends a notification too.  The file is then in
  the trash, and the restarted call of a living task reports ENOENT.
* **Orphaned supervisor.**  `getppid` is compared with a value read after the fork.
  If the watchdog died before that, the parent is the orchestrator, a
  subreaper, both values agree, and the supervisor serves without anybody who
  would replace it.

* **Size of another directory**.  `trash_at` measures a
  directory before the move, and records that size for whatever landed.
* **Lost startup message**.  A child that fails between two
  looks of one `poll` is taken for a command that ran; nobody runs it.
* **Confirmed by name**.  The shim moves an emptied directory
  by name without comparing it again with the confirmed identity.
* **`-f` is not cancelled**.  `always` after `-f` does not
  bring the report of missing operands back.
* **Orphan after the move**.  The preload does not look at the
  sidecar again after its rename, so a trash program without the lock can make
  the move land as an orphan.
* **Verdict and stamp**.  They are
  two atomics read one after the other, and the clock may be set back: an
  expired verdict is used.
* **Evicted directories**.  A read with more removed
  directories than the cache holds evicts the outermost before they are used, and
  what was in them is logged by its bare name.  `Named` excepts the keys that the
  cache let go; two settings of the run have caches that do.
* **Held directories**.  The handle of a directory that was removed while
  somebody has it open can be decoded, and its `/proc/self/fd` link ends in
  " (deleted)" (main.rs:795-800).  What was in it is then logged under a path that never
  existed.  `TruePath` asks that the rest of such a path is true, and that a directory
  held open is the cause.
* **Replaced link**.  If a link that is copied to another file system is replaced
  by a file between the second stat and `read_link`, the copy fails, `try_trash` answers
  `NotTrashed` (lib.rs:1850-1868, 1918-1919), and the hook deletes the file for real,
  although of a changed source it is said that "NotTrashed would ask the hook to permanently
  delete the replacement" (lib.rs:1593-1594).
  `ReplacedKept` excepts exactly this, a link whose copy was never made (`LinkLost`).
* **`rm -d` and a file**.  A directory that is replaced by a file before `read_dir`
  cannot be listed, is taken for an unlistable directory, and `real_rm` deletes the
  file for real (rm.rs:318-328).  `NothingLost` lets a file go so only after a change.
* **Best-effort rollback**.  A failed move to another file system removes its copy
  and ignores that this may fail part way (store.rs:4567, 4812-4832), so part of the
  copy may stay, under its hidden name; and an error after publication (4601, 4668, and the
  retirement of a snapshot) leaves the published copy next to what is left of the source.
  `FailedClean` says which of these a failed move may have left, and that no data is lost.
* **Supervisor of a failed startup**.  `startup_failed` says that retiring the watchdog
  retires the supervisor before the command runs unprotected (main.rs:322-323), but only the watchdog
  is waited for.  The supervisor becomes a child of the orchestrator, a subreaper
  (main.rs:130-134), which may execute the fallback before the supervisor is gone: the
  command then has a child it never started.  `NothingLeft` says that this is all that
  is left, `SessionEnds` that it ends.
* **Two updaters**.  The one that waited installs an older
  release over a newer one.
* **A lost `mkdir`**.  The process whose `mkdir` of the
  volume's trash loses the race falls back to the home trash.
* **fsck without the lock** reports a sound root; and its listing
  looks twice, so a sidecar that appears in between is purged
  with its entry.
* **Two loaders**.  An error in a key that only the library
  reads drops the file for the library alone.
* **Torn lines**.  A write cut short by a full disk is
  joined with the next record.
* **The first date** wins only if it is a date.
* **Path pinning**.  A
  directory swapped in is moved by an unlink; a working directory that was
  mounted over is recorded under what covers it; `rmdir` of a mountpoint gets
  another errno than the kernel's.
* **Who deletes**.  Updated
  trashd programs are unknown for some seconds; an exit in the middle of the
  walk hides the ancestors above.
* **Restore**.  A single `--force`
  does not go on to the next suffix when it loses the race; `--to` with an
  existing directory is refused.

### Fairness

`FairSpec` of `TrashRoot` assumes that a process which has begun an operation takes its
next step (weak fairness of `Step` while it is not idle: the code has no
unbounded loop between system calls), that a process waiting in `flock` gets
a lock that is free again and again (strong fairness of the locking actions:
the kernel wakes waiters), and that maintenance comes back: cleanup runs after
mutations and from the weekly timer in `install/systemd`, so removing detached
trees is weakly fair, and finding the root lock free at some time and claiming
what is found then are strongly fair.  Nothing is assumed of crashes, user
writes, or of anybody starting an operation.

`FairSpec` of `SeccompSession` assumes that supervisor, watchdog and orchestrator
run on (weak fairness of the disjunction of the steps each always can take),
that a pending death signal is delivered, that the kernel fails what waits on a
closed listener, that a tool which holds the root lock and is not itself
blocked releases it, and that `flock` waiters get a lock which is free again
and again (strong fairness of `LockRoot`, `Maintain`, `SelfTrash`).  Refusals,
panics, deaths, signals and new calls have no fairness.

The other liveness properties need less.  `GlobMatch`,
`OperationLog`'s reader, `TreeCopy`, `TreeRemoval`, `RmCommand`, `RmWalk`,
`RealRm`, `PreloadCall`, `RootChoice`, `MountWatch` and `DeletionAudit` assume weak
fairness of the program's own next step only: between two system calls the code
always goes on, and none of these steps waits for another process.  What others
do has no fairness and is bounded instead.  `Fsck` adds strong fairness of taking
the root lock again, as `TrashRoot` does, and that a deletion which has begun
ends.  `SessionStartup` lets child and orchestrator go on and time pass, while
the supervisor may hang for ever, but ends once its watchdog and the child have
(by a death signal, or at the end of the listener); `JobWait` assumes that every process exits at
some time.  `AutoPurge` assumes that time passes, that somebody goes on deleting
(purging runs after deletions), that calls go on, and, strongly, that listing a
root does not fail for ever.  `DeletePolicy` assumes that a decision which has begun is
taken, that time passes for its process, and that a process which goes on
deleting reaches each of its paths again and again.

`TrashBin`, `TrashRootBin`, `EntryCompression`, `DirectorySizes`, `SelfUpdate`,
`EntrySelection`, `SidecarText`, `PathPin`, `SessionBypass`, `PreloadVerdict` and
`RestorePlace` state safety only and assume no fairness.

## Proofs

`TrashRootProofs` proves for every value of the constants that satisfies
`Constants` and `PinnedProcs`:

| Theorem | Statement |
|---|---|
| `Typing` | `Spec => []TypeOK` |
| `MutualExclusion` | no two processes are in steps that the root lock protects |
| `DocumentsSurvive` | `Spec => []NoDocumentLost` |
| `StagesSurvive` | `Spec => []LiveStageKept` |
| `SidecarsSurvive` | `Spec => []DataHasSidecar` |
| `RestoresDeliver` | `Spec => RestoreDeliversListed` |
| `Refinement` | `Spec => Refines`, the root implements `TrashBin` |
| `PromiseKeeps`, `PromiseIsFinal` | `Bin!Spec => []Bin!Kept` and `Bin!Spec => Bin!NeverBack` |
| `RootKeepsPromise` | `Spec => []Bin!Kept /\ Bin!NeverBack` |

None of the safety properties is inductive alone.  `IInv` strengthens them:

* `BoundInv` and `LockInv`: which locals are set at each step, and that the
  steps called `Locked` imply holding the lock.  Everything else uses the
  consequence that at most one process is in such a step (lemma `Alone`).
* `BornInv`: every document found anywhere has existed.
* `ClaimInv`, `ProbeInv`, `CopyInv`: a claimed ID has no data until its owner
  moves or publishes it; what a copier published is what it copied.
* `UnlistedInv`, `SeenInv`, `ListInv`, `StaleInv`: what a listed line means
  while its sidecar version is still on disk, and that it can never become
  true again once it is not.  This is the heart of `RestoreDeliversListed` and of
  the purge case of `NoDocumentLost`: a version that is remembered is never
  given to another sidecar, and data under it can only disappear.
* `SidecarInv`: complete before the data arrives, removed after it left.
* `PublishedInv`: what a cross-device restore published is there unless
  somebody raced it.
* `SafeInv`: each document that is still wanted is in a place nobody has
  decided to empty: under a path that no retirer is about to unlink, or in a
  `files/` slot that is not provisional.

Each conjunct has a lemma with one step per action; `InvNext` joins them.
`IInv` was checked by TLC as an invariant of the same instances.

`StepSimulates`, the core of `Refinement`, has one step per action of `TrashRoot`,
which maps it to a move of `TrashBin` by one of a few lemmas (`Renames`, `Stages`,
`Publishes`, `CopiesBack`, `HomeLeft`, ...), under `IInv` before and after it.  The
invariant says what an action leaves behind elsewhere: that a copy which is
retired is still safe in the other place.  The promise is enough: from `TrashBin`
alone follow `Kept` (no document is lost that was neither given up nor written
into a window) and `NeverBack` (what is nowhere any more does not return), and
`RootKeepsPromise` carries both back to the root.

`SeccompSessionProofs` proves for every `SessionConstants`, so for any number of
tasks, calls and deaths:

| Theorem | Statement |
|---|---|
| `Typing` | `Spec => []TypeOK` |
| `CallerOnly` | `Spec => []ActsOnCaller` |
| `DeferredAreKept` | `Spec => []DeferredKept` |
| `ConfinedStayUntouched` | `Spec => ConfinedUntouched` |
| `RepliesArePrivate` | requests and replies of this generation belong to what the living supervisor waits for |

Its `IInv` adds to the properties:

* `CountInv`: ids and files are given out once, so an id that expired never
  becomes valid again and no two tasks name the same file.
* `JobInv`: while the id is valid, the task asks for exactly what was received.
* `SocketInv`: at most one exchange of the living supervisor is under way; every
  other datagram belongs to an earlier one.  With `JobInv` this gives `GripInv`:
  whatever was captured while the id stays valid leads to the caller, so one
  check after the last read is enough, and the check before it is not.
* `WatchInv`: the watchdog touches the listener only without a supervisor; so
  nobody sets the bit behind one that has passed the gate (`BitInv`).
* `GrantInv`: when the supervisor is about to continue a deletion of a caller
  that still waits, policy allows it, it was not deferred, or nothing is left.

`EntryCompressionProofs` proves, for any number of processes, contents, inode
numbers, sidecar versions, operations and kills:

| Theorem | Statement |
|---|---|
| `Typing` | `Spec => []TypeOK` |
| `Marked` | `Spec => []PackedIsMarked` |
| `Plain` | `Spec => []RestoresPlain` |
| `Latest` | `Spec => []LatestKept` |

The three properties are proved together, as `Safe`.  `Locked` says which steps
hold the root lock.  `Versions` says that a listing whose version is still that of
the sidecar tells the marker, and that decoders saw one and restorers none; it
holds because a version that is remembered is never given to another sidecar.
`Kept` is about the data: packed is marked, an archive of the user that is or was
taken for packed data was written under a marker.  `Knows` is what a process in
the middle of its work may rely on: at `commit`, data that still looks unchanged
has no magic bytes; from `swap` to `unmark` the data is the inode that is open.

`RootChoiceProofs` proves, for any number of writers of either implementation,
all settings and any number of changes by others (`PlacesAssumption`: the home
trash is no trash of the volume; `SettingsAssumption`: the types of a setting; a
run evaluates both):

| Theorem | Statement |
|---|---|
| `Invariant` | `Spec => []IInv` |
| `Placed` | `Spec => []PlacedFindably` |

`Stage` says what each step has been given by the steps before it, `Made` that what
a writer has made or seen is still there while the user changes nothing, `Order`
that who is done stays done.  `Reasons` is the heart: a place is passed over
because it is not usable, because something foreign is in it, or because it is
missing and may not be made, and no writer can take such a reason away.  So two
writers cannot have stopped at different places (`InvAgree`): the later place
needs a reason against the earlier one, in which a file was published.  `Agree` is
about writers whose time was their own.  It cannot say more: a library that finds
a root missing, and then loses the race to make it, does not use the root that
is there now but goes on to another place (`mounts.rs`, 411-414 and 462-472).
With two writers and the old wording, which compared a writer with one that
was done before it started, that did not show; with a third it does, and the
proof is where it was met.  Such a file is still listed, as `Findable` says.

`RecordsProofs` proves about `RestorePlace`, for any number of processes, calls, directories,
suffixes and changes by others:

| Theorem | Statement |
|---|---|
| `Typing` | `Spec => []TypeOK` |
| `Once` | `Spec => []RestoredOnce` |
| `NoReplacing` | `Spec => NothingReplaced` |
| `Recorded` | `Spec => []RecordedPlace` |
| `KeepsBothInBatch` | `Spec => []BatchKeepsBoth`, while there are fewer files of a name than suffixes (`FewFiles`) |

`ElsewhereInv` says that no component of a destination ever names the place a
link leads to, `PinInv` that nobody who follows a recorded path has it pinned,
and `OnceInv` that a restored entry is no longer in the trash.  For a batch with
`--force`, `TriedInv` says that it comes to a suffix only when it has found those
before it in use, and they stay in use; it would be refused when all are.  `CountInv`
counts them: each was there at first, was made by others, or was restored by
somebody, and the batch itself has restored nothing yet.  `FewFiles` says that this
does not add up to all the suffixes; the README of the repository promises to keep
both and leaves unsaid what happens after `.999`, and a run evaluates `FewFiles` for its
constants.

About `DirectorySizes` it proves, for any number of processes, names, seconds,
trees and faults (`SizesAssumption`):

| Theorem | Statement |
|---|---|
| `SizesTyping` | `Spec => []TypeOK`, with one row for each name |
| `RowsHonest` | `Spec => []HonestRows` |
| `LeavesAllRows` | `Spec => [][CompleteRows]_vars` |

`HonestRows` speaks of the file, but rows also lie in the memory of a process that
read the file long ago and will write them back, so `RowsInv` says the same of
every row anywhere (`RowOK`), and adds what makes it inductive: a row names a
second in which its name was really used (`Dated`).  A directory trashed under
that name later is then accepted by the stale row only if it was trashed in that
same second, which is the case that the property sets apart (`RowStays`).  New rows need
`HoldInv`, that a deletion that records has measured what it trashed and its lock
keeps that in place, and `SeenInv`, that a rebuild remembers the second of the sidecar from
before it measures.  `SizesAssumption` leaves out a victim that is
replaced while it is trashed through a directory handle: that one is not
measured again, and gets a wrong row (see "Size of another directory").

`CompleteRows` speaks of one step, the last of an operation, when nobody else is at
work.  Before it the file may be wrong in many ways, because a directory is
moved first and recorded later.  `CompleteInv` says who will put that right: a process
that has changed a directory under a name, or that rebuilds, `Owes` a write, and whatever
the file (`FileFits`), the rows that a deletion has read (`RecordFits`) or the rows that a
rebuild has collected (`RebuildFits`, `MeasureFits`) lack of a name is still owed by
somebody else.  A write that comes between another's read and write breaks
this, as the other then writes what it had read: that sets `raced`, which the property
sets apart, as it does a kill.  The last process owes nobody, so what it writes is complete.

About `EntrySelection` it proves, for any roots, IDs, names, globs, commands and
moves of others (`SelectionAssumption`: a command has a trashed path or a selector
but not both, as the CLI parses them, and `None` is no other value):

| Theorem | Statement |
|---|---|
| `SelectionTyping` | `Spec => []TypeOK` |
| `ActsAsListed` | `Spec => []ActsOnItsLine` |
| `SaysNotFound` | `Spec => []NotFoundHonest` |
| `ChoosesAlone` | `Spec => [][Unambiguous]_vars` |
| `TakesEveryCopy` | `Spec => [][EveryCopyChosen]_vars` |
| `TakesTheNewest` | `Spec => [][UndoesNewest]_vars` |

All of them compare what is chosen with the entries that were there all along
(`steady`), and nothing of that is visible in what a command knows.  `SelectionInv`
connects them.  `ListInv`: wherever the listing has been in this pass, it has a line
for each steady entry, since such a sidecar is found by every read and its root
cannot be skipped.  `SelectInv`: a search that ended has a line for all of them, or
it was the quick pass and has one for each steady entry of the ID it looked for, which is
enough because it then had a match of that tier (`Quick`).  `LinesInv`: a stamp
in the listing is nobody else's, so that of two lines as new as each other one is
not steady; it needs `SlotsInv`, that stamps are given once.  `ChosenInv`: what is left of the
listing when its lines are forgotten, that a line about to be acted on is the best
or the newest (`Best`, `Newest`).  The tiers of a line and of its entry agree
(`ListedTiers`), and the newest line exists by the library's theorem on
well-founded orders (`Largest`), not by an induction of ours.


`UpkeepProofs` proves about `AutoPurge`, for any number of processes and kills, any
finite number of entries, and all sizes, limits and intervals (`PurgeConstants`):

| Theorem | Statement |
|---|---|
| `Right` | `Spec => PurgesRight`: `Throttled`, `RecentKept` and `NotOverTrimmed` |
| `Invariance` | `Spec => []IInv` |
| `Typing` | `Spec => []TypeOK` |

`Alone`: at most one process holds the lock, which with `Turns` is the one that
removes.  `Marked`: the marker is as old as the last run, so what the second look
under the lock finds is what `Throttled` asks; the first look, without it, is
not needed for safety.  `Listed`: a line of any listing, however old, says
nothing false of an entry that is still that one, which has only become older;
an ID used again has another generation, and `Used` keeps generations from coming
back.  So an entry a phase may take when it was listed may be taken when the phase
comes to it.  `PhaseOK` says of the size phase that what it has still to free never
exceeds what is too much now, counting what users removed since the listing.  That
is preserved because only the run itself frees anything its count does not
know of: `OtherPhase` needs `Alone` for it, `TrimPhase` that only what was really
purged is counted, and entries that are added only help.  `TotalNext` says what each
step does to what entries occupy together; it rests on cardinalities of unions
(`BytesLess`, `BytesGrow`).  `IInv` was checked by TLC before it was proved, with two
processes, an ID used twice, entries that cannot be removed, and a kill.

It proves about `Fsck`, for any root, any number of processes that lock and that do
not, and any number of changes by them and the user (`StartsAssumption`, which the
run evaluates for its own constants):

| Theorem | Statement |
|---|---|
| `FsckTyping` | `F!Spec => []F!TypeOK` |
| `StrandsNothing` | `F!Spec => []F!NoneStranded` |
| `KeepsRecovered` | `F!Spec => []F!RecoveredKept`, if `Careful` |
| `CleanMeansClean` | `F!Spec => []F!CleanExit` |

These are the conjuncts of `NothingAstray` about fsck.  `LockHeld` says who has the
lock and that a file manager, which never locks, is done before its sidecar is
five seconds old; with `Listing` (the sidecar about to be removed is old and
without data) nothing can be on its way to it.  `Snapped`: a snapshot is of data
without a valid sidecar, and what is written later has another version, so the
comparison under the lock (`Current`) refuses what has been recovered.  `Careful`,
nobody writes a sidecar between the listing and the last snapshot, is needed:
the listing and each snapshot are separate reads, and a sidecar restored by hand
in between is taken for the one that was missing.  `Looked` is what each pass leaves
behind: up to where fsck has come, each ID is sound, or its problem is counted
or noted as an orphan, unless somebody has interfered.  `FsckInv` was checked by TLC
with and without `Careful` before it was proved.

It proves about `TreeRemoval`, for any tree, both walks, any batches in which the
kernel lists a directory, and any number of changes by others (`RemovalAssumption`:
a directory has one name, and what others hold is not in the tree):

| Theorem | Statement |
|---|---|
| `RemovalTyping` | `R!Spec => []R!TypeOK` |
| `TakesItsTreeOnly` | `R!Spec => []R!TreeOnly` |
| `RemovalAnswers` | `R!Spec => []R!NothingSilent` |
| `RemovesThoroughly` | `R!Spec => []R!Thorough` |

These are the conjuncts of `NothingAstray` about a removal.  The first three follow
from `RemovalInv`: what is in the tree has been in it (`been` is closed under
what its directories hold, so nothing exchanged into the tree brings more than
its own), the walk only stands in such directories and only there has a name to
unlink, and a level that has failed has reported.  `RemovesThoroughly` is about a
removal nobody disturbs (`Undisturbed`), and needs `ThoroughInv`: the stack is a way
down the tree (`ChainInv`) and each directory is opened once (`OnceInv`); a level's
list holds what is still to come, and once it is complete it names all that the
directory holds (`ListInv`); what the walk is done with and is still there was
reported, could not be listed, or is a directory that holds something or was
itself reported (`DoneInv`); a level has failed exactly when something stays
(`FailedInv`); and a report is of what cannot go (`ReportInv`).  At the end nothing
is ahead, so what remains and was opened is accounted for; what was never opened is
below a directory that was not, since the directories opened and those below
what is reported are closed under what they hold (`AllVisited`).  That is why
`From` is the smallest closed set and not a recursion, and why `opened` records what
the walk has opened; no step reads it.  Both invariants were checked by TLC
before they were proved.

`SessionStartupProofs` proves, for any number of kills:

| Theorem | Statement |
|---|---|
| `ExecutedOnce` | `Spec => []StartedOnce` |
| `LeavesNothing` | `Spec => []NothingLeft` |
| `ProtectedFromTheStart` | `Spec => StartsProtected` |

`ChildInv` ties what the child has sent to how far it is; `WatchInv` says that the
watchdog is started once, after the listener came, and that "ready" is never
taken back, and that there is a supervisor only where there was a watchdog; `StartInv` that nobody has executed the command before the byte is
sent, and that there is no fallback after it; `EndInv` that what was ended stays
ended.  `StartedOnce` alone is not inductive: a late child could be released
by a wrapper that is about to fall back.

About the wait (`JobWait`, instance `J`) it proves, for any number of processes,
descriptors and signals (`JobAssumption`: the orchestrator is no process of the
tree, and the command no daemon), and about `SessionBypass` (instance `B`), for any
chain of processes, depth and lifetime of the caches (`BypassAssumption`); a run
evaluates both for its own constants:

| Theorem | Statement |
|---|---|
| `LastOneReaped` | `J!Spec => []J!AllReaped` |
| `InterruptedOnce` | `J!Spec => []J!IntOnce` |
| `DaemonsLeft` | `J!Spec => []J!DaemonsSpared` |
| `OwnProgramsKnown` | `B!Spec => []B!OwnProgramsLeft` |

These are conjuncts of `SupervisesHonestly`.  `AllReaped` speaks of processes the
loop has never heard of, grandchildren that become its own when their parents
exit.  `Rooted` is what makes it hold: no set of processes is closed under
"parent", so if anybody is left, somebody is left who is a child of the
orchestrator (`SomebodyOurs`).  Such a one is on the list when it is made, and
`Watched` says that until something is reaped one of the children is still to be
asked or has been found alive and is watched; after a reap the list is made
again.  The argument needs no bound on the descriptors: a child without one is
`untracked`, and counts.  `Ints` says that `INT` is not pending before the command
has ended.  `Identities` says that remembered inodes are the installed program's
or were read before it was replaced, and that a call which passed them does not
come from one of them; the times do the rest.  The three invariants were checked
by TLC with three processes before they were proved.

`PreloadCallProofs` proves, for any number of callers, names, changes, foreign
tools, faults and crashes:

| Theorem | Statement |
|---|---|
| `Typing` | `Spec => []TypeOK` |
| `Honest` | `Spec => []HonestResult` |
| `Complete` | `Spec => []CompleteEntry` |
| `OnlyChosen` | `Spec => []NothingElseGoes` |

The inductive invariant is one predicate, `Known`, of each call: how it goes from
step to step (`CallOK`), what it has in the trash (`TraceOK`: under the name it
claimed or nowhere), that its entry is its own and described before anything is
moved into it (`EntryOK`), that its source is the object of its stat until the
last check (`SourceOK`), and that its copy is of that source or of what came to
its place (`CopyOK`).  Of a call that is about to delete for real after a copy has
begun, `SourceOK` says that the path still has the source or nothing, unless it changed
after the last check; it says nothing of a link whose copy was never made (`LinkLost`),
because there the code does delete the replacement.  The properties speak of finished calls only; what makes
them hold is what a call knows in between, so none of them is inductive alone.
`CopyOK` is the step one would miss: a copied link may be of a newer object than
the one that was opened, and it is `Retire`, which lets only an unchanged source
go, that makes the copy the version removed; ordering identities and versions
(`Seen`) is what lets the proof say so.  `Quiet` reduces a step that leaves the
trash alone to its own call, `Neighbours` one that changes a single entry.  The
assumption on constants is `PreloadConstants`; a run evaluates it, and `IInv`
was checked by TLC with the constants of that run before it was proved.

It proves about `RealRm`, for any number of invocations, candidates, installations
and probes that fail (`RealAssumption`: /usr/bin/rm is a candidate, and an absent
binary is told apart from one that is there):

| Theorem | Statement |
|---|---|
| `RealTyping` | `Rm!Spec => []Rm!TypeOK` |
| `NeverRecurses` | `Rm!Spec => []Rm!NoRecursion` |
| `RemembersTruly` | `Rm!Spec => []Rm!VerdictsTrue` |
| `FindsGenuine` | `Rm!Spec => []Rm!GenuineFound` |

These are the conjuncts of `ProgramsRight` about the real rm.  `TrueLine` is why the
file needs no lock: a line is about an identity that was installed before it was
written, and identities do not come back, so a line that is false of the present
binary can never be asked for, whoever probed what in between and whoever undid
whose line (`VerdictFiles` says the same of the copies that are about to be
rewritten, `LineInHand` of the line about to be added).  `FoundTrue` is what an
invocation under which nothing was installed and no probe failed knows: its verdicts
are true, what it is about to execute is genuine, and each genuine rm outside the
stash is still ahead of it.  `RealInv` was checked by TLC with the constants of the
run before it was proved.

Only model-checked: the safety properties of the modules without theorems
(of `HonestRecords` the part about the text of a sidecar, `NothingAstray` but for its parts about
retention's types, fsck and a removal, so what is left of it is the copy's,
`SupervisesHonestly` but for what is proved of it above, `CallersView`, `RmHonest`, `AuditTrue`, `ProgramsRight` but for its part about the real rm), the liveness properties, which depend on fairness and
`ENABLED`, and the hang.  `AuditTrue` is about a queue that is filtered with
`SelectSeq`, which is defined by recursion, and what it returns for every queue
needs induction.  What `GlobMatch` and `SidecarText` compute
is defined by recursion over sequences, so it is checked on bounded inputs.

## Not modelled

* Extended attributes, ACLs, ownership and quotas of copies; names that are not
  UTF-8; hashes and sizes recorded in a sidecar; time zones; wording and output.
* Loss of power: a crash is a crash of processes; `fsync` and the order in which
  writes reach the disk are not modelled beyond "the copy is durable at
  `SyncCopy`".
* In `TrashRoot` a directory is one document (`TreeCopy` and `TreeRemoval` are
  about its inside); a restore across file systems copies in one step, and the
  stage it leaves beside the destination after a kill is outside the root.
* The sweep of attempts that old versions left in `files/`, the cache of
  incompressible data, and the bounded sample of stages per sweep.
* The parsing of `mountinfo` and of `/proc`, the fallbacks for kernels without
  `statx` fields, and the cached identities by which a path is recognised as
  internal to a trash.
* The seccomp filter program, Landlock rules, and credentials beyond an outcome;
  magic links; descriptor limits; reading strings from the memory of a caller.
* glibc's entry points of the preload beyond the four kinds of hooks, and the
  five seconds for which it trusts the ancestors of the home trash.
* `..` in a `--to` path; editing configuration files by command; the network.
* Installation scripts and the timer.  The timer justifies one fairness
  assumption of `TrashRoot`.

## Plan

Done: all the components in the table, with the abstractions above.  What adds
most next:

1. Proofs about the runs' remaining safety properties, those of `TreeCopy` and
   `PathPin` first.
2. A refinement between `SeccompSession` and a session in which each deletion is
   answered atomically; and one between `PreloadCall` and `TrashRoot`'s trash.
3. Hashes and sizes in sidecars, with the refresh after a rename and a kill
   before it.
4. The internal-path identities of `mounts.rs` and the trust cache of the
   preload, both as caches that age.
