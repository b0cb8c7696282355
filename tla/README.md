# Oleafly: a verification project

Oleafly is a desktop editor for LaTeX and Typst research projects: a Tauri
application whose Rust side owns the files, runs compilers and agents and keeps
a history of checkpoints, and whose TypeScript side is the user interface. This
directory models the parts of it where processes, threads, crashes and chains
of `await` meet, checks them with TLC and proves the safety of some of them with
TLAPS.

`PROJECT.json` lists components, runs, mutants, the code each definition stands
for (`map`), hazards, findings and theorems. Paths there start with `src/`, the
root of the repository; the paths below leave that prefix out.

## 1. The system

### Components, their state and their operations

| Component | Code | State | Operations |
|---|---|---|---|
| Checkpoint store | `crates/oleafly-history/src/lib.rs` | SQLite catalog, `packs/`, `staging/`, one operation lock | stage, publish, list, read, label, trim, collect garbage, sweep, import, export, destroy |
| Restore transaction | `src-tauri/src/checkpoints.rs` | transaction directory (plan, incoming, backup, phase markers), pending marker, terminal marker | restore, recover on opening, reset |
| Publication lanes | `src-tauri/src/checkpoint_publication.rs` | per project one request in flight and one successor | schedule, stop, drain, discover, seal, replay, prove, commit |
| Cancellation tokens | `src-tauri/src/state.rs` | running, requested, committed, pid | begin, request, attach, detach, commit cutoff |
| Compilers | `src-tauri/src/document_engine.rs`, `proc.rs`, `latex_engine.rs`, `commands.rs` | child processes, tickets, compile lock | compile, stop, time out |
| Mutation admission | `src-tauri/src/project.rs` 892-1350 | a coordinator per project: committed and compacted generation, remembered scopes, pending entries, operation mutex | admit, run, commit, refuse, evict |
| Worktree lock | `src-tauri/src/worktree_lock.rs` | one file lock per project | shared, exclusive, exclusive for recovery |
| Project commands, trash, storage | `project.rs`, `storage.rs`, `templates.rs` | files, `project.json`, cleanup jobs | create, open, import, rename, recycle, clean up |
| Agent | `src-tauri/src/agent*`, `agent_server/*`, `crates/oleafly-agent` | request registry, sub-agents, scheduler, server requests, turn | begin, cancel, submit, resolve, call tools, compact |
| Approvals, quit gate | `approvals.rs`, `quit_gate.rs` | mode per project, two flags | set mode, confirm, flush, quit |
| MCP, language service | `mcp/*`, `language_service*` | child servers, pending calls | connect, call, restart |
| File store of a window | `src/store/files.ts` | buffers, dirty flags, pending saves and their timer, a queue of writes per path, known generation, project transitions | edit, autosave, flush, close, restore, delete, open, hear external changes |
| Compile session of a window | `src/store/compile.ts`, `src/features/latex-engine.ts`, `src/lib/compile-sync.ts`, `compile-checkpoint.ts` | status, accepted output, its PDF and its sources, intents, a queued rerun | compile, compile tagged, stop, reset, accept another window's success |
| Preview pane | `src/components/preview/PreviewPane.tsx` | the document it shows | take a document, call it current or stale |
| Project index | `src/store/project-index.ts`, `IndexKeeper.tsx`, `src/lib/project-intelligence/*` | indexed texts, source revisions, a waiting request, the painted graph; a worker with an analysis per file | update, rebuild, dispatch, paint, fail, merge |
| Other stores | `src/store/*.ts` | chats, agent turns, settings | user interface |
| Others | rollout, library database, git, terminal, browser, secrets, packages | files and tables of their own | mostly single transactions or calls of other programs |

### How they interact

A successful compile schedules a publication. The publication compiles the live
files again, seals them into a candidate of the checkpoint store under the
shared worktree lock, compiles the sealed copy, and publishes the candidate if
both compiles produced the same document. A newer compile stops it through its
token and takes its place. The commands that delete checkpoints or change files
stop the lane first and share three locks with it: `compile_lock`, the
project's operation lock (which the lane polls) and the worktree lock (which
blocks). A restore holds the worktree lock exclusively and leaves a pending
marker that closes the project to everybody until it, or its recovery after a
crash, has ended. Every command that changes files goes through mutation
admission, below which it takes the worktree lock.

In a window, the file store holds what the user types and writes it through
mutation admission; other windows and the agent do the same and announce it with
an event. `IndexKeeper` watches the file store and drives the index, which asks
its worker for the graph. The compile session saves, compiles, reads the PDF
back and accepts it if it is still wanted and newer than what it has; the index's
revision identifies what it was asked for. Every one of these is a chain of
awaits on one thread: anything may run in between.

### What is hard about it

* processes are killed between any two steps, and power losses undo what was
  not synced: the store and the restore transaction are made of renames,
  directory syncs and catalog commits that must be put in the right order;
* several processes use one store; readers and writers meet at one lock only;
* a stop may arrive before, during or after the start of a compiler, and just
  before or after the commit it is meant to prevent;
* threads wait for locks in different orders, some by polling, some blocking;
* file changes are asked for in one order and made in another;
* in a window, what was read before an await is used after it: the project, the
  main document, a buffer, the accepted output may have changed;
* timers are stopped and requests combined, and whoever waits for one of them
  must be served by another.

`PROJECT.json` lists each hazard of the modelled parts at its line with the
properties that watch it. Those of the parts that are not modelled yet:

* a stop between the creation of a store and its first commit
  (`crates/oleafly-history/src/lib.rs` 790), its destruction beside an opening by
  name (1069), a kill between its delete record and its removal (4418), and the
  checked sums against the limits of a capture (636);
* a process id read under the lane's mutex and used after it
  (`checkpoint_publication.rs` 2833);
* deleting a folder fails half way, and no commit is recorded (`project.rs`
  1611);
* a cancellation that overtakes its request (`agent/registry.rs` 27), tickets
  shared by coalesced callers (`agent_server/scheduler.rs` 104), a prompt that
  declines by itself beside the user's answer (`agent_server/requests.rs` 72);
* an approval mode read before a dialog and written after it (`approvals.rs`
  218), and two independent flags between a quit, a flush and an installation
  (`quit_gate.rs` 46).

### What makes each component correct

* Store: whatever is visible can be read back, through any interleaving and any
  crash; collection takes nothing a candidate counts on; histories of different
  stores never mix; whoever is not in a writing operation holds no lock.
* Restore: all or nothing, as seen by whoever may look at the files; recovery
  always finds what it needs, ends, and replaces nothing that others wrote before
  it looked (what they write between its look and its rename, it does replace).
* Publication: a stopped publication is never visible; deleted history stays
  deleted; no checkpoint holds half a change; nobody waits for ever.
* Mutations: overlapping changes happen in the order they were asked for, and
  a change based on old knowledge is refused, and only such a one.
* File store: what is typed is never forgotten and reaches the disk, or the user
  is told; what others wrote is not overwritten unseen; transitions end once the
  user stops typing.
* Compile session: the accepted output is of this project and only ever newer; a
  compile survives typing; the indicator and the queued rerun have an attempt
  that ends; what is called current is.
* Index: what is painted as current is the last graph asked for; the active
  buffer is indexed at every moment; building ends.
* Agent registry, scheduler, approvals, quit gate (planned): a cancelled request
  does not run; a slot or ticket is never lost; a mode is set on the state it
  was confirmed for; no quit loses an edit.

## 2. The modules

| Module | What it is |
|---|---|
| `CheckpointHistory` | abstract: a history of distinct snapshots that grows at one end, is trimmed, and adopts older ones |
| `CheckpointStore` | the store: catalog, pack files, staging, lock, one action per step of every operation, three kinds of faults |
| `CheckpointStoreProofs` | its inductive invariant and safety theorems |
| `CheckpointHistoryProofs` | the proof that it implements `CheckpointHistory` |
| `AtomicRestore` | abstract: files change all at once, while they are reserved |
| `RestoreTransaction` | the restore and its recovery, step by step |
| `RestoreTransactionProofs` | its inductive invariants, safety theorems, and the proof that it implements `AtomicRestore` |
| `CompileCancel` | the operators of one cancellation token |
| `PublicationLane` | the lane, its publications, compilers and the commands beside it; uses `CompileCancel` by `INSTANCE` |
| `PublicationLaneProofs` | its inductive invariant and safety theorems |
| `MutationAdmission` | the coordinator of one project's changes |
| `MutationLookback` | the same with two history variables: what each window had seen |
| `MutationAdmissionProofs` | its inductive invariant and safety theorems |
| `EditorFiles` | a window's buffers, write queues, transitions and what it hears from others |
| `EditorFilesProofs` | its inductive invariant and safety theorems |
| `CompileSession` | a window's compile store, its two producers, other windows and the pane |
| `CompileSessionProofs` | its inductive invariant and safety theorems |
| `ProjectIndex` | the index of a window, `IndexKeeper` and the worker |
| `ProjectIndexProofs` | its inductive invariant and safety theorems |
| `MC*` | constants for TLC |

### CheckpointStore

`chunks`, `manifests`, `checkpoints`, `named`, `lineage` are the catalog's
tables, and a catalog transaction is one durable step, because SQLite runs with
`synchronous = FULL`. `packs` are the files of `packs/`, and `durable` those
whose directory entry has been synced. A pack is the set of chunks it was
written with, since its name is its content. `writer` and `readers` hold the
operation lock. An operation is a chain of `phase`s of a process; what can come
between two of them is what the lock allows and the faults: `kill` (locks go,
files stay), `io` (a call fails) and `power` (entries that were not synced may be
lost, removed ones may come back). Chunking, hashing, compression and budgets
are left out; a root is a model value and `ChunksOf` its manifest.

### RestoreTransaction

The worktree lock admits one restore or recovery, so `step` is one program
counter. `project`, `incoming` and `backup` are the three places a file can be;
`marks` the phase markers; `pending` and `terminal` the two markers outside.
A move into the project is two steps, as in the code, which calls
`symlink_metadata` and then `rename`: one finds the place free (`InstallVacant`,
`BackupVacant`; `vacant` names the file) or refuses to go on, the other renames and
replaces whatever has come in between (`Install`, `RestoreBackup`).
`older` remembers for each file where a power loss could still put it back,
and `faults` which kinds of adversity this behaviour may still meet.
Recovery (`Recover`) is the code's decision on the marks it finds. The
refinement mapping to `AtomicRestore` puts a project together from where an
unfinished restore has moved its files: `Original`. A file of another program
in a place that was just found free is not part of it while the rename may still
replace it; it is again when the restore fails or dies before the rename.

### PublicationLane

`inFlight` and `successor` are the lane; `task[r]` is where a publication is and
what it has found. The checks for a stop and what they guard are different
actions (`BeginProbe` and `BeginCompile`, `Spawn` and `AttachChild`), as in the
code. The commit is the token's cutoff: it is one action, because the gate's
mutex is held over it. `command[c]` is the next thing a command does; its locks
are taken one by one. `Torn` is the content of a project in the middle of a
change. The compiler cache lock, preflight checks and the identity of the
toolchain, which can only end a publication without result, are one
nondeterministic step. `stopped` and `erased` are history variables.

### MutationAdmission

`generation` is taken in one step (`Number`) and the paths are announced in
another (`Announce`), as in the code. `operation` is held from `TakeOperation`
to `Return` or `Release`; an error gives the mutex back before the pending
entry goes (`Drop`), in the order Rust drops the locals and the argument.
`tracked`, `compacted` and `committed` are the coordinator's memory, `live` says
whether the registry has one, and `log` is the order in which the files were
really changed. Scopes are paths with or without their descendants, already in
lower case. Locks below the operation mutex only delay; the 64-bit counter does
not run out; an operation that fails leaves the files alone (deleting a folder
may not, see the hazards).

### EditorFiles

`win` is the store with its module variables: `files` are the buffers, `pending`
and `timer` the debounced autosave, `queue[p]` the writes of a path, of which the
oldest is with the backend (its `result` is what will be answered) and the
others wait for it. `by` says who asked for a write, which decides what its end
does (`Written`, `NotWritten`). `task` is the project transition under way: close
and restore flush first, a deletion waits for the writes under way. `loads` and
`reloads` are reads on their way; `events` what others announced. The backend is
`disk`, `gen` and `changed`, with one rule taken from `MutationAdmission`: a change
is refused when its path was changed after the generation it names. A text is
the number of the edit that made it. Tabs, the tree, renames, copies, imports,
the engine and a second project are left out.

### CompileSession

An attempt is a chain of awaits, and `pc` names the one it is in; what runs
between two awaits is one action. `store` is the compile store with its module
variables (`gen` the intents given out, `active` the one that owns the button,
`seq` the compile sequence, `by` who put the status there). `lane` tells the
button's attempt from the tagged one. `output` is the one PDF of each project's
build directory, which every run overwrites: a read may find another run's. The
compiler reads `disk`, not the buffers. `remote` are the successes other windows
announced, `pane` what the preview took and last looked at. Phases, logs and
error lists are left out, and so is `restoreFromDisk`, which `App.tsx` (713-721)
has switched off.

### ProjectIndex

`ix` is the store with its module variables. `Keep` is what `IndexKeeper`'s effects
do after a change of the file store, in their order. `sched` is the request that
waits for its timer, `reads` the rebuilds whose read has not returned, `posted`
the worker's inbox with the answers it has given. The worker is modelled by what
makes it refuse: the revisions and the text of each file it remembers. An
analysis is the text it was made from. `deleteFile`, `renameFile`,
`retryIntelligence` and `dispose`, which nothing calls, are left out.

Definitions introduced by "A variant, not the code" are used by no
specification. Each is the code with a plausible mistake in it. Every property
of every passing run fails when one of them, or a definition without one of its
guards (`BackupUnchecked` for `BackupVacant`), takes the place of the code's: the
`mutants` of `PROJECT.json`.

## 3. What TLC checks

| Run | Instance | What it shows |
|---|---|---|
| `store` | 2 processes, 3 roots over 2 shared chunks, 2 lineages, limit 3; kills and failing calls | `VisibleReadable`, `NoTornRead`, `CatalogClosed`, `CandidateIntact`, `FreshStaysFresh`, `LineageStable`, and `KeepsHistory`: `CheckpointStore` implements `CheckpointHistory` |
| `store_power` | the same; power losses only | `PackDurable` |
| `restore` | 2 files, one in a folder, 2 checkpoints; kills with failing calls and files of other programs, or power losses; fair | `PendingHasData`, `TerminalMeansDone`, `SettledIsDurable`, `ForeignKept`, `RestoreIsAtomic` (refinement of `AtomicRestore`), `RecoveryEnds` |
| `publication` | 3 publications; a save and a reset, or recycling and deleting a checkpoint | `OneAtATime`, `StoppedStaysInvisible`, `ErasedStaysErased`, `WholeProjects`, `StopReachesCompiler` |
| `publication_end` | 2 publications of two passes; a restore, or recycling and cleaning up; fair | `PublicationsEnd`, `CommandsEnd` |
| `mutations` | write, delete a folder, save another file; 2 windows, eviction | `OverlapsInOrder`, `ExpectationHonoured`, `PendingIsLive`, `OnlyNewerRefuses` |
| `mutations_end` | write, delete a folder, import, of one window; fair | `MutationsEnd` |
| `compile` | 2 projects, 3 files of 2 main documents, 2 attempts at once; 8 scenarios; fair | `NoForeignPdf`, `IndicatorHasAttempt`, `RerunIsSettled`, `OutputsAdvance`, `TypingKeepsTheBuild`, `CompilingEnds` |
| `index` | 3 files of 2 main documents; 5 scenarios; fair | `PaintedIsCurrent`, `BufferIsIndexed`, `ContributionMatches`, `IndexSettles` |
| `files` | 2 files; 7 sessions; fair | `DirtyIsPending`, `EditsSurvive`, `DirtyIsSaved`, `TransitionsEnd` |

Two more runs, `compile_fresh` and `files_close`, end in a violation and are the
subject of section 5, with the formulas that other configurations refute.

Bounds, and why they are enough to be interesting:

* two processes are enough for every pair of operations of the store, which one
  lock serialises; three roots over two chunks make snapshots that share chunks
  and packs that are partly garbage; `MaxCheckpoints` of 2 or 3 makes trimming and
  the limit happen;
* two files make every loop of the restore stop between its elements; the second
  checkpoint lacks one file, so that a restore replaces, creates and leaves
  alone, and makes and removes a folder; the number of faults is not bounded,
  `Adversity` says which kinds a behaviour may mix;
* three publications let a successor be replaced by another; two passes let a
  stop fall between two compilers of one probe; `Scripts` says which commands a
  behaviour may mix; one project content besides `Torn` is enough where only
  ends are counted;
* three mutations give a change that waits while a second commits and a third
  relies on it; `MaxPending = 2` fills the table, `MaxTracked = 1` compacts at the
  second commit; `MaxElsewhere` bounds the generations taken by other projects;
* the window's modules take a budget per scenario (`Budgets`, `Scenarios`):
  everything the user and others do is bounded by it, what the code does is not.
  Two edits make a text newer than one on its way; two attempts are one that a
  reset forgot and its successor, or the two lanes; a chapter and a letter are a
  tab switch that keeps the main document and one that does not; three openings
  close a project and open it again while the worker still answers;
  `RemoteRevs` are the revisions another window may be at.

Symmetry is used for processes (`store`, `store_power`) and for
requests and contents (`publication`), in runs of safety properties; no liveness
run uses it.

Fairness:

* `RecoveryEnds`: a restore in progress goes on, the user opens a project that
  has a pending restore, and faults stop some day (`CalmDown`). The property
  leaves out a half-written terminal marker (section 5) and a file of another
  program that is in the way: `restore_backup_paths` refuses to go on until the
  user moves it.
* `PublicationsEnd`, `CommandsEnd`: tasks and commands that have begun go on; a
  compiler ends by `COMPILE_TIMEOUT` and a drain by
  `PUBLICATION_DRAIN_TIMEOUT`. Nothing is assumed about users.
* `MutationsEnd`: weak fairness of each mutation; there are finitely many, so a
  free mutex reaches each waiter.
* `CompilingEnds`: each attempt goes on (calls of the backend return, and the
  supervised compiler has a time limit) and the effects of a rendered window run.
  It is about the button's indicator; the tagged lane's is in section 5.
* `IndexSettles`: timers fire, reads return and the worker answers: weak
  fairness of `Progress`, with its guard written out as `Busy` because TLC takes
  long to find `ENABLED Progress`. There is one thread, so one condition for all is
  enough, and the budget ends what could go on for ever.
* `DirtyIsSaved`, `TransitionsEnd`: timers, calls, events and each path's writes.
  A timer that fires 1.5 s after an edit, and answers that come in milliseconds,
  are not related by fairness, so `DirtyIsSaved` supposes that the queue of its
  path is empty again and again. `TransitionsEnd` assumes that the edits of the
  user and of others are bounded, which the budgets of the sessions bring about:
  `flushDirtyBuffers` (`files.ts` 387-416) loops while any buffer is dirty, so a user
  who never stops typing would keep a closing or a restore, and every transition
  queued behind it, waiting. What the run shows is that failing and conflicting
  writes do not.

Deadlock is checked for the store and the restore. Publications, commands and
mutations are given once each, and a window stops when its budget is spent and
nothing is on its way, so those systems stop when all have ended
(`CHECK_DEADLOCK FALSE`); that nobody is stuck before is what the liveness runs
show.

## 4. What TLAPS proves

All proofs are for every value of the constants, under the assumptions named
next to the constants. The shape is the same: `IInv` is inductive, the
invariants follow from it, and action properties follow from it and one step.
Every invariant and every safety property of section 3 is proved.

**CheckpointStoreProofs.** Theorems `TypeCorrectness`, `Consistency`
(`CatalogClosed`), `Isolation` (`CandidateIntact`),
`Freshness` (`FreshStaysFresh`), `Readability` (`VisibleReadable`) and
`UntornReads` (`NoTornRead`), both with power losses not together with other faults,
`Durability` (`PackDurable`; power losses only), `Lineages` (`LineageStable`). The
properties are not inductive: a commit preserves them only because of what the
committing process has established before, while it did not hold the lock.
`IInv` therefore says what each process relies on in each phase (its candidate
is in staging and what it found missing is missing; what it means to unlink is
in no table; what it still has to read is there), that phases which write belong
to the holder of the lock, and that the files of the catalog exist. Exclusion
makes the argument local: while one process writes, all others are in phases
that rely on nothing it changes.

**CheckpointHistoryProofs.** Theorem `Refinement` (`KeepsHistory`): with the same
`IInv`, a publication maps to `Record`, an import to `Adopt`, a trim to `Label` or
`Forget`, and every other step to a stutter. It needs from `IInv` that what a
publication brings is one root that is not yet visible.

**RestoreTransactionProofs.** In two layers. The first, `Base`, holds under
every mixture of faults and gives `TypeCorrectness` (`TypeOK`), `RecoveryHasData`
(`PendingHasData`) and `TerminalIsTheEnd` (`TerminalMeansDone`): `Control` says for
each step which of the two markers outside, the transaction and the phase
markers can exist beside it, so that a crash at any step leaves a combination
`Recover` knows.

The second, `Inv`, says where the files are. `Possible(f)` are the places a file
has or a power loss may give back to it; `Journal` allows for each set of phase
markers only those from which recovery can go on (`Fits`, `Progress`).
`FromCheckpoint` says that in each of these places the checkpoint's content is
staged or installed, `Durable` that only a rename of the running loop may still be
undone, and `FolderPlan` what becomes of folders. From it follow
`SettledRestoresLast` (`SettledIsDurable`), `RestoresAreAtomic` (`RestoreIsAtomic`) and `ForeignFilesAreKept` (`ForeignKept`). Between
finding a place free and the rename into it, `Finding` says which file the running
loop has still to move; of the place itself nothing can be known. For
the refinement, every step leaves what `Original` puts together unchanged, but
for the one that writes the "installed" marker, which is the `Restore` of
`AtomicRestore`, what users do to files that are not reserved, and the files of
other programs (`ForeignAppears`), which come into `Original` at once or when the
restore that found their place free stops before its rename; `Housed` adds that
each file has the folder it is in.

These three assume `PowerAlone`: a power loss does not come with other faults in
one behaviour. That is no convenience: TLC refutes `SettledIsDurable` and
`RestoreIsAtomic` when power losses are mixed with kills or failing calls (for the
reason at the end of section 5), and `ForeignKept` and `RestoreIsAtomic` when they
are mixed with files of other programs, which a power loss in the middle of a
restore may take away with the renames. `ForeignFilesAreKept` also assumes that
`Theirs`, which stands for a content only another program writes, is no content
of a checkpoint or of the editor (`Theirs \notin Version`).

**PublicationLaneProofs.** Theorems `TypeCorrectness` (`TypeOK`), `OnePublication`
(`OneAtATime`), `StoppedAreInvisible` (`StoppedStaysInvisible`), `ErasedAreGone`
(`ErasedStaysErased`), `CheckpointsAreWhole` (`WholeProjects`) and
`StopsReachCompilers` (`StopReachesCompiler`), for any number of publications,
passes and commands. What makes them inductive: `Scopes`, where a publication is
tells how deep the scopes of its token are nested, so that a stop always finds a
token it can mark until the cutoff; `Stops`, whoever was stopped is marked or
over, and not published; `Compilers`, a compiler that may run on is the one a stop
would be aimed at. `Destroying` says that from the moment a command goes to
destroy the history, the lane has no successor and what still runs in it is
stopped or already published, also when the drain has given up on it. `Holds` and
`Changing` give each command its locks, and with them that files are torn only
while a command is changing them.
Assumed: `None` is no request, content, command or outcome, and a torn content
no whole one.

**EditorFilesProofs.** Theorems `TypeCorrectness` (`TypeOK`), `NobodyForgets`
(`DirtyIsPending`) and `EditsAreKept` (`EditsSurvive`), for any files, budgets and
order of answers. `DirtyIsPending` is not inductive: a write that is on its way
need not be one that sees to the buffer. Its strengthening `Covered` speaks of
the last write in the queue of a path, behind which no other sees to the
buffer: it will save the dirty buffer (an autosave, a flush, a rescue), or it keeps
the buffer's text after a change by others and then has exactly that text. A
write that only follows what others wrote covers nothing; it is queued for a
clean buffer, and the edit that makes the buffer dirty makes it pending. The lemmas
`WrittenEnds` and `NotWrittenEnds` show for each kind of write what its end
leaves, and `Answered` preserves `Covered` because either the queue goes on or the
write that ends was the last. `EditsSurvive` needs from the same invariant that
a write answered "done" had its text on disk (`WriteOK`), so a buffer is marked
clean only when the text it has was there. Assumed: scenarios name only paths
of the project, and `None` is no buffer.

**MutationAdmissionProofs.** Theorems `AdmissionTypes` (`TypeOK`), `OrderOfOverlaps`,
`Expectations`, `KnowledgeIsOld` (`KnownIsOld`), `Refusals`, `PendingEntries`,
`GenerationsAdvance` (`GenerationAdvances`). `OverlapsInOrder` speaks of the whole past, while the code
remembers a bounded part of it. The invariant `Remembered` is the bridge: a
change in the log is being recorded, or is below the compacted generation, or is
tracked at its scopes with at least its generation. `Cleared` says that what a
preflight has found still holds when the files are changed, although the state
mutex was released in between: the operation mutex is still held, and only its
holder commits. With both, each new entry of the log is compared with what is
tracked now, and induction gives the order of all. `Overtaken` carries the proof
that only a newer mutation refuses one, through compaction and eviction.
Nothing is assumed about `Intersects` or the shape of paths, only that a
mutation is remembered by scopes that overlap what it announced
(`CommitAssumption`, true of every caller in `project.rs`).

**CompileSessionProofs.** Theorems `NoForeignOutput` (`NoForeignPdf`),
`IndicatorIsOwned` (`IndicatorHasAttempt`), `OutputsOnlyAdvance` (`OutputsAdvance`),
`RerunsAreSettled` (`RerunIsSettled`) and `TypingIsHarmless` (`TypingKeepsTheBuild`),
for any number of attempts at once. Attempts share nothing but the store, so
`IInv` relates each of them to it. Each has an intent of its own. The indicator
belongs to the attempt that owns the button, and nothing newer was accepted
since that one began (`Indicator`, `Shows`): this is why no early return of it can
find itself overtaken and leave the indicator behind. The last intent, if it is
the button's, owns it and has the last compile sequence (`LastOwns`,
`LastSequence`). A run that
has been answered is newer than what was accepted when its attempt began
(`ReplyOK`), and a PDF belongs to the project it is stored under. Assumed: `None` is
no number, text or output, and revisions of other windows are numbers.

**ProjectIndexProofs.** Theorems `TypeCorrectness` (`TypeOK`), `CurrentGraphs`
(`PaintedIsCurrent`), `BuffersAreIndexed` (`BufferIsIndexed`) and `ContributionsMatch`
(`ContributionMatches`). What makes them inductive is what is known of a rebuild
while it reads. A read that still has the last number, `StillValid`, finds the
revision and request of the graph it may put back, every buffer it took as it
was, and every file opened since as it is on disk; whatever changes one of
these takes a new number. `Owned` says to which project the index belongs between
a change of project and the first look at its tree, and `AskedFor` that what is
painted was asked for at the present revision, so that the answer compared with
it is the last one's. Assumed: `None` is no project, file or identity.

Only model-checked: everything under fairness, for which no prover is
available here (`RecoveryEnds`, `PublicationsEnd`, `CommandsEnd`, `MutationsEnd`,
`CompilingEnds`, `IndexSettles`, `DirtyIsSaved`, `TransitionsEnd`), and the formulas of
section 5, which are refuted and not proved.

## 5. What does not hold

Two runs expect a violation; each states what the repository says of itself.

* `compile_fresh`: `recompile` saves the active buffer only (`compile.ts` 731) and
  the compiler reads the disk, while a request is identified by the project's
  revision, which counts the edits of every buffer. An edit of another tab that
  the autosave has not written yet is in the revision and not in the PDF, and
  `isCompileCheckpointCurrent` (242) calls that PDF current, for good.
* `files_close`: `closeProject` flushes, forgets what was pending, awaits the
  backend (`files.ts` 1015) and empties the store without looking again. What
  is typed during the await is lost.

The formulas below are refuted as well, each by the configuration named, or by
the module's own with the formula added to it. The properties of section 3 are
what holds in their place.

| Formula | Configuration | What happens |
|---|---|---|
| `PackDurable` | `CheckpointStoreSync.cfg` | a pack found in place is taken to be durable (`lib.rs` 1566, against the comment at 1471), but whoever put it there may have been killed before syncing it; this is why `Readability` excludes kills with power losses |
| `WithinFormatLimits` | `CheckpointStoreLimits.cfg` | an import holds both histories against the limits, not the merged one (2526, 2676): an export or publication afterwards refuses |
| `ForeignNeverReplaced` | `RestoreTransaction.cfg` | a file that another program creates between the check of its place and the rename into it is replaced (`checkpoints.rs` 1306 and 1311; 1655 and 1663, with directories made and synced in between) |
| `CleanupRestartable` | `RestoreRestartable.cfg` | a kill between creating the terminal marker and writing it (`checkpoints.rs` 955, 970) leaves a marker every recovery refuses, although the comment at 704 calls the cleanup restartable |
| `TargetUnchanged` | `MutationLookback.cfg` | `expectedGeneration` is compared with generations given at admission: a change admitted before and made after the caller read its generation goes unnoticed (`project.rs` 1247, message at 1252) |
| `IndicatorEnds` | `CompileSession.cfg` | a tagged compile that is no longer wanted returns without its indicator (`latex-engine.ts` 109), and the button then only queues reruns until a reset |
| `PaneShowsItsCheckpoint` | `CompileSession.cfg` | the best-effort PDF of a failed compile is stored beside the checkpoint of the last good one (`compile.ts` 1008, 1017) and shown under it |
| `AcceptedOutputIsShown` | `CompileSession.cfg` | an output that is stale when the pane looks at it is not displayed (`PreviewPane.tsx` 766) |
| `GraphCatchesUp` | `ProjectIndex.cfg` | an invalidation stops the timer of a waiting request (`project-index.ts` 527), and the rebuild that follows finds nothing new to send |
| `ContributionIsKept` | `ProjectIndex.cfg` | a rebuild that changes nothing puts back the graph it found at its start, without the contribution that came meanwhile (636-639) |
| `KnownFilesAreLoaded` | `ProjectIndex.cfg` | a rebuild abandoned for an edit (575) is not tried again, so that other files of the tree may stay unknown |

`BufferIsIndexed` leaves out a file that the index could not read: when one is
opened while a rebuild reads the tree, its text is the one already indexed
(`updateFile` returns at 700) and the rebuild's own read of it fails, the rebuild
drops that text, and the active buffer is unknown to the index until the next
edit.

`EditsSurvive` leaves out a read that returns late: `preloadBibliographies` (750)
and `openFile` (1098) put the text they read over a buffer that a citation was
added to in the meantime. A failed save that is no conflict is not tried again
until the next edit (1181), which is why `DirtyIsSaved` allows for a failure.

`SettledIsDurable` is claimed for power losses alone. After a kill, a recovery
that finds nothing left to move does not sync the directories again, so a
following power loss may undo what the killed process had moved.

## 6. Not modelled, and why

`PROJECT.json` lists every component with a reason. In short: the namespaces of
the store (creation, destruction, delete records), the user's own compile
command, the agent's registry, scheduler and turn, approvals, the quit gate, MCP
and the language service with its client and controller are planned below.
Chats and settings are state of the user interface; `ChatCore`, the PDF viewer,
the checkpoint panel and most of the preview pane are rendering over the stores
modelled here; `analyze-file` and the other parsers, editors and formats are
pure functions of text; git, the terminal, the browser and secrets are calls of
other programs; scripts, tests and vendored code are no part of the running
system. Reuse of process ids by the operating system, tearing of SQLite and the
file lock itself are taken as the operating system's.

## 7. Plan

Done, in order of importance for the user's data: the store, the restore, the
publication lane, mutation admission, and a window's buffers, compiles and index;
and the proofs of section 4.

Next, modelling:

1. `StoreNamespace`: opening by name, first creation behind an initialization
   directory, destruction behind a delete record, recovery of both;
   property: an opened store is never a half-created or half-destroyed one, and
   every record left by a crash is finished. Composes with the gates of
   `PublicationLane`.
2. `CompileCommand`: tickets and supersession of the user's own compiles, with
   `CompileCancel` and the same locks; property: the newest request's result is
   the one shown.
3. `AgentRequests`: request registry (generations, early cancellation and its
   bound), server requests with automatic decline, the scheduler with
   coalescing; properties: a cancelled request never runs, one answer per
   prompt, no slot or ticket lost.
4. `Approvals` and `QuitGate`: what is read before a dialog and written after it.
5. `EditorFiles` with renames, copies and imports, a second project, and
   operations that leave half of a change behind; its backend replaced by
   `MutationAdmission`.
6. The language service's documents and restarts, MCP lifecycles, the agent's
   turn.

Next, proofs: how far the hypotheses on power losses can be weakened, in the
store (`Readability`) and in the restore (a kill that is followed by a complete
recovery before the power fails), and the safety of the modules above.
