# TLA+ verification of lopper

lopper analyses the dependency surface of a repository. It is a Go command line
program plus a VS Code extension that runs it, and its repository carries the
merge queue it is developed with. Most of it is parsing and formatting; what can
go wrong in ways that tests hardly reach is how it shares state: several lopper
processes use the same advisory cache, analysis cache, baseline store, dashboard
checkouts and source files without a server between them, the extension overlaps
refreshes, saves and cancellations in one JavaScript thread, and the queue
controller acts on pull requests that change under it. This directory models those
parts in TLA+, checks them with TLC on small instances, and proves their safety
properties with TLAPS for every value of the constants.

`PROJECT.json` lists components, runs, mutants, hazards and theorems, and maps
every definition to the source lines it stands for.

    tlc -workers 2 -config AdvisorySync.cfg MCAdvisorySync.tla   # one run
    tlapm AdvisorySync_proofs.tla                                # one proof module

## 1. Inventory

Paths are relative to `src/`.

### Parts with shared state (modelled)

**Advisory cache sync**: `internal/advisory/sync.go`, `publication_lock_*.go`,
`internal/safeio/atomic_write.go`.
State: a cache directory with a `snapshots/` directory, `manifest.json`, and a
`flock` on the directory. Operations: `SyncOSV` downloads to a temporary file in
`snapshots/`, takes the lock (retrying until the context ends), checks that the
directory is still the one it opened, hard-links the temporary file to its
content-derived name or adopts an identical file, rewrites the manifest by
temporary file and rename, rolls back its own link when the manifest step fails,
releases the lock and removes its temporary file. Hard: concurrent processes,
crashes between file operations, a manifest write that fails *after* its rename,
truncated identifiers, a size cap on the manifest, writers that ignore the lock.
Correct means: a manifest entry is backed by its snapshot, no sync loses
another's entry, success means recorded and latest, the lock comes back, and
little is left behind.

**VS Code refresh lifecycle**: `extensions/vscode-lopper/src/extension.ts`,
`refreshSession.ts`.
State: per folder a session (input version, request and run counters, in-flight
entries and cached results by language and scope), abort handles, the auto-save
timer, the rendered analysis, the status bar. Operations: `refreshWorkspace` in
its kinds (automatic, manual, with codemods, runtime, baseline), saves,
configuration changes, cancellation, folder removal and addition. It calls
lopper as a child process. Hard: every `await` lets all other handlers in; what
was captured before it may be stale. Correct means: no stale or aborted result
reaches diagnostics or cache, one live run per folder, joined refreshes end.

**Analysis cache**: `internal/analysis/cache*.go`, `execution.go`.
State: a cache directory of key files (pointers) and content-addressed objects,
one digest memo per run. Operations: prepare (digest the inputs), lookup (follow
the pointer, compare the input digest, read the object), store (publish the
object, replace the pointer). Hard: processes that share the directory, crashes
between object and pointer, memoised digests, inputs the digest does not cover.
Correct means: a hit is the report of the current sources; pointers do not
dangle; a usable entry stays usable.

**Baseline snapshot store**: `internal/baseline/store.go`, `snapshot.go`.
State: one JSON file per key, created exclusively and written in place; legacy
files whose sanitised names several keys share. Operations: `SaveJSON`,
`LoadStoreSnapshot`. Hard: simultaneous saves of one key, a save that dies half
way, removal by path on the error path, name collisions. Correct means: a
successful save stays; partial files are explained; a load returns the requested
key.

**Analyse command**: `internal/app/analyse_pipeline.go`, `analyse_prepare.go`,
`analyse_postprocess.go`.
State: one command's request, report, error and printed output, over the source
files and the snapshot store. Operations: check the worktree, analyse, compare
with a snapshot, run the gates, apply fixes, save a new snapshot, print. Hard:
the order of effects and refusals, errors of a late stage after an earlier one
changed files, a key that is read from HEAD each time it is needed. Correct
means: a refused command changes nothing, a snapshot is the report of the key it
is filed under, an outcome tells what happened to the files.

**Codemod application**: `internal/app/codemod_apply.go`, the check in
`analyse_prepare.go`, the suggestions of the `js` and `python` adapters.
State: the source files, one rollback artifact per run. Operations: check that
the worktree is clean, analyse, prepare the new contents, write the artifact,
replace file after file, report. Hard: edits between reading and replacing, a
failure or crash after some files, line numbers that shift when lines are
deleted. Correct means: only the suggested lines change, every replaced content
can be restored, an edit that the guards promise to detect is not overwritten,
the report accounts for each file.

**Dashboard execution**: `internal/app/dashboard_remote.go`,
`dashboard_execution.go`.
State: a cache of git checkouts by URL and pin, the results table, a worker
pool. Operations: materialise each entry (usable? refresh : clone, then fetch,
check out, reset, clean, resolve), then analyse all with the pool. Hard: entries that
share a checkout, a remote that moves, git failures and crashes between git
commands, the unbuffered channel. Correct means: the commit reported is the
commit analysed, pins are honoured, HEAD, branches and tags are followed, a broken
checkout heals, a run ends.

**Merge queue**: `scripts/queue_me_controller.js`,
`.github/workflows/queue-me.yml`.
State: GitHub's (labels, drafts, heads, bases, auto-merge, main), one workflow run
at work and at most one waiting. Operations: a run lists the labelled pull
requests, disarms them, audits the first one and merges it or arms its auto-merge,
one API call after the other. Hard: people, checks and auto-merges act between
the calls; a run that waits is replaced by a newer one with less to do; the
controller's own arming starts a run. Correct means: only an audited, current
head is armed or merged; what else in the queue is armed beside a leader that is
being armed was armed by a maintainer after the run had disarmed it, and a new
reconciliation is on its way, or a disarming was lost; when all is quiet nothing
else is armed; the controller's runs come to rest; a healthy leader is merged in
the end.

**Confined file writes**: `internal/safeio/write.go`, `atomic_write.go`,
`atomic_write_fallback_other.go`.
State: one path, temporary files, pinned descriptors. Operations: replace,
overwrite, replace with in-place fallback, publish if absent (hard link),
create exclusively. Used by the advisory manifest, the analysis cache, codemods,
dashboard output and the profile command. Hard: errors after the temporary file
exists, concurrent writers, the fallback that empties the visible file. Correct
means: readers see old or new contents only, except where the code openly writes
in place; temporary files are removed.

### How they interact

```
 VS Code extension --child process--> CLI --> app ------> analysis --> adapters
   RefreshLifecycle                            |             |
                                               |             +--> AnalysisCache --+
   advisory sync: AdvisorySync --------+       +--> AnalyseRun                    |
                                       |       |      +--> BaselineStore ---------+--> AtomicWrite
                                       |       |      +--> CodemodApply ----------+    (safeio)
                                       |       +--> DashboardRun --> git          |
                                       +------------------------------------------+
 GitHub --events--> workflow --> QueueController --> pull requests, main
```

The extension talks to lopper only through arguments, output and a kill signal.
Inside one lopper process, stages run one after the other; different processes
meet only in files. Every file replacement goes through safeio.

### Parts that are not modelled

| Part | Why |
| --- | --- |
| language adapters, identity enrichment, lockfile drift | 30,000 lines of parsers; no state that outlives a call. They appear through their results in AnalysisCache and CodemodApply |
| report merge, baseline comparison | pure folds over reports; planned as operators with reference definitions |
| runtime trace capture | one child process; its output ring buffer is planned |
| managed binary of the extension | downloads, verifies and copies a release in place. Installs of several folders are neither joined nor excluded, so what one could state of overlapping ones (the copied binary is whole, the record describes it) does not hold, and no document promises it; two hazards record it |
| queue status comments | the controller writes them and never reads them back to decide anything |
| configuration packs | sequential, with an import-cycle check; candidate |
| analysis scope | path patterns over a private copy of the tree |
| dashboard configuration and aggregation, report formats, PR comments, notifications, MCP server, terminal UI, feature flags, CLI parsing, workspace detection | one sequential translation each, without shared state |
| confined reads, directory opening, path resolution of safeio | confinement against links is about the file system's name space, which the modules abstract to "the path" |

## 2. Modules

Each component is a module with one action per step that other actors can come
between (a file operation, a git command, a JavaScript turn). `MC*` modules only
give constants their values.

### AdvisoryCache and AdvisorySync

`AdvisoryCache` is the abstract specification: a set of recorded contents and the
latest identifier, changed by each call in one step between its start and its
return. `AdvisorySync` is the code; `Implements == C!Spec` under the mapping
`recorded <- manifest.snaps`, `latest <- manifest.latest`, `st <- Stages`.

`pc[p]` walks through `SyncOSV`: `fetch`, `lock`/`wait` (acquire with retry),
`identity`, `check`, `place`, `verifyExisting`/`verifyPlaced`, `verifyChild`,
`load`, `write`, `verifyManifest`, `rollback`, `remove`, `release`, `cleanup`. `files`
maps a snapshot name to inode and content, so that `os.SameFile` is a comparison
of inodes; `temps` are the inodes of temporary files; `manifest` holds `latest`
and the recorded digests; `owned` is `advisorySnapshotOwnership`. `MergeManifest`
is the filter, append and latest of `updateManifest`. `AfterFailure` is the
deferred rollback. A `Digest` is a payload, `IdOf` its truncated identifier,
`ExtOf` the extension from its inferred schema. `Crash` drops the lock;
`ForeignWrite`/`ForeignRemove` are programs without the lock and record the name
in `tampered`.

### RefreshLifecycle

One folder. `pc[r]` is the `await` a `refreshWorkspace` call is suspended at:
`language` (resolving it), `validate` (the signature of the binary behind a cached
result), `recheck` (back in `refreshWorkspace` after a rejected result), `joined`
to an in-flight promise, `running` lopper, `notify` (an error message is open),
`settling`. `job[r]` is its closure. `ses` is the session object; the id of
`NoRun` is 0. `Begin`,
`StartRun`, `Invalidate`, `Superseded` are helpers shared by the actions, as in
the code; each action is one synchronous turn, with the `finally` blocks that run
in it. `serial` and `content` are ghosts: the true identity of a run and of its
input, which the reused numbers of the code may lose; so is `failed` in a closure.

### AnalysisCache

One root, several adapters. `src[a]` is the content of an adapter's files,
`keys[a]` its key file, `objects` the set of stored reports (an object is its
content). A process starts with its options (a cache path of the user or the
default one, read only or not), takes the adapters in turn (`Candidate`), computes
the digest once (`memo`), looks up (`FollowPointer`, `Hit` or a miss), analyses and
stores. Each of these can fail: without a digest the adapter runs without the cache
(`FailPrepare`), a failed lookup is a miss (`FailLookup`), a failing adapter leaves
its report out (`FailAnalyse`), and a failed store is a warning. `Hashed` are the
adapters whose files `isCacheRelevantFile` accepts, hence `Digest == [Hashed ->
Value]`. `EditsAtRest` says that sources do not change during an analysis.

### BaselineStore

`file[k]` names the save that created the file and whether it is complete;
`legacy[s]` is the key recorded in a legacy file. A save checks the legacy file,
creates exclusively, encodes, and on an error removes by path and closes. A load
resolves which file to read, reads it and validates its key.

### AnalyseRun

EXTENDS BaselineStore: the comparison and the save of a command are the `Load` and
`Save` of the store, and `StoreStep` is any step of the store that is not the
start of a call. `stage[p]` is the place in `runAnalyseStages` and
`runAnalysePostStages`, `req[p]` the command line, `seen[p]` the tree its report
describes, `compared`, `fixed`, `stored`, `outcome` and `told` what it has done and
said. A request names a store, a baseline file or neither (`Compare`,
`CompareFile`, `CompareNone`), the increase gate (`gate`), which needs a
comparison, and the other gates (`policy`), which do not; git may fail to tell the
commit (`FailCompare`, `CannotSave`). An error of the output file replaces an
earlier error, one of the formatter does not (`Deliver`).
`tree` is the commit HEAD is at and who edited the files since; a commit's key is
the commit. What a gate computes and which fixes there are is a choice.
`Edit` and `MoveHead` are the user, `Die` a process that ends anywhere. Ghosts:
`raced` (somebody else changed the tree during the command) and `filed` (report
and request of every save).

### CodemodApply

Contents are sequences of lines. `Analyse` fixes the suggestions (line number and
original text), `Prepare` validates and applies them to the content it reads,
`WriteArtifact` stores the contents read, `Commit`/`Verify` are the replacement
and its check by file identity (`owner`); `FailVerify` is a replacement whose check
or closing of files fails after the rename, which the run reports as failed although
the file is replaced (ghost `late`). An import that the codemod leaves alone
(`Unsafe`) is a skip: its file is listed as skipped besides its other result, so
`results` holds a set for each file. `Apply1` and `Updated` are
`applySuggestionsToContent` with its descending order of lines. `Edit` is the
user. `Updated` handles the suggestions one after the other, a recursion over
sets of suggestions (`HandledLast` is the one with the lowest line); `Wanted`
says what they ask for without an order. What was read, kept and replaced is
tagged (`ready`, `kept`) instead of compared with a null value.

### DashboardRun

`co` maps a pin (0 for none, a commit, or the name of a branch or tag) to a
checkout: repository, origin, fetched commit, HEAD, tracked files (`tree`), files
of another commit among them (`litter`), index lock. `up` holds the commit of HEAD
and of every branch and tag; `Offers` is what a fetch gets. A git command is one
action that can fail (`Git`), and a dying one can leave its lock and a tree half
way. `Checkout` and `Reset` put the tracked files right, `Clean` removes the rest.
A fetch of a commit, branch or tag that the remote does not have fails. `Dispatch`
and `Return` are the pool.

### QueueController

`run == wf.run` is the workflow run at work, `wf.pending` the event that waits.
`Raise` and `Finish` are the concurrency group: an event starts a run, waits, or
takes the place of the one that waits. Each API call of `runController` that
reads or changes state is one action (`List`, `DisarmFollower`, `DisarmLeader`,
`Verify`, `CheckBranch`, `ReadState`, `MergeNow`, `Arm`, `Retry`), between which
people (`Change` and its instances, `Recheck`, `PushMain`), checks (`ChecksPass`)
and GitHub (`AutoMerge`) act. A head is a serial number, whether its commits pass
the audit, and the newest main it contains. Two ghosts say what the group or a
failing run lost: `missed` (a reconciliation) and `undone` (the disarming of a
pull request).

### AtomicFile and AtomicWrite

`AtomicFile` is the abstract specification: what somebody who reads a path can
see while calls of the safeio functions are in progress. `AtomicWrite` is the
code: `target` is the inode at the path, `data` the content of each inode,
`temps` the temporary names, `pin` the file a call has open or saw first.
`Implements == A!Spec` under the mapping `file <- File`, `st <- Stages`.

## 3. Runs

| Run | Instance | What it shows |
| --- | --- | --- |
| `advisory` | 2 processes, 3 payloads of which 2 share an identifier, 3 downloads, 1 fault, a manifest limit of 1 entry | `TypeOK`, `ManifestBacked`, `SuccessIsLatest`, `LeftoversBounded`, refinement `Implements`, and `HolderReleases` under fairness |
| `refresh_safety` | 3 refreshes in 2 slots, 2 keys, 1 invalidation, 1 removal of the folder | `OneLiveRun`, `NoLateResult`, `CancelSettles`, `RenderedIsCurrent`, `NoStaleOverwrite` |
| `refresh_liveness` | 2 refreshes, 1 key, 1 invalidation, removal and addition | `RequestEnds` |
| `refresh_readd` | 2 refreshes, removal and addition | finding: `NoStaleOverwrite` fails |
| `cache_safety` | 2 processes, 2 hashed adapters, 2 contents, 3 analyses, 2 edits, 1 fault | `TypeOK`, `PointerBacked`, `HitIsCurrent`, `EntryStaysUsable` |
| `cache_unhashed` | 1 process, one adapter not hashed | finding: `HitIsCurrent` fails |
| `analyse` | 2 commands of 2 processes (a gate with fixes, fixes with a first save, a save after a comparison with a file, a save without a store, a labelled save with a gate), 2 keys with one legacy name, 1 fault of the store, 1 edit, move of HEAD, death, failing git call or output error | `RunTypeOK`, the store's `SavedStays`, `PartialIsExplained`, `OneSnapshot`, and `SnapshotOfCommit`, `OutcomeTellsFiles` |
| `codemod_safety` | 2 runs (one with `--allow-dirty`), 2 files, 1 edit, 1 fault | `ExactEdit`, `Recoverable`, `NoStaleEdit`, `CleanRollback`, `Accounted` |
| `dashboard` | 1 process, an entry pinned to a commit and one that follows a branch, neither of which the remote may have yet, and one that follows HEAD, 2 commits, 3 runs, 2 faults | `AnalysedIsResolved`, `RevisionHonoured`, `Heals`, and `RunEnds` under fairness |
| `atomic_write` | 4 calls, one per kind (fallback, exclusive, publish, overwrite), 2 faults | `TypeOK`, refinement `Implements`, `TornIsExplained`, `TempsRemoved` |
| `queue` | 2 pull requests, 2 steps of people, 1 failing run | `Reconciled`, `ActsOnAudited`, `ArmsAlone`, and under fairness of the controller `Advances` (if checks end) and `Rests` (even if they do not: the runs that its own arming raises do not go on for ever) |
| `queue_unlabel` | 2 pull requests, 3 steps of people, no failure | finding: `RemovedIsDisarmed` fails |

Every property of a passing run has a mutant in `PROJECT.json`: a plausible bug
in one mapped definition under which TLC refutes the property on the same
instance.

### Bounds, and why they are enough

Faults, edits, pushes, calls and downloads are counted in the state and capped by
`Max...` constants in the guards. Nothing else is bounded.

- *advisory*: two processes are the pair that the lock separates; three downloads
  let one process work before and after the other; two payloads with one
  identifier and one on its own make both the collision and the size limit
  happen. The invariants are also proved for all values, so the instance only
  has to show that they are not vacuous. Two faults under symmetry (without the
  liveness property) have been checked as well.
- *refresh*: an overwrite needs an old run, a new run and one event between; the
  third refresh adds the one that joins or reuses. One invalidation separates two
  inputs. The liveness instance has two refreshes, one that works and one that
  joins; with three it no longer ends in minutes.
- *cache*: two edits over two contents include the edit and its undo, the case in
  which an old key file becomes valid again. Three analyses are a writer, a
  concurrent writer and a later reader.
- *analyse*: two commands hold the pair that races for one key and the one that
  compares with what the other saved, and their four calls of the store. A death
  in a call of the store is its fault; one outside of it, an edit, a move of HEAD
  and an output error share the bound of one event, so two of them do not meet in
  the instance (they do in the proofs). HEAD starts at one of two symmetric
  commits.
- *codemod*: one file has two targeted lines around one that stays (deletion
  shifts lines), the other has lines of both dependencies (runs meet). Two edits
  have been checked as well.
- *dashboard*: a failed run, the run that repairs it, and one after that. HEAD and
  the branch each move over two commits, one of them pinned (3 commits and 2 runs
  have been checked as well).
- *atomic_write*: a pair of calls shows every interference; four calls hold all
  pairs of different kinds that create or open the path. `replace` is `fallback`
  without its fallback step. The refinement is proved for any mix.
- *queue*: a leader and a follower are the pair that can change places. Two steps
  of people are a change after the listing and one that answers it; the finding
  takes a single one, the removal of the label.

### Fairness

- `AdvisorySync!FairSpec`: `WF_vars(Publish(p))`: a process that is in a call
  continues it. Acquiring the lock retries on a timer until the context ends, so
  giving up is always possible and no strong fairness is needed. Nobody has to
  start, and foreign writes and crashes are never obliged.
- `RefreshLifecycle!FairSpec`: promises settle (`Progress(r)`: languages resolve,
  signatures are read, lopper ends), save handlers resume and timers fire.
  `AfterFailure` is fair only at `settling`: nobody has to close an error
  notification, and `RequestEnds` accordingly excuses those who wait for one.
- `DashboardRun!FairSpec`: `WF_vars(Step(p))`: git commands and analyses end, and
  goroutines are scheduled.
- `QueueController!FairSpec`: a workflow run that has started goes on
  (`Controller`). Nobody has to label, push or answer, and a run may fail. That
  checks end and GitHub merges what is armed and clean is not the specification's:
  it is the hypothesis `ChecksEnd` of `Advances`, without which TLC refutes it.
  `Rests` goes without: with checks that end, a controller that starts itself over
  would stop at the merge.

The type invariants of the refresh, codemod, dashboard and queue modules are not
part of a run: they are theorems. `CHECK_DEADLOCK FALSE` is set in all runs: with
every bound used up and nothing under way, there is nothing left to do.

## 4. Findings

- `refresh_readd`: `clearFolder` forgets the counters of a removed folder while
  its runs live on. After the folder is added again, a run of its first life has
  the id and version of the latest one and overwrites newer diagnostics, against
  the extension's README.
- `cache_unhashed`: sources of languages missing from `isCacheRelevantFile` do
  not change the digest; the next run serves the old report.
- `queue_unlabel`: the label is removed while a run is about to arm that pull
  request. The arming raises an event whose run takes the place of the waiting one
  that would have disarmed it, and finds nothing to do: the pull request stays
  armed without its label.

Other behaviours that the models show and no document contradicts are recorded
as hazards with a note, and the properties except them by name:

- after an invalidation, a removal of the folder or a failure that was already
  reported, a cancelled run never withdraws the "cancelling" of the status bar
  (`CancelSettles`);
- two dashboard entries of one URL that follow the same ref share a checkout: a
  push between their checkouts moves the tree under the first, whose
  `resolved_commit` stays. Two processes that share a dashboard cache remove each other's checkouts;
- the commit key of a snapshot is read after the analysis and after the fixes: a
  checkout meanwhile files the report under another commit (`SnapshotOfCommit`);
- an exclusive creation withdraws by name a file renamed over its own;
- an edit during an analysis is filed under the digest of before (`EditsAtRest`);
- of two codemod runs on one file, the second takes back the first.

## 5. Proofs

**AdvisorySync_proofs** (for any processes, payloads, identifiers, bounds).
`ManifestBacked` is not inductive: whether an entry dangles after a rollback
depends on what the process in the locked section is about to do. `HolderInv(p)`
says, for each value of `pc[p]`, what the holder already knows: that the manifest
it loaded is the one on disk (nobody else writes while it holds the lock), that
the snapshot it owns is its own inode and not yet mentioned in the manifest, that
a verified existing file has its content and that no recorded entry uses the same
name for another payload. `IInv` is the conjunction of `TypeOK`,
`LockExclusive`, `ManifestBacked`, `SuccessIsLatest` and `HolderInv` of all
processes; `Invariance` proves `Spec => []IInv` with one step per action, and
`TypeCorrect`, `MutualExclusion`, `ManifestIsBacked` and `SuccessPublished`
follow. `Refinement` proves `Spec => Implements`: while a process is about to
write, the manifest it has loaded is the current one, so its rename is the step
`Record` of the atomic cache, and every other step moves one caller or is a
stutter. `NoLostEntry` (no recorded identifier is dropped) follows from it.

`LeavesNothingBehind` counts. `CountInv` says which unreferenced snapshots nobody
at work owns (`Stray`) and which temporary files no call in progress will remove
(`Lost`), and that there are at most as many of them as faults; what remains is
owned by a process in the locked section or in a call, so that `LeftoversBounded`
follows by counting those. A step may add an element to one side only when it
adds one to the other. The theorem assumes `SameExtension`: contents that share an
identifier have the same file extension. Without it the property is false, as TLC
shows: the new content replaces the entry of the old one, whose snapshot has the
same identifier, another extension, and stays. That takes two advisory files of
different kinds whose digests agree in 96 bits.

**AtomicWrite_proofs** (for any calls of any mix of modes). `CallInv(w)` ties the
control of a call to its temporary file and its pin; `ForeignIntact` says that
only a call that opened a foreign file changes its content. From `Invariance`
follow `TypeCorrect`, `NoTempLeft` and `TornExplained`, and `Refinement`: `Init`
maps to `A!Init`, every step to a step of `AtomicFile` or a stutter, hence
`Spec => Implements`.

**AnalyseRun_proofs** (for any commands, requests and keys; the proofs about
BaselineStore come first in it). `RunUsesStore`: every step of the composition is a
step of the store or leaves it unchanged, hence
`RunSpec => Spec`, and the theorems about BaselineStore hold of the store that the
commands share. On top of it, `FiledInv` follows a report from the analysis to the
file (`SeenInv`: what a command saw is the tree as it is, unless it was raced),
which gives `FiledUnderItsCommit`; `OutcomeInv` ties the stage to the call of the
store (`CallInv`), to what was compared, fixed, stored and told (`ProgressInv`), and a
success to the file in the store (`KeptInv`), which gives `OutcomeIsTold`.

The store itself (for any processes, keys and sharing of legacy names):
`SavedStays` needs to know that the removal on the error path of `SaveJSON`, which
goes by path, cannot meet the file of another save. `Numbered` and `FileOfCall`
say that a running call's number is its own and that its file is the one at its
key; `WriterInv` adds what the file holds at each step, and that it can only have
been lost to a deletion from outside; `LegacyFirst` and `ReaderInv` are what
`OneSnapshot` needs. The theorems are `TypeCorrect`, `SaveIsDurable`,
`PartialExplained` and `LoadsTheOnlySnapshot`.

**AnalysisCache_proofs** (for any processes, adapters and contents). `BackedInv`
adds to `PointerBacked` that a process about to replace a pointer has already
published the object (`Storing`); `MemoSet` that a digest is there once it is
used. `HitsAreCurrent` and `EntriesStayUsable` rest on `CurrentInv`: every pointer
names the report of the inputs it records (`KeysTrue`), and what a process
remembers is what the sources still are (`Current`). They assume that sources
change only between analyses (`EditsAtRest`) and that every adapter's sources are in
the digest (`Hashed = Adapter`); the run `cache_unhashed` shows that the second is
needed.

**RefreshLifecycle_proofs** (for any refreshes, slots, keys and invalidations).
The invariant `RInv` has a part for each question the code asks after an `await`:
abort handles and unsettled runs correspond and all but the latest run are aborted
(`HandleInv`), what is rendered or cached is of an ended run that was not aborted
(`ResultInv`), a cached result is validated only while no run can replace it
(`CacheInv`), what was captured under the present version belongs to the present
input (`VersionInv`), requests and run ids are not reused (`RequestInv`,
`CountInv`), and an announced cancellation has somebody to withdraw
it (`StatusInv`). All theorems assume that a folder that was removed does not come
back (`MaxFolderMoves <= 1`); the run `refresh_readd` shows why.

**CodemodApply_proofs** (for any runs, files, suggestions and contents).
`ProgressInv` says what each loop has done with the files before and after the one
it is at, `ContentInv` that what was read, kept and replaced agree unless somebody
wrote the file after it was read, `CleanInv` that a run admitted to a clean
worktree reads committed content unless somebody changed it since. Steps of one
run disturb the others' invariants only through a changed file, which `Note`
records (`NotedOthers`). `Reported` is what the report owes of one file: applied or failed
for one with suggestions, and for a replaced file that is reported as failed an
explanation, another's change (`swapped`) or a call that failed after the rename
(`late`). `SkipInv` has the skips enter once the preparation ends.
`ReplacedIsKept`, `ReplacesWhatItSaw`, `KeepsTheCommitted` and `ReportsAll` follow.

`EditsExactly` is about data: what the recursion of `Updated` computes. The
induction theorems of the library are out of reach, so the induction is done by
hand, downwards over the line numbers with a least counterexample (`Descend`).
`EditsExist` extends a solution of the recursive equation from the suggestions
above line `i` to those from `i` on, hence the recursion has one; `EditsPlace`
carries the witness of `Wanted` through it: once the suggestions above line `i`
are handled, the lines up to `i` have not moved (`Placed`), so that the deletion
or the replacement that comes next hits the line it names (`PlacedDelete`,
`PlacedRewrite`). `TextInv` adds to the invariant that what a run has prepared is
the result of that recursion on accepted suggestions, and gives `TypeCorrect`.

**DashboardRun_proofs** (for any entries, workers, pushes and faults).
`HonoursRevision`: what a resolved entry reports is its pinned commit, or for HEAD,
a branch or a tag a commit no older than that was at the start of the run, also when
entries share a checkout and whatever earlier runs left. `AnalysesResolved`: the
commit reported is the one analysed, if no two entries follow the same ref; a second
one on the same URL moves the tree of the first, which is a hazard of its own.
`HealsTheCache`: an entry fails only by a fault of the same run, a left git lock or
a commit, branch or tag that the remote lacks, if no two entries share a checkout,
for in a shared one the failure of one entry's command is met by the next entry.
The first two assume that runs of different processes do not overlap (`Alone`), the
third that there is one process: the cache has no lock that would ensure it, and
two runs at a time do remove each other's checkouts. `CheckoutInv` says, for the
place a run is at, what the commands before it have made of the checkout,
`ProgressInv` which entries have their results, and `ResultInv` that what was
resolved stays in place until it has been analysed.

**QueueController_proofs** (for any pull requests and any number of changes).
`ArmsAlone` and `ActsOnAudited` need to know what a run has read is still worth
when it acts: `QInv` says, for the run's place, that the head it holds is the
leader's present or an earlier one and, after the audit, passed it and contains
the main it was compared with (`RunOK`), that an open pull request which left the
queue armed, or as the leader of the run at work, will be disarmed by an event
unless that was lost (`ArmedOK`), and that in the queue the controller has armed
only the leader, those still on the run's list and those in `undone` (`AloneOK`).
A maintainer can arm a follower at any moment, also after the run has disarmed it.
`UserOK` (`UserArmsNoticed`) says that this does not stay unnoticed: whoever is in
the queue carries the label, so the event of the arming, or of the change that
brought the armed pull request into the queue, asks for a new reconciliation; it
waits, is replaced by one that asks for the same, or is counted as `missed`
(`RaiseDue`). `BoundInv` and
`CountOK` (main moves once per push or merged pull request) give the type invariant.

`ReconcilesTheQueue` adds `Tidy`: whoever is armed in the queue and is not its
healthy leader will be disarmed (`TidyOK`), by the event that waits, by the run
that has still to list, or by the one whose list it is on (`WillDisarm`). For the
last case, a run in progress must still know its leader as it is, unless an event
about the difference waits (`LeaderOK`). At rest nothing waits and nothing is
owed.

Apart from the hypotheses named above, the proofs assume only the assumption on
the constants of the component's module, which TLC evaluates in every run. Every
inductive invariant has also been checked by TLC on the instance of a run.

Only model-checked: the liveness properties (`HolderReleases`, `RequestEnds`,
`RunEnds`, `Advances`), since fairness and `ENABLED` are outside what the prover
handles. Every other property of a passing run is a theorem.

## 6. Abstractions to know about

- *AdvisorySync*: HTTP and the OSV JSON/ZIP validators are one choice of success
  or failure; the link, the rename and each check are one step each.
- *RefreshLifecycle*: one folder; hover, export, explorer and the prompts of
  commands do not touch the session and are left out.
- *AnalysisCache*: sources change only between analyses (`EditsAtRest`), since
  nothing in the repository promises more; each adapter reads its own files. The
  runs ask for all languages; a run whose cache cannot be used touches none of it.
- *AnalyseRun*: what a baseline file given by path holds, the annotations with advisories and
  what the gates compute are one choice each; the codemod is one step, whose parts
  are CodemodApply.
- *QueueController*: comparing two commits gives the same answer whenever it is
  asked; an audit looks at the commits that are not in main; a merge that GitHub
  refuses fails the run. Status comments and the label's definition are left out.
- *BaselineStore*: an encoder either completes the document or fails; legacy
  files are not rewritten by the code and do not change.
- *CodemodApply*: the repository is a git worktree; no adapter suggests one line
  twice, so the guard against that is left out.
- *DashboardRun*: one URL and one process; the commits of the remote lie on one
  history, along which HEAD, branches and tags only move forward. A git command is
  one step, except that a dying one may leave its lock, which every later run of
  that checkout trips over, and a tree half way. `Heals` therefore excludes a left
  lock. Removing a broken checkout can fail like any command.
- *AtomicWrite*: one path, not on Windows; an outside program puts one new file
  at a time.

## 7. Plan

Order of work; the most important behaviour came first and is done.

1. Done: AdvisorySync, RefreshLifecycle, AnalysisCache, BaselineStore and its
   composition AnalyseRun, CodemodApply, DashboardRun, QueueController, AtomicFile
   and AtomicWrite, all with proofs of the safety properties their runs check.
2. *ReportMerge* (`internal/analysis/merge.go`): merge of reports over roots as
   operators, against a reference definition over small reports; whether the
   result depends on map order (`mergeTopSymbols`).
3. *OutputTail* (`internal/runtime/capture_output.go`): the ring buffer as a
   refinement of "the last bytes written".
4. CodemodApply in place of the one step that stands for it in AnalyseRun, and
   instances of `AtomicFile` inside AnalysisCache and AdvisorySync instead of their
   own one-step writes.
