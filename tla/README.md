# A verification of yggsync

yggsync keeps a directory tree on several machines in step with a *hub* (a
directory on an SMB share or a mounted one).  This directory holds TLA+ models
of the program, TLC configurations that check them on small instances, and
proofs that TLAPS checks for every instance.  Everything is translated from the
Go sources; line numbers are those of `src/`.

Contents: [the system](#the-system), [the modules](#the-modules),
[the runs](#the-runs), [bounds](#bounds), [fairness](#fairness),
[proofs](#proofs), [findings](#findings), [what is not modelled](#what-is-not-modelled),
[plan](#plan).

## The system

A run of the program (`cmd/yggsync/main.go`) reads a TOML file, takes the
machine's `flock`, and runs the chosen jobs one after the other.  A job is of
one of four types: `copy`, `sync`, `retained_copy` (one-way, no memory) and
`worktree` (two-way, driven by a ledger that is kept on the hub).  Nothing runs
concurrently inside a process.  The concurrency is between processes: the
timers of one machine, several machines on one hub, people who edit files on
both sides while a run is under way, and the ends that a run does not choose
(expired deadlines, lost connections, kills, power).

| Component | State it keeps | Operations | What makes it hard | What makes it correct |
|---|---|---|---|---|
| Worktree reconciliation, `internal/runner/worktree.go` | two scanned trees, a copy of the ledger, the list of conflicts | `runWorktree`, `decide`, copies, removals, `mergePath`/`quarantine` through `writeBoth`, the mass-delete guard | every path is a separate change to two replicas and the ledger is saved once, at the end; decisions rest on a scan taken earlier | no edit is lost; absence is not mistaken for deletion; a removed version does not return; a saved ledger tells the truth; replicas settle |
| Ledger file, `internal/ledger/ledger.go` `Load`, `Save` | `.yggsync/ledger.json`, `.bak`, `.json.tmp` on the hub | read with fallback; write, stat, remove, two renames | five file operations, no transaction, and a rename that some servers refuse | a save takes place at once or not at all; a lost primary is recovered from the last version or the one before |
| Blob store, same file | one file per content hash | `PutBlob`, `GetBlob`, `GCBlobs` | a blob must precede the ledger that names it, and outlive it | merge bases named by the ledger exist |
| Hub lock, same file, and machine lock, `internal/runner/runner.go` | a lock file with client and time; a `flock` | `AcquireLock` and its release; `acquireLock` | read and write are separate; staleness by the clock; release without looking | one run at a time; a dead holder is replaced; no hold lasts for ever |
| Three-way merge, `internal/merge/merge.go` | none | `Merge` on lines | repeated lines, adjacent changes | a clean merge holds both sides' changes and nothing else |
| Backend, `internal/backend/backend.go` | an SMB session | `Walk`, `ReadFile`, `WriteFile`, `CopyFile`, `Rename`, ... | writes truncate in place; scans skip what they cannot read | - (the callers bear the consequences) |
| Command line, `cmd/yggsync/main.go` | - | profile, gate, choice of jobs, report | several flags decide together what runs and who is told | every job asked for is tried; a page tells of a failure |
| Job sequence, `RunJobs` in `internal/runner/runner.go` | the machine lock, the errors so far | run each job under its deadline | a failed job must not keep back the next | every job is tried, the lock is released |
| `copy`, `sync`, `retained_copy` jobs, same file | two snapshots | copy what differs, delete what is missing, keep the latest | deletion on the evidence of a scan | nothing is deleted whose copy is not safe |
| Filter, `internal/filter` | ordered rules, or include and exclude | the last rule that matches decides | `**/` must match no directory at all as well | every scan of a job sees the same set of paths; what is excluded stays out at every depth |
| Configuration, `internal/config` | - | parse, defaults, device profiles | - | a profile that sets a limit gates |
| Device gate and notifications, `internal/gate` | battery, charger, temperature | `Decide`, `Check`, `Notify` | external commands that may hang or be missing | a scheduled run does not start on a tired device |
| Termux registration, `internal/termuxjobs` | two scripts, the scheduler's table | `InstallJobs`: write and register, twice | it stops at its first error, and older scripts stay | each job is in one schedule |
| Testbench and CI | - | - | - | - |

How they meet: a worktree run calls, in this order, the machine lock (held by
its process), the hub lock, `ledger.Load`, two backend walks, the guard, then
for each path `decide` with its file operations, `PutBlob` and entries in
memory, then `ledger.Save`, `GCBlobs`, the conflict report and notification,
and the release of both locks.  All that passes from one run to the next is on
the replicas and in the hub's `.yggsync` directory.

The hazards this gives rise to are listed in `PROJECT.json` under `hazards`,
each with its line and the properties that would notice it.

## The modules

    Worktree     <--- MCWorktree, WorktreeProofs <--- WorktreeEditProofs
                                                 <--- WorktreeGuardProofs
    AtomicLedger <--- LedgerStore <--- MCLedgerStore, LedgerStoreProofs
    HubLock      <--- MCHubLock, HubLockProofs
    Merge        <--- MCMerge, MergeProofs
    Filter       <--- FileJobs <--- MCFileJobs, FileJobsProofs
    Invocation   <--- MCInvocation, InvocationProofs

`FileJobs` EXTENDS `Filter`, and `LedgerStore` refines `AtomicLedger`.  For the
rest the parts rest on each other by assumption and not by `INSTANCE`:

* `Worktree` lets one run be active and saves the ledger in one step;
  `LedgerStore` says when that step is atomic, and `HubLock` when only one run is
  active, and both say when not.
* `Worktree` uses `Merged`, the effect of a clean merge on sets of edits; `Merge`
  is the algorithm, and its property `MergesLikeSets` is that formula, with the
  conditions under which it holds.
* `Invocation` and `HubLock` treat a job as something that succeeds or fails;
  `Worktree` and `FileJobs` say what it does.

### Worktree

The `worktree` job from `ledger.Load` to `GCBlobs`.

*State.* `tree[r][p]` is what replica `r` (a client, or the hub) holds at path
`p`.  `gen`, `base`, `tombs` and `cursor` are `Ledger.Generation`, `.Files`,
`.Tombstones` and `.Clients[c].LastGen` of the saved ledger; `blobs` and
`spoiled` the blob store.  The memory of the active run is `job` (client, flags,
both snapshots), `files` and `stones` (its copies of the ledger's maps, which
the code mutates in place until `Save`), `todo`, and `cur`, `target`, `val` for
a `writeBoth` under way.  Five history variables are read by properties only.

*Data.* A file's content is the **set of edits it incorporates**, the hash of a
content is the content.  A merge that is clean is `Merged(l, a, b)`, what diff3
yields when edits touch separate chunks; whether diff3 is clean depends on the
text, so `MergePath` and `Quarantine` are both enabled when the sides diverge
(merging needs the base's blob, as in the code).  This is what lets the
properties speak of lost edits, silent overwrites and genuine conflicts.  The
torn file that a truncating write leaves is the empty set.  Two different texts
with the same set of edits are not told apart.

*Actions and code.*

| Action | Code | Notes |
|---|---|---|
| `Begin` | `runWorktree`, `scanWorktree`, `plannedRemoteDeletes`, `massDelete` | the scans may miss entries, see `Unseen` |
| `Settle`, `RecordSame` | `decide`, `decideConverged` | |
| `DeleteLocal`, `DeleteRemote` | `deleteLocal`, `deleteRemote`, `recordTombstone` | also the tombstone guard's branch; no test of `dryRun`, as in the code |
| `CopyToLocal`, `CopyToRemote` | `copyToLocal`, `copyToRemote`, `record`, `flag` | content is read when the step is taken, not when it was scanned |
| `MergePath`, `Quarantine` | `resolveDivergence` | set `target` and `val` |
| `WriteBothLocal`, `WriteBothHub`, `AlignLocal` | `writeBoth`, and the copy that ends a quarantine | one step per replica written |
| `DryPath` | the `dryRun` branches | |
| `Save`, `CollectBlobs`, `EndDryRun` | the end of `runWorktree`, `GCBlobs` | the collection may stop at any error |
| `Stop`, `Tear` | every error return, an expired context, a kill; the same inside `WriteFile` or `PutBlob` | |
| `UserEdit`, `UserDelete`, `UserRestore`, `UserReset` | people | the environment |

The branches of `decide` are the predicates `ShouldDeleteLocal`,
`ShouldDeleteRemote`, `ShouldPull`, `ShouldPush`, `Diverged`, one for each
outcome.

`Unseen(r)` is what the scan of a replica may leave out.  `localFS.Walk` skips an
entry it cannot read, and it also ends, without an error, at a file that is gone when
it is to be hashed (`backend.go:145`): a dangling link, or a file that somebody removed
after its directory was listed.  What comes later in the order of the walk (`Rank`) is
then not seen.  So `"unseen"` lets a scan leave out anything, and `"midrun"`, where
people write under a run, any end of the walk.  Both are for the replicas of `LocalFS`,
those that are a directory; an SMB walk returns such errors.

`Env` says what may happen around a run (stops, torn writes, skipped entries,
restored files, emptied clients, edits during a run, `-dry-run`,
`-allow-mass-delete`), so that each run of TLC and each theorem states under
which environment its property holds.  The proofs hold for every `Env`.

### LedgerStore and AtomicLedger

`LedgerStore` opens up `Load` and `Save` into `Load`, `WriteTmp`, `StatPrimary`,
`RemoveBak`, `Rotate` and `Commit`, one action per file operation, any of which
may be the last of its run (`Stop`).  `RenameReplaces` is `TRUE` for `os.Rename`
and `FALSE` for a server that refuses to rename onto an existing file
(`Refused`).  `Fault` chooses between stops, reads that fail for another reason
than a missing file, the errors `Save` passes over (of `Stat` and of `Remove`),
and a loss of power, which damages any file that was not synced.
`AtomicLedger` is what the comments promise: a register that is taken, and then
replaced at once or not at all.  `SaveIsAtomic` is the refinement, where the
register's value is what a `Load` without read errors would return.

### HubLock

`flock[m]` is the machine lock, `lock` the lock file on the hub, `pc[p]` the
progress of process `p`.  `AcquireLock` is `ReadLock`, `TruncateLock`,
`FillLock`: the file is read, emptied, filled, and nothing ties the three
together.  A lock that cannot be read or decoded counts as free, one of the same
client too, and one older than 30 minutes (`old`).  `Release` removes the file
whoever wrote it.  `Notified` is the end of `notifyConflicts`, which comes
before the release.  `WriteFails` is an error of `MkdirAll` or `WriteFile`.  The history
variable `exposed` records that the hub's lock has failed in one of the three ways
known: a run passed it while another client was writing its own (`Contended`), or took
a lock it could not read for none, or a lock grew old while its run went on.
Kills and failed writes share the bound `MaxFault`, so that a
liveness property does not fail for the sake of errors that never cease.

### Merge

`merge.Merge` from its three short cuts to the last chunk.  `ma` and `mb` are the
two maps that `matchIndex` returns, filled by one action per turn of its walk
(`MatchOurs`, `MatchTheirs`); the table of the dynamic programme is the
recursive function `LCSLen`.  `oi`, `ai`, `bi` are the cursors of `diff3Chunks`;
`CutStable`, `CutUnstable` and `CutTrailing` are the three places where a chunk
is made, and write it to `merged` at once (the code collects the chunks first
and then writes them in the same order).  A text is a sequence of lines, each of
them a token that includes its newline; `Open` are the lines without one, which
can only be the last.  `Ended[l]` is the line that `ensureNL` makes of an open
one: that it is the same token as a closed line with the same characters is what
makes an open last line worth modelling.

| Action | Code |
|---|---|
| `ShortCircuit`, `Split` | `Merge`, the three comparisons and `splitLines` |
| `MatchOurs`, `MatchTheirs` | `matchIndex(o, a)`, `matchIndex(o, b)` |
| `CutStable`, `CutUnstable`, `CutTrailing` | `diff3Chunks`, `nextSyncPoint`, `resolveChunk`, `writeMarkerBlock` |

### Filter and FileJobs

`Filter` has no state.  A path is the sequence of its names, a pattern the
sequence of what lies between its slashes, each of them `**` or the set of names
a glob stands for; `Covers` is `Matcher.Match`.  The strings of a regular
expression are not modelled, what it matches is, including that `**/` may stand
for nothing and that a pattern without a slash looks at the last name.

`FileJobs` is a job of type `copy`, `sync` or `retained_copy` and its two sides.
A file is a body and a time; `sameFile` compares sizes and times, never content,
so a body has a `Size` and two bodies may have the same.  `Window` is the two
seconds of `sameTime`, `Stamp` what the remote's file system makes of a time.  A job's
`source` is a directory or, when `local` names a target, a share: a directory that is
missing fails the run (`ErrRootMissing`), a share without the path is listed as empty
(`smbFS.walkDir`).

| Action | Code |
|---|---|
| `Begin` | `scanFS` of the local side, `scanDest` of the remote one |
| `SkipCopy`, `CopyFile`, `CopyFails` | `copyMissingOrChanged`, `copyFile` |
| `CopyDone` | the branch on the job's type, `retentionCandidates`, `keepLatestCandidates` |
| `DeleteMissingRemote` | `deleteMissingRemote` |
| `Prune` | `safeDeleteIfRemoteExists`, `statFile`; the file also stays when the look at the remote fails |
| `RunDone`, `Finish` | the returns without an error |
| `Stop`, `Cut` | error returns, expired deadlines, kills; the same inside `WriteFile` or before `Chtimes` |
| `UserWrite`, `UserDelete`, `RootChanges`, `Tick` | people, an unmounted source, the clock |

`Env` again says what may happen.  `"hasty"` lifts the assumption that a person
does not replace a file by another of the same size within two seconds, which
these jobs cannot notice; `"unseen"` lets the scan of a directory skip entries.

### Invocation

What surrounds the jobs: `main` with the configuration it loads, `RunJobs` with
the machine lock, the report, and `android install-jobs`.  `pc[p]` is how far
process `p` is, `run[p]` what it has made of its command line; `failed` is
`Summary.Failed`.  `script` and `registered` are the two wrappers and what the
Termux scheduler knows of them, `installer` the progress of `InstallJobs`.

| Action | Code |
|---|---|
| `Fire`, `Type`, both by `Invoke` | `main` up to `RunJobs`: `config.Load`, the label, the gate, the names |
| `TakeLock`, `NoLock`, `Unlock` | `acquireLock`, and the deferred unlock in `RunJobs` |
| `JobSucceeds`, `JobFails` | the loop of `RunJobs` with `RunJob` |
| `Report` | `main` after `RunJobs`, `notifyWorthy` |
| `End` | the process exits or is killed |
| `Install`, `WriteObsidian`, `RegisterObsidian`, `WriteBulk`, `RegisterBulk`, `InstallFails` | `InstallJobs`, one step per write and registration |
| `EditConfig`, `DeviceChanges`, `Wiped` | the surroundings |

## The runs

Every run is one question.  The last one is *violated*: it checks a statement
of the repository's documents that the code does not keep (see
[findings](#findings)).

| Run | Question | Answer |
|---|---|---|
| `SingleClient` | One client, runs that stop anywhere, people who write and restore files between runs: are edits lost, hub versions replaced by something that does not incorporate them, files removed that nobody gave up? (`TypeOK`, `NoLostEdit`, `NoSilentOverwrite`, `NoUnwantedDelete`) | no |
| `Clients` | Two clients, runs that complete, six generations: does every edit survive somewhere, does a deletion stand, and does the cursor keep a file a client never got from being deleted? (`NoLostEdit`, `NoResurrection`, `NoUnwantedDelete`) | yes |
| `InSync` | One client, fair scheduling: do the replicas become and stay equal once people stop, and is every reported conflict a genuine one? (`EventuallyInSync`, `GenuineConflicts`) | yes |
| `MassGuard` | Clients that are emptied, people who write under the run, scans of the client that end early, dry runs, with and without `-allow-mass-delete`: does the forecast cover the removals a run then makes? (`MassDeleteGuard`) | yes |
| `RoughRun` | People write while runs are under way, which may cut a scan short; runs stop, and writes of files and blobs are cut short: is a saved ledger true of what nobody touched, by which invariant, and are its merge bases in the store? (`SavedMeansConverged`, `ReconcileInv`, `BlobsCoverLedger`) | yes |
| `AtomicSave` | Stops, ignored errors, and renames that are refused: is `Save` atomic, and does the generation grow? (`SaveIsAtomic`, `GenerationGrows`) | yes |
| `FlakyHub` | Failed reads, stops and power loss: how old can the ledger be that a run starts from, and does a rename ever meet its target? (`TypeOK`, `AtMostOneBehind`, `RenamesLand`) | one generation, or empty; no |
| `Locks` | Slow and killed runs, failing lock files, three processes on two machines: do the processes of one machine exclude each other, and two machines as long as the hub's lock has not failed in a known way, is a lock left behind taken over, does every run end? (`TypeOK`, `OverlapIsExplained`, `LockIsRecovered`, `RunsEnd`) | yes |
| `Merging` | All texts within the bounds: does diff3 return, cut every text off to its end, give a text, keep every new line once, agree with a reference on texts that repeat no line, and report as many conflicts as there are divergent places? (`TypeOK`, `MergeEnds`, `NothingSkipped`, `MergedIsText`, `AddedLinesSurvive`, `MergesLikeSets`, `ConflictsAreDivergent`) | yes |
| `FileRuns` | `copy`, `sync` and `retained_copy` jobs, with people on both sides, stops, writes cut short, rounded times and a source, directory or share, that goes missing: is on the remote what a finished run covers, does it stay there, is a pruned file on the remote, does `keep_latest` keep enough and the right ones, and does an excluded directory stay out? (`TypeOK`, `RunMeansCopied`, `ConfirmedStays`, `PrunedIsOnRemote`, `KeepLatestHolds`, `PrivateStaysOut`) | yes |
| `Invocations` | Two processes and the installer, with kills, failing locks and schedulers, changing configurations and batteries: is every job tried, does a page mean a failure and a failure a page, do the schedules cover the jobs, does a tired device rest? (`TypeOK`, `AskedIsTried`, `PagesMeanFailures`, `SchedulesCoverJobs`, `TiredDeviceRests`) | yes |
| `StaleOverwrite` | `NoSilentOverwrite` with a second client | violated |

The positive and the negative runs of one property delimit it, and the conditions
of its theorem are drawn along that line (see [proofs](#proofs)).  `NoLostEdit`
holds for any number of clients whose runs complete, and for stopped runs of one
client; it fails for a stopped run with a second client, and as soon as a write
can be cut short or a person writes between scan and copy.  `NoSilentOverwrite`
holds for one client and not for two.  `NoUnwantedDelete` fails for an emptied
client or a scan that skipped an entry.  `NoResurrection` holds for two clients
whose runs complete and fails with a third, with a stop, with a dry run, and with
people who write on the hub itself.  `MassDeleteGuard` fails where a file is torn,
or restored, or a scan of the hub leaves one out.  What a scan of the client leaves out
it covers: such paths are in the forecast like any other that looks deleted.
`InSync` is about one client up to `MaxGen` generations: its last runs converge.  Two
clients may answer each other for ever (`StaleOverwrite`).

`OverlapIsExplained` does not say that two runs never overlap; they do (`TwoHolders`,
`SlowHolder`).  It says that there is no other way in: not by a lock file that a killed
run left, garbled or whole, not by a failed write or removal, not by a run that was
refused the lock, as long as no two machines use the same `client_id`; and none at all
for two processes of one machine (`OneRunPerMachine`, its first part).  Each of the
three exemptions in `exposed`, and that premise, is needed: without any one of them TLC
finds an overlap.

The properties of `FileRuns` are about the *content* on both sides, which the code
never compares.  `RunMeansCopied` and `ConfirmedStays` therefore depend on an
invariant about sizes and times, that a partial or unstamped copy is never within
the window of its original (see [proofs](#proofs)), and on people who do not
replace a file by one of the same size within two seconds.

`MergesLikeSets` and `ConflictsAreDivergent` need a reference to compare with, and
have one where lines do not repeat and have not been moved past each other.
Repeated lines are `AddedLinesSurvive`'s matter: diff3 may match a repeated line to
another occurrence, but a line that is new to a side is there at least as often as
that side has it and at most as often as both sides together.

`NoLostEdit` in `Clients` does not contradict `StaleOverwrite`: the edit that a
stale client overwrites on the hub is still on the client that made it, and that
client keeps it until a version comes that has it.  `EditsSurvive` proves this for
every number of clients, edits and generations.  What survives is the edit, in
some file: whether the hub has it is `NoSilentOverwrite`'s matter.

`NoSilentOverwrite` is about the hub and lets a deletion pass, which is
`NoUnwantedDelete`'s matter.  `NoResurrection` is about the version that was
removed *last* at a path and a hub that has no file there: a tombstone holds one
version, and a stale client that overwrites a file that was created anew is
`StaleOverwrite` once more.

### Further settings

These follow from a run above by the change named, and TLC then reports the
property violated.  They show the remaining divergences of the
[findings](#findings).

| Setting | From | Change |
|---|---|---|
| `ResetClient` | `SingleClient` | `Env = {"reset"}`, property `NoUnwantedDelete`, or invariant `NoLostEdit` |
| `ErasedTombstone` | `Clients` | `Client = {c1,c2,c3}`, all of them authors, property `NoResurrection` |
| `HungNotifier` | `Locks` | `Process = {phone1,laptop}`, `Env = {"hang"}`, `MaxFault = 0`, property `RunsEnd` |
| `DryRunDeletes` | `SingleClient` | `Env = {"dryrun"}`, property `DryRunIsReadOnly` |
| `TornWrite` | `SingleClient` | `Env = {"torn"}`, invariant `NoLostEdit` |
| `EditUnderRun` | `SingleClient` | `Env = {"midrun"}`, invariant `NoLostEdit` |
| `SkippedEntry` | `SingleClient` | `Env = {"unseen"}`, property `NoUnwantedDelete`, or invariant `NoLostEdit` |
| `TruncatedScan` | `SingleClient` | `Author = {hub}`, `Env = {"midrun"}`, property `NoUnwantedDelete`; it holds if also `LocalFS = {}` |
| `StoppedRun` | `Clients` | `Env = {"stop"}`, invariant `NoLostEdit` |
| `LostTombstone` | `Clients` | `Env = {"stop"}`, or one of `{"torn"}`, `{"restore"}`, `{"unseen"}`, `{"midrun"}`, property `NoResurrection` |
| `DryTombstone` | `Clients` | `Env = {"dryrun"}`, property `NoResurrection` |
| `HubTombstone` | `Clients` | `Author = {c1,hub}`, no symmetry, property `NoResurrection` |
| `FalseConflict` | `InSync` | `SPECIFICATION Spec`, invariant `GenuineConflicts`, and one of `Env = {"stop"}`, `{"stop", "torn"}`, `{"restore"}`, `{"midrun"}`, `{"unseen"}` with `LocalFS = {c1,hub}`, or `Client = {c1,c2}` with `MaxGen = 6` |
| `UnguardedDelete` | `MassGuard` | `LocalFS = {hub}` with `Env = {"unseen"}` or `{"midrun"}`; or `Edit = {e1,e2,e3}` with `Env = {"stop", "torn"}` |
| `RestoredBackup` | `MassGuard` | `Env = {"restore"}`, invariant `MassDeleteGuard` |
| `SpoiledBlob` | `RoughRun` | invariant `BlobsIntact` |
| `PowerLost` | `FlakyHub` | `Fault = {"stop", "power"}`, invariant `Recoverable` |
| `UnreadLedger` | `FlakyHub` | `Fault = {"stop", "read"}`, property `GenerationGrows` |
| `UnreadBackup` | `FlakyHub` | `Fault = {"stop", "read"}`, invariant `EmptyMeansFresh` |
| `TwoHolders` | `Locks` | `Process = {phone1,laptop}`, `Env = {}`, `MaxFault = 0`, `SPECIFICATION Spec`, invariant `NoOverlap` |
| `SlowHolder` | `Locks` | `OverlapIsExplained`, with `Age` leaving `exposed` as it is |
| `HastyEdit` | `FileRuns` | `"hasty"` added to `Env`, invariant `RunMeansCopied` |
| `SkippedSource` | `FileRuns` | `"unseen"` added to `Env`, invariant `ConfirmedStays` |
| `MissingShare` | `FileRuns` | the `sync` job's source is `"smb"`, invariant `ConfirmedStays`; it holds if `"gone"` is taken from `Env` |
| `EditBeforePrune` | `FileRuns` | `PrunedIsOnRemote` without its exemption of `edited` |

In this one TLC finds `RoughRun`'s properties kept: scans that skip entries are
apart from torn writes because the two together take TLC more than minutes.

| Setting | From | Change |
|---|---|---|
| `QuietScan` | `RoughRun` | `Env = {"midrun", "unseen", "dryrun", "restore"}` and `LocalFS = {c1,hub}`, without the `VIEW` |

### Mutants

`PROJECT.json` lists, for every property of a passing run, a definition of the
model changed as a plausible bug would change the code (a guard dropped, a
version not recorded, a backup not rotated).  TLC finds each property violated by
its mutant under the same configuration.  The changed definitions stand before
the ones they replace, marked `Mutant`.

## Bounds

* `MaxGen` bounds the generations of a ledger, and so the completed runs.  2 is
  enough for `RoughRun`, whose properties speak of one run and what it starts
  from; 3 or 4 with one client covers create, edit, delete and a run that repairs
  or spoils what a stopped one left; 6 with two or three clients lets each of them
  catch up, act, and see what the others made of it.  People stop acting at the
  bound, so that a run can follow every change.
* `Edit`: each edit is made once.  Two are needed for a divergence, three for a
  divergence on top of a common version, and two notes and a successor for
  `MassGuard`.  Deletions are not bounded.
* `Path` is a note and one or two names for its sidecars.  Paths are decided
  separately and only meet in the guard, so `MassGuard` alone uses two notes.
* `MassFloor` is 10 in the code.  `MassGuard` sets it to 0, so that two files reach
  both sides of the ratio (one of two may go, two of two may not); the other runs
  keep 10.  `MassGuard` has two edits and four generations.  Three edits and three
  generations pass too and take longer, with `{"midrun", "reset", "dryrun",
  "massdelete"}` and with `{"midrun", "unseen", "reset", "massdelete"}`.
* `LocalFS` is the clients: the trees on the machines are directories, and the hub is a
  share.  A mounted hub is what the proofs and the further settings have.  `Rank` puts
  a sidecar after its note, as names do.
* `Client`: one, two, and three where a third is what the property needs.
* `Merging`: a base of two lines and sides of three, over three closed lines and an
  open one, is every way to keep, drop, repeat, move and insert lines around two
  synchronisation points, with an open last line in any of the texts (`MaxBase = 3`
  passes too, and takes longer).  An open line has the characters of a closed one.
* `FileRuns`: three paths, of which one lies in a directory that the filters
  exclude at the root; two bodies of one size and the empty torn one; a `Window` of
  2, times up to 4 and a remote that keeps even times, so that times are equal,
  within the window and beyond it.  Two writes suffice for a version and its
  successor.  The four jobs cover each type and each of the two styles of filter.
* `Invocations`: two processes, as many as the lock tells apart; two configurations,
  so that the installed one and the present one can differ, one of them with the
  legacy type `bisync`; a profile with both limits and one with the battery's only;
  a device that is fine, and one that is warm and low.
* `LedgerStore` runs to generation 4: each generation rotates the three files once,
  and after two the contents of all of them have been replaced.
* `MaxFault` of 2 kills a run and one that recovers from it.

`RoughRun` has a `VIEW`, `WithoutHistory`, which drops `flagged`, `dropped`, `removed`
and `wiped`: its properties read none of them, and no action it can take does
(`removed` guards `UserRestore`, which needs `"restore"`).  States that differ in these
only have the same futures as far as its properties tell.

Symmetry is used for edits, clients, bodies and processes when all of them play the
same part, in runs without a liveness property.  Deadlock is not checked for
`Worktree`, `LedgerStore` and `FileJobs`, where a bound on generations or time can
end a behaviour, nor for `Merge`, which returns; it is checked for `HubLock` and
`Invocation`.

## Fairness

* `Worktree!FairSpec` is `WF(Run)`: a timer starts the job again and again, a run
  goes on to its next step, and nothing obliges people to write.  Stopping is not
  fair, and the run that uses it (`InSync`) has no stops.
* `HubLock!FairSpec` has `SF(Start(p))` for each process (a start is refused as
  often as the machine lock is found taken, and is tried again by the timer),
  `WF(Step(p))`, `WF(Age)` since time passes, and `WF(Notified(p))` unless `Env`
  says that a command may hang.
* `Merge!FairSpec` is `WF(Next)`: a function that is called runs on.
* `FileJobs` and `Invocation` state no liveness: their runs end by a finite list of
  paths or jobs, and what they wait for (a lock) they do not wait for twice.
* `WF` of a step that does I/O says that it ends.  The code justifies this with
  `timeout_seconds`, the deadline of a job, and the dial and request deadlines of
  the SMB library; a job without a deadline on a mounted directory whose server
  hangs is outside the claim.  `notifyConflicts` runs its command without the
  job's context, which is why its end is a separate assumption.

## Proofs

TLAPS checks these for all values of the constants that satisfy the `ASSUME`s of
the modules: any finite set of paths, any sets of clients and edits, any bound.

| Theorem | Module | Statement |
|---|---|---|
| `TypeCorrect` | `WorktreeProofs` | `Spec => []TypeOK` |
| `SavedConverged` | `WorktreeProofs` | `Spec => []SavedMeansConverged`, for every `Env` |
| `ReconcileKept` | `WorktreeProofs` | `Spec => []ReconcileInv`, for every `Env` |
| `BlobsSafe` | `WorktreeProofs` | `Spec => []BlobsCoverLedger`, for every `Env` |
| `EditsSurvive` | `WorktreeEditProofs` | `Calm => (Spec => []NoLostEdit)` |
| `DeletesWanted` | `WorktreeEditProofs` | `Calm => (Spec => NoUnwantedDelete)` |
| `OverwritesTell` | `WorktreeEditProofs` | `Calm /\ Alone => (Spec => NoSilentOverwrite)` |
| `GuardHolds` | `WorktreeGuardProofs` | `Foreseen => (Spec => []MassDeleteGuard)` |
| `ConflictsGenuine` | `WorktreeGuardProofs` | `Secluded => (Spec => []GenuineConflicts)` |
| `DeletionsStand` | `WorktreeGuardProofs` | `Paired => (Spec => NoResurrection)` |
| `AtomicSave` | `LedgerStoreProofs` | `NoDamage => (Spec => SaveIsAtomic)`: the refinement of `AtomicLedger` |
| `Generations` | `LedgerStoreProofs` | `NoDamage => (Spec => GenerationGrows)` |
| `Renames` | `LedgerStoreProofs` | `"ignored" \notin Fault => (Spec => []RenamesLand)` |
| `StoreTypeCorrect` | `LedgerStoreProofs` | `Spec => []TypeOK`, under every fault |
| `NeverOlder` | `LedgerStoreProofs` | `"ignored" \notin Fault => (Spec => []AtMostOneBehind)` |
| `LockTypeCorrect` | `HubLockProofs` | `Spec => []TypeOK` |
| `MachineExclusion` | `HubLockProofs` | `Spec => []OneRunPerMachine` |
| `OverlapExplained` | `HubLockProofs` | `OneMachinePerClient => (Spec => []OverlapIsExplained)` |
| `MergeTypeCorrect` | `MergeProofs` | `Spec => []TypeOK` |
| `ChunksCover` | `MergeProofs` | `Spec => []NothingSkipped` |
| `MergeGivesText` | `MergeProofs` | `Spec => []MergedIsText` |
| `AddedLinesKept` | `MergeProofs` | `Spec => []AddedLinesSurvive` |
| `MergeIsOfSets` | `MergeProofs` | `Spec => []MergesLikeSets` |
| `ConflictsWhereDivergent` | `MergeProofs` | `Spec => []ConflictsAreDivergent` |
| `FileTypeCorrect` | `FileJobsProofs` | `Spec => []TypeOK` |
| `PrunedSafe` | `FileJobsProofs` | `Patient => (Spec => PrunedIsOnRemote)` |
| `CopiedSafe` | `FileJobsProofs` | `Patient => (Spec => []RunMeansCopied)` |
| `ConfirmedSafe` | `FileJobsProofs` | `Patient /\ Seen => (Spec => []ConfirmedStays)` |
| `LatestKept` | `FileJobsProofs` | `Spec => KeepLatestHolds`, for every `Env` |
| `PrivateKeptOut` | `FileJobsProofs` | `Guarded => (Spec => PrivateStaysOut)` |
| `InvocationTypeCorrect` | `InvocationProofs` | `Spec => []TypeOK` |
| `EveryJobTried` | `InvocationProofs` | `Spec => []AskedIsTried` |
| `PagesSound` | `InvocationProofs` | `Spec => []PagesMeanFailures` |
| `GateHolds` | `InvocationProofs` | `"battery" \notin Env => (Spec => TiredDeviceRests)` |
| `ScheduleShared` | `InvocationProofs` | `Spec => []SchedulesCoverJobs` |

Every safety property of a run that passes is stated by one of these theorems.
Where one has a condition, the condition is on the surroundings, and the code does
not keep the property without it:

| Condition | Meaning | Needed, as shown by |
|---|---|---|
| `Calm` | nothing is torn, skipped by a scan, emptied, or written under a run; runs stop only if there is one client | `TornWrite`, `SkippedEntry`, `ResetClient`, `EditUnderRun`, `TruncatedScan`, `StoppedRun` |
| `Alone` | one client | `StaleOverwrite` |
| `Foreseen` | nothing is torn or restored, and the hub is a share, or nothing is skipped or written under a run | `UnguardedDelete`, `RestoredBackup` |
| `Secluded` | one client, whose runs complete and overlap with nobody's writing; nothing is torn, restored or skipped | `FalseConflict` |
| `Paired` | at most two clients, whose runs complete, write, and overlap with nobody's writing; nobody writes on the hub; nothing is torn, restored or skipped | `ErasedTombstone`, `HubTombstone`, `DryTombstone`, `LostTombstone` |
| `Patient` | nobody replaces a file by another of its size within two seconds | `HastyEdit` |
| `Seen` | no scan skips an entry, and no source of a `sync` job is a share that can be missing | `SkippedSource`, `MissingShare` |
| `OneMachinePerClient` | two machines do not use the same `client_id` | `Locks` with `Client` the same for all, invariant `OverlapIsExplained` |
| `Guarded` | each job's filter excludes `**/name/**`, by its list, or by a rule which no later rule undoes | a filter without it lets the directory in; the jobs of `FileRuns` have it |

For `DeletesWanted` TLC finds violations without "unseen", "reset" and "midrun" of
`Calm`; that it needs the rest is not shown.

The assumptions on constants that the proofs use are the `ASSUME`s of the modules.
They say that model values are apart (`None` is no content, the empty sequence no
line, `**` no set of names), that sets the code holds in a map are finite, that a
sidecar's name is no note's, that the bounds are numbers, and that a file system
rounds times down by no more than the window (`TimeAssumption`).

*`SavedConverged`.*  `SavedMeansConverged` speaks of the moment after `Save`, and
is not inductive: that moment owes everything to the steps before.
`ReconcileInv` says what a run has established at each of them: a path still in
`todo` is on both replicas as it was scanned, every other path is the same on
both replicas *and* in the run's table, and the exception is the path that
`writeBoth` has half written.  `ConvergenceInv` is `TypeOK`, `ReconcileInv` and
`SavedMeansConverged`; it is inductive, with one step per action.  Its hard case
is the quarantine: the sidecar that is written is not the path being decided, and
the argument needs that the sidecar's name is new to the trees, the scans, the
ledger and the run, hence not in `todo`.  Paths that somebody touched, or that a scan did
not see, are exempt; without the exemption the claim is false (`EditUnderRun`).

*`BlobsSafe`.*  While a run is in progress every hash in its table that the saved
ledger does not name is in the store, because `record` stores the blob before it
makes the entry; the ledger's own hashes are there by induction and the
collection spares them.  That is `BlobInv`.

Two parts are shared by the proofs that follow, and proved once: `MadeInv` (the
content of every file, entry and tombstone consists of edits that were made, so a new
edit is in none of them) and `SeenInv` (nothing is touched under a run, and a path
still to decide is on both replicas as it was scanned).

*`EditsSurvive`, `DeletesWanted`, `OverwritesTell`.*  `NoLostEdit` alone is not
inductive: whether a step loses an edit depends on what the step knows of the other
replicas.  `EditInv` says where an edit that nobody gave up is: on a client, or on the
hub as something the ledger does not record yet, which makes the next run take it
along (`PlaceInv`).  Overwriting a hub version then costs no edit: what the ledger
records of a path is held by every client that received it, up to what was given up
(`ClientInv`), and a client is only made to replace or delete its copy by a version
that has all of it, or by a deletion somebody wanted (`TombInv`).  `Received` is where
the cursor enters: a client that has not run since an entry was made owes nothing to
it.  `WriteInv` and `AlignInv` follow a `writeBoth` from replica to replica.  While a
run writes, the table that describes the hub is the run's own and not the saved one
(`LedgerCounts`); a stop brings the saved one back, which one client survives, since
it holds what it pushed, and a second client does not, since it takes the difference
for a deliberate change.

*`GuardHolds`.*  The forecast counts paths with a ledger entry; `decide` also deletes
what a tombstone names.  The guard therefore rests on the hub never holding a version
whose deletion the ledger records (`StaleFree`).  That holds because whoever writes
makes a new version, even under a run: `ScanInv` says that a replica has a path as it
was scanned, or not at all, or with an edit that is in no entry and no tombstone.  A
file emptied by a torn write, one put back from a backup, and one that a scan of the
hub left out break it, while stops, dry runs, emptied clients, writing under a run and
whatever a scan of the client leaves out do not: a client's file that was not seen makes
the forecast larger and the removals with it.
`TableInv` adds that a path not yet decided has the entry the forecast saw.  For its
step the arithmetic of the ratio is needed only once: fewer removals are no larger
share (`FewerNotMass`).

*`ConflictsGenuine`.*  `SplitInv`: after a completed run of the only client each
replica has of a path what the ledger has, or nothing, or something with an edit that
neither the ledger nor the other side has.  So when both differ from the ledger, each
has what the other lacks.  A stop leaves a replica ahead of the ledger with the *other*
side's edit, which is what `FalseConflict` shows.

*`DeletionsStand`.*  `GraveInv`: the version last removed at a path is either on no
client, or named by the tombstone, with no entry left, and then missing from one
client at least, the one whose run removed it.  With two clients there is one holder,
whose next run uses the tombstone up.  The re-recorded tombstone no longer names the
version (`worktree.go:348`), but then nobody holds it; with a third client somebody may.

*`AtomicSave`.*  `StoreInv` says that what a `Load` would find is the last
commit: in the primary, or, between `Rotate` and `Commit`, in the backup; and the
backup is only removed while the primary is there.  Under `NoDamage` (no failed
read, no loss of power; stops, and errors of `Stat` and `Remove`, are allowed)
each step of `Save` but `Commit` leaves the register alone, and `Commit` replaces
it.  Without `NoDamage` the theorem is false: see `UnreadLedger` and `PowerLost`.

*`MachineExclusion`.*  `TypeOK` says that an active process holds its machine's
lock, which a function can only give to one.

*`OverlapExplained`.*  `LockInv`: until the lock is `exposed`, at most one process is
past its look at the lock file, and once it has written the file, the file is its own
and fresh.  So another client that looks finds it taken; another process of the same
client is on the same machine, and shut out there.  Whoever leaves (refused, failed,
killed) leaves the file of the one inside as it is.

*`NeverOlder`.*  Under damage and failed reads `StoreInv` is lost.  What remains,
`AgeInv`, is that the primary is never an old ledger, and that the backup is not one
either while the primary is missing: the run that moved the primary away has just
made it the backup.  So a commit, which turns the last ledger into its predecessor,
leaves no backup that is older.

*`ChunksCover`, `MergeGivesText`.*  `IInv` adds to the types that matched lines are
equal (`MatchInv`), that the result so far is a text whose last line is open only if
nothing is left to append (`JoinInv`), and that the texts are as the short cuts left
them (`EndInv`).  A chunk that ends in an open line ends its text; if the sides
disagree on it, `ensureNL` has closed it; if they agree, or one has not changed, the
chunk is the last, because an open line that is matched on both sides is the last of
all three.  `IsNextSync` leaves all or nothing, which the lemma
`SyncLeavesAllOrNothing` states.

*`AddedLinesKept`.*  `TallyInv` counts, for a line that the base does not have, how
often it was written: at least as often as it stands in either side up to its cursor,
and at most as often as in both together.  Each chunk that is cut keeps the count, and
counts add up over concatenation (`CountConcat`).  It says nothing of what is matched,
so it holds for texts that repeat lines.

*`MergeIsOfSets`, `ConflictsWhereDivergent`.*  These do depend on what the maps hold.
For texts that repeat no line and move none, the table of `matchIndex` counts the lines
that are shared from a cell on (`LCSLenIsRest`), so its walk steps over no shared line
(`WalkMisses`) and the maps hold every pair of equal lines (`WalkInv`).  The three cursors then move
abreast: a line is ahead of all of them or behind all of them (`SetInv`), so each chunk
contributes to the set of lines what `Merged` says.  For the conflicts each chunk is
the segment between two lines that all three texts share (`ChunkIsSegment`), and
`conflicts` is the number of such places behind the cursors where both sides changed
the base differently (`ConflictInv`).

*`PrunedSafe`, `CopiedSafe`.*  The invariant behind both is `Told`: if the two sides
of a path have the same size and a time within the window, they have the same
content.  It holds because a copy gets the time of its original, a partial one is
shorter, and people do not write hastily.  `RunInv` says what a run knows: the local
side is as it was scanned but for what the run pruned (`LocalInv`), the remote one as
it was scanned or as the run made it (`RemoteInv`), except for touched paths.
`PrunedIsOnRemote` then follows from the check before the removal, which looks at
the remote again, and `RunMeansCopied` from the last step of the run.

*`ConfirmedSafe`.*  `SettledInv`: what a completed run settled is on the remote, has the
size and time of the local file if that is there, and is there in a `sync` job.  So no
later run has a reason to copy it (a partial copy could spoil it) or to delete it.  A
run from a share that is missing has seen none of it, and then has nothing to copy; it
must not be a `sync` job, which is `Seen`.

*`LatestKept`.*  `LatestInv`: until something is touched under the run, the files of a
`keep_latest` rule fall into those that stay, which are enough and at least as new, and
those of `todo`; both are as they were scanned.  So when one of `todo` goes, the others
are still there.  No environment is excluded: touched files release the claim.

*`PrivateKeptOut`.*  A pattern matches a path if a table of cells says so at its first
cell; `MatchesWhole` is a recursive function.  For `**/name/**` the table is written
down (`PrivateTable`) and shown to satisfy the equations, which have one solution.  The
last rule that decides is at or after the one that excludes.  Everything a run copies
or deletes is in a list that went through the filter.

*`EveryJobTried`, `PagesSound`.*  `RunInv` accounts for every name of a run: it is
still to do, done or broken, and `failed` is what broke; a run that was refused the
lock has `_lock` there and nothing else.

*`ScheduleShared`.*  `ScheduleInv` follows an installation step by step: once a wrapper
is written it has the command line for the jobs that were read, and after a completed
installation, until what it installed changes, both wrappers are registered as well.

Only model-checked is liveness: `EventuallyInSync`, `LockIsRecovered`, `RunsEnd` and
`MergeEnds`.  It is out of the prover's reach, as is every statement with `ENABLED`.
What a recursive function computes is proved without the library's induction theorems,
whose operator parameters the provers cannot instantiate: a set of numbers that is not
empty has a least element (`LeastNatural`), applied to the arguments at which a claim
would fail.

## Findings

Where the code and what the repository says of it part.  The first one has a run and
an entry in `PROJECT.json` with the lines of both; most of the others are shown by the
[further settings](#further-settings) of the same name.

* `StaleOverwrite` - `decide` pushes whatever differs from the ledger while the hub
  still equals it, without asking whether this client ever received that version
  (`worktree.go:194`).  A client that has not pulled overwrites another's edit without
  a conflict, even if nobody touched its copy, where `README.md:79` says "nothing is
  lost".  The other client then pushes its version back in the same way: with two
  clients the hub need not settle, which is why `InSync` has one.
* `RestoredBackup` - the tombstone guard removes a hub file that has the content of a
  recorded deletion (`worktree.go:164`), and the forecast of the mass-delete guard
  counts ledger entries only (`worktree.go:455`).  Files that a person puts back from a
  backup are all removed again, whatever their number, where `README.md:83` says that
  such a run "aborts unless you pass `-allow-mass-delete`".
* `ErasedTombstone` - carrying out a tombstone re-records it without the version it
  stands for (`worktree.go:348`), and a third client brings the version back,
  where `worktree.go:153` says that it must not.
* `ResetClient` - an emptied client whose cursor is still on the hub has its empty
  tree read as deletions (`worktree.go:189`), where `README.md:161` says that it
  "safely re-pulls".
* `HungNotifier` - the notification command is awaited without a deadline while
  both locks are held (`worktree.go:531`), where `CHANGELOG.md:50` says that
  notifications never block a run.

Reconciliation

* `DryRunDeletes` - `deleteLocal` and `deleteRemote` do not look at `dryRun`
  (`worktree.go:331`); `README.md:85`: "without touching either replica".
* `TruncatedScan` - a file that vanishes between its listing and its hashing, or a
  dangling link, ends the scan of a directory without an error (`backend.go:145`), and
  all that comes later is taken for deleted; `backend.go:82`: "so one unreadable subtree
  cannot blind the whole diff".
* `SkippedEntry` - an entry a scan could not read (`backend.go:117`) is taken for a
  deletion; `README.md:350`: "excluded from the sync".
* `LostTombstone` - a stop between a removal (`worktree.go:339`) and `Save` leaves no
  tombstone; ADR-001, line 75: "never resurrect".
* `UnguardedDelete` - removals by the tombstone guard (`worktree.go:161`) are not in
  the forecast (`worktree.go:455`).
* `FalseConflict` - after a push that was not saved, the next edit is reported as a
  conflict although it descends from the hub's version.
* `EditUnderRun` - an edit saved between scan and copy is overwritten
  (`worktree.go:267`).
* `TornWrite` - a write cut short (`backend.go:160`) leaves an emptied file, which is
  then propagated as an edit.
* `SpoiledBlob` - a truncated blob is kept (`ledger.go:193`) and used as a merge base.

Ledger file and locks

* `UnreadLedger` - any failed read of the primary, a timeout too, falls back to the
  older backup (`ledger.go:108`), and a generation is saved twice.
* `UnreadBackup` - after a stopped save, a failed read of the backup yields an empty
  ledger (`ledger.go:119`).
* `PowerLost` - nothing is synced before it is renamed into place (`ledger.go:168`).
* `TwoHolders` - reading and writing the lock file are two operations
  (`ledger.go:271`), and two clients can both find it free.
* `SlowHolder` - nothing renews the stamp of a lock, and a run of more than 30 minutes
  (`worktree.go:52`) shares the hub with the one that takes it over.

File jobs

* `EditBeforePrune` - `retained_copy` compares the remote with the *scanned* local file
  (`runner.go:359`), and removes one that was edited since; `README.md:38`: "only
  after remote confirmation".
* `SkippedSource` - a `sync` job deletes on the remote what its scan of the source
  skipped.
* `MissingShare` - a source on a share that lacks the path is listed as empty
  (`backend.go:262`), and a `sync` job empties the remote; `runner.go:249`: "missing
  source root fails the run instead of masquerading as" an empty one.
* `HastyEdit` - a file that is replaced by another of the same size within two seconds
  of the copied one is not copied.

Invocation, found by reading the code for the model and not shown by a run

* `main` reads the `[gate]` of the runtime file and never that of the jobs file
  (`Config.Gate`); `CHANGELOG.md:86` names it first.
* A profile run over a configuration that has only worktree jobs falls through
  `main.go:152` and runs them; `README.md:375`: "every non-worktree job".
* `gate.Notify` cancels its context when it returns (`gate.go:109`), which may end the
  notification command before it has done its work.
* `CHANGELOG.md:38` says that interactive skips notify; a run with `reason=manual` is
  never skipped.
* A lock file that cannot be opened is recorded as `_lock`, like a bounce, and is never
  paged.
* `InstallJobs` schedules the first worktree job only, leaves the wrapper of a worktree
  job that is no longer configured in place, and does not come to the bulk wrapper when
  the first registration fails.  `SchedulesCoverJobs` therefore speaks of
  configurations with one worktree job and of installations that ended well.

## What is not modelled

* Two worktree runs at once.  `HubLock` shows that it can happen; what it does to the
  ledger and the blobs would need `Worktree` with the memory of two runs.
* `writeConflictsReport`: its files are ignored by the scans and no decision reads
  them.
* The hub's root missing under a worktree job.  The ledger is missing with it, so the run
  is a first one; a client on a share whose root is missing looks like an emptied one
  (`"reset"`).
* File modes, times and sizes, which no decision of a worktree job reads.
  Directories: they are created as needed and an emptied one is left or removed
  without effect on files.
* Directories and dry runs of the file jobs.  A dry run of theirs logs and changes
  nothing; a directory is created and never removed.
* The syntax of the configuration and the flags, targets and credentials, how a path is
  mapped, the SMB session, the Termux commands themselves, testbench and CI: parsing,
  scripts and calls of external programs.
* Character classes and escapes in globs: a pattern stands for a set of names.
* SHA-256 and JSON: contents with equal hashes are equal, a file decodes or does
  not.

## Plan

Done, in this order: `Worktree` (the behaviour everything else serves), its
properties and proofs; `AtomicLedger` and `LedgerStore` with the refinement;
`HubLock`; `Merge`; `Filter` and `FileJobs`; `Invocation`; the proofs of each, until
every safety property of a run was a theorem.

Next:

1. `OverlappingRuns`: two runs of `Worktree`'s steps at once, started under
   `HubLock`'s rules.  Properties: blobs of a saved ledger survive the other run's
   collection; the later `Save` does not drop what the earlier one recorded; a
   release does not free somebody else's lock.
2. An abstract one-way job ("a local file is deleted only if the remote holds its
   content") that `FileJobs` implements, and an abstract two-way store (a set of edits
   that only a deletion shrinks) that `Worktree` implements under `Calm`, each with the
   refinement proved.
3. Proofs: `BlobsIntact` without torn writes, and `NoUnwantedDelete` where runs stop
   and there is a second client, which TLC does not refute and `EditInv` does not cover.
