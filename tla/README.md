# repo-harness: a verification project

TLA+ models of the parts of repo-harness whose correctness rests on the order of
steps: file-system protocols, durable logs and the writes built on them, supervised
processes and a merge on a remote provider. TLC checks the modules on small
instances; TLAPS proves the lock, the evidence log, the operator write, the checkpoint
store, the supervised run, the merge executor, the file-system transaction and the
verification execution for every instance.
Paths are relative to the repository (`src/` here is the repository root, so
`src/src/effects/...` is its `src/effects/...`).

## 1. The system

repo-harness is a command line tool, a set of agent hooks and a local console
server that run side by side in one repository: many short-lived processes and a
few long-lived ones, on one machine, which share state through files. There is no
daemon that serialises them. Each process is a single event loop; the file
effects are synchronous calls.

| Component | State it keeps | Operations | Interacts with | Hard behaviour | What makes it correct |
|---|---|---|---|---|---|
| Exclusive directory lock (`effects/locking`) | a directory with one owner file | acquire, assertOwned, release, reclaim of a dead owner or an empty directory | every store below; the process table | processes overtake each other between calls and die; process ids and inodes are reused | one holder; its token stays; only a dead owner loses the lock; acquisitions end |
| Evidence log (`effects/evidence/event-log.ts`, `core/evidence/fold.ts`) | an append-only file, quarantine files | genesis, append, read, repair of a corrupt tail | the lock; verification, checkpoints | unlocked readers, torn lines, failed flushes, power loss | acknowledged records stay accepted; repairs cut debris only |
| Operator write (`effects/operator/write-run.ts`, `write-audit.ts`) | audit log, target locks, `activeTargets` | run a write once per request id, replay its answer | two locks; the action | crash between intent, action and result; retries; event-loop and process concurrency | at most once; durable intent first; answers are true |
| Expensive run lock, process supervisor (`effects/expensive-run-lock.ts`, `process-supervisor.ts`, `process-group-*.ts`, `process-runner.ts`) | owner record with a process group, start barrier, receipt | acquire, register, start, terminate, release or keep, report | the lock (`canReclaimStaleOwner`); the launcher over a pipe; the caller over the receipt | dead holder with a live group; in-place rewrite; group ids reused | no two expensive commands at once; what the caller is told is true; the lane is recovered |
| Checkpoint store (`effects/evidence/checkpoint-store.ts`, `checkpoint-snapshot.ts`) | checkpoint directories, marker | publish, prune, resolve | its lock; the evidence log | collection under an unlocked reader; crash or power loss between rename, flush, marker and collection | the marker names a complete checkpoint and never goes back; a durable copy stays |
| Publication merge executor (`effects/publication/merge-executor.ts`) | none; the pull request at the provider | prepare, send once, read back, prove | GitHub | lost or late answers, lagging reads, others at the same pull request | "merged" and "refused" are true; the readback ends |
| Attempt ledger | append-only receipts | append, read, repair | the lock | torn tail | as for the evidence log |
| Segmented log | active segment, archive | append, rotate, retain, read | the lock | unlocked writers against rename | no row lost by rotation |
| Verification execution (`effects/evidence/verification-execution.ts`) | execution events in the evidence log | look up, run, record, report | a lock per request, the evidence log | two callers of one request; the tree or the admission changes meanwhile | a pass is proved by the ledger; what has passed is not run again |
| Task inbox | immutable events, receipts | send, deliver, acknowledge | files only | link races, redelivery | one event per id; nothing acknowledged is lost |
| File-system transaction (`effects/fs-transaction.ts`) | manifest, backups | preflight, apply, roll back | the lock of each target; git index | failure or death in the middle, other writers | no content is lost; a rollback that succeeds leaves what was found |
| Document session finalization | session state, request ids | audited steps, resume | operator write | crash on either side of a step | no step twice |
| Task session, runtime closeout | session records | admit, start, stop, close | terminal host | foreign process state | records agree with the host |
| Worktree trash and cleanup | intents, trash directories | prepare, rename, delete | git | resume after a crash | only the approved tree is deleted |
| Workflow state resolution | git state version store | collect, resolve | git, files | stale inputs | a projection of its inputs |
| Hook circuit breaker, feedback store, draft publication | small files | update, append | the lock, GitHub | replacement by rename | counters and receipts are not lost |
| CLI, MCP, operator web | none | transport and rendering | all of the above | none of their own | out of scope |

Every hazard of this list that a test would hardly reach is in `PROJECT.json`
(`hazards`), at its line, with the properties that cover it.

## 2. Plan

The order is that of dependence: everything else assumes that the lock is a lock.

| Step | Modules | Abstract specification | Status |
|---|---|---|---|
| 1 | `ExclusiveDirectoryLock` | `LockService`, refined | modelled, checked, proved |
| 2 | `EvidenceFold`, `EvidenceLog` (uses `LockService`) | accepted set by definition | modelled, checked, proved |
| 3 | `OperatorWrite` (relies on `LockService`) | at most once per request | modelled, checked, proved |
| 4 | `CheckpointStore` (uses `LockService`): publish, retention, unlocked reader | | modelled, checked, proved |
| 5 | `SupervisedRun` (uses `LockService` for the lane) | a command runs only under the lane | modelled, checked, proved |
| 6 | `MergeExecutor`: one request, lagging and lossy provider, readback window | what an exit code says is true | modelled, checked, proved |
| 7 | `FsTransaction` | nothing lost; a rollback is a rollback | modelled, checked, proved |
| 8 | `VerificationExecution` (relies on the lock and the evidence log) | a pass rests on the ledger | modelled, checked, proved |

How the modules hang together. `ExclusiveDirectoryLock` implements `LockService`
(TLC and TLAPS). `EvidenceLog`, `CheckpointStore` and `SupervisedRun` instantiate
`LockService`; `OperatorWrite`, `FsTransaction` and `VerificationExecution` hold a lock
per target or request and take from it what `LockService` promises: one holder, and
a lock that outlives its holder only until it is reclaimed. `VerificationExecution`
takes from `EvidenceLog` that an append that has returned is seen by every later read.
What is left to TLC, and why, is at the end of section 5; what is not modelled, and why,
is section 8.

## 3. Modules

### LockService and ExclusiveDirectoryLock

`LockService` is the lock its callers are promised: `owner` is one process or
nobody; `Acquire`, `Release`, and `ReclaimFromDead` after the owner's exit.

`ExclusiveDirectoryLock` is `exclusive-directory-lock.ts` call by call. `dir` is
the inode at the lock path, `entries` the owner files in it. Each process has a
program counter `pc` that names its next file-system call:

- `publishOwner`: `LookUp`/`LookUpFails` (existsSync), `MakeDirectory`/`DirectoryExists`/
  `MakeDirectoryFails` (`stageOwnerRecord` and mkdir), `StatDirectory`/`StatFails` (lstat),
  `LinkOwner`/`LinkFails` (link), `VerifyOwned`/`VerifyLost` (`ownsExclusiveToken`);
- the handle: `AssertOwned`/`AssertLost`/`AssertFails`, `Release`;
- `removeOwnedLock` and `removeUnpublishedLock`: `UnlinkOwner`/`UnlinkSkipped`,
  `Recheck`/`RecheckFails`, `RemoveDirectory`/`RemoveDirectoryFails`; `purpose` says who
  called them and so where they return to;
- `reclaimStaleLockDirectory`: `Observe`, `ListEmpty`/`ListOwner`, `Restat`, `Relist`,
  `Judge`, `Rejudge`, `UnlinkDead`, `Reclaim`, and a failing twin of each;
- `awaitLockRelease`: `Await`, `AwaitFails`, `SleepAndRetry`, `GiveUp`.

A call may fail because of the state of the lock (link finds the directory gone, rmdir
finds an entry) or for a reason from outside: an I/O or permission error, an ancestor
directory that was replaced, a process table in which the process cannot find its own
start time. `Fails` and `FailsFromOutside` are the two; `failed` remembers the processes
to which the second has happened, and `MayFail` bounds them. What follows is what the
code does with the exception: it leaves `acquire` from before the handle is made
(`outcome` becomes `error`, a directory that was made and not linked into may stay), it
is swallowed by the two removals and by the reclaim, or it makes the ownership check
answer false.

`Start` and `Exit` are the operating system's: a process id is free again once its
process has died, so `PidOf` need not be injective. `Verdicts` is what
`ownerLiveness` may say: a table that cannot be read and an answer cached for one
second can only delay (`VerdictMayLag`).

Abstractions. A token is its process and a number; a number that is in no directory and
that no reclaimer remembers stands for a new token, so nothing bounds how often a process
publishes. The owner's record is fixed once linked, so reading and judging it is one step.
`ownsExclusiveToken` is one step because the directory that holds a linked token
of a live process cannot be replaced between its calls (`TokenPinsDirectory` in the
proofs). Comparisons with the clock go either way, which includes every timing.
The staged temporary file is private and is left out. A replaced ancestor directory is a
call that fails: the code compares identities before each step and throws. Not modelled:
the errors of `prepareLockLocation`, before anything is done, and of closing a descriptor;
records without a start time (never reclaimed), `reclaimStaleOwner: false` (a subset of the
behaviours), power loss. `canReclaimStaleOwner` is in `SupervisedRun`, its one user.

### EvidenceFold and EvidenceLog

`EvidenceFold` holds the pure part: which lines are accepted (`findCorruptTail`) and
the fold of accepted events. `EvidenceLog` adds the file: `log` is what processes
see, `disk` what a flush has made permanent, `files` the quarantine files. A line is
written in two steps, so that a reader, a failed write or a crash can meet half of
it. `acked` holds the records whose append has returned. The log lock is an instance
of `LockService`, and an operation may also be refused the lock while nobody owns it
(the directory is being made or was left over).

The code and the actions: `withLogLock` is `Lock`, `LockTimesOut` and the
`LogLock!Release` of every exit; `appendGenesisRecordLocked` is `AppendGenesis`,
`GenesisPresent`, `AppendRefused`; `appendEvidenceEvent` is `AppendEvent`,
`AppendRefused`; `appendLineDurably` is `StartLine`, `FinishLine`, `SyncLine`,
`AppendFails`, `AppendReturns`; `readAcceptedEvents` is `Read`, `ObservationRejected`,
`ReadReturns`; `repairCorruptTail` and `quarantineEvidenceTail` are `Reread`,
`CreateQuarantine`, `SyncQuarantine`, `Truncate`, `SyncLog`, `RepairFails`.

A power loss keeps every flushed line and, of what was not flushed, any prefix, the
last line perhaps torn; of a truncation that was not flushed it keeps the old or the
new content. Assumed: a successful flush covers every earlier write of the file,
and the log's directory entry follows its first flush (the code never flushes it).
Left out: quarantine names that collide within a millisecond (the exclusive create
fails, which `RepairFails` covers), and the content of records.

### OperatorWrite

One call is one run of `runOperatorWrite`; several share a process and its
`activeTargets`. The target lock and the audit lock are used through what
`LockService` promises, with take-over from dead processes (`ReclaimTarget`,
`ReclaimAudit`). The audit log is a sequence of records of which `flushed` are on
disk; `entry` is its directory entry. `EntryFollows` says whether the file system
makes the entry of a new file permanent when the file is flushed. A record is
written by `WriteIntent`/`WriteResult`, or short by `ShortWrite` and cut off again by
`CutOff`, unless the process dies in between; then `FlushIntent`/`FlushResult`, and
`SyncEntry` by the call that made the log. The action is one change that a call
makes (`ActionApplies`) or refuses, or an exception on either side of the change.
`assertOwned` cannot fail for a live owner, which is what `LockService` promises.
Not modelled: a child process of the action that outlives its server.

### CheckpointStore

The Stop hook of every session runs `publishCheckpointFromLedger`; maintenance runs
`pruneCheckpointCache`; both hold the publication lock, an instance of `LockService`.
Readers (`resolveLastPublishedCheckpoint` through `readCheckpointSnapshot`) hold none.
`files` and `marker` are what processes see, `diskFiles` and `diskMarker` what has
been flushed. A checkpoint is addressed by its content, so an id is a number of
`ledger`, the accepted set, in the order in which the log took them on. Nobody who folds
the log takes its lock, so the set may include events whose append has not flushed them
yet: `LedgerGrows` adds to it and `LedgerFlushed` makes what there is last (`flushed`). A power
loss may take unflushed sets back (`lost`); what is accepted later is a new set (`issued`
counts them), and a checkpoint that was folded from a lost one stays where it is. `Held(id)`
is what the checkpoint covers of what the ledger still has.

- Publication: `Lock`, `Fold` (read the log, build the projection, test for a complete
  directory), `RemoveIncomplete`, `Rename`, `Persist`, `WriteMarker`, `PersistMarker`,
  `Collect` (one unlink of any older or newer checkpoint), `CollectDone`.
- Maintenance: `Lock`, `Resolve` or `NothingToPrune`, then as above from `Persist`; its
  target is the marker's own, so `AlreadyCurrent` passes over `WriteMarker`.
- A call that throws is `Fail` or `LockTimesOut`. `CollectDone` may come before all is
  collected: entries that resist are skipped.
- Reading: `OpenMarker`, `OpenMachine`, `OpenHuman`, and on a missing file the marker
  again: `ReadAgain` if it has been replaced, twice at most, then `ChangedRepeatedly`;
  `ReadFails` if it has not.

`PowerLoss` leaves each unflushed creation or unlink of a file done or undone, and of
a marker that was renamed and not flushed the old one, the new one, or the name
without its bytes (`Malformed`: `writeMarker` renames a file that it has not flushed).
A file whose bytes do not validate counts as missing. Left out: publications whose
bytes fail validation, which change nothing; the staging directory, private to its
process; unexpected children of a checkpoint directory, which collection skips.

### SupervisedRun

One expensive command from `supervise` to what `runSupervisedProcess` returns. `phase`
is the next step of each supervisor; the lane is `LockService`, where a dead owner
loses it only by `ReclaimLane`, with the consent of `canReclaimStaleOwner`
(`ProvenDrained`). The code and the actions: `acquireExpensiveRunLock` is `AcquireLane`
and `LaneRefused`; the spawn of the launcher is `Spawn`, `SpawnWithoutBarrier`,
`NotSpawned`, `DeadlinePassed`; `registerProcessGroup` is `Register` (the record is
empty) and `Rewrite` (it names the group); `publishResult` is `PublishGroup`,
`PublishReceipt`, `Report`, each of which may fail or be killed with the file cut short
(`NotPublished`, `KilledWritingReceipt`); the barrier is `OpenBarrier`, the launcher's
side of it `LaunchTarget`; a failure before it is `Abort` and `KillLauncher`. Then
`Completed`, `Interrupted`, `Terminated`, `CleanupThrows` and `Swept` follow the group
until it is gone or cannot be proved so, and `ReleaseLane`, `KeepLane` and
`ReleaseThrows` are the `finally` of `supervise`. `ReturnCompleted` and `ReturnFailed`
are the caller's reading of the receipt and of the exit. The supervisor can be killed
at any step; a group can outlive it; the id of a group that has gone can be given to a
stranger (`IdReused`), which every probe takes for the group itself.

Left out: Windows, where a group cannot be proved drained; captured output; runs
without the lane; `process-group-registry.ts`.

### MergeExecutor

`executePublicationMerge` call by call. Each run reads (`ReadTarget`, `CheckBatch`,
`ReadPolicy`, `CheckProtection`, `AssessReadiness`, `RereadTarget`) and any of these may
refuse (`Refuse`); `SendMerge` sends the one request; `NoAnswer`, `AnswerMerged` and
`AnswerErrors` are what may come back; `ReadBackOpen`, `ReadBackMerged` and
`ReadBackUnclear` are the read after an error; `ProveMerged`, `Proven`,
`Contradicted`, `ReadBackAgain` and `WindowOver` are the bounded proof. `exit` is the
exit code (0 merged, 3 and 4 refused, 5 unknown, 6 rejected).

The provider is external: it applies or rejects a request that is in flight, at any
time, whether or not the answer arrives; it pins the head of the request and, if the
protection is strict, its base; its read model (`shown`) catches up when it likes.
Others push to the head, move the base, close, reopen, merge, or relax the protection
between any two steps. One assumption is the provider's: an answer, an error too, comes
once the request has been settled. Which blockers `merge-readiness.ts` lists is left
out: readiness is a verdict over what the read model shows, and may refuse.

### FsTransaction

Runs of `applyAdoptionPlan` (and later `rollbackAdoptionTransaction`) over one working
tree. A path holds a content, a directory or nothing. `Preflight` tests every operation
before the first is applied; `MakeDirectory` (with the directories around it),
`DecideUnlocked`, `CheckRemove`, `RenameAway`, `Untrack`, `Skip` and `Fail` apply them. A
write is as many steps as `writeFileUnderTargetLock` makes calls, since a removal, a put-back
and a user's editor take no lock and may come between any two: `LockAndDecide`, `Look`
(existsSync), `BackUp`, `Replace` (the rename) and `Finish`. `SaveManifest` writes the manifest
and, after a failure, begins the rollback; `RollbackCommand` begins it later.
`NothingToUndo`, `UndoFails`, `RemoveDirectory`, `LockAndCheck`, `Restore`, `FinishRestore`,
`CheckPutBack`, `PutBack` and `RestoreIndex` undo one operation each, in the order of
`RollbackRank`: the files in the reverse of the plan, the index after them.

A run may be killed between any two steps. Its lock may then be taken over, but the lock
directory, and perhaps the temporary file, stay beside the file until somebody does; so they
do when the release of the lock fails. A directory that holds them is not empty:
`rollbackMkdirOperation` reports it as skipped. `littered` are the directories in which
something may have been left. Another writer replaces a file
(`EditFile`) at any time: a user's editor takes no lock, and `atomicWriteFile` does, which is
why the decision is taken again under the lock (`MayWrite`). `raced` are the paths at which a
file came without the lock in the way of a writer: an edit or a put-back while a run is
between its decision and its rename, or a put-back over a file that came after its check.
`PlanAssumption` says what a plan is: a directory is
made before anything that is made or written inside it, unless it was found (the order in
which `planStandardAdoption` lists its operations), and files are written where nothing is
inside. The order of the rollback rests on it.

Left out: `move`, which no planner of the repository emits; symbolic links and paths
outside; dry runs; the names of backups, which are taken as unique; power loss.

### VerificationExecution

Calls of `executePrepared`, each against the snapshot and the admission it was prepared
with. `pending` are the places in the plan that a call has yet to decide; `FirstOf` takes
the next, preflight checks first (`Rank`). For each check: `Reuse` a current pass, `NeedsPlan`
for an expensive check that has been run before in another state, `NotRun` after a
failed preflight, else `MustExecute`; `executeCheck` is `LockRequest` or `RequestBusy`,
`ReuseUnderLock` (the second lookup), `StartCommand`, `CommandEnds` (passed, failed, or
the tree changed), `AppendExecution` or `AppendThrows`. `Report` takes the status from
the results and from a last look at the snapshot and the admission. Meanwhile the tree
is edited (`Edit`), the admission replaced (`Readmit`), calls die (`CallDies`).
`Matching` and `Reusable` are `currentResult` and `reusableResult` over the ledger.

Left out: `baseline_with_delta` checks, damaged run records, toolchain and environment
(one of each), and the validation of materialized reports, which is a pure function.

## 4. Runs

| Run | Instance | Shows |
|---|---|---|
| `lock_default` | 3 process instances, two share a reused pid; 1 inode, used again and again; any number of publications over 3 token numbers each; the calls of one may fail; fair | the default lock: failures only by timeout and no token left by a live process, but for processes whose own calls have failed; acquisitions end unless others make the directory again and again; a dead owner's token goes |
| `lock_reclaim_empty` | 3 processes with ids of their own, 2 inodes, 1 token number each, the calls of one may fail, `reclaimStaleEmptyDirectory`, verdicts may lag | one holder, tokens unlinked only by their owner or after its death, and the refinement of `LockService`, although processes remove each other's directories |
| `lock_loser_retry` (violation) | as `lock_reclaim_empty`, no call fails | finding 1 |
| `lock_fresh_directory` (violation) | as `lock_reclaim_empty`, no call fails | finding 2 |
| `evidence_repair` | 3 process instances, one reused pid, 2 epochs, 2 keys, 1 event besides the genesis; starts empty, torn in the genesis, torn behind it, with a corrupt record in the middle, or with any history of up to 5 events over 2 keys with supersession | durability and repair; the fold against its definition |
| `operator_write` | 2 calls of a server, 1 of a later process; 2 request ids, 2 bindings with targets of their own | at most once, durable intent, one actor per target, true answers |
| `operator_unsynced_entry` (violation) | as `operator_write`, `EntryFollows` false | finding 3 |
| `checkpoint` | 2 process instances, 3 accepted sets, those a power loss takes included, deaths and failures | what is published stays covered; readers survive collection; the marker never moves to less than is left; a publication covers what was accepted when it was called |
| `supervised_run` | 2 supervisors, one lane; fair | commands never overlap; callers are told the truth; a dead owner's lane is recovered |
| `merge_executor` | 2 runs, 2 tips of the base, 2 heads, 2 readbacks; fair | exit codes are true; a run that has sent its request ends |
| `fs_transaction` | 2 runs of 3 operations that meet at one file, 4 paths, 1 edit from outside; locks left behind | nothing is lost but where a path was raced; a rollback that succeeds puts back what was found but where a lock was left |
| `verification_execution` | 2 calls, a preflight and an expensive check, 2 trees, 2 admissions, 2 changes, 4 ledgers to start from | a pass is proved; what has passed is not run again |

Why these bounds are enough for what they are to show. Three lock processes are a
paused creator, a reclaimer and a new creator, the smallest set in which one can
lose to two others; two inodes let an identity be reused (the third directory must
repeat one), and one, in `lock_default`, makes every new directory look like the last. There
are token numbers enough for a process to publish while one old token of its own is in the
directory and another is remembered by a reclaimer; with one number it waits until its old
token is forgotten, which is why the larger set is used where liveness is checked. The calls of one
process may fail: it meets two others whose calls do not, and the proofs let all fail. In
`evidence_repair` a writer, a repairer and a third process that arrives after a
death cover every overlap of two operations, and one event more than the log starts
with is enough to be lost, duplicated or torn; five events with two keys let a
superseding event be a duplicate itself and be superseded in turn. In `operator_write`
two calls interleave in one event loop and the third arrives from another process,
before or after a crash. In `checkpoint` a reader meets one publisher, or two publishers
meet each other, or one follows the death of the other, on leftovers of any kind; from a
marker that a power loss has taken, three sets replace it three times, which is what uses
up a reader's attempts, and of three sets a power loss can take a published one and leave
one before and one after it. Two supervisors are one that died with its group
alive and one that wants the lane. Two merge runs meet each other's merge besides
those of other people, and two readbacks are one that is repeated and one that is the
last. Two transactions meet at one file, as a write and a removal of it, with an edit
on either side; one of them also makes a directory with a file in it, which a rollback must remove
after that file, and one finds a file up to date, which it skips. Two calls
of one request meet at every step, and the four ledgers hold nothing, a pass, a pass
that a forced failure overtook, and all passes. The bounds are `TokenIds`, `MayFail`, `MaxEvents`,
`MCLongest`, `MaxLedger` (which counts sets that a power loss takes back too), `MaxAttempts`, `MaxEdits`, `Edits` (one edit per path) and the
sizes of the sets; nothing else is cut off. Deadlock is not checked: in every model all
work may be done, or every process may have died. `operator_write` and `checkpoint` use symmetry,
which is sound as they check invariants and action properties and no liveness.

Every property of a passing run has a mutant in `PROJECT.json`: a plausible bug of
the mapped code, stated just above the operator it changes, under which the run
finds the property violated.

### Fairness

Three specifications assume any.

- The lock (`Fairness`, in `lock_default`). `WF` of a process' own publish, remove and
  wait steps: between two calls the code is synchronous, so a live process that is not
  holding the lock keeps running. `SF` of `GiveUp`: the clock advances, so a process
  that reaches the deadline test again and again finds it passed. Nothing is assumed of
  how long a holder keeps the lock, nor that anyone starts, exits or asks. The run
  takes verdicts at face value (`VerdictMayLag` false), because a process table that
  stays unreadable keeps a dead owner's lock, by design. A
  waiter that finds the directory gone, or has reclaimed it, goes round again without
  looking at the deadline, so `AcquisitionEnds` has a way out: others make the lock
  directory again and again. Without it the property does not hold. The run checks the
  default lock; with `reclaimStaleEmptyDirectory` it would need the 30 s of the clock.
- The supervised run (`SupervisorFairness`). Groups end, a stranger's too, and `SF` of
  `ReclaimLane`: somebody keeps asking for the lane, also in the moments in which no
  stranger has the group's id. Nothing is assumed of the supervisors themselves: they
  may stop at any step, and `LaneRecovers` speaks of those that are dead.
- The merge (`MergeFairness`). `WF` of what a run does once it has sent its request:
  every call it makes has a time limit. Nothing is assumed of the provider: its read
  model need never catch up.

## 5. Proofs

`ExclusiveDirectoryLockProofs` proves, for any processes, process ids, inodes, token
numbers and failing calls, and either value of `ReclaimEmpty` and `VerdictMayLag`, from
`LockAssumption` alone:

- `TypeCorrect`: `Spec => []TypeOK`;
- `MutualExclusionHolds`: `Spec => []MutualExclusion`;
- `HolderStaysPublishedHolds`: `Spec => []HolderStaysPublished`;
- `UnlinkSafe`: `Spec => UnlinkedByOwnerOrAfterDeath`;
- `Refinement`: `Spec => ImplementsService`, the whole of `LockService!Spec`.

Mutual exclusion is not inductive: nothing in it says why a second process cannot
pass its ownership check. The invariant `Inv` adds what does. A token that a process
has linked and not unlinked stays in `entries` (`LinkedTokenPresent`), so the
directory is not empty and rmdir, which is all anyone can do to it, fails; hence the
directory a handle was made in is still the one at the path (`HandleDirectory`), and
a second process sees an entry that is not its own (`SingleOwner`). The remaining
threat is the reclaimer, which unlinks a token it has judged before: a token it is
about to unlink belongs to a process that is dead (`CondemnedIsDead`), death is final,
and a verdict of death is right even when the process id has been reused
(`DeadVerdict`). `ObservedIsToken` and `TokensOfStarted` keep the bookkeeping honest:
what was observed was once linked, by a process that had started. `InitInv` and
`NextInv` show `Inv` inductive, one step per action; the theorems follow. The
refinement maps `owner` to the process that has a handle and a linked token; most
steps stutter, `VerifyOwned` is `Acquire`, `UnlinkOwner` of a releasing process is
`Release`, and so is `UnlinkSkipped` when the unlink fails (the process has no handle any
more, although its token keeps the lock closed), and `UnlinkDead` of the token of a holder that died is `ReclaimFromDead`.

The same module proves what the default lock adds: `OnlyTimesOut` (`Spec => []DefaultOnlyTimesOut`) and
`LeavesNoToken` (`Spec => []DefaultLeavesNoToken`), both of processes none of whose own calls
has failed for a reason from outside. `DefaultInv` is relative to `Inv`: without
empty-directory reclaim only the process that made or emptied a directory may remove it, so
at most one process has an empty directory in custody (`CustodyOfOne`), what it stats, links
into and removes is its own, and whatever entry there is belongs to one process that
published it and has not unlinked it, or whose calls have failed (`OnlyEntryIsPublished`).
So a failing call harms its own process alone: the others find a closed lock at worst
(`NobodyLoses`).

`SupervisedRunProofs` proves, from `SupervisorAssumption`, `SupervisorTypeCorrect`,
`RunningHoldsLaneHolds` and `CallersAreTold`. That a running command has the lane is not
inductive: it says nothing of a launcher that has yet to become a command. `SupervisorInv`
follows a group from its registration: the barrier opens only for a group that the
record names (`PhaseFacts`, `StartedFacts`), such a group keeps the lane until it is gone,
because release and reclaim both ask for that, and a group that is gone does not come
back (a stranger is not a launcher). `ReceiptFacts` relate the receipts to the group: one
that says completed was written when the group was gone, one that names no group when no
barrier had been opened; a torn one belongs to a supervisor that was killed or that failed.

`MergeExecutorProofs` proves, from `MergeAssumption`, `MergeTypeCorrect`,
`MergesAreAsAskedHolds` and `RejectionIsTrueHolds`, for any runs, commits and number of
readbacks. `MergeInv` adds to the properties that the read model shows a merge only as it
was made (`ReadModelBehind`), that a run which has not sent has no request anywhere, one
past the protection check has seen it strict, and one that reads back has a request that the
provider has settled (`StepFacts`), and that a request in flight stays so marked
(`RequestFacts`). `RejectionIsTrue` rests on the third: if the read model is up to date and
shows the pull request open, a settled request can only have been rejected.

`EvidenceLogProofs` proves, from `EvidenceAssumption`, every property of the evidence log
that the run checks: `AckedNeverLostHolds`, `ReadsSeeAckedHolds`, `RepairSparesWritersHolds`,
`PrefixOnlyGrowsHolds`, `FlushedNeverVanishesHolds`, `EvidenceTypeCorrect`, and
`OneGenesisFirstHolds`, which assumes it of the logs that earlier runs have left
(`InitialLogsHeaded`). An acknowledged record is not lost because of where it is: in a
prefix of parsed lines that the log and its flushed content share (`AckedFact`). Nothing
breaks that prefix: an append writes behind a clean log under the lock (`WriterFact`), a
repair cuts behind the first corrupt line of a log that has not changed since it was read
under the lock (`ReaderFact`), and `SurvivorsKeep` shows that a power loss leaves what the
two contents share. `FlushInv` adds where every flushed line is, in the log at its place or
in a flushed quarantine file, also when a repair has truncated and the flush of the log has
failed; `TornInv` that a half line is the last of its log; `HeadInv` that the first parsed
line, and no other, is a genesis record, counting the one being written.
`FoldIsByDefinitionHolds` is about data, not steps: `Recursion` shows that a loop has a value
before each of its steps, `FilterPicks` and `DedupedPicks` that the values of the two loops
of the fold pick certain places of the sequence in their order (`Picks`), and `PicksOfPicks`
composes them. The induction is over sets of numbers (`UpTo`, from the least number that is
not in the set), since a schema over predicates cannot be instantiated here; so `Filter` and
`Deduped` are recursive functions and not folds with a `LAMBDA`.

`OperatorWriteProofs` proves `OperatorTypeCorrect` and `OneActsHolds` from
`OperatorAssumption`, and, assuming `EntryFollows` as well, `IntentOnDiskHolds`,
`AtMostOnceHolds` and `AnswersAreTrueHolds`, for any calls,
processes, requests and bindings. `LockInv` says that a call at work has its target lock
and, where it touches the log, the audit lock. `WriteInv` follows an intent: in the log
from its append, in the flushed part from its flush, in a log that stays from the moment
its directory entry is flushed, and no request ever has two. `EntryFollows` (the flush of
a new file makes its directory entry permanent) is needed: without it
`operator_unsynced_entry` shows an action whose intent a power loss takes away.
`AnswerInv` adds that a result is so for good once it is recorded or answered
(`SoForGood`): the intent of its request stays, so no later call can begin a run of it
(`Keeps`), the run that recorded it has nothing left to change, and no other run of the
request has begun (`OwnOutcome`). `OneIntent` makes the answers of two calls agree in the
binding too. A power loss may cut the record of a result but never changes what a record
says (`PowerLossRemains`). `ReplayOfRecords` reads an answer off the log: the first result
of a request is one of its results (`FirstIsOne`, from the well-foundedness of the natural
numbers).

`CheckpointStoreProofs` proves, from `CheckpointAssumption`, `CheckpointTypeCorrect`,
`PublishedSurvivesHolds`, `PublicationCoversHolds`, `ReadsFollowMarkerHolds` and
`MarkerNeverGoesBackHolds`, for any processes and any ledger. To compare two checkpoints by
their numbers is not enough once a power loss may take accepted sets back: one covers another
if it has all that is held of it (`Covers`). `LedgerFacts` is the reason why a publication
always moves the marker to such a one: every set between what the ledger has and what it
ever had is lost, so what the ledger folds to covers everything (`LedgerCovers`).
`CheckpointInv` adds that publishing and collecting happen under the lock (`LockFact`), that
what is being published covers what the marker names and everything returned
(`TargetFact`), that whatever a marker names, also the marker on disk, is complete and
flushed (`MarkerFacts`), and that a reader whose checkpoint is missing has been overtaken by a
later publication (`ReaderFact`, `Superseded`), so that the marker it reads next is another.

`FsTransactionProofs` proves `NothingLostHolds` (`FsSpec => []NothingLost`), from
`FsAssumption`: where a file was found or others write there is no directory, none is
planned there, and what others write is neither what was found nor what is planned.
`NothingLost` asks where a content is; `FsInv` says it path by path. `RunFact` follows a
run: an operation still to come has no backup, a write past its decision has found something
else than what it writes, and a removal that is being put back has its backup. A backup is
made once, and only the rollback of a removal takes it, to its path (`HistoryStep`).
`FoundFact`: what was found is in the backup of a write, for good; or in that of a removal; or
else it is the file, and then no run is about to replace it, because a run that is has looked
and backed up what it saw (`OwnBackup`). This is where an unlocked put-back would break it: a
run that looked while the file was away has no backup of it (`PutBackStep`, `RemovedStays`: no
run has decided about a file that is put back, or the path is raced). `EditFact`: what
somebody else has written is in the file, and no run has decided about the path, or it is in
the backup of a removal; a run that decides afterwards refuses, as its plan names another
state (`Deciders`). `FilesStep` lists the four actions that may change a file.
`LEMMA FirstIsOne`, that a rollback has a next operation while some are left and takes the
last of them, rests on the well-foundedness of the natural numbers.

The same module proves `RolledBackAsFoundHolds`, from `PlanAssumption` too. The property
speaks of the end of a rollback; `UndoInv` of every step of the run before it, and of each
path in `LeftTo(t)`, where nobody else writes, nothing failed and no lock was left. At most one operation has
taken such a path (`TookFile`); what that found is in its backup, or there was nothing, and
the path is as the operation left it or, once the run is past the plan, as it was found
(`FileFact`; `IndexFact` for the git index). It is as found for all that a rollback without
a failure has dealt with (`Past`), which `UndidPast` extends by one operation a step, because
`RollbackRank` is a total order that a rollback descends. Directories are the hard part. A
rollback keeps a directory that is not empty and calls that success, so `VacantAtLast` shows
that a directory the run has made is empty when its turn comes: whatever took a path inside
it stands later in the plan (`OrderFact`, `SkipFact`, `ParentMade`) and is undone already.
And a file that is put back makes its directories again: only ones that were found, or whose
own turn comes later. A run that is killed before its manifest is on disk is never rolled
back (`Sound`), and nothing is said of it.

`VerificationExecutionProofs` proves, from `VerificationAssumption`,
`VerificationTypeCorrect`, `PassMeansProvenHolds` and, assuming it of the ledger that the
calls find (`FoundLedgersRunOnce`), `OneRunPerRequestHolds`, for any plan without duplicates
(the empty one too), calls, snapshots, admissions and edits. A pass is a matter of what was
decided before it: `ProvenInv` says of every decided check that what counts for a pass is
proven by the ledger, and that what was not run follows a preflight that failed
(`Decisions`). What is reused was the newest of its key, what was run has been appended,
and what the ledger once proved it goes on proving, since a failure recorded later comes
after the beginning of the call (`ProvenStays`). `OnceInv` is about the lock: a call that
has looked again under it still holds it, and what it could not reuse nobody has recorded
since, because only the holder appends under a key (`LockFacts`).

What remains with TLC: liveness and fairness (`AcquisitionEnds`, `DeadOwnerCleared`,
`LaneRecovers`, `SentRunsEnd`), because ENABLED and WF are out of the prover's reach. Every
invariant and every action property that a passing run checks is a theorem.

## 6. Findings

1. **A loser can be blocked by its own token** (`LoserCanRetry`). With
   `reclaimStaleEmptyDirectory`, a creator paused over 30 s between lstat and link
   publishes into a directory that is no longer its own; `removeOwnedLock` then
   returns without unlinking the token, because the directory is not the recorded
   one. The token names a live process, so nobody may reclaim it: the lock stays
   closed until that process exits.
2. **A fresh directory can be removed** (`FreshDirectoryProtected`). The identity
   check of an empty-directory reclaim and the rmdir by path are two calls. Mutual
   exclusion is not affected (it is proved); the creator of the fresh directory
   fails at lstat or link, or loses and retries.
3. **An intent that is not on disk** (`IntentOnDisk` with `EntryFollows` false). The
   directory entry of a new audit log is synced only by the call that made the log.
   If that call fails in between, later calls execute behind an intent whose file a
   power loss can remove.

## 7. Known limits worth keeping in mind

- By default a crash between mkdir and link, or between unlink and rmdir, leaves an
  empty lock directory that nobody reclaims. Acquisitions then end by timing out;
  this is the documented fail-closed choice.
- `appendGenesisRecord` returns success for a matching record that a dead writer
  wrote and did not flush; only records that a call appended itself count as
  acknowledged in `AckedNeverLost`. Unlocked readers may likewise see unflushed
  records.
- A later event with the key of a superseded one is never accepted: the dropped
  first occurrence still holds the key. `FoldIsByDefinition` states this as the rule
  the code implements.
- `writeMarker` flushes the marker only after the rename. A power loss in between may
  leave a malformed marker; readers and maintenance then fail closed, and the next
  publication replaces it.
- A waiter can be overtaken without end: `awaitLockRelease` looks at no deadline when it
  finds the lock directory gone, nor after a reclaim, and `publishOwner` tries again. As long
  as others make the directory each time, the waiter neither acquires nor times out
  (`AcquisitionEnds` excepts this case and no other).
- A call of the lock that fails for a reason from outside harms its own process, which may
  be told an error where it would have timed out, and closes the lock: after a failing lstat
  or rmdir an empty directory stays, after a failing unlink the token of a process that
  lives on, which nobody may reclaim until it exits.
- A checkpoint may cover events that a power loss then takes from the log, because it is
  folded from an unlocked read. The next publication moves the marker to what is left and
  collects the other: newer by what has been accepted since, older by what was lost.
- Every process on the machine is assumed to see the same file system with the
  POSIX semantics of mkdir, link, unlink and rmdir.
- A supervisor that is killed while it rewrites its owner record, or before it does,
  leaves a record that proves nothing, and the lane then stays closed: "truncated or
  interrupted publication stays unknown". `LaneRecovers` therefore speaks of
  supervisors whose barrier was opened. A receipt is not written atomically: cut short
  by a death, it makes the caller report a failure without ending the group
  (`CallerIsToldTheTruth` excepts a torn receipt).
- A merge is sent to a provider that pins the head alone; that the base has not moved
  is the protection's to enforce. If someone relaxes the protection after it was read,
  the merge may have another parent, which the run then reports as a contradiction. A
  rejection (exit 6) is true of what the read model showed; `RejectionIsTrue` is
  stated for a read model that was up to date.
- The target lock of a file-system transaction keeps out those who take it: removals, the
  put-back of a removed file and a user's editor do not. One run may decide to write a file,
  a second rename it away, the first see no file and make no backup, the second put it back,
  and the first overwrite it. A file that is saved between a run's decision and its rename is
  overwritten too, and so is one that is written where a removed file is about to be put back.
  `NothingLost` says nothing of such paths (`raced`), and of no others.
- A run that is killed while it holds a target lock leaves the lock directory, and perhaps a
  temporary file, beside the file. Until somebody takes that lock again the directory around
  it is not empty: a later rollback, which need not take the lock to find the file gone,
  reports the directory as skipped and itself as a success, and the directory stays
  (`LeftTo` in `RolledBackAsFound` excepts it).
- An operation whose rename took effect and whose
  flush failed counts as failed and is not rolled back. A run killed before its
  manifest leaves backups and no record of them. Directories that `ensureParent` makes
  on the way are not removed by a rollback. Two removals within a millisecond whose
  sanitized names agree would share a backup; the model takes names as unique.
- `priorExecutionExists` is read before the request lock and not again under it, so
  an expensive check can run a second time for callers with different snapshots, or
  after a failure recorded meanwhile; `OneRunPerRequest` is about what has passed. A
  tree that is edited and put back while a command runs looks unchanged.

## 8. Not modelled

- **Evidence event construction, workflow state resolution, readiness verdicts**: pure
  functions over strings and records; the modules take their outcome.
- **Attempt ledger**: its store repeats the discipline of the evidence log without the
  genesis record.
- **Segmented log**: rotation and retention are best effort by design; what is left is
  the atomicity of one append by the operating system.
- **Task inbox**: every operation that changes it runs under one lock, immutable events
  are compared with what is found when their name exists, and a delivery is recorded
  before it is returned; there is little to interleave beyond `LockService`.
- **Document session finalization**: a client of `runOperatorWrite` whose steps are git
  and forge commands.
- **Task sessions, worktree cleanup, draft publication**: protocols with programs outside
  the repository whose behaviour the sources do not fix.
- **Command line, MCP and web surfaces, installers, evaluation scripts and templates**:
  parsing, rendering, transport and copying. They are by far the largest part of the
  repository by lines, so the share of its lines that the modules cover is small; the
  modules cover the files that hold the shared state.
