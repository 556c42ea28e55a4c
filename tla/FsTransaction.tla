--------------------------- MODULE FsTransaction ---------------------------
(***************************************************************************)
(* src/effects/fs-transaction.ts: a run of applyAdoptionPlan applies the   *)
(* operations of its plan in order, stops at the first that fails, writes  *)
(* a manifest, and then rolls back what it applied; "init rollback" does   *)
(* the same later from the manifest.  Several runs may work in one         *)
(* repository, others replace files, with or without the lock of the       *)
(* target, any call may fail before or after it took effect, and a run may *)
(* be killed between two steps, which leaves its lock directory, and a     *)
(* temporary file perhaps, beside the file that it was replacing.          *)
(*                                                                         *)
(* A file is its content.  writeFile and appendManagedBlock differ in how  *)
(* they compute what to write, which the plan fixes.  Dry runs, symbolic   *)
(* links and paths outside the repository are left out, and so is move,    *)
(* which no planner in the repository emits.                               *)
(***************************************************************************)
EXTENDS Naturals, Sequences

CONSTANTS
  Transactions,   \* runs of applyAdoptionPlan
  PlanOf,         \* the operations of each: [kind, path, content]
  FoundFiles, FoundIndex,   \* the repository before the first run
  Inside,         \* the paths inside a directory
  Edits,          \* what others write, once each, to which paths
  Dir, Absent     \* a directory, and nothing, at a path

Paths == DOMAIN FoundFiles
OpsOf(t) == 1..Len(PlanOf[t])
Op(t, i) == PlanOf[t][i]
PathsOf(t) == {Op(t, i).path : i \in OpsOf(t)}

\* Where others write, or a file was found, there is no directory and none is
\* planned; what others write is neither what was found nor what is planned.
FilePaths == {p \in Paths : p \in DOMAIN Edits \/ FoundFiles[p] \notin {Dir, Absent}}

ASSUME FsAssumption ==
  /\ Dir # Absent /\ DOMAIN FoundIndex = Paths /\ DOMAIN Edits \subseteq Paths
  /\ \A t \in Transactions :
       Len(PlanOf[t]) \in Nat \ {0} /\ \A i \in OpsOf(t) : Op(t, i).path \in Paths
  /\ \A p \in FilePaths : Inside[p] = {}
  /\ \A t \in Transactions : \A i \in OpsOf(t) :
       LET p == Op(t, i).path IN
         /\ p \in FilePaths => Op(t, i).kind # "mkdir"
         /\ p \in DOMAIN Edits => Op(t, i).content # Edits[p]
  /\ \A p \in DOMAIN Edits : Edits[p] \notin {Dir, Absent, FoundFiles[p]}

\* A plan writes files where there is no directory, and makes a directory before
\* what is inside it (planStandardAdoption); what is found is in directories.
ASSUME PlanAssumption ==
  /\ \A p \in Paths : Inside[p] \subseteq Paths \ {p} /\ \A q \in Inside[p] :
       Inside[q] \subseteq Inside[p] /\ (FoundFiles[q] # Absent => FoundFiles[p] = Dir)
  /\ \A t \in Transactions : \A i \in OpsOf(t) :
       LET op == Op(t, i) IN
         /\ op.kind \in {"mkdir", "write", "remove", "untrack"}
         /\ op.kind = "write" => op.content \notin {Dir, Absent} /\ Inside[op.path] = {}
         /\ op.kind \in {"mkdir", "write"} => \A p \in PathsOf(t) :
              op.path \in Inside[p] /\ FoundFiles[p] # Dir =>
                \E j \in 1..(i - 1) : Op(t, j).kind = "mkdir" /\ Op(t, j).path = p

VARIABLES
  files, index,   \* the working tree and the git index
  run,            \* what each run does next
  pos,            \* the operation it does it with
  status, saved,  \* per operation: its status, and its backup or index entry
  manifest,       \* the runs whose manifest is on disk
  undone,         \* what the rollback of each run has reported
  edited,         \* the paths that others have replaced
  raced,          \* the paths at which a file was put in the way of another writer
  littered        \* the directories in which a lock or a temporary file was left

ghosts == <<edited, raced, littered>>
fsVars == <<files, index, run, pos, status, saved, manifest, undone, ghosts>>

\* Under the lock of the target: from the decision to the rename or unlink, and after.
Deciding == {"look", "backUp", "write", "restore"}
Locked   == Deciding \cup {"finishWrite", "finishRestore"}
Doing(t, label) == run[t] = label
Current(t) == Op(t, pos[t])
Path(t) == Current(t).path
SetStatus(t, s) == status' = [status EXCEPT ![t][pos[t]] = s]

Undoing(t, kind) ==
  /\ Doing(t, "rollback")
  /\ Current(t).kind = kind /\ status[t][pos[t]] = "applied"

Around(p) == {dir \in Paths : p \in Inside[dir]}

\* A run that is at the lock of its target leaves something there when it is
\* killed, or when a call that takes or removes the lock fails.  Some of it may be
\* gone since: who takes an abandoned lock removes it.
AtLock(t) == run[t] \in Locked \cup {"lock"} \/ Undoing(t, "write")

MayLitter(t) ==
  /\ \/ UNCHANGED littered
     \/ AtLock(t) /\ littered' = littered \cup Around(Path(t))
  /\ UNCHANGED <<edited, raced>>

\* A live run holds the lock of the file that it is replacing; the lock is a
\* directory beside the file.
TargetLocked(p) == \E t \in Transactions : run[t] \in Locked /\ Path(t) = p

Vacant(dir) == \A p \in Inside[dir] : files[p] = Absent /\ ~TargetLocked(p)

\* ensureParent.
WithParents(p) == [q \in Paths |-> IF p \in Inside[q] THEN Dir ELSE files[q]]

HasParents(p) == \A q \in Paths : p \in Inside[q] => files[q] = Dir

FsInit ==
  /\ files = FoundFiles
  /\ index = FoundIndex
  /\ run = [t \in Transactions |-> "preflight"]
  /\ pos = [t \in Transactions |-> 1]
  /\ status = [t \in Transactions |-> [i \in OpsOf(t) |-> "planned"]]
  /\ saved = [t \in Transactions |-> [i \in OpsOf(t) |-> Absent]]
  /\ manifest = {}
  /\ undone = [t \in Transactions |-> "notRun"]
  /\ edited = {} /\ raced = {} /\ littered = {}

-----------------------------------------------------------------------------
(* applyAdoptionPlan: every operation is checked before the first is applied *)

\* Plans name the state they were made for: expectedAbsent, expectedContentHash.
AsPlanned(op) ==
  /\ op.kind \in {"write", "remove"} =>
       files[op.path] = FoundFiles[op.path] /\ files[op.path] # Dir
  /\ op.kind = "mkdir" => files[op.path] \in {Absent, Dir}

Preflight(t) ==
  /\ Doing(t, "preflight")
  /\ \A i \in OpsOf(t) : AsPlanned(Op(t, i))
  /\ run' = [run EXCEPT ![t] = "apply"]
  /\ UNCHANGED <<files, index, pos, status, saved, manifest, undone, ghosts>>

\* Nothing has been applied: no rollback, and the manifest says as much.
PreflightFails(t) ==
  /\ Doing(t, "preflight")
  /\ \E i \in OpsOf(t) : ~AsPlanned(Op(t, i))
  /\ status' = [status EXCEPT ![t] =
       [i \in OpsOf(t) |-> IF AsPlanned(Op(t, i)) THEN "planned" ELSE "failed"]]
  /\ run' = [run EXCEPT ![t] = "ended"]
  /\ \/ manifest' = manifest \cup {t}
     \/ UNCHANGED manifest
  /\ UNCHANGED <<files, index, pos, saved, undone, ghosts>>

\* The operation has ended, and the next one begins, or the manifest is written.
Applied(t, s) ==
  /\ SetStatus(t, s)
  /\ IF s # "failed" /\ pos[t] < Len(PlanOf[t])
       THEN pos' = [pos EXCEPT ![t] = @ + 1] /\ run' = [run EXCEPT ![t] = "apply"]
       ELSE UNCHANGED pos /\ run' = [run EXCEPT ![t] = "saveManifest"]

\* There is nothing to do, says a check without the lock.
Skip(t) ==
  /\ Doing(t, "apply")
  /\ Current(t).kind # "mkdir" => AsPlanned(Current(t))
  /\ CASE Current(t).kind = "mkdir"   -> files[Path(t)] # Absent
       [] Current(t).kind = "write"   -> files[Path(t)] = Current(t).content
       [] Current(t).kind = "remove"  -> files[Path(t)] = Absent
       [] Current(t).kind = "untrack" -> index[Path(t)] = Absent
  /\ Applied(t, "skipped")
  /\ UNCHANGED <<files, index, saved, manifest, undone, ghosts>>

\* Refused, timed out or thrown, with nothing changed, at any step of any kind.
Fail(t) ==
  /\ run[t] \in {"apply", "lock", "look", "backUp", "rename", "write"}
  /\ Applied(t, "failed")
  /\ MayLitter(t)
  /\ UNCHANGED <<files, index, saved, manifest, undone>>

MakeDirectory(t) ==
  /\ Doing(t, "apply") /\ Current(t).kind = "mkdir"
  /\ files[Path(t)] = Absent
  /\ files' = [WithParents(Path(t)) EXCEPT ![Path(t)] = Dir]
  /\ Applied(t, "applied")
  /\ UNCHANGED <<index, saved, manifest, undone, ghosts>>

\* The decision without the lock, which spares a file that is up to date; then
\* the directories around it are made, for the lock too.
DecideUnlocked(t) ==
  /\ Doing(t, "apply") /\ Current(t).kind = "write"
  /\ AsPlanned(Current(t))
  /\ files[Path(t)] # Current(t).content
  /\ files' = WithParents(Path(t))
  /\ run' = [run EXCEPT ![t] = "lock"]
  /\ UNCHANGED <<index, pos, status, saved, manifest, undone, ghosts>>

\* Mutant: the decision from before the wait for the lock is kept.
StillAsDecided(t) == TRUE

\* "The decision runs again under the target lock."
MayWrite(t) == AsPlanned(Current(t)) /\ files[Path(t)] # Current(t).content

TakeLock(t) == HasParents(Path(t)) /\ ~TargetLocked(Path(t))

\* As the plan names the state that it was made for, what was to be written still
\* is, or is refused.  What the decision reads counts as one read.
LockAndDecide(t) ==
  /\ Doing(t, "lock")
  /\ TakeLock(t)
  /\ MayWrite(t)
  /\ run' = [run EXCEPT ![t] = "look"]
  /\ UNCHANGED <<files, index, pos, status, saved, manifest, undone, ghosts>>

\* Is there a file to back up?  A removal, which takes no lock, may have come between.
Look(t) ==
  /\ Doing(t, "look")
  /\ run' = [run EXCEPT ![t] = IF files[Path(t)] = Absent THEN "write" ELSE "backUp"]
  /\ UNCHANGED <<files, index, pos, status, saved, manifest, undone, ghosts>>

\* Whatever is there by now is copied, and the copy flushed.
BackUp(t) ==
  /\ Doing(t, "backUp")
  /\ files[Path(t)] # Absent
  /\ saved' = [saved EXCEPT ![t][pos[t]] = files[Path(t)]]
  /\ run' = [run EXCEPT ![t] = "write"]
  /\ UNCHANGED <<files, index, pos, status, manifest, undone, ghosts>>

\* The rename of the temporary file.
Replace(t) ==
  /\ Doing(t, "write")
  /\ files' = [files EXCEPT ![Path(t)] = Current(t).content]
  /\ run' = [run EXCEPT ![t] = "finishWrite"]
  /\ UNCHANGED <<index, pos, status, saved, manifest, undone, ghosts>>

\* The directory is flushed, or that fails and so does the operation.
Finish(t) ==
  /\ run[t] \in {"finishWrite", "finishRemove"}
  /\ \E s \in {"applied", "failed"} : Applied(t, s)
  /\ MayLitter(t)
  /\ UNCHANGED <<files, index, saved, manifest, undone>>

CheckRemove(t) ==
  /\ Doing(t, "apply") /\ Current(t).kind = "remove"
  /\ AsPlanned(Current(t)) /\ files[Path(t)] # Absent
  /\ run' = [run EXCEPT ![t] = "rename"]
  /\ UNCHANGED <<files, index, pos, status, saved, manifest, undone, ghosts>>

\* moveIntoTransactionBackup takes no lock, and whatever is there by now.
RenameAway(t) ==
  /\ Doing(t, "rename")
  /\ files[Path(t)] # Absent
  /\ saved' = [saved EXCEPT ![t][pos[t]] = files[Path(t)]]
  /\ files' = [files EXCEPT ![Path(t)] = Absent]
  /\ run' = [run EXCEPT ![t] = "finishRemove"]
  /\ UNCHANGED <<index, pos, status, manifest, undone, ghosts>>

Untrack(t) ==
  /\ Doing(t, "apply") /\ Current(t).kind = "untrack"
  /\ index[Path(t)] # Absent
  /\ saved' = [saved EXCEPT ![t][pos[t]] = index[Path(t)]]
  /\ index' = [index EXCEPT ![Path(t)] = Absent]
  /\ Applied(t, "applied")
  /\ UNCHANGED <<files, manifest, undone, ghosts>>

-----------------------------------------------------------------------------
(* The manifest and rollbackManifestOperations *)

\* Mutant: the operations are rolled back in the order of the plan.
RankInPlanOrder == [t \in Transactions |-> [i \in OpsOf(t) |-> Len(PlanOf[t]) - i]]

\* From the last to the first; the index comes after the files.
RollbackRank ==
  [t \in Transactions |-> [i \in OpsOf(t) |->
     IF Op(t, i).kind = "untrack" THEN i ELSE Len(PlanOf[t]) + i]]

\* The operations that are left when t rolls back the one at pos.
After(t) == {i \in OpsOf(t) : RollbackRank[t][i] < RollbackRank[t][pos[t]]}

FirstOf(t, S) == CHOOSE i \in S : \A j \in S : RollbackRank[t][j] <= RollbackRank[t][i]

BeginRollback(t) ==
  /\ pos' = [pos EXCEPT ![t] = FirstOf(t, OpsOf(t))]
  /\ run' = [run EXCEPT ![t] = "rollback"]
  /\ undone' = [undone EXCEPT ![t] = "ok"]

\* A plan that failed, or whose manifest cannot be written, is rolled back.
SaveManifest(t) ==
  /\ Doing(t, "saveManifest")
  /\ \E written \in BOOLEAN :
       /\ manifest' = IF written THEN manifest \cup {t} ELSE manifest
       /\ IF written /\ \A i \in OpsOf(t) : status[t][i] # "failed"
            THEN run' = [run EXCEPT ![t] = "ended"] /\ UNCHANGED <<pos, undone>>
            ELSE BeginRollback(t)
  /\ UNCHANGED <<files, index, status, saved, ghosts>>

\* "init rollback" of a run that is over: it may have succeeded, failed or died.
RollbackCommand(t) ==
  /\ run[t] \in {"ended", "killed"} /\ t \in manifest
  /\ undone[t] # "ok"
  /\ BeginRollback(t)
  /\ UNCHANGED <<files, index, status, saved, manifest, ghosts>>

Undid(t, result) ==
  /\ undone' = [undone EXCEPT ![t] = IF result = "failed" THEN "failed" ELSE @]
  /\ IF After(t) = {}
       THEN run' = [run EXCEPT ![t] = "ended"] /\ UNCHANGED pos
       ELSE run' = [run EXCEPT ![t] = "rollback"] /\ pos' = [pos EXCEPT ![t] = FirstOf(t, After(t))]

Backup(t) == saved[t][pos[t]]

NothingToUndo(t) ==
  /\ Doing(t, "rollback")
  /\ \/ status[t][pos[t]] # "applied"
     \/ Current(t).kind \in {"write", "mkdir"} /\ files[Path(t)] = Absent /\ Backup(t) = Absent
     \/ Current(t).kind = "mkdir" /\ (~Vacant(Path(t)) \/ Path(t) \in littered)
     \/ Current(t).kind = "untrack" /\ index[Path(t)] = Backup(t)
  /\ Undid(t, "skipped")
  /\ UNCHANGED <<files, index, status, saved, manifest, ghosts>>

\* Refused by a guard, or a call throws before it took effect.
UndoFails(t) ==
  /\ run[t] \in {"rollback", "restore", "renameBack"}
  /\ status[t][pos[t]] = "applied"
  /\ Undid(t, "failed")
  /\ MayLitter(t)
  /\ UNCHANGED <<files, index, status, saved, manifest>>

RemoveDirectory(t) ==
  /\ Undoing(t, "mkdir")
  /\ files[Path(t)] = Dir /\ Vacant(Path(t))
  /\ files' = [files EXCEPT ![Path(t)] = Absent]
  /\ \E result \in {"rolled_back", "failed"} : Undid(t, result)
  /\ UNCHANGED <<index, status, saved, manifest, ghosts>>

\* Mutant: what is at the path is taken for what the transaction wrote.
IsOursUnchecked(t) == TRUE

\* "Never overwrite a target whose current content diverges."
IsOurs(t) == files[Path(t)] = Current(t).content \/ (files[Path(t)] = Absent /\ Backup(t) # Absent)

\* Under the target lock, after the directories around it are made.
LockAndCheck(t) ==
  /\ Undoing(t, "write")
  /\ ~TargetLocked(Path(t))
  /\ IsOurs(t)
  /\ files' = WithParents(Path(t))
  /\ run' = [run EXCEPT ![t] = "restore"]
  /\ UNCHANGED <<index, pos, status, saved, manifest, undone, ghosts>>

\* The rename, or rmSync where there was no file to back up.  The copy which the
\* rename leaves of what it replaces, outside the transaction, is left out.
Restore(t) ==
  /\ Doing(t, "restore")
  /\ Backup(t) = Absent => files[Path(t)] # Absent
  /\ files' = [files EXCEPT ![Path(t)] = Backup(t)]
  /\ run' = [run EXCEPT ![t] = "finishRestore"]
  /\ UNCHANGED <<index, pos, status, saved, manifest, undone, ghosts>>

FinishRestore(t) ==
  /\ Doing(t, "finishRestore")
  /\ \E result \in {"rolled_back", "failed"} : Undid(t, result)
  /\ MayLitter(t)
  /\ UNCHANGED <<files, index, status, saved, manifest>>

\* The path is free, says a check without the lock; then the rename takes it.
CheckPutBack(t) ==
  /\ Undoing(t, "remove")
  /\ files[Path(t)] = Absent /\ Backup(t) # Absent
  /\ run' = [run EXCEPT ![t] = "renameBack"]
  /\ UNCHANGED <<files, index, pos, status, saved, manifest, undone, ghosts>>

\* A run has decided what to do at p, and has not done it.
Decided(p) == \E t \in Transactions : run[t] \in Deciding /\ Path(t) = p

PutBack(t) ==
  /\ Doing(t, "renameBack")
  /\ files' = [WithParents(Path(t)) EXCEPT ![Path(t)] = Backup(t)]
  /\ saved' = [saved EXCEPT ![t][pos[t]] = Absent]
  /\ raced' = IF files[Path(t)] # Absent \/ Decided(Path(t)) THEN raced \cup {Path(t)} ELSE raced
  /\ \E result \in {"rolled_back", "failed"} : Undid(t, result)
  /\ UNCHANGED <<index, status, manifest, edited, littered>>

RestoreIndex(t) ==
  /\ Undoing(t, "untrack")
  /\ index[Path(t)] = Absent
  /\ index' = [index EXCEPT ![Path(t)] = Backup(t)]
  /\ Undid(t, "rolled_back")
  /\ UNCHANGED <<files, status, saved, manifest, ghosts>>

-----------------------------------------------------------------------------
\* A run is killed: its lock is free to be taken over, but stays until then.
Kill(t) ==
  /\ run[t] \notin {"ended", "killed"}
  /\ run' = [run EXCEPT ![t] = "killed"]
  /\ undone' = [undone EXCEPT ![t] = IF @ = "ok" THEN "failed" ELSE @]
  /\ MayLitter(t)
  /\ run[t] \in Locked => Around(Path(t)) \subseteq littered'
  /\ UNCHANGED <<files, index, pos, status, saved, manifest>>

\* Someone else replaces a file: a user's editor does so at any time, and
\* atomicWriteFile while it holds the lock of the target.
EditFile(p) ==
  /\ p \in DOMAIN Edits \ edited
  /\ files' = [files EXCEPT ![p] = Edits[p]]
  /\ edited' = edited \cup {p}
  /\ raced' = IF Decided(p) THEN raced \cup {p} ELSE raced
  /\ UNCHANGED <<index, run, pos, status, saved, manifest, undone, littered>>

Apply(t) ==
  \/ Preflight(t) \/ PreflightFails(t) \/ Skip(t) \/ Fail(t) \/ MakeDirectory(t)
  \/ DecideUnlocked(t) \/ LockAndDecide(t) \/ Look(t) \/ BackUp(t)
  \/ Replace(t) \/ Finish(t)
  \/ CheckRemove(t) \/ RenameAway(t) \/ Untrack(t)

Rollback(t) ==
  \/ SaveManifest(t) \/ RollbackCommand(t) \/ NothingToUndo(t) \/ UndoFails(t)
  \/ RemoveDirectory(t) \/ LockAndCheck(t) \/ Restore(t) \/ FinishRestore(t)
  \/ CheckPutBack(t) \/ PutBack(t) \/ RestoreIndex(t)

FsNext ==
  \/ \E t \in Transactions : Apply(t) \/ Rollback(t) \/ Kill(t)
  \/ \E p \in DOMAIN Edits : EditFile(p)

FsSpec == FsInit /\ [][FsNext]_fsVars

-----------------------------------------------------------------------------
(* Properties *)

BackedUp(content, kinds) ==
  \E t \in Transactions : \E i \in OpsOf(t) : saved[t][i] = content /\ Op(t, i).kind \in kinds

\* No content is lost, whatever fails or is killed and in which order runs,
\* rollbacks and other writers meet: a file that nobody else has replaced is
\* somewhere in the working tree or in a backup, and what somebody else has
\* written stays where it is, unless a removal has it in its backup.  Nothing is
\* claimed of a path to which a file came without the lock at the wrong moment:
\* one that is put back after "removed path is occupied; refusing to overwrite it"
\* was checked and no longer so, or one that is put back, or that a user saves, while
\* a run, with the lock, is between its decision and its rename.
NothingLost ==
  \A p \in Paths \ raced :
    IF p \in edited
      THEN files[p] = Edits[p] \/ BackedUp(Edits[p], {"remove"})
      ELSE FoundFiles[p] \in {Dir, Absent} \/ files[p] = FoundFiles[p]
           \/ BackedUp(FoundFiles[p], {"write", "remove"})

\* The paths of t that nobody else writes, on which no operation of t failed,
\* with everything inside them; no lock or temporary file was left in them.
LeftTo(t) ==
  LET alone == {p \in PathsOf(t) \ (edited \cup littered) :
                  /\ \A u \in Transactions \ {t} : p \notin PathsOf(u)
                  /\ \A i \in OpsOf(t) : Op(t, i).path = p => status[t][i] # "failed"}
  IN  {p \in alone : Inside[p] \subseteq alone}

\* A rollback that reports success has undone the run: the working tree and the
\* index are as they were found, but for what others changed, for the path of the
\* operation that failed, whose rename may have taken place, and for a directory
\* in which a run that was killed, or that could not remove its lock, has left it:
\* such a directory is not empty, and the rollback reports it as skipped.
RolledBackAsFound ==
  \A t \in Transactions :
    run[t] = "ended" /\ undone[t] = "ok" =>
      \A p \in LeftTo(t) : files[p] = FoundFiles[p] /\ index[p] = FoundIndex[p]
=============================================================================
