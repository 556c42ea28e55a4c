-------------------------- MODULE CheckpointStore --------------------------
(***************************************************************************)
(* src/effects/evidence/checkpoint-store.ts and checkpoint-snapshot.ts:    *)
(* the Stop hook of every session publishes a checkpoint of the evidence   *)
(* ledger and collects the older ones; maintenance collects too; readers   *)
(* follow the last-published marker without a lock.  Any process may die,  *)
(* any call may fail, and the machine may lose power, between two steps.   *)
(*                                                                         *)
(* A checkpoint is addressed by its content, so its id stands for the      *)
(* accepted set it was folded from, and those are numbered in the order in *)
(* which the ledger took them on.  A power loss may take the newest of     *)
(* them, those whose records nobody has flushed, while a checkpoint that   *)
(* was folded from them stays.  A file whose bytes do not validate is      *)
(* as good as missing, and an empty directory as none.  The staging        *)
(* directory is private to its process and left out.  The publication lock *)
(* is LockService.                                                         *)
(***************************************************************************)
EXTENDS Naturals

CONSTANTS
  Procs, PidOf, NoProc,
  MaxLedger,   \* bound: changes of the accepted set, those a power loss takes back too
  NoMarker,    \* nothing has been published
  Malformed    \* a marker whose bytes a power loss has taken

Ids == 0..MaxLedger
Both == {"machine", "human"}   \* checkpoint.json and checkpoint.md

ASSUME CheckpointAssumption ==
  /\ NoProc \notin Procs
  /\ MaxLedger \in Nat
  /\ NoMarker \notin Ids /\ Malformed \notin Ids /\ NoMarker # Malformed

VARIABLES
  owner, life,         \* the publication lock and its processes (LockService)
  pc,                  \* the next step of each process
  target,              \* the checkpoint that a process publishes or reads
  tries,               \* reads of a snapshot that have failed
  ledger,              \* the accepted set that the evidence log folds to now
  flushed,             \* the newest accepted set whose records are all flushed
  issued,              \* the newest accepted set that there ever was
  lost,                \* the accepted sets that a power loss has taken
  files, diskFiles,    \* the files of each checkpoint, as seen and as flushed
  marker, diskMarker,  \* last-published.json, as seen and as flushed
  began,               \* ledger when each publisher was called, 0 for others
  newest               \* the newest checkpoint that a publication or pruning has returned

lock    == <<owner, life>>
seen    == <<files, marker>>
disk    == <<diskFiles, diskMarker>>
locals  == <<target, tries, began>>
events  == <<ledger, flushed, issued, lost>>
vars    == <<lock, pc, locals, events, seen, disk, newest>>

PublishLock == INSTANCE LockService WITH Procs <- Procs, PidOf <- PidOf,
  NoProc <- NoProc, owner <- owner, life <- life

LockedLabels == {"fold", "resolve", "rename", "persist", "writeMarker",
                 "persistMarker", "collect"}
ReadLabels   == {"openMarker", "openMachine", "openHuman", "reopenMarker"}
Labels       == {"idle", "waitingToPublish", "waitingToPrune"} \cup LockedLabels \cup ReadLabels

At(p, label) == PublishLock!Alive(p) /\ pc[p] = label
Goto(p, label) == pc' = [pc EXCEPT ![p] = label]
Complete(id) == files[id] = Both

\* The accepted sets which the checkpoint covers and no power loss has taken.
Held(id) == (0..id) \ lost

\* The operation ends, and its process may begin another.
End(p) ==
  /\ Goto(p, "idle")
  /\ target' = [target EXCEPT ![p] = 0]
  /\ tries' = [tries EXCEPT ![p] = 0]
  /\ began' = [began EXCEPT ![p] = 0]

Init ==
  /\ PublishLock!Init
  /\ pc = [p \in Procs |-> "idle"]
  /\ target = [p \in Procs |-> 0]
  /\ tries = [p \in Procs |-> 0]
  /\ ledger = 0 /\ flushed = 0 /\ issued = 0 /\ lost = {}
  /\ files = [id \in Ids |-> {}]
  /\ diskFiles = files
  /\ marker \in {NoMarker, Malformed}   \* the second as an earlier power loss left it
  /\ diskMarker = marker
  /\ began = [p \in Procs |-> 0]
  /\ newest = NoMarker

-----------------------------------------------------------------------------
(* publishCheckpointFromLedger and pruneCheckpointCache, under the lock *)

Begin(p) ==
  /\ At(p, "idle")
  /\ \E label \in {"waitingToPublish", "waitingToPrune", "openMarker"} :
       /\ Goto(p, label)
       /\ began' = [began EXCEPT ![p] = IF label = "waitingToPublish" THEN ledger ELSE 0]
  /\ UNCHANGED <<lock, target, tries, events, seen, disk, newest>>

Lock(p) ==
  /\ \/ At(p, "waitingToPublish") /\ Goto(p, "fold")
     \/ At(p, "waitingToPrune") /\ Goto(p, "resolve")
  /\ PublishLock!Acquire(p)
  /\ UNCHANGED <<locals, events, seen, disk, newest>>

\* The acquisition throws, and nothing has been done.
LockTimesOut(p) ==
  /\ \/ At(p, "waitingToPublish")
     \/ At(p, "waitingToPrune")
  /\ End(p)
  /\ UNCHANGED <<lock, events, seen, disk, newest>>

\* Mutant: the accepted set is folded before the lock is taken.
FoldedAtCall(p) == began[p]

\* readAcceptedEvents and buildCheckpointProjection.
Folded(p) == ledger

\* A complete directory of that id is left as it is.
Fold(p) ==
  /\ At(p, "fold")
  /\ target' = [target EXCEPT ![p] = Folded(p)]
  /\ Goto(p, IF Complete(Folded(p)) THEN "persist" ELSE "rename")
  /\ UNCHANGED <<lock, tries, events, seen, disk, began, newest>>

\* Maintenance takes the published checkpoint, if it resolves.
Resolve(p) ==
  /\ At(p, "resolve")
  /\ marker \in Ids
  /\ Complete(marker)
  /\ target' = [target EXCEPT ![p] = marker]
  /\ Goto(p, "persist")
  /\ UNCHANGED <<lock, tries, events, seen, disk, began, newest>>

NothingToPrune(p) ==
  /\ At(p, "resolve")
  /\ marker = NoMarker
  /\ PublishLock!Release(p)
  /\ End(p)
  /\ UNCHANGED <<events, seen, disk, newest>>

\* rmDirSafe: what a killed collector or a power loss left of that id.
RemoveIncomplete(p) ==
  /\ At(p, "rename")
  /\ files[target[p]] # {}
  /\ files' = [files EXCEPT ![target[p]] = {}]
  /\ UNCHANGED <<lock, pc, locals, events, marker, disk, newest>>

\* The staged directory takes its place.
Rename(p) ==
  /\ At(p, "rename")
  /\ files[target[p]] = {}
  /\ files' = [files EXCEPT ![target[p]] = Both]
  /\ Goto(p, "persist")
  /\ UNCHANGED <<lock, locals, events, marker, disk, newest>>

\* Mutant: nothing is flushed before the marker names the checkpoint.
PersistedLater(id) == diskFiles

\* persistCheckpointDirectory: both files and both directories.
Persisted(id) == [diskFiles EXCEPT ![id] = files[id]]

\* Mutant: a marker that names any checkpoint is taken for current.
AnyMarker(p) == marker \in Ids

AlreadyCurrent(p) == marker = target[p]

Persist(p) ==
  /\ At(p, "persist")
  /\ diskFiles' = Persisted(target[p])
  /\ Goto(p, IF AlreadyCurrent(p) THEN "persistMarker" ELSE "writeMarker")
  /\ UNCHANGED <<lock, locals, events, seen, diskMarker, newest>>

\* The marker is replaced by rename, a malformed one too.
WriteMarker(p) ==
  /\ At(p, "writeMarker")
  /\ marker' = target[p]
  /\ Goto(p, "persistMarker")
  /\ UNCHANGED <<lock, locals, events, files, disk, newest>>

PersistMarker(p) ==
  /\ At(p, "persistMarker")
  /\ diskMarker' = marker
  /\ Goto(p, "collect")
  /\ UNCHANGED <<lock, locals, events, seen, diskFiles, newest>>

\* collectObsoleteCheckpoints: one unlink, in the order of the sorted names.
Collect(p) ==
  /\ At(p, "collect")
  /\ \E id \in Ids \ {target[p]} :
       /\ files[id] # {}
       /\ files' = [files EXCEPT ![id] = IF "machine" \in @ THEN @ \ {"machine"} ELSE {}]
  /\ UNCHANGED <<lock, pc, locals, events, marker, disk, newest>>

\* All are collected, or those left over could not be and are skipped.
CollectDone(p) ==
  /\ At(p, "collect")
  /\ PublishLock!Release(p)
  /\ End(p)
  /\ newest' = IF newest = NoMarker \/ target[p] > newest THEN target[p] ELSE newest
  /\ UNCHANGED <<events, seen, disk>>

\* A read, write, rename or flush throws; for maintenance, a dangling marker too.
\* A publication without a ledger is skipped to the same effect.
Fail(p) ==
  /\ \E label \in LockedLabels : At(p, label)
  /\ PublishLock!Release(p)
  /\ End(p)
  /\ UNCHANGED <<events, seen, disk, newest>>

-----------------------------------------------------------------------------
(* resolveLastPublishedCheckpoint and readCheckpointSnapshot, without a lock *)

OpenMarker(p) ==
  /\ At(p, "openMarker")
  /\ marker # NoMarker
  /\ target' = [target EXCEPT ![p] = marker]
  /\ Goto(p, IF marker = Malformed THEN "reopenMarker" ELSE "openMachine")
  /\ UNCHANGED <<lock, tries, events, seen, disk, began, newest>>

NoCheckpoint(p) ==
  /\ At(p, "openMarker")
  /\ marker = NoMarker
  /\ End(p)
  /\ UNCHANGED <<lock, events, seen, disk, newest>>

OpenMachine(p) ==
  /\ At(p, "openMachine")
  /\ Goto(p, IF "machine" \in files[target[p]] THEN "openHuman" ELSE "reopenMarker")
  /\ UNCHANGED <<lock, locals, events, seen, disk, newest>>

OpenHuman(p) ==
  /\ At(p, "openHuman")
  /\ "human" \in files[target[p]]
  /\ End(p)
  /\ UNCHANGED <<lock, events, seen, disk, newest>>

HumanMissing(p) ==
  /\ At(p, "openHuman")
  /\ "human" \notin files[target[p]]
  /\ Goto(p, "reopenMarker")
  /\ UNCHANGED <<lock, locals, events, seen, disk, newest>>

\* Mutant: the marker is not read again.
MarkerReplacedNever(p) == FALSE

\* "Only an observed marker replacement permits reacquisition."
MarkerReplaced(p) == marker # target[p] /\ marker # NoMarker

\* Mutant: one attempt more.
MayRetryOnceMore(p) == tries[p] < 3

MayRetry(p) == tries[p] < 2

ReadAgain(p) ==
  /\ At(p, "reopenMarker")
  /\ MarkerReplaced(p)
  /\ MayRetry(p)
  /\ target' = [target EXCEPT ![p] = marker]
  /\ tries' = [tries EXCEPT ![p] = @ + 1]
  /\ Goto(p, IF marker = Malformed THEN "reopenMarker" ELSE "openMachine")
  /\ UNCHANGED <<lock, events, seen, disk, began, newest>>

ChangedRepeatedly(p) ==
  /\ At(p, "reopenMarker")
  /\ MarkerReplaced(p)
  /\ ~MayRetry(p)
  /\ End(p)
  /\ UNCHANGED <<lock, events, seen, disk, newest>>

\* CheckpointResolutionError: the marker is malformed, or names what is not there.
ReadFails(p) ==
  /\ At(p, "reopenMarker")
  /\ ~MarkerReplaced(p)
  /\ End(p)
  /\ UNCHANGED <<lock, events, seen, disk, newest>>

-----------------------------------------------------------------------------
(* The ledger, the processes and the machine *)

\* An append or a supersession changes the accepted set.
LedgerGrows ==
  /\ issued < MaxLedger
  /\ issued' = issued + 1
  /\ ledger' = issued'
  /\ UNCHANGED <<lock, pc, locals, flushed, lost, seen, disk, newest>>

\* An append flushes the log, its own record and those of others before it; until
\* then a reader, which takes no lock, accepts what a power loss may still take.
LedgerFlushed ==
  /\ flushed # ledger
  /\ flushed' = ledger
  /\ UNCHANGED <<lock, pc, locals, ledger, issued, lost, seen, disk, newest>>

Start(p) ==
  /\ PublishLock!Start(p)
  /\ UNCHANGED <<pc, locals, events, seen, disk, newest>>

Exit(p) ==
  /\ PublishLock!Exit(p)
  /\ End(p)
  /\ UNCHANGED <<events, seen, disk, newest>>

ReclaimFromDead(p) ==
  /\ PublishLock!ReclaimFromDead(p)
  /\ UNCHANGED <<pc, locals, events, seen, disk, newest>>

\* Of each file that was made or unlinked since the last flush, either state
\* may be found; of a marker renamed since, the old one, the new one, or a name
\* without its bytes; of the records appended since, any first ones.
PowerLoss ==
  /\ \E p \in Procs : PublishLock!Alive(p)
  /\ life' = [p \in Procs |-> IF PublishLock!Alive(p) THEN "dead" ELSE life[p]]
  /\ pc' = [p \in Procs |-> "idle"]
  /\ target' = [p \in Procs |-> 0]
  /\ tries' = [p \in Procs |-> 0]
  /\ began' = [p \in Procs |-> 0]
  /\ \E left \in [Ids -> SUBSET Both] :
       /\ \A id \in Ids :
            /\ files[id] \cap diskFiles[id] \subseteq left[id]
            /\ left[id] \subseteq files[id] \cup diskFiles[id]
       /\ files' = left
  /\ diskFiles' = files'
  /\ marker' \in {marker, diskMarker} \cup (IF marker # diskMarker THEN {Malformed} ELSE {})
  /\ diskMarker' = marker'
  /\ \E set \in (flushed..ledger) \ lost :
       /\ ledger' = set
       /\ flushed' = set
       /\ lost' = lost \cup (set + 1)..issued
  /\ UNCHANGED <<owner, issued, newest>>

Write(p) ==
  \/ Lock(p) \/ LockTimesOut(p) \/ Fold(p) \/ Resolve(p) \/ NothingToPrune(p)
  \/ RemoveIncomplete(p) \/ Rename(p) \/ Persist(p) \/ WriteMarker(p) \/ PersistMarker(p)
  \/ Collect(p) \/ CollectDone(p) \/ Fail(p)

ReadSnapshot(p) ==
  \/ OpenMarker(p) \/ NoCheckpoint(p) \/ OpenMachine(p) \/ OpenHuman(p) \/ HumanMissing(p)
  \/ ReadAgain(p) \/ ChangedRepeatedly(p) \/ ReadFails(p)

Next ==
  \/ \E p \in Procs :
       \/ Start(p) \/ Exit(p) \/ ReclaimFromDead(p)
       \/ Begin(p) \/ Write(p) \/ ReadSnapshot(p)
  \/ LedgerGrows \/ LedgerFlushed
  \/ PowerLoss

Spec == Init /\ [][Next]_vars

-----------------------------------------------------------------------------
(* Properties *)

Markers == Ids \cup {NoMarker, Malformed}

\* Every variable has its type.
TypeOK ==
  /\ owner \in Procs \cup {NoProc}
  /\ life \in [Procs -> {"unborn", "alive", "dead"}]
  /\ pc \in [Procs -> Labels]
  /\ target \in [Procs -> Ids \cup {Malformed}]
  /\ tries \in [Procs -> 0..2]
  /\ ledger \in Ids /\ flushed \in Ids /\ issued \in Ids /\ lost \subseteq Ids
  /\ files \in [Ids -> SUBSET Both] /\ diskFiles \in [Ids -> SUBSET Both]
  /\ marker \in Markers /\ diskMarker \in Markers
  /\ began \in [Procs -> Ids]
  /\ newest \in Ids \cup {NoMarker}

\* A marker that can be read names a complete checkpoint, while others publish
\* and collect, after any death of a publisher and after a power loss
\* (persistCheckpointDirectory comes before writeMarker, collection after both);
\* and at every moment after a publication or a pruning has returned, a checkpoint
\* is complete on disk that covers all it covered, less the events which a power
\* loss has taken from the ledger itself: "atomic visibility alone cannot
\* authorize deleting the last durable copy".
PublishedSurvives ==
  /\ marker \in Ids => Complete(marker)
  /\ newest \in Ids =>
       \E id \in Ids : Held(newest) \subseteq Held(id) /\ Complete(id) /\ diskFiles[id] = Both

\* A reader never fails because the checkpoint that it was sent to has been
\* collected: it follows the marker, or finds that it changes too often; only
\* a malformed marker fails a read.
ReadsFollowMarker == [][\A p \in Procs : ReadFails(p) => target[p] = Malformed]_vars

\* A publication that has placed its marker is the published one until it
\* releases the lock, and covers every event accepted when it was called: no
\* concurrent publication comes between (publishCheckpointFromLedger folds
\* under the lock).
PublicationCovers ==
  \A p \in Procs :
    At(p, "persistMarker") \/ At(p, "collect") =>
      marker = target[p] /\ began[p] <= target[p]

\* The marker never moves to a checkpoint that covers less, whichever order
\* sessions stop in; only a power loss may take an unflushed marker back.  After
\* one has taken events that had been published, and only then, the next
\* publication moves it to an older accepted set: it covers all that is left.
MarkerNeverGoesBack ==
  [][(marker \in Ids /\ marker' # marker) =>
       (PowerLoss \/ (marker' \in Ids /\ Held(marker) \subseteq Held(marker')))]_vars
=============================================================================
