----------------------- MODULE CheckpointStoreProofs -----------------------
(***************************************************************************)
(* Proofs about CheckpointStore, for any processes and any ledger.         *)
(*                                                                         *)
(* The properties speak of the marker; why they hold lies in what the      *)
(* publisher has done before it gets there.  CheckpointInv adds that all   *)
(* of it happens under the lock, that a target covers what the marker and  *)
(* everything returned before cover, less what a power loss has taken,     *)
(* that what a marker names has been flushed, the marker on disk included, *)
(* and that a live reader is never ahead of the marker.  Behind all this   *)
(* is the ledger: it covers every accepted set that is not lost.           *)
(***************************************************************************)
EXTENDS CheckpointStore, TLAPS

Targeted == {"rename", "persist", "writeMarker", "persistMarker", "collect"}

\* Only a live process is in an operation, and only the owner in a locked one.
LockFact(p) ==
  /\ pc[p] # "idle" => life[p] = "alive"
  /\ pc[p] \in LockedLabels => owner = p

\* The accepted set covers all that is not lost of another.
Covers(id, other) == Held(other) \subseteq Held(id)

\* Every accepted set after the present one, and only such, may be lost.
LedgerFacts ==
  /\ ledger <= issued /\ ledger \notin lost
  /\ \A set \in lost : set <= issued
  /\ \A set \in Ids : ledger < set /\ set <= issued => set \in lost

\* What a publisher or a collector knows of its target.
TargetFact(p) ==
  /\ began[p] <= ledger
  /\ pc[p] \in {"waitingToPrune", "resolve"} => began[p] = 0
  /\ pc[p] \in Targeted =>
       /\ target[p] \in Ids /\ target[p] <= issued /\ began[p] <= target[p]
       /\ newest \in Ids => Covers(target[p], newest)
       /\ marker \in Ids => Covers(target[p], marker)
       /\ target[p] = marker \/ target[p] \notin lost
  /\ pc[p] = "rename" => ~Complete(target[p])
  /\ pc[p] = "writeMarker" => target[p] \notin lost
  /\ pc[p] \in Targeted \ {"rename"} => Complete(target[p])
  /\ pc[p] \in Targeted \ {"rename", "persist"} => diskFiles[target[p]] = Both
  /\ pc[p] \in {"persistMarker", "collect"} => marker = target[p]
  /\ pc[p] = "collect" => diskMarker = marker

\* Later publications have moved the marker on from this checkpoint.
Superseded(id) == marker \in Ids \ lost /\ (id \in lost \/ id < marker)

\* The marker that a reader has followed is the one in place or an older one;
\* an older one if its files are missing.
ReaderFact(p) ==
  /\ pc[p] \in {"openMachine", "openHuman"} =>
       target[p] \in Ids /\ marker \in Ids /\ (target[p] = marker \/ Superseded(target[p]))
  /\ pc[p] = "reopenMarker" /\ target[p] \in Ids => Superseded(target[p])

\* What a marker names is complete and flushed, and covers what has returned.
Flushed(id) == Complete(id) /\ diskFiles[id] = Both
Named(id)   == Flushed(id) /\ id <= issued /\ (newest \in Ids => Covers(id, newest))

MarkerFacts ==
  /\ marker \in Ids => Named(marker)
  /\ diskMarker \in Ids => Named(diskMarker)
  /\ newest \in Ids => newest <= issued /\ \E id \in Ids : Covers(id, newest) /\ Flushed(id)

ProcessFacts == \A p \in Procs : LockFact(p) /\ TargetFact(p) /\ ReaderFact(p)

CheckpointInv == TypeOK /\ LedgerFacts /\ ProcessFacts /\ MarkerFacts

-----------------------------------------------------------------------------
LEMMA InitCheckpoint == Init => CheckpointInv
BY CheckpointAssumption
DEF Init, CheckpointInv, TypeOK, ProcessFacts, LockFact, TargetFact, MarkerFacts, ReaderFact,
    LedgerFacts, Named, Flushed, Complete, Both, Labels, LockedLabels, ReadLabels, Targeted,
    Markers, Ids, PublishLock!Init

\* A step of p that touches neither the files nor the markers.
LEMMA PrivateStep ==
  ASSUME CheckpointInv, TypeOK', NEW p \in Procs,
         UNCHANGED <<events, seen, disk, newest>>,
         \A q \in Procs \ {p} :
           /\ pc'[q] = pc[q] /\ target'[q] = target[q] /\ began'[q] = began[q]
           /\ life'[q] = life[q]
           /\ pc[q] \in LockedLabels => owner' = q,
         LockFact(p)', TargetFact(p)', ReaderFact(p)'
  PROVE  CheckpointInv'
<1>1. MarkerFacts' /\ LedgerFacts'
  BY DEF CheckpointInv, MarkerFacts, LedgerFacts, Named, Flushed, Complete, Covers, Held,
         seen, disk, events
<1>2. ASSUME NEW q \in Procs \ {p}
      PROVE  LockFact(q)' /\ TargetFact(q)' /\ ReaderFact(q)'
  BY <1>2 DEF CheckpointInv, ProcessFacts, LockFact, TargetFact, ReaderFact, Complete, Covers,
              Held, Superseded, seen, disk, events
<1>3. QED BY <1>1, <1>2 DEF CheckpointInv, ProcessFacts

\* The ledger covers every accepted set that there was, and every set itself.
LEMMA LedgerCovers ==
  ASSUME TypeOK, LedgerFacts, NEW id \in Ids, id <= issued
  PROVE  Covers(ledger, id) /\ Covers(id, id)
BY CheckpointAssumption DEF TypeOK, LedgerFacts, Covers, Held, Ids

\* While p holds the lock, no other process has a target to publish.
LEMMA OneTargeted ==
  ASSUME ProcessFacts, NEW p \in Procs, pc[p] \in LockedLabels, NEW q \in Procs, q # p
  PROVE  pc[q] \notin LockedLabels /\ pc[q] \notin Targeted
BY DEF ProcessFacts, LockFact, LockedLabels, Targeted

LEMMA TypeNext == CheckpointInv /\ [Next]_vars => TypeOK'
<1> SUFFICES ASSUME CheckpointInv, [Next]_vars
             PROVE  TypeOK'
  OBVIOUS
<1> USE CheckpointAssumption
    DEF CheckpointInv, TypeOK, Both, Labels, LockedLabels, ReadLabels,
        Markers, Ids, lock, seen, disk, locals, events, At, Goto, End, PublishLock!Alive
<1>1. ASSUME NEW p \in Procs, Start(p) \/ Exit(p) \/ ReclaimFromDead(p) \/ Begin(p)
      PROVE  TypeOK'
  <2>1. CASE Start(p)
    BY <2>1 DEF Start, PublishLock!Start
  <2>2. CASE Exit(p)
    BY <2>2 DEF Exit, PublishLock!Exit
  <2>3. CASE ReclaimFromDead(p)
    BY <2>3 DEF ReclaimFromDead, PublishLock!ReclaimFromDead
  <2>4. CASE Begin(p)
    BY <2>4 DEF Begin
  <2>5. QED BY <1>1, <2>1, <2>2, <2>3, <2>4
<1>2. ASSUME NEW p \in Procs, Lock(p) \/ LockTimesOut(p) \/ NothingToPrune(p) \/ Fail(p)
      PROVE  TypeOK'
  <2>1. CASE Lock(p)
    BY <2>1 DEF Lock, PublishLock!Acquire
  <2>2. CASE LockTimesOut(p)
    BY <2>2 DEF LockTimesOut
  <2>3. CASE NothingToPrune(p)
    BY <2>3 DEF NothingToPrune, PublishLock!Release
  <2>4. CASE Fail(p)
    BY <2>4 DEF Fail, PublishLock!Release
  <2>5. QED BY <1>2, <2>1, <2>2, <2>3, <2>4
<1>3. ASSUME NEW p \in Procs, Fold(p) \/ Resolve(p)
      PROVE  TypeOK'
  <2>1. CASE Fold(p)
    BY <2>1 DEF Fold, Folded
  <2>2. CASE Resolve(p)
    BY <2>2 DEF Resolve
  <2>3. QED BY <1>3, <2>1, <2>2
<1>4. ASSUME NEW p \in Procs, RemoveIncomplete(p) \/ Rename(p) \/ Collect(p)
      PROVE  TypeOK'
  <2>1. CASE RemoveIncomplete(p)
    BY <2>1 DEF RemoveIncomplete
  <2>2. CASE Rename(p)
    BY <2>2 DEF Rename
  <2>3. CASE Collect(p)
    BY <2>3 DEF Collect
  <2>4. QED BY <1>4, <2>1, <2>2, <2>3
<1>5. ASSUME NEW p \in Procs, Persist(p) \/ WriteMarker(p) \/ PersistMarker(p)
      PROVE  TypeOK'
  <2>1. CASE Persist(p)
    <3>1. diskFiles' \in [Ids -> SUBSET Both]
      BY <2>1 DEF Persist, Persisted
    <3>2. QED BY <2>1, <3>1 DEF Persist
  <2>2. CASE WriteMarker(p)
    BY <2>2 DEF WriteMarker
  <2>3. CASE PersistMarker(p)
    BY <2>3 DEF PersistMarker
  <2>4. QED BY <1>5, <2>1, <2>2, <2>3
<1>6. ASSUME NEW p \in Procs, CollectDone(p)
      PROVE  TypeOK'
  BY <1>6 DEF CollectDone, ProcessFacts, TargetFact, Targeted, PublishLock!Release
<1>7. ASSUME NEW p \in Procs, OpenMarker(p) \/ NoCheckpoint(p) \/ OpenMachine(p) \/ OpenHuman(p)
      PROVE  TypeOK'
  <2>1. CASE OpenMarker(p)
    BY <2>1 DEF OpenMarker
  <2>2. CASE NoCheckpoint(p)
    BY <2>2 DEF NoCheckpoint
  <2>3. CASE OpenMachine(p)
    BY <2>3 DEF OpenMachine
  <2>4. CASE OpenHuman(p)
    BY <2>4 DEF OpenHuman
  <2>5. QED BY <1>7, <2>1, <2>2, <2>3, <2>4
<1>8. ASSUME NEW p \in Procs, HumanMissing(p) \/ ChangedRepeatedly(p) \/ ReadFails(p)
      PROVE  TypeOK'
  <2>1. CASE HumanMissing(p)
    BY <2>1 DEF HumanMissing
  <2>2. CASE ChangedRepeatedly(p)
    BY <2>2 DEF ChangedRepeatedly
  <2>3. CASE ReadFails(p)
    BY <2>3 DEF ReadFails
  <2>4. QED BY <1>8, <2>1, <2>2, <2>3
<1>9. ASSUME NEW p \in Procs, ReadAgain(p)
      PROVE  TypeOK'
  <2>0. tries[p] \in 0..2 /\ tries[p] < 2
    BY <1>9 DEF ReadAgain, MayRetry
  <2>1. tries[p] + 1 \in 0..2
    BY <2>0
  <2>2. tries' \in [Procs -> 0..2]
    BY <1>9, <2>1 DEF ReadAgain
  <2>3. target' \in [Procs -> Ids \cup {Malformed}] /\ pc' \in [Procs -> Labels]
    BY <1>9 DEF ReadAgain, MarkerReplaced
  <2>4. QED BY <1>9, <2>2, <2>3 DEF ReadAgain
<1>10. CASE LedgerGrows \/ LedgerFlushed
  <2>1. issued < MaxLedger => issued + 1 \in Ids
    OBVIOUS
  <2>2. CASE LedgerGrows
    BY <2>1, <2>2 DEF LedgerGrows
  <2>3. CASE LedgerFlushed
    BY <2>3 DEF LedgerFlushed
  <2>4. QED BY <1>10, <2>2, <2>3
<1>11. CASE PowerLoss
  BY <1>11 DEF PowerLoss
<1>12. CASE UNCHANGED vars
  BY <1>12 DEF vars
<1>13. QED
  BY <1>1, <1>2, <1>3, <1>4, <1>5, <1>6, <1>7, <1>8, <1>9, <1>10, <1>11, <1>12
  DEF Next, Write, ReadSnapshot

\* A step of p, which holds the lock: the others are at most waiting for it or read.
LEMMA OwnerStep ==
  ASSUME CheckpointInv, TypeOK', NEW p \in Procs, pc[p] \in LockedLabels,
         UNCHANGED <<life, events>>,
         \A q \in Procs \ {p} :
           pc'[q] = pc[q] /\ target'[q] = target[q] /\ began'[q] = began[q],
         LockFact(p)', TargetFact(p)', ReaderFact(p)', MarkerFacts',
         marker' # marker => \A q \in Procs \ {p} : ReaderFact(q)'
  PROVE  CheckpointInv'
<1>1. LedgerFacts'
  BY DEF CheckpointInv, LedgerFacts, events
<1>2. ASSUME NEW q \in Procs \ {p}
      PROVE  LockFact(q)' /\ TargetFact(q)' /\ ReaderFact(q)'
  <2>1. pc[q] \notin LockedLabels /\ pc[q] \notin Targeted
    BY OneTargeted DEF CheckpointInv
  <2>2. LockFact(q)'
    BY <2>1 DEF CheckpointInv, ProcessFacts, LockFact
  <2>3. TargetFact(q)'
    BY <2>1 DEF CheckpointInv, ProcessFacts, TargetFact, events, Targeted
  <2>4. ReaderFact(q)'
    BY DEF CheckpointInv, ProcessFacts, ReaderFact, Superseded, events
  <2>5. QED BY <2>2, <2>3, <2>4
<1>3. QED BY <1>1, <1>2 DEF CheckpointInv, ProcessFacts

\* Files of other checkpoints than those that are named may change.
LEMMA MarkersKept ==
  ASSUME MarkerFacts, UNCHANGED <<events, marker, diskMarker, newest>>,
         \A id \in Ids : Flushed(id) => Flushed(id)'
  PROVE  MarkerFacts'
BY DEF MarkerFacts, Named, Covers, Held, events

LEMMA NextCheckpoint == CheckpointInv /\ [Next]_vars => CheckpointInv'
<1> SUFFICES ASSUME CheckpointInv, [Next]_vars
             PROVE  CheckpointInv'
  OBVIOUS
<1>t. TypeOK /\ TypeOK' /\ LedgerFacts /\ ProcessFacts /\ MarkerFacts
  BY TypeNext DEF CheckpointInv
<1>f. \A p \in Procs : LockFact(p) /\ TargetFact(p) /\ ReaderFact(p)
  BY <1>t DEF ProcessFacts
<1> USE CheckpointAssumption, <1>t, <1>f
<1>1. ASSUME NEW p \in Procs, Start(p) \/ Exit(p) \/ ReclaimFromDead(p) \/ Begin(p)
      PROVE  CheckpointInv'
  <2> USE DEF TypeOK, LockFact, TargetFact, ReaderFact, MarkerFacts, Named, Flushed, Complete,
            Both, Labels, LockedLabels, ReadLabels, Targeted, Markers, Ids,
            lock, seen, disk, locals, events, At, Goto, End, PublishLock!Alive
  <2>1. CASE Start(p)
    BY <2>1, PrivateStep DEF Start, PublishLock!Start
  <2>2. CASE Exit(p)
    BY <2>2, PrivateStep DEF Exit, PublishLock!Exit
  <2>3. CASE ReclaimFromDead(p)
    BY <2>3, PrivateStep DEF ReclaimFromDead, PublishLock!ReclaimFromDead
  <2>4. CASE Begin(p)
    BY <2>4, PrivateStep DEF Begin
  <2>5. QED BY <1>1, <2>1, <2>2, <2>3, <2>4
<1>2. ASSUME NEW p \in Procs, LockTimesOut(p) \/ NothingToPrune(p) \/ Fail(p)
      PROVE  CheckpointInv'
  <2> USE DEF TypeOK, LockFact, TargetFact, ReaderFact, MarkerFacts, Named, Flushed, Complete,
            Both, Labels, LockedLabels, ReadLabels, Targeted, Markers, Ids,
            lock, seen, disk, locals, events, At, Goto, End, PublishLock!Alive
  <2>1. CASE LockTimesOut(p)
    BY <2>1, PrivateStep DEF LockTimesOut
  <2>2. CASE NothingToPrune(p)
    BY <2>2, PrivateStep DEF NothingToPrune, PublishLock!Release
  <2>3. CASE Fail(p)
    BY <2>3, PrivateStep DEF Fail, PublishLock!Release
  <2>4. QED BY <1>2, <2>1, <2>2, <2>3
<1>3. ASSUME NEW p \in Procs, OpenMarker(p) \/ NoCheckpoint(p) \/ OpenHuman(p)
      PROVE  CheckpointInv'
  <2> USE DEF TypeOK, LockFact, TargetFact, ReaderFact, MarkerFacts, Named, Flushed, Complete,
            Both, Labels, LockedLabels, ReadLabels, Targeted, Markers, Ids,
            lock, seen, disk, locals, events, At, Goto, End, PublishLock!Alive
  <2>1. CASE OpenMarker(p)
    BY <2>1, PrivateStep DEF OpenMarker
  <2>2. CASE NoCheckpoint(p)
    BY <2>2, PrivateStep DEF NoCheckpoint
  <2>3. CASE OpenHuman(p)
    BY <2>3, PrivateStep DEF OpenHuman
  <2>4. QED BY <1>3, <2>1, <2>2, <2>3
<1>4. ASSUME NEW p \in Procs, ReadAgain(p) \/ ChangedRepeatedly(p) \/ ReadFails(p)
      PROVE  CheckpointInv'
  <2> USE DEF TypeOK, LockFact, TargetFact, ReaderFact, MarkerFacts, Named, Flushed, Complete,
            Both, Labels, LockedLabels, ReadLabels, Targeted, Markers, Ids,
            lock, seen, disk, locals, events, At, Goto, End, PublishLock!Alive
  <2>1. CASE ReadAgain(p)
    BY <2>1, PrivateStep DEF ReadAgain, MarkerReplaced
  <2>2. CASE ChangedRepeatedly(p)
    BY <2>2, PrivateStep DEF ChangedRepeatedly
  <2>3. CASE ReadFails(p)
    BY <2>3, PrivateStep DEF ReadFails, MarkerReplaced
  <2>4. QED BY <1>4, <2>1, <2>2, <2>3
<1>5. ASSUME NEW p \in Procs, Lock(p)
      PROVE  CheckpointInv'
  <2>1. /\ pc[p] \in {"waitingToPublish", "waitingToPrune"} /\ life[p] = "alive" /\ owner = NoProc
        /\ UNCHANGED <<life, locals, events, seen, disk, newest>> /\ owner' = p
        /\ \E label \in {"fold", "resolve"} : pc' = [pc EXCEPT ![p] = label]
    BY <1>5 DEF Lock, PublishLock!Acquire, At, Goto, PublishLock!Alive
  <2>2. \A q \in Procs : pc[q] \notin LockedLabels
    BY <2>1 DEF LockFact
  <2>3. /\ pc'[p] \in {"fold", "resolve"} /\ UNCHANGED <<began, target, ledger>>
        /\ pc'[p] = "resolve" => pc[p] = "waitingToPrune"
    BY <1>5 DEF Lock, At, Goto, TypeOK, locals, events
  <2>4. LockFact(p)'
    BY <2>1, <2>3 DEF LockFact
  <2>5. TargetFact(p)'
    BY <2>3 DEF TargetFact, Targeted
  <2>6. ReaderFact(p)'
    BY <2>3 DEF ReaderFact
  <2>7. QED BY <2>1, <2>2, <2>4, <2>5, <2>6, PrivateStep DEF TypeOK, locals
<1>6. ASSUME NEW p \in Procs, Fold(p)
      PROVE  CheckpointInv'
  <2>1. /\ pc[p] = "fold" /\ UNCHANGED <<owner, life, began, events, seen, disk, newest>>
        /\ target' = [target EXCEPT ![p] = ledger] /\ life[p] = "alive"
        /\ pc' = [pc EXCEPT ![p] = IF files[ledger] = Both THEN "persist" ELSE "rename"]
    BY <1>6 DEF Fold, Folded, Complete, At, Goto, lock, PublishLock!Alive
  <2>2. ledger \in Ids /\ ledger <= issued /\ ledger \notin lost /\ began[p] <= ledger
    BY DEF TypeOK, LedgerFacts, TargetFact
  <2>3. /\ marker \in Ids => Covers(ledger, marker)
        /\ newest \in Ids => Covers(ledger, newest)
    BY LedgerCovers DEF MarkerFacts, Named
  <2>4. /\ marker' \in Ids => Covers(ledger, marker)'
        /\ newest' \in Ids => Covers(ledger, newest)'
    BY <2>1, <2>3 DEF Covers, Held, events, seen
  <2>5. target'[p] = ledger' /\ pc'[p] = IF files[ledger] = Both THEN "persist" ELSE "rename"
    BY <2>1 DEF TypeOK, events
  <2>6. LockFact(p)'
    BY <2>1 DEF LockFact, LockedLabels, TypeOK
  <2>7. TargetFact(p)'
    BY <2>1, <2>2, <2>4, <2>5 DEF TargetFact, Targeted, Complete, Covers, events, seen, disk
  <2>8. ReaderFact(p)'
    BY <2>5 DEF ReaderFact
  <2>9. QED BY <2>1, <2>6, <2>7, <2>8, PrivateStep DEF TypeOK, LockFact
<1>7. ASSUME NEW p \in Procs, Resolve(p)
      PROVE  CheckpointInv'
  <2>1. /\ pc[p] = "resolve" /\ UNCHANGED <<owner, life, began, events, seen, disk, newest>>
        /\ target' = [target EXCEPT ![p] = marker] /\ life[p] = "alive"
        /\ pc' = [pc EXCEPT ![p] = "persist"] /\ marker \in Ids
    BY <1>7 DEF Resolve, At, Goto, lock, PublishLock!Alive
  <2>2. /\ Flushed(marker) /\ marker <= issued /\ began[p] <= marker /\ Covers(marker, marker)
        /\ newest \in Ids => Covers(marker, newest)
    BY <2>1, LedgerCovers DEF MarkerFacts, Named, Ids, TargetFact
  <2>3. /\ marker' \in Ids => Covers(marker, marker)'
        /\ newest' \in Ids => Covers(marker, newest)'
    BY <2>1, <2>2 DEF Covers, Held, events, seen
  <2>4. target'[p] = marker' /\ pc'[p] = "persist"
    BY <2>1 DEF TypeOK, seen
  <2>5. LockFact(p)'
    BY <2>1 DEF LockFact, LockedLabels, TypeOK
  <2>6. TargetFact(p)'
    BY <2>1, <2>2, <2>3, <2>4
    DEF TargetFact, Targeted, Flushed, Complete, Covers, events, seen, disk
  <2>7. ReaderFact(p)'
    BY <2>4 DEF ReaderFact
  <2>8. QED BY <2>1, <2>5, <2>6, <2>7, PrivateStep DEF TypeOK, LockFact
<1>8. ASSUME NEW p \in Procs, OpenMachine(p) \/ HumanMissing(p)
      PROVE  CheckpointInv'
  <2>1. /\ pc[p] \in {"openMachine", "openHuman"} /\ life[p] = "alive"
        /\ UNCHANGED <<owner, life, locals, events, seen, disk, newest>>
        /\ \E label \in {"openHuman", "reopenMarker"} :
             /\ pc' = [pc EXCEPT ![p] = label]
             /\ label = "reopenMarker" => files[target[p]] # Both
    BY <1>8 DEF OpenMachine, HumanMissing, At, Goto, lock, Both, PublishLock!Alive
  <2>2. /\ target[p] \in Ids /\ marker \in Ids /\ files[marker] = Both
        /\ target[p] = marker \/ Superseded(target[p])
    BY <2>1 DEF ReaderFact, MarkerFacts, Named, Flushed, Complete
  <2>3. /\ pc'[p] \in {"openHuman", "reopenMarker"}
        /\ pc'[p] = "reopenMarker" => Superseded(target[p])
    BY <2>1, <2>2 DEF TypeOK
  <2>4. LockFact(p)'
    BY <2>1, <2>3 DEF LockFact, LockedLabels
  <2>5. TargetFact(p)'
    BY <2>1, <2>3 DEF TargetFact, Targeted, locals, events
  <2>6. ReaderFact(p)'
    BY <2>1, <2>2, <2>3 DEF ReaderFact, Superseded, locals, seen, events
  <2>7. QED BY <2>1, <2>4, <2>5, <2>6, PrivateStep DEF TypeOK, LockFact, locals
<1>9. ASSUME NEW p \in Procs, RemoveIncomplete(p) \/ Rename(p)
      PROVE  CheckpointInv'
  <2>1. /\ pc[p] = "rename" /\ life[p] = "alive" /\ target[p] \in Ids
        /\ UNCHANGED <<lock, locals, events, marker, disk, newest>>
        /\ \E new \in {{}, Both}, label \in {"rename", "persist"} :
             /\ files' = [files EXCEPT ![target[p]] = new] /\ pc' = [pc EXCEPT ![p] = label]
             /\ label = "rename" <=> new # Both
    BY <1>9 DEF RemoveIncomplete, Rename, At, Goto, Both, TypeOK, TargetFact, Targeted,
                PublishLock!Alive
  <2>2. ~Complete(target[p]) /\ owner = p
    BY <2>1 DEF TargetFact, LockFact, LockedLabels
  <2>3. \A id \in Ids : Flushed(id) => Flushed(id)'
    BY <2>1, <2>2 DEF Flushed, Complete, TypeOK, disk
  <2>4. MarkerFacts'
    BY <2>1, <2>3, MarkersKept DEF disk
  <2>5. pc'[p] = IF files'[target[p]] = Both THEN "persist" ELSE "rename"
    BY <2>1 DEF TypeOK, Both
  <2>6. LockFact(p)'
    BY <2>1, <2>2, <2>5 DEF LockFact, lock
  <2>7. TargetFact(p)'
    BY <2>1, <2>5 DEF TargetFact, Targeted, Complete, Covers, Held, locals, events, disk
  <2>8. ReaderFact(p)'
    BY <2>5 DEF ReaderFact
  <2>9. QED BY <2>1, <2>4, <2>6, <2>7, <2>8, OwnerStep DEF LockedLabels, TypeOK, lock, locals
<1>10. ASSUME NEW p \in Procs, Persist(p)
      PROVE  CheckpointInv'
  <2>1. /\ pc[p] = "persist" /\ life[p] = "alive"
        /\ UNCHANGED <<lock, locals, events, seen, diskMarker, newest>>
        /\ diskFiles' = [diskFiles EXCEPT ![target[p]] = files[target[p]]]
        /\ pc' = [pc EXCEPT ![p] = IF marker = target[p] THEN "persistMarker" ELSE "writeMarker"]
    BY <1>10 DEF Persist, Persisted, AlreadyCurrent, At, Goto, PublishLock!Alive
  <2>2. target[p] \in Ids /\ Complete(target[p]) /\ owner = p
    BY <2>1 DEF TargetFact, Targeted, LockFact, LockedLabels
  <2>3. \A id \in Ids : Flushed(id) => Flushed(id)'
    BY <2>1, <2>2 DEF Flushed, Complete, TypeOK, seen
  <2>4. MarkerFacts'
    BY <2>1, <2>3, MarkersKept DEF seen
  <2>5. pc'[p] = IF marker = target[p] THEN "persistMarker" ELSE "writeMarker"
    BY <2>1 DEF TypeOK
  <2>6. diskFiles'[target[p]] = Both
    BY <2>1, <2>2 DEF TypeOK, Complete
  <2>7. LockFact(p)'
    BY <2>1, <2>2, <2>5 DEF LockFact, lock
  <2>8. TargetFact(p)'
    BY <2>1, <2>2, <2>5, <2>6
    DEF TargetFact, Targeted, Complete, Covers, Held, locals, events, seen
  <2>9. ReaderFact(p)'
    BY <2>5 DEF ReaderFact
  <2>10. QED BY <2>1, <2>4, <2>7, <2>8, <2>9, OwnerStep DEF LockedLabels, TypeOK, lock, locals, seen
<1>11. ASSUME NEW p \in Procs, WriteMarker(p)
      PROVE  CheckpointInv'
  <2>1. /\ pc[p] = "writeMarker" /\ life[p] = "alive"
        /\ UNCHANGED <<lock, locals, events, files, disk, newest>>
        /\ marker' = target[p] /\ pc' = [pc EXCEPT ![p] = "persistMarker"]
    BY <1>11 DEF WriteMarker, At, Goto, PublishLock!Alive
  <2>2. /\ target[p] \in Ids /\ target[p] <= issued /\ target[p] \notin lost /\ Flushed(target[p])
        /\ newest \in Ids => Covers(target[p], newest)
        /\ marker \in Ids => Covers(target[p], marker)
        /\ owner = p
    BY <2>1 DEF TargetFact, Targeted, Flushed, LockFact, LockedLabels
  <2>3. MarkerFacts'
    BY <2>1, <2>2
    DEF MarkerFacts, Named, Flushed, Complete, Covers, Held, events, disk
  <2>4. pc'[p] = "persistMarker" /\ target'[p] = marker'
    BY <2>1 DEF TypeOK, locals
  <2>5. LockFact(p)'
    BY <2>1, <2>2, <2>4 DEF LockFact, lock
  <2>6. TargetFact(p)'
    <3>1. Covers(target[p], target[p])
      BY <2>2, LedgerCovers
    <3>2. QED
      BY <2>1, <2>4, <3>1
      DEF TargetFact, Targeted, Complete, Covers, Held, locals, events, disk
  <2>7. ReaderFact(p)'
    BY <2>4 DEF ReaderFact
  <2>8. ASSUME NEW q \in Procs \ {p} PROVE ReaderFact(q)'
    <3>1. pc'[q] = pc[q] /\ target'[q] = target[q] /\ marker' \in Ids \ lost /\ lost' = lost
      BY <2>1, <2>2 DEF TypeOK, locals, events
    <3>2. marker \in Ids \ lost => marker <= marker'
      BY <2>1, <2>2 DEF Covers, Held, Ids
    <3>3. \A id \in Ids : Superseded(id) => Superseded(id)'
      BY <3>1, <3>2 DEF Superseded, Ids
    <3>4. target[q] \in Ids /\ target[q] = marker => target[q] = marker' \/ Superseded(target[q])'
      BY <3>1, <3>2 DEF Superseded, Ids
    <3>5. QED BY <3>1, <3>3, <3>4 DEF ReaderFact, Superseded
  <2>9. QED BY <2>1, <2>3, <2>5, <2>6, <2>7, <2>8, OwnerStep DEF LockedLabels, TypeOK, lock, locals
<1>12. ASSUME NEW p \in Procs, PersistMarker(p)
      PROVE  CheckpointInv'
  <2>1. /\ pc[p] = "persistMarker" /\ life[p] = "alive"
        /\ UNCHANGED <<lock, locals, events, seen, diskFiles, newest>>
        /\ diskMarker' = marker /\ pc' = [pc EXCEPT ![p] = "collect"]
    BY <1>12 DEF PersistMarker, At, Goto, PublishLock!Alive
  <2>2. owner = p
    BY <2>1 DEF LockFact, LockedLabels
  <2>3. MarkerFacts'
    BY <2>1 DEF MarkerFacts, Named, Flushed, Complete, Covers, Held, events, seen
  <2>4. pc'[p] = "collect"
    BY <2>1 DEF TypeOK
  <2>5. LockFact(p)'
    BY <2>1, <2>2, <2>4 DEF LockFact, lock
  <2>6. TargetFact(p)'
    BY <2>1, <2>4 DEF TargetFact, Targeted, Complete, Covers, Held, locals, events, seen
  <2>7. ReaderFact(p)'
    BY <2>4 DEF ReaderFact
  <2>8. QED BY <2>1, <2>3, <2>5, <2>6, <2>7, OwnerStep DEF LockedLabels, TypeOK, lock, locals, seen
<1>13. ASSUME NEW p \in Procs, Collect(p)
      PROVE  CheckpointInv'
  <2>1. /\ pc[p] = "collect" /\ life[p] = "alive"
        /\ UNCHANGED <<lock, pc, locals, events, marker, disk, newest>>
        /\ \E id \in Ids \ {target[p]}, new \in SUBSET Both : files' = [files EXCEPT ![id] = new]
    BY <1>13 DEF Collect, At, Both, TypeOK, PublishLock!Alive
  <2>2. /\ target[p] \in Ids /\ target[p] <= issued /\ Flushed(target[p])
        /\ marker = target[p] /\ diskMarker = target[p]
        /\ newest \in Ids => Covers(target[p], newest)
    BY <2>1 DEF TargetFact, Targeted, Flushed
  <2>3. Flushed(target[p])'
    BY <2>1, <2>2 DEF Flushed, Complete, TypeOK, locals, disk
  <2>4. MarkerFacts'
    BY <2>1, <2>2, <2>3
    DEF MarkerFacts, Named, Flushed, Complete, Covers, Held, locals, events, disk
  <2>5. LockFact(p)'
    BY <2>1 DEF LockFact, lock
  <2>6. TargetFact(p)'
    BY <2>1, <2>2, <2>3
    DEF TargetFact, Targeted, Flushed, Complete, Covers, Held, locals, events, disk
  <2>7. ReaderFact(p)'
    BY <2>1 DEF ReaderFact
  <2>8. QED BY <2>1, <2>4, <2>5, <2>6, <2>7, OwnerStep DEF LockedLabels, lock, locals
<1>14. ASSUME NEW p \in Procs, CollectDone(p)
      PROVE  CheckpointInv'
  <2>1. /\ pc[p] = "collect" /\ life[p] = "alive"
        /\ UNCHANGED <<life, events, seen, disk>>
        /\ newest' = newest \/ newest' = target[p]
        /\ pc' = [pc EXCEPT ![p] = "idle"] /\ target' = [target EXCEPT ![p] = 0]
        /\ began' = [began EXCEPT ![p] = 0]
    BY <1>14 DEF CollectDone, End, At, Goto, PublishLock!Release, PublishLock!Alive
  <2>2. /\ target[p] \in Ids /\ target[p] <= issued /\ Flushed(target[p])
        /\ marker = target[p] /\ diskMarker = target[p]
        /\ newest \in Ids => Covers(target[p], newest)
        /\ Covers(target[p], target[p])
    BY <2>1, LedgerCovers DEF TargetFact, Targeted, Flushed
  <2>3. newest' \in Ids => newest' <= issued'
    BY <2>1, <2>2 DEF MarkerFacts, events
  <2>4. MarkerFacts'
    <3>1. PICK id \in Ids : id = target[p]
      BY <2>2
    <3>2. /\ marker' = id /\ diskMarker' = id /\ issued' = issued /\ lost' = lost
          /\ files' = files /\ diskFiles' = diskFiles
      BY <2>1, <2>2, <3>1 DEF events, seen, disk
    <3>3. (newest \in Ids => Covers(id, newest)) /\ Covers(id, id) /\ (newest' = newest \/ newest' = id)
      BY <2>1, <2>2, <3>1
    <3>4. newest' \in Ids => Covers(id, newest)'
      BY <3>2, <3>3 DEF Covers, Held
    <3>5. Flushed(id)' /\ id <= issued' /\ (newest' \in Ids => newest' <= issued')
      BY <2>2, <2>3, <3>1, <3>2 DEF Flushed, Complete
    <3>6. QED
      BY <3>2, <3>4, <3>5 DEF MarkerFacts, Named, Flushed, Complete, Covers
  <2>5. pc'[p] = "idle" /\ began'[p] = 0
    BY <2>1 DEF TypeOK
  <2>6. LockFact(p)'
    BY <2>5 DEF LockFact, LockedLabels
  <2>7. TargetFact(p)'
    BY <2>5 DEF TargetFact, Targeted, TypeOK, Ids
  <2>8. ReaderFact(p)'
    BY <2>5 DEF ReaderFact
  <2>9. QED BY <2>1, <2>4, <2>6, <2>7, <2>8, OwnerStep DEF LockedLabels, TypeOK, seen
<1>15. CASE LedgerGrows \/ LedgerFlushed
  <2>1. /\ UNCHANGED <<lock, pc, locals, lost, seen, disk, newest>>
        /\ \/ ledger' = ledger /\ issued' = issued
           \/ ledger' = issued + 1 /\ issued' = issued + 1
    BY <1>15 DEF LedgerGrows, LedgerFlushed
  <2>2. issued <= issued' /\ ledger <= ledger'
    BY <2>1 DEF LedgerFacts, TypeOK, Ids
  <2>3. LedgerFacts'
    <3>1. CASE issued' = issued
      BY <2>1, <3>1 DEF LedgerFacts, TypeOK, Ids
    <3>2. CASE issued' = issued + 1
      BY <2>1, <3>2 DEF LedgerFacts, TypeOK, Ids
    <3>3. QED BY <2>1, <3>1, <3>2
  <2>4. MarkerFacts'
    BY <2>1, <2>2
    DEF MarkerFacts, Named, Flushed, Complete, Covers, Held, TypeOK, Ids, seen, disk
  <2>5. ASSUME NEW p \in Procs
        PROVE  LockFact(p)' /\ TargetFact(p)' /\ ReaderFact(p)'
    <3>1. LockFact(p)'
      BY <2>1 DEF LockFact, lock
    <3>2. TargetFact(p)'
      BY <2>1, <2>2
      DEF TargetFact, Complete, Covers, Held, TypeOK, Ids, locals, seen, disk
    <3>3. ReaderFact(p)'
      BY <2>1 DEF ReaderFact, Superseded, locals, seen
    <3>4. QED BY <3>1, <3>2, <3>3
  <2>6. QED BY <2>3, <2>4, <2>5 DEF CheckpointInv, ProcessFacts
<1>16. CASE PowerLoss
  <2>1. PICK set \in Ids : /\ set \notin lost /\ set <= ledger /\ ledger' = set
                          /\ lost' = lost \cup (set + 1)..issued /\ issued' = issued
    BY <1>16 DEF PowerLoss, TypeOK, Ids
  <2>2. LedgerFacts'
    BY <2>1 DEF LedgerFacts, TypeOK, Ids
  <2>3. \A p \in Procs : pc'[p] = "idle" /\ began'[p] = 0
    BY <1>16 DEF PowerLoss
  <2>4. ProcessFacts'
    BY <2>1, <2>3
    DEF ProcessFacts, LockFact, TargetFact, ReaderFact, LockedLabels, Targeted, Ids
  <2>5. \A id \in Ids : Flushed(id) => Flushed(id)'
    BY <1>16 DEF PowerLoss, Flushed, Complete, Both
  <2>6. \A id \in Ids, other \in Ids : Covers(id, other) => Covers(id, other)'
    BY <2>1 DEF Covers, Held
  <2>7. /\ marker' \in Ids => marker' \in {marker, diskMarker}
        /\ diskMarker' = marker' /\ newest' = newest
    BY <1>16 DEF PowerLoss, TypeOK, Markers
  <2>8. MarkerFacts'
    BY <2>1, <2>5, <2>6, <2>7 DEF MarkerFacts, Named
  <2>9. QED BY <2>2, <2>4, <2>8 DEF CheckpointInv
<1>17. CASE UNCHANGED vars
  BY <1>17
  DEF vars, CheckpointInv, ProcessFacts, LockFact, TargetFact, ReaderFact, MarkerFacts,
      LedgerFacts, Named, Flushed, Complete, Covers, Held, Superseded,
      lock, seen, disk, locals, events
<1>18. QED
  BY <1>1, <1>2, <1>3, <1>4, <1>5, <1>6, <1>7, <1>8, <1>9, <1>10, <1>11, <1>12, <1>13, <1>14,
     <1>15, <1>16, <1>17
  DEF Next, Write, ReadSnapshot

LEMMA CheckpointInvariance == Spec => []CheckpointInv
BY InitCheckpoint, NextCheckpoint, PTL DEF Spec

-----------------------------------------------------------------------------
\* The variables of the checkpoint store keep their types.
THEOREM CheckpointTypeCorrect == Spec => []TypeOK
BY CheckpointInvariance, PTL DEF CheckpointInv

\* A marker that can be read names a complete checkpoint, and what has been
\* returned as published stays complete and flushed until another is that covers
\* all of it which the ledger still holds, through collections, failed calls,
\* deaths, and power losses that take accepted events with them.
THEOREM PublishedSurvivesHolds == Spec => []PublishedSurvives
<1>1. CheckpointInv => PublishedSurvives
  BY DEF CheckpointInv, MarkerFacts, Named, Flushed, Covers, PublishedSurvives
<1>2. QED BY <1>1, CheckpointInvariance, PTL

\* Nobody publishes between a publisher's marker and its release of the lock, and
\* what it publishes covers what was accepted when it was called.
THEOREM PublicationCoversHolds == Spec => []PublicationCovers
<1>1. CheckpointInv => PublicationCovers
  BY DEF CheckpointInv, ProcessFacts, TargetFact, Targeted, PublicationCovers, At
<1>2. QED BY <1>1, CheckpointInvariance, PTL

\* A read fails because of a malformed marker only, never because of a collection.
THEOREM ReadsFollowMarkerHolds == Spec => ReadsFollowMarker
<1>1. CheckpointInv /\ [Next]_vars =>
        [\A p \in Procs : ReadFails(p) => target[p] = Malformed]_vars
  <2> SUFFICES ASSUME CheckpointInv, NEW p \in Procs, ReadFails(p)
               PROVE  target[p] = Malformed
    OBVIOUS
  <2>1. pc[p] = "reopenMarker" /\ (marker = target[p] \/ marker = NoMarker)
    BY DEF ReadFails, At, MarkerReplaced
  <2>2. target[p] \notin Ids
    BY <2>1, CheckpointAssumption DEF CheckpointInv, ProcessFacts, ReaderFact, Superseded, Ids
  <2>3. QED BY <2>2 DEF CheckpointInv, TypeOK
<1>2. QED BY <1>1, CheckpointInvariance, PTL DEF Spec, ReadsFollowMarker

\* Only a power loss ever takes the marker back; a publication covers all that the
\* marker covered, less what a power loss has taken from the ledger.
THEOREM MarkerNeverGoesBackHolds == Spec => MarkerNeverGoesBack
<1> DEFINE Forward ==
      (marker \in Ids /\ marker' # marker) =>
        (PowerLoss \/ (marker' \in Ids /\ Held(marker) \subseteq Held(marker')))
<1>1. CheckpointInv /\ [Next]_vars => [Forward]_vars
  <2> SUFFICES ASSUME CheckpointInv, Next, marker \in Ids, marker' # marker, ~PowerLoss
               PROVE  marker' \in Ids /\ Held(marker) \subseteq Held(marker')
    OBVIOUS
  <2>1. PICK p \in Procs : WriteMarker(p)
    BY DEF Next, Write, ReadSnapshot, Start, Exit, ReclaimFromDead, Begin, Lock, LockTimesOut,
           Fold, Resolve, NothingToPrune, RemoveIncomplete, Rename, Persist, PersistMarker,
           Collect, CollectDone, Fail, OpenMarker, NoCheckpoint, OpenMachine, OpenHuman,
           HumanMissing, ReadAgain, ChangedRepeatedly, ReadFails, LedgerGrows, LedgerFlushed, seen
  <2>2. marker' = target[p] /\ target[p] \in Ids /\ Covers(target[p], marker)
    BY <2>1 DEF WriteMarker, At, CheckpointInv, ProcessFacts, TargetFact, Targeted
  <2>3. QED BY <2>2 DEF Covers
<1>2. QED BY <1>1, CheckpointInvariance, PTL DEF Spec, MarkerNeverGoesBack
=============================================================================
