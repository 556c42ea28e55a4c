------------------------ MODULE FsTransactionProofs ------------------------
(***************************************************************************)
(* Proofs about FsTransaction, for any runs, plans and edits.              *)
(*                                                                         *)
(* NothingLost asks where a content is; FsInv says it path by path.  What  *)
(* was found is in the backup of a write, for good; or in the backup of a  *)
(* removal; or else in the file, and then no run is about to replace it.   *)
(* What somebody else has written is in the file, or in the backup of a    *)
(* removal, and surely there while a run decides about the path.           *)
(*                                                                         *)
(* RolledBackAsFound asks what a finished rollback leaves; UndoInv says at *)
(* every step, of the paths that nobody else touches, which operation has  *)
(* taken a path, what it found there, and what the rollback, from the last *)
(* operation to the first, has put back so far.                            *)
(***************************************************************************)
EXTENDS FsTransaction, WellFoundedInduction, TLAPS

ApplyLabels == {"preflight", "apply", "lock", "look", "backUp", "write", "finishWrite",
                "rename", "finishRemove"}
BackedLabels == {"write", "finishWrite", "finishRemove"}

\* Where a run is, and what that says of its operation and of the next ones.
RunFact(t) ==
  /\ pos[t] \in OpsOf(t) /\ (run[t] = "preflight" => pos[t] = 1)
  /\ run[t] \in ApplyLabels => \A i \in OpsOf(t) : i >= pos[t] =>
       status[t][i] = "planned" /\ (saved[t][i] = Absent \/ i = pos[t])
  /\ run[t] \in ApplyLabels \ BackedLabels => saved[t][pos[t]] = Absent
  /\ run[t] \in {"lock", "look", "backUp", "write", "finishWrite"} => Current(t).kind = "write"
  /\ run[t] \in {"rename", "finishRemove"} => Current(t).kind = "remove"
  /\ run[t] \in {"restore", "finishRestore"} =>
       Current(t).kind = "write" /\ status[t][pos[t]] = "applied"
  /\ run[t] = "renameBack" =>
       Current(t).kind = "remove" /\ status[t][pos[t]] = "applied" /\ saved[t][pos[t]] # Absent
  /\ run[t] \in {"look", "backUp", "write", "finishWrite"} =>
       FoundFiles[Path(t)] # Current(t).content
  /\ \A i \in OpsOf(t) : Op(t, i).kind = "write" /\ status[t][i] = "applied" =>
       FoundFiles[Op(t, i).path] # Op(t, i).content

Backed(p, kind, content) ==
  \E t \in Transactions : \E i \in OpsOf(t) :
    Op(t, i).kind = kind /\ Op(t, i).path = p /\ saved[t][i] = content

\* A run is about to replace what is at p, in the plan or in a rollback.
AboutTo(p) == \E t \in Transactions : run[t] \in {"write", "restore"} /\ Path(t) = p

\* What was found at a path that nobody else has written.
FoundFact(p) ==
  \/ Backed(p, "write", FoundFiles[p])
  \/ Backed(p, "remove", FoundFiles[p])
  \/ files[p] = FoundFiles[p] /\ ~ AboutTo(p)

\* What somebody else has written.
EditFact(p) ==
  \/ Backed(p, "remove", Edits[p])
  \/ files[p] = Edits[p] /\ ~ Decided(p)

FsShape ==
  /\ DOMAIN files = Paths /\ edited \subseteq DOMAIN Edits
  /\ DOMAIN run = Transactions /\ DOMAIN pos = Transactions
  /\ DOMAIN status = Transactions /\ DOMAIN saved = Transactions
  /\ \A t \in Transactions : DOMAIN status[t] = OpsOf(t) /\ DOMAIN saved[t] = OpsOf(t)

FsInv ==
  /\ FsShape
  /\ \A t \in Transactions : RunFact(t)
  /\ \A p \in FilePaths \ raced : IF p \in edited THEN EditFact(p) ELSE
       FoundFiles[p] \notin {Dir, Absent} => FoundFact(p)

-----------------------------------------------------------------------------
(* The order of a rollback *)

LEMMA Least ==
  ASSUME NEW T \in SUBSET Nat, T # {}
  PROVE  \E n \in T : \A m \in T : n <= m
<1> DEFINE less == {ss \in Nat \X Nat : ss[1] < ss[2]}
<1>1. IsWellFoundedOn(less, Nat)
  BY NatLessThanWellFounded, Zenon DEF OpToRel
<1>2. \A m, n \in Nat : m < n => <<m, n>> \in less
  OBVIOUS
<1> HIDE DEF less
<1>3. PICK n \in T : \A m \in T : ~ (<<m, n>> \in less)
  BY <1>1, WFMin, Zenon
<1>4. ASSUME NEW m \in T
      PROVE  n <= m
  <2>1. <<m, n>> \notin less
    BY <1>3
  <2>2. m \in Nat /\ n \in Nat /\ (m < n => <<m, n>> \in less)
    BY <1>2
  <2> QED
    BY <2>1, <2>2
<1> QED
  BY <1>4

\* A rollback has a next operation while some are left, and takes the last.
LEMMA FirstIsOne ==
  ASSUME NEW t \in Transactions, NEW S \in SUBSET OpsOf(t), S # {}
  PROVE  /\ FirstOf(t, S) \in S
         /\ \A i \in S : RollbackRank[t][i] <= RollbackRank[t][FirstOf(t, S)]
<1>1. PICK bound \in Nat : \A i \in OpsOf(t) : RollbackRank[t][i] \in 0..bound
  <2>1. Len(PlanOf[t]) \in Nat
    BY FsAssumption
  <2>2. \A i \in OpsOf(t) : RollbackRank[t][i] \in 0..(Len(PlanOf[t]) + Len(PlanOf[t]))
    BY <2>1 DEF OpsOf, RollbackRank
  <2> QED
    BY <2>1, <2>2
<1> DEFINE left == {bound - RollbackRank[t][i] : i \in S}
<1>2. left \in SUBSET Nat /\ left # {}
  BY <1>1
<1>3. \E n \in left : \A m \in left : n <= m
  <2> HIDE DEF left
  <2> QED
    BY <1>2, Least, Zenon
<1>4. PICK i \in S : \A j \in S : bound - RollbackRank[t][i] <= bound - RollbackRank[t][j]
  BY <1>3
<1>5. ASSUME NEW j \in S
      PROVE  RollbackRank[t][j] <= RollbackRank[t][i]
  <2>1. RollbackRank[t][i] \in 0..bound /\ RollbackRank[t][j] \in 0..bound
    BY <1>1
  <2>2. bound - RollbackRank[t][i] <= bound - RollbackRank[t][j]
    BY <1>4
  <2> QED
    BY <2>1, <2>2
<1>6. \E k \in S : \A j \in S : RollbackRank[t][j] <= RollbackRank[t][k]
  BY <1>5
<1> QED
  BY <1>6 DEF FirstOf

-----------------------------------------------------------------------------
(* What the runs do *)

Runs == FsShape /\ \A t \in Transactions : RunFact(t)

\* A step of t leaves what is known of the other runs.
LEMMA OthersKeep ==
  ASSUME Runs, FsShape', NEW t \in Transactions, RunFact(t)',
         \A u \in Transactions \ {t} :
           /\ run'[u] = run[u] /\ pos'[u] = pos[u]
           /\ status'[u] = status[u] /\ saved'[u] = saved[u]
  PROVE  Runs'
<1>1. ASSUME NEW u \in Transactions \ {t}
      PROVE  RunFact(u)'
  BY DEF Runs, RunFact, Current, Path
<1> QED
  BY <1>1 DEF Runs

\* Steps of t that move it to a label at which nothing is asked of its operation.
LEMMA LeavesApply ==
  ASSUME Runs, FsShape', NEW t \in Transactions, NEW i \in OpsOf(t),
         run'[t] \notin ApplyLabels, pos'[t] = i,
         run'[t] = "renameBack" =>
           Op(t, i).kind = "remove" /\ status'[t][i] = "applied" /\ saved'[t][i] # Absent,
         run'[t] \in {"restore", "finishRestore"} =>
           Op(t, i).kind = "write" /\ status'[t][i] = "applied",
         \A j \in OpsOf(t) : Op(t, j).kind = "write" /\ status'[t][j] = "applied" =>
           FoundFiles[Op(t, j).path] # Op(t, j).content,
         \A u \in Transactions \ {t} :
           /\ run'[u] = run[u] /\ pos'[u] = pos[u]
           /\ status'[u] = status[u] /\ saved'[u] = saved[u]
  PROVE  Runs'
<1>1. RunFact(t)'
  BY DEF RunFact, Current, Path, ApplyLabels
<1> QED
  BY <1>1, OthersKeep

\* An operation ends with status s.
LEMMA AppliedStep ==
  ASSUME Runs, FsShape', NEW t \in Transactions, NEW s, Applied(t, s),
         run[t] \in ApplyLabels,
         \A u \in Transactions : \A j \in OpsOf(u) :
           saved'[u][j] = saved[u][j] \/ (u = t /\ j = pos[t]),
         \A u \in Transactions \ {t} : saved'[u] = saved[u],
         s = "applied" /\ Current(t).kind = "write" => FoundFiles[Path(t)] # Current(t).content
  PROVE  Runs'
<1>1. /\ status' = [status EXCEPT ![t][pos[t]] = s]
      /\ pos[t] \in OpsOf(t)
  BY DEF Applied, SetStatus, Runs, RunFact
<1>2. \A j \in OpsOf(t) : status'[t][j] = IF j = pos[t] THEN s ELSE status[t][j]
  BY <1>1 DEF Runs, FsShape
<1>3. \A j \in OpsOf(t) : Op(t, j).kind = "write" /\ status'[t][j] = "applied" =>
        FoundFiles[Op(t, j).path] # Op(t, j).content
  BY <1>2 DEF Runs, RunFact, Current, Path
<1>4. \A u \in Transactions \ {t} : status'[u] = status[u]
  BY <1>1 DEF Runs, FsShape
<1>5. CASE pos' = [pos EXCEPT ![t] = @ + 1] /\ run' = [run EXCEPT ![t] = "apply"]
           /\ pos[t] < Len(PlanOf[t])
  <2>1. /\ pos'[t] = pos[t] + 1 /\ run'[t] = "apply" /\ pos'[t] \in OpsOf(t)
        /\ \A u \in Transactions \ {t} : run'[u] = run[u] /\ pos'[u] = pos[u]
    BY <1>1, <1>5, FsAssumption DEF Runs, FsShape, OpsOf
  <2>2. ASSUME NEW i \in OpsOf(t), i >= pos'[t]
        PROVE  status'[t][i] = "planned" /\ saved'[t][i] = Absent
    <3>1. i >= pos[t] /\ i # pos[t]
      BY <1>1, <2>1, <2>2, FsAssumption DEF OpsOf
    <3> QED
      BY <1>2, <3>1 DEF Runs, RunFact
  <2>3. RunFact(t)'
    BY <1>1, <1>3, <2>1, <2>2, FsAssumption DEF RunFact, ApplyLabels, BackedLabels, OpsOf
  <2> QED
    BY <1>4, <2>1, <2>3, OthersKeep
<1>6. CASE UNCHANGED pos /\ run' = [run EXCEPT ![t] = "saveManifest"]
  <2>1. run'[t] = "saveManifest" /\ \A u \in Transactions \ {t} : run'[u] = run[u]
    BY <1>6 DEF Runs, FsShape
  <2> QED
    BY <1>1, <1>3, <1>4, <1>6, <2>1, LeavesApply DEF ApplyLabels
<1> QED
  BY <1>5, <1>6 DEF Applied
-----------------------------------------------------------------------------
\* No step changes which runs, operations and paths there are.
LEMMA ShapeNext == Runs /\ FsNext => FsShape'
<1> SUFFICES ASSUME Runs, FsNext
             PROVE  FsShape'
  OBVIOUS
<1> USE DEF Runs, FsShape, ghosts
<1>1. ASSUME NEW p \in DOMAIN Edits, EditFile(p)
      PROVE  FsShape'
  BY <1>1 DEF EditFile
<1>2. ASSUME NEW t \in Transactions, Kill(t)
      PROVE  FsShape'
  BY <1>2 DEF Kill, MayLitter
<1>3. ASSUME NEW t \in Transactions, Apply(t)
      PROVE  FsShape'
  <2> USE DEF Applied, SetStatus
  <2>1. CASE Preflight(t)
    BY <2>1 DEF Preflight
  <2>2. CASE PreflightFails(t)
    BY <2>2 DEF PreflightFails
  <2>3. CASE Skip(t)
    BY <2>3 DEF Skip
  <2>4. CASE Fail(t)
    BY <2>4 DEF Fail, MayLitter
  <2>5. CASE MakeDirectory(t)
    BY <2>5 DEF MakeDirectory, WithParents
  <2>6. CASE DecideUnlocked(t)
    BY <2>6 DEF DecideUnlocked, WithParents
  <2>7. CASE LockAndDecide(t)
    BY <2>7 DEF LockAndDecide
  <2>8. CASE Look(t)
    BY <2>8 DEF Look
  <2>9. CASE BackUp(t)
    BY <2>9 DEF BackUp
  <2>10. CASE Replace(t)
    BY <2>10 DEF Replace
  <2>11. CASE Finish(t)
    BY <2>11 DEF Finish, MayLitter
  <2>12. CASE CheckRemove(t)
    BY <2>12 DEF CheckRemove
  <2>13. CASE RenameAway(t)
    BY <2>13 DEF RenameAway
  <2>14. CASE Untrack(t)
    BY <2>14 DEF Untrack
  <2> QED
    BY <1>3, <2>1, <2>2, <2>3, <2>4, <2>5, <2>6, <2>7, <2>8, <2>9, <2>10, <2>11, <2>12,
       <2>13, <2>14 DEF Apply
<1>4. ASSUME NEW t \in Transactions, Rollback(t)
      PROVE  FsShape'
  <2> USE DEF Undid, BeginRollback
  <2>1. CASE SaveManifest(t)
    BY <2>1 DEF SaveManifest
  <2>2. CASE RollbackCommand(t)
    BY <2>2 DEF RollbackCommand
  <2>3. CASE NothingToUndo(t)
    BY <2>3 DEF NothingToUndo
  <2>4. CASE UndoFails(t)
    BY <2>4 DEF UndoFails, MayLitter
  <2>5. CASE RemoveDirectory(t)
    BY <2>5 DEF RemoveDirectory
  <2>6. CASE LockAndCheck(t)
    BY <2>6 DEF LockAndCheck, WithParents
  <2>7. CASE Restore(t)
    BY <2>7 DEF Restore
  <2>8. CASE FinishRestore(t)
    BY <2>8 DEF FinishRestore, MayLitter
  <2>9. CASE CheckPutBack(t)
    BY <2>9 DEF CheckPutBack
  <2>10. CASE PutBack(t)
    BY <2>10 DEF PutBack, WithParents
  <2>11. CASE RestoreIndex(t)
    BY <2>11 DEF RestoreIndex
  <2> QED
    BY <1>4, <2>1, <2>2, <2>3, <2>4, <2>5, <2>6, <2>7, <2>8, <2>9, <2>10, <2>11 DEF Rollback
<1> QED
  BY <1>1, <1>2, <1>3, <1>4 DEF FsNext

\* A rollback goes on with another operation, or has ended.
LEMMA UndidStep ==
  ASSUME Runs, NEW t \in Transactions, NEW result, Undid(t, result)
  PROVE  /\ pos'[t] \in OpsOf(t)
         /\ run'[t] \in {"ended", "rollback"}
         /\ \A u \in Transactions \ {t} : run'[u] = run[u] /\ pos'[u] = pos[u]
<1>1. pos[t] \in OpsOf(t)
  BY DEF Runs, RunFact
<1>2. After(t) # {} => FirstOf(t, After(t)) \in OpsOf(t)
  <2>1. After(t) \in SUBSET OpsOf(t)
    BY DEF After
  <2> QED
    BY <2>1, FirstIsOne
<1> QED
  BY <1>1, <1>2 DEF Undid, Runs, FsShape

\* A rollback begins with one of the operations.
LEMMA BeginsStep ==
  ASSUME Runs, NEW t \in Transactions, BeginRollback(t)
  PROVE  /\ pos'[t] \in OpsOf(t)
         /\ run'[t] = "rollback"
         /\ \A u \in Transactions \ {t} : run'[u] = run[u] /\ pos'[u] = pos[u]
<1>1. OpsOf(t) # {}
  BY DEF Runs, RunFact
<1>2. FirstOf(t, OpsOf(t)) \in OpsOf(t)
  BY <1>1, FirstIsOne
<1> QED
  BY <1>2 DEF BeginRollback, Runs, FsShape
\* Steps of t that change neither its statuses nor its backups.
LEMMA RollsOn ==
  ASSUME Runs, FsShape', NEW t \in Transactions, UNCHANGED <<status, saved>>,
         pos'[t] \in OpsOf(t), run'[t] \in {"ended", "rollback", "killed"},
         \A u \in Transactions \ {t} : run'[u] = run[u] /\ pos'[u] = pos[u]
  PROVE  Runs'
<1>1. \A j \in OpsOf(t) : Op(t, j).kind = "write" /\ status'[t][j] = "applied" =>
        FoundFiles[Op(t, j).path] # Op(t, j).content
  BY DEF Runs, RunFact
<1> QED
  BY <1>1, LeavesApply DEF ApplyLabels

\* What is known of a run survives every step of applying its plan,
LEMMA ApplyKeepsRuns ==
  ASSUME Runs, FsShape', NEW t \in Transactions, Apply(t)
  PROVE  Runs'
<1>0. /\ FsShape /\ RunFact(t) /\ pos[t] \in OpsOf(t)
      /\ pos[t] >= pos[t]
  BY FsAssumption DEF Runs, RunFact, OpsOf
<1>1. CASE Preflight(t)
  <2>1. /\ run[t] = "preflight" /\ run'[t] = "apply" /\ UNCHANGED <<pos, status, saved>>
        /\ \A u \in Transactions \ {t} : run'[u] = run[u]
    BY <1>0, <1>1 DEF Preflight, Doing, FsShape
  <2>2. RunFact(t)'
    BY <1>0, <2>1 DEF RunFact, ApplyLabels, BackedLabels
  <2> QED
    BY <2>1, <2>2, OthersKeep
<1>2. CASE PreflightFails(t)
  <2>1. /\ run'[t] = "ended" /\ UNCHANGED <<pos, saved>>
        /\ \A i \in OpsOf(t) : status'[t][i] # "applied"
        /\ \A u \in Transactions \ {t} : run'[u] = run[u] /\ status'[u] = status[u]
    BY <1>0, <1>2 DEF PreflightFails, FsShape
  <2> QED
    BY <1>0, <2>1, LeavesApply DEF ApplyLabels
<1>3. CASE Skip(t)
  BY <1>3, AppliedStep DEF Skip, Doing, ApplyLabels
<1>4. CASE Fail(t)
  BY <1>4, AppliedStep DEF Fail, ApplyLabels
<1>5. CASE MakeDirectory(t)
  BY <1>5, AppliedStep DEF MakeDirectory, Doing, ApplyLabels
<1>6. CASE DecideUnlocked(t)
  <2>1. /\ run[t] = "apply" /\ run'[t] = "lock" /\ UNCHANGED <<pos, status, saved>>
        /\ Current(t).kind = "write"
        /\ \A u \in Transactions \ {t} : run'[u] = run[u]
    BY <1>0, <1>6 DEF DecideUnlocked, Doing, FsShape
  <2>2. RunFact(t)'
    BY <1>0, <2>1 DEF RunFact, ApplyLabels, BackedLabels, Current
  <2> QED
    BY <2>1, <2>2, OthersKeep
<1>7. CASE LockAndDecide(t)
  <2>1. /\ run[t] = "lock" /\ run'[t] = "look" /\ UNCHANGED <<pos, status, saved>>
        /\ Current(t).kind = "write"
        /\ \A u \in Transactions \ {t} : run'[u] = run[u]
    BY <1>0, <1>7 DEF LockAndDecide, Doing, FsShape, RunFact
  <2>2. FoundFiles[Path(t)] # Current(t).content
    BY <1>7, <2>1 DEF LockAndDecide, MayWrite, AsPlanned, Path
  <2>3. RunFact(t)'
    BY <1>0, <2>1, <2>2 DEF RunFact, ApplyLabels, BackedLabels, Current, Path
  <2> QED
    BY <2>1, <2>3, OthersKeep
<1>8. CASE Look(t)
  <2>1. /\ run[t] = "look" /\ run'[t] \in {"write", "backUp"} /\ UNCHANGED <<pos, status, saved>>
        /\ \A u \in Transactions \ {t} : run'[u] = run[u]
    BY <1>0, <1>8 DEF Look, Doing, FsShape
  <2>2. RunFact(t)'
    BY <1>0, <2>1 DEF RunFact, ApplyLabels, BackedLabels, Current, Path
  <2> QED
    BY <2>1, <2>2, OthersKeep
<1>9. CASE BackUp(t)
  <2>1. /\ run[t] = "backUp" /\ run'[t] = "write" /\ UNCHANGED <<pos, status>>
        /\ \A u \in Transactions \ {t} : run'[u] = run[u] /\ saved'[u] = saved[u]
        /\ \A j \in OpsOf(t) : j # pos[t] => saved'[t][j] = saved[t][j]
    BY <1>0, <1>9 DEF BackUp, Doing, FsShape
  <2>2. RunFact(t)'
    BY <1>0, <2>1 DEF RunFact, ApplyLabels, BackedLabels, Current, Path
  <2> QED
    BY <2>1, <2>2, OthersKeep
<1>10. CASE Replace(t)
  <2>1. /\ run[t] = "write" /\ run'[t] = "finishWrite" /\ UNCHANGED <<pos, status, saved>>
        /\ \A u \in Transactions \ {t} : run'[u] = run[u]
    BY <1>0, <1>10 DEF Replace, Doing, FsShape
  <2>2. RunFact(t)'
    BY <1>0, <2>1 DEF RunFact, ApplyLabels, BackedLabels, Current, Path
  <2> QED
    BY <2>1, <2>2, OthersKeep
<1>11. CASE Finish(t)
  <2>1. PICK s \in {"applied", "failed"} : Applied(t, s)
    BY <1>11 DEF Finish
  <2>2. Current(t).kind = "write" => FoundFiles[Path(t)] # Current(t).content
    BY <1>0, <1>11 DEF Finish, RunFact
  <2>3. run[t] \in ApplyLabels /\ UNCHANGED saved
    BY <1>11 DEF Finish, ApplyLabels
  <2> QED
    BY <2>1, <2>2, <2>3, AppliedStep
<1>12. CASE CheckRemove(t)
  <2>1. /\ run[t] = "apply" /\ run'[t] = "rename" /\ UNCHANGED <<pos, status, saved>>
        /\ Current(t).kind = "remove"
        /\ \A u \in Transactions \ {t} : run'[u] = run[u]
    BY <1>0, <1>12 DEF CheckRemove, Doing, FsShape
  <2>2. RunFact(t)'
    BY <1>0, <2>1 DEF RunFact, ApplyLabels, BackedLabels, Current
  <2> QED
    BY <2>1, <2>2, OthersKeep
<1>13. CASE RenameAway(t)
  <2>1. /\ run[t] = "rename" /\ run'[t] = "finishRemove" /\ UNCHANGED <<pos, status>>
        /\ Current(t).kind = "remove"
        /\ \A u \in Transactions \ {t} : run'[u] = run[u] /\ saved'[u] = saved[u]
    BY <1>0, <1>13 DEF RenameAway, Doing, FsShape, RunFact
  <2>2. \A j \in OpsOf(t) : j # pos[t] => saved'[t][j] = saved[t][j]
    BY <1>0, <1>13 DEF RenameAway, FsShape
  <2>3. RunFact(t)'
    BY <1>0, <2>1, <2>2 DEF RunFact, ApplyLabels, BackedLabels, Current, Path
  <2> QED
    BY <2>1, <2>3, OthersKeep
<1>14. CASE Untrack(t)
  <2>1. /\ Applied(t, "applied") /\ run[t] \in ApplyLabels /\ Current(t).kind # "write"
        /\ saved' = [saved EXCEPT ![t][pos[t]] = index[Path(t)]]
    BY <1>14 DEF Untrack, Doing, ApplyLabels
  <2>2. /\ \A u \in Transactions \ {t} : saved'[u] = saved[u]
        /\ \A u \in Transactions : \A j \in OpsOf(u) :
             saved'[u][j] = saved[u][j] \/ (u = t /\ j = pos[t])
    BY <1>0, <2>1 DEF FsShape
  <2> QED
    BY <2>1, <2>2, AppliedStep
<1> QED
  BY <1>1, <1>2, <1>3, <1>4, <1>5, <1>6, <1>7, <1>8, <1>9, <1>10, <1>11, <1>12,
     <1>13, <1>14 DEF Apply

\* every step of rolling it back,
LEMMA RollbackKeepsRuns ==
  ASSUME Runs, FsShape', NEW t \in Transactions, Rollback(t)
  PROVE  Runs'
<1>0. FsShape /\ RunFact(t) /\ pos[t] \in OpsOf(t)
  BY DEF Runs, RunFact
<1>1. CASE SaveManifest(t)
  <2>1. CASE BeginRollback(t)
    BY <1>1, <2>1, BeginsStep, RollsOn DEF SaveManifest
  <2>2. CASE run' = [run EXCEPT ![t] = "ended"] /\ UNCHANGED pos
    <3>1. run'[t] = "ended" /\ \A u \in Transactions \ {t} : run'[u] = run[u]
      BY <1>0, <2>2 DEF FsShape
    <3> QED
      BY <1>0, <1>1, <2>2, <3>1, RollsOn DEF SaveManifest
  <2> QED
    BY <1>1, <2>1, <2>2 DEF SaveManifest
<1>2. CASE RollbackCommand(t)
  BY <1>2, BeginsStep, RollsOn DEF RollbackCommand
<1>3. CASE NothingToUndo(t)
  BY <1>3, UndidStep, RollsOn DEF NothingToUndo
<1>4. CASE UndoFails(t)
  BY <1>4, UndidStep, RollsOn DEF UndoFails
<1>5. CASE RemoveDirectory(t)
  BY <1>5, UndidStep, RollsOn DEF RemoveDirectory
<1>6. CASE LockAndCheck(t) \/ Restore(t)
  <2>1. /\ run'[t] \in {"restore", "finishRestore"} /\ UNCHANGED <<pos, status, saved>>
        /\ Current(t).kind = "write" /\ status[t][pos[t]] = "applied"
        /\ \A u \in Transactions \ {t} : run'[u] = run[u]
    BY <1>0, <1>6 DEF LockAndCheck, Restore, Undoing, Doing, FsShape, RunFact
  <2>2. \A j \in OpsOf(t) : Op(t, j).kind = "write" /\ status'[t][j] = "applied" =>
          FoundFiles[Op(t, j).path] # Op(t, j).content
    BY <1>0, <2>1 DEF RunFact
  <2> QED
    BY <1>0, <2>1, <2>2, LeavesApply DEF ApplyLabels, Current
<1>7. CASE FinishRestore(t)
  BY <1>7, UndidStep, RollsOn DEF FinishRestore
<1>8. CASE CheckPutBack(t)
  <2>1. /\ run'[t] = "renameBack" /\ UNCHANGED <<pos, status, saved>>
        /\ Current(t).kind = "remove" /\ status[t][pos[t]] = "applied"
        /\ saved[t][pos[t]] # Absent
        /\ \A u \in Transactions \ {t} : run'[u] = run[u]
    BY <1>0, <1>8 DEF CheckPutBack, Undoing, Backup, FsShape
  <2>2. \A j \in OpsOf(t) : Op(t, j).kind = "write" /\ status'[t][j] = "applied" =>
          FoundFiles[Op(t, j).path] # Op(t, j).content
    BY <1>0, <2>1 DEF RunFact
  <2> QED
    BY <1>0, <2>1, <2>2, LeavesApply DEF ApplyLabels, Current
<1>9. CASE PutBack(t)
  <2>1. PICK result : Undid(t, result)
    BY <1>9 DEF PutBack
  <2>2. /\ pos'[t] \in OpsOf(t) /\ run'[t] \in {"ended", "rollback"}
        /\ \A u \in Transactions \ {t} : run'[u] = run[u] /\ pos'[u] = pos[u]
    BY <2>1, UndidStep
  <2>3. /\ Current(t).kind = "remove" /\ UNCHANGED status
        /\ saved' = [saved EXCEPT ![t][pos[t]] = Absent]
    BY <1>0, <1>9 DEF PutBack, RunFact, Doing
  <2>4. /\ \A u \in Transactions \ {t} : saved'[u] = saved[u]
        /\ \A j \in OpsOf(t) : j # pos[t] => saved'[t][j] = saved[t][j]
    BY <1>0, <2>3 DEF FsShape
  <2>5. \A j \in OpsOf(t) : Op(t, j).kind = "write" /\ status'[t][j] = "applied" =>
          FoundFiles[Op(t, j).path] # Op(t, j).content
    BY <1>0, <2>3, <2>4 DEF RunFact, Current
  <2> QED
    BY <2>2, <2>3, <2>4, <2>5, LeavesApply DEF ApplyLabels
<1>10. CASE RestoreIndex(t)
  BY <1>10, UndidStep, RollsOn DEF RestoreIndex
<1> QED
  BY <1>1, <1>2, <1>3, <1>4, <1>5, <1>6, <1>7, <1>8, <1>9, <1>10 DEF Rollback

\* and every other step.
LEMMA RunNext == Runs /\ [FsNext]_fsVars => Runs'
<1>1. ASSUME Runs, UNCHANGED fsVars
      PROVE  Runs'
  <2>1. UNCHANGED <<files, run, pos, status, saved, edited>>
    BY <1>1 DEF fsVars, ghosts
  <2>2. FsShape'
    BY <1>1, <2>1 DEF Runs, FsShape
  <2>3. ASSUME NEW t \in Transactions
        PROVE  RunFact(t)'
    BY <1>1, <2>1, <2>3 DEF Runs, RunFact, Current, Path
  <2> QED
    BY <2>2, <2>3 DEF Runs
<1>2. ASSUME Runs, NEW t \in Transactions, Kill(t), FsShape'
      PROVE  Runs'
  <2>1. /\ run'[t] = "killed" /\ UNCHANGED <<pos, status, saved>> /\ pos[t] \in OpsOf(t)
        /\ \A u \in Transactions \ {t} : run'[u] = run[u]
    BY <1>2 DEF Kill, Runs, FsShape, RunFact
  <2> QED
    BY <1>2, <2>1, RollsOn
<1>3. ASSUME Runs, NEW p \in DOMAIN Edits, EditFile(p), FsShape'
      PROVE  Runs'
  <2>1. UNCHANGED <<run, pos, status, saved>>
    BY <1>3 DEF EditFile
  <2>2. ASSUME NEW t \in Transactions
        PROVE  RunFact(t)'
    BY <1>3, <2>1, <2>2 DEF Runs, RunFact, Current, Path
  <2> QED
    BY <1>3, <2>2 DEF Runs
<1> QED
  BY <1>1, <1>2, <1>3, ShapeNext, ApplyKeepsRuns, RollbackKeepsRuns DEF FsNext
-----------------------------------------------------------------------------
(* What a step does to a backup, and to a file *)

Kept(u, j) == saved'[u][j] = saved[u][j]

Filled(u, j) ==
  /\ saved[u][j] = Absent /\ status[u][j] = "planned"
  /\ Op(u, j).kind = "remove" => saved'[u][j] = files[Op(u, j).path]

Emptied(u, j) ==
  /\ Op(u, j).kind = "remove" /\ status'[u][j] = "applied" /\ saved'[u][j] = Absent
  /\ files'[Op(u, j).path] = saved[u][j]
  /\ Op(u, j).path \in raced' \/ ~ Decided(Op(u, j).path)'

\* Nobody has decided anything about a file that is put back, or the path is raced.
LEMMA PutBackStep ==
  ASSUME Runs, NEW t \in Transactions, PutBack(t), NEW p, Path(t) = p, p \notin raced'
  PROVE  files[p] = Absent /\ ~ Decided(p)'
<1>1. files[p] = Absent /\ ~ Decided(p)
  BY DEF PutBack
<1>2. PICK result : Undid(t, result)
  BY DEF PutBack
<1>3. /\ run'[t] \in {"ended", "rollback"}
      /\ \A u \in Transactions \ {t} : run'[u] = run[u] /\ pos'[u] = pos[u]
  BY <1>2, UndidStep
<1>4. ~ Decided(p)'
  <2>1. ASSUME NEW u \in Transactions, run'[u] \in Deciding, Path(u)' = p
        PROVE  FALSE
    <3>1. u # t
      BY <1>3, <2>1 DEF Deciding
    <3>2. run[u] \in Deciding /\ Path(u) = p
      BY <1>3, <2>1, <3>1 DEF Path, Current
    <3> QED
      BY <1>1, <3>2 DEF Decided
  <2> QED
    BY <2>1 DEF Decided
<1> QED
  BY <1>1, <1>4

\* An applied operation stays applied; its backup is made once, and only the
\* rollback of a removal takes it, to its path.
LEMMA HistoryStep ==
  ASSUME Runs, FsNext, NEW u \in Transactions, NEW j \in OpsOf(u)
  PROVE  /\ status[u][j] = "applied" => status'[u][j] = "applied"
         /\ Kept(u, j) \/ Filled(u, j) \/ Emptied(u, j)
<1> DEFINE Goal ==
      /\ status[u][j] = "applied" => status'[u][j] = "applied"
      /\ Kept(u, j) \/ Filled(u, j) \/ Emptied(u, j)
<1>0. /\ FsShape /\ \A t \in Transactions : RunFact(t)
      /\ \A t \in Transactions : pos[t] \in OpsOf(t) /\ Path(t) \in Paths
  BY FsAssumption DEF Runs, RunFact, Path, Current
<1>1. ASSUME NEW t \in Transactions, NEW s, SetStatus(t, s), run[t] \in ApplyLabels
      PROVE  status[u][j] = "applied" => status'[u][j] = "applied"
  <2>1. status[t][pos[t]] = "planned"
    BY <1>0, <1>1, FsAssumption DEF RunFact, OpsOf
  <2> QED
    BY <1>0, <1>1, <2>1 DEF SetStatus, FsShape
<1>2. ASSUME NEW t \in Transactions, Kill(t)
      PROVE  Goal
  BY <1>2 DEF Kill, Kept
<1>3. ASSUME NEW p \in DOMAIN Edits, EditFile(p)
      PROVE  Goal
  BY <1>3 DEF EditFile, Kept
<1>4. ASSUME NEW t \in Transactions, Apply(t)
      PROVE  Goal
  <2>1. CASE Preflight(t) \/ DecideUnlocked(t) \/ LockAndDecide(t) \/ Look(t) \/ Replace(t)
             \/ CheckRemove(t)
    BY <2>1 DEF Preflight, DecideUnlocked, LockAndDecide, Look, Replace, CheckRemove, Kept
  <2>2. CASE PreflightFails(t)
    <3>1. \A i \in OpsOf(t) : status[t][i] = "planned"
      BY <1>0, <2>2, FsAssumption DEF PreflightFails, Doing, RunFact, ApplyLabels, OpsOf
    <3> QED
      BY <1>0, <2>2, <3>1 DEF PreflightFails, Kept, FsShape
  <2>3. CASE Skip(t)
    BY <1>1, <2>3 DEF Skip, Applied, Doing, ApplyLabels, Kept
  <2>4. CASE Fail(t)
    BY <1>1, <2>4 DEF Fail, Applied, ApplyLabels, Kept
  <2>5. CASE MakeDirectory(t)
    BY <1>1, <2>5 DEF MakeDirectory, Applied, Doing, ApplyLabels, Kept
  <2>6. CASE Finish(t)
    BY <1>1, <2>6 DEF Finish, Applied, ApplyLabels, Kept
  <2>7. CASE BackUp(t)
    <3>1. /\ run[t] = "backUp" /\ UNCHANGED status
          /\ saved' = [saved EXCEPT ![t][pos[t]] = files[Path(t)]]
      BY <2>7 DEF BackUp, Doing
    <3>2. /\ saved[t][pos[t]] = Absent /\ status[t][pos[t]] = "planned"
          /\ Current(t).kind = "write"
      BY <1>0, <3>1, FsAssumption DEF RunFact, ApplyLabels, BackedLabels, OpsOf
    <3>3. CASE u = t /\ j = pos[t]
      BY <3>1, <3>2, <3>3 DEF Filled, Current
    <3>4. CASE ~ (u = t /\ j = pos[t])
      BY <1>0, <3>1, <3>4 DEF Kept, FsShape
    <3> QED
      BY <3>3, <3>4
  <2>8. CASE RenameAway(t)
    <3>1. /\ run[t] = "rename" /\ UNCHANGED status
          /\ saved' = [saved EXCEPT ![t][pos[t]] = files[Path(t)]]
      BY <2>8 DEF RenameAway, Doing
    <3>2. saved[t][pos[t]] = Absent /\ status[t][pos[t]] = "planned"
      BY <1>0, <3>1, FsAssumption DEF RunFact, ApplyLabels, BackedLabels, OpsOf
    <3>3. CASE u = t /\ j = pos[t]
      <4>1. saved'[u][j] = files[Op(u, j).path]
        BY <1>0, <3>1, <3>3 DEF FsShape, Path, Current
      <4> QED
        BY <3>1, <3>2, <3>3, <4>1 DEF Filled
    <3>4. CASE ~ (u = t /\ j = pos[t])
      BY <1>0, <3>1, <3>4 DEF Kept, FsShape
    <3> QED
      BY <3>3, <3>4
  <2>9. CASE Untrack(t)
    <3>1. /\ run[t] = "apply" /\ SetStatus(t, "applied") /\ Current(t).kind = "untrack"
          /\ saved' = [saved EXCEPT ![t][pos[t]] = index[Path(t)]]
      BY <2>9 DEF Untrack, Doing, Applied
    <3>2. saved[t][pos[t]] = Absent /\ status[t][pos[t]] = "planned"
      BY <1>0, <3>1, FsAssumption DEF RunFact, ApplyLabels, BackedLabels, OpsOf
    <3>3. status[u][j] = "applied" => status'[u][j] = "applied"
      BY <1>1, <3>1 DEF ApplyLabels
    <3>4. CASE u = t /\ j = pos[t]
      BY <3>1, <3>2, <3>3, <3>4 DEF Filled, Current
    <3>5. CASE ~ (u = t /\ j = pos[t])
      BY <1>0, <3>1, <3>3, <3>5 DEF Kept, FsShape
    <3> QED
      BY <3>4, <3>5
  <2> QED
    BY <1>4, <2>1, <2>2, <2>3, <2>4, <2>5, <2>6, <2>7, <2>8, <2>9 DEF Apply
<1>5. ASSUME NEW t \in Transactions, Rollback(t)
      PROVE  Goal
  <2>1. CASE PutBack(t)
    <3>1. /\ run[t] = "renameBack" /\ UNCHANGED status
          /\ saved' = [saved EXCEPT ![t][pos[t]] = Absent]
          /\ files' = [WithParents(Path(t)) EXCEPT ![Path(t)] = saved[t][pos[t]]]
      BY <2>1 DEF PutBack, Doing, Backup
    <3>2. Current(t).kind = "remove" /\ status[t][pos[t]] = "applied"
      BY <1>0, <3>1 DEF RunFact
    <3>3. CASE u = t /\ j = pos[t]
      <4>1. files'[Path(t)] = saved[t][pos[t]]
        BY <1>0, <3>1 DEF WithParents
      <4>2. saved'[u][j] = Absent
        BY <1>0, <3>1, <3>3 DEF FsShape
      <4>3. \A p : Path(t) = p => p \in raced' \/ ~ Decided(p)'
        BY <2>1, PutBackStep
      <4>4. Op(u, j).path = Path(t)
        BY <3>3 DEF Path, Current
      <4>5. Op(u, j).path \in raced' \/ ~ Decided(Op(u, j).path)'
        <5>1. PICK p : p = Op(u, j).path
          OBVIOUS
        <5>2. p \in raced' \/ ~ Decided(p)'
          BY <4>3, <4>4, <5>1
        <5> QED
          BY <5>1, <5>2 DEF Decided
      <4> QED
        BY <3>1, <3>2, <3>3, <4>1, <4>2, <4>5 DEF Emptied, Current, Path
    <3>4. CASE ~ (u = t /\ j = pos[t])
      BY <1>0, <3>1, <3>4 DEF Kept, FsShape
    <3> QED
      BY <3>3, <3>4
  <2>2. CASE ~ PutBack(t)
    BY <1>5, <2>2 DEF Rollback, SaveManifest, RollbackCommand, NothingToUndo, UndoFails,
         RemoveDirectory, LockAndCheck, Restore, FinishRestore, CheckPutBack, RestoreIndex, Kept
  <2> QED
    BY <2>1, <2>2
<1> QED
  BY <1>2, <1>3, <1>4, <1>5 DEF FsNext

\* The backup of a write is never taken.
LEMMA BackedStays ==
  ASSUME Runs, FsNext, NEW p, NEW content, content # Absent, Backed(p, "write", content)
  PROVE  Backed(p, "write", content)'
<1>1. ASSUME NEW t \in Transactions, NEW i \in OpsOf(t), saved[t][i] = content,
             Op(t, i).kind = "write"
      PROVE  saved'[t][i] = content
  BY <1>1, HistoryStep DEF Kept, Filled, Emptied
<1> QED
  BY <1>1 DEF Backed

\* That of a removal is, where the removed file is put back; unless the path is raced,
\* no run has decided anything about it then.
LEMMA RemovedStays ==
  ASSUME Runs, FsNext, NEW p, p \notin raced', NEW content, content # Absent,
         Backed(p, "remove", content)
  PROVE  Backed(p, "remove", content)' \/ (files'[p] = content /\ ~ Decided(p)')
<1>0. PICK t \in Transactions : \E i \in OpsOf(t) :
        Op(t, i).kind = "remove" /\ Op(t, i).path = p /\ saved[t][i] = content
  BY DEF Backed
<1>1. PICK i \in OpsOf(t) :
        Op(t, i).kind = "remove" /\ Op(t, i).path = p /\ saved[t][i] = content
  BY <1>0
<1>2. Kept(t, i) \/ Emptied(t, i)
  BY <1>1, HistoryStep DEF Filled
<1>3. CASE Kept(t, i)
  BY <1>1, <1>3 DEF Kept, Backed
<1>4. CASE Emptied(t, i)
  <2>1. p \in raced' \/ ~ Decided(p)'
    BY <1>1, <1>4 DEF Emptied, Decided
  <2> QED
    BY <1>1, <1>4, <2>1 DEF Emptied
<1> QED
  BY <1>2, <1>3, <1>4

Changes(t) == Replace(t) \/ RenameAway(t) \/ Restore(t) \/ PutBack(t)

\* The steps that may change a file at p, which is no directory.
LEMMA FilesStep ==
  ASSUME Runs, FsNext, NEW p \in FilePaths
  PROVE  \/ files'[p] = files[p]
         \/ \E t \in Transactions : Path(t) = p /\ Changes(t)
         \/ p \in DOMAIN Edits /\ EditFile(p)
<1>0. /\ FsShape /\ p \in Paths /\ Inside[p] = {}
      /\ \A t \in Transactions : pos[t] \in OpsOf(t) /\ Path(t) \in Paths
      /\ \A t \in Transactions : Current(t).kind = "mkdir" => Path(t) # p
  BY FsAssumption DEF Runs, RunFact, Path, Current, FilePaths
<1>1. \A q : WithParents(q)[p] = files[p]
  BY <1>0 DEF WithParents
<1>2. ASSUME NEW t \in Transactions, Apply(t), files'[p] # files[p]
      PROVE  Path(t) = p /\ (Replace(t) \/ RenameAway(t))
  <2>1. CASE MakeDirectory(t)
    <3>1. files' = [WithParents(Path(t)) EXCEPT ![Path(t)] = Dir] /\ Path(t) # p
      BY <1>0, <2>1 DEF MakeDirectory
    <3> QED
      BY <1>0, <1>1, <1>2, <3>1 DEF WithParents
  <2>2. CASE DecideUnlocked(t)
    BY <1>1, <1>2, <2>2 DEF DecideUnlocked
  <2>3. CASE Replace(t)
    BY <1>0, <1>2, <2>3 DEF Replace, FsShape
  <2>4. CASE RenameAway(t)
    BY <1>0, <1>2, <2>4 DEF RenameAway, FsShape
  <2> QED
    BY <1>2, <2>1, <2>2, <2>3, <2>4 DEF Apply, Preflight, PreflightFails, Skip, Fail,
         LockAndDecide, Look, BackUp, Finish, CheckRemove, Untrack
<1>3. ASSUME NEW t \in Transactions, Rollback(t), files'[p] # files[p]
      PROVE  Path(t) = p /\ (Restore(t) \/ PutBack(t))
  <2>1. CASE RemoveDirectory(t)
    BY <1>0, <1>3, <2>1 DEF RemoveDirectory, Undoing, FsShape
  <2>2. CASE Restore(t)
    BY <1>0, <1>3, <2>2 DEF Restore, FsShape
  <2>3. CASE PutBack(t)
    <3>1. files' = [WithParents(Path(t)) EXCEPT ![Path(t)] = Backup(t)]
      BY <2>3 DEF PutBack
    <3>2. Path(t) = p
      BY <1>0, <1>1, <1>3, <3>1 DEF WithParents
    <3> QED
      BY <2>3, <3>2
  <2>4. CASE LockAndCheck(t)
    BY <1>1, <1>3, <2>4 DEF LockAndCheck
  <2> QED
    BY <1>3, <2>1, <2>2, <2>3, <2>4 DEF Rollback, SaveManifest, RollbackCommand, NothingToUndo,
         UndoFails, FinishRestore, CheckPutBack, RestoreIndex
<1>4. ASSUME NEW q \in DOMAIN Edits, EditFile(q), files'[p] # files[p]
      PROVE  q = p
  BY <1>0, <1>4 DEF EditFile, FsShape
<1>5. ASSUME NEW t \in Transactions, Kill(t)
      PROVE  files'[p] = files[p]
  BY <1>5 DEF Kill
<1> QED
  BY <1>2, <1>3, <1>4, <1>5 DEF FsNext, Changes

\* The steps after which a run has decided something about p.
LEMMA Deciders ==
  ASSUME Runs, FsNext, NEW t \in Transactions, NEW p, run'[t] \in Deciding, Path(t)' = p
  PROVE  /\ Path(t) = p
         /\ \/ run'[t] = run[t]
            \/ LockAndDecide(t) \/ Look(t) \/ BackUp(t) \/ LockAndCheck(t)
<1>0. FsShape /\ t \in DOMAIN run /\ t \in DOMAIN pos
  BY DEF Runs, FsShape
<1>1. ASSUME NEW u \in Transactions, Apply(u) \/ Rollback(u) \/ Kill(u), u # t
      PROVE  run'[t] = run[t] /\ pos'[t] = pos[t]
  <2>1. CASE Apply(u)
    BY <1>0, <1>1, <2>1 DEF Apply, Preflight, PreflightFails, Skip, Fail, MakeDirectory,
         DecideUnlocked, LockAndDecide, Look, BackUp, Replace, Finish, CheckRemove, RenameAway,
         Untrack, Applied
  <2>2. CASE Rollback(u)
    BY <1>0, <1>1, <2>2, UndidStep, BeginsStep DEF Rollback, SaveManifest, RollbackCommand,
         NothingToUndo, UndoFails, RemoveDirectory, LockAndCheck, Restore, FinishRestore,
         CheckPutBack, PutBack, RestoreIndex
  <2> QED
    BY <1>0, <1>1, <2>1, <2>2 DEF Kill
<1>2. CASE Apply(t)
  <2>1. CASE LockAndDecide(t) \/ Look(t) \/ BackUp(t)
    BY <2>1 DEF LockAndDecide, Look, BackUp, Path, Current
  <2>2. CASE ~ (LockAndDecide(t) \/ Look(t) \/ BackUp(t))
    BY <1>0, <1>2, <2>2 DEF Apply, Preflight, PreflightFails, Skip, Fail, MakeDirectory,
       DecideUnlocked, Replace, Finish, CheckRemove, RenameAway, Untrack, Applied, Deciding
  <2> QED
    BY <2>1, <2>2
<1>3. CASE Rollback(t)
  <2>1. CASE LockAndCheck(t)
    BY <2>1 DEF LockAndCheck, Path, Current
  <2>2. CASE ~ LockAndCheck(t)
    <3>1. run'[t] \notin Deciding
      BY <1>0, <1>3, <2>2, UndidStep, BeginsStep DEF Rollback, SaveManifest, RollbackCommand,
         NothingToUndo, UndoFails, RemoveDirectory, Restore, FinishRestore, CheckPutBack,
         PutBack, RestoreIndex, Deciding
    <3> QED
      BY <3>1
  <2> QED
    BY <2>1, <2>2
<1>4. CASE Kill(t)
  BY <1>0, <1>4 DEF Kill, Deciding
<1>5. CASE \E q \in DOMAIN Edits : EditFile(q)
  BY <1>5 DEF EditFile, Path, Current
<1> QED
  BY <1>1, <1>2, <1>3, <1>4, <1>5 DEF FsNext, Path, Current

\* Nothing but an edit makes a path edited; an edited or raced path, and a
\* directory in which something was left, remains so.
LEMMA EditedOnce ==
  ASSUME FsNext
  PROVE  /\ edited \subseteq edited' /\ raced \subseteq raced' /\ littered \subseteq littered'
         /\ edited' # edited => \E q \in DOMAIN Edits : EditFile(q)
<1> USE DEF ghosts, MayLitter
<1>1. ASSUME NEW t \in Transactions, Apply(t)
      PROVE  UNCHANGED <<edited, raced>> /\ littered \subseteq littered'
  BY <1>1 DEF Apply, Preflight, PreflightFails, Skip, Fail, MakeDirectory, DecideUnlocked,
       LockAndDecide, Look, BackUp, Replace, Finish, CheckRemove, RenameAway, Untrack
<1>2. ASSUME NEW t \in Transactions, Rollback(t)
      PROVE  UNCHANGED edited /\ raced \subseteq raced' /\ littered \subseteq littered'
  BY <1>2 DEF Rollback, SaveManifest, RollbackCommand, NothingToUndo, UndoFails,
       RemoveDirectory, LockAndCheck, Restore, FinishRestore, CheckPutBack, PutBack,
       RestoreIndex
<1>3. ASSUME NEW t \in Transactions, Kill(t)
      PROVE  UNCHANGED <<edited, raced>> /\ littered \subseteq littered'
  BY <1>3 DEF Kill
<1>4. ASSUME NEW q \in DOMAIN Edits, EditFile(q)
      PROVE  edited \subseteq edited' /\ raced \subseteq raced' /\ littered \subseteq littered'
  BY <1>4 DEF EditFile
<1> QED
  BY <1>1, <1>2, <1>3, <1>4 DEF FsNext

-----------------------------------------------------------------------------
(* Nothing is lost *)

\* A run that replaces a file had decided to; one that moves a file away has it.
LEMMA OwnBackup ==
  ASSUME Runs, NEW t \in Transactions, NEW p, Path(t) = p, NEW content
  PROVE  /\ pos[t] \in OpsOf(t) /\ p \in Paths /\ Op(t, pos[t]).path = p
         /\ Replace(t) \/ Restore(t) => AboutTo(p) /\ Decided(p)
         /\ RenameAway(t) /\ files[p] = content => Backed(p, "remove", content)'
         /\ BackUp(t) /\ files[p] = content => Backed(p, "write", content)'
<1>1. FsShape /\ RunFact(t)
  BY DEF Runs
<1>2. pos[t] \in OpsOf(t) /\ Op(t, pos[t]).path = p /\ p \in Paths
  BY <1>1, FsAssumption DEF RunFact, Path, Current
<1>3. Replace(t) \/ Restore(t) => AboutTo(p) /\ Decided(p)
  BY DEF Replace, Restore, Doing, AboutTo, Decided, Deciding
<1>4. ASSUME RenameAway(t)
      PROVE  \E i \in OpsOf(t) :
               Op(t, i).kind = "remove" /\ Op(t, i).path = p /\ saved'[t][i] = files[p]
  BY <1>1, <1>2, <1>4 DEF RenameAway, Doing, RunFact, Current, FsShape
<1>5. ASSUME BackUp(t)
      PROVE  \E i \in OpsOf(t) :
               Op(t, i).kind = "write" /\ Op(t, i).path = p /\ saved'[t][i] = files[p]
  BY <1>1, <1>2, <1>5 DEF BackUp, Doing, RunFact, Current, FsShape
<1> QED
  BY <1>2, <1>3, <1>4, <1>5 DEF Backed

\* What was found at a path survives every step while nobody else writes there.
LEMMA FoundStays ==
  ASSUME Runs, FsNext, NEW p \in FilePaths, p \notin edited', p \notin raced',
         FoundFiles[p] \notin {Dir, Absent}, FoundFact(p)
  PROVE  FoundFact(p)'
<1> DEFINE F == FoundFiles[p]
<1>1. CASE Backed(p, "write", F)
  BY <1>1, BackedStays DEF FoundFact
<1>2. CASE Backed(p, "remove", F)
  <2>1. Decided(p)' \/ ~ AboutTo(p)'
    BY DEF AboutTo, Decided, Deciding
  <2> QED
    BY <1>2, <2>1, RemovedStays DEF FoundFact
<1>3. CASE files[p] = F /\ ~ AboutTo(p)
  <2>1. ASSUME NEW t \in Transactions, Path(t) = p, Changes(t)
        PROVE  Backed(p, "remove", F)'
    BY <1>3, <2>1, OwnBackup, PutBackStep DEF Changes
  <2>2. ~ EditFile(p)
    BY DEF EditFile
  <2>3. ASSUME NEW t \in Transactions, run'[t] \in {"write", "restore"}, Path(t)' = p
        PROVE  Backed(p, "write", F)'
    <3>1. /\ Path(t) = p
          /\ \/ run'[t] = run[t]
             \/ LockAndDecide(t) \/ Look(t) \/ BackUp(t) \/ LockAndCheck(t)
      BY <2>3, Deciders DEF Deciding
    <3>2. run'[t] # run[t]
      BY <1>3, <2>3, <3>1 DEF AboutTo
    <3>3. ~ LockAndDecide(t)
      BY <2>3 DEF LockAndDecide, Runs, FsShape
    <3>4. ~ Look(t)
      BY <1>3, <2>3, <3>1 DEF Look, Runs, FsShape
    <3>5. ~ LockAndCheck(t)
      <4>1. ASSUME LockAndCheck(t)
            PROVE  F # Current(t).content
        BY <3>1, <4>1, OwnBackup DEF LockAndCheck, Undoing, Runs, RunFact, Current
      <4> QED
        BY <1>3, <3>1, <4>1 DEF LockAndCheck, IsOurs
    <3> QED
      BY <1>3, <3>1, <3>2, <3>3, <3>4, <3>5, OwnBackup
  <2>4. files'[p] = F \/ Backed(p, "remove", F)'
    BY <1>3, <2>1, <2>2, FilesStep
  <2>5. ~ AboutTo(p)' \/ Backed(p, "write", F)'
    BY <2>3 DEF AboutTo
  <2> QED
    BY <2>4, <2>5 DEF FoundFact
<1> QED
  BY <1>1, <1>2, <1>3 DEF FoundFact

\* What somebody else has written survives every later step,
LEMMA EditStays ==
  ASSUME Runs, FsNext, NEW p \in FilePaths, p \in edited, p \notin raced', EditFact(p)
  PROVE  EditFact(p)'
<1>0. /\ p \in DOMAIN Edits /\ Edits[p] \notin {Dir, Absent, FoundFiles[p]}
      /\ \A t \in Transactions : Path(t) = p => Current(t).content # Edits[p]
  BY OwnBackup, FsAssumption DEF Runs, FsShape, Current
<1>1. CASE Backed(p, "remove", Edits[p])
  BY <1>0, <1>1, RemovedStays DEF EditFact
<1>2. CASE files[p] = Edits[p] /\ ~ Decided(p)
  <2>1. ASSUME NEW t \in Transactions, Path(t) = p, Changes(t)
        PROVE  Backed(p, "remove", Edits[p])'
    BY <1>0, <1>2, <2>1, OwnBackup, PutBackStep DEF Changes
  <2>2. ~ EditFile(p)
    BY DEF EditFile
  <2>3. ASSUME NEW t \in Transactions, run'[t] \in Deciding, Path(t)' = p
        PROVE  FALSE
    <3>1. /\ Path(t) = p
          /\ \/ run'[t] = run[t]
             \/ LockAndDecide(t) \/ Look(t) \/ BackUp(t) \/ LockAndCheck(t)
      BY <2>3, Deciders
    <3>2. run[t] \notin Deciding
      BY <1>2, <3>1 DEF Decided
    <3>3. ~ Look(t) /\ ~ BackUp(t)
      BY <3>2 DEF Look, BackUp, Doing, Deciding
    <3>4. ~ LockAndDecide(t)
      <4>1. ASSUME LockAndDecide(t)
            PROVE  files[p] = FoundFiles[p]
        BY <3>1, <4>1, OwnBackup DEF LockAndDecide, MayWrite, AsPlanned, Runs, RunFact,
           Doing, Path
      <4> QED
        BY <1>0, <1>2, <4>1
    <3>5. ~ LockAndCheck(t)
      BY <1>0, <1>2, <3>1 DEF LockAndCheck, IsOurs
    <3> QED
      BY <2>3, <3>1, <3>2, <3>3, <3>4, <3>5
  <2>4. files'[p] = Edits[p] \/ Backed(p, "remove", Edits[p])'
    BY <1>2, <2>1, <2>2, FilesStep
  <2>5. ~ Decided(p)'
    BY <2>3 DEF Decided
  <2> QED
    BY <2>4, <2>5 DEF EditFact
<1> QED
  BY <1>1, <1>2 DEF EditFact

\* and is there when it is written.
LEMMA FirstEdit ==
  ASSUME Runs, FsNext, NEW p \in FilePaths, p \in edited', p \notin edited, p \notin raced'
  PROVE  EditFact(p)'
<1>1. PICK q \in DOMAIN Edits : EditFile(q)
  BY EditedOnce
<1>2. q = p
  BY <1>1 DEF EditFile
<1>3. files'[p] = Edits[p]
  BY <1>1, <1>2, FsAssumption DEF EditFile, Runs, FsShape
<1>4. ~ Decided(p)
  BY <1>1, <1>2 DEF EditFile
<1>5. ~ Decided(p)'
  BY <1>1, <1>4 DEF EditFile, Decided, Path, Current
<1> QED
  BY <1>3, <1>5 DEF EditFact

LEMMA InvNext == FsInv /\ [FsNext]_fsVars => FsInv'
<1>1. ASSUME FsInv, UNCHANGED fsVars
      PROVE  FsInv'
  <2>1. Runs' /\ UNCHANGED <<files, run, pos, status, saved, edited, raced>>
    BY <1>1, RunNext DEF FsInv, Runs, fsVars, ghosts
  <2>2. ASSUME NEW p \in FilePaths
        PROVE  /\ EditFact(p) => EditFact(p)'
               /\ FoundFact(p) => FoundFact(p)'
    BY <2>1 DEF EditFact, FoundFact, Backed, AboutTo, Decided, Path, Current
  <2> QED
    BY <1>1, <2>1, <2>2 DEF FsInv, Runs
<1>2. ASSUME FsInv, FsNext
      PROVE  FsInv'
  <2>1. Runs /\ Runs' /\ raced \subseteq raced'
    BY <1>2, RunNext, EditedOnce DEF FsInv, Runs
  <2>2. ASSUME NEW p \in FilePaths \ raced', p \in edited'
        PROVE  EditFact(p)'
    BY <1>2, <2>1, <2>2, EditStays, FirstEdit DEF FsInv
  <2>3. ASSUME NEW p \in FilePaths \ raced', p \notin edited', FoundFiles[p] \notin {Dir, Absent}
        PROVE  FoundFact(p)'
    <3>1. p \notin edited
      BY <1>2, <2>3, EditedOnce
    <3> QED
      BY <1>2, <2>1, <2>3, <3>1, FoundStays DEF FsInv
  <2> QED
    BY <2>1, <2>2, <2>3 DEF FsInv, Runs
<1> QED
  BY <1>1, <1>2

LEMMA InvInit == FsInit => FsInv
<1> SUFFICES ASSUME FsInit
             PROVE  FsInv
  OBVIOUS
<1>1. FsShape
  BY DEF FsInit, FsShape, Paths
<1>2. ASSUME NEW t \in Transactions
      PROVE  RunFact(t)
  BY <1>2, FsAssumption DEF FsInit, RunFact, OpsOf, ApplyLabels, BackedLabels
<1>3. ASSUME NEW p \in FilePaths, FoundFiles[p] \notin {Dir, Absent}
      PROVE  FoundFact(p)
  BY <1>3 DEF FsInit, FoundFact, AboutTo
<1>4. edited = {}
  BY DEF FsInit
<1> QED
  BY <1>1, <1>2, <1>3, <1>4 DEF FsInv

LEMMA InvImplies == FsInv => NothingLost
<1> SUFFICES ASSUME FsInv, NEW p \in Paths \ raced
             PROVE  IF p \in edited
                      THEN files[p] = Edits[p] \/ BackedUp(Edits[p], {"remove"})
                      ELSE FoundFiles[p] \in {Dir, Absent} \/ files[p] = FoundFiles[p]
                           \/ BackedUp(FoundFiles[p], {"write", "remove"})
  BY DEF NothingLost
<1>1. CASE p \in edited
  <2>1. p \in FilePaths /\ EditFact(p)
    BY <1>1 DEF FsInv, FsShape, FilePaths
  <2> QED
    BY <1>1, <2>1 DEF EditFact, Backed, BackedUp
<1>2. CASE p \notin edited /\ FoundFiles[p] \notin {Dir, Absent}
  <2>1. FoundFact(p)
    BY <1>2 DEF FsInv, FilePaths
  <2> QED
    BY <1>2, <2>1 DEF FoundFact, Backed, BackedUp
<1> QED
  BY <1>1, <1>2

\* No content is lost, for any runs, plans, rollbacks, kills and edits: what was
\* found at a path is there or in a backup, and what somebody else has written is
\* there or in the backup of a removal, but for the paths at which a file was put
\* in the way of another writer.
THEOREM NothingLostHolds == FsSpec => []NothingLost
<1>1. FsSpec => []FsInv
  BY InvInit, InvNext, PTL DEF FsSpec
<1> QED
  BY <1>1, InvImplies, PTL

-----------------------------------------------------------------------------
(* Rollback: what is known of the paths that are left to a run *)

FileKinds == {"mkdir", "write", "remove"}
Early == ApplyLabels \cup {"saveManifest"}

\* The operation has changed what is at its path, or the index entry there.
TookFile(t, i, p) ==
  /\ Op(t, i).kind \in FileKinds /\ Op(t, i).path = p
  /\ status[t][i] = "applied" \/ (i = pos[t] /\ run[t] \in {"finishWrite", "finishRemove"})

TookIndex(t, i, p) ==
  Op(t, i).kind = "untrack" /\ Op(t, i).path = p /\ status[t][i] = "applied"

Left(t, i) ==
  IF Op(t, i).kind = "mkdir" THEN Dir
    ELSE IF Op(t, i).kind = "write" THEN Op(t, i).content ELSE Absent

\* The rollback of t, without a failure so far, has dealt with the operation.
Past(t, i) ==
  undone[t] = "ok" /\ (run[t] = "ended" \/ RollbackRank[t][i] > RollbackRank[t][pos[t]])

\* Operations are applied in the order of the plan, and rolled back afterwards.
OrderFact(t) ==
  /\ run[t] \in ApplyLabels => \A k \in OpsOf(t) :
       k < pos[t] => status[t][k] \in {"applied", "skipped"}
  /\ \A j \in OpsOf(t) : status[t][j] = "applied" => \A k \in OpsOf(t) :
       k < j => status[t][k] \in {"applied", "skipped"}
  /\ run[t] \in Early => undone[t] = "notRun" /\ t \notin manifest

\* A directory is planned where there was one, or nothing,
KindFact(t, p) ==
  run[t] # "preflight" => \A i \in OpsOf(t) :
    Op(t, i).kind = "mkdir" /\ Op(t, i).path = p => FoundFiles[p] \in {Absent, Dir}

\* and is skipped where there was one, or t has made it.
SkipFact(t, p) ==
  \A k \in OpsOf(t) : Op(t, k).kind = "mkdir" /\ Op(t, k).path = p /\ status[t][k] = "skipped" =>
    \/ FoundFiles[p] # Absent
    \/ \E i \in OpsOf(t) : i < k /\ status[t][i] = "applied" /\ TookFile(t, i, p)

\* What is about to be replaced or moved away is what was found.
PendingFact(t, p) ==
  run[t] \in {"look", "backUp", "write", "rename"} /\ Path(t) = p =>
    /\ \A i \in OpsOf(t) : ~ TookFile(t, i, p)
    /\ Left(t, pos[t]) # FoundFiles[p]
    /\ run[t] = "write" => saved[t][pos[t]] = FoundFiles[p]
    /\ run[t] = "rename" => FoundFiles[p] \notin {Dir, Absent}

\* What has just been restored is what was found.
RestoredFact(t, p) ==
  run[t] = "finishRestore" /\ Path(t) = p => files[p] = FoundFiles[p]

\* One operation at most has changed a file; its backup is what was found, and
\* the file is as the operation left it, or as it was found once that is undone.
FileFact(t, p) ==
  /\ (\A i \in OpsOf(t) : ~ TookFile(t, i, p)) => files[p] = FoundFiles[p]
  /\ \A i \in OpsOf(t) : TookFile(t, i, p) =>
       /\ \A j \in OpsOf(t) : TookFile(t, j, p) => j = i
       /\ Left(t, i) # FoundFiles[p]
       /\ files[p] = Left(t, i) \/ (files[p] = FoundFiles[p] /\ run[t] \notin Early)
       /\ \/ saved[t][i] = FoundFiles[p]
          \/ Op(t, i).kind = "remove" /\ saved[t][i] = Absent /\ run[t] \notin Early
       /\ Op(t, i).kind = "mkdir" => FoundFiles[p] = Absent
       /\ Op(t, i).kind = "remove" => FoundFiles[p] \notin {Dir, Absent}
       /\ Past(t, i) => files[p] = FoundFiles[p]

IndexFact(t, p) ==
  /\ (\A i \in OpsOf(t) : ~ TookIndex(t, i, p)) => index[p] = FoundIndex[p]
  /\ \A i \in OpsOf(t) : TookIndex(t, i, p) =>
       /\ \A j \in OpsOf(t) : TookIndex(t, j, p) => j = i
       /\ FoundIndex[p] # Absent /\ saved[t][i] = FoundIndex[p]
       /\ index[p] = Absent \/ (index[p] = FoundIndex[p] /\ run[t] \notin Early)
       /\ Past(t, i) => index[p] = FoundIndex[p]

PathFact(t, p) ==
  /\ KindFact(t, p) /\ SkipFact(t, p) /\ PendingFact(t, p)
  /\ RestoredFact(t, p) /\ FileFact(t, p) /\ IndexFact(t, p)

\* A run that was killed before its manifest was written is never rolled back.
Sound(t) == run[t] = "killed" => t \in manifest

UndoShape == DOMAIN undone = Transactions /\ DOMAIN index = Paths

UndoInv ==
  /\ Runs /\ UndoShape
  /\ \A t \in Transactions : OrderFact(t)
  /\ \A t \in Transactions : Sound(t) => \A p \in LeftTo(t) : PathFact(t, p)

-----------------------------------------------------------------------------
(* Rollback: the steps of a run *)

\* An operation that has been applied, skipped or refused remains so.
LEMMA StatusStep ==
  ASSUME Runs, FsNext, NEW u \in Transactions, NEW j \in OpsOf(u)
  PROVE  status[u][j] # "planned" => status'[u][j] = status[u][j]
<1> DEFINE Goal == status[u][j] # "planned" => status'[u][j] = status[u][j]
<1>0. /\ FsShape /\ \A t \in Transactions : RunFact(t) /\ pos[t] \in OpsOf(t)
  BY DEF Runs, RunFact
<1>1. ASSUME NEW t \in Transactions, NEW s, SetStatus(t, s), run[t] \in ApplyLabels
      PROVE  Goal
  <2>1. status[t][pos[t]] = "planned"
    BY <1>0, <1>1, FsAssumption DEF RunFact, OpsOf
  <2> QED
    BY <1>0, <1>1, <2>1 DEF SetStatus, FsShape
<1>2. ASSUME NEW t \in Transactions, Apply(t)
      PROVE  Goal
  <2>1. CASE PreflightFails(t)
    <3>1. \A i \in OpsOf(t) : status[t][i] = "planned"
      BY <1>0, <2>1, FsAssumption DEF PreflightFails, Doing, RunFact, ApplyLabels, OpsOf
    <3> QED
      BY <1>0, <2>1, <3>1 DEF PreflightFails, FsShape
  <2>2. CASE Skip(t) \/ Fail(t) \/ MakeDirectory(t) \/ Finish(t) \/ Untrack(t)
    <3>1. run[t] \in ApplyLabels /\ \E s : SetStatus(t, s)
      BY <2>2 DEF Skip, Fail, MakeDirectory, Finish, Untrack, Applied, Doing, ApplyLabels
    <3> QED
      BY <1>1, <3>1
  <2> QED
    BY <1>2, <2>1, <2>2 DEF Apply, Preflight, DecideUnlocked, LockAndDecide, Look, BackUp,
       Replace,
         CheckRemove, RenameAway
<1>3. ASSUME NEW t \in Transactions, Rollback(t)
      PROVE  Goal
  BY <1>3 DEF Rollback, SaveManifest, RollbackCommand, NothingToUndo, UndoFails,
       RemoveDirectory, LockAndCheck, Restore, FinishRestore, CheckPutBack, PutBack,
       RestoreIndex
<1> QED
  BY <1>2, <1>3 DEF FsNext, Kill, EditFile

\* A path that is left to a run, and what is inside it, is no other's.
LEMMA LeftFacts ==
  ASSUME NEW t \in Transactions, NEW p \in LeftTo(t)
  PROVE  /\ p \in PathsOf(t) /\ p \in Paths /\ p \notin edited
         /\ \A u \in Transactions \ {t} :
              p \notin PathsOf(u) /\ \A q \in Inside[p] : q \notin PathsOf(u)
         /\ \A i \in OpsOf(t) : Op(t, i).path = p => status[t][i] # "failed"
         /\ p \notin littered /\ \A q \in Inside[p] : q \in LeftTo(t)
<1>1. p \in PathsOf(t) /\ p \in Paths
  BY FsAssumption DEF LeftTo, PathsOf
<1>2. ASSUME NEW q \in Inside[p]
      PROVE  Inside[q] \subseteq Inside[p]
  BY <1>1, PlanAssumption
<1> QED
  BY <1>1, <1>2 DEF LeftTo

\* Paths are left to a run, or no longer.
LEMMA LeftShrinks ==
  ASSUME Runs, FsNext, NEW t \in Transactions
  PROVE  LeftTo(t)' \subseteq LeftTo(t)
<1> DEFINE alone == {p \in PathsOf(t) \ (edited \cup littered) :
                  /\ \A u \in Transactions \ {t} : p \notin PathsOf(u)
                  /\ \A i \in OpsOf(t) : Op(t, i).path = p => status[t][i] # "failed"}
<1>1. alone' \subseteq alone
  BY StatusStep, EditedOnce
<1> QED
  BY <1>1 DEF LeftTo

\* The steps of others leave what t does,
LEMMA OthersKeepRun ==
  ASSUME Runs, UndoShape, NEW t \in Transactions,
         NEW u \in Transactions \ {t}, Apply(u) \/ Rollback(u) \/ Kill(u)
  PROVE  /\ run'[t] = run[t] /\ pos'[t] = pos[t] /\ undone'[t] = undone[t]
         /\ status'[t] = status[t] /\ saved'[t] = saved[t]
         /\ t \in manifest' <=> t \in manifest
<1>0. FsShape /\ t \in DOMAIN undone
  BY DEF Runs, UndoShape
<1>1. CASE Apply(u)
  <2> USE <1>0 DEF FsShape
  <2>1. CASE Preflight(u)
    BY <2>1 DEF Preflight
  <2>2. CASE PreflightFails(u)
    BY <2>2 DEF PreflightFails
  <2>3. CASE Skip(u) \/ Fail(u) \/ MakeDirectory(u) \/ Finish(u) \/ Untrack(u)
    BY <2>3 DEF Skip, Fail, MakeDirectory, Finish, Untrack, Applied, SetStatus
  <2>4. CASE DecideUnlocked(u) \/ LockAndDecide(u) \/ Look(u) \/ BackUp(u) \/ Replace(u)
             \/ CheckRemove(u) \/ RenameAway(u)
    BY <2>4 DEF DecideUnlocked, LockAndDecide, Look, BackUp, Replace, CheckRemove, RenameAway
  <2> QED
    BY <1>1, <2>1, <2>2, <2>3, <2>4 DEF Apply
<1>2. CASE Rollback(u)
  <2> USE <1>0 DEF FsShape
  <2>1. CASE SaveManifest(u) \/ RollbackCommand(u)
    BY <2>1 DEF SaveManifest, RollbackCommand, BeginRollback
  <2>2. CASE PutBack(u)
    BY <2>2 DEF PutBack, Undid
  <2> QED
    BY <1>2, <2>1, <2>2 DEF Rollback, NothingToUndo, UndoFails, RemoveDirectory,
       LockAndCheck, Restore, FinishRestore,
       CheckPutBack, RestoreIndex, Undid
<1>3. CASE Kill(u)
  BY <1>0, <1>3 DEF Kill, FsShape
<1> QED
  BY <1>1, <1>2, <1>3

\* and the paths that are left to it.
LEMMA OthersLeave ==
  ASSUME Runs, UndoShape, NEW t \in Transactions, NEW p \in LeftTo(t),
         NEW u \in Transactions \ {t}, Apply(u) \/ Rollback(u) \/ Kill(u)
  PROVE  files'[p] = files[p] /\ index'[p] = index[p]
<1>0. /\ FsShape /\ t \in DOMAIN undone /\ p \in Paths
      /\ pos[u] \in OpsOf(u) /\ Path(u) # p /\ Path(u) \notin Inside[p]
      /\ Path(u) \in Paths
  <2>1. pos[u] \in OpsOf(u)
    BY DEF Runs, RunFact
  <2>2. Path(u) \in PathsOf(u)
    BY <2>1 DEF PathsOf, Path, Current
  <2> QED
    BY <2>1, <2>2, LeftFacts, FsAssumption DEF Runs, UndoShape, Path, Current
<1>1. WithParents(Path(u))[p] = files[p] /\ DOMAIN WithParents(Path(u)) = Paths
  BY <1>0 DEF WithParents
<1>2. CASE Apply(u)
  BY <1>0, <1>1, <1>2 DEF Apply, Preflight, PreflightFails, Skip, Fail, MakeDirectory,
     DecideUnlocked, LockAndDecide, Look, BackUp, Replace, Finish, CheckRemove, RenameAway,
     Untrack,
     FsShape, UndoShape
<1>3. CASE Rollback(u)
  BY <1>0, <1>1, <1>3 DEF Rollback, SaveManifest, RollbackCommand, NothingToUndo, UndoFails,
     RemoveDirectory, LockAndCheck, Restore, FinishRestore, CheckPutBack, PutBack,
     RestoreIndex, FsShape, UndoShape
<1>4. CASE Kill(u)
  BY <1>0, <1>4 DEF Kill, FsShape
<1> QED
  BY <1>2, <1>3, <1>4

\* What an ended operation leaves of the run.
LEMMA AppliedFacts ==
  ASSUME Runs, NEW t \in Transactions, NEW s, Applied(t, s), run[t] \in ApplyLabels
  PROVE  /\ pos[t] \in OpsOf(t)
         /\ \A j \in OpsOf(t) : status'[t][j] = IF j = pos[t] THEN s ELSE status[t][j]
         /\ \/ s # "failed" /\ run'[t] = "apply" /\ pos'[t] = pos[t] + 1
            \/ run'[t] = "saveManifest" /\ pos'[t] = pos[t]
         /\ \A j \in OpsOf(t) : j >= pos[t] => status[t][j] = "planned"
<1>1. FsShape /\ RunFact(t) /\ pos[t] \in OpsOf(t)
  BY DEF Runs, RunFact
<1>2. \A j \in OpsOf(t) : j >= pos[t] => status[t][j] = "planned"
  BY <1>1 DEF RunFact
<1>3. \A j \in OpsOf(t) : status'[t][j] = IF j = pos[t] THEN s ELSE status[t][j]
  BY <1>1 DEF Applied, SetStatus, FsShape
<1> QED
  BY <1>1, <1>2, <1>3 DEF Applied, FsShape

LEMMA AppliedOrder ==
  ASSUME Runs, NEW t \in Transactions, OrderFact(t), run[t] \in ApplyLabels,
         NEW s \in {"applied", "skipped", "failed"}, Applied(t, s), UNCHANGED <<undone, manifest>>
  PROVE  OrderFact(t)'
<1>1. /\ pos[t] \in OpsOf(t)
      /\ \A j \in OpsOf(t) : status'[t][j] = IF j = pos[t] THEN s ELSE status[t][j]
      /\ \/ s # "failed" /\ run'[t] = "apply" /\ pos'[t] = pos[t] + 1
         \/ run'[t] = "saveManifest" /\ pos'[t] = pos[t]
      /\ \A j \in OpsOf(t) : j >= pos[t] => status[t][j] = "planned"
  BY AppliedFacts
<1>2. ASSUME run'[t] \in ApplyLabels, NEW k \in OpsOf(t), k < pos'[t]
      PROVE  status'[t][k] \in {"applied", "skipped"}
  <2>1. s # "failed" /\ pos'[t] = pos[t] + 1
    BY <1>1, <1>2 DEF ApplyLabels
  <2>2. k = pos[t] \/ k < pos[t]
    BY <1>1, <1>2, <2>1, FsAssumption DEF OpsOf
  <2> QED
    BY <1>1, <2>1, <2>2 DEF OrderFact
<1>3. ASSUME NEW j \in OpsOf(t), status'[t][j] = "applied", NEW k \in OpsOf(t), k < j
      PROVE  status'[t][k] \in {"applied", "skipped"}
  <2>1. j <= pos[t] /\ k < pos[t]
    BY <1>1, <1>3, FsAssumption DEF OpsOf
  <2>2. k # pos[t] /\ status[t][k] \in {"applied", "skipped"}
    BY <1>1, <2>1, FsAssumption DEF OrderFact, OpsOf
  <2> QED
    BY <1>1, <2>2
<1>4. undone'[t] = "notRun" /\ t \notin manifest'
  BY DEF OrderFact, Early
<1> QED
  BY <1>2, <1>3, <1>4 DEF OrderFact

\* Steps of a run that ends no operation.
LEMMA OrderStays ==
  ASSUME NEW t \in Transactions, OrderFact(t), status'[t] = status[t],
         run'[t] \in Early =>
           run[t] \in ApplyLabels /\ pos'[t] = pos[t] /\ UNCHANGED <<undone, manifest>>
  PROVE  OrderFact(t)'
BY DEF OrderFact, Early, ApplyLabels

LEMMA OrderNext ==
  ASSUME Runs, FsNext, NEW t \in Transactions, OrderFact(t),
         Apply(t) \/ Rollback(t) \/ Kill(t)
  PROVE  OrderFact(t)'
<1>0. FsShape /\ RunFact(t) /\ pos[t] \in OpsOf(t)
  BY DEF Runs, RunFact
<1>1. CASE Apply(t)
  <2>1. CASE PreflightFails(t)
    <3>1. /\ run'[t] = "ended"
          /\ \A i \in OpsOf(t) : status'[t][i] # "applied"
      BY <1>0, <2>1 DEF PreflightFails, FsShape
    <3> QED
      BY <3>1 DEF OrderFact, Early, ApplyLabels
  <2>2. CASE Skip(t) \/ Fail(t) \/ MakeDirectory(t) \/ Finish(t) \/ Untrack(t)
    <3>1. /\ run[t] \in ApplyLabels /\ UNCHANGED <<undone, manifest>>
          /\ \E s \in {"applied", "skipped", "failed"} : Applied(t, s)
      BY <2>2 DEF Skip, Fail, MakeDirectory, Finish, Untrack, Doing, ApplyLabels
    <3> QED
      BY <3>1, AppliedOrder
  <2>3. CASE Preflight(t) \/ DecideUnlocked(t) \/ LockAndDecide(t) \/ Look(t) \/ BackUp(t)
             \/ Replace(t)
             \/ CheckRemove(t) \/ RenameAway(t)
    <3>1. run[t] \in ApplyLabels /\ UNCHANGED <<pos, status, undone, manifest>>
      BY <2>3 DEF Preflight, DecideUnlocked, LockAndDecide, Look, BackUp, Replace,
         CheckRemove, RenameAway,
           Doing, ApplyLabels
    <3> QED
      BY <3>1, OrderStays
  <2> QED
    BY <1>1, <2>1, <2>2, <2>3 DEF Apply
<1>2. CASE Rollback(t) \/ Kill(t)
  <2>1. UNCHANGED status
    BY <1>2 DEF Rollback, SaveManifest, RollbackCommand, NothingToUndo, UndoFails,
       RemoveDirectory, LockAndCheck, Restore, FinishRestore, CheckPutBack, PutBack,
       RestoreIndex, Kill
  <2>2. run'[t] \notin Early
    <3>1. CASE SaveManifest(t)
      BY <1>0, <3>1, BeginsStep DEF SaveManifest, FsShape, Early, ApplyLabels
    <3>2. CASE RollbackCommand(t)
      BY <3>2, BeginsStep DEF RollbackCommand, Early, ApplyLabels
    <3>3. CASE LockAndCheck(t) \/ Restore(t) \/ CheckPutBack(t) \/ Kill(t)
      BY <1>0, <3>3 DEF LockAndCheck, Restore, CheckPutBack, Kill, FsShape, Early, ApplyLabels
    <3>4. CASE \E result : Undid(t, result)
      BY <3>4, UndidStep DEF Early, ApplyLabels
    <3> QED
      BY <1>2, <3>1, <3>2, <3>3, <3>4 DEF Rollback, NothingToUndo, UndoFails, RemoveDirectory,
           FinishRestore, PutBack, RestoreIndex
  <2> QED
    BY <2>1, <2>2, OrderStays
<1> QED
  BY <1>1, <1>2

-----------------------------------------------------------------------------
(* Rollback: what a step leaves of what is known of a path *)

\* The steps that change neither the file nor which operation took it,
LEMMA FileStays ==
  ASSUME NEW t \in Transactions, NEW p \in Paths, FileFact(t, p), files'[p] = files[p],
         run'[t] \in Early => run[t] \in Early,
         \A i \in OpsOf(t) :
           /\ TookFile(t, i, p)' <=> TookFile(t, i, p)
           /\ TookFile(t, i, p) =>
                /\ saved'[t][i] = saved[t][i]
                /\ Past(t, i)' => Past(t, i) \/ files[p] = FoundFiles[p]
  PROVE  FileFact(t, p)'
<1> USE DEF FileFact
<1>1. (\A i \in OpsOf(t) : ~ TookFile(t, i, p)') => files'[p] = FoundFiles[p]
  OBVIOUS
<1>2. ASSUME NEW i \in OpsOf(t), TookFile(t, i, p)'
      PROVE  /\ \A j \in OpsOf(t) : TookFile(t, j, p)' => j = i
             /\ Left(t, i) # FoundFiles[p]
             /\ files'[p] = Left(t, i) \/ (files'[p] = FoundFiles[p] /\ run'[t] \notin Early)
             /\ \/ saved'[t][i] = FoundFiles[p]
                \/ Op(t, i).kind = "remove" /\ saved'[t][i] = Absent /\ run'[t] \notin Early
             /\ Op(t, i).kind = "mkdir" => FoundFiles[p] = Absent
             /\ Op(t, i).kind = "remove" => FoundFiles[p] \notin {Dir, Absent}
             /\ Past(t, i)' => files'[p] = FoundFiles[p]
  BY <1>2
<1> QED
  BY <1>1, <1>2

\* the index entry,
LEMMA IndexStays ==
  ASSUME NEW t \in Transactions, NEW p \in Paths, IndexFact(t, p), index'[p] = index[p],
         run'[t] \in Early => run[t] \in Early,
         \A i \in OpsOf(t) :
           /\ TookIndex(t, i, p)' <=> TookIndex(t, i, p)
           /\ TookIndex(t, i, p) =>
                /\ saved'[t][i] = saved[t][i]
                /\ Past(t, i)' => Past(t, i) \/ index[p] = FoundIndex[p]
  PROVE  IndexFact(t, p)'
<1> USE DEF IndexFact
<1>1. (\A i \in OpsOf(t) : ~ TookIndex(t, i, p)') => index'[p] = FoundIndex[p]
  OBVIOUS
<1>2. ASSUME NEW i \in OpsOf(t), TookIndex(t, i, p)'
      PROVE  /\ \A j \in OpsOf(t) : TookIndex(t, j, p)' => j = i
             /\ FoundIndex[p] # Absent /\ saved'[t][i] = FoundIndex[p]
             /\ index'[p] = Absent \/ (index'[p] = FoundIndex[p] /\ run'[t] \notin Early)
             /\ Past(t, i)' => index'[p] = FoundIndex[p]
  BY <1>2
<1> QED
  BY <1>1, <1>2

\* or which directories are skipped.
LEMMA SkipStays ==
  ASSUME Runs, FsNext, NEW t \in Transactions, NEW p \in Paths, SkipFact(t, p),
         \A k \in OpsOf(t) : status'[t][k] = "skipped" => status[t][k] = "skipped"
  PROVE  SkipFact(t, p)'
<1>1. \A i \in OpsOf(t) : status[t][i] = "applied" => status'[t][i] = "applied"
  BY StatusStep
<1> QED
  BY <1>1 DEF SkipFact, TookFile

-----------------------------------------------------------------------------
(* Rollback: directories *)

\* No operation takes a directory that was found, unless nothing is inside it.
LEMMA FoundDirectory ==
  ASSUME NEW t \in Transactions, NEW p \in Paths, FileFact(t, p),
         FoundFiles[p] = Dir, Inside[p] # {}
  PROVE  files[p] = Dir /\ \A i \in OpsOf(t) : ~ TookFile(t, i, p)
<1>1. ASSUME NEW i \in OpsOf(t), TookFile(t, i, p)
      PROVE  FALSE
  <2>1. /\ Op(t, i).kind \in {"mkdir", "write", "remove"} /\ Op(t, i).path = p
        /\ Op(t, i).kind = "mkdir" => FoundFiles[p] = Absent
        /\ Op(t, i).kind = "remove" => FoundFiles[p] \notin {Dir, Absent}
    BY <1>1 DEF TookFile, FileFact, FileKinds
  <2> QED
    BY <2>1, FsAssumption, PlanAssumption
<1> QED
  BY <1>1 DEF FileFact

\* A directory that was not found, and that an operation needs, t has made before.
LEMMA ParentMade ==
  ASSUME NEW t \in Transactions, NEW p \in LeftTo(t), PathFact(t, p), run[t] # "preflight",
         NEW i \in OpsOf(t), Op(t, i).kind \in {"mkdir", "write"}, Op(t, i).path \in Inside[p],
         \A k \in OpsOf(t) : k < i => status[t][k] \in {"applied", "skipped"},
         FoundFiles[p] # Dir
  PROVE  \E m \in OpsOf(t) :
           m < i /\ Op(t, m).kind = "mkdir" /\ TookFile(t, m, p) /\ status[t][m] = "applied"
<1>0. p \in Paths /\ p \in PathsOf(t)
  BY LeftFacts
<1>1. PICK j \in 1..(i - 1) : Op(t, j).kind = "mkdir" /\ Op(t, j).path = p
  BY <1>0, PlanAssumption
<1>2. j \in OpsOf(t) /\ j < i
  BY <1>1, FsAssumption DEF OpsOf
<1>3. FoundFiles[p] = Absent
  BY <1>1, <1>2 DEF PathFact, KindFact
<1>4. CASE status[t][j] = "applied"
  BY <1>1, <1>2, <1>4 DEF TookFile, FileKinds
<1>5. CASE status[t][j] = "skipped"
  <2>1. PICK m \in OpsOf(t) : m < j /\ status[t][m] = "applied" /\ TookFile(t, m, p)
    BY <1>1, <1>2, <1>3, <1>5 DEF PathFact, SkipFact
  <2>2. Op(t, m).kind # "remove"
    BY <1>3, <2>1 DEF PathFact, FileFact
  <2>3. Op(t, m).kind # "write"
    BY <2>1, PlanAssumption DEF TookFile
  <2>4. Op(t, m).kind = "mkdir" /\ m < i
    BY <1>2, <2>1, <2>2, <2>3, FsAssumption DEF TookFile, FileKinds, OpsOf
  <2> QED
    BY <2>1, <2>4
<1> QED
  BY <1>2, <1>4, <1>5

\* The directories around a path to be made or written are there.
LEMMA ParentIsThere ==
  ASSUME Runs, NEW t \in Transactions, OrderFact(t), NEW p \in LeftTo(t), PathFact(t, p),
         run[t] = "apply", Current(t).kind \in {"mkdir", "write"}, Path(t) \in Inside[p]
  PROVE  files[p] = Dir
<1>1. /\ pos[t] \in OpsOf(t) /\ p \in Paths
      /\ \A k \in OpsOf(t) : k < pos[t] => status[t][k] \in {"applied", "skipped"}
  BY LeftFacts DEF Runs, RunFact, OrderFact, ApplyLabels
<1>2. CASE FoundFiles[p] = Dir
  BY <1>1, <1>2, FoundDirectory DEF PathFact
<1>3. CASE FoundFiles[p] # Dir
  <2>1. PICK m \in OpsOf(t) : Op(t, m).kind = "mkdir" /\ TookFile(t, m, p)
    BY <1>1, <1>3, ParentMade DEF Current, Path
  <2> QED
    BY <2>1 DEF PathFact, FileFact, Left, Early, ApplyLabels
<1> QED
  BY <1>2, <1>3

-----------------------------------------------------------------------------
(* Rollback: the steps of a run that applies its plan *)

\* What is known of the path, but for the file and the index entry.
LEMMA RestStays ==
  ASSUME Runs, FsNext, NEW t \in Transactions, NEW p \in Paths, PathFact(t, p),
         run[t] # "preflight",
         run'[t] \notin {"look", "backUp", "write", "rename", "finishRestore"},
         \A k \in OpsOf(t) : status'[t][k] = "skipped" => status[t][k] = "skipped"
  PROVE  KindFact(t, p)' /\ SkipFact(t, p)' /\ PendingFact(t, p)' /\ RestoredFact(t, p)'
<1>1. SkipFact(t, p)'
  BY SkipStays DEF PathFact
<1> QED
  BY <1>1 DEF PathFact, KindFact, PendingFact, RestoredFact

\* The file and the index entry, if none of the two changes.
LEMMA BothStay ==
  ASSUME NEW t \in Transactions, NEW p \in Paths, PathFact(t, p), OrderFact(t),
         run[t] \in Early, undone'[t] = undone[t],
         files'[p] = files[p], index'[p] = index[p],
         \A i \in OpsOf(t) :
           /\ TookFile(t, i, p)' <=> TookFile(t, i, p)
           /\ TookIndex(t, i, p)' <=> TookIndex(t, i, p)
           /\ TookFile(t, i, p) \/ TookIndex(t, i, p) => saved'[t][i] = saved[t][i]
  PROVE  FileFact(t, p)' /\ IndexFact(t, p)'
<1>1. \A i \in OpsOf(t) : ~ Past(t, i)'
  BY DEF OrderFact, Past
<1>2. FileFact(t, p)'
  BY <1>1, FileStays DEF PathFact
<1>3. IndexFact(t, p)'
  BY <1>1, IndexStays DEF PathFact
<1> QED
  BY <1>2, <1>3

\* Which operations have taken a path when one more has ended.
LEMMA AppliedTook ==
  ASSUME Runs, NEW t \in Transactions, NEW s, Applied(t, s), run[t] \in ApplyLabels,
         NEW p, NEW i \in OpsOf(t)
  PROVE  /\ i # pos[t] =>
              /\ TookFile(t, i, p)' <=> TookFile(t, i, p)
              /\ TookIndex(t, i, p)' <=> TookIndex(t, i, p)
         /\ i = pos[t] =>
              /\ ~ TookIndex(t, i, p)
              /\ TookFile(t, i, p) => run[t] \in {"finishWrite", "finishRemove"}
              /\ TookFile(t, i, p)' <=>
                   s = "applied" /\ Op(t, i).path = p /\ Op(t, i).kind \in FileKinds
              /\ TookIndex(t, i, p)' <=>
                   s = "applied" /\ Op(t, i).path = p /\ Op(t, i).kind = "untrack"
<1>1. /\ pos[t] \in OpsOf(t) /\ pos[t] >= pos[t]
      /\ \A j \in OpsOf(t) : status'[t][j] = IF j = pos[t] THEN s ELSE status[t][j]
      /\ run'[t] \in {"apply", "saveManifest"}
      /\ \A j \in OpsOf(t) : j >= pos[t] => status[t][j] = "planned"
  BY AppliedFacts, FsAssumption DEF OpsOf
<1> QED
  BY <1>1 DEF TookFile, TookIndex

\* Before the first operation, nothing is taken.
LEMMA PreflightPath ==
  ASSUME Runs, UndoShape, FsNext, NEW t \in Transactions, OrderFact(t), NEW p \in LeftTo(t),
         p \in LeftTo(t)', PathFact(t, p), Preflight(t) \/ PreflightFails(t)
  PROVE  PathFact(t, p)'
<1>1. /\ FsShape /\ run[t] = "preflight" /\ p \in Paths
      /\ \A i \in OpsOf(t) : status[t][i] = "planned"
  BY FsAssumption, LeftFacts DEF Runs, RunFact, Preflight, PreflightFails, Doing,
     ApplyLabels, OpsOf
<1>2. \A i \in OpsOf(t) : ~ TookFile(t, i, p) /\ ~ TookIndex(t, i, p)
  BY <1>1 DEF TookFile, TookIndex
<1>3. files[p] = FoundFiles[p]
  BY <1>2 DEF PathFact, FileFact
<1>4. /\ run'[t] \in {"apply", "ended"} /\ undone'[t] = undone[t] /\ saved'[t] = saved[t]
      /\ files'[p] = files[p] /\ index'[p] = index[p]
  BY <1>1 DEF Preflight, PreflightFails, FsShape
<1>5. \A i \in OpsOf(t) : /\ status'[t][i] \in {"planned", "failed"}
                          /\ status'[t][i] = "failed" \/ AsPlanned(Op(t, i))
  BY <1>1 DEF Preflight, PreflightFails, FsShape
<1>6. \A i \in OpsOf(t) : Op(t, i).path = p => AsPlanned(Op(t, i))
  BY <1>5 DEF LeftTo
<1>7. \A i \in OpsOf(t) : ~ TookFile(t, i, p)' /\ ~ TookIndex(t, i, p)'
  BY <1>4, <1>5 DEF TookFile, TookIndex
<1>8. FileFact(t, p)' /\ IndexFact(t, p)'
  BY <1>1, <1>2, <1>4, <1>7, BothStay DEF Early, ApplyLabels
<1>9. KindFact(t, p)' /\ SkipFact(t, p)' /\ PendingFact(t, p)' /\ RestoredFact(t, p)'
  BY <1>3, <1>4, <1>5, <1>6 DEF KindFact, SkipFact, PendingFact, RestoredFact, AsPlanned
<1> QED
  BY <1>8, <1>9 DEF PathFact

\* An operation that ends without having changed anything in this step.
LEMMA EndsPath ==
  ASSUME Runs, UndoShape, FsNext, NEW t \in Transactions, OrderFact(t), NEW p \in LeftTo(t),
         p \in LeftTo(t)', PathFact(t, p), Skip(t) \/ Fail(t) \/ Finish(t)
  PROVE  PathFact(t, p)'
<1>1. /\ p \in Paths /\ run[t] \in ApplyLabels /\ run[t] # "preflight"
      /\ UNCHANGED <<files, index, saved, undone>>
      /\ \E s : Applied(t, s)
  BY LeftFacts DEF Skip, Fail, Finish, Doing, ApplyLabels
<1>2. PICK s : /\ Applied(t, s)
               /\ Skip(t) => s = "skipped"
               /\ Fail(t) /\ ~ Skip(t) => s = "failed"
               /\ Finish(t) /\ ~ Skip(t) /\ ~ Fail(t) => s \in {"applied", "failed"}
  BY DEF Skip, Fail, Finish
<1>3. /\ pos[t] \in OpsOf(t) /\ run'[t] \in {"apply", "saveManifest"}
      /\ \A j \in OpsOf(t) : status'[t][j] = IF j = pos[t] THEN s ELSE status[t][j]
      /\ \A j \in OpsOf(t) : j >= pos[t] => status[t][j] = "planned"
  BY <1>1, <1>2, AppliedFacts
<1>4. s = "failed" => Path(t) # p
  BY <1>3 DEF LeftTo, Path, Current
<1>5. run[t] \in {"finishWrite", "finishRemove"} => Current(t).kind \in FileKinds
  BY DEF Runs, RunFact, FileKinds
<1>6. run[t] \in {"finishWrite", "finishRemove"} => Finish(t) /\ ~ Skip(t) /\ ~ Fail(t)
  BY DEF Skip, Fail, Finish, Doing
<1>7. s = "applied" => run[t] \in {"finishWrite", "finishRemove"}
  BY <1>2 DEF Finish
<1> DEFINE own(i) == Op(t, i).path = p /\ Op(t, i).kind \in FileKinds
<1>8. ASSUME NEW i \in OpsOf(t), i = pos[t]
      PROVE  TookFile(t, i, p)' <=> TookFile(t, i, p)
  <2>1. TookFile(t, i, p)' <=> s = "applied" /\ own(i)
    BY <1>1, <1>2, <1>8, AppliedTook
  <2>2. s = "applied" /\ own(i) => TookFile(t, i, p)
    BY <1>7, <1>8 DEF TookFile
  <2>3. TookFile(t, i, p) => run[t] \in {"finishWrite", "finishRemove"} /\ own(i)
    BY <1>1, <1>2, <1>8, AppliedTook DEF TookFile
  <2>4. own(i) => Path(t) = p
    BY <1>8 DEF Path, Current
  <2> QED
    BY <1>2, <1>4, <1>6, <2>1, <2>2, <2>3, <2>4
<1>9. ASSUME NEW i \in OpsOf(t), i = pos[t]
      PROVE  TookIndex(t, i, p)' <=> TookIndex(t, i, p)
  <2>1. s = "applied" => Op(t, i).kind # "untrack"
    BY <1>5, <1>7, <1>9 DEF Current, FileKinds
  <2> QED
    BY <1>1, <1>2, <1>9, <2>1, AppliedTook
<1>10. \A i \in OpsOf(t) : /\ TookFile(t, i, p)' <=> TookFile(t, i, p)
                           /\ TookIndex(t, i, p)' <=> TookIndex(t, i, p)
  BY <1>1, <1>2, <1>8, <1>9, AppliedTook
<1>11. FileFact(t, p)' /\ IndexFact(t, p)'
  BY <1>1, <1>10, BothStay DEF Early
<1>12. KindFact(t, p)' /\ PendingFact(t, p)' /\ RestoredFact(t, p)'
  BY <1>1, <1>3 DEF PathFact, KindFact, PendingFact, RestoredFact
<1>13. SkipFact(t, p)'
  <2>1. CASE ~ Skip(t)
    <3>1. \A k \in OpsOf(t) : status'[t][k] = "skipped" => status[t][k] = "skipped"
      BY <1>2, <1>3, <2>1
    <3> QED
      BY <1>1, <3>1, RestStays, <1>3
  <2>2. CASE Skip(t)
    <3>1. \A i \in OpsOf(t) : status[t][i] = "applied" => status'[t][i] = "applied"
      BY StatusStep
    <3>2. \A k \in OpsOf(t) : status'[t][k] = "skipped" => k = pos[t] \/ status[t][k] = "skipped"
      BY <1>3
    <3>3. ASSUME Op(t, pos[t]).kind = "mkdir", Op(t, pos[t]).path = p, FoundFiles[p] = Absent
          PROVE  \E i \in OpsOf(t) : i < pos[t] /\ status[t][i] = "applied" /\ TookFile(t, i, p)
      <4>1. files[p] # Absent
        BY <2>2, <3>3 DEF Skip, Current, Path
      <4>2. PICK i \in OpsOf(t) : TookFile(t, i, p)
        BY <3>3, <4>1 DEF PathFact, FileFact
      <4>3. status[t][i] = "applied"
        BY <2>2, <4>2 DEF TookFile, Skip, Doing
      <4>4. i < pos[t]
        BY <1>3, <4>3, FsAssumption DEF OpsOf
      <4> QED
        BY <4>2, <4>3, <4>4
    <3>4. \A i \in OpsOf(t) : TookFile(t, i, p) => TookFile(t, i, p)'
      BY <1>10
    <3> QED
      BY <3>1, <3>2, <3>3, <3>4 DEF PathFact, SkipFact
  <2> QED
    BY <2>1, <2>2
<1> QED
  BY <1>11, <1>12, <1>13 DEF PathFact

LEMMA MakesPath ==
  ASSUME Runs, UndoShape, FsNext, NEW t \in Transactions, OrderFact(t), NEW p \in LeftTo(t),
         PathFact(t, p), MakeDirectory(t)
  PROVE  PathFact(t, p)'
<1>1. /\ FsShape /\ p \in Paths /\ run[t] = "apply" /\ Current(t).kind = "mkdir"
      /\ UNCHANGED <<index, saved, manifest, undone>> /\ Applied(t, "applied")
      /\ files[Path(t)] = Absent
      /\ files' = [WithParents(Path(t)) EXCEPT ![Path(t)] = Dir]
  BY LeftFacts DEF MakeDirectory, Doing, Runs
<1>2. /\ pos[t] \in OpsOf(t) /\ run'[t] \in {"apply", "saveManifest"}
      /\ \A j \in OpsOf(t) : status'[t][j] = IF j = pos[t] THEN "applied" ELSE status[t][j]
      /\ \A i \in OpsOf(t) :
           /\ TookFile(t, i, p)' <=> TookFile(t, i, p) \/ (i = pos[t] /\ Op(t, i).path = p)
           /\ TookIndex(t, i, p)' <=> TookIndex(t, i, p)
  <2>1. /\ pos[t] \in OpsOf(t) /\ run'[t] \in {"apply", "saveManifest"}
        /\ \A j \in OpsOf(t) : status'[t][j] = IF j = pos[t] THEN "applied" ELSE status[t][j]
    BY <1>1, AppliedFacts DEF ApplyLabels
  <2>2. ASSUME NEW i \in OpsOf(t)
        PROVE  /\ TookFile(t, i, p)' <=> TookFile(t, i, p) \/ (i = pos[t] /\ Op(t, i).path = p)
               /\ TookIndex(t, i, p)' <=> TookIndex(t, i, p)
    <3>1. i = pos[t] => Op(t, i).kind = "mkdir" /\ Op(t, i).kind \in FileKinds
      BY <1>1 DEF Current, FileKinds
    <3>2. run[t] \in ApplyLabels /\ run[t] \notin {"finishWrite", "finishRemove"}
      BY <1>1 DEF ApplyLabels
    <3> QED
      BY <1>1, <3>1, <3>2, AppliedTook
  <2> QED
    BY <2>1, <2>2
<1>3. KindFact(t, p)' /\ SkipFact(t, p)' /\ PendingFact(t, p)' /\ RestoredFact(t, p)'
  BY <1>1, <1>2, RestStays
<1>4. CASE Path(t) # p
  <2>1. files'[p] = files[p]
    <3>1. Path(t) \in Inside[p] => files[p] = Dir
      BY <1>1, ParentIsThere
    <3> QED
      BY <1>1, <1>4, <3>1 DEF WithParents
  <2>2. \A i \in OpsOf(t) : i = pos[t] => Op(t, i).path # p
    BY <1>4 DEF Path, Current
  <2> QED
    BY <1>1, <1>2, <1>3, <2>1, <2>2, BothStay DEF PathFact, Early, ApplyLabels
<1>5. CASE Path(t) = p
  <2>1. files'[p] = Dir
    BY <1>1, <1>5 DEF WithParents
  <2>2. FoundFiles[p] \in {Absent, Dir}
    BY <1>1, <1>2, <1>5 DEF PathFact, KindFact, Current, Path
  <2>3. \A i \in OpsOf(t) : ~ TookFile(t, i, p)
    <3>1. ASSUME NEW i \in OpsOf(t), TookFile(t, i, p)
          PROVE  FALSE
      <4>1. files[p] = Left(t, i) /\ Op(t, i).kind # "remove"
        BY <1>1, <2>2, <3>1 DEF PathFact, FileFact, Early, ApplyLabels
      <4>2. Op(t, i).kind \in {"mkdir", "write"}
        BY <3>1, <4>1 DEF TookFile, FileKinds
      <4> QED
        BY <1>1, <1>5, <4>1, <4>2, PlanAssumption, FsAssumption DEF Left
    <3> QED
      BY <3>1
  <2>4. FoundFiles[p] = Absent
    BY <1>1, <1>5, <2>3 DEF PathFact, FileFact
  <2>5. saved[t][pos[t]] = Absent
    BY <1>1 DEF Runs, RunFact, ApplyLabels, BackedLabels
  <2>6. \A i \in OpsOf(t) : ~ Past(t, i)'
    BY <1>1 DEF OrderFact, Past, Early, ApplyLabels
  <2>7. FileFact(t, p)'
    <3>1. \A i \in OpsOf(t) : TookFile(t, i, p)' <=> i = pos[t]
      BY <1>2, <1>5, <2>3 DEF Path, Current
    <3>2. Left(t, pos[t]) = Dir /\ Op(t, pos[t]).kind = "mkdir"
      BY <1>1 DEF Left, Current
    <3> QED
      BY <1>1, <1>2, <2>1, <2>4, <2>5, <2>6, <3>1, <3>2, FsAssumption DEF FileFact
  <2>8. IndexFact(t, p)'
    BY <1>1, <1>2, <2>6, IndexStays DEF PathFact, Early, ApplyLabels
  <2> QED
    BY <1>3, <2>7, <2>8 DEF PathFact
<1> QED
  BY <1>4, <1>5

\* Steps that keep the operation going and change neither file nor index entry.
LEMMA GoesOnPath ==
  ASSUME Runs, UndoShape, FsNext, NEW t \in Transactions, OrderFact(t), NEW p \in LeftTo(t),
         PathFact(t, p),
         DecideUnlocked(t) \/ LockAndDecide(t) \/ Look(t) \/ BackUp(t) \/ CheckRemove(t)
  PROVE  PathFact(t, p)'
<1>0. FsShape /\ RunFact(t)
  BY DEF Runs
<1>1. /\ p \in Paths /\ run[t] \in {"apply", "lock", "look", "backUp"} /\ pos[t] \in OpsOf(t)
      /\ UNCHANGED <<index, pos, status, undone>>
      /\ run'[t] \in {"lock", "look", "backUp", "write", "rename"}
      /\ \A j \in OpsOf(t) : j # pos[t] => saved'[t][j] = saved[t][j]
  BY <1>0, LeftFacts DEF DecideUnlocked, LockAndDecide, Look, BackUp, CheckRemove, Doing,
     FsShape, RunFact
<1>2. status[t][pos[t]] = "planned" /\ saved[t][pos[t]] = Absent
  BY <1>0, <1>1, FsAssumption DEF RunFact, ApplyLabels, BackedLabels, OpsOf
<1>3. files'[p] = files[p]
  <2>1. CASE DecideUnlocked(t)
    <3>1. Path(t) \in Inside[p] => files[p] = Dir
      BY <2>1, ParentIsThere DEF DecideUnlocked, Doing
    <3> QED
      BY <1>1, <2>1, <3>1 DEF DecideUnlocked, WithParents
  <2> QED
    BY <2>1 DEF LockAndDecide, Look, BackUp, CheckRemove
<1>4. \A i \in OpsOf(t) : /\ TookFile(t, i, p)' <=> TookFile(t, i, p)
                          /\ TookIndex(t, i, p)' <=> TookIndex(t, i, p)
                          /\ TookFile(t, i, p) \/ TookIndex(t, i, p) => i # pos[t]
  BY <1>1, <1>2 DEF TookFile, TookIndex
<1>5. FileFact(t, p)' /\ IndexFact(t, p)'
  BY <1>1, <1>3, <1>4, BothStay DEF Early, ApplyLabels
<1>6. KindFact(t, p)' /\ RestoredFact(t, p)'
  BY <1>1 DEF PathFact, KindFact, RestoredFact
<1>7. SkipFact(t, p)'
  BY <1>1, SkipStays DEF PathFact
<1>8. ASSUME run'[t] # "lock", Path(t) = p
      PROVE  /\ \A i \in OpsOf(t) : ~ TookFile(t, i, p)
             /\ Left(t, pos[t]) # FoundFiles[p]
             /\ run'[t] = "rename" => FoundFiles[p] \notin {Dir, Absent}
             /\ run'[t] = "write" => saved'[t][pos[t]] = FoundFiles[p]
  <2>1. CASE LockAndDecide(t) \/ CheckRemove(t)
    <3>1. /\ Current(t).kind \in {"write", "remove"} /\ AsPlanned(Current(t))
          /\ CheckRemove(t) => Current(t).kind = "remove" /\ files[p] # Absent
          /\ ~ CheckRemove(t) => Current(t).kind = "write" /\ files[p] # Current(t).content
          /\ run'[t] = "rename" => CheckRemove(t)
          /\ run'[t] # "write"
      BY <1>0, <1>8, <2>1 DEF LockAndDecide, CheckRemove, MayWrite, Doing, RunFact, FsShape
    <3>2. files[p] = FoundFiles[p] /\ files[p] # Dir
      BY <1>8, <3>1 DEF AsPlanned, Path
    <3>3. files[p] # Left(t, pos[t])
      BY <1>8, <3>1 DEF Left, Current
    <3>4. \A i \in OpsOf(t) : ~ TookFile(t, i, p)
      BY <1>1, <3>2 DEF PathFact, FileFact, Early, ApplyLabels
    <3> QED
      BY <3>1, <3>2, <3>3, <3>4
  <2>2. CASE Look(t) \/ BackUp(t)
    <3>1. /\ run[t] \in {"look", "backUp"} /\ run'[t] # "rename"
          /\ run'[t] = "write" => saved'[t][pos[t]] = files[p]
      BY <1>0, <1>1, <1>2, <1>8, <2>2 DEF Look, BackUp, Doing, FsShape
    <3>2. /\ \A i \in OpsOf(t) : ~ TookFile(t, i, p)
          /\ Left(t, pos[t]) # FoundFiles[p]
      BY <1>8, <3>1 DEF PathFact, PendingFact
    <3>3. files[p] = FoundFiles[p]
      BY <3>2 DEF PathFact, FileFact
    <3> QED
      BY <3>1, <3>2, <3>3
  <2>3. ~ DecideUnlocked(t)
    BY <1>0, <1>8 DEF DecideUnlocked, FsShape
  <2> QED
    BY <2>1, <2>2, <2>3
<1>9. Path(t)' = Path(t)
  BY <1>1 DEF Path, Current
<1>10. PendingFact(t, p)'
  BY <1>1, <1>4, <1>8, <1>9 DEF PendingFact, Left
<1> QED
  BY <1>5, <1>6, <1>7, <1>10 DEF PathFact

\* The rename onto the target, or away from it.
LEMMA TakesPath ==
  ASSUME Runs, UndoShape, FsNext, NEW t \in Transactions, OrderFact(t), NEW p \in LeftTo(t),
         PathFact(t, p), Replace(t) \/ RenameAway(t)
  PROVE  PathFact(t, p)'
<1>1. /\ FsShape /\ p \in Paths /\ run[t] \in {"write", "rename"} /\ pos[t] \in OpsOf(t)
      /\ UNCHANGED <<index, pos, status, undone>>
      /\ run'[t] \in {"finishWrite", "finishRemove"}
      /\ Current(t).kind \in {"write", "remove"}
      /\ \A j \in OpsOf(t) : j # pos[t] => saved'[t][j] = saved[t][j]
      /\ files' = [files EXCEPT ![Path(t)] = Left(t, pos[t])]
  <2>1. CASE Replace(t)
    <3>1. run[t] = "write" /\ Current(t).kind = "write"
      BY <2>1 DEF Replace, Doing, Runs, RunFact
    <3> QED
      BY <2>1, <3>1, LeftFacts DEF Replace, Runs, FsShape, RunFact, Left, Current
  <2>2. CASE RenameAway(t)
    <3>1. run[t] = "rename" /\ Current(t).kind = "remove"
      BY <2>2 DEF RenameAway, Doing, Runs, RunFact
    <3> QED
      BY <2>2, <3>1, LeftFacts DEF RenameAway, Runs, FsShape, RunFact, Left, Current
  <2> QED
    BY <2>1, <2>2
<1>2. status[t][pos[t]] = "planned"
  BY <1>1, FsAssumption DEF Runs, RunFact, ApplyLabels, OpsOf
<1>3. KindFact(t, p)' /\ SkipFact(t, p)' /\ PendingFact(t, p)' /\ RestoredFact(t, p)'
  BY <1>1, RestStays
<1>4. \A i \in OpsOf(t) :
        /\ TookFile(t, i, p)' <=> TookFile(t, i, p) \/ (i = pos[t] /\ Op(t, i).path = p)
        /\ TookIndex(t, i, p)' <=> TookIndex(t, i, p)
        /\ TookFile(t, i, p) \/ TookIndex(t, i, p) => i # pos[t]
  BY <1>1, <1>2 DEF TookFile, TookIndex, FileKinds, Current
<1>5. \A i \in OpsOf(t) : ~ Past(t, i)'
  BY <1>1 DEF OrderFact, Past, Early, ApplyLabels
<1>6. IndexFact(t, p)'
  BY <1>1, <1>4, <1>5, IndexStays DEF PathFact, Early, ApplyLabels
<1>7. FileFact(t, p)'
  <2>1. CASE Path(t) # p
    <3>1. \A i \in OpsOf(t) : i = pos[t] => Op(t, i).path # p
      BY <2>1 DEF Path, Current
    <3>2. files'[p] = files[p]
      BY <1>1, <2>1 DEF FsShape
    <3> QED
      BY <1>1, <1>4, <1>5, <3>1, <3>2, FileStays DEF PathFact, Early, ApplyLabels
  <2>2. CASE Path(t) = p
    <3>1. /\ \A i \in OpsOf(t) : ~ TookFile(t, i, p)
          /\ Left(t, pos[t]) # FoundFiles[p]
          /\ run[t] = "write" => saved[t][pos[t]] = FoundFiles[p]
          /\ run[t] = "rename" => FoundFiles[p] \notin {Dir, Absent}
      BY <1>1, <2>2 DEF PathFact, PendingFact
    <3>2. files[p] = FoundFiles[p] /\ files'[p] = Left(t, pos[t])
      BY <1>1, <2>2, <3>1 DEF PathFact, FileFact, FsShape
    <3>3. saved'[t][pos[t]] = FoundFiles[p]
      <4>1. CASE Replace(t)
        BY <3>1, <4>1 DEF Replace, Doing
      <4>2. CASE RenameAway(t)
        BY <1>1, <2>2, <3>2, <4>2 DEF RenameAway, FsShape
      <4> QED
        BY <4>1, <4>2
    <3>4. \A i \in OpsOf(t) : TookFile(t, i, p)' <=> i = pos[t]
      BY <1>1, <1>4, <2>2, <3>1 DEF Path, Current
    <3>5. /\ Op(t, pos[t]).kind \in {"write", "remove"}
          /\ Op(t, pos[t]).kind = "remove" => run[t] = "rename"
      BY <1>1 DEF Current, Runs, RunFact
    <3> QED
      BY <1>1, <1>5, <3>1, <3>2, <3>3, <3>4, <3>5 DEF FileFact
  <2> QED
    BY <2>1, <2>2
<1> QED
  BY <1>3, <1>6, <1>7 DEF PathFact

LEMMA UntracksPath ==
  ASSUME Runs, UndoShape, FsNext, NEW t \in Transactions, OrderFact(t), NEW p \in LeftTo(t),
         PathFact(t, p), Untrack(t)
  PROVE  PathFact(t, p)'
<1>1. /\ FsShape /\ p \in Paths /\ run[t] = "apply" /\ Current(t).kind = "untrack"
      /\ UNCHANGED <<files, manifest, undone>> /\ Applied(t, "applied")
      /\ index[Path(t)] # Absent /\ pos[t] \in OpsOf(t)
      /\ index' = [index EXCEPT ![Path(t)] = Absent]
      /\ saved' = [saved EXCEPT ![t][pos[t]] = index[Path(t)]]
  BY LeftFacts DEF Untrack, Doing, Runs, RunFact
<1>2. /\ run'[t] \in {"apply", "saveManifest"}
      /\ \A j \in OpsOf(t) : status'[t][j] = IF j = pos[t] THEN "applied" ELSE status[t][j]
  BY <1>1, AppliedFacts DEF ApplyLabels
<1>3. ASSUME NEW i \in OpsOf(t)
      PROVE  /\ TookFile(t, i, p)' <=> TookFile(t, i, p)
             /\ TookIndex(t, i, p)' <=> TookIndex(t, i, p) \/ (i = pos[t] /\ Op(t, i).path = p)
             /\ TookFile(t, i, p) \/ TookIndex(t, i, p) => i # pos[t]
  <2>1. i = pos[t] => Op(t, i).kind = "untrack" /\ Op(t, i).kind \notin FileKinds
    BY <1>1 DEF Current, FileKinds
  <2>2. run[t] \in ApplyLabels /\ run[t] \notin {"finishWrite", "finishRemove"}
    BY <1>1 DEF ApplyLabels
  <2> QED
    BY <1>1, <2>1, <2>2, AppliedTook
<1>4. \A j \in OpsOf(t) : j # pos[t] => saved'[t][j] = saved[t][j]
  BY <1>1 DEF FsShape
<1>5. KindFact(t, p)' /\ SkipFact(t, p)' /\ PendingFact(t, p)' /\ RestoredFact(t, p)'
  BY <1>1, <1>2, RestStays
<1>6. \A i \in OpsOf(t) : ~ Past(t, i)'
  BY <1>1 DEF OrderFact, Past, Early, ApplyLabels
<1>7. FileFact(t, p)'
  BY <1>1, <1>3, <1>4, <1>6, FileStays DEF PathFact, Early, ApplyLabels
<1>8. IndexFact(t, p)'
  <2>1. CASE Path(t) # p
    <3>1. \A i \in OpsOf(t) : i = pos[t] => Op(t, i).path # p
      BY <2>1 DEF Path, Current
    <3>2. index'[p] = index[p]
      BY <1>1, <2>1 DEF UndoShape
    <3> QED
      BY <1>1, <1>3, <1>4, <1>6, <3>1, <3>2, IndexStays DEF PathFact, Early, ApplyLabels
  <2>2. CASE Path(t) = p
    <3>1. index'[p] = Absent /\ saved'[t][pos[t]] = index[p]
      BY <1>1, <2>2 DEF UndoShape, FsShape
    <3>2. \A i \in OpsOf(t) : ~ TookIndex(t, i, p)
      BY <1>1, <2>2 DEF PathFact, IndexFact, Early, ApplyLabels
    <3>3. index[p] = FoundIndex[p]
      BY <3>2 DEF PathFact, IndexFact
    <3>4. \A i \in OpsOf(t) : TookIndex(t, i, p)' <=> i = pos[t]
      BY <1>3, <2>2, <3>2 DEF Path, Current
    <3> QED
      BY <1>1, <1>6, <2>2, <3>1, <3>3, <3>4 DEF IndexFact
  <2> QED
    BY <2>1, <2>2
<1> QED
  BY <1>5, <1>7, <1>8 DEF PathFact

-----------------------------------------------------------------------------
(* Rollback: what it has dealt with *)

LEMMA Ranks ==
  ASSUME NEW t \in Transactions, NEW i \in OpsOf(t), NEW j \in OpsOf(t)
  PROVE  /\ RollbackRank[t][i] \in Nat
         /\ RollbackRank[t][i] = RollbackRank[t][j] => i = j
         /\ Op(t, i).kind # "untrack" /\ Op(t, j).kind # "untrack" =>
              (RollbackRank[t][i] < RollbackRank[t][j] <=> i < j)
BY FsAssumption DEF OpsOf, RollbackRank

\* Nothing, when it begins;
LEMMA BeginsPast ==
  ASSUME NEW t \in Transactions, NEW i \in OpsOf(t), BeginRollback(t), FsShape, UndoShape
  PROVE  ~ Past(t, i)'
<1>1. /\ run'[t] = "rollback" /\ pos'[t] = FirstOf(t, OpsOf(t))
  BY DEF BeginRollback, FsShape
<1>2. /\ FirstOf(t, OpsOf(t)) \in OpsOf(t)
      /\ RollbackRank[t][i] <= RollbackRank[t][FirstOf(t, OpsOf(t))]
  BY FirstIsOne
<1>3. ~ RollbackRank[t][i] > RollbackRank[t][pos'[t]]
  BY <1>1, <1>2, Ranks
<1> QED
  BY <1>1, <1>3 DEF Past

\* one operation more, when that has been undone.
LEMMA UndidPast ==
  ASSUME Runs, UndoShape, NEW t \in Transactions, NEW result, Undid(t, result),
         NEW i \in OpsOf(t), Past(t, i)'
  PROVE  result # "failed" /\ undone[t] = "ok" /\ (i = pos[t] \/ Past(t, i))
<1>1. /\ pos[t] \in OpsOf(t) /\ t \in DOMAIN undone /\ t \in DOMAIN run /\ t \in DOMAIN pos
  BY DEF Runs, RunFact, FsShape, UndoShape
<1>2. result # "failed" /\ undone[t] = "ok"
  BY <1>1 DEF Undid, Past
<1>3. i \notin After(t)
  <2>1. CASE After(t) = {}
    BY <2>1
  <2>2. CASE After(t) # {}
    <3>1. /\ run'[t] = "rollback" /\ pos'[t] = FirstOf(t, After(t))
      BY <1>1, <2>2 DEF Undid
    <3>2. RollbackRank[t][i] > RollbackRank[t][FirstOf(t, After(t))]
      BY <3>1 DEF Past
    <3>3. After(t) \in SUBSET OpsOf(t)
      BY DEF After
    <3>4. /\ FirstOf(t, After(t)) \in OpsOf(t)
          /\ i \in After(t) => RollbackRank[t][i] <= RollbackRank[t][FirstOf(t, After(t))]
      BY <2>2, <3>3, FirstIsOne
    <3> QED
      BY <3>2, <3>4, Ranks
  <2> QED
    BY <2>1, <2>2
<1>4. ~ RollbackRank[t][i] < RollbackRank[t][pos[t]]
  BY <1>3 DEF After
<1>5. i = pos[t] \/ RollbackRank[t][i] > RollbackRank[t][pos[t]]
  BY <1>1, <1>4, Ranks
<1> QED
  BY <1>2, <1>5 DEF Past

\* Which operations have taken a path does not depend on the rollback.
LEMMA RolledTook ==
  ASSUME NEW t \in Transactions, status'[t] = status[t],
         run[t] \notin {"finishWrite", "finishRemove"},
         run'[t] \notin {"finishWrite", "finishRemove"},
         NEW p, NEW i \in OpsOf(t)
  PROVE  /\ TookFile(t, i, p)' <=> TookFile(t, i, p)
         /\ TookIndex(t, i, p)' <=> TookIndex(t, i, p)
BY DEF TookFile, TookIndex

\* The last operation that takes what is inside a directory that t has made is
\* rolled back before the directory is.
LEMMA VacantAtLast ==
  ASSUME Runs, NEW t \in Transactions, OrderFact(t), Undoing(t, "mkdir"), undone[t] = "ok",
         Path(t) \in LeftTo(t), \A q \in LeftTo(t) : PathFact(t, q)
  PROVE  Vacant(Path(t))
<1> DEFINE p == Path(t)
<1>1. /\ pos[t] \in OpsOf(t) /\ run[t] = "rollback" /\ p \in Paths
      /\ Op(t, pos[t]).kind = "mkdir" /\ Op(t, pos[t]).path = p
      /\ status[t][pos[t]] = "applied" /\ TookFile(t, pos[t], p)
  BY LeftFacts DEF Runs, RunFact, Undoing, Doing, Current, Path, TookFile, FileKinds
<1>2. /\ PathFact(t, p) /\ FoundFiles[p] = Absent
      /\ \A j \in OpsOf(t) : TookFile(t, j, p) => j = pos[t]
  BY <1>1 DEF PathFact, FileFact
<1>3. ASSUME NEW q \in Inside[p]
      PROVE  files[q] = Absent
  <2>1. q \in LeftTo(t) /\ PathFact(t, q)
    BY LeftFacts
  <2>2. FoundFiles[q] = Absent
    BY <1>1, <1>2, FsAssumption, PlanAssumption
  <2>3. ASSUME NEW i \in OpsOf(t), TookFile(t, i, q), ~ Past(t, i)
        PROVE  FALSE
    <3>1. q # p /\ Op(t, i).path = q /\ i # pos[t]
      BY <1>1, <2>3, PlanAssumption DEF TookFile
    <3>2. Op(t, i).kind \in {"mkdir", "write"} /\ status[t][i] = "applied"
      BY <1>1, <2>1, <2>2, <2>3 DEF TookFile, FileKinds, PathFact, FileFact
    <3>3. i < pos[t]
      <4>1. ~ RollbackRank[t][i] > RollbackRank[t][pos[t]]
        BY <2>3 DEF Past
      <4>2. RollbackRank[t][i] < RollbackRank[t][pos[t]]
        BY <1>1, <3>1, <4>1, Ranks
      <4> QED
        BY <1>1, <3>2, <4>2, Ranks
    <3>4. \A k \in OpsOf(t) : k < i => status[t][k] \in {"applied", "skipped"}
      BY <3>2 DEF OrderFact
    <3>5. PICK m \in OpsOf(t) : m < i /\ TookFile(t, m, p)
      BY <1>1, <1>2, <3>1, <3>2, <3>4, ParentMade, FsAssumption
    <3>6. m = pos[t]
      BY <1>2, <3>5
    <3> QED
      BY <1>1, <3>3, <3>5, <3>6, FsAssumption DEF OpsOf
  <2> QED
    BY <2>1, <2>2, <2>3 DEF PathFact, FileFact
<1>4. ASSUME NEW q \in Inside[p]
      PROVE  ~ TargetLocked(q)
  <2>1. ASSUME NEW u \in Transactions, run[u] \in Locked, Path(u) = q
        PROVE  FALSE
    <3>1. u # t
      BY <1>1, <2>1 DEF Locked, Deciding
    <3>2. q \in PathsOf(u)
      BY <2>1 DEF Runs, RunFact, PathsOf, Path, Current
    <3> QED
      BY <3>1, <3>2, LeftFacts
  <2> QED
    BY <2>1 DEF TargetLocked
<1> QED
  BY <1>3, <1>4 DEF Vacant

-----------------------------------------------------------------------------
(* Rollback: its steps *)

\* A rollback begins, or the run has ended without one.
LEMMA BeginsPath ==
  ASSUME Runs, UndoShape, FsNext, NEW t \in Transactions, OrderFact(t), NEW p \in LeftTo(t),
         PathFact(t, p), SaveManifest(t) \/ RollbackCommand(t)
  PROVE  PathFact(t, p)'
<1>1. /\ FsShape /\ p \in Paths /\ UNCHANGED <<files, index, status, saved>>
      /\ run[t] \in {"saveManifest", "ended", "killed"} /\ run'[t] \in {"rollback", "ended"}
  BY LeftFacts, BeginsStep DEF SaveManifest, RollbackCommand, Doing, Runs, FsShape
<1>2. KindFact(t, p)' /\ SkipFact(t, p)' /\ PendingFact(t, p)' /\ RestoredFact(t, p)'
  BY <1>1, RestStays
<1>3. \A i \in OpsOf(t) : ~ Past(t, i)'
  <2>1. CASE BeginRollback(t)
    BY <1>1, <2>1, BeginsPast
  <2>2. CASE ~ BeginRollback(t)
    BY <2>2 DEF SaveManifest, RollbackCommand, Doing, OrderFact, Past, Early
  <2> QED
    BY <2>1, <2>2
<1>4. \A i \in OpsOf(t) : /\ TookFile(t, i, p)' <=> TookFile(t, i, p)
                          /\ TookIndex(t, i, p)' <=> TookIndex(t, i, p)
  BY <1>1, RolledTook
<1>5. FileFact(t, p)'
  BY <1>1, <1>3, <1>4, FileStays DEF PathFact, Early, ApplyLabels
<1>6. IndexFact(t, p)'
  BY <1>1, <1>3, <1>4, IndexStays DEF PathFact, Early, ApplyLabels
<1> QED
  BY <1>2, <1>5, <1>6 DEF PathFact

\* The steps that undo nothing.
LEMMA SparesPath ==
  ASSUME Runs, UndoShape, FsNext, NEW t \in Transactions, OrderFact(t), NEW p \in LeftTo(t),
         \A q \in LeftTo(t) : PathFact(t, q),
         NothingToUndo(t) \/ UndoFails(t) \/ FinishRestore(t) \/ CheckPutBack(t)
  PROVE  PathFact(t, p)'
<1>1. /\ FsShape /\ p \in Paths /\ UNCHANGED <<files, index, status, saved>>
      /\ run[t] \in {"rollback", "restore", "finishRestore", "renameBack"}
      /\ run'[t] \in {"rollback", "ended", "renameBack"}
      /\ pos[t] \in OpsOf(t) /\ PathFact(t, p)
  BY LeftFacts, UndidStep DEF NothingToUndo, UndoFails, FinishRestore, CheckPutBack, Undoing,
     Doing, Runs, FsShape, RunFact
<1>2. KindFact(t, p)' /\ SkipFact(t, p)' /\ PendingFact(t, p)' /\ RestoredFact(t, p)'
  BY <1>1, RestStays
<1>3. \A i \in OpsOf(t) : /\ TookFile(t, i, p)' <=> TookFile(t, i, p)
                          /\ TookIndex(t, i, p)' <=> TookIndex(t, i, p)
  BY <1>1, RolledTook
<1>4. ASSUME NEW i \in OpsOf(t), Past(t, i)', ~ Past(t, i)
      PROVE  (NothingToUndo(t) \/ FinishRestore(t)) /\ undone[t] = "ok" /\ i = pos[t]
  <2>1. CASE NothingToUndo(t)
    BY <1>4, <2>1, UndidPast DEF NothingToUndo
  <2>2. CASE UndoFails(t)
    BY <1>4, <2>2, UndidPast DEF UndoFails
  <2>3. CASE CheckPutBack(t)
    BY <1>1, <1>4, <2>3 DEF CheckPutBack, Past, FsShape
  <2>4. CASE FinishRestore(t)
    BY <1>4, <2>4, UndidPast DEF FinishRestore
  <2> QED
    BY <2>1, <2>2, <2>3, <2>4
<1>5. ASSUME NEW i \in OpsOf(t), TookFile(t, i, p), NothingToUndo(t), undone[t] = "ok", i = pos[t]
      PROVE  files[p] = FoundFiles[p]
  <2>1. /\ status[t][pos[t]] = "applied" /\ Path(t) = p /\ Current(t).kind \in FileKinds
        /\ run[t] = "rollback"
    BY <1>1, <1>5 DEF TookFile, Path, Current, NothingToUndo, Doing
  <2>2. CASE Current(t).kind \in {"write", "mkdir"} /\ files[p] = Absent /\ Backup(t) = Absent
    BY <1>1, <1>5, <2>2 DEF PathFact, FileFact, Backup, Current
  <2>3. CASE Current(t).kind = "mkdir" /\ (~ Vacant(p) \/ p \in littered)
    BY <1>5, <2>1, <2>3, VacantAtLast, LeftFacts DEF Undoing, Doing
  <2> QED
    BY <1>5, <2>1, <2>2, <2>3 DEF NothingToUndo, FileKinds
<1>6. ASSUME NEW i \in OpsOf(t), TookFile(t, i, p), FinishRestore(t), i = pos[t]
      PROVE  files[p] = FoundFiles[p]
  BY <1>1, <1>6 DEF PathFact, RestoredFact, FinishRestore, Doing, TookFile, Path, Current
<1>7. ASSUME NEW i \in OpsOf(t), TookIndex(t, i, p), NothingToUndo(t), i = pos[t]
      PROVE  index[p] = FoundIndex[p]
  <2>1. status[t][pos[t]] = "applied" /\ Path(t) = p /\ Current(t).kind = "untrack"
    BY <1>7 DEF TookIndex, Path, Current
  <2>2. index[p] = Backup(t)
    BY <1>7, <2>1 DEF NothingToUndo
  <2> QED
    BY <1>1, <1>7, <2>2 DEF PathFact, IndexFact, Backup
<1>8. ASSUME NEW i \in OpsOf(t), TookIndex(t, i, p), FinishRestore(t), i = pos[t]
      PROVE  FALSE
  BY <1>1, <1>8 DEF TookIndex, FinishRestore, Doing, Runs, RunFact, Current
<1>9. FileFact(t, p)'
  BY <1>1, <1>3, <1>4, <1>5, <1>6, FileStays DEF PathFact, Early, ApplyLabels
<1>10. IndexFact(t, p)'
  BY <1>1, <1>3, <1>4, <1>7, <1>8, IndexStays DEF PathFact, Early, ApplyLabels
<1> QED
  BY <1>2, <1>9, <1>10 DEF PathFact

\* The steps that undo a mkdir, a write or a removal.
LEMMA UndoesPath ==
  ASSUME Runs, UndoShape, FsNext, NEW t \in Transactions, OrderFact(t), NEW p \in LeftTo(t),
         \A q \in LeftTo(t) : PathFact(t, q),
         RemoveDirectory(t) \/ LockAndCheck(t) \/ Restore(t) \/ PutBack(t)
  PROVE  PathFact(t, p)'
<1> DEFINE n == pos[t]
           r == Path(t)
<1>0. FsShape /\ RunFact(t) /\ n \in OpsOf(t) /\ Op(t, n).path = r
  BY DEF Runs, RunFact, Path, Current
<1>1. /\ p \in Paths /\ r \in Paths /\ UNCHANGED <<index, status>> /\ PathFact(t, p)
      /\ run[t] \in {"rollback", "restore", "renameBack"}
      /\ run'[t] \in {"rollback", "ended", "restore", "finishRestore"}
      /\ status[t][n] = "applied" /\ Op(t, n).kind \in FileKinds
      /\ run'[t] = "finishRestore" => Restore(t)
      /\ run'[t] = "restore" => LockAndCheck(t)
  BY <1>0, LeftFacts, UndidStep, FsAssumption DEF RemoveDirectory, LockAndCheck, Restore,
     PutBack,
     Undoing, Doing, RunFact, FsShape, FileKinds, Current
<1>2. KindFact(t, p)' /\ SkipFact(t, p)' /\ PendingFact(t, p)'
  <2>1. SkipFact(t, p)'
    BY <1>1, SkipStays DEF PathFact
  <2> QED
    BY <1>1, <2>1 DEF PathFact, KindFact, PendingFact
<1>3. \A i \in OpsOf(t) : /\ TookFile(t, i, p)' <=> TookFile(t, i, p)
                          /\ TookIndex(t, i, p)' <=> TookIndex(t, i, p)
                          /\ TookIndex(t, i, p) => i # n
  BY <1>1, RolledTook DEF TookIndex, FileKinds
<1>4. ASSUME NEW i \in OpsOf(t), Past(t, i)'
      PROVE  Past(t, i) \/ (i = n /\ ~ LockAndCheck(t) /\ ~ Restore(t))
  <2>1. CASE LockAndCheck(t) \/ Restore(t)
    <3>1. run'[t] # "ended" /\ UNCHANGED <<pos, undone>>
      BY <1>0, <2>1 DEF LockAndCheck, Restore, FsShape
    <3> QED
      BY <1>4, <3>1 DEF Past
  <2>2. CASE ~ (LockAndCheck(t) \/ Restore(t))
    <3>1. \E result : Undid(t, result)
      BY <2>2 DEF RemoveDirectory, PutBack
    <3> QED
      BY <1>4, <2>2, <3>1, UndidPast
  <2> QED
    BY <2>1, <2>2
<1>5. \A i \in OpsOf(t) : i # n => saved'[t][i] = saved[t][i]
  BY <1>0 DEF RemoveDirectory, LockAndCheck, Restore, PutBack, FsShape
<1>6. IndexFact(t, p)'
  BY <1>1, <1>3, <1>4, <1>5, IndexStays DEF PathFact, Early, ApplyLabels
<1>7. ASSUME r = p, ~ LockAndCheck(t)
      PROVE  FileFact(t, p)' /\ files'[p] = FoundFiles[p]
  <2>1. TookFile(t, n, p)
    BY <1>0, <1>1, <1>7 DEF TookFile
  <2>2. /\ saved[t][n] = FoundFiles[p] \/ (Op(t, n).kind = "remove" /\ saved[t][n] = Absent)
        /\ Op(t, n).kind = "mkdir" => FoundFiles[p] = Absent
    BY <1>0, <1>1, <2>1 DEF PathFact, FileFact
  <2>3. files'[p] = FoundFiles[p]
    <3>1. CASE RemoveDirectory(t)
      BY <1>0, <1>1, <1>7, <2>2, <3>1 DEF RemoveDirectory, Undoing, Current, FsShape
    <3>2. CASE Restore(t)
      BY <1>0, <1>1, <1>7, <2>2, <3>2 DEF Restore, Doing, Backup, RunFact, Current, FsShape
    <3>3. CASE PutBack(t)
      <4>1. saved[t][n] # Absent /\ files' = [WithParents(r) EXCEPT ![r] = saved[t][n]]
        BY <3>3 DEF PutBack, Doing, Backup, Runs, RunFact
      <4> QED
        BY <1>7, <1>1, <2>2, <4>1 DEF WithParents
    <3> QED
      BY <1>7, <3>1, <3>2, <3>3
  <2>4. \/ saved'[t][n] = FoundFiles[p]
        \/ Op(t, n).kind = "remove" /\ saved'[t][n] = Absent
    <3>1. CASE PutBack(t)
      BY <1>0, <3>1 DEF PutBack, Doing, RunFact, FsShape, Current
    <3>2. CASE ~ PutBack(t)
      BY <1>7, <2>2, <3>2 DEF RemoveDirectory, Restore
    <3> QED
      BY <3>1, <3>2
  <2>5. run'[t] \notin Early /\ \A i \in OpsOf(t) : TookFile(t, i, p)' <=> i = n
    BY <1>0, <1>1, <1>3, <2>1 DEF PathFact, FileFact, Early, ApplyLabels
  <2>6. /\ Left(t, n) # FoundFiles[p]
        /\ Op(t, n).kind = "remove" => FoundFiles[p] \notin {Dir, Absent}
    BY <1>0, <1>1, <2>1 DEF PathFact, FileFact
  <2>7. FileFact(t, p)'
    BY <1>0, <1>1, <2>2, <2>3, <2>4, <2>5, <2>6 DEF FileFact
  <2> QED
    BY <2>3, <2>7
<1>8. ASSUME r # p \/ LockAndCheck(t), files'[p] = files[p]
      PROVE  FileFact(t, p)'
  <2>1. \A i \in OpsOf(t) : TookFile(t, i, p) /\ i = n => LockAndCheck(t)
    BY <1>0, <1>8 DEF TookFile
  <2>2. LockAndCheck(t) => UNCHANGED saved
    BY DEF LockAndCheck
  <2>3. \A i \in OpsOf(t) : TookFile(t, i, p) =>
          saved'[t][i] = saved[t][i] /\ (Past(t, i)' => Past(t, i))
    BY <1>4, <1>5, <2>1, <2>2
  <2> QED
    BY <1>1, <1>3, <1>8, <2>3, FileStays DEF PathFact, Early, ApplyLabels
<1>9. ASSUME r \in Inside[p], LockAndCheck(t) \/ PutBack(t)
      PROVE  FileFact(t, p)'
  <2>1. r # p /\ r \in LeftTo(t) /\ PathFact(t, r) /\ TookFile(t, n, r)
    BY <1>0, <1>1, <1>9, LeftFacts, PlanAssumption DEF TookFile
  <2>2. files'[p] = Dir
    BY <1>1, <1>9, <2>1 DEF LockAndCheck, PutBack, WithParents
  <2>3. CASE FoundFiles[p] = Dir
    <3>1. files[p] = Dir
      BY <1>1, <1>9, <2>3, FoundDirectory DEF PathFact
    <3> QED
      BY <1>8, <2>1, <2>2, <3>1
  <2>4. CASE FoundFiles[p] # Dir
    <3>1. Op(t, n).kind # "remove"
      <4>1. FoundFiles[r] = Absent
        BY <1>1, <1>9, <2>4, PlanAssumption
      <4> QED
        BY <1>0, <1>1, <2>1, <4>1 DEF PathFact, FileFact
    <3>2. PICK m \in OpsOf(t) : m < n /\ Op(t, m).kind = "mkdir" /\ TookFile(t, m, p)
      <4>1. /\ Op(t, n).kind \in {"mkdir", "write"} /\ run[t] # "preflight"
            /\ \A k \in OpsOf(t) : k < n => status[t][k] \in {"applied", "skipped"}
        BY <1>0, <1>1, <3>1 DEF FileKinds, OrderFact
      <4> QED
        BY <1>0, <1>1, <1>9, <2>4, <4>1, ParentMade
    <3>3. \A i \in OpsOf(t) : TookFile(t, i, p)' <=> i = m
      BY <1>1, <1>3, <3>2 DEF PathFact, FileFact
    <3>4. ~ Past(t, m)'
      <4>1. m # n /\ RollbackRank[t][m] < RollbackRank[t][n]
        BY <1>0, <1>1, <3>1, <3>2, Ranks, FsAssumption DEF OpsOf, FileKinds
      <4>2. ~ RollbackRank[t][m] > RollbackRank[t][n]
        BY <1>0, <4>1, Ranks
      <4>3. ~ Past(t, m)
        BY <1>1, <4>2 DEF Past
      <4> QED
        BY <1>4, <4>1, <4>3
    <3>5. saved'[t][m] = saved[t][m] /\ m # n
      BY <1>0, <1>5, <3>2, FsAssumption DEF OpsOf
    <3>6. /\ Left(t, m) = Dir /\ FoundFiles[p] = Absent /\ saved[t][m] = FoundFiles[p]
      BY <1>1, <3>2 DEF PathFact, FileFact, Left
    <3>7. run'[t] \notin Early
      BY <1>1 DEF Early, ApplyLabels
    <3> QED
      BY <2>2, <2>4, <3>2, <3>3, <3>4, <3>5, <3>6, <3>7 DEF FileFact
  <2> QED
    BY <2>3, <2>4
<1>10. ASSUME r # p \/ LockAndCheck(t), ~ (r \in Inside[p] /\ (LockAndCheck(t) \/ PutBack(t)))
       PROVE  files'[p] = files[p]
  <2>1. CASE RemoveDirectory(t) /\ r # p
    BY <1>0, <1>1, <2>1 DEF RemoveDirectory, FsShape
  <2>2. CASE Restore(t) /\ r # p
    BY <1>0, <1>1, <2>2 DEF Restore, FsShape
  <2>3. CASE LockAndCheck(t)
    BY <1>1, <1>10, <2>3 DEF LockAndCheck, WithParents
  <2>4. CASE PutBack(t) /\ r # p
    <3>1. files' = [WithParents(r) EXCEPT ![r] = Backup(t)] /\ r \notin Inside[p]
      BY <1>10, <2>4 DEF PutBack
    <3> QED
      BY <1>1, <2>4, <3>1 DEF WithParents
  <2> QED
    BY <1>10, <2>1, <2>2, <2>3, <2>4
<1>11. RestoredFact(t, p)'
  <2>1. ASSUME run'[t] = "finishRestore", Path(t)' = p
        PROVE  files'[p] = FoundFiles[p]
    <3>1. Restore(t) /\ ~ LockAndCheck(t)
      BY <1>0, <1>1, <2>1 DEF LockAndCheck, FsShape
    <3>2. r = p
      BY <2>1, <3>1 DEF Restore, Path, Current
    <3> QED
      BY <1>7, <3>1, <3>2
  <2> QED
    BY <2>1 DEF RestoredFact
<1>12. FileFact(t, p)'
  <2>1. CASE r = p /\ ~ LockAndCheck(t)
    BY <1>7, <2>1
  <2>2. CASE ~ (r = p /\ ~ LockAndCheck(t)) /\ r \in Inside[p] /\ (LockAndCheck(t) \/ PutBack(t))
    BY <1>9, <2>2
  <2>3. CASE /\ ~ (r = p /\ ~ LockAndCheck(t))
             /\ ~ (r \in Inside[p] /\ (LockAndCheck(t) \/ PutBack(t)))
    BY <1>8, <1>10, <2>3
  <2> QED
    BY <2>1, <2>2, <2>3
<1> QED
  BY <1>2, <1>6, <1>11, <1>12 DEF PathFact

LEMMA RestoresIndexPath ==
  ASSUME Runs, UndoShape, FsNext, NEW t \in Transactions, OrderFact(t), NEW p \in LeftTo(t),
         PathFact(t, p), RestoreIndex(t)
  PROVE  PathFact(t, p)'
<1> DEFINE n == pos[t]
<1>1. /\ FsShape /\ p \in Paths /\ UNCHANGED <<files, status, saved>>
      /\ run[t] = "rollback" /\ run'[t] \in {"rollback", "ended"}
      /\ n \in OpsOf(t) /\ status[t][n] = "applied" /\ Op(t, n).kind = "untrack"
      /\ Undid(t, "rolled_back") /\ Path(t) = Op(t, n).path
      /\ index' = [index EXCEPT ![Path(t)] = saved[t][n]]
  BY LeftFacts, UndidStep DEF RestoreIndex, Undoing, Doing, Runs, RunFact, Path, Current, Backup
<1>2. KindFact(t, p)' /\ SkipFact(t, p)' /\ PendingFact(t, p)' /\ RestoredFact(t, p)'
  BY <1>1, RestStays
<1>3. \A i \in OpsOf(t) : /\ TookFile(t, i, p)' <=> TookFile(t, i, p)
                          /\ TookIndex(t, i, p)' <=> TookIndex(t, i, p)
                          /\ TookFile(t, i, p) => i # n
  BY <1>1, RolledTook DEF TookFile, FileKinds
<1>4. \A i \in OpsOf(t) : Past(t, i)' => i = n \/ Past(t, i)
  BY <1>1, UndidPast
<1>5. FileFact(t, p)'
  BY <1>1, <1>3, <1>4, FileStays DEF PathFact, Early, ApplyLabels
<1>6. CASE Path(t) # p
  <2>1. index'[p] = index[p] /\ \A i \in OpsOf(t) : TookIndex(t, i, p) => i # n
    BY <1>1, <1>6 DEF UndoShape, TookIndex
  <2> QED
    BY <1>1, <1>2, <1>3, <1>4, <1>5, <2>1, IndexStays DEF PathFact, Early, ApplyLabels
<1>7. CASE Path(t) = p
  <2>1. TookIndex(t, n, p)
    BY <1>1, <1>7 DEF TookIndex
  <2>2. /\ FoundIndex[p] # Absent /\ saved[t][n] = FoundIndex[p]
        /\ \A i \in OpsOf(t) : TookIndex(t, i, p)' <=> i = n
    BY <1>1, <1>3, <2>1 DEF PathFact, IndexFact
  <2>3. index'[p] = FoundIndex[p] /\ run'[t] \notin Early
    BY <1>1, <1>7, <2>2 DEF UndoShape, Early, ApplyLabels
  <2>4. IndexFact(t, p)'
    BY <1>1, <2>2, <2>3 DEF IndexFact
  <2> QED
    BY <1>2, <1>5, <2>4 DEF PathFact
<1> QED
  BY <1>6, <1>7

\* A run is killed once its manifest is on disk.
LEMMA KillsPath ==
  ASSUME Runs, UndoShape, FsNext, NEW t \in Transactions, OrderFact(t), NEW p \in LeftTo(t),
         PathFact(t, p), Kill(t), t \in manifest
  PROVE  PathFact(t, p)'
<1>1. /\ p \in Paths /\ run[t] \notin Early /\ run'[t] = "killed" /\ undone'[t] # "ok"
      /\ UNCHANGED <<files, index, pos, status, saved>>
  BY LeftFacts DEF Kill, OrderFact, Runs, FsShape, UndoShape
<1>2. KindFact(t, p)' /\ SkipFact(t, p)' /\ PendingFact(t, p)' /\ RestoredFact(t, p)'
  BY <1>1, RestStays DEF Early, ApplyLabels
<1>3. \A i \in OpsOf(t) : /\ ~ Past(t, i)'
                          /\ TookFile(t, i, p)' <=> TookFile(t, i, p)
                          /\ TookIndex(t, i, p)' <=> TookIndex(t, i, p)
  BY <1>1, RolledTook DEF Past, Early, ApplyLabels
<1>4. FileFact(t, p)'
  BY <1>1, <1>3, FileStays DEF PathFact, Early, ApplyLabels
<1>5. IndexFact(t, p)'
  BY <1>1, <1>3, IndexStays DEF PathFact, Early, ApplyLabels
<1> QED
  BY <1>2, <1>4, <1>5 DEF PathFact

LEMMA OwnPath ==
  ASSUME Runs, UndoShape, FsNext, NEW t \in Transactions, OrderFact(t), NEW p \in LeftTo(t),
         p \in LeftTo(t)', \A q \in LeftTo(t) : PathFact(t, q), Apply(t) \/ Rollback(t)
  PROVE  PathFact(t, p)'
<1>1. CASE Apply(t)
  BY <1>1, PreflightPath, EndsPath, MakesPath, GoesOnPath, TakesPath, UntracksPath DEF Apply
<1>2. CASE Rollback(t)
  BY <1>2, BeginsPath, SparesPath, UndoesPath, RestoresIndexPath DEF Rollback
<1> QED
  BY <1>1, <1>2

\* The steps that say nothing new of t.
LEMMA PathStays ==
  ASSUME NEW t \in Transactions, NEW p \in Paths, PathFact(t, p),
         run'[t] = run[t], pos'[t] = pos[t], undone'[t] = undone[t],
         status'[t] = status[t], saved'[t] = saved[t],
         files'[p] = files[p], index'[p] = index[p]
  PROVE  PathFact(t, p)'
<1>1. \A i \in OpsOf(t) : /\ TookFile(t, i, p)' <=> TookFile(t, i, p)
                          /\ TookIndex(t, i, p)' <=> TookIndex(t, i, p)
                          /\ Past(t, i)' <=> Past(t, i)
  BY DEF TookFile, TookIndex, Past
<1>2. FileFact(t, p)'
  BY <1>1, FileStays DEF PathFact
<1>3. IndexFact(t, p)'
  BY <1>1, IndexStays DEF PathFact
<1>4. KindFact(t, p)' /\ SkipFact(t, p)' /\ PendingFact(t, p)' /\ RestoredFact(t, p)'
  BY <1>1 DEF PathFact, KindFact, SkipFact, PendingFact, RestoredFact, Path, Current
<1> QED
  BY <1>2, <1>3, <1>4 DEF PathFact

LEMMA UndoShapeNext ==
  ASSUME UndoShape, FsNext
  PROVE  UndoShape'
<1> USE DEF UndoShape
<1>1. ASSUME NEW t \in Transactions, Apply(t)
      PROVE  UndoShape'
  BY <1>1 DEF Apply, Preflight, PreflightFails, Skip, Fail, MakeDirectory, DecideUnlocked,
     LockAndDecide, Look, BackUp, Replace, Finish, CheckRemove, RenameAway, Untrack
<1>2. ASSUME NEW t \in Transactions, Rollback(t)
      PROVE  UndoShape'
  BY <1>2 DEF Rollback, SaveManifest, RollbackCommand, BeginRollback, NothingToUndo, UndoFails,
     RemoveDirectory, LockAndCheck, Restore, FinishRestore, CheckPutBack, PutBack,
     RestoreIndex, Undid
<1> QED
  BY <1>1, <1>2 DEF FsNext, Kill, EditFile

LEMMA UndoNext == UndoInv /\ [FsNext]_fsVars => UndoInv'
<1>1. ASSUME UndoInv, UNCHANGED fsVars
      PROVE  UndoInv'
  <2>1. /\ Runs'
        /\ UNCHANGED <<files, index, run, pos, status, saved, manifest, undone, edited, littered>>
    BY <1>1, RunNext DEF UndoInv, fsVars, ghosts
  <2>2. UndoShape'
    BY <1>1, <2>1 DEF UndoInv, UndoShape
  <2>3. ASSUME NEW t \in Transactions
        PROVE  /\ OrderFact(t)'
               /\ Sound(t)' => Sound(t)
               /\ LeftTo(t)' = LeftTo(t)
    BY <1>1, <2>1, <2>3 DEF UndoInv, OrderFact, Sound, LeftTo
  <2>4. ASSUME NEW t \in Transactions, Sound(t), NEW p \in LeftTo(t)
        PROVE  PathFact(t, p)'
    BY <1>1, <2>1, <2>4, PathStays, LeftFacts DEF UndoInv
  <2> QED
    BY <2>1, <2>2, <2>3, <2>4 DEF UndoInv
<1>2. ASSUME UndoInv, FsNext
      PROVE  UndoInv'
  <2>1. Runs /\ UndoShape /\ Runs' /\ UndoShape'
    BY <1>2, RunNext, UndoShapeNext DEF UndoInv
  <2>2. ASSUME NEW t \in Transactions,
               run'[t] = run[t], pos'[t] = pos[t], undone'[t] = undone[t],
               status'[t] = status[t], t \in manifest' <=> t \in manifest
        PROVE  OrderFact(t)'
    BY <1>2, <2>2 DEF UndoInv, OrderFact
  <2>3. ASSUME NEW t \in Transactions
        PROVE  OrderFact(t)'
    <3>1. CASE Apply(t) \/ Rollback(t) \/ Kill(t)
      BY <1>2, <2>1, <3>1, OrderNext DEF UndoInv
    <3>2. ASSUME NEW u \in Transactions \ {t}, Apply(u) \/ Rollback(u) \/ Kill(u)
          PROVE  OrderFact(t)'
      BY <2>1, <2>2, <3>2, OthersKeepRun
    <3>3. CASE \E q \in DOMAIN Edits : EditFile(q)
      BY <2>2, <3>3 DEF EditFile
    <3> QED
      BY <1>2, <3>1, <3>2, <3>3 DEF FsNext
  <2>4. ASSUME NEW t \in Transactions, Sound(t)', NEW p \in LeftTo(t)'
        PROVE  PathFact(t, p)'
    <3>1. p \in LeftTo(t) /\ p \in Paths /\ OrderFact(t)
      BY <1>2, <2>1, <2>4, LeftShrinks, LeftFacts DEF UndoInv
    <3>2. CASE Apply(t) \/ Rollback(t)
      <4>1. Sound(t)
        BY <3>2 DEF Sound, Apply, Rollback, Preflight, PreflightFails, Skip, Fail,
           MakeDirectory,
           DecideUnlocked, LockAndDecide, Look, BackUp, Replace, Finish, CheckRemove,
           RenameAway, Untrack,
           SaveManifest, RollbackCommand, NothingToUndo, UndoFails, RemoveDirectory,
           LockAndCheck, Restore, FinishRestore,
           CheckPutBack, PutBack, RestoreIndex, Undoing, Doing
      <4> QED
        BY <1>2, <2>1, <2>4, <3>1, <3>2, <4>1, OwnPath DEF UndoInv
    <3>3. CASE Kill(t)
      <4>1. Sound(t) /\ t \in manifest
        BY <2>1, <2>4, <3>3 DEF Sound, Kill, Runs, FsShape
      <4> QED
        BY <1>2, <2>1, <3>1, <3>3, <4>1, KillsPath DEF UndoInv
    <3>4. ASSUME NEW u \in Transactions \ {t}, Apply(u) \/ Rollback(u) \/ Kill(u)
          PROVE  PathFact(t, p)'
      <4>1. /\ run'[t] = run[t] /\ pos'[t] = pos[t] /\ undone'[t] = undone[t]
            /\ status'[t] = status[t] /\ saved'[t] = saved[t]
            /\ t \in manifest' <=> t \in manifest
            /\ files'[p] = files[p] /\ index'[p] = index[p]
        BY <2>1, <3>1, <3>4, OthersKeepRun, OthersLeave
      <4>2. PathFact(t, p)
        BY <1>2, <2>4, <3>1, <4>1 DEF UndoInv, Sound
      <4> QED
        BY <3>1, <4>1, <4>2, PathStays
    <3>5. ASSUME NEW q \in DOMAIN Edits, EditFile(q)
          PROVE  PathFact(t, p)'
      <4>1. UNCHANGED <<index, run, pos, status, saved, manifest, undone>>
        BY <3>5 DEF EditFile
      <4>2. p # q
        BY <2>4, <3>5 DEF LeftTo, EditFile
      <4>3. files'[p] = files[p]
        BY <2>1, <3>1, <3>5, <4>2 DEF EditFile, Runs, FsShape
      <4>4. PathFact(t, p)
        BY <1>2, <2>4, <3>1, <4>1 DEF UndoInv, Sound
      <4> QED
        BY <3>1, <4>1, <4>3, <4>4, PathStays
    <3> QED
      BY <1>2, <3>2, <3>3, <3>4, <3>5 DEF FsNext
  <2> QED
    BY <2>1, <2>3, <2>4 DEF UndoInv
<1> QED
  BY <1>1, <1>2

LEMMA UndoInit == FsInit => UndoInv
<1> SUFFICES ASSUME FsInit
             PROVE  UndoInv
  OBVIOUS
<1>1. Runs
  BY InvInit DEF FsInv, Runs
<1>2. UndoShape
  BY FsAssumption DEF FsInit, UndoShape
<1>3. ASSUME NEW t \in Transactions
      PROVE  OrderFact(t)
  BY <1>3, FsAssumption DEF FsInit, OrderFact, OpsOf
<1>4. ASSUME NEW t \in Transactions, NEW p \in LeftTo(t)
      PROVE  PathFact(t, p)
  <2>1. \A i \in OpsOf(t) : ~ TookFile(t, i, p) /\ ~ TookIndex(t, i, p)
    BY DEF FsInit, TookFile, TookIndex
  <2> QED
    BY <2>1 DEF FsInit, PathFact, KindFact, SkipFact, PendingFact, RestoredFact,
       FileFact, IndexFact
<1> QED
  BY <1>1, <1>2, <1>3, <1>4 DEF UndoInv

LEMMA UndoImplies == UndoInv => RolledBackAsFound
<1> SUFFICES ASSUME UndoInv, NEW t \in Transactions, run[t] = "ended", undone[t] = "ok",
                    NEW p \in LeftTo(t)
             PROVE  files[p] = FoundFiles[p] /\ index[p] = FoundIndex[p]
  BY DEF RolledBackAsFound
<1>1. FileFact(t, p) /\ IndexFact(t, p)
  BY DEF UndoInv, Sound, PathFact
<1>2. \A i \in OpsOf(t) : Past(t, i)
  BY DEF Past
<1> QED
  BY <1>1, <1>2 DEF FileFact, IndexFact

\* A rollback that reports success has undone the run, for any runs, plans, kills
\* and edits: what nobody else touched, and where no lock was left, is as it was found.
THEOREM RolledBackAsFoundHolds == FsSpec => []RolledBackAsFound
<1>1. FsSpec => []UndoInv
  BY UndoInit, UndoNext, PTL DEF FsSpec
<1> QED
  BY <1>1, UndoImplies, PTL
=============================================================================
