-------------------- MODULE ExclusiveDirectoryLockProofs --------------------
(***************************************************************************)
(* Proofs about ExclusiveDirectoryLock, for every set of processes, every  *)
(* assignment of process ids, either setting of the options, and whatever  *)
(* calls fail for a reason from outside.                                   *)
(*                                                                         *)
(* MutualExclusion is not inductive: it says nothing of the token that     *)
(* keeps a second process out.  Inv adds it: a process that has linked its *)
(* token and not yet unlinked it still finds it in the directory, because  *)
(* rmdir needs an empty directory and a reclaimer unlinks only after the   *)
(* owner's death.  Two processes that passed the ownership check would     *)
(* both find theirs the only entry.                                        *)
(***************************************************************************)
EXTENDS ExclusiveDirectoryLock, TLAPS

\* A live process whose token has been linked and not yet unlinked.
Linked(p) == Alive(p) /\ pc[p] \in {"verify", "owned", "running", "unlink"}

\* A linked token is where it was linked.
LinkedTokenPresent ==
  \A p \in Procs : Linked(p) => ownToken[p] \in entries

\* What a process calls its token is one of its own.
OwnTokenIsOwn ==
  \A p \in Procs : ownToken[p] # NoToken => ownToken[p][1] = p

\* Whoever has a handle published it in the directory at the path.
HandleDirectory ==
  \A p \in Procs : Alive(p) /\ HasHandle(p) => dir = ownDir[p]

\* Of the published tokens at most one has passed its ownership check.
SingleOwner ==
  \A p, q \in Procs : Owns(p) /\ Owns(q) => p = q

\* A reclaimer about to unlink a token has seen its process dead.
CondemnedIsDead ==
  \A p \in Procs :
    At(p, "unlinkDead") => seenToken[p] \in Tokens /\ life[seenToken[p][1]] = "dead"

\* The observed entry is a token from the moment it is observed.
ObservedIsToken ==
  \A p \in Procs : At(p, "judge") \/ At(p, "rejudge") =>
    seenToken[p] \in Tokens /\ life[seenToken[p][1]] # "unborn"

\* Only processes that have been started have tokens, or anything to do.
TokensOfStarted ==
  /\ \A t \in entries : life[t[1]] # "unborn"
  /\ \A p \in Procs : life[p] = "unborn" => pc[p] = "idle"

Inv ==
  /\ TypeOK
  /\ OwnTokenIsOwn
  /\ LinkedTokenPresent
  /\ HandleDirectory
  /\ SingleOwner
  /\ CondemnedIsDead
  /\ ObservedIsToken
  /\ TokensOfStarted

-----------------------------------------------------------------------------
(* Types *)

LEMMA InitType == Init => TypeOK
  BY LockAssumption
  DEF Init, TypeOK, Outcomes, Pcs

\* What LinkOwner does, the chosen token given a name.
LEMMA LinkEffect ==
  ASSUME TypeOK, NEW p \in Procs, LinkOwner(p)
  PROVE  \E t \in Tokens :
           /\ t[1] = p
           /\ At(p, "link") /\ dir # NoDir
           /\ ownToken' = [ownToken EXCEPT ![p] = t]
           /\ entries' = entries \cup {t}
           /\ pc' = [pc EXCEPT ![p] = "verify"]
           /\ UNCHANGED <<dir, life, ownDir, purpose, observed, outcome, failed>>
<1>1. PICK t \in FreshTokens(p) : ownToken' = [ownToken EXCEPT ![p] = t]
  BY DEF LinkOwner
<1>2. t \in Tokens /\ t[1] = p
  BY <1>1 DEF FreshTokens, Tokens
<1>3. ownToken'[p] = t
  BY <1>1 DEF TypeOK
<1>4. QED BY <1>1, <1>2, <1>3 DEF LinkOwner, Goto

LEMMA NextType == TypeOK /\ [Next]_vars => TypeOK'
<1> SUFFICES ASSUME TypeOK, [Next]_vars
             PROVE  TypeOK'
  OBVIOUS
<1> USE LockAssumption
    DEF TypeOK, shared, holding, observed, Goto, At, Fails,
        FailsFromOutside, Outcomes, Pcs, PublishPcs, OwnPcs, RemovePcs, ReclaimPcs
<1>1. ASSUME NEW p \in Procs, Start(p) \/ Exit(p) \/ Acquire(p)
      PROVE  TypeOK'
  BY <1>1 DEF Start, Exit, Acquire, Forget, Abandon
<1>2. ASSUME NEW p \in Procs, Publish(p)
      PROVE  TypeOK'
  <2>1. CASE LookUp(p) \/ LookUpFails(p) \/ DirectoryExists(p) \/ StatDirectory(p)
               \/ StatFails(p)
    BY <2>1 DEF LookUp, LookUpFails, DirectoryExists, StatDirectory, StatFails
  <2>2. CASE MakeDirectory(p) \/ MakeDirectoryFails(p)
    BY <2>2 DEF MakeDirectory, MakeDirectoryFails
  <2>3. CASE LinkOwner(p)
    BY <2>3, LinkEffect
  <2>4. CASE LinkFails(p) \/ VerifyOwned(p) \/ VerifyLost(p)
    BY <2>4 DEF LinkFails, VerifyOwned, VerifyLost
  <2>5. QED BY <1>2, <2>1, <2>2, <2>3, <2>4 DEF Publish
<1>3. ASSUME NEW p \in Procs, Own(p)
      PROVE  TypeOK'
  BY <1>3 DEF Own, AssertOwned, AssertLost, AssertFails, Release
<1>4. ASSUME NEW p \in Procs, Remove(p)
      PROVE  TypeOK'
  <2>1. CASE UnlinkOwner(p) \/ Recheck(p)
    BY <2>1 DEF UnlinkOwner, Recheck
  <2>2. CASE UnlinkSkipped(p) \/ RecheckFails(p)
    BY <2>2 DEF UnlinkSkipped, RecheckFails, Return
  <2>3. CASE RemoveDirectory(p) \/ RemoveDirectoryFails(p)
    BY <2>3 DEF RemoveDirectory, RemoveDirectoryFails, RemovePath, Return
  <2>4. QED BY <1>4, <2>1, <2>2, <2>3 DEF Remove
<1>5. ASSUME NEW p \in Procs, AwaitRelease(p)
      PROVE  TypeOK'
  <2> USE DEF Forget, NotReclaimed
  <2>1. CASE Await(p) \/ AwaitFails(p) \/ Observe(p) \/ ObserveFails(p)
    BY <2>1 DEF Await, AwaitFails, Observe, ObserveFails
  <2>2. CASE ListEmpty(p) \/ ListOwner(p) \/ ListFails(p)
    BY <2>2 DEF ListEmpty, ListOwner, ListFails
  <2>3. CASE Restat(p) \/ RestatFails(p) \/ Relist(p) \/ RelistFails(p)
    BY <2>3 DEF Restat, RestatFails, Relist, RelistFails
  <2>4. CASE Judge(p) \/ JudgeFails(p) \/ Rejudge(p) \/ RejudgeFails(p)
    BY <2>4 DEF Judge, JudgeFails, Rejudge, RejudgeFails
  <2>5. CASE UnlinkDead(p) \/ UnlinkDeadFails(p)
    BY <2>5 DEF UnlinkDead, UnlinkDeadFails
  <2>6. CASE Reclaim(p) \/ ReclaimFails(p)
    BY <2>6 DEF Reclaim, ReclaimFails, RemovePath
  <2>7. CASE SleepAndRetry(p) \/ GiveUp(p)
    BY <2>7 DEF SleepAndRetry, GiveUp
  <2>8. QED BY <1>5, <2>1, <2>2, <2>3, <2>4, <2>5, <2>6, <2>7 DEF AwaitRelease
<1>6. CASE UNCHANGED vars
  BY <1>6 DEF vars
<1>7. QED BY <1>1, <1>2, <1>3, <1>4, <1>5, <1>6 DEF Next

\* Every reachable state is well typed (every call in publishOwner,
\* removeOwnedLock and reclaimStaleLockDirectory keeps it so).
THEOREM TypeCorrect == Spec => []TypeOK
<1>1. QED BY InitType, NextType, PTL DEF Spec

-----------------------------------------------------------------------------
(* The inductive invariant *)

LEMMA DeadVerdict ==
  ASSUME NEW t \in Tokens, PidOf \in [Procs -> Pids], MayJudgeDead(t)
  PROVE  ~Alive(t[1])
BY DEF MayJudgeDead, Verdicts, RunningAs, Tokens

\* While anyone has a token linked, or a handle, the directory is not empty:
\* it can be neither removed nor replaced.
LEMMA TokenPinsDirectory ==
  ASSUME Inv, entries = {}, NEW q \in Procs, Alive(q)
  PROVE  ~Linked(q) /\ ~HasHandle(q)
BY DEF Inv, LinkedTokenPresent, Linked, HasHandle, OwnPcs

LEMMA InitInv == Init => Inv
BY InitType, LockAssumption
DEF Init, Inv, TypeOK, OwnTokenIsOwn, LinkedTokenPresent, Linked, HandleDirectory, SingleOwner,
    Owns, HasHandle, OwnPcs, CondemnedIsDead, ObservedIsToken, TokensOfStarted, Alive, At

LEMMA NextInv == Inv /\ [Next]_vars => Inv'
<1> SUFFICES ASSUME Inv, [Next]_vars
             PROVE  Inv'
  OBVIOUS
<1>0. TypeOK /\ TypeOK'
  BY NextType DEF Inv
<1> USE <1>0, LockAssumption
    DEF Inv, OwnTokenIsOwn, LinkedTokenPresent, Linked, HandleDirectory, SingleOwner, Owns,
        HasHandle, OwnPcs, CondemnedIsDead, ObservedIsToken, TokensOfStarted, Alive,
        TypeOK, shared, holding, observed, Goto, At
<1>1. ASSUME NEW p \in Procs, Start(p) \/ Exit(p) \/ Acquire(p)
      PROVE  Inv'
  <2>1. CASE Start(p)
    BY <2>1 DEF Start
  <2>2. CASE Exit(p)
    BY <2>2 DEF Exit, Forget, Abandon
  <2>3. CASE Acquire(p)
    BY <2>3 DEF Acquire
  <2>4. QED BY <1>1, <2>1, <2>2, <2>3
<1>2. ASSUME NEW p \in Procs, Publish(p)
      PROVE  Inv'
  <2>1. CASE LookUp(p) \/ LookUpFails(p) \/ MakeDirectoryFails(p) \/ DirectoryExists(p)
    BY <2>1 DEF LookUp, LookUpFails, MakeDirectoryFails, DirectoryExists
  <2>2. CASE MakeDirectory(p)
    <3>1. entries = {} /\ entries' = {}
      BY <2>2 DEF MakeDirectory
    <3>2. \A q \in Procs : Alive(q) => ~Linked(q) /\ ~HasHandle(q)
      BY <3>1, TokenPinsDirectory
    <3>3. \A q \in Procs : Alive(q)' => ~Linked(q)' /\ ~HasHandle(q)'
      BY <2>2, <3>2 DEF MakeDirectory
    <3>4. QED BY <2>2, <3>1, <3>3 DEF MakeDirectory
  <2>3. CASE StatDirectory(p) \/ StatFails(p)
    BY <2>3 DEF StatDirectory, StatFails
  <2>4. CASE LinkOwner(p)
    BY <2>4, LinkEffect
  <2>5. CASE LinkFails(p) \/ VerifyLost(p)
    BY <2>5 DEF LinkFails, VerifyLost
  <2>6. CASE VerifyOwned(p)
    BY <2>6 DEF VerifyOwned, OwnsExclusiveToken
  <2>7. QED BY <1>2, <2>1, <2>2, <2>3, <2>4, <2>5, <2>6 DEF Publish
<1>3. ASSUME NEW p \in Procs, Own(p)
      PROVE  Inv'
  BY <1>3 DEF Own, AssertOwned, AssertLost, AssertFails, Release
<1>4. ASSUME NEW p \in Procs, Remove(p)
      PROVE  Inv'
  <2>1. CASE UnlinkOwner(p)
    BY <2>1 DEF UnlinkOwner
  <2>2. CASE UnlinkSkipped(p) \/ RecheckFails(p) \/ RemoveDirectoryFails(p)
    BY <2>2 DEF UnlinkSkipped, RecheckFails, RemoveDirectoryFails, Return
  <2>3. CASE Recheck(p)
    BY <2>3 DEF Recheck
  <2>4. CASE RemoveDirectory(p)
    <3>1. CASE entries = {}
      <4>1. \A q \in Procs : Alive(q) => ~Linked(q) /\ ~HasHandle(q)
        BY <3>1, TokenPinsDirectory
      <4>2. \A q \in Procs : Alive(q)' => ~Linked(q)' /\ ~HasHandle(q)'
        BY <2>4, <4>1 DEF RemoveDirectory, Return
      <4>3. QED BY <2>4, <3>1, <4>2 DEF RemoveDirectory, RemovePath, Return
    <3>2. CASE entries # {}
      BY <2>4, <3>2 DEF RemoveDirectory, RemovePath, Return
    <3>3. QED BY <3>1, <3>2
  <2>5. QED BY <1>4, <2>1, <2>2, <2>3, <2>4 DEF Remove
<1>5. ASSUME NEW p \in Procs, AwaitRelease(p)
      PROVE  Inv'
  <2> USE DEF Forget, NotReclaimed
  <2>1. CASE Await(p) \/ AwaitFails(p) \/ Observe(p) \/ ObserveFails(p)
    BY <2>1 DEF Await, AwaitFails, Observe, ObserveFails
  <2>2. CASE ListEmpty(p) \/ ListFails(p)
    BY <2>2 DEF ListEmpty, ListFails
  <2>3. CASE ListOwner(p)
    BY <2>3 DEF ListOwner
  <2>4. CASE Restat(p) \/ RestatFails(p) \/ Relist(p) \/ RelistFails(p)
    BY <2>4 DEF Restat, RestatFails, Relist, RelistFails
  <2>5. CASE Judge(p) \/ JudgeFails(p) \/ RejudgeFails(p)
    BY <2>5 DEF Judge, JudgeFails, RejudgeFails
  <2>6. CASE Rejudge(p)
    <3>1. ~Alive(seenToken[p][1])
      BY <2>6, DeadVerdict DEF Rejudge
    <3>2. life[seenToken[p][1]] = "dead"
      BY <2>6, <3>1 DEF Rejudge, Tokens
    <3>3. QED BY <2>6, <3>2 DEF Rejudge
  <2>7. CASE UnlinkDead(p)
    BY <2>7 DEF UnlinkDead
  <2>8. CASE UnlinkDeadFails(p)
    BY <2>8 DEF UnlinkDeadFails
  <2>9. CASE Reclaim(p)
    <3>1. entries = {} /\ entries' = {}
      BY <2>9 DEF Reclaim
    <3>2. \A q \in Procs : Alive(q) => ~Linked(q) /\ ~HasHandle(q)
      BY <3>1, TokenPinsDirectory
    <3>3. \A q \in Procs : Alive(q)' => ~Linked(q)' /\ ~HasHandle(q)'
      BY <2>9, <3>2 DEF Reclaim
    <3>4. QED BY <2>9, <3>1, <3>3 DEF Reclaim, RemovePath
  <2>10. CASE ReclaimFails(p) \/ SleepAndRetry(p) \/ GiveUp(p)
    BY <2>10 DEF ReclaimFails, SleepAndRetry, GiveUp
  <2>11. QED
    BY <1>5, <2>1, <2>2, <2>3, <2>4, <2>5, <2>6, <2>7, <2>8, <2>9, <2>10 DEF AwaitRelease
<1>6. CASE UNCHANGED vars
  BY <1>6 DEF vars
<1>7. QED BY <1>1, <1>2, <1>3, <1>4, <1>5, <1>6 DEF Next

LEMMA Invariance == Spec => []Inv
BY InitInv, NextInv, PTL DEF Spec

-----------------------------------------------------------------------------
(* Theorems *)

\* No two running processes hold the lock (acquire and release handles of
\* exclusive-directory-lock.ts), with any number of processes, deaths, reused
\* process ids and reclaims, and under either setting of the options.
THEOREM MutualExclusionHolds == Spec => []MutualExclusion
<1>1. Inv => MutualExclusion
  BY DEF Inv, SingleOwner, LinkedTokenPresent, Linked, MutualExclusion, Holds, Owns,
         HasHandle, OwnPcs
<1>2. QED BY Invariance, <1>1, PTL

\* While a process holds the lock, its token and its directory stay put
\* (what release and assertOwned rely on).
THEOREM HolderStaysPublishedHolds == Spec => []HolderStaysPublished
<1>1. Inv => HolderStaysPublished
  BY DEF Inv, LinkedTokenPresent, HandleDirectory, Linked, HolderStaysPublished, Holds,
         HasHandle, OwnPcs
<1>2. QED BY Invariance, <1>1, PTL

\* A token is unlinked by its own process or after that process' death
\* (removeOwnedLock and reclaimStaleLockDirectory unlink nothing else).
THEOREM UnlinkSafe == Spec => UnlinkedByOwnerOrAfterDeath
<1> DEFINE Unlinked ==
      \A t \in entries \ entries' :
        ~Alive(t[1]) \/ (pc[t[1]] = "unlink" /\ pc'[t[1]] # "unlink")
<1>1. Inv /\ [Next]_vars => [Unlinked]_vars
  <2> SUFFICES ASSUME Inv, Next
               PROVE  Unlinked
    BY DEF vars
  <2> USE DEF Inv, TypeOK, shared, At, Goto
  <2>1. PICK p \in Procs : Start(p) \/ Exit(p) \/ Acquire(p) \/ Publish(p) \/ Own(p)
                             \/ Remove(p) \/ AwaitRelease(p)
    BY DEF Next
  <2>2. CASE Start(p) \/ Exit(p) \/ Acquire(p) \/ Own(p)
    BY <2>2 DEF Start, Exit, Acquire, Own, AssertOwned, AssertLost, AssertFails, Release
  <2>3. CASE Publish(p)
    BY <2>3 DEF Publish, LookUp, LookUpFails, MakeDirectory, MakeDirectoryFails,
                DirectoryExists, StatDirectory, StatFails, LinkOwner, LinkFails, VerifyOwned,
                VerifyLost
  <2>4. CASE Remove(p)
    <3>1. CASE UnlinkOwner(p)
      <4>1. ownToken[p][1] = p
        BY <3>1, LockAssumption DEF UnlinkOwner, MayUnlink, OwnTokenIsOwn
      <4>2. QED BY <3>1, <4>1 DEF UnlinkOwner
    <3>2. CASE ~UnlinkOwner(p)
      BY <2>4, <3>2 DEF Remove, UnlinkSkipped, Recheck, RecheckFails, RemoveDirectory,
                        RemoveDirectoryFails
    <3>3. QED BY <3>1, <3>2
  <2>5. CASE AwaitRelease(p)
    <3>1. CASE UnlinkDead(p)
      BY <3>1 DEF UnlinkDead, CondemnedIsDead, Alive, At
    <3>2. CASE ~UnlinkDead(p)
      BY <2>5, <3>2 DEF AwaitRelease, NotReclaimed, Await, AwaitFails, Observe, ObserveFails,
         ListEmpty, ListOwner, ListFails, Restat, RestatFails, Relist, RelistFails, Judge,
         JudgeFails, Rejudge, RejudgeFails, UnlinkDeadFails, Reclaim, ReclaimFails,
         SleepAndRetry, GiveUp
    <3>3. QED BY <3>1, <3>2
  <2>6. QED BY <2>1, <2>2, <2>3, <2>4, <2>5
<1>2. QED BY Invariance, <1>1, PTL DEF Spec, UnlinkedByOwnerOrAfterDeath

-----------------------------------------------------------------------------
(* Refinement of LockService *)

\* Who owns the abstract lock is well defined.
LEMMA OwnerIs ==
  ASSUME SingleOwner, NEW p \in Procs, Owns(p)
  PROVE  owner = p
BY DEF SingleOwner, owner

LEMMA OwnerIsNobody ==
  ASSUME \A p \in Procs : ~Owns(p)
  PROVE  owner = NoProc
BY DEF owner

\* A step after which the same processes own the lock leaves it as it was.
LEMMA OwnerUnchanged ==
  ASSUME \A p \in Procs : Owns(p)' <=> Owns(p)
  PROVE  owner' = owner
BY DEF owner

LEMMA ServiceInit == Init => Service!Init
BY DEF Init, Service!Init, owner, Owns, HasHandle, OwnPcs

LEMMA ServiceStep == Inv /\ Inv' /\ [Next]_vars => [Service!Next]_(Service!vars)
<1> SUFFICES ASSUME Inv, Inv', [Next]_vars
             PROVE  [Service!Next]_(Service!vars)
  OBVIOUS
<1> USE DEF Inv, TypeOK, shared, holding, observed, At, Goto
<1>u. ASSUME \A q \in Procs : Owns(q)' <=> Owns(q), UNCHANGED life
      PROVE  UNCHANGED Service!vars
  BY <1>u, OwnerUnchanged DEF Service!vars
<1>r. ASSUME NEW p \in Procs, Alive(p), Owns(p), UNCHANGED life,
             \A q \in Procs : Owns(q)' => Owns(q) /\ q # p
      PROVE  Service!Next
  <2>1. owner = p
    BY <1>r, OwnerIs
  <2>2. \A q \in Procs : ~Owns(q)'
    BY <1>r DEF SingleOwner
  <2>3. owner' = NoProc
    BY <2>2 DEF owner
  <2>4. Service!Release(p)
    BY <1>r, <2>1, <2>3 DEF Service!Release, Service!Alive, Alive
  <2>5. QED BY <2>4 DEF Service!Next
<1>1. ASSUME NEW p \in Procs, Start(p)
      PROVE  Service!Next
  <2>1. owner' = owner
    BY <1>1 DEF Start, owner, Owns, HasHandle
  <2>2. Service!Start(p)
    BY <1>1, <2>1, LockAssumption DEF Start, RunningAs, Service!Start, Service!Alive, Alive
  <2>3. QED BY <2>2 DEF Service!Next
<1>2. ASSUME NEW p \in Procs, Exit(p)
      PROVE  Service!Next
  <2>1. \A q \in Procs : Owns(q)' <=> Owns(q)
    BY <1>2, LockAssumption DEF Exit, Forget, Abandon, Owns, HasHandle, OwnPcs
  <2>2. owner' = owner
    BY <2>1, OwnerUnchanged
  <2>3. Service!Exit(p)
    BY <1>2, <2>2 DEF Exit, Service!Exit, Service!Alive, Alive
  <2>4. QED BY <2>3 DEF Service!Next
<1>3. ASSUME NEW p \in Procs, Acquire(p)
      PROVE  UNCHANGED Service!vars
  BY <1>3, <1>u DEF Acquire, Owns, HasHandle, OwnPcs
<1>4. ASSUME NEW p \in Procs, VerifyOwned(p)
      PROVE  Service!Next
  <2>1. \A q \in Procs : ~Owns(q)
    <3>1. ASSUME NEW q \in Procs, ownToken[q] \in entries
          PROVE  q = p
      BY <1>4, <3>1, LockAssumption DEF VerifyOwned, OwnsExclusiveToken, OwnTokenIsOwn
    <3>2. QED BY <1>4, <3>1 DEF VerifyOwned, Owns, HasHandle, OwnPcs
  <2>2. Owns(p)'
    BY <1>4 DEF VerifyOwned, OwnsExclusiveToken, Owns, HasHandle, OwnPcs
  <2>3. owner = NoProc
    BY <2>1, OwnerIsNobody
  <2>4. owner' = p
    BY <2>2 DEF SingleOwner, owner
  <2>5. Service!Acquire(p)
    BY <1>4, <2>3, <2>4 DEF VerifyOwned, Service!Acquire, Service!Alive, Alive
  <2>6. QED BY <2>5 DEF Service!Next
<1>5. ASSUME NEW p \in Procs, Publish(p), ~VerifyOwned(p)
      PROVE  UNCHANGED Service!vars
  <2>1. CASE MakeDirectory(p)
    <3>1. entries = {} /\ entries' = {}
      BY <2>1 DEF MakeDirectory
    <3>2. QED BY <1>u, <2>1, <3>1 DEF MakeDirectory, Owns
  <2>2. CASE LinkOwner(p)
    <3>1. PICK t \in Tokens :
            /\ t[1] = p /\ pc[p] = "link"
            /\ ownToken' = [ownToken EXCEPT ![p] = t]
            /\ entries' = entries \cup {t}
            /\ pc' = [pc EXCEPT ![p] = "verify"]
            /\ UNCHANGED <<life, purpose>>
      BY <2>2, LinkEffect
    <3>2. ASSUME NEW q \in Procs, q # p
          PROVE  Owns(q)' <=> Owns(q)
      BY <3>1, <3>2, LockAssumption DEF Owns, HasHandle, OwnPcs, OwnTokenIsOwn
    <3>3. ~Owns(p)' /\ ~Owns(p)
      BY <3>1 DEF Owns, HasHandle, OwnPcs
    <3>4. QED BY <1>u, <3>1, <3>2, <3>3
  <2>3. CASE LookUp(p) \/ LookUpFails(p) \/ MakeDirectoryFails(p) \/ DirectoryExists(p)
               \/ StatDirectory(p) \/ StatFails(p)
    BY <1>u, <2>3 DEF LookUp, LookUpFails, MakeDirectoryFails, DirectoryExists,
       StatDirectory, StatFails, Owns, HasHandle, OwnPcs
  <2>4. CASE LinkFails(p) \/ VerifyLost(p)
    BY <1>u, <2>4 DEF LinkFails, VerifyLost, Owns, HasHandle, OwnPcs
  <2>5. QED BY <1>5, <2>1, <2>2, <2>3, <2>4 DEF Publish
<1>6. ASSUME NEW p \in Procs, Own(p)
      PROVE  UNCHANGED Service!vars
  BY <1>6, <1>u DEF Own, AssertOwned, AssertLost, AssertFails, Release, Owns, HasHandle,
     OwnPcs
<1>7. ASSUME NEW p \in Procs, Remove(p)
      PROVE  Service!Next \/ UNCHANGED Service!vars
  <2>1. CASE UnlinkOwner(p) /\ purpose[p] = "release"
    <3>1. Owns(p)
      BY <2>1 DEF UnlinkOwner, MayUnlink, Owns, HasHandle
    <3>3. \A q \in Procs : Owns(q)' => Owns(q) /\ q # p
      BY <2>1 DEF UnlinkOwner, Owns, HasHandle, OwnPcs
    <3>4. UNCHANGED life
      BY <2>1 DEF UnlinkOwner
    <3>5. QED BY <1>r, <2>1, <3>1, <3>3, <3>4 DEF UnlinkOwner
  <2>2. CASE UnlinkOwner(p) /\ purpose[p] # "release"
    <3>1. ASSUME NEW q \in Procs, q # p
          PROVE  Owns(q)' <=> Owns(q)
      <4>1. ownToken[q] # ownToken[p]
        BY <2>2, <3>1, LockAssumption DEF UnlinkOwner, MayUnlink, OwnTokenIsOwn
      <4>2. QED BY <2>2, <3>1, <4>1 DEF UnlinkOwner, Owns, HasHandle, OwnPcs
    <3>2. ~Owns(p)' /\ ~Owns(p)
      BY <2>2 DEF UnlinkOwner, Owns, HasHandle, OwnPcs
    <3>3. QED BY <1>u, <2>2, <3>1, <3>2 DEF UnlinkOwner
  <2>3. CASE UnlinkSkipped(p)
    <3>1. CASE Owns(p)
      <4>1. \A q \in Procs : Owns(q)' => Owns(q) /\ q # p
        BY <2>3 DEF UnlinkSkipped, Return, Owns, HasHandle, OwnPcs
      <4>2. QED BY <1>r, <2>3, <3>1, <4>1 DEF UnlinkSkipped
    <3>2. CASE ~Owns(p)
      BY <1>u, <2>3, <3>2 DEF UnlinkSkipped, Return, Owns, HasHandle, OwnPcs
    <3>3. QED BY <3>1, <3>2
  <2>4. CASE Recheck(p) \/ RecheckFails(p) \/ RemoveDirectory(p) \/ RemoveDirectoryFails(p)
    BY <1>u, <2>4 DEF Recheck, RecheckFails, RemoveDirectory, RemoveDirectoryFails, Return,
       Owns, HasHandle, OwnPcs
  <2>5. QED BY <1>7, <2>1, <2>2, <2>3, <2>4 DEF Remove
<1>8. ASSUME NEW p \in Procs, UnlinkDead(p)
      PROVE  Service!Next \/ UNCHANGED Service!vars
  <2>1. PICK o \in Procs : o = seenToken[p][1] /\ life[o] = "dead"
    BY <1>8 DEF UnlinkDead, CondemnedIsDead, Tokens
  <2>2. \A q \in Procs : Owns(q)' <=> Owns(q) /\ ownToken[q] # seenToken[p]
    BY <1>8 DEF UnlinkDead, Owns, HasHandle, OwnPcs
  <2>3. CASE Owns(o) /\ ownToken[o] = seenToken[p]
    <3>1. owner = o
      BY <2>3, OwnerIs
    <3>2. \A q \in Procs : ~Owns(q)'
      BY <2>2, <2>3 DEF SingleOwner
    <3>3. owner' = NoProc
      BY <3>2 DEF owner
    <3>4. Service!ReclaimFromDead(o)
      BY <1>8, <2>1, <3>1, <3>3 DEF UnlinkDead, Service!ReclaimFromDead
    <3>5. QED BY <3>4 DEF Service!Next
  <2>4. CASE ~(Owns(o) /\ ownToken[o] = seenToken[p])
    <3>1. \A q \in Procs : ownToken[q] = seenToken[p] => q = o
      BY <1>8, <2>1, LockAssumption DEF OwnTokenIsOwn, UnlinkDead, CondemnedIsDead
    <3>2. QED BY <1>u, <1>8, <2>2, <2>4, <3>1 DEF UnlinkDead
  <2>5. QED BY <2>3, <2>4
<1>9. ASSUME NEW p \in Procs, AwaitRelease(p), ~UnlinkDead(p)
      PROVE  UNCHANGED Service!vars
  <2> USE DEF NotReclaimed, Owns, HasHandle, OwnPcs
  <2>1. CASE Await(p) \/ AwaitFails(p) \/ Observe(p) \/ ObserveFails(p) \/ ListEmpty(p)
               \/ ListOwner(p) \/ ListFails(p)
    BY <1>u, <2>1 DEF Await, AwaitFails, Observe, ObserveFails, ListEmpty, ListOwner,
       ListFails
  <2>2. CASE Restat(p) \/ RestatFails(p) \/ Relist(p) \/ RelistFails(p)
    BY <1>u, <2>2 DEF Restat, RestatFails, Relist, RelistFails
  <2>3. CASE Judge(p) \/ JudgeFails(p) \/ Rejudge(p) \/ RejudgeFails(p)
    BY <1>u, <2>3 DEF Judge, JudgeFails, Rejudge, RejudgeFails
  <2>4. CASE UnlinkDeadFails(p) \/ Reclaim(p) \/ ReclaimFails(p)
    BY <1>u, <2>4 DEF UnlinkDeadFails, Reclaim, ReclaimFails
  <2>5. CASE SleepAndRetry(p) \/ GiveUp(p)
    BY <1>u, <2>5 DEF SleepAndRetry, GiveUp
  <2>6. QED BY <1>9, <2>1, <2>2, <2>3, <2>4, <2>5 DEF AwaitRelease
<1>10. CASE UNCHANGED vars
  BY <1>10, <1>u DEF vars, Owns, HasHandle
<1>11. QED
  BY <1>1, <1>2, <1>3, <1>4, <1>5, <1>6, <1>7, <1>8, <1>9, <1>10 DEF Next

\* The protocol of directories, tokens and liveness verdicts implements the
\* abstract lock its callers are promised.
THEOREM Refinement == Spec => ImplementsService
<1>1. QED
  BY Invariance, ServiceInit, ServiceStep, PTL DEF Spec, ImplementsService, Service!Spec

-----------------------------------------------------------------------------
(* Without reclaimStaleEmptyDirectory                                      *)

\* Then an empty directory is only ever removed by the process that made it or
\* emptied it.  Such a process has the directory in custody: nobody else has, so
\* what it stats, links into and removes is what it made.  DefaultInv says so, and
\* that whatever is in the directory is the token of one process that published it
\* there and has not yet unlinked it, or could not unlink it.

\* From mkdir to link, from unlink to rmdir: the directory is p's and empty.
InCustody(p) == pc[p] \in {"stat", "link", "recheck", "rmdir", "rmdirDead"}

Published(p) == pc[p] \in {"verify", "owned", "running", "unlink"}

\* No process removes an empty directory that it has found.
NoEmptyReclaim ==
  \A p \in Procs : pc[p] \notin {"restat", "relist", "rmdirEmpty"}

CustodyOfOne ==
  /\ \A p \in Procs : InCustody(p) => dir # NoDir /\ entries = {}
  /\ \A p, q \in Procs : InCustody(p) /\ InCustody(q) => p = q
  /\ \A p \in Procs : pc[p] \in {"link", "recheck", "rmdir"} => ownDir[p] = dir

OnlyEntryIsPublished ==
  /\ \A t, u \in entries : t = u
  /\ \A t \in entries :
       t[1] \notin failed => Published(t[1]) /\ t = ownToken[t[1]]
  /\ \A p \in Procs : Published(p) /\ ownToken[p] \in entries => ownDir[p] = dir

NobodyLoses ==
  \A p \in Procs \ failed :
    purpose[p] \notin {"retry", "abandon"} /\ outcome[p] \notin {"lost", "error"}

DefaultInv ==
  ~ReclaimEmpty => NoEmptyReclaim /\ CustodyOfOne /\ OnlyEntryIsPublished /\ NobodyLoses

-----------------------------------------------------------------------------
LEMMA InitDefault == Init => DefaultInv
BY DEF Init, DefaultInv, NoEmptyReclaim, CustodyOfOne, InCustody, OnlyEntryIsPublished,
       NobodyLoses

\* A live process with a published token owns the lock directory alone.
LEMMA PublishedOwns ==
  ASSUME Inv, OnlyEntryIsPublished, NEW p \in Procs, Alive(p), Published(p)
  PROVE  OwnsExclusiveToken(p)
<1>1. ownToken[p] \in entries
  BY DEF Inv, LinkedTokenPresent, Linked, Published
<1>2. QED BY <1>1 DEF OnlyEntryIsPublished, OwnsExclusiveToken

LEMMA NextDefault == Inv /\ DefaultInv /\ [Next]_vars => DefaultInv'
<1> SUFFICES ASSUME Inv, ~ReclaimEmpty,
                    NoEmptyReclaim, CustodyOfOne, OnlyEntryIsPublished, NobodyLoses, [Next]_vars
             PROVE  NoEmptyReclaim' /\ CustodyOfOne' /\ OnlyEntryIsPublished' /\ NobodyLoses'
  BY DEF DefaultInv
<1>0. TypeOK /\ (\A t \in entries : t \in Tokens /\ t[1] \in Procs)
  BY DEF Inv, TypeOK, Tokens
<1>t. OwnTokenIsOwn
  BY DEF Inv
<1> DEFINE Goal == NoEmptyReclaim' /\ CustodyOfOne' /\ OnlyEntryIsPublished' /\ NobodyLoses'
<1> USE <1>0, LockAssumption
    DEF NoEmptyReclaim, CustodyOfOne, InCustody, OnlyEntryIsPublished, Published, NobodyLoses,
        TypeOK, shared, holding, observed, At, Goto, Fails, FailsFromOutside
<1>1. ASSUME NEW p \in Procs, Start(p) \/ Exit(p) \/ Acquire(p)
      PROVE  Goal
  BY <1>1 DEF Start, Exit, Acquire, Forget, Abandon
<1>2. ASSUME NEW p \in Procs, Publish(p)
      PROVE  Goal
  <2>1. CASE LookUp(p) \/ LookUpFails(p) \/ MakeDirectoryFails(p) \/ DirectoryExists(p)
    BY <2>1 DEF LookUp, LookUpFails, MakeDirectoryFails, DirectoryExists
  <2>2. CASE MakeDirectory(p)
    BY <2>2 DEF MakeDirectory
  <2>3. CASE StatDirectory(p)
    BY <2>3 DEF StatDirectory
  <2>4. CASE StatFails(p) \/ LinkFails(p)
    BY <2>4 DEF StatFails, LinkFails
  <2>5. CASE LinkOwner(p)
    <3>1. PICK t \in Tokens :
            /\ t[1] = p /\ pc[p] = "link"
            /\ ownToken' = [ownToken EXCEPT ![p] = t]
            /\ entries' = entries \cup {t}
            /\ pc' = [pc EXCEPT ![p] = "verify"]
            /\ UNCHANGED <<dir, life, ownDir, purpose, outcome, failed>>
      BY <2>5, LinkEffect
    <3>2. entries' = {t} /\ dir # NoDir /\ ownDir[p] = dir
      BY <3>1
    <3>3. \A q \in Procs : q # p => ownToken'[q] = ownToken[q] /\ ownToken'[q] # t
      BY <1>t, <3>1, LockAssumption DEF OwnTokenIsOwn
    <3>4. NoEmptyReclaim' /\ NobodyLoses'
      BY <3>1
    <3>5. \A q \in Procs : ~InCustody(q)'
      BY <3>1, <3>2
    <3>6. CustodyOfOne'
      BY <3>1, <3>5
    <3>7. OnlyEntryIsPublished'
      BY <3>1, <3>2, <3>3
    <3>8. QED BY <3>4, <3>6, <3>7
  <2>6. CASE VerifyOwned(p)
    BY <2>6 DEF VerifyOwned
  <2>7. CASE VerifyLost(p)
    BY <2>7, PublishedOwns DEF VerifyLost
  <2>8. QED BY <1>2, <2>1, <2>2, <2>3, <2>4, <2>5, <2>6, <2>7 DEF Publish
<1>3. ASSUME NEW p \in Procs, Own(p)
      PROVE  Goal
  <2>1. CASE AssertOwned(p) \/ Release(p)
    BY <2>1 DEF AssertOwned, Release
  <2>2. CASE AssertLost(p)
    BY <2>2, PublishedOwns DEF AssertLost
  <2>3. CASE AssertFails(p)
    BY <2>3 DEF AssertFails
  <2>4. QED BY <1>3, <2>1, <2>2, <2>3 DEF Own
<1>4. ASSUME NEW p \in Procs, Remove(p)
      PROVE  Goal
  <2>1. CASE UnlinkOwner(p)
    <3>1. entries = {ownToken[p]} /\ ownDir[p] = dir /\ dir # NoDir
      BY <2>1 DEF UnlinkOwner, MayUnlink
    <3>2. entries' = {} /\ (\A q \in Procs : ~InCustody(q))
      BY <2>1, <3>1 DEF UnlinkOwner
    <3>3. QED BY <2>1, <3>1, <3>2 DEF UnlinkOwner
  <2>2. CASE UnlinkSkipped(p)
    BY <2>2, PublishedOwns DEF UnlinkSkipped, MayUnlink, OwnsExclusiveToken, Return
  <2>3. CASE Recheck(p)
    BY <2>3 DEF Recheck
  <2>4. CASE RecheckFails(p)
    BY <2>4 DEF RecheckFails, MayRemove, Return
  <2>5. CASE RemoveDirectory(p)
    <3>1. entries = {} /\ entries' = {} /\ dir' = NoDir
      BY <2>5 DEF RemoveDirectory, RemovePath
    <3>2. \A q \in Procs : ~InCustody(q)'
      BY <2>5 DEF RemoveDirectory, Return
    <3>3. QED BY <2>5, <3>1, <3>2 DEF RemoveDirectory, Return
  <2>6. CASE RemoveDirectoryFails(p)
    BY <2>6 DEF RemoveDirectoryFails, Return
  <2>7. QED BY <1>4, <2>1, <2>2, <2>3, <2>4, <2>5, <2>6 DEF Remove
<1>5. ASSUME NEW p \in Procs, AwaitRelease(p)
      PROVE  Goal
  <2> USE DEF Forget, NotReclaimed
  <2>1. CASE Await(p) \/ AwaitFails(p) \/ Observe(p) \/ ObserveFails(p)
    BY <2>1 DEF Await, AwaitFails, Observe, ObserveFails
  <2>2. CASE ListEmpty(p) \/ Restat(p) \/ RestatFails(p) \/ Relist(p) \/ RelistFails(p)
    BY <2>2 DEF ListEmpty, Restat, RestatFails, Relist, RelistFails
  <2>3. CASE ListOwner(p) \/ ListFails(p)
    BY <2>3 DEF ListOwner, ListFails
  <2>4. CASE Judge(p) \/ JudgeFails(p) \/ Rejudge(p) \/ RejudgeFails(p)
    BY <2>4 DEF Judge, JudgeFails, Rejudge, RejudgeFails
  <2>5. CASE UnlinkDead(p)
    <3>1. entries = {seenToken[p]} /\ dir # NoDir
      BY <2>5 DEF UnlinkDead
    <3>2. entries' = {} /\ (\A q \in Procs : ~InCustody(q))
      BY <2>5, <3>1 DEF UnlinkDead
    <3>3. QED BY <2>5, <3>1, <3>2 DEF UnlinkDead
  <2>6. CASE UnlinkDeadFails(p)
    BY <2>6 DEF UnlinkDeadFails
  <2>7. CASE Reclaim(p)
    <3>1. entries = {} /\ entries' = {} /\ dir' = NoDir
      BY <2>7 DEF Reclaim, RemovePath
    <3>2. \A q \in Procs : ~InCustody(q)'
      BY <2>7 DEF Reclaim
    <3>3. QED BY <2>7, <3>1, <3>2 DEF Reclaim
  <2>8. CASE ReclaimFails(p)
    BY <2>8 DEF ReclaimFails
  <2>9. CASE SleepAndRetry(p) \/ GiveUp(p)
    BY <2>9 DEF SleepAndRetry, GiveUp
  <2>10. QED BY <1>5, <2>1, <2>2, <2>3, <2>4, <2>5, <2>6, <2>7, <2>8, <2>9 DEF AwaitRelease
<1>6. CASE UNCHANGED vars
  BY <1>6 DEF vars
<1>7. QED BY <1>1, <1>2, <1>3, <1>4, <1>5, <1>6 DEF Next

LEMMA DefaultInvariance == Spec => []DefaultInv
BY Invariance, InitDefault, NextDefault, PTL DEF Spec

-----------------------------------------------------------------------------
\* Without reclaimStaleEmptyDirectory no call of publishOwner or assertOwned finds
\* its directory gone or another's: an acquisition is granted or times out, unless a
\* call of its own process fails for a reason from outside, with any number of
\* processes, deaths and reused process ids, and whatever calls of others fail.
THEOREM OnlyTimesOut == Spec => []DefaultOnlyTimesOut
<1>1. DefaultInv => DefaultOnlyTimesOut
  BY DEF DefaultInv, NobodyLoses, DefaultOnlyTimesOut
<1>2. QED BY DefaultInvariance, <1>1, PTL

\* Nor does removeOwnedLock then return with the token of its live process in
\* place: what is in the directory is still to be unlinked, or its owner is dead, or
\* a call of its owner has failed for a reason from outside.
THEOREM LeavesNoToken == Spec => []DefaultLeavesNoToken
<1>1. DefaultInv => DefaultLeavesNoToken
  BY DEF DefaultInv, OnlyEntryIsPublished, Published, DefaultLeavesNoToken
<1>2. QED BY DefaultInvariance, <1>1, PTL
=============================================================================
