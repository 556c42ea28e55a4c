------------------------ MODULE SupervisedRunProofs ------------------------
(***************************************************************************)
(* Proofs about SupervisedRun, for any number of supervisors.              *)
(*                                                                         *)
(* RunningHoldsLane says nothing of a launcher that has not yet become a   *)
(* command.  SupervisorInv follows a group from its registration: the      *)
(* barrier is open only for a group on record, such a group keeps the lane *)
(* until it is gone, a group that is gone does not come back, and a        *)
(* receipt that names no group was written when none could run.            *)
(***************************************************************************)
EXTENDS SupervisedRun, TLAPS

Running(s) == group[s] \in {"launcher", "target"}

\* A live supervisor that has not released the lane owns it.
LaneOwned ==
  /\ \A s \in Supervisors :
       life[s] = "alive" /\ phase[s] \notin {"waiting", "report", "ended"} => owner = s
  /\ \A s \in Supervisors : life[s] = "unborn" => phase[s] = "waiting"

\* What has happened before a phase is entered.
PhaseFacts ==
  \A s \in Supervisors :
    /\ phase[s] \in {"waiting", "locked"} => group[s] = "none" /\ receipt[s] = "none"
    /\ phase[s] \in {"waiting", "locked"} \cup Starting => barrier[s] = "closed"
    /\ phase[s] \in {"publish", "openBarrier"} => record[s] = "group"
    /\ phase[s] = "openBarrier" => receipt[s] = "started"
    /\ phase[s] \in Starting => group[s] # "none"
    /\ phase[s] = "complete" => ~Running(s)

\* An open barrier, and what it lets run, is on record and has the lane.
StartedFacts ==
  \A s \in Supervisors :
    /\ group[s] = "target" => barrier[s] = "start"
    /\ barrier[s] = "start" => record[s] = "group" /\ group[s] # "none"
    /\ barrier[s] = "start" /\ Running(s) => owner = s /\ receipt[s] \notin {"none", "failed"}

\* Receipts, and what the callers have made of them.
ReceiptFacts ==
  \A s \in Supervisors :
    /\ receipt[s] = "completed" => ~Running(s)
    /\ receipt[s] = "torn" /\ barrier[s] = "start" /\ Running(s) =>
         life[s] = "dead" \/ phase[s] = "ended"
    /\ caller[s] # "waiting" => life[s] = "dead"
    /\ caller[s] \in {"completed", "cleaned"} => ~Running(s)
    /\ caller[s] = "failed" => receipt[s] \in {"none", "failed", "torn", "completed"}

SupervisorInv ==
  /\ Typed /\ LaneOwned /\ PhaseFacts /\ StartedFacts /\ ReceiptFacts

-----------------------------------------------------------------------------
LEMMA InitSupervisor == SupervisorInit => SupervisorInv
BY SupervisorAssumption
DEF SupervisorInit, SupervisorInv, Typed, LaneOwned, PhaseFacts, StartedFacts,
    ReceiptFacts, Running, Phases, Starting, Lane!Init

LEMMA NextSupervisor == SupervisorInv /\ [SupervisorNext]_supervisorVars => SupervisorInv'
<1> SUFFICES ASSUME SupervisorInv, [SupervisorNext]_supervisorVars
             PROVE  SupervisorInv'
  OBVIOUS
<1> USE SupervisorAssumption
    DEF SupervisorInv, Typed, LaneOwned, PhaseFacts, StartedFacts, ReceiptFacts,
        Running, Phases, Starting, lane, In, Enter, Lane!Alive
<1>1. ASSUME NEW s \in Supervisors, Supervise(s)
      PROVE  SupervisorInv'
  <2>1. CASE AcquireLane(s)
    <3>1. owner = NoProc
      BY <2>1 DEF AcquireLane, Lane!Acquire
    <3>2. owner' = s /\ life' = life /\ phase' = [phase EXCEPT ![s] = "locked"]
      BY <2>1 DEF AcquireLane, Lane!Acquire
    <3>3. /\ UNCHANGED <<record, group, barrier, keep, receipt, caller>>
          /\ phase[s] = "waiting" /\ life[s] = "alive"
      BY <2>1 DEF AcquireLane
    <3>4. \A q \in Supervisors :
            /\ ~(life[q] = "alive" /\ phase[q] \notin {"waiting", "report", "ended"})
            /\ ~(barrier[q] = "start" /\ Running(q))
      BY <3>1
    <3>5. Typed'
      BY <3>2, <3>3
    <3>6. LaneOwned'
      BY <3>2, <3>3, <3>4
    <3>7. PhaseFacts' /\ StartedFacts' /\ ReceiptFacts'
      BY <3>2, <3>3, <3>4
    <3>8. QED BY <3>5, <3>6, <3>7
  <2>2. CASE LaneRefused(s) \/ NotSpawned(s) \/ DeadlinePassed(s)
    BY <2>2 DEF LaneRefused, NotSpawned, DeadlinePassed
  <2>3. CASE Spawn(s) \/ SpawnWithoutBarrier(s)
    <3>1. Typed'
      <4>1. keep' = keep \/ keep' = [keep EXCEPT ![s] = TRUE]
        BY <2>3 DEF Spawn, SpawnWithoutBarrier
      <4>2. keep' \in [Supervisors -> BOOLEAN]
        BY <4>1, Zenon
      <4>3. QED BY <2>3, <4>2 DEF Spawn, SpawnWithoutBarrier
    <3>2. LaneOwned'
      BY <2>3 DEF Spawn, SpawnWithoutBarrier
    <3>3. PhaseFacts'
      BY <2>3 DEF Spawn, SpawnWithoutBarrier
    <3>4. StartedFacts'
      BY <2>3 DEF Spawn, SpawnWithoutBarrier
    <3>5. ReceiptFacts'
      BY <2>3 DEF Spawn, SpawnWithoutBarrier
    <3>6. QED BY <3>1, <3>2, <3>3, <3>4, <3>5
  <2>4. CASE Register(s) \/ Rewrite(s)
    BY <2>4 DEF Register, Rewrite, RecordWritten
  <2>5. CASE PublishGroup(s)
    <3>1. LaneOwned' /\ PhaseFacts' /\ Typed'
      BY <2>5 DEF PublishGroup
    <3>2. StartedFacts'
      BY <2>5 DEF PublishGroup
    <3>3. ReceiptFacts'
      BY <2>5 DEF PublishGroup
    <3>4. QED BY <3>1, <3>2, <3>3
  <2>6. CASE OpenBarrier(s)
    BY <2>6 DEF OpenBarrier
  <2>7. CASE Abort(s) \/ KillLauncher(s)
    <3>1. Typed'
      <4>1. keep' = keep \/ keep' = [keep EXCEPT ![s] = TRUE]
        BY <2>7 DEF Abort, KillLauncher, NotPublished
      <4>2. keep' \in [Supervisors -> BOOLEAN]
        BY <4>1, Zenon
      <4>3. QED BY <2>7, <4>2 DEF Abort, KillLauncher, NotPublished
    <3>2. LaneOwned'
      BY <2>7 DEF Abort, KillLauncher, NotPublished
    <3>3. PhaseFacts'
      BY <2>7 DEF Abort, KillLauncher, NotPublished
    <3>4. StartedFacts'
      BY <2>7 DEF Abort, KillLauncher, NotPublished
    <3>5. ReceiptFacts'
      BY <2>7 DEF Abort, KillLauncher, NotPublished
    <3>6. QED BY <3>1, <3>2, <3>3, <3>4, <3>5
  <2>8. CASE Completed(s) \/ Interrupted(s) \/ Terminated(s)
    BY <2>8 DEF Completed, Interrupted, Terminated, TerminationConfirmed, GroupExists
  <2>9. CASE CleanupThrows(s) \/ Swept(s)
    BY <2>9 DEF CleanupThrows, Swept
  <2>10. CASE PublishReceipt(s)
    BY <2>10 DEF PublishReceipt, NotPublished
  <2>11. CASE ReleaseLane(s)
    BY <2>11 DEF ReleaseLane, Leaving, Left, ProvenDrained, GroupExists, Lane!Release
  <2>12. CASE KeepLane(s) \/ ReleaseThrows(s)
    BY <2>12 DEF KeepLane, ReleaseThrows, Leaving, Left
  <2>13. CASE Report(s)
    BY <2>13 DEF Report, NamesGroup, NotPublished
  <2>14. QED
    BY <1>1, <2>1, <2>2, <2>3, <2>4, <2>5, <2>6, <2>7, <2>8, <2>9, <2>10, <2>11, <2>12, <2>13
    DEF Supervise
<1>2. ASSUME NEW s \in Supervisors,
             StartSupervisor(s) \/ ExitSupervisor(s) \/ KilledWritingReceipt(s)
      PROVE  SupervisorInv'
  <2>1. CASE StartSupervisor(s)
    BY <2>1 DEF StartSupervisor, Lane!Start
  <2>2. CASE ExitSupervisor(s)
    BY <2>2 DEF ExitSupervisor, Lane!Exit
  <2>3. CASE KilledWritingReceipt(s)
    BY <2>3 DEF KilledWritingReceipt, Lane!Exit
  <2>4. QED BY <1>2, <2>1, <2>2, <2>3
<1>3. ASSUME NEW s \in Supervisors, ReclaimLane(s)
      PROVE  SupervisorInv'
  BY <1>3 DEF ReclaimLane, ProvenDrained, GroupExists, Lane!ReclaimFromDead
<1>4. ASSUME NEW s \in Supervisors,
             LaunchTarget(s) \/ GroupEnds(s) \/ IdReused(s) \/ StrangerEnds(s)
      PROVE  SupervisorInv'
  <2>1. CASE LaunchTarget(s)
    BY <2>1 DEF LaunchTarget
  <2>2. CASE GroupEnds(s)
    BY <2>2 DEF GroupEnds
  <2>3. CASE IdReused(s) \/ StrangerEnds(s)
    BY <2>3 DEF IdReused, StrangerEnds
  <2>4. QED BY <1>4, <2>1, <2>2, <2>3
<1>5. ASSUME NEW s \in Supervisors, ReturnCompleted(s) \/ ReturnFailed(s)
      PROVE  SupervisorInv'
  BY <1>5 DEF ReturnCompleted, ReturnFailed, NamesGroup, GroupExists
<1>6. CASE UNCHANGED supervisorVars
  BY <1>6 DEF supervisorVars
<1>7. QED BY <1>1, <1>2, <1>3, <1>4, <1>5, <1>6 DEF SupervisorNext

LEMMA SupervisorInvariance == SupervisorSpec => []SupervisorInv
BY InitSupervisor, NextSupervisor, PTL DEF SupervisorSpec

-----------------------------------------------------------------------------
\* Every reachable state is well typed, and the barrier of a launcher is opened
\* only after its group is on record (registerProcessGroup).
THEOREM SupervisorTypeCorrect == SupervisorSpec => []SupervisorTypeOK
<1>1. SupervisorInv => SupervisorTypeOK
  BY DEF SupervisorInv, StartedFacts, SupervisorTypeOK
<1>2. QED BY SupervisorInvariance, <1>1, PTL

\* Expensive commands exclude each other, with any number of supervisors that
\* may be killed at any step, and with ids of process groups that are reused.
THEOREM RunningHoldsLaneHolds == SupervisorSpec => []RunningHoldsLane
<1>1. SupervisorInv => RunningHoldsLane
  BY DEF SupervisorInv, StartedFacts, Running, RunningHoldsLane
<1>2. QED BY SupervisorInvariance, <1>1, PTL

\* What runSupervisedProcess returns is true of the process group.
THEOREM CallersAreTold == SupervisorSpec => []CallerIsToldTheTruth
<1>1. SupervisorInv => CallerIsToldTheTruth
  BY DEF SupervisorInv, StartedFacts, ReceiptFacts, Running, CallerIsToldTheTruth
<1>2. QED BY SupervisorInvariance, <1>1, PTL
=============================================================================
