--------------------------- MODULE SupervisedRun ---------------------------
(***************************************************************************)
(* src/effects/process-supervisor.ts with expensive-run-lock.ts,           *)
(* process-group-launcher.ts, process-group-termination.ts and the caller  *)
(* in process-runner.ts: an expensive command runs in a process group of   *)
(* its own under a lane that all checkouts of a repository share.  The     *)
(* supervisor may be killed between any two steps, the group may outlive   *)
(* it, and the id of a group that is gone may come to name a stranger's.   *)
(*                                                                         *)
(* POSIX only.  The lane is LockService, where a dead owner loses it only  *)
(* with the consent of canReclaimStaleOwner.                               *)
(***************************************************************************)
EXTENDS Naturals

CONSTANTS
  Supervisors, PidOf, NoProc   \* the processes of LockService

ASSUME SupervisorAssumption == NoProc \notin Supervisors

VARIABLES
  owner, life,  \* the lane and its processes (LockService)
  phase,        \* the next step of each supervisor
  record,       \* each supervisor's owner record: "plain", "torn" or with its "group"
  group,        \* the process group of each supervisor
  barrier,      \* its start barrier: "closed", "start" or "destroyed"
  keep,         \* preserveExpensiveRunLock
  receipt,      \* the metadata file that its caller reads
  caller        \* what runSupervisedProcess has returned, or "waiting"

lane           == <<owner, life>>
supervisorVars == <<lane, phase, record, group, barrier, keep, receipt, caller>>

Lane == INSTANCE LockService WITH Procs <- Supervisors, PidOf <- PidOf,
  NoProc <- NoProc, owner <- owner, life <- life

Starting == {"register", "rewrite", "publish", "openBarrier"}
Phases   == {"waiting", "locked", "killLauncher", "supervise", "terminate", "sweep",
             "complete", "leave", "leaveFailing", "report", "ended"} \cup Starting

In(s, label) == Lane!Alive(s) /\ phase[s] = label
Enter(s, label) == phase' = [phase EXCEPT ![s] = label]

\* processGroupExists: the probe cannot tell a stranger's group from its own.
GroupExists(s) == group[s] \in {"launcher", "target", "stranger"}

SupervisorInit ==
  /\ Lane!Init
  /\ phase = [s \in Supervisors |-> "waiting"]
  /\ record = [s \in Supervisors |-> "plain"]
  /\ group = [s \in Supervisors |-> "none"]
  /\ barrier = [s \in Supervisors |-> "closed"]
  /\ keep = [s \in Supervisors |-> FALSE]
  /\ receipt = [s \in Supervisors |-> "none"]
  /\ caller = [s \in Supervisors |-> "waiting"]

-----------------------------------------------------------------------------
(* supervise: the lane, then the launcher *)

AcquireLane(s) ==
  /\ In(s, "waiting")
  /\ Lane!Acquire(s)
  /\ Enter(s, "locked")
  /\ UNCHANGED <<record, group, barrier, keep, receipt, caller>>

\* The wait times out, or the caller has exited before it.
LaneRefused(s) ==
  /\ In(s, "waiting")
  /\ Enter(s, "report")
  /\ UNCHANGED <<lane, record, group, barrier, keep, receipt, caller>>

\* The caller has exited meanwhile, or the launcher cannot be spawned.
NotSpawned(s) ==
  /\ In(s, "locked")
  /\ Enter(s, "leaveFailing")
  /\ UNCHANGED <<lane, record, group, barrier, keep, receipt, caller>>

\* The deadline has passed before the start: a complete receipt, with no group.
DeadlinePassed(s) ==
  /\ In(s, "locked")
  /\ receipt' = [receipt EXCEPT ![s] = "completed"]
  /\ Enter(s, "leave")
  /\ UNCHANGED <<lane, record, group, barrier, keep, caller>>

Spawn(s) ==
  /\ In(s, "locked")
  /\ group' = [group EXCEPT ![s] = "launcher"]
  /\ Enter(s, "register")
  /\ UNCHANGED <<lane, record, barrier, keep, receipt, caller>>

SpawnWithoutBarrier(s) ==
  /\ In(s, "locked")
  /\ group' = [group EXCEPT ![s] = "launcher"]
  /\ keep' = [keep EXCEPT ![s] = TRUE]
  /\ Enter(s, "leaveFailing")
  /\ UNCHANGED <<lane, record, barrier, receipt, caller>>

\* registerProcessGroup rewrites the owner record in place: first it is empty,
Register(s) ==
  /\ In(s, "register")
  /\ record' = [record EXCEPT ![s] = "torn"]
  /\ Enter(s, "rewrite")
  /\ UNCHANGED <<lane, group, barrier, keep, receipt, caller>>

\* Mutant: the rewritten record does not parse as a group proof.
RecordUnproven == "torn"

RecordWritten == "group"

\* and then it names the group.
Rewrite(s) ==
  /\ In(s, "rewrite")
  /\ record' = [record EXCEPT ![s] = RecordWritten]
  /\ Enter(s, "publish")
  /\ UNCHANGED <<lane, group, barrier, keep, receipt, caller>>

PublishGroup(s) ==
  /\ In(s, "publish")
  /\ receipt' = [receipt EXCEPT ![s] = "started"]
  /\ Enter(s, "openBarrier")
  /\ UNCHANGED <<lane, record, group, barrier, keep, caller>>

OpenBarrier(s) ==
  /\ In(s, "openBarrier")
  /\ barrier' = [barrier EXCEPT ![s] = "start"]
  /\ Enter(s, "supervise")
  /\ UNCHANGED <<lane, record, group, keep, receipt, caller>>

\* A receipt that was not written may be cut short, or the one before it.
NotPublished(s) == receipt' = receipt \/ receipt' = [receipt EXCEPT ![s] = "torn"]

\* The lane was lost, or a write failed.
Abort(s) ==
  /\ \E label \in Starting : In(s, label)
  /\ IF phase[s] = "publish" THEN NotPublished(s) ELSE UNCHANGED receipt
  /\ barrier' = [barrier EXCEPT ![s] = "destroyed"]
  /\ keep' = [keep EXCEPT ![s] = TRUE]
  /\ Enter(s, "killLauncher")
  /\ UNCHANGED <<lane, record, group, caller>>

KillLauncher(s) ==
  /\ In(s, "killLauncher")
  /\ Enter(s, "leaveFailing")
  /\ UNCHANGED <<lane, record, group, barrier, keep, receipt, caller>>

-----------------------------------------------------------------------------
(* superviseTarget: until the whole group is gone, not only its leader *)

Completed(s) ==
  /\ In(s, "supervise")
  /\ ~GroupExists(s)
  /\ Enter(s, "complete")
  /\ UNCHANGED <<lane, record, group, barrier, keep, receipt, caller>>

\* A timeout, a signal, or the loss of the parent.
Interrupted(s) ==
  /\ In(s, "supervise")
  /\ Enter(s, "terminate")
  /\ UNCHANGED <<lane, record, group, barrier, keep, receipt, caller>>

\* Mutant: the supervisor goes on once it has sent SIGKILL.
TerminatedUnconfirmed(s) == TRUE

TerminationConfirmed(s) == ~GroupExists(s)

Terminated(s) ==
  /\ In(s, "terminate")
  /\ TerminationConfirmed(s)
  /\ Enter(s, "complete")
  /\ UNCHANGED <<lane, record, group, barrier, keep, receipt, caller>>

CleanupThrows(s) ==
  /\ In(s, "supervise") \/ In(s, "terminate")
  /\ Enter(s, "sweep")
  /\ UNCHANGED <<lane, record, group, barrier, keep, receipt, caller>>

\* The lane is given back only if the sweep has seen the group gone.
Swept(s) ==
  /\ In(s, "sweep")
  /\ \E unproven \in BOOLEAN :
       /\ GroupExists(s) => unproven
       /\ keep' = [keep EXCEPT ![s] = unproven]
  /\ Enter(s, "leaveFailing")
  /\ UNCHANGED <<lane, record, group, barrier, receipt, caller>>

PublishReceipt(s) ==
  /\ In(s, "complete")
  /\ \/ receipt' = [receipt EXCEPT ![s] = "completed"] /\ Enter(s, "leave")
     \/ NotPublished(s) /\ Enter(s, "leaveFailing")
  /\ UNCHANGED <<lane, record, group, barrier, keep, caller>>

-----------------------------------------------------------------------------
(* release, and the receipt of a failed supervisor *)

\* Mutant: the group need not be gone for the lane to be given up.
RegistrationSuffices(s) == record[s] = "group"

\* What release and canReclaimStaleOwner both demand.
ProvenDrained(s) == record[s] = "group" /\ ~GroupExists(s)

Leaving(s) == In(s, "leave") \/ In(s, "leaveFailing")

Left(s) == Enter(s, IF phase[s] = "leave" THEN "ended" ELSE "report")

ReleaseLane(s) ==
  /\ Leaving(s)
  /\ ~keep[s]
  /\ record[s] = "plain" \/ ProvenDrained(s)
  /\ Lane!Release(s)
  /\ Left(s)
  /\ UNCHANGED <<record, group, barrier, keep, receipt, caller>>

KeepLane(s) ==
  /\ Leaving(s)
  /\ keep[s]
  /\ Left(s)
  /\ UNCHANGED <<lane, record, group, barrier, keep, receipt, caller>>

\* "process group has not been proven drained; preserving lock"
ReleaseThrows(s) ==
  /\ Leaving(s)
  /\ ~keep[s]
  /\ Enter(s, "report")
  /\ UNCHANGED <<lane, record, group, barrier, keep, receipt, caller>>

\* publishedProcessGroupPid: the group that the last receipt names.
NamesGroup(s) ==
  \/ receipt[s] \in {"started", "failedWithGroup"}
  \/ receipt[s] = "completed" /\ group[s] # "none"

Report(s) ==
  /\ In(s, "report")
  /\ \/ receipt' = [receipt EXCEPT ![s] = IF NamesGroup(s) THEN "failedWithGroup" ELSE "failed"]
     \/ NotPublished(s)
  /\ Enter(s, "ended")
  /\ UNCHANGED <<lane, record, group, barrier, keep, caller>>

-----------------------------------------------------------------------------
(* The processes and the process groups *)

StartSupervisor(s) ==
  /\ Lane!Start(s)
  /\ UNCHANGED <<phase, record, group, barrier, keep, receipt, caller>>

\* It has ended, or it is killed: by its caller's hard timeout, or by anyone.
ExitSupervisor(s) ==
  /\ Lane!Exit(s)
  /\ UNCHANGED <<phase, record, group, barrier, keep, receipt, caller>>

\* writeFileSync is not atomic.
KilledWritingReceipt(s) ==
  /\ In(s, "publish") \/ In(s, "complete") \/ In(s, "report")
  /\ Lane!Exit(s)
  /\ receipt' = [receipt EXCEPT ![s] = "torn"]
  /\ UNCHANGED <<phase, record, group, barrier, keep, caller>>

ReclaimLane(s) ==
  /\ Lane!ReclaimFromDead(s)
  /\ ProvenDrained(s)
  /\ UNCHANGED <<phase, record, group, barrier, keep, receipt, caller>>

\* waitForSupervisorRelease, and then the command.
LaunchTarget(s) ==
  /\ group[s] = "launcher"
  /\ barrier[s] = "start"
  /\ group' = [group EXCEPT ![s] = "target"]
  /\ UNCHANGED <<lane, phase, record, barrier, keep, receipt, caller>>

\* By itself, by a signal, or because the barrier is closed without a start.
GroupEnds(s) ==
  /\ group[s] \in {"launcher", "target"}
  /\ group' = [group EXCEPT ![s] = "gone"]
  /\ UNCHANGED <<lane, phase, record, barrier, keep, receipt, caller>>

\* Another process group gets the id,
IdReused(s) ==
  /\ group[s] = "gone"
  /\ group' = [group EXCEPT ![s] = "stranger"]
  /\ UNCHANGED <<lane, phase, record, barrier, keep, receipt, caller>>

\* and ends too.
StrangerEnds(s) ==
  /\ group[s] = "stranger"
  /\ group' = [group EXCEPT ![s] = "gone"]
  /\ UNCHANGED <<lane, phase, record, barrier, keep, receipt, caller>>

-----------------------------------------------------------------------------
(* runSupervisedProcess, once its supervisor has exited *)

ReturnCompleted(s) ==
  /\ caller[s] = "waiting" /\ life[s] = "dead"
  /\ phase[s] = "ended" /\ receipt[s] = "completed"
  /\ caller' = [caller EXCEPT ![s] = "completed"]
  /\ UNCHANGED <<lane, phase, record, group, barrier, keep, receipt>>

\* The exit does not match the receipt: terminateAbandonedProcessGroup ends the
\* group that the receipt names, and sees it gone or not.
ReturnFailed(s) ==
  /\ caller[s] = "waiting" /\ life[s] = "dead"
  /\ ~(phase[s] = "ended" /\ receipt[s] = "completed")
  /\ caller' = [caller EXCEPT ![s] =
       IF ~NamesGroup(s) THEN "failed" ELSE IF GroupExists(s) THEN "unproven" ELSE "cleaned"]
  /\ UNCHANGED <<lane, phase, record, group, barrier, keep, receipt>>

Supervise(s) ==
  \/ AcquireLane(s) \/ LaneRefused(s) \/ NotSpawned(s) \/ DeadlinePassed(s)
  \/ Spawn(s) \/ SpawnWithoutBarrier(s) \/ Register(s) \/ Rewrite(s)
  \/ PublishGroup(s) \/ OpenBarrier(s) \/ Abort(s) \/ KillLauncher(s)
  \/ Completed(s) \/ Interrupted(s) \/ Terminated(s) \/ CleanupThrows(s) \/ Swept(s)
  \/ PublishReceipt(s) \/ ReleaseLane(s) \/ KeepLane(s) \/ ReleaseThrows(s) \/ Report(s)

SupervisorNext ==
  \E s \in Supervisors :
    \/ Supervise(s)
    \/ StartSupervisor(s) \/ ExitSupervisor(s) \/ KilledWritingReceipt(s)
    \/ ReclaimLane(s)
    \/ LaunchTarget(s) \/ GroupEnds(s) \/ IdReused(s) \/ StrangerEnds(s)
    \/ ReturnCompleted(s) \/ ReturnFailed(s)

\* Commands end, strangers' groups too, and someone goes on asking for the lane,
\* also in the moments in which no stranger has the id of the group.
SupervisorFairness ==
  \A s \in Supervisors :
    /\ WF_supervisorVars(GroupEnds(s))
    /\ WF_supervisorVars(StrangerEnds(s))
    /\ SF_supervisorVars(ReclaimLane(s))

SupervisorSpec == SupervisorInit /\ [][SupervisorNext]_supervisorVars /\ SupervisorFairness

-----------------------------------------------------------------------------
(* Properties *)

Typed ==
  /\ owner \in Supervisors \cup {NoProc}
  /\ life \in [Supervisors -> {"unborn", "alive", "dead"}]
  /\ phase \in [Supervisors -> Phases]
  /\ record \in [Supervisors -> {"plain", "torn", "group"}]
  /\ group \in [Supervisors -> {"none", "launcher", "target", "gone", "stranger"}]
  /\ barrier \in [Supervisors -> {"closed", "start", "destroyed"}]
  /\ keep \in [Supervisors -> BOOLEAN]
  /\ receipt \in [Supervisors -> {"none", "started", "completed", "failed",
                                  "failedWithGroup", "torn"}]
  /\ caller \in [Supervisors -> {"waiting", "completed", "failed", "cleaned", "unproven"}]

\* Every variable has its type; and a start barrier is open only for a group that
\* exists and that the owner record names: the launcher is registered before it
\* is released.
SupervisorTypeOK ==
  /\ Typed
  /\ \A s \in Supervisors :
       barrier[s] = "start" => group[s] # "none" /\ record[s] = "group"

\* While a command runs, the lane is its supervisor's, dead or alive: two
\* expensive commands never overlap, whoever is killed at whatever moment
\* (registration before the barrier, release and reclaim only of a group that
\* is proven drained).
RunningHoldsLane == \A s \in Supervisors : group[s] = "target" => owner = s

\* What the caller is told is true of the process group: a completed run and a
\* cleaned one are over; a failed one that names no group has none running,
\* unless the last receipt was cut short.
CallerIsToldTheTruth ==
  \A s \in Supervisors :
    /\ caller[s] \in {"completed", "cleaned"} => group[s] \notin {"launcher", "target"}
    /\ caller[s] = "failed" /\ receipt[s] # "torn" => group[s] # "target"

\* A supervisor that dies after its command could start does not block the lane
\* for ever: its record proves the group, and the lane is free once that has ended.
LaneRecovers ==
  \A s \in Supervisors :
    (owner = s /\ life[s] = "dead" /\ barrier[s] = "start") ~> (owner # s)
=============================================================================
