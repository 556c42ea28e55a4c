----------------------- MODULE VerificationExecution -----------------------
(***************************************************************************)
(* src/effects/evidence/verification-execution.ts: executePrepared runs    *)
(* the checks of a plan against one snapshot of the repository, reuses the *)
(* passes it finds in the evidence log and adds what it has run.  Calls    *)
(* overlap in processes of their own; the repository is edited and the     *)
(* admission replaced while they run; a call may die at any step.          *)
(*                                                                         *)
(* The request lock of a cache key and the evidence log are what           *)
(* LockService and EvidenceLog promise.  One campaign, one environment and *)
(* one toolchain: a key is a check and a snapshot.  Checks with a          *)
(* historical baseline and damaged run records are left out.               *)
(***************************************************************************)
EXTENDS Naturals, Sequences

CONSTANTS
  Calls,        \* calls of executeAdmittedVerification
  Plan,         \* the checks, in the order of the plan
  Preflight, Expensive,   \* those of phase preflight, and those of cost expensive
  Trees,        \* snapshots of the repository
  Admissions,   \* what the current authority may be
  FoundTree, FoundAdmission,   \* what they are when the first call begins
  MayForce,     \* the calls that may have a forceReason
  FoundLedgers, \* the execution events that the calls may start from
  MaxEdits,     \* bound: edits of the repository and replacements of the admission
  NoCall

Checks == {Plan[i] : i \in DOMAIN Plan}
Keys   == Checks \X Trees
ExecutionEvents ==
  [check : Checks, tree : Trees, admission : Admissions, passed : BOOLEAN, forced : BOOLEAN]

\* "Verification Plan check id is duplicated" refuses a plan.
ASSUME VerificationAssumption ==
  /\ Plan \in Seq(Checks)
  /\ \A i, j \in DOMAIN Plan : Plan[i] = Plan[j] => i = j
  /\ Preflight \subseteq Checks /\ Expensive \subseteq Checks
  /\ FoundTree \in Trees /\ FoundAdmission \in Admissions
  /\ FoundLedgers \subseteq Seq(ExecutionEvents)
  /\ MayForce \subseteq Calls
  /\ MaxEdits \in Nat
  /\ NoCall \notin Calls

VARIABLES
  tree,        \* the repository as it is
  admission,   \* the current authority
  changes,     \* how often either has changed
  ledger,      \* the execution events, in append order
  holder,      \* who holds the request lock of each key
  at,          \* the next step of each call
  forced,      \* whether it has a forceReason
  snapshot, authority,   \* what it was prepared with
  pending,     \* the places in the plan of the checks it has yet to decide
  ran,         \* how the command of the first of them ended
  result,      \* its result for each check
  report,      \* the status it has reported
  began        \* history: how long the ledger was when it began

world == <<tree, admission, changes>>
mine  == <<forced, snapshot, authority, began>>
verificationVars == <<world, ledger, holder, at, mine, pending, ran, result, report>>

\* Preflights first, otherwise in the order of the plan.
Rank(i) == IF Plan[i] \in Preflight THEN i ELSE Len(Plan) + i

FirstOf(places) == CHOOSE i \in places : \A j \in places : Rank(i) <= Rank(j)

Check(c) == Plan[FirstOf(pending[c])]
CacheKey(c) == <<Check(c), snapshot[c]>>

VerificationInit ==
  /\ tree = FoundTree /\ admission = FoundAdmission
  /\ changes = 0
  /\ ledger \in FoundLedgers
  /\ holder = [k \in Keys |-> NoCall]
  /\ at = [c \in Calls |-> "prepare"]
  /\ forced \in {f \in [Calls -> BOOLEAN] : \A c \in Calls : f[c] => c \in MayForce}
  /\ snapshot = [c \in Calls |-> tree]
  /\ authority = [c \in Calls |-> admission]
  /\ pending = [c \in Calls |-> DOMAIN Plan]
  /\ ran = [c \in Calls |-> "notRun"]
  /\ result = [c \in Calls |-> [k \in Checks |-> "missing"]]
  /\ report = [c \in Calls |-> "none"]
  /\ began = [c \in Calls |-> 0]

Continue(c, label) == at' = [at EXCEPT ![c] = label]

\* assertCurrent throws once the admission has been replaced.
StillCurrent(c) == admission = authority[c]

Unlocked(c) == [k \in Keys |-> IF holder[k] = c THEN NoCall ELSE holder[k]]

\* The call is over, and what it knew with it.
End(c, label) ==
  /\ Continue(c, label)
  /\ pending' = [pending EXCEPT ![c] = {}]
  /\ ran' = [ran EXCEPT ![c] = "notRun"]
  /\ result' = [result EXCEPT ![c] = [k \in Checks |-> "missing"]]

\* Mutant: it is not noticed that no check is left.
AlwaysLookUp(places) == "lookUp"

Onward(places) == IF places = {} THEN "report" ELSE "lookUp"

\* The result of a check is in; the next check begins, or the report.
Decide(c, r) ==
  LET left == pending[c] \ {FirstOf(pending[c])}
  IN  /\ result' = [result EXCEPT ![c][Check(c)] = r]
      /\ pending' = [pending EXCEPT ![c] = left]
      /\ Continue(c, Onward(left))

-----------------------------------------------------------------------------
(* The ledger: reusableResult, currentResult, priorExecutionExists *)

Matching(log, check, snap) == {i \in DOMAIN log : log[i].check = check /\ log[i].tree = snap}

\* Mutant: any pass under the key will do.
AnyPassReused(c) ==
  \E i \in Matching(ledger, Check(c), snapshot[c]) :
    ledger[i].passed /\ ledger[i].admission = authority[c]

\* The newest event of the key decides, and only a pass is reused.
Reusable(c) ==
  \E i \in Matching(ledger, Check(c), snapshot[c]) :
    /\ \A j \in Matching(ledger, Check(c), snapshot[c]) : j <= i
    /\ ledger[i].passed /\ ledger[i].admission = authority[c]

PriorExecutionExists(c) == \E i \in DOMAIN ledger : ledger[i].check = Check(c)

-----------------------------------------------------------------------------
(* executePrepared *)

Prepare(c) ==
  /\ at[c] = "prepare"
  /\ snapshot' = [snapshot EXCEPT ![c] = tree]
  /\ authority' = [authority EXCEPT ![c] = admission]
  /\ began' = [began EXCEPT ![c] = Len(ledger)]
  /\ Continue(c, Onward(pending[c]))
  /\ UNCHANGED <<world, ledger, holder, forced, pending, ran, result, report>>

PreflightFailed(c) == \E k \in Preflight : result[c][k] \in {"failed", "unstable", "waiting", "drifted"}

NotRun(c) ==
  /\ at[c] = "lookUp"
  /\ PreflightFailed(c)
  /\ Decide(c, "missing")
  /\ UNCHANGED <<world, ledger, holder, mine, ran, report>>

Reuse(c) ==
  /\ at[c] = "lookUp"
  /\ ~PreflightFailed(c)
  /\ ~forced[c] /\ Reusable(c)
  /\ Decide(c, "reused")
  /\ UNCHANGED <<world, ledger, holder, mine, ran, report>>

\* "Expensive input drift requires a new Verification Plan or an explicit force reason."
NeedsPlan(c) ==
  /\ at[c] = "lookUp"
  /\ ~PreflightFailed(c)
  /\ ~forced[c] /\ ~Reusable(c)
  /\ Check(c) \in Expensive /\ PriorExecutionExists(c)
  /\ Decide(c, "drifted")
  /\ UNCHANGED <<world, ledger, holder, mine, ran, report>>

MustExecute(c) ==
  /\ at[c] = "lookUp"
  /\ ~PreflightFailed(c)
  /\ forced[c] \/ ~(Reusable(c) \/ (Check(c) \in Expensive /\ PriorExecutionExists(c)))
  /\ Continue(c, "lock")
  /\ UNCHANGED <<world, ledger, holder, mine, pending, ran, result, report>>

-----------------------------------------------------------------------------
(* executeCheck *)

\* Free, or its holder is dead.
LockRequest(c) ==
  /\ at[c] = "lock"
  /\ holder[CacheKey(c)] \in {NoCall} \cup {d \in Calls : at[d] = "dead"}
  /\ holder' = [holder EXCEPT ![CacheKey(c)] = c]
  /\ Continue(c, "lookAgain")
  /\ UNCHANGED <<world, ledger, mine, pending, ran, result, report>>

\* "An identical execution request is already running", or has died a moment ago.
RequestBusy(c) ==
  /\ at[c] = "lock"
  /\ holder[CacheKey(c)] # NoCall
  /\ Decide(c, "waiting")
  /\ UNCHANGED <<world, ledger, holder, mine, ran, report>>

\* Mutant: the ledger is not read again.
NotLookedUpAgain(c) == FALSE

\* "Another writer can append before this lock is held."
ReusableUnderLock(c) == ~forced[c] /\ Reusable(c)

ReuseUnderLock(c) ==
  /\ at[c] = "lookAgain"
  /\ ReusableUnderLock(c)
  /\ holder' = Unlocked(c)
  /\ Decide(c, "reused")
  /\ UNCHANGED <<world, ledger, mine, ran, report>>

StartCommand(c) ==
  /\ at[c] = "lookAgain"
  /\ ~ReusableUnderLock(c)
  /\ StillCurrent(c)
  /\ Continue(c, "run")
  /\ UNCHANGED <<world, ledger, holder, mine, pending, ran, result, report>>

\* It passes, if it succeeds and the repository is seen to be as it was.
CommandEnds(c) ==
  /\ at[c] = "run"
  /\ StillCurrent(c)
  /\ \E r \in {"failed", "unstable", "passed"} :
       /\ r = "passed" => tree = snapshot[c]
       /\ ran' = [ran EXCEPT ![c] = r]
  /\ Continue(c, "append")
  /\ UNCHANGED <<world, ledger, holder, mine, pending, result, report>>

Execution(c) ==
  [check |-> Check(c), tree |-> snapshot[c], admission |-> authority[c],
   passed |-> ran[c] = "passed", forced |-> forced[c]]

\* A pass is recorded under the authority that is current.
AppendExecution(c) ==
  /\ at[c] = "append"
  /\ ran[c] = "passed" => StillCurrent(c)
  /\ ledger' = Append(ledger, Execution(c))
  /\ holder' = Unlocked(c)
  /\ Decide(c, ran[c])
  /\ ran' = [ran EXCEPT ![c] = "notRun"]
  /\ UNCHANGED <<world, mine, report>>

\* assertCurrent or a call to the system throws; the lock is released.
Throws(c) ==
  /\ at[c] \in {"lookUp", "lock", "lookAgain", "run", "append", "report"}
  /\ holder' = Unlocked(c)
  /\ End(c, "threw")
  /\ UNCHANGED <<world, ledger, mine, report>>

\* The append fails after the record has reached the log.
AppendThrows(c) ==
  /\ at[c] = "append"
  /\ ran[c] = "passed" => StillCurrent(c)
  /\ ledger' = Append(ledger, Execution(c))
  /\ holder' = Unlocked(c)
  /\ End(c, "threw")
  /\ UNCHANGED <<world, mine, report>>

-----------------------------------------------------------------------------
\* Without baselines no other status is left than these.  A snapshot that cannot
\* be taken counts as changed.
Status(c, seenUnchanged) ==
  LET Some(r) == \E k \in Checks : result[c][k] = r
  IN  IF Some("waiting") THEN "waiting"
      ELSE IF Some("failed") THEN "failed"
      ELSE IF Some("drifted") \/ Some("unstable") \/ ~seenUnchanged THEN "needs_verification_plan"
      ELSE "passed"

Report(c) ==
  /\ at[c] = "report"
  /\ \E seenUnchanged \in BOOLEAN :
       /\ seenUnchanged => tree = snapshot[c]
       /\ Status(c, seenUnchanged) = "passed" => StillCurrent(c)
       /\ report' = [report EXCEPT ![c] = Status(c, seenUnchanged)]
  /\ End(c, "ended")
  /\ UNCHANGED <<world, ledger, holder, mine>>

CallDies(c) ==
  /\ at[c] \notin {"prepare", "threw", "ended", "dead"}
  /\ End(c, "dead")
  /\ UNCHANGED <<world, ledger, holder, mine, report>>

Edit ==
  /\ changes < MaxEdits
  /\ \E t \in Trees \ {tree} : tree' = t
  /\ changes' = changes + 1
  /\ UNCHANGED <<admission, ledger, holder, at, mine, pending, ran, result, report>>

Readmit ==
  /\ changes < MaxEdits
  /\ \E a \in Admissions \ {admission} : admission' = a
  /\ changes' = changes + 1
  /\ UNCHANGED <<tree, ledger, holder, at, mine, pending, ran, result, report>>

ExecuteCheck(c) ==
  \/ LockRequest(c) \/ RequestBusy(c) \/ ReuseUnderLock(c) \/ StartCommand(c)
  \/ CommandEnds(c) \/ AppendExecution(c) \/ AppendThrows(c)

ExecutePrepared(c) ==
  \/ Prepare(c) \/ NotRun(c) \/ Reuse(c) \/ NeedsPlan(c) \/ MustExecute(c)
  \/ ExecuteCheck(c) \/ Throws(c) \/ Report(c)

VerificationNext ==
  \/ \E c \in Calls : ExecutePrepared(c) \/ CallDies(c)
  \/ Edit \/ Readmit

VerificationSpec == VerificationInit /\ [][VerificationNext]_verificationVars

-----------------------------------------------------------------------------
(* Properties *)

Deciding == {"lookUp", "lock", "lookAgain", "run", "append"}

\* Every variable has its type; who works on a check has one, who reports has none,
\* and what is to be appended is the outcome of a command.
VerificationTypeOK ==
  /\ tree \in Trees /\ admission \in Admissions /\ changes \in 0..MaxEdits
  /\ ledger \in Seq(ExecutionEvents)
  /\ holder \in [Keys -> Calls \cup {NoCall}]
  /\ at \in [Calls -> {"prepare", "lookUp", "lock", "lookAgain", "run", "append",
                       "report", "ended", "threw", "dead"}]
  /\ forced \in [Calls -> BOOLEAN]
  /\ snapshot \in [Calls -> Trees] /\ authority \in [Calls -> Admissions]
  /\ began \in [Calls -> Nat]
  /\ pending \in [Calls -> SUBSET (DOMAIN Plan)]
  /\ \A c \in Calls : /\ at[c] \in Deciding => pending[c] # {}
                      /\ at[c] = "report" => pending[c] = {}
                      /\ at[c] = "append" => ran[c] # "notRun"
  /\ ran \in [Calls -> {"notRun", "passed", "failed", "unstable"}]
  /\ result \in [Calls -> [Checks -> {"missing", "reused", "waiting", "drifted",
                                      "passed", "failed", "unstable"}]]
  /\ report \in [Calls -> {"none", "waiting", "failed", "needs_verification_plan", "passed"}]

\* A report that says passed rests on the ledger: for every check there is a
\* pass for the very snapshot and authority of the call, which no failure that
\* was recorded before the call began has overtaken, whoever else ran, died,
\* edited the repository or replaced the admission meanwhile (currentResult,
\* reusableResult, executeCheck).
PassMeansProven ==
  \A c \in Calls :
    report[c] = "passed" =>
      \A k \in Checks :
        \E i \in Matching(ledger, k, snapshot[c]) :
          /\ ledger[i].passed /\ ledger[i].admission = authority[c]
          /\ \A j \in Matching(ledger, k, snapshot[c]) : j > i /\ j <= began[c] => ledger[j].passed

\* No execution that nobody forced follows, as the next of its key, a pass under
\* the same admission.
RunsOnce(log) ==
  \A i, j \in DOMAIN log :
    /\ i < j /\ log[i].check = log[j].check /\ log[i].tree = log[j].tree
    /\ \A n \in (i + 1)..(j - 1) : log[n].check # log[i].check \/ log[n].tree # log[i].tree
    => log[j].forced \/ ~log[i].passed \/ log[i].admission # log[j].admission

\* What has passed is not run again, however many identical calls overlap
\* (executeCheck looks again under the lock).
OneRunPerRequest == RunsOnce(ledger)
=============================================================================
