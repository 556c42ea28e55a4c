------------------------ MODULE MergeExecutorProofs ------------------------
(***************************************************************************)
(* Proofs about MergeExecutor, for any runs, commits and number of         *)
(* readbacks.                                                              *)
(*                                                                         *)
(* MergesAreAsAsked speaks of runs that have ended and requests that have  *)
(* merged.  MergeInv adds why it stays so: a merged pull request keeps its *)
(* head and the parents of its commit, the read model shows a merge only   *)
(* as it was made, and every request that has left a run left it after the *)
(* strict protection was seen.  A run reads back only what the provider has *)
(* settled, so a rejection is one unless the read model is behind.         *)
(***************************************************************************)
EXTENDS MergeExecutor, TLAPS

ReadModelBehind ==
  shown.state = "MERGED" =>
    pull.state = "MERGED" /\ shown.head = pull.head /\ shown.parents = pull.parents

\* What has happened before a step is reached, and before a run has an exit code.
StepFacts ==
  \A r \in Runs :
    /\ step[r] \in Reads \cup {"idle", "send"} => request[r] = "none"
    /\ step[r] \in {"assessReadiness", "rereadTarget", "send"} => strict # "off"
    /\ step[r] = "readBack" => request[r] \in {"merged", "rejected"}
    /\ step[r] = "readCommit" => pull.state = "MERGED" /\ pull.head = ExpectedHead
    /\ step[r] # "ended" => exit[r] = NoExit

\* A request in flight or settled has passed the check of the protection.
RequestFacts ==
  \A r \in Runs :
    /\ request[r] # "none" => strict # "off"
    /\ request[r] = "merged" => pull.state = "MERGED"

MergeInv ==
  /\ MergeTypeOK /\ ReadModelBehind /\ StepFacts /\ RequestFacts /\ MergesAreAsAsked

-----------------------------------------------------------------------------
\* The parents that a merge commit may have.
LEMMA MergeParents ==
  ASSUME NEW b \in Bases, NEW h \in Heads
  PROVE  <<b>> \in Parents /\ <<b, h>> \in Parents /\ <<b>>[1] = b /\ <<b, h>>[1] = b
<1>1. <<b>> \in Parents
  BY DEF Parents
<1>2. <<b, h>> \in Parents
  BY DEF Parents
<1>3. QED BY <1>1, <1>2

LEMMA InitMerge == MergeInit => MergeInv
<1> SUFFICES ASSUME MergeInit PROVE MergeInv
  OBVIOUS
<1> USE MergeAssumption DEF MergeInit
<1>1. pull \in Pulls /\ shown \in Pulls
  BY DEF Pulls, Parents
<1>2. batch \in [Runs -> BOOLEAN]
  BY Zenon
<1>3. MergeTypeOK
  BY <1>1, <1>2 DEF MergeTypeOK, Steps, NoExit
<1>4. QED
  BY <1>3
  DEF MergeInv, ReadModelBehind, StepFacts, RequestFacts, MergesAreAsAsked,
      ProvenIsMerged, RefusedNeverSends, MovedBaseNeedsRelaxing, Reads, NoExit

LEMMA NextMerge == MergeInv /\ [MergeNext]_mergeVars => MergeInv'
<1> SUFFICES ASSUME MergeInv, [MergeNext]_mergeVars
             PROVE  MergeInv'
  OBVIOUS
<1> USE MergeAssumption
    DEF MergeInv, MergeTypeOK, ReadModelBehind, StepFacts, RequestFacts, MergesAreAsAsked,
        ProvenIsMerged, RefusedNeverSends, MovedBaseNeedsRelaxing, Reads, Steps, NoExit,
        provider, Proceed, EndWith
<1>1. ASSUME NEW r \in Runs, Prepare(r)
      PROVE  MergeInv'
  <2>1. CASE Select(r) \/ ReadTarget(r) \/ CheckBatch(r) \/ ReadPolicy(r)
    BY <2>1 DEF Select, ReadTarget, CheckBatch, ReadPolicy
  <2>2. CASE Refuse(r)
    BY <2>2 DEF Refuse
  <2>3. CASE CheckProtection(r)
    BY <2>3 DEF CheckProtection, BaseProtected
  <2>4. CASE AssessReadiness(r) \/ RereadTarget(r)
    BY <2>4 DEF AssessReadiness, RereadTarget
  <2>5. QED BY <1>1, <2>1, <2>2, <2>3, <2>4 DEF Prepare
<1>2. ASSUME NEW r \in Runs, SendMerge(r)
      PROVE  MergeInv'
  BY <1>2 DEF SendMerge
<1>3. ASSUME NEW r \in Runs, Conclude(r)
      PROVE  MergeInv'
  <2>1. CASE NoAnswer(r) \/ ReadBackOpen(r) \/ ReadBackUnclear(r)
    BY <2>1 DEF NoAnswer, ReadBackOpen, ReadBackUnclear
  <2>2. CASE AnswerMerged(r) \/ AnswerErrors(r) \/ ReadBackMerged(r)
    BY <2>2 DEF AnswerMerged, AnswerErrors, ReadBackMerged
  <2>3. CASE ProveMerged(r)
    BY <2>3 DEF ProveMerged
  <2>4. CASE Proven(r)
    BY <2>4 DEF Proven, ExpectedParents
  <2>5. CASE Contradicted(r) \/ WindowOver(r)
    BY <2>5 DEF Contradicted, WindowOver
  <2>6. CASE ReadBackAgain(r)
    BY <2>6 DEF ReadBackAgain, AttemptsLeft, CountedOnce
  <2>7. QED BY <1>3, <2>1, <2>2, <2>3, <2>4, <2>5, <2>6 DEF Conclude
<1>4. ASSUME NEW r \in Runs, RunDies(r)
      PROVE  MergeInv'
  <2>1. UNCHANGED <<provider, batch, request, attempts, exit>>
    BY <1>4 DEF RunDies
  <2>2. step[r] \notin {"idle", "ended"} /\ step' = [step EXCEPT ![r] = "ended"]
    BY <1>4 DEF RunDies
  <2>3. MergeTypeOK'
    BY <2>1, <2>2
  <2>4. ReadModelBehind' /\ StepFacts' /\ RequestFacts'
    BY <2>1, <2>2
  <2>5. MergesAreAsAsked'
    BY <2>1
  <2>6. QED BY <2>3, <2>4, <2>5
<1>5. ASSUME NEW r \in Runs, ApplyRequest(r)
      PROVE  MergeInv'
  <2>1. /\ request[r] = "inFlight" /\ pull.state = "OPEN" /\ pull.head = ExpectedHead
        /\ strict = "on" => pull.base = ExpectedBase
        /\ request' = [request EXCEPT ![r] = "merged"]
        /\ UNCHANGED <<shown, strict, step, batch, attempts, exit>>
    BY <1>5 DEF ApplyRequest
  <2>2. /\ pull' \in Pulls
        /\ pull'.state = "MERGED" /\ pull'.head = pull.head /\ pull'.base = pull.base
        /\ pull'.parents[1] = pull.base
    <3>1. PICK q \in Parents : /\ pull' = [pull EXCEPT !.state = "MERGED", !.parents = q]
                               /\ q[1] = pull.base
      <4>1. pull.base \in Bases
        BY DEF Pulls
      <4>2. <<pull.base>> \in Parents /\ <<pull.base>>[1] = pull.base
        BY <4>1, MergeParents
      <4>3. /\ <<pull.base, ExpectedHead>> \in Parents
            /\ <<pull.base, ExpectedHead>>[1] = pull.base
        BY <4>1, MergeParents
      <4>4. CASE batch[r]
        <5>1. pull' = [pull EXCEPT !.state = "MERGED", !.parents = <<pull.base, ExpectedHead>>]
          BY <1>5, <4>4, Zenon DEF ApplyRequest
        <5>2. QED BY <4>3, <5>1
      <4>5. CASE ~batch[r]
        <5>1. pull' = [pull EXCEPT !.state = "MERGED", !.parents = <<pull.base>>]
          BY <1>5, <4>5, Zenon DEF ApplyRequest
        <5>2. QED BY <4>2, <5>1
      <4>6. QED BY <4>4, <4>5
    <3>2. /\ pull' \in Pulls
          /\ pull'.state = "MERGED" /\ pull'.parents = q
          /\ pull'.head = pull.head /\ pull'.base = pull.base
      BY <3>1 DEF Pulls
    <3>3. QED BY <3>1, <3>2
  <2>3. strict # "off" /\ shown.state # "MERGED"
    BY <2>1
  <2>4. MergeTypeOK' /\ ReadModelBehind' /\ StepFacts' /\ RequestFacts'
    BY <2>1, <2>2, <2>3
  <2>5. MergesAreAsAsked'
    BY <2>1, <2>2, <2>3
  <2>6. QED BY <2>4, <2>5
<1>6. ASSUME NEW r \in Runs, RejectRequest(r)
      PROVE  MergeInv'
  BY <1>6 DEF RejectRequest
<1>7. CASE CatchUp
  <2>1. shown' = pull /\ UNCHANGED <<pull, strict, step, batch, request, attempts, exit>>
    BY <1>7 DEF CatchUp
  <2>2. MergeTypeOK'
    BY <2>1
  <2>3. ReadModelBehind' /\ StepFacts' /\ RequestFacts'
    BY <2>1
  <2>4. MergesAreAsAsked'
    BY <2>1
  <2>5. QED BY <2>2, <2>3, <2>4
<1>8. CASE Others
  <2>1. UNCHANGED <<shown, step, batch, request, attempts, exit>>
    BY <1>8 DEF Others, Push, BaseMoves, CloseOrReopen, MergedByOthers, RelaxProtection
  <2>2. /\ strict' \in {"on", "off", "relaxed"}
        /\ strict' = strict \/ strict' = "relaxed"
    BY <1>8 DEF Others, Push, BaseMoves, CloseOrReopen, MergedByOthers, RelaxProtection
  <2>3. pull' \in Pulls
    <3>1. CASE MergedByOthers
      <4>1. pull.base \in Bases /\ pull.head \in Heads
        BY DEF Pulls
      <4>2. <<pull.base>> \in Parents /\ <<pull.base, pull.head>> \in Parents
        BY <4>1, MergeParents
      <4>3. PICK q \in Parents : pull' = [pull EXCEPT !.state = "MERGED", !.parents = q]
        BY <3>1, <4>2 DEF MergedByOthers
      <4>4. QED BY <4>3 DEF Pulls
    <3>2. CASE Push \/ BaseMoves \/ CloseOrReopen \/ RelaxProtection
      BY <3>2 DEF Push, BaseMoves, CloseOrReopen, RelaxProtection, Pulls
    <3>3. QED BY <1>8, <3>1, <3>2 DEF Others
  <2>4. pull.state = "MERGED" =>
          pull'.state = "MERGED" /\ pull'.head = pull.head /\ pull'.parents = pull.parents
    BY <1>8 DEF Others, Push, BaseMoves, CloseOrReopen, MergedByOthers, RelaxProtection, Pulls
  <2>5. MergeTypeOK' /\ ReadModelBehind' /\ StepFacts' /\ RequestFacts'
    BY <2>1, <2>2, <2>3, <2>4
  <2>6. MergesAreAsAsked'
    BY <2>1, <2>2, <2>3, <2>4
  <2>7. QED BY <2>5, <2>6
<1>9. CASE UNCHANGED mergeVars
  BY <1>9 DEF mergeVars
<1>10. QED
  BY <1>1, <1>2, <1>3, <1>4, <1>5, <1>6, <1>7, <1>8, <1>9 DEF MergeNext, Provider

LEMMA MergeInvariance == MergeSpec => []MergeInv
BY InitMerge, NextMerge, PTL DEF MergeSpec

-----------------------------------------------------------------------------
\* Every reachable state is well typed: no run makes more readbacks than there
\* are delays for (readbackDelays).
THEOREM MergeTypeCorrect == MergeSpec => []MergeTypeOK
BY MergeInvariance, PTL DEF MergeInv

\* With any number of overlapping runs and whatever others do to the pull
\* request, exit 0 means the merge that was asked for, exits 3 and 4 that nothing
\* was sent, and a moved base is merged onto only if the protection was relaxed.
THEOREM MergesAreAsAskedHolds == MergeSpec => []MergesAreAsAsked
BY MergeInvariance, PTL DEF MergeInv

\* A run that reads the pull request back open, from a read model that is up to
\* date, reports a rejection that has taken place (readBackAfterError).
THEOREM RejectionIsTrueHolds == MergeSpec => RejectionIsTrue
<1>1. MergeInv /\ [MergeNext]_mergeVars =>
        [\A r \in Runs : exit[r] # 6 /\ exit'[r] = 6 /\ shown = pull
                          => request[r] = "rejected"]_mergeVars
  <2> SUFFICES ASSUME MergeInv, MergeNext, NEW r \in Runs, exit[r] # 6, exit'[r] = 6, shown = pull
               PROVE  request[r] = "rejected"
    OBVIOUS
  <2>1. exit \in [Runs -> {0, 3, 4, 5, 6, NoExit}]
    BY DEF MergeInv, MergeTypeOK
  <2>2. CASE \E s \in Runs : Prepare(s)
    BY <2>1, <2>2
    DEF Prepare, Select, Refuse, ReadTarget, CheckBatch, ReadPolicy, CheckProtection,
        AssessReadiness, RereadTarget, EndWith
  <2>3. CASE \E s \in Runs : SendMerge(s) \/ RunDies(s)
    BY <2>3 DEF SendMerge, RunDies
  <2>4. ASSUME NEW s \in Runs, Conclude(s)
        PROVE  request[r] = "rejected"
    <3>1. s = r /\ ReadBackOpen(r)
      BY <2>1, <2>4
      DEF Conclude, NoAnswer, AnswerMerged, AnswerErrors, ReadBackOpen, ReadBackMerged,
          ReadBackUnclear, ProveMerged, Proven, Contradicted, ReadBackAgain, WindowOver, EndWith
    <3>2. request[r] \in {"merged", "rejected"} /\ pull.state = "OPEN"
      BY <3>1 DEF ReadBackOpen, MergeInv, StepFacts
    <3>3. QED BY <3>2 DEF MergeInv, RequestFacts
  <2>5. CASE Provider \/ Others
    BY <2>5
    DEF Provider, ApplyRequest, RejectRequest, CatchUp, Others, Push, BaseMoves, CloseOrReopen,
        MergedByOthers, RelaxProtection
  <2>6. QED BY <2>2, <2>3, <2>4, <2>5 DEF MergeNext
<1>2. QED BY <1>1, MergeInvariance, PTL DEF MergeSpec, RejectionIsTrue
=============================================================================
