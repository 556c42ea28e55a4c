-------------------- MODULE VerificationExecutionProofs --------------------
(***************************************************************************)
(* Proofs about VerificationExecution, for any plan, calls, repository     *)
(* snapshots, admissions and number of edits.                              *)
(*                                                                         *)
(* A pass rests on the ledger because every decision that counts for it    *)
(* does: what was reused was the newest of its key, and what was run was   *)
(* appended.  The ledger only grows, so both stay true.  What has passed   *)
(* is not run again because a call that runs has looked at the ledger      *)
(* while it held the lock of its key, and nobody else appends under it.    *)
(***************************************************************************)
EXTENDS VerificationExecution, WellFoundedInduction, SequenceTheorems, TLAPS

\* PassMeansProven, for one check.
Proven(c, k) ==
  \E i \in Matching(ledger, k, snapshot[c]) :
    /\ ledger[i].passed /\ ledger[i].admission = authority[c]
    /\ \A j \in Matching(ledger, k, snapshot[c]) : j > i /\ j <= began[c] => ledger[j].passed

\* What a call has decided, and what it has not.
Decisions(c) ==
  \A i \in DOMAIN Plan :
    IF i \in pending[c] THEN result[c][Plan[i]] = "missing"
      ELSE /\ result[c][Plan[i]] \in {"reused", "passed"} => Proven(c, Plan[i])
           /\ result[c][Plan[i]] = "missing" => PreflightFailed(c)

CallFacts(c) ==
  /\ began[c] \in 0..Len(ledger)
  /\ at[c] = "prepare" => report[c] = "none" /\ pending[c] = DOMAIN Plan
       /\ result[c] = [k \in Checks |-> "missing"]
  /\ at[c] \in Deciding \cup {"report"} => Decisions(c)
  /\ report[c] = "passed" => \A k \in Checks : Proven(c, k)

ProvenInv == VerificationTypeOK /\ \A c \in Calls : CallFacts(c)

\* Who has looked under the lock has it still, and what it saw is still so.
LockFacts(c) ==
  /\ at[c] \in {"lookAgain", "run", "append"} => holder[CacheKey(c)] = c
  /\ at[c] \in {"run", "append"} => forced[c] \/ ~Reusable(c)

OnceInv == VerificationTypeOK /\ RunsOnce(ledger) /\ \A c \in Calls : LockFacts(c)

-----------------------------------------------------------------------------
(* The order of the checks *)

LEMMA LeastOfSet ==
  ASSUME NEW T \in SUBSET Nat, T # {}
  PROVE  \E n \in T : \A m \in T : n <= m
<1> DEFINE less == {ss \in Nat \X Nat : ss[1] < ss[2]}
<1>1. IsWellFoundedOn(less, Nat)
  BY NatLessThanWellFounded, Zenon DEF OpToRel
<1>2. \A m, n \in Nat : m < n => <<m, n>> \in less
  OBVIOUS
<1> HIDE DEF less
<1>3. PICK n \in T : \A m \in T : ~ (<<m, n>> \in less)
  BY <1>1, WFMin, Zenon
<1>4. ASSUME NEW m \in T
      PROVE  n <= m
  <2>1. <<m, n>> \notin less
    BY <1>3
  <2>2. m \in Nat /\ n \in Nat /\ (m < n => <<m, n>> \in less)
    BY <1>2
  <2> QED
    BY <2>1, <2>2
<1> QED
  BY <1>4

\* A call that has checks left has a first of them.
LEMMA FirstIsOne ==
  ASSUME NEW places \in SUBSET (DOMAIN Plan), places # {}
  PROVE  FirstOf(places) \in places /\ Plan[FirstOf(places)] \in Checks
<1>1. Len(Plan) \in Nat /\ DOMAIN Plan = 1..Len(Plan)
  BY VerificationAssumption
<1> DEFINE ranks == {Rank(i) : i \in places}
<1>2. \A i \in places : Rank(i) \in Nat
  BY <1>1 DEF Rank
<1>3. \E n \in ranks : \A m \in ranks : n <= m
  <2>1. ranks \in SUBSET Nat /\ ranks # {}
    BY <1>2
  <2> HIDE DEF ranks
  <2> QED
    BY <2>1, LeastOfSet, Zenon
<1>4. \E i \in places : \A j \in places : Rank(i) <= Rank(j)
  BY <1>3
<1>5. FirstOf(places) \in places
  BY <1>4 DEF FirstOf
<1> QED
  BY <1>5 DEF Checks

-----------------------------------------------------------------------------
(* Types *)

Results == {"missing", "reused", "waiting", "drifted", "passed", "failed", "unstable"}

\* A call that is working on a check has that check.
LEMMA CurrentCheck ==
  ASSUME VerificationTypeOK, NEW c \in Calls, at[c] \in Deciding
  PROVE  /\ pending[c] \in SUBSET (DOMAIN Plan)
         /\ FirstOf(pending[c]) \in pending[c]
         /\ Check(c) \in Checks /\ CacheKey(c) \in Keys
<1>1. pending[c] \in SUBSET (DOMAIN Plan) /\ pending[c] # {} /\ snapshot[c] \in Trees
  BY DEF VerificationTypeOK
<1> QED
  BY <1>1, FirstIsOne DEF Check, CacheKey, Keys

\* What Decide does to the variables it changes.
LEMMA DecideStep ==
  ASSUME VerificationTypeOK, NEW c \in Calls, at[c] \in Deciding,
         NEW r \in Results, Decide(c, r)
  PROVE  /\ result' \in [Calls -> [Checks -> Results]]
         /\ \A k \in Checks : result'[c][k] = IF k = Check(c) THEN r ELSE result[c][k]
         /\ pending' \in [Calls -> SUBSET (DOMAIN Plan)]
         /\ pending'[c] = pending[c] \ {FirstOf(pending[c])}
         /\ at' = [at EXCEPT ![c] = IF pending'[c] = {} THEN "report" ELSE "lookUp"]
         /\ \A d \in Calls \ {c} : result'[d] = result[d] /\ pending'[d] = pending[d]
<1>1. /\ result \in [Calls -> [Checks -> Results]] /\ pending \in [Calls -> SUBSET (DOMAIN Plan)]
      /\ Check(c) \in Checks
  BY CurrentCheck DEF VerificationTypeOK, Results
<1>2. /\ result' = [result EXCEPT ![c][Check(c)] = r]
      /\ pending' = [pending EXCEPT ![c] = pending[c] \ {FirstOf(pending[c])}]
      /\ at' = [at EXCEPT ![c] = Onward(pending[c] \ {FirstOf(pending[c])})]
  BY DEF Decide, Continue
<1>3. pending'[c] = pending[c] \ {FirstOf(pending[c])}
  BY <1>1, <1>2
<1> QED
  BY <1>1, <1>2, <1>3 DEF Onward

LEMMA DecideTypes ==
  ASSUME VerificationTypeOK, NEW c \in Calls, at[c] \in Deciding,
         NEW r \in Results, Decide(c, r),
         UNCHANGED <<world, mine, report>>,
         holder' \in [Keys -> Calls \cup {NoCall}], ledger' \in Seq(ExecutionEvents),
         ran' \in [Calls -> {"notRun", "passed", "failed", "unstable"}],
         \A d \in Calls \ {c} : ran'[d] = ran[d]
  PROVE  VerificationTypeOK'
<1>1. /\ UNCHANGED <<tree, admission, changes, forced, snapshot, authority, began, report>>
  BY DEF world, mine
<1>2. \A d \in Calls : /\ at'[d] \in Deciding => pending'[d] # {}
                       /\ at'[d] = "report" => pending'[d] = {}
                       /\ at'[d] = "append" => ran'[d] # "notRun"
  <2>1. \A d \in Calls \ {c} : at'[d] = at[d] /\ pending'[d] = pending[d]
    BY DecideStep DEF VerificationTypeOK
  <2>2. at'[c] = IF pending'[c] = {} THEN "report" ELSE "lookUp"
    BY DecideStep DEF VerificationTypeOK
  <2> QED
    BY <2>1, <2>2 DEF VerificationTypeOK, Deciding
<1>3. /\ result' \in [Calls -> [Checks -> Results]] /\ pending' \in [Calls -> SUBSET (DOMAIN Plan)]
      /\ at' = [at EXCEPT ![c] = IF pending'[c] = {} THEN "report" ELSE "lookUp"]
  BY DecideStep
<1>4. at' \in [Calls -> {"prepare", "lookUp", "lock", "lookAgain", "run", "append",
                       "report", "ended", "threw", "dead"}]
  BY <1>3 DEF VerificationTypeOK
<1> QED
  BY <1>1, <1>2, <1>3, <1>4 DEF VerificationTypeOK, Results

LEMMA UnlockedTypes ==
  ASSUME VerificationTypeOK, NEW c \in Calls
  PROVE  Unlocked(c) \in [Keys -> Calls \cup {NoCall}]
BY DEF Unlocked, VerificationTypeOK

LEMMA AppendedTypes ==
  ASSUME VerificationTypeOK, NEW c \in Calls, at[c] = "append"
  PROVE  /\ Execution(c) \in ExecutionEvents
         /\ Append(ledger, Execution(c)) \in Seq(ExecutionEvents)
<1>1. Check(c) \in Checks
  BY CurrentCheck DEF Deciding
<1>2. Execution(c) \in ExecutionEvents
  BY <1>1 DEF Execution, ExecutionEvents, VerificationTypeOK
<1> QED
  BY <1>2 DEF VerificationTypeOK

LEMMA VerificationInitTypes == VerificationInit => VerificationTypeOK
  BY VerificationAssumption DEF VerificationInit, VerificationTypeOK, Deciding

LEMMA VerificationNextTypes ==
  VerificationTypeOK /\ [VerificationNext]_verificationVars => VerificationTypeOK'
<1> SUFFICES ASSUME VerificationTypeOK, [VerificationNext]_verificationVars
             PROVE  VerificationTypeOK'
  OBVIOUS
<1> USE DEF world, mine, Deciding
<1>1. CASE UNCHANGED verificationVars
  BY <1>1 DEF VerificationTypeOK, verificationVars
<1>2. CASE Edit
  BY <1>2, VerificationAssumption DEF VerificationTypeOK, Edit
<1>3. CASE Readmit
  BY <1>3, VerificationAssumption DEF VerificationTypeOK, Readmit
<1>4. ASSUME NEW c \in Calls, CallDies(c)
      PROVE  VerificationTypeOK'
  BY <1>4 DEF VerificationTypeOK, CallDies, End, Continue
<1>5. ASSUME NEW c \in Calls, Prepare(c)
      PROVE  VerificationTypeOK'
  BY <1>5 DEF VerificationTypeOK, Prepare, Continue, Onward
<1>6. ASSUME NEW c \in Calls, NotRun(c) \/ Reuse(c) \/ NeedsPlan(c)
      PROVE  VerificationTypeOK'
  <2>1. PICK r \in Results : Decide(c, r) /\ at[c] = "lookUp"
    BY <1>6 DEF NotRun, Reuse, NeedsPlan, Results
  <2>2. UNCHANGED <<world, mine, report, holder, ledger, ran>>
    BY <1>6 DEF NotRun, Reuse, NeedsPlan
  <2> QED
    BY <2>1, <2>2, DecideTypes DEF VerificationTypeOK
<1>7. ASSUME NEW c \in Calls, MustExecute(c) \/ StartCommand(c)
      PROVE  VerificationTypeOK'
  BY <1>7 DEF VerificationTypeOK, MustExecute, StartCommand, Continue
<1>8. ASSUME NEW c \in Calls, LockRequest(c)
      PROVE  VerificationTypeOK'
  BY <1>8 DEF VerificationTypeOK, LockRequest, Continue
<1>9. ASSUME NEW c \in Calls, RequestBusy(c)
      PROVE  VerificationTypeOK'
  BY <1>9, DecideTypes DEF VerificationTypeOK, RequestBusy, Results
<1>10. ASSUME NEW c \in Calls, ReuseUnderLock(c)
       PROVE  VerificationTypeOK'
  BY <1>10, DecideTypes, UnlockedTypes DEF VerificationTypeOK, ReuseUnderLock, Results
<1>11. ASSUME NEW c \in Calls, CommandEnds(c)
       PROVE  VerificationTypeOK'
  BY <1>11 DEF VerificationTypeOK, CommandEnds, Continue
<1>12. ASSUME NEW c \in Calls, AppendExecution(c)
       PROVE  VerificationTypeOK'
  <2>1. /\ at[c] = "append" /\ Decide(c, ran[c]) /\ UNCHANGED <<world, mine, report>>
        /\ holder' = Unlocked(c) /\ ledger' = Append(ledger, Execution(c))
        /\ ran' = [ran EXCEPT ![c] = "notRun"]
    BY <1>12 DEF AppendExecution
  <2>2. ran[c] \in {"passed", "failed", "unstable"}
    BY <2>1 DEF VerificationTypeOK
  <2>3. /\ holder' \in [Keys -> Calls \cup {NoCall}] /\ ledger' \in Seq(ExecutionEvents)
        /\ ran' \in [Calls -> {"notRun", "passed", "failed", "unstable"}]
        /\ \A d \in Calls \ {c} : ran'[d] = ran[d]
    BY <2>1, UnlockedTypes, AppendedTypes DEF VerificationTypeOK
  <2>4. at[c] \in Deciding /\ ran[c] \in Results /\ Decide(c, ran[c])
    BY <2>1, <2>2 DEF Results
  <2> QED
    BY <2>1, <2>3, <2>4, DecideTypes
<1>13. ASSUME NEW c \in Calls, AppendThrows(c)
       PROVE  VerificationTypeOK'
  <2>1. /\ at[c] = "append" /\ End(c, "threw") /\ UNCHANGED <<world, mine, report>>
        /\ holder' = Unlocked(c) /\ ledger' = Append(ledger, Execution(c))
    BY <1>13 DEF AppendThrows
  <2> QED
    BY <2>1, UnlockedTypes, AppendedTypes DEF VerificationTypeOK, End, Continue
<1>14. ASSUME NEW c \in Calls, Throws(c)
       PROVE  VerificationTypeOK'
  BY <1>14, UnlockedTypes DEF VerificationTypeOK, Throws, End, Continue
<1>15. ASSUME NEW c \in Calls, Report(c)
       PROVE  VerificationTypeOK'
  BY <1>15 DEF VerificationTypeOK, Report, Status, End, Continue
<1> QED
  BY <1>1, <1>2, <1>3, <1>4, <1>5, <1>6, <1>7, <1>8, <1>9, <1>10, <1>11, <1>12, <1>13, <1>14, <1>15
  DEF VerificationNext, ExecutePrepared, ExecuteCheck

\* The calls, the locks and the ledger stay well typed: a call that is at work on
\* a check has one left, and one that reports has none (executePrepared).
THEOREM VerificationTypeCorrect == VerificationSpec => []VerificationTypeOK
<1>1. VerificationInit => VerificationTypeOK
  BY VerificationInitTypes
<1> QED
  BY <1>1, VerificationNextTypes, PTL DEF VerificationSpec

-----------------------------------------------------------------------------
(* A pass rests on the ledger *)

LedgerGrows == ledger' = ledger \/ \E e \in ExecutionEvents : ledger' = Append(ledger, e)

LEMMA Growing ==
  ASSUME VerificationTypeOK, LedgerGrows
  PROVE  /\ Len(ledger) \in Nat /\ Len(ledger') \in Nat /\ Len(ledger) <= Len(ledger')
         /\ DOMAIN ledger = 1..Len(ledger) /\ DOMAIN ledger' = 1..Len(ledger')
         /\ \A i \in DOMAIN ledger : ledger'[i] = ledger[i]
<1>1. ledger \in Seq(ExecutionEvents)
  BY DEF VerificationTypeOK
<1>2. CASE ledger' = ledger
  BY <1>1, <1>2
<1>3. ASSUME NEW e \in ExecutionEvents, ledger' = Append(ledger, e)
      PROVE  /\ Len(ledger) \in Nat /\ Len(ledger') \in Nat /\ Len(ledger) <= Len(ledger')
             /\ DOMAIN ledger = 1..Len(ledger) /\ DOMAIN ledger' = 1..Len(ledger')
             /\ \A i \in DOMAIN ledger : ledger'[i] = ledger[i]
  BY <1>1, <1>3
<1> QED
  BY <1>2, <1>3 DEF LedgerGrows

\* What a call has seen proven stays proven: failures recorded later came after
\* the call began.
LEMMA ProvenStays ==
  ASSUME VerificationTypeOK, LedgerGrows, NEW c \in Calls, NEW k,
         began[c] \in 0..Len(ledger), Proven(c, k),
         snapshot'[c] = snapshot[c], authority'[c] = authority[c], began'[c] = began[c]
  PROVE  Proven(c, k)'
<1>1. PICK i \in Matching(ledger, k, snapshot[c]) :
        /\ ledger[i].passed /\ ledger[i].admission = authority[c]
        /\ \A j \in Matching(ledger, k, snapshot[c]) : j > i /\ j <= began[c] => ledger[j].passed
  BY DEF Proven
<1>2. i \in Matching(ledger', k, snapshot[c]) /\ ledger'[i] = ledger[i]
  BY Growing DEF Matching
<1>3. ASSUME NEW j \in Matching(ledger', k, snapshot[c]), j > i, j <= began[c]
      PROVE  ledger'[j].passed
  <2>1. j \in DOMAIN ledger /\ ledger'[j] = ledger[j]
    BY <1>3, Growing DEF Matching
  <2>2. j \in Matching(ledger, k, snapshot[c])
    BY <1>3, <2>1 DEF Matching
  <2> QED
    BY <1>1, <1>3, <2>1, <2>2
<1> QED
  BY <1>1, <1>2, <1>3 DEF Proven

\* What may be reused is proven.
LEMMA ReusableIsProven ==
  ASSUME VerificationTypeOK, NEW c \in Calls, Reusable(c)
  PROVE  Proven(c, Check(c))
<1>1. DOMAIN ledger = 1..Len(ledger) /\ Len(ledger) \in Nat
  BY DEF VerificationTypeOK
<1>2. PICK i \in Matching(ledger, Check(c), snapshot[c]) :
        /\ \A j \in Matching(ledger, Check(c), snapshot[c]) : j <= i
        /\ ledger[i].passed /\ ledger[i].admission = authority[c]
  BY DEF Reusable
<1>3. \A j \in Matching(ledger, Check(c), snapshot[c]) : ~ (j > i)
  BY <1>1, <1>2 DEF Matching
<1> QED
  BY <1>2, <1>3 DEF Proven

\* So is what has just been recorded as passed.
LEMMA RecordedIsProven ==
  ASSUME VerificationTypeOK, NEW c \in Calls, at[c] = "append", ran[c] = "passed",
         ledger' = Append(ledger, Execution(c)), UNCHANGED mine
  PROVE  (\E i \in Matching(ledger', Check(c), snapshot[c]) :
           /\ ledger'[i].passed /\ ledger'[i].admission = authority[c]
           /\ \A j \in Matching(ledger', Check(c), snapshot[c]) : ~ (j > i))
<1> DEFINE last == Len(ledger) + 1
<1>1. /\ Len(ledger) \in Nat /\ DOMAIN ledger' = 1..last /\ ledger'[last] = Execution(c)
  BY AppendedTypes DEF VerificationTypeOK
<1>2. last \in Matching(ledger', Check(c), snapshot[c])
  BY <1>1 DEF Matching, Execution
<1>3. ledger'[last].passed /\ ledger'[last].admission = authority[c]
  <2>1. Execution(c).passed <=> ran[c] = "passed"
    BY Zenon DEF Execution
  <2>2. Execution(c).admission = authority[c]
    BY DEF Execution
  <2> QED
    BY <1>1, <2>1, <2>2
<1>4. \A j \in Matching(ledger', Check(c), snapshot[c]) : ~ (j > last)
  BY <1>1 DEF Matching
<1> QED
  BY <1>2, <1>3, <1>4

LEMMA ReusedStays ==
  ASSUME VerificationTypeOK, NEW c \in Calls, Reusable(c), UNCHANGED <<ledger, mine>>
  PROVE  \A k : k = Check(c) => Proven(c, k)'
BY ReusableIsProven DEF Proven, mine

LEMMA CallStays ==
  ASSUME VerificationTypeOK, LedgerGrows, NEW c \in Calls, CallFacts(c),
         at'[c] = at[c], pending'[c] = pending[c], result'[c] = result[c], report'[c] = report[c],
         snapshot'[c] = snapshot[c], authority'[c] = authority[c], began'[c] = began[c]
  PROVE  CallFacts(c)'
<1>1. began'[c] \in 0..Len(ledger')
  BY Growing DEF CallFacts
<1>2. \A k : Proven(c, k) => Proven(c, k)'
  BY ProvenStays DEF CallFacts
<1>3. Decisions(c) => Decisions(c)'
  BY <1>2 DEF Decisions, PreflightFailed
<1> QED
  BY <1>1, <1>2, <1>3 DEF CallFacts

\* A decision keeps the facts about the decided checks and adds its own.
LEMMA DecideKeepsFacts ==
  ASSUME VerificationTypeOK, LedgerGrows, NEW c \in Calls, CallFacts(c), at[c] \in Deciding,
         NEW r \in Results, Decide(c, r), UNCHANGED <<mine, report>>,
         \A k : r \in {"reused", "passed"} /\ k = Check(c) => Proven(c, k)',
         r = "missing" => PreflightFailed(c)
  PROVE  CallFacts(c)'
<1>0. UNCHANGED <<snapshot, authority, began, report>>
  BY DEF mine
<1>1. \A k : Proven(c, k) => Proven(c, k)'
  BY <1>0, ProvenStays DEF CallFacts
<1>2. /\ \A k \in Checks : result'[c][k] = IF k = Check(c) THEN r ELSE result[c][k]
      /\ pending'[c] = pending[c] \ {FirstOf(pending[c])}
      /\ FirstOf(pending[c]) \in DOMAIN Plan /\ FirstOf(pending[c]) \in pending[c]
      /\ Decisions(c) /\ at'[c] \in {"lookUp", "report"}
  BY DecideStep, CurrentCheck DEF CallFacts, VerificationTypeOK
<1>3. result[c][Check(c)] = "missing"
  BY <1>2 DEF Decisions, Check
<1>4. PreflightFailed(c) => PreflightFailed(c)'
  BY <1>2, <1>3, VerificationAssumption DEF PreflightFailed
<1>5. ASSUME NEW i \in DOMAIN Plan
      PROVE  IF i \in pending'[c] THEN result'[c][Plan[i]] = "missing"
               ELSE /\ result'[c][Plan[i]] \in {"reused", "passed"} => Proven(c, Plan[i])'
                    /\ result'[c][Plan[i]] = "missing" => PreflightFailed(c)'
  <2>1. CASE i = FirstOf(pending[c])
    <3>1. result'[c][Plan[i]] = r /\ i \notin pending'[c]
      BY <1>2, <2>1 DEF Check, Checks
    <3> QED
      BY <1>4, <2>1, <3>1 DEF Check
  <2>2. CASE i # FirstOf(pending[c])
    <3>1. Plan[i] # Check(c) /\ Plan[i] \in Checks
      BY <1>2, <2>2, VerificationAssumption DEF Check, Checks
    <3>2. result'[c][Plan[i]] = result[c][Plan[i]] /\ (i \in pending'[c] <=> i \in pending[c])
      BY <1>2, <2>2, <3>1
    <3> QED
      BY <1>1, <1>2, <1>4, <3>2 DEF Decisions
  <2> QED
    BY <2>1, <2>2
<1>6. Decisions(c)'
  BY <1>5 DEF Decisions
<1>7. began'[c] \in 0..Len(ledger')
  BY <1>0, Growing DEF CallFacts
<1>8. report'[c] = "passed" => \A k \in Checks : Proven(c, k)'
  BY <1>0, <1>1 DEF CallFacts
<1> QED
  BY <1>2, <1>6, <1>7, <1>8 DEF CallFacts

\* A call that is over keeps what it has reported.
LEMMA EndKeepsFacts ==
  ASSUME VerificationTypeOK, LedgerGrows, NEW c \in Calls, CallFacts(c),
         at'[c] \in {"ended", "threw", "dead"}, UNCHANGED mine,
         report'[c] = "passed" => \A k \in Checks : Proven(c, k)
  PROVE  CallFacts(c)'
<1>0. UNCHANGED <<snapshot, authority, began>>
  BY DEF mine
<1>1. \A k : Proven(c, k) => Proven(c, k)'
  BY <1>0, ProvenStays DEF CallFacts
<1>2. began'[c] \in 0..Len(ledger')
  BY <1>0, Growing DEF CallFacts
<1> QED
  BY <1>1, <1>2 DEF CallFacts, Deciding

LEMMA InitProven == VerificationInit => ProvenInv
<1> SUFFICES ASSUME VerificationInit
             PROVE  ProvenInv
  OBVIOUS
<1>1. VerificationTypeOK
  BY VerificationInitTypes
<1>2. ASSUME NEW c \in Calls
      PROVE  CallFacts(c)
  <2>1. Len(ledger) \in Nat
    BY <1>1 DEF VerificationTypeOK
  <2> QED
    BY <1>2, <2>1 DEF VerificationInit, CallFacts, Deciding
<1> QED
  BY <1>1, <1>2 DEF ProvenInv

\* The calls that are not taking the step.
LEMMA OthersStay ==
  ASSUME ProvenInv, LedgerGrows, NEW c \in Calls, CallFacts(c)',
         \A d \in Calls \ {c} :
           /\ at'[d] = at[d] /\ pending'[d] = pending[d] /\ result'[d] = result[d]
           /\ report'[d] = report[d] /\ snapshot'[d] = snapshot[d]
           /\ authority'[d] = authority[d] /\ began'[d] = began[d]
  PROVE  \A d \in Calls : CallFacts(d)'
BY CallStays DEF ProvenInv

LEMMA NextProven == ProvenInv /\ [VerificationNext]_verificationVars => ProvenInv'
<1> SUFFICES ASSUME ProvenInv, [VerificationNext]_verificationVars
             PROVE  \A d \in Calls : CallFacts(d)'
  BY VerificationNextTypes DEF ProvenInv
<1>0. VerificationTypeOK /\ \A c \in Calls : CallFacts(c)
  BY DEF ProvenInv
<1> DEFINE OthersKeep(c) == \A d \in Calls \ {c} :
             /\ at'[d] = at[d] /\ pending'[d] = pending[d] /\ result'[d] = result[d]
             /\ report'[d] = report[d] /\ snapshot'[d] = snapshot[d]
             /\ authority'[d] = authority[d] /\ began'[d] = began[d]
<1>1. CASE UNCHANGED verificationVars \/ Edit \/ Readmit
  <2>1. UNCHANGED <<ledger, at, mine, pending, result, report>>
    BY <1>1 DEF verificationVars, Edit, Readmit
  <2>2. UNCHANGED <<ledger, at, pending, result, report, snapshot, authority, began>>
    BY <2>1 DEF mine
  <2> QED
    BY <1>0, <2>2, CallStays DEF LedgerGrows
<1>2. ASSUME NEW c \in Calls, NEW r \in Results, Decide(c, r), at[c] \in Deciding,
             UNCHANGED <<mine, report>>, LedgerGrows,
             \A k : r \in {"reused", "passed"} /\ k = Check(c) => Proven(c, k)',
             r = "missing" => PreflightFailed(c)
      PROVE  \A d \in Calls : CallFacts(d)'
  <2>1. OthersKeep(c)
    BY <1>0, <1>2, DecideStep DEF mine, VerificationTypeOK
  <2>2. CallFacts(c)'
    BY <1>0, <1>2, DecideKeepsFacts
  <2> QED
    BY <1>2, <2>1, <2>2, OthersStay
<1>3. ASSUME NEW c \in Calls, NEW label \in {"threw", "ended", "dead"}, End(c, label),
             UNCHANGED mine, LedgerGrows,
             \A d \in Calls \ {c} : report'[d] = report[d],
             report'[c] = "passed" => \A k \in Checks : Proven(c, k)
      PROVE  \A d \in Calls : CallFacts(d)'
  <2>1. OthersKeep(c) /\ at'[c] = label
    BY <1>0, <1>3 DEF End, Continue, mine, VerificationTypeOK
  <2>2. CallFacts(c)'
    BY <1>0, <1>3, <2>1, EndKeepsFacts
  <2> QED
    BY <1>3, <2>1, <2>2, OthersStay
<1>4. ASSUME NEW c \in Calls, Prepare(c)
      PROVE  \A d \in Calls : CallFacts(d)'
  <2>1. /\ at[c] = "prepare" /\ at' = [at EXCEPT ![c] = Onward(pending[c])]
        /\ snapshot' = [snapshot EXCEPT ![c] = tree]
        /\ authority' = [authority EXCEPT ![c] = admission]
        /\ began' = [began EXCEPT ![c] = Len(ledger)]
        /\ UNCHANGED <<ledger, pending, result, report>>
    BY <1>4 DEF Prepare, Continue
  <2>2. /\ report[c] = "none" /\ pending[c] = DOMAIN Plan
        /\ result[c] = [k \in Checks |-> "missing"] /\ Len(ledger) \in Nat
    BY <1>0, <2>1 DEF CallFacts, VerificationTypeOK
  <2>3. /\ began'[c] = Len(ledger) /\ at'[c] \in {"lookUp", "report"}
        /\ \A k : ~ (k \in DOMAIN Plan /\ k \notin pending'[c])
    <3>1. c \in DOMAIN began /\ c \in DOMAIN at
      BY <1>0 DEF VerificationTypeOK
    <3> QED
      BY <2>1, <2>2, <3>1 DEF Onward
  <2>4. \A i \in DOMAIN Plan : result'[c][Plan[i]] = "missing"
    BY <2>1, <2>2 DEF Checks
  <2>5. Decisions(c)'
    BY <2>3, <2>4 DEF Decisions
  <2>6. CallFacts(c)'
    BY <2>1, <2>2, <2>3, <2>5 DEF CallFacts
  <2>7. OthersKeep(c)
    BY <1>0, <2>1 DEF VerificationTypeOK
  <2> QED
    BY <2>1, <2>6, <2>7, OthersStay DEF LedgerGrows
<1>5. ASSUME NEW c \in Calls, NotRun(c) \/ Reuse(c) \/ NeedsPlan(c) \/ RequestBusy(c)
      PROVE  \A d \in Calls : CallFacts(d)'
  <2>1. /\ UNCHANGED <<ledger, mine, report>> /\ at[c] \in Deciding /\ LedgerGrows
    BY <1>5 DEF NotRun, Reuse, NeedsPlan, RequestBusy, Deciding, LedgerGrows
  <2>2. CASE NotRun(c)
    BY <1>2, <2>1, <2>2 DEF NotRun, Results
  <2>3. CASE Reuse(c)
    BY <1>0, <1>2, <2>1, <2>3, ReusedStays DEF Reuse, Results
  <2>4. CASE NeedsPlan(c)
    BY <1>2, <2>1, <2>4 DEF NeedsPlan, Results
  <2>5. CASE RequestBusy(c)
    BY <1>2, <2>1, <2>5 DEF RequestBusy, Results
  <2> QED
    BY <1>5, <2>2, <2>3, <2>4, <2>5
<1>6. ASSUME NEW c \in Calls, ReuseUnderLock(c)
      PROVE  \A d \in Calls : CallFacts(d)'
  <2>1. /\ UNCHANGED <<ledger, mine, report>> /\ at[c] \in Deciding /\ LedgerGrows
        /\ Reusable(c) /\ Decide(c, "reused")
    BY <1>6 DEF ReuseUnderLock, ReusableUnderLock, Deciding, LedgerGrows
  <2> QED
    BY <1>0, <1>2, <2>1, ReusedStays DEF Results
<1>7. ASSUME NEW c \in Calls,
             MustExecute(c) \/ LockRequest(c) \/ StartCommand(c) \/ CommandEnds(c)
      PROVE  \A d \in Calls : CallFacts(d)'
  <2>1. /\ UNCHANGED <<ledger, mine, pending, result, report>>
        /\ at[c] \in Deciding
        /\ \E label \in Deciding : at' = [at EXCEPT ![c] = label]
    BY <1>7 DEF MustExecute, LockRequest, StartCommand, CommandEnds, Continue, Deciding
  <2>2. OthersKeep(c)
    BY <1>0, <2>1 DEF mine, VerificationTypeOK
  <2>3. at'[c] \in Deciding /\ UNCHANGED <<ledger, began, snapshot, authority, pending, result, report>>
    BY <1>0, <2>1 DEF mine, VerificationTypeOK
  <2>4. Decisions(c) => Decisions(c)'
    BY <2>3 DEF Decisions, Proven, PreflightFailed
  <2>5. CallFacts(c)'
    BY <1>0, <2>1, <2>3, <2>4 DEF CallFacts, Proven, Deciding
  <2> QED
    BY <2>2, <2>3, <2>5, OthersStay DEF LedgerGrows
<1>8. ASSUME NEW c \in Calls, AppendExecution(c)
      PROVE  \A d \in Calls : CallFacts(d)'
  <2>1. /\ at[c] = "append" /\ ledger' = Append(ledger, Execution(c)) /\ Decide(c, ran[c])
        /\ UNCHANGED <<mine, report>> /\ ran[c] \in {"passed", "failed", "unstable"}
    BY <1>0, <1>8 DEF AppendExecution, VerificationTypeOK
  <2>2. LedgerGrows
    BY <1>0, <2>1, AppendedTypes DEF LedgerGrows
  <2>3. \A k : ran[c] = "passed" /\ k = Check(c) => Proven(c, k)'
    BY <1>0, <2>1, RecordedIsProven DEF Proven, mine
  <2> QED
    BY <1>2, <2>1, <2>2, <2>3 DEF Results, Deciding
<1>9. ASSUME NEW c \in Calls, AppendThrows(c) \/ Throws(c) \/ CallDies(c)
      PROVE  \A d \in Calls : CallFacts(d)'
  <2>1. /\ \E label \in {"threw", "ended", "dead"} : End(c, label)
        /\ UNCHANGED <<mine, report>>
        /\ ledger' = ledger \/ (at[c] = "append" /\ ledger' = Append(ledger, Execution(c)))
    BY <1>9 DEF AppendThrows, Throws, CallDies
  <2>2. LedgerGrows
    BY <1>0, <2>1, AppendedTypes DEF LedgerGrows
  <2> QED
    BY <1>0, <1>3, <2>1, <2>2 DEF CallFacts
<1>10. ASSUME NEW c \in Calls, Report(c)
       PROVE  \A d \in Calls : CallFacts(d)'
  <2>1. PICK seenUnchanged \in BOOLEAN :
          /\ report' = [report EXCEPT ![c] = Status(c, seenUnchanged)]
          /\ at[c] = "report" /\ End(c, "ended") /\ UNCHANGED <<ledger, mine>>
    BY <1>10 DEF Report
  <2>2. ASSUME Status(c, seenUnchanged) = "passed", NEW k \in Checks
        PROVE  Proven(c, k)
    <3>1. PICK i \in DOMAIN Plan : k = Plan[i]
      BY DEF Checks
    <3>2. \A l \in Checks : result[c][l] \notin {"waiting", "failed", "drifted", "unstable"}
      BY <2>2 DEF Status
    <3>3. ~ PreflightFailed(c)
      BY <3>2, VerificationAssumption DEF PreflightFailed
    <3>4. Decisions(c) /\ pending[c] = {} /\ result[c][k] \in Results
      BY <1>0, <2>1 DEF CallFacts, VerificationTypeOK, Results
    <3> QED
      BY <3>1, <3>2, <3>3, <3>4 DEF Decisions, Results
  <2>3. /\ \A d \in Calls \ {c} : report'[d] = report[d]
        /\ report'[c] = "passed" => \A k \in Checks : Proven(c, k)
    BY <1>0, <2>1, <2>2 DEF VerificationTypeOK
  <2> QED
    BY <1>3, <2>1, <2>3 DEF LedgerGrows
<1> QED
  BY <1>1, <1>4, <1>5, <1>6, <1>7, <1>8, <1>9, <1>10
  DEF VerificationNext, ExecutePrepared, ExecuteCheck

\* A report that says passed rests on the ledger, for any plan and any number of
\* calls that run, die, edit and replace admissions meanwhile.
THEOREM PassMeansProvenHolds == VerificationSpec => []PassMeansProven
<1>1. ProvenInv => PassMeansProven
  BY DEF ProvenInv, CallFacts, PassMeansProven, Proven
<1> QED
  BY <1>1, InitProven, NextProven, PTL DEF VerificationSpec

-----------------------------------------------------------------------------
(* What has passed is not run again *)

\* What the calls may find recorded is as such calls leave it: nothing yet, or the
\* executions of earlier ones (OneRunPerRequestHolds).
FoundLedgersRunOnce == \A log \in FoundLedgers : RunsOnce(log)

\* An execution of a call that cannot reuse the newest of its key may follow.
LEMMA RunsOnceAppend ==
  ASSUME VerificationTypeOK, NEW c \in Calls, at[c] = "append", RunsOnce(ledger),
         forced[c] \/ ~Reusable(c)
  PROVE  RunsOnce(Append(ledger, Execution(c)))
<1> DEFINE log  == Append(ledger, Execution(c))
           last == Len(ledger) + 1
<1>1. /\ Len(ledger) \in Nat /\ DOMAIN ledger = 1..Len(ledger) /\ DOMAIN log = 1..last
      /\ log[last] = Execution(c) /\ \A n \in DOMAIN ledger : log[n] = ledger[n]
  BY AppendedTypes DEF VerificationTypeOK
<1>2. /\ Execution(c).check = Check(c) /\ Execution(c).tree = snapshot[c]
      /\ Execution(c).admission = authority[c] /\ Execution(c).forced = forced[c]
  BY DEF Execution
<1> HIDE DEF log
<1>3. ASSUME NEW i \in DOMAIN log, NEW j \in DOMAIN log,
             i < j, log[i].check = log[j].check, log[i].tree = log[j].tree,
             \A n \in (i + 1)..(j - 1) : log[n].check # log[i].check \/ log[n].tree # log[i].tree
      PROVE  log[j].forced \/ ~log[i].passed \/ log[i].admission # log[j].admission
  <2>1. i \in DOMAIN ledger /\ log[i] = ledger[i]
    BY <1>1, <1>3
  <2>2. CASE j \in DOMAIN ledger
    <3>1. log[j] = ledger[j] /\ \A n \in (i + 1)..(j - 1) : log[n] = ledger[n]
      BY <1>1, <2>1, <2>2
    <3> QED
      BY <1>3, <2>1, <2>2, <3>1 DEF RunsOnce
  <2>3. CASE j = last
    <3>1. i \in Matching(ledger, Check(c), snapshot[c])
      BY <1>1, <1>2, <1>3, <2>1, <2>3 DEF Matching
    <3>2. ASSUME NEW n \in Matching(ledger, Check(c), snapshot[c]), ~ (n <= i)
          PROVE  FALSE
      <4>1. n \in (i + 1)..(j - 1) /\ log[n] = ledger[n]
        BY <1>1, <2>1, <2>3, <3>2 DEF Matching
      <4>2. log[n].check = log[i].check /\ log[n].tree = log[i].tree
        BY <1>1, <1>2, <1>3, <2>3, <3>2, <4>1 DEF Matching
      <4> QED
        BY <1>3, <4>1, <4>2
    <3>3. forced[c] \/ ~ledger[i].passed \/ ledger[i].admission # authority[c]
      BY <3>1, <3>2 DEF Reusable
    <3> QED
      BY <1>1, <1>2, <2>1, <2>3, <3>3
  <2> QED
    BY <1>1, <1>3, <2>2, <2>3
<1>4. RunsOnce(log)
  BY <1>3 DEF RunsOnce
<1> QED
  BY <1>4 DEF log

\* An execution under another key makes nothing reusable.
LEMMA OtherKeysStay ==
  ASSUME VerificationTypeOK, NEW c \in Calls, NEW d \in Calls, at[c] = "append",
         ledger' = Append(ledger, Execution(c)), CacheKey(c) # CacheKey(d),
         pending'[d] = pending[d], snapshot'[d] = snapshot[d], authority'[d] = authority[d],
         Reusable(d)'
  PROVE  Reusable(d)
<1> DEFINE last == Len(ledger) + 1
<1>1. /\ Len(ledger) \in Nat /\ DOMAIN ledger = 1..Len(ledger) /\ DOMAIN ledger' = 1..last
      /\ ledger'[last] = Execution(c) /\ \A n \in DOMAIN ledger : ledger'[n] = ledger[n]
  BY AppendedTypes DEF VerificationTypeOK
<1>2. PICK i \in Matching(ledger', Check(d), snapshot[d]) :
        /\ \A j \in Matching(ledger', Check(d), snapshot[d]) : j <= i
        /\ ledger'[i].passed /\ ledger'[i].admission = authority[d]
  BY DEF Reusable, Check
<1>3. i # last
  BY <1>1, <1>2 DEF Matching, Execution, CacheKey
<1>4. /\ i \in Matching(ledger, Check(d), snapshot[d]) /\ ledger'[i] = ledger[i]
      /\ Matching(ledger, Check(d), snapshot[d]) \subseteq Matching(ledger', Check(d), snapshot[d])
  BY <1>1, <1>2, <1>3 DEF Matching
<1> QED
  BY <1>2, <1>4 DEF Reusable

\* A call that takes no step keeps the lock it holds and the ledger it saw.
LEMMA LockStays ==
  ASSUME VerificationTypeOK, NEW d \in Calls, LockFacts(d),
         at'[d] = at[d], pending'[d] = pending[d], forced'[d] = forced[d],
         snapshot'[d] = snapshot[d], authority'[d] = authority[d],
         holder[CacheKey(d)] = d /\ at[d] \in {"lookAgain", "run", "append"}
           => holder'[CacheKey(d)] = d,
         \/ ledger' = ledger
         \/ \E c \in Calls : /\ at[c] = "append" /\ holder[CacheKey(c)] = c /\ c # d
                             /\ ledger' = Append(ledger, Execution(c))
  PROVE  LockFacts(d)'
<1>1. CacheKey(d)' = CacheKey(d)
  BY DEF CacheKey, Check
<1>2. at[d] \in {"lookAgain", "run", "append"} => holder'[CacheKey(d)] = d
  BY DEF LockFacts
<1>3. ASSUME at[d] \in {"run", "append"}, ~ forced[d]
      PROVE  ~ Reusable(d)'
  <2>1. ~ Reusable(d) /\ holder[CacheKey(d)] = d
    BY <1>3 DEF LockFacts
  <2>2. CASE ledger' = ledger
    BY <2>1, <2>2 DEF Reusable, Check
  <2>3. ASSUME NEW c \in Calls, at[c] = "append", holder[CacheKey(c)] = c, c # d,
               ledger' = Append(ledger, Execution(c))
        PROVE  ~ Reusable(d)'
    BY <2>1, <2>3, OtherKeysStay
  <2> QED
    BY <2>2, <2>3
<1>4. at'[d] \in {"lookAgain", "run", "append"} => (holder[CacheKey(d)] = d)'
  <2> DEFINE key == CacheKey(d)
  <2>1. key' = key
    BY <1>1
  <2>2. at[d] \in {"lookAgain", "run", "append"} => holder'[key] = d
    BY <1>2
  <2>3. at[d] \in {"lookAgain", "run", "append"} => (holder[key] = d)'
    <3> HIDE DEF key
    <3> QED BY <2>1, <2>2
  <2> QED
    BY <2>3
<1> QED
  BY <1>3, <1>4 DEF LockFacts

LEMMA InitOnce ==
  ASSUME FoundLedgersRunOnce, VerificationInit
  PROVE  OnceInv
BY VerificationInitTypes DEF VerificationInit, OnceInv, FoundLedgersRunOnce, LockFacts

LEMMA NextOnce == OnceInv /\ [VerificationNext]_verificationVars => OnceInv'
<1> SUFFICES ASSUME OnceInv, [VerificationNext]_verificationVars
             PROVE  RunsOnce(ledger)' /\ \A d \in Calls : LockFacts(d)'
  BY VerificationNextTypes DEF OnceInv
<1>0. VerificationTypeOK /\ RunsOnce(ledger) /\ \A c \in Calls : LockFacts(c)
  BY DEF OnceInv
<1> DEFINE OthersKeep(c) == \A d \in Calls \ {c} :
             /\ at'[d] = at[d] /\ pending'[d] = pending[d] /\ forced'[d] = forced[d]
             /\ snapshot'[d] = snapshot[d] /\ authority'[d] = authority[d]
           Working == {"lookAgain", "run", "append"}
<1>1. CASE UNCHANGED verificationVars \/ Edit \/ Readmit
  <2>1. UNCHANGED <<ledger, holder, at, pending, forced, snapshot, authority>>
    BY <1>1 DEF verificationVars, Edit, Readmit, mine
  <2> QED
    BY <1>0, <2>1, LockStays
<1>2. ASSUME NEW c \in Calls, OthersKeep(c), ledger' = ledger,
             \A d \in Calls \ {c} : holder[CacheKey(d)] = d /\ at[d] \in Working
                                      => holder'[CacheKey(d)] = d,
             LockFacts(c)'
      PROVE  RunsOnce(ledger)' /\ \A d \in Calls : LockFacts(d)'
  <2>1. \A d \in Calls \ {c} : LockFacts(d)'
    BY <1>0, <1>2, LockStays
  <2> QED
    BY <1>0, <1>2, <2>1
<1>3. ASSUME NEW c \in Calls
      PROVE  \A d \in Calls \ {c} : holder[CacheKey(d)] = d /\ at[d] \in Working
                                      => Unlocked(c)[CacheKey(d)] = d
  BY <1>0, CurrentCheck DEF Unlocked, Deciding
<1>4. ASSUME NEW c \in Calls, Prepare(c)
      PROVE  RunsOnce(ledger)' /\ \A d \in Calls : LockFacts(d)'
  <2>1. OthersKeep(c) /\ at'[c] \notin Working /\ UNCHANGED <<ledger, holder>>
    BY <1>0, <1>4 DEF Prepare, Continue, Onward, VerificationTypeOK
  <2> QED
    BY <1>2, <2>1 DEF LockFacts
<1>5. ASSUME NEW c \in Calls, NEW r \in Results, Decide(c, r), at[c] \in Deciding, UNCHANGED mine
      PROVE  OthersKeep(c) /\ at'[c] \notin Working
  <2>1. /\ at' = [at EXCEPT ![c] = IF pending'[c] = {} THEN "report" ELSE "lookUp"]
        /\ \A d \in Calls \ {c} : pending'[d] = pending[d]
    BY <1>0, <1>5, DecideStep
  <2>2. UNCHANGED <<forced, snapshot, authority>> /\ DOMAIN at = Calls
    BY <1>0, <1>5 DEF mine, VerificationTypeOK
  <2> QED
    BY <2>1, <2>2
<1>6. ASSUME NEW c \in Calls, NEW label \in {"threw", "ended", "dead"}, End(c, label), UNCHANGED mine
      PROVE  OthersKeep(c) /\ at'[c] \notin Working
  BY <1>0, <1>6 DEF End, Continue, mine, VerificationTypeOK
<1>7. ASSUME NEW c \in Calls, NotRun(c) \/ Reuse(c) \/ NeedsPlan(c) \/ RequestBusy(c)
      PROVE  RunsOnce(ledger)' /\ \A d \in Calls : LockFacts(d)'
  <2>1. /\ UNCHANGED <<ledger, holder, mine>> /\ at[c] \in Deciding
        /\ \E r \in Results : Decide(c, r)
    BY <1>7 DEF NotRun, Reuse, NeedsPlan, RequestBusy, Deciding, Results
  <2>2. OthersKeep(c) /\ at'[c] \notin Working
    BY <1>5, <2>1
  <2> QED
    BY <1>2, <2>1, <2>2 DEF LockFacts
<1>8. ASSUME NEW c \in Calls, ReuseUnderLock(c)
      PROVE  RunsOnce(ledger)' /\ \A d \in Calls : LockFacts(d)'
  <2>1. /\ UNCHANGED <<ledger, mine>> /\ holder' = Unlocked(c) /\ at[c] \in Deciding
        /\ Decide(c, "reused")
    BY <1>8 DEF ReuseUnderLock, Deciding
  <2>2. OthersKeep(c) /\ at'[c] \notin Working
    BY <1>5, <2>1 DEF Results
  <2> QED
    BY <1>2, <1>3, <2>1, <2>2 DEF LockFacts
<1>9. ASSUME NEW c \in Calls, MustExecute(c)
      PROVE  RunsOnce(ledger)' /\ \A d \in Calls : LockFacts(d)'
  <2>1. OthersKeep(c) /\ at'[c] \notin Working /\ UNCHANGED <<ledger, holder>>
    BY <1>0, <1>9 DEF MustExecute, Continue, mine, VerificationTypeOK
  <2> QED
    BY <1>2, <2>1 DEF LockFacts
<1>10. ASSUME NEW c \in Calls, LockRequest(c)
       PROVE  RunsOnce(ledger)' /\ \A d \in Calls : LockFacts(d)'
  <2>1. /\ at[c] = "lock" /\ holder' = [holder EXCEPT ![CacheKey(c)] = c]
        /\ holder[CacheKey(c)] \in {NoCall} \cup {d \in Calls : at[d] = "dead"}
        /\ at' = [at EXCEPT ![c] = "lookAgain"] /\ UNCHANGED <<ledger, mine, pending>>
    BY <1>10 DEF LockRequest, Continue
  <2>2. CacheKey(c) \in Keys
    BY <1>0, <2>1, CurrentCheck DEF Deciding
  <2>3. OthersKeep(c)
    BY <1>0, <2>1 DEF mine, VerificationTypeOK
  <2>4. ASSUME NEW d \in Calls \ {c}, holder[CacheKey(d)] = d, at[d] \in Working
        PROVE  holder'[CacheKey(d)] = d
    <3>1. CacheKey(d) # CacheKey(c)
      BY <2>1, <2>4, VerificationAssumption
    <3> QED
      BY <1>0, <2>1, <2>2, <2>4, <3>1, CurrentCheck DEF VerificationTypeOK, Deciding
  <2>5. at'[c] = "lookAgain" /\ (\A key : key = CacheKey(c) => holder'[key] = c)
    BY <1>0, <2>1, <2>2 DEF VerificationTypeOK
  <2>6. CacheKey(c)' = CacheKey(c)
    BY <2>1 DEF CacheKey, Check, mine
  <2>7. LockFacts(c)'
    BY <2>5, <2>6 DEF LockFacts
  <2> QED
    BY <1>2, <2>1, <2>3, <2>4, <2>7
<1>11. ASSUME NEW c \in Calls, StartCommand(c) \/ CommandEnds(c)
       PROVE  RunsOnce(ledger)' /\ \A d \in Calls : LockFacts(d)'
  <2>1. /\ UNCHANGED <<ledger, holder, mine, pending>> /\ at[c] \in Working
        /\ at' = [at EXCEPT ![c] = "run"] \/ at' = [at EXCEPT ![c] = "append"]
        /\ forced[c] \/ ~Reusable(c)
    BY <1>0, <1>11 DEF StartCommand, CommandEnds, Continue, ReusableUnderLock, LockFacts
  <2>2. OthersKeep(c)
    BY <1>0, <2>1 DEF mine, VerificationTypeOK
  <2>3. LockFacts(c)'
    BY <1>0, <2>1 DEF LockFacts, CacheKey, Check, Reusable, mine
  <2> QED
    BY <1>2, <2>1, <2>2, <2>3
<1>12. ASSUME NEW c \in Calls, AppendExecution(c) \/ AppendThrows(c)
       PROVE  RunsOnce(ledger)' /\ \A d \in Calls : LockFacts(d)'
  <2>1. /\ at[c] = "append" /\ ledger' = Append(ledger, Execution(c))
        /\ holder' = Unlocked(c) /\ UNCHANGED mine
        /\ (ran[c] \in Results /\ Decide(c, ran[c])) \/ End(c, "threw")
    BY <1>0, <1>12 DEF AppendExecution, AppendThrows, VerificationTypeOK, Results
  <2>2. OthersKeep(c) /\ at'[c] \notin Working
    BY <1>5, <1>6, <2>1 DEF Deciding
  <2>3. forced[c] \/ ~Reusable(c)
    BY <1>0, <2>1 DEF LockFacts
  <2>4. RunsOnce(ledger)'
    <3>1. \A log : log = ledger' /\ RunsOnce(log) => RunsOnce(ledger)'
      BY DEF RunsOnce
    <3>2. RunsOnce(Append(ledger, Execution(c)))
      BY <1>0, <2>1, <2>3, RunsOnceAppend
    <3> QED
      BY <2>1, <3>1, <3>2
  <2>5. holder[CacheKey(c)] = c
    BY <1>0, <2>1 DEF LockFacts
  <2>6. \A d \in Calls \ {c} : LockFacts(d)'
    BY <1>0, <1>3, <2>1, <2>2, <2>5, LockStays
  <2>7. LockFacts(c)'
    BY <2>2 DEF LockFacts
  <2> QED
    BY <2>4, <2>6, <2>7
<1>13. ASSUME NEW c \in Calls, Throws(c) \/ CallDies(c) \/ Report(c)
       PROVE  RunsOnce(ledger)' /\ \A d \in Calls : LockFacts(d)'
  <2>1. /\ UNCHANGED <<ledger, mine>>
        /\ holder' = Unlocked(c) \/ holder' = holder
        /\ \E label \in {"threw", "ended", "dead"} : End(c, label)
    BY <1>13 DEF Throws, CallDies, Report
  <2>2. OthersKeep(c) /\ at'[c] \notin Working
    BY <1>6, <2>1
  <2> QED
    BY <1>2, <1>3, <2>1, <2>2 DEF LockFacts
<1> QED
  BY <1>1, <1>4, <1>7, <1>8, <1>9, <1>10, <1>11, <1>12, <1>13
  DEF VerificationNext, ExecutePrepared, ExecuteCheck

\* What has passed is not run again, however many calls overlap, die under the
\* lock or fail after the append, if that holds of the ledger they find.
THEOREM OneRunPerRequestHolds ==
  ASSUME FoundLedgersRunOnce
  PROVE  VerificationSpec => []OneRunPerRequest
<1>1. VerificationInit => OnceInv
  BY InitOnce
<1>2. OnceInv => OneRunPerRequest
  BY DEF OnceInv, OneRunPerRequest
<1> QED
  BY <1>1, <1>2, NextOnce, PTL DEF VerificationSpec
=============================================================================
