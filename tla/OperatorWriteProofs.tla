------------------------ MODULE OperatorWriteProofs ------------------------
(***************************************************************************)
(* Proofs about OperatorWrite, for any calls, processes, requests and      *)
(* bindings.                                                               *)
(*                                                                         *)
(* An action runs at most once because its intent is in the log before it  *)
(* starts and an intent is never appended twice.  WriteInv follows an      *)
(* intent from its append to the end of the call and beyond: it stays in   *)
(* the log while the audit lock is held for its flush, is flushed from     *)
(* then on, and the log itself stays from the moment its directory entry   *)
(* is flushed.  That last step needs EntryFollows: without it a second     *)
(* call acts on an intent whose log may vanish, as TLC shows.              *)
(*                                                                         *)
(* What callers are told is true because of AnswerInv: a result, once it   *)
(* is recorded or answered, is so for good.  The intent of its request     *)
(* stays, so no later call runs the request, and the run that recorded it  *)
(* changes nothing more.                                                   *)
(***************************************************************************)
EXTENDS OperatorWrite, WellFoundedInduction, TLAPS

AuditLabels    == {"admitting", "cutIntent", "flushIntent", "syncEntry",
                   "recording", "cutResult", "flushResult"}
TargetLabels   == AuditLabels \cup {"admission", "execute", "applied", "record"}
CutLabels      == {"cutIntent", "cutResult"}
ResultLabels   == {"record", "recording", "cutResult", "flushResult"}
SteadyLabels   == ResultLabels \cup {"execute", "applied"}
IntendedLabels == SteadyLabels \cup {"flushIntent", "syncEntry"}

\* A call has its locks while it works, and only in a process that is alive.
LockFact(c) ==
  /\ pc[c] \in TargetLabels => Alive(c) /\ targetOwner[Target(c)] = c
  /\ pc[c] \in AuditLabels => auditOwner = c

LockTypes ==
  /\ life \in [Processes -> {"unborn", "alive", "dead"}]
  /\ pc \in [Calls -> Labels]
  /\ binding \in [Calls -> Bindings]
  /\ targetOwner \in [Targets -> Calls \cup {NoCall}]

LockInv == LockTypes /\ \A c \in Calls : LockFact(c)

\* The log, and which part of it is flushed.
LogTypes ==
  /\ log \in Seq(RecordType)
  /\ flushed \in 0..Len(log)
  /\ entry \in {"none", "made", "flushed"}
  /\ entry = "none" => log = <<>>
  /\ changed \subseteq Calls
  /\ request \in [Calls -> Requests]
  /\ outcome \in [Calls -> Recorded \cup {"none"}]
  /\ \A c \in Calls : pc[c] \in ResultLabels => outcome[c] \in Recorded

IntentAt(i, c) == log[i] = Intent(request[c], binding[c])

\* The intent of a call is in the log; after its flush, in the flushed part of a
\* log that stays.  A record that is cut is the last one, and not flushed.
IntentFact(c) ==
  /\ pc[c] \in CutLabels => flushed < Len(log) /\ ~log[Len(log)].whole
  /\ pc[c] = "flushIntent" => \E i \in 1..Len(log) : IntentAt(i, c)
  /\ pc[c] \in IntendedLabels \ {"flushIntent"} => \E i \in 1..flushed : IntentAt(i, c)
  /\ pc[c] \in SteadyLabels => entry = "flushed"
  /\ c \in changed => entry = "flushed" /\ \E i \in 1..flushed : IntentAt(i, c)

Intended(c) == pc[c] \in IntendedLabels \/ c \in changed

WriteInv ==
  /\ LockInv /\ LogTypes
  /\ \A c \in Calls : IntentFact(c)
  /\ \A c, d \in Calls : Intended(c) /\ Intended(d) /\ request[c] = request[d] => c = d

\* What the types of the log rest on, whether or not an entry follows a flush.
LogFact(c) ==
  /\ pc[c] \in CutLabels => flushed < Len(log)
  /\ pc[c] \in CutLabels \cup IntendedLabels => entry # "none"
  /\ pc[c] \in ResultLabels => outcome[c] \in Recorded

TypeInv == LockInv /\ TypeOK /\ \A c \in Calls : LogFact(c)

\* Before its result can be in the log.
EarlyLabels == {"flushIntent", "syncEntry", "execute", "applied", "record", "recording"}

\* How far a call is, what its action came to and what it has answered agree.
CallFact(c) ==
  /\ c \in changed => pc[c] \in {"applied", "answered", "lost"} \cup ResultLabels
  /\ pc[c] = "applied" => c \in changed
  /\ pc[c] \in ResultLabels => (outcome[c] = "done" <=> c \in changed)
  /\ answer[c] # "none" => pc[c] = "answered"

\* The intent of a request is in the part of the log that stays.
Settled(r, b) ==
  entry = "flushed" /\ \E i \in 1..flushed : log[i] = Intent(r, b)

\* What has been recorded, or answered as recorded, of a request is so and stays so:
\* its run is over, or about to answer.
SoForGood(r, b, status) ==
  /\ Settled(r, b)
  /\ status = "done" => \E d \in changed : request[d] = r /\ binding[d] = b
  /\ status = "refused" => \A d \in changed : request[d] # r
  /\ \A d \in Calls : request[d] = r => pc[d] \notin EarlyLabels

OneIntent ==
  \A i, j \in DOMAIN log :
    log[i].phase = "intent" /\ log[j].phase = "intent" /\ log[i].request = log[j].request
      => i = j

ResultSo(i) ==
  log[i].phase = "result" => SoForGood(log[i].request, log[i].binding, log[i].status)

AnswerSo(c) ==
  /\ answer[c] \in Recorded => SoForGood(request[c], binding[c], answer[c])
  /\ answer[c] \in {"busy", "audit_unavailable", "request_mismatch"} => c \notin changed

AnswerInv ==
  /\ TypeInv /\ WriteInv /\ OneIntent
  /\ \A i \in DOMAIN log : ResultSo(i)
  /\ \A c \in Calls : CallFact(c) /\ AnswerSo(c)

-----------------------------------------------------------------------------
(* Locks *)

LEMMA InitLocks == Init => LockInv
BY DEF Init, LockInv, LockTypes, LockFact, TargetLabels, AuditLabels, Labels

\* A step of c that leaves the locks of the others alone.
LEMMA LockStep ==
  ASSUME LockInv, LockTypes', NEW c \in Calls, UNCHANGED <<life, binding>>,
         \A d \in Calls \ {c} :
           /\ pc'[d] = pc[d]
           /\ targetOwner[Target(d)] = d => targetOwner'[Target(d)] = d
           /\ pc[d] \in AuditLabels => auditOwner' = d,
         LockFact(c)'
  PROVE  LockInv'
BY DEF LockInv, LockFact, Alive, Target, TargetLabels

LEMMA LockNext == LockInv /\ [Next]_vars => LockInv'
<1> SUFFICES ASSUME LockInv, [Next]_vars
             PROVE  LockInv'
  OBVIOUS
<1>t. \A c \in Calls : binding[c] \in Bindings /\ Target(c) \in Targets
  BY DEF LockInv, LockTypes, Target, Targets
<1> USE OperatorAssumption, <1>t
<1>1. ASSUME NEW c \in Calls, Begin(c) \/ TargetBusy(c) \/ StateUnavailable(c) \/ LockTarget(c)
      PROVE  LockInv'
  <2> USE DEF LockInv, LockTypes, LockFact, TargetLabels, AuditLabels, Labels, Target, Alive,
            locks, asked, audit, At, Goto
  <2>1. CASE Begin(c)
    BY <2>1, LockStep DEF Begin
  <2>2. CASE TargetBusy(c)
    BY <2>2, LockStep DEF TargetBusy, Refuse
  <2>3. CASE StateUnavailable(c)
    BY <2>3, LockStep DEF StateUnavailable, Refuse
  <2>4. CASE LockTarget(c)
    BY <2>4, LockStep DEF LockTarget, MayLockTarget
  <2>5. QED BY <1>1, <2>1, <2>2, <2>3, <2>4
<1>2. ASSUME NEW c \in Calls,
             Admit(c) \/ AdmissionUnavailable(c) \/ AdmissionFails(c) \/ AnswerKnown(c)
      PROVE  LockInv'
  <2> USE DEF LockInv, LockTypes, LockFact, TargetLabels, AuditLabels, Labels, Target, Alive,
            locks, asked, audit, At, Goto
  <2>1. CASE Admit(c)
    BY <2>1, LockStep DEF Admit, LockAudit
  <2>2. CASE AdmissionUnavailable(c)
    BY <2>2, LockStep DEF AdmissionUnavailable, Answer
  <2>3. CASE AdmissionFails(c)
    BY <2>3, LockStep DEF AdmissionFails, Answer
  <2>4. CASE AnswerKnown(c)
    BY <2>4, LockStep DEF AnswerKnown, Answer
  <2>5. QED BY <1>2, <2>1, <2>2, <2>3, <2>4
<1>3. ASSUME NEW c \in Calls,
             WriteIntent(c) \/ ShortWrite(c) \/ CutOff(c) \/ FlushIntent(c) \/ SyncEntry(c)
      PROVE  LockInv'
  <2> USE DEF LockInv, LockTypes, LockFact, TargetLabels, AuditLabels, Labels, Target, Alive,
            locks, asked, audit, At, Goto
  <2>1. CASE WriteIntent(c)
    BY <2>1, LockStep DEF WriteIntent, MayAppendIntent
  <2>2. CASE ShortWrite(c)
    BY <2>2, LockStep DEF ShortWrite, MayAppendIntent
  <2>3. CASE CutOff(c)
    BY <2>3, LockStep DEF CutOff, Answer
  <2>4. CASE FlushIntent(c)
    BY <2>4, LockStep DEF FlushIntent, StartAction
  <2>5. CASE SyncEntry(c)
    BY <2>5, LockStep DEF SyncEntry, StartAction
  <2>6. QED BY <1>3, <2>1, <2>2, <2>3, <2>4, <2>5
<1>4. ASSUME NEW c \in Calls,
             ActionApplies(c) \/ ActionRefuses(c) \/ ActionReturns(c) \/ ActionThrows(c)
      PROVE  LockInv'
  <2> USE DEF LockInv, LockTypes, LockFact, TargetLabels, AuditLabels, Labels, Target, Alive,
            locks, asked, audit, At, Goto
  <2>1. CASE ActionApplies(c)
    BY <2>1, LockStep DEF ActionApplies
  <2>2. CASE ActionRefuses(c)
    BY <2>2, LockStep DEF ActionRefuses
  <2>3. CASE ActionReturns(c)
    BY <2>3, LockStep DEF ActionReturns
  <2>4. CASE ActionThrows(c)
    BY <2>4, LockStep DEF ActionThrows, Answer
  <2>5. QED BY <1>4, <2>1, <2>2, <2>3, <2>4
<1>5. ASSUME NEW c \in Calls, Record(c) \/ WriteResult(c) \/ FlushResult(c) \/ RecordFails(c)
      PROVE  LockInv'
  <2> USE DEF LockInv, LockTypes, LockFact, TargetLabels, AuditLabels, Labels, Target, Alive,
            locks, asked, audit, At, Goto
  <2>1. CASE Record(c)
    BY <2>1, LockStep DEF Record, LockAudit
  <2>2. CASE WriteResult(c)
    BY <2>2, LockStep DEF WriteResult
  <2>3. CASE FlushResult(c)
    BY <2>3, LockStep DEF FlushResult, Answer
  <2>4. CASE RecordFails(c)
    BY <2>4, LockStep DEF RecordFails, Answer
  <2>5. QED BY <1>5, <2>1, <2>2, <2>3, <2>4
<1>6. ASSUME NEW dying \in SUBSET Processes, Die(dying)
      PROVE  LockInv'
  BY <1>6
  DEF Die, LockInv, LockTypes, LockFact, TargetLabels, AuditLabels, Labels, Target, Alive, asked
<1>7. CASE \E p \in Processes : Start(p) \/ Exit(p)
  <2>1. ASSUME NEW p \in Processes, Start(p)
        PROVE  LockInv'
    BY <2>1 DEF Start, LockInv, LockTypes, LockFact, TargetLabels, AuditLabels, Target, Alive,
                locks, asked
  <2>2. ASSUME NEW p \in Processes, Exit(p)
        PROVE  LockInv'
    BY <2>2, <1>6 DEF Exit
  <2>3. QED BY <1>7, <2>1, <2>2
<1>8. CASE ReclaimTarget
  BY <1>8
  DEF ReclaimTarget, OwnerDied, LockInv, LockTypes, LockFact, TargetLabels, AuditLabels,
      Target, Alive, asked
<1>9. CASE ReclaimAudit
  BY <1>9
  DEF ReclaimAudit, OwnerDied, LockInv, LockTypes, LockFact, TargetLabels, AuditLabels,
      Target, Alive, asked
<1>10. CASE PowerLoss
  BY <1>10, <1>6 DEF PowerLoss
<1>11. CASE UNCHANGED vars
  BY <1>11
  DEF vars, LockInv, LockTypes, LockFact, TargetLabels, AuditLabels, Target, Alive, locks, asked
<1>12. QED
  BY <1>1, <1>2, <1>3, <1>4, <1>5, <1>7, <1>8, <1>9, <1>10, <1>11 DEF Next, Call

LEMMA LockInvariance == Spec => []LockInv
BY InitLocks, LockNext, PTL DEF Spec

\* No two calls act on one target at a time, in one process or in two, whatever dies.
THEOREM OneActsHolds == Spec => []OneActsOnATarget
<1>1. LockInv => OneActsOnATarget
  BY DEF LockInv, LockFact, OneActsOnATarget, Acting, At, TargetLabels
<1>2. QED BY <1>1, LockInvariance, PTL

-----------------------------------------------------------------------------
(* The audit log *)

\* What every call leaves of the log: its whole records, and what is flushed.
Kept ==
  /\ flushed <= flushed'
  /\ \A i \in 1..Len(log) : log[i].whole => i \in 1..Len(log') /\ log'[i] = log[i]
  /\ entry = "flushed" => entry' = "flushed"

LEMMA RecordTypes ==
  ASSUME NEW r \in Requests, NEW b \in Bindings
  PROVE  /\ Intent(r, b) \in RecordType
         /\ [Intent(r, b) EXCEPT !.whole = FALSE] \in RecordType
         /\ TornRecord \in RecordType
         /\ \A status \in Recorded :
              /\ Result(r, b, status) \in RecordType
              /\ [Result(r, b, status) EXCEPT !.whole = FALSE] \in RecordType
BY DEF Intent, Result, TornRecord, RecordType

\* Appending and removing the last record, in terms of Kept.
LEMMA Appending ==
  ASSUME LogTypes, NEW e \in RecordType, log' = Append(log, e), flushed' = flushed, OpenLog
  PROVE  /\ log' \in Seq(RecordType) /\ Len(log') = Len(log) + 1 /\ log'[Len(log')] = e
         /\ flushed' \in 0..Len(log') /\ flushed' < Len(log')
         /\ entry' \in {"made", "flushed"}
         /\ Kept
BY DEF LogTypes, Kept, OpenLog

LEMMA PrefixOf ==
  ASSUME NEW S, NEW s \in Seq(S), NEW n \in 0..Len(s)
  PROVE  /\ SubSeq(s, 1, n) \in Seq(S) /\ Len(SubSeq(s, 1, n)) = n
         /\ \A i \in 1..n : SubSeq(s, 1, n)[i] = s[i]
OBVIOUS

LEMMA CuttingOff ==
  ASSUME LogTypes, log' = Front(log), UNCHANGED <<flushed, entry>>,
         flushed < Len(log), ~log[Len(log)].whole
  PROVE  /\ log' \in Seq(RecordType) /\ Len(log') = Len(log) - 1
         /\ flushed' \in 0..Len(log')
         /\ (entry' = "none" => log' = <<>>)
         /\ Kept
<1>1. Len(log) \in Nat /\ Len(log) > 0 /\ log # <<>>
  BY DEF LogTypes
<1>2. PICK n \in 0..Len(log) : n = Len(log) - 1
  <2>1. Len(log) - 1 \in 0..Len(log)
    BY <1>1
  <2>2. QED BY <2>1, Zenon
<1>3. /\ log' \in Seq(RecordType) /\ Len(log') = n
      /\ \A i \in 1..n : log'[i] = log[i]
  <2>1. log \in Seq(RecordType) /\ log' = SubSeq(log, 1, n)
    BY <1>2 DEF LogTypes, Front
  <2>2. /\ SubSeq(log, 1, n) \in Seq(RecordType) /\ Len(SubSeq(log, 1, n)) = n
        /\ \A i \in 1..n : SubSeq(log, 1, n)[i] = log[i]
    BY <2>1, PrefixOf
  <2>3. QED BY <2>1, <2>2, Zenon
<1>4. \A i \in 1..Len(log) : log[i].whole => i \in 1..(Len(log) - 1)
  BY <1>1
<1>5. QED BY <1>1, <1>2, <1>3, <1>4 DEF LogTypes, Kept

LEMMA InitWrite == Init => WriteInv
BY InitLocks
DEF Init, WriteInv, LogTypes, IntentFact, Intended, IntendedLabels, SteadyLabels, ResultLabels,
    CutLabels

LEMMA IntentKept ==
  ASSUME Kept, UNCHANGED asked, LogTypes, NEW d \in Calls, NEW i \in 1..Len(log), IntentAt(i, d)
  PROVE  IntentAt(i, d)' /\ i \in 1..Len(log')
<1>1. log[i].whole
  BY DEF IntentAt, Intent
<1>2. QED BY <1>1 DEF IntentAt, Kept, asked, Intent

LEMMA IntentIsKnown ==
  ASSUME LogTypes, NEW d \in Calls, IntentFact(d), Intended(d)
  PROVE  Known(request[d])
<1>1. PICK i \in 1..Len(log) : IntentAt(i, d)
  BY DEF LogTypes, IntentFact, Intended, IntendedLabels
<1>2. QED BY <1>1 DEF IntentAt, Intent, Known, LogTypes

\* A step of c that keeps the log.
LEMMA WriteStep ==
  ASSUME WriteInv, LockInv', LogTypes', Kept, NEW c \in Calls, UNCHANGED asked,
         \A d \in Calls \ {c} :
           /\ pc'[d] = pc[d]
           /\ pc[d] \in CutLabels => UNCHANGED <<log, flushed>>,
         changed' \subseteq changed \cup {c}, changed \subseteq changed',
         IntentFact(c)',
         Intended(c)' => Intended(c) \/ ~Known(request[c])
  PROVE  WriteInv'
<1>1. ASSUME NEW d \in Calls, NEW i \in 1..Len(log), IntentAt(i, d)
      PROVE  IntentAt(i, d)' /\ i \in 1..Len(log')
  BY <1>1, IntentKept DEF WriteInv
<1>2. flushed \in Nat /\ flushed' \in Nat /\ flushed <= flushed' /\ flushed <= Len(log)
      /\ Len(log) \in Nat
  BY DEF WriteInv, LogTypes, Kept
<1>3. ASSUME NEW d \in Calls \ {c}
      PROVE  IntentFact(d)'
  <2>1. \A i \in 1..Len(log) : IntentAt(i, d) => IntentAt(i, d)' /\ i \in 1..Len(log')
    BY <1>1
  <2>2. \A i \in 1..flushed : i \in 1..Len(log) /\ i \in 1..flushed'
    BY <1>2
  <2>3. entry = "flushed" => entry' = "flushed"
    BY DEF Kept
  <2>4. pc'[d] = pc[d] /\ (pc[d] \in CutLabels => UNCHANGED <<log, flushed>>)
        /\ (d \in changed' => d \in changed)
    OBVIOUS
  <2>5. IntentFact(d)
    BY DEF WriteInv
  <2>6. QED BY <2>1, <2>2, <2>3, <2>4, <2>5 DEF IntentFact
<1>4. \A d \in Calls : Intended(d) => Known(request[d])
  BY IntentIsKnown DEF WriteInv
<1>5. ASSUME NEW d \in Calls, NEW e \in Calls, Intended(d)', Intended(e)',
             request'[d] = request'[e]
      PROVE  d = e
  <2>1. \A f \in Calls \ {c} : Intended(f)' => Intended(f)
    BY DEF Intended
  <2>2. UNCHANGED request
    BY DEF asked
  <2>3. QED BY <1>4, <1>5, <2>1, <2>2 DEF WriteInv
<1>6. QED BY <1>3, <1>5 DEF WriteInv

\* A step of c that does not touch the log.
LEMMA QuietStep ==
  ASSUME WriteInv, LockInv', NEW c \in Calls, UNCHANGED <<asked, log, flushed, entry>>,
         \A d \in Calls \ {c} : pc'[d] = pc[d] /\ outcome'[d] = outcome[d],
         outcome' \in [Calls -> Recorded \cup {"none"}],
         pc'[c] \in ResultLabels => outcome'[c] \in Recorded,
         pc'[c] \notin CutLabels \cup {"flushIntent"},
         pc'[c] \in IntendedLabels => pc[c] \in SteadyLabels,
         changed' = changed \/ (pc[c] \in SteadyLabels /\ changed' = changed \cup {c})
  PROVE  WriteInv'
<1>1. LogTypes'
  BY DEF WriteInv, LogTypes, asked
<1>2. Kept
  BY DEF WriteInv, LogTypes, Kept
<1>3. \A i \in 1..flushed : IntentAt(i, c)' = IntentAt(i, c)
  BY DEF IntentAt, Intent, asked
<1>4. IntentFact(c)'
  BY <1>3 DEF WriteInv, IntentFact, IntendedLabels, SteadyLabels, ResultLabels
<1>5. Intended(c)' => Intended(c)
  BY DEF Intended, IntendedLabels, SteadyLabels
<1>6. QED BY <1>1, <1>2, <1>4, <1>5, WriteStep

\* A step that changes none of what WriteInv says of the calls.
LEMMA SameLog ==
  ASSUME WriteInv, LockInv', UNCHANGED <<pc, request, binding, outcome, log, flushed, entry,
         changed>>
  PROVE  WriteInv'
<1>1. LogTypes'
  BY DEF WriteInv, LogTypes
<1>2. ASSUME NEW c \in Calls
      PROVE  IntentFact(c)' /\ (Intended(c)' <=> Intended(c))
  BY DEF WriteInv, IntentFact, IntentAt, Intended
<1>3. QED BY <1>1, <1>2 DEF WriteInv

\* Processes die.  Either the log stays as it is, or nobody is left and what is
\* flushed of a log that was to stay stays.
LEMMA DyingStep ==
  ASSUME WriteInv, LockInv', NEW dying \in SUBSET Processes, Die(dying),
         log' \in Seq(RecordType), flushed' \in 0..Len(log'),
         entry' \in {"none", "made", "flushed"}, entry' = "none" => log' = <<>>,
         \/ UNCHANGED <<log, flushed, entry>>
         \/ /\ \A c \in Calls : pc'[c] \notin TargetLabels
            /\ entry = "flushed" =>
                 /\ entry' = "flushed" /\ flushed <= flushed'
                 /\ \A i \in 1..flushed : log'[i] = log[i]
  PROVE  WriteInv'
<1>1. /\ \A c \in Calls : pc'[c] = "lost" \/ (pc'[c] = pc[c] /\ outcome'[c] = outcome[c])
      /\ outcome' \in [Calls -> Recorded \cup {"none"}]
      /\ UNCHANGED <<request, binding, changed>>
  BY DEF Die, WriteInv, LogTypes, asked
<1>2. LogTypes'
  BY <1>1 DEF WriteInv, LogTypes, ResultLabels
<1>3. ASSUME NEW c \in Calls
      PROVE  IntentFact(c)' /\ (Intended(c)' => Intended(c))
  <2>1. Intended(c)' => Intended(c)
    BY <1>1 DEF Intended, IntendedLabels, SteadyLabels, ResultLabels
  <2>2. IntentFact(c)
    BY DEF WriteInv
  <2>3. CASE UNCHANGED <<log, flushed, entry>>
    BY <1>1, <2>1, <2>2, <2>3
    DEF IntentFact, IntentAt, CutLabels, IntendedLabels, SteadyLabels, ResultLabels
  <2>4. CASE /\ pc'[c] \notin TargetLabels
             /\ entry = "flushed" =>
                  /\ entry' = "flushed" /\ flushed <= flushed'
                  /\ \A i \in 1..flushed : log'[i] = log[i]
    <3>1. flushed \in Nat /\ flushed' \in Nat
      BY <1>2 DEF WriteInv, LogTypes
    <3>2. c \in changed' => entry' = "flushed" /\ \E i \in 1..flushed' : IntentAt(i, c)'
      BY <1>1, <2>2, <2>4, <3>1 DEF IntentFact, IntentAt
    <3>3. pc'[c] \notin CutLabels \cup IntendedLabels /\ pc'[c] # "flushIntent"
      BY <2>4 DEF TargetLabels, AuditLabels, CutLabels, IntendedLabels, SteadyLabels, ResultLabels
    <3>4. QED BY <2>1, <3>2, <3>3 DEF IntentFact, IntentAt, IntendedLabels
  <2>5. QED BY <2>1, <2>3, <2>4
<1>4. QED BY <1>1, <1>2, <1>3 DEF WriteInv

LEMMA OneTornRecord ==
  ASSUME NEW e \in [phase : {"torn"}, whole : {FALSE}]
  PROVE  e = TornRecord
BY DEF TornRecord

LEMMA CutRecord ==
  ASSUME NEW e \in RecordType
  PROVE  [e EXCEPT !.whole = FALSE] \in RecordType
<1>1. CASE e = TornRecord
  <2>1. [e EXCEPT !.whole = FALSE] \in [phase : {"torn"}, whole : {FALSE}]
    BY <1>1 DEF TornRecord
  <2>2. [e EXCEPT !.whole = FALSE] = TornRecord
    BY <2>1, OneTornRecord
  <2>3. QED BY <2>2 DEF RecordType
<1>2. CASE e \in [phase : {"intent"}, request : Requests, binding : Bindings, whole : BOOLEAN]
  BY <1>2 DEF RecordType
<1>3. CASE e \in [phase : {"result"}, request : Requests, binding : Bindings,
                  status : Recorded, whole : BOOLEAN]
  BY <1>3 DEF RecordType
<1>4. QED BY <1>1, <1>2, <1>3 DEF RecordType

\* What a power loss leaves of a log that stays begins with its flushed records.
LEMMA SurvivorsKept ==
  ASSUME LogTypes, NEW left \in Survivors
  PROVE  /\ left \in Seq(RecordType) /\ flushed <= Len(left)
         /\ \A i \in 1..flushed : left[i] = log[i]
<1>1. ASSUME NEW n \in flushed..Len(log)
      PROVE  /\ n \in Nat /\ SubSeq(log, 1, n) \in Seq(RecordType) /\ Len(SubSeq(log, 1, n)) = n
             /\ \A i \in 1..n : SubSeq(log, 1, n)[i] = log[i]
  BY PrefixOf DEF LogTypes
<1>2. CASE \E n \in flushed..Len(log) : left = SubSeq(log, 1, n)
  BY <1>1, <1>2 DEF LogTypes
<1>3. CASE \E n \in flushed..(Len(log) - 1) : left \in Cut(SubSeq(log, 1, n), log[n + 1])
  <2>1. PICK n \in flushed..(Len(log) - 1) : left \in Cut(SubSeq(log, 1, n), log[n + 1])
    BY <1>3
  <2>2. /\ n \in flushed..Len(log) /\ n + 1 \in 1..Len(log) /\ flushed <= n /\ flushed \in Nat
    BY DEF LogTypes
  <2>3. TornRecord \in RecordType /\ [log[n + 1] EXCEPT !.whole = FALSE] \in RecordType
    BY <2>2, CutRecord DEF LogTypes, RecordType
  <2>4. PICK e \in RecordType : left = Append(SubSeq(log, 1, n), e)
    BY <2>1, <2>3 DEF Cut
  <2>5. PICK s \in Seq(RecordType) :
          s = SubSeq(log, 1, n) /\ Len(s) = n /\ \A i \in 1..n : s[i] = log[i]
    BY <1>1, <2>2
  <2>6. left = Append(s, e)
    BY <2>4, <2>5
  <2>7. left \in Seq(RecordType) /\ Len(left) = n + 1 /\ \A i \in 1..n : left[i] = s[i]
    BY <2>5, <2>6
  <2>8. QED BY <2>2, <2>5, <2>7
<1>4. QED BY <1>2, <1>3 DEF Survivors

\* It is a prefix of the log, with perhaps one more record, torn or cut.
LEMMA SurvivorsWhole ==
  ASSUME LogTypes, \A i \in 1..(Len(log) - 1) : log[i].whole, NEW left \in Survivors
  PROVE  /\ \A i \in 1..(Len(left) - 1) : left[i].whole
         /\ \A i \in DOMAIN left :
              i \in DOMAIN log /\ left[i] \in {log[i], [log[i] EXCEPT !.whole = FALSE], TornRecord}
<1>0. Len(log) \in Nat /\ DOMAIN log = 1..Len(log)
  BY DEF LogTypes
<1>1. ASSUME NEW n \in flushed..Len(log)
      PROVE  /\ n \in Nat /\ SubSeq(log, 1, n) \in Seq(RecordType) /\ Len(SubSeq(log, 1, n)) = n
             /\ \A i \in 1..n : SubSeq(log, 1, n)[i] = log[i]
  BY PrefixOf DEF LogTypes
<1>2. ASSUME NEW n \in flushed..Len(log), left = SubSeq(log, 1, n)
      PROVE  /\ \A i \in 1..(Len(left) - 1) : left[i].whole
             /\ \A i \in DOMAIN left : i \in DOMAIN log /\ left[i] = log[i]
  <2>1. n \in Nat /\ n <= Len(log) /\ left \in Seq(RecordType) /\ Len(left) = n
        /\ \A i \in 1..n : left[i] = log[i]
    BY <1>1, <1>2 DEF LogTypes
  <2>2. QED BY <1>0, <2>1
<1>3. ASSUME NEW n \in flushed..(Len(log) - 1), left \in Cut(SubSeq(log, 1, n), log[n + 1])
      PROVE  /\ \A i \in 1..(Len(left) - 1) : left[i].whole
             /\ \A i \in DOMAIN left :
                  i \in DOMAIN log /\ left[i] \in {log[i], [log[i] EXCEPT !.whole = FALSE], TornRecord}
  <2>2. /\ n \in flushed..Len(log) /\ n + 1 \in 1..Len(log) /\ flushed \in Nat /\ n \in Nat
    BY DEF LogTypes
  <2>3. TornRecord \in RecordType /\ [log[n + 1] EXCEPT !.whole = FALSE] \in RecordType
    BY <2>2, CutRecord DEF LogTypes, RecordType
  <2>4. PICK e \in RecordType : left = Append(SubSeq(log, 1, n), e)
                                /\ e \in {TornRecord, [log[n + 1] EXCEPT !.whole = FALSE]}
    BY <1>3, <2>3 DEF Cut
  <2>5. PICK s \in Seq(RecordType) :
          s = SubSeq(log, 1, n) /\ Len(s) = n /\ \A i \in 1..n : s[i] = log[i]
    BY <1>1, <2>2
  <2>6. left = Append(s, e)
    BY <2>4, <2>5
  <2>7. Len(left) = n + 1 /\ DOMAIN left = 1..(n + 1) /\ left[n + 1] = e
        /\ \A i \in 1..n : left[i] = log[i]
    BY <2>2, <2>5, <2>6
  <2>8. \A i \in 1..n : log[i].whole
    BY <1>0, <2>2
  <2>9. QED BY <1>0, <2>2, <2>4, <2>7, <2>8
<1>4. QED BY <1>2, <1>3 DEF Survivors

LEMMA LogSurvives ==
  ASSUME LogTypes, PowerLoss
  PROVE  /\ log' \in Seq(RecordType) /\ flushed' \in 0..Len(log')
         /\ entry' \in {"none", "made", "flushed"} /\ (entry' = "none" => log' = <<>>)
         /\ entry = "flushed" =>
              /\ entry' = "flushed" /\ flushed <= flushed'
              /\ \A i \in 1..flushed : log'[i] = log[i]
<1>1. flushed' = Len(log')
  BY DEF PowerLoss
<1>2. CASE log' \in Survivors /\ entry' = "flushed"
  BY <1>1, <1>2, SurvivorsKept
<1>3. CASE entry # "flushed" /\ log' = <<>> /\ entry' = "none"
  BY <1>1, <1>3
<1>4. QED BY <1>2, <1>3 DEF PowerLoss, LogTypes

LEMMA WriteNext ==
  ASSUME EntryFollows
  PROVE  WriteInv /\ [Next]_vars => WriteInv'
<1> SUFFICES ASSUME WriteInv, [Next]_vars
             PROVE  WriteInv'
  OBVIOUS
<1>l. LockInv /\ LockInv' /\ LogTypes /\ \A c \in Calls : IntentFact(c) /\ LockFact(c)
  BY LockNext DEF WriteInv, LockInv
<1>t. pc \in [Calls -> Labels] /\ outcome \in [Calls -> Recorded \cup {"none"}]
      /\ \A c \in Calls : pc[c] \in ResultLabels => outcome[c] \in Recorded
  BY <1>l DEF LockInv, LockTypes, LogTypes
<1>1. ASSUME NEW c \in Calls, Begin(c) \/ TargetBusy(c) \/ StateUnavailable(c) \/ LockTarget(c)
      PROVE  WriteInv'
  <2> USE <1>l, <1>t
      DEF ResultLabels, SteadyLabels, IntendedLabels, CutLabels, Recorded, audit, At, Goto
  <2>1. CASE Begin(c)
    BY <2>1, QuietStep DEF Begin
  <2>2. CASE TargetBusy(c)
    BY <2>2, QuietStep DEF TargetBusy, Refuse
  <2>3. CASE StateUnavailable(c)
    BY <2>3, QuietStep DEF StateUnavailable, Refuse
  <2>4. CASE LockTarget(c)
    BY <2>4, QuietStep DEF LockTarget
  <2>5. QED BY <1>1, <2>1, <2>2, <2>3, <2>4
<1>2. ASSUME NEW c \in Calls,
             Admit(c) \/ AdmissionUnavailable(c) \/ AdmissionFails(c) \/ AnswerKnown(c)
      PROVE  WriteInv'
  <2> USE <1>l, <1>t
      DEF ResultLabels, SteadyLabels, IntendedLabels, CutLabels, Recorded, audit, At, Goto
  <2>1. CASE Admit(c)
    BY <2>1, QuietStep DEF Admit, LockAudit
  <2>2. CASE AdmissionUnavailable(c)
    BY <2>2, QuietStep DEF AdmissionUnavailable, Answer
  <2>3. CASE AdmissionFails(c)
    BY <2>3, QuietStep DEF AdmissionFails, Answer
  <2>4. CASE AnswerKnown(c)
    BY <2>4, QuietStep DEF AnswerKnown, Answer
  <2>5. QED BY <1>2, <2>1, <2>2, <2>3, <2>4
<1>3. ASSUME NEW c \in Calls,
             ActionApplies(c) \/ ActionRefuses(c) \/ ActionReturns(c) \/ ActionThrows(c)
      PROVE  WriteInv'
  <2> USE <1>l, <1>t
      DEF ResultLabels, SteadyLabels, IntendedLabels, CutLabels, Recorded, audit, At, Goto
  <2>1. CASE ActionApplies(c)
    BY <2>1, QuietStep DEF ActionApplies
  <2>2. CASE ActionRefuses(c)
    BY <2>2, QuietStep DEF ActionRefuses
  <2>3. CASE ActionReturns(c)
    BY <2>3, QuietStep DEF ActionReturns
  <2>4. CASE ActionThrows(c)
    BY <2>4, QuietStep DEF ActionThrows, Answer
  <2>5. QED BY <1>3, <2>1, <2>2, <2>3, <2>4
<1>4. ASSUME NEW c \in Calls, Record(c) \/ RecordFails(c)
      PROVE  WriteInv'
  <2> USE <1>l, <1>t
      DEF ResultLabels, SteadyLabels, IntendedLabels, CutLabels, Recorded, audit, At, Goto
  <2>1. CASE Record(c)
    BY <2>1, QuietStep DEF Record, LockAudit
  <2>2. CASE RecordFails(c)
    BY <2>2, QuietStep DEF RecordFails, Answer
  <2>3. QED BY <1>4, <2>1, <2>2
<1>5. ASSUME NEW c \in Calls, pc[c] \in AuditLabels, Kept, LogTypes', UNCHANGED <<asked,
             changed>>,
             \A d \in Calls \ {c} : pc'[d] = pc[d], IntentFact(c)',
             Intended(c)' => Intended(c) \/ ~Known(request[c])
      PROVE  WriteInv'
  <2>1. \A d \in Calls \ {c} : pc[d] \notin CutLabels
    BY <1>5, <1>l DEF LockFact, CutLabels, AuditLabels
  <2>2. QED BY <1>5, <1>l, <2>1, WriteStep
<1>6. ASSUME NEW c \in Calls, Kept, UNCHANGED asked, flushed' \in Nat
      PROVE  /\ \A i \in 1..Len(log) : IntentAt(i, c) => IntentAt(i, c)' /\ i \in 1..Len(log')
             /\ \A i \in 1..flushed : IntentAt(i, c) => IntentAt(i, c)' /\ i \in 1..flushed'
  <2>1. ASSUME NEW i \in 1..Len(log), IntentAt(i, c)
        PROVE  IntentAt(i, c)' /\ i \in 1..Len(log')
    BY <1>6, <1>l, <2>1, IntentKept
  <2>2. \A i \in 1..flushed : i \in 1..Len(log) /\ i \in 1..flushed'
    BY <1>6, <1>l DEF Kept, LogTypes
  <2>3. QED BY <2>1, <2>2
<1>7. ASSUME NEW c \in Calls, Intended(c)
      PROVE  Known(request[c])
  BY <1>7, <1>l, IntentIsKnown
<1>8. ASSUME NEW c \in Calls, WriteIntent(c)
      PROVE  WriteInv'
  <2>1. /\ pc[c] = "admitting" /\ ~Known(request[c]) /\ pc' = [pc EXCEPT ![c] = "flushIntent"]
        /\ log' = Append(log, Intent(request[c], binding[c])) /\ OpenLog
        /\ UNCHANGED <<asked, outcome, flushed, changed>>
    BY <1>8 DEF WriteIntent, MayAppendIntent, At, Goto
  <2>2. Intent(request[c], binding[c]) \in RecordType
    BY RecordTypes, <1>l DEF LogTypes, LockInv, LockTypes
  <2>3. /\ log' \in Seq(RecordType) /\ Len(log') = Len(log) + 1
        /\ log'[Len(log')] = Intent(request[c], binding[c])
        /\ flushed' \in 0..Len(log') /\ entry' \in {"made", "flushed"} /\ Kept
    BY <1>l, <2>1, <2>2, Appending
  <2>4. LogTypes'
    BY <1>l, <2>1, <2>3 DEF LogTypes, asked, ResultLabels
  <2>5. IntentFact(c)'
    <3>1. Len(log') \in 1..Len(log') /\ IntentAt(Len(log), c)'
      <4>1. Len(log') \in 1..Len(log')
        BY <1>l, <2>3 DEF LogTypes
      <4>2. QED BY <2>1, <2>3, <4>1 DEF IntentAt, asked
    <3>2. c \notin changed
      BY <1>7, <2>1 DEF Intended
    <3>3. pc'[c] = "flushIntent" /\ changed' = changed
      BY <1>t, <2>1
    <3>4. QED
      BY <3>1, <3>2, <3>3
      DEF IntentFact, CutLabels, IntendedLabels, SteadyLabels, ResultLabels
  <2>6. QED BY <1>5, <1>t, <2>1, <2>3, <2>4, <2>5 DEF AuditLabels
<1>9. ASSUME NEW c \in Calls, WriteResult(c)
      PROVE  WriteInv'
  <2>1. /\ pc[c] = "recording" /\ pc' = [pc EXCEPT ![c] = "flushResult"]
        /\ log' = Append(log, Result(request[c], binding[c], outcome[c])) /\ OpenLog
        /\ entry = "flushed"
        /\ UNCHANGED <<asked, outcome, flushed, entry, changed>>
    BY <1>9, <1>l DEF WriteResult, At, Goto, OpenLog, IntentFact, SteadyLabels, ResultLabels
  <2>2. Result(request[c], binding[c], outcome[c]) \in RecordType
    BY RecordTypes, <1>l, <1>t, <2>1 DEF LogTypes, LockInv, LockTypes, ResultLabels
  <2>3. /\ log' \in Seq(RecordType) /\ flushed' \in 0..Len(log') /\ Kept
    BY <1>l, <2>1, <2>2, Appending
  <2>4. LogTypes'
    BY <1>l, <2>1, <2>3 DEF LogTypes, asked, ResultLabels
  <2>5. IntentFact(c)'
    <3>1. pc'[c] = "flushResult" /\ flushed' \in Nat
      BY <1>t, <2>1, <2>3
    <3>2. \E i \in 1..flushed' : IntentAt(i, c)'
      BY <1>6, <1>l, <2>1, <2>3, <3>1 DEF IntentFact, IntendedLabels, SteadyLabels, ResultLabels
    <3>3. QED BY <2>1, <3>1, <3>2 DEF IntentFact, CutLabels
  <2>6. Intended(c)
    BY <2>1 DEF Intended, IntendedLabels, SteadyLabels, ResultLabels
  <2>7. QED BY <1>5, <1>t, <2>1, <2>3, <2>4, <2>5, <2>6 DEF AuditLabels
<1>10. ASSUME NEW c \in Calls, ShortWrite(c)
      PROVE  WriteInv'
  <2>1. PICK r \in {Intent(request[c], binding[c]), Result(request[c], binding[c], outcome[c])} :
          /\ log' \in Cut(log, r) /\ OpenLog
          /\ UNCHANGED <<asked, outcome, flushed, changed>>
          /\ \/ /\ pc[c] = "admitting" /\ pc' = [pc EXCEPT ![c] = "cutIntent"]
                /\ r = Intent(request[c], binding[c])
             \/ pc[c] = "recording" /\ pc' = [pc EXCEPT ![c] = "cutResult"]
    BY <1>10 DEF ShortWrite, MayAppendIntent, At, Goto
  <2>2. [r EXCEPT !.whole = FALSE] \in RecordType /\ TornRecord \in RecordType
    BY RecordTypes, <1>l, <1>t, <2>1 DEF LogTypes, LockInv, LockTypes, ResultLabels
  <2>3. PICK e \in RecordType : log' = Append(log, e) /\ ~e.whole
    BY <2>1, <2>2 DEF Cut, TornRecord, Intent, Result
  <2>4. /\ log' \in Seq(RecordType) /\ flushed' \in 0..Len(log') /\ flushed' < Len(log')
        /\ entry' \in {"made", "flushed"} /\ Kept /\ ~log'[Len(log')].whole
    BY <1>l, <2>1, <2>3, Appending
  <2>5. LogTypes'
    BY <1>l, <1>t, <2>1, <2>4 DEF LogTypes, asked, ResultLabels
  <2>6. IntentFact(c)'
    <3>1. pc'[c] \in CutLabels /\ flushed' \in Nat
      BY <1>t, <2>1, <2>4 DEF CutLabels
    <3>2. (pc'[c] = "cutResult" => pc[c] = "recording") /\ changed' = changed
      BY <1>t, <2>1
    <3>3. pc'[c] = "cutResult" \/ c \in changed =>
            entry' = "flushed" /\ \E i \in 1..flushed' : IntentAt(i, c)'
      BY <1>6, <1>l, <2>1, <2>4, <3>1, <3>2
      DEF IntentFact, IntendedLabels, SteadyLabels, ResultLabels, Kept
    <3>4. QED
      BY <2>4, <3>1, <3>2, <3>3
      DEF IntentFact, CutLabels, IntendedLabels, SteadyLabels, ResultLabels
  <2>7. Intended(c)' => Intended(c)
    BY <1>t, <2>1 DEF Intended, IntendedLabels, SteadyLabels, ResultLabels
  <2>8. QED BY <1>5, <1>t, <2>1, <2>4, <2>5, <2>6, <2>7 DEF AuditLabels
<1>11. ASSUME NEW c \in Calls, CutOff(c)
      PROVE  WriteInv'
  <2>1. /\ pc[c] \in CutLabels /\ pc' = [pc EXCEPT ![c] = "answered"] /\ log' = Front(log)
        /\ UNCHANGED <<asked, outcome, flushed, entry, changed>>
    BY <1>11 DEF CutOff, Answer, At, Goto, CutLabels
  <2>2. flushed < Len(log) /\ ~log[Len(log)].whole
    BY <1>l, <2>1 DEF IntentFact
  <2>3. /\ log' \in Seq(RecordType) /\ flushed' \in 0..Len(log') /\ Kept
        /\ entry' = "none" => log' = <<>>
    BY <1>l, <2>1, <2>2, CuttingOff
  <2>4. LogTypes'
    BY <1>l, <2>1, <2>3 DEF LogTypes, asked, ResultLabels
  <2>5. IntentFact(c)'
    <3>1. pc'[c] = "answered" /\ flushed' \in Nat
      BY <1>t, <2>1, <2>3
    <3>2. c \in changed => \E i \in 1..flushed' : IntentAt(i, c)'
      BY <1>6, <1>l, <2>1, <2>3, <3>1 DEF IntentFact
    <3>3. QED
      BY <1>l, <2>1, <3>1, <3>2
      DEF IntentFact, CutLabels, IntendedLabels, SteadyLabels, ResultLabels
  <2>6. Intended(c)' => Intended(c)
    BY <1>t, <2>1 DEF Intended, IntendedLabels, SteadyLabels, ResultLabels
  <2>7. QED BY <1>5, <1>t, <2>1, <2>3, <2>4, <2>5, <2>6 DEF AuditLabels, CutLabels
<1>12. ASSUME NEW c \in Calls, FlushIntent(c) \/ SyncEntry(c) \/ FlushResult(c)
      PROVE  WriteInv'
  <2>1. /\ pc[c] \in {"flushIntent", "syncEntry", "flushResult"}
        /\ pc'[c] \in {"syncEntry", "execute", "answered"}
        /\ \A d \in Calls \ {c} : pc'[d] = pc[d]
        /\ UNCHANGED <<asked, log, outcome, changed>>
        /\ flushed' = Len(log) \/ (flushed' = flushed /\ pc[c] = "syncEntry")
        /\ entry' = "flushed"
    BY <1>12, <1>t DEF FlushIntent, SyncEntry, FlushResult, Flush, StartAction, Answer, At, Goto
  <2>2. flushed <= flushed' /\ flushed' \in 0..Len(log') /\ flushed' \in Nat
    BY <1>l, <2>1 DEF LogTypes
  <2>3. Kept
    BY <1>l, <2>1, <2>2 DEF Kept, LogTypes
  <2>4. LogTypes'
    BY <1>l, <1>t, <2>1, <2>2 DEF LogTypes, asked, ResultLabels
  <2>5. IntentFact(c)'
    <3>1. pc[c] = "flushIntent" => \E i \in 1..flushed' : IntentAt(i, c)'
      BY <1>6, <1>l, <2>1, <2>2, <2>3 DEF IntentFact
    <3>2. pc[c] # "flushIntent" \/ c \in changed => \E i \in 1..flushed' : IntentAt(i, c)'
      BY <1>6, <1>l, <2>1, <2>2, <2>3 DEF IntentFact, IntendedLabels, SteadyLabels, ResultLabels
    <3>3. QED BY <2>1, <3>1, <3>2 DEF IntentFact, CutLabels
  <2>6. Intended(c)
    BY <2>1 DEF Intended, IntendedLabels, SteadyLabels, ResultLabels
  <2>7. QED BY <1>5, <2>1, <2>3, <2>4, <2>5, <2>6 DEF AuditLabels
<1>13. ASSUME NEW c \in Calls, Call(c)
      PROVE  WriteInv'
  BY <1>13, <1>1, <1>2, <1>3, <1>4, <1>8, <1>9, <1>10, <1>11, <1>12 DEF Call
<1>14. ASSUME NEW p \in Processes, Start(p)
      PROVE  WriteInv'
  BY <1>14, <1>l, SameLog DEF Start, asked, audit, WriteInv
<1>15. CASE ReclaimTarget \/ ReclaimAudit
  BY <1>15, <1>l, SameLog DEF ReclaimTarget, ReclaimAudit, asked, audit, WriteInv
<1>16. CASE UNCHANGED vars
  BY <1>16, <1>l, SameLog DEF vars, asked, audit, WriteInv
<1>17. ASSUME NEW p \in Processes, Exit(p)
       PROVE  WriteInv'
  BY <1>17, <1>l, DyingStep DEF Exit, LogTypes
<1>18. CASE PowerLoss
  <2>1. PICK dying \in SUBSET Processes :
          Die(dying) /\ \A p \in Processes : life[p] = "alive" => p \in dying
    BY <1>18 DEF PowerLoss
  <2>2. \A c \in Calls : pc'[c] \notin TargetLabels
    <3>1. life \in [Processes -> {"unborn", "alive", "dead"}]
          /\ \A c \in Calls : ProcessOf[c] \in Processes
      BY <1>l, OperatorAssumption DEF LockInv, LockTypes
    <3>2. \A p \in Processes : life'[p] # "alive"
      BY <2>1, <3>1 DEF Die
    <3>3. QED BY <1>l, <3>1, <3>2 DEF LockInv, LockFact, Alive
  <2>3. QED BY <1>18, <1>l, <2>1, <2>2, LogSurvives, DyingStep
<1>19. QED
  BY <1>13, <1>14, <1>15, <1>16, <1>17, <1>18 DEF Next

LEMMA WriteInvariance ==
  ASSUME EntryFollows
  PROVE  Spec => []WriteInv
BY InitWrite, WriteNext, PTL DEF Spec

\* If the flush of a new log makes its directory entry permanent, an action starts
\* only when its intent is on disk for good.
THEOREM IntentOnDiskHolds ==
  ASSUME EntryFollows
  PROVE  Spec => []IntentOnDisk
<1>1. WriteInv => IntentOnDisk
  BY DEF WriteInv, IntentFact, IntentAt, IntentOnDisk, Acting, At, IntendedLabels, SteadyLabels
<1>2. QED BY <1>1, WriteInvariance, PTL

\* Under the same assumption the action of a request runs at most once, over
\* retries, other processes, failed and short writes, deaths and power losses.
THEOREM AtMostOnceHolds ==
  ASSUME EntryFollows
  PROVE  Spec => []AtMostOnce
<1>1. WriteInv => AtMostOnce
  BY DEF WriteInv, LogTypes, Intended, AtMostOnce
<1>2. QED BY <1>1, WriteInvariance, PTL

-----------------------------------------------------------------------------
(* Types *)

LEMMA LeastOfSet ==
  ASSUME NEW T \in SUBSET Nat, T # {}
  PROVE  \E n \in T : \A m \in T : n <= m
<1> DEFINE less == {ss \in Nat \X Nat : ss[1] < ss[2]}
<1>1. IsWellFoundedOn(less, Nat)
  BY NatLessThanWellFounded, Zenon DEF OpToRel
<1>2. \A m, n \in Nat : m < n => <<m, n>> \in less
  OBVIOUS
<1> HIDE DEF less
<1>3. PICK n \in T : \A m \in T : ~ (<<m, n>> \in less)
  BY <1>1, WFMin, Zenon
<1>4. ASSUME NEW m \in T
      PROVE  n <= m
  <2>1. <<m, n>> \notin less
    BY <1>3
  <2>2. m \in Nat /\ n \in Nat /\ (m < n => <<m, n>> \in less)
    BY <1>2
  <2>3. QED BY <2>1, <2>2
<1>5. QED BY <1>4

\* Where a request has records of a phase, the first of them is one of them.
LEMMA FirstIsOne ==
  ASSUME LogTypes, NEW places \in SUBSET (DOMAIN log), places # {}
  PROVE  \E i \in places : First(places) = log[i]
<1>1. places \in SUBSET Nat
  BY DEF LogTypes
<1>2. \E i \in places : \A j \in places : i <= j
  BY <1>1, LeastOfSet
<1>3. QED BY <1>2 DEF First

\* A replay answers what has been recorded, or that the run left no result.
LEMMA ReplayOfRecords ==
  ASSUME LogTypes, NEW c \in Calls, Known(request[c])
  PROVE  /\ Replay(c) \in {"request_mismatch", "reconcile_required"} \cup Recorded
         /\ Replay(c) \in Recorded =>
              \E i \in DOMAIN log :
                /\ log[i].phase = "result" /\ log[i].request = request[c]
                /\ log[i].status = Replay(c)
                /\ \/ log[i].binding = binding[c] /\ Places(request[c], "intent") = {}
                   \/ \E j \in DOMAIN log :
                        /\ log[j].phase = "intent" /\ log[j].request = request[c]
                        /\ log[j].binding = binding[c]
<1> DEFINE intents == Places(request[c], "intent")
           results == Places(request[c], "result")
<1>1. intents \in SUBSET (DOMAIN log) /\ results \in SUBSET (DOMAIN log)
  BY DEF Places
<1>2. intents # {} \/ results # {}
  <2>1. PICK i \in DOMAIN log : log[i].phase # "torn" /\ log[i].request = request[c]
    BY DEF Known
  <2>2. log[i].phase \in {"torn", "intent", "result"}
    BY DEF LogTypes, RecordType, TornRecord
  <2>3. QED BY <2>1, <2>2 DEF Places
<1>3. intents # {} => \E j \in intents : First(intents) = log[j]
  BY <1>1, FirstIsOne
<1>4. results # {} => \E i \in results : First(results) = log[i]
  BY <1>1, FirstIsOne
<1>5. \A i \in DOMAIN log : log[i].phase = "result" => log[i].status \in Recorded
  BY DEF LogTypes, RecordType, TornRecord
<1>6. CASE First(IF intents # {} THEN intents ELSE results).binding # binding[c]
  BY <1>6 DEF Replay, Recorded
<1>7. CASE First(IF intents # {} THEN intents ELSE results).binding = binding[c] /\ results = {}
  BY <1>7 DEF Replay, Recorded
<1>8. CASE First(IF intents # {} THEN intents ELSE results).binding = binding[c] /\ results # {}
  <2>1. Replay(c) = First(results).status
    BY <1>8 DEF Replay
  <2>2. PICK i \in results : First(results) = log[i]
    BY <1>4, <1>8
  <2>3. /\ i \in DOMAIN log /\ log[i].phase = "result" /\ log[i].request = request[c]
        /\ log[i].status = Replay(c) /\ Replay(c) \in Recorded
    BY <1>5, <2>1, <2>2 DEF Places
  <2>4. CASE intents = {}
    BY <1>8, <2>2, <2>3, <2>4
  <2>5. CASE intents # {}
    <3>1. PICK j \in intents : First(intents) = log[j]
      BY <1>3, <2>5
    <3>2. /\ j \in DOMAIN log /\ log[j].phase = "intent" /\ log[j].request = request[c]
          /\ log[j].binding = binding[c]
      BY <1>8, <2>5, <3>1 DEF Places
    <3>3. QED BY <2>3, <3>2
  <2>6. QED BY <2>4, <2>5
<1>9. QED BY <1>6, <1>7, <1>8

LEMMA TypeInvLog == TypeInv => LogTypes
BY DEF TypeInv, TypeOK, LogTypes, LogFact

LEMMA InitTypes == Init => TypeInv
BY InitLocks
DEF Init, TypeInv, TypeOK, LogFact, Labels, ResultLabels, CutLabels, IntendedLabels, SteadyLabels

\* A step of c, which has the audit lock if it touches the log.
LEMMA TypeStep ==
  ASSUME TypeInv, LockInv', TypeOK', NEW c \in Calls, LogFact(c)',
         \A d \in Calls \ {c} : pc'[d] = pc[d] /\ outcome'[d] = outcome[d],
         entry # "none" => entry' # "none",
         UNCHANGED <<log, flushed>> \/ pc[c] \in AuditLabels
  PROVE  TypeInv'
<1>1. ASSUME NEW d \in Calls \ {c}
      PROVE  LogFact(d)'
  <2>1. pc[d] \in CutLabels => UNCHANGED <<log, flushed>>
    BY DEF TypeInv, LockInv, LockFact, CutLabels, AuditLabels
  <2>2. LogFact(d) /\ pc'[d] = pc[d] /\ outcome'[d] = outcome[d]
    BY DEF TypeInv
  <2>3. QED BY <2>1, <2>2 DEF LogFact
<1>2. QED BY <1>1 DEF TypeInv

LEMMA TypeNext == TypeInv /\ [Next]_vars => TypeInv'
<1> SUFFICES ASSUME TypeInv, [Next]_vars
             PROVE  TypeInv'
  OBVIOUS
<1>l. LockInv /\ LockInv' /\ LogTypes /\ TypeOK /\ \A c \in Calls : LogFact(c) /\ LockFact(c)
  BY LockNext, TypeInvLog DEF TypeInv, LockInv
<1>s. \A c \in Calls : Target(c) \in Targets /\ Slot(c) \in Processes \X Targets
  BY <1>l, OperatorAssumption DEF TypeOK, Target, Targets, Slot
<1>1. ASSUME NEW c \in Calls, UNCHANGED <<log, flushed, entry>>, TypeOK', LogFact(c)',
             \A d \in Calls \ {c} : pc'[d] = pc[d] /\ outcome'[d] = outcome[d]
      PROVE  TypeInv'
  BY <1>1, <1>l, TypeStep
<1>2. ASSUME NEW c \in Calls, Begin(c) \/ TargetBusy(c) \/ StateUnavailable(c) \/ LockTarget(c)
      PROVE  TypeInv'
  <2> USE <1>l, <1>s
      DEF TypeOK, LogFact, ResultLabels, SteadyLabels, IntendedLabels, CutLabels, Labels, Answers,
          audit, asked, locks, At, Goto
  <2>1. CASE Begin(c)
    BY <2>1, <1>1 DEF Begin
  <2>2. CASE TargetBusy(c)
    BY <2>2, <1>1 DEF TargetBusy, Refuse
  <2>3. CASE StateUnavailable(c)
    BY <2>3, <1>1 DEF StateUnavailable, Refuse
  <2>4. CASE LockTarget(c)
    BY <2>4, <1>1 DEF LockTarget
  <2>5. QED BY <1>2, <2>1, <2>2, <2>3, <2>4
<1>3. ASSUME NEW c \in Calls,
             Admit(c) \/ AdmissionUnavailable(c) \/ AdmissionFails(c) \/ AnswerKnown(c)
      PROVE  TypeInv'
  <2> USE <1>l, <1>s
      DEF TypeOK, LogFact, ResultLabels, SteadyLabels, IntendedLabels, CutLabels, Labels,
          audit, asked, locks, At, Goto
  <2>1. CASE Admit(c)
    BY <2>1, <1>1 DEF Admit, LockAudit
  <2>2. CASE AdmissionUnavailable(c)
    BY <2>2, <1>1 DEF AdmissionUnavailable, Answer, Answers
  <2>3. CASE AdmissionFails(c)
    BY <2>3, <1>1 DEF AdmissionFails, Answer, Answers
  <2>4. CASE AnswerKnown(c)
    <3>1. Replay(c) \in Answers
      BY <2>4, ReplayOfRecords DEF AnswerKnown, Answers
    <3>2. QED BY <2>4, <3>1, <1>1 DEF AnswerKnown, Answer
  <2>5. QED BY <1>3, <2>1, <2>2, <2>3, <2>4
<1>4. ASSUME NEW c \in Calls,
             \/ ActionApplies(c) \/ ActionRefuses(c) \/ ActionReturns(c) \/ ActionThrows(c)
             \/ Record(c) \/ RecordFails(c)
      PROVE  TypeInv'
  <2> USE <1>l, <1>s
      DEF TypeOK, LogFact, ResultLabels, SteadyLabels, IntendedLabels, CutLabels, Labels, Answers,
          Recorded, audit, asked, locks, At, Goto
  <2>1. CASE ActionApplies(c)
    <3>1. TypeOK' /\ UNCHANGED <<log, flushed, entry, outcome>>
      BY <2>1 DEF ActionApplies
    <3>2. pc'[c] = "applied" /\ pc[c] = "execute" /\ \A d \in Calls \ {c} : pc'[d] = pc[d]
      BY <2>1 DEF ActionApplies
    <3>3. LogFact(c)'
      BY <3>1, <3>2
    <3>4. QED BY <3>1, <3>2, <3>3, <1>1
  <2>2. CASE ActionRefuses(c)
    BY <2>2, <1>1 DEF ActionRefuses
  <2>3. CASE ActionReturns(c)
    BY <2>3, <1>1 DEF ActionReturns
  <2>4. CASE ActionThrows(c)
    BY <2>4, <1>1 DEF ActionThrows, Answer
  <2>5. CASE Record(c)
    BY <2>5, <1>1 DEF Record, LockAudit
  <2>6. CASE RecordFails(c)
    BY <2>6, <1>1 DEF RecordFails, Answer
  <2>7. QED BY <1>4, <2>1, <2>2, <2>3, <2>4, <2>5, <2>6
<1>5. ASSUME NEW c \in Calls, pc[c] \in AuditLabels,
             log' \in Seq(RecordType), flushed' \in 0..Len(log'), entry' \in {"made", "flushed"},
             \A i \in 1..(Len(log') - 1) : log'[i].whole,
             UNCHANGED <<life, asked, changed>>,
             \A d \in Calls \ {c} : pc'[d] = pc[d] /\ outcome'[d] = outcome[d],
             answer' \in [Calls -> Answers \cup {"none"}], made' \in [Calls -> BOOLEAN],
             pc' \in [Calls -> Labels], outcome' \in [Calls -> Recorded \cup {"none"}],
             targetOwner' \in [Targets -> Calls \cup {NoCall}],
             auditOwner' \in Calls \cup {NoCall}, active' \subseteq active,
             pc'[c] \in CutLabels => flushed' < Len(log'),
             pc'[c] \in ResultLabels => outcome'[c] \in Recorded
      PROVE  TypeInv'
  <2>1. TypeOK'
    BY <1>5, <1>l DEF TypeOK, asked
  <2>2. LogFact(c)'
    BY <1>5 DEF LogFact
  <2>3. QED BY <1>5, <1>l, <2>1, <2>2, TypeStep
<1>6. ASSUME NEW e \in RecordType, log' = Append(log, e), OpenLog, UNCHANGED flushed, Appendable
      PROVE  /\ log' \in Seq(RecordType) /\ flushed' \in 0..Len(log') /\ flushed' < Len(log')
             /\ entry' \in {"made", "flushed"}
             /\ \A i \in 1..(Len(log') - 1) : log'[i].whole
  <2>1. /\ log' \in Seq(RecordType) /\ Len(log') = Len(log) + 1
        /\ flushed' \in 0..Len(log') /\ flushed' < Len(log') /\ entry' \in {"made", "flushed"}
    BY <1>6, <1>l, Appending
  <2>2. \A i \in 1..Len(log) : log[i].whole
    BY <1>6, <1>l DEF TypeOK, Appendable
  <2>3. \A i \in 1..Len(log) : log'[i] = log[i]
    BY <1>6, <1>l DEF TypeOK
  <2>4. Len(log) \in Nat
    BY <1>l DEF LogTypes
  <2>5. QED BY <2>1, <2>2, <2>3, <2>4
<1>7. ASSUME NEW c \in Calls, WriteIntent(c)
      PROVE  TypeInv'
  <2>1. /\ pc[c] = "admitting" /\ pc' = [pc EXCEPT ![c] = "flushIntent"]
        /\ log' = Append(log, Intent(request[c], binding[c])) /\ OpenLog /\ Appendable
        /\ made' = [made EXCEPT ![c] = (entry = "none")]
        /\ UNCHANGED <<life, asked, outcome, answer, targetOwner, auditOwner, active, flushed, changed>>
    BY <1>7 DEF WriteIntent, MayAppendIntent, At, Goto, locks
  <2>2. Intent(request[c], binding[c]) \in RecordType
    BY RecordTypes, <1>l DEF TypeOK
  <2>3. /\ log' \in Seq(RecordType) /\ flushed' \in 0..Len(log') /\ entry' \in {"made", "flushed"}
        /\ \A i \in 1..(Len(log') - 1) : log'[i].whole
    BY <1>6, <2>1, <2>2
  <2>4. /\ pc' \in [Calls -> Labels] /\ made' \in [Calls -> BOOLEAN] /\ pc'[c] = "flushIntent"
        /\ \A d \in Calls \ {c} : pc'[d] = pc[d]
    BY <1>l, <2>1 DEF TypeOK, Labels
  <2>5. pc[c] \in AuditLabels /\ pc'[c] \notin CutLabels \cup ResultLabels
    BY <2>1, <2>4 DEF AuditLabels, CutLabels, ResultLabels
  <2>6. QED BY <1>5, <1>l, <2>1, <2>3, <2>4, <2>5 DEF TypeOK
<1>8. ASSUME NEW c \in Calls, WriteResult(c)
      PROVE  TypeInv'
  <2>1. /\ pc[c] = "recording" /\ pc' = [pc EXCEPT ![c] = "flushResult"]
        /\ log' = Append(log, Result(request[c], binding[c], outcome[c])) /\ Appendable
        /\ UNCHANGED <<life, asked, outcome, answer, targetOwner, auditOwner, active, flushed, entry, made, changed>>
    BY <1>8 DEF WriteResult, At, Goto, locks
  <2>2. outcome[c] \in Recorded /\ entry # "none"
    BY <1>l, <2>1 DEF LogFact, ResultLabels, IntendedLabels, SteadyLabels
  <2>3. Result(request[c], binding[c], outcome[c]) \in RecordType /\ OpenLog
    BY RecordTypes, <1>l, <2>1, <2>2 DEF TypeOK, OpenLog
  <2>4. /\ log' \in Seq(RecordType) /\ flushed' \in 0..Len(log') /\ entry' \in {"made", "flushed"}
        /\ \A i \in 1..(Len(log') - 1) : log'[i].whole
    BY <1>6, <2>1, <2>3
  <2>5. /\ pc' \in [Calls -> Labels] /\ pc'[c] = "flushResult"
        /\ \A d \in Calls \ {c} : pc'[d] = pc[d]
    BY <1>l, <2>1 DEF TypeOK, Labels
  <2>6. pc[c] \in AuditLabels /\ pc'[c] \notin CutLabels
    BY <2>1, <2>5 DEF AuditLabels, CutLabels
  <2>7. QED BY <1>5, <1>l, <2>1, <2>2, <2>4, <2>5, <2>6 DEF TypeOK
<1>9. ASSUME NEW c \in Calls, ShortWrite(c)
      PROVE  TypeInv'
  <2>1. PICK r \in {Intent(request[c], binding[c]), Result(request[c], binding[c], outcome[c])} :
          /\ log' \in Cut(log, r) /\ OpenLog /\ Appendable
          /\ UNCHANGED <<life, asked, outcome, answer, targetOwner, auditOwner, active, flushed, made, changed>>
          /\ \/ /\ pc[c] = "admitting" /\ pc' = [pc EXCEPT ![c] = "cutIntent"]
                /\ r = Intent(request[c], binding[c])
             \/ pc[c] = "recording" /\ pc' = [pc EXCEPT ![c] = "cutResult"]
    BY <1>9 DEF ShortWrite, MayAppendIntent, At, Goto, locks
  <2>2. pc[c] = "recording" => outcome[c] \in Recorded
    BY <1>l DEF LogFact, ResultLabels
  <2>3. [r EXCEPT !.whole = FALSE] \in RecordType /\ TornRecord \in RecordType
    BY RecordTypes, <1>l, <2>1, <2>2 DEF TypeOK
  <2>4. PICK e \in RecordType : log' = Append(log, e)
    BY <2>1, <2>3 DEF Cut
  <2>5. /\ log' \in Seq(RecordType) /\ flushed' \in 0..Len(log') /\ flushed' < Len(log')
        /\ entry' \in {"made", "flushed"}
        /\ \A i \in 1..(Len(log') - 1) : log'[i].whole
    BY <1>6, <2>1, <2>4
  <2>6. /\ pc' \in [Calls -> Labels] /\ pc[c] \in AuditLabels
        /\ \A d \in Calls \ {c} : pc'[d] = pc[d]
        /\ pc'[c] \in ResultLabels => pc[c] = "recording"
    BY <1>l, <2>1 DEF TypeOK, Labels, AuditLabels, ResultLabels
  <2>7. QED BY <1>5, <1>l, <2>1, <2>2, <2>5, <2>6 DEF TypeOK
<1>10. ASSUME NEW c \in Calls, CutOff(c)
       PROVE  TypeInv'
  <2>1. /\ pc[c] \in CutLabels /\ pc' = [pc EXCEPT ![c] = "answered"] /\ log' = Front(log)
        /\ active' \subseteq active /\ targetOwner' = [targetOwner EXCEPT ![Target(c)] = NoCall]
        /\ auditOwner' = NoCall /\ \E reply \in Answers : answer' = [answer EXCEPT ![c] = reply]
        /\ UNCHANGED <<life, asked, outcome, flushed, entry, made, changed>>
    BY <1>10 DEF CutOff, Answer, At, Goto, CutLabels, Answers
  <2>2. flushed < Len(log) /\ entry # "none" /\ Len(log) \in Nat /\ flushed \in Nat
    BY <1>l, <2>1 DEF LogFact, LogTypes
  <2>3. PICK n \in 0..Len(log) : n = Len(log) - 1
    <3>1. Len(log) - 1 \in 0..Len(log)
      BY <2>2
    <3>2. QED BY <3>1, Zenon
  <2>4. log' = SubSeq(log, 1, n) /\ log \in Seq(RecordType)
    BY <1>l, <2>1, <2>3 DEF Front, TypeOK
  <2>5. /\ SubSeq(log, 1, n) \in Seq(RecordType) /\ Len(SubSeq(log, 1, n)) = n
        /\ \A i \in 1..n : SubSeq(log, 1, n)[i] = log[i]
    BY <2>4, PrefixOf
  <2>6. /\ log' \in Seq(RecordType) /\ Len(log') = n /\ \A i \in 1..n : log'[i] = log[i]
    BY <2>4, <2>5, Zenon
  <2>7. /\ flushed' \in 0..Len(log') /\ \A i \in 1..(Len(log') - 1) : log'[i].whole
    BY <1>l, <2>1, <2>2, <2>3, <2>6 DEF TypeOK
  <2>8. /\ pc' \in [Calls -> Labels] /\ pc[c] \in AuditLabels /\ pc'[c] = "answered"
        /\ answer' \in [Calls -> Answers \cup {"none"}]
        /\ targetOwner' \in [Targets -> Calls \cup {NoCall}]
        /\ \A d \in Calls \ {c} : pc'[d] = pc[d]
    BY <1>l, <2>1 DEF TypeOK, Labels, AuditLabels, CutLabels
  <2>9. pc'[c] \notin CutLabels \cup ResultLabels /\ entry' \in {"made", "flushed"}
    BY <1>l, <2>1, <2>2, <2>8 DEF CutLabels, ResultLabels, TypeOK
  <2>10. QED BY <1>5, <1>l, <2>1, <2>6, <2>7, <2>8, <2>9 DEF TypeOK
<1>11. ASSUME NEW c \in Calls, FlushIntent(c) \/ SyncEntry(c) \/ FlushResult(c)
       PROVE  TypeInv'
  <2>1. /\ pc[c] \in {"flushIntent", "syncEntry", "flushResult"}
        /\ \E label \in {"syncEntry", "execute", "answered"} : pc' = [pc EXCEPT ![c] = label]
        /\ UNCHANGED <<life, asked, log, outcome, made, changed>>
        /\ flushed' = Len(log) \/ flushed' = flushed
        /\ entry' = entry \/ entry' = "flushed"
        /\ active' \subseteq active /\ auditOwner' \in {auditOwner, NoCall}
        /\ \/ UNCHANGED targetOwner
           \/ targetOwner' = [targetOwner EXCEPT ![Target(c)] = NoCall]
        /\ UNCHANGED answer \/ (pc[c] = "flushResult" /\ answer' = [answer EXCEPT ![c] = outcome[c]])
    BY <1>11 DEF FlushIntent, SyncEntry, FlushResult, Flush, StartAction, Answer, At, Goto, locks
  <2>2. entry # "none" /\ (pc[c] = "flushResult" => outcome[c] \in Recorded)
    BY <1>l, <2>1 DEF LogFact, IntendedLabels, SteadyLabels, ResultLabels
  <2>3. /\ flushed' \in 0..Len(log') /\ entry' \in {"made", "flushed"} /\ log' \in Seq(RecordType)
        /\ \A i \in 1..(Len(log') - 1) : log'[i].whole
    BY <1>l, <2>1, <2>2 DEF TypeOK
  <2>4. /\ pc' \in [Calls -> Labels] /\ pc[c] \in AuditLabels
        /\ pc'[c] \in {"syncEntry", "execute", "answered"}
        /\ targetOwner' \in [Targets -> Calls \cup {NoCall}]
        /\ \A d \in Calls \ {c} : pc'[d] = pc[d]
    BY <1>l, <2>1 DEF TypeOK, Labels, AuditLabels
  <2>5. answer' \in [Calls -> Answers \cup {"none"}]
    BY <1>l, <2>1, <2>2 DEF TypeOK, Answers
  <2>6. auditOwner' \in Calls \cup {NoCall} /\ pc'[c] \notin CutLabels \cup ResultLabels
    BY <1>l, <2>1, <2>4 DEF TypeOK, CutLabels, ResultLabels
  <2>7. QED BY <1>5, <1>l, <2>1, <2>3, <2>4, <2>5, <2>6 DEF TypeOK
<1>12. ASSUME NEW c \in Calls, Call(c)
       PROVE  TypeInv'
  BY <1>12, <1>2, <1>3, <1>4, <1>7, <1>8, <1>9, <1>10, <1>11 DEF Call
<1>13. ASSUME UNCHANGED <<pc, asked, outcome, answer, audit, changed>>,
              life' \in [Processes -> {"unborn", "alive", "dead"}],
              targetOwner' \in [Targets -> Calls \cup {NoCall}],
              auditOwner' \in Calls \cup {NoCall}, UNCHANGED active
       PROVE  TypeInv'
  BY <1>13, <1>l DEF TypeInv, TypeOK, LogFact, asked, audit
<1>14. ASSUME NEW p \in Processes, Start(p)
       PROVE  TypeInv'
  BY <1>13, <1>14, <1>l DEF Start, locks, TypeOK
<1>15. CASE ReclaimTarget \/ ReclaimAudit
  BY <1>13, <1>15, <1>l DEF ReclaimTarget, ReclaimAudit, audit, TypeOK
<1>16. CASE UNCHANGED vars
  BY <1>13, <1>16, <1>l DEF vars, locks, TypeOK
<1>17. ASSUME NEW dying \in SUBSET Processes, Die(dying),
              log' \in Seq(RecordType), \A i \in 1..(Len(log') - 1) : log'[i].whole,
              flushed' \in 0..Len(log'), entry' \in {"none", "made", "flushed"},
              entry' = "none" => log' = <<>>,
              \/ UNCHANGED <<log, flushed, entry>>
              \/ \A c \in Calls : pc'[c] \notin TargetLabels
       PROVE  TypeInv'
  <2>1. /\ life' \in [Processes -> {"unborn", "alive", "dead"}] /\ pc' \in [Calls -> Labels]
        /\ outcome' \in [Calls -> Recorded \cup {"none"}] /\ made' \in [Calls -> BOOLEAN]
        /\ active' \subseteq active
        /\ \A c \in Calls : pc'[c] = "lost" \/ (pc'[c] = pc[c] /\ outcome'[c] = outcome[c])
        /\ UNCHANGED <<request, binding, answer, targetOwner, auditOwner, changed>>
    BY <1>17, <1>l DEF Die, TypeOK, Labels, asked
  <2>2. TypeOK'
    BY <1>17, <1>l, <2>1 DEF TypeOK
  <2>3. ASSUME NEW c \in Calls
        PROVE  LogFact(c)'
    <3>1. CASE UNCHANGED <<log, flushed, entry>>
      BY <1>l, <2>1, <3>1 DEF LogFact, CutLabels, ResultLabels, IntendedLabels, SteadyLabels
    <3>2. CASE pc'[c] \notin TargetLabels
      BY <3>2
      DEF LogFact, TargetLabels, AuditLabels, CutLabels, ResultLabels, IntendedLabels, SteadyLabels
    <3>3. QED BY <1>17, <3>1, <3>2
  <2>4. QED BY <1>l, <2>2, <2>3 DEF TypeInv
<1>18. ASSUME NEW p \in Processes, Exit(p)
       PROVE  TypeInv'
  BY <1>17, <1>18, <1>l DEF Exit, TypeOK
<1>19. CASE PowerLoss
  <2>1. PICK dying \in SUBSET Processes :
          Die(dying) /\ \A p \in Processes : life[p] = "alive" => p \in dying
    BY <1>19 DEF PowerLoss
  <2>2. \A c \in Calls : pc'[c] \notin TargetLabels
    <3>1. life \in [Processes -> {"unborn", "alive", "dead"}]
          /\ \A c \in Calls : ProcessOf[c] \in Processes
      BY <1>l, OperatorAssumption DEF LockInv, LockTypes
    <3>2. \A p \in Processes : life'[p] # "alive"
      BY <2>1, <3>1 DEF Die
    <3>3. QED BY <1>l, <3>1, <3>2 DEF LockInv, LockFact, Alive
  <2>3. \A i \in 1..(Len(log') - 1) : log'[i].whole
    BY <1>19, <1>l, SurvivorsWhole DEF PowerLoss, TypeOK
  <2>4. QED BY <1>17, <1>19, <1>l, <2>1, <2>2, <2>3, LogSurvives
<1>20. QED
  BY <1>12, <1>14, <1>15, <1>16, <1>18, <1>19 DEF Next

\* The calls, the locks and the audit log stay well typed, whether or not the flush
\* of a new file makes its directory entry permanent: an append never follows a
\* record that lacks its newline (appendOperatorAuditRecord), and a replay answers
\* what is recorded (readOperatorAuditRequest).
THEOREM OperatorTypeCorrect == Spec => []TypeOK
<1>1. TypeInv => TypeOK
  BY DEF TypeInv
<1>2. QED BY <1>1, InitTypes, TypeNext, PTL DEF Spec

-----------------------------------------------------------------------------
(* What callers are told *)

LEMMA InitAnswers == Init => AnswerInv
BY InitTypes, InitWrite
DEF Init, AnswerInv, OneIntent, ResultSo, AnswerSo, CallFact, ResultLabels, Recorded

LEMMA SettledIsKnown ==
  ASSUME LogTypes, NEW r, NEW b, Settled(r, b)
  PROVE  Known(r)
BY DEF Settled, Known, Intent, LogTypes

\* A step of c that keeps the log and starts no run of a request that is known.
Keeps(c) ==
  /\ Kept /\ UNCHANGED asked
  /\ \A d \in Calls \ {c} : pc'[d] = pc[d] /\ outcome'[d] = outcome[d] /\ answer'[d] = answer[d]
  /\ changed' = changed \/ (pc[c] = "execute" /\ changed' = changed \cup {c})
  /\ pc'[c] \in EarlyLabels => pc[c] \in EarlyLabels \/ ~Known(request[c])

LEMMA SettledStays ==
  ASSUME LogTypes, LogTypes', Kept, NEW r, NEW b, Settled(r, b)
  PROVE  Settled(r, b)'
<1>1. PICK i \in 1..flushed : log[i] = Intent(r, b)
  BY DEF Settled
<1>2. flushed \in Nat /\ flushed <= Len(log) /\ Len(log) \in Nat /\ flushed' \in Nat
  BY DEF LogTypes
<1>3. i \in 1..Len(log) /\ log[i].whole /\ i \in 1..flushed'
  BY <1>1, <1>2 DEF Intent, Kept
<1>4. log'[i] = Intent(r, b) /\ entry' = "flushed"
  BY <1>1, <1>3 DEF Kept, Settled
<1>5. QED BY <1>3, <1>4 DEF Settled, Intent

LEMMA SoStays ==
  ASSUME LogTypes, LogTypes', NEW c \in Calls, Keeps(c),
         NEW r, NEW b, NEW status, SoForGood(r, b, status)
  PROVE  SoForGood(r, b, status)'
<1>1. Settled(r, b)' /\ Known(r)
  BY SettledStays, SettledIsKnown DEF SoForGood, Keeps
<1>2. \A d \in Calls : request'[d] = r => pc'[d] \notin EarlyLabels
  BY <1>1 DEF SoForGood, Keeps, asked
<1>3. status = "done" => \E d \in changed' : request'[d] = r /\ binding'[d] = b
  BY DEF SoForGood, Keeps, asked
<1>4. status = "refused" => \A d \in changed' : request'[d] # r
  BY DEF SoForGood, Keeps, asked, EarlyLabels
<1>5. QED BY <1>1, <1>2, <1>3, <1>4 DEF SoForGood

\* The calls that take no step, and what was recorded before.
LEMMA AnswerStep ==
  ASSUME AnswerInv, TypeInv', WriteInv', NEW c \in Calls, Keeps(c), CallFact(c)',
         UNCHANGED log \/ (OneIntent' /\ \A i \in DOMAIN log' : ResultSo(i)'),
         (answer'[c] = answer[c] /\ changed' = changed) \/ AnswerSo(c)'
  PROVE  AnswerInv'
<1>l. LogTypes /\ LogTypes'
  BY DEF AnswerInv, WriteInv
<1>1. OneIntent' /\ \A i \in DOMAIN log' : ResultSo(i)'
  <2>1. CASE UNCHANGED log
    <3>1. OneIntent'
      BY <2>1 DEF AnswerInv, OneIntent
    <3>2. ASSUME NEW i \in DOMAIN log', log'[i].phase = "result"
          PROVE  SoForGood(log[i].request, log[i].binding, log[i].status)'
      <4>1. PICK r, b, status :
              r = log'[i].request /\ b = log'[i].binding /\ status = log'[i].status
        OBVIOUS
      <4>2. SoForGood(r, b, status)
        BY <2>1, <3>2, <4>1 DEF AnswerInv, ResultSo
      <4>3. SoForGood(r, b, status)'
        BY <1>l, <4>2, SoStays
      <4>4. QED BY <4>1, <4>3 DEF SoForGood, Settled
    <3>3. QED BY <3>1, <3>2 DEF ResultSo
  <2>2. QED BY <2>1
<1>2. ASSUME NEW d \in Calls, answer'[d] = answer[d], d \in changed' => d \in changed
      PROVE  AnswerSo(d)'
  <2>1. ASSUME answer[d] \in Recorded
        PROVE  SoForGood(request[d], binding[d], answer[d])'
    <3>1. PICK r, b, status : r = request[d] /\ b = binding[d] /\ status = answer[d]
      OBVIOUS
    <3>2. SoForGood(r, b, status)
      BY <2>1, <3>1 DEF AnswerInv, AnswerSo
    <3>3. SoForGood(r, b, status)'
      BY <1>l, <3>2, SoStays
    <3>4. r = request'[d] /\ b = binding'[d] /\ status = answer'[d]
      BY <1>2, <3>1 DEF Keeps, asked
    <3>5. QED BY <3>3, <3>4 DEF SoForGood, Settled
  <2>2. QED BY <1>2, <2>1 DEF AnswerInv, AnswerSo
<1>3. ASSUME NEW d \in Calls \ {c}
      PROVE  CallFact(d)' /\ AnswerSo(d)'
  <2>1. pc'[d] = pc[d] /\ outcome'[d] = outcome[d] /\ answer'[d] = answer[d]
        /\ (d \in changed' <=> d \in changed)
    BY DEF Keeps
  <2>2. QED BY <1>2, <2>1 DEF AnswerInv, CallFact
<1>4. QED BY <1>1, <1>2, <1>3 DEF AnswerInv

\* A run that is over, and whose outcome nobody else has, is so for good.
LEMMA OwnOutcome ==
  ASSUME AnswerInv, NEW c \in Calls, pc[c] \in ResultLabels
  PROVE  /\ Settled(request[c], binding[c]) /\ outcome[c] \in Recorded
         /\ outcome[c] = "done" => c \in changed
         /\ outcome[c] = "refused" => \A d \in changed : request[d] # request[c]
         /\ \A d \in Calls \ {c} : request[d] = request[c] => ~ Intended(d)
<1>1. Intended(c) /\ CallFact(c) /\ IntentFact(c) /\ outcome[c] \in Recorded
  BY DEF AnswerInv, WriteInv, LogTypes, Intended, IntendedLabels, SteadyLabels
<1>2. Settled(request[c], binding[c])
  BY <1>1 DEF IntentFact, IntentAt, Settled, IntendedLabels, SteadyLabels, ResultLabels
<1>3. \A d \in Calls \ {c} : request[d] = request[c] => ~ Intended(d)
  BY <1>1 DEF AnswerInv, WriteInv
<1>4. changed \subseteq Calls
  BY DEF AnswerInv, WriteInv, LogTypes
<1>5. outcome[c] = "refused" => \A d \in changed : request[d] # request[c]
  BY <1>1, <1>3, <1>4 DEF CallFact, Intended
<1>6. QED BY <1>1, <1>2, <1>3, <1>5 DEF CallFact

\* The record that a step appends is an intent of a new request or c's own result.
LEMMA AppendStep ==
  ASSUME AnswerInv, TypeInv', WriteInv', NEW c \in Calls, Keeps(c), CallFact(c)',
         NEW e \in RecordType, log' = Append(log, e),
         e.phase = "intent" => ~Known(e.request),
         e.phase = "result" =>
           /\ e.request = request[c] /\ e.binding = binding[c] /\ e.status = outcome[c]
           /\ pc[c] \in ResultLabels /\ pc'[c] \notin EarlyLabels,
         UNCHANGED <<answer, outcome, changed>>
  PROVE  AnswerInv'
<1>l. LogTypes /\ LogTypes'
  BY DEF AnswerInv, WriteInv
<1>0. /\ Len(log) \in Nat /\ DOMAIN log = 1..Len(log) /\ DOMAIN log' = 1..(Len(log) + 1)
      /\ log'[Len(log) + 1] = e /\ \A i \in 1..Len(log) : log'[i] = log[i]
  BY <1>l DEF LogTypes
<1>1. OneIntent'
  <2>1. ASSUME NEW i \in 1..Len(log), log[i].phase = "intent", e.phase = "intent",
               log[i].request = e.request
        PROVE  FALSE
    BY <1>0, <2>1 DEF Known
  <2>2. ASSUME NEW i \in DOMAIN log', NEW j \in DOMAIN log', log'[i].phase = "intent",
               log'[j].phase = "intent", log'[i].request = log'[j].request
        PROVE  i = j
    <3>1. (i \in 1..Len(log) \/ i = Len(log) + 1) /\ (j \in 1..Len(log) \/ j = Len(log) + 1)
      BY <1>0
    <3>2. CASE i \in 1..Len(log) /\ j \in 1..Len(log)
      BY <1>0, <2>2, <3>2 DEF AnswerInv, OneIntent
    <3>3. CASE i \in 1..Len(log) /\ j = Len(log) + 1
      BY <1>0, <2>1, <2>2, <3>3
    <3>4. CASE i = Len(log) + 1 /\ j \in 1..Len(log)
      BY <1>0, <2>1, <2>2, <3>4
    <3>5. QED BY <3>1, <3>2, <3>3, <3>4
  <2>3. QED BY <2>2 DEF OneIntent
<1>2. ASSUME NEW i \in DOMAIN log', log'[i].phase = "result"
      PROVE  SoForGood(log[i].request, log[i].binding, log[i].status)'
  <2>1. CASE i \in 1..Len(log)
    <3>1. PICK r, b, status :
            r = log'[i].request /\ b = log'[i].binding /\ status = log'[i].status
      OBVIOUS
    <3>2. SoForGood(r, b, status)
      BY <1>0, <1>2, <2>1, <3>1 DEF AnswerInv, ResultSo
    <3>3. SoForGood(r, b, status)'
      BY <1>l, <3>2, SoStays
    <3>4. QED BY <3>1, <3>3 DEF SoForGood, Settled
  <2>2. CASE i = Len(log) + 1
    <3>1. /\ log'[i] = e /\ e.request = request[c] /\ e.binding = binding[c]
          /\ e.status = outcome[c] /\ pc[c] \in ResultLabels /\ pc'[c] \notin EarlyLabels
      BY <1>0, <1>2, <2>2
    <3>2. /\ Settled(request[c], binding[c])
          /\ outcome[c] = "done" => c \in changed
          /\ outcome[c] = "refused" => \A d \in changed : request[d] # request[c]
          /\ \A d \in Calls \ {c} : request[d] = request[c] => ~ Intended(d)
      BY <3>1, OwnOutcome
    <3>3. PICK r, b, status : r = request[c] /\ b = binding[c] /\ status = outcome[c]
      OBVIOUS
    <3>4. Settled(r, b)'
      BY <1>l, <3>2, <3>3, SettledStays DEF Keeps
    <3>5. UNCHANGED <<request, binding>> /\ \A d \in Calls \ {c} : pc'[d] = pc[d]
      BY DEF Keeps, asked
    <3>6. \A d \in Calls : request'[d] = r => pc'[d] \notin EarlyLabels
      BY <3>1, <3>2, <3>3, <3>5
      DEF Intended, IntendedLabels, SteadyLabels, ResultLabels, EarlyLabels
    <3>7. SoForGood(r, b, status)'
      BY <3>2, <3>3, <3>4, <3>5, <3>6 DEF SoForGood
    <3>8. r = log'[i].request /\ b = log'[i].binding /\ status = log'[i].status
      BY <3>1, <3>3
    <3>9. QED BY <3>7, <3>8 DEF SoForGood, Settled
  <2>3. QED BY <1>0, <2>1, <2>2
<1>3. QED BY <1>1, <1>2, AnswerStep DEF ResultSo

\* What a step appends: a record of its own call, whole, cut or torn.
LEMMA AppendedRecord ==
  ASSUME TypeInv, NEW c \in Calls, WriteIntent(c) \/ WriteResult(c) \/ ShortWrite(c)
  PROVE  /\ UNCHANGED <<answer, outcome, changed, flushed, asked>> /\ OpenLog
         /\ pc[c] \in {"admitting", "recording"}
         /\ \E label \in {"flushIntent", "cutIntent", "flushResult", "cutResult"} :
              /\ pc' = [pc EXCEPT ![c] = label]
              /\ label \in {"flushIntent", "cutIntent"} <=> pc[c] = "admitting"
              /\ label = "flushIntent" => ~Known(request[c])
         /\ \E e \in RecordType :
              /\ log' = Append(log, e)
              /\ e.phase = "intent" => pc[c] = "admitting" /\ ~Known(e.request)
              /\ e.phase = "result" =>
                   /\ e.request = request[c] /\ e.binding = binding[c] /\ e.status = outcome[c]
                   /\ pc[c] = "recording"
<1>l. /\ request[c] \in Requests /\ binding[c] \in Bindings
      /\ pc[c] = "recording" => outcome[c] \in Recorded
  BY DEF TypeInv, TypeOK, LogFact, ResultLabels
<1>e. pc[c] = "recording" => entry # "none"
  BY DEF TypeInv, LogFact, ResultLabels, IntendedLabels, SteadyLabels
<1> DEFINE intent == Intent(request[c], binding[c])
           res    == Result(request[c], binding[c], outcome[c])
<1>1. /\ intent \in RecordType /\ [intent EXCEPT !.whole = FALSE] \in RecordType
      /\ intent.phase = "intent" /\ intent.request = request[c]
      /\ [intent EXCEPT !.whole = FALSE].phase = "intent"
      /\ [intent EXCEPT !.whole = FALSE].request = request[c]
  BY <1>l, RecordTypes DEF Intent
<1>2. /\ TornRecord \in RecordType /\ TornRecord.phase = "torn"
  BY DEF TornRecord, RecordType
<1>3. /\ res.phase = "result" /\ res.request = request[c] /\ res.binding = binding[c]
      /\ res.status = outcome[c]
      /\ [res EXCEPT !.whole = FALSE].phase = "result"
      /\ [res EXCEPT !.whole = FALSE].request = request[c]
      /\ [res EXCEPT !.whole = FALSE].binding = binding[c]
      /\ [res EXCEPT !.whole = FALSE].status = outcome[c]
      /\ pc[c] = "recording" => res \in RecordType /\ [res EXCEPT !.whole = FALSE] \in RecordType
  BY <1>l, RecordTypes DEF Result
<1> HIDE DEF intent, res
<1>4. CASE WriteIntent(c)
  BY <1>4, <1>1 DEF WriteIntent, MayAppendIntent, At, Goto, intent
<1>5. CASE WriteResult(c)
  BY <1>5, <1>3, <1>e DEF WriteResult, At, Goto, res, OpenLog
<1>6. CASE ShortWrite(c)
  <2>1. CASE /\ MayAppendIntent(c) /\ log' \in Cut(log, intent) /\ Goto(c, "cutIntent")
    <3>1. PICK e \in {TornRecord, [intent EXCEPT !.whole = FALSE]} : log' = Append(log, e)
      BY <2>1 DEF Cut
    <3>2. /\ e \in RecordType
          /\ e.phase = "intent" => e.request = request[c]
          /\ e.phase # "result"
      BY <1>1, <1>2, <3>1
    <3>3. /\ pc[c] = "admitting" /\ ~Known(request[c]) /\ pc' = [pc EXCEPT ![c] = "cutIntent"]
          /\ UNCHANGED <<answer, outcome, changed, flushed, asked>> /\ OpenLog
      BY <1>6, <2>1 DEF ShortWrite, MayAppendIntent, At, Goto
    <3>4. QED BY <3>1, <3>2, <3>3
  <2>2. CASE /\ At(c, "recording") /\ log' \in Cut(log, res) /\ Goto(c, "cutResult")
    <3>1. PICK e \in {TornRecord, [res EXCEPT !.whole = FALSE]} : log' = Append(log, e)
      BY <2>2 DEF Cut
    <3>2. pc[c] = "recording" /\ pc' = [pc EXCEPT ![c] = "cutResult"]
      BY <2>2 DEF At, Goto
    <3>3. /\ e \in RecordType /\ e.phase # "intent"
          /\ e.phase = "result" => /\ e.request = request[c] /\ e.binding = binding[c]
                                   /\ e.status = outcome[c]
      BY <1>2, <1>3, <3>1, <3>2
    <3>4. UNCHANGED <<answer, outcome, changed, flushed, asked>> /\ OpenLog
      BY <1>6 DEF ShortWrite
    <3>5. QED BY <3>1, <3>2, <3>3, <3>4
  <2>3. QED BY <1>6, <2>1, <2>2 DEF ShortWrite, intent, res
<1>7. QED BY <1>4, <1>5, <1>6

\* No call takes a whole record, or what is flushed, from the log.
LEMMA CallKeepsLog ==
  ASSUME TypeInv, WriteInv, NEW c \in Calls, Call(c)
  PROVE  Kept /\ UNCHANGED asked
<1>l. LogTypes /\ IntentFact(c)
  BY DEF WriteInv
<1>1. CASE UNCHANGED <<log, flushed, entry, asked>>
  BY <1>1, <1>l DEF Kept, LogTypes
<1>2. CASE \/ Begin(c) \/ TargetBusy(c) \/ StateUnavailable(c) \/ LockTarget(c)
           \/ Admit(c) \/ AdmissionUnavailable(c) \/ AdmissionFails(c) \/ AnswerKnown(c)
           \/ ActionApplies(c) \/ ActionRefuses(c) \/ ActionReturns(c) \/ ActionThrows(c)
           \/ Record(c) \/ RecordFails(c)
  BY <1>1, <1>2
  DEF Begin, TargetBusy, StateUnavailable, Refuse, LockTarget, Admit, LockAudit,
      AdmissionUnavailable, AdmissionFails, AnswerKnown, ActionApplies, ActionRefuses,
      ActionReturns, ActionThrows, Record, RecordFails, audit
<1>3. CASE FlushIntent(c) \/ SyncEntry(c) \/ FlushResult(c)
  <2>1. CASE FlushIntent(c) \/ FlushResult(c)
    BY <1>l, <2>1 DEF FlushIntent, FlushResult, Flush, Kept, LogTypes
  <2>2. CASE SyncEntry(c)
    BY <1>l, <2>2 DEF SyncEntry, Kept, LogTypes
  <2>3. QED BY <1>3, <2>1, <2>2
<1>4. CASE WriteIntent(c) \/ WriteResult(c) \/ ShortWrite(c)
  BY <1>4, <1>l, AppendedRecord, Appending
<1>5. CASE CutOff(c)
  BY <1>5, <1>l, CuttingOff DEF CutOff, At, IntentFact, CutLabels
<1>6. QED BY <1>2, <1>3, <1>4, <1>5 DEF Call

LEMMA AnswerCallNext ==
  ASSUME AnswerInv, TypeInv', WriteInv', NEW c \in Calls, Call(c)
  PROVE  AnswerInv'
<1>l. /\ TypeInv /\ WriteInv /\ LogTypes /\ LogTypes' /\ CallFact(c) /\ AnswerSo(c)
      /\ pc \in [Calls -> Labels] /\ outcome \in [Calls -> Recorded \cup {"none"}]
      /\ answer \in [Calls -> Answers \cup {"none"}] /\ changed \subseteq Calls
  BY DEF AnswerInv, WriteInv, TypeInv, TypeOK
<1>k. Kept /\ UNCHANGED asked
  BY <1>l, CallKeepsLog
<1> USE DEF Recorded
\* Steps that change neither the log's records nor what the call has answered.
<1>1. ASSUME NEW label, pc' = [pc EXCEPT ![c] = label],
             label \in EarlyLabels => pc[c] \in EarlyLabels,
             UNCHANGED <<log, answer, changed>>,
             \A d \in Calls \ {c} : outcome'[d] = outcome[d], CallFact(c)'
      PROVE  AnswerInv'
  <2>1. Keeps(c)
    BY <1>1, <1>l, <1>k DEF Keeps
  <2>2. QED BY <1>1, <2>1, AnswerStep
<1>2. CASE \/ Begin(c) \/ LockTarget(c) \/ Admit(c) \/ FlushIntent(c) \/ SyncEntry(c)
           \/ ActionRefuses(c) \/ ActionReturns(c) \/ Record(c)
  <2> USE <1>l DEF At, Goto, EarlyLabels, CallFact, ResultLabels, audit
  <2>1. CASE Begin(c)
    BY <2>1, <1>1 DEF Begin
  <2>2. CASE LockTarget(c)
    BY <2>2, <1>1 DEF LockTarget
  <2>3. CASE Admit(c)
    BY <2>3, <1>1 DEF Admit, LockAudit
  <2>4. CASE FlushIntent(c)
    BY <2>4, <1>1 DEF FlushIntent, StartAction
  <2>5. CASE SyncEntry(c)
    BY <2>5, <1>1 DEF SyncEntry, StartAction
  <2>6. CASE ActionRefuses(c)
    BY <2>6, <1>1 DEF ActionRefuses
  <2>7. CASE ActionReturns(c)
    BY <2>7, <1>1 DEF ActionReturns
  <2>8. CASE Record(c)
    BY <2>8, <1>1 DEF Record, LockAudit
  <2>9. QED BY <1>2, <2>1, <2>2, <2>3, <2>4, <2>5, <2>6, <2>7, <2>8
\* Steps that answer.
<1>3. ASSUME NEW reply \in Answers, pc' = [pc EXCEPT ![c] = "answered"],
             answer' = [answer EXCEPT ![c] = reply], UNCHANGED <<outcome, changed>>,
             UNCHANGED log \/ (OneIntent' /\ \A i \in DOMAIN log' : ResultSo(i)'),
             reply \in {"busy", "audit_unavailable", "request_mismatch"} => c \notin changed,
             reply \in Recorded => SoForGood(request[c], binding[c], reply)'
      PROVE  AnswerInv'
  <2>1. pc'[c] = "answered" /\ answer'[c] = reply
    BY <1>3, <1>l
  <2>2. Keeps(c)
    BY <1>3, <1>l, <1>k DEF Keeps, EarlyLabels
  <2>3. CallFact(c)'
    BY <2>1 DEF CallFact, ResultLabels
  <2>4. SoForGood(request[c], binding[c], reply)' => SoForGood(request[c], binding[c], answer[c])'
    BY <2>1 DEF SoForGood
  <2>5. AnswerSo(c)'
    BY <1>3, <2>1, <2>4 DEF AnswerSo
  <2>6. QED BY <1>3, <2>2, <2>3, <2>5, AnswerStep
<1>4. CASE \/ TargetBusy(c) \/ StateUnavailable(c) \/ AdmissionUnavailable(c) \/ AdmissionFails(c)
           \/ ActionThrows(c) \/ RecordFails(c)
  <2>1. /\ pc' = [pc EXCEPT ![c] = "answered"] /\ UNCHANGED <<outcome, changed, log>>
        /\ \E reply \in {"busy", "audit_unavailable", "reconcile_required"} :
             /\ answer' = [answer EXCEPT ![c] = reply]
             /\ reply # "reconcile_required" => pc[c] \in {"starting", "admission", "admitting",
                  "cutIntent", "flushIntent", "syncEntry"}
    BY <1>4 DEF TargetBusy, StateUnavailable, Refuse, AdmissionUnavailable, AdmissionFails,
                ActionThrows, RecordFails, Answer, At, Goto, audit
  <2>2. QED BY <1>3, <1>l, <2>1 DEF CallFact, ResultLabels, Answers
<1>5. CASE AnswerKnown(c)
  <2>1. /\ pc[c] = "admitting" /\ pc' = [pc EXCEPT ![c] = "answered"] /\ Known(request[c])
        /\ answer' = [answer EXCEPT ![c] = Replay(c)] /\ UNCHANGED <<outcome, changed, log>>
    BY <1>5 DEF AnswerKnown, Answer, At, Goto, audit
  <2>2. Replay(c) \in {"request_mismatch", "reconcile_required"} \cup Recorded
    BY <1>l, <2>1, ReplayOfRecords
  <2>3. ASSUME Replay(c) \in Recorded
        PROVE  SoForGood(request[c], binding[c], Replay(c))
    <3>1. PICK i \in DOMAIN log :
            /\ log[i].phase = "result" /\ log[i].request = request[c]
            /\ log[i].status = Replay(c)
            /\ \/ log[i].binding = binding[c] /\ Places(request[c], "intent") = {}
               \/ \E j \in DOMAIN log :
                    /\ log[j].phase = "intent" /\ log[j].request = request[c]
                    /\ log[j].binding = binding[c]
      BY <1>l, <2>1, <2>3, ReplayOfRecords
    <3>2. SoForGood(request[c], log[i].binding, Replay(c))
      BY <3>1 DEF AnswerInv, ResultSo
    <3>3. PICK k \in DOMAIN log : log[k] = Intent(request[c], log[i].binding)
      BY <1>l, <3>2 DEF SoForGood, Settled, LogTypes
    <3>4. \A j \in DOMAIN log : log[j].phase = "intent" /\ log[j].request = request[c]
                                  => log[j].binding = log[i].binding
      BY <3>3 DEF AnswerInv, OneIntent, Intent
    <3>5. log[i].binding = binding[c]
      BY <3>1, <3>4
    <3>6. QED BY <3>2, <3>5
  <2>4. Keeps(c)
    BY <1>l, <1>k, <2>1 DEF Keeps, EarlyLabels
  <2>5. ASSUME Replay(c) \in Recorded
        PROVE  \A reply : reply = Replay(c) => SoForGood(request[c], binding[c], reply)'
    <3>1. PICK r, b, status : r = request[c] /\ b = binding[c] /\ status = Replay(c)
      OBVIOUS
    <3>2. SoForGood(r, b, status)'
      BY <1>l, <2>3, <2>4, <2>5, <3>1, SoStays
    <3>3. r = request'[c] /\ b = binding'[c]
      BY <1>k, <3>1 DEF asked
    <3>4. QED BY <3>1, <3>2, <3>3 DEF SoForGood
  <2>6. c \notin changed
    BY <1>l, <2>1 DEF CallFact, ResultLabels
  <2>7. PICK reply \in Answers : reply = Replay(c)
    BY <2>2 DEF Answers
  <2>8. QED BY <1>3, <2>1, <2>5, <2>6, <2>7
<1>6. CASE FlushResult(c)
  <2>1. /\ pc[c] = "flushResult" /\ pc' = [pc EXCEPT ![c] = "answered"]
        /\ answer' = [answer EXCEPT ![c] = outcome[c]] /\ UNCHANGED <<outcome, changed, log>>
    BY <1>6 DEF FlushResult, Answer, At, Goto
  <2>2. /\ Settled(request[c], binding[c]) /\ outcome[c] \in Recorded
        /\ outcome[c] = "done" => c \in changed
        /\ outcome[c] = "refused" => \A d \in changed : request[d] # request[c]
        /\ \A d \in Calls \ {c} : request[d] = request[c] => ~ Intended(d)
    BY <2>1, OwnOutcome DEF ResultLabels
  <2>3. PICK r, b, status : r = request[c] /\ b = binding[c] /\ status = outcome[c]
    OBVIOUS
  <2>4. \A d \in Calls : request[d] = r => pc[d] \notin EarlyLabels
    BY <2>1, <2>2, <2>3
    DEF Intended, IntendedLabels, SteadyLabels, ResultLabels, EarlyLabels
  <2>5. SoForGood(r, b, status)
    BY <2>2, <2>3, <2>4 DEF SoForGood
  <2>6. Keeps(c)
    BY <1>l, <1>k, <2>1 DEF Keeps, EarlyLabels
  <2>7. SoForGood(r, b, status)'
    BY <1>l, <2>5, <2>6, SoStays
  <2>8. r = request'[c] /\ b = binding'[c]
    BY <1>k, <2>3 DEF asked
  <2>9. \A reply : reply = outcome[c] => SoForGood(request[c], binding[c], reply)'
    BY <2>3, <2>7, <2>8 DEF SoForGood
  <2>10. PICK reply \in Answers : reply = outcome[c]
    BY <2>2 DEF Answers
  <2>11. QED BY <1>3, <2>1, <2>2, <2>9, <2>10
<1>7. CASE ActionApplies(c)
  <2>1. /\ pc[c] = "execute" /\ pc' = [pc EXCEPT ![c] = "applied"]
        /\ changed' = changed \cup {c} /\ UNCHANGED <<outcome, answer, log>>
    BY <1>7 DEF ActionApplies, At, Goto, audit
  <2>2. pc'[c] = "applied" /\ answer[c] = "none"
    BY <1>l, <2>1 DEF CallFact
  <2>3. Keeps(c)
    BY <1>l, <1>k, <2>1 DEF Keeps, EarlyLabels
  <2>4. CallFact(c)' /\ AnswerSo(c)'
    BY <2>1, <2>2 DEF CallFact, AnswerSo, ResultLabels
  <2>5. QED BY <2>1, <2>3, <2>4, AnswerStep
<1>8. CASE WriteIntent(c) \/ WriteResult(c) \/ ShortWrite(c)
  <2>1. /\ UNCHANGED <<answer, outcome, changed, flushed, asked>>
        /\ pc[c] \in {"admitting", "recording"}
    BY <1>8, <1>l, AppendedRecord
  <2>2. PICK label \in {"flushIntent", "cutIntent", "flushResult", "cutResult"} :
          /\ pc' = [pc EXCEPT ![c] = label]
          /\ label \in {"flushIntent", "cutIntent"} <=> pc[c] = "admitting"
          /\ label = "flushIntent" => ~Known(request[c])
    BY <1>8, <1>l, AppendedRecord
  <2>3. PICK e \in RecordType :
          /\ log' = Append(log, e)
          /\ e.phase = "intent" => pc[c] = "admitting" /\ ~Known(e.request)
          /\ e.phase = "result" =>
               /\ e.request = request[c] /\ e.binding = binding[c] /\ e.status = outcome[c]
               /\ pc[c] = "recording"
    BY <1>8, <1>l, AppendedRecord
  <2>4. pc'[c] = label /\ Keeps(c)
    BY <1>l, <1>k, <2>1, <2>2 DEF Keeps, EarlyLabels
  <2>5. CallFact(c)'
    BY <1>l, <2>1, <2>2, <2>4 DEF CallFact, ResultLabels
  <2>6. QED
    BY <2>1, <2>2, <2>3, <2>4, <2>5, AppendStep DEF ResultLabels, EarlyLabels
<1>9. CASE CutOff(c)
  <2>1. /\ pc[c] \in CutLabels /\ pc' = [pc EXCEPT ![c] = "answered"] /\ log' = Front(log)
        /\ UNCHANGED <<outcome, flushed, entry, changed>>
        /\ \E reply \in {"audit_unavailable", "reconcile_required"} :
             /\ answer' = [answer EXCEPT ![c] = reply]
             /\ reply = "audit_unavailable" => pc[c] = "cutIntent"
    BY <1>9 DEF CutOff, Answer, At, Goto, CutLabels
  <2>2. Keeps(c)
    BY <1>l, <1>k, <2>1 DEF Keeps, EarlyLabels
  <2>3. \A i \in DOMAIN log' : i \in DOMAIN log /\ log'[i] = log[i]
    <3>1. Len(log) \in Nat /\ log # <<>> /\ log \in Seq(RecordType)
      BY <1>l, <2>1 DEF TypeInv, LogFact, LogTypes
    <3>2. PICK n \in 0..Len(log) : n = Len(log) - 1
      <4>1. Len(log) - 1 \in 0..Len(log)
        BY <3>1
      <4>2. QED BY <4>1, Zenon
    <3>3. log' = SubSeq(log, 1, n)
      BY <2>1, <3>2 DEF Front
    <3>4. /\ SubSeq(log, 1, n) \in Seq(RecordType) /\ Len(SubSeq(log, 1, n)) = n
          /\ \A i \in 1..n : SubSeq(log, 1, n)[i] = log[i]
      BY <3>1, PrefixOf
    <3>5. log' \in Seq(RecordType) /\ Len(log') = n /\ \A i \in 1..n : log'[i] = log[i]
      BY <3>3, <3>4, Zenon
    <3>6. DOMAIN log' = 1..n /\ DOMAIN log = 1..Len(log) /\ 1..n \subseteq 1..Len(log)
      BY <3>1, <3>2, <3>5
    <3>7. QED BY <3>5, <3>6
  <2>4. OneIntent'
    BY <2>3 DEF AnswerInv, OneIntent
  <2>5. ASSUME NEW i \in DOMAIN log', log'[i].phase = "result"
        PROVE  SoForGood(log[i].request, log[i].binding, log[i].status)'
    <3>1. PICK r, b, status :
            r = log'[i].request /\ b = log'[i].binding /\ status = log'[i].status
      OBVIOUS
    <3>2. SoForGood(r, b, status)
      BY <2>3, <2>5, <3>1 DEF AnswerInv, ResultSo
    <3>3. SoForGood(r, b, status)'
      BY <1>l, <2>2, <3>2, SoStays
    <3>4. QED BY <3>1, <3>3 DEF SoForGood, Settled
  <2>6. \A i \in DOMAIN log' : ResultSo(i)'
    BY <2>5 DEF ResultSo
  <2>7. pc[c] = "cutIntent" => c \notin changed
    BY <1>l DEF CallFact, ResultLabels
  <2>8. QED BY <1>3, <2>1, <2>4, <2>6, <2>7 DEF Answers
<1>10. QED
  BY <1>2, <1>4, <1>5, <1>6, <1>7, <1>8, <1>9 DEF Call

\* A record loses its newline, and nothing else.
LEMMA CutKeeps ==
  ASSUME NEW e \in RecordType
  PROVE  LET cut == [e EXCEPT !.whole = FALSE]
         IN  /\ cut.phase = e.phase
             /\ e.phase # "torn" => cut.request = e.request
             /\ e.phase = "result" => cut.binding = e.binding /\ cut.status = e.status
<1>1. CASE e = TornRecord
  BY <1>1 DEF TornRecord
<1>2. CASE e \in [phase : {"intent"}, request : Requests, binding : Bindings, whole : BOOLEAN]
  BY <1>2
<1>3. CASE e \in [phase : {"result"}, request : Requests, binding : Bindings,
                  status : Recorded, whole : BOOLEAN]
  BY <1>3
<1>4. QED BY <1>1, <1>2, <1>3 DEF RecordType

\* Every record of the log is one it had before, or what a cut has left of it.
Remains ==
  \A i \in DOMAIN log' :
    /\ i \in DOMAIN log
    /\ log'[i].phase # "torn" =>
         log'[i].phase = log[i].phase /\ log'[i].request = log[i].request
    /\ log'[i].phase = "result" =>
         log'[i].binding = log[i].binding /\ log'[i].status = log[i].status

LEMMA PowerLossRemains ==
  ASSUME LogTypes, \A i \in 1..(Len(log) - 1) : log[i].whole, PowerLoss
  PROVE  Remains
<1>1. CASE log' = <<>>
  BY <1>1 DEF Remains
<1>2. CASE UNCHANGED log
  BY <1>2 DEF Remains
<1>3. CASE log' \in Survivors
  <2>1. ASSUME NEW i \in DOMAIN log'
        PROVE  /\ i \in DOMAIN log /\ log[i] \in RecordType
               /\ log'[i] \in {log[i], [log[i] EXCEPT !.whole = FALSE], TornRecord}
    BY <1>3, SurvivorsWhole DEF LogTypes
  <2>2. ASSUME NEW i \in DOMAIN log'
        PROVE  /\ log'[i].phase # "torn" =>
                    log'[i].phase = log[i].phase /\ log'[i].request = log[i].request
               /\ log'[i].phase = "result" =>
                    log'[i].binding = log[i].binding /\ log'[i].status = log[i].status
    <3>1. CASE log'[i] = log[i]
      BY <3>1
    <3>2. CASE log'[i] = [log[i] EXCEPT !.whole = FALSE]
      BY <2>1, <3>2, CutKeeps
    <3>3. CASE log'[i] = TornRecord
      BY <3>3 DEF TornRecord
    <3>4. QED BY <2>1, <3>1, <3>2, <3>3
  <2>3. QED BY <2>1, <2>2 DEF Remains
<1>4. QED BY <1>1, <1>2, <1>3 DEF PowerLoss

\* Processes die, and the log loses records that are not flushed at most.
LEMMA AnswerDyingStep ==
  ASSUME AnswerInv, TypeInv', WriteInv', NEW dying \in SUBSET Processes, Die(dying), Remains,
         entry = "flushed" =>
           /\ entry' = "flushed" /\ flushed <= flushed'
           /\ \A i \in 1..flushed : log'[i] = log[i]
  PROVE  AnswerInv'
<1>l. /\ LogTypes /\ LogTypes' /\ changed \subseteq Calls
      /\ answer \in [Calls -> Answers \cup {"none"}]
  BY DEF AnswerInv, WriteInv, TypeInv, TypeOK
<1>1. /\ UNCHANGED <<request, binding, answer, changed>>
      /\ \A c \in Calls :
           \/ pc'[c] = "lost" /\ pc[c] # "answered"
           \/ pc'[c] = pc[c] /\ outcome'[c] = outcome[c]
  BY DEF Die, asked
<1>2. ASSUME NEW r, NEW b, NEW status, SoForGood(r, b, status)
      PROVE  SoForGood(r, b, status)'
  <2>1. Settled(r, b)'
    <3>1. PICK i \in 1..flushed : log[i] = Intent(r, b)
      BY <1>2 DEF SoForGood, Settled
    <3>2. /\ flushed \in Nat /\ flushed' \in Nat /\ entry' = "flushed" /\ flushed <= flushed'
          /\ log'[i] = log[i]
      BY <1>l, <1>2 DEF SoForGood, Settled, LogTypes
    <3>3. QED BY <3>1, <3>2 DEF Settled, Intent
  <2>2. \A d \in Calls : request'[d] = r => pc'[d] \notin EarlyLabels
    BY <1>1, <1>2 DEF SoForGood, EarlyLabels
  <2>3. QED BY <1>1, <1>2, <2>1, <2>2 DEF SoForGood
<1>3. OneIntent'
  <2>1. ASSUME NEW i \in DOMAIN log', NEW j \in DOMAIN log', log'[i].phase = "intent",
               log'[j].phase = "intent", log'[i].request = log'[j].request
        PROVE  i = j
    <3>1. /\ i \in DOMAIN log /\ log[i].phase = "intent" /\ log'[i].request = log[i].request
          /\ j \in DOMAIN log /\ log[j].phase = "intent" /\ log'[j].request = log[j].request
      BY <2>1 DEF Remains
    <3>2. QED BY <2>1, <3>1 DEF AnswerInv, OneIntent
  <2>2. QED BY <2>1 DEF OneIntent
<1>4. ASSUME NEW i \in DOMAIN log', log'[i].phase = "result"
      PROVE  SoForGood(log[i].request, log[i].binding, log[i].status)'
  <2>1. PICK r, b, status :
          r = log'[i].request /\ b = log'[i].binding /\ status = log'[i].status
    OBVIOUS
  <2>2. SoForGood(r, b, status)
    BY <1>4, <2>1 DEF Remains, AnswerInv, ResultSo
  <2>3. SoForGood(r, b, status)'
    BY <1>2, <2>2
  <2>4. QED BY <2>1, <2>3 DEF SoForGood, Settled
<1>5. ASSUME NEW c \in Calls
      PROVE  CallFact(c)'
  <2>1. CallFact(c)
    BY DEF AnswerInv
  <2>2. QED BY <1>1, <2>1 DEF CallFact, ResultLabels
<1>6. ASSUME NEW c \in Calls
      PROVE  AnswerSo(c)'
  <2>1. ASSUME answer[c] \in Recorded
        PROVE  SoForGood(request[c], binding[c], answer[c])'
    <3>1. PICK r, b, status : r = request[c] /\ b = binding[c] /\ status = answer[c]
      OBVIOUS
    <3>2. SoForGood(r, b, status)
      BY <2>1, <3>1 DEF AnswerInv, AnswerSo
    <3>3. r = request'[c] /\ b = binding'[c] /\ status = answer'[c]
      BY <1>1, <3>1
    <3>4. SoForGood(r, b, status)'
      BY <1>2, <3>2
    <3>5. QED BY <3>3, <3>4 DEF SoForGood, Settled
  <2>2. QED BY <1>1, <2>1 DEF AnswerInv, AnswerSo
<1>7. QED BY <1>3, <1>4, <1>5, <1>6 DEF AnswerInv, ResultSo

\* A step that leaves the calls and the log alone.
LEMMA SameAnswers ==
  ASSUME AnswerInv, TypeInv', WriteInv',
         UNCHANGED <<pc, request, binding, outcome, answer, log, flushed, entry, changed>>
  PROVE  AnswerInv'
<1>1. OneIntent'
  BY DEF AnswerInv, OneIntent
<1>2. \A i \in DOMAIN log' : ResultSo(i)'
  BY DEF AnswerInv, ResultSo, SoForGood, Settled
<1>3. \A c \in Calls : CallFact(c)' /\ AnswerSo(c)'
  BY DEF AnswerInv, CallFact, AnswerSo, SoForGood, Settled
<1>4. QED BY <1>1, <1>2, <1>3 DEF AnswerInv

LEMMA AnswerNext ==
  ASSUME EntryFollows
  PROVE  AnswerInv /\ [Next]_vars => AnswerInv'
<1> SUFFICES ASSUME AnswerInv, [Next]_vars
             PROVE  AnswerInv'
  OBVIOUS
<1>l. /\ TypeInv /\ WriteInv /\ LogTypes /\ \A i \in 1..(Len(log) - 1) : log[i].whole
  BY DEF AnswerInv, WriteInv, TypeInv, TypeOK
<1>t. TypeInv' /\ WriteInv'
  BY <1>l, TypeNext, WriteNext
<1>1. ASSUME NEW c \in Calls, Call(c)
      PROVE  AnswerInv'
  BY <1>1, <1>t, AnswerCallNext
<1>2. ASSUME NEW p \in Processes, Start(p)
      PROVE  AnswerInv'
  BY <1>2, <1>t, SameAnswers DEF Start, asked, audit
<1>3. CASE ReclaimTarget \/ ReclaimAudit
  BY <1>3, <1>t, SameAnswers DEF ReclaimTarget, ReclaimAudit, asked, audit
<1>4. CASE UNCHANGED vars
  BY <1>4, <1>t, SameAnswers DEF vars, asked, audit
<1>5. ASSUME NEW p \in Processes, Exit(p)
      PROVE  AnswerInv'
  <2>1. Die({p}) /\ UNCHANGED <<log, flushed, entry>> /\ {p} \in SUBSET Processes
    BY <1>5 DEF Exit
  <2>2. Remains /\ flushed <= flushed'
    BY <1>l, <2>1 DEF Remains, LogTypes
  <2>3. QED BY <1>t, <2>1, <2>2, AnswerDyingStep
<1>6. CASE PowerLoss
  <2>1. PICK dying \in SUBSET Processes : Die(dying)
    BY <1>6 DEF PowerLoss
  <2>2. Remains
    BY <1>6, <1>l, PowerLossRemains
  <2>3. QED BY <1>6, <1>l, <1>t, <2>1, <2>2, LogSurvives, AnswerDyingStep
<1>7. QED BY <1>1, <1>2, <1>3, <1>4, <1>5, <1>6 DEF Next

LEMMA AnswersAgree ==
  ASSUME AnswerInv, NEW c \in Calls, NEW d \in Calls, answer[c] \in Recorded,
         answer[d] \in Recorded, request[c] = request[d]
  PROVE  answer[c] = answer[d] /\ binding[c] = binding[d]
<1>1. /\ SoForGood(request[c], binding[c], answer[c])
      /\ SoForGood(request[d], binding[d], answer[d])
  BY DEF AnswerInv, AnswerSo
<1>2. answer[c] = answer[d]
  BY <1>1 DEF SoForGood, Recorded
<1>3. PICK i \in 1..flushed : log[i] = Intent(request[c], binding[c])
  BY <1>1 DEF SoForGood, Settled
<1>4. PICK j \in 1..flushed : log[j] = Intent(request[d], binding[d])
  BY <1>1 DEF SoForGood, Settled
<1>5. i \in DOMAIN log /\ j \in DOMAIN log
  BY DEF AnswerInv, WriteInv, LogTypes
<1>6. i = j
  BY <1>3, <1>4, <1>5 DEF AnswerInv, OneIntent, Intent
<1>7. QED BY <1>2, <1>3, <1>4, <1>6 DEF Intent

\* Under the same assumption what a caller is told is so: "done" of a change that
\* was made, "refused" of one that never was, "nothing was changed" by a call
\* that changed nothing; and every recorded answer to one request is the same.
THEOREM AnswersAreTrueHolds ==
  ASSUME EntryFollows
  PROVE  Spec => []AnswersAreTrue
<1>1. AnswerInv => AnswersAreTrue
  <2> SUFFICES ASSUME AnswerInv, NEW c \in Calls
               PROVE  AnswersAreTrue!(c)
    BY DEF AnswersAreTrue
  <2>1. AnswerSo(c)
    BY DEF AnswerInv
  <2>2. QED BY <2>1, AnswersAgree DEF AnswerSo, SoForGood, Recorded
<1>2. QED BY <1>1, InitAnswers, AnswerNext, PTL DEF Spec
=============================================================================
