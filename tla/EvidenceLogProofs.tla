------------------------- MODULE EvidenceLogProofs -------------------------
(***************************************************************************)
(* Proofs about EvidenceLog, for any processes, keys, epochs and logs that *)
(* earlier runs may have left.                                             *)
(*                                                                         *)
(* That an acknowledged record is never lost follows from where it is: in  *)
(* a prefix of parsed lines that the log and its flushed content share.    *)
(* EvidenceInv says so, and why nothing breaks that prefix: lines are      *)
(* written under the lock and behind it, a repair cuts behind it because   *)
(* the log has not changed since the repair read it under the lock, and a  *)
(* power loss leaves what the two contents share.  The second half relates *)
(* the flushed lines to the log and the quarantine (FlushInv), half lines  *)
(* to the ends of logs (TornInv), and the genesis record to the first line *)
(* (HeadInv).  The last part is about what the fold makes of a log: its    *)
(* two loops pick places of it (Picks), in their order.                    *)
(***************************************************************************)
EXTENDS EvidenceLog, SequenceTheorems, FiniteSetTheorems, WellFoundedInduction, TLAPS

LockedLabels    == {"check", "finishLine", "syncLine", "appended", "reread",
                    "createQuarantine", "syncQuarantine", "truncate", "syncLog"}
WritingLabels   == {"finishLine", "syncLine", "appended"}
RepairingLabels == {"createQuarantine", "syncQuarantine", "truncate"}
ResultLabels    == RepairingLabels \cup {"syncLog", "readDone"}

EvidenceTypes ==
  /\ life \in [Procs -> {"unborn", "alive", "dead"}]
  /\ pc \in [Procs -> {"idle"} \cup ReadLabels \cup AppendLabels]
  /\ op \in [Procs -> Ops \cup {NoOp}]
  /\ log \in Seq(LineOrRecord) /\ disk \in Seq(LineOrRecord)
  /\ snapshot \in [Procs -> Seq(LineOrRecord)]
  /\ issued \in Nat
  /\ acked \subseteq LineOrRecord
  /\ ackedBefore \in [Procs -> SUBSET LineOrRecord]

\* Only a live process is in an operation, and only the owner in a locked one.
LockFact(p) ==
  /\ pc[p] # "idle" => life[p] = "alive"
  /\ pc[p] \in LockedLabels => owner = p

\* The first n lines parse.
Parsed(lines, n) == \A i \in 1..n : ParsesOk(lines[i])

\* The first n lines of two logs are the same.
Same(l, m, n) == n <= Len(l) /\ n <= Len(m) /\ \A i \in 1..n : l[i] = m[i]

\* A record is in the accepted prefix of a log.
Accepted(lines, record) ==
  \E n \in 1..Len(lines) : lines[n] = record /\ Parsed(lines, n)

\* What a writer has done of its line, in a log that was clean.
WriterFact(p) ==
  /\ pc[p] \in WritingLabels =>
       /\ Len(snapshot[p]) = 1 /\ ParsesOk(snapshot[p][1])
       /\ Len(log) > 0 /\ Parsed(log, Len(log) - 1)
  /\ pc[p] = "finishLine" => ~ParsesOk(log[Len(log)])
  /\ pc[p] \in {"syncLine", "appended"} => log[Len(log)] = snapshot[p][1]
  /\ pc[p] = "appended" => disk = log

\* What a repair works from is the log, and what was acknowledged before a read
\* began is in its result.
ReaderFact(p) ==
  /\ pc[p] \in RepairingLabels => snapshot[p] = log
  /\ pc[p] \in ResultLabels => \A r \in ackedBefore[p] : Accepted(snapshot[p], r)
  /\ ackedBefore[p] \subseteq acked

ProcessFact(p) == LockFact(p) /\ WriterFact(p) /\ ReaderFact(p)

\* The first n lines parse and are flushed.
Shared(n) == Parsed(log, n) /\ Same(log, disk, n)

AckedFact == \A r \in acked : \E n \in 1..Len(log) : Shared(n) /\ log[n] = r

EvidenceInv == EvidenceTypes /\ (\A p \in Procs : ProcessFact(p)) /\ AckedFact

-----------------------------------------------------------------------------
(* Sequences and prefixes *)

LEMMA Least ==
  ASSUME NEW T \in SUBSET Nat, T # {}
  PROVE  \E n \in T : \A m \in T : n <= m
<1> DEFINE less == {ss \in Nat \X Nat : ss[1] < ss[2]}
<1>1. IsWellFoundedOn(less, Nat)
  BY NatLessThanWellFounded, Zenon DEF OpToRel
<1>2. \E n \in T : \A m \in T : ~ (<<m, n>> \in less)
  <2> HIDE DEF less
  <2> QED
    BY <1>1, WFMin, Zenon
<1>3. \A m, n \in Nat : m < n => <<m, n>> \in less
  OBVIOUS
<1> HIDE DEF less
<1>4. PICK n \in T : \A m \in T : ~ (<<m, n>> \in less)
  BY <1>2
<1>5. ASSUME NEW m \in T
      PROVE  n <= m
  <2>1. <<m, n>> \notin less
    BY <1>4
  <2>2. m \in Nat /\ n \in Nat /\ (m < n => <<m, n>> \in less)
    BY <1>3
  <2> QED
    BY <2>1, <2>2
<1> QED
  BY <1>5

\* The lines before the first that does not parse.
LEMMA ValidCount ==
  ASSUME NEW l \in Seq(LineOrRecord)
  PROVE  /\ ValidLineCount(l) \in 0..Len(l)
         /\ Parsed(l, ValidLineCount(l))
         /\ ValidLineCount(l) < Len(l) => ~ParsesOk(l[ValidLineCount(l) + 1])
<1> DEFINE corrupt == {i \in DOMAIN l : ~ParsesOk(l[i])}
           least(i) == i \in corrupt /\ \A j \in corrupt : i <= j
<1>1. CASE corrupt = {}
  BY <1>1 DEF ValidLineCount, Parsed
<1>2. CASE corrupt # {}
  <2>1. \E i : least(i)
    <3>1. corrupt \in SUBSET Nat
      OBVIOUS
    <3> HIDE DEF corrupt
    <3>2. \E n \in corrupt : \A m \in corrupt : n <= m
      BY <1>2, <3>1, Least, Zenon
    <3> QED
      BY <3>2 DEF least
  <2>2. PICK i : i = (CHOOSE j \in corrupt : \A k \in corrupt : j <= k)
    OBVIOUS
  <2>3. least(i)
    BY <2>1, <2>2 DEF least
  <2>4. ValidLineCount(l) = i - 1
    BY <1>2, <2>2 DEF ValidLineCount, corrupt
  <2> QED
    BY <2>3, <2>4 DEF least, corrupt, Parsed
<1> QED
  BY <1>1, <1>2

LEMMA ValidAtLeast ==
  ASSUME NEW l \in Seq(LineOrRecord), NEW n \in 0..Len(l), Parsed(l, n)
  PROVE  n <= ValidLineCount(l)
<1>1. /\ ValidLineCount(l) \in 0..Len(l)
      /\ ValidLineCount(l) < Len(l) => ~ParsesOk(l[ValidLineCount(l) + 1])
  BY ValidCount
<1> QED
  BY <1>1 DEF Parsed

LEMMA SubSeqPrefix ==
  ASSUME NEW S, NEW l \in Seq(S), NEW n \in 0..Len(l)
  PROVE  /\ SubSeq(l, 1, n) \in Seq(S)
         /\ Len(SubSeq(l, 1, n)) = n
         /\ \A i \in 1..n : SubSeq(l, 1, n)[i] = l[i]
OBVIOUS

LEMMA RecordsAreAccepted ==
  ASSUME NEW l \in Seq(LineOrRecord), NEW n \in 1..Len(l), Parsed(l, n)
  PROVE  l[n] \in Records(l)
<1> DEFINE v == ValidLineCount(l)
<1>1. n <= v /\ v \in 0..Len(l)
  BY ValidCount, ValidAtLeast
<1>2. Len(SubSeq(l, 1, v)) = v /\ SubSeq(l, 1, v)[n] = l[n] /\ DOMAIN SubSeq(l, 1, v) = 1..v
  BY <1>1
<1> QED
  BY <1>1, <1>2 DEF Records, ValidLines, ToSet

LEMMA PrefixIsSame ==
  ASSUME NEW l \in Seq(LineOrRecord), NEW m \in Seq(LineOrRecord), NEW n \in 0..Len(l)
  PROVE  IsPrefix(SubSeq(l, 1, n), m) <=> Same(l, m, n)
<1>1. Len(SubSeq(l, 1, n)) = n /\ SubSeq(SubSeq(l, 1, n), 1, n) = SubSeq(l, 1, n)
  OBVIOUS
<1>2. ASSUME n <= Len(m), \A i \in 1..n : l[i] = m[i]
      PROVE  SubSeq(l, 1, n) = SubSeq(m, 1, n)
  BY <1>2
<1>3. ASSUME n <= Len(m), SubSeq(l, 1, n) = SubSeq(m, 1, n)
      PROVE  \A i \in 1..n : l[i] = m[i]
  BY <1>3, SubSeqPrefix
<1> QED
  BY <1>1, <1>2, <1>3 DEF IsPrefix, Same

LEMMA PrefixKept ==
  ASSUME NEW l \in Seq(LineOrRecord), NEW m \in Seq(LineOrRecord),
         Same(l, m, ValidLineCount(l))
  PROVE  IsPrefix(ValidLines(l), ValidLines(m))
<1> DEFINE v == ValidLineCount(l)
           w == ValidLineCount(m)
<1>1. v \in 0..Len(l) /\ w \in 0..Len(m) /\ Parsed(l, v)
  BY ValidCount
<1>2. Parsed(m, v)
  BY <1>1 DEF Parsed, Same
<1>3. v <= w
  BY <1>1, <1>2, ValidAtLeast DEF Same
<1>4. ValidLines(m) \in Seq(LineOrRecord) /\ Len(ValidLines(m)) = w
      /\ \A i \in 1..w : ValidLines(m)[i] = m[i]
  BY <1>1, SubSeqPrefix DEF ValidLines
<1>5. Same(l, ValidLines(m), v)
  BY <1>1, <1>3, <1>4 DEF Same
<1> QED
  BY <1>1, <1>4, <1>5, PrefixIsSame DEF ValidLines

\* A log that has been cut, or broken off in a line.
PartOf(l, s) ==
  /\ Len(s) <= Len(l)
  /\ \A i \in 1..Len(s) : s[i] = l[i] \/ (i = Len(s) /\ s[i] = Torn)

\* What is left after a power loss keeps whatever log and disk agree on, and is
\* the disk or a part of the log, which the last line may break off.
LEMMA SurvivorsKeep ==
  ASSUME NEW l \in Seq(LineOrRecord), NEW k \in Seq(LineOrRecord),
         NEW n \in 0..Len(l), Same(l, k, n),
         NEW s \in Survivors(l, k)
  PROVE  /\ s \in Seq(LineOrRecord) /\ Same(l, s, n)
         /\ s = k \/ PartOf(l, s)
<1> DEFINE stops(m) == /\ IsPrefix(SubSeq(l, 1, m), k)
                       /\ m = Len(l) \/ ~IsPrefix(SubSeq(l, 1, m + 1), k)
           T == {m \in 0..Len(l) : m = Len(l) \/ ~Same(l, k, m + 1)}
<1>1. \E m \in 0..Len(l) : stops(m)
  <2>1. PICK m \in T : \A j \in T : m <= j
    <3>1. Len(l) \in T /\ T \in SUBSET Nat
      OBVIOUS
    <3> HIDE DEF T
    <3>2. \E m \in T : \A j \in T : m <= j
      BY <3>1, Least, Zenon
    <3> QED
      BY <3>2
  <2>2. Same(l, k, m)
    <3>1. CASE m = 0
      BY <3>1 DEF Same
    <3>2. CASE m # 0
      <4>1. m \in 0..Len(l) /\ m - 1 \in 0..Len(l)
        BY <2>1, <3>2
      <4>2. ASSUME m - 1 \in T
            PROVE  FALSE
        <5> HIDE DEF T
        <5>1. m <= m - 1
          BY <2>1, <4>2, Zenon
        <5> QED
          BY <4>1, <5>1
      <4>3. (m - 1) + 1 = m /\ Same(l, k, (m - 1) + 1)
        BY <4>1, <4>2
      <4> QED
        BY <4>3
    <3> QED
      BY <3>1, <3>2
  <2> QED
    BY <2>1, <2>2, PrefixIsSame
<1>2. PICK shared : shared = CHOOSE m \in 0..Len(l) : stops(m)
  OBVIOUS
<1>3. shared \in 0..Len(l) /\ stops(shared)
  BY <1>1, <1>2
<1>4. n <= shared
  <2>1. CASE shared = Len(l)
    BY <2>1
  <2>2. CASE shared # Len(l)
    <3>1. ~Same(l, k, shared + 1)
      BY <1>3, <2>2, PrefixIsSame
    <3> QED
      BY <1>3, <3>1 DEF Same
  <2> QED
    BY <2>1, <2>2
<1> DEFINE prefixes == {SubSeq(l, 1, m) : m \in shared..Len(l)}
<1>5. Survivors(l, k) = {k} \cup prefixes
                          \cup {Append(q, Torn) : q \in {q \in prefixes : Len(q) < Len(l)}}
  BY <1>2 DEF Survivors
<1>6. ASSUME NEW q \in prefixes
      PROVE  /\ q \in Seq(LineOrRecord) /\ Same(l, q, n)
             /\ Len(q) <= Len(l) /\ \A i \in 1..Len(q) : q[i] = l[i]
  <2>1. PICK m \in shared..Len(l) : q = SubSeq(l, 1, m)
    OBVIOUS
  <2>2. m \in 0..Len(l) /\ n <= m
    BY <1>3, <1>4, <2>1
  <2> QED
    BY <2>1, <2>2, SubSeqPrefix DEF Same
<1>7. ASSUME NEW q \in prefixes, Len(q) < Len(l)
      PROVE  /\ Append(q, Torn) \in Seq(LineOrRecord) /\ Same(l, Append(q, Torn), n)
             /\ PartOf(l, Append(q, Torn))
  <2>1. /\ q \in Seq(LineOrRecord) /\ Same(l, q, n)
        /\ \A i \in 1..Len(q) : q[i] = l[i]
    BY <1>6
  <2>2. Torn \in LineOrRecord
    BY DEF LineOrRecord
  <2>3. /\ Append(q, Torn) \in Seq(LineOrRecord)
        /\ Len(Append(q, Torn)) = Len(q) + 1
        /\ \A i \in 1..Len(q) : Append(q, Torn)[i] = q[i]
        /\ Append(q, Torn)[Len(q) + 1] = Torn
    BY <2>1, <2>2
  <2> HIDE DEF prefixes
  <2>4. PartOf(l, Append(q, Torn))
    BY <1>7, <2>1, <2>3 DEF PartOf
  <2> QED
    BY <2>1, <2>3, <2>4 DEF Same
<1>8. k \in Seq(LineOrRecord) /\ Same(l, k, n)
  OBVIOUS
<1>9. ASSUME NEW q \in prefixes
      PROVE  PartOf(l, q)
  BY <1>6 DEF PartOf
<1> QED
  BY <1>5, <1>6, <1>7, <1>8, <1>9

-----------------------------------------------------------------------------
(* The invariant *)

LEMMA InitEvidence == Init => EvidenceInv
<1> SUFFICES ASSUME Init PROVE EvidenceInv
  OBVIOUS
<1>1. log \in Seq(LineOrRecord) /\ disk = log
  BY EvidenceAssumption DEF Init
<1>2. EvidenceTypes
  BY <1>1 DEF Init, EvidenceTypes, LogLock!Init
<1> QED
  BY <1>2 DEF Init, EvidenceInv, ProcessFact, LockFact, WriterFact, ReaderFact, AckedFact,
    LockedLabels, WritingLabels, RepairingLabels, ResultLabels

\* What has been acknowledged stays where nothing changes what log and disk share.
LEMMA AckedStays ==
  ASSUME EvidenceTypes, EvidenceTypes', AckedFact, UNCHANGED acked,
         \A n \in 1..Len(log) : Shared(n) => Same(log, log', n) /\ Same(log, disk', n)
  PROVE  AckedFact'
<1> SUFFICES ASSUME NEW r \in acked
             PROVE  \E n \in 1..Len(log') : Shared(n)' /\ log'[n] = r
  BY DEF AckedFact
<1>1. PICK n \in 1..Len(log) : Shared(n) /\ log[n] = r
  BY DEF AckedFact
<1>2. Same(log, log', n) /\ Same(log, disk', n)
  BY <1>1
<1>3. n \in 1..Len(log') /\ log'[n] = r
  BY <1>1, <1>2 DEF Same, EvidenceTypes
<1>4. Parsed(log', n)
  BY <1>1, <1>2 DEF Same, Parsed, Shared, EvidenceTypes
<1>5. Same(log', disk', n)
  BY <1>2, <1>3 DEF Same, EvidenceTypes
<1> QED
  BY <1>3, <1>4, <1>5 DEF Shared

\* A step of p that leaves the others alone, and the log to them if it is theirs.
LEMMA StepOfOne ==
  ASSUME EvidenceInv, EvidenceTypes', NEW p \in Procs, acked \subseteq acked',
         \A q \in Procs \ {p} :
           /\ pc'[q] = pc[q] /\ life'[q] = life[q]
           /\ snapshot'[q] = snapshot[q] /\ ackedBefore'[q] = ackedBefore[q]
           /\ pc[q] \in LockedLabels => owner' = q,
         UNCHANGED <<log, disk>> \/ pc[p] \in LockedLabels,
         ProcessFact(p)', AckedFact'
  PROVE  EvidenceInv'
<1>1. ASSUME NEW q \in Procs \ {p}
      PROVE  ProcessFact(q)'
  <2>1. ProcessFact(q) /\ ProcessFact(p)
    BY DEF EvidenceInv
  <2>2. LockFact(q)'
    BY <2>1 DEF ProcessFact, LockFact
  <2>3. CASE UNCHANGED <<log, disk>>
    BY <2>1, <2>2, <2>3 DEF ProcessFact, WriterFact, ReaderFact
  <2>4. CASE pc[p] \in LockedLabels
    <3>1. pc'[q] \notin LockedLabels
      BY <2>1, <2>4 DEF ProcessFact, LockFact
    <3> QED
      BY <2>1, <2>2, <3>1 DEF ProcessFact, WriterFact, ReaderFact, LockedLabels,
        WritingLabels, RepairingLabels, ResultLabels
  <2> QED
    BY <2>3, <2>4
<1> QED
  BY <1>1 DEF EvidenceInv

\* The same when the log stays as it is, and with it what is acknowledged.
LEMMA StepBeside ==
  ASSUME EvidenceInv, EvidenceTypes', NEW p \in Procs,
         UNCHANGED <<log, disk, acked>>,
         \A q \in Procs \ {p} :
           /\ pc'[q] = pc[q] /\ life'[q] = life[q]
           /\ snapshot'[q] = snapshot[q] /\ ackedBefore'[q] = ackedBefore[q]
           /\ pc[q] \in LockedLabels => owner' = q,
         ProcessFact(p)'
  PROVE  EvidenceInv'
<1>1. AckedFact'
  BY DEF EvidenceInv, AckedFact, Shared
<1> QED
  BY <1>1, StepOfOne

LEMMA FinishPreserves ==
  ASSUME EvidenceInv, NEW p \in Procs, Finish(p), UNCHANGED <<log, disk, issued, acked>>,
         life' \in [Procs -> {"unborn", "alive", "dead"}],
         \A q \in Procs \ {p} :
           life'[q] = life[q] /\ (pc[q] \in LockedLabels => owner' = q)
  PROVE  EvidenceInv'
<1>1. EvidenceTypes'
  <2>1. EvidenceTypes /\ <<>> \in Seq(LineOrRecord) /\ {} \in SUBSET LineOrRecord
    BY DEF EvidenceInv
  <2>2. /\ pc' \in [Procs -> {"idle"} \cup ReadLabels \cup AppendLabels]
        /\ op' \in [Procs -> Ops \cup {NoOp}]
    BY <2>1 DEF EvidenceTypes, Finish, Goto
  <2>3. /\ snapshot' \in [Procs -> Seq(LineOrRecord)]
        /\ ackedBefore' \in [Procs -> SUBSET LineOrRecord]
    BY <2>1 DEF EvidenceTypes, Finish, Took
  <2> QED
    BY <2>1, <2>2, <2>3 DEF EvidenceTypes
<1>2. \A q \in Procs \ {p} :
        pc'[q] = pc[q] /\ snapshot'[q] = snapshot[q] /\ ackedBefore'[q] = ackedBefore[q]
  BY DEF EvidenceInv, EvidenceTypes, Finish, Goto, Took
<1>3. pc'[p] = "idle" /\ ackedBefore'[p] = {}
  BY DEF EvidenceInv, EvidenceTypes, Finish, Goto, Took
<1>4. ProcessFact(p)'
  BY <1>3 DEF ProcessFact, LockFact, WriterFact, ReaderFact, LockedLabels, WritingLabels,
    RepairingLabels, ResultLabels
<1> QED
  BY <1>1, <1>2, <1>4, StepBeside

LEMMA LeavePreserves ==
  ASSUME EvidenceInv, NEW p \in Procs, LeaveLocked(p)
  PROVE  EvidenceInv'
<1>1. life' = life /\ owner = p
  BY DEF LeaveLocked, LogLock!Release
<1>2. \A q \in Procs \ {p} : pc[q] \notin LockedLabels
  BY <1>1 DEF EvidenceInv, ProcessFact, LockFact
<1>3. Finish(p) /\ UNCHANGED <<log, disk, issued, acked>>
  BY DEF LeaveLocked, storage, history
<1>4. life' \in [Procs -> {"unborn", "alive", "dead"}]
  BY <1>1 DEF EvidenceInv, EvidenceTypes
<1> QED
  BY <1>1, <1>2, <1>3, <1>4, FinishPreserves

-----------------------------------------------------------------------------
(* Calls, the lock and processes *)

LEMMA OwnerAlone ==
  ASSUME EvidenceInv, NEW p \in Procs, owner = p \/ owner \notin Procs
  PROVE  \A q \in Procs \ {p} : pc[q] \notin LockedLabels
BY DEF EvidenceInv, ProcessFact, LockFact

LEMMA StartPreserves ==
  ASSUME EvidenceInv, NEW p \in Procs, Start(p)
  PROVE  EvidenceInv'
<1>1. /\ pc[p] = "idle" /\ life' = [life EXCEPT ![p] = "alive"]
      /\ UNCHANGED <<owner, control, storage, history>>
  BY DEF EvidenceInv, ProcessFact, LockFact, Start, LogLock!Start
<1>2. EvidenceTypes'
  BY <1>1 DEF EvidenceInv, EvidenceTypes, control, storage, history
<1>3. ProcessFact(p)'
  BY <1>1 DEF EvidenceInv, ProcessFact, LockFact, WriterFact, ReaderFact, LockedLabels,
    WritingLabels, RepairingLabels, ResultLabels, control, storage, history
<1>4. \A q \in Procs \ {p} :
        life'[q] = life[q] /\ (pc[q] \in LockedLabels => owner' = q)
  BY <1>1 DEF EvidenceInv, EvidenceTypes, ProcessFact, LockFact
<1> QED
  BY <1>1, <1>2, <1>3, <1>4, StepBeside DEF control, storage, history

LEMMA ExitPreserves ==
  ASSUME EvidenceInv, NEW p \in Procs, Exit(p)
  PROVE  EvidenceInv'
<1>1. life' = [life EXCEPT ![p] = "dead"] /\ owner' = owner
  BY DEF Exit, LogLock!Exit
<1>2. Finish(p) /\ UNCHANGED <<log, disk, issued, acked>>
  BY DEF Exit, storage, history
<1>3. /\ life' \in [Procs -> {"unborn", "alive", "dead"}]
      /\ \A q \in Procs \ {p} :
           life'[q] = life[q] /\ (pc[q] \in LockedLabels => owner' = q)
  BY <1>1 DEF EvidenceInv, EvidenceTypes, ProcessFact, LockFact
<1> QED
  BY <1>2, <1>3, FinishPreserves

LEMMA ReclaimPreserves ==
  ASSUME EvidenceInv, NEW p \in Procs, ReclaimFromDead(p)
  PROVE  EvidenceInv'
<1>1. /\ owner = p /\ life[p] = "dead"
      /\ UNCHANGED <<life, control, storage, history>>
  BY DEF ReclaimFromDead, LogLock!ReclaimFromDead
<1>2. \A q \in Procs : pc[q] \notin LockedLabels
  BY <1>1, OwnerAlone DEF EvidenceInv, ProcessFact, LockFact, LockedLabels
<1>3. EvidenceTypes'
  BY <1>1 DEF EvidenceInv, EvidenceTypes, control, storage, history
<1>4. ProcessFact(p)'
  BY <1>1, <1>2 DEF EvidenceInv, ProcessFact, LockFact, WriterFact, ReaderFact,
    control, storage, history
<1> QED
  BY <1>1, <1>2, <1>3, <1>4, StepBeside DEF control, storage, history

LEMMA BeginPreserves ==
  ASSUME EvidenceInv, NEW p \in Procs, Begin(p)
  PROVE  EvidenceInv'
<1>1. PICK o \in Ops :
        /\ op' = [op EXCEPT ![p] = o]
        /\ Goto(p, IF o.type \in {"read", "observe"} THEN "read" ELSE "waitingToAppend")
  BY DEF Begin
<1>2. PICK label \in {"read", "waitingToAppend"} : pc' = [pc EXCEPT ![p] = label]
  BY <1>1 DEF Goto
<1>3. /\ life[p] = "alive" /\ ackedBefore' = [ackedBefore EXCEPT ![p] = acked]
      /\ UNCHANGED <<owner, life, log, disk, snapshot, issued, acked>>
  BY DEF Begin, At, LogLock!Alive, lock, storage, history
<1>4. EvidenceTypes'
  BY <1>1, <1>2, <1>3 DEF EvidenceInv, EvidenceTypes, ReadLabels, AppendLabels
<1>5. ProcessFact(p)'
  BY <1>2, <1>3 DEF EvidenceInv, EvidenceTypes, ProcessFact, LockFact, WriterFact,
    ReaderFact, LockedLabels, WritingLabels, RepairingLabels, ResultLabels
<1>6. \A q \in Procs \ {p} :
        /\ pc'[q] = pc[q] /\ ackedBefore'[q] = ackedBefore[q]
        /\ pc[q] \in LockedLabels => owner' = q
  BY <1>2, <1>3 DEF EvidenceInv, EvidenceTypes, ProcessFact, LockFact
<1> QED
  BY <1>3, <1>4, <1>5, <1>6, StepBeside

\* A step in which only the place of p and, if it gives it back or takes it while
\* it is free, the lock change.
LEMMA MovePreserves ==
  ASSUME EvidenceInv, NEW p \in Procs,
         NEW label \in {"idle"} \cup ReadLabels \cup AppendLabels,
         life[p] = "alive", pc' = [pc EXCEPT ![p] = label],
         UNCHANGED <<life, op, snapshot, ackedBefore, log, disk, issued, acked>>,
         owner' = owner \/ owner \notin Procs \/ owner = p,
         ProcessFact(p)'
  PROVE  EvidenceInv'
<1>1. EvidenceTypes'
  BY DEF EvidenceInv, EvidenceTypes
<1>2. \A q \in Procs \ {p} : pc'[q] = pc[q]
  BY DEF EvidenceInv, EvidenceTypes
<1>3. \A q \in Procs \ {p} : pc[q] \in LockedLabels => owner' = q
  BY OwnerAlone DEF EvidenceInv, ProcessFact, LockFact
<1> QED
  BY <1>1, <1>2, <1>3, StepBeside

LEMMA LockPreserves ==
  ASSUME EvidenceInv, NEW p \in Procs, Lock(p)
  PROVE  EvidenceInv'
<1>1. /\ life[p] = "alive" /\ owner = NoProc /\ owner' = p
      /\ UNCHANGED <<life, op, snapshot, ackedBefore, log, disk, issued, acked>>
  BY DEF Lock, LogLock!Acquire, LogLock!Alive, storage, history
<1>2. PICK label \in {"check", "reread"} : pc' = [pc EXCEPT ![p] = label]
  BY DEF Lock, Goto
<1>3. ProcessFact(p)'
  BY <1>1, <1>2 DEF EvidenceInv, EvidenceTypes, ProcessFact, LockFact, WriterFact,
    ReaderFact, LockedLabels, WritingLabels, RepairingLabels, ResultLabels
<1>4. label \in {"idle"} \cup ReadLabels \cup AppendLabels /\ owner \notin Procs
  BY <1>1, <1>2, EvidenceAssumption DEF ReadLabels, AppendLabels
<1> QED
  BY <1>1, <1>2, <1>3, <1>4, MovePreserves

\* Operations that end without the lock: a timed out acquisition, a rejected
\* observation, a read that returns.
LEMMA EndPreserves ==
  ASSUME EvidenceInv, NEW p \in Procs,
         LockTimesOut(p) \/ ObservationRejected(p) \/ ReadReturns(p)
  PROVE  EvidenceInv'
<1>1. Finish(p) /\ UNCHANGED <<owner, life, log, disk, issued, acked>>
  BY DEF LockTimesOut, ObservationRejected, ReadReturns, lock, storage, history
<1>2. \A q \in Procs \ {p} : pc[q] \in LockedLabels => owner = q
  BY DEF EvidenceInv, ProcessFact, LockFact
<1>3. life \in [Procs -> {"unborn", "alive", "dead"}]
  BY DEF EvidenceInv, EvidenceTypes
<1> QED
  BY <1>1, <1>2, <1>3, FinishPreserves

LEMMA GiveUpPreserves ==
  ASSUME EvidenceInv, NEW p \in Procs,
         GenesisPresent(p) \/ AppendRefused(p) \/ AppendFails(p) \/ RepairFails(p)
  PROVE  EvidenceInv'
BY LeavePreserves DEF GenesisPresent, AppendRefused, AppendFails, RepairFails

-----------------------------------------------------------------------------
(* Appends *)

LEMMA StartLinePreserves ==
  ASSUME EvidenceInv, NEW p \in Procs, At(p, "check"), Appendable(log),
         NEW record \in LineOrRecord, ParsesOk(record), StartLine(p, record),
         issued' \in Nat
  PROVE  EvidenceInv'
<1>1. /\ life[p] = "alive" /\ pc[p] = "check" /\ owner = p
      /\ log' = Append(log, Torn) /\ snapshot' = [snapshot EXCEPT ![p] = <<record>>]
      /\ pc' = [pc EXCEPT ![p] = "finishLine"]
      /\ UNCHANGED <<owner, life, op, ackedBefore, disk, acked>>
  BY DEF EvidenceInv, ProcessFact, LockFact, LockedLabels, StartLine, Took, Goto, At,
    LogLock!Alive, lock
<1>2. log \in Seq(LineOrRecord) /\ Torn \in LineOrRecord /\ ~ParsesOk(Torn)
  BY DEF EvidenceInv, EvidenceTypes, LineOrRecord, Torn, ParsesOk
<1>3. /\ log' \in Seq(LineOrRecord) /\ Len(log') = Len(log) + 1
      /\ log'[Len(log')] = Torn /\ \A i \in 1..Len(log) : log'[i] = log[i]
  BY <1>1, <1>2
<1>4. EvidenceTypes'
  <2>1. snapshot' \in [Procs -> Seq(LineOrRecord)]
    BY <1>1 DEF EvidenceInv, EvidenceTypes
  <2>2. pc' \in [Procs -> {"idle"} \cup ReadLabels \cup AppendLabels]
    BY <1>1 DEF EvidenceInv, EvidenceTypes, AppendLabels
  <2> QED
    BY <1>1, <1>3, <2>1, <2>2 DEF EvidenceInv, EvidenceTypes
<1>5. Parsed(log, Len(log))
  BY <1>2, ValidCount DEF Appendable, Clean
<1>6. WriterFact(p)'
  <2>1. pc'[p] = "finishLine" /\ snapshot'[p] = <<record>>
    BY <1>1 DEF EvidenceInv, EvidenceTypes
  <2>2. Len(log') > 0 /\ Parsed(log', Len(log') - 1) /\ ~ParsesOk(log'[Len(log')])
    BY <1>2, <1>3, <1>5 DEF Parsed
  <2> QED
    BY <2>1, <2>2 DEF WriterFact
<1>7. LockFact(p)' /\ ReaderFact(p)'
  BY <1>1 DEF EvidenceInv, EvidenceTypes, ProcessFact, LockFact, ReaderFact, LockedLabels,
    RepairingLabels, ResultLabels
<1>8. AckedFact'
  <2>1. \A n \in 1..Len(log) : Shared(n) => Same(log, log', n) /\ Same(log, disk', n)
    BY <1>1, <1>2, <1>3 DEF Shared, Same
  <2> QED
    BY <1>1, <1>4, <2>1, AckedStays DEF EvidenceInv
<1>9. \A q \in Procs \ {p} :
        /\ pc'[q] = pc[q] /\ snapshot'[q] = snapshot[q]
        /\ pc[q] \in LockedLabels => owner' = q
  BY <1>1, OwnerAlone DEF EvidenceInv, EvidenceTypes
<1> QED
  BY <1>1, <1>4, <1>6, <1>7, <1>8, <1>9, StepOfOne DEF ProcessFact, LockedLabels

\* The record of an append, of either kind.
LEMMA NewRecord ==
  ASSUME EvidenceInv, NEW p \in Procs, AppendGenesis(p) \/ AppendEvent(p)
  PROVE  /\ At(p, "check") /\ Appendable(log) /\ issued' \in Nat
         /\ \E record \in LineOrRecord :
              /\ ParsesOk(record) /\ StartLine(p, record)
              /\ (record.kind = "genesis") <=> (log = <<>>)
<1>1. CASE AppendGenesis(p)
  <2>1. op[p].epoch \in Epochs
    <3>1. op[p] \in Ops \cup {NoOp} /\ op[p].type = "genesis"
      BY <1>1 DEF EvidenceInv, EvidenceTypes, AppendGenesis, MayAppendGenesis
    <3>2. op[p] \in [type : {"genesis"}, epoch : Epochs]
      BY <3>1 DEF Ops, NoOp
    <3> QED
      BY <3>2
  <2> DEFINE record == Genesis(op[p].epoch)
  <2>2. record \in LineOrRecord /\ ParsesOk(record) /\ record.kind = "genesis"
    BY <2>1 DEF LineOrRecord, Genesis, ParsesOk
  <2>3. /\ At(p, "check") /\ Appendable(log) /\ log = <<>> /\ StartLine(p, record)
        /\ issued' \in Nat
    BY <1>1 DEF AppendGenesis, MayAppendGenesis, EvidenceInv, EvidenceTypes
  <2> QED
    BY <2>2, <2>3
<1>2. CASE AppendEvent(p)
  <2>1. op[p].key \in Keys
    BY <1>2 DEF EvidenceInv, EvidenceTypes, AppendEvent, MayAppendEvent, Ops, NoOp
  <2>2. PICK superseded \in
               {{}} \cup {{log[i].id} : i \in {j \in DOMAIN log : log[j].kind = "event"}} :
          StartLine(p, Event(issued + 1, op[p].key, superseded))
    BY <1>2 DEF AppendEvent
  <2>3. superseded \subseteq Nat
    <3>1. ASSUME NEW i \in DOMAIN log, log[i].kind = "event"
          PROVE  log[i].id \in Nat
      BY <3>1 DEF EvidenceInv, EvidenceTypes, LineOrRecord, Torn, Bad, Genesis
    <3> QED
      BY <2>2, <3>1
  <2> DEFINE record == Event(issued + 1, op[p].key, superseded)
  <2>4. issued \in Nat /\ issued' = issued + 1
    BY <1>2 DEF AppendEvent, EvidenceInv, EvidenceTypes
  <2>5. record \in LineOrRecord /\ ParsesOk(record) /\ record.kind # "genesis"
    BY <2>1, <2>3, <2>4 DEF LineOrRecord, Event, ParsesOk
  <2>6. At(p, "check") /\ Appendable(log) /\ log # <<>>
    BY <1>2 DEF AppendEvent, MayAppendEvent, HasGenesis
  <2> QED
    BY <2>2, <2>4, <2>5, <2>6
<1> QED
  BY <1>1, <1>2

LEMMA AppendPreserves ==
  ASSUME EvidenceInv, NEW p \in Procs, AppendGenesis(p) \/ AppendEvent(p)
  PROVE  EvidenceInv'
BY NewRecord, StartLinePreserves

LEMMA FinishLinePreserves ==
  ASSUME EvidenceInv, NEW p \in Procs, FinishLine(p)
  PROVE  EvidenceInv'
<1>1. /\ life[p] = "alive" /\ pc[p] = "finishLine" /\ owner = p
      /\ log' = [log EXCEPT ![Len(log)] = snapshot[p][1]]
      /\ pc' = [pc EXCEPT ![p] = "syncLine"]
      /\ UNCHANGED <<owner, life, op, snapshot, ackedBefore, disk, issued, acked>>
  BY DEF EvidenceInv, ProcessFact, LockFact, LockedLabels, FinishLine, Goto, At,
    LogLock!Alive, lock, history
<1>2. /\ log \in Seq(LineOrRecord) /\ snapshot[p] \in Seq(LineOrRecord)
      /\ Len(snapshot[p]) = 1 /\ ParsesOk(snapshot[p][1])
      /\ Len(log) > 0 /\ Parsed(log, Len(log) - 1) /\ ~ParsesOk(log[Len(log)])
  BY <1>1 DEF EvidenceInv, EvidenceTypes, ProcessFact, WriterFact, WritingLabels
<1>3. /\ log' \in Seq(LineOrRecord) /\ Len(log') = Len(log)
      /\ log'[Len(log)] = snapshot[p][1]
      /\ \A i \in 1..(Len(log) - 1) : log'[i] = log[i]
  <2>1. snapshot[p][1] \in LineOrRecord
    BY <1>2
  <2> QED
    BY <1>1, <1>2, <2>1
<1>4. EvidenceTypes'
  BY <1>1, <1>3 DEF EvidenceInv, EvidenceTypes, AppendLabels
<1>5. WriterFact(p)'
  <2>1. pc'[p] = "syncLine"
    BY <1>1 DEF EvidenceInv, EvidenceTypes
  <2>2. Parsed(log', Len(log') - 1)
    BY <1>2, <1>3 DEF Parsed
  <2> QED
    BY <1>1, <1>2, <1>3, <2>1, <2>2 DEF WriterFact
<1>6. LockFact(p)' /\ ReaderFact(p)'
  BY <1>1 DEF EvidenceInv, EvidenceTypes, ProcessFact, LockFact, ReaderFact, LockedLabels,
    RepairingLabels, ResultLabels
<1>7. AckedFact'
  <2>1. ASSUME NEW n \in 1..Len(log), Shared(n)
        PROVE  Same(log, log', n) /\ Same(log, disk', n)
    <3>1. n < Len(log)
      BY <1>2, <2>1 DEF Shared, Parsed
    <3>2. Same(log, disk', n)
      BY <1>1, <2>1 DEF Shared
    <3>3. \A i \in 1..n : log'[i] = log[i]
      BY <1>3, <3>1
    <3> QED
      BY <1>3, <3>1, <3>2, <3>3 DEF Same
  <2> QED
    BY <1>1, <1>4, <2>1, AckedStays DEF EvidenceInv
<1>8. \A q \in Procs \ {p} : pc'[q] = pc[q] /\ (pc[q] \in LockedLabels => owner' = q)
  BY <1>1, OwnerAlone DEF EvidenceInv, EvidenceTypes
<1> QED
  BY <1>1, <1>4, <1>5, <1>6, <1>7, <1>8, StepOfOne DEF ProcessFact, LockedLabels

\* The flush of the log by a writer or by a repair.
LEMMA FlushPreserves ==
  ASSUME EvidenceInv, NEW p \in Procs, pc[p] \in {"syncLine", "syncLog"}, disk' = log,
         pc' = [pc EXCEPT ![p] = IF pc[p] = "syncLine" THEN "appended" ELSE "readDone"],
         UNCHANGED <<life, op, snapshot, ackedBefore, log, issued, acked>>,
         pc[p] = "syncLine" => owner' = owner
  PROVE  EvidenceInv'
<1>1. owner = p /\ life[p] = "alive"
  BY DEF EvidenceInv, ProcessFact, LockFact, LockedLabels
<1>2. EvidenceTypes'
  BY DEF EvidenceInv, EvidenceTypes, AppendLabels, ReadLabels
<1>3. ProcessFact(p)'
  <2>1. CASE pc[p] = "syncLine"
    <3>1. pc'[p] = "appended"
      BY <2>1 DEF EvidenceInv, EvidenceTypes
    <3> QED
      BY <1>1, <2>1, <3>1 DEF EvidenceInv, ProcessFact, LockFact, WriterFact, ReaderFact,
        LockedLabels, WritingLabels, RepairingLabels, ResultLabels
  <2>2. CASE pc[p] = "syncLog"
    <3>1. pc'[p] = "readDone"
      BY <2>2 DEF EvidenceInv, EvidenceTypes
    <3> QED
      BY <1>1, <2>2, <3>1 DEF EvidenceInv, ProcessFact, LockFact, WriterFact, ReaderFact,
        LockedLabels, WritingLabels, RepairingLabels, ResultLabels
  <2> QED
    BY <2>1, <2>2
<1>4. AckedFact'
  <2>1. \A n \in 1..Len(log) : Same(log, log, n)
    BY DEF Same, EvidenceInv, EvidenceTypes
  <2>2. \A n \in 1..Len(log) : Same(log, log', n) /\ Same(log, disk', n)
    <3>1. log' = log /\ disk' = log
      OBVIOUS
    <3> QED
      BY <2>1, <3>1, Zenon
  <2> QED
    BY <1>2, <2>2, AckedStays DEF EvidenceInv
<1>5. \A q \in Procs \ {p} : pc'[q] = pc[q] /\ pc[q] \notin LockedLabels
  BY <1>1, OwnerAlone DEF EvidenceInv, EvidenceTypes
<1> QED
  BY <1>2, <1>3, <1>4, <1>5, StepOfOne DEF LockedLabels

LEMMA SyncLinePreserves ==
  ASSUME EvidenceInv, NEW p \in Procs, SyncLine(p)
  PROVE  EvidenceInv'
BY FlushPreserves DEF SyncLine, At, Goto, lock, history

LEMMA AppendReturnsPreserves ==
  ASSUME EvidenceInv, NEW p \in Procs, AppendReturns(p)
  PROVE  EvidenceInv'
<1>1. /\ pc[p] = "appended" /\ owner = p
      /\ acked' = acked \cup ToSet(snapshot[p]) /\ Finish(p)
      /\ UNCHANGED <<life, log, disk, issued>>
  BY DEF AppendReturns, LogLock!Release, At, storage
<1>2. /\ log \in Seq(LineOrRecord) /\ snapshot[p] \in Seq(LineOrRecord)
      /\ Len(snapshot[p]) = 1 /\ ParsesOk(snapshot[p][1])
      /\ Len(log) > 0 /\ Parsed(log, Len(log) - 1)
      /\ log[Len(log)] = snapshot[p][1] /\ disk = log
  BY <1>1 DEF EvidenceInv, EvidenceTypes, ProcessFact, WriterFact, WritingLabels
<1>3. acked' = acked \cup {log[Len(log)]}
  BY <1>1, <1>2 DEF ToSet
<1>4. /\ pc' = [pc EXCEPT ![p] = "idle"]
      /\ op' = [op EXCEPT ![p] = NoOp]
      /\ snapshot' = [snapshot EXCEPT ![p] = <<>>]
      /\ ackedBefore' = [ackedBefore EXCEPT ![p] = {}]
  BY <1>1 DEF Finish, Goto, Took
<1>5. EvidenceTypes'
  <2>1. /\ pc' \in [Procs -> {"idle"} \cup ReadLabels \cup AppendLabels]
        /\ op' \in [Procs -> Ops \cup {NoOp}]
        /\ snapshot' \in [Procs -> Seq(LineOrRecord)]
        /\ ackedBefore' \in [Procs -> SUBSET LineOrRecord]
    BY <1>4 DEF EvidenceInv, EvidenceTypes
  <2>2. acked' \subseteq LineOrRecord
    BY <1>2, <1>3 DEF EvidenceInv, EvidenceTypes
  <2> QED
    BY <1>1, <2>1, <2>2 DEF EvidenceInv, EvidenceTypes
<1>6. ProcessFact(p)'
  <2>1. pc'[p] = "idle" /\ ackedBefore'[p] = {}
    BY <1>4 DEF EvidenceInv, EvidenceTypes
  <2> QED
    BY <2>1 DEF ProcessFact, LockFact, WriterFact, ReaderFact, LockedLabels, WritingLabels,
      RepairingLabels, ResultLabels
<1>7. AckedFact'
  <2> SUFFICES ASSUME NEW r \in acked'
               PROVE  \E n \in 1..Len(log) : Shared(n) /\ log[n] = r
    BY <1>1 DEF AckedFact, Shared
  <2>1. CASE r \in acked
    BY <2>1 DEF EvidenceInv, AckedFact
  <2>2. CASE r = log[Len(log)]
    <3>1. Len(log) \in 1..Len(log) /\ Parsed(log, Len(log)) /\ Same(log, disk, Len(log))
      BY <1>2 DEF Parsed, Same
    <3> QED
      BY <2>2, <3>1 DEF Shared
  <2> QED
    BY <1>3, <2>1, <2>2
<1>8. \A q \in Procs \ {p} :
        /\ pc'[q] = pc[q] /\ snapshot'[q] = snapshot[q] /\ ackedBefore'[q] = ackedBefore[q]
        /\ pc[q] \notin LockedLabels
  BY <1>1, <1>4, OwnerAlone DEF EvidenceInv, EvidenceTypes
<1>9. acked \subseteq acked' /\ UNCHANGED life
  BY <1>1
<1> QED
  BY <1>1, <1>5, <1>6, <1>7, <1>8, <1>9, StepOfOne

-----------------------------------------------------------------------------
(* Reads and repairs *)

\* A record that has been acknowledged is accepted by whoever reads the log.
LEMMA AckedAreAccepted ==
  ASSUME EvidenceInv, NEW r \in acked
  PROVE  Accepted(log, r) /\ Accepted(disk, r)
<1>1. PICK n \in 1..Len(log) : Shared(n) /\ log[n] = r
  BY DEF EvidenceInv, AckedFact
<1>2. n \in 1..Len(disk) /\ disk[n] = r /\ Parsed(disk, n)
  BY <1>1 DEF Shared, Same, Parsed
<1> QED
  BY <1>1, <1>2 DEF Accepted, Shared

\* A read of the log, with the lock or without.
LEMMA SnapshotPreserves ==
  ASSUME EvidenceInv, NEW p \in Procs, life[p] = "alive",
         NEW label \in {"readDone", "waitingToRepair", "createQuarantine"},
         pc' = [pc EXCEPT ![p] = label], snapshot' = [snapshot EXCEPT ![p] = log],
         UNCHANGED <<life, op, ackedBefore, log, disk, issued, acked>>,
         owner' = owner \/ owner = p,
         label = "createQuarantine" => owner' = p
  PROVE  EvidenceInv'
<1>1. EvidenceTypes'
  BY DEF EvidenceInv, EvidenceTypes, ReadLabels
<1>2. pc'[p] = label /\ snapshot'[p] = log
  BY DEF EvidenceInv, EvidenceTypes
<1>3. \A r \in ackedBefore[p] : Accepted(log, r)
  BY AckedAreAccepted DEF EvidenceInv, ProcessFact, ReaderFact
<1>4. ReaderFact(p)'
  BY <1>2, <1>3 DEF EvidenceInv, ProcessFact, ReaderFact
<1>5. LockFact(p)' /\ WriterFact(p)'
  BY <1>2 DEF LockFact, WriterFact, LockedLabels, WritingLabels
<1>6. \A q \in Procs \ {p} :
        /\ pc'[q] = pc[q] /\ snapshot'[q] = snapshot[q]
        /\ pc[q] \in LockedLabels => owner' = q
  BY OwnerAlone DEF EvidenceInv, EvidenceTypes, ProcessFact, LockFact
<1> QED
  BY <1>1, <1>4, <1>5, <1>6, StepBeside DEF ProcessFact

LEMMA ReadPreserves ==
  ASSUME EvidenceInv, NEW p \in Procs, Read(p)
  PROVE  EvidenceInv'
<1>1. PICK label \in {"readDone", "waitingToRepair"} : pc' = [pc EXCEPT ![p] = label]
  BY DEF Read, Goto
<1>2. /\ life[p] = "alive" /\ snapshot' = [snapshot EXCEPT ![p] = log]
      /\ UNCHANGED <<owner, life, op, ackedBefore, log, disk, issued, acked>>
  BY DEF Read, Took, At, LogLock!Alive, lock, storage, history
<1> QED
  BY <1>1, <1>2, SnapshotPreserves

LEMMA RereadPreserves ==
  ASSUME EvidenceInv, NEW p \in Procs, Reread(p)
  PROVE  EvidenceInv'
<1>1. /\ life[p] = "alive" /\ owner = p /\ snapshot' = [snapshot EXCEPT ![p] = log]
      /\ UNCHANGED <<op, ackedBefore, log, disk, issued, acked>>
  BY DEF EvidenceInv, ProcessFact, LockFact, LockedLabels, Reread, RepairSnapshot, Took, At,
    LogLock!Alive, storage, history
<1>2. CASE Clean(RepairSnapshot(p))
  <2>1. life' = life /\ pc' = [pc EXCEPT ![p] = "readDone"]
    BY <1>2 DEF Reread, LogLock!Release, Goto
  <2> QED
    BY <1>1, <2>1, SnapshotPreserves
<1>3. CASE ~Clean(RepairSnapshot(p))
  <2>1. UNCHANGED <<owner, life>> /\ pc' = [pc EXCEPT ![p] = "createQuarantine"]
    BY <1>3 DEF Reread, lock, Goto
  <2> QED
    BY <1>1, <2>1, SnapshotPreserves
<1> QED
  BY <1>2, <1>3

LEMMA QuarantinePreserves ==
  ASSUME EvidenceInv, NEW p \in Procs, CreateQuarantine(p) \/ SyncQuarantine(p)
  PROVE  EvidenceInv'
<1>1. PICK label \in {"syncQuarantine", "truncate"} : pc' = [pc EXCEPT ![p] = label]
  BY DEF CreateQuarantine, SyncQuarantine, Goto
<1>2. /\ life[p] = "alive" /\ pc[p] \in {"createQuarantine", "syncQuarantine"}
      /\ UNCHANGED <<owner, life, op, snapshot, ackedBefore, log, disk, issued, acked>>
  BY DEF CreateQuarantine, SyncQuarantine, At, LogLock!Alive, lock, history
<1>3. ProcessFact(p)'
  BY <1>1, <1>2 DEF EvidenceInv, EvidenceTypes, ProcessFact, LockFact, WriterFact,
    ReaderFact, LockedLabels, WritingLabels, RepairingLabels, ResultLabels
<1>4. label \in {"idle"} \cup ReadLabels \cup AppendLabels
  BY DEF ReadLabels
<1> QED
  BY <1>1, <1>2, <1>3, <1>4, MovePreserves

\* What a repair leaves: the lines before the first that does not parse.
LEMMA TruncateCuts ==
  ASSUME EvidenceInv, NEW p \in Procs, Truncate(p)
  PROVE  /\ snapshot[p] = log /\ log' \in Seq(LineOrRecord)
         /\ Len(log') = ValidLineCount(log) /\ ValidLineCount(log) \in 0..Len(log)
         /\ Same(log, log', ValidLineCount(log))
<1>1. /\ snapshot[p] = log /\ log \in Seq(LineOrRecord)
      /\ log' = SubSeq(log, 1, ValidLineCount(log))
  BY DEF Truncate, At, Truncated, EvidenceInv, EvidenceTypes, ProcessFact, ReaderFact,
    RepairingLabels
<1>2. PICK n : n = ValidLineCount(log)
  OBVIOUS
<1>3. n \in 0..Len(log)
  BY <1>1, <1>2, ValidCount
<1>4. /\ SubSeq(log, 1, n) \in Seq(LineOrRecord) /\ Len(SubSeq(log, 1, n)) = n
      /\ \A i \in 1..n : SubSeq(log, 1, n)[i] = log[i]
  BY <1>1, <1>3, SubSeqPrefix
<1> QED
  BY <1>1, <1>2, <1>3, <1>4 DEF Same

LEMMA TruncatePreserves ==
  ASSUME EvidenceInv, NEW p \in Procs, Truncate(p)
  PROVE  EvidenceInv'
<1>1. /\ life[p] = "alive" /\ pc[p] = "truncate" /\ owner = p
      /\ pc' = [pc EXCEPT ![p] = "syncLog"]
      /\ UNCHANGED <<owner, life, op, snapshot, ackedBefore, disk, issued, acked>>
  BY DEF EvidenceInv, ProcessFact, LockFact, LockedLabels, Truncate, Goto, At,
    LogLock!Alive, lock, history
<1>2. /\ log' \in Seq(LineOrRecord) /\ Len(log') = ValidLineCount(log)
      /\ ValidLineCount(log) \in 0..Len(log) /\ Same(log, log', ValidLineCount(log))
  BY TruncateCuts
<1>3. EvidenceTypes'
  BY <1>1, <1>2 DEF EvidenceInv, EvidenceTypes, ReadLabels
<1>4. ProcessFact(p)'
  BY <1>1 DEF EvidenceInv, EvidenceTypes, ProcessFact, LockFact, WriterFact, ReaderFact,
    LockedLabels, WritingLabels, RepairingLabels, ResultLabels
<1>5. AckedFact'
  <2>1. ASSUME NEW n \in 1..Len(log), Shared(n)
        PROVE  Same(log, log', n) /\ Same(log, disk', n)
    <3>1. n <= ValidLineCount(log)
      BY <2>1, ValidAtLeast DEF Shared, EvidenceInv, EvidenceTypes
    <3> QED
      BY <1>1, <1>2, <2>1, <3>1 DEF Shared, Same
  <2> QED
    BY <1>1, <1>3, <2>1, AckedStays DEF EvidenceInv
<1>6. \A q \in Procs \ {p} : pc'[q] = pc[q] /\ pc[q] \notin LockedLabels
  BY <1>1, OwnerAlone DEF EvidenceInv, EvidenceTypes
<1> QED
  BY <1>1, <1>3, <1>4, <1>5, <1>6, StepOfOne DEF LockedLabels

LEMMA SyncLogPreserves ==
  ASSUME EvidenceInv, NEW p \in Procs, SyncLog(p)
  PROVE  EvidenceInv'
BY FlushPreserves DEF SyncLog, LogLock!Release, At, Goto, history

-----------------------------------------------------------------------------
(* Power losses, and the theorems *)

LEMMA PowerLossPreserves ==
  ASSUME EvidenceInv, PowerLoss
  PROVE  EvidenceInv'
<1>1. /\ pc' = [p \in Procs |-> "idle"] /\ op' = [p \in Procs |-> NoOp]
      /\ snapshot' = [p \in Procs |-> <<>>] /\ ackedBefore' = [p \in Procs |-> {}]
      /\ life' = [p \in Procs |-> IF LogLock!Alive(p) THEN "dead" ELSE life[p]]
      /\ log' \in Survivors(log, disk) /\ disk' = log' /\ UNCHANGED <<issued, acked>>
  BY DEF PowerLoss, history
<1>2. log \in Seq(LineOrRecord) /\ disk \in Seq(LineOrRecord)
  BY DEF EvidenceInv, EvidenceTypes
<1>3. ASSUME NEW n \in 0..Len(log), Same(log, disk, n)
      PROVE  log' \in Seq(LineOrRecord) /\ Same(log, log', n)
  BY <1>1, <1>2, <1>3, SurvivorsKeep
<1>4. Same(log, disk, 0) /\ 0 \in 0..Len(log)
  BY <1>2 DEF Same
<1>5. EvidenceTypes'
  <2>1. /\ pc' \in [Procs -> {"idle"} \cup ReadLabels \cup AppendLabels]
        /\ op' \in [Procs -> Ops \cup {NoOp}]
        /\ snapshot' \in [Procs -> Seq(LineOrRecord)]
        /\ ackedBefore' \in [Procs -> SUBSET LineOrRecord]
    BY <1>1
  <2>2. life' \in [Procs -> {"unborn", "alive", "dead"}]
    BY <1>1 DEF EvidenceInv, EvidenceTypes
  <2> QED
    BY <1>1, <1>3, <1>4, <2>1, <2>2 DEF EvidenceInv, EvidenceTypes
<1>6. \A p \in Procs : ProcessFact(p)'
  BY <1>1 DEF ProcessFact, LockFact, WriterFact, ReaderFact, LockedLabels, WritingLabels,
    RepairingLabels, ResultLabels
<1>7. AckedFact'
  <2>1. ASSUME NEW n \in 1..Len(log), Shared(n)
        PROVE  Same(log, log', n) /\ Same(log, disk', n)
    <3>1. n \in 0..Len(log) /\ Same(log, disk, n)
      BY <2>1 DEF Shared
    <3> QED
      BY <1>1, <1>3, <3>1
  <2> QED
    BY <1>1, <1>5, <2>1, AckedStays DEF EvidenceInv
<1> QED
  BY <1>5, <1>6, <1>7 DEF EvidenceInv

LEMMA NextEvidence == EvidenceInv /\ [Next]_vars => EvidenceInv'
<1> SUFFICES ASSUME EvidenceInv, [Next]_vars PROVE EvidenceInv'
  OBVIOUS
<1>1. CASE PowerLoss
  BY <1>1, PowerLossPreserves
<1>2. ASSUME NEW p \in Procs, Step(p)
      PROVE  EvidenceInv'
  BY <1>2, StartPreserves, ExitPreserves, ReclaimPreserves, BeginPreserves, LockPreserves,
    EndPreserves, GiveUpPreserves, AppendPreserves,
    FinishLinePreserves, SyncLinePreserves, AppendReturnsPreserves, ReadPreserves,
    RereadPreserves, QuarantinePreserves, TruncatePreserves, SyncLogPreserves
  DEF Step
<1>3. CASE UNCHANGED vars
  BY <1>3 DEF vars, lock, control, storage, history, EvidenceInv, EvidenceTypes, ProcessFact,
    LockFact, WriterFact, ReaderFact, AckedFact, Shared
<1> QED
  BY <1>1, <1>2, <1>3 DEF Next

\* Over all reachable states: the invariant that the theorems rest on.
LEMMA EvidenceInvariant == Spec => []EvidenceInv
BY InitEvidence, NextEvidence, PTL DEF Spec

\* AckedNeverLost, for any number of processes, records and crashes: what an
\* append has returned for is in the accepted prefix of the log and of the disk.
THEOREM AckedNeverLostHolds == Spec => []AckedNeverLost
<1>1. ASSUME EvidenceInv
      PROVE  AckedNeverLost
  <2>1. ASSUME NEW r \in acked
        PROVE  r \in Records(log) /\ r \in Records(disk)
    <3>1. Accepted(log, r) /\ Accepted(disk, r)
      BY <1>1, AckedAreAccepted
    <3>2. log \in Seq(LineOrRecord) /\ disk \in Seq(LineOrRecord)
      BY <1>1 DEF EvidenceInv, EvidenceTypes
    <3> QED
      BY <3>1, <3>2, RecordsAreAccepted DEF Accepted
  <2> QED
    BY <2>1 DEF AckedNeverLost
<1> QED
  BY <1>1, EvidenceInvariant, PTL

\* ReadsSeeAcked: a read returns what had been acknowledged when it began,
\* whichever repairs, failures and crashes come between.
THEOREM ReadsSeeAckedHolds == Spec => []ReadsSeeAcked
<1>1. ASSUME EvidenceInv
      PROVE  ReadsSeeAcked
  <2>1. ASSUME NEW p \in Procs, At(p, "readDone"), NEW r \in ackedBefore[p]
        PROVE  r \in Records(snapshot[p])
    <3>1. Accepted(snapshot[p], r)
      BY <1>1, <2>1 DEF EvidenceInv, ProcessFact, ReaderFact, ResultLabels, At
    <3>2. snapshot[p] \in Seq(LineOrRecord)
      BY <1>1 DEF EvidenceInv, EvidenceTypes
    <3> QED
      BY <3>1, <3>2, RecordsAreAccepted DEF Accepted
  <2> QED
    BY <2>1 DEF ReadsSeeAcked
<1> QED
  BY <1>1, EvidenceInvariant, PTL

LEMMA LinesOfTwoParts ==
  ASSUME NEW l \in Seq(LineOrRecord)
  PROVE  l = ValidLines(l) \o CorruptLines(l)
<1>1. PICK n : n = ValidLineCount(l)
  OBVIOUS
<1>2. n \in 0..Len(l)
  BY <1>1, ValidCount
<1>3. l = SubSeq(l, 1, n) \o SubSeq(l, n + 1, Len(l))
  <2> DEFINE a == SubSeq(l, 1, n)
             b == SubSeq(l, n + 1, Len(l))
  <2>1. a \in Seq(LineOrRecord) /\ Len(a) = n /\ \A i \in 1..n : a[i] = l[i]
    BY <1>2
  <2>2. /\ b \in Seq(LineOrRecord) /\ Len(b) = Len(l) - n
        /\ \A i \in 1..(Len(l) - n) : b[i] = l[n + i]
    BY <1>2
  <2> HIDE DEF a, b
  <2>3. /\ a \o b \in Seq(LineOrRecord) /\ Len(a \o b) = Len(l)
        /\ \A i \in 1..Len(l) : (a \o b)[i] = IF i <= n THEN a[i] ELSE b[i - n]
    BY <1>2, <2>1, <2>2
  <2>4. ASSUME NEW i \in 1..Len(l)
        PROVE  (a \o b)[i] = l[i]
    <3>1. CASE i <= n
      BY <1>2, <2>1, <2>3, <3>1
    <3>2. CASE ~(i <= n)
      <4>1. i - n \in 1..(Len(l) - n) /\ n + (i - n) = i
        BY <1>2, <3>2
      <4>2. b[i - n] = l[n + (i - n)]
        BY <2>2, <4>1
      <4> QED
        BY <2>3, <3>2, <4>1, <4>2
    <3> QED
      BY <3>1, <3>2
  <2>5. a \o b = l
    BY <2>3, <2>4, SeqEqual, Zenon
  <2> QED
    BY <2>5 DEF a, b
<1> QED
  BY <1>1, <1>3 DEF ValidLines, CorruptLines

\* RepairSparesWriters: when a repair truncates, nobody is writing, and what it
\* has set aside is what it cuts off.
THEOREM RepairSparesWritersHolds == Spec => []RepairSparesWriters
<1>1. ASSUME EvidenceInv
      PROVE  RepairSparesWriters
  <2>1. ASSUME NEW p \in Procs, NEW w \in Procs, At(p, "truncate")
        PROVE  /\ ~At(w, "finishLine") /\ ~At(w, "syncLine") /\ ~At(w, "appended")
               /\ log = ValidLines(snapshot[p]) \o CorruptLines(snapshot[p])
    <3>1. pc[p] = "truncate" /\ owner = p
      BY <1>1, <2>1 DEF EvidenceInv, ProcessFact, LockFact, LockedLabels, At
    <3>2. ~At(w, "finishLine") /\ ~At(w, "syncLine") /\ ~At(w, "appended")
      BY <1>1, <3>1, OwnerAlone DEF LockedLabels, At
    <3>3. snapshot[p] = log /\ log \in Seq(LineOrRecord)
      BY <1>1, <3>1 DEF EvidenceInv, EvidenceTypes, ProcessFact, ReaderFact, RepairingLabels
    <3> QED
      BY <3>2, <3>3, LinesOfTwoParts
  <2> QED
    BY <2>1 DEF RepairSparesWriters
<1> QED
  BY <1>1, EvidenceInvariant, PTL

-----------------------------------------------------------------------------
(* What the steps do to the log, the disk and the quarantine *)

\* Most steps touch none of them, and bring no process to where it writes.
Calm ==
  /\ UNCHANGED <<log, disk, files>>
  /\ \A p \in Procs :
       /\ pc'[p] \in {"finishLine", "syncQuarantine", "truncate"} =>
            pc'[p] = pc[p] /\ snapshot'[p] = snapshot[p]
       /\ snapshot'[p] \in {snapshot[p], <<>>, log}

StorageStep(p) ==
  \/ AppendGenesis(p) \/ AppendEvent(p) \/ FinishLine(p) \/ SyncLine(p) \/ SyncLog(p)
  \/ CreateQuarantine(p) \/ SyncQuarantine(p) \/ Truncate(p)

LEMMA CalmSteps ==
  ASSUME EvidenceInv, NEW p \in Procs, Step(p), ~StorageStep(p)
  PROVE  Calm
<1>1. \/ Start(p) \/ ReclaimFromDead(p) \/ Begin(p) \/ Lock(p)
      \/ Read(p) \/ Reread(p)
      \/ Finish(p) /\ UNCHANGED <<log, disk, files>>
  BY DEF Step, StorageStep, Exit, LockTimesOut, GenesisPresent, AppendRefused, AppendFails,
    AppendReturns, ObservationRejected, RepairFails, ReadReturns, LeaveLocked, storage
<1>2. pc \in [Procs -> {"idle"} \cup ReadLabels \cup AppendLabels]
      /\ snapshot \in [Procs -> Seq(LineOrRecord)]
  BY DEF EvidenceInv, EvidenceTypes
<1>3. CASE Start(p) \/ ReclaimFromDead(p)
  BY <1>3 DEF Start, ReclaimFromDead, control, storage, Calm
<1>4. CASE Begin(p)
  <2>1. PICK label \in {"read", "waitingToAppend"} : pc' = [pc EXCEPT ![p] = label]
    BY <1>4 DEF Begin, Goto
  <2> QED
    BY <1>2, <1>4, <2>1 DEF Begin, storage, Calm
<1>5. CASE Lock(p)
  <2>1. PICK label \in {"check", "reread"} : pc' = [pc EXCEPT ![p] = label]
    BY <1>5 DEF Lock, Goto
  <2> QED
    BY <1>2, <1>5, <2>1 DEF Lock, storage, Calm
<1>6. CASE Read(p) \/ Reread(p)
  <2>1. PICK label \in {"readDone", "waitingToRepair", "createQuarantine"} :
          pc' = [pc EXCEPT ![p] = label]
    BY <1>6 DEF Read, Reread, Goto
  <2>2. snapshot' = [snapshot EXCEPT ![p] = log] /\ UNCHANGED <<log, disk, files>>
    BY <1>6 DEF Read, Reread, RepairSnapshot, Took, storage
  <2> QED
    BY <1>2, <2>1, <2>2 DEF Calm
<1>7. CASE Finish(p) /\ UNCHANGED <<log, disk, files>>
  <2>1. pc' = [pc EXCEPT ![p] = "idle"] /\ snapshot' = [snapshot EXCEPT ![p] = <<>>]
    BY <1>7 DEF Finish, Goto, Took
  <2> QED
    BY <1>2, <1>7, <2>1 DEF Calm
<1> QED
  BY <1>1, <1>3, <1>4, <1>5, <1>6, <1>7

LEMMA StepShapes ==
  ASSUME EvidenceInv, [Next]_vars
  PROVE  Calm \/ PowerLoss \/ \E p \in Procs : StorageStep(p)
<1>1. CASE UNCHANGED vars
  BY <1>1 DEF vars, control, storage, Calm
<1>2. CASE Next
  BY <1>2, CalmSteps DEF Next
<1> QED
  BY <1>1, <1>2

LEMMA AppendShape ==
  ASSUME EvidenceInv, NEW p \in Procs, AppendGenesis(p) \/ AppendEvent(p)
  PROVE  /\ log' \in Seq(LineOrRecord) /\ Len(log') = Len(log) + 1
         /\ log'[Len(log')] = Torn /\ \A i \in 1..Len(log) : log'[i] = log[i]
         /\ Parsed(log, Len(log)) /\ owner' = p /\ UNCHANGED <<disk, files>>
         /\ pc'[p] = "finishLine" /\ Len(snapshot'[p]) = 1
         /\ ParsesOk(snapshot'[p][1])
         /\ (snapshot'[p][1].kind = "genesis") <=> (log = <<>>)
         /\ \A q \in Procs \ {p} : snapshot'[q] = snapshot[q]
<1>1. PICK record \in LineOrRecord :
        /\ ParsesOk(record) /\ StartLine(p, record)
        /\ (record.kind = "genesis") <=> (log = <<>>)
  BY NewRecord
<1>2. /\ log' = Append(log, Torn) /\ snapshot' = [snapshot EXCEPT ![p] = <<record>>]
      /\ pc' = [pc EXCEPT ![p] = "finishLine"] /\ UNCHANGED <<owner, disk, files>>
  BY <1>1 DEF StartLine, Took, Goto, lock
<1>3. log \in Seq(LineOrRecord) /\ Torn \in LineOrRecord
  BY DEF EvidenceInv, EvidenceTypes, LineOrRecord
<1>4. Parsed(log, Len(log)) /\ owner = p
  <2>1. At(p, "check") /\ Appendable(log)
    BY NewRecord
  <2> QED
    BY <1>3, <2>1, ValidCount DEF Appendable, Clean, At, EvidenceInv, ProcessFact, LockFact,
      LockedLabels
<1>5. pc'[p] = "finishLine" /\ snapshot'[p] = <<record>>
      /\ \A q \in Procs \ {p} : snapshot'[q] = snapshot[q]
  BY <1>2 DEF EvidenceInv, EvidenceTypes
<1>6. /\ log' \in Seq(LineOrRecord) /\ Len(log') = Len(log) + 1
      /\ log'[Len(log')] = Torn /\ \A i \in 1..Len(log) : log'[i] = log[i]
  BY <1>2, <1>3
<1> QED
  BY <1>1, <1>2, <1>4, <1>5, <1>6

LEMMA FinishShape ==
  ASSUME EvidenceInv, NEW p \in Procs, FinishLine(p)
  PROVE  /\ log' \in Seq(LineOrRecord) /\ Len(log') = Len(log) /\ Len(log) > 0
         /\ log'[Len(log)] = snapshot[p][1] /\ ParsesOk(snapshot[p][1])
         /\ \A i \in 1..(Len(log) - 1) : log'[i] = log[i]
         /\ Parsed(log, Len(log) - 1) /\ ~ParsesOk(log[Len(log)])
         /\ owner' = p /\ UNCHANGED <<disk, files, snapshot>>
         /\ pc[p] = "finishLine" /\ pc'[p] = "syncLine"
<1>1. /\ pc[p] = "finishLine" /\ owner = p
      /\ log' = [log EXCEPT ![Len(log)] = snapshot[p][1]]
      /\ pc' = [pc EXCEPT ![p] = "syncLine"]
      /\ UNCHANGED <<owner, snapshot, disk, files>>
  BY DEF EvidenceInv, ProcessFact, LockFact, LockedLabels, FinishLine, Goto, At, lock
<1>2. /\ log \in Seq(LineOrRecord) /\ snapshot[p] \in Seq(LineOrRecord)
      /\ Len(snapshot[p]) = 1 /\ ParsesOk(snapshot[p][1])
      /\ Len(log) > 0 /\ Parsed(log, Len(log) - 1) /\ ~ParsesOk(log[Len(log)])
  BY <1>1 DEF EvidenceInv, EvidenceTypes, ProcessFact, WriterFact, WritingLabels
<1>3. snapshot[p][1] \in LineOrRecord
  BY <1>2
<1>4. pc'[p] = "syncLine"
  BY <1>1 DEF EvidenceInv, EvidenceTypes
<1> QED
  BY <1>1, <1>2, <1>3, <1>4

LEMMA SyncShape ==
  ASSUME EvidenceInv, NEW p \in Procs, SyncLine(p) \/ SyncLog(p)
  PROVE  /\ disk' = log /\ UNCHANGED <<log, files, snapshot>>
         /\ \A q \in Procs : pc'[q] \notin {"finishLine", "syncQuarantine", "truncate"}
<1>1. /\ disk' = log /\ UNCHANGED <<log, files, snapshot>> /\ pc[p] \in {"syncLine", "syncLog"}
  BY DEF SyncLine, SyncLog, At
<1>2. PICK label \in {"appended", "readDone"} : pc' = [pc EXCEPT ![p] = label]
  BY DEF SyncLine, SyncLog, Goto
<1>3. \A q \in Procs \ {p} : pc[q] \notin LockedLabels
  BY <1>1, OwnerAlone DEF EvidenceInv, ProcessFact, LockFact, LockedLabels
<1> QED
  BY <1>1, <1>2, <1>3 DEF EvidenceInv, EvidenceTypes, LockedLabels

\* PrefixOnlyGrows: only a power loss takes lines out of the accepted prefix.
THEOREM PrefixOnlyGrowsHolds == Spec => PrefixOnlyGrows
<1>1. ASSUME EvidenceInv, EvidenceInv', [Next]_vars
      PROVE  PowerLoss \/ IsPrefix(ValidLines(log), ValidLines(log'))
  <2>1. log \in Seq(LineOrRecord) /\ log' \in Seq(LineOrRecord)
    BY <1>1 DEF EvidenceInv, EvidenceTypes
  <2>2. /\ ValidLineCount(log) \in 0..Len(log) /\ Parsed(log, ValidLineCount(log))
    BY <2>1, ValidCount
  <2>3. CASE UNCHANGED log
    BY <2>1, <2>2, <2>3, PrefixKept DEF Same
  <2>4. ASSUME NEW p \in Procs, AppendGenesis(p) \/ AppendEvent(p)
        PROVE  Same(log, log', ValidLineCount(log))
    BY <1>1, <2>1, <2>2, <2>4, AppendShape DEF Same
  <2>5. ASSUME NEW p \in Procs, FinishLine(p)
        PROVE  Same(log, log', ValidLineCount(log))
    <3>1. /\ Len(log') = Len(log) /\ Len(log) > 0 /\ ~ParsesOk(log[Len(log)])
          /\ \A i \in 1..(Len(log) - 1) : log'[i] = log[i]
      BY <1>1, <2>5, FinishShape
    <3>2. ValidLineCount(log) \in 0..(Len(log) - 1)
      BY <2>1, <2>2, <3>1 DEF Parsed
    <3> QED
      BY <2>1, <3>1, <3>2 DEF Same
  <2>6. ASSUME NEW p \in Procs, Truncate(p)
        PROVE  Same(log, log', ValidLineCount(log))
    BY <1>1, <2>6, TruncateCuts
  <2>7. ASSUME NEW p \in Procs,
               SyncLine(p) \/ SyncLog(p) \/ CreateQuarantine(p) \/ SyncQuarantine(p)
        PROVE  UNCHANGED log
    BY <2>7 DEF SyncLine, SyncLog, CreateQuarantine, SyncQuarantine
  <2> QED
    BY <1>1, <2>1, <2>3, <2>4, <2>5, <2>6, <2>7, StepShapes, PrefixKept
    DEF StorageStep, Calm
<1> QED
  BY <1>1, EvidenceInvariant, PTL DEF Spec, PrefixOnlyGrows

-----------------------------------------------------------------------------
(* Flushed lines and the quarantine *)

Quarantined(line) == \E f \in files : f.synced /\ line \in ToSet(f.lines)

\* A repair has set aside what it will cut, and a writer writes behind the flushed
\* lines that the log still shows.
QuarantineFact(p) ==
  /\ pc[p] = "finishLine" => \A i \in 1..Len(disk) :
       (i < Len(log) /\ Same(log, disk, i)) \/ Quarantined(disk[i])
  /\ pc[p] = "syncQuarantine" => \E f \in files : f.lines = CorruptLines(log)
  /\ pc[p] = "truncate" => \E f \in files : f.synced /\ f.lines = CorruptLines(log)

FlushInv ==
  /\ files \subseteq [lines : Seq(LineOrRecord), synced : BOOLEAN]
  /\ \A i \in 1..Len(disk) : Same(log, disk, i) \/ Quarantined(disk[i])
  /\ \A p \in Procs : QuarantineFact(p)

LEMMA CorruptPart ==
  ASSUME NEW l \in Seq(LineOrRecord)
  PROVE  /\ CorruptLines(l) \in Seq(LineOrRecord)
         /\ \A i \in 1..Len(l) : i > ValidLineCount(l) => l[i] \in ToSet(CorruptLines(l))
<1>1. PICK n : n = ValidLineCount(l)
  OBVIOUS
<1>2. n \in 0..Len(l)
  BY <1>1, ValidCount
<1> DEFINE s == SubSeq(l, n + 1, Len(l))
<1>3. /\ s \in Seq(LineOrRecord) /\ DOMAIN s = 1..(Len(l) - n)
      /\ \A j \in 1..(Len(l) - n) : s[j] = l[n + j]
  BY <1>2
<1> HIDE DEF s
<1>4. ASSUME NEW i \in 1..Len(l), i > n
      PROVE  l[i] \in ToSet(s)
  <2>1. i - n \in 1..(Len(l) - n) /\ n + (i - n) = i
    BY <1>2, <1>4
  <2>2. s[i - n] = l[n + (i - n)]
    BY <1>3, <2>1
  <2> QED
    BY <1>3, <2>1, <2>2 DEF ToSet
<1>5. CorruptLines(l) = s
  BY <1>1 DEF CorruptLines, s
<1> QED
  BY <1>1, <1>3, <1>4, <1>5

LEMMA InitFlush == Init => FlushInv
<1> SUFFICES ASSUME Init PROVE FlushInv
  OBVIOUS
<1>1. log \in Seq(LineOrRecord) /\ disk = log
  BY EvidenceAssumption DEF Init
<1> QED
  BY <1>1 DEF Init, FlushInv, QuarantineFact, Same

\* A flushed quarantine file keeps its lines.
Saved(line) == \E f \in files' : f.synced /\ line \in ToSet(f.lines)

LEMMA QuarantineStays ==
  ASSUME FlushInv, EvidenceInv, [Next]_vars
  PROVE  \A line : Quarantined(line) => Saved(line)
<1> SUFFICES ASSUME NEW line, Quarantined(line) PROVE Saved(line)
  OBVIOUS
<1>1. PICK f \in files : f.synced /\ line \in ToSet(f.lines)
  BY DEF Quarantined
<1>2. CASE Calm \/ PowerLoss
  BY <1>1, <1>2 DEF Calm, PowerLoss, Saved
<1>3. ASSUME NEW p \in Procs, StorageStep(p)
      PROVE  Saved(line)
  <2>1. CASE SyncQuarantine(p)
    <3>1. files' = {IF g.lines = CorruptLines(snapshot[p]) THEN Flushed(g) ELSE g : g \in files}
      BY <2>1 DEF SyncQuarantine
    <3>2. f \in [lines : Seq(LineOrRecord), synced : BOOLEAN]
      BY DEF FlushInv
    <3>3. Flushed(f).synced /\ Flushed(f).lines = f.lines
      BY <3>2 DEF Flushed
    <3> QED
      BY <1>1, <3>1, <3>3 DEF Saved
  <2>2. CASE ~SyncQuarantine(p)
    <3>1. files \subseteq files'
      BY <1>3, <2>2, AppendShape, FinishShape, SyncShape
      DEF StorageStep, CreateQuarantine, Truncate
    <3> QED
      BY <1>1, <3>1 DEF Saved
  <2> QED
    BY <2>1, <2>2
<1> QED
  BY <1>2, <1>3, StepShapes

\* A step of the holder of the lock: the facts of the others are void.
LEMMA HolderFacts ==
  ASSUME EvidenceInv', NEW p \in Procs, owner' = p, QuarantineFact(p)'
  PROVE  \A q \in Procs : QuarantineFact(q)'
<1>1. \A q \in Procs \ {p} : pc'[q] \notin LockedLabels
  BY DEF EvidenceInv, ProcessFact, LockFact
<1> QED
  BY <1>1 DEF QuarantineFact, LockedLabels

LEMMA FlushOfAppend ==
  ASSUME EvidenceInv, EvidenceInv', FlushInv, [Next]_vars, NEW p \in Procs,
         AppendGenesis(p) \/ AppendEvent(p)
  PROVE  FlushInv'
<1>1. /\ log \in Seq(LineOrRecord) /\ Len(log') = Len(log) + 1
      /\ \A i \in 1..Len(log) : log'[i] = log[i]
      /\ pc'[p] = "finishLine" /\ owner' = p /\ UNCHANGED <<disk, files>>
  BY AppendShape DEF EvidenceInv, EvidenceTypes
<1>2. ASSUME NEW i \in 1..Len(disk)
      PROVE  (i < Len(log') /\ Same(log', disk, i)) \/ Saved(disk[i])
  <2>1. CASE Quarantined(disk[i])
    BY <2>1, QuarantineStays
  <2>2. CASE Same(log, disk, i)
    BY <1>1, <2>2 DEF Same
  <2> QED
    BY <2>1, <2>2 DEF FlushInv
<1>3. QuarantineFact(p)'
  BY <1>1, <1>2 DEF QuarantineFact, Saved, Quarantined
<1>4. \A q \in Procs : QuarantineFact(q)'
  BY <1>1, <1>3, HolderFacts
<1> QED
  BY <1>1, <1>2, <1>4 DEF FlushInv, Saved, Quarantined

LEMMA FlushOfFinish ==
  ASSUME EvidenceInv, EvidenceInv', FlushInv, [Next]_vars, NEW p \in Procs, FinishLine(p)
  PROVE  FlushInv'
<1>1. /\ log \in Seq(LineOrRecord) /\ Len(log') = Len(log)
      /\ \A i \in 1..(Len(log) - 1) : log'[i] = log[i]
      /\ pc[p] = "finishLine" /\ pc'[p] = "syncLine" /\ owner' = p
      /\ UNCHANGED <<disk, files>>
  BY FinishShape DEF EvidenceInv, EvidenceTypes
<1>2. ASSUME NEW i \in 1..Len(disk)
      PROVE  Same(log', disk, i) \/ Saved(disk[i])
  <2>1. CASE Quarantined(disk[i])
    BY <2>1, QuarantineStays
  <2>2. CASE i < Len(log) /\ Same(log, disk, i)
    BY <1>1, <2>2 DEF Same
  <2> QED
    BY <1>1, <2>1, <2>2 DEF FlushInv, QuarantineFact
<1>3. QuarantineFact(p)'
  BY <1>1 DEF QuarantineFact
<1>4. \A q \in Procs : QuarantineFact(q)'
  BY <1>1, <1>3, HolderFacts
<1> QED
  BY <1>1, <1>2, <1>4 DEF FlushInv, Saved, Quarantined

LEMMA FlushOfSync ==
  ASSUME EvidenceInv, EvidenceInv', FlushInv, NEW p \in Procs, SyncLine(p) \/ SyncLog(p)
  PROVE  FlushInv'
<1>1. /\ disk' = log' /\ UNCHANGED files /\ disk' \in Seq(LineOrRecord)
      /\ \A q \in Procs : pc'[q] \notin {"finishLine", "syncQuarantine", "truncate"}
  BY SyncShape DEF EvidenceInv, EvidenceTypes
<1>2. \A i \in 1..Len(disk') : Same(log', disk', i)
  BY <1>1 DEF Same
<1>3. \A q \in Procs : QuarantineFact(q)'
  BY <1>1 DEF QuarantineFact
<1> QED
  BY <1>1, <1>2, <1>3 DEF FlushInv

LEMMA FlushOfQuarantine ==
  ASSUME EvidenceInv, EvidenceInv', FlushInv, [Next]_vars, NEW p \in Procs,
         CreateQuarantine(p) \/ SyncQuarantine(p)
  PROVE  FlushInv'
<1>1. /\ log \in Seq(LineOrRecord) /\ snapshot[p] = log /\ owner = p
      /\ UNCHANGED <<owner, log, disk>>
  BY DEF EvidenceInv, EvidenceTypes, ProcessFact, LockFact, ReaderFact, LockedLabels,
    RepairingLabels, CreateQuarantine, SyncQuarantine, At, lock
<1>2. CorruptLines(log) \in Seq(LineOrRecord)
  BY <1>1, CorruptPart
<1>3. files' \subseteq [lines : Seq(LineOrRecord), synced : BOOLEAN] /\ QuarantineFact(p)'
  <2>1. CASE CreateQuarantine(p)
    <3>1. /\ files' = files \cup {[lines |-> CorruptLines(log), synced |-> FALSE]}
          /\ pc' = [pc EXCEPT ![p] = "syncQuarantine"]
      BY <1>1, <2>1 DEF CreateQuarantine, Goto
    <3>2. pc'[p] = "syncQuarantine"
      BY <3>1 DEF EvidenceInv, EvidenceTypes
    <3> DEFINE copy == [lines |-> CorruptLines(log), synced |-> FALSE]
    <3>3. copy \in files' /\ copy.lines = CorruptLines(log')
      BY <1>1, <3>1
    <3>4. files' \subseteq [lines : Seq(LineOrRecord), synced : BOOLEAN]
      <4>1. copy \in [lines : Seq(LineOrRecord), synced : BOOLEAN]
        BY <1>2
      <4> HIDE DEF copy
      <4>2. files' = files \cup {copy}
        BY <3>1 DEF copy
      <4> QED
        BY <4>1, <4>2 DEF FlushInv
    <3> QED
      BY <3>2, <3>3, <3>4 DEF QuarantineFact
  <2>2. CASE SyncQuarantine(p)
    <3>1. /\ files' = {IF g.lines = CorruptLines(log) THEN Flushed(g) ELSE g : g \in files}
          /\ pc[p] = "syncQuarantine" /\ pc' = [pc EXCEPT ![p] = "truncate"]
      BY <1>1, <2>2 DEF SyncQuarantine, Goto, At
    <3>2. pc'[p] = "truncate"
      BY <3>1 DEF EvidenceInv, EvidenceTypes
    <3>3. ASSUME NEW g \in files
          PROVE  /\ Flushed(g) \in [lines : Seq(LineOrRecord), synced : BOOLEAN]
                 /\ Flushed(g).synced /\ Flushed(g).lines = g.lines
      BY DEF FlushInv, Flushed
    <3>4. PICK f \in files : f.lines = CorruptLines(log)
      BY <3>1 DEF FlushInv, QuarantineFact
    <3>5. \E g \in files' : g.synced /\ g.lines = CorruptLines(log')
      <4>1. Flushed(f) \in files'
        BY <3>1, <3>4
      <4> QED
        BY <1>1, <3>3, <3>4, <4>1
    <3>6. files' \subseteq [lines : Seq(LineOrRecord), synced : BOOLEAN]
      BY <3>1, <3>3 DEF FlushInv
    <3> QED
      BY <3>2, <3>5, <3>6 DEF QuarantineFact
  <2> QED
    BY <2>1, <2>2
<1>4. \A q \in Procs : QuarantineFact(q)'
  BY <1>1, <1>3, HolderFacts
<1>5. ASSUME NEW i \in 1..Len(disk)
      PROVE  Same(log', disk, i) \/ Saved(disk[i])
  <2>1. CASE Quarantined(disk[i])
    BY <2>1, QuarantineStays
  <2>2. CASE Same(log, disk, i)
    BY <1>1, <2>2
  <2> QED
    BY <2>1, <2>2 DEF FlushInv
<1> QED
  BY <1>1, <1>3, <1>4, <1>5 DEF FlushInv, Saved, Quarantined

LEMMA FlushOfTruncate ==
  ASSUME EvidenceInv, EvidenceInv', FlushInv, [Next]_vars, NEW p \in Procs, Truncate(p)
  PROVE  FlushInv'
<1>1. /\ log \in Seq(LineOrRecord) /\ pc[p] = "truncate" /\ owner = p /\ owner' = p
      /\ pc' = [pc EXCEPT ![p] = "syncLog"] /\ UNCHANGED <<disk, files>>
  BY DEF EvidenceInv, EvidenceTypes, ProcessFact, LockFact, LockedLabels, Truncate, Goto, At,
    lock
<1>2. /\ Len(log') = ValidLineCount(log) /\ ValidLineCount(log) \in 0..Len(log)
      /\ Same(log, log', ValidLineCount(log))
  BY TruncateCuts
<1>3. PICK f \in files : f.synced /\ f.lines = CorruptLines(log)
  BY <1>1 DEF FlushInv, QuarantineFact
<1>4. ASSUME NEW i \in 1..Len(disk)
      PROVE  Same(log', disk, i) \/ Saved(disk[i])
  <2>1. CASE Quarantined(disk[i])
    BY <2>1, QuarantineStays
  <2>2. CASE Same(log, disk, i) /\ i <= ValidLineCount(log)
    BY <1>2, <2>2 DEF Same
  <2>3. CASE Same(log, disk, i) /\ i > ValidLineCount(log)
    <3>1. i \in 1..Len(log) /\ log[i] = disk[i]
      BY <2>3 DEF Same
    <3>2. disk[i] \in ToSet(f.lines)
      BY <1>1, <1>3, <2>3, <3>1, CorruptPart
    <3> QED
      BY <1>1, <1>3, <3>2 DEF Saved
  <2> QED
    BY <1>2, <2>1, <2>2, <2>3 DEF FlushInv
<1>5. QuarantineFact(p)'
  <2>1. pc'[p] = "syncLog"
    BY <1>1 DEF EvidenceInv, EvidenceTypes
  <2> QED
    BY <2>1 DEF QuarantineFact
<1>6. \A q \in Procs : QuarantineFact(q)'
  BY <1>1, <1>5, HolderFacts
<1> QED
  BY <1>1, <1>4, <1>6 DEF FlushInv, Saved, Quarantined

LEMMA FlushOfPowerLoss ==
  ASSUME EvidenceInv', FlushInv, PowerLoss
  PROVE  FlushInv'
<1>1. /\ disk' = log' /\ files' \subseteq files /\ disk' \in Seq(LineOrRecord)
      /\ pc' = [p \in Procs |-> "idle"]
  BY DEF PowerLoss, EvidenceInv, EvidenceTypes
<1>2. \A i \in 1..Len(disk') : Same(log', disk', i)
  BY <1>1 DEF Same
<1>3. \A q \in Procs : QuarantineFact(q)'
  BY <1>1 DEF QuarantineFact
<1> QED
  BY <1>1, <1>2, <1>3 DEF FlushInv

LEMMA FlushOfCalm ==
  ASSUME FlushInv, Calm
  PROVE  FlushInv'
<1>1. ASSUME NEW q \in Procs
      PROVE  QuarantineFact(q)'
  BY DEF Calm, FlushInv, QuarantineFact, Quarantined
<1> QED
  BY <1>1 DEF Calm, FlushInv, Quarantined

LEMMA NextFlush == EvidenceInv /\ EvidenceInv' /\ FlushInv /\ [Next]_vars => FlushInv'
BY StepShapes, FlushOfAppend, FlushOfFinish, FlushOfSync, FlushOfQuarantine, FlushOfTruncate,
  FlushOfPowerLoss, FlushOfCalm
DEF StorageStep

LEMMA FlushInvariant == Spec => []FlushInv
BY InitFlush, NextFlush, EvidenceInvariant, PTL DEF Spec

\* FlushedNeverVanishes: a flushed line stays on disk, or in a flushed
\* quarantine file, whatever fails.
THEOREM FlushedNeverVanishesHolds == Spec => FlushedNeverVanishes
<1>1. ASSUME EvidenceInv, FlushInv, [Next]_vars
      PROVE  \A line \in ToSet(disk) :
               \/ line \in ToSet(disk')
               \/ \E f \in files' : f.synced /\ line \in ToSet(f.lines)
  <2> SUFFICES ASSUME NEW line \in ToSet(disk), ~Saved(line)
               PROVE  line \in ToSet(disk')
    BY DEF Saved
  <2>1. PICK i \in 1..Len(disk) : line = disk[i]
    BY <1>1 DEF ToSet, EvidenceInv, EvidenceTypes
  <2>2. ~Quarantined(disk[i])
    BY <1>1, <2>1, QuarantineStays
  <2>3. Same(log, disk, i) /\ log \in Seq(LineOrRecord) /\ disk \in Seq(LineOrRecord)
    BY <1>1, <2>2 DEF FlushInv, EvidenceInv, EvidenceTypes
  <2>4. CASE UNCHANGED disk
    BY <2>3, <2>4, <2>1 DEF ToSet
  <2>5. CASE disk' = log
    <3>1. i \in DOMAIN log /\ log[i] = disk[i]
      BY <2>3 DEF Same
    <3> QED
      BY <2>5, <2>1, <3>1 DEF ToSet
  <2>6. CASE PowerLoss
    <3>1. log' \in Survivors(log, disk) /\ disk' = log'
      BY <2>6 DEF PowerLoss
    <3>2. i \in 0..Len(log)
      BY <2>3 DEF Same
    <3>3. disk' \in Seq(LineOrRecord) /\ Same(log, disk', i)
      BY <2>3, <3>1, <3>2, SurvivorsKeep
    <3>4. i \in DOMAIN disk' /\ disk'[i] = disk[i]
      BY <2>3, <3>3 DEF Same
    <3> QED
      BY <2>1, <3>4 DEF ToSet
  <2>7. ASSUME NEW p \in Procs, StorageStep(p)
        PROVE  UNCHANGED disk \/ disk' = log
    BY <1>1, <2>7, AppendShape, FinishShape, SyncShape
    DEF StorageStep, CreateQuarantine, SyncQuarantine, Truncate
  <2> QED
    BY <1>1, <2>4, <2>5, <2>6, <2>7, StepShapes DEF Calm
<1> QED
  BY <1>1, EvidenceInvariant, FlushInvariant, PTL DEF Spec, FlushedNeverVanishes

-----------------------------------------------------------------------------
(* Half lines, and the types *)

TornInv ==
  /\ TornOnlyLast(log) /\ TornOnlyLast(disk)
  /\ \A p \in Procs : TornOnlyLast(snapshot[p])

Counts == owner \in Procs \cup {NoProc} /\ issued \in 0..MaxEvents

LEMMA InitTypes == Init => TornInv /\ Counts
<1> SUFFICES ASSUME Init PROVE TornInv /\ Counts
  OBVIOUS
<1>1. TornOnlyLast(log) /\ disk = log
  BY EvidenceAssumption DEF Init
<1> QED
  BY <1>1, EvidenceAssumption DEF Init, TornInv, TornOnlyLast, Counts, LogLock!Init

LEMMA TornOfPowerLoss ==
  ASSUME EvidenceInv, TornInv, PowerLoss
  PROVE  TornInv'
<1>1. /\ log \in Seq(LineOrRecord) /\ disk \in Seq(LineOrRecord)
      /\ log' \in Survivors(log, disk) /\ disk' = log'
      /\ snapshot' = [p \in Procs |-> <<>>]
  BY DEF EvidenceInv, EvidenceTypes, PowerLoss
<1>2. 0 \in 0..Len(log) /\ Same(log, disk, 0)
  BY <1>1 DEF Same
<1>3. log' \in Seq(LineOrRecord) /\ (log' = disk \/ PartOf(log, log'))
  BY <1>1, <1>2, SurvivorsKeep
<1>4. TornOnlyLast(log')
  <2>1. CASE log' = disk
    BY <2>1 DEF TornInv
  <2>2. CASE PartOf(log, log')
    <3> SUFFICES ASSUME NEW i \in 1..(Len(log') - 1) PROVE log'[i] # Torn
      BY DEF TornOnlyLast
    <3>1. i \in 1..(Len(log) - 1) /\ log'[i] = log[i]
      BY <1>1, <1>3, <2>2 DEF PartOf
    <3> QED
      BY <3>1 DEF TornInv, TornOnlyLast
  <2> QED
    BY <1>3, <2>1, <2>2
<1>5. \A p \in Procs : TornOnlyLast(snapshot'[p])
  BY <1>1 DEF TornOnlyLast
<1> QED
  BY <1>1, <1>4, <1>5 DEF TornInv

LEMMA NextTorn == EvidenceInv /\ EvidenceInv' /\ TornInv /\ [Next]_vars => TornInv'
<1> SUFFICES ASSUME EvidenceInv, EvidenceInv', TornInv, [Next]_vars PROVE TornInv'
  OBVIOUS
<1>1. log \in Seq(LineOrRecord) /\ log' \in Seq(LineOrRecord)
  BY DEF EvidenceInv, EvidenceTypes
<1>2. CASE Calm
  BY <1>2 DEF Calm, TornInv, TornOnlyLast
<1>3. CASE PowerLoss
  BY <1>3, TornOfPowerLoss
<1>4. ASSUME NEW p \in Procs, AppendGenesis(p) \/ AppendEvent(p)
      PROVE  TornInv'
  <2>1. /\ Len(log') = Len(log) + 1 /\ \A i \in 1..Len(log) : log'[i] = log[i]
        /\ Parsed(log, Len(log)) /\ UNCHANGED disk /\ Len(snapshot'[p]) = 1
        /\ \A q \in Procs \ {p} : snapshot'[q] = snapshot[q]
    BY <1>4, AppendShape
  <2>2. TornOnlyLast(log')
    BY <1>1, <2>1 DEF Parsed, ParsesOk, Torn, TornOnlyLast
  <2>3. TornOnlyLast(snapshot'[p])
    BY <2>1 DEF TornOnlyLast
  <2> QED
    BY <2>1, <2>2, <2>3 DEF TornInv
<1>5. ASSUME NEW p \in Procs, FinishLine(p)
      PROVE  TornInv'
  <2>1. /\ Len(log') = Len(log) /\ \A i \in 1..(Len(log) - 1) : log'[i] = log[i]
        /\ UNCHANGED <<disk, snapshot>>
    BY <1>5, FinishShape
  <2> QED
    BY <2>1 DEF TornInv, TornOnlyLast
<1>6. ASSUME NEW p \in Procs, SyncLine(p) \/ SyncLog(p)
      PROVE  TornInv'
  BY <1>6, SyncShape DEF TornInv
<1>7. ASSUME NEW p \in Procs, CreateQuarantine(p) \/ SyncQuarantine(p)
      PROVE  TornInv'
  BY <1>7 DEF CreateQuarantine, SyncQuarantine, TornInv
<1>8. ASSUME NEW p \in Procs, Truncate(p)
      PROVE  TornInv'
  <2>1. /\ Len(log') = ValidLineCount(log) /\ ValidLineCount(log) \in 0..Len(log)
        /\ Same(log, log', ValidLineCount(log)) /\ UNCHANGED <<disk, snapshot>>
    BY <1>8, TruncateCuts DEF Truncate
  <2>2. TornOnlyLast(log')
    BY <1>1, <2>1 DEF Same, TornInv, TornOnlyLast
  <2> QED
    BY <2>1, <2>2 DEF TornInv
<1> QED
  BY <1>2, <1>3, <1>4, <1>5, <1>6, <1>7, <1>8, StepShapes DEF StorageStep

LEMMA NextCounts == Counts /\ [Next]_vars => Counts'
<1> SUFFICES ASSUME Counts, [Next]_vars PROVE Counts'
  OBVIOUS
<1>1. ASSUME NEW p \in Procs, Step(p)
      PROVE  owner' \in {owner, p, NoProc}
  BY <1>1 DEF Step, Start, Exit, ReclaimFromDead, Begin, Lock, LockTimesOut, AppendGenesis,
    GenesisPresent, AppendEvent, AppendRefused, FinishLine, SyncLine, AppendFails,
    AppendReturns, Read, ObservationRejected, Reread, CreateQuarantine, SyncQuarantine,
    Truncate, SyncLog, RepairFails, ReadReturns, StartLine, LeaveLocked, lock,
    LogLock!Start, LogLock!Exit, LogLock!Acquire, LogLock!Release, LogLock!ReclaimFromDead
<1>2. ASSUME NEW p \in Procs, Step(p)
      PROVE  issued' = issued \/ (issued < MaxEvents /\ issued' = issued + 1)
  BY <1>2 DEF Step, Start, Exit, ReclaimFromDead, Begin, Lock, LockTimesOut, AppendGenesis,
    GenesisPresent, AppendEvent, AppendRefused, FinishLine, SyncLine, AppendFails,
    AppendReturns, Read, ObservationRejected, Reread, CreateQuarantine, SyncQuarantine,
    Truncate, SyncLog, RepairFails, ReadReturns, LeaveLocked, history
<1>3. CASE PowerLoss
  BY <1>3 DEF PowerLoss, history, Counts
<1>4. CASE UNCHANGED vars
  BY <1>4 DEF vars, lock, history, Counts
<1> QED
  BY <1>1, <1>2, <1>3, <1>4, EvidenceAssumption DEF Next, Counts

\* TypeOK: every variable keeps its type, and a half line ends the log that holds it.
THEOREM EvidenceTypeCorrect == Spec => []TypeOK
<1>1. Spec => []TornInv /\ []Counts
  BY InitTypes, NextTorn, NextCounts, EvidenceInvariant, PTL DEF Spec
<1>2. EvidenceInv /\ FlushInv /\ TornInv /\ Counts => TypeOK
  BY DEF EvidenceInv, EvidenceTypes, ProcessFact, ReaderFact, FlushInv, TornInv, Counts, TypeOK
<1> QED
  BY <1>1, <1>2, EvidenceInvariant, FlushInvariant, PTL

-----------------------------------------------------------------------------
(* The genesis record *)

\* The first accepted record of a log is its genesis record, and no other is one.
Headed(l) ==
  \A n \in 1..Len(l) : Parsed(l, n) => ((l[n].kind = "genesis") <=> (n = 1))

InitialLogsHeaded == \A l \in InitialLogs : Headed(l)

HeadInv ==
  /\ Headed(log) /\ Headed(disk)
  /\ \A p \in Procs : pc[p] = "finishLine" =>
       ((snapshot[p][1].kind = "genesis") <=> (Len(log) = 1))

LEMMA NextHead == EvidenceInv /\ EvidenceInv' /\ HeadInv /\ [Next]_vars => HeadInv'
<1> SUFFICES ASSUME EvidenceInv, EvidenceInv', HeadInv, [Next]_vars PROVE HeadInv'
  OBVIOUS
<1>1. /\ log \in Seq(LineOrRecord) /\ log' \in Seq(LineOrRecord)
      /\ disk \in Seq(LineOrRecord)
  BY DEF EvidenceInv, EvidenceTypes
<1>2. ASSUME NEW p \in Procs, owner' = p, NEW q \in Procs \ {p}
      PROVE  pc'[q] # "finishLine"
  BY <1>2 DEF EvidenceInv, ProcessFact, LockFact, LockedLabels
<1>3. CASE Calm
  BY <1>3 DEF Calm, HeadInv
<1>4. CASE PowerLoss
  <2>1. /\ log' \in Survivors(log, disk) /\ disk' = log' /\ pc' = [p \in Procs |-> "idle"]
    BY <1>4 DEF PowerLoss
  <2>2. 0 \in 0..Len(log) /\ Same(log, disk, 0)
    BY <1>1 DEF Same
  <2>3. log' = disk \/ PartOf(log, log')
    BY <1>1, <2>1, <2>2, SurvivorsKeep
  <2>4. ASSUME PartOf(log, log'), NEW n \in 1..Len(log'), Parsed(log', n)
        PROVE  (log'[n].kind = "genesis") <=> (n = 1)
    <3>1. \A i \in 1..n : log'[i] = log[i]
      BY <1>1, <2>4 DEF PartOf, Parsed, ParsesOk, Torn
    <3>2. n \in 1..Len(log) /\ Parsed(log, n)
      BY <1>1, <2>4, <3>1 DEF PartOf, Parsed
    <3> QED
      BY <3>1, <3>2 DEF HeadInv, Headed
  <2> QED
    BY <2>1, <2>3, <2>4 DEF HeadInv, Headed
<1>5. ASSUME NEW p \in Procs, AppendGenesis(p) \/ AppendEvent(p)
      PROVE  HeadInv'
  <2>1. /\ Len(log') = Len(log) + 1 /\ \A i \in 1..Len(log) : log'[i] = log[i]
        /\ log'[Len(log')] = Torn /\ UNCHANGED disk /\ owner' = p
        /\ (snapshot'[p][1].kind = "genesis") <=> (log = <<>>)
    BY <1>5, AppendShape
  <2>2. Headed(log')
    <3> SUFFICES ASSUME NEW n \in 1..Len(log'), Parsed(log', n)
                 PROVE  (log'[n].kind = "genesis") <=> (n = 1)
      BY DEF Headed
    <3>1. n \in 1..Len(log)
      BY <1>1, <2>1 DEF Parsed, ParsesOk, Torn
    <3>2. Parsed(log, n) /\ log'[n] = log[n]
      BY <2>1, <3>1 DEF Parsed
    <3> QED
      BY <3>1, <3>2 DEF HeadInv, Headed
  <2>3. (log = <<>>) <=> (Len(log') = 1)
    BY <1>1, <2>1
  <2> QED
    BY <1>2, <2>1, <2>2, <2>3 DEF HeadInv
<1>6. ASSUME NEW p \in Procs, FinishLine(p)
      PROVE  HeadInv'
  <2>1. /\ Len(log') = Len(log) /\ \A i \in 1..(Len(log) - 1) : log'[i] = log[i]
        /\ log'[Len(log)] = snapshot[p][1] /\ UNCHANGED disk /\ owner' = p
        /\ pc[p] = "finishLine" /\ pc'[p] = "syncLine"
    BY <1>6, FinishShape
  <2>2. Headed(log')
    <3> SUFFICES ASSUME NEW n \in 1..Len(log'), Parsed(log', n)
                 PROVE  (log'[n].kind = "genesis") <=> (n = 1)
      BY DEF Headed
    <3>1. CASE n = Len(log)
      BY <2>1, <3>1 DEF HeadInv
    <3>2. CASE n # Len(log)
      <4>1. n \in 1..Len(log) /\ Parsed(log, n) /\ log'[n] = log[n]
        BY <1>1, <2>1, <3>2 DEF Parsed
      <4> QED
        BY <4>1 DEF HeadInv, Headed
    <3> QED
      BY <3>1, <3>2
  <2> QED
    BY <1>2, <2>1, <2>2 DEF HeadInv
<1>7. ASSUME NEW p \in Procs, SyncLine(p) \/ SyncLog(p)
      PROVE  HeadInv'
  BY <1>7, SyncShape DEF HeadInv
<1>8. ASSUME NEW p \in Procs, CreateQuarantine(p) \/ SyncQuarantine(p)
      PROVE  HeadInv'
  <2>1. PICK label \in {"syncQuarantine", "truncate"} : pc' = [pc EXCEPT ![p] = label]
    BY <1>8 DEF CreateQuarantine, SyncQuarantine, Goto
  <2>2. UNCHANGED <<log, disk, snapshot>>
    BY <1>8 DEF CreateQuarantine, SyncQuarantine
  <2> QED
    BY <2>1, <2>2 DEF HeadInv, EvidenceInv, EvidenceTypes
<1>9. ASSUME NEW p \in Procs, Truncate(p)
      PROVE  HeadInv'
  <2>1. /\ Len(log') = ValidLineCount(log) /\ ValidLineCount(log) \in 0..Len(log)
        /\ Same(log, log', ValidLineCount(log))
    BY <1>9, TruncateCuts
  <2>2. Headed(log')
    <3> SUFFICES ASSUME NEW n \in 1..Len(log'), Parsed(log', n)
                 PROVE  (log'[n].kind = "genesis") <=> (n = 1)
      BY DEF Headed
    <3>1. n \in 1..Len(log) /\ Parsed(log, n) /\ log'[n] = log[n]
      BY <1>1, <2>1 DEF Parsed, Same
    <3> QED
      BY <3>1 DEF HeadInv, Headed
  <2>3. owner' = p /\ pc' = [pc EXCEPT ![p] = "syncLog"] /\ UNCHANGED disk
    BY <1>9 DEF Truncate, Goto, At, lock, EvidenceInv, ProcessFact, LockFact, LockedLabels
  <2> QED
    BY <1>2, <2>2, <2>3 DEF HeadInv, EvidenceInv, EvidenceTypes
<1> QED
  BY <1>3, <1>4, <1>5, <1>6, <1>7, <1>8, <1>9, StepShapes DEF StorageStep

\* OneGenesisFirst, if the logs that earlier runs have left are like that: however
\* many writers found the log empty, one genesis record comes first.
THEOREM OneGenesisFirstHolds ==
  ASSUME InitialLogsHeaded
  PROVE  Spec => []OneGenesisFirst
<1>1. Init => HeadInv
  BY DEF Init, HeadInv, InitialLogsHeaded
<1>2. Spec => []HeadInv
  BY <1>1, NextHead, EvidenceInvariant, PTL DEF Spec
<1>3. ASSUME EvidenceInv, HeadInv
      PROVE  OneGenesisFirst
  <2>1. log \in Seq(LineOrRecord)
    BY <1>3 DEF EvidenceInv, EvidenceTypes
  <2>2. ValidLineCount(log) \in 0..Len(log) /\ Parsed(log, ValidLineCount(log))
    BY <2>1, ValidCount
  <2> QED
    BY <1>3, <2>1, <2>2 DEF HeadInv, Headed, Parsed, OneGenesisFirst
<1> QED
  BY <1>2, <1>3, EvidenceInvariant, PTL

-----------------------------------------------------------------------------
(* What the fold makes of the accepted prefix *)

\* A set that has 0 and with n - 1 also n has all of 0..N.
LEMMA UpTo ==
  ASSUME NEW N \in Nat, NEW G, 0 \in G, \A n \in 1..N : n - 1 \in G => n \in G
  PROVE  0..N \subseteq G
<1> DEFINE bad == {m \in 0..N : m \notin G}
<1> SUFFICES ASSUME bad # {}
             PROVE  FALSE
  OBVIOUS
<1>1. bad \in SUBSET Nat
  OBVIOUS
<1>2. PICK m \in bad : \A k \in bad : m <= k
  <2> HIDE DEF bad
  <2> QED
    BY <1>1, Least, Zenon
<1>3. m # 0 /\ m \in 0..N
  OBVIOUS
<1>4. m \in 1..N /\ m - 1 \in 0..N /\ m - 1 \notin bad
  BY <1>2, <1>3
<1> QED
  BY <1>4

\* The values that a variable has in a loop over 1..N, whose body is step.
Loop(f, N, S, start, step) ==
  /\ f \in [0..N -> S]
  /\ f[0] = start
  /\ \A n \in 1..N : f[n] = step[<<n, f[n - 1]>>]

\* Every loop runs to its end: there is a function of its values.
LEMMA Recursion ==
  ASSUME NEW N \in Nat, NEW S, NEW start \in S, NEW step \in [(1..N) \X S -> S]
  PROVE  \E f : Loop(f, N, S, start, step)
<1> DEFINE Good(f, m) ==
      /\ f \in [0..m -> S]
      /\ f[0] = start /\ \A n \in 1..m : f[n] = step[<<n, f[n - 1]>>]
<1>1. Good([n \in 0..0 |-> start], 0)
  BY DEF Good
<1>2. ASSUME NEW m \in 1..N, NEW g, Good(g, m - 1)
      PROVE  \E f : Good(f, m)
  <2> DEFINE f == [n \in 0..m |-> IF n = m THEN step[<<m, g[m - 1]>>] ELSE g[n]]
  <2>1. g[m - 1] \in S /\ step[<<m, g[m - 1]>>] \in S
    BY <1>2 DEF Good
  <2>2. f \in [0..m -> S] /\ f[0] = start
    BY <1>2, <2>1 DEF Good
  <2>3. \A n \in 0..m : f[n] = IF n = m THEN step[<<m, g[m - 1]>>] ELSE g[n]
    OBVIOUS
  <2>5. ASSUME NEW n \in 1..m
        PROVE  f[n] = step[<<n, f[n - 1]>>]
    <3> HIDE DEF f
    <3>1. f[n - 1] = g[n - 1]
      BY <2>3
    <3>2. CASE n = m
      BY <2>3, <3>1, <3>2
    <3>3. CASE n # m
      <4>1. n \in 1..(m - 1) /\ f[n] = g[n]
        BY <2>3, <3>3
      <4>2. g[n] = step[<<n, g[n - 1]>>]
        BY <1>2, <4>1 DEF Good
      <4> QED
        BY <3>1, <4>1, <4>2
    <3> QED
      BY <3>2, <3>3
  <2>4. Good(f, m)
    BY <2>2, <2>5 DEF Good
  <2> QED
    BY <2>4
<1>3. \E f : Good(f, N)
  <2> DEFINE G == {m \in 0..N : \E f : Good(f, m)}
  <2> HIDE DEF Good
  <2>1. 0 \in G /\ \A m \in 1..N : m - 1 \in G => m \in G
    BY <1>1, <1>2
  <2>2. 0..N \subseteq G
    <3> HIDE DEF G
    <3> QED
      BY <2>1, UpTo
  <2> QED
    BY <2>2
<1> QED
  BY <1>3 DEF Good, Loop

\* result has the members of seq at the places in I up to n, in their order.
Picks(seq, result, n, I) ==
  \E at \in [1..Len(result) -> 1..n] :
    /\ \A k \in 1..Len(result) : at[k] \in I /\ result[k] = seq[at[k]]
    /\ \A k, m \in 1..Len(result) : k < m => at[k] < at[m]
    /\ \A i \in 1..n : i \in I => \E k \in 1..Len(result) : at[k] = i

\* The places of a sequence whose member is in S, and the first of their keys.
PlacesIn(seq, S) == {i \in 1..Len(seq) : seq[i] \in S}
FirstPlaces(events) == {i \in 1..Len(events) : FirstOfKey(events, i)}

HasKey(events, key) == \E i \in DOMAIN events : events[i].key = key

\* Nothing has been picked before the first place.
LEMMA PickNone ==
  ASSUME NEW R, NEW seq \in Seq(R), NEW I
  PROVE  <<>> \in Seq(R) /\ Picks(seq, <<>>, 0, I)
<1> DEFINE none == <<>>
<1>1. none \in Seq(R) /\ Len(none) = 0
  OBVIOUS
<1> HIDE DEF none
<1>2. PICK at : at = [k \in 1..0 |-> k]
  OBVIOUS
<1>3. at \in [1..Len(none) -> 1..0] /\ \A k \in 1..Len(none) : FALSE
  BY <1>1, <1>2
<1>4. Picks(seq, none, 0, I)
  BY <1>3 DEF Picks
<1> QED
  BY <1>1, <1>4 DEF none

\* One place further: the member there is appended if its place is picked.
LEMMA PickStep ==
  ASSUME NEW R, NEW seq \in Seq(R), NEW result \in Seq(R), NEW I,
         NEW n \in 1..Len(seq), Picks(seq, result, n - 1, I)
  PROVE  IF n \in I THEN Picks(seq, Append(result, seq[n]), n, I)
                    ELSE Picks(seq, result, n, I)
<1>1. PICK at \in [1..Len(result) -> 1..(n - 1)] :
        /\ \A k \in 1..Len(result) : at[k] \in I /\ result[k] = seq[at[k]]
        /\ \A k, m \in 1..Len(result) : k < m => at[k] < at[m]
        /\ \A i \in 1..(n - 1) : i \in I => \E k \in 1..Len(result) : at[k] = i
  BY DEF Picks
<1>2. CASE n \in I
  <2> DEFINE more == Append(result, seq[n])
             now == [k \in 1..Len(more) |-> IF k = Len(more) THEN n ELSE at[k]]
  <2>1. /\ Len(more) = Len(result) + 1 /\ more[Len(more)] = seq[n] /\ Len(result) \in Nat
        /\ \A k \in 1..Len(result) : more[k] = result[k]
    OBVIOUS
  <2> HIDE DEF more
  <2>2. now \in [1..Len(more) -> 1..n]
    BY <1>1, <2>1
  <2>3. \A k \in 1..Len(more) : now[k] \in I /\ more[k] = seq[now[k]]
    BY <1>1, <1>2, <2>1
  <2>4. \A k, m \in 1..Len(more) : k < m => now[k] < now[m]
    BY <1>1, <2>1
  <2>5. ASSUME NEW i \in 1..n, i \in I
        PROVE  \E k \in 1..Len(more) : now[k] = i
    <3>1. CASE i = n
      BY <2>1, <3>1
    <3>2. CASE i # n
      <4>1. PICK k \in 1..Len(result) : at[k] = i
        BY <1>1, <2>5, <3>2
      <4> QED
        BY <2>1, <4>1
    <3> QED
      BY <3>1, <3>2
  <2>6. Picks(seq, more, n, I)
    <3> HIDE DEF now
    <3> QED
      BY <2>2, <2>3, <2>4, <2>5 DEF Picks
  <2> QED
    BY <1>2, <2>6 DEF more
<1>3. CASE n \notin I
  <2>1. at \in [1..Len(result) -> 1..n]
    BY <1>1
  <2>2. \A i \in 1..n : i \in I => i \in 1..(n - 1)
    BY <1>3
  <2>3. Picks(seq, result, n, I)
    BY <1>1, <2>1, <2>2 DEF Picks
  <2> QED
    BY <1>3, <2>3
<1> QED
  BY <1>2, <1>3

\* Filter picks the places whose member is in the set.
LEMMA FilterPicks ==
  ASSUME NEW R, NEW seq \in Seq(R), NEW S
  PROVE  /\ Filter(seq, S) \in Seq(R)
         /\ Picks(seq, Filter(seq, S), Len(seq), PlacesIn(seq, S))
<1> DEFINE N == Len(seq)
           I == PlacesIn(seq, S)
           loop(f) == [n \in 0..N |->
                         IF n = 0 THEN <<>>
                         ELSE IF seq[n] \in S THEN Append(f[n - 1], seq[n]) ELSE f[n - 1]]
           kept == CHOOSE f : f = loop(f)
<1>n. N \in Nat
  OBVIOUS
<1>1. \E f : f = loop(f)
  <2> DEFINE step == [x \in (1..N) \X Seq(R) |->
                      IF seq[x[1]] \in S THEN Append(x[2], seq[x[1]]) ELSE x[2]]
  <2>1. step \in [(1..N) \X Seq(R) -> Seq(R)]
    OBVIOUS
  <2>2. \A n \in 1..N, s \in Seq(R) :
          step[<<n, s>>] = IF seq[n] \in S THEN Append(s, seq[n]) ELSE s
    OBVIOUS
  <2> HIDE DEF step
  <2>3. PICK f \in [0..N -> Seq(R)] :
          f[0] = <<>> /\ \A n \in 1..N : f[n] = step[<<n, f[n - 1]>>]
    <3> DEFINE start == <<>>
               T == Seq(R)
    <3>1. start \in T /\ step \in [(1..N) \X T -> T]
      BY <2>1
    <3> HIDE DEF N, start, T
    <3>2. \E f : Loop(f, N, T, start, step)
      BY <1>n, <3>1, Recursion
    <3> QED
      BY <3>2 DEF start, T, Loop
  <2>4. \A n \in 1..N : f[n] = IF seq[n] \in S THEN Append(f[n - 1], seq[n]) ELSE f[n - 1]
    <3>1. \A n \in 1..N : f[n - 1] \in Seq(R)
      BY <1>n
    <3> QED
      BY <2>2, <2>3, <3>1
  <2>5. f = loop(f)
    <3>1. \A n \in 0..N : f[n] = loop(f)[n]
      <4> SUFFICES ASSUME NEW n \in 0..N
                   PROVE  f[n] = loop(f)[n]
        OBVIOUS
      <4>1. CASE n = 0
        BY <2>3, <4>1
      <4>2. CASE n # 0
        <5>1. n \in 1..N
          BY <4>2
        <5>2. f[n] = IF seq[n] \in S THEN Append(f[n - 1], seq[n]) ELSE f[n - 1]
          BY <2>4, <5>1
        <5> QED
          BY <4>2, <5>2
      <4> QED
        BY <4>1, <4>2
    <3>2. DOMAIN f = 0..N /\ f = [n \in 0..N |-> f[n]]
      OBVIOUS
    <3>3. loop(f) = [n \in 0..N |-> loop(f)[n]]
      OBVIOUS
    <3> HIDE DEF loop
    <3> QED
      BY <3>1, <3>2, <3>3
  <2> QED
    BY <2>5
<1>2. kept = loop(kept)
  BY <1>1
<1>3. Filter(seq, S) = kept[N]
  BY DEF Filter
<1> HIDE DEF kept
<1>4. kept[0] = <<>>
  <2>1. kept[0] = loop(kept)[0]
    BY <1>2
  <2> QED
    BY <1>n, <2>1
<1>5. ASSUME NEW n \in 1..N
      PROVE  kept[n] = IF seq[n] \in S THEN Append(kept[n - 1], seq[n]) ELSE kept[n - 1]
  <2>1. kept[n] = loop(kept)[n]
    BY <1>2
  <2> QED
    BY <1>n, <2>1
<1> DEFINE Good(n) == kept[n] \in Seq(R) /\ Picks(seq, kept[n], n, I)
<1>6. Good(0)
  BY <1>4, PickNone
<1>7. ASSUME NEW n \in 1..N, Good(n - 1)
      PROVE  Good(n)
  <2>1. n \in I <=> seq[n] \in S
    BY DEF PlacesIn
  <2>2. kept[n] \in Seq(R)
    <3>1. seq[n] \in R /\ kept[n - 1] \in Seq(R)
      BY <1>7
    <3>2. Append(kept[n - 1], seq[n]) \in Seq(R)
      BY <3>1
    <3> HIDE DEF N, I, loop
    <3> QED
      BY <1>5, <3>1, <3>2, Zenon
  <2>3. Picks(seq, kept[n], n, I)
    <3> HIDE DEF I
    <3>1. /\ n \in I => Picks(seq, Append(kept[n - 1], seq[n]), n, I)
          /\ n \notin I => Picks(seq, kept[n - 1], n, I)
      BY <1>7, PickStep
    <3> QED
      BY <1>5, <2>1, <3>1
  <2> QED
    BY <2>2, <2>3
<1>8. Good(N)
  <2> DEFINE G == {n \in 0..N : Good(n)}
  <2> HIDE DEF Good
  <2>1. 0 \in G /\ \A n \in 1..N : n - 1 \in G => n \in G
    BY <1>n, <1>6, <1>7
  <2>2. 0..N \subseteq G
    <3> HIDE DEF G, N
    <3> QED
      BY <1>n, <2>1, UpTo
  <2> QED
    BY <1>n, <2>2
<1> QED
  BY <1>3, <1>8

\* An event is dropped as a duplicate iff it is not the first of its key.
LEMMA DuplicateOrFirst ==
  ASSUME NEW R, NEW events \in Seq(R), NEW result \in Seq(R), NEW n \in 1..Len(events),
         Picks(events, result, n - 1, FirstPlaces(events))
  PROVE  n \in FirstPlaces(events) <=> ~ HasKey(result, events[n].key)
<1> DEFINE I == FirstPlaces(events)
<1>1. PICK at \in [1..Len(result) -> 1..(n - 1)] :
        /\ \A k \in 1..Len(result) : at[k] \in I /\ result[k] = events[at[k]]
        /\ \A i \in 1..(n - 1) : i \in I => \E k \in 1..Len(result) : at[k] = i
  BY DEF Picks
<1>2. ASSUME n \in I, NEW i \in DOMAIN result, result[i].key = events[n].key
      PROVE  FALSE
  <2>1. at[i] \in 1..(n - 1) /\ events[at[i]].key = events[n].key
    BY <1>1, <1>2
  <2> QED
    BY <1>2, <2>1 DEF FirstOfKey, FirstPlaces
<1>3. ASSUME n \notin I
      PROVE  \E i \in DOMAIN result : result[i].key = events[n].key
  <2> DEFINE same == {j \in 1..(n - 1) : events[j].key = events[n].key}
  <2>1. same # {} /\ same \in SUBSET Nat
    BY <1>3 DEF FirstOfKey, FirstPlaces
  <2>2. PICK j \in same : \A m \in same : j <= m
    <3> HIDE DEF same
    <3> QED
      BY <2>1, Least, Zenon
  <2>3. j \in I
    <3>1. j \in 1..Len(events) /\ \A m \in 1..(j - 1) : m \in 1..(n - 1) /\ ~ (j <= m)
      OBVIOUS
    <3>2. \A m \in 1..(j - 1) : events[m].key # events[j].key
      BY <2>2, <3>1
    <3> QED
      BY <3>1, <3>2 DEF FirstOfKey, FirstPlaces
  <2>4. PICK k \in 1..Len(result) : at[k] = j
    BY <1>1, <2>3
  <2> QED
    BY <1>1, <2>4
<1> QED
  BY <1>2, <1>3 DEF HasKey

\* Deduped picks the first of every key.
LEMMA DedupedPicks ==
  ASSUME NEW R, NEW events \in Seq(R)
  PROVE  /\ Deduped(events) \in Seq(R)
         /\ Picks(events, Deduped(events), Len(events),
                  FirstPlaces(events))
<1> DEFINE N == Len(events)
           I == FirstPlaces(events)
           known(s, n) == HasKey(s, events[n].key)
           loop(f) == [n \in 0..N |->
                         IF n = 0 THEN <<>>
                         ELSE IF \E i \in DOMAIN f[n - 1] : f[n - 1][i].key = events[n].key
                                THEN f[n - 1] ELSE Append(f[n - 1], events[n])]
           kept == CHOOSE f : f = loop(f)
<1>n. N \in Nat
  OBVIOUS
<1>1. \E f : f = loop(f)
  <2> DEFINE step == [x \in (1..N) \X Seq(R) |->
                      IF known(x[2], x[1]) THEN x[2] ELSE Append(x[2], events[x[1]])]
  <2>1. step \in [(1..N) \X Seq(R) -> Seq(R)]
    <3>1. \A x \in (1..N) \X Seq(R) : x[2] \in Seq(R) /\ Append(x[2], events[x[1]]) \in Seq(R)
      OBVIOUS
    <3> HIDE DEF known
    <3> QED
      BY <3>1
  <2>2. \A n \in 1..N, s \in Seq(R) :
          step[<<n, s>>] = IF known(s, n) THEN s ELSE Append(s, events[n])
    <3> HIDE DEF known
    <3> QED
      OBVIOUS
  <2> HIDE DEF step
  <2>3. PICK f \in [0..N -> Seq(R)] :
          f[0] = <<>> /\ \A n \in 1..N : f[n] = step[<<n, f[n - 1]>>]
    <3> DEFINE start == <<>>
               T == Seq(R)
    <3>1. start \in T /\ step \in [(1..N) \X T -> T]
      BY <2>1
    <3> HIDE DEF N, start, T
    <3>2. \E f : Loop(f, N, T, start, step)
      BY <1>n, <3>1, Recursion
    <3> QED
      BY <3>2 DEF start, T, Loop
  <2>4. ASSUME NEW n \in 1..N
        PROVE  f[n] = IF known(f[n - 1], n) THEN f[n - 1] ELSE Append(f[n - 1], events[n])
    <3>1. f[n - 1] \in Seq(R)
      BY <1>n
    <3> HIDE DEF known
    <3> QED
      BY <2>2, <2>3, <3>1
  <2>5. f = loop(f)
    <3>1. \A n \in 0..N : f[n] = loop(f)[n]
      <4> SUFFICES ASSUME NEW n \in 0..N
                   PROVE  f[n] = loop(f)[n]
        OBVIOUS
      <4>1. CASE n = 0
        BY <2>3, <4>1
      <4>2. CASE n # 0
        <5>1. n \in 1..N
          BY <4>2
        <5>2. f[n] = IF known(f[n - 1], n) THEN f[n - 1] ELSE Append(f[n - 1], events[n])
          BY <2>4, <5>1
        <5> QED
          BY <4>2, <5>2 DEF HasKey
      <4> QED
        BY <4>1, <4>2
    <3>2. DOMAIN f = 0..N /\ f = [n \in 0..N |-> f[n]]
      OBVIOUS
    <3>3. loop(f) = [n \in 0..N |-> loop(f)[n]]
      OBVIOUS
    <3> HIDE DEF loop
    <3> QED
      BY <3>1, <3>2, <3>3
  <2> QED
    BY <2>5
<1>2. kept = loop(kept)
  BY <1>1
<1>3. Deduped(events) = kept[N]
  BY DEF Deduped
<1> HIDE DEF kept
<1>4. kept[0] = <<>>
  <2>1. kept[0] = loop(kept)[0]
    BY <1>2
  <2> QED
    BY <1>n, <2>1
<1>5. ASSUME NEW n \in 1..N
      PROVE  kept[n] = IF known(kept[n - 1], n) THEN kept[n - 1]
                       ELSE Append(kept[n - 1], events[n])
  <2>1. kept[n] = loop(kept)[n]
    BY <1>2
  <2> QED
    BY <1>n, <2>1 DEF HasKey
<1> DEFINE Good(n) == kept[n] \in Seq(R) /\ Picks(events, kept[n], n, I)
<1>6. Good(0)
  BY <1>4, PickNone
<1>7. ASSUME NEW n \in 1..N, Good(n - 1)
      PROVE  Good(n)
  <2>1. n \in I <=> ~ known(kept[n - 1], n)
    <3>1. kept[n - 1] \in Seq(R) /\ Picks(events, kept[n - 1], n - 1, I) /\ n \in 1..Len(events)
      BY <1>7
    <3> HIDE DEF loop, Good
    <3> QED
      BY <3>1, DuplicateOrFirst
  <2>2. kept[n] \in Seq(R)
    <3>1. events[n] \in R /\ kept[n - 1] \in Seq(R)
      BY <1>7
    <3>2. Append(kept[n - 1], events[n]) \in Seq(R)
      BY <3>1
    <3> HIDE DEF N, I, loop, known
    <3> QED
      BY <1>5, <3>1, <3>2, Zenon
  <2>3. Picks(events, kept[n], n, I)
    <3>2. /\ kept[n - 1] \in Seq(R) /\ n \in 1..Len(events)
          /\ Picks(events, kept[n - 1], n - 1, I)
      BY <1>7
    <3> HIDE DEF I, known, loop, Good
    <3>1. /\ n \in I => Picks(events, Append(kept[n - 1], events[n]), n, I)
          /\ n \notin I => Picks(events, kept[n - 1], n, I)
      BY <3>2, PickStep
    <3> QED
      BY <1>5, <2>1, <3>1
  <2> QED
    BY <2>2, <2>3
<1>8. Good(N)
  <2> DEFINE G == {n \in 0..N : Good(n)}
  <2> HIDE DEF Good
  <2>1. 0 \in G /\ \A n \in 1..N : n - 1 \in G => n \in G
    BY <1>n, <1>6, <1>7
  <2>2. 0..N \subseteq G
    <3> HIDE DEF G, N
    <3> QED
      BY <1>n, <2>1, UpTo
  <2> QED
    BY <1>n, <2>2
<1> QED
  BY <1>3, <1>8

\* The places of what a selection from a selection takes from the first.
LEMMA PicksOfPicks ==
  ASSUME NEW R, NEW seq \in Seq(R), NEW mid \in Seq(R), NEW result \in Seq(R), NEW I, NEW S,
         Picks(seq, mid, Len(seq), I), Picks(mid, result, Len(mid), PlacesIn(mid, S))
  PROVE  Picks(seq, result, Len(seq), I \cap PlacesIn(seq, S))
<1> DEFINE K == PlacesIn(mid, S)
           J == I \cap PlacesIn(seq, S)
<1>1. PICK one \in [1..Len(mid) -> 1..Len(seq)] :
        /\ \A k \in 1..Len(mid) : one[k] \in I /\ mid[k] = seq[one[k]]
        /\ \A k, m \in 1..Len(mid) : k < m => one[k] < one[m]
        /\ \A i \in 1..Len(seq) : i \in I => \E k \in 1..Len(mid) : one[k] = i
  BY DEF Picks
<1>2. PICK two \in [1..Len(result) -> 1..Len(mid)] :
        /\ \A k \in 1..Len(result) : two[k] \in K /\ result[k] = mid[two[k]]
        /\ \A k, m \in 1..Len(result) : k < m => two[k] < two[m]
        /\ \A i \in 1..Len(mid) : i \in K => \E k \in 1..Len(result) : two[k] = i
  BY DEF Picks
<1> DEFINE at == [k \in 1..Len(result) |-> one[two[k]]]
<1>3. at \in [1..Len(result) -> 1..Len(seq)]
  BY <1>1, <1>2
<1>4. \A k \in 1..Len(result) : at[k] \in J /\ result[k] = seq[at[k]]
  BY <1>1, <1>2 DEF PlacesIn
<1>5. \A k, m \in 1..Len(result) : k < m => at[k] < at[m]
  BY <1>1, <1>2
<1>6. ASSUME NEW i \in 1..Len(seq), i \in J
      PROVE  \E k \in 1..Len(result) : at[k] = i
  <2>1. PICK m \in 1..Len(mid) : one[m] = i
    BY <1>1, <1>6
  <2>2. m \in K
    BY <1>1, <1>6, <2>1 DEF PlacesIn
  <2>3. PICK k \in 1..Len(result) : two[k] = m
    BY <1>2, <2>2
  <2> QED
    BY <2>1, <2>3
<1>7. Picks(seq, result, Len(seq), J)
  <2> HIDE DEF at, J
  <2> QED
    BY <1>3, <1>4, <1>5, <1>6 DEF Picks
<1> QED
  BY <1>7

\* What the reader accepts of a sequence of events: the first of their keys that
\* no first of its key supersedes, in their order.
LEMMA AcceptedPicks ==
  ASSUME NEW R, NEW events \in Seq(R)
  PROVE  LET first == FirstPlaces(events)
         IN  /\ FoldAcceptedEvents(events) \in Seq(R)
             /\ Picks(events, FoldAcceptedEvents(events), Len(events),
                      {i \in first : \A k \in first : events[i].id \notin events[k].supersedes})
<1> DEFINE first == FirstPlaces(events)
           J == {i \in first : \A k \in first : events[i].id \notin events[k].supersedes}
           deduped == Deduped(events)
           superseded == UNION {deduped[i].supersedes : i \in DOMAIN deduped}
           S == {e \in ToSet(deduped) : e.id \notin superseded}
           accepted == Filter(deduped, S)
<1>1. deduped \in Seq(R) /\ Picks(events, deduped, Len(events), first)
  BY DedupedPicks
<1>2. accepted = FoldAcceptedEvents(events)
  BY DEF FoldAcceptedEvents
<1> HIDE DEF deduped
<1>3. /\ accepted \in Seq(R)
      /\ Picks(deduped, accepted, Len(deduped), PlacesIn(deduped, S))
  <2> HIDE DEF S
  <2> QED
    BY <1>1, FilterPicks
<1>4. Picks(events, accepted, Len(events), first \cap PlacesIn(events, S))
  <2> HIDE DEF S, first, accepted
  <2> QED
    BY <1>1, <1>3, PicksOfPicks
<1>5. PICK at \in [1..Len(deduped) -> 1..Len(events)] :
        /\ \A k \in 1..Len(deduped) : at[k] \in first /\ deduped[k] = events[at[k]]
        /\ \A i \in 1..Len(events) : i \in first => \E k \in 1..Len(deduped) : at[k] = i
  <2> HIDE DEF first
  <2> QED
    BY <1>1 DEF Picks
<1>6. ASSUME NEW i \in first
      PROVE  events[i] \in S <=> \A k \in first : events[i].id \notin events[k].supersedes
  <2>1. DOMAIN deduped = 1..Len(deduped) /\ i \in 1..Len(events)
    BY <1>1 DEF FirstPlaces
  <2>2. events[i] \in ToSet(deduped)
    <3>1. PICK k \in 1..Len(deduped) : at[k] = i
      BY <1>5, <2>1
    <3>2. deduped[k] = events[i]
      BY <1>5, <3>1
    <3> QED
      BY <2>1, <3>2 DEF ToSet
  <2>3. ASSUME events[i].id \in superseded
        PROVE  \E k \in first : events[i].id \in events[k].supersedes
    <3>1. PICK k \in 1..Len(deduped) : events[i].id \in deduped[k].supersedes
      BY <2>1, <2>3
    <3> QED
      BY <1>5, <3>1
  <2>4. ASSUME NEW k \in first, events[i].id \in events[k].supersedes
        PROVE  events[i].id \in superseded
    <3>1. k \in 1..Len(events)
      BY DEF FirstPlaces
    <3>2. PICK m \in 1..Len(deduped) : at[m] = k
      BY <1>5, <3>1
    <3>3. events[i].id \in deduped[m].supersedes
      BY <1>5, <2>4, <3>2
    <3> QED
      BY <2>1, <3>3
  <2> HIDE DEF superseded, first
  <2> QED
    BY <2>2, <2>3, <2>4
<1>7. first \cap PlacesIn(events, S) = J
  <2>1. first \subseteq 1..Len(events)
    BY DEF FirstPlaces
  <2> HIDE DEF S, first
  <2> QED
    BY <1>6, <2>1 DEF PlacesIn
<1> QED
  <2> HIDE DEF accepted, S, first, J
  <2>1. Picks(events, accepted, Len(events), J) /\ accepted \in Seq(R)
    BY <1>3, <1>4, <1>7
  <2> QED
    BY <1>2, <2>1 DEF J, first

\* The fold of any log: exactly the events of the definition, each once, in
\* their order.
LEMMA FoldOfLog ==
  ASSUME NEW R, NEW lines \in Seq(R)
  PROVE  LET events == EventsOf(lines)
             accepted == FoldAcceptedEvents(events)
         IN  /\ ToSet(accepted) = AcceptedByDefinition(events)
             /\ Len(accepted) = Cardinality(ToSet(accepted))
             /\ \A i, j \in DOMAIN accepted : i < j =>
                  \E m, n \in {k \in DOMAIN events : FirstOfKey(events, k)} :
                    m < n /\ events[m] = accepted[i] /\ events[n] = accepted[j]
<1> DEFINE events == EventsOf(lines)
           accepted == FoldAcceptedEvents(events)
           first == FirstPlaces(events)
           J == {i \in first : \A k \in first : events[i].id \notin events[k].supersedes}
<1>1. events \in Seq(R)
  <2> DEFINE S == {r \in ToSet(lines) : r.kind = "event"}
  <2> HIDE DEF S
  <2>1. Filter(lines, S) \in Seq(R)
    BY FilterPicks
  <2> QED
    BY <2>1 DEF EventsOf, S
<1> HIDE DEF events
<1>2. accepted \in Seq(R) /\ Picks(events, accepted, Len(events), J)
  BY <1>1, AcceptedPicks
<1> HIDE DEF accepted
<1>3. PICK at \in [1..Len(accepted) -> 1..Len(events)] :
        /\ \A k \in 1..Len(accepted) : at[k] \in J /\ accepted[k] = events[at[k]]
        /\ \A k, m \in 1..Len(accepted) : k < m => at[k] < at[m]
        /\ \A i \in 1..Len(events) : i \in J => \E k \in 1..Len(accepted) : at[k] = i
  <2> HIDE DEF J
  <2> QED
    BY <1>2 DEF Picks
<1>4. /\ DOMAIN events = 1..Len(events) /\ Len(events) \in Nat
      /\ DOMAIN accepted = 1..Len(accepted) /\ Len(accepted) \in Nat
      /\ first = {k \in DOMAIN events : FirstOfKey(events, k)}
  BY <1>1, <1>2 DEF FirstPlaces
<1>5. AcceptedByDefinition(events) = {events[i] : i \in J}
  BY <1>4 DEF AcceptedByDefinition
<1>6. J \subseteq first /\ first \subseteq 1..Len(events)
  BY DEF FirstPlaces
<1>7. ToSet(accepted) = {events[i] : i \in J}
  <2> HIDE DEF J, first
  <2>1. ToSet(accepted) = {accepted[k] : k \in 1..Len(accepted)}
    BY <1>4 DEF ToSet
  <2>2. ASSUME NEW k \in 1..Len(accepted)
        PROVE  accepted[k] \in {events[i] : i \in J}
    BY <1>3
  <2>3. ASSUME NEW i \in J
        PROVE  events[i] \in {accepted[k] : k \in 1..Len(accepted)}
    <3>1. PICK k \in 1..Len(accepted) : at[k] = i
      BY <1>3, <1>6
    <3>2. events[i] = accepted[k]
      BY <1>3, <3>1
    <3> QED
      BY <3>2
  <2> QED
    BY <2>1, <2>2, <2>3
<1>8. ASSUME NEW k \in 1..Len(accepted), NEW m \in 1..Len(accepted), k < m
      PROVE  accepted[k] # accepted[m]
  <2>1. at[k] \in 1..(at[m] - 1) /\ at[m] \in first /\ at[m] \in 1..Len(events)
    BY <1>3, <1>6, <1>8
  <2>2. events[at[k]].key # events[at[m]].key
    BY <2>1 DEF FirstPlaces, FirstOfKey
  <2> QED
    BY <1>3, <2>2
<1>9. Len(accepted) = Cardinality(ToSet(accepted))
  <2> DEFINE D == 1..Len(accepted)
             f == [k \in D |-> accepted[k]]
  <2>1. f \in Injection(D, ToSet(accepted))
    <3>1. \A k, m \in D : f[k] = f[m] => k = m
      BY <1>4, <1>8
    <3>2. f \in [D -> ToSet(accepted)]
      BY <1>4 DEF ToSet
    <3> QED
      BY <3>1, <3>2 DEF Injection, IsInjective
  <2>2. f \in Surjection(D, ToSet(accepted))
    <3>1. f \in [D -> ToSet(accepted)]
      BY <1>4 DEF ToSet
    <3>2. \A e \in ToSet(accepted) : \E k \in D : f[k] = e
      BY <1>4 DEF ToSet
    <3> QED
      BY <3>1, <3>2 DEF Surjection
  <2>3. IsFiniteSet(D) /\ Cardinality(D) = Len(accepted)
    <3>1. PICK n \in Nat : n = Len(accepted)
      BY <1>4
    <3>2. IsFiniteSet(1..n) /\ Cardinality(1..n) = IF 1 > n THEN 0 ELSE n - 1 + 1
      BY FS_Interval
    <3>3. Cardinality(1..n) = n
      BY <3>2
    <3> QED
      BY <3>1, <3>2, <3>3
  <2> HIDE DEF D, f
  <2> QED
    BY <2>1, <2>2, <2>3, FS_Surjection
<1>10. ASSUME NEW i \in DOMAIN accepted, NEW j \in DOMAIN accepted, i < j
       PROVE  \E m, n \in {k \in DOMAIN events : FirstOfKey(events, k)} :
                m < n /\ events[m] = accepted[i] /\ events[n] = accepted[j]
  <2>1. /\ at[i] \in first /\ at[j] \in first /\ at[i] < at[j]
        /\ events[at[i]] = accepted[i] /\ events[at[j]] = accepted[j]
    <3> HIDE DEF first
    <3> QED
      BY <1>3, <1>4, <1>6, <1>10
  <2> QED
    BY <1>4, <2>1
<1> QED
  BY <1>5, <1>7, <1>9, <1>10 DEF accepted, events

\* What a reader accepts is what the log defines (see FoldIsByDefinition), for
\* every log that a run can reach.
THEOREM FoldIsByDefinitionHolds == Spec => []FoldIsByDefinition
<1>1. ASSUME EvidenceInv
      PROVE  FoldIsByDefinition
  <2>1. log \in Seq(LineOrRecord)
    BY <1>1 DEF EvidenceInv, EvidenceTypes
  <2>2. ValidLines(log) \in Seq(LineOrRecord)
    BY <2>1, ValidCount, SubSeqPrefix DEF ValidLines
  <2> QED
    BY <2>2, FoldOfLog DEF FoldIsByDefinition
<1> QED
  BY <1>1, EvidenceInvariant, PTL

=============================================================================
