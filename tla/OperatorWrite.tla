--------------------------- MODULE OperatorWrite ---------------------------
(***************************************************************************)
(* src/effects/operator/write-run.ts with write-audit.ts: how a console or *)
(* CLI write runs at most once per request id.  Target lock, request       *)
(* lookup and intent record under the audit lock, the action, result       *)
(* record under the audit lock.                                            *)
(*                                                                         *)
(* One call is one run of runOperatorWrite; several run in the event loop  *)
(* of one process.  The two kinds of lock are used through what            *)
(* LockService promises: one owner, taken over only from a dead process.   *)
(* The audit log is an append-only file; flushed lines of it survive a     *)
(* power loss if its directory entry does.  What the action itself does is *)
(* one change that it makes, or does not make before it fails.             *)
(***************************************************************************)
EXTENDS Naturals, Sequences, SequencesExt

CONSTANTS
  Calls,         \* runs of runOperatorWrite
  Processes,     \* servers and CLI commands
  ProcessOf,     \* the process of each call
  Requests,      \* request ids
  Bindings,      \* operation, target and input, as one hash
  TargetOf,      \* the target in each binding
  EntryFollows,  \* flushing a new file makes its directory entry permanent
  NoCall

Targets == {TargetOf[b] : b \in Bindings}

ASSUME OperatorAssumption ==
  /\ ProcessOf \in [Calls -> Processes]
  /\ EntryFollows \in BOOLEAN
  /\ NoCall \notin Calls

VARIABLES
  life,         \* "unborn", "alive" or "dead", per process
  pc,           \* where each call is
  request, binding,  \* what each call was asked
  outcome,      \* what the action of a call came to
  answer,       \* what a call has returned
  targetOwner,  \* the call that has each target's lock
  auditOwner,   \* the call that has the audit lock
  active,       \* activeTargets of every process
  log,          \* the records of the audit log
  flushed,      \* how many of them a flush has covered
  entry,        \* the log's directory entry: "none", "made" or "flushed"
  made,         \* whether the append of a call made the log
  changed       \* the calls whose action has made its change

locks == <<targetOwner, auditOwner, active>>
audit == <<log, flushed, entry, made>>
asked == <<request, binding>>
vars  == <<life, pc, asked, outcome, answer, locks, audit, changed>>

Intent(r, b)         == [phase |-> "intent", request |-> r, binding |-> b, whole |-> TRUE]
Result(r, b, status) == [phase |-> "result", request |-> r, binding |-> b,
                         status |-> status, whole |-> TRUE]
TornRecord           == [phase |-> "torn", whole |-> FALSE]

\* What a call may answer.  The first two are recorded in the log and replayed.
Recorded == {"done", "refused"}
Answers  == Recorded \cup {"busy", "audit_unavailable", "reconcile_required", "request_mismatch"}

Alive(c) == life[ProcessOf[c]] = "alive"
At(c, label) == Alive(c) /\ pc[c] = label
Goto(c, label) == pc' = [pc EXCEPT ![c] = label]
Target(c) == TargetOf[binding[c]]
Slot(c) == <<ProcessOf[c], Target(c)>>

Labels == {"idle", "starting", "admission", "admitting", "cutIntent", "flushIntent",
           "syncEntry", "execute", "applied", "record", "recording", "cutResult",
           "flushResult", "answered", "lost"}

Init ==
  /\ life = [p \in Processes |-> "unborn"]
  /\ pc = [c \in Calls |-> "idle"]
  /\ request \in [Calls -> Requests]
  /\ binding \in [Calls -> Bindings]
  /\ outcome = [c \in Calls |-> "none"]
  /\ answer = [c \in Calls |-> "none"]
  /\ targetOwner = [t \in Targets |-> NoCall]
  /\ auditOwner = NoCall
  /\ active = {}
  /\ log = <<>>
  /\ flushed = 0
  /\ entry = "none"
  /\ made = [c \in Calls |-> FALSE]
  /\ changed = {}

-----------------------------------------------------------------------------
(* The target lock *)

Begin(c) ==
  /\ At(c, "idle")
  /\ Goto(c, "starting")
  /\ UNCHANGED <<life, asked, outcome, answer, locks, audit, changed>>

\* A call that never had the target lock answers and is done.
Refuse(c, reply) ==
  /\ Goto(c, "answered")
  /\ answer' = [answer EXCEPT ![c] = reply]
  /\ UNCHANGED <<life, asked, outcome, locks, audit, changed>>

\* Mutant: activeTargets alone decides.
MayLockUnlessActive(c) == Slot(c) \notin active

MayLockTarget(c) == Slot(c) \notin active /\ targetOwner[Target(c)] = NoCall

\* activeTargets holds the target; or its lock is owned, left by a dead process,
\* or just being made, and the acquisition times out.
TargetBusy(c) ==
  /\ At(c, "starting")
  /\ Refuse(c, "busy")

\* prepareOperatorStateDir fails, or the lock in some other way.
StateUnavailable(c) ==
  /\ At(c, "starting")
  /\ Refuse(c, "audit_unavailable")

\* The test of activeTargets, the lock and the entry in activeTargets are
\* synchronous: no other call of the process comes between them.
LockTarget(c) ==
  /\ At(c, "starting")
  /\ MayLockTarget(c)
  /\ targetOwner' = [targetOwner EXCEPT ![Target(c)] = c]
  /\ active' = active \cup {Slot(c)}
  /\ Goto(c, "admission")
  /\ UNCHANGED <<life, asked, outcome, answer, auditOwner, audit, changed>>

\* The finally block, and the answer.
Answer(c, reply) ==
  /\ answer' = [answer EXCEPT ![c] = reply]
  /\ Goto(c, "answered")
  /\ active' = active \ {Slot(c)}
  /\ targetOwner' = [targetOwner EXCEPT ![Target(c)] = NoCall]

-----------------------------------------------------------------------------
(* The audit log *)

LockAudit(c) ==
  /\ auditOwner = NoCall
  /\ auditOwner' = c
  /\ UNCHANGED <<life, asked, outcome, answer, targetOwner, active, audit, changed>>

\* readOperatorAuditRecords refuses a log with a record it cannot decode, and
\* accepts a complete last record that has lost its newline.
Readable == TornRecord \notin ToSet(log)

\* Mutant: the last byte of the log is not looked at.
AppendableAlways == TRUE

\* appendOperatorAuditRecord refuses a log whose last line has no newline.
Appendable == log # <<>> => log[Len(log)].whole

\* Mutant: a result alone marks the request as known.
KnownByResult(r) ==
  \E i \in DOMAIN log : log[i].phase = "result" /\ log[i].request = r

\* readOperatorAuditRequest: the first intent and the first result of a request.
Known(r) == \E i \in DOMAIN log : log[i].phase # "torn" /\ log[i].request = r

Places(r, phase) == {i \in DOMAIN log : log[i].phase = phase /\ log[i].request = r}

First(places) == log[CHOOSE i \in places : \A j \in places : i <= j]

\* Records, followed by one of which not every byte was written.
Cut(records, last) ==
  {Append(records, TornRecord), Append(records, [last EXCEPT !.whole = FALSE])}

\* O_CREAT|O_EXCL makes a log that does not exist yet.
OpenLog == entry' = IF entry = "none" THEN "made" ELSE entry

\* Mutant: fsync is left out.
FlushLater == UNCHANGED <<flushed, entry>>

\* fsync of the log: every line of it, and on some file systems its entry.
Flush ==
  /\ flushed' = Len(log)
  /\ entry' = IF EntryFollows THEN "flushed" ELSE entry

Admit(c) ==
  /\ At(c, "admission")
  /\ LockAudit(c)
  /\ Goto(c, "admitting")

\* withAuditLock is "busy" or fails: null.
AdmissionUnavailable(c) ==
  /\ At(c, "admission")
  /\ Answer(c, "audit_unavailable")
  /\ UNCHANGED <<life, asked, outcome, auditOwner, audit, changed>>

\* A step under the audit lock throws: null, and the lock is released.
AdmissionFails(c) ==
  /\ \E label \in {"admitting", "cutIntent", "flushIntent", "syncEntry"} : At(c, label)
  /\ Answer(c, "audit_unavailable")
  /\ auditOwner' = NoCall
  /\ UNCHANGED <<life, asked, outcome, audit, changed>>

\* The request is in the log.  Mutant: its binding is not compared.
ReplayOfAnything(c) ==
  LET results == Places(request[c], "result")
  IN  IF results # {} THEN First(results).status ELSE "reconcile_required"

Replay(c) ==
  LET intents == Places(request[c], "intent")
      results == Places(request[c], "result")
      recorded == First(IF intents # {} THEN intents ELSE results)
  IN  IF recorded.binding # binding[c] THEN "request_mismatch"
      ELSE IF results # {} THEN First(results).status
      ELSE "reconcile_required"

AnswerKnown(c) ==
  /\ At(c, "admitting")
  /\ Readable
  /\ Known(request[c])
  /\ Answer(c, Replay(c))
  /\ auditOwner' = NoCall
  /\ UNCHANGED <<life, asked, outcome, audit, changed>>

\* What the append needs before it writes: a request that is new, and a log
\* that ends with a whole line.
MayAppendIntent(c) ==
  /\ At(c, "admitting")
  /\ Readable
  /\ ~Known(request[c])
  /\ Appendable

WriteIntent(c) ==
  /\ MayAppendIntent(c)
  /\ OpenLog
  /\ log' = Append(log, Intent(request[c], binding[c]))
  /\ made' = [made EXCEPT ![c] = (entry = "none")]
  /\ Goto(c, "flushIntent")
  /\ UNCHANGED <<life, asked, outcome, answer, locks, flushed, changed>>

\* The audit lock is released and the action starts.
StartAction(c) ==
  /\ auditOwner' = NoCall
  /\ Goto(c, "execute")
  /\ UNCHANGED <<targetOwner, active>>

FlushIntent(c) ==
  /\ At(c, "flushIntent")
  /\ Flush
  /\ IF made[c] THEN Goto(c, "syncEntry") /\ UNCHANGED locks ELSE StartAction(c)
  /\ UNCHANGED <<life, asked, outcome, answer, log, made, changed>>

\* syncDirectoryDurably, by the call that made the log.
SyncEntry(c) ==
  /\ At(c, "syncEntry")
  /\ entry' = "flushed"
  /\ StartAction(c)
  /\ UNCHANGED <<life, asked, outcome, answer, log, flushed, made, changed>>

-----------------------------------------------------------------------------
(* The action and its result *)

ActionApplies(c) ==
  /\ At(c, "execute")
  /\ changed' = changed \cup {c}
  /\ Goto(c, "applied")
  /\ UNCHANGED <<life, asked, outcome, answer, locks, audit>>

\* OperatorWriteRefusal: nothing was applied.
ActionRefuses(c) ==
  /\ At(c, "execute")
  /\ outcome' = [outcome EXCEPT ![c] = "refused"]
  /\ Goto(c, "record")
  /\ UNCHANGED <<life, asked, answer, locks, audit, changed>>

ActionReturns(c) ==
  /\ At(c, "applied")
  /\ outcome' = [outcome EXCEPT ![c] = "done"]
  /\ Goto(c, "record")
  /\ UNCHANGED <<life, asked, answer, locks, audit, changed>>

\* Another exception, before or after the change: no result is recorded.
ActionThrows(c) ==
  /\ At(c, "execute") \/ At(c, "applied")
  /\ Answer(c, "reconcile_required")
  /\ UNCHANGED <<life, asked, outcome, auditOwner, audit, changed>>

Record(c) ==
  /\ At(c, "record")
  /\ LockAudit(c)
  /\ Goto(c, "recording")

\* The append looks at the end of the log only, not at its records.
WriteResult(c) ==
  /\ At(c, "recording")
  /\ Appendable
  /\ log' = Append(log, Result(request[c], binding[c], outcome[c]))
  /\ Goto(c, "flushResult")
  /\ UNCHANGED <<life, asked, outcome, answer, locks, flushed, entry, made, changed>>

FlushResult(c) ==
  /\ At(c, "flushResult")
  /\ Flush
  /\ Answer(c, outcome[c])
  /\ auditOwner' = NoCall
  /\ UNCHANGED <<life, asked, outcome, log, made, changed>>

\* writeSync writes less than the record: part of it, or all but its newline.
ShortWrite(c) ==
  /\ \/ /\ MayAppendIntent(c)
        /\ log' \in Cut(log, Intent(request[c], binding[c]))
        /\ Goto(c, "cutIntent")
     \/ /\ At(c, "recording")
        /\ Appendable
        /\ log' \in Cut(log, Result(request[c], binding[c], outcome[c]))
        /\ Goto(c, "cutResult")
  /\ OpenLog
  /\ UNCHANGED <<life, asked, outcome, answer, locks, flushed, made, changed>>

\* ftruncateSync(fd, before), and the exception; a log that was made stays.
CutOff(c) ==
  /\ \/ At(c, "cutIntent") /\ Answer(c, "audit_unavailable")
     \/ At(c, "cutResult") /\ Answer(c, "reconcile_required")
  /\ log' = Front(log)
  /\ auditOwner' = NoCall
  /\ UNCHANGED <<life, asked, outcome, flushed, entry, made, changed>>

\* The audit lock or the append fails: the action has run, its result is unknown.
RecordFails(c) ==
  /\ \/ At(c, "record") /\ UNCHANGED auditOwner
     \/ /\ \E label \in {"recording", "cutResult", "flushResult"} : At(c, label)
        /\ auditOwner' = NoCall
  /\ Answer(c, "reconcile_required")
  /\ UNCHANGED <<life, asked, outcome, audit, changed>>

-----------------------------------------------------------------------------
(* Processes and the machine *)

Start(p) ==
  /\ life[p] = "unborn"
  /\ life' = [life EXCEPT ![p] = "alive"]
  /\ UNCHANGED <<pc, asked, outcome, answer, locks, audit, changed>>

\* The memory of the processes goes with them: their calls never answer.
Die(processes) ==
  LET cut(c) == ProcessOf[c] \in processes /\ pc[c] # "answered"
  IN  /\ life' = [p \in Processes |-> IF p \in processes THEN "dead" ELSE life[p]]
      /\ pc' = [c \in Calls |-> IF cut(c) THEN "lost" ELSE pc[c]]
      /\ outcome' = [c \in Calls |-> IF cut(c) THEN "none" ELSE outcome[c]]
      /\ made' = [c \in Calls |-> ~cut(c) /\ made[c]]
      /\ active' = {slot \in active : slot[1] \notin processes}
      /\ UNCHANGED <<asked, answer, targetOwner, auditOwner, changed>>

Exit(p) ==
  /\ life[p] = "alive"
  /\ Die({p})
  /\ UNCHANGED <<log, flushed, entry>>

OwnerDied(owner) == owner # NoCall /\ life[ProcessOf[owner]] = "dead"

ReclaimTarget ==
  /\ \E t \in Targets :
       /\ OwnerDied(targetOwner[t])
       /\ targetOwner' = [targetOwner EXCEPT ![t] = NoCall]
  /\ UNCHANGED <<life, pc, asked, outcome, answer, auditOwner, active, audit, changed>>

ReclaimAudit ==
  /\ OwnerDied(auditOwner)
  /\ auditOwner' = NoCall
  /\ UNCHANGED <<life, pc, asked, outcome, answer, targetOwner, active, audit, changed>>

\* Lines not flushed may be lost from the end; the last that stays may be cut
\* inside its record, or just before its newline.
Survivors ==
  LET kept(n) == SubSeq(log, 1, n)
  IN  {kept(n) : n \in flushed..Len(log)}
        \cup UNION {Cut(kept(n), log[n + 1]) : n \in flushed..(Len(log) - 1)}

PowerLoss ==
  /\ \E p \in Processes : life[p] = "alive"
  /\ Die({p \in Processes : life[p] = "alive"})
  /\ \/ /\ entry = "made"
        /\ log' = <<>>
        /\ entry' = "none"
     \/ /\ entry # "none"
        /\ log' \in Survivors
        /\ entry' = "flushed"
     \/ /\ entry = "none"
        /\ UNCHANGED <<log, entry>>
  /\ flushed' = Len(log')

Call(c) ==
  \/ Begin(c) \/ TargetBusy(c) \/ StateUnavailable(c) \/ LockTarget(c)
  \/ Admit(c) \/ AdmissionUnavailable(c) \/ AdmissionFails(c) \/ AnswerKnown(c)
  \/ WriteIntent(c) \/ ShortWrite(c) \/ CutOff(c) \/ FlushIntent(c) \/ SyncEntry(c)
  \/ ActionApplies(c) \/ ActionRefuses(c) \/ ActionReturns(c) \/ ActionThrows(c)
  \/ Record(c) \/ WriteResult(c) \/ FlushResult(c) \/ RecordFails(c)

Next ==
  \/ \E c \in Calls : Call(c)
  \/ \E p \in Processes : Start(p) \/ Exit(p)
  \/ ReclaimTarget \/ ReclaimAudit
  \/ PowerLoss

Spec == Init /\ [][Next]_vars

-----------------------------------------------------------------------------
(* Properties *)

Acting(c) == At(c, "execute") \/ At(c, "applied")

RecordType ==
  {TornRecord}
    \cup [phase : {"intent"}, request : Requests, binding : Bindings, whole : BOOLEAN]
    \cup [phase : {"result"}, request : Requests, binding : Bindings,
          status : Recorded, whole : BOOLEAN]

\* Every variable has its type, and only the last record may lack its newline.
TypeOK ==
  /\ life \in [Processes -> {"unborn", "alive", "dead"}]
  /\ pc \in [Calls -> Labels]
  /\ request \in [Calls -> Requests] /\ binding \in [Calls -> Bindings]
  /\ outcome \in [Calls -> Recorded \cup {"none"}]
  /\ answer \in [Calls -> Answers \cup {"none"}]
  /\ targetOwner \in [Targets -> Calls \cup {NoCall}] /\ auditOwner \in Calls \cup {NoCall}
  /\ active \subseteq Processes \X Targets
  /\ log \in Seq(RecordType)
  /\ \A i \in 1..(Len(log) - 1) : log[i].whole
  /\ flushed \in 0..Len(log)
  /\ entry \in {"none", "made", "flushed"} /\ (entry = "none" => log = <<>>)
  /\ made \in [Calls -> BOOLEAN]
  /\ changed \subseteq Calls

\* The action of a request runs at most once, over retries, calls in other
\* processes, crashes and power losses ("it is never replayed automatically").
AtMostOnce ==
  \A c, d \in changed : request[c] = request[d] => c = d

\* "Nothing executes unless the intent record is on disk": the line, and the
\* directory entry of the log (appendOperatorAuditRecord).
IntentOnDisk ==
  \A c \in Calls :
    Acting(c) =>
      /\ \E i \in 1..flushed : log[i] = Intent(request[c], binding[c])
      /\ entry = "flushed"

\* No two calls act on one target at a time, in one process or in two, also
\* when the lock of a dead process was taken over (activeTargets, target lock).
OneActsOnATarget ==
  \A c, d \in Calls : Acting(c) /\ Acting(d) /\ Target(c) = Target(d) => c = d

\* What the caller is told is so: a recorded answer says what happened to this
\* very request, and an answer that promises "nothing was changed" comes from
\* a call that changed nothing.  Two calls that get a recorded answer for one
\* request get the same one, the first run and every replay of it
\* (readOperatorAuditRequest).
AnswersAreTrue ==
  \A c \in Calls :
    /\ answer[c] = "done" =>
         \E d \in changed : request[d] = request[c] /\ binding[d] = binding[c]
    /\ answer[c] = "refused" => \A d \in changed : request[d] # request[c]
    /\ answer[c] \in {"busy", "audit_unavailable", "request_mismatch"} => c \notin changed
    /\ \A d \in Calls :
         answer[c] \in Recorded /\ answer[d] \in Recorded /\ request[c] = request[d]
           => answer[c] = answer[d] /\ binding[c] = binding[d]

=============================================================================
