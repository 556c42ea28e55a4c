---------------------------- MODULE EvidenceLog ----------------------------
(***************************************************************************)
(* src/effects/evidence/event-log.ts with src/effects/atomic-append.ts:    *)
(* the append-only evidence log.  Genesis, append and repair run under the *)
(* log lock, reads do not; a process may die, a write or a flush may fail, *)
(* and the machine may lose power, between any two steps.                  *)
(*                                                                         *)
(* log is the file as processes see it, disk what a flush has made         *)
(* permanent.  A line is written in two steps, so that a reader or a crash *)
(* can find half of it.  The log lock is LockService, which                *)
(* ExclusiveDirectoryLock implements.                                      *)
(***************************************************************************)
EXTENDS EvidenceFold, FiniteSets

CONSTANTS
  Procs, PidOf, NoProc,
  Keys,         \* idempotency keys
  Epochs,       \* ledger epochs a genesis record may pin
  InitialLogs,  \* logs that earlier runs, or earlier versions, have left
  MaxEvents     \* bound: events appended

LineOrRecord ==
  {Torn, Bad} \cup {Genesis(e) : e \in Epochs}
    \cup [kind : {"event"}, id : Nat, key : Keys, supersedes : SUBSET Nat]

\* Only the last line can lack its newline.
TornOnlyLast(lines) == \A i \in 1..(Len(lines) - 1) : lines[i] # Torn

ASSUME EvidenceAssumption ==
  /\ NoProc \notin Procs
  /\ InitialLogs # {}
  /\ \A l \in InitialLogs : l \in Seq(LineOrRecord) /\ TornOnlyLast(l)
  /\ MaxEvents \in Nat

VARIABLES
  owner, life,  \* the log lock and its processes (LockService)
  pc, op,       \* where each process is, in which operation
  log, disk,
  files,        \* quarantine files: the lines each holds, and whether it is flushed
  issued,       \* events written so far, which numbers them
  acked,        \* records whose append has returned to its caller
  snapshot,     \* the log as each process read it last, or the record it appends
  ackedBefore   \* acked when each process began its operation

lock    == <<owner, life>>
control == <<pc, op, snapshot, ackedBefore>>
storage == <<log, disk, files>>
history == <<issued, acked>>
vars    == <<lock, control, storage, history>>

LogLock == INSTANCE LockService WITH Procs <- Procs, PidOf <- PidOf,
  NoProc <- NoProc, owner <- owner, life <- life

NoOp == [type |-> "none"]
Ops ==
  [type : {"genesis"}, epoch : Epochs] \cup [type : {"append"}, key : Keys]
    \cup [type : {"read", "observe"}]

\* The steps of the operations, by the line of code that comes next.
ReadLabels   == {"read", "waitingToRepair", "reread", "createQuarantine",
                 "syncQuarantine", "truncate", "syncLog", "readDone"}
AppendLabels == {"waitingToAppend", "check", "finishLine", "syncLine", "appended"}

At(p, label) == LogLock!Alive(p) /\ pc[p] = label
Goto(p, label) == pc' = [pc EXCEPT ![p] = label]
Took(p, lines) == snapshot' = [snapshot EXCEPT ![p] = lines]

Init ==
  /\ LogLock!Init
  /\ pc = [p \in Procs |-> "idle"]
  /\ op = [p \in Procs |-> NoOp]
  /\ log \in InitialLogs
  /\ disk = log
  /\ files = {}
  /\ issued = 0
  /\ acked = {}
  /\ snapshot = [p \in Procs |-> <<>>]
  /\ ackedBefore = [p \in Procs |-> {}]

-----------------------------------------------------------------------------
(* Calls, and the log lock around them *)

Begin(p) ==
  /\ At(p, "idle")
  /\ \E o \in Ops :
       /\ op' = [op EXCEPT ![p] = o]
       /\ Goto(p, IF o.type \in {"read", "observe"} THEN "read" ELSE "waitingToAppend")
  /\ ackedBefore' = [ackedBefore EXCEPT ![p] = acked]
  /\ UNCHANGED <<lock, storage, history, snapshot>>

\* The operation is over, by a return, an exception or the process's death.
Finish(p) ==
  /\ Goto(p, "idle")
  /\ op' = [op EXCEPT ![p] = NoOp]
  /\ Took(p, <<>>)
  /\ ackedBefore' = [ackedBefore EXCEPT ![p] = {}]

\* Leaving the critical section with nothing more to do: an exception, or a
\* return that writes nothing.  withExclusiveDirectoryLock releases either way.
LeaveLocked(p) ==
  /\ LogLock!Release(p)
  /\ Finish(p)
  /\ UNCHANGED <<storage, history>>

Lock(p) ==
  /\ \/ At(p, "waitingToAppend") /\ Goto(p, "check")
     \/ At(p, "waitingToRepair") /\ Goto(p, "reread")
  /\ LogLock!Acquire(p)
  /\ UNCHANGED <<op, snapshot, ackedBefore, storage, history>>

\* The acquisition throws, most often ExclusiveLockContentionError: the lock is
\* owned, is being made, or is left over.  The operation has done nothing.
LockTimesOut(p) ==
  /\ \/ At(p, "waitingToAppend")
     \/ At(p, "waitingToRepair")
  /\ Finish(p)
  /\ UNCHANGED <<lock, storage, history>>

-----------------------------------------------------------------------------
(* appendGenesisRecord and appendEvidenceEvent *)

\* Mutants: append to any log, or after a corrupt record if its line is complete.
AppendableAlways(lines)     == TRUE
AppendableTerminated(lines) == Terminated(lines)

\* readAppendableLog: neither unterminated nor corrupt anywhere.
Appendable(lines) == Terminated(lines) /\ Clean(lines)

HasGenesis(lines) == lines # <<>> /\ lines[1].kind = "genesis"
Pinned(p) == Appendable(log) /\ log # <<>> /\ log[1] = Genesis(op[p].epoch)

\* Mutant: a genesis record is written to any log that does not hold the same one.
MayAppendGenesisAgain(p) ==
  op[p].type = "genesis" /\ Appendable(log) /\ ~Pinned(p)

MayAppendGenesis(p) ==
  op[p].type = "genesis" /\ Appendable(log) /\ log = <<>>

MayAppendEvent(p) ==
  op[p].type = "append" /\ Appendable(log) /\ HasGenesis(log)

\* The first bytes of the record reach the file.
StartLine(p, record) ==
  /\ log' = Append(log, Torn)
  /\ Took(p, <<record>>)
  /\ Goto(p, "finishLine")
  /\ UNCHANGED <<lock, op, ackedBefore, disk, files, acked>>

AppendGenesis(p) ==
  /\ At(p, "check")
  /\ MayAppendGenesis(p)
  /\ StartLine(p, Genesis(op[p].epoch))
  /\ UNCHANGED issued

\* The store is pinned to this epoch already: the call returns, nothing is written.
GenesisPresent(p) ==
  /\ At(p, "check")
  /\ op[p].type = "genesis"
  /\ Pinned(p)
  /\ LeaveLocked(p)

\* An event may supersede one that its author knows of.
AppendEvent(p) ==
  /\ At(p, "check")
  /\ MayAppendEvent(p)
  /\ issued < MaxEvents
  /\ \E superseded \in {{}} \cup {{log[i].id} : i \in {j \in DOMAIN log : log[j].kind = "event"}} :
       StartLine(p, Event(issued + 1, op[p].key, superseded))
  /\ issued' = issued + 1

\* Unterminated or corrupt log, no genesis record, or one of another epoch.
AppendRefused(p) ==
  /\ At(p, "check")
  /\ \/ op[p].type = "genesis" /\ ~MayAppendGenesis(p) /\ ~Pinned(p)
     \/ op[p].type = "append" /\ ~MayAppendEvent(p)
  /\ LeaveLocked(p)

\* The rest of the record and its newline.
FinishLine(p) ==
  /\ At(p, "finishLine")
  /\ log' = [log EXCEPT ![Len(log)] = snapshot[p][1]]
  /\ Goto(p, "syncLine")
  /\ UNCHANGED <<lock, op, snapshot, ackedBefore, disk, files, history>>

SyncLine(p) ==
  /\ At(p, "syncLine")
  /\ disk' = log
  /\ Goto(p, "appended")
  /\ UNCHANGED <<lock, op, snapshot, ackedBefore, log, files, history>>

\* The record cannot be built or the log not opened, or writeSync or fsyncSync
\* fails: the caller is told, and what was written stays.
AppendFails(p) ==
  /\ \E label \in {"check", "finishLine", "syncLine"} : At(p, label)
  /\ LeaveLocked(p)

AppendReturns(p) ==
  /\ At(p, "appended")
  /\ LogLock!Release(p)
  /\ acked' = acked \cup ToSet(snapshot[p])
  /\ Finish(p)
  /\ UNCHANGED <<storage, issued>>

-----------------------------------------------------------------------------
(* readAcceptedEvents, and the repair of a corrupt tail *)

\* An unlocked read: a clean snapshot is the result, another asks for a repair.
Read(p) ==
  /\ At(p, "read")
  /\ op[p].type = "read" \/ Clean(log)
  /\ Took(p, log)
  /\ Goto(p, IF Clean(log) THEN "readDone" ELSE "waitingToRepair")
  /\ UNCHANGED <<lock, op, ackedBefore, storage, history>>

\* A read-only observation may not repair.
ObservationRejected(p) ==
  /\ At(p, "read")
  /\ op[p].type = "observe"
  /\ ~Clean(log)
  /\ Finish(p)
  /\ UNCHANGED <<lock, storage, history>>

\* Mutant: the repair trusts the snapshot read before it had the lock.
RepairSnapshotStale(p) == snapshot[p]

\* What the repair works from: the log, read again under the lock.
RepairSnapshot(p) == log

Reread(p) ==
  /\ At(p, "reread")
  /\ Took(p, RepairSnapshot(p))
  /\ IF Clean(RepairSnapshot(p))
     THEN LogLock!Release(p) /\ Goto(p, "readDone")
     ELSE UNCHANGED lock /\ Goto(p, "createQuarantine")
  /\ UNCHANGED <<op, ackedBefore, storage, history>>

CreateQuarantine(p) ==
  /\ At(p, "createQuarantine")
  /\ files' = files \cup {[lines |-> CorruptLines(snapshot[p]), synced |-> FALSE]}
  /\ Goto(p, "syncQuarantine")
  /\ UNCHANGED <<lock, op, snapshot, ackedBefore, log, disk, history>>

\* Mutant: the quarantine is written, and neither it nor its directory flushed.
FlushedNothing(file) == file

Flushed(file) == [file EXCEPT !.synced = TRUE]

SyncQuarantine(p) ==
  /\ At(p, "syncQuarantine")
  /\ files' = {IF f.lines = CorruptLines(snapshot[p]) THEN Flushed(f) ELSE f : f \in files}
  /\ Goto(p, "truncate")
  /\ UNCHANGED <<lock, op, snapshot, ackedBefore, log, disk, history>>

\* Mutant: the offset of the last valid line's start, not of its end.
TruncatedShort(lines, valid) == SubSeq(lines, 1, IF valid = 0 THEN 0 ELSE valid - 1)

\* ftruncateSync(fd, validEnd).
Truncated(lines, valid) == SubSeq(lines, 1, valid)

Truncate(p) ==
  /\ At(p, "truncate")
  /\ log' = Truncated(log, ValidLineCount(snapshot[p]))
  /\ Goto(p, "syncLog")
  /\ UNCHANGED <<lock, op, snapshot, ackedBefore, disk, files, history>>

SyncLog(p) ==
  /\ At(p, "syncLog")
  /\ LogLock!Release(p)
  /\ disk' = log
  /\ Goto(p, "readDone")
  /\ UNCHANGED <<op, snapshot, ackedBefore, log, files, history>>

\* A create, write, flush or truncation fails and quarantineEvidenceTail throws.
RepairFails(p) ==
  /\ \E label \in {"createQuarantine", "syncQuarantine", "truncate", "syncLog"} :
       At(p, label)
  /\ LeaveLocked(p)

ReadReturns(p) ==
  /\ At(p, "readDone")
  /\ Finish(p)
  /\ UNCHANGED <<lock, storage, history>>

-----------------------------------------------------------------------------
(* Processes and the machine *)

Start(p) == LogLock!Start(p) /\ UNCHANGED <<control, storage, history>>

Exit(p) == LogLock!Exit(p) /\ Finish(p) /\ UNCHANGED <<storage, history>>

ReclaimFromDead(p) ==
  LogLock!ReclaimFromDead(p) /\ UNCHANGED <<control, storage, history>>

\* What may be left of a file that shows lines while kept has been flushed:
\* the old content, or any prefix of the new beyond what both share, the last
\* line perhaps torn.
Survivors(lines, kept) ==
  LET shared == CHOOSE n \in 0..Len(lines) :
                  /\ IsPrefix(SubSeq(lines, 1, n), kept)
                  /\ n = Len(lines) \/ ~IsPrefix(SubSeq(lines, 1, n + 1), kept)
      prefixes == {SubSeq(lines, 1, n) : n \in shared..Len(lines)}
  IN  {kept} \cup prefixes
        \cup {Append(l, Torn) : l \in {q \in prefixes : Len(q) < Len(lines)}}

PowerLoss ==
  /\ \E p \in Procs : LogLock!Alive(p)
  /\ life' = [p \in Procs |-> IF LogLock!Alive(p) THEN "dead" ELSE life[p]]
  /\ pc' = [p \in Procs |-> "idle"]
  /\ op' = [p \in Procs |-> NoOp]
  /\ snapshot' = [p \in Procs |-> <<>>]
  /\ ackedBefore' = [p \in Procs |-> {}]
  /\ log' \in Survivors(log, disk)
  /\ disk' = log'
  /\ files' = {f \in files : f.synced}
  /\ UNCHANGED <<owner, history>>

Step(p) ==
  \/ Start(p) \/ Exit(p) \/ ReclaimFromDead(p)
  \/ Begin(p) \/ Lock(p) \/ LockTimesOut(p)
  \/ AppendGenesis(p) \/ GenesisPresent(p) \/ AppendEvent(p) \/ AppendRefused(p)
  \/ FinishLine(p) \/ SyncLine(p) \/ AppendFails(p) \/ AppendReturns(p)
  \/ Read(p) \/ ObservationRejected(p) \/ Reread(p)
  \/ CreateQuarantine(p) \/ SyncQuarantine(p) \/ Truncate(p) \/ SyncLog(p)
  \/ RepairFails(p) \/ ReadReturns(p)

Next == PowerLoss \/ \E p \in Procs : Step(p)

Spec == Init /\ [][Next]_vars

-----------------------------------------------------------------------------
(* Properties *)

Records(lines) == ToSet(ValidLines(lines))

\* Every variable has its type; a half line exists only at the end of the log.
TypeOK ==
  /\ owner \in Procs \cup {NoProc}
  /\ life \in [Procs -> {"unborn", "alive", "dead"}]
  /\ pc \in [Procs -> {"idle"} \cup ReadLabels \cup AppendLabels]
  /\ op \in [Procs -> Ops \cup {NoOp}]
  /\ \A lines \in {log, disk} \cup {snapshot[p] : p \in Procs} :
       lines \in Seq(LineOrRecord) /\ TornOnlyLast(lines)
  /\ files \subseteq [lines : Seq(LineOrRecord), synced : BOOLEAN]
  /\ issued \in 0..MaxEvents
  /\ acked \subseteq LineOrRecord
  /\ ackedBefore \in [Procs -> SUBSET acked]

\* A record whose append has returned is before any corruption, in the log
\* that readers see and in what a power loss leaves of it: no later append,
\* failed append, repair or crash takes it out of the accepted prefix
\* (readAppendableLog, the lock around repairCorruptTail, the fsync of
\* appendLineDurably).
AckedNeverLost == acked \subseteq Records(log) \cap Records(disk)

\* The log holds one genesis record, its first, whatever the number of
\* writers that found it empty (appendGenesisRecordLocked).
OneGenesisFirst ==
  \A i \in 1..ValidLineCount(log) : (log[i].kind = "genesis") <=> (i = 1)

\* A read that completes returns every record that had been appended when it
\* began, also if it waited for the lock and repaired (readAcceptedEvents).
ReadsSeeAcked ==
  \A p \in Procs : At(p, "readDone") => ackedBefore[p] \subseteq Records(snapshot[p])

\* A repair sets aside debris only: never a line that a live writer is
\* writing, and never a line before the first corrupt one (repairCorruptTail
\* reads again under the lock).
RepairSparesWriters ==
  \A p, w \in Procs :
    At(p, "truncate") =>
      /\ ~At(w, "finishLine") /\ ~At(w, "syncLine") /\ ~At(w, "appended")
      /\ log = ValidLines(snapshot[p]) \o CorruptLines(snapshot[p])

\* The accepted events, as the log alone defines them: first of their key,
\* and superseded by no event that is itself the first of its key.
FirstOfKey(events, i) == \A j \in 1..(i - 1) : events[j].key # events[i].key

AcceptedByDefinition(events) ==
  LET first == {i \in DOMAIN events : FirstOfKey(events, i)}
  IN  {events[i] : i \in {j \in first :
         \A k \in first : events[j].id \notin events[k].supersedes}}

\* foldAcceptedEvents computes exactly those, each once, in append order.
FoldIsByDefinition ==
  LET events == EventsOf(ValidLines(log))
      accepted == FoldAcceptedEvents(events)
  IN  /\ ToSet(accepted) = AcceptedByDefinition(events)
      /\ Len(accepted) = Cardinality(ToSet(accepted))
      /\ \A i, j \in DOMAIN accepted : i < j =>
           \E m, n \in {k \in DOMAIN events : FirstOfKey(events, k)} :
             m < n /\ events[m] = accepted[i] /\ events[n] = accepted[j]

\* Every line that has been flushed stays in the log or is in a flushed
\* quarantine file, through repairs, failed flushes and power losses
\* (quarantineEvidenceTail flushes the copy and its directory first).
FlushedNeverVanishes ==
  [][\A line \in ToSet(disk) :
        \/ line \in ToSet(disk')
        \/ \E f \in files' : f.synced /\ line \in ToSet(f.lines)]_vars

\* Unless power is lost the accepted prefix only grows: repairs cut behind
\* it, appends extend it (findCorruptTail, ftruncateSync(fd, validEnd)).
PrefixOnlyGrows ==
  [][PowerLoss \/ IsPrefix(ValidLines(log), ValidLines(log'))]_vars

=============================================================================
