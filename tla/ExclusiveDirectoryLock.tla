----------------------- MODULE ExclusiveDirectoryLock -----------------------
(***************************************************************************)
(* src/effects/locking/exclusive-directory-lock.ts: a lock that is a       *)
(* directory holding one owner file.  Every action is one file-system call *)
(* (or a run of calls no other process can tell from one, as noted), so a  *)
(* process may be overtaken, suspended or killed between any two of them.  *)
(*                                                                         *)
(* Abstractions.  A token (pid-time-uuid) is a pair of its process and a   *)
(* number; a number no entry and no reclaimer knows any more stands for a  *)
(* new one, so publications need no bound.  The staged temp file is        *)
(* private to its process and left out: the token it carries is the one    *)
(* its process will link.  A comparison of a clock with a bound (deadline, *)
(* 30 s staleness) may come out either way.                                *)
(*                                                                         *)
(* A call fails as the state of the lock makes it fail, or for a reason    *)
(* from outside (I/O or permission error, an ancestor replaced, a process  *)
(* table its own process cannot read); `failed` remembers whose calls did  *)
(* the latter.                                                             *)
(***************************************************************************)

CONSTANTS
  Procs,          \* process instances; a restarted program is another one
  Pids,
  PidOf,          \* process id of each instance; may be reused after death
  Inodes,         \* identities a directory can have; may be reused
  NoDir,          \* nothing exists at the lock path
  NoToken,
  TokenIds,       \* numbers of tokens; one is used again once it is forgotten
  ReclaimEmpty,   \* option reclaimStaleEmptyDirectory
  VerdictMayLag,  \* the process table may be unreadable, or its answer cached
  MayFail,        \* bound: the processes whose calls may fail for a reason from outside
  NoProc

Tokens == Procs \X TokenIds

ASSUME LockAssumption ==
  /\ PidOf \in [Procs -> Pids]
  /\ NoDir \notin Inodes
  /\ NoToken \notin Tokens
  /\ MayFail \subseteq Procs
  /\ ReclaimEmpty \in BOOLEAN
  /\ VerdictMayLag \in BOOLEAN
  /\ NoProc \notin Procs

VARIABLES
  dir,        \* inode of the directory at the lock path, or NoDir
  entries,    \* the tokens named in that directory
  life,       \* "unborn", "alive" or "dead", per process
  pc,         \* the next call of each process
  ownToken,   \* the token of the current publication, from its link on
  ownDir,     \* directoryIdentity of the current publication
  purpose,    \* why the process is removing its directory
  seenDir,    \* observedDirectoryIdentity of a reclaim
  seenToken,  \* the entry observed by a reclaim
  outcome,    \* what the last acquisition, or the check of it, has thrown
  failed      \* the processes a call of whom has failed for a reason from outside

vars == <<dir, entries, life, pc, ownToken, ownDir, purpose,
          seenDir, seenToken, outcome, failed>>

shared   == <<dir, entries>>
holding  == <<ownToken, ownDir, purpose>>
observed == <<seenDir, seenToken>>

PublishPcs == {"lookup", "mkdir", "stat", "link", "verify"}
OwnPcs     == {"owned", "running"}
RemovePcs  == {"unlink", "recheck", "rmdir"}
ReclaimPcs == {"await", "observe", "list", "restat", "relist", "rmdirEmpty",
               "judge", "rejudge", "unlinkDead", "rmdirDead", "deadline"}
Pcs == {"idle"} \cup PublishPcs \cup OwnPcs \cup RemovePcs \cup ReclaimPcs

Alive(p) == life[p] = "alive"

At(p, label) == Alive(p) /\ pc[p] = label
Goto(p, label) == pc' = [pc EXCEPT ![p] = label]

FailsFromOutside(p) ==
  /\ p \in MayFail
  /\ failed' = failed \cup {p}

\* A call of p that the state refuses, or that fails whatever the state.
Fails(p, refused) ==
  \/ refused /\ UNCHANGED failed
  \/ FailsFromOutside(p)

(***************************************************************************)
(* ownerLiveness: no process with the id is dead, another process with the *)
(* id is dead too (its start time differs), and an unreadable table or a   *)
(* verdict cached for up to LIVE_OWNER_RECHECK_MS only ever says not dead. *)
(***************************************************************************)
RunningAs(pid) == {q \in Procs : Alive(q) /\ PidOf[q] = pid}

\* Mutant: the start time is not compared, so a reused id counts as its owner.
VerdictsByPidAlone(token) ==
  LET running == RunningAs(PidOf[token[1]])
  IN  IF running = {} THEN {"dead"}
      ELSE {"live"} \cup (IF VerdictMayLag THEN {"unverified"} ELSE {})

Verdicts(token) ==
  LET o == token[1]
      running == RunningAs(PidOf[o])
  IN  IF running = {} THEN {"dead"}
      ELSE (IF o \in running THEN {"live"} ELSE {"dead"})
             \cup (IF VerdictMayLag THEN {"unverified"} ELSE {})

\* Mutant: an owner that is not proven live is taken for dead.
MayJudgeDeadUnlessLive(token) == Verdicts(token) # {"live"}

MayJudgeDead(token)  == "dead" \in Verdicts(token)
MayJudgeAlive(token) == Verdicts(token) # {"dead"}

(***************************************************************************)
(* ownsExclusiveToken.  The directory that holds a live process' token     *)
(* cannot be replaced (rmdir needs it empty), so lstat, readdir and lstat  *)
(* act as one call.                                                        *)
(***************************************************************************)
\* Mutants: the check passes with other entries present, or in another directory.
OwnsSharedToken(p)    == dir = ownDir[p] /\ ownToken[p] \in entries
OwnsTokenSomewhere(p) == entries = {ownToken[p]}

OwnsExclusiveToken(p) ==
  /\ dir = ownDir[p]
  /\ entries = {ownToken[p]}

Init ==
  /\ dir = NoDir
  /\ entries = {}
  /\ life = [p \in Procs |-> "unborn"]
  /\ pc = [p \in Procs |-> "idle"]
  /\ ownToken = [p \in Procs |-> NoToken]
  /\ ownDir = [p \in Procs |-> NoDir]
  /\ purpose = [p \in Procs |-> "none"]
  /\ seenDir = [p \in Procs |-> NoDir]
  /\ seenToken = [p \in Procs |-> NoToken]
  /\ outcome = [p \in Procs |-> "none"]
  /\ failed = {}

-----------------------------------------------------------------------------
(* Processes *)

Start(p) ==
  /\ life[p] = "unborn"
  /\ RunningAs(PidOf[p]) = {}
  /\ life' = [life EXCEPT ![p] = "alive"]
  /\ UNCHANGED <<shared, pc, holding, observed, outcome, failed>>

Forget(p) ==
  /\ seenDir' = [seenDir EXCEPT ![p] = NoDir]
  /\ seenToken' = [seenToken EXCEPT ![p] = NoToken]

Abandon(p) ==
  /\ Goto(p, "idle")
  /\ ownToken' = [ownToken EXCEPT ![p] = NoToken]
  /\ ownDir' = [ownDir EXCEPT ![p] = NoDir]
  /\ purpose' = [purpose EXCEPT ![p] = "none"]

\* Exit or kill, between any two calls.  What the process was doing is gone with
\* it, but for what it was doing with a token it leaves in the directory.
Exit(p) ==
  /\ Alive(p)
  /\ life' = [life EXCEPT ![p] = "dead"]
  /\ outcome' = [outcome EXCEPT ![p] = "none"]
  /\ Forget(p)
  /\ IF ownToken[p] \in entries THEN UNCHANGED <<pc, holding>> ELSE Abandon(p)
  /\ UNCHANGED <<shared, failed>>

-----------------------------------------------------------------------------
(* publishOwner *)

Acquire(p) ==
  /\ At(p, "idle")
  /\ Goto(p, "lookup")
  /\ outcome' = [outcome EXCEPT ![p] = "none"]
  /\ UNCHANGED <<shared, life, holding, observed, failed>>

\* existsSync(lockPath), then stageOwnerRecord when the lock looks free.
LookUp(p) ==
  /\ At(p, "lookup")
  /\ Goto(p, IF dir = NoDir THEN "mkdir" ELSE "await")
  /\ UNCHANGED <<shared, life, holding, observed, outcome, failed>>

\* existsSync answers false when it fails, and mkdir then finds out.
LookUpFails(p) ==
  /\ At(p, "lookup")
  /\ FailsFromOutside(p)
  /\ Goto(p, "mkdir")
  /\ UNCHANGED <<shared, life, holding, observed, outcome>>

MakeDirectory(p) ==
  /\ At(p, "mkdir")
  /\ dir = NoDir
  /\ dir' \in Inodes
  /\ entries' = {}
  /\ Goto(p, "stat")
  /\ UNCHANGED <<life, holding, observed, outcome, failed>>

DirectoryExists(p) ==
  /\ At(p, "mkdir")
  /\ dir # NoDir
  /\ Goto(p, "await")
  /\ UNCHANGED <<shared, life, holding, observed, outcome, failed>>

\* stageOwnerRecord (an unreadable start time of its own, open, write), the
\* ancestor check or mkdir itself throws: nothing has been made.
MakeDirectoryFails(p) ==
  /\ At(p, "mkdir")
  /\ FailsFromOutside(p)
  /\ Goto(p, "idle")
  /\ outcome' = [outcome EXCEPT ![p] = "error"]
  /\ UNCHANGED <<shared, life, holding, observed>>

\* lstat of what was just made: by now it may be gone, or be another's.
StatDirectory(p) ==
  /\ At(p, "stat")
  /\ dir # NoDir
  /\ ownDir' = [ownDir EXCEPT ![p] = dir]
  /\ Goto(p, "link")
  /\ UNCHANGED <<shared, life, ownToken, purpose, observed, outcome, failed>>

\* ENOENT, or any other failure: the exception leaves publishOwner as it is, and
\* the directory, if it is there, as well.
StatFails(p) ==
  /\ At(p, "stat")
  /\ Fails(p, dir = NoDir)
  /\ Goto(p, "idle")
  /\ outcome' = [outcome EXCEPT ![p] = "error"]
  /\ UNCHANGED <<shared, life, holding, observed>>

\* Tokens of p that are in no directory and that nobody remembers.
FreshTokens(p) ==
  {t \in {p} \X TokenIds : t \notin entries /\ \A q \in Procs : seenToken[q] # t}

\* Which new token it is makes no difference.
LinkOwner(p) ==
  /\ At(p, "link")
  /\ dir # NoDir
  /\ FreshTokens(p) # {}
  /\ ownToken' = [ownToken EXCEPT ![p] = CHOOSE t \in FreshTokens(p) : TRUE]
  /\ entries' = entries \cup {ownToken'[p]}
  /\ Goto(p, "verify")
  /\ UNCHANGED <<dir, life, ownDir, purpose, observed, outcome, failed>>

\* removeUnpublishedLock, then the exception is thrown on.
LinkFails(p) ==
  /\ At(p, "link")
  /\ Fails(p, dir = NoDir)
  /\ purpose' = [purpose EXCEPT ![p] = "abandon"]
  /\ Goto(p, "recheck")
  /\ UNCHANGED <<shared, life, ownToken, ownDir, observed, outcome>>

VerifyOwned(p) ==
  /\ At(p, "verify")
  /\ OwnsExclusiveToken(p)
  /\ Goto(p, "owned")
  /\ UNCHANGED <<shared, life, holding, observed, outcome, failed>>

\* A check that fails answers false.
VerifyLost(p) ==
  /\ At(p, "verify")
  /\ Fails(p, ~OwnsExclusiveToken(p))
  /\ purpose' = [purpose EXCEPT ![p] = "retry"]
  /\ Goto(p, "unlink")
  /\ UNCHANGED <<shared, life, ownToken, ownDir, observed, outcome>>

-----------------------------------------------------------------------------
(* withExclusiveDirectoryLock: assertOwned, run, release *)

AssertOwned(p) ==
  /\ At(p, "owned")
  /\ OwnsExclusiveToken(p)
  /\ Goto(p, "running")
  /\ UNCHANGED <<shared, life, holding, observed, outcome, failed>>

AssertLost(p) ==
  /\ At(p, "owned")
  /\ Fails(p, ~OwnsExclusiveToken(p))
  /\ outcome' = [outcome EXCEPT ![p] = "lost"]
  /\ purpose' = [purpose EXCEPT ![p] = "release"]
  /\ Goto(p, "unlink")
  /\ UNCHANGED <<shared, life, ownToken, ownDir, observed>>

\* The ancestor check throws an exception of its own.
AssertFails(p) ==
  /\ At(p, "owned")
  /\ FailsFromOutside(p)
  /\ outcome' = [outcome EXCEPT ![p] = "error"]
  /\ purpose' = [purpose EXCEPT ![p] = "release"]
  /\ Goto(p, "unlink")
  /\ UNCHANGED <<shared, life, ownToken, ownDir, observed>>

Release(p) ==
  /\ At(p, "running")
  /\ purpose' = [purpose EXCEPT ![p] = "release"]
  /\ Goto(p, "unlink")
  /\ UNCHANGED <<shared, life, ownToken, ownDir, observed, outcome, failed>>

-----------------------------------------------------------------------------
(* removeOwnedLock and removeUnpublishedLock *)

\* Where a removal returns to: the acquisition's own retry test, the caller
\* of release, or the caller of acquire with the exception.
Return(p) ==
  /\ ownToken' = [ownToken EXCEPT ![p] = NoToken]
  /\ ownDir' = [ownDir EXCEPT ![p] = NoDir]
  /\ purpose' = [purpose EXCEPT ![p] = IF @ = "retry" THEN "retry" ELSE "none"]
  /\ Goto(p, IF purpose[p] = "retry" THEN "deadline" ELSE "idle")
  /\ outcome' = [outcome EXCEPT ![p] = IF purpose[p] = "abandon" THEN "error" ELSE @]

\* The directory is the one published in: unlink the own token from it.
MayUnlink(p) == dir = ownDir[p] /\ ownToken[p] \in entries

\* Mutant: only the directory is removed, and the owner file forgotten.
UnlinkOwnerForgotten(p) ==
  /\ At(p, "unlink")
  /\ MayUnlink(p)
  /\ Goto(p, "recheck")
  /\ UNCHANGED <<shared, life, holding, observed, outcome, failed>>

UnlinkOwner(p) ==
  /\ At(p, "unlink")
  /\ MayUnlink(p)
  /\ entries' = entries \ {ownToken[p]}
  /\ Goto(p, "recheck")
  /\ UNCHANGED <<dir, life, holding, observed, outcome, failed>>

\* It is another directory, or one of the calls up to the unlink throws: return at
\* once, leaving the token where it is.
UnlinkSkipped(p) ==
  /\ At(p, "unlink")
  /\ Fails(p, ~MayUnlink(p))
  /\ Return(p)
  /\ UNCHANGED <<shared, life, observed>>

\* lstat, and for an unpublished directory readdir as well.
MayRemove(p) ==
  /\ dir = ownDir[p]
  /\ purpose[p] = "abandon" => entries = {}

Recheck(p) ==
  /\ At(p, "recheck")
  /\ MayRemove(p)
  /\ Goto(p, "rmdir")
  /\ UNCHANGED <<shared, life, holding, observed, outcome, failed>>

RecheckFails(p) ==
  /\ At(p, "recheck")
  /\ Fails(p, ~MayRemove(p))
  /\ Return(p)
  /\ UNCHANGED <<shared, life, observed>>

\* rmdir names the path, not the inode, and fails unless it is empty.
\* Mutant: a recursive removal.
RemoveTree ==
  dir' = NoDir

RemovePath ==
  dir' = IF entries = {} THEN NoDir ELSE dir

RemoveDirectory(p) ==
  /\ At(p, "rmdir")
  /\ RemovePath
  /\ Return(p)
  /\ UNCHANGED <<entries, life, observed, failed>>

RemoveDirectoryFails(p) ==
  /\ At(p, "rmdir")
  /\ FailsFromOutside(p)
  /\ Return(p)
  /\ UNCHANGED <<shared, life, observed>>

-----------------------------------------------------------------------------
(* awaitLockRelease and reclaimStaleLockDirectory *)

\* Mutant: it returns true, so the deadline is never looked at.
NotReclaimedButTrue(p) ==
  /\ Forget(p)
  /\ Goto(p, "lookup")
  /\ UNCHANGED <<shared, life, holding, outcome>>

\* reclaimStaleLockDirectory returns false.
NotReclaimed(p) ==
  /\ Forget(p)
  /\ Goto(p, "deadline")
  /\ UNCHANGED <<shared, life, holding, outcome>>

Await(p) ==
  /\ At(p, "await")
  /\ Goto(p, IF dir = NoDir THEN "lookup" ELSE "observe")
  /\ UNCHANGED <<shared, life, holding, observed, outcome, failed>>

\* lstat or the ancestor check throws something other than ENOENT.
AwaitFails(p) ==
  /\ At(p, "await")
  /\ FailsFromOutside(p)
  /\ Goto(p, "idle")
  /\ outcome' = [outcome EXCEPT ![p] = "error"]
  /\ UNCHANGED <<shared, life, holding, observed>>

Observe(p) ==
  /\ At(p, "observe")
  /\ dir # NoDir
  /\ seenDir' = [seenDir EXCEPT ![p] = dir]
  /\ Goto(p, "list")
  /\ UNCHANGED <<shared, life, holding, seenToken, outcome, failed>>

ObserveFails(p) ==
  /\ At(p, "observe")
  /\ Fails(p, dir = NoDir)
  /\ NotReclaimed(p)

\* Mutant: the option is not consulted.
ListEmptyAlways(p) ==
  /\ At(p, "list")
  /\ dir # NoDir
  /\ entries = {}
  /\ Goto(p, "restat")
  /\ UNCHANGED <<shared, life, holding, observed, outcome, failed>>

\* An empty directory, opted in for, and last modified over 30 s ago.
ListEmpty(p) ==
  /\ At(p, "list")
  /\ ReclaimEmpty
  /\ dir # NoDir
  /\ entries = {}
  /\ Goto(p, "restat")
  /\ UNCHANGED <<shared, life, holding, observed, outcome, failed>>

ListOwner(p) ==
  /\ At(p, "list")
  /\ dir # NoDir
  /\ \E t \in entries :
       /\ entries = {t}
       /\ seenToken' = [seenToken EXCEPT ![p] = t]
  /\ Goto(p, "judge")
  /\ UNCHANGED <<shared, life, holding, seenDir, outcome, failed>>

\* No directory, a young empty one, an empty one not opted in for, or more
\* than one entry.
ListFails(p) ==
  /\ At(p, "list")
  /\ Fails(p, ~\E t \in entries : entries = {t})
  /\ NotReclaimed(p)

Restat(p) ==
  /\ At(p, "restat")
  /\ dir = seenDir[p]
  /\ Goto(p, "relist")
  /\ UNCHANGED <<shared, life, holding, observed, outcome, failed>>

RestatFails(p) ==
  /\ At(p, "restat")
  /\ Fails(p, dir # seenDir[p])
  /\ NotReclaimed(p)

Relist(p) ==
  /\ At(p, "relist")
  /\ dir # NoDir
  /\ entries = {}
  /\ Goto(p, "rmdirEmpty")
  /\ UNCHANGED <<shared, life, holding, observed, outcome, failed>>

RelistFails(p) ==
  /\ At(p, "relist")
  /\ Fails(p, dir = NoDir \/ entries # {})
  /\ NotReclaimed(p)

\* The owner file is read and its process judged; the record of a token never
\* changes, so reading it and judging it are one step.
Judge(p) ==
  /\ At(p, "judge")
  /\ seenToken[p] \in entries
  /\ MayJudgeDead(seenToken[p])
  /\ Goto(p, "rejudge")
  /\ UNCHANGED <<shared, life, holding, observed, outcome, failed>>

JudgeFails(p) ==
  /\ At(p, "judge")
  /\ Fails(p, seenToken[p] \notin entries \/ MayJudgeAlive(seenToken[p]))
  /\ NotReclaimed(p)

\* The second look: same directory, same single entry, still dead.
StillStale(p) ==
  /\ dir = seenDir[p]
  /\ entries = {seenToken[p]}

Rejudge(p) ==
  /\ At(p, "rejudge")
  /\ StillStale(p)
  /\ MayJudgeDead(seenToken[p])
  /\ Goto(p, "unlinkDead")
  /\ UNCHANGED <<shared, life, holding, observed, outcome, failed>>

RejudgeFails(p) ==
  /\ At(p, "rejudge")
  /\ Fails(p, ~StillStale(p) \/ MayJudgeAlive(seenToken[p]))
  /\ NotReclaimed(p)

UnlinkDead(p) ==
  /\ At(p, "unlinkDead")
  /\ seenToken[p] \in entries
  /\ entries' = entries \ {seenToken[p]}
  /\ Goto(p, "rmdirDead")
  /\ UNCHANGED <<dir, life, holding, observed, outcome, failed>>

UnlinkDeadFails(p) ==
  /\ At(p, "unlinkDead")
  /\ Fails(p, seenToken[p] \notin entries)
  /\ NotReclaimed(p)

\* rmdir again names the path.  Success returns true: look the lock up again.
Reclaim(p) ==
  /\ \/ At(p, "rmdirEmpty")
     \/ At(p, "rmdirDead")
  /\ dir # NoDir
  /\ entries = {}
  /\ RemovePath
  /\ Forget(p)
  /\ Goto(p, "lookup")
  /\ UNCHANGED <<entries, life, holding, outcome, failed>>

ReclaimFails(p) ==
  /\ \/ At(p, "rmdirEmpty")
     \/ At(p, "rmdirDead")
  /\ Fails(p, dir = NoDir \/ entries # {})
  /\ NotReclaimed(p)

\* Before the deadline: sleep 10 ms and go round again.
SleepAndRetry(p) ==
  /\ At(p, "deadline")
  /\ purpose' = [purpose EXCEPT ![p] = "none"]
  /\ Goto(p, "lookup")
  /\ UNCHANGED <<shared, life, ownToken, ownDir, observed, outcome, failed>>

\* After it: ExclusiveLockContentionError, of one kind or the other.
GiveUp(p) ==
  /\ At(p, "deadline")
  /\ outcome' = [outcome EXCEPT ![p] = IF purpose[p] = "retry" THEN "lost" ELSE "timeout"]
  /\ purpose' = [purpose EXCEPT ![p] = "none"]
  /\ Goto(p, "idle")
  /\ UNCHANGED <<shared, life, ownToken, ownDir, observed, failed>>

-----------------------------------------------------------------------------
(* Specification *)

Publish(p) ==
  \/ LookUp(p) \/ LookUpFails(p)
  \/ MakeDirectory(p) \/ MakeDirectoryFails(p) \/ DirectoryExists(p)
  \/ StatDirectory(p) \/ StatFails(p) \/ LinkOwner(p) \/ LinkFails(p)
  \/ VerifyOwned(p) \/ VerifyLost(p)

Remove(p) ==
  \/ UnlinkOwner(p) \/ UnlinkSkipped(p)
  \/ Recheck(p) \/ RecheckFails(p)
  \/ RemoveDirectory(p) \/ RemoveDirectoryFails(p)

AwaitRelease(p) ==
  \/ Await(p) \/ AwaitFails(p) \/ Observe(p) \/ ObserveFails(p)
  \/ ListEmpty(p) \/ ListOwner(p) \/ ListFails(p)
  \/ Restat(p) \/ RestatFails(p) \/ Relist(p) \/ RelistFails(p)
  \/ Judge(p) \/ JudgeFails(p) \/ Rejudge(p) \/ RejudgeFails(p)
  \/ UnlinkDead(p) \/ UnlinkDeadFails(p) \/ Reclaim(p) \/ ReclaimFails(p)
  \/ SleepAndRetry(p) \/ GiveUp(p)

Own(p) == AssertOwned(p) \/ AssertLost(p) \/ AssertFails(p) \/ Release(p)

Next ==
  \E p \in Procs :
    Start(p) \/ Exit(p) \/ Acquire(p) \/ Publish(p) \/ Own(p)
      \/ Remove(p) \/ AwaitRelease(p)

Spec == Init /\ [][Next]_vars

(***************************************************************************)
(* A live process that is acquiring or removing keeps running: the code    *)
(* between two calls is synchronous.  The clock advances, so a process     *)
(* that keeps reaching the deadline test reaches it after the deadline.    *)
(* Nothing is assumed of how long the lock is held, nor of who asks.       *)
(***************************************************************************)
Fairness ==
  \A p \in Procs :
    /\ WF_vars(Publish(p) \/ Remove(p) \/ AwaitRelease(p))
    /\ SF_vars(GiveUp(p))

FairSpec == Spec /\ Fairness

-----------------------------------------------------------------------------
(* Properties *)

Outcomes == {"none", "timeout", "lost", "error"}

\* Every variable keeps to the values the code can give it, and a lock path
\* that does not exist has no entries (rmdir refuses a directory in use).
TypeOK ==
  /\ dir \in Inodes \cup {NoDir}
  /\ entries \in SUBSET Tokens
  /\ dir = NoDir => entries = {}
  /\ life \in [Procs -> {"unborn", "alive", "dead"}]
  /\ pc \in [Procs -> Pcs]
  /\ ownToken \in [Procs -> Tokens \cup {NoToken}]
  /\ ownDir \in [Procs -> Inodes \cup {NoDir}]
  /\ purpose \in [Procs -> {"none", "retry", "release", "abandon"}]
  /\ seenDir \in [Procs -> Inodes \cup {NoDir}]
  /\ seenToken \in [Procs -> Tokens \cup {NoToken}]
  /\ outcome \in [Procs -> Outcomes]
  /\ failed \subseteq MayFail

\* p has a handle: from the ownership check to the unlink that releases it.
HasHandle(p) ==
  \/ pc[p] \in OwnPcs
  \/ pc[p] = "unlink" /\ purpose[p] = "release"

Holds(p) == Alive(p) /\ HasHandle(p)

\* No two running processes ever hold the lock, however creators, reclaimers
\* and releasers overtake each other and whenever they die (publishOwner,
\* reclaimStaleLockDirectory, removeOwnedLock).
MutualExclusion ==
  \A p, q \in Procs : Holds(p) /\ Holds(q) => p = q

\* While a process holds the lock its token stays published, in the very
\* directory it was published in: no reclaimer and no late removal by another
\* process takes either away (reclaimStaleLockDirectory, removeOwnedLock).
HolderStaysPublished ==
  \A p \in Procs : Holds(p) => dir = ownDir[p] /\ ownToken[p] \in entries

\* A token leaves the directory by its own process' hand, or after that
\* process has died: "a live verdict may delay a reclaim; it can never cause
\* one", nor can an unreadable process table or a reused process id.
UnlinkedByOwnerOrAfterDeath ==
  [][\A t \in entries \ entries' :
       ~Alive(t[1]) \/ (pc[t[1]] = "unlink" /\ pc'[t[1]] # "unlink")]_vars

\* Without reclaimStaleEmptyDirectory the lock directory belongs to whoever
\* made it: an acquisition loses a lock it was given, or ends in an error, only
\* after a call of its own process has failed for a reason from outside.  What
\* others do, and whose calls of theirs fail when, makes it time out at worst.
DefaultOnlyTimesOut ==
  ~ReclaimEmpty => \A p \in Procs \ failed : outcome[p] \notin {"lost", "error"}

\* Without reclaimStaleEmptyDirectory a live process that is neither
\* acquiring, holding nor releasing has left no token behind to block others,
\* unless one of its own calls has failed for a reason from outside.
DefaultLeavesNoToken ==
  ~ReclaimEmpty =>
    \A t \in entries :
      Alive(t[1]) /\ t[1] \notin failed
        => pc[t[1]] \in {"verify", "owned", "running", "unlink"}

\* An opted-in reclaim lets "a stale paused creator ... lose the acquisition
\* and retry through the normal ownership check": then a process about to try
\* (again) cannot be blocked by a token of its own.
LoserCanRetry ==
  \A p \in Procs :
    At(p, "idle") \/ At(p, "lookup") => \A t \in entries : t[1] # p

\* Recovery of an empty directory removes the stale one it has checked:
\* "fresh empty directories ... remain protected".
FreshDirectoryProtected ==
  [][\A p \in Procs :
       At(p, "rmdirEmpty") /\ dir # NoDir /\ dir' = NoDir /\ pc'[p] = "lookup"
         => dir = seenDir[p]]_vars

\* Waiters do not keep each other from ending: an acquisition is granted or
\* refused, or its process dies, or other processes make the lock directory
\* again and again.  In that case it may never end: awaitLockRelease does not
\* look at the deadline when it finds the directory gone or has reclaimed it.
AcquisitionEnds ==
  \A p \in Procs :
    \/ []<>(\E q \in Procs \ {p} : pc[q] = "stat")
    \/ At(p, "lookup") ~> (pc[p] \in {"idle", "owned"} \/ ~Alive(p))

\* A dead owner does not outlast one attempt to acquire: its token goes,
\* unless the process that attempts dies too, or one of its calls fails for a
\* reason from outside ("a slow reclaim must not end in a timeout").
DeadOwnerCleared ==
  LET deadToken == \E t \in entries : life[t[1]] = "dead"
  IN  \A p \in Procs :
        (At(p, "lookup") /\ deadToken) ~> (~deadToken \/ ~Alive(p) \/ p \in failed)

(***************************************************************************)
(* Refinement: the lock belongs to the process whose published token has   *)
(* passed its ownership check, until that token is unlinked.               *)
(***************************************************************************)
Owns(p) == HasHandle(p) /\ ownToken[p] \in entries

owner == IF \E p \in Procs : Owns(p) THEN CHOOSE p \in Procs : Owns(p) ELSE NoProc

Service == INSTANCE LockService

\* The file-system protocol implements the abstract lock: granted to one
\* process, returned by it, or taken from it after its death.
ImplementsService == Service!Spec
=============================================================================
