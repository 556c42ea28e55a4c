---------------------------- MODULE LockService ----------------------------
(***************************************************************************)
(* What src/effects/locking/exclusive-directory-lock.ts promises its       *)
(* callers, with no file system in sight: at most one process owns the     *)
(* lock; the lock is given back by its owner, or taken from an owner that  *)
(* has exited and from no other.  ExclusiveDirectoryLock implements it.    *)
(***************************************************************************)
CONSTANTS
  Procs,    \* the processes that ever run, each one process instance
  PidOf,    \* the process id each of them runs under; ids are reused
  NoProc    \* "nobody owns the lock"; not a process

VARIABLES
  owner,    \* the process the lock is assigned to, or NoProc
  life      \* "unborn", "alive" or "dead", per process

vars == <<owner, life>>

Alive(p) == life[p] = "alive"

Init ==
  /\ owner = NoProc
  /\ life = [p \in Procs |-> "unborn"]

\* The operating system gives a process id to one running process at a time.
Start(p) ==
  /\ life[p] = "unborn"
  /\ \A q \in Procs : Alive(q) => PidOf[q] # PidOf[p]
  /\ life' = [life EXCEPT ![p] = "alive"]
  /\ UNCHANGED owner

Exit(p) ==
  /\ Alive(p)
  /\ life' = [life EXCEPT ![p] = "dead"]
  /\ UNCHANGED owner

Acquire(p) ==
  /\ Alive(p)
  /\ owner = NoProc
  /\ owner' = p
  /\ UNCHANGED life

Release(p) ==
  /\ Alive(p)
  /\ owner = p
  /\ owner' = NoProc
  /\ UNCHANGED life

ReclaimFromDead(p) ==
  /\ owner = p
  /\ life[p] = "dead"
  /\ owner' = NoProc
  /\ UNCHANGED life

Next ==
  \E p \in Procs :
    Start(p) \/ Exit(p) \/ Acquire(p) \/ Release(p) \/ ReclaimFromDead(p)

Spec == Init /\ [][Next]_vars
=============================================================================
