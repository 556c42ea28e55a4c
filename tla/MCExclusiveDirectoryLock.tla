--------------------- MODULE MCExclusiveDirectoryLock ---------------------
(* Small instances of ExclusiveDirectoryLock. *)
EXTENDS ExclusiveDirectoryLock, TLC

CONSTANTS a, b, c

\* a and c are two instances that get the same process id, one after the other.
MCProcs == {a, b, c}
MCPids == {1, 2}
MCPidOf == (a :> 1) @@ (b :> 2) @@ (c :> 1)

\* Three processes that may all run together.
MCPidsApart == {1, 2, 3}
MCPidOfApart == (a :> 1) @@ (b :> 2) @@ (c :> 3)
============================================================================
