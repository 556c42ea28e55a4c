------------------------- MODULE MCCheckpointStore -------------------------
(***************************************************************************)
(* CheckpointStore over two sessions that may run together, or one after   *)
(* the death of the other, and three accepted sets: from a marker that a   *)
(* power loss has taken, three replacements use up a reader's attempts,    *)
(* and a power loss that takes a published set leaves one before it and    *)
(* one after.  The sessions differ in nothing but their process ids.       *)
(***************************************************************************)
EXTENDS CheckpointStore, TLC

CONSTANTS a, b

MCProcs == {a, b}
MCPidOf == (a :> 1) @@ (b :> 2)
MCSessions == Permutations(MCProcs)
=============================================================================
