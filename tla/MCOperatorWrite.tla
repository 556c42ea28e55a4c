-------------------------- MODULE MCOperatorWrite --------------------------
(***************************************************************************)
(* OperatorWrite with two calls in a server and one in a later process.    *)
(***************************************************************************)
EXTENDS OperatorWrite

CONSTANTS c1, c2, c3, p1, p2, r1, r2, b1, b2

MCCalls     == {c1, c2, c3}
MCProcesses == {p1, p2}
MCProcessOf == (c1 :> p1) @@ (c2 :> p1) @@ (c3 :> p2)
MCRequests  == {r1, r2}
MCBindings  == {b1, b2}

\* Each binding names a target of its own; two requests may ask for the same one.
MCTargetOf == (b1 :> b1) @@ (b2 :> b2)

\* The calls of the server, the requests and the bindings are interchangeable.
MCSymmetry ==
  Permutations({c1, c2}) \cup Permutations(MCRequests) \cup Permutations(MCBindings)
=============================================================================
