---------------------- MODULE MCVerificationExecution ----------------------
(***************************************************************************)
(* VerificationExecution with two calls for one plan of an expensive check *)
(* and a preflight, from ledgers that earlier calls have left.             *)
(***************************************************************************)
EXTENDS VerificationExecution

CONSTANTS c1, c2, p, e, v1, v2, a1, a2

MCCalls      == {c1, c2}
MCPlan       == <<e, p>>
MCPreflight  == {p}
MCExpensive  == {e}
MCTrees      == {v1, v2}
MCAdmissions == {a1, a2}
MCMayForce   == {c2}

MCPass(check) ==
  [check |-> check, tree |-> v1, admission |-> a1, passed |-> TRUE, forced |-> FALSE]

\* Nothing; a pass; a pass, then a forced failure; both checks passed.
MCFoundLedgers ==
  {<<>>, <<MCPass(p)>>, <<MCPass(p), [MCPass(p) EXCEPT !.passed = FALSE, !.forced = TRUE]>>,
   <<MCPass(p), MCPass(e)>>}
=============================================================================
