-------------------------- MODULE MCMergeExecutor --------------------------
(***************************************************************************)
(* MergeExecutor with two runs for one pull request, one other tip of the  *)
(* base branch and one other head.                                         *)
(***************************************************************************)
EXTENDS MergeExecutor

CONSTANTS m1, m2, b1, b2, h1, h2

MCRuns  == {m1, m2}
MCBases == {b1, b2}
MCHeads == {h1, h2}
=============================================================================
