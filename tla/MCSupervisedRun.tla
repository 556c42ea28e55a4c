-------------------------- MODULE MCSupervisedRun --------------------------
(***************************************************************************)
(* SupervisedRun with two supervisors that ask for one lane.               *)
(***************************************************************************)
EXTENDS SupervisedRun, TLC

CONSTANTS s1, s2

MCSupervisors == {s1, s2}
MCPidOf == (s1 :> 1) @@ (s2 :> 2)
=============================================================================
