SPECIFICATION SupervisorSpec
CONSTANTS
  s1 = s1  s2 = s2
  NoProc = NoProc
  Supervisors <- MCSupervisors
  PidOf <- MCPidOf
INVARIANTS
  SupervisorTypeOK
  RunningHoldsLane
  CallerIsToldTheTruth
PROPERTY LaneRecovers
CHECK_DEADLOCK FALSE
