CONSTANTS
  a = a
  b = b
  c = c
  Procs <- MCProcs
  Pids <- MCPids
  PidOf <- MCPidOf
  Inodes = {i1}
  NoDir = NoDir
  NoToken = NoToken
  NoProc = NoProc
  TokenIds = {1, 2, 3}
  MayFail = {b}
  ReclaimEmpty = FALSE
  VerdictMayLag = FALSE
SPECIFICATION FairSpec
INVARIANTS
  DefaultOnlyTimesOut
  DefaultLeavesNoToken
PROPERTIES
  AcquisitionEnds
  DeadOwnerCleared
CHECK_DEADLOCK FALSE
