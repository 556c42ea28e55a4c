CONSTANTS
  a = a
  b = b
  c = c
  Procs <- MCProcs
  Pids <- MCPidsApart
  PidOf <- MCPidOfApart
  Inodes = {i1, i2}
  NoDir = NoDir
  NoToken = NoToken
  NoProc = NoProc
  TokenIds = {1}
  MayFail = {b}
  ReclaimEmpty = TRUE
  VerdictMayLag = TRUE
SPECIFICATION Spec
INVARIANTS
  TypeOK
  MutualExclusion
  HolderStaysPublished
PROPERTIES
  ImplementsService
  UnlinkedByOwnerOrAfterDeath
CHECK_DEADLOCK FALSE
