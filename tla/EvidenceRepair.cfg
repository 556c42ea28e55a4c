SPECIFICATION MCSpec
CONSTANTS
  a = a  b = b  c = c
  k1 = k1  k2 = k2
  e1 = e1  e2 = e2
  NoProc = NoProc
  Procs <- MCProcs
  PidOf <- MCPidOf
  Keys <- MCKeys
  Epochs <- MCEpochs
  InitialLogs <- MCInitialLogs
  MaxEvents = 1
INVARIANTS
  TypeOK
  AckedNeverLost
  OneGenesisFirst
  ReadsSeeAcked
  RepairSparesWriters
  FoldIsByDefinition
PROPERTIES
  FlushedNeverVanishes
  PrefixOnlyGrows
CHECK_DEADLOCK FALSE
