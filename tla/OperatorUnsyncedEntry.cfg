SPECIFICATION Spec
CONSTANTS
  c1 = c1  c2 = c2  c3 = c3
  p1 = p1  p2 = p2
  r1 = r1  r2 = r2
  b1 = b1  b2 = b2
  NoCall = NoCall
  Calls <- MCCalls
  Processes <- MCProcesses
  ProcessOf <- MCProcessOf
  Requests <- MCRequests
  Bindings <- MCBindings
  TargetOf <- MCTargetOf
  EntryFollows = FALSE
INVARIANT IntentOnDisk
CHECK_DEADLOCK FALSE
