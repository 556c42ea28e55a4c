SPECIFICATION FsSpec
CONSTANTS
  t1 = t1  t2 = t2
  dir = dir  new = new  text = text  asset = asset
  block = block  mine = mine  blob = blob  prose = prose
  Dir = Dir  Absent = Absent
  Transactions <- MCTransactions
  PlanOf <- MCPlanOf
  FoundFiles <- MCFiles
  FoundIndex <- MCIndex
  Inside <- MCInside
  Edits <- MCEdits
INVARIANTS
  NothingLost
  RolledBackAsFound
CHECK_DEADLOCK FALSE
