SPECIFICATION MergeSpec
CONSTANTS
  m1 = m1  m2 = m2
  b1 = b1  b2 = b2
  h1 = h1  h2 = h2
  Runs <- MCRuns
  Bases <- MCBases
  Heads <- MCHeads
  ExpectedBase = b1
  ExpectedHead = h1
  MaxAttempts = 2
INVARIANTS
  MergeTypeOK
  MergesAreAsAsked
PROPERTIES
  RejectionIsTrue
  SentRunsEnd
CHECK_DEADLOCK FALSE
