SPECIFICATION Spec
CONSTANTS
  a = a  b = b
  NoProc = NoProc
  NoMarker = NoMarker
  Malformed = Malformed
  Procs <- MCProcs
  PidOf <- MCPidOf
  MaxLedger = 2
SYMMETRY MCSessions
INVARIANTS
  TypeOK
  PublishedSurvives
  PublicationCovers
PROPERTIES
  ReadsFollowMarker
  MarkerNeverGoesBack
CHECK_DEADLOCK FALSE
