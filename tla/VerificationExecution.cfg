SPECIFICATION VerificationSpec
CONSTANTS
  c1 = c1  c2 = c2
  p = p  e = e
  v1 = v1  v2 = v2
  a1 = a1  a2 = a2
  Calls <- MCCalls
  Plan <- MCPlan
  Preflight <- MCPreflight
  Expensive <- MCExpensive
  Trees <- MCTrees
  Admissions <- MCAdmissions
  FoundTree = v1
  FoundAdmission = a1
  MayForce <- MCMayForce
  FoundLedgers <- MCFoundLedgers
  MaxEdits = 2
  NoCall = NoCall
INVARIANTS
  VerificationTypeOK
  PassMeansProven
  OneRunPerRequest
CHECK_DEADLOCK FALSE
