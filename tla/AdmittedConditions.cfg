SPECIFICATION FairSpec
CONSTANTS
  c1 = c1
  c2 = c2
  c3 = c3
  c4 = c4
  p1 = p1
  p2 = p2
  None = None
  NoPolicy = NoPolicy
  Conditions = {c1, c2, c3, c4}
  KindOf <- MCKindOf
  Specs <- MCSpecs
  NameOf <- MCNameOf
  SpecsFor <- MCSpecsFor
  Edits <- MCEdits
  Policies = {p1}
  Ids = {i1, i2}
  FaultKinds = {"delete", "lostDelete", "release", "lookup", "crash"}
  MaxFaults = 1
  MaxUserOps = 4
  MaxResources = 1
INVARIANTS TypeOK AppliedIsTrue
PROPERTIES NoRecordedLeak AdmittedReachNewRelic DeletionCompletes
CHECK_DEADLOCK FALSE
