SPECIFICATION Spec
CONSTANTS
  n1 = n1
  n2 = n2
  a1 = a1
  r1 = r1
  r2 = r2
  r3 = r3
  None = None
  Titles = {"one", "two"}
  ConditionSpecs = {n1, n2, a1}
  TitleOf <- MCTitleOf
  TypeOf <- MCTypeOf
  Given <- MCGiven
  PolicyEdits <- MCPolicyEdits
  PolicyIds = {1, 2}
  Conditions = {r1, r2, r3}
  KindOf <- MCKindOf
  Ids = {1, 2, 3}
  FaultKinds = {"get", "write", "lostWrite", "save", "delete", "lostDelete", "release", "crash", "resync"}
  MaxFaults = 1
  MaxUserOps = 3
INVARIANTS TypeOK AppliedIsTrue NoDuplicates ClaimsAreTrue
PROPERTIES NothingOutlives UserIntentSurvives PolicyWritesSurvive
CHECK_DEADLOCK FALSE
